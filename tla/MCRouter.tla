------------------------------ MODULE MCRouter ------------------------------
(***************************************************************************)
(* Small instances of Router: patterns that overlap in every way.          *)
(***************************************************************************)
EXTENDS Router

Lit(n)  == [kind |-> "literal", name |-> n]
Par(n)  == [kind |-> "param", name |-> n]
Wild(n) == [kind |-> "wildcard", name |-> n]
Pat(s)  == [segs |-> s, slash |-> FALSE]

AnyOf(s) == [method |-> anyMethod, pattern |-> Pat(s)]
Get(s)  == [method |-> "GET", pattern |-> Pat(s)]
Post(s) == [method |-> "POST", pattern |-> Pat(s)]

MCRegistrations ==
  {Get(<<Lit("a"), Lit("b")>>), AnyOf(<<Lit("a"), Lit("b")>>),        \* static
   Get(<<Lit("a"), Par("x")>>), Post(<<Lit("a"), Par("x")>>),
   AnyOf(<<Lit("a"), Par("x")>>),
   [method |-> "GET", pattern |-> [segs |-> <<Lit("a"), Par("x")>>, slash |-> TRUE]],
   AnyOf(<<Par("x"), Lit("b")>>), Get(<<Par("x"), Par("y")>>), Get(<<Par("y"), Lit("b")>>),
   Post(<<Lit("a"), Wild("w")>>), Get(<<Wild("w")>>),
   Get(<<Lit("a"), Lit(""), Par("x")>>),                             \* "/a//:x"
   Get(<<Par("x"), Par("x")>>), Get(<<Wild("w"), Lit("b")>>)}        \* rejected

At(s) == [segs |-> s, slash |-> FALSE]

MCRequests ==
  [method : {"GET", "POST", "PUT"},
   path : {At(<<>>), At(<<"a">>), At(<<"a", "b">>), At(<<"a", "c">>),
           [segs |-> <<"a", "b">>, slash |-> TRUE],
           At(<<"c", "b">>), At(<<"a", "", "c">>)}]
=============================================================================
