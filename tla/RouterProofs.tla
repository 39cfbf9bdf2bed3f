---------------------------- MODULE RouterProofs ----------------------------
(***************************************************************************)
(* Proofs about Router, for every set of registrations and of requests.    *)
(***************************************************************************)
EXTENDS Router, SequenceTheorems, WellFoundedInduction, TLAPS

-----------------------------------------------------------------------------
(* Induction over sets of numbers.                                         *)

\* A set of numbers that is not empty has a least one.
LEMMA LeastElement ==
  ASSUME NEW T \in SUBSET Nat, T # {}
  PROVE  \E x \in T : \A y \in T : x <= y
<1>1. \E x \in T : \A y \in T : ~(<<y, x>> \in OpToRel(<, Nat))
  BY NatLessThanWellFounded, WFMin
<1>2. PICK x \in T : \A y \in T : ~(<<y, x>> \in OpToRel(<, Nat))
  BY <1>1
<1>3. \A y \in T : <<y, x>> \in OpToRel(<, Nat) <=> y < x
  BY DEF OpToRel
<1>4. \A y \in T : ~(y < x)
  BY <1>2, <1>3, Zenon
<1> QED BY <1>4

\* Induction, as a fact about sets.
LEMMA SetInduction ==
  ASSUME NEW T, 0 \in T, \A n \in Nat : n \in T => n + 1 \in T
  PROVE  Nat \subseteq T
<1> DEFINE U == {n \in Nat : n \notin T}
<1> SUFFICES ASSUME U # {} PROVE FALSE
  OBVIOUS
<1>1. PICK x \in U : \A y \in U : x <= y
  BY LeastElement
<1>2. x # 0 /\ x - 1 \in Nat /\ x - 1 \notin U
  BY <1>1
<1> QED BY <1>1, <1>2

\* A function on 1..n is a sequence of length n.
LEMMA MakeSeq ==
  ASSUME NEW S, NEW n \in Nat, NEW f \in [1..n -> S]
  PROVE  f \in Seq(S) /\ Len(f) = n /\ DOMAIN f = 1..n
<1>1. f \in Seq(S)
  BY SeqDef
<1> QED BY <1>1

-----------------------------------------------------------------------------
(* FlattenSeq: the elements of the parts, in order.                        *)

IsFlat(f, ss, n) == f = [i \in 1..n |-> IF i = 1 THEN ss[i] ELSE f[i - 1] \o ss[i]]

\* The recursion that defines FlattenSeq has a solution.
LEMMA FlatExists == ASSUME NEW ss PROVE \A n \in Nat : \E f : IsFlat(f, ss, n)
<1> DEFINE T == {n \in Nat : \E f : IsFlat(f, ss, n)}
<1>1. 0 \in T
  <2> DEFINE f == [i \in 1..0 |-> 0]
  <2>1. f = [i \in 1..0 |-> IF i = 1 THEN ss[i] ELSE f[i - 1] \o ss[i]]
    OBVIOUS
  <2> HIDE DEF f
  <2> QED BY <2>1 DEF IsFlat
<1>2. ASSUME NEW n \in Nat, n \in T PROVE n + 1 \in T
  <2>1. PICK f : IsFlat(f, ss, n)
    BY <1>2
  <2> DEFINE g == [i \in 1..n + 1 |-> IF i = 1 THEN ss[i] ELSE f[i - 1] \o ss[i]]
  <2>2. ASSUME NEW i \in 1..n + 1, i # 1 PROVE g[i - 1] = f[i - 1]
    <3>1. i - 1 \in 1..n /\ i - 1 \in 1..n + 1
      BY <2>2
    <3>2. f[i - 1] = IF i - 1 = 1 THEN ss[i - 1] ELSE f[i - 1 - 1] \o ss[i - 1]
      BY <2>1, <3>1 DEF IsFlat
    <3>3. g[i - 1] = IF i - 1 = 1 THEN ss[i - 1] ELSE f[i - 1 - 1] \o ss[i - 1]
      BY <3>1
    <3> QED BY <3>2, <3>3
  <2>3. g = [i \in 1..n + 1 |-> IF i = 1 THEN ss[i] ELSE g[i - 1] \o ss[i]]
    BY <2>2
  <2> HIDE DEF g
  <2>4. \E h : IsFlat(h, ss, n + 1)
    BY <2>3 DEF IsFlat
  <2> QED BY <2>4
<1> HIDE DEF T
<1>3. Nat \subseteq T
  BY <1>1, <1>2, SetInduction
<1> QED BY <1>3 DEF T

\* FlattenSeq is the last value of a solution.
LEMMA FlatValue ==
  ASSUME NEW ss, Len(ss) \in Nat, Len(ss) # 0
  PROVE  \E f : IsFlat(f, ss, Len(ss)) /\ FlattenSeq(ss) = f[Len(ss)]
<1> DEFINE n == Len(ss)
<1> DEFINE g == CHOOSE f : f = [i \in 1..n |-> IF i = 1 THEN ss[i] ELSE f[i - 1] \o ss[i]]
<1>1. \E f : f = [i \in 1..n |-> IF i = 1 THEN ss[i] ELSE f[i - 1] \o ss[i]]
  BY FlatExists DEF IsFlat
<1>2. g = [i \in 1..n |-> IF i = 1 THEN ss[i] ELSE g[i - 1] \o ss[i]]
  BY <1>1
<1>3. FlattenSeq(ss) = g[n]
  BY DEF FlattenSeq
<1> HIDE DEF g
<1> QED BY <1>2, <1>3 DEF IsFlat

\* F holds the elements of the first n parts: at j the element off[j] of part
\* blk[j], every element once, in order.
Flattens(F, ss, n, blk, off) ==
  /\ blk \in [1..Len(F) -> 1..n]
  /\ off \in [1..Len(F) -> Nat]
  /\ \A j \in 1..Len(F) : off[j] \in DOMAIN ss[blk[j]] /\ F[j] = ss[blk[j]][off[j]]
  /\ \A j, k \in 1..Len(F) :
       j < k => blk[j] < blk[k] \/ (blk[j] = blk[k] /\ off[j] < off[k])
  /\ \A b \in 1..n : \A o \in DOMAIN ss[b] : \E j \in 1..Len(F) : blk[j] = b /\ off[j] = o

\* One part more.
LEMMA FlattensMore ==
  ASSUME NEW S, NEW ss \in Seq(Seq(S)), NEW n \in Nat, n + 1 \in DOMAIN ss,
         NEW F \in Seq(S), NEW blk, NEW off, Flattens(F, ss, n, blk, off)
  PROVE  \E b, o : Flattens(F \o ss[n + 1], ss, n + 1, b, o)
<1> DEFINE s == ss[n + 1]
           G == F \o s
           l == Len(F)
           b2 == [j \in 1..l + Len(s) |-> IF j <= l THEN blk[j] ELSE n + 1]
           o2 == [j \in 1..l + Len(s) |-> IF j <= l THEN off[j] ELSE j - l]
<1>1. /\ s \in Seq(S) /\ Len(s) \in Nat /\ l \in Nat /\ DOMAIN s = 1..Len(s) /\ DOMAIN F = 1..l
      /\ Len(G) = l + Len(s)
      /\ \A j \in 1..l : G[j] = F[j]
      /\ \A j \in l + 1..l + Len(s) : G[j] = s[j - l]
  OBVIOUS
<1> HIDE DEF s, G, l
<1>2. /\ blk \in [1..l -> 1..n] /\ off \in [1..l -> Nat]
      /\ \A j \in 1..l : off[j] \in DOMAIN ss[blk[j]] /\ F[j] = ss[blk[j]][off[j]]
      /\ \A j, k \in 1..l : j < k => blk[j] < blk[k] \/ (blk[j] = blk[k] /\ off[j] < off[k])
      /\ \A b \in 1..n : \A o \in DOMAIN ss[b] : \E j \in 1..l : blk[j] = b /\ off[j] = o
  BY DEF Flattens, l
<1>3. b2 \in [1..l + Len(s) -> 1..n + 1] /\ o2 \in [1..l + Len(s) -> Nat]
  BY <1>1, <1>2
<1>4. ASSUME NEW j \in 1..l + Len(s)
      PROVE  o2[j] \in DOMAIN ss[b2[j]] /\ G[j] = ss[b2[j]][o2[j]]
  <2>1. CASE j <= l
    BY <2>1, <1>1, <1>2
  <2>2. CASE ~(j <= l)
    <3>1. b2[j] = n + 1 /\ o2[j] = j - l /\ j - l \in 1..Len(s) /\ j \in l + 1..l + Len(s)
      BY <2>2, <1>1
    <3>2. ss[n + 1] = s
      BY DEF s
    <3> QED BY <3>1, <3>2, <1>1
  <2> QED BY <2>1, <2>2
<1>5. ASSUME NEW j \in 1..l + Len(s), NEW k \in 1..l + Len(s), j < k
      PROVE  b2[j] < b2[k] \/ (b2[j] = b2[k] /\ o2[j] < o2[k])
  <2>1. CASE k <= l
    <3>1. j \in 1..l /\ k \in 1..l /\ j <= l
      BY <2>1, <1>5, <1>1
    <3>2. b2[j] = blk[j] /\ b2[k] = blk[k] /\ o2[j] = off[j] /\ o2[k] = off[k]
      BY <2>1, <3>1
    <3> QED BY <3>1, <3>2, <1>5, <1>2
  <2>2. CASE ~(k <= l) /\ j <= l
    <3>1. blk[j] \in 1..n
      BY <2>2, <1>1, <1>2
    <3> QED BY <2>2, <3>1
  <2>3. CASE ~(j <= l)
    BY <2>3, <1>5, <1>1
  <2> QED BY <2>1, <2>2, <2>3, <1>1
<1>6. ASSUME NEW b \in 1..n + 1, NEW o \in DOMAIN ss[b]
      PROVE  \E j \in 1..l + Len(s) : b2[j] = b /\ o2[j] = o
  <2>1. CASE b \in 1..n
    <3>1. PICK j \in 1..l : blk[j] = b /\ off[j] = o
      BY <2>1, <1>2
    <3>2. j \in 1..l + Len(s) /\ j <= l
      BY <1>1
    <3> QED BY <3>1, <3>2
  <2>2. CASE b = n + 1
    <3>1. o \in 1..Len(s)
      BY <2>2, <1>1 DEF s
    <3>2. l + o \in 1..l + Len(s) /\ ~(l + o <= l) /\ l + o - l = o
      BY <3>1, <1>1
    <3>3. PICK j \in 1..l + Len(s) : j = l + o
      BY <3>2
    <3>4. ~(j <= l) /\ j - l = o
      <4>1. l \in Nat /\ o \in Nat /\ o > 0
        BY <3>1, <1>1
      <4> QED BY <3>3, <4>1
    <3>5. b2[j] = n + 1 /\ o2[j] = j - l
      BY <3>4
    <3> HIDE DEF b2, o2
    <3> QED BY <2>2, <3>4, <3>5
  <2> QED BY <2>1, <2>2
<1> HIDE DEF b2, o2
<1>7. Flattens(G, ss, n + 1, b2, o2)
  <2>1. Len(G) = l + Len(s)
    BY <1>1
  <2> QED BY <2>1, <1>3, <1>4, <1>5, <1>6 DEF Flattens
<1> QED BY <1>7 DEF G, s

\* What FlattenSeq returns.
LEMMA Flattened ==
  ASSUME NEW S, NEW ss \in Seq(Seq(S))
  PROVE  /\ FlattenSeq(ss) \in Seq(S)
         /\ \E blk, off : Flattens(FlattenSeq(ss), ss, Len(ss), blk, off)
<1>1. CASE Len(ss) = 0
  <2>1. FlattenSeq(ss) = ss /\ ss = <<>>
    BY <1>1 DEF FlattenSeq
  <2> DEFINE z == [j \in {} |-> 0]
  <2>2. Len(ss) = 0
    BY <1>1
  <2>3. Flattens(ss, ss, 0, z, z)
    BY <2>2 DEF Flattens
  <2> HIDE DEF z
  <2>4. <<>> \in Seq(S)
    OBVIOUS
  <2> QED BY <1>1, <2>1, <2>3, <2>4
<1>2. CASE Len(ss) # 0
  <2>1. PICK f : IsFlat(f, ss, Len(ss)) /\ FlattenSeq(ss) = f[Len(ss)]
    BY <1>2, FlatValue
  <2> DEFINE T == {n \in Nat : n + 1 \in DOMAIN ss =>
                     f[n + 1] \in Seq(S) /\ \E b, o : Flattens(f[n + 1], ss, n + 1, b, o)}
  <2>2. \A i \in 1..Len(ss) : f[i] = IF i = 1 THEN ss[i] ELSE f[i - 1] \o ss[i]
    BY <2>1 DEF IsFlat
  <2>3. 0 \in T
    <3>1. f[1] = ss[1] /\ 1 \in DOMAIN ss /\ ss[1] \in Seq(S)
      BY <1>2, <2>2
    <3> DEFINE e == << >>
               z == [j \in {} |-> 0]
    <3>2. e \in Seq(S) /\ Len(e) = 0 /\ e \o ss[1] = ss[1]
      BY <3>1
    <3>3. Flattens(e, ss, 0, z, z)
      BY <3>2 DEF Flattens
    <3> HIDE DEF e, z
    <3>4. \E b, o : Flattens(e \o ss[0 + 1], ss, 0 + 1, b, o)
      <4>1. 0 + 1 \in DOMAIN ss /\ 0 \in Nat
        BY <3>1
      <4> QED BY <4>1, <3>2, <3>3, FlattensMore
    <3> QED BY <3>1, <3>2, <3>4
  <2>4. ASSUME NEW n \in Nat, n \in T PROVE n + 1 \in T
    <3> SUFFICES ASSUME n + 1 + 1 \in DOMAIN ss
                 PROVE  /\ f[n + 1 + 1] \in Seq(S)
                        /\ \E b, o : Flattens(f[n + 1 + 1], ss, n + 1 + 1, b, o)
      OBVIOUS
    <3>0. n + 1 \in DOMAIN ss /\ n + 1 + 1 \in 1..Len(ss) /\ n + 1 + 1 # 1 /\ n + 1 + 1 - 1 = n + 1
      OBVIOUS
    <3>1. n + 1 \in DOMAIN ss /\ f[n + 1 + 1] = f[n + 1] \o ss[n + 1 + 1]
      <4> DEFINE i == n + 1 + 1
      <4>1. f[i] = IF i = 1 THEN ss[i] ELSE f[i - 1] \o ss[i]
        BY <3>0, <2>2
      <4>2. i - 1 = n + 1 /\ i # 1
        BY <3>0
      <4> HIDE DEF i
      <4>3. f[i] = f[n + 1] \o ss[i]
        BY <4>1, <4>2
      <4> QED BY <3>0, <4>3 DEF i
    <3>2. f[n + 1] \in Seq(S)
      BY <2>4, <3>1
    <3>3. PICK b, o : Flattens(f[n + 1], ss, n + 1, b, o)
      BY <2>4, <3>1
    <3>4. \E c, d : Flattens(f[n + 1] \o ss[n + 1 + 1], ss, n + 1 + 1, c, d)
      BY <3>2, <3>3, FlattensMore
    <3> QED BY <3>1, <3>2, <3>4
  <2> HIDE DEF T
  <2>5. Nat \subseteq T
    BY <2>3, <2>4, SetInduction
  <2>6. Len(ss) - 1 \in Nat /\ Len(ss) - 1 + 1 \in DOMAIN ss /\ Len(ss) - 1 + 1 = Len(ss)
    BY <1>2
  <2> QED BY <2>1, <2>5, <2>6 DEF T
<1> QED BY <1>1, <1>2

-----------------------------------------------------------------------------
(* The nodes of the trie.                                                  *)

\* What parseRouteSegments has checked, of the segments that lead to a node.
GoodNode(n) ==
  /\ n \in Seq(Segment)
  /\ \A i, j \in DOMAIN n :
       n[i].kind # "literal" /\ n[j].kind # "literal" /\ n[j].name = n[i].name => j = i
  /\ \A i \in DOMAIN n : n[i].kind = "wildcard" => i = Len(n)

\* The edges of a pattern are good: they are its segments, in order.
LEMMA EdgesGood ==
  ASSUME NEW p \in Pattern, validSegments(p)
  PROVE  GoodNode(edges(p))
<1> DEFINE ss == [i \in DOMAIN p.segs |-> IF p.segs[i].name = "" THEN <<>> ELSE <<p.segs[i]>>]
           F == FlattenSeq(ss)
<1>1. p.segs \in Seq(Segment) /\ Len(p.segs) \in Nat /\ DOMAIN p.segs = 1..Len(p.segs)
  BY DEF Pattern
<1>2. ASSUME NEW i \in DOMAIN p.segs
      PROVE  /\ ss[i] \in Seq(Segment)
             /\ \A o \in DOMAIN ss[i] : o = 1 /\ ss[i][o] = p.segs[i]
  <2> DEFINE x == p.segs[i]
  <2>1. x \in Segment
    BY <1>1
  <2>2. ss[i] = IF x.name = "" THEN <<>> ELSE <<x>>
    OBVIOUS
  <2> HIDE DEF ss
  <2>3. CASE x.name = ""
    <3>1. ss[i] = <<>>
      BY <2>2, <2>3
    <3> QED BY <3>1, EmptySeq
  <2>4. CASE x.name # ""
    <3>1. ss[i] = <<x>>
      BY <2>2, <2>4
    <3> HIDE DEF x
    <3>2. <<x>> \in Seq(Segment) /\ DOMAIN <<x>> = {1} /\ <<x>>[1] = x
      BY <2>1
    <3> QED BY <3>1, <3>2 DEF x
  <2> QED BY <2>3, <2>4
<1>3. ss \in Seq(Seq(Segment)) /\ Len(ss) = Len(p.segs)
  <2>1. ss \in [1..Len(p.segs) -> Seq(Segment)]
    <3>1. ss = [i \in 1..Len(p.segs) |-> ss[i]] /\ \A i \in 1..Len(p.segs) : ss[i] \in Seq(Segment)
      BY <1>1, <1>2
    <3> HIDE DEF ss
    <3> QED BY <3>1
  <2> HIDE DEF ss
  <2> QED BY <2>1, <1>1, MakeSeq
<1> HIDE DEF ss
<1>5. F \in Seq(Segment) /\ \E blk, off : Flattens(F, ss, Len(ss), blk, off)
  BY <1>3, Flattened
<1>6. PICK blk, off : Flattens(F, ss, Len(ss), blk, off)
  BY <1>5
<1> HIDE DEF F
<1>7. F \in Seq(Segment) /\ Len(F) \in Nat /\ DOMAIN F = 1..Len(F)
  BY <1>5
<1>8. ASSUME NEW j \in DOMAIN F
      PROVE  blk[j] \in DOMAIN p.segs /\ off[j] = 1 /\ F[j] = p.segs[blk[j]]
  <2>1. /\ blk[j] \in DOMAIN p.segs /\ off[j] \in DOMAIN ss[blk[j]]
        /\ F[j] = ss[blk[j]][off[j]]
    BY <1>1, <1>3, <1>6, <1>7 DEF Flattens
  <2> QED BY <2>1, <1>2
<1>9. ASSUME NEW j \in DOMAIN F, NEW k \in DOMAIN F, j < k PROVE blk[j] < blk[k]
  <2>1. blk[j] < blk[k] \/ off[j] < off[k]
    BY <1>6, <1>7, <1>9 DEF Flattens
  <2> QED BY <2>1, <1>8
<1>10. ASSUME NEW j \in DOMAIN F, NEW k \in DOMAIN F,
              F[j].kind # "literal", F[k].kind # "literal", F[k].name = F[j].name
       PROVE  k = j
  <2>0. /\ blk[j] \in DOMAIN p.segs /\ p.segs[blk[j]].kind # "literal"
        /\ blk[k] \in DOMAIN p.segs /\ p.segs[blk[k]].kind # "literal"
        /\ p.segs[blk[k]].name = p.segs[blk[j]].name
    BY <1>8, <1>10
  <2>1. blk[j] = blk[k]
    BY <2>0 DEF validSegments
  <2>2. blk[j] \in Nat /\ j \in Nat /\ k \in Nat
    BY <1>1, <1>7, <1>8
  <2> QED BY <2>1, <2>2, <1>9
<1>11. ASSUME NEW j \in DOMAIN F, F[j].kind = "wildcard" PROVE j = Len(F)
  <2>0. blk[j] \in DOMAIN p.segs /\ p.segs[blk[j]].kind = "wildcard"
    BY <1>8, <1>11
  <2>1. blk[j] = Len(p.segs)
    BY <2>0 DEF validSegments
  <2>2. CASE j < Len(F)
    <3>1. Len(F) \in DOMAIN F
      BY <2>2, <1>7
    <3>2. blk[j] < blk[Len(F)] /\ blk[Len(F)] \in 1..Len(p.segs)
      BY <2>2, <3>1, <1>1, <1>8, <1>9
    <3> QED BY <2>1, <3>2, <1>1
  <2> QED BY <2>2, <1>7
<1>12. GoodNode(F)
  BY <1>7, <1>10, <1>11 DEF GoodNode
<1> QED BY <1>12 DEF edges, F, ss

Wild(n) == Len(n) > 0 /\ n[Len(n)].kind = "wildcard"

\* The index at which the search reaches node n.
IndexOf(n, segs) == IF Wild(n) THEN Len(segs) + 1 ELSE Len(n) + 1

\* The search gets to node n.
PrefixFits(n, segs) ==
  /\ Len(n) <= (IF Wild(n) THEN Len(segs) + 1 ELSE Len(segs))
  /\ \A i \in 1..Len(n) : n[i].kind = "literal" => n[i].name = segs[i]

\* A node fits if the search gets to it and uses up the path.
LEMMA FitsIsReached ==
  ASSUME NEW n, GoodNode(n), NEW segs \in Seq(STRING)
  PROVE  FitsSegs(n, segs) <=> PrefixFits(n, segs) /\ IndexOf(n, segs) = Len(segs) + 1
<1>1. n \in Seq(Segment) /\ Len(n) \in Nat /\ Len(segs) \in Nat /\ DOMAIN n = 1..Len(n)
  BY DEF GoodNode
<1>2. CASE Wild(n)
  <2>1. /\ Len(n) > 0 /\ n[Len(n)].kind = "wildcard" /\ IndexOf(n, segs) = Len(segs) + 1
    BY <1>2 DEF Wild, IndexOf
  <2>2. FitsSegs(n, segs) <=> /\ Len(segs) >= Len(n) - 1
                              /\ \A i \in 1..Len(n) - 1 : n[i].kind = "literal" => n[i].name = segs[i]
    BY <2>1 DEF FitsSegs
  <2>3. PrefixFits(n, segs) <=> /\ Len(n) <= Len(segs) + 1
                                /\ \A i \in 1..Len(n) : n[i].kind = "literal" => n[i].name = segs[i]
    BY <1>2 DEF PrefixFits
  <2>4. \A i \in 1..Len(n) : i \in 1..Len(n) - 1 \/ n[i].kind # "literal"
    BY <1>1, <2>1
  <2>5. Len(segs) >= Len(n) - 1 <=> Len(n) <= Len(segs) + 1
    BY <1>1
  <2>6. \A i \in 1..Len(n) - 1 : i \in 1..Len(n)
    BY <1>1
  <2> QED BY <2>1, <2>2, <2>3, <2>4, <2>5, <2>6
<1>3. CASE ~Wild(n)
  <2>1. ~(Len(n) > 0 /\ n[Len(n)].kind = "wildcard") /\ IndexOf(n, segs) = Len(n) + 1
    BY <1>3 DEF Wild, IndexOf
  <2>2. FitsSegs(n, segs) <=> /\ Len(segs) = Len(n)
                              /\ \A i \in 1..Len(n) : n[i].kind = "literal" => n[i].name = segs[i]
    BY <2>1 DEF FitsSegs
  <2>3. PrefixFits(n, segs) <=> /\ Len(n) <= Len(segs)
                                /\ \A i \in 1..Len(n) : n[i].kind = "literal" => n[i].name = segs[i]
    BY <1>3 DEF PrefixFits
  <2> QED BY <1>1, <2>1, <2>2, <2>3
<1> QED BY <1>2, <1>3

\* What the i-th edge of node n takes of the path.
ValueAt(n, i, segs) == IF n[i].kind = "param" THEN <<segs[i]>> ELSE SubSeq(segs, i, Len(segs))

ParamsOf(n) == {i \in DOMAIN n : n[i].kind # "literal"}

\* The values that a good node binds.
LEMMA BoundValue ==
  ASSUME NEW n, GoodNode(n), NEW segs
  PROVE  /\ Bound(n, segs) = [name \in {n[i].name : i \in ParamsOf(n)} |-> Bound(n, segs)[name]]
         /\ \A i \in ParamsOf(n) : Bound(n, segs)[n[i].name] = ValueAt(n, i, segs)
<1> DEFINE At(name) == CHOOSE i \in DOMAIN n : n[i].kind # "literal" /\ n[i].name = name
           N == {n[i].name : i \in ParamsOf(n)}
           f == [name \in N |-> IF n[At(name)].kind = "param" THEN <<segs[At(name)]>>
                                ELSE SubSeq(segs, At(name), Len(segs))]
<1>1. Bound(n, segs) = f
  BY DEF Bound, ParamsOf
<1>2. ASSUME NEW i \in ParamsOf(n) PROVE At(n[i].name) = i
  <2>1. i \in DOMAIN n /\ n[i].kind # "literal"
    BY DEF ParamsOf
  <2>2. \A j \in DOMAIN n : n[j].kind # "literal" /\ n[j].name = n[i].name => j = i
    BY <2>1 DEF GoodNode
  <2> QED BY <2>1, <2>2
<1> HIDE DEF At
<1>3. \A i \in ParamsOf(n) : n[i].name \in N
  OBVIOUS
<1>4. ASSUME NEW i \in ParamsOf(n) PROVE f[n[i].name] = ValueAt(n, i, segs)
  BY <1>2, <1>3 DEF ValueAt
<1> HIDE DEF N
<1>5. f = [name \in N |-> f[name]]
  OBVIOUS
<1> HIDE DEF f
<1> QED BY <1>1, <1>4, <1>5 DEF N

\* The edges of a node and one more.
LEMMA ChildShape ==
  ASSUME NEW n \in Seq(Segment), NEW e \in Segment
  PROVE  /\ Append(n, e) \in Seq(Segment)
         /\ Len(n) \in Nat /\ Len(Append(n, e)) = Len(n) + 1
         /\ DOMAIN n = 1..Len(n) /\ DOMAIN Append(n, e) = 1..Len(n) + 1
         /\ \A i \in 1..Len(n) : Append(n, e)[i] = n[i]
         /\ Append(n, e)[Len(n) + 1] = e
  OBVIOUS

\* A node with a child is good and does not end in a wildcard.
LEMMA ParentGood ==
  ASSUME NEW n \in Seq(Segment), NEW e \in Segment, GoodNode(Append(n, e))
  PROVE  GoodNode(n) /\ ~Wild(n)
<1> DEFINE c == Append(n, e)
<1>1. /\ c \in Seq(Segment)
      /\ Len(n) \in Nat /\ Len(c) = Len(n) + 1
      /\ DOMAIN n = 1..Len(n) /\ DOMAIN c = 1..Len(n) + 1
      /\ \A i \in 1..Len(n) : c[i] = n[i]
  BY ChildShape
<1>2. GoodNode(c)
  OBVIOUS
<1> HIDE DEF c
<1>3. \A i \in 1..Len(n) : i \in 1..Len(n) + 1 /\ i # Len(n) + 1
  BY <1>1
<1>4. \A i \in DOMAIN n : n[i].kind # "wildcard"
  BY <1>1, <1>2, <1>3 DEF GoodNode
<1>5. \A i, j \in DOMAIN n :
        n[i].kind # "literal" /\ n[j].kind # "literal" /\ n[j].name = n[i].name => j = i
  BY <1>1, <1>2, <1>3 DEF GoodNode
<1>6. ~Wild(n)
  <2>1. Len(n) > 0 => Len(n) \in DOMAIN n
    BY <1>1
  <2> QED BY <1>4, <2>1 DEF Wild
<1> QED BY <1>4, <1>5, <1>6 DEF GoodNode

\* What a child binds: what its parent binds and its own parameter.
LEMMA BoundChild ==
  ASSUME NEW n \in Seq(Segment), NEW e \in Segment, GoodNode(Append(n, e)), NEW segs
  PROVE  Bound(Append(n, e), segs) =
           IF e.kind = "literal" THEN Bound(n, segs)
           ELSE withRouteParam(Bound(n, segs), e.name, ValueAt(Append(n, e), Len(n) + 1, segs))
<1> DEFINE c == Append(n, e)
           B == Bound(n, segs)
           C == Bound(c, segs)
           N(x) == {x[i].name : i \in ParamsOf(x)}
<1>1. /\ Len(n) \in Nat /\ DOMAIN n = 1..Len(n) /\ DOMAIN c = 1..Len(n) + 1
      /\ \A i \in 1..Len(n) : c[i] = n[i]
      /\ c[Len(n) + 1] = e
  BY ChildShape
<1>2. GoodNode(c) /\ GoodNode(n)
  BY ParentGood
<1>3. /\ B = [name \in N(n) |-> B[name]]
      /\ \A i \in ParamsOf(n) : B[n[i].name] = ValueAt(n, i, segs)
  BY <1>2, BoundValue
<1>4. /\ C = [name \in N(c) |-> C[name]]
      /\ \A i \in ParamsOf(c) : C[c[i].name] = ValueAt(c, i, segs)
  BY <1>2, BoundValue
<1> HIDE DEF c, B, C
<1>5. \A i \in ParamsOf(n) : /\ i \in ParamsOf(c) /\ i \in 1..Len(n) /\ c[i] = n[i]
                             /\ ValueAt(c, i, segs) = ValueAt(n, i, segs)
  BY <1>1 DEF ParamsOf, ValueAt
<1>6. \A i \in ParamsOf(c) : i \in ParamsOf(n) \/ (i = Len(n) + 1 /\ e.kind # "literal")
  BY <1>1 DEF ParamsOf
<1>7. \A i \in ParamsOf(n) : n[i].name \in N(c) /\ C[n[i].name] = B[n[i].name]
  <2> SUFFICES ASSUME NEW i \in ParamsOf(n) PROVE n[i].name \in N(c) /\ C[n[i].name] = B[n[i].name]
    OBVIOUS
  <2>1. i \in ParamsOf(c) /\ c[i] = n[i] /\ ValueAt(c, i, segs) = ValueAt(n, i, segs)
    BY <1>5
  <2>2. c[i].name \in N(c)
    BY <2>1
  <2>3. C[c[i].name] = ValueAt(c, i, segs) /\ B[n[i].name] = ValueAt(n, i, segs)
    BY <2>1, <1>3, <1>4
  <2> HIDE DEF N
  <2> QED BY <2>1, <2>2, <2>3
<1>8. \A x \in N(n) : x \in N(c) /\ C[x] = B[x]
  BY <1>7
<1>9. CASE e.kind = "literal"
  <2>1. N(c) = N(n)
    BY <1>5, <1>6, <1>9
  <2> HIDE DEF N
  <2>2. C = B
    BY <2>1, <1>3, <1>4, <1>8
  <2> QED BY <1>9, <2>2 DEF C, B, c
<1>10. CASE e.kind # "literal"
  <2> DEFINE v == ValueAt(c, Len(n) + 1, segs)
             D == [x \in {e.name} \cup N(n) |-> IF x \in {e.name} THEN v ELSE B[x]]
  <2>1. Len(n) + 1 \in ParamsOf(c)
    BY <1>1, <1>10 DEF ParamsOf
  <2>2. e.name \in N(c) /\ C[e.name] = v
    BY <2>1, <1>1, <1>4
  <2>3. N(c) = {e.name} \cup N(n)
    BY <1>1, <1>5, <1>6, <1>8, <2>2
  <2> HIDE DEF N, v
  <2>4. C = D
    <3>1. \A x \in {e.name} \cup N(n) : C[x] = IF x \in {e.name} THEN v ELSE B[x]
      BY <1>8, <2>2
    <3>2. C = [x \in {e.name} \cup N(n) |-> C[x]]
      BY <1>4, <2>3
    <3> QED BY <3>1, <3>2
  <2>5. DOMAIN B = N(n)
    BY <1>3
  <2>6. withRouteParam(B, e.name, v) = D
    <3>1. DOMAIN [k \in {e.name} |-> v] = {e.name} /\ [k \in {e.name} |-> v][e.name] = v
      OBVIOUS
    <3> QED BY <2>5, <3>1 DEF withRouteParam, put, putAll
  <2> QED BY <1>10, <2>4, <2>6 DEF C, B, c, v
<1> QED BY <1>9, <1>10

-----------------------------------------------------------------------------
(* The search.                                                             *)

MethodMap == UNION {[D -> Nat] : D \in SUBSET STRING}

Route == [pattern : Pattern, methods : MethodMap]

\* The trie is a tree: its nodes are closed under prefixes, and the children
\* of a node are the nodes that extend it, each named once.
TrieOK(trie) ==
  /\ <<>> \in DOMAIN trie
  /\ \A n \in DOMAIN trie :
       /\ GoodNode(n)
       /\ \A k \in 0..Len(n) : SubSeq(n, 1, k) \in DOMAIN trie
       /\ trie[n] \in [routes : Seq(Route), literal : Seq(STRING), param : Seq(STRING),
                       wildcard : Seq(STRING)]
       /\ \A kind \in Kinds :
            /\ \A i, j \in DOMAIN trie[n][kind] : trie[n][kind][i] = trie[n][kind][j] => i = j
            /\ \A name \in STRING :
                 name \in Range(trie[n][kind])
                   <=> Append(n, [kind |-> kind, name |-> name]) \in DOMAIN trie

\* What the search holds of node n: the call for it (r = 0) or its route r.
item(n, segs, r) ==
  [node |-> n, index |-> IndexOf(n, segs), params |-> Bound(n, segs), route |-> r]

Items(trie, segs) == {item(n, segs, r) : n \in DOMAIN trie, r \in Nat}

\* The call for a child is the one that matchSegments makes.
LEMMA ChildItem ==
  ASSUME NEW n \in Seq(Segment), NEW e \in Segment, GoodNode(Append(n, e)),
         NEW segs \in Seq(STRING), NEW v, v = item(n, segs, 0)
  PROVE  /\ v.index = Len(n) + 1
         /\ e.kind = "literal" =>
              item(Append(n, e), segs, 0) = visit(Append(n, e), v.index + 1, v.params)
         /\ e.kind = "param" =>
              item(Append(n, e), segs, 0) =
                visit(Append(n, e), v.index + 1, withRouteParam(v.params, e.name, <<segs[v.index]>>))
         /\ e.kind = "wildcard" =>
              item(Append(n, e), segs, 0) =
                visit(Append(n, e), Len(segs) + 1,
                      withRouteParam(v.params, e.name, SubSeq(segs, v.index, Len(segs))))
<1> DEFINE c == Append(n, e)
<1>1. GoodNode(n) /\ ~Wild(n)
  BY ParentGood
<1>2. /\ Len(n) \in Nat /\ Len(c) = Len(n) + 1 /\ c[Len(n) + 1] = e
  BY ChildShape
<1>3. v.index = Len(n) + 1 /\ v.params = Bound(n, segs)
  BY <1>1 DEF item, IndexOf
<1>4. Bound(c, segs) = IF e.kind = "literal" THEN v.params
                       ELSE withRouteParam(v.params, e.name, ValueAt(c, Len(n) + 1, segs))
  BY <1>3, BoundChild
<1> HIDE DEF c
<1>5. Wild(c) <=> e.kind = "wildcard"
  BY <1>2 DEF Wild
<1>6. IndexOf(c, segs) = IF e.kind = "wildcard" THEN Len(segs) + 1 ELSE v.index + 1
  BY <1>2, <1>3, <1>5 DEF IndexOf
<1>7. item(c, segs, 0) = visit(c, IndexOf(c, segs), Bound(c, segs))
  BY DEF item, visit
<1>8. ValueAt(c, Len(n) + 1, segs) = IF e.kind = "param" THEN <<segs[v.index]>>
                                     ELSE SubSeq(segs, v.index, Len(segs))
  BY <1>2, <1>3 DEF ValueAt
<1>9. e.kind = "literal" => item(c, segs, 0) = visit(c, v.index + 1, v.params)
  BY <1>4, <1>6, <1>7
<1>10. e.kind = "param" => item(c, segs, 0) =
         visit(c, v.index + 1, withRouteParam(v.params, e.name, <<segs[v.index]>>))
  BY <1>4, <1>6, <1>7, <1>8
<1>11. e.kind = "wildcard" => item(c, segs, 0) =
         visit(c, Len(segs) + 1, withRouteParam(v.params, e.name, SubSeq(segs, v.index, Len(segs))))
  BY <1>4, <1>6, <1>7, <1>8
<1> QED BY <1>3, <1>9, <1>10, <1>11 DEF c

edge(kind, name) == [kind |-> kind, name |-> name]

\* An edge of a node leads to a node.
LEMMA EdgeChild ==
  ASSUME NEW trie, TrieOK(trie), NEW n \in DOMAIN trie, NEW kind \in Kinds
  PROVE  /\ n \in Seq(Segment) /\ Len(n) \in Nat /\ GoodNode(n)
         /\ trie[n][kind] \in Seq(STRING) /\ trie[n].routes \in Seq(Route)
         /\ \A i \in DOMAIN trie[n][kind] :
              /\ edge(kind, trie[n][kind][i]) \in Segment
              /\ Append(n, edge(kind, trie[n][kind][i])) \in DOMAIN trie
              /\ GoodNode(Append(n, edge(kind, trie[n][kind][i])))
<1>1. GoodNode(n) /\ n \in Seq(Segment)
  BY DEF TrieOK, GoodNode
<1>2. trie[n] \in [routes : Seq(Route), literal : Seq(STRING), param : Seq(STRING),
                   wildcard : Seq(STRING)]
  BY DEF TrieOK
<1>3. trie[n][kind] \in Seq(STRING) /\ trie[n].routes \in Seq(Route)
  BY <1>2 DEF Kinds
<1>4. ASSUME NEW i \in DOMAIN trie[n][kind]
      PROVE  /\ edge(kind, trie[n][kind][i]) \in Segment
             /\ Append(n, edge(kind, trie[n][kind][i])) \in DOMAIN trie
  <2> DEFINE x == trie[n][kind][i]
  <2>1. x \in STRING /\ x \in Range(trie[n][kind])
    BY <1>3 DEF Range
  <2>2. Append(n, [kind |-> kind, name |-> x]) \in DOMAIN trie
    BY <2>1 DEF TrieOK
  <2> QED BY <2>1, <2>2 DEF edge, Segment
<1>5. \A c \in DOMAIN trie : GoodNode(c)
  BY DEF TrieOK
<1> QED BY <1>1, <1>3, <1>4, <1>5

terminals(trie, n, segs) == [r \in DOMAIN trie[n].routes |-> item(n, segs, r)]

kids(trie, n, segs, kind) ==
  [i \in DOMAIN trie[n][kind] |-> item(Append(n, edge(kind, trie[n][kind][i])), segs, 0)]

literalKid(trie, n, segs) ==
  IF segs[Len(n) + 1] \in Range(trie[n].literal)
  THEN <<item(Append(n, edge("literal", segs[Len(n) + 1])), segs, 0)>> ELSE <<>>

\* What a call of matchSegments appends, in terms of nodes.
LEMMA CallAppends ==
  ASSUME NEW trie, TrieOK(trie), NEW segs \in Seq(STRING), NEW n \in DOMAIN trie,
         PrefixFits(n, segs)
  PROVE  matchSegments(trie, segs, item(n, segs, 0)) =
           IF IndexOf(n, segs) = Len(segs) + 1
           THEN terminals(trie, n, segs) \o kids(trie, n, segs, "wildcard")
           ELSE inOrder(literalKid(trie, n, segs), kids(trie, n, segs, "param"),
                        kids(trie, n, segs, "wildcard"))
<1> DEFINE v == item(n, segs, 0)
           node == trie[v.node]
           end  == Len(segs) + 1
           Child(kind, name) == Append(v.node, [kind |-> kind, name |-> name])
           Took(name, value) == withRouteParam(v.params, name, value)
           lit  == IF segs[v.index] \in Range(node.literal)
                   THEN <<visit(Child("literal", segs[v.index]), v.index + 1, v.params)>> ELSE <<>>
           par  == [i \in DOMAIN node.param |->
                      visit(Child("param", node.param[i]), v.index + 1,
                            Took(node.param[i], <<segs[v.index]>>))]
           wild == [i \in DOMAIN node.wildcard |->
                      visit(Child("wildcard", node.wildcard[i]), end,
                            Took(node.wildcard[i], SubSeq(segs, v.index, Len(segs))))]
<1>1. matchSegments(trie, segs, v) =
        IF v.index = end THEN terminalMatches(trie, v) \o wild ELSE inOrder(lit, par, wild)
  BY DEF matchSegments
<1>2. v.node = n /\ v.index = IndexOf(n, segs) /\ v.route = 0
  BY DEF item
<1>3. terminalMatches(trie, v) = terminals(trie, n, segs)
  <2>1. \A r : [v EXCEPT !.route = r] = item(n, segs, r)
    BY DEF item
  <2> HIDE DEF v
  <2> QED BY <1>2, <2>1 DEF terminalMatches, terminals
<1>4. wild = kids(trie, n, segs, "wildcard")
  <2>1. "wildcard" \in Kinds
    BY DEF Kinds
  <2>2. ASSUME NEW i \in DOMAIN trie[n].wildcard
        PROVE  visit(Append(n, edge("wildcard", trie[n].wildcard[i])), end,
                     Took(trie[n].wildcard[i], SubSeq(segs, v.index, Len(segs))))
                 = item(Append(n, edge("wildcard", trie[n].wildcard[i])), segs, 0)
    <3> DEFINE e == edge("wildcard", trie[n].wildcard[i])
    <3>1. n \in Seq(Segment) /\ e \in Segment /\ GoodNode(Append(n, e))
      BY <2>1, EdgeChild
    <3>2. e.kind = "wildcard" /\ e.name = trie[n].wildcard[i]
      BY DEF edge
    <3> HIDE DEF e, v
    <3>3. v = item(n, segs, 0)
      BY DEF v
    <3>4. item(Append(n, e), segs, 0) =
            visit(Append(n, e), Len(segs) + 1,
                  withRouteParam(v.params, e.name, SubSeq(segs, v.index, Len(segs))))
      BY <3>1, <3>2, <3>3, ChildItem
    <3> QED BY <3>2, <3>4 DEF e
  <2> HIDE DEF v
  <2> QED BY <1>2, <2>2 DEF kids, edge
<1>5. par = kids(trie, n, segs, "param")
  <2>1. "param" \in Kinds
    BY DEF Kinds
  <2>2. ASSUME NEW i \in DOMAIN trie[n].param
        PROVE  visit(Append(n, edge("param", trie[n].param[i])), v.index + 1,
                     Took(trie[n].param[i], <<segs[v.index]>>))
                 = item(Append(n, edge("param", trie[n].param[i])), segs, 0)
    <3> DEFINE e == edge("param", trie[n].param[i])
    <3>1. n \in Seq(Segment) /\ e \in Segment /\ GoodNode(Append(n, e))
      BY <2>1, EdgeChild
    <3>2. e.kind = "param" /\ e.name = trie[n].param[i]
      BY DEF edge
    <3> HIDE DEF e, v
    <3>3. v = item(n, segs, 0)
      BY DEF v
    <3>4. item(Append(n, e), segs, 0) =
            visit(Append(n, e), v.index + 1, withRouteParam(v.params, e.name, <<segs[v.index]>>))
      BY <3>1, <3>2, <3>3, ChildItem
    <3> QED BY <3>2, <3>4 DEF e
  <2> HIDE DEF v
  <2> QED BY <1>2, <2>2 DEF kids, edge
<1>6. ASSUME v.index # end PROVE lit = literalKid(trie, n, segs)
  <2>1. v.index = Len(n) + 1
    BY <1>2, <1>6 DEF IndexOf
  <2>2. CASE segs[v.index] \in Range(trie[n].literal)
    <3>0. "literal" \in Kinds
      BY DEF Kinds
    <3>1. PICK i \in DOMAIN trie[n].literal : trie[n].literal[i] = segs[v.index]
      BY <2>2 DEF Range
    <3> DEFINE e == edge("literal", trie[n].literal[i])
    <3>2. n \in Seq(Segment) /\ e \in Segment /\ GoodNode(Append(n, e))
      BY <3>0, EdgeChild
    <3>3. e.kind = "literal" /\ e = [kind |-> "literal", name |-> segs[v.index]]
      BY <3>1 DEF edge
    <3> HIDE DEF e, v
    <3>4. v = item(n, segs, 0)
      BY DEF v
    <3>5. item(Append(n, e), segs, 0) = visit(Append(n, e), v.index + 1, v.params)
      <4>1. e.kind = "literal"
        BY <3>3
      <4> QED BY <3>2, <3>4, <4>1, ChildItem
    <3>6. Child("literal", segs[v.index]) = Append(n, e)
      BY <1>2, <3>3
    <3>7. e = edge("literal", segs[Len(n) + 1])
      BY <2>1, <3>3 DEF edge
    <3>8. lit = <<visit(Append(n, e), v.index + 1, v.params)>>
      BY <2>2, <1>2, <3>6
    <3>9. literalKid(trie, n, segs) = <<item(Append(n, e), segs, 0)>>
      BY <2>1, <2>2, <3>7 DEF literalKid
    <3> QED BY <3>5, <3>8, <3>9
  <2>3. CASE segs[v.index] \notin Range(trie[n].literal)
    <3> HIDE DEF v
    <3> QED BY <1>2, <2>1, <2>3 DEF literalKid
  <2> QED BY <2>2, <2>3
<1> HIDE DEF lit, par, wild
<1>7. matchSegments(trie, segs, v) =
        IF v.index = end THEN terminals(trie, n, segs) \o kids(trie, n, segs, "wildcard")
        ELSE inOrder(literalKid(trie, n, segs), kids(trie, n, segs, "param"),
                     kids(trie, n, segs, "wildcard"))
  BY <1>1, <1>3, <1>4, <1>5, <1>6
<1> QED BY <1>2, <1>7

\* When the search gets to a child.
LEMMA ChildFits ==
  ASSUME NEW n \in Seq(Segment), NEW e \in Segment, GoodNode(Append(n, e)),
         NEW segs \in Seq(STRING)
  PROVE  PrefixFits(Append(n, e), segs) <=>
           /\ PrefixFits(n, segs)
           /\ e.kind = "wildcard" \/ Len(n) < Len(segs)
           /\ e.kind = "literal" => e.name = segs[Len(n) + 1]
<1> DEFINE c == Append(n, e)
<1>1. GoodNode(n) /\ ~Wild(n)
  BY ParentGood
<1>2. /\ Len(n) \in Nat /\ Len(c) = Len(n) + 1 /\ c[Len(n) + 1] = e
      /\ \A i \in 1..Len(n) : c[i] = n[i]
  BY ChildShape
<1> HIDE DEF c
<1>3. Wild(c) <=> e.kind = "wildcard"
  BY <1>2 DEF Wild
<1>4. \A i : i \in 1..Len(n) + 1 <=> i \in 1..Len(n) \/ i = Len(n) + 1
  BY <1>2
<1>5. PrefixFits(n, segs) <=> /\ Len(n) <= Len(segs)
                              /\ \A i \in 1..Len(n) : n[i].kind = "literal" => n[i].name = segs[i]
  BY <1>1 DEF PrefixFits
<1>6. PrefixFits(c, segs) <=>
        /\ Len(n) + 1 <= (IF e.kind = "wildcard" THEN Len(segs) + 1 ELSE Len(segs))
        /\ \A i \in 1..Len(n) + 1 : c[i].kind = "literal" => c[i].name = segs[i]
  BY <1>2, <1>3 DEF PrefixFits
<1>7. (\A i \in 1..Len(n) + 1 : c[i].kind = "literal" => c[i].name = segs[i]) <=>
        /\ \A i \in 1..Len(n) : n[i].kind = "literal" => n[i].name = segs[i]
        /\ e.kind = "literal" => e.name = segs[Len(n) + 1]
  BY <1>2, <1>4
<1>8. Len(segs) \in Nat
  OBVIOUS
<1>9. Len(n) + 1 <= (IF e.kind = "wildcard" THEN Len(segs) + 1 ELSE Len(segs)) <=>
        Len(n) <= Len(segs) /\ (e.kind = "wildcard" \/ Len(n) < Len(segs))
  BY <1>2, <1>8
<1> QED BY <1>5, <1>6, <1>7, <1>9 DEF c

\* The node at depth p on the way to e.
Cut(e, p) == [i \in 1..p |-> e[i]]

\* Node e comes before node f: they part at p, where e is more specific, or the
\* edges are of one kind and ages has that of e before that of f.
Earlier(ages, e, f, p) ==
  /\ p \in 1..Len(f) /\ p <= Len(e) + 1
  /\ \A i \in 1..p - 1 : e[i] = f[i]
  /\ p <= Len(e) => e[p] # f[p]
  /\ \/ Rank(e, p) < Rank(f, p)
     \/ Rank(e, p) = Rank(f, p) /\ p <= Len(e) /\ <<Cut(e, p), Cut(f, p)>> \in ages

\* x may stand before y in the list of the search.
Before(ages, x, y) ==
  \/ x.node = y.node /\ x.route # 0 /\ y.route # 0 /\ x.route < y.route
  \/ \E p \in Nat : Earlier(ages, x.node, y.node, p) /\ (p > Len(x.node) => x.route # 0)

Sorted(ages, s) == \A a, b \in DOMAIN s : a < b => Before(ages, s[a], s[b])

\* The concatenation of two sorted lists.
LEMMA SortedConcat ==
  ASSUME NEW ages, NEW S, NEW s \in Seq(S), NEW t \in Seq(S), Sorted(ages, s), Sorted(ages, t),
         \A a \in DOMAIN s : \A b \in DOMAIN t : Before(ages, s[a], t[b])
  PROVE  Sorted(ages, s \o t)
<1> DEFINE u == s \o t
           l == Len(s)
<1>1. /\ l \in Nat /\ Len(t) \in Nat
      /\ DOMAIN s = 1..l /\ DOMAIN t = 1..Len(t) /\ DOMAIN u = 1..l + Len(t)
      /\ \A j \in 1..l : u[j] = s[j]
      /\ \A j \in l + 1..l + Len(t) : u[j] = t[j - l]
  OBVIOUS
<1> HIDE DEF u, l
<1>2. SUFFICES ASSUME NEW a \in DOMAIN u, NEW b \in DOMAIN u, a < b PROVE Before(ages, u[a], u[b])
  BY DEF Sorted, u
<1>3. CASE b <= l
  <2>1. a \in DOMAIN s /\ b \in DOMAIN s /\ u[a] = s[a] /\ u[b] = s[b]
    BY <1>1, <1>2, <1>3
  <2> QED BY <2>1, <1>2 DEF Sorted
<1>4. CASE a <= l /\ ~(b <= l)
  <2>1. a \in DOMAIN s /\ b - l \in DOMAIN t /\ u[a] = s[a] /\ u[b] = t[b - l]
    BY <1>1, <1>2, <1>4
  <2> QED BY <2>1
<1>5. CASE ~(a <= l) /\ ~(b <= l)
  <2>0. a \in l + 1..l + Len(t) /\ b \in l + 1..l + Len(t) /\ a - l < b - l
    BY <1>1, <1>2, <1>5
  <2>1. a - l \in DOMAIN t /\ b - l \in DOMAIN t /\ u[a] = t[a - l] /\ u[b] = t[b - l] /\ a - l < b - l
    BY <1>1, <2>0
  <2> QED BY <2>1 DEF Sorted
<1>6. a \in Nat /\ b \in Nat
  BY <1>1, <1>2
<1> QED BY <1>1, <1>2, <1>3, <1>4, <1>5, <1>6

\* The node at its own depth is the node.
LEMMA WholeCut ==
  ASSUME NEW e \in Seq(Segment), NEW p, p = Len(e)
  PROVE  Cut(e, p) = e
<1>1. e = [i \in 1..p |-> e[i]]
  OBVIOUS
<1> QED BY <1>1 DEF Cut

Level(kind) == CASE kind = "literal" -> 1 [] kind = "param" -> 2 [] OTHER -> 3

\* Two children of a node are in order if their kinds are, or else their ages.
LEMMA ChildBefore ==
  ASSUME NEW ages, NEW n \in Seq(Segment), NEW d \in Segment, NEW e \in Segment, d # e,
         \/ Level(d.kind) < Level(e.kind)
         \/ Level(d.kind) = Level(e.kind) /\ <<Append(n, d), Append(n, e)>> \in ages,
         NEW segs
  PROVE  Before(ages, item(Append(n, d), segs, 0), item(Append(n, e), segs, 0))
<1> DEFINE x == Append(n, d)
           y == Append(n, e)
           p == Len(n) + 1
<1>1. /\ Len(n) \in Nat /\ Len(x) = p /\ Len(y) = p /\ x[p] = d /\ y[p] = e
      /\ \A i \in 1..Len(n) : x[i] = y[i]
  BY ChildShape
<1>2. p \in Nat /\ p \in 1..p /\ p - 1 = Len(n) /\ ~(p > p) /\ p <= p + 1
  BY <1>1
<1> HIDE DEF x, y, p
<1>3. Rank(x, p) = Level(d.kind) /\ Rank(y, p) = Level(e.kind)
  BY <1>1, <1>2 DEF Rank, Level
<1>4. Earlier(ages, x, y, p)
  <2>1. x \in Seq(Segment) /\ y \in Seq(Segment)
    BY ChildShape DEF x, y
  <2>2. Cut(x, p) = x /\ Cut(y, p) = y
    BY <1>1, <1>2, <2>1, WholeCut
  <2>3. \/ Rank(x, p) < Rank(y, p)
        \/ Rank(x, p) = Rank(y, p) /\ p <= Len(x) /\ <<Cut(x, p), Cut(y, p)>> \in ages
    BY <1>1, <1>2, <1>3, <2>2 DEF x, y
  <2> QED BY <1>1, <1>2, <2>3 DEF Earlier
<1>5. item(x, segs, 0).node = x /\ item(y, segs, 0).node = y
  BY DEF item
<1>6. Before(ages, item(x, segs, 0), item(y, segs, 0))
  BY <1>1, <1>2, <1>4, <1>5 DEF Before
<1> QED BY <1>6 DEF x, y

\* A route of a node comes before the children of the node.
LEMMA RouteBefore ==
  ASSUME NEW ages, NEW n \in Seq(Segment), NEW e \in Segment, NEW r \in Nat \ {0}, NEW segs
  PROVE  Before(ages, item(n, segs, r), item(Append(n, e), segs, 0))
<1> DEFINE y == Append(n, e)
           p == Len(n) + 1
<1>1. /\ Len(n) \in Nat /\ Len(y) = p /\ y[p] = e
      /\ \A i \in 1..Len(n) : n[i] = y[i]
  BY ChildShape
<1>2. p \in Nat /\ p \in 1..p /\ p - 1 = Len(n) /\ p > Len(n) /\ ~(p <= Len(n)) /\ ~(p > p)
  BY <1>1
<1>3. p <= Len(n) + 1
  BY <1>1
<1> HIDE DEF y, p
<1>4. Rank(n, p) < Rank(y, p)
  BY <1>1, <1>2 DEF Rank
<1>5. Earlier(ages, n, y, p)
  BY <1>1, <1>2, <1>3, <1>4 DEF Earlier
<1>6. item(n, segs, r).node = n /\ item(n, segs, r).route = r /\ item(y, segs, 0).node = y
  BY DEF item
<1>7. Before(ages, item(n, segs, r), item(y, segs, 0))
  BY <1>2, <1>5, <1>6 DEF Before
<1> QED BY <1>7 DEF y

\* The edges of a kind that a node lists, each before those that follow it.
EdgeOrder(trie) ==
  {w \in Seq(Segment) \X Seq(Segment) :
     \E n \in DOMAIN trie, kind \in Kinds : \E i, j \in DOMAIN trie[n][kind] :
       /\ i < j
       /\ w[1] = Append(n, edge(kind, trie[n][kind][i]))
       /\ w[2] = Append(n, edge(kind, trie[n][kind][j]))}

\* The list s holds the calls for the children of n of a kind that fit.
CallsFor(s, trie, n, segs, kind) ==
  /\ s \in Seq(Items(trie, segs))
  /\ \A j \in DOMAIN s : \E e \in Segment :
       /\ e.kind = kind /\ Append(n, e) \in DOMAIN trie /\ PrefixFits(Append(n, e), segs)
       /\ s[j] = item(Append(n, e), segs, 0)
  /\ \A e \in Segment :
       e.kind = kind /\ Append(n, e) \in DOMAIN trie /\ PrefixFits(Append(n, e), segs)
         => \E j \in DOMAIN s : s[j] = item(Append(n, e), segs, 0)
  /\ Sorted(EdgeOrder(trie), s)

\* The items of nodes.
LEMMA ItemIn ==
  ASSUME NEW trie, NEW segs, NEW n \in DOMAIN trie, NEW r \in Nat
  PROVE  item(n, segs, r) \in Items(trie, segs)
  BY DEF Items

\* A segment is its kind and its name.
LEMMA SegmentIs ==
  ASSUME NEW e \in Segment
  PROVE  e = edge(e.kind, e.name) /\ e.kind \in Kinds /\ e.name \in STRING
  BY DEF Segment, edge

\* The children over edges of a kind, where every name fits.
LEMMA KidsOfKind ==
  ASSUME NEW trie, TrieOK(trie), NEW segs \in Seq(STRING), NEW n \in DOMAIN trie,
         PrefixFits(n, segs), NEW kind \in {"param", "wildcard"},
         kind = "wildcard" \/ Len(n) < Len(segs)
  PROVE  CallsFor(kids(trie, n, segs, kind), trie, n, segs, kind)
<1> DEFINE s == kids(trie, n, segs, kind)
           names == trie[n][kind]
           l == Len(names)
<1>0. kind \in Kinds /\ kind # "literal"
  BY DEF Kinds
<1>1. /\ n \in Seq(Segment) /\ Len(n) \in Nat /\ names \in Seq(STRING)
      /\ \A i \in DOMAIN names : /\ edge(kind, names[i]) \in Segment
                                /\ Append(n, edge(kind, names[i])) \in DOMAIN trie
                                /\ GoodNode(Append(n, edge(kind, names[i])))
  BY <1>0, EdgeChild
<1>2. /\ \A i, j \in DOMAIN names : names[i] = names[j] => i = j
      /\ \A name \in STRING : Append(n, edge(kind, name)) \in DOMAIN trie => name \in Range(names)
  BY <1>0 DEF TrieOK, edge
<1> HIDE DEF names
<1>3. l \in Nat /\ DOMAIN names = 1..l
  BY <1>1
<1>4. /\ DOMAIN s = 1..l
      /\ \A i \in DOMAIN s : s[i] = item(Append(n, edge(kind, names[i])), segs, 0)
      /\ s = [i \in 1..l |-> s[i]]
  BY <1>3 DEF kids, names
<1> HIDE DEF s, l
<1>5. ASSUME NEW i \in DOMAIN s
      PROVE  /\ edge(kind, names[i]) \in Segment /\ edge(kind, names[i]).kind = kind
             /\ Append(n, edge(kind, names[i])) \in DOMAIN trie
             /\ PrefixFits(Append(n, edge(kind, names[i])), segs)
  <2> DEFINE e == edge(kind, names[i])
  <2>1. e \in Segment /\ Append(n, e) \in DOMAIN trie /\ GoodNode(Append(n, e))
    BY <1>1, <1>3, <1>4
  <2>2. e.kind = kind
    BY DEF edge
  <2> HIDE DEF e
  <2>3. PrefixFits(Append(n, e), segs)
    BY <1>0, <1>1, <2>1, <2>2, ChildFits
  <2> QED BY <2>1, <2>2, <2>3 DEF e
<1>6. s \in Seq(Items(trie, segs))
  <2>1. \A i \in 1..l : s[i] \in Items(trie, segs)
    BY <1>4, <1>5, ItemIn
  <2>2. s \in [1..l -> Items(trie, segs)]
    BY <1>4, <2>1
  <2> QED BY <2>2, <1>3, MakeSeq
<1>7. ASSUME NEW e \in Segment, e.kind = kind, Append(n, e) \in DOMAIN trie
      PROVE  \E j \in DOMAIN s : s[j] = item(Append(n, e), segs, 0)
  <2>1. e = edge(kind, e.name) /\ e.name \in STRING
    BY <1>7, SegmentIs
  <2>2. e.name \in Range(names)
    BY <1>2, <1>7, <2>1
  <2>3. PICK j \in DOMAIN names : names[j] = e.name
    BY <2>2 DEF Range
  <2> QED BY <1>3, <1>4, <2>1, <2>3
<1>8. ASSUME NEW a \in DOMAIN s, NEW b \in DOMAIN s, a < b PROVE Before(EdgeOrder(trie), s[a], s[b])
  <2> DEFINE d == edge(kind, names[a])
             e == edge(kind, names[b])
  <2>1. d \in Segment /\ e \in Segment /\ d.kind = kind /\ e.kind = kind
    BY <1>5
  <2>2. d.name = names[a] /\ e.name = names[b] /\ a # b
    BY <1>4, <1>3, <1>8 DEF edge
  <2>3. d # e
    BY <2>2, <1>2, <1>3, <1>4
  <2> HIDE DEF d, e
  <2>4. Level(d.kind) = Level(e.kind)
    BY <2>1 DEF Level
  <2>5. <<Append(n, d), Append(n, e)>> \in EdgeOrder(trie)
    <3>1. Append(n, d) \in Seq(Segment) /\ Append(n, e) \in Seq(Segment)
      BY <1>1, <2>1, ChildShape
    <3>2. a \in DOMAIN trie[n][kind] /\ b \in DOMAIN trie[n][kind] /\ a < b
      BY <1>3, <1>4, <1>8 DEF names
    <3>3. d = edge(kind, trie[n][kind][a]) /\ e = edge(kind, trie[n][kind][b])
      BY DEF d, e, names
    <3> QED BY <1>0, <3>1, <3>2, <3>3 DEF EdgeOrder
  <2>6. Before(EdgeOrder(trie), item(Append(n, d), segs, 0), item(Append(n, e), segs, 0))
    BY <1>1, <2>1, <2>3, <2>4, <2>5, ChildBefore
  <2> QED BY <1>4, <2>6 DEF d, e
<1>9. ASSUME NEW j \in DOMAIN s
      PROVE  \E e \in Segment :
               /\ e.kind = kind /\ Append(n, e) \in DOMAIN trie /\ PrefixFits(Append(n, e), segs)
               /\ s[j] = item(Append(n, e), segs, 0)
  BY <1>4, <1>5
<1> QED BY <1>6, <1>7, <1>8, <1>9 DEF CallsFor, Sorted, s

\* The child over the literal edge that fits.
LEMMA KidOfLiteral ==
  ASSUME NEW trie, TrieOK(trie), NEW segs \in Seq(STRING), NEW n \in DOMAIN trie,
         PrefixFits(n, segs), Len(n) < Len(segs)
  PROVE  CallsFor(literalKid(trie, n, segs), trie, n, segs, "literal")
<1> DEFINE s == literalKid(trie, n, segs)
           x == segs[Len(n) + 1]
           c == edge("literal", x)
<1>0. "literal" \in Kinds
  BY DEF Kinds
<1>1. n \in Seq(Segment) /\ Len(n) \in Nat
  BY <1>0, EdgeChild
<1>2. x \in STRING
  <2>1. Len(n) + 1 \in 1..Len(segs)
    BY <1>1
  <2> QED BY <2>1
<1>3. x \in Range(trie[n].literal) <=> Append(n, c) \in DOMAIN trie
  BY <1>0, <1>2 DEF TrieOK, edge
<1>4. c \in Segment /\ c.kind = "literal" /\ c.name = x
  BY <1>0, <1>2 DEF edge, Segment
<1>5. \A m \in DOMAIN trie : GoodNode(m)
  BY DEF TrieOK
<1>6. s = IF x \in Range(trie[n].literal) THEN <<item(Append(n, c), segs, 0)>> ELSE <<>>
  BY DEF literalKid
<1> HIDE DEF s, x, c
<1>7. ASSUME NEW e \in Segment, e.kind = "literal", Append(n, e) \in DOMAIN trie,
             PrefixFits(Append(n, e), segs)
      PROVE  e = c
  <2>1. GoodNode(Append(n, e))
    BY <1>5, <1>7
  <2>2. e.name = x
    BY <1>1, <1>7, <2>1, ChildFits DEF x
  <2>3. e = edge("literal", x)
    BY <1>7, <2>2, SegmentIs
  <2> QED BY <2>3 DEF c
<1>8. CASE Append(n, c) \in DOMAIN trie
  <2> DEFINE y == item(Append(n, c), segs, 0)
  <2>1. s = <<y>>
    BY <1>3, <1>6, <1>8
  <2>2. GoodNode(Append(n, c))
    BY <1>5, <1>8
  <2>3. PrefixFits(Append(n, c), segs)
    <3>1. c.name = segs[Len(n) + 1]
      BY <1>4 DEF x
    <3> QED BY <1>1, <1>4, <2>2, <3>1, ChildFits
  <2>4. y \in Items(trie, segs)
    BY <1>8, ItemIn
  <2> HIDE DEF y
  <2>5. s \in Seq(Items(trie, segs)) /\ DOMAIN s = {1} /\ s[1] = y
    BY <2>1, <2>4
  <2>6. Sorted(EdgeOrder(trie), s)
    BY <2>5 DEF Sorted
  <2>7. \A j \in DOMAIN s : \E e \in Segment :
          /\ e.kind = "literal" /\ Append(n, e) \in DOMAIN trie /\ PrefixFits(Append(n, e), segs)
          /\ s[j] = item(Append(n, e), segs, 0)
    BY <1>4, <1>8, <2>3, <2>5 DEF y
  <2>8. \A e \in Segment :
          e.kind = "literal" /\ Append(n, e) \in DOMAIN trie /\ PrefixFits(Append(n, e), segs)
            => \E j \in DOMAIN s : s[j] = item(Append(n, e), segs, 0)
    BY <1>7, <2>5 DEF y
  <2> QED BY <2>5, <2>6, <2>7, <2>8 DEF CallsFor, s
<1>9. CASE Append(n, c) \notin DOMAIN trie
  <2>1. s = <<>>
    BY <1>3, <1>6, <1>9
  <2>2. s \in Seq(Items(trie, segs)) /\ DOMAIN s = {}
    BY <2>1, EmptySeq
  <2>3. Sorted(EdgeOrder(trie), s)
    BY <2>2 DEF Sorted
  <2>4. \A e \in Segment :
          ~(e.kind = "literal" /\ Append(n, e) \in DOMAIN trie /\ PrefixFits(Append(n, e), segs))
    BY <1>7, <1>9
  <2> QED BY <2>2, <2>3, <2>4 DEF CallsFor, s
<1> QED BY <1>8, <1>9

\* What the call for node n contributes to the list: its routes, if the path is
\* used up, and the calls for the children that fit.
RouteOf(x, trie, n, segs) ==
  /\ IndexOf(n, segs) = Len(segs) + 1
  /\ \E r \in DOMAIN trie[n].routes : x = item(n, segs, r)

KidOf(x, trie, n, segs) ==
  \E e \in Segment : /\ Append(n, e) \in DOMAIN trie /\ PrefixFits(Append(n, e), segs)
                     /\ x = item(Append(n, e), segs, 0)

Contributes(out, trie, n, segs) ==
  /\ out \in Seq(Items(trie, segs))
  /\ \A j \in DOMAIN out : RouteOf(out[j], trie, n, segs) \/ KidOf(out[j], trie, n, segs)
  /\ \A x : RouteOf(x, trie, n, segs) \/ KidOf(x, trie, n, segs) => \E j \in DOMAIN out : out[j] = x
  /\ Sorted(EdgeOrder(trie), out)

\* The elements of u are those of s and t.
Joins(u, s, t) ==
  /\ \A j \in DOMAIN u : (\E i \in DOMAIN s : u[j] = s[i]) \/ (\E i \in DOMAIN t : u[j] = t[i])
  /\ \A i \in DOMAIN s : \E j \in DOMAIN u : u[j] = s[i]
  /\ \A i \in DOMAIN t : \E j \in DOMAIN u : u[j] = t[i]

\* The elements of a concatenation.
LEMMA ConcatElements ==
  ASSUME NEW S, NEW s \in Seq(S), NEW t \in Seq(S)
  PROVE  s \o t \in Seq(S) /\ Joins(s \o t, s, t)
<1> DEFINE u == s \o t
           l == Len(s)
<1>1. /\ l \in Nat /\ Len(t) \in Nat /\ u \in Seq(S)
      /\ DOMAIN s = 1..l /\ DOMAIN t = 1..Len(t) /\ DOMAIN u = 1..l + Len(t)
      /\ \A j \in 1..l : u[j] = s[j]
      /\ \A j \in l + 1..l + Len(t) : u[j] = t[j - l]
  OBVIOUS
<1> HIDE DEF u, l
<1>2. ASSUME NEW j \in DOMAIN u
      PROVE  (\E i \in DOMAIN s : u[j] = s[i]) \/ (\E i \in DOMAIN t : u[j] = t[i])
  <2>1. CASE j <= l
    BY <1>1, <2>1
  <2>2. CASE ~(j <= l)
    <3>1. j \in l + 1..l + Len(t) /\ j - l \in DOMAIN t
      BY <1>1, <2>2
    <3> QED BY <1>1, <3>1
  <2> QED BY <2>1, <2>2
<1>3. ASSUME NEW i \in DOMAIN s PROVE \E j \in DOMAIN u : u[j] = s[i]
  <2>1. i \in DOMAIN u /\ u[i] = s[i]
    BY <1>1
  <2> QED BY <2>1
<1>4. ASSUME NEW i \in DOMAIN t PROVE \E j \in DOMAIN u : u[j] = t[i]
  <2>0. l + i \in l + 1..l + Len(t) /\ l + i - l = i
    BY <1>1
  <2>1. PICK j \in l + 1..l + Len(t) : j = l + i
    BY <2>0
  <2>2. j - l = i
    BY <1>1, <2>1
  <2>3. j \in DOMAIN u /\ u[j] = t[i]
    BY <1>1, <2>2
  <2> QED BY <2>3
<1> QED BY <1>1, <1>2, <1>3, <1>4 DEF Joins, u

\* A call of matchSegments contributes exactly that, in order.
LEMMA CallContributes ==
  ASSUME NEW trie, TrieOK(trie), NEW segs \in Seq(STRING), NEW n \in DOMAIN trie,
         PrefixFits(n, segs)
  PROVE  Contributes(matchSegments(trie, segs, item(n, segs, 0)), trie, n, segs)
<1> DEFINE out == matchSegments(trie, segs, item(n, segs, 0))
           S == Items(trie, segs)
           ter == terminals(trie, n, segs)
           lit == literalKid(trie, n, segs)
           par == kids(trie, n, segs, "param")
           wild == kids(trie, n, segs, "wildcard")
<1>0. "param" \in Kinds /\ "literal" \in Kinds
  BY DEF Kinds
<1>1. n \in Seq(Segment) /\ Len(n) \in Nat /\ trie[n].routes \in Seq(Route) /\ Len(segs) \in Nat
  BY <1>0, EdgeChild
<1>2. out = IF IndexOf(n, segs) = Len(segs) + 1 THEN ter \o wild ELSE inOrder(lit, par, wild)
  BY CallAppends
<1>3. CallsFor(wild, trie, n, segs, "wildcard")
  BY KidsOfKind
<1>4. ASSUME NEW e \in Segment, Append(n, e) \in DOMAIN trie
      PROVE  ~Wild(n) /\ GoodNode(Append(n, e)) /\ IndexOf(n, segs) = Len(n) + 1
  <2>1. GoodNode(Append(n, e))
    BY <1>4 DEF TrieOK
  <2>2. ~Wild(n)
    BY <1>1, <2>1, ParentGood
  <2> QED BY <2>1, <2>2 DEF IndexOf
<1>5. CASE IndexOf(n, segs) = Len(segs) + 1
  <2> DEFINE rs == trie[n].routes
  <2>1. /\ Len(rs) \in Nat /\ DOMAIN ter = 1..Len(rs) /\ DOMAIN rs = 1..Len(rs)
        /\ \A r \in 1..Len(rs) : ter[r] = item(n, segs, r) /\ r \in Nat /\ r # 0
        /\ ter = [r \in 1..Len(rs) |-> ter[r]]
    BY <1>1 DEF terminals
  <2>2. out = ter \o wild
    BY <1>2, <1>5
  <2> HIDE DEF ter, wild, out, rs
  <2>3. ter \in Seq(S)
    <3>1. \A r \in 1..Len(rs) : ter[r] \in S
      BY <2>1, ItemIn
    <3>2. ter \in [1..Len(rs) -> S]
      BY <2>1, <3>1
    <3> QED BY <2>1, <3>2, MakeSeq
  <2>4. Sorted(EdgeOrder(trie), ter)
    <3>1. \A r \in Nat : item(n, segs, r).node = n /\ item(n, segs, r).route = r
      BY DEF item
    <3>2. \A a, b \in 1..Len(rs) : a < b => Before(EdgeOrder(trie), ter[a], ter[b])
      BY <2>1, <3>1 DEF Before
    <3> QED BY <2>1, <3>2 DEF Sorted
  <2>5. wild \in Seq(S) /\ Sorted(EdgeOrder(trie), wild)
    BY <1>3 DEF CallsFor
  <2>6. ASSUME NEW a \in DOMAIN ter, NEW b \in DOMAIN wild PROVE Before(EdgeOrder(trie), ter[a], wild[b])
    <3>1. PICK e \in Segment : wild[b] = item(Append(n, e), segs, 0)
      BY <1>3 DEF CallsFor
    <3>2. a \in Nat \ {0} /\ ter[a] = item(n, segs, a)
      BY <2>1
    <3> QED BY <1>1, <3>1, <3>2, RouteBefore
  <2>7. Sorted(EdgeOrder(trie), out)
    BY <2>2, <2>3, <2>4, <2>5, <2>6, SortedConcat
  <2>8. out \in Seq(S) /\ Joins(out, ter, wild)
    BY <2>2, <2>3, <2>5, ConcatElements
  <2>9. \A i \in DOMAIN ter : RouteOf(ter[i], trie, n, segs)
    BY <1>5, <2>1 DEF RouteOf, rs
  <2>10. \A i \in DOMAIN wild : KidOf(wild[i], trie, n, segs)
    BY <1>3 DEF CallsFor, KidOf
  <2>11. ASSUME NEW x, RouteOf(x, trie, n, segs) PROVE \E i \in DOMAIN ter : ter[i] = x
    BY <2>1, <2>11 DEF RouteOf, rs
  <2>12. ASSUME NEW x, KidOf(x, trie, n, segs) PROVE \E i \in DOMAIN wild : wild[i] = x
    <3>1. PICK e \in Segment : /\ Append(n, e) \in DOMAIN trie /\ PrefixFits(Append(n, e), segs)
                               /\ x = item(Append(n, e), segs, 0)
      BY <2>12 DEF KidOf
    <3>2. e.kind = "wildcard"
      <4>1. GoodNode(Append(n, e)) /\ Len(n) + 1 = Len(segs) + 1
        BY <1>4, <1>5, <3>1
      <4>2. ~(Len(n) < Len(segs))
        BY <1>1, <4>1
      <4> QED BY <1>1, <3>1, <4>1, <4>2, ChildFits
    <3> QED BY <1>3, <3>1, <3>2 DEF CallsFor
  <2>13. \A x : RouteOf(x, trie, n, segs) \/ KidOf(x, trie, n, segs) => \E j \in DOMAIN out : out[j] = x
    BY <2>8, <2>11, <2>12 DEF Joins
  <2>14. \A j \in DOMAIN out : RouteOf(out[j], trie, n, segs) \/ KidOf(out[j], trie, n, segs)
    BY <2>8, <2>9, <2>10 DEF Joins
  <2> QED BY <2>7, <2>8, <2>13, <2>14 DEF Contributes, out
<1>6. CASE IndexOf(n, segs) # Len(segs) + 1
  <2>1. Len(n) < Len(segs)
    BY <1>1, <1>6 DEF IndexOf, PrefixFits
  <2>2. CallsFor(par, trie, n, segs, "param")
    BY <2>1, KidsOfKind
  <2>3. CallsFor(lit, trie, n, segs, "literal")
    BY <2>1, KidOfLiteral
  <2>4. out = (lit \o par) \o wild
    BY <1>2, <1>6 DEF inOrder
  <2> HIDE DEF lit, par, wild, out
  <2>5. lit \in Seq(S) /\ par \in Seq(S) /\ wild \in Seq(S) /\ Sorted(EdgeOrder(trie), lit) /\ Sorted(EdgeOrder(trie), par) /\ Sorted(EdgeOrder(trie), wild)
    BY <1>3, <2>2, <2>3 DEF CallsFor
  <2>6. \A j \in DOMAIN lit : \E e \in Segment :
          e.kind = "literal" /\ lit[j] = item(Append(n, e), segs, 0) /\ KidOf(lit[j], trie, n, segs)
    BY <2>3 DEF CallsFor, KidOf
  <2>7. \A j \in DOMAIN par : \E e \in Segment :
          e.kind = "param" /\ par[j] = item(Append(n, e), segs, 0) /\ KidOf(par[j], trie, n, segs)
    BY <2>2 DEF CallsFor, KidOf
  <2>8. \A j \in DOMAIN wild : \E e \in Segment :
          e.kind = "wildcard" /\ wild[j] = item(Append(n, e), segs, 0) /\ KidOf(wild[j], trie, n, segs)
    BY <1>3 DEF CallsFor, KidOf
  <2>9. ASSUME NEW d \in Segment, NEW e \in Segment,
               \/ d.kind = "literal" /\ e.kind = "param"
               \/ d.kind \in {"literal", "param"} /\ e.kind = "wildcard"
        PROVE  Before(EdgeOrder(trie), item(Append(n, d), segs, 0), item(Append(n, e), segs, 0))
    <3>1. d # e /\ Level(d.kind) < Level(e.kind)
      BY <2>9 DEF Level
    <3> QED BY <1>1, <3>1, ChildBefore
  <2>10. \A a \in DOMAIN lit : \A b \in DOMAIN par : Before(EdgeOrder(trie), lit[a], par[b])
    BY <2>6, <2>7, <2>9
  <2> DEFINE w == lit \o par
  <2>11. w \in Seq(S) /\ Sorted(EdgeOrder(trie), w) /\ Joins(w, lit, par)
    BY <2>5, <2>10, SortedConcat, ConcatElements
  <2> HIDE DEF w
  <2>12. ASSUME NEW a \in DOMAIN w, NEW b \in DOMAIN wild PROVE Before(EdgeOrder(trie), w[a], wild[b])
    <3>1. PICK d \in Segment : d.kind \in {"literal", "param"} /\ w[a] = item(Append(n, d), segs, 0)
      BY <2>6, <2>7, <2>11 DEF Joins
    <3>2. PICK e \in Segment : e.kind = "wildcard" /\ wild[b] = item(Append(n, e), segs, 0)
      BY <2>8
    <3> QED BY <2>9, <3>1, <3>2
  <2>13. out = w \o wild
    BY <2>4 DEF w
  <2>14. out \in Seq(S) /\ Sorted(EdgeOrder(trie), out) /\ Joins(out, w, wild)
    BY <2>5, <2>11, <2>12, <2>13, SortedConcat, ConcatElements
  <2>15. ASSUME NEW j \in DOMAIN out PROVE KidOf(out[j], trie, n, segs)
    <3>1. \A i \in DOMAIN w : KidOf(w[i], trie, n, segs)
      BY <2>6, <2>7, <2>11 DEF Joins
    <3> QED BY <3>1, <2>8, <2>14 DEF Joins
  <2>16. ASSUME NEW x, KidOf(x, trie, n, segs) PROVE \E j \in DOMAIN out : out[j] = x
    <3>1. PICK e \in Segment : /\ Append(n, e) \in DOMAIN trie /\ PrefixFits(Append(n, e), segs)
                               /\ x = item(Append(n, e), segs, 0)
      BY <2>16 DEF KidOf
    <3>2. CASE e.kind = "literal"
      <4>1. \E i \in DOMAIN lit : lit[i] = x
        BY <2>3, <3>1, <3>2 DEF CallsFor
      <4> QED BY <4>1, <2>11, <2>14 DEF Joins
    <3>3. CASE e.kind = "param"
      <4>1. \E i \in DOMAIN par : par[i] = x
        BY <2>2, <3>1, <3>3 DEF CallsFor
      <4> QED BY <4>1, <2>11, <2>14 DEF Joins
    <3>4. CASE e.kind = "wildcard"
      <4>1. \E i \in DOMAIN wild : wild[i] = x
        BY <1>3, <3>1, <3>4 DEF CallsFor
      <4> QED BY <4>1, <2>14 DEF Joins
    <3> QED BY <3>2, <3>3, <3>4, SegmentIs DEF Kinds
  <2>17. \A x : ~RouteOf(x, trie, n, segs)
    BY <1>6 DEF RouteOf
  <2> QED BY <2>14, <2>15, <2>16, <2>17 DEF Contributes, out
<1> QED BY <1>5, <1>6

\* Item y stands for x further down: a route stays as it is.
Extends(c, n) == Len(n) <= Len(c) /\ \A i \in 1..Len(n) : c[i] = n[i]

Below(y, x) == /\ Extends(y.node, x.node)
               /\ x.route # 0 => y = x

\* The order of two items is that of what stands below them.
LEMMA BeforeBelow ==
  ASSUME NEW ages, NEW x, NEW y, NEW u, NEW v, Before(ages, x, y), Below(u, x), Below(v, y),
         Len(x.node) \in Nat, Len(y.node) \in Nat, Len(u.node) \in Nat, Len(v.node) \in Nat
  PROVE  Before(ages, u, v)
<1>1. CASE x.node = y.node /\ x.route # 0 /\ y.route # 0 /\ x.route < y.route
  BY <1>1 DEF Below, Before
<1>2. ASSUME NEW p \in Nat, Earlier(ages, x.node, y.node, p), p > Len(x.node) => x.route # 0
      PROVE  Before(ages, u, v)
  <2> DEFINE e == x.node
             f == y.node
             g == u.node
             h == v.node
  <2>0. \/ Rank(e, p) < Rank(f, p)
        \/ Rank(e, p) = Rank(f, p) /\ p <= Len(e) /\ <<Cut(e, p), Cut(f, p)>> \in ages
    BY <1>2 DEF Earlier
  <2>1. /\ p \in 1..Len(f) /\ p <= Len(e) + 1
        /\ \A i \in 1..p - 1 : e[i] = f[i]
        /\ p <= Len(e) => e[p] # f[p]
    BY <1>2 DEF Earlier
  <2>2. /\ Len(e) <= Len(g) /\ \A i \in 1..Len(e) : g[i] = e[i]
        /\ Len(f) <= Len(h) /\ \A i \in 1..Len(f) : h[i] = f[i]
        /\ Len(e) \in Nat /\ Len(f) \in Nat /\ Len(g) \in Nat /\ Len(h) \in Nat
    BY DEF Below, Extends
  <2>3. p > Len(e) => u = x
    BY <1>2 DEF Below
  <2> HIDE DEF e, f, g, h
  <2>4. h[p] = f[p] /\ p \in 1..Len(h) /\ ~(p > Len(h)) /\ ~(p > Len(f))
    <3>1. h[p] = f[p]
      BY <2>1, <2>2
    <3>2. p \in Nat /\ 1 <= p /\ p <= Len(f)
      BY <2>1, <2>2
    <3>3. Len(f) <= Len(h) /\ Len(f) \in Nat /\ Len(h) \in Nat
      BY <2>2
    <3> QED BY <3>1, <3>2, <3>3
  <2>5. Rank(h, p) = Rank(f, p)
    BY <2>4 DEF Rank
  <2>6. \A i \in 1..p - 1 : i \in 1..Len(e) /\ i \in 1..Len(f)
    BY <2>1, <2>2
  <2>7. \A i \in 1..p - 1 : g[i] = h[i]
    BY <2>1, <2>2, <2>6
  <2>8. CASE p <= Len(e)
    <3>1. g[p] = e[p] /\ p <= Len(g) /\ p <= Len(g) + 1 /\ ~(p > Len(g)) /\ ~(p > Len(e))
      <4>1. p \in 1..Len(e)
        BY <2>1, <2>2, <2>8
      <4>2. g[p] = e[p]
        BY <2>2, <4>1
      <4>3. Len(e) <= Len(g) /\ Len(e) \in Nat /\ Len(g) \in Nat
        BY <2>2
      <4> QED BY <4>1, <4>2, <4>3
    <3>2. Rank(g, p) = Rank(e, p)
      BY <3>1 DEF Rank
    <3>3. g[p] # h[p]
      BY <2>1, <2>4, <2>8, <3>1
    <3>4. Cut(g, p) = Cut(e, p) /\ Cut(h, p) = Cut(f, p)
      <4>1. \A i \in 1..p : i \in 1..Len(e) /\ i \in 1..Len(f)
        BY <2>1, <2>2, <2>8
      <4>2. \A i \in 1..p : g[i] = e[i] /\ h[i] = f[i]
        BY <2>2, <4>1
      <4> QED BY <4>2 DEF Cut
    <3>5. \/ Rank(g, p) < Rank(h, p)
          \/ Rank(g, p) = Rank(h, p) /\ p <= Len(g) /\ <<Cut(g, p), Cut(h, p)>> \in ages
      BY <2>0, <2>5, <3>1, <3>2, <3>4
    <3>6. Earlier(ages, g, h, p)
      BY <2>4, <2>7, <3>1, <3>3, <3>5 DEF Earlier
    <3> QED BY <3>1, <3>6 DEF Before, g, h
  <2>9. CASE ~(p <= Len(e))
    <3>1. p > Len(e)
      BY <2>2, <2>9
    <3>2. u = x
      BY <2>3, <3>1
    <3>3. g = e
      BY <3>2 DEF g, e
    <3>4. Earlier(ages, g, h, p)
      BY <2>0, <2>1, <2>4, <2>5, <2>7, <2>9, <3>3 DEF Earlier
    <3>5. u.route # 0
      BY <1>2, <3>1, <3>2 DEF e
    <3> QED BY <3>4, <3>5 DEF Before, g, h
  <2> QED BY <2>8, <2>9
<1> QED BY <1>1, <1>2 DEF Before

\* x is in the list after k levels: the call for a node at depth k, or a route
\* of a node above.
AtLevel(x, trie, segs, k) ==
  \E n \in DOMAIN trie :
    /\ PrefixFits(n, segs)
    /\ \/ Len(n) = k /\ x = item(n, segs, 0)
       \/ Len(n) < k /\ RouteOf(x, trie, n, segs)

LevelOK(list, trie, segs, k) ==
  /\ list \in Seq(Items(trie, segs))
  /\ \A j \in DOMAIN list : AtLevel(list[j], trie, segs, k)
  /\ \A x : AtLevel(x, trie, segs, k) => \E j \in DOMAIN list : list[j] = x
  /\ Sorted(EdgeOrder(trie), list)

\* The search starts with the call for the root.
LEMMA FirstLevel ==
  ASSUME NEW trie, TrieOK(trie), NEW segs \in Seq(STRING)
  PROVE  LevelOK(<<visit(<<>>, 1, <<>>)>>, trie, segs, 0)
<1> DEFINE root == <<>>
           x == visit(root, 1, <<>>)
<1>1. root \in DOMAIN trie /\ Len(root) = 0 /\ DOMAIN root = {}
  BY DEF TrieOK
<1>2. IndexOf(root, segs) = 1
  BY <1>1 DEF IndexOf, Wild
<1>3. Bound(root, segs) = <<>>
  <2> DEFINE At(name) == CHOOSE i \in DOMAIN root : root[i].kind # "literal" /\ root[i].name = name
             V(name) == IF root[At(name)].kind = "param" THEN <<segs[At(name)]>>
                        ELSE SubSeq(segs, At(name), Len(segs))
             N == {root[i].name : i \in {j \in DOMAIN root : root[j].kind # "literal"}}
  <2>1. Bound(root, segs) = [name \in N |-> V(name)]
    BY DEF Bound
  <2>2. N = {}
    BY <1>1
  <2> HIDE DEF V, N
  <2>3. [name \in {} |-> V(name)] = <<>>
    OBVIOUS
  <2> QED BY <2>1, <2>2, <2>3
<1>4. x = item(root, segs, 0)
  BY <1>2, <1>3 DEF visit, item
<1>5. PrefixFits(root, segs)
  <2>1. Len(segs) \in Nat
    OBVIOUS
  <2> QED BY <1>1, <2>1 DEF PrefixFits, Wild
<1>6. \A n \in DOMAIN trie : Len(n) = 0 => n = root
  BY DEF TrieOK, GoodNode
<1>7. \A n \in DOMAIN trie : Len(n) \in Nat
  BY DEF TrieOK, GoodNode
<1> HIDE DEF root
<1>8. x \in Items(trie, segs)
  BY <1>1, <1>4, ItemIn
<1>9. \A y : AtLevel(y, trie, segs, 0) <=> y = x
  <2>1. AtLevel(x, trie, segs, 0)
    BY <1>1, <1>4, <1>5 DEF AtLevel
  <2>2. ASSUME NEW y, AtLevel(y, trie, segs, 0) PROVE y = x
    <3>1. PICK n \in DOMAIN trie : \/ Len(n) = 0 /\ y = item(n, segs, 0)
                                   \/ Len(n) < 0
      BY <2>2 DEF AtLevel
    <3>2. ~(Len(n) < 0)
      BY <1>7
    <3> QED BY <1>4, <1>6, <3>1, <3>2
  <2> QED BY <2>1, <2>2
<1> HIDE DEF x
<1> DEFINE s == <<x>>
<1>10. s \in Seq(Items(trie, segs)) /\ DOMAIN s = {1} /\ s[1] = x
  BY <1>8
<1> HIDE DEF s
<1>11. Sorted(EdgeOrder(trie), s)
  BY <1>10 DEF Sorted
<1>12. LevelOK(s, trie, segs, 0)
  BY <1>9, <1>10, <1>11 DEF LevelOK
<1> QED BY <1>12 DEF s, x, root

\* A node below the root is a child of a node.
LEMMA ParentOf ==
  ASSUME NEW trie, TrieOK(trie), NEW m \in DOMAIN trie, NEW k \in Nat, Len(m) = k + 1
  PROVE  \E n \in DOMAIN trie : \E e \in Segment :
           n \in Seq(Segment) /\ Len(n) = k /\ m = Append(n, e) /\ GoodNode(Append(n, e))
<1> DEFINE n == SubSeq(m, 1, k)
           e == m[k + 1]
<1>0. m \in Seq(Segment) /\ GoodNode(m)
  BY DEF TrieOK, GoodNode
<1>1. m \in Seq(Segment) /\ GoodNode(m) /\ k \in 0..Len(m) /\ k + 1 \in 1..Len(m)
  BY <1>0
<1>2. n \in DOMAIN trie
  BY <1>1 DEF TrieOK
<1>3. e \in Segment /\ n \in Seq(Segment) /\ Len(n) = k
  BY <1>1
<1>4. \A i \in 1..k : n[i] = m[i]
  BY <1>1
<1> HIDE DEF n
<1>5. Append(n, e) \in Seq(Segment) /\ Len(Append(n, e)) = Len(m)
  BY <1>3
<1>6. \A i \in 1..Len(m) : Append(n, e)[i] = m[i]
  BY <1>3, <1>4
<1>7. m = Append(n, e)
  BY <1>1, <1>5, <1>6, SeqEqual
<1> QED BY <1>1, <1>2, <1>3, <1>7

\* The items of a call, of a route and of what they lead to.
LEMMA ItemFields ==
  ASSUME NEW n, NEW segs, NEW r
  PROVE  item(n, segs, r).node = n /\ item(n, segs, r).route = r
  BY DEF item

\* One level more.
LEMMA NextLevel ==
  ASSUME NEW trie, TrieOK(trie), NEW segs \in Seq(STRING), NEW k \in Nat,
         NEW list, LevelOK(list, trie, segs, k)
  PROVE  LevelOK(nextLevel(trie, segs, list), trie, segs, k + 1)
<1> DEFINE S == Items(trie, segs)
           ss == [j \in DOMAIN list |->
                    IF list[j].route = 0 THEN matchSegments(trie, segs, list[j]) ELSE <<list[j]>>]
           F == FlattenSeq(ss)
<1>1. /\ list \in Seq(S) /\ Len(list) \in Nat /\ DOMAIN list = 1..Len(list) /\ Sorted(EdgeOrder(trie), list)
      /\ \A j \in DOMAIN list : AtLevel(list[j], trie, segs, k)
      /\ \A x : AtLevel(x, trie, segs, k) => \E j \in DOMAIN list : list[j] = x
  BY DEF LevelOK
<1>2. \A n \in DOMAIN trie : n \in Seq(Segment) /\ Len(n) \in Nat /\ trie[n].routes \in Seq(Route)
  BY DEF TrieOK, GoodNode
<1>3. \A n \in DOMAIN trie : \A r \in DOMAIN trie[n].routes : r \in Nat /\ r # 0
  BY <1>2
<1>4. /\ ss = [j \in 1..Len(list) |-> ss[j]]
      /\ \A j \in DOMAIN list : ss[j] = IF list[j].route = 0
                                        THEN matchSegments(trie, segs, list[j]) ELSE <<list[j]>>
  BY <1>1
<1> HIDE DEF ss
\* A call is replaced by what it contributes.
<1>5. ASSUME NEW j \in DOMAIN list, list[j].route = 0
      PROVE  \E n \in DOMAIN trie : /\ PrefixFits(n, segs) /\ Len(n) = k
                                    /\ list[j] = item(n, segs, 0)
                                    /\ Contributes(ss[j], trie, n, segs)
  <2>1. PICK n \in DOMAIN trie : /\ PrefixFits(n, segs)
                                 /\ \/ Len(n) = k /\ list[j] = item(n, segs, 0)
                                    \/ Len(n) < k /\ RouteOf(list[j], trie, n, segs)
    BY <1>1 DEF AtLevel
  <2>2. ~RouteOf(list[j], trie, n, segs)
    BY <1>3, <1>5, ItemFields DEF RouteOf
  <2>3. ss[j] = matchSegments(trie, segs, item(n, segs, 0))
    BY <1>4, <1>5, <2>1, <2>2
  <2>4. Contributes(ss[j], trie, n, segs)
    BY <2>1, <2>3, CallContributes
  <2> QED BY <2>1, <2>2, <2>4
\* A route stays.
<1>6. ASSUME NEW j \in DOMAIN list, list[j].route # 0
      PROVE  /\ ss[j] \in Seq(S) /\ DOMAIN ss[j] = {1} /\ ss[j][1] = list[j]
             /\ \E n \in DOMAIN trie : PrefixFits(n, segs) /\ Len(n) < k /\ RouteOf(list[j], trie, n, segs)
  <2>1. PICK n \in DOMAIN trie : /\ PrefixFits(n, segs)
                                 /\ \/ Len(n) = k /\ list[j] = item(n, segs, 0)
                                    \/ Len(n) < k /\ RouteOf(list[j], trie, n, segs)
    BY <1>1 DEF AtLevel
  <2>2. list[j] # item(n, segs, 0)
    BY <1>6, ItemFields
  <2>3. ss[j] = <<list[j]>> /\ list[j] \in S
    BY <1>1, <1>4, <1>6
  <2>4. ss[j] \in Seq(S) /\ DOMAIN ss[j] = {1} /\ ss[j][1] = list[j]
    BY <2>3
  <2> QED BY <2>1, <2>2, <2>4
<1>7. \A j \in DOMAIN list : ss[j] \in Seq(S) /\ Sorted(EdgeOrder(trie), ss[j])
  <2>1. \A j \in DOMAIN list : list[j].route = 0 => ss[j] \in Seq(S) /\ Sorted(EdgeOrder(trie), ss[j])
    BY <1>5 DEF Contributes
  <2>2. \A j \in DOMAIN list : list[j].route # 0 => ss[j] \in Seq(S) /\ Sorted(EdgeOrder(trie), ss[j])
    BY <1>6 DEF Sorted
  <2> QED BY <2>1, <2>2
<1>8. ss \in Seq(Seq(S)) /\ Len(ss) = Len(list)
  <2>1. ss \in [1..Len(list) -> Seq(S)]
    BY <1>1, <1>4, <1>7
  <2> QED BY <1>1, <2>1, MakeSeq
<1>9. F \in Seq(S) /\ \E blk, off : Flattens(F, ss, Len(ss), blk, off)
  BY <1>8, Flattened
<1>10. PICK blk, off : Flattens(F, ss, Len(ss), blk, off)
  BY <1>9
<1> HIDE DEF F
<1>11. Len(F) \in Nat /\ DOMAIN F = 1..Len(F)
  BY <1>9
<1>12. /\ \A i \in DOMAIN F : /\ blk[i] \in DOMAIN list /\ off[i] \in DOMAIN ss[blk[i]]
                              /\ F[i] = ss[blk[i]][off[i]]
       /\ \A i, j \in DOMAIN F : i < j => blk[i] < blk[j] \/ (blk[i] = blk[j] /\ off[i] < off[j])
       /\ \A b \in DOMAIN list : \A o \in DOMAIN ss[b] : \E i \in DOMAIN F : F[i] = ss[b][o]
  <2>1. /\ \A i \in DOMAIN F : /\ blk[i] \in DOMAIN list /\ off[i] \in DOMAIN ss[blk[i]]
                               /\ F[i] = ss[blk[i]][off[i]]
        /\ \A i, j \in DOMAIN F : i < j => blk[i] < blk[j] \/ (blk[i] = blk[j] /\ off[i] < off[j])
    BY <1>1, <1>8, <1>10, <1>11 DEF Flattens
  <2>2. \A b \in DOMAIN list : \A o \in DOMAIN ss[b] : \E i \in DOMAIN F : blk[i] = b /\ off[i] = o
    <3>1. \A b \in 1..Len(ss) : \A o \in DOMAIN ss[b] : \E i \in 1..Len(F) : blk[i] = b /\ off[i] = o
      BY <1>10 DEF Flattens
    <3>2. DOMAIN list = 1..Len(ss) /\ DOMAIN F = 1..Len(F)
      BY <1>1, <1>8, <1>11
    <3> TAKE b \in DOMAIN list
    <3> TAKE o \in DOMAIN ss[b]
    <3>3. b \in 1..Len(ss)
      BY <3>2
    <3>4. PICK i \in 1..Len(F) : blk[i] = b /\ off[i] = o
      BY <3>1, <3>3
    <3>5. i \in DOMAIN F
      BY <3>2, <3>4
    <3> QED BY <3>4, <3>5
  <2> QED BY <2>1, <2>2
\* Where the elements of a block come from.
<1>13. ASSUME NEW j \in DOMAIN list, NEW o \in DOMAIN ss[j]
       PROVE  /\ AtLevel(ss[j][o], trie, segs, k + 1)
              /\ Below(ss[j][o], list[j])
              /\ Len(ss[j][o].node) \in Nat /\ Len(list[j].node) \in Nat
  <2> DEFINE x == ss[j][o]
  <2>1. CASE list[j].route = 0
    <3>1. PICK n \in DOMAIN trie : /\ PrefixFits(n, segs) /\ Len(n) = k
                                   /\ list[j] = item(n, segs, 0)
                                   /\ Contributes(ss[j], trie, n, segs)
      BY <1>5, <2>1
    <3>2. RouteOf(x, trie, n, segs) \/ KidOf(x, trie, n, segs)
      BY <3>1 DEF Contributes
    <3> HIDE DEF x
    <3>3. list[j].node = n
      BY <3>1, ItemFields
    <3>4. CASE RouteOf(x, trie, n, segs)
      <4>1. k < k + 1
        OBVIOUS
      <4>2. AtLevel(x, trie, segs, k + 1)
        BY <3>1, <3>4, <4>1 DEF AtLevel
      <4>3. x.node = n
        BY <3>4, ItemFields DEF RouteOf
      <4>4. Below(x, list[j])
        BY <1>2, <2>1, <3>3, <4>3 DEF Below, Extends
      <4> QED BY <1>2, <3>3, <4>2, <4>3, <4>4 DEF x
    <3>5. CASE KidOf(x, trie, n, segs)
      <4>1. PICK e \in Segment : /\ Append(n, e) \in DOMAIN trie /\ PrefixFits(Append(n, e), segs)
                                 /\ x = item(Append(n, e), segs, 0)
        BY <3>5 DEF KidOf
      <4>2. /\ n \in Seq(Segment) /\ Len(n) \in Nat
            /\ Len(Append(n, e)) = k + 1 /\ \A i \in 1..Len(n) : Append(n, e)[i] = n[i]
        BY <1>2, <3>1, ChildShape
      <4>3. AtLevel(x, trie, segs, k + 1)
        BY <4>1, <4>2 DEF AtLevel
      <4>4. x.node = Append(n, e)
        <5>1. item(Append(n, e), segs, 0).node = Append(n, e)
          BY DEF item
        <5> QED BY <4>1, <5>1
      <4>5. Len(n) <= Len(Append(n, e))
        BY <3>1, <4>2
      <4>6. Below(x, list[j])
        BY <2>1, <3>3, <4>2, <4>4, <4>5 DEF Below, Extends
      <4> QED BY <1>2, <3>3, <4>2, <4>3, <4>4, <4>6 DEF x
    <3> QED BY <3>2, <3>4, <3>5
  <2>2. CASE list[j].route # 0
    <3>1. PICK n \in DOMAIN trie : PrefixFits(n, segs) /\ Len(n) < k /\ RouteOf(list[j], trie, n, segs)
      BY <1>6, <2>2
    <3>2. x = list[j]
      BY <1>6, <2>2
    <3> HIDE DEF x
    <3>3. Len(n) \in Nat /\ Len(n) < k + 1
      BY <1>2, <3>1
    <3>4. AtLevel(x, trie, segs, k + 1)
      BY <3>1, <3>2, <3>3 DEF AtLevel
    <3>5. x.node = n
      BY <3>1, <3>2, ItemFields DEF RouteOf
    <3>6. Below(x, list[j])
      BY <3>2, <3>3, <3>5 DEF Below, Extends
    <3> QED BY <3>2, <3>3, <3>4, <3>5, <3>6 DEF x
  <2> QED BY <2>1, <2>2
<1>14. \A i \in DOMAIN F : AtLevel(F[i], trie, segs, k + 1)
  BY <1>12, <1>13
<1>15. ASSUME NEW x, AtLevel(x, trie, segs, k + 1)
       PROVE  \E i \in DOMAIN F : F[i] = x
  <2>1. SUFFICES \E j \in DOMAIN list : \E o \in DOMAIN ss[j] : ss[j][o] = x
    BY <1>12
  <2>2. PICK m \in DOMAIN trie : /\ PrefixFits(m, segs)
                                 /\ \/ Len(m) = k + 1 /\ x = item(m, segs, 0)
                                    \/ Len(m) < k + 1 /\ RouteOf(x, trie, m, segs)
    BY <1>15 DEF AtLevel
  <2>3. ASSUME NEW n \in DOMAIN trie, PrefixFits(n, segs), Len(n) = k,
               RouteOf(x, trie, n, segs) \/ KidOf(x, trie, n, segs)
        PROVE  \E j \in DOMAIN list : \E o \in DOMAIN ss[j] : ss[j][o] = x
    <3>1. AtLevel(item(n, segs, 0), trie, segs, k)
      BY <2>3 DEF AtLevel
    <3>2. PICK j \in DOMAIN list : list[j] = item(n, segs, 0)
      BY <1>1, <3>1
    <3>3. ss[j] = matchSegments(trie, segs, item(n, segs, 0))
      <4>1. item(n, segs, 0).route = 0
        BY ItemFields
      <4> QED BY <1>4, <3>2, <4>1
    <3>4. Contributes(ss[j], trie, n, segs)
      BY <2>3, <3>3, CallContributes
    <3> QED BY <2>3, <3>4 DEF Contributes
  <2>4. CASE Len(m) = k + 1 /\ x = item(m, segs, 0)
    <3>1. PICK n \in DOMAIN trie, e \in Segment :
            n \in Seq(Segment) /\ Len(n) = k /\ m = Append(n, e) /\ GoodNode(Append(n, e))
      <4>1. \E n \in DOMAIN trie : \E e \in Segment :
              n \in Seq(Segment) /\ Len(n) = k /\ m = Append(n, e) /\ GoodNode(Append(n, e))
        <5>1. Len(m) = k + 1
          BY <2>4
        <5>2. m \in DOMAIN trie
          BY <2>2
        <5> QED BY <5>1, <5>2, ParentOf
      <4> QED BY <4>1
    <3>2. PrefixFits(n, segs)
      BY <2>2, <3>1, ChildFits
    <3>3. KidOf(x, trie, n, segs)
      BY <2>2, <2>4, <3>1 DEF KidOf
    <3> QED BY <2>3, <3>1, <3>2, <3>3
  <2>5. CASE Len(m) = k /\ RouteOf(x, trie, m, segs)
    BY <2>2, <2>3, <2>5
  <2>6. CASE Len(m) < k /\ RouteOf(x, trie, m, segs)
    <3>1. AtLevel(x, trie, segs, k)
      BY <2>2, <2>6 DEF AtLevel
    <3>2. PICK j \in DOMAIN list : list[j] = x
      BY <1>1, <3>1
    <3>3. x.route # 0
      BY <1>3, <2>6, ItemFields DEF RouteOf
    <3>4. 1 \in DOMAIN ss[j] /\ ss[j][1] = x
      BY <1>6, <3>2, <3>3
    <3> QED BY <3>4
  <2>7. Len(m) < k + 1 => Len(m) = k \/ Len(m) < k
    BY <1>2
  <2> QED BY <2>2, <2>4, <2>5, <2>6, <2>7
<1>16. ASSUME NEW a \in DOMAIN F, NEW b \in DOMAIN F, a < b PROVE Before(EdgeOrder(trie), F[a], F[b])
  <2>1. CASE blk[a] = blk[b] /\ off[a] < off[b]
    BY <1>7, <1>12, <2>1 DEF Sorted
  <2>2. CASE blk[a] < blk[b]
    <3>1. Before(EdgeOrder(trie), list[blk[a]], list[blk[b]])
      BY <1>1, <1>12, <2>2 DEF Sorted
    <3> DEFINE u == F[a]
               v == F[b]
               x == list[blk[a]]
               y == list[blk[b]]
    <3>2. /\ Below(u, x) /\ Below(v, y) /\ Len(u.node) \in Nat /\ Len(x.node) \in Nat
          /\ Len(v.node) \in Nat /\ Len(y.node) \in Nat
      BY <1>12, <1>13
    <3> HIDE DEF u, v, x, y
    <3>3. Before(EdgeOrder(trie), x, y)
      BY <3>1 DEF x, y
    <3>4. Before(EdgeOrder(trie), u, v)
      BY <3>2, <3>3, BeforeBelow
    <3> QED BY <3>4 DEF u, v
  <2> QED BY <1>12, <1>16, <2>1, <2>2
<1>17. nextLevel(trie, segs, list) = F
  BY DEF nextLevel, F, ss
<1> QED BY <1>9, <1>14, <1>15, <1>16, <1>17 DEF LevelOK, Sorted

IsSearch(f, trie, segs, d) ==
  f = [k \in 0..d |-> IF k = 0 THEN <<visit(<<>>, 1, <<>>)>> ELSE nextLevel(trie, segs, f[k - 1])]

\* The recursion that defines search has a solution.
LEMMA SearchExists == ASSUME NEW trie, NEW segs PROVE \A d \in Nat : \E f : IsSearch(f, trie, segs, d)
<1> DEFINE Step(k, x) == IF k = 0 THEN <<visit(<<>>, 1, <<>>)>> ELSE nextLevel(trie, segs, x)
           T == {d \in Nat : \E f : f = [k \in 0..d |-> Step(k, f[k - 1])]}
<1> HIDE DEF Step
<1>1. 0 \in T
  <2> DEFINE f == [k \in 0..0 |-> Step(0, 0)]
  <2>1. \A x, y : Step(0, x) = Step(0, y)
    BY DEF Step
  <2>2. f = [k \in 0..0 |-> Step(k, f[k - 1])]
    <3>1. \A k \in 0..0 : k = 0
      OBVIOUS
    <3>2. \A k \in 0..0 : Step(0, 0) = Step(k, f[k - 1])
      BY <2>1, <3>1
    <3> QED BY <3>2
  <2> HIDE DEF f
  <2> QED BY <2>2
<1>2. ASSUME NEW d \in Nat, d \in T PROVE d + 1 \in T
  <2>1. PICK f : f = [k \in 0..d |-> Step(k, f[k - 1])]
    BY <1>2
  <2> DEFINE g == [k \in 0..d + 1 |-> Step(k, f[k - 1])]
  <2>2. ASSUME NEW k \in 0..d + 1 PROVE Step(k, g[k - 1]) = Step(k, f[k - 1])
    <3>1. CASE k = 0
      BY <3>1 DEF Step
    <3>2. CASE k # 0
      <4>1. k - 1 \in 0..d /\ k - 1 \in 0..d + 1
        BY <3>2
      <4>2. f[k - 1] = Step(k - 1, f[k - 1 - 1])
        BY <2>1, <4>1
      <4>3. g[k - 1] = Step(k - 1, f[k - 1 - 1])
        BY <4>1
      <4> QED BY <4>2, <4>3
    <3> QED BY <3>1, <3>2
  <2>3. g = [k \in 0..d + 1 |-> Step(k, g[k - 1])]
    BY <2>2
  <2> HIDE DEF g
  <2>4. \E h : h = [k \in 0..d + 1 |-> Step(k, h[k - 1])]
    BY <2>3
  <2> QED BY <2>4
<1> HIDE DEF T
<1>3. Nat \subseteq T
  BY <1>1, <1>2, SetInduction
<1> QED BY <1>3 DEF T, IsSearch, Step

\* Every level of the search is as described.
LEMMA SearchLevels ==
  ASSUME NEW trie, TrieOK(trie), NEW segs \in Seq(STRING), NEW d \in Nat
  PROVE  LevelOK(search(trie, segs, d), trie, segs, d)
<1> DEFINE g == CHOOSE f : f = [k \in 0..d |-> IF k = 0 THEN <<visit(<<>>, 1, <<>>)>>
                                                ELSE nextLevel(trie, segs, f[k - 1])]
<1>1. \E f : f = [k \in 0..d |-> IF k = 0 THEN <<visit(<<>>, 1, <<>>)>>
                                   ELSE nextLevel(trie, segs, f[k - 1])]
  <2>1. \E f : IsSearch(f, trie, segs, d)
    BY SearchExists
  <2> QED BY <2>1 DEF IsSearch
<1>2. g = [k \in 0..d |-> IF k = 0 THEN <<visit(<<>>, 1, <<>>)>> ELSE nextLevel(trie, segs, g[k - 1])]
  BY <1>1
<1>3. search(trie, segs, d) = g[d]
  BY DEF search
<1> HIDE DEF g
<1> DEFINE T == {k \in Nat : k \in 0..d => LevelOK(g[k], trie, segs, k)}
<1>4. 0 \in T
  <2>1. 0 \in 0..d
    OBVIOUS
  <2>2. g[0] = <<visit(<<>>, 1, <<>>)>>
    BY <1>2, <2>1
  <2> QED BY <2>2, FirstLevel
<1>5. ASSUME NEW k \in Nat, k \in T PROVE k + 1 \in T
  <2> SUFFICES ASSUME k + 1 \in 0..d PROVE LevelOK(g[k + 1], trie, segs, k + 1)
    OBVIOUS
  <2>1. k \in 0..d /\ k + 1 # 0 /\ k + 1 - 1 = k
    OBVIOUS
  <2>2. g[k + 1] = nextLevel(trie, segs, g[k])
    <3>1. g[k + 1] = IF k + 1 = 0 THEN <<visit(<<>>, 1, <<>>)>> ELSE nextLevel(trie, segs, g[k + 1 - 1])
      BY <1>2
    <3> QED BY <2>1, <3>1
  <2>3. LevelOK(g[k], trie, segs, k)
    BY <1>5, <2>1
  <2> QED BY <2>2, <2>3, NextLevel
<1> HIDE DEF T
<1>6. Nat \subseteq T
  BY <1>4, <1>5, SetInduction
<1>7. d \in 0..d
  OBVIOUS
<1> QED BY <1>3, <1>6, <1>7 DEF T

\* At the end no call is left: the list holds the routes of the nodes that fit,
\* in order.
LEMMA SearchFinds ==
  ASSUME NEW trie, TrieOK(trie), NEW segs \in Seq(STRING),
         NEW found, found = search(trie, segs, Len(segs) + 2)
  PROVE  /\ found \in Seq(Items(trie, segs))
         /\ \A j \in DOMAIN found :
              \E n \in DOMAIN trie : FitsSegs(n, segs) /\ \E r \in DOMAIN trie[n].routes : found[j] = item(n, segs, r)
         /\ \A n \in DOMAIN trie : \A r \in DOMAIN trie[n].routes :
              FitsSegs(n, segs) => \E j \in DOMAIN found : found[j] = item(n, segs, r)
         /\ Sorted(EdgeOrder(trie), found)
<1>1. Len(segs) + 2 \in Nat /\ Len(segs) \in Nat
  OBVIOUS
<1>2. LevelOK(found, trie, segs, Len(segs) + 2)
  BY <1>1, SearchLevels
<1>3. \A n \in DOMAIN trie : GoodNode(n) /\ Len(n) \in Nat
  BY DEF TrieOK, GoodNode
<1>4. \A n \in DOMAIN trie : PrefixFits(n, segs) => Len(n) < Len(segs) + 2
  BY <1>1, <1>3 DEF PrefixFits
<1>5. ASSUME NEW j \in DOMAIN found
      PROVE  \E n \in DOMAIN trie : FitsSegs(n, segs) /\ \E r \in DOMAIN trie[n].routes : found[j] = item(n, segs, r)
  <2>1. PICK n \in DOMAIN trie : /\ PrefixFits(n, segs)
                                 /\ \/ Len(n) = Len(segs) + 2
                                    \/ RouteOf(found[j], trie, n, segs)
    BY <1>2 DEF LevelOK, AtLevel
  <2>2. Len(n) # Len(segs) + 2
    BY <1>1, <1>3, <1>4, <2>1
  <2>3. RouteOf(found[j], trie, n, segs)
    BY <2>1, <2>2
  <2>4. FitsSegs(n, segs)
    BY <1>3, <2>1, <2>3, FitsIsReached DEF RouteOf
  <2> QED BY <2>3, <2>4 DEF RouteOf
<1>6. ASSUME NEW n \in DOMAIN trie, NEW r \in DOMAIN trie[n].routes, FitsSegs(n, segs)
      PROVE  \E j \in DOMAIN found : found[j] = item(n, segs, r)
  <2>1. PrefixFits(n, segs) /\ IndexOf(n, segs) = Len(segs) + 1
    BY <1>3, <1>6, FitsIsReached
  <2>2. RouteOf(item(n, segs, r), trie, n, segs)
    BY <2>1 DEF RouteOf
  <2>3. AtLevel(item(n, segs, r), trie, segs, Len(segs) + 2)
    BY <1>4, <2>1, <2>2 DEF AtLevel
  <2> QED BY <1>2, <2>3 DEF LevelOK
<1> QED BY <1>2, <1>5, <1>6 DEF LevelOK

-----------------------------------------------------------------------------
(* Registration of a pattern with parameters.                              *)

NodeType == [routes : Seq(Route), literal : Seq(STRING), param : Seq(STRING), wildcard : Seq(STRING)]

\* A sequence and one element more.
LEMMA AppendShape ==
  ASSUME NEW S, NEW s \in Seq(S), NEW x \in S
  PROVE  /\ Append(s, x) \in Seq(S)
         /\ Len(s) \in Nat /\ Len(Append(s, x)) = Len(s) + 1
         /\ DOMAIN s = 1..Len(s) /\ DOMAIN Append(s, x) = 1..Len(s) + 1
         /\ \A i \in 1..Len(s) : Append(s, x)[i] = s[i]
         /\ Append(s, x)[Len(s) + 1] = x
  OBVIOUS

\* A name is added to the edges of a kind once.
LEMMA AppendNewIs ==
  ASSUME NEW S, NEW s \in Seq(S), NEW x \in S, \A i, j \in DOMAIN s : s[i] = s[j] => i = j
  PROVE  /\ AppendNew(s, x) \in Seq(S)
         /\ \A i, j \in DOMAIN AppendNew(s, x) : AppendNew(s, x)[i] = AppendNew(s, x)[j] => i = j
         /\ Range(AppendNew(s, x)) = Range(s) \cup {x}
<1>1. CASE x \in Range(s)
  BY <1>1 DEF AppendNew
<1>2. CASE x \notin Range(s)
  <2> DEFINE t == Append(s, x)
  <2>1. AppendNew(s, x) = t
    BY <1>2 DEF AppendNew
  <2>2. /\ t \in Seq(S) /\ Len(s) \in Nat /\ DOMAIN s = 1..Len(s) /\ DOMAIN t = 1..Len(s) + 1
        /\ t[Len(s) + 1] = x /\ \A i \in 1..Len(s) : t[i] = s[i]
    BY AppendShape
  <2> HIDE DEF t
  <2>3. \A i \in DOMAIN t : i \in DOMAIN s \/ i = Len(s) + 1
    BY <2>2
  <2>4. \A i \in DOMAIN s : i \in DOMAIN t /\ t[i] = s[i] /\ s[i] # x
    <3>1. \A i \in 1..Len(s) : i \in 1..Len(s) + 1
      BY <2>2
    <3>2. \A i \in DOMAIN s : s[i] \in Range(s)
      BY DEF Range
    <3> QED BY <1>2, <2>2, <3>1, <3>2
  <2>5. \A i, j \in DOMAIN t : t[i] = t[j] => i = j
    BY <2>2, <2>3, <2>4
  <2>6. Len(s) + 1 \in DOMAIN t
    BY <2>2
  <2>7. Range(t) = Range(s) \cup {x}
    BY <2>2, <2>3, <2>4, <2>6 DEF Range
  <2> QED BY <2>1, <2>2, <2>5, <2>7
<1> QED BY <1>1, <1>2

\* The fields of a node after literalChild, paramChild or wildcardChild.
LEMMA ChildFields ==
  ASSUME NEW node \in NodeType, NEW seg \in Segment
  PROVE  /\ child(node, seg).routes = node.routes
         /\ \A kind \in Kinds : child(node, seg)[kind] =
              IF kind = seg.kind THEN AppendNew(node[kind], seg.name) ELSE node[kind]
         /\ DOMAIN child(node, seg) = DOMAIN node
         /\ child(node, seg) = [f \in DOMAIN node |-> child(node, seg)[f]]
<1>1. DOMAIN node = {"routes", "literal", "param", "wildcard"}
  BY DEF NodeType
<1>2. seg.kind \in {"literal", "param", "wildcard"}
  BY DEF Segment, Kinds
<1> QED BY <1>1, <1>2 DEF child, Kinds

\* Records of four fields.
LEMMA IsNode ==
  ASSUME NEW node, NEW base \in NodeType, DOMAIN node = DOMAIN base,
         node = [f \in DOMAIN node |-> node[f]],
         node.routes \in Seq(Route), \A kind \in Kinds : node[kind] \in Seq(STRING)
  PROVE  node \in NodeType
<1>1. DOMAIN base = {"routes", "literal", "param", "wildcard"}
  BY DEF NodeType
<1>2. node.literal \in Seq(STRING) /\ node.param \in Seq(STRING) /\ node.wildcard \in Seq(STRING)
  BY DEF Kinds
<1>3. node = [routes |-> node.routes, literal |-> node.literal, param |-> node.param,
              wildcard |-> node.wildcard]
  BY <1>1
<1> QED BY <1>2, <1>3 DEF NodeType

\* The maps from methods to handlers.
LEMMA PutAllIs ==
  ASSUME NEW map \in MethodMap, NEW new \in MethodMap
  PROVE  /\ putAll(map, new) \in MethodMap
         /\ DOMAIN putAll(map, new) = DOMAIN map \cup DOMAIN new
         /\ \A k \in DOMAIN map \cup DOMAIN new :
              putAll(map, new)[k] = IF k \in DOMAIN new THEN new[k] ELSE map[k]
<1> DEFINE D == DOMAIN map \cup DOMAIN new
           f == [k \in D |-> IF k \in DOMAIN new THEN new[k] ELSE map[k]]
<1>1. putAll(map, new) = f
  BY DEF putAll
<1>2. /\ DOMAIN map \in SUBSET STRING /\ \A k \in DOMAIN map : map[k] \in Nat
      /\ DOMAIN new \in SUBSET STRING /\ \A k \in DOMAIN new : new[k] \in Nat
  BY DEF MethodMap
<1>3. D \in SUBSET STRING /\ f \in [D -> Nat]
  BY <1>2
<1>4. f \in MethodMap
  BY <1>3 DEF MethodMap
<1> QED BY <1>1, <1>4

\* One more handler.
LEMMA PutIs ==
  ASSUME NEW map \in MethodMap, NEW method \in STRING, NEW h \in Nat
  PROVE  /\ put(map, method, h) \in MethodMap
         /\ DOMAIN put(map, method, h) = DOMAIN map \cup {method}
         /\ put(map, method, h)[method] = h
         /\ \A k \in DOMAIN map : k # method => put(map, method, h)[k] = map[k]
<1> DEFINE one == [k \in {method} |-> h]
<1>1. one \in MethodMap /\ DOMAIN one = {method} /\ one[method] = h
  <2>1. {method} \in SUBSET STRING /\ one \in [{method} -> Nat]
    OBVIOUS
  <2> QED BY <2>1 DEF MethodMap
<1>2. put(map, method, h) = putAll(map, one)
  BY DEF put
<1> HIDE DEF one
<1>3. /\ putAll(map, one) \in MethodMap
      /\ DOMAIN putAll(map, one) = DOMAIN map \cup DOMAIN one
      /\ \A k \in DOMAIN map \cup DOMAIN one :
           putAll(map, one)[k] = IF k \in DOMAIN one THEN one[k] ELSE map[k]
  BY <1>1, PutAllIs
<1> QED BY <1>1, <1>2, <1>3

\* A map without handlers.
LEMMA EmptyMap == <<>> \in MethodMap /\ DOMAIN <<>> = {}
<1>1. <<>> \in [{} -> Nat] /\ {} \in SUBSET STRING
  OBVIOUS
<1>2. DOMAIN <<>> = {}
  OBVIOUS
<1> QED BY <1>1, <1>2 DEF MethodMap

\* The routes of a node after a registration: the entry of the pattern has the
\* new handlers, the others stay.
Added(new, rs, route) ==
  /\ (\E i \in DOMAIN rs : rs[i].pattern = route.pattern) =>
       /\ DOMAIN new = DOMAIN rs
       /\ \A i \in DOMAIN rs :
            /\ new[i].pattern = rs[i].pattern
            /\ new[i].methods = IF rs[i].pattern = route.pattern
                                THEN putAll(rs[i].methods, route.methods) ELSE rs[i].methods
  /\ ~(\E i \in DOMAIN rs : rs[i].pattern = route.pattern) =>
       /\ DOMAIN new = 1..Len(rs) + 1 /\ new[Len(rs) + 1] = route
       /\ \A i \in DOMAIN rs : new[i] = rs[i]

\* The end of insert adds or replaces.
LEMMA AddRouteIs ==
  ASSUME NEW rs \in Seq(Route), NEW route \in Route,
         NEW new, new = addRoute(rs, route)
  PROVE  new \in Seq(Route) /\ Added(new, rs, route)
<1> DEFINE Entry(i) == IF rs[i].pattern = route.pattern
                       THEN [rs[i] EXCEPT !.methods = putAll(@, route.methods)] ELSE rs[i]
<1>1. CASE \E i \in DOMAIN rs : rs[i].pattern = route.pattern
  <2>1. new = [i \in DOMAIN rs |-> Entry(i)]
    BY <1>1 DEF addRoute
  <2>2. ASSUME NEW i \in DOMAIN rs
        PROVE  /\ Entry(i) \in Route /\ Entry(i).pattern = rs[i].pattern
               /\ Entry(i).methods = IF rs[i].pattern = route.pattern
                                     THEN putAll(rs[i].methods, route.methods) ELSE rs[i].methods
    <3>1. rs[i] \in Route
      OBVIOUS
    <3>2. putAll(rs[i].methods, route.methods) \in MethodMap
      BY <3>1, PutAllIs DEF Route
    <3> QED BY <3>1, <3>2 DEF Route
  <2> HIDE DEF Entry
  <2>3. DOMAIN rs = 1..Len(rs) /\ Len(rs) \in Nat
    OBVIOUS
  <2>4. new \in [1..Len(rs) -> Route]
    BY <2>1, <2>2, <2>3
  <2>5. new \in Seq(Route)
    BY <2>3, <2>4, MakeSeq
  <2>6. DOMAIN new = DOMAIN rs /\ \A i \in DOMAIN rs : new[i] = Entry(i)
    BY <2>1
  <2>7. \A i \in DOMAIN rs :
          /\ new[i].pattern = rs[i].pattern
          /\ new[i].methods = IF rs[i].pattern = route.pattern
                              THEN putAll(rs[i].methods, route.methods) ELSE rs[i].methods
    BY <2>2, <2>6
  <2> QED BY <1>1, <2>5, <2>6, <2>7 DEF Added
<1>2. CASE ~(\E i \in DOMAIN rs : rs[i].pattern = route.pattern)
  <2>1. new = Append(rs, route)
    BY <1>2 DEF addRoute
  <2>2. new \in Seq(Route) /\ DOMAIN new = 1..Len(rs) + 1 /\ new[Len(rs) + 1] = route
        /\ \A i \in DOMAIN rs : new[i] = rs[i]
    BY <2>1
  <2> QED BY <1>2, <2>2 DEF Added
<1> QED BY <1>1, <1>2

Old(trie, n) == IF n \in DOMAIN trie THEN trie[n] ELSE emptyNode

Way(e) == {SubSeq(e, 1, k) : k \in 0..Len(e)}

\* Node n is on the way to e, and the next edge has this kind.
GetsEdge(n, e, kind) == n \in Way(e) /\ n # e /\ e[Len(n) + 1].kind = kind

\* The nodes on the way are those that e extends.
LEMMA OnTheWay ==
  ASSUME NEW e \in Seq(Segment), NEW n \in Way(e)
  PROVE  /\ n \in Seq(Segment) /\ Len(n) \in 0..Len(e) /\ n = SubSeq(e, 1, Len(n))
         /\ n # e => Len(n) + 1 \in 1..Len(e) /\ e[Len(n) + 1] \in Segment
         /\ \A i \in 1..Len(n) : n[i] = e[i]
<1>1. PICK k \in 0..Len(e) : n = SubSeq(e, 1, k)
  BY DEF Way
<1>2. n \in Seq(Segment) /\ Len(n) = k /\ \A i \in 1..Len(n) : n[i] = e[i]
  BY <1>1
<1>3. ASSUME n # e PROVE k # Len(e)
  <2>1. SubSeq(e, 1, Len(e)) = e
    BY SubSeqFull
  <2> QED BY <1>1, <1>3, <2>1
<1>4. Len(e) \in Nat
  OBVIOUS
<1>5. ASSUME n # e PROVE Len(n) + 1 \in 1..Len(e)
  BY <1>2, <1>3, <1>4, <1>5
<1>6. \A i \in 1..Len(e) : e[i] \in Segment
  BY ElementOfSeq
<1> QED BY <1>1, <1>2, <1>5, <1>6

\* The nodes of the trie are records.
LEMMA OldNode ==
  ASSUME NEW trie, TrieOK(trie), NEW n
  PROVE  /\ Old(trie, n) \in NodeType
         /\ \A kind \in Kinds :
              /\ Old(trie, n)[kind] \in Seq(STRING)
              /\ \A i, j \in DOMAIN Old(trie, n)[kind] :
                   Old(trie, n)[kind][i] = Old(trie, n)[kind][j] => i = j
              /\ n \notin DOMAIN trie => Range(Old(trie, n)[kind]) = {}
<1>1. CASE n \in DOMAIN trie
  <2>1. Old(trie, n) = trie[n]
    BY <1>1 DEF Old
  <2>2. trie[n] \in NodeType
    BY <1>1 DEF TrieOK, NodeType
  <2>3. \A kind \in Kinds : trie[n][kind] \in Seq(STRING)
    BY <2>2 DEF NodeType, Kinds
  <2> QED BY <1>1, <2>1, <2>2, <2>3 DEF TrieOK
<1>2. CASE n \notin DOMAIN trie
  <2>1. Old(trie, n) = emptyNode
    BY <1>2 DEF Old
  <2>2. <<>> \in Seq(Route) /\ <<>> \in Seq(STRING) /\ DOMAIN <<>> = {}
    BY EmptySeq
  <2>3. emptyNode \in NodeType
    BY <2>2 DEF emptyNode, NodeType
  <2>4. \A kind \in Kinds : emptyNode[kind] = <<>>
    BY DEF emptyNode, Kinds
  <2>5. Range(<<>>) = {}
    BY <2>2 DEF Range
  <2> QED BY <2>1, <2>2, <2>3, <2>4, <2>5
<1> QED BY <1>1, <1>2

\* The trie after an insertion.
Inserted(t, trie, e, route) ==
  /\ DOMAIN t = DOMAIN trie \cup Way(e) /\ e \in Way(e)
  /\ \A n \in DOMAIN t :
       /\ t[n] \in NodeType
       /\ t[n].routes = IF n = e THEN addRoute(Old(trie, n).routes, route)
                        ELSE Old(trie, n).routes
       /\ \A kind \in Kinds :
            t[n][kind] = IF GetsEdge(n, e, kind)
                         THEN AppendNew(Old(trie, n)[kind], e[Len(n) + 1].name)
                         ELSE Old(trie, n)[kind]

\* Each node gets what insert gives it, and no more.
LEMMA InsertShape ==
  ASSUME NEW trie, TrieOK(trie), NEW route \in Route, NEW e, e = edges(route.pattern), GoodNode(e),
         NEW t, t = insert(trie, route)
  PROVE  Inserted(t, trie, e, route)
<1> DEFINE D == DOMAIN trie \cup Way(e)
           old == [n \in D |-> IF n \in DOMAIN trie THEN trie[n] ELSE emptyNode]
           grown == [n \in DOMAIN old |->
                       IF n \in Way(e) /\ n # e THEN child(old[n], e[Len(n) + 1]) ELSE old[n]]
<1>1. t = [grown EXCEPT ![e].routes = addRoute(@, route)]
  BY DEF insert, Way
<1>2. e \in Seq(Segment) /\ Len(e) \in Nat
  BY DEF GoodNode
<1>3. e \in Way(e)
  <2>1. Len(e) \in 0..Len(e) /\ SubSeq(e, 1, Len(e)) = e
    BY <1>2, SubSeqFull
  <2> QED BY <2>1 DEF Way
<1>4. DOMAIN grown = D /\ \A n \in D : grown[n] = IF n \in Way(e) /\ n # e
                                                  THEN child(Old(trie, n), e[Len(n) + 1])
                                                  ELSE Old(trie, n)
  BY DEF Old
<1> HIDE DEF old, grown
<1>5. DOMAIN t = D /\ \A n \in D : t[n] = IF n = e THEN [grown[e] EXCEPT !.routes = addRoute(grown[e].routes, route)]
                                        ELSE grown[n]
  BY <1>1, <1>3, <1>4
<1>6. ASSUME NEW n \in D
      PROVE  /\ grown[n].routes = Old(trie, n).routes /\ grown[n] \in NodeType
             /\ \A kind \in Kinds :
                   grown[n][kind] = IF GetsEdge(n, e, kind)
                                THEN AppendNew(Old(trie, n)[kind], e[Len(n) + 1].name)
                                ELSE Old(trie, n)[kind]
  <2> DEFINE o == Old(trie, n)
             g == grown[n]
             x == e[Len(n) + 1]
  <2>0. /\ o \in NodeType
        /\ \A kind \in Kinds : /\ o[kind] \in Seq(STRING)
                               /\ \A i, j \in DOMAIN o[kind] : o[kind][i] = o[kind][j] => i = j
    BY OldNode
  <2>1. CASE n \in Way(e) /\ n # e
    <3>1. x \in Segment
      BY <1>2, <2>1, OnTheWay
    <3>2. g = child(o, x)
      BY <1>4, <2>1
    <3> HIDE DEF o, g, x
    <3>3. /\ g.routes = o.routes
          /\ \A kind \in Kinds : g[kind] = IF kind = x.kind THEN AppendNew(o[kind], x.name) ELSE o[kind]
          /\ DOMAIN g = DOMAIN o /\ g = [f \in DOMAIN g |-> g[f]]
      BY <2>0, <3>1, <3>2, ChildFields
    <3>4. o.routes \in Seq(Route)
      BY <2>0 DEF NodeType
    <3>5. \A kind \in Kinds : g[kind] \in Seq(STRING)
      <4>1. x.name \in STRING
        BY <3>1, SegmentIs
      <4>2. \A kind \in Kinds : AppendNew(o[kind], x.name) \in Seq(STRING)
        <5>1. PICK S : S = STRING
          OBVIOUS
        <5>2. \A kind \in Kinds : o[kind] \in Seq(S) /\ x.name \in S
          BY <2>0, <4>1, <5>1
        <5>3. \A kind \in Kinds : AppendNew(o[kind], x.name) \in Seq(S)
          BY <2>0, <5>2, AppendNewIs
        <5> QED BY <5>1, <5>3
      <4> QED BY <2>0, <3>3, <4>2
    <3>6. g \in NodeType
      BY <2>0, <3>3, <3>4, <3>5, IsNode
    <3>7. \A kind \in Kinds : GetsEdge(n, e, kind) <=> kind = x.kind
      BY <2>1 DEF GetsEdge, x
    <3> QED BY <3>3, <3>6, <3>7 DEF g, o, x
  <2>2. CASE ~(n \in Way(e) /\ n # e)
    <3>1. g = o
      BY <1>4, <2>2
    <3>2. \A kind \in Kinds : ~GetsEdge(n, e, kind)
      BY <2>2 DEF GetsEdge
    <3> QED BY <2>0, <3>1, <3>2
  <2> QED BY <2>1, <2>2
<1>7. ASSUME NEW n \in D
      PROVE  /\ t[n] \in NodeType
             /\ t[n].routes = IF n = e THEN addRoute(Old(trie, n).routes, route)
                              ELSE Old(trie, n).routes
             /\ \A kind \in Kinds : t[n][kind] = grown[n][kind]
  <2>1. CASE n = e
    <3> DEFINE g == grown[n]
               rs == addRoute(g.routes, route)
    <3>1. t[n] = [g EXCEPT !.routes = rs]
      BY <1>5, <2>1
    <3>2. g \in NodeType /\ g.routes = Old(trie, n).routes
      BY <1>6
    <3>3. rs \in Seq(Route)
      BY <3>2, AddRouteIs DEF NodeType
    <3> HIDE DEF g, rs
    <3>4. t[n] \in NodeType /\ t[n].routes = rs
      BY <3>1, <3>2, <3>3 DEF NodeType
    <3>5. \A kind \in Kinds : t[n][kind] = g[kind]
      BY <3>1, <3>2 DEF NodeType, Kinds
    <3> QED BY <2>1, <3>2, <3>4, <3>5 DEF rs, g
  <2>2. CASE n # e
    BY <1>5, <1>6, <2>2
  <2> QED BY <2>1, <2>2
<1> QED BY <1>3, <1>5, <1>6, <1>7 DEF Inserted

\* A prefix of a good node is good, and on the way.
LEMMA WayGood ==
  ASSUME NEW e, GoodNode(e), NEW n \in Way(e)
  PROVE  GoodNode(n) /\ \A k \in 0..Len(n) : SubSeq(n, 1, k) \in Way(e)
<1>1. e \in Seq(Segment) /\ Len(e) \in Nat /\ DOMAIN e = 1..Len(e)
  BY DEF GoodNode
<1>2. /\ n \in Seq(Segment) /\ Len(n) \in 0..Len(e) /\ DOMAIN n = 1..Len(n)
      /\ \A i \in 1..Len(n) : n[i] = e[i]
      /\ n = SubSeq(e, 1, Len(n))
  BY <1>1, OnTheWay
<1>3. \A i \in DOMAIN n : i \in DOMAIN e /\ n[i] = e[i]
  BY <1>1, <1>2
<1>4. ASSUME NEW i \in DOMAIN n, n[i].kind = "wildcard" PROVE i = Len(n)
  <2>1. i = Len(e)
    BY <1>3, <1>4 DEF GoodNode
  <2>2. i \in 1..Len(n) /\ Len(n) \in 0..Len(e) /\ Len(e) \in Nat
    BY <1>1, <1>2
  <2> QED BY <2>1, <2>2
<1>5. \A i, j \in DOMAIN n :
        n[i].kind # "literal" /\ n[j].kind # "literal" /\ n[j].name = n[i].name => j = i
  BY <1>3 DEF GoodNode
<1>6. GoodNode(n)
  BY <1>2, <1>4, <1>5 DEF GoodNode
<1>7. ASSUME NEW k \in 0..Len(n) PROVE SubSeq(n, 1, k) \in Way(e)
  <2> DEFINE a == SubSeq(n, 1, k)
             b == SubSeq(e, 1, k)
  <2>1. k \in 0..Len(e) /\ k \in Nat
    BY <1>1, <1>2
  <2>2. a \in Seq(Segment) /\ Len(a) = k /\ \A i \in 1..k : a[i] = n[i]
    BY <1>2
  <2>3. b \in Seq(Segment) /\ Len(b) = k /\ \A i \in 1..k : b[i] = e[i]
    BY <1>1, <2>1
  <2>4. \A i \in 1..k : i \in 1..Len(n)
    BY <1>2
  <2>5. b \in Way(e)
    BY <2>1 DEF Way
  <2> HIDE DEF a, b
  <2>6. \A i \in 1..Len(a) : a[i] = b[i]
    BY <1>2, <2>2, <2>3, <2>4
  <2>7. a = b
    BY <2>2, <2>3, <2>6, SeqEqual
  <2> QED BY <2>5, <2>7 DEF a
<1> QED BY <1>6, <1>7

\* A child is on the way to e if and only if its parent is and its edge is the next.
LEMMA WayChild ==
  ASSUME NEW e \in Seq(Segment), NEW n \in Seq(Segment), NEW x \in Segment
  PROVE  Append(n, x) \in Way(e) <=> n \in Way(e) /\ n # e /\ x = e[Len(n) + 1]
<1> DEFINE c == Append(n, x)
<1>1. /\ c \in Seq(Segment) /\ Len(n) \in Nat /\ Len(c) = Len(n) + 1
      /\ \A i \in 1..Len(n) : c[i] = n[i]
      /\ c[Len(n) + 1] = x
  BY ChildShape
<1>2. Len(e) \in Nat
  OBVIOUS
<1> HIDE DEF c
<1>3. ASSUME c \in Way(e) PROVE n \in Way(e) /\ n # e /\ x = e[Len(n) + 1]
  <2>1. Len(c) \in 0..Len(e) /\ \A i \in 1..Len(c) : c[i] = e[i]
    BY <1>3, OnTheWay
  <2>2. Len(n) \in 0..Len(e) /\ Len(n) < Len(e) /\ Len(n) + 1 \in 1..Len(c)
    BY <1>1, <1>2, <2>1
  <2>3. x = e[Len(n) + 1]
    BY <1>1, <2>1, <2>2
  <2>4. \A i \in 1..Len(n) : i \in 1..Len(c)
    BY <1>1
  <2>5. \A i \in 1..Len(n) : n[i] = e[i]
    BY <1>1, <2>1, <2>4
  <2> DEFINE b == SubSeq(e, 1, Len(n))
  <2>6. b \in Seq(Segment) /\ Len(b) = Len(n) /\ \A i \in 1..Len(n) : b[i] = e[i]
    BY <2>2
  <2>7. b \in Way(e)
    BY <2>2 DEF Way
  <2> HIDE DEF b
  <2>8. n = b
    BY <2>5, <2>6, SeqEqual
  <2>9. n # e
    BY <1>2, <2>2
  <2> QED BY <2>3, <2>7, <2>8, <2>9
<1>4. ASSUME n \in Way(e), n # e, x = e[Len(n) + 1] PROVE c \in Way(e)
  <2>1. Len(n) + 1 \in 1..Len(e) /\ \A i \in 1..Len(n) : n[i] = e[i]
    BY <1>4, OnTheWay
  <2> DEFINE b == SubSeq(e, 1, Len(n) + 1)
  <2>2. b \in Seq(Segment) /\ Len(b) = Len(n) + 1 /\ \A i \in 1..Len(n) + 1 : b[i] = e[i]
    BY <2>1
  <2>3. b \in Way(e)
    BY <1>1, <2>1 DEF Way
  <2> HIDE DEF b
  <2>4. \A i \in 1..Len(n) + 1 : i \in 1..Len(n) \/ i = Len(n) + 1
    BY <1>1
  <2>5. \A i \in 1..Len(c) : c[i] = b[i]
    BY <1>1, <1>4, <2>1, <2>2, <2>4
  <2>6. c = b
    BY <1>1, <2>2, <2>5, SeqEqual
  <2> QED BY <2>3, <2>6
<1> QED BY <1>3, <1>4 DEF c

\* An insertion keeps the trie a tree.
LEMMA InsertTrie ==
  ASSUME NEW trie, TrieOK(trie), NEW route \in Route, GoodNode(edges(route.pattern))
  PROVE  TrieOK(insert(trie, route))
<1>1. PICK e : e = edges(route.pattern)
  OBVIOUS
<1>2. PICK t : t = insert(trie, route)
  OBVIOUS
<1>3. GoodNode(e) /\ e \in Seq(Segment)
  BY <1>1 DEF GoodNode
<1>4. /\ DOMAIN t = DOMAIN trie \cup Way(e)
      /\ \A n \in DOMAIN t :
           /\ t[n] \in NodeType
           /\ \A kind \in Kinds :
                   t[n][kind] = IF GetsEdge(n, e, kind)
                                THEN AppendNew(Old(trie, n)[kind], e[Len(n) + 1].name)
                                ELSE Old(trie, n)[kind]
  <2>1. Inserted(t, trie, e, route)
    BY <1>1, <1>2, <1>3, InsertShape
  <2> QED BY <2>1 DEF Inserted
<1>5. <<>> \in DOMAIN t
  BY <1>4 DEF TrieOK
<1>6. \A n \in DOMAIN t : GoodNode(n) /\ \A k \in 0..Len(n) : SubSeq(n, 1, k) \in DOMAIN t
  <2>1. \A n \in DOMAIN trie : GoodNode(n) /\ \A k \in 0..Len(n) : SubSeq(n, 1, k) \in DOMAIN trie
    BY DEF TrieOK
  <2>2. \A n \in Way(e) : GoodNode(n) /\ \A k \in 0..Len(n) : SubSeq(n, 1, k) \in Way(e)
    BY <1>3, WayGood
  <2> QED BY <1>4, <2>1, <2>2
<1>7. ASSUME NEW n \in DOMAIN t, NEW kind \in Kinds
      PROVE  /\ \A i, j \in DOMAIN t[n][kind] : t[n][kind][i] = t[n][kind][j] => i = j
             /\ \A name \in STRING :
                  name \in Range(t[n][kind]) <=> Append(n, edge(kind, name)) \in DOMAIN t
  <2> DEFINE o == Old(trie, n)[kind]
             x == e[Len(n) + 1]
  <2>1. n \in Seq(Segment) /\ GoodNode(n)
    BY <1>6 DEF GoodNode
  <2>2. /\ o \in Seq(STRING) /\ \A i, j \in DOMAIN o : o[i] = o[j] => i = j
    BY OldNode
  <2>3. ASSUME NEW name \in STRING
        PROVE  name \in Range(o) <=> Append(n, edge(kind, name)) \in DOMAIN trie
    <3>1. CASE n \in DOMAIN trie
      <4>1. o = trie[n][kind]
        BY <3>1 DEF Old
      <4> HIDE DEF o
      <4> QED BY <3>1, <4>1 DEF TrieOK, edge
    <3>2. CASE n \notin DOMAIN trie
      <4>1. Range(o) = {}
        BY <3>2, OldNode
      <4>2. ASSUME Append(n, edge(kind, name)) \in DOMAIN trie PROVE FALSE
        <5> DEFINE c == Append(n, edge(kind, name))
        <5>1. edge(kind, name) \in Segment
          BY DEF edge, Segment
        <5>2. Len(c) = Len(n) + 1 /\ Len(n) \in Nat /\ c \in Seq(Segment)
              /\ \A i \in 1..Len(n) : c[i] = n[i]
          BY <2>1, <5>1, ChildShape
        <5> HIDE DEF c
        <5>3. SubSeq(c, 1, Len(n)) \in DOMAIN trie
          <6>1. c \in DOMAIN trie /\ Len(n) \in 0..Len(c)
            BY <4>2, <5>2 DEF c
          <6> QED BY <6>1 DEF TrieOK
        <5>4. SubSeq(c, 1, Len(n)) = n
          <6> DEFINE b == SubSeq(c, 1, Len(n))
          <6>1. b \in Seq(Segment) /\ Len(b) = Len(n) /\ \A i \in 1..Len(n) : b[i] = c[i]
            BY <5>2
          <6> HIDE DEF b
          <6>2. b = n
            BY <2>1, <5>2, <6>1, SeqEqual
          <6> QED BY <6>2 DEF b
        <5> QED BY <3>2, <5>3, <5>4
      <4> QED BY <4>1, <4>2
    <3> QED BY <3>1, <3>2
  <2>4. ASSUME NEW name \in STRING
        PROVE  Append(n, edge(kind, name)) \in Way(e) <=> GetsEdge(n, e, kind) /\ name = x.name
    <3>1. edge(kind, name) \in Segment
      BY DEF edge, Segment
    <3>2. Append(n, edge(kind, name)) \in Way(e) <=> n \in Way(e) /\ n # e /\ edge(kind, name) = x
      BY <1>3, <2>1, <3>1, WayChild
    <3>3. ASSUME n \in Way(e), n # e
          PROVE  edge(kind, name) = x <=> x.kind = kind /\ name = x.name
      <4>1. x \in Segment
        BY <1>3, <3>3, OnTheWay
      <4> HIDE DEF x
      <4>2. x = edge(x.kind, x.name)
        BY <4>1, SegmentIs
      <4>3. edge(kind, name).kind = kind /\ edge(kind, name).name = name
        BY DEF edge
      <4> QED BY <4>2, <4>3
    <3> QED BY <3>2, <3>3 DEF GetsEdge
  <2>5. CASE GetsEdge(n, e, kind)
    <3>1. x \in Segment
      BY <1>3, <2>5, OnTheWay DEF GetsEdge
    <3>2. x.name \in STRING
      BY <3>1, SegmentIs
    <3>3. t[n][kind] = AppendNew(o, x.name)
      BY <1>4, <2>5
    <3> DEFINE y == x.name
    <3> HIDE DEF o, x
    <3>4. PICK S : S = STRING
      OBVIOUS
    <3>5. o \in Seq(S) /\ y \in S
      BY <2>2, <3>2, <3>4
    <3> HIDE DEF y
    <3>6. /\ \A i, j \in DOMAIN AppendNew(o, y) : AppendNew(o, y)[i] = AppendNew(o, y)[j] => i = j
          /\ Range(AppendNew(o, y)) = Range(o) \cup {y}
      BY <2>2, <3>5, AppendNewIs
    <3>7. \A name \in STRING : name \in Range(o) \cup {y} <=> Append(n, edge(kind, name)) \in DOMAIN t
      BY <1>4, <2>3, <2>4, <2>5 DEF y
    <3>8. t[n][kind] = AppendNew(o, y)
      BY <3>3 DEF y
    <3> QED BY <3>6, <3>7, <3>8
  <2>6. CASE ~GetsEdge(n, e, kind)
    <3>1. t[n][kind] = o
      BY <1>4, <2>6
    <3> HIDE DEF o, x
    <3>2. \A name \in STRING : name \in Range(o) <=> Append(n, edge(kind, name)) \in DOMAIN t
      BY <1>4, <2>3, <2>4, <2>6
    <3> QED BY <2>2, <3>1, <3>2
  <2> QED BY <2>5, <2>6
<1>8. TrieOK(t)
  BY <1>4, <1>5, <1>6, <1>7 DEF TrieOK, NodeType, edge
<1> QED BY <1>2, <1>8

-----------------------------------------------------------------------------
(* The tables and the registrations.                                       *)

Registration == [method : STRING, pattern : Pattern]

\* The registrations of a pattern.
For(reg, p) == {i \in DOMAIN reg : reg[i].pattern = p}

\* ms has the newest handler for every method registered with pattern p.
NewestOf(ms, p, reg) ==
  /\ ms \in MethodMap
  /\ DOMAIN ms = {reg[i].method : i \in For(reg, p)}
  /\ \A m \in DOMAIN ms :
       /\ ms[m] \in For(reg, p) /\ reg[ms[m]].method = m
       /\ \A i \in For(reg, p) : reg[i].method = m => i <= ms[m]

\* Pattern p was first registered before q was.
FirstBefore(p, q, reg) == \E i \in For(reg, p) : \A j \in For(reg, q) : i < j

\* The routes of a node are the registered patterns that lead to it, oldest first.
EntriesOK(rs, n, reg) ==
  \A i \in DOMAIN rs :
    LET p == rs[i].pattern
    IN /\ edges(p) = n /\ hasPathParams(p) /\ For(reg, p) # {}
       /\ NewestOf(rs[i].methods, p, reg)
       /\ \A j \in DOMAIN rs : i < j => FirstBefore(p, rs[j].pattern, reg)

RoutesOK(trie, reg) == \A n \in DOMAIN trie : EntriesOK(trie[n].routes, n, reg)

\* The registrations that went through node g, the first of which added it.
Opening(reg, g) ==
  {i \in DOMAIN reg : hasPathParams(reg[i].pattern) /\ Extends(edges(reg[i].pattern), g)}

OpenedBefore(g, h, reg) == \E i \in Opening(reg, g) : \A j \in Opening(reg, h) : i < j

\* The edges of a kind are listed in the order in which they were added, and
\* every node was added by a registration.
EdgesInOrder(trie, reg) ==
  \A n \in DOMAIN trie, kind \in Kinds : \A i, j \in DOMAIN trie[n][kind] :
    i < j => OpenedBefore(Append(n, edge(kind, trie[n][kind][i])),
                          Append(n, edge(kind, trie[n][kind][j])), reg)

NodesOpened(trie, reg) == \A n \in DOMAIN trie : n # <<>> => Opening(reg, n) # {}

\* Every pattern with parameters is in the trie.
ParamsKnown(trie, reg) ==
  \A i \in DOMAIN reg :
    LET p == reg[i].pattern
    IN hasPathParams(p) =>
         /\ edges(p) \in DOMAIN trie
         /\ \E j \in DOMAIN trie[edges(p)].routes : trie[edges(p)].routes[j].pattern = p

\* The map of exact paths has the patterns without parameters.
StaticOK(rts, reg) ==
  /\ \A path \in DOMAIN rts :
       \E i \in DOMAIN reg : ~hasPathParams(reg[i].pattern) /\ pathOf(reg[i].pattern) = path
  /\ \A i \in DOMAIN reg :
       LET p == reg[i].pattern
       IN ~hasPathParams(p) => pathOf(p) \in DOMAIN rts /\ NewestOf(rts[pathOf(p)], p, reg)

Known(reg, rts, trie) ==
  /\ reg \in Seq(Registration)
  /\ TrieOK(trie)
  /\ RoutesOK(trie, reg)
  /\ ParamsKnown(trie, reg)
  /\ StaticOK(rts, reg)
  /\ EdgesInOrder(trie, reg)
  /\ NodesOpened(trie, reg)

\* The handlers of a new route, put into the map of an old one.
LEMMA PutAllOne ==
  ASSUME NEW map, NEW method, NEW h
  PROVE  putAll(map, put(<<>>, method, h)) = put(map, method, h)
<1> DEFINE one == [k \in {method} |-> h]
<1>1. DOMAIN <<>> = {}
  OBVIOUS
<1>2. DOMAIN one = {method} /\ \A k \in {method} : one[k] = h
  OBVIOUS
<1>3. put(<<>>, method, h) = one
  <2>1. put(<<>>, method, h) = [k \in {} \cup {method} |-> IF k \in {method} THEN one[k] ELSE <<>>[k]]
    BY <1>1 DEF put, putAll
  <2>2. \A k \in {} \cup {method} : (IF k \in {method} THEN one[k] ELSE <<>>[k]) = h
    BY <1>2
  <2>3. [k \in {} \cup {method} |-> IF k \in {method} THEN one[k] ELSE <<>>[k]] = [k \in {} \cup {method} |-> h]
    BY <2>2
  <2>4. {} \cup {method} = {method}
    OBVIOUS
  <2> QED BY <2>1, <2>3, <2>4
<1> QED BY <1>3 DEF put

\* The registrations of a pattern after one more.
LEMMA ForAppend ==
  ASSUME NEW reg \in Seq(Registration), NEW r \in Registration
  PROVE  /\ Append(reg, r) \in Seq(Registration) /\ Len(reg) \in Nat
         /\ DOMAIN Append(reg, r) = DOMAIN reg \cup {Len(reg) + 1}
         /\ \A i \in DOMAIN reg : /\ i \in Nat /\ i <= Len(reg) /\ Append(reg, r)[i] = reg[i]
                                  /\ i # Len(reg) + 1
         /\ Append(reg, r)[Len(reg) + 1] = r
         /\ \A p : For(Append(reg, r), p) = IF p = r.pattern THEN For(reg, p) \cup {Len(reg) + 1}
                                            ELSE For(reg, p)
<1> DEFINE b == Append(reg, r)
           h == Len(reg) + 1
<1>1. /\ b \in Seq(Registration) /\ Len(reg) \in Nat /\ DOMAIN reg = 1..Len(reg)
      /\ DOMAIN b = 1..Len(reg) + 1
      /\ \A i \in 1..Len(reg) : b[i] = reg[i]
      /\ b[h] = r
  BY AppendShape
<1> HIDE DEF b
<1>2. 1..Len(reg) + 1 = 1..Len(reg) \cup {h}
  BY <1>1
<1>3. \A i \in 1..Len(reg) : i \in Nat /\ i <= Len(reg) /\ i # h
  BY <1>1
<1> HIDE DEF h
<1>4. ASSUME NEW p PROVE For(b, p) = IF p = r.pattern THEN For(reg, p) \cup {h} ELSE For(reg, p)
  BY <1>1, <1>2 DEF For
<1> QED BY <1>1, <1>2, <1>3, <1>4 DEF b, h

\* The handlers of the other patterns stay the newest.
LEMMA NewestOther ==
  ASSUME NEW reg \in Seq(Registration), NEW r \in Registration, NEW p, p # r.pattern,
         NEW ms, NewestOf(ms, p, reg)
  PROVE  NewestOf(ms, p, Append(reg, r))
<1> DEFINE b == Append(reg, r)
<1>1. For(b, p) = For(reg, p) /\ \A i \in DOMAIN reg : b[i] = reg[i]
  BY ForAppend
<1> HIDE DEF b
<1>2. \A i \in For(reg, p) : b[i] = reg[i]
  BY <1>1 DEF For
<1>3. NewestOf(ms, p, b)
  BY <1>1, <1>2 DEF NewestOf
<1> QED BY <1>3 DEF b

\* The new handler is the newest.
LEMMA NewestSame ==
  ASSUME NEW reg \in Seq(Registration), NEW r \in Registration,
         NEW ms, NewestOf(ms, r.pattern, reg)
  PROVE  NewestOf(put(ms, r.method, Len(reg) + 1), r.pattern, Append(reg, r))
<1> DEFINE b == Append(reg, r)
           h == Len(reg) + 1
           p == r.pattern
           m == r.method
           new == put(ms, m, h)
<1>1. /\ For(b, p) = For(reg, p) \cup {h} /\ b[h] = r /\ Len(reg) \in Nat /\ h \in Nat
      /\ \A i \in DOMAIN reg : i \in Nat /\ i <= Len(reg) /\ b[i] = reg[i] /\ i # h
  BY ForAppend
<1>2. m \in STRING
  BY DEF Registration
<1>3. /\ ms \in MethodMap /\ DOMAIN ms = {reg[i].method : i \in For(reg, p)}
      /\ \A k \in DOMAIN ms : /\ ms[k] \in For(reg, p) /\ reg[ms[k]].method = k
                              /\ \A i \in For(reg, p) : reg[i].method = k => i <= ms[k]
  BY DEF NewestOf
<1>4. /\ new \in MethodMap /\ DOMAIN new = DOMAIN ms \cup {m} /\ new[m] = h
      /\ \A k \in DOMAIN ms : k # m => new[k] = ms[k]
  <2>1. ms \in MethodMap /\ m \in STRING /\ h \in Nat
    BY <1>1, <1>2, <1>3
  <2> HIDE DEF m, h
  <2> QED BY <2>1, PutIs
<1>5. \A i \in For(reg, p) : i \in Nat /\ i <= h /\ b[i] = reg[i] /\ i # h
  BY <1>1 DEF For
<1> HIDE DEF b, h, new
<1>6. DOMAIN new = {b[i].method : i \in For(b, p)}
  BY <1>1, <1>3, <1>4, <1>5
<1>7. ASSUME NEW k \in DOMAIN new
      PROVE  /\ new[k] \in For(b, p) /\ b[new[k]].method = k
             /\ \A i \in For(b, p) : b[i].method = k => i <= new[k]
  <2>1. CASE k = m
    BY <1>1, <1>4, <1>5, <2>1
  <2>2. CASE k # m
    <3>1. k \in DOMAIN ms /\ new[k] = ms[k]
      BY <1>4, <2>2
    <3>2. ms[k] \in For(reg, p) /\ reg[ms[k]].method = k
      BY <1>3, <3>1
    <3>3. \A i \in For(reg, p) : reg[i].method = k => i <= ms[k]
      BY <1>3, <3>1
    <3>4. b[h].method # k
      BY <1>1, <2>2
    <3> QED BY <1>1, <1>5, <3>1, <3>2, <3>3, <3>4
  <2> QED BY <2>1, <2>2
<1>8. NewestOf(new, p, b)
  BY <1>4, <1>6, <1>7 DEF NewestOf
<1> QED BY <1>8 DEF new, b, h

\* Nothing is registered for a new pattern.
LEMMA NewestNone ==
  ASSUME NEW reg, NEW p, For(reg, p) = {}
  PROVE  NewestOf(<<>>, p, reg)
  BY EmptyMap DEF NewestOf

\* The order of first registrations stays.
LEMMA FirstBeforeStays ==
  ASSUME NEW reg \in Seq(Registration), NEW r \in Registration, NEW p, NEW q, FirstBefore(p, q, reg)
  PROVE  FirstBefore(p, q, Append(reg, r))
<1> DEFINE b == Append(reg, r)
<1>1. /\ \A i \in DOMAIN reg : i \in Nat /\ i <= Len(reg)
      /\ \A x : For(b, x) = IF x = r.pattern THEN For(reg, x) \cup {Len(reg) + 1} ELSE For(reg, x)
      /\ Len(reg) \in Nat
  BY ForAppend
<1> HIDE DEF b
<1>2. PICK i \in For(reg, p) : \A j \in For(reg, q) : i < j
  BY DEF FirstBefore
<1>3. i \in For(b, p) /\ i \in Nat /\ i < Len(reg) + 1
  <2>1. i \in DOMAIN reg
    BY <1>2 DEF For
  <2> QED BY <1>1, <1>2, <2>1
<1>4. \A j \in For(b, q) : j \in For(reg, q) \/ j = Len(reg) + 1
  BY <1>1
<1>5. FirstBefore(p, q, b)
  BY <1>2, <1>3, <1>4 DEF FirstBefore
<1> QED BY <1>5 DEF b

\* The registrations that went through a node, after one more.
LEMMA OpeningAppend ==
  ASSUME NEW reg \in Seq(Registration), NEW r \in Registration, NEW g
  PROVE  Opening(Append(reg, r), g) =
           IF hasPathParams(r.pattern) /\ Extends(edges(r.pattern), g)
           THEN Opening(reg, g) \cup {Len(reg) + 1} ELSE Opening(reg, g)
<1> DEFINE b == Append(reg, r)
           h == Len(reg) + 1
<1>1. /\ DOMAIN b = DOMAIN reg \cup {h} /\ b[h] = r
      /\ \A i \in DOMAIN reg : b[i] = reg[i] /\ i # h
  BY ForAppend
<1> HIDE DEF b, h
<1>2. Opening(b, g) = IF hasPathParams(r.pattern) /\ Extends(edges(r.pattern), g)
                      THEN Opening(reg, g) \cup {h} ELSE Opening(reg, g)
  BY <1>1 DEF Opening
<1> QED BY <1>2 DEF b, h

\* The order in which nodes were added stays.
LEMMA OpenedStays ==
  ASSUME NEW reg \in Seq(Registration), NEW r \in Registration, NEW g, NEW h, OpenedBefore(g, h, reg)
  PROVE  OpenedBefore(g, h, Append(reg, r))
<1> DEFINE b == Append(reg, r)
           l == Len(reg) + 1
<1>1. /\ Opening(reg, g) \subseteq Opening(b, g)
      /\ \A j \in Opening(b, h) : j \in Opening(reg, h) \/ j = l
  BY OpeningAppend
<1>2. \A i \in DOMAIN reg : i < l
  <2>1. Len(reg) \in Nat /\ DOMAIN reg = 1..Len(reg)
    OBVIOUS
  <2> QED BY <2>1
<1> HIDE DEF b, l
<1>3. PICK i \in Opening(reg, g) : \A j \in Opening(reg, h) : i < j
  BY DEF OpenedBefore
<1>4. i < l
  BY <1>2, <1>3 DEF Opening
<1>5. OpenedBefore(g, h, b)
  BY <1>1, <1>3, <1>4 DEF OpenedBefore
<1> QED BY <1>5 DEF b

\* A registration went only through nodes of the trie.
LEMMA OpenedIsNode ==
  ASSUME NEW reg, NEW trie, TrieOK(trie), ParamsKnown(trie, reg),
         NEW g \in Seq(Segment), Opening(reg, g) # {}
  PROVE  g \in DOMAIN trie
<1>1. PICK i \in DOMAIN reg : hasPathParams(reg[i].pattern) /\ Extends(edges(reg[i].pattern), g)
  BY DEF Opening
<1>2. PICK e : e = edges(reg[i].pattern)
  OBVIOUS
<1>3. e \in DOMAIN trie /\ Extends(e, g)
  BY <1>1, <1>2 DEF ParamsKnown
<1>4. e \in Seq(Segment) /\ \A k \in 0..Len(e) : SubSeq(e, 1, k) \in DOMAIN trie
  BY <1>3 DEF TrieOK, GoodNode
<1>5. Len(g) \in 0..Len(e) /\ \A k \in 1..Len(g) : e[k] = g[k]
  BY <1>3, <1>4 DEF Extends
<1> DEFINE c == SubSeq(e, 1, Len(g))
<1>6. c \in Seq(Segment) /\ Len(c) = Len(g) /\ \A k \in 1..Len(g) : c[k] = e[k]
  BY <1>4, <1>5
<1>7. c \in DOMAIN trie
  BY <1>4, <1>5
<1> HIDE DEF c
<1>8. c = g
  BY <1>5, <1>6, SeqEqual
<1> QED BY <1>7, <1>8

\* Patterns without parameters for the same path are the same.
LEMMA PathInjective ==
  ASSUME NEW p \in Pattern, NEW q \in Pattern, ~hasPathParams(p), ~hasPathParams(q),
         pathOf(p) = pathOf(q)
  PROVE  p = q
<1> DEFINE f == [i \in DOMAIN p.segs |-> p.segs[i].name]
           g == [i \in DOMAIN q.segs |-> q.segs[i].name]
<1>1. f = g /\ p.slash = q.slash
  BY DEF pathOf
<1>2. p.segs \in Seq(Segment) /\ q.segs \in Seq(Segment)
  BY DEF Pattern
<1>3. DOMAIN p.segs = DOMAIN q.segs
  <2>1. DOMAIN f = DOMAIN p.segs /\ DOMAIN g = DOMAIN q.segs
    OBVIOUS
  <2> HIDE DEF f, g
  <2> QED BY <1>1, <2>1
<1>4. \A i \in DOMAIN p.segs : p.segs[i].name = q.segs[i].name
  <2>1. \A i \in DOMAIN p.segs : f[i] = p.segs[i].name /\ g[i] = q.segs[i].name
    BY <1>3
  <2> HIDE DEF f, g
  <2> QED BY <1>1, <2>1
<1>5. \A i \in DOMAIN p.segs : p.segs[i].kind = "literal" /\ q.segs[i].kind = "literal"
  BY <1>3 DEF hasPathParams
<1>6. \A i \in DOMAIN p.segs : p.segs[i] = q.segs[i]
  <2>1. \A i \in DOMAIN p.segs : p.segs[i] \in Segment /\ q.segs[i] \in Segment
    BY <1>2, <1>3
  <2>2. ASSUME NEW x \in Segment, NEW y \in Segment, x.kind = y.kind, x.name = y.name PROVE x = y
    BY <2>2 DEF Segment
  <2> QED BY <1>4, <1>5, <2>1, <2>2
<1>7. p.segs = q.segs
  <2>1. PICK s \in Seq(Segment) : s = p.segs
    BY <1>2
  <2>2. PICK t \in Seq(Segment) : t = q.segs
    BY <1>2
  <2>3. DOMAIN s = DOMAIN t /\ \A i \in DOMAIN s : s[i] = t[i]
    BY <1>3, <1>6, <2>1, <2>2
  <2>4. Len(s) = Len(t)
    BY <2>1, <2>2, <2>3
  <2>5. s = t
    BY <2>1, <2>2, <2>3, <2>4, SeqEqual
  <2> QED BY <2>1, <2>2, <2>5
<1> QED BY <1>1, <1>7 DEF Pattern

\* Nothing is registered at first.
LEMMA KnownInit == Known(<<>>, <<>>, [n \in {<<>>} |-> emptyNode])
<1> DEFINE trie == [n \in {<<>>} |-> emptyNode]
<1>1. DOMAIN trie = {<<>>} /\ trie[<<>>] = emptyNode
  OBVIOUS
<1>2. /\ <<>> \in Seq(Registration) /\ <<>> \in Seq(Segment) /\ <<>> \in Seq(Route) /\ <<>> \in Seq(STRING)
      /\ DOMAIN <<>> = {} /\ Len(<<>>) = 0
  BY EmptySeq
<1>3. GoodNode(<<>>)
  BY <1>2 DEF GoodNode
<1>4. \A k \in 0..Len(<<>>) : SubSeq(<<>>, 1, k) = <<>>
  <2>1. \A k \in 0..Len(<<>>) : k = Len(<<>>)
    BY <1>2
  <2>2. SubSeq(<<>>, 1, Len(<<>>)) = <<>>
    BY <1>2, SubSeqFull
  <2> QED BY <2>1, <2>2
<1>5. emptyNode \in NodeType /\ emptyNode.routes = <<>> /\ \A kind \in Kinds : emptyNode[kind] = <<>>
  BY <1>2 DEF emptyNode, NodeType, Kinds
<1> HIDE DEF trie
<1>6. ASSUME NEW kind \in Kinds, NEW name \in STRING
      PROVE  name \notin Range(<<>>) /\ Append(<<>>, [kind |-> kind, name |-> name]) \notin DOMAIN trie
  <2>1. [kind |-> kind, name |-> name] \in Segment
    BY DEF Segment
  <2>2. Append(<<>>, [kind |-> kind, name |-> name]) # <<>>
    BY <1>2, <2>1, AppendProperties
  <2>3. Range(<<>>) = {}
    BY <1>2 DEF Range
  <2> QED BY <1>1, <2>2, <2>3
<1>7. TrieOK(trie)
  BY <1>1, <1>2, <1>3, <1>4, <1>5, <1>6 DEF TrieOK, NodeType
<1>8. RoutesOK(trie, <<>>) /\ ParamsKnown(trie, <<>>) /\ StaticOK(<<>>, <<>>)
  BY <1>1, <1>2, <1>5 DEF RoutesOK, EntriesOK, ParamsKnown, StaticOK
<1>9. EdgesInOrder(trie, <<>>) /\ NodesOpened(trie, <<>>)
  BY <1>1, <1>2, <1>5 DEF EdgesInOrder, NodesOpened
<1> QED BY <1>2, <1>7, <1>8, <1>9 DEF Known, trie

\* What the registration of another pattern leaves of an entry of a node.
LEMMA EntryStays ==
  ASSUME NEW reg \in Seq(Registration), NEW r \in Registration, NEW rs, NEW n, EntriesOK(rs, n, reg), NEW i \in DOMAIN rs
  PROVE  /\ edges(rs[i].pattern) = n /\ hasPathParams(rs[i].pattern)
         /\ For(Append(reg, r), rs[i].pattern) # {}
         /\ rs[i].pattern # r.pattern => NewestOf(rs[i].methods, rs[i].pattern, Append(reg, r))
         /\ \A j \in DOMAIN rs : i < j => FirstBefore(rs[i].pattern, rs[j].pattern, Append(reg, r))
<1>1. /\ edges(rs[i].pattern) = n /\ hasPathParams(rs[i].pattern)
      /\ For(reg, rs[i].pattern) # {} /\ NewestOf(rs[i].methods, rs[i].pattern, reg)
      /\ \A j \in DOMAIN rs : i < j => FirstBefore(rs[i].pattern, rs[j].pattern, reg)
  BY DEF EntriesOK
<1>2. For(Append(reg, r), rs[i].pattern) # {}
  <2>1. \A p : For(Append(reg, r), p) = IF p = r.pattern THEN For(reg, p) \cup {Len(reg) + 1}
                                        ELSE For(reg, p)
    BY ForAppend
  <2> QED BY <1>1, <2>1
<1>3. rs[i].pattern # r.pattern => NewestOf(rs[i].methods, rs[i].pattern, Append(reg, r))
  BY <1>1, NewestOther
<1>4. \A j \in DOMAIN rs : i < j => FirstBefore(rs[i].pattern, rs[j].pattern, Append(reg, r))
  BY <1>1, FirstBeforeStays
<1> QED BY <1>1, <1>2, <1>3, <1>4

\* A node that the pattern does not lead to.
LEMMA EntriesStay ==
  ASSUME NEW reg \in Seq(Registration), NEW r \in Registration,
         NEW rs, NEW n, EntriesOK(rs, n, reg), \A i \in DOMAIN rs : rs[i].pattern # r.pattern
  PROVE  EntriesOK(rs, n, Append(reg, r))
<1>1. PICK b : b = Append(reg, r)
  OBVIOUS
<1>2. ASSUME NEW i \in DOMAIN rs
      PROVE  /\ edges(rs[i].pattern) = n /\ hasPathParams(rs[i].pattern)
             /\ For(b, rs[i].pattern) # {} /\ NewestOf(rs[i].methods, rs[i].pattern, b)
             /\ \A j \in DOMAIN rs : i < j => FirstBefore(rs[i].pattern, rs[j].pattern, b)
  BY <1>1, EntryStays
<1>3. EntriesOK(rs, n, b)
  BY <1>2 DEF EntriesOK
<1> QED BY <1>1, <1>3

\* The registration of a pattern without parameters.
LEMMA KnownStatic ==
  ASSUME NEW reg, NEW rts, NEW trie, Known(reg, rts, trie), NEW r \in Registration,
         ~hasPathParams(r.pattern), NEW path, path = pathOf(r.pattern),
         NEW old, old = IF path \in DOMAIN rts THEN rts[path] ELSE <<>>
  PROVE  Known(Append(reg, r), put(rts, path, put(old, r.method, Len(reg) + 1)), trie)
<1>1. PICK b : b = Append(reg, r)
  OBVIOUS
<1>2. PICK ms : ms = put(old, r.method, Len(reg) + 1)
  OBVIOUS
<1>3. PICK t : t = put(rts, path, ms)
  OBVIOUS
<1>4. /\ reg \in Seq(Registration) /\ TrieOK(trie) /\ RoutesOK(trie, reg) /\ ParamsKnown(trie, reg)
      /\ StaticOK(rts, reg) /\ EdgesInOrder(trie, reg) /\ NodesOpened(trie, reg)
  BY DEF Known
<1>5. /\ b \in Seq(Registration) /\ DOMAIN b = DOMAIN reg \cup {Len(reg) + 1}
      /\ b[Len(reg) + 1] = r /\ \A i \in DOMAIN reg : b[i] = reg[i]
  BY <1>1, <1>4, ForAppend
<1>6. \A i \in DOMAIN reg : reg[i].pattern \in Pattern
  <2>1. \A i \in DOMAIN reg : reg[i] \in Registration
    BY <1>4
  <2> QED BY <2>1 DEF Registration
<1>7. r.pattern \in Pattern
  BY DEF Registration
<1>8. \A i \in DOMAIN reg :
        ~hasPathParams(reg[i].pattern) /\ pathOf(reg[i].pattern) = path => reg[i].pattern = r.pattern
  BY <1>6, <1>7, PathInjective
<1>9. NewestOf(old, r.pattern, reg)
  <2>1. CASE path \in DOMAIN rts
    <3>1. PICK i \in DOMAIN reg : ~hasPathParams(reg[i].pattern) /\ pathOf(reg[i].pattern) = path
      BY <1>4, <2>1 DEF StaticOK
    <3>2. NewestOf(rts[path], reg[i].pattern, reg)
      BY <1>4, <3>1 DEF StaticOK
    <3>3. reg[i].pattern = r.pattern
      BY <1>8, <3>1
    <3> QED BY <2>1, <3>2, <3>3
  <2>2. CASE path \notin DOMAIN rts
    <3>1. For(reg, r.pattern) = {}
      BY <1>4, <2>2 DEF For, StaticOK
    <3> QED BY <2>2, <3>1, NewestNone
  <2> QED BY <2>1, <2>2
<1>10. NewestOf(ms, r.pattern, b)
  BY <1>1, <1>2, <1>4, <1>9, NewestSame
<1>11. DOMAIN t = DOMAIN rts \cup {path} /\ t[path] = ms /\ \A k \in DOMAIN rts : k # path => t[k] = rts[k]
  <2>1. /\ DOMAIN put(rts, path, ms) = DOMAIN rts \cup {path}
        /\ put(rts, path, ms)[path] = ms
        /\ \A k \in DOMAIN rts : k # path => put(rts, path, ms)[k] = rts[k]
    BY DEF put, putAll
  <2> QED BY <1>3, <2>1
<1>12. ASSUME NEW k \in DOMAIN t
       PROVE  \E i \in DOMAIN b : ~hasPathParams(b[i].pattern) /\ pathOf(b[i].pattern) = k
  <2>1. CASE k = path
    BY <1>5, <2>1
  <2>2. CASE k # path
    <3>1. k \in DOMAIN rts
      BY <1>11, <2>2
    <3>2. PICK i \in DOMAIN reg : ~hasPathParams(reg[i].pattern) /\ pathOf(reg[i].pattern) = k
      BY <1>4, <3>1 DEF StaticOK
    <3> QED BY <1>5, <3>2
  <2> QED BY <2>1, <2>2
<1>13. ASSUME NEW i \in DOMAIN b, ~hasPathParams(b[i].pattern)
       PROVE  pathOf(b[i].pattern) \in DOMAIN t /\ NewestOf(t[pathOf(b[i].pattern)], b[i].pattern, b)
  <2>1. CASE b[i].pattern = r.pattern
    BY <1>10, <1>11, <2>1
  <2>2. CASE b[i].pattern # r.pattern
    <3>1. i \in DOMAIN reg /\ b[i] = reg[i]
      BY <1>5, <2>2
    <3>2. PICK p : p = reg[i].pattern
      OBVIOUS
    <3>3. pathOf(p) \in DOMAIN rts /\ NewestOf(rts[pathOf(p)], p, reg)
      BY <1>4, <1>13, <3>1, <3>2 DEF StaticOK
    <3>4. pathOf(p) # path
      BY <1>8, <1>13, <2>2, <3>1, <3>2
    <3>5. p # r.pattern
      BY <2>2, <3>1, <3>2
    <3>6. NewestOf(rts[pathOf(p)], p, b)
      BY <1>1, <1>4, <3>3, <3>5, NewestOther
    <3> QED BY <1>11, <3>1, <3>2, <3>3, <3>4, <3>6
  <2> QED BY <2>1, <2>2
<1>14. StaticOK(t, b)
  BY <1>12, <1>13 DEF StaticOK
<1>15. ParamsKnown(trie, b)
  BY <1>4, <1>5 DEF ParamsKnown
<1>16. RoutesOK(trie, b)
  <2> SUFFICES ASSUME NEW n \in DOMAIN trie PROVE EntriesOK(trie[n].routes, n, b)
    BY DEF RoutesOK
  <2>1. PICK rs : rs = trie[n].routes
    OBVIOUS
  <2>2. EntriesOK(rs, n, reg)
    BY <1>4, <2>1 DEF RoutesOK
  <2>3. \A i \in DOMAIN rs : rs[i].pattern # r.pattern
    BY <2>2 DEF EntriesOK
  <2>4. EntriesOK(rs, n, b)
    BY <1>1, <1>4, <2>2, <2>3, EntriesStay
  <2> QED BY <2>1, <2>4
<1>17. EdgesInOrder(trie, b) /\ NodesOpened(trie, b)
  <2>1. \A g, k : OpenedBefore(g, k, reg) => OpenedBefore(g, k, b)
    BY <1>1, <1>4, OpenedStays
  <2>2. \A g : Opening(reg, g) \subseteq Opening(b, g)
    BY <1>1, <1>4, OpeningAppend
  <2> QED BY <1>4, <2>1, <2>2 DEF EdgesInOrder, NodesOpened
<1>18. Known(b, t, trie)
  BY <1>4, <1>5, <1>14, <1>15, <1>16, <1>17 DEF Known
<1> QED BY <1>1, <1>2, <1>3, <1>18

\* The edges of a node after an insertion are in the order of the history.
LEMMA EdgesGrow ==
  ASSUME NEW reg \in Seq(Registration), NEW r \in Registration, hasPathParams(r.pattern),
         NEW trie, TrieOK(trie), ParamsKnown(trie, reg), EdgesInOrder(trie, reg), NodesOpened(trie, reg),
         NEW e, e = edges(r.pattern), GoodNode(e), NEW t, NEW route, Inserted(t, trie, e, route),
         NEW n \in DOMAIN t, NEW kind \in Kinds,
         NEW i \in DOMAIN t[n][kind], NEW j \in DOMAIN t[n][kind], i < j
  PROVE  OpenedBefore(Append(n, edge(kind, t[n][kind][i])),
                      Append(n, edge(kind, t[n][kind][j])), Append(reg, r))
<1>1. PICK b : b = Append(reg, r)
  OBVIOUS
<1>2. PICK o : o = Old(trie, n)[kind]
  OBVIOUS
<1>3. PICK x : x = e[Len(n) + 1].name
  OBVIOUS
<1>4. PICK s : s = t[n][kind]
  OBVIOUS
<1>5. e \in Seq(Segment) /\ s = IF GetsEdge(n, e, kind) THEN AppendNew(o, x) ELSE o
  BY <1>2, <1>3, <1>4 DEF Inserted, GoodNode
<1>6. /\ o \in Seq(STRING)
      /\ n \notin DOMAIN trie => Range(o) = {}
      /\ \A g, k : OpenedBefore(g, k, reg) => OpenedBefore(g, k, b)
  BY <1>1, <1>2, OldNode, OpenedStays
<1>7. ASSUME NEW k \in DOMAIN o PROVE n \in DOMAIN trie /\ o = trie[n][kind]
  <2>1. Range(o) # {}
    BY DEF Range
  <2> QED BY <1>2, <1>6, <2>1 DEF Old
<1>8. CASE i \in DOMAIN o /\ j \in DOMAIN o /\ s[i] = o[i] /\ s[j] = o[j]
  <2>1. OpenedBefore(Append(n, edge(kind, o[i])), Append(n, edge(kind, o[j])), reg)
    BY <1>7, <1>8 DEF EdgesInOrder
  <2> QED BY <1>1, <1>4, <1>6, <1>8, <2>1
<1>9. CASE GetsEdge(n, e, kind) /\ x \notin Range(o)
  <2>1. s = Append(o, x)
    BY <1>5, <1>9 DEF AppendNew
  <2>2. x \in STRING
    BY <1>3, <1>5, <1>9, OnTheWay, SegmentIs DEF GetsEdge
  <2>3. /\ Len(o) \in Nat /\ DOMAIN o = 1..Len(o) /\ DOMAIN s = 1..Len(o) + 1
        /\ \A k \in 1..Len(o) : s[k] = o[k]
        /\ s[Len(o) + 1] = x
    BY <1>6, <2>1, <2>2, AppendShape
  <2>4. i \in DOMAIN s /\ j \in DOMAIN s
    BY <1>4
  <2>5. i \in DOMAIN o /\ s[i] = o[i]
    BY <2>3, <2>4
  <2>6. CASE j # Len(o) + 1
    <3>1. j \in DOMAIN o /\ s[j] = o[j]
      BY <2>3, <2>4, <2>6
    <3> QED BY <1>8, <2>5, <3>1
  <2>7. CASE j = Len(o) + 1
    <3>1. n \in DOMAIN trie /\ o = trie[n][kind] /\ s[j] = x
      BY <1>7, <2>3, <2>5, <2>7
    <3>2. n \in Seq(Segment) /\ o[i] \in STRING /\ o[i] \in Range(o)
      BY <1>6, <2>5, <3>1 DEF TrieOK, GoodNode, Range
    <3>3. PICK c : c = Append(n, edge(kind, o[i]))
      OBVIOUS
    <3>4. PICK d : d = Append(n, edge(kind, x))
      OBVIOUS
    <3>5. c \in DOMAIN trie /\ d \notin DOMAIN trie
      <4>1. \A name \in STRING : name \in Range(trie[n][kind]) <=> Append(n, edge(kind, name)) \in DOMAIN trie
        BY <3>1 DEF TrieOK, edge
      <4> QED BY <1>9, <2>2, <3>1, <3>2, <3>3, <3>4, <4>1
    <3>6. c \in Seq(Segment) /\ d \in Seq(Segment) /\ c # <<>>
      <4>1. edge(kind, o[i]) \in Segment /\ edge(kind, x) \in Segment
        BY <2>2, <3>2 DEF edge, Segment
      <4>2. Len(c) = Len(n) + 1 /\ Len(n) \in Nat
        BY <3>2, <3>3, <4>1, ChildShape
      <4>3. Len(<<>>) = 0
        OBVIOUS
      <4>4. c # <<>>
        BY <4>2, <4>3
      <4> QED BY <3>2, <3>3, <3>4, <4>1, <4>4, ChildShape
    <3>7. Opening(reg, d) = {}
      BY <3>5, <3>6, OpenedIsNode
    <3>8. PICK k : k \in Opening(reg, c)
      BY <3>5, <3>6 DEF NodesOpened
    <3>9. \A g : /\ Opening(reg, g) \subseteq Opening(b, g)
                 /\ Opening(b, g) \subseteq Opening(reg, g) \cup {Len(reg) + 1}
      BY <1>1, OpeningAppend
    <3>10. k < Len(reg) + 1
      <4>1. Len(reg) \in Nat /\ DOMAIN reg = 1..Len(reg)
        OBVIOUS
      <4>2. k \in DOMAIN reg
        BY <3>8 DEF Opening
      <4> QED BY <4>1, <4>2
    <3>11. OpenedBefore(c, d, b)
      BY <3>7, <3>8, <3>9, <3>10 DEF OpenedBefore
    <3> QED BY <1>1, <1>4, <2>5, <3>1, <3>3, <3>4, <3>11
  <2> QED BY <2>6, <2>7
<1>10. CASE ~(GetsEdge(n, e, kind) /\ x \notin Range(o))
  <2>1. s = o
    BY <1>5, <1>10 DEF AppendNew
  <2> QED BY <1>4, <1>8, <2>1
<1> QED BY <1>9, <1>10

\* The node of a pattern that is registered.
Grown(new, rs, e, p, reg) ==
  /\ EntriesOK(new, e, reg)
  /\ \E i \in DOMAIN new : new[i].pattern = p
  /\ \A i \in DOMAIN rs : \E j \in DOMAIN new : new[j].pattern = rs[i].pattern

\* Its entries are those of before and that of the pattern.
LEMMA EntriesGrow ==
  ASSUME NEW reg \in Seq(Registration), NEW r \in Registration, hasPathParams(r.pattern),
         NEW rs \in Seq(Route), EntriesOK(rs, edges(r.pattern), reg),
         For(reg, r.pattern) # {} => \E i \in DOMAIN rs : rs[i].pattern = r.pattern,
         NEW route \in Route, route.pattern = r.pattern,
         route.methods = put(<<>>, r.method, Len(reg) + 1),
         NEW new, new = addRoute(rs, route)
  PROVE  Grown(new, rs, edges(r.pattern), r.pattern, Append(reg, r))
<1>1. PICK b : b = Append(reg, r)
  OBVIOUS
<1>2. PICK e : e = edges(r.pattern)
  OBVIOUS
<1>3. PICK h : h = Len(reg) + 1
  OBVIOUS
<1>4. /\ (\E i \in DOMAIN rs : rs[i].pattern = r.pattern) =>
              /\ DOMAIN new = DOMAIN rs
              /\ \A i \in DOMAIN rs :
                   /\ new[i].pattern = rs[i].pattern
                   /\ new[i].methods = IF rs[i].pattern = r.pattern
                                       THEN putAll(rs[i].methods, route.methods) ELSE rs[i].methods
      /\ ~(\E i \in DOMAIN rs : rs[i].pattern = r.pattern) =>
              /\ DOMAIN new = 1..Len(rs) + 1 /\ new[Len(rs) + 1] = route
              /\ \A i \in DOMAIN rs : new[i] = rs[i]
  <2>1. Added(new, rs, route)
    BY AddRouteIs
  <2> QED BY <2>1 DEF Added
<1>5. \A i \in DOMAIN rs :
        /\ edges(rs[i].pattern) = e /\ hasPathParams(rs[i].pattern)
        /\ For(b, rs[i].pattern) # {}
        /\ rs[i].pattern # r.pattern => NewestOf(rs[i].methods, rs[i].pattern, b)
        /\ \A j \in DOMAIN rs : i < j => FirstBefore(rs[i].pattern, rs[j].pattern, b)
  BY <1>1, <1>2, EntryStays
<1>6. \A i \in DOMAIN rs : NewestOf(rs[i].methods, rs[i].pattern, reg) /\ For(reg, rs[i].pattern) # {}
  BY DEF EntriesOK
<1>7. \A ms : NewestOf(ms, r.pattern, reg) => NewestOf(put(ms, r.method, h), r.pattern, b)
  BY <1>1, <1>3, NewestSame
<1>8. CASE \E i \in DOMAIN rs : rs[i].pattern = r.pattern
  <2>1. /\ DOMAIN new = DOMAIN rs
        /\ \A i \in DOMAIN rs :
             /\ new[i].pattern = rs[i].pattern
             /\ new[i].methods = IF rs[i].pattern = r.pattern
                                 THEN putAll(rs[i].methods, route.methods) ELSE rs[i].methods
    BY <1>4, <1>8
  <2>2. ASSUME NEW i \in DOMAIN rs PROVE NewestOf(new[i].methods, new[i].pattern, b)
    <3>1. CASE rs[i].pattern = r.pattern
      <4>1. new[i].methods = putAll(rs[i].methods, put(<<>>, r.method, h))
        BY <1>3, <2>1, <3>1
      <4>2. new[i].methods = put(rs[i].methods, r.method, h)
        BY <4>1, PutAllOne
      <4>3. NewestOf(rs[i].methods, r.pattern, reg)
        BY <1>6, <3>1
      <4>4. NewestOf(put(rs[i].methods, r.method, h), r.pattern, b)
        BY <1>7, <4>3
      <4> QED BY <2>1, <3>1, <4>2, <4>4
    <3>2. CASE rs[i].pattern # r.pattern
      BY <1>5, <2>1, <3>2
    <3> QED BY <3>1, <3>2
  <2>3. EntriesOK(new, e, b)
    BY <1>5, <2>1, <2>2 DEF EntriesOK
  <2> QED BY <1>1, <1>2, <1>8, <2>1, <2>3 DEF Grown
<1>9. CASE ~(\E i \in DOMAIN rs : rs[i].pattern = r.pattern)
  <2>1. PICK l : l = Len(rs) + 1
    OBVIOUS
  <2>2. DOMAIN new = 1..l /\ new[l] = route /\ \A i \in DOMAIN rs : new[i] = rs[i]
    BY <1>4, <1>9, <2>1
  <2>3. l \in Nat /\ DOMAIN rs = 1..l - 1 /\ l \in 1..l
    BY <2>1
  <2>4. For(reg, r.pattern) = {}
    BY <1>9
  <2>5. /\ For(b, r.pattern) = {h} /\ h \in Nat
        /\ \A p : p # r.pattern => For(b, p) = For(reg, p)
        /\ \A i \in DOMAIN reg : i < h
    <3>1. /\ \A p : For(b, p) = IF p = r.pattern THEN For(reg, p) \cup {h} ELSE For(reg, p)
          /\ \A i \in DOMAIN reg : i \in Nat /\ i <= Len(reg)
          /\ Len(reg) \in Nat
      BY <1>1, <1>3, ForAppend
    <3> QED BY <1>3, <2>4, <3>1
  <2>6. NewestOf(route.methods, r.pattern, b)
    BY <1>3, <1>7, <2>4, NewestNone
  <2>7. \A i \in DOMAIN rs : FirstBefore(rs[i].pattern, r.pattern, b)
    <3> TAKE i \in DOMAIN rs
    <3>1. rs[i].pattern # r.pattern /\ For(reg, rs[i].pattern) # {}
      BY <1>6, <1>9
    <3>2. PICK x : x \in For(reg, rs[i].pattern)
      BY <3>1
    <3>3. x \in For(b, rs[i].pattern) /\ x < h
      BY <2>5, <3>1, <3>2 DEF For
    <3> QED BY <2>5, <3>3 DEF FirstBefore
  <2>8. ASSUME NEW i \in DOMAIN new
        PROVE  /\ edges(new[i].pattern) = e /\ hasPathParams(new[i].pattern)
               /\ For(b, new[i].pattern) # {} /\ NewestOf(new[i].methods, new[i].pattern, b)
               /\ \A j \in DOMAIN new : i < j => FirstBefore(new[i].pattern, new[j].pattern, b)
    <3>1. CASE i = l
      <4>1. \A j \in DOMAIN new : ~(i < j)
        BY <2>2, <2>3, <3>1
      <4> QED BY <1>2, <2>2, <2>5, <2>6, <3>1, <4>1
    <3>2. CASE i # l
      <4>1. i \in DOMAIN rs
        BY <2>2, <2>3, <3>2
      <4>2. new[i] = rs[i] /\ rs[i].pattern # r.pattern
        BY <1>9, <2>2, <4>1
      <4>3. ASSUME NEW j \in DOMAIN new, i < j PROVE FirstBefore(rs[i].pattern, new[j].pattern, b)
        <5>1. CASE j = l
          BY <2>2, <2>7, <4>1, <5>1
        <5>2. CASE j # l
          <6>1. j \in DOMAIN rs /\ new[j] = rs[j]
            BY <2>2, <2>3, <5>2
          <6> QED BY <1>5, <4>1, <4>3, <6>1
        <5> QED BY <5>1, <5>2
      <4> QED BY <1>5, <4>1, <4>2, <4>3
    <3> QED BY <3>1, <3>2
  <2>9. EntriesOK(new, e, b)
    BY <2>8 DEF EntriesOK
  <2>10. DOMAIN rs \subseteq DOMAIN new
    BY <2>2, <2>3
  <2> QED BY <1>1, <1>2, <2>2, <2>3, <2>9, <2>10 DEF Grown
<1> QED BY <1>8, <1>9

\* The registration of a pattern with parameters.
LEMMA KnownParam ==
  ASSUME NEW reg, NEW rts, NEW trie, Known(reg, rts, trie), NEW r \in Registration,
         hasPathParams(r.pattern), validSegments(r.pattern),
         NEW route \in Route, route.pattern = r.pattern,
         route.methods = put(<<>>, r.method, Len(reg) + 1)
  PROVE  Known(Append(reg, r), rts, insert(trie, route))
<1>1. PICK b : b = Append(reg, r)
  OBVIOUS
<1>2. PICK t : t = insert(trie, route)
  OBVIOUS
<1>3. PICK e : e = edges(r.pattern)
  OBVIOUS
<1>4. /\ reg \in Seq(Registration) /\ TrieOK(trie) /\ RoutesOK(trie, reg) /\ ParamsKnown(trie, reg)
      /\ StaticOK(rts, reg) /\ EdgesInOrder(trie, reg) /\ NodesOpened(trie, reg)
  BY DEF Known
<1>5. /\ b \in Seq(Registration) /\ DOMAIN b = DOMAIN reg \cup {Len(reg) + 1} /\ Len(reg) \in Nat
      /\ b[Len(reg) + 1] = r /\ \A i \in DOMAIN reg : b[i] = reg[i]
  BY <1>1, <1>4, ForAppend
<1>6. r.pattern \in Pattern /\ r.method \in STRING
  BY DEF Registration
<1>9. GoodNode(e) /\ e = edges(route.pattern)
  BY <1>3, <1>6, EdgesGood
<1>10. /\ DOMAIN t = DOMAIN trie \cup Way(e) /\ e \in Way(e)
       /\ \A n \in DOMAIN t :
            t[n].routes = IF n = e THEN addRoute(Old(trie, n).routes, route) ELSE Old(trie, n).routes
  <2>1. Inserted(t, trie, e, route)
    BY <1>2, <1>4, <1>9, InsertShape
  <2> QED BY <2>1 DEF Inserted
<1>11. TrieOK(t)
  BY <1>2, <1>4, <1>9, InsertTrie
<1>12. ASSUME NEW n
       PROVE  Old(trie, n).routes \in Seq(Route) /\ EntriesOK(Old(trie, n).routes, n, reg)
  <2>1. Old(trie, n).routes \in Seq(Route)
    BY <1>4, OldNode DEF NodeType
  <2>2. CASE n \in DOMAIN trie
    BY <1>4, <2>1, <2>2 DEF Old, RoutesOK
  <2>3. CASE n \notin DOMAIN trie
    <3>1. Old(trie, n).routes = <<>>
      BY <2>3 DEF Old, emptyNode
    <3>2. DOMAIN <<>> = {}
      OBVIOUS
    <3>3. EntriesOK(<<>>, n, reg)
      BY <3>2 DEF EntriesOK
    <3> QED BY <2>1, <3>1, <3>3
  <2> QED BY <2>2, <2>3
<1>13. PICK rs : rs = Old(trie, e).routes
  OBVIOUS
<1>14. PICK new : new = addRoute(rs, route)
  OBVIOUS
<1>15. For(reg, r.pattern) # {} => \E i \in DOMAIN rs : rs[i].pattern = r.pattern
  <2> HAVE For(reg, r.pattern) # {}
  <2>1. PICK i \in DOMAIN reg : reg[i].pattern = r.pattern
    BY DEF For
  <2>2. e \in DOMAIN trie /\ \E j \in DOMAIN trie[e].routes : trie[e].routes[j].pattern = r.pattern
    BY <1>3, <1>4, <2>1 DEF ParamsKnown
  <2> QED BY <1>13, <2>2 DEF Old
<1>16. /\ EntriesOK(new, e, b)
       /\ \E i \in DOMAIN new : new[i].pattern = r.pattern
       /\ \A i \in DOMAIN rs : \E j \in DOMAIN new : new[j].pattern = rs[i].pattern
  <2>1. rs \in Seq(Route) /\ EntriesOK(rs, edges(r.pattern), reg)
    BY <1>3, <1>12, <1>13
  <2>2. Grown(new, rs, edges(r.pattern), r.pattern, Append(reg, r))
    BY <1>4, <1>14, <1>15, <2>1, EntriesGrow
  <2> QED BY <1>1, <1>3, <2>2 DEF Grown
<1>17. e \in DOMAIN t /\ t[e].routes = new
  BY <1>10, <1>13, <1>14
<1>18. RoutesOK(t, b)
  <2> SUFFICES ASSUME NEW n \in DOMAIN t PROVE EntriesOK(t[n].routes, n, b)
    BY DEF RoutesOK
  <2>1. CASE n = e
    BY <1>16, <1>17, <2>1
  <2>2. CASE n # e
    <3>1. PICK os : os = Old(trie, n).routes
      OBVIOUS
    <3>2. t[n].routes = os
      BY <1>10, <2>2, <3>1
    <3>3. EntriesOK(os, n, reg)
      BY <1>12, <3>1
    <3>4. \A i \in DOMAIN os : os[i].pattern # r.pattern
      BY <1>3, <2>2, <3>3 DEF EntriesOK
    <3>5. EntriesOK(os, n, b)
      BY <1>1, <1>4, <3>3, <3>4, EntriesStay
    <3> QED BY <3>2, <3>5
  <2> QED BY <2>1, <2>2
<1>19. ParamsKnown(t, b)
  <2> SUFFICES ASSUME NEW i \in DOMAIN b, NEW p, p = b[i].pattern, hasPathParams(p)
               PROVE  /\ edges(p) \in DOMAIN t
                      /\ \E j \in DOMAIN t[edges(p)].routes : t[edges(p)].routes[j].pattern = p
    BY DEF ParamsKnown
  <2>1. CASE p = r.pattern
    BY <1>3, <1>16, <1>17, <2>1
  <2>2. CASE p # r.pattern
    <3>1. i \in DOMAIN reg /\ reg[i].pattern = p
      BY <1>5, <2>2
    <3>2. PICK n : n = edges(p)
      OBVIOUS
    <3>3. n \in DOMAIN trie /\ \E j \in DOMAIN trie[n].routes : trie[n].routes[j].pattern = p
      BY <1>4, <3>1, <3>2 DEF ParamsKnown
    <3>4. n \in DOMAIN t /\ Old(trie, n) = trie[n]
      BY <1>10, <3>3 DEF Old
    <3>5. CASE n = e
      BY <1>13, <1>16, <1>17, <3>2, <3>3, <3>4, <3>5
    <3>6. CASE n # e
      BY <1>10, <3>2, <3>3, <3>4, <3>6
    <3> QED BY <3>5, <3>6
  <2> QED BY <2>1, <2>2
<1>20. StaticOK(rts, b)
  <2>1. ASSUME NEW path \in DOMAIN rts
        PROVE  \E i \in DOMAIN b : ~hasPathParams(b[i].pattern) /\ pathOf(b[i].pattern) = path
    <3>1. PICK i \in DOMAIN reg : ~hasPathParams(reg[i].pattern) /\ pathOf(reg[i].pattern) = path
      BY <1>4 DEF StaticOK
    <3> QED BY <1>5, <3>1
  <2>2. ASSUME NEW i \in DOMAIN b, ~hasPathParams(b[i].pattern)
        PROVE  pathOf(b[i].pattern) \in DOMAIN rts /\ NewestOf(rts[pathOf(b[i].pattern)], b[i].pattern, b)
    <3>1. i \in DOMAIN reg /\ b[i] = reg[i]
      BY <1>5, <2>2
    <3>2. PICK p : p = reg[i].pattern
      OBVIOUS
    <3>3. pathOf(p) \in DOMAIN rts /\ NewestOf(rts[pathOf(p)], p, reg)
      BY <1>4, <2>2, <3>1, <3>2 DEF StaticOK
    <3>4. p # r.pattern
      BY <2>2, <3>1, <3>2
    <3>5. NewestOf(rts[pathOf(p)], p, b)
      BY <1>1, <1>4, <3>3, <3>4, NewestOther
    <3> QED BY <3>1, <3>2, <3>3, <3>5
  <2> QED BY <2>1, <2>2 DEF StaticOK
<1>21. EdgesInOrder(t, b)
  <2>1. Inserted(t, trie, e, route)
    BY <1>2, <1>4, <1>9, InsertShape
  <2> SUFFICES ASSUME NEW n \in DOMAIN t, NEW kind \in Kinds,
                      NEW i \in DOMAIN t[n][kind], NEW j \in DOMAIN t[n][kind], i < j
               PROVE  OpenedBefore(Append(n, edge(kind, t[n][kind][i])),
                                   Append(n, edge(kind, t[n][kind][j])), b)
    BY DEF EdgesInOrder
  <2>2. OpenedBefore(Append(n, edge(kind, t[n][kind][i])),
                     Append(n, edge(kind, t[n][kind][j])), Append(reg, r))
    BY <1>3, <1>4, <1>9, <2>1, EdgesGrow
  <2> QED BY <1>1, <2>2
<1>22. NodesOpened(t, b)
  <2> SUFFICES ASSUME NEW n \in DOMAIN t, n # <<>> PROVE Opening(b, n) # {}
    BY DEF NodesOpened
  <2>1. CASE n \in DOMAIN trie
    <3>1. Opening(reg, n) # {}
      BY <1>4, <2>1 DEF NodesOpened
    <3>2. Opening(reg, n) \subseteq Opening(b, n)
      BY <1>1, <1>4, OpeningAppend
    <3> QED BY <3>1, <3>2
  <2>2. CASE n \in Way(e)
    <3>1. e \in Seq(Segment)
      BY <1>9 DEF GoodNode
    <3>2. Len(n) \in 0..Len(e) /\ \A k \in 1..Len(n) : n[k] = e[k]
      BY <2>2, <3>1, OnTheWay
    <3>3. Extends(e, n)
      BY <3>1, <3>2 DEF Extends
    <3> QED BY <1>3, <1>5, <3>3 DEF Opening
  <2> QED BY <1>10, <2>1, <2>2
<1>23. Known(b, rts, t)
  BY <1>5, <1>11, <1>18, <1>19, <1>20, <1>21, <1>22 DEF Known
<1> QED BY <1>1, <1>2, <1>23

-----------------------------------------------------------------------------
(* Dispatch.                                                               *)

\* The registrations that the properties speak of, for any history.
ExactIn(reg, path) ==
  {i \in DOMAIN reg : ~hasPathParams(reg[i].pattern) /\ pathOf(reg[i].pattern) = path}

FittingIn(reg, path) ==
  {i \in DOMAIN reg : hasPathParams(reg[i].pattern) /\ Fits(reg[i].pattern, path)}

RelevantIn(reg, path) == IF ExactIn(reg, path) # {} THEN ExactIn(reg, path) ELSE FittingIn(reg, path)

MethodsIn(reg, S) == {reg[i].method : i \in S}

FirstOf(reg, p) ==
  CHOOSE i \in DOMAIN reg : /\ reg[i].pattern = p
                            /\ \A j \in 1..i - 1 : reg[j].pattern # p

\* Where the edges e and f part.
PartAt(e, f) ==
  LET part == {i \in 1..Len(e) + Len(f) + 1 : i > Len(e) \/ i > Len(f) \/ e[i] # f[i]}
  IN CHOOSE i \in part : \A j \in part : i <= j

\* The first registration that took the first k of the edges e.
OpenerOf(reg, e, k) ==
  LET Opens(i) == LET p == reg[i].pattern
                  IN hasPathParams(p) /\ Len(edges(p)) >= k /\ \A j \in 1..k : edges(p)[j] = e[j]
  IN CHOOSE i \in DOMAIN reg : Opens(i) /\ \A j \in 1..i - 1 : ~Opens(j)

\* Edges e are tried before f.
TriedIn(reg, e, f) ==
  LET at == PartAt(e, f)
  IN \/ Rank(e, at) < Rank(f, at)
     \/ Rank(e, at) = Rank(f, at) /\ OpenerOf(reg, e, at) < OpenerOf(reg, f, at)

\* The nodes in the order in which the registrations added them.
OpenOrder(reg) == {w \in Seq(Segment) \X Seq(Segment) : OpenedBefore(w[1], w[2], reg)}

\* What RouteFound, HandlerRight and SpecificFirst say of answer a to request q.
FoundIn(reg, q, a) ==
  LET rel == RelevantIn(reg, q.path)
      methods == MethodsIn(reg, rel)
  IN a = IF rel = {} THEN [status |-> 404]
         ELSE IF methods \cap {q.method, anyMethod} = {} THEN [status |-> 405, allow |-> methods]
         ELSE [a EXCEPT !.status = 200]

HandlerIn(reg, q, a) ==
  a.status = 200 =>
    LET h == a.handler
        r == reg[h]
        same == {i \in RelevantIn(reg, q.path) : reg[i].pattern = r.pattern}
    IN /\ h \in same
       /\ \A i \in same : reg[i].method = r.method => i <= h
       /\ r.method = q.method \/ (r.method = anyMethod /\ q.method \notin MethodsIn(reg, same))
       /\ a.params = IF hasPathParams(r.pattern) THEN Bindings(r.pattern, q.path) ELSE <<>>

\* Pattern p is served before pattern o.
Precedes(reg, p, o) ==
  IF edges(p) = edges(o) THEN FirstOf(reg, p) <= FirstOf(reg, o)
  ELSE TriedIn(reg, edges(p), edges(o))

SpecificIn(reg, q, a) ==
  a.status = 200 =>
    \A c \in RelevantIn(reg, q.path) :
      reg[c].method \in {q.method, anyMethod} => Precedes(reg, reg[a.handler].pattern, reg[c].pattern)

Right(reg, q, a) == FoundIn(reg, q, a) /\ HandlerIn(reg, q, a) /\ SpecificIn(reg, q, a)

\* The first registration of a pattern.
LEMMA FirstIs ==
  ASSUME NEW reg \in Seq(Registration), NEW p, For(reg, p) # {}
  PROVE  /\ FirstOf(reg, p) \in For(reg, p) /\ FirstOf(reg, p) \in Nat
         /\ \A j \in For(reg, p) : FirstOf(reg, p) <= j
<1>1. Len(reg) \in Nat /\ DOMAIN reg = 1..Len(reg)
  OBVIOUS
<1>2. For(reg, p) \in SUBSET Nat
  BY <1>1 DEF For
<1>3. PICK x \in For(reg, p) : \A y \in For(reg, p) : x <= y
  BY <1>2, LeastElement
<1>4. x \in DOMAIN reg /\ reg[x].pattern = p /\ x \in Nat
  BY <1>1, <1>3 DEF For
<1>5. \A j \in 1..x - 1 : reg[j].pattern # p
  <2> SUFFICES ASSUME NEW j \in 1..x - 1, reg[j].pattern = p PROVE FALSE
    OBVIOUS
  <2>1. j \in DOMAIN reg /\ ~(x <= j)
    BY <1>1, <1>4
  <2>2. j \in For(reg, p)
    BY <2>1 DEF For
  <2> QED BY <1>3, <2>1, <2>2
<1>6. PICK f : f = FirstOf(reg, p)
  OBVIOUS
<1>7. f \in DOMAIN reg /\ reg[f].pattern = p /\ \A j \in 1..f - 1 : reg[j].pattern # p
  BY <1>4, <1>5, <1>6 DEF FirstOf
<1>8. f \in For(reg, p) /\ f \in Nat
  BY <1>1, <1>7 DEF For
<1>9. ~(x < f)
  BY <1>1, <1>4, <1>7
<1>10. \A j \in For(reg, p) : f <= j
  BY <1>2, <1>3, <1>8, <1>9
<1> QED BY <1>6, <1>8, <1>10

\* The nodes on the way to e were added.
Opened(reg, e) == \A k \in 1..Len(e) : Opening(reg, Cut(e, k)) # {}

\* Those on the way to a registered pattern were.
LEMMA PatternOpened ==
  ASSUME NEW reg \in Seq(Registration), NEW p, hasPathParams(p), For(reg, p) # {},
         edges(p) \in Seq(Segment)
  PROVE  Opened(reg, edges(p))
<1>1. PICK e \in Seq(Segment) : e = edges(p)
  OBVIOUS
<1>2. PICK i \in DOMAIN reg : reg[i].pattern = p
  BY DEF For
<1>3. ASSUME NEW k \in 1..Len(e) PROVE Extends(e, Cut(e, k))
  <2>1. \A j \in 1..k : e[j] \in Segment
    OBVIOUS
  <2>2. Cut(e, k) \in [1..k -> Segment] /\ k \in Nat
    BY <2>1 DEF Cut
  <2>3. Len(Cut(e, k)) = k
    BY <2>2, MakeSeq
  <2>4. k <= Len(e)
    OBVIOUS
  <2> QED BY <2>3, <2>4 DEF Cut, Extends
<1> QED BY <1>1, <1>2, <1>3 DEF Opened, Opening

\* The registration that added a node.
LEMMA OpenerIs ==
  ASSUME NEW reg \in Seq(Registration), NEW e \in Seq(Segment), NEW k \in 1..Len(e),
         Opening(reg, Cut(e, k)) # {}
  PROVE  /\ OpenerOf(reg, e, k) \in Opening(reg, Cut(e, k)) /\ OpenerOf(reg, e, k) \in Nat
         /\ \A j \in Opening(reg, Cut(e, k)) : OpenerOf(reg, e, k) <= j
<1> DEFINE Opens(i) == LET p == reg[i].pattern
                       IN hasPathParams(p) /\ Len(edges(p)) >= k /\ \A j \in 1..k : edges(p)[j] = e[j]
<1>1. Len(reg) \in Nat /\ DOMAIN reg = 1..Len(reg) /\ k \in Nat
  OBVIOUS
<1>2. PICK g : g = Cut(e, k)
  OBVIOUS
<1>3. Len(g) = k /\ \A j \in 1..k : g[j] = e[j]
  <2>1. \A j \in 1..k : e[j] \in Segment
    OBVIOUS
  <2>2. Cut(e, k) \in [1..k -> Segment]
    BY <2>1 DEF Cut
  <2>3. Len(Cut(e, k)) = k
    BY <1>1, <2>2, MakeSeq
  <2> QED BY <1>2, <2>3 DEF Cut
<1>4. OpenerOf(reg, e, k) = CHOOSE i \in DOMAIN reg : Opens(i) /\ \A j \in 1..i - 1 : ~Opens(j)
  BY DEF OpenerOf
<1>5. \A i \in DOMAIN reg : Opens(i) <=> i \in Opening(reg, g)
  <2> TAKE i \in DOMAIN reg
  <2>1. PICK c : c = edges(reg[i].pattern)
    OBVIOUS
  <2>2. Len(c) >= k <=> k <= Len(c)
    OBVIOUS
  <2>3. (Len(c) >= k /\ \A j \in 1..k : c[j] = e[j]) <=> Extends(c, g)
    BY <1>3, <2>2 DEF Extends
  <2> QED BY <2>1, <2>3 DEF Opening
<1> HIDE DEF Opens
<1>6. Opening(reg, g) \in SUBSET Nat
  BY <1>1 DEF Opening
<1>7. PICK x \in Opening(reg, g) : \A y \in Opening(reg, g) : x <= y
  BY <1>2, <1>6, LeastElement
<1>8. x \in DOMAIN reg /\ Opens(x) /\ x \in Nat
  BY <1>5, <1>6, <1>7 DEF Opening
<1>9. \A j \in 1..x - 1 : ~Opens(j)
  <2> SUFFICES ASSUME NEW j \in 1..x - 1, Opens(j) PROVE FALSE
    OBVIOUS
  <2>1. j \in DOMAIN reg /\ ~(x <= j)
    BY <1>1, <1>8
  <2> QED BY <1>5, <1>7, <2>1
<1>10. PICK o : o = OpenerOf(reg, e, k)
  OBVIOUS
<1>11. o \in DOMAIN reg /\ Opens(o) /\ \A j \in 1..o - 1 : ~Opens(j)
  BY <1>4, <1>8, <1>9, <1>10
<1>12. o \in Opening(reg, g) /\ o \in Nat
  BY <1>1, <1>5, <1>11
<1>13. ~(x < o)
  BY <1>1, <1>8, <1>11
<1>14. \A j \in Opening(reg, g) : o <= j
  BY <1>6, <1>7, <1>12, <1>13
<1> QED BY <1>2, <1>10, <1>12, <1>14

\* Where Earlier says that nodes part is where they part, and there e is tried
\* before f.
LEMMA EarlierParts ==
  ASSUME NEW reg \in Seq(Registration), NEW e \in Seq(Segment), NEW f \in Seq(Segment),
         NEW p \in Nat, Earlier(OpenOrder(reg), e, f, p),
         Opened(reg, f)
  PROVE  e # f /\ TriedIn(reg, e, f)
<1> DEFINE part == {i \in 1..Len(e) + Len(f) + 1 : i > Len(e) \/ i > Len(f) \/ e[i] # f[i]}
<1>1. Len(e) \in Nat /\ Len(f) \in Nat
  OBVIOUS
<1>2. /\ p \in 1..Len(f) /\ p <= Len(e) + 1
      /\ \A i \in 1..p - 1 : e[i] = f[i]
      /\ p <= Len(e) => e[p] # f[p]
  BY DEF Earlier
<1>3. p \in part
  BY <1>1, <1>2
<1>4. ASSUME NEW j \in part, j < p PROVE FALSE
  BY <1>1, <1>2, <1>4
<1>5. \A j \in part : p <= j
  <2>1. part \subseteq Nat
    BY <1>1
  <2> QED BY <1>4, <2>1
<1>6. part \subseteq Nat
  BY <1>1
<1>7. PartAt(e, f) = CHOOSE i \in part : \A j \in part : i <= j
  BY DEF PartAt
<1> HIDE DEF part
<1>8. \A i \in part : (\A j \in part : i <= j) => i = p
  BY <1>3, <1>5, <1>6
<1>9. PartAt(e, f) = p
  BY <1>3, <1>5, <1>7, <1>8
<1>10. e # f
  BY <1>1, <1>2
<1>11. CASE Rank(e, p) < Rank(f, p)
  BY <1>9, <1>10, <1>11 DEF TriedIn
<1>12. CASE Rank(e, p) = Rank(f, p) /\ p <= Len(e) /\ <<Cut(e, p), Cut(f, p)>> \in OpenOrder(reg)
  <2>1. p \in 1..Len(e) /\ p \in 1..Len(f)
    BY <1>1, <1>2, <1>12
  <2>2. OpenedBefore(Cut(e, p), Cut(f, p), reg)
    BY <1>12 DEF OpenOrder
  <2>3. PICK i \in Opening(reg, Cut(e, p)) : \A j \in Opening(reg, Cut(f, p)) : i < j
    BY <2>2 DEF OpenedBefore
  <2>4. Opening(reg, Cut(f, p)) # {}
    BY <2>1 DEF Opened
  <2>5. OpenerOf(reg, e, p) \in Nat /\ OpenerOf(reg, e, p) <= i
    BY <2>1, <2>3, OpenerIs
  <2>6. OpenerOf(reg, f, p) \in Nat /\ OpenerOf(reg, f, p) \in Opening(reg, Cut(f, p))
    BY <2>1, <2>4, OpenerIs
  <2>7. i \in Nat /\ i < OpenerOf(reg, f, p)
    <3>1. DOMAIN reg \subseteq Nat
      OBVIOUS
    <3> QED BY <2>3, <2>6, <3>1 DEF Opening
  <2>8. OpenerOf(reg, e, p) < OpenerOf(reg, f, p)
    BY <2>5, <2>6, <2>7
  <2> QED BY <1>9, <1>10, <1>12, <2>8 DEF TriedIn
<1> QED BY <1>11, <1>12 DEF Earlier

\* The handler of a map for a method.
LEMMA HandlerIs ==
  ASSUME NEW reg, NEW p, NEW ms, NewestOf(ms, p, reg), NEW m, usable(ms, m),
         NEW h, h = handlerFor(ms, m)
  PROVE  /\ h \in For(reg, p) /\ reg[h].method \in {m, anyMethod}
         /\ \A i \in For(reg, p) : reg[i].method = reg[h].method => i <= h
         /\ reg[h].method = m \/ (reg[h].method = anyMethod /\ m \notin MethodsIn(reg, For(reg, p)))
<1>1. /\ DOMAIN ms = {reg[i].method : i \in For(reg, p)}
      /\ \A k \in DOMAIN ms :
           /\ ms[k] \in For(reg, p) /\ reg[ms[k]].method = k
           /\ \A i \in For(reg, p) : reg[i].method = k => i <= ms[k]
  BY DEF NewestOf
<1>2. PICK k : k = IF m \in DOMAIN ms THEN m ELSE anyMethod
  OBVIOUS
<1>3. k \in DOMAIN ms /\ h = ms[k]
  BY <1>2 DEF usable, handlerFor
<1>4. reg[h].method = k /\ h \in For(reg, p)
  BY <1>1, <1>3
<1>5. DOMAIN ms = MethodsIn(reg, For(reg, p))
  BY <1>1 DEF MethodsIn
<1>6. k = m \/ (k = anyMethod /\ m \notin MethodsIn(reg, For(reg, p)))
  BY <1>2, <1>5
<1>7. \A i \in For(reg, p) : reg[i].method = k => i <= h
  BY <1>1, <1>3
<1> QED BY <1>4, <1>6, <1>7

\* The answer of a handler whose pattern is for the path.
LEMMA ServedIsRight ==
  ASSUME NEW reg, NEW q, NEW p, NEW ms, NewestOf(ms, p, reg), usable(ms, q.method),
         For(reg, p) \subseteq RelevantIn(reg, q.path),
         NEW params, params = IF hasPathParams(p) THEN Bindings(p, q.path) ELSE <<>>,
         NEW a, a = served(ms, q.method, params),
         \A c \in RelevantIn(reg, q.path) :
           reg[c].method \in {q.method, anyMethod} => Precedes(reg, p, reg[c].pattern)
  PROVE  Right(reg, q, a)
<1>1. PICK h : h = handlerFor(ms, q.method)
  OBVIOUS
<1>2. /\ h \in For(reg, p) /\ reg[h].method \in {q.method, anyMethod}
      /\ \A i \in For(reg, p) : reg[i].method = reg[h].method => i <= h
      /\ reg[h].method = q.method \/ (reg[h].method = anyMethod /\ q.method \notin MethodsIn(reg, For(reg, p)))
  BY <1>1, HandlerIs
<1>3. a = [status |-> 200, handler |-> h, params |-> params]
  BY <1>1 DEF served
<1>4. a.handler = h /\ a.params = params /\ a.status = 200 /\ a = [a EXCEPT !.status = 200]
  BY <1>3
<1>5. reg[h].pattern = p /\ h \in RelevantIn(reg, q.path)
  BY <1>2 DEF For
<1>6. PICK rel : rel = RelevantIn(reg, q.path)
  OBVIOUS
<1>7. PICK same : same = {i \in rel : reg[i].pattern = p}
  OBVIOUS
<1>8. rel \subseteq DOMAIN reg
  BY <1>6 DEF RelevantIn, ExactIn, FittingIn
<1>9. same = For(reg, p)
  BY <1>6, <1>7, <1>8 DEF For
<1>10. FoundIn(reg, q, a)
  <2>1. MethodsIn(reg, rel) \cap {q.method, anyMethod} # {}
    BY <1>2, <1>5, <1>6 DEF MethodsIn
  <2>2. rel # {}
    BY <1>5, <1>6
  <2> QED BY <1>4, <1>6, <2>1, <2>2 DEF FoundIn
<1>11. HandlerIn(reg, q, a)
  <2>1. /\ h \in same
        /\ \A i \in same : reg[i].method = reg[h].method => i <= h
        /\ reg[h].method = q.method \/ (reg[h].method = anyMethod /\ q.method \notin MethodsIn(reg, same))
    BY <1>2, <1>9
  <2>2. params = IF hasPathParams(reg[h].pattern) THEN Bindings(reg[h].pattern, q.path) ELSE <<>>
    BY <1>5
  <2>3. same = {i \in RelevantIn(reg, q.path) : reg[i].pattern = reg[h].pattern}
    BY <1>5, <1>6, <1>7
  <2> QED BY <1>4, <2>1, <2>2, <2>3 DEF HandlerIn
<1>12. SpecificIn(reg, q, a)
  BY <1>4, <1>5 DEF SpecificIn
<1> QED BY <1>10, <1>11, <1>12 DEF Right

\* The answer 405.
LEMMA RefusedIsRight ==
  ASSUME NEW reg, NEW q, RelevantIn(reg, q.path) # {},
         NEW D, D = MethodsIn(reg, RelevantIn(reg, q.path)), D \cap {q.method, anyMethod} = {},
         NEW a, a = methodNotAllowed(D)
  PROVE  Right(reg, q, a)
<1>1. D \ {anyMethod} = D
  OBVIOUS
<1>2. a = [status |-> 405, allow |-> D]
  BY <1>1 DEF methodNotAllowed
<1>3. a.status # 200
  BY <1>2
<1>4. FoundIn(reg, q, a)
  BY <1>2 DEF FoundIn
<1> QED BY <1>3, <1>4 DEF Right, HandlerIn, SpecificIn

\* The answer from the map of exact paths.
LEMMA StaticIsRight ==
  ASSUME NEW reg \in Seq(Registration), NEW rts, StaticOK(rts, reg), NEW q, q.path \in DOMAIN rts,
         NEW ms, ms = rts[q.path],
         NEW a, a = IF usable(ms, q.method) THEN served(ms, q.method, <<>>)
                    ELSE methodNotAllowed(DOMAIN ms)
  PROVE  Right(reg, q, a)
<1>1. PICK i \in DOMAIN reg : ~hasPathParams(reg[i].pattern) /\ pathOf(reg[i].pattern) = q.path
  BY DEF StaticOK
<1>2. PICK p : p = reg[i].pattern
  OBVIOUS
<1>3. NewestOf(ms, p, reg) /\ ~hasPathParams(p) /\ pathOf(p) = q.path
  BY <1>1, <1>2 DEF StaticOK
<1>4. \A j \in DOMAIN reg : reg[j].pattern \in Pattern
  <2>1. \A j \in DOMAIN reg : reg[j] \in Registration
    OBVIOUS
  <2> QED BY <2>1 DEF Registration
<1>5. \A j \in DOMAIN reg :
        ~hasPathParams(reg[j].pattern) /\ pathOf(reg[j].pattern) = q.path => reg[j].pattern = p
  BY <1>1, <1>2, <1>3, <1>4, PathInjective
<1>6. ExactIn(reg, q.path) = For(reg, p)
  BY <1>3, <1>5 DEF ExactIn, For
<1>7. For(reg, p) # {}
  BY <1>1, <1>2 DEF For
<1>8. RelevantIn(reg, q.path) = For(reg, p)
  BY <1>6, <1>7 DEF RelevantIn
<1>9. CASE usable(ms, q.method)
  <2>1. a = served(ms, q.method, <<>>)
    BY <1>9
  <2>2. FirstOf(reg, p) \in Nat
    BY <1>7, FirstIs
  <2>3. Precedes(reg, p, p)
    BY <2>2 DEF Precedes
  <2>4. \A c \in RelevantIn(reg, q.path) :
          reg[c].method \in {q.method, anyMethod} => Precedes(reg, p, reg[c].pattern)
    BY <1>8, <2>3 DEF For
  <2>5. For(reg, p) \subseteq RelevantIn(reg, q.path)
    BY <1>8
  <2>6. PICK params : params = <<>>
    OBVIOUS
  <2>7. params = IF hasPathParams(p) THEN Bindings(p, q.path) ELSE <<>>
    BY <1>3, <2>6
  <2>8. a = served(ms, q.method, params)
    BY <2>1, <2>6
  <2> QED BY <1>3, <1>9, <2>4, <2>5, <2>7, <2>8, ServedIsRight
<1>10. CASE ~usable(ms, q.method)
  <2>1. a = methodNotAllowed(DOMAIN ms)
    BY <1>10
  <2>2. PICK D : D = DOMAIN ms
    OBVIOUS
  <2>3. D = MethodsIn(reg, RelevantIn(reg, q.path))
    BY <1>3, <1>8, <2>2 DEF NewestOf, MethodsIn
  <2>4. D \cap {q.method, anyMethod} = {}
    BY <1>10, <2>2 DEF usable
  <2>5. RelevantIn(reg, q.path) # {}
    BY <1>7, <1>8
  <2> QED BY <2>1, <2>2, <2>3, <2>4, <2>5, RefusedIsRight
<1> QED BY <1>9, <1>10

\* The matches for a path are the registered patterns that fit it, best first.
\* pat[j] is the pattern of match j.
MatchList(ms, pat, reg, path) ==
  /\ DOMAIN ms \in SUBSET Nat /\ (ms = <<>> <=> DOMAIN ms = {})
  /\ \A j \in DOMAIN ms :
       /\ hasPathParams(pat[j]) /\ Fits(pat[j], path) /\ For(reg, pat[j]) # {}
       /\ edges(pat[j]) \in Seq(Segment)
       /\ NewestOf(ms[j].methods, pat[j], reg)
       /\ ms[j].params = Bindings(pat[j], path)
  /\ \A i \in FittingIn(reg, path) : \E j \in DOMAIN ms : pat[j] = reg[i].pattern
  /\ \A a, b \in DOMAIN ms : a < b =>
       \/ edges(pat[a]) = edges(pat[b]) /\ FirstBefore(pat[a], pat[b], reg)
       \/ \E p \in Nat : Earlier(OpenOrder(reg), edges(pat[a]), edges(pat[b]), p)

\* Of two matches, the first precedes the second.
LEMMA MatchPrecedes ==
  ASSUME NEW reg \in Seq(Registration), NEW path, NEW ms, NEW pat, MatchList(ms, pat, reg, path),
         NEW a \in DOMAIN ms, NEW b \in DOMAIN ms, a <= b
  PROVE  Precedes(reg, pat[a], pat[b])
<1>1. /\ a \in Nat /\ b \in Nat
      /\ edges(pat[a]) \in Seq(Segment) /\ edges(pat[b]) \in Seq(Segment)
      /\ For(reg, pat[a]) # {} /\ For(reg, pat[b]) # {}
      /\ a < b => \/ edges(pat[a]) = edges(pat[b]) /\ FirstBefore(pat[a], pat[b], reg)
                  \/ \E p \in Nat : Earlier(OpenOrder(reg), edges(pat[a]), edges(pat[b]), p)
  BY DEF MatchList
<1>2. /\ FirstOf(reg, pat[a]) \in Nat /\ \A j \in For(reg, pat[a]) : FirstOf(reg, pat[a]) <= j
      /\ FirstOf(reg, pat[b]) \in Nat /\ FirstOf(reg, pat[b]) \in For(reg, pat[b])
  BY <1>1, FirstIs
<1>3. CASE a = b
  BY <1>2, <1>3 DEF Precedes
<1>4. CASE a # b /\ edges(pat[a]) = edges(pat[b]) /\ FirstBefore(pat[a], pat[b], reg)
  <2>1. PICK i \in For(reg, pat[a]) : \A j \in For(reg, pat[b]) : i < j
    BY <1>4 DEF FirstBefore
  <2>2. i \in Nat
    BY <2>1 DEF For
  <2>3. FirstOf(reg, pat[a]) <= FirstOf(reg, pat[b])
    BY <1>2, <2>1, <2>2
  <2> QED BY <1>4, <2>3 DEF Precedes
<1>5. CASE a # b /\ \E p \in Nat : Earlier(OpenOrder(reg), edges(pat[a]), edges(pat[b]), p)
  <2>1. PICK p \in Nat : Earlier(OpenOrder(reg), edges(pat[a]), edges(pat[b]), p)
    BY <1>5
  <2>2. PICK e \in Seq(Segment) : e = edges(pat[a])
    BY <1>1
  <2>3. PICK f \in Seq(Segment) : f = edges(pat[b])
    BY <1>1
  <2>4. hasPathParams(pat[b])
    BY DEF MatchList
  <2>5. Opened(reg, f)
    BY <1>1, <2>3, <2>4, PatternOpened
  <2>6. e # f /\ TriedIn(reg, e, f)
    BY <2>1, <2>2, <2>3, <2>5, EarlierParts
  <2> QED BY <2>2, <2>3, <2>6 DEF Precedes
<1> QED BY <1>1, <1>3, <1>4, <1>5

\* The answer from the trie.
LEMMA DispatchIsRight ==
  ASSUME NEW reg \in Seq(Registration), NEW q, ExactIn(reg, q.path) = {},
         NEW ms, NEW pat, MatchList(ms, pat, reg, q.path),
         NEW a, a = dispatchParams(ms, q.method)
  PROVE  Right(reg, q, a)
<1>1. /\ DOMAIN ms \in SUBSET Nat /\ (ms = <<>> <=> DOMAIN ms = {})
      /\ \A j \in DOMAIN ms :
           /\ hasPathParams(pat[j]) /\ Fits(pat[j], q.path) /\ For(reg, pat[j]) # {}
           /\ NewestOf(ms[j].methods, pat[j], reg)
           /\ ms[j].params = Bindings(pat[j], q.path)
      /\ \A i \in FittingIn(reg, q.path) : \E j \in DOMAIN ms : pat[j] = reg[i].pattern
  BY DEF MatchList
<1>2. PICK rel : rel = RelevantIn(reg, q.path)
  OBVIOUS
<1>3. rel = FittingIn(reg, q.path)
  BY <1>2 DEF RelevantIn
<1>4. \A j \in DOMAIN ms : For(reg, pat[j]) \subseteq rel
  BY <1>1, <1>3 DEF For, FittingIn
<1>5. \A c \in rel : \E j \in DOMAIN ms : pat[j] = reg[c].pattern /\ c \in For(reg, pat[j])
  BY <1>1, <1>3 DEF For, FittingIn
<1>6. \A j \in DOMAIN ms : DOMAIN ms[j].methods = {reg[i].method : i \in For(reg, pat[j])}
  BY <1>1 DEF NewestOf
<1>7. PICK ok : ok = {i \in DOMAIN ms : usable(ms[i].methods, q.method)}
  OBVIOUS
<1>8. a = IF ok # {} THEN LET first == ms[CHOOSE i \in ok : \A j \in ok : i <= j]
                          IN served(first.methods, q.method, first.params)
          ELSE IF ms = <<>> THEN notFound
          ELSE methodNotAllowed(UNION {DOMAIN ms[i].methods : i \in DOMAIN ms})
  BY <1>7 DEF dispatchParams
<1>9. CASE ok # {}
  <2>1. ok \in SUBSET Nat
    BY <1>1, <1>7
  <2>2. PICK k : k = CHOOSE i \in ok : \A j \in ok : i <= j
    OBVIOUS
  <2>3. k \in ok /\ \A j \in ok : k <= j
    BY <1>9, <2>1, <2>2, LeastElement
  <2>4. k \in DOMAIN ms /\ usable(ms[k].methods, q.method)
    BY <1>7, <2>3
  <2>5. PICK m : m = ms[k].methods
    OBVIOUS
  <2>6. PICK params : params = ms[k].params
    OBVIOUS
  <2>7. a = served(m, q.method, params)
    BY <1>8, <1>9, <2>2, <2>5, <2>6
  <2>8. PICK p : p = pat[k]
    OBVIOUS
  <2>9. NewestOf(m, p, reg) /\ params = (IF hasPathParams(p) THEN Bindings(p, q.path) ELSE <<>>)
        /\ For(reg, p) \subseteq rel
    BY <1>1, <1>4, <2>4, <2>5, <2>6, <2>8
  <2>10. ASSUME NEW c \in rel, reg[c].method \in {q.method, anyMethod}
         PROVE  Precedes(reg, p, reg[c].pattern)
    <3>1. PICK j \in DOMAIN ms : pat[j] = reg[c].pattern /\ c \in For(reg, pat[j])
      BY <1>5
    <3>2. reg[c].method \in DOMAIN ms[j].methods
      BY <1>6, <3>1
    <3>3. j \in ok
      BY <1>7, <2>10, <3>1, <3>2 DEF usable
    <3>4. k <= j
      BY <2>3, <3>3
    <3>5. Precedes(reg, pat[k], pat[j])
      BY <2>4, <3>1, <3>4, MatchPrecedes
    <3> QED BY <2>8, <3>1, <3>5
  <2> QED BY <1>2, <2>4, <2>5, <2>7, <2>9, <2>10, ServedIsRight
<1>10. CASE ok = {} /\ ms = <<>>
  <2>1. a = [status |-> 404]
    BY <1>8, <1>10 DEF notFound
  <2>2. rel = {}
    BY <1>1, <1>5, <1>10
  <2>3. a.status # 200
    BY <2>1
  <2> QED BY <1>2, <2>1, <2>2, <2>3 DEF Right, FoundIn, HandlerIn, SpecificIn
<1>11. CASE ok = {} /\ ms # <<>>
  <2>1. PICK D : D = UNION {DOMAIN ms[i].methods : i \in DOMAIN ms}
    OBVIOUS
  <2>2. a = methodNotAllowed(D)
    BY <1>8, <1>11, <2>1
  <2>3. \A x : x \in D <=> \E j \in DOMAIN ms : x \in DOMAIN ms[j].methods
    BY <2>1
  <2>4. \A x : x \in D <=> \E i \in rel : x = reg[i].method
    <3>1. ASSUME NEW x \in D PROVE \E i \in rel : x = reg[i].method
      <4>1. PICK j \in DOMAIN ms : x \in DOMAIN ms[j].methods
        BY <2>3
      <4> QED BY <1>4, <1>6, <4>1
    <3>2. ASSUME NEW i \in rel PROVE reg[i].method \in D
      <4>1. PICK j \in DOMAIN ms : i \in For(reg, pat[j])
        BY <1>5
      <4> QED BY <1>6, <2>3, <4>1
    <3> QED BY <3>1, <3>2
  <2>5. D = MethodsIn(reg, rel)
    BY <2>4 DEF MethodsIn
  <2>6. D \cap {q.method, anyMethod} = {}
    BY <1>7, <1>11, <2>3 DEF usable
  <2>7. rel # {}
    BY <1>1, <1>4, <1>11
  <2> QED BY <1>2, <2>2, <2>5, <2>6, <2>7, RefusedIsRight
<1> QED BY <1>9, <1>10, <1>11

\* match and ServeHTTP, for any tables.
matchIn(trie, path) ==
  LET found == search(trie, path.segs, Len(path.segs) + 2)
  IN [j \in DOMAIN found |->
        [methods |-> trie[found[j].node].routes[found[j].route].methods,
         params  |-> found[j].params]]

serveIn(rts, trie, method, path) ==
  IF path \notin DOMAIN rts THEN dispatchParams(matchIn(trie, path), method)
  ELSE IF usable(rts[path], method) THEN served(rts[path], method, <<>>)
  ELSE methodNotAllowed(DOMAIN rts[path])

\* The order of the edges is that of the history.
LEMMA OrderKnown ==
  ASSUME NEW reg, NEW trie, EdgesInOrder(trie, reg)
  PROVE  EdgeOrder(trie) \subseteq OpenOrder(reg)
<1> SUFFICES ASSUME NEW w \in EdgeOrder(trie) PROVE w \in OpenOrder(reg)
  OBVIOUS
<1>1. PICK n \in DOMAIN trie, kind \in Kinds : \E i, j \in DOMAIN trie[n][kind] :
        /\ i < j
        /\ w[1] = Append(n, edge(kind, trie[n][kind][i]))
        /\ w[2] = Append(n, edge(kind, trie[n][kind][j]))
  BY DEF EdgeOrder
<1>2. OpenedBefore(w[1], w[2], reg)
  BY <1>1 DEF EdgesInOrder
<1>3. w \in Seq(Segment) \X Seq(Segment)
  BY DEF EdgeOrder
<1> QED BY <1>2, <1>3 DEF OpenOrder

\* The search finds the patterns that fit.
LEMMA MatchIs ==
  ASSUME NEW reg, NEW rts, NEW trie, Known(reg, rts, trie), NEW path \in Path
  PROVE  \E pat : MatchList(matchIn(trie, path), pat, reg, path)
<1>1. /\ reg \in Seq(Registration) /\ TrieOK(trie) /\ RoutesOK(trie, reg) /\ ParamsKnown(trie, reg)
      /\ EdgesInOrder(trie, reg)
  BY DEF Known
<1>2. PICK segs : segs = path.segs
  OBVIOUS
<1>3. segs \in Seq(STRING)
  BY <1>2 DEF Path
<1>4. PICK found : found = search(trie, segs, Len(segs) + 2)
  OBVIOUS
<1>5. /\ found \in Seq(Items(trie, segs))
      /\ \A j \in DOMAIN found :
           \E n \in DOMAIN trie : FitsSegs(n, segs) /\ \E r \in DOMAIN trie[n].routes : found[j] = item(n, segs, r)
      /\ \A n \in DOMAIN trie : \A r \in DOMAIN trie[n].routes :
           FitsSegs(n, segs) => \E j \in DOMAIN found : found[j] = item(n, segs, r)
      /\ Sorted(EdgeOrder(trie), found)
  BY <1>1, <1>3, <1>4, SearchFinds
<1>6. PICK ms : ms = matchIn(trie, path)
  OBVIOUS
<1>7. /\ DOMAIN ms = DOMAIN found
      /\ \A j \in DOMAIN found :
           /\ ms[j].methods = trie[found[j].node].routes[found[j].route].methods
           /\ ms[j].params = found[j].params
  <2>1. ms = [j \in DOMAIN found |-> [methods |-> trie[found[j].node].routes[found[j].route].methods,
                                      params  |-> found[j].params]]
    BY <1>2, <1>4, <1>6 DEF matchIn
  <2> QED BY <2>1
<1>8. PICK pat : pat = [j \in DOMAIN found |-> trie[found[j].node].routes[found[j].route].pattern]
  OBVIOUS
<1>9. \A j \in DOMAIN found : pat[j] = trie[found[j].node].routes[found[j].route].pattern
  BY <1>8
<1>10. \A n \in DOMAIN trie : EntriesOK(trie[n].routes, n, reg) /\ n \in Seq(Segment)
  BY <1>1 DEF RoutesOK, TrieOK, GoodNode
<1>11. ASSUME NEW n, NEW r
       PROVE  /\ item(n, segs, r).node = n /\ item(n, segs, r).route = r
              /\ item(n, segs, r).params = Bound(n, segs)
  BY DEF item
<1>12. ASSUME NEW j \in DOMAIN found
       PROVE  /\ found[j].node \in DOMAIN trie /\ found[j].route \in DOMAIN trie[found[j].node].routes
              /\ FitsSegs(found[j].node, segs) /\ found[j].params = Bound(found[j].node, segs)
  <2>1. PICK n \in DOMAIN trie : FitsSegs(n, segs) /\ \E r \in DOMAIN trie[n].routes : found[j] = item(n, segs, r)
    BY <1>5
  <2>2. PICK r \in DOMAIN trie[n].routes : found[j] = item(n, segs, r)
    BY <2>1
  <2>3. found[j].node = n /\ found[j].route = r /\ found[j].params = Bound(n, segs)
    BY <1>11, <2>2
  <2> QED BY <2>1, <2>2, <2>3
<1>13. ASSUME NEW j \in DOMAIN found
       PROVE  /\ edges(pat[j]) = found[j].node /\ hasPathParams(pat[j]) /\ For(reg, pat[j]) # {}
              /\ NewestOf(ms[j].methods, pat[j], reg)
  <2>1. PICK n : n = found[j].node
    OBVIOUS
  <2>2. PICK rs : rs = trie[n].routes
    OBVIOUS
  <2>3. PICK r : r = found[j].route
    OBVIOUS
  <2>4. EntriesOK(rs, n, reg) /\ r \in DOMAIN rs
    BY <1>10, <1>12, <2>1, <2>2, <2>3
  <2>5. pat[j] = rs[r].pattern /\ ms[j].methods = rs[r].methods
    BY <1>7, <1>9, <2>1, <2>2, <2>3
  <2> QED BY <2>1, <2>4, <2>5 DEF EntriesOK
<1>14. \A j \in DOMAIN ms :
         /\ hasPathParams(pat[j]) /\ Fits(pat[j], path) /\ For(reg, pat[j]) # {}
         /\ edges(pat[j]) \in Seq(Segment)
         /\ NewestOf(ms[j].methods, pat[j], reg)
         /\ ms[j].params = Bindings(pat[j], path)
  BY <1>2, <1>7, <1>10, <1>12, <1>13 DEF Fits, Bindings
<1>15. ASSUME NEW i \in FittingIn(reg, path) PROVE \E j \in DOMAIN ms : pat[j] = reg[i].pattern
  <2>1. PICK p : p = reg[i].pattern
    OBVIOUS
  <2>2. i \in DOMAIN reg /\ hasPathParams(p) /\ FitsSegs(edges(p), segs)
    BY <1>2, <2>1 DEF FittingIn, Fits
  <2>3. PICK n : n = edges(p)
    OBVIOUS
  <2>4. n \in DOMAIN trie /\ \E r \in DOMAIN trie[n].routes : trie[n].routes[r].pattern = p
    BY <1>1, <2>1, <2>2, <2>3 DEF ParamsKnown
  <2>5. PICK r \in DOMAIN trie[n].routes : trie[n].routes[r].pattern = p
    BY <2>4
  <2>6. PICK j \in DOMAIN found : found[j] = item(n, segs, r)
    BY <1>5, <2>2, <2>3, <2>4, <2>5
  <2>7. pat[j] = p
    BY <1>9, <1>11, <2>5, <2>6
  <2> QED BY <1>7, <2>1, <2>6, <2>7
<1>16. ASSUME NEW a \in DOMAIN ms, NEW b \in DOMAIN ms, a < b
       PROVE  \/ edges(pat[a]) = edges(pat[b]) /\ FirstBefore(pat[a], pat[b], reg)
              \/ \E p \in Nat : Earlier(OpenOrder(reg), edges(pat[a]), edges(pat[b]), p)
  <2>1. Before(EdgeOrder(trie), found[a], found[b])
    BY <1>5, <1>7, <1>16 DEF Sorted
  <2>2. CASE found[a].node = found[b].node /\ found[a].route < found[b].route
    <3>1. PICK n : n = found[a].node
      OBVIOUS
    <3>2. PICK rs : rs = trie[n].routes
      OBVIOUS
    <3>3. PICK x : x = found[a].route
      OBVIOUS
    <3>4. PICK y : y = found[b].route
      OBVIOUS
    <3>5. EntriesOK(rs, n, reg) /\ x \in DOMAIN rs /\ y \in DOMAIN rs /\ x < y
      BY <1>7, <1>10, <1>12, <2>2, <3>1, <3>2, <3>3, <3>4
    <3>6. FirstBefore(rs[x].pattern, rs[y].pattern, reg)
      BY <3>5 DEF EntriesOK
    <3>7. pat[a] = rs[x].pattern /\ pat[b] = rs[y].pattern
      BY <1>7, <1>9, <2>2, <3>1, <3>2, <3>3, <3>4
    <3>8. edges(pat[a]) = edges(pat[b])
      BY <1>7, <1>13, <2>2
    <3> QED BY <3>6, <3>7, <3>8
  <2>3. CASE \E p \in Nat : Earlier(EdgeOrder(trie), found[a].node, found[b].node, p)
    <3>1. PICK p \in Nat : Earlier(EdgeOrder(trie), found[a].node, found[b].node, p)
      BY <2>3
    <3>2. EdgeOrder(trie) \subseteq OpenOrder(reg)
      BY <1>1, OrderKnown
    <3>3. Earlier(OpenOrder(reg), found[a].node, found[b].node, p)
      BY <3>1, <3>2 DEF Earlier
    <3> QED BY <1>7, <1>13, <3>3
  <2> QED BY <2>1, <2>2, <2>3 DEF Before
<1>17. DOMAIN ms \in SUBSET Nat /\ (ms = <<>> <=> DOMAIN ms = {})
  <2>1. Len(found) \in Nat /\ DOMAIN found = 1..Len(found)
    BY <1>5
  <2>2. ms = [j \in DOMAIN ms |-> ms[j]]
    BY <1>6 DEF matchIn
  <2>3. DOMAIN <<>> = {} /\ <<>> = [j \in {} |-> ms[j]]
    OBVIOUS
  <2>4. DOMAIN ms = {} => ms = <<>>
    BY <2>2, <2>3
  <2> QED BY <1>7, <2>1, <2>3, <2>4
<1>18. MatchList(ms, pat, reg, path)
  BY <1>14, <1>15, <1>16, <1>17 DEF MatchList
<1> QED BY <1>6, <1>18

\* Every answer is right.
LEMMA AnswerIsRight ==
  ASSUME NEW reg, NEW rts, NEW trie, Known(reg, rts, trie), NEW q, q.path \in Path,
         NEW a, a = serveIn(rts, trie, q.method, q.path)
  PROVE  Right(reg, q, a)
<1>1. reg \in Seq(Registration) /\ StaticOK(rts, reg)
  BY DEF Known
<1>2. CASE q.path \in DOMAIN rts
  <2>1. a = IF usable(rts[q.path], q.method) THEN served(rts[q.path], q.method, <<>>)
            ELSE methodNotAllowed(DOMAIN rts[q.path])
    BY <1>2 DEF serveIn
  <2> QED BY <1>1, <1>2, <2>1, StaticIsRight
<1>3. CASE q.path \notin DOMAIN rts
  <2>1. PICK ms : ms = matchIn(trie, q.path)
    OBVIOUS
  <2>2. a = dispatchParams(ms, q.method)
    BY <1>3, <2>1 DEF serveIn
  <2>3. PICK pat : MatchList(ms, pat, reg, q.path)
    BY <2>1, MatchIs
  <2>4. ExactIn(reg, q.path) = {}
    BY <1>1, <1>3 DEF StaticOK, ExactIn
  <2> QED BY <1>1, <2>2, <2>3, <2>4, DispatchIsRight
<1> QED BY <1>2, <1>3

-----------------------------------------------------------------------------
(* The theorems.                                                           *)

\* The inductive invariant: the tables hold exactly what was registered, and an
\* answer is right for these registrations.
RouterInv ==
  /\ Known(registered, routes, paramRoot)
  /\ answer.answered => Right(registered, answer.request, answer.result)

\* The invariant says of the answer what the properties say.
LEMMA InvSays == RouterInv => RouteFound /\ HandlerRight /\ SpecificFirst
<1> SUFFICES ASSUME RouterInv PROVE RouteFound /\ HandlerRight /\ SpecificFirst
  OBVIOUS
<1>1. ASSUME Answered PROVE /\ FoundIn(registered, answer.request, answer.result)
                            /\ HandlerIn(registered, answer.request, answer.result)
                            /\ SpecificIn(registered, answer.request, answer.result)
  BY <1>1 DEF RouterInv, Answered, Right
<1>2. \A path : Relevant(path) = RelevantIn(registered, path)
  BY DEF Relevant, RelevantIn, ExactIn, FittingIn
<1>3. \A S : Methods(S) = MethodsIn(registered, S)
  BY DEF Methods, MethodsIn
<1>4. RouteFound
  BY <1>1, <1>2, <1>3 DEF RouteFound, FoundIn
<1>5. HandlerRight
  BY <1>1, <1>2, <1>3 DEF HandlerRight, HandlerIn
<1>6. \A p : First(p) = FirstOf(registered, p)
  BY DEF First, FirstOf
<1>7. \A e, f : TriedBefore(e, f) <=> TriedIn(registered, e, f)
  <2>1. \A e, k : Opener(e, k) = OpenerOf(registered, e, k)
    BY DEF Opener, OpenerOf
  <2> QED BY <2>1 DEF TriedBefore, TriedIn, PartAt
<1>8. SpecificFirst
  BY <1>1, <1>2, <1>6, <1>7 DEF SpecificFirst, SpecificIn, Precedes
<1> QED BY <1>4, <1>5, <1>8

\* A new router has empty tables and no answer.
LEMMA InvInit == Init => RouterInv
<1> SUFFICES ASSUME Init PROVE RouterInv
  OBVIOUS
<1>1. Known(registered, routes, paramRoot)
  BY KnownInit DEF Init
<1>2. ~answer.answered
  BY DEF Init, none
<1> QED BY <1>1, <1>2 DEF RouterInv

\* A registration keeps the tables in step with the history.
LEMMA InvHandle ==
  ASSUME RouterInv, NEW r \in Registrations, HandleMethod(r.method, r.pattern)
  PROVE  RouterInv'
<1>1. r \in Registration /\ r = [method |-> r.method, pattern |-> r.pattern]
  BY RegistrationAssumption DEF Registration
<1>2. Known(registered, routes, paramRoot)
  BY DEF RouterInv
<1>3. registered' = Append(registered, r) /\ answer' = none
  BY <1>1 DEF HandleMethod
<1>4. CASE ~hasPathParams(r.pattern)
  <2>1. PICK path : path = pathOf(r.pattern)
    OBVIOUS
  <2>2. PICK old : old = IF path \in DOMAIN routes THEN routes[path] ELSE <<>>
    OBVIOUS
  <2>3. /\ routes' = put(routes, path, put(old, r.method, Len(registered) + 1))
        /\ paramRoot' = paramRoot
    BY <1>4, <2>1, <2>2 DEF HandleMethod
  <2>4. Known(Append(registered, r), put(routes, path, put(old, r.method, Len(registered) + 1)), paramRoot)
    BY <1>1, <1>2, <1>4, <2>1, <2>2, KnownStatic
  <2>5. Known(registered', routes', paramRoot')
    BY <1>3, <2>3, <2>4
  <2> QED BY <1>3, <2>5 DEF RouterInv, none
<1>5. CASE hasPathParams(r.pattern)
  <2>1. PICK route : route = [pattern |-> r.pattern, methods |-> put(<<>>, r.method, Len(registered) + 1)]
    OBVIOUS
  <2>2. validSegments(r.pattern) /\ paramRoot' = insert(paramRoot, route) /\ routes' = routes
    BY <1>5, <2>1 DEF HandleMethod
  <2>3. route \in Route /\ route.pattern = r.pattern
        /\ route.methods = put(<<>>, r.method, Len(registered) + 1)
    <3>1. Len(registered) + 1 \in Nat
      BY <1>2 DEF Known
    <3>2. PICK h \in Nat : h = Len(registered) + 1
      BY <3>1
    <3>3. r.method \in STRING /\ r.pattern \in Pattern
      BY <1>1 DEF Registration
    <3>4. put(<<>>, r.method, h) \in MethodMap
      BY <3>2, <3>3, EmptyMap, PutIs
    <3> QED BY <2>1, <3>2, <3>3, <3>4 DEF Route
  <2>4. Known(Append(registered, r), routes, insert(paramRoot, route))
    BY <1>1, <1>2, <1>5, <2>2, <2>3, KnownParam
  <2>5. Known(registered', routes', paramRoot')
    BY <1>3, <2>2, <2>4
  <2> QED BY <1>3, <2>5 DEF RouterInv, none
<1> QED BY <1>4, <1>5

\* ServeHTTP leaves the tables alone and answers right.
LEMMA InvServe ==
  ASSUME RouterInv, NEW q \in Requests, Serve(q)
  PROVE  RouterInv'
<1>1. q.path \in Path
  BY RequestAssumption
<1>2. Known(registered, routes, paramRoot)
  BY DEF RouterInv
<1>3. PICK a : a = ServeHTTP(q.method, q.path)
  OBVIOUS
<1>4. a = serveIn(routes, paramRoot, q.method, q.path)
  <2>1. match(q.path) = matchIn(paramRoot, q.path)
    BY DEF match, matchIn
  <2> QED BY <1>3, <2>1 DEF ServeHTTP, serveIn
<1>5. Right(registered, q, a)
  BY <1>1, <1>2, <1>4, AnswerIsRight
<1>6. /\ registered' = registered /\ routes' = routes /\ paramRoot' = paramRoot
      /\ answer' = [answered |-> TRUE, request |-> q, result |-> a]
  BY <1>3 DEF Serve
<1>7. answer'.request = q /\ answer'.result = a
  BY <1>6
<1>8. Right(registered', answer'.request, answer'.result)
  BY <1>5, <1>6, <1>7
<1>9. Known(registered', routes', paramRoot')
  BY <1>2, <1>6
<1> QED BY <1>8, <1>9 DEF RouterInv

\* Registrations, rejected ones and requests keep the invariant.
LEMMA InvNext == RouterInv /\ [Next]_vars => RouterInv'
<1> SUFFICES ASSUME RouterInv, [Next]_vars PROVE RouterInv'
  OBVIOUS
<1>1. ASSUME NEW r \in Registrations, HandleMethod(r.method, r.pattern) PROVE RouterInv'
  BY <1>1, InvHandle
<1>2. ASSUME NEW r \in Registrations, Rejected(r.pattern) PROVE RouterInv'
  <2>1. Known(registered', routes', paramRoot')
    BY <1>2 DEF Rejected, RouterInv
  <2>2. ~answer'.answered
    BY <1>2 DEF Rejected, none
  <2> QED BY <2>1, <2>2 DEF RouterInv
<1>3. ASSUME NEW q \in Requests, Serve(q) PROVE RouterInv'
  BY <1>3, InvServe
<1>4. CASE UNCHANGED vars
  BY <1>4 DEF vars, RouterInv
<1> QED BY <1>1, <1>2, <1>3, <1>4 DEF Next

\* The exact map and the trie are the registrations in another form: each
\* pattern is in one of them, once, with the newest handler of each method; the
\* trie is a tree and a node lists its patterns in the order they came.
THEOREM TablesHoldRegistrations == Spec => []Known(registered, routes, paramRoot)
<1>1. RouterInv => Known(registered, routes, paramRoot)
  BY DEF RouterInv
<1> QED BY <1>1, InvInit, InvNext, PTL DEF Spec

\* ServeHTTP answers 404 or 405 only for a reason that the registrations give,
\* and Allow lists the methods of every pattern that fits.
THEOREM RefusalsAreJustified == Spec => []RouteFound
<1> QED BY InvInit, InvNext, InvSays, PTL DEF Spec

\* The handler that ServeHTTP runs is the newest for its pattern and method,
\* with the parameters its pattern binds and no others.
THEOREM HandlerIsTheNewest == Spec => []HandlerRight
<1> QED BY InvInit, InvNext, InvSays, PTL DEF Spec

\* Of the patterns that fit a path, matchSegments serves the one that the history
\* determines: where two part, the more specific segment goes first; two parameters
\* or two wildcards go in the order in which paramChild and wildcardChild met
\* them, in whatever pattern; and terminalMatches keeps the order of registration.
THEOREM MostSpecificServed == Spec => []SpecificFirst
<1> QED BY InvInit, InvNext, InvSays, PTL DEF Spec
=============================================================================
