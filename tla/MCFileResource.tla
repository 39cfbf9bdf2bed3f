--------------------------- MODULE MCFileResource ---------------------------
(***************************************************************************)
(* Small instances of FileResource.                                        *)
(***************************************************************************)
EXTENDS FileResource

MCSizes == {0, 1, 3}

H(f, x, y) == [form |-> f, a |-> x, b |-> y]

\* Numbers below, at and above each size; 5 is not an int64.
MCRanges ==
  {H("absent", 0, 0), H("malformed", 0, 0)}
    \cup {H("closed", x, y) : x \in {0, 1, 3}, y \in {0, 2, 3, 5}}
    \cup {H("open", x, 0) : x \in {0, 2, 3, 5}}
    \cup {H("suffix", 0, y) : y \in {0, 1, 4, 5}}

MCTagKinds == {"strong", "weak", "none"}
=============================================================================
