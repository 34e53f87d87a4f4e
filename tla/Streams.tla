-------------------------------- MODULE Streams --------------------------------
(***************************************************************************)
(* What the properties of WriteLoop and FcgiStream say of a stream of      *)
(* bytes.                                                                  *)
(***************************************************************************)
EXTENDS Integers, Sequences

\* What is left of s when all but the members of S are taken out.
Kept(s, S) ==
  LET kept[i \in 0 .. Len(s)] ==
        IF i = 0 THEN <<>>
        ELSE IF s[i] \in S THEN Append(kept[i - 1], s[i]) ELSE kept[i - 1]
  IN  kept[Len(s)]

\* s ends with t.
EndsWith(s, t) == \E n \in 0 .. Len(s) : t = SubSeq(s, n + 1, Len(s))
=============================================================================
