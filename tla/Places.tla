------------------------------- MODULE Places -------------------------------
(***************************************************************************)
(* Picking places of a sequence: what an iterator's filter and collect do  *)
(* with a vector.                                                          *)
(***************************************************************************)
EXTENDS Naturals, Sequences

\* What a sequence has at these places, in its order.
At(s, places) ==
  LET upto[k \in 0..Len(s)] ==
        IF k = 0 THEN <<>> ELSE IF k \in places THEN Append(upto[k - 1], s[k]) ELSE upto[k - 1]
  IN upto[Len(s)]
=============================================================================
