----------------------------- MODULE Selection -----------------------------
(***************************************************************************)
(* The loops that append to a new slice what they do not skip.  SelectSeq  *)
(* says the same, but the proof system does not expand it; a recursive     *)
(* function it does.                                                       *)
(***************************************************************************)
EXTENDS Integers, Sequences

\* The elements of s at the positions in kept, in their order.
Picked(s, kept) ==
  LET upto[n \in 0 .. Len(s)] ==
        IF n = 0 THEN <<>>
        ELSE IF n \in kept THEN Append(upto[n - 1], s[n]) ELSE upto[n - 1]
  IN upto[Len(s)]
=============================================================================
