--------------------------- MODULE SequenceSelection ---------------------------
(***************************************************************************)
(* SelectSeq for a set instead of an operator, so that lemmas about it can *)
(* be stated (see SequenceSelection_proofs): the loops that go through a   *)
(* sequence and pass over some of its elements.                            *)
(***************************************************************************)
EXTENDS Integers, Sequences

(* What is kept of the first n elements of s. *)
Kept(s, S) ==
  LET kept[n \in 0 .. Len(s)] ==
        IF n = 0 THEN << >>
        ELSE IF s[n] \in S THEN Append(kept[n - 1], s[n]) ELSE kept[n - 1]
  IN kept

(* The elements of s that are in S, in the order they have in s. *)
Select(s, S) == Kept(s, S)[Len(s)]
===============================================================================
