------------------------------- MODULE Selection -------------------------------
(***************************************************************************)
(* What SelectSeq does, with a set in place of its test and in terms of    *)
(* FlattenSeq: the provers know the definition of FlattenSeq, and that of  *)
(* SelectSeq they do not.                                                  *)
(***************************************************************************)
EXTENDS SequencesExt

\* The elements of s that are in T, in their order.
Chosen(s, T) ==
    FlattenSeq([i \in 1..Len(s) |-> IF s[i] \in T THEN <<s[i]>> ELSE <<>>])
=============================================================================
