-------------------------------- MODULE Lists --------------------------------
(* The elements of a list that pass a test, in their order: a list           *)
(* comprehension with a condition.  It is SelectSeq, written as a fold,      *)
(* of which the proofs can reason.                                           *)
EXTENDS SequencesExt

Filtered(seq, Test(_)) ==
    FoldLeft(LAMBDA kept, x : IF Test(x) THEN Append(kept, x) ELSE kept, <<>>, seq)
=============================================================================
