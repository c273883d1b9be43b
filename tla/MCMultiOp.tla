------------------------------ MODULE MCMultiOp ------------------------------
(* Batches for the run of MultiOp.                                          *)
EXTENDS MultiOp, SequencesExt

(* Sizes around the edges of a buffer of 60 bytes: the last two are a write *)
(* that just fits on its own and one that does not.                         *)
Small == [key |-> 1, value |-> 0]
Large == [key |-> 2, value |-> 9]
Just  == [key |-> 2, value |-> 15]
Over  == [key |-> 2, value |-> 16]

Sizes == {Small, Large, Just, Over}

MCBatches == SeqOf(Sizes, 2) \cup SeqOf({Small, Large}, 4)
              \cup {<<Small, Small, Small, Small, Small>>}

TheBatches == MCBatches \ {<<>>}
=============================================================================
