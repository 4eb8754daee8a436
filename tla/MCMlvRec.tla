------------------------------ MODULE MCMlvRec ------------------------------
(***************************************************************************)
(* MlvRec with the slot groups and block sizes the runs use.               *)
(***************************************************************************)
EXTENDS MlvRec

OneGroup  == <<[slot |-> 1, len |-> 2]>>
TwoGroups == <<[slot |-> 1, len |-> 2], [slot |-> 3, len |-> 1]>>
TwoSingles == <<[slot |-> 1, len |-> 1], [slot |-> 2, len |-> 1]>>
BlockOf1  == [w \in {0, 1} |-> 1]
BlockOf2  == [w \in {0, 1} |-> 2]
=============================================================================
