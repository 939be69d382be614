----------------------------- MODULE MCAddSeal -----------------------------
(* Model values for AddSeal: two slots of two operand tensors, chain       *)
(* indices that differ by one so the modulus manager has work to do.       *)
EXTENDS AddSeal

MCTopLevel == 3
MCSlots == {1, 2}
MCVals == {0, 1}
MCInputLevels == {2, 3}
=============================================================================
