----------------------------- MODULE MCApeFiles -----------------------------
(* Symmetry of the ApeFiles instances, for the .cfg files.                 *)
EXTENDS ApeFiles, TLC

SlotSymmetry == Permutations(Slot)
=============================================================================
