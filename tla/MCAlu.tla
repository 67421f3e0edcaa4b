------------------------------- MODULE MCAlu -------------------------------
(* An instance of Alu for TLC. *)
EXTENDS Alu, TLC

Symmetry == Permutations(Reg)
=============================================================================
