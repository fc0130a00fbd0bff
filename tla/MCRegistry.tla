----------------------------- MODULE MCRegistry -----------------------------
(* SnRegistry with symmetry for TLC. *)
EXTENDS SnRegistry, TLC

MacSymmetry == Permutations(Macs)
=============================================================================
