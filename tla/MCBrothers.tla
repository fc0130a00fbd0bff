----------------------------- MODULE MCBrothers -----------------------------
(* SnBrothers with symmetry for TLC. *)
EXTENDS SnBrothers, TLC

BrotherSymmetry ==
    {p @@ q @@ r : p \in Permutations(Brothers), q \in Permutations(V6Addrs),
                   r \in Permutations(Communities)}
=============================================================================
