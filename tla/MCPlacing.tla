----------------------------- MODULE MCPlacing -----------------------------
(* A small tab for TLC. *)
EXTENDS PlacingProps, TLC

MCSymmetry == Permutations(Ops)
=============================================================================
