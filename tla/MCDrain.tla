------------------------------ MODULE MCDrain -------------------------------
(* Small instances of the drain for TLC. *)
EXTENDS DrainProps, TLC

MCColors == {0, 1}
MCSymmetry == Permutations(Cells) \cup Permutations(Workers) \cup Permutations(Users)
=============================================================================
