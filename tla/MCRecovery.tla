----------------------------- MODULE MCRecovery -----------------------------
(* A small instance of snapshots, Redis losses and the restore for TLC. *)
EXTENDS RecoveryProps, TLC

MCOneColor == {0}
MCSymmetry == Permutations(Cells) \cup Permutations(Workers)

\* Free of the discipline, the case of interest is a Redis that comes back from an
\* older file; two writes are enough for it, and no other fault is needed.
OlderFileWhenFree == careful \/ (Cardinality(written) <= 2 /\ wipes = 0 /\ faults = 0)
=============================================================================
