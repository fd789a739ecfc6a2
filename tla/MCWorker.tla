------------------------------ MODULE MCWorker ------------------------------
(* Small instances of the worker's life for TLC. *)
EXTENDS Worker, TLC

MCColors == {0, 1}
MCNudges == {1}

Bounds(rebuild, force, forceEmpty, w, f, c) ==
  [rebuild |-> rebuild, force |-> force, forceEmpty |-> forceEmpty,
   writes |-> w, faults |-> f, corrections |-> c]
MCScenarios ==
  {Bounds(FALSE, FALSE, FALSE, 2, 2, 0),
   Bounds(TRUE, FALSE, FALSE, 2, 2, 1),
   Bounds(TRUE, TRUE, TRUE, 2, 2, 0)}
=============================================================================
