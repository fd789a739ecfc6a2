----------------------------- MODULE MCGeometry -----------------------------
(* Small instances of a canvas's geometry for TLC. *)
EXTENDS Geometry

MCSides == {1, 2}
MCColors == {0, 1}
MCFallback == [w |-> 2, h |-> 2]
Bounds(w, r, t, f) == [writes |-> w, resizes |-> r, time |-> t, faults |-> f]
MCScenarios == {Bounds(2, 1, 0, 0), Bounds(1, 2, 0, 0), Bounds(1, 2, 2, 1)}
\* Once a race happened the properties say nothing more: go no further.
UntilARace == races = {}
=============================================================================
