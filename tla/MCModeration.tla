---------------------------- MODULE MCModeration ----------------------------
(* Small instances of the moderation pipeline for TLC. *)
EXTENDS ModerationProps, TLC

MCCells == {1, 2}
MCColors == {0, 1}
MCSymmetry == Permutations(Viewers)

Bounds(kinds, p, n, t, f) ==
  [kinds |-> kinds, placed |-> p, actions |-> n, time |-> t, faults |-> f]

\* What can meet: removals and their restores; removals while a moderator is dropped;
\* bursts and group deletes; the gates.
MCScenarios ==
  {Bounds({"delete", "restore"}, 1, 3, 0, 1),
   Bounds({"ban_wipe", "delete", "sync"}, 2, 2, 0, 0),
   Bounds({"group", "ban_wipe"}, 3, 1, 1, 0),
   Bounds({"ban_wipe", "freeze", "open", "unban"}, 1, 3, 0, 1)}
=============================================================================
