---------------------------- MODULE CanvasMirror ----------------------------
(***************************************************************************)
(* What the realtime side of one canvas promises its viewers, with no      *)
(* gateway, socket or frame in sight: a viewer who has a board sees the    *)
(* canvas exactly as it was after some write, and only moves forward.      *)
(***************************************************************************)
EXTENDS Integers, Sequences

CONSTANTS Clients, Cells

VARIABLES
  log,   \* the cell each write overwrote; a write is known by its position
  view,  \* the write each viewer's board is as of; -1 without a board
  shown  \* the board of each viewer: the write each cell shows, 0 if none

mirrorVars == <<log, view, shown>>

Blank == [x \in Cells |-> 0]

\* The canvas after the first v writes.
AsOf(v) ==
  [x \in Cells |-> LET S == {i \in 1..v : log[i] = x}
                   IN  IF S = {} THEN 0 ELSE CHOOSE i \in S : \A j \in S : j <= i]

MirrorInit ==
  /\ log = <<>>
  /\ view = [c \in Clients |-> -1]
  /\ shown = [c \in Clients |-> Blank]

Grow == (\E x \in Cells : log' = Append(log, x)) /\ UNCHANGED <<view, shown>>

\* A viewer loads a board, or its board catches up some more.
Advance(c) ==
  /\ \E v \in 0..Len(log) :
       /\ v > view[c]
       /\ view' = [view EXCEPT ![c] = v]
       /\ shown' = [shown EXCEPT ![c] = AsOf(v)]
  /\ UNCHANGED log

\* Viewers disconnect: each trusts its board again once it has a new one.
Leave(S) ==
  /\ view' = [c \in Clients |-> IF c \in S THEN -1 ELSE view[c]]
  /\ shown' = [c \in Clients |-> IF c \in S THEN Blank ELSE shown[c]]
  /\ UNCHANGED log

MirrorNext ==
  \/ Grow
  \/ \E c \in Clients : Advance(c)
  \/ \E S \in SUBSET Clients : Leave(S)

MirrorSpec == MirrorInit /\ [][MirrorNext]_mirrorVars
=============================================================================
