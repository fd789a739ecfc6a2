------------------------------- MODULE Fanout -------------------------------
(***************************************************************************)
(* The realtime path of one canvas through one gateway process:            *)
(*                                                                         *)
(*   place.lua --PUBLISH--> subscriber connection --> coalescer and ring   *)
(*     --flush--> sockets --> net.ts and the board of each browser         *)
(*                                                                         *)
(* beside the snapshots read over the other Redis connection.  The two     *)
(* Redis connections and the sockets are FIFO; nothing orders one against  *)
(* another.  Viewers come and go, subscriptions are opened and reaped with *)
(* them, and the subscriber link or the whole process may fail.            *)
(*                                                                         *)
(* A write is known by its version.  A board maps each cell to the version *)
(* of the write it shows, 0 for an empty cell.  The geometry is constant   *)
(* and Redis loses nothing (module Recovery is about that).                *)
(***************************************************************************)
EXTENDS Integers, Sequences

CONSTANTS
  Clients,     \* browsers
  Cells,       \* the cells of the grid
  RingSize,    \* RESYNC_BUFFER_SIZE
  MaxWrites,   \* bound: accepted writes
  MaxJoins,    \* bound: connections
  MaxFaults    \* bound: outages, refused subscriptions and gateway restarts

ASSUME FanoutAssumption ==
  /\ RingSize \in Nat \ {0}
  /\ MaxWrites \in Nat /\ MaxJoins \in Nat /\ MaxFaults \in Nat

VARIABLES
  log,         \* the cell of each write so far: the canvas in Redis
  subscribed,  \* Redis forwards the channel to the subscriber connection
  linked,      \* the subscriber connection is up
  toRedis,     \* commands on their way over the subscriber connection
  fromRedis,   \* deltas on their way over it
  reads,       \* snapshot reads of each client's connection, oldest first
  entry,       \* canvasStates has the canvas
  pending,     \* DeltaCoalescer.pending: cell -> version, 0 for none
  maxSeq,      \* DeltaCoalescer.maxSeq
  ring,        \* SeqRingBuffer.buf
  newest,      \* SeqRingBuffer.newestSeq
  fetching,    \* a dims fetch is in flight and ensureCanvasSubscribed awaits it
  conn,        \* each client's connection: "down", "dims" (awaiting it), "up"
  dead,        \* connections that dropped but are still in the gateway's clients
  sock,        \* frames on their way to each client
  resync,      \* the seq of the resync message on its way from each client
  board,       \* BoardBuffer.pixels of each client
  loaded,      \* BoardBuffer.loaded
  applied,     \* BoardBuffer.appliedSeq
  cursor,      \* CanvasNetClient.appliedSeq
  known,       \* CanvasNetClient.everConnected
  welcomed,    \* CanvasNetClient.gotWelcome
  settled,     \* the snapshot that follows this connection's welcome has arrived (history)
  joins,       \* connections so far
  faults,      \* faults so far
  calm         \* the discipline stated at Calm is kept

redisVars   == <<log, subscribed, linked, toRedis, fromRedis>>
coalescer   == <<pending, maxSeq>>
ringVars    == <<ring, newest>>
gatewayVars == <<entry, coalescer, ringVars, fetching, dead, reads>>
boardVars   == <<board, loaded, applied, cursor, known, welcomed, settled>>
clientVars  == <<conn, sock, resync, boardVars>>
fanoutVars  == <<redisVars, gatewayVars, clientVars, joins, faults, calm>>

None == -1
Empty == [x \in Cells |-> 0]

Latest(S) == CHOOSE i \in S : \A j \in S : j <= i

\* The canvas after write v.
At(v) == [x \in Cells |-> LET S == {i \in 1..v : log[i] = x}
                          IN  IF S = {} THEN 0 ELSE Latest(S)]

\* A board with some writes painted over it.
Paint(pixels, writes) ==
  [x \in Cells |-> IF writes[x] > 0 THEN writes[x] ELSE pixels[x]]

Frame == [t: {"welcome", "snapshot", "delta"}, seq: Nat, writes: [Cells -> Nat]]

\* A snapshot read: sendInitialState's or a resync's; `at' is None until Redis
\* executes it.  The order between two clients' reads is immaterial and left open.
Read == [initial: BOOLEAN, at: Nat \cup {None}]
Asked(first) == [initial |-> first, at |-> None]

FanoutInit ==
  /\ log = <<>> /\ subscribed = FALSE /\ linked = TRUE
  /\ toRedis = <<>> /\ fromRedis = <<>>
  /\ reads = [c \in Clients |-> <<>>]
  /\ entry = FALSE /\ fetching = FALSE /\ dead = 0
  /\ pending = Empty /\ maxSeq = 0
  /\ ring = <<>> /\ newest = 0
  /\ conn = [c \in Clients |-> "down"]
  /\ sock = [c \in Clients |-> <<>>]
  /\ resync = [c \in Clients |-> None]
  /\ board = [c \in Clients |-> Empty]
  /\ loaded = [c \in Clients |-> FALSE]
  /\ applied = [c \in Clients |-> None]
  /\ cursor = [c \in Clients |-> 0]
  /\ known = [c \in Clients |-> FALSE]
  /\ welcomed = [c \in Clients |-> FALSE]
  /\ settled = [c \in Clients |-> FALSE]
  /\ joins = 0 /\ faults = 0 /\ calm \in BOOLEAN
-----------------------------------------------------------------------------
(***************************************************************************)
(* A discipline nothing in the code enforces: no write is published while  *)
(* a subscription is being opened or closed, while a snapshot read is on   *)
(* its way, or while an unsubscribed channel still has deltas on the wire; *)
(* and the subscriber connection neither breaks nor refuses a command.     *)
(* A behaviour keeps it throughout (calm), or is free of it.               *)
(***************************************************************************)
Settled ==
  /\ toRedis = <<>>
  /\ \A c \in Clients : reads[c] = <<>>
  /\ ~subscribed => fromRedis = <<>>

-----------------------------------------------------------------------------
(***************************************************************************)
(* Redis.                                                                  *)
(***************************************************************************)

\* A script writes one cell and publishes its delta.  A moderation publishes one
\* delta per cell, one version each.
Publish(x) ==
  /\ Len(log) < MaxWrites
  /\ calm => Settled
  /\ log' = Append(log, x)
  /\ fromRedis' = IF subscribed THEN Append(fromRedis, Len(log) + 1) ELSE fromRedis
  /\ UNCHANGED <<subscribed, linked, toRedis, gatewayVars, clientVars, joins, faults, calm>>

\* Redis executes the next SUBSCRIBE or UNSUBSCRIBE.
ExecuteSub ==
  /\ linked /\ toRedis # <<>>
  /\ subscribed' = (Head(toRedis) # "unsubscribe")
  /\ toRedis' = Tail(toRedis)
  /\ UNCHANGED <<log, linked, fromRedis, gatewayVars, clientVars, joins, faults, calm>>

\* Redis executes the next MULTI GET GET: pixels and version of one moment.
ExecuteRead(c) ==
  \E i \in DOMAIN reads[c] :
    /\ reads[c][i].at = None
    /\ \A j \in 1..(i - 1) : reads[c][j].at # None
    /\ reads' = [reads EXCEPT ![c][i].at = Len(log)]
    /\ UNCHANGED <<redisVars, entry, coalescer, ringVars, fetching, dead>>
    /\ UNCHANGED <<clientVars, joins, faults, calm>>
-----------------------------------------------------------------------------
(***************************************************************************)
(* The gateway process (single-threaded: one action per callback).         *)
(***************************************************************************)
Connected == {c \in Clients : conn[c] # "down"}
Waiting   == {c \in Clients : conn[c] = "dims"}

Fresh ==
  /\ pending' = Empty /\ maxSeq' = 0
  /\ ring' = <<>> /\ newest' = 0

\* ensureCanvasSubscribed once the dims are known: a fresh coalescer and ring,
\* and SUBSCRIBE on its way.
OpenState ==
  /\ entry' = TRUE
  /\ Fresh
  /\ toRedis' = Append(toRedis, "subscribe")

\* A browser opens a connection.  onConnection calls ensureCanvasSubscribed twice;
\* sendInitialState follows the second call, which does not await the SUBSCRIBE of
\* the first.  With the entry present, or the dims cached (a resize caches them even
\* while a fetch is in flight), all of it happens here; otherwise both await the
\* dims.  net.ts asks for a resync on a reconnect.
Connect(c) ==
  /\ conn[c] = "down" /\ joins < MaxJoins
  /\ joins' = joins + 1
  /\ welcomed' = [welcomed EXCEPT ![c] = FALSE]
  /\ settled' = [settled EXCEPT ![c] = FALSE]
  /\ resync' = [resync EXCEPT ![c] = IF known[c] THEN cursor[c] ELSE None]
  /\ \/ /\ entry
        /\ conn' = [conn EXCEPT ![c] = "up"]
        /\ reads' = [reads EXCEPT ![c] = <<Asked(TRUE)>>]
        /\ UNCHANGED <<entry, coalescer, ringVars, toRedis, fetching>>
     \/ /\ ~entry
        /\ OpenState
        /\ conn' = [conn EXCEPT ![c] = "up"]
        /\ reads' = [reads EXCEPT ![c] = <<Asked(TRUE)>>]
        /\ UNCHANGED fetching
     \/ /\ ~entry
        /\ fetching' = TRUE
        /\ conn' = [conn EXCEPT ![c] = "dims"]
        /\ UNCHANGED <<entry, coalescer, ringVars, toRedis, reads>>
  /\ UNCHANGED <<log, subscribed, linked, fromRedis, dead, sock>>
  /\ UNCHANGED <<board, loaded, applied, cursor, known, faults, calm>>

\* (mutated) Only the SUBSCRIBE resumes.
ResumedNone == reads

\* sendInitialState starts for every connection that awaited the dims.
Resumed == [c \in Clients |-> IF c \in Waiting THEN Append(reads[c], Asked(TRUE)) ELSE reads[c]]

\* The dims fetch settles (with the row's dims or the fallback): every call that
\* awaited it resumes, whether or not its connection is still open.
DimsResolved ==
  /\ fetching
  /\ fetching' = FALSE
  /\ IF entry THEN UNCHANGED <<entry, coalescer, ringVars, toRedis>> ELSE OpenState
  /\ conn' = [c \in Clients |-> IF c \in Waiting THEN "up" ELSE conn[c]]
  /\ reads' = Resumed
  /\ UNCHANGED <<log, subscribed, linked, fromRedis, dead, sock, resync, boardVars>>
  /\ UNCHANGED <<joins, faults, calm>>

\* SeqRingBuffer.push: a full ring loses its oldest write.
Pushed(v) == IF Len(ring) < RingSize THEN Append(ring, v) ELSE Append(Tail(ring), v)

\* The "message" handler: without an entry the delta is dropped.
Deliver ==
  /\ fromRedis # <<>>
  /\ fromRedis' = Tail(fromRedis)
  /\ LET v == Head(fromRedis) IN
       IF entry
       THEN /\ pending' = [pending EXCEPT ![log[v]] = v]
            /\ maxSeq' = IF v > maxSeq THEN v ELSE maxSeq
            /\ ring' = Pushed(v)
            /\ newest' = IF v > newest THEN v ELSE newest
       ELSE UNCHANGED <<coalescer, ringVars>>
  /\ UNCHANGED <<log, subscribed, linked, toRedis, entry, fetching, dead, reads>>
  /\ UNCHANGED <<clientVars, joins, faults, calm>>

\* (mutated) The frame carries the seq of its oldest write.
BatchOldestSeq ==
  LET versions == {pending[x] : x \in Cells} \ {0}
  IN  [t |-> "delta", writes |-> pending,
       seq |-> CHOOSE v \in versions : \A w \in versions : v <= w]

\* DeltaCoalescer.flush: the newest write of each cell, under the newest seq.
Batch == [t |-> "delta", seq |-> maxSeq, writes |-> pending]

\* The flush timer: one frame, to every connection of the canvas, whether or not its initial state was sent.
Flush ==
  /\ pending # Empty
  /\ sock' = [c \in Clients |-> IF c \in Connected THEN Append(sock[c], Batch) ELSE sock[c]]
  /\ pending' = Empty /\ maxSeq' = 0
  /\ UNCHANGED <<redisVars, entry, ringVars, fetching, dead, reads>>
  /\ UNCHANGED <<conn, resync, boardVars, joins, faults, calm>>

SnapshotOf(v) == [t |-> "snapshot", seq |-> v, writes |-> At(v)]
WelcomeOf(v)  == [t |-> "welcome", seq |-> v, writes |-> Empty]

\* A snapshot read is answered: sendInitialState sends welcome and snapshot,
\* handleResync the snapshot alone.
SendSnapshot(c) ==
  /\ reads[c] # <<>> /\ Head(reads[c]).at # None
  /\ LET r == Head(reads[c]) IN
       sock' = [sock EXCEPT ![c] = @ \o (IF r.initial THEN <<WelcomeOf(r.at)>> ELSE <<>>)
                                     \o <<SnapshotOf(r.at)>>]
  /\ reads' = [reads EXCEPT ![c] = Tail(@)]
  /\ UNCHANGED <<redisVars, entry, coalescer, ringVars, fetching, dead>>
  /\ UNCHANGED <<conn, resync, boardVars, joins, faults, calm>>

\* SeqRingBuffer.since: the versions to replay, or FALSE for "send a snapshot".
CaughtUp(s)  == s >= newest
Reachable(s) == ring # <<>> /\ s + 1 >= ring[1]
Missed(s)    == {v \in {ring[i] : i \in DOMAIN ring} : v > s}

Replay(versions) ==
  [t |-> "delta", seq |-> Latest(versions),
   writes |-> [x \in Cells |-> LET S == {v \in versions : log[v] = x}
                               IN  IF S = {} THEN 0 ELSE Latest(S)]]

\* handleResync: nothing, the missed writes in one frame, or a snapshot.
HandleResync(c) ==
  /\ conn[c] # "down" /\ resync[c] # None
  /\ resync' = [resync EXCEPT ![c] = None]
  /\ LET s == resync[c] IN
       \/ /\ entry /\ CaughtUp(s)
          /\ UNCHANGED <<sock, reads>>
       \/ /\ entry /\ ~CaughtUp(s) /\ Reachable(s)
          /\ sock' = [sock EXCEPT ![c] = Append(@, Replay(Missed(s)))]
          /\ UNCHANGED reads
       \/ /\ ~entry \/ (~CaughtUp(s) /\ ~Reachable(s))
          /\ reads' = [reads EXCEPT ![c] = Append(@, Asked(FALSE))]
          /\ UNCHANGED sock
  /\ UNCHANGED <<redisVars, entry, coalescer, ringVars, fetching, dead>>
  /\ UNCHANGED <<conn, boardVars, joins, faults, calm>>

LastGone == dead = 1 /\ Connected = {}

\* (mutated) The entry stays.
DiscardChannel ==
  /\ UNCHANGED <<entry, coalescer, ringVars>>
  /\ toRedis' = Append(toRedis, "unsubscribe")

Discard ==
  /\ entry' = FALSE
  /\ Fresh
  /\ toRedis' = Append(toRedis, "unsubscribe")

\* The close event (or the heartbeat) removes a dead connection; the last one of
\* the canvas takes the state and the subscription with it.
Reap ==
  /\ dead > 0
  /\ dead' = dead - 1
  /\ IF LastGone THEN Discard ELSE UNCHANGED <<entry, coalescer, ringVars, toRedis>>
  /\ UNCHANGED <<log, subscribed, linked, fromRedis, fetching, reads>>
  /\ UNCHANGED <<clientVars, joins, faults, calm>>
-----------------------------------------------------------------------------
(***************************************************************************)
(* The browser.                                                            *)
(***************************************************************************)

\* (mutated) A loaded board takes every delta.
StaleOnlyUnloaded(c, f) == ~loaded[c]

\* BoardBuffer.applyDelta ignores a delta before the first snapshot, and one that
\* is not newer than the board.
Stale(c, f) == ~loaded[c] \/ f.seq <= applied[c]

\* net.ts onMessage, and the board it hands binary frames to.  A snapshot replaces
\* the board whatever it shows.
Receive(c) ==
  /\ sock[c] # <<>>
  /\ sock' = [sock EXCEPT ![c] = Tail(@)]
  /\ LET f == Head(sock[c]) IN
       \/ /\ f.t = "welcome"
          /\ cursor' = [cursor EXCEPT ![c] = f.seq]
          /\ known' = [known EXCEPT ![c] = TRUE]
          /\ welcomed' = [welcomed EXCEPT ![c] = TRUE]
          /\ UNCHANGED <<board, loaded, applied, settled>>
       \/ /\ f.t = "snapshot"
          /\ board' = [board EXCEPT ![c] = f.writes]
          /\ loaded' = [loaded EXCEPT ![c] = TRUE]
          /\ applied' = [applied EXCEPT ![c] = f.seq]
          /\ cursor' = [cursor EXCEPT ![c] = f.seq]
          /\ settled' = [settled EXCEPT ![c] = welcomed[c]]
          /\ UNCHANGED <<known, welcomed>>
       \/ /\ f.t = "delta" /\ ~Stale(c, f)
          /\ board' = [board EXCEPT ![c] = Paint(@, f.writes)]
          /\ applied' = [applied EXCEPT ![c] = f.seq]
          /\ cursor' = [cursor EXCEPT ![c] = f.seq]
          /\ UNCHANGED <<loaded, known, welcomed, settled>>
       \/ /\ f.t = "delta" /\ Stale(c, f)
          /\ cursor' = [cursor EXCEPT ![c] = IF applied[c] >= 0 THEN applied[c] ELSE @]
          /\ UNCHANGED <<board, loaded, applied, known, welcomed, settled>>
  /\ UNCHANGED <<redisVars, gatewayVars, conn, resync, joins, faults, calm>>

\* A connection ends: a network drop, a reload, reconnect(), a failed initial read.
\* Frames on their way are lost; the gateway notices later (Reap).
Drop(c) ==
  /\ conn[c] # "down"
  /\ conn' = [conn EXCEPT ![c] = "down"]
  /\ sock' = [sock EXCEPT ![c] = <<>>]
  /\ resync' = [resync EXCEPT ![c] = None]
  /\ reads' = [reads EXCEPT ![c] = <<>>]
  /\ settled' = [settled EXCEPT ![c] = FALSE]
  /\ dead' = dead + 1
  /\ UNCHANGED <<redisVars, entry, coalescer, ringVars, fetching>>
  /\ UNCHANGED <<board, loaded, applied, cursor, known, welcomed, joins, faults, calm>>
-----------------------------------------------------------------------------
(***************************************************************************)
(* Failures of the gateway's subscriber connection and of its process.     *)
(***************************************************************************)
Fault == faults < MaxFaults /\ faults' = faults + 1

\* The subscriber connection breaks; what was on its way is lost.  ioredis will
\* renew the subscription it held, then resend the commands it has no answer to.
Outage ==
  /\ ~calm /\ Fault /\ linked
  /\ linked' = FALSE
  /\ subscribed' = FALSE
  /\ fromRedis' = <<>>
  /\ toRedis' = (IF subscribed THEN <<"resubscribe">> ELSE <<>>) \o toRedis
  /\ UNCHANGED <<log, gatewayVars, clientVars, joins, calm>>

\* ioredis reconnects; on "ready" every ring is reset.
Ready ==
  /\ ~linked
  /\ linked' = TRUE
  /\ ring' = <<>> /\ newest' = 0
  /\ UNCHANGED <<log, subscribed, toRedis, fromRedis, entry, coalescer, fetching, dead>>
  /\ UNCHANGED <<reads, clientVars, joins, faults, calm>>

\* Redis refuses a SUBSCRIBE: the entry is deleted under its viewers.
SubscribeRefused ==
  /\ ~calm /\ Fault /\ linked
  /\ toRedis # <<>> /\ Head(toRedis) = "subscribe"
  /\ toRedis' = Tail(toRedis)
  /\ entry' = FALSE
  /\ Fresh
  /\ UNCHANGED <<log, subscribed, linked, fromRedis, fetching, dead, reads>>
  /\ UNCHANGED <<clientVars, joins, calm>>

\* The gateway process is replaced.
Restart ==
  /\ Fault
  /\ subscribed' = FALSE /\ linked' = TRUE
  /\ toRedis' = <<>> /\ fromRedis' = <<>>
  /\ entry' = FALSE /\ fetching' = FALSE /\ dead' = 0
  /\ Fresh
  /\ reads' = [c \in Clients |-> <<>>]
  /\ conn' = [c \in Clients |-> "down"]
  /\ sock' = [c \in Clients |-> <<>>]
  /\ resync' = [c \in Clients |-> None]
  /\ settled' = [c \in Clients |-> FALSE]
  /\ UNCHANGED <<log, board, loaded, applied, cursor, known, welcomed, joins, calm>>
-----------------------------------------------------------------------------
Gateway ==
  \/ ExecuteSub \/ DimsResolved \/ Deliver \/ Flush \/ Reap
  \/ \E c \in Clients : ExecuteRead(c) \/ SendSnapshot(c) \/ HandleResync(c) \/ Receive(c)

Viewers == \E c \in Clients : Connect(c) \/ Drop(c)

Failures == Outage \/ Ready \/ SubscribeRefused \/ Restart

FanoutNext == Gateway \/ Viewers \/ Failures \/ \E x \in Cells : Publish(x)

\* Every queue is served and every timer fires; nothing obliges viewers to come
\* or go, placements to be made, or faults to happen.
Fairness ==
  /\ WF_fanoutVars(ExecuteSub) /\ WF_fanoutVars(DimsResolved)
  /\ WF_fanoutVars(Deliver) /\ WF_fanoutVars(Flush) /\ WF_fanoutVars(Reap)
  /\ WF_fanoutVars(Ready)
  /\ \A c \in Clients :
       /\ WF_fanoutVars(ExecuteRead(c)) /\ WF_fanoutVars(SendSnapshot(c))
       /\ WF_fanoutVars(HandleResync(c)) /\ WF_fanoutVars(Receive(c))

FanoutSpec == FanoutInit /\ [][FanoutNext]_fanoutVars /\ Fairness
=============================================================================
