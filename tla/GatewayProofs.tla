---------------------------- MODULE GatewayProofs ----------------------------
(***************************************************************************)
(* Proofs about what the gateway keeps.  First the realtime fan-out, for   *)
(* any viewers, cells, ring size and bounds: its types, that the state     *)
(* kept for a canvas is subscribed, and that under the discipline (calm)   *)
(* it implements module CanvasMirror.  Then the budget of a viewer, for    *)
(* every base, cap, rate, time to live and set of sessions.  Last, the     *)
(* operators both build on, of the shared rules and of the wire protocol,  *)
(* for any table of tiers, order of claims, run of messages and frame.     *)
(***************************************************************************)
EXTENDS FanoutProps, ChargesProps, Wire, Rules, SequenceTheorems, FiniteSetTheorems, WellFoundedInduction,
        TLAPS

-----------------------------------------------------------------------------
(***************************************************************************)
(* The inductive invariant.                                                *)
(***************************************************************************)

\* What a version may be; 0 stands for "none".
Versions == 0..Len(log)
Frames == [t : {"welcome", "snapshot", "delta"}, seq : Versions, writes : [Cells -> Versions]]
Reads  == [initial : BOOLEAN, at : Versions \cup {None}]
Commands == {"subscribe", "unsubscribe", "resubscribe"}

\* The types: nothing anywhere names a version that was not written.
FanoutTypes ==
  /\ log \in Seq(Cells)
  /\ subscribed \in BOOLEAN /\ linked \in BOOLEAN /\ entry \in BOOLEAN
  /\ fetching \in BOOLEAN /\ calm \in BOOLEAN
  /\ toRedis \in Seq(Commands)
  /\ fromRedis \in Seq(Versions \ {0})
  /\ reads \in [Clients -> Seq(Reads)]
  /\ pending \in [Cells -> Versions] /\ maxSeq \in Versions
  /\ ring \in Seq(Versions \ {0}) /\ newest \in Versions
  /\ conn \in [Clients -> {"down", "dims", "up"}]
  /\ sock \in [Clients -> Seq(Frames)]
  /\ resync \in [Clients -> Versions \cup {None}]
  /\ board \in [Clients -> [Cells -> Versions]]
  /\ loaded \in [Clients -> BOOLEAN]
  /\ applied \in [Clients -> Versions \cup {None}]
  /\ cursor \in [Clients -> Versions]
  /\ known \in [Clients -> BOOLEAN]
  /\ welcomed \in [Clients -> BOOLEAN] /\ settled \in [Clients -> BOOLEAN]
  /\ dead \in Nat /\ joins \in Nat /\ faults \in Nat

\* The subscriber connection is FIFO: deltas arrive in the order of their versions, and
\* the ring ends with the newest of those it was pushed.
InOrder ==
  /\ \A i, j \in DOMAIN fromRedis : i < j => fromRedis[i] < fromRedis[j]
  /\ \A i \in DOMAIN fromRedis : newest < fromRedis[i]
  /\ newest = IF ring = <<>> THEN 0 ELSE ring[Len(ring)]

\* The write a batch or a board shows in each cell is the last to it of the writes
\* lo+1 .. s of log l; 0 where there is none.
Shows(l, writes, lo, s) ==
  \A x \in Cells :
    /\ writes[x] = 0 => \A i \in (lo + 1)..s : l[i] # x
    /\ writes[x] # 0 => /\ writes[x] \in (lo + 1)..s /\ l[writes[x]] = x
                        /\ \A i \in (writes[x] + 1)..s : l[i] # x

LastWrites(l, lo, s) ==
  [x \in Cells |-> LET S == {i \in (lo + 1)..s : l[i] = x}
                   IN  IF S = {} THEN 0 ELSE Latest(S)]

\* The writes the gateway was told of, or never will be.
Told == Len(log) - Len(fromRedis)

\* Under the discipline the channel is an unbroken run of writes, open exactly while the
\* gateway keeps the canvas's state.
Unbroken ==
  /\ linked
  /\ Told \in Nat
  /\ \A i \in DOMAIN fromRedis : fromRedis[i] = Told + i
  /\ entry <=> SubscriptionAhead

\* The ring holds the last writes the gateway was told of, and the coalescer's seq is the
\* last of them.
RingFollows ==
  /\ ~entry => pending = Empty /\ maxSeq = 0 /\ ring = <<>>
  /\ Len(ring) <= Told
  /\ \A i \in DOMAIN ring : ring[i] = Told - Len(ring) + i
  /\ maxSeq \in {0, Told}

\* A snapshot read on its way is as of the last write.
ReadsCurrent == \A c \in Clients : \A i \in DOMAIN reads[c] : reads[c][i].at \in {None, Len(log)}

\* Before frame i of its socket, the viewer has been sent the welcome of this connection.
Greeted(c, i) ==
  conn[c] # "down" /\ (welcomed[c] \/ \E m \in 1..(i - 1) : sock[c][m].t = "welcome")

\* By frame i of its socket, the viewer will show the first lo writes.
Has(c, i, lo) ==
  \/ settled[c] /\ lo <= applied[c]
  \/ \E j \in 1..(i - 1) : sock[c][j].t # "welcome" /\ lo <= sock[c][j].seq

\* A snapshot is the canvas and never behind what came before it; a delta starts no later
\* than what the viewer has by then.
FrameFollows(c, i) ==
  LET f == sock[c][i] IN
    /\ f.t = "welcome" =>
         conn[c] = "up" /\ i < Len(sock[c]) /\ sock[c][i + 1].t = "snapshot"
    /\ f.t = "snapshot" =>
         /\ Shows(log, f.writes, 0, f.seq)
         /\ settled[c] => applied[c] <= f.seq
         /\ resync[c] <= f.seq
         /\ \A j \in 1..(i - 1) : sock[c][j].seq <= f.seq
    /\ f.t = "delta" /\ Greeted(c, i) =>
         \E lo \in 0..f.seq : Shows(log, f.writes, lo, f.seq) /\ Has(c, i, lo)

\* A viewer: nothing survives its connection; a greeted one is on an open canvas, and its
\* board, once settled, is the canvas as of the seq it claims.
ViewerFollows(c) ==
  /\ conn[c] = "down" => sock[c] = <<>> /\ reads[c] = <<>> /\ ~settled[c]
  /\ conn[c] = "up" => entry
  /\ \A i \in DOMAIN reads[c] : reads[c][i].initial => conn[c] = "up"
  /\ welcomed[c] => conn[c] # "dims"
  /\ settled[c] => /\ welcomed[c] /\ loaded[c] /\ applied[c] # None
                   /\ Shows(log, board[c], 0, applied[c]) /\ resync[c] <= applied[c]
  /\ welcomed[c] /\ ~settled[c] /\ conn[c] = "up" =>
       sock[c] # <<>> /\ sock[c][1].t = "snapshot"
  /\ \A i \in DOMAIN sock[c] : FrameFollows(c, i)

\* The same of all the frames on their way.
GreetedNow(c) == Greeted(c, Len(sock[c]) + 1)
HasNow(c, lo) == Has(c, Len(sock[c]) + 1, lo)

\* The coalescer holds an unbroken run up to what the gateway was told, and every greeted
\* viewer has all that came before it.
BatchFollows ==
  \E b \in 0..Told :
    /\ Shows(log, pending, b, Told)
    /\ b < Told => maxSeq = Told
    /\ \A c \in Clients : GreetedNow(c) => HasNow(c, b)

Disciplined ==
  /\ Unbroken /\ RingFollows /\ ReadsCurrent /\ BatchFollows
  /\ \A c \in Clients : ViewerFollows(c)

FanoutInductive ==
  /\ FanoutTypes /\ InOrder /\ EntryIsSubscribed
  /\ calm => Disciplined
-----------------------------------------------------------------------------
(***************************************************************************)
(* Lemmas on boards, batches and queues.                                   *)
(***************************************************************************)

\* A non-empty set of versions up to n has a greatest element, and Latest is it.
LEMMA LatestIsGreatest ==
  ASSUME NEW n \in Nat, NEW S \in SUBSET (1..n), S # {}
  PROVE  Latest(S) \in S /\ \A j \in S : j <= Latest(S)
<1> DEFINE Less == {ss \in Nat \X Nat : ss[1] < ss[2]}
           D == {n - s : s \in S}
<1>1. IsWellFoundedOn(Less, Nat)
  BY NatLessThanWellFounded DEF OpToRel
<1>2. \A s \in S : n - s \in Nat /\ s \in Nat
  OBVIOUS
<1>3. D \subseteq Nat /\ D # {}
  BY <1>2
<1> HIDE DEF Less
<1>4. PICK d \in D : \A m \in D : ~ (<<m, d>> \in Less)
  BY <1>1, <1>3, WFMin
<1>5. PICK s \in S : d = n - s
  BY <1>4
<1>6. \A j \in S : j <= s
  <2> TAKE j \in S
  <2>1. n - j \in D /\ n - j \in Nat /\ d \in Nat
    BY <1>2, <1>3, <1>4
  <2>2. ~ (n - j < d)
    BY <1>4, <2>1 DEF Less
  <2> QED
    BY <1>2, <1>5, <2>1, <2>2
<1> QED
  BY <1>5, <1>6 DEF Latest

\* The canvas after write v, and what a replay of versions paints, show what they should
\* (MULTI GET GET, SeqRingBuffer.since).
LEMMA LatestShows ==
  ASSUME NEW l, NEW lo \in Nat, NEW s \in Nat
  PROVE  Shows(l, LastWrites(l, lo, s), lo, s) /\ LastWrites(l, lo, s) \in [Cells -> 0..s]
<1> DEFINE w == LastWrites(l, lo, s)
<1>a. w = [x \in Cells |-> LET S == {i \in (lo + 1)..s : l[i] = x}
                           IN  IF S = {} THEN 0 ELSE Latest(S)]
  BY DEF LastWrites
<1> HIDE DEF w
<1> SUFFICES Shows(l, w, lo, s) /\ w \in [Cells -> 0..s]
  BY DEF w
<1> SUFFICES ASSUME NEW x \in Cells
             PROVE  /\ w[x] = 0 => \A i \in (lo + 1)..s : l[i] # x
                    /\ w[x] # 0 => /\ w[x] \in (lo + 1)..s /\ l[w[x]] = x
                                   /\ \A i \in (w[x] + 1)..s : l[i] # x
                    /\ w[x] \in 0..s
  BY <1>a DEF Shows
<1> DEFINE S == {i \in (lo + 1)..s : l[i] = x}
<1>1. CASE S = {}
  <2>1. w[x] = 0
    BY <1>1, <1>a
  <2> QED
    BY <1>1, <2>1
<1>2. CASE S # {}
  <2>1. w[x] = Latest(S)
    BY <1>2, <1>a
  <2>2. S \in SUBSET (1..s)
    OBVIOUS
  <2>3. Latest(S) \in S /\ \A j \in S : j <= Latest(S)
    BY <1>2, <2>2, LatestIsGreatest
  <2> QED
    BY <2>1, <2>3
<1> QED
  BY <1>1, <1>2

\* What shows the first v writes is the canvas after them.
LEMMA ShownIsCanvas ==
  ASSUME NEW v \in Nat, NEW w \in [Cells -> Nat], Shows(log, w, 0, v)
  PROVE  w = At(v)
<1>1. At(v) = LastWrites(log, 0, v)
  BY DEF At, LastWrites
<1>2. Shows(log, At(v), 0, v) /\ At(v) \in [Cells -> 0..v]
  BY <1>1, LatestShows
<1>3. ASSUME NEW x \in Cells
      PROVE  w[x] = At(v)[x]
  <2> DEFINE a == At(v)[x]
             b == w[x]
  <2>1. a \in Nat /\ b \in Nat
    BY <1>2
  <2>2. /\ a = 0 => \A i \in 1..v : log[i] # x
        /\ a # 0 => a \in 1..v /\ log[a] = x /\ \A i \in (a + 1)..v : log[i] # x
    BY <1>2 DEF Shows
  <2>3. /\ b = 0 => \A i \in 1..v : log[i] # x
        /\ b # 0 => b \in 1..v /\ log[b] = x /\ \A i \in (b + 1)..v : log[i] # x
    BY DEF Shows
  <2> HIDE DEF a, b
  <2>4. a = b
    BY <2>1, <2>2, <2>3
  <2> QED
    BY <2>4 DEF a, b
<1> QED
  BY <1>2, <1>3

\* A batch that starts no later than the board and ends no earlier brings the board to its
\* end (BoardBuffer.applyDelta).
LEMMA PaintCatchesUp ==
  ASSUME NEW l, NEW p \in [Cells -> Nat], NEW w \in [Cells -> Nat],
         NEW lo \in Nat, NEW a \in Nat, NEW s \in Nat, lo <= a, a <= s,
         Shows(l, p, 0, a), Shows(l, w, lo, s)
  PROVE  Shows(l, Paint(p, w), 0, s)
<1> SUFFICES ASSUME NEW x \in Cells
             PROVE  LET q == Paint(p, w)[x] IN
                    /\ q = 0 => \A i \in (0 + 1)..s : l[i] # x
                    /\ q # 0 => /\ q \in (0 + 1)..s /\ l[q] = x
                                /\ \A i \in (q + 1)..s : l[i] # x
  BY DEF Shows
<1>1. /\ p[x] = 0 => \A i \in 1..a : l[i] # x
      /\ p[x] # 0 => p[x] \in 1..a /\ l[p[x]] = x /\ \A i \in (p[x] + 1)..a : l[i] # x
  BY DEF Shows
<1>2. /\ w[x] = 0 => \A i \in (lo + 1)..s : l[i] # x
      /\ w[x] # 0 => w[x] \in (lo + 1)..s /\ l[w[x]] = x /\ \A i \in (w[x] + 1)..s : l[i] # x
  BY DEF Shows
<1>3. Paint(p, w)[x] = IF w[x] > 0 THEN w[x] ELSE p[x]
  BY DEF Paint
<1>4. p[x] \in Nat /\ w[x] \in Nat
  OBVIOUS
<1> QED
  BY <1>1, <1>2, <1>3, <1>4

\* The next delta extends a batch (DeltaCoalescer.add).
LEMMA BatchGrows ==
  ASSUME NEW l, NEW w \in [Cells -> Nat], NEW lo \in Nat, NEW s \in Nat, lo <= s,
         l[s + 1] \in Cells, Shows(l, w, lo, s)
  PROVE  Shows(l, [w EXCEPT ![l[s + 1]] = s + 1], lo, s + 1)
<1> SUFFICES ASSUME NEW x \in Cells
             PROVE  LET q == [w EXCEPT ![l[s + 1]] = s + 1][x] IN
                    /\ q = 0 => \A i \in (lo + 1)..(s + 1) : l[i] # x
                    /\ q # 0 => /\ q \in (lo + 1)..(s + 1) /\ l[q] = x
                                /\ \A i \in (q + 1)..(s + 1) : l[i] # x
  BY DEF Shows
<1>1. /\ w[x] = 0 => \A i \in (lo + 1)..s : l[i] # x
      /\ w[x] # 0 => w[x] \in (lo + 1)..s /\ l[w[x]] = x /\ \A i \in (w[x] + 1)..s : l[i] # x
  BY DEF Shows
<1>2. w[x] \in Nat
  OBVIOUS
<1>3. CASE l[s + 1] = x
  BY <1>2, <1>3
<1>4. CASE l[s + 1] # x
  BY <1>1, <1>2, <1>4
<1> QED
  BY <1>3, <1>4

\* An empty batch shows the empty run.
LEMMA EmptyShows ==
  ASSUME NEW l, NEW s \in Nat
  PROVE  Shows(l, Empty, s, s)
BY DEF Shows, Empty

\* What shows some writes still does when more are made.
LEMMA ShowsSurvives ==
  ASSUME NEW l \in Seq(Cells), NEW x, NEW w \in [Cells -> Nat], NEW lo \in Nat, NEW s \in Nat,
         s <= Len(l), Shows(l, w, lo, s)
  PROVE  Shows(Append(l, x), w, lo, s)
<1>1. \A i \in (lo + 1)..s : i \in 1..Len(l) /\ Append(l, x)[i] = l[i]
  OBVIOUS
<1> QED
  BY <1>1 DEF Shows

\* A batch that is not empty has a write.
LEMMA EmptyRun ==
  ASSUME NEW l, NEW w \in [Cells -> Nat], NEW s \in Nat, Shows(l, w, s, s)
  PROVE  w = Empty
<1>1. \A x \in Cells : w[x] = 0
  BY DEF Shows
<1> QED
  BY <1>1 DEF Empty
-----------------------------------------------------------------------------
(***************************************************************************)
(* The types.                                                              *)
(***************************************************************************)

\* Every action but a placement leaves the log, and with it the types, alone.
LEMMA TypesStand ==
  ASSUME log' = log
  PROVE  Versions' = Versions /\ Frames' = Frames /\ Reads' = Reads
BY DEF Versions, Frames, Reads

\* A placement adds a version to every type.
LEMMA TypesGrow ==
  ASSUME log \in Seq(Cells), NEW x \in Cells, log' = Append(log, x)
  PROVE  /\ Versions \subseteq Versions' /\ Frames \subseteq Frames' /\ Reads \subseteq Reads'
         /\ Len(log) \in Nat /\ Len(log') = Len(log) + 1 /\ Len(log) + 1 \in Versions' \ {0}
<1>1. Len(log') = Len(log) + 1 /\ Len(log) \in Nat
  OBVIOUS
<1>2. Versions \subseteq Versions' /\ Len(log) + 1 \in Versions' \ {0}
  BY <1>1 DEF Versions
<1> QED
  BY <1>1, <1>2 DEF Frames, Reads

\* A queue of one.
LEMMA OneInQueue ==
  ASSUME NEW e
  PROVE  DOMAIN <<e>> = 1..1 /\ Len(<<e>>) = 1 /\ \A i \in DOMAIN <<e>> : <<e>>[i] = e
<1>1. DOMAIN <<e>> = 1..1 /\ Len(<<e>>) = 1 /\ <<e>>[1] = e
  OBVIOUS
<1>2. \A i \in 1..1 : i = 1
  OBVIOUS
<1> QED
  BY <1>1, <1>2

\* What a queue holds after one more has joined it.
LEMMA QueueGets ==
  ASSUME NEW S, NEW q \in Seq(S), NEW e \in S
  PROVE  /\ Append(q, e) \in Seq(S) /\ Append(q, e) # <<>>
         /\ Len(q) \in Nat /\ Len(Append(q, e)) = Len(q) + 1
         /\ DOMAIN q = 1..Len(q) /\ DOMAIN Append(q, e) = 1..(Len(q) + 1)
         /\ \A i \in 1..Len(q) : Append(q, e)[i] = q[i]
         /\ Append(q, e)[Len(q) + 1] = e
BY LenProperties

\* What a queue holds after its first has left it.
LEMMA QueueTakes ==
  ASSUME NEW S, NEW q \in Seq(S), q # <<>>
  PROVE  /\ Tail(q) \in Seq(S) /\ Head(q) = q[1] /\ Head(q) \in S
         /\ Len(q) \in Nat \ {0} /\ Len(Tail(q)) = Len(q) - 1
         /\ DOMAIN q = 1..Len(q) /\ DOMAIN Tail(q) = 1..(Len(q) - 1)
         /\ \A i \in 1..(Len(q) - 1) : Tail(q)[i] = q[i + 1]
         /\ Len(q) = 1 => Tail(q) = <<>>
         /\ Len(q) # 1 => Tail(q) # <<>>
<1>1. Len(q) \in Nat \ {0} /\ DOMAIN q = 1..Len(q) /\ Head(q) = q[1]
  BY EmptySeq, LenProperties
<1>2. /\ Tail(q) \in Seq(S) /\ Head(q) \in S /\ Len(Tail(q)) = Len(q) - 1
      /\ \A i \in 1..Len(Tail(q)) : Tail(q)[i] = q[i + 1]
  BY HeadTailProperties
<1>3. DOMAIN Tail(q) = 1..Len(Tail(q))
  BY <1>2, LenProperties
<1>4. Tail(q) = <<>> <=> Len(Tail(q)) = 0
  BY <1>2, EmptySeq
<1> QED
  BY <1>1, <1>2, <1>3, <1>4

\* A new coalescer and ring.
LEMMA FreshTypes ==
  ASSUME FanoutTypes, Fresh, log' = log
  PROVE  /\ pending' \in [Cells -> Versions'] /\ maxSeq' \in Versions'
         /\ ring' \in Seq(Versions' \ {0}) /\ newest' \in Versions'
<1>1. 0 \in Versions'
  BY DEF FanoutTypes, Versions
<1>2. ring' \in Seq(Versions' \ {0})
  BY DEF Fresh
<1> QED
  BY <1>1, <1>2 DEF Fresh, Empty

\* A snapshot and a welcome are frames, and the canvas after a version is a board.
LEMMA SnapshotIsFrame ==
  ASSUME log \in Seq(Cells), NEW v \in Versions
  PROVE  SnapshotOf(v) \in Frames /\ WelcomeOf(v) \in Frames /\ Shows(log, At(v), 0, v)
<1>1. v \in Nat /\ Len(log) \in Nat
  BY DEF Versions
<1>a. At(v) = LastWrites(log, 0, v)
  BY DEF At, LastWrites
<1>b. Shows(log, LastWrites(log, 0, v), 0, v) /\ LastWrites(log, 0, v) \in [Cells -> 0..v]
  BY <1>1, LatestShows
<1>2. Shows(log, At(v), 0, v) /\ At(v) \in [Cells -> 0..v]
  BY <1>a, <1>b
<1>3. 0..v \subseteq Versions /\ 0 \in Versions
  BY <1>1 DEF Versions
<1>4. At(v) \in [Cells -> Versions] /\ Empty \in [Cells -> Versions]
  BY <1>2, <1>3 DEF Empty
<1> QED
  BY <1>2, <1>4 DEF SnapshotOf, WelcomeOf, Frames

\* A replay is a frame: the ring holds something newer than what it answers.
LEMMA ReplayIsFrame ==
  ASSUME FanoutTypes, InOrder, NEW s \in Versions, ~CaughtUp(s), Reachable(s)
  PROVE  /\ Replay(Missed(s)) \in Frames /\ Missed(s) \subseteq Versions \ {0}
         /\ Latest(Missed(s)) \in Missed(s) /\ \A v \in Missed(s) : v <= Latest(Missed(s))
<1> DEFINE S == Missed(s)
<1>1. S \subseteq 1..Len(log) /\ Len(log) \in Nat
  BY DEF Missed, FanoutTypes, Versions
<1>2. Len(ring) \in DOMAIN ring /\ newest = ring[Len(ring)] /\ newest > s
  BY DEF FanoutTypes, InOrder, CaughtUp, Reachable, Versions
<1>3. S # {}
  BY <1>2 DEF Missed
<1>4. Latest(S) \in S /\ \A v \in S : v <= Latest(S)
  BY <1>1, <1>3, LatestIsGreatest
<1>5. ASSUME NEW x \in Cells
      PROVE  Replay(S).writes[x] \in Versions
  <2> DEFINE T == {v \in S : log[v] = x}
  <2>1. CASE T = {}
    BY <2>1 DEF Replay, FanoutTypes, Versions
  <2>2. CASE T # {}
    <3>1. T \in SUBSET (1..Len(log))
      BY <1>1
    <3>2. Latest(T) \in T
      BY <1>1, <2>2, <3>1, LatestIsGreatest
    <3>3. Replay(S).writes[x] = Latest(T)
      BY <2>2 DEF Replay
    <3> QED
      BY <1>1, <3>2, <3>3 DEF Versions
  <2> QED
    BY <2>1, <2>2
<1>6. Replay(S).writes \in [Cells -> Versions] /\ Replay(S).seq \in Versions
  <2>1. Replay(S).writes = [x \in Cells |-> Replay(S).writes[x]]
    BY DEF Replay
  <2>2. Replay(S).seq = Latest(S)
    BY DEF Replay
  <2> QED
    BY <1>1, <1>4, <1>5, <2>1, <2>2 DEF Versions
<1>7. S \subseteq Versions \ {0}
  BY <1>1 DEF Versions
<1>8. Replay(S) = [t |-> "delta", seq |-> Replay(S).seq, writes |-> Replay(S).writes]
  BY DEF Replay
<1> HIDE DEF S
<1>9. Replay(S) \in Frames
  BY <1>6, <1>8 DEF Frames
<1> QED
  BY <1>4, <1>7, <1>9 DEF S
\* A viewer's variable that takes a value of its type for one viewer keeps its type.
LEMMA TypesStep ==
  ASSUME FanoutTypes, InOrder, [FanoutNext]_fanoutVars
  PROVE  FanoutTypes'
<1> USE FanoutAssumption
<1> USE DEF redisVars, coalescer, ringVars, gatewayVars, boardVars, clientVars
<1>0. /\ log \in Seq(Cells) /\ Len(log) \in Nat /\ 0 \in Versions
      /\ \A v \in Versions : v \in Nat /\ v <= Len(log)
  BY DEF FanoutTypes, Versions
<1>a. /\ <<"resubscribe">> \in Seq(Commands) /\ toRedis \in Seq(Commands)
      /\ Append(toRedis, "subscribe") \in Seq(Commands)
      /\ Append(toRedis, "unsubscribe") \in Seq(Commands)
      /\ toRedis # <<>> => Tail(toRedis) \in Seq(Commands)
  <2>1. {"subscribe", "unsubscribe", "resubscribe"} \subseteq Commands /\ toRedis \in Seq(Commands)
    BY DEF FanoutTypes, Commands
  <2> QED
    BY <2>1
<1>1. ASSUME NEW x \in Cells, Publish(x)
      PROVE  FanoutTypes'
  <2>1. log' = Append(log, x)
    BY <1>1 DEF Publish
  <2>2. /\ Versions \subseteq Versions' /\ Frames \subseteq Frames' /\ Reads \subseteq Reads'
        /\ Len(log) + 1 \in Versions' \ {0}
    BY <1>0, <2>1, TypesGrow
  <2>3. log' \in Seq(Cells)
    BY <1>0, <2>1
  <2>4. fromRedis' \in Seq(Versions' \ {0})
    <3>1. fromRedis \in Seq(Versions' \ {0})
      BY <2>2 DEF FanoutTypes
    <3> QED
      BY <3>1, <2>2, <1>1 DEF Publish
  <2>5. /\ reads' \in [Clients -> Seq(Reads')] /\ sock' \in [Clients -> Seq(Frames')]
        /\ ring' \in Seq(Versions' \ {0})
    <3>1. reads' = reads /\ sock' = sock /\ ring' = ring
      BY <1>1 DEF Publish
    <3>2. ring \in Seq(Versions' \ {0})
      BY <2>2 DEF FanoutTypes
    <3>3. \A c \in Clients : reads[c] \in Seq(Reads') /\ sock[c] \in Seq(Frames')
      <4> TAKE c \in Clients
      <4>1. reads[c] \in Seq(Reads) /\ sock[c] \in Seq(Frames)
        BY DEF FanoutTypes
      <4> QED
        BY <4>1, <2>2, SeqMonotonic
    <3> QED
      BY <3>1, <3>2, <3>3 DEF FanoutTypes
  <2>6. /\ board' \in [Clients -> [Cells -> Versions']]
        /\ pending' \in [Cells -> Versions']
    <3>1. board' = board /\ pending' = pending
      BY <1>1 DEF Publish
    <3>2. [Cells -> Versions] \subseteq [Cells -> Versions']
      BY <2>2
    <3> QED
      BY <3>1, <3>2 DEF FanoutTypes
  <2>7. /\ resync' \in [Clients -> Versions' \cup {None}]
        /\ applied' \in [Clients -> Versions' \cup {None}]
        /\ cursor' \in [Clients -> Versions'] /\ maxSeq' \in Versions' /\ newest' \in Versions'
    BY <1>1, <2>2 DEF Publish, FanoutTypes
  <2> QED
    BY <1>1, <2>3, <2>4, <2>5, <2>6, <2>7 DEF Publish, FanoutTypes
<1>2. ASSUME log' = log, ExecuteSub \/ Deliver \/ Outage \/ Ready
      PROVE  FanoutTypes'
  <2>1. Versions' = Versions /\ Frames' = Frames /\ Reads' = Reads
    BY <1>2, TypesStand
  <2>2. CASE ExecuteSub
    BY <2>1, <2>2 DEF ExecuteSub, FanoutTypes
  <2>3. CASE Deliver
    <3>1. Head(fromRedis) \in Versions \ {0} /\ fromRedis' \in Seq(Versions \ {0})
      BY <2>3 DEF Deliver, FanoutTypes
    <3>2. CASE entry
      <4> DEFINE v == Head(fromRedis)
      <4>1. pending' = [pending EXCEPT ![log[v]] = v] /\ ring' = Pushed(v)
            /\ maxSeq' \in {v, maxSeq} /\ newest' \in {v, newest}
        BY <2>3, <3>2 DEF Deliver
      <4>2. Pushed(v) \in Seq(Versions \ {0})
        <5>1. ring \in Seq(Versions \ {0}) /\ v \in Versions \ {0}
          BY <3>1 DEF FanoutTypes
        <5>2. Append(ring, v) \in Seq(Versions \ {0})
          BY <5>1
        <5>3. ring # <<>> => Append(Tail(ring), v) \in Seq(Versions \ {0})
          BY <5>1
        <5>4. ring = <<>> => Len(ring) < RingSize
          BY <5>1
        <5> QED
          BY <5>2, <5>3, <5>4 DEF Pushed
      <4>3. [pending EXCEPT ![log[v]] = v] \in [Cells -> Versions]
        BY <3>1 DEF FanoutTypes
      <4> HIDE DEF v
      <4>4. maxSeq' \in Versions /\ newest' \in Versions
        BY <4>1, <3>1 DEF FanoutTypes, v
      <4> QED
        BY <2>1, <2>3, <3>1, <4>1, <4>2, <4>3, <4>4 DEF Deliver, FanoutTypes
    <3>3. CASE ~entry
      BY <2>1, <2>3, <3>1, <3>3 DEF Deliver, FanoutTypes
    <3> QED
      BY <3>2, <3>3
  <2>4. CASE Outage
    <3>1. toRedis' \in Seq(Commands)
      <4>1. <<"resubscribe">> \o toRedis \in Seq(Commands) /\ <<>> \o toRedis \in Seq(Commands)
        BY <1>a
      <4> QED
        BY <2>4, <4>1 DEF Outage
    <3> QED
      <4>1. faults' \in Nat /\ fromRedis' \in Seq(Versions \ {0})
        BY <2>4 DEF Outage, Fault, FanoutTypes
      <4> QED
        BY <2>1, <2>4, <3>1, <4>1 DEF Outage, FanoutTypes
  <2>5. CASE Ready
    BY <1>0, <2>1, <2>5 DEF Ready, FanoutTypes
  <2> QED
    BY <1>2, <2>2, <2>3, <2>4, <2>5
<1>3. ASSUME log' = log, Reap \/ DimsResolved \/ SubscribeRefused
      PROVE  FanoutTypes'
  <2>1. Versions' = Versions /\ Frames' = Frames /\ Reads' = Reads
    BY <1>3, TypesStand
  <2>2. Fresh => /\ pending' \in [Cells -> Versions] /\ maxSeq' \in Versions
                 /\ ring' \in Seq(Versions \ {0}) /\ newest' \in Versions
    BY <1>3, <2>1, FreshTypes
  <2>3. CASE Reap
    <3>1. dead' \in Nat
      BY <2>3 DEF Reap, FanoutTypes
    <3> QED
      BY <1>a, <2>1, <2>2, <2>3, <3>1 DEF Reap, Discard, FanoutTypes
  <2>4. CASE SubscribeRefused
    <3>1. toRedis' \in Seq(Commands) /\ faults' \in Nat
      BY <1>a, <2>4 DEF SubscribeRefused, Fault, FanoutTypes
    <3> QED
      BY <2>1, <2>2, <2>4, <3>1 DEF SubscribeRefused, FanoutTypes
  <2>5. CASE DimsResolved
    <3>1. Asked(TRUE) \in Reads
      BY DEF Asked, Reads
    <3>2. reads' \in [Clients -> Seq(Reads)]
      <4>1. \A c \in Clients : reads[c] \in Seq(Reads) /\ Append(reads[c], Asked(TRUE)) \in Seq(Reads)
        <5> TAKE c \in Clients
        <5>1. reads[c] \in Seq(Reads)
          BY DEF FanoutTypes
        <5> QED
          BY <3>1, <5>1, QueueGets
      <4> QED
        BY <2>5, <4>1 DEF DimsResolved, Resumed
    <3>3. conn' \in [Clients -> {"down", "dims", "up"}]
      BY <2>5 DEF DimsResolved, FanoutTypes
    <3>4. /\ pending' \in [Cells -> Versions] /\ maxSeq' \in Versions
          /\ ring' \in Seq(Versions \ {0}) /\ newest' \in Versions /\ entry' \in BOOLEAN
          /\ toRedis' \in Seq(Commands)
      BY <1>a, <2>2, <2>5 DEF DimsResolved, OpenState, FanoutTypes
    <3> QED
      BY <2>1, <2>5, <3>2, <3>3, <3>4 DEF DimsResolved, FanoutTypes
  <2> QED
    BY <1>3, <2>3, <2>4, <2>5
<1>4. ASSUME log' = log, NEW c \in Clients, Connect(c)
      PROVE  FanoutTypes'
  <2>1. Versions' = Versions /\ Frames' = Frames /\ Reads' = Reads
    BY <1>4, TypesStand
  <2>2. Fresh => /\ pending' \in [Cells -> Versions] /\ maxSeq' \in Versions
                 /\ ring' \in Seq(Versions \ {0}) /\ newest' \in Versions
    BY <1>4, <2>1, FreshTypes
  <2>3. <<Asked(TRUE)>> \in Seq(Reads)
    BY DEF Asked, Reads
  <2>4. /\ pending' \in [Cells -> Versions] /\ maxSeq' \in Versions
        /\ ring' \in Seq(Versions \ {0}) /\ newest' \in Versions /\ entry' \in BOOLEAN
        /\ toRedis' \in Seq(Commands)
    BY <1>a, <1>4, <2>2 DEF Connect, OpenState, FanoutTypes
  <2>5. reads' \in [Clients -> Seq(Reads)] /\ conn' \in [Clients -> {"down", "dims", "up"}]
        /\ fetching' \in BOOLEAN
    BY <1>4, <2>3 DEF Connect, FanoutTypes
  <2>6. /\ resync' \in [Clients -> Versions \cup {None}]
        /\ welcomed' \in [Clients -> BOOLEAN] /\ settled' \in [Clients -> BOOLEAN]
        /\ joins' \in Nat
    BY <1>4 DEF Connect, FanoutTypes
  <2> QED
    BY <1>4, <2>1, <2>4, <2>5, <2>6 DEF Connect, FanoutTypes
<1>5. ASSUME log' = log, NEW c \in Clients, ExecuteRead(c)
      PROVE  FanoutTypes'
  <2>1. Versions' = Versions /\ Frames' = Frames /\ Reads' = Reads
    BY <1>5, TypesStand
  <2>2. PICK i \in DOMAIN reads[c] : reads' = [reads EXCEPT ![c][i].at = Len(log)]
    BY <1>5 DEF ExecuteRead
  <2>3. reads[c] \in Seq(Reads) /\ Len(log) \in Versions
    BY <1>0 DEF FanoutTypes, Versions
  <2>4. [reads[c][i] EXCEPT !.at = Len(log)] \in Reads
    <3>1. reads[c][i] \in Reads
      BY <2>3
    <3> QED
      BY <2>3, <3>1 DEF Reads
  <2>5. [reads[c] EXCEPT ![i] = [reads[c][i] EXCEPT !.at = Len(log)]] \in Seq(Reads)
    BY <2>3, <2>4
  <2>6. reads' = [reads EXCEPT ![c] = [reads[c] EXCEPT ![i] = [reads[c][i] EXCEPT !.at = Len(log)]]]
    BY <2>2
  <2>7. reads' \in [Clients -> Seq(Reads)]
    BY <2>5, <2>6 DEF FanoutTypes
  <2> QED
    BY <1>5, <2>1, <2>7 DEF ExecuteRead, FanoutTypes
<1>6. ASSUME log' = log, Flush
      PROVE  FanoutTypes'
  <2>1. Versions' = Versions /\ Frames' = Frames /\ Reads' = Reads
    BY <1>6, TypesStand
  <2>2. Batch \in Frames
    BY DEF Batch, Frames, FanoutTypes
  <2>3. sock' \in [Clients -> Seq(Frames)]
    BY <1>6, <2>2 DEF Flush, FanoutTypes
  <2>4. pending' \in [Cells -> Versions] /\ maxSeq' \in Versions
    BY <1>0, <1>6 DEF Flush, Empty
  <2> QED
    BY <1>6, <2>1, <2>3, <2>4 DEF Flush, FanoutTypes
<1>7. ASSUME log' = log, NEW c \in Clients, SendSnapshot(c)
      PROVE  FanoutTypes'
  <2>1. Versions' = Versions /\ Frames' = Frames /\ Reads' = Reads
    BY <1>7, TypesStand
  <2> DEFINE r == Head(reads[c])
  <2>2. r \in Reads /\ r.at \in Versions /\ reads[c] \in Seq(Reads) /\ Tail(reads[c]) \in Seq(Reads)
    <3>1. reads[c] \in Seq(Reads) /\ reads[c] # <<>> /\ r.at # None
      BY <1>7 DEF SendSnapshot, FanoutTypes
    <3>2. r \in Reads /\ Tail(reads[c]) \in Seq(Reads)
      BY <3>1
    <3> QED
      BY <3>1, <3>2 DEF Reads
  <2>3. SnapshotOf(r.at) \in Frames /\ WelcomeOf(r.at) \in Frames
    BY <1>0, <2>2, SnapshotIsFrame
  <2> DEFINE more == (IF r.initial THEN <<WelcomeOf(r.at)>> ELSE <<>>) \o <<SnapshotOf(r.at)>>
  <2>4. sock' = [sock EXCEPT ![c] = @ \o (IF r.initial THEN <<WelcomeOf(r.at)>> ELSE <<>>)
                                     \o <<SnapshotOf(r.at)>>]
    BY <1>7 DEF SendSnapshot
  <2> HIDE DEF r
  <2>5. sock[c] \o (IF r.initial THEN <<WelcomeOf(r.at)>> ELSE <<>>)
                                     \o <<SnapshotOf(r.at)>> \in Seq(Frames)
    <3>1. sock[c] \in Seq(Frames)
      BY DEF FanoutTypes
    <3>2. (IF r.initial THEN <<WelcomeOf(r.at)>> ELSE <<>>) \in Seq(Frames)
      BY <2>3
    <3>3. <<SnapshotOf(r.at)>> \in Seq(Frames)
      BY <2>3
    <3> QED
      BY <3>1, <3>2, <3>3
  <2>6. sock' \in [Clients -> Seq(Frames)]
    BY <2>4, <2>5 DEF FanoutTypes
  <2>7. reads' \in [Clients -> Seq(Reads)]
    BY <1>7, <2>2 DEF SendSnapshot, FanoutTypes
  <2> QED
    BY <1>7, <2>1, <2>6, <2>7 DEF SendSnapshot, FanoutTypes
<1>8. ASSUME log' = log, NEW c \in Clients, HandleResync(c)
      PROVE  FanoutTypes'
  <2>1. Versions' = Versions /\ Frames' = Frames /\ Reads' = Reads
    BY <1>8, TypesStand
  <2>2. resync' \in [Clients -> Versions \cup {None}]
    BY <1>8 DEF HandleResync, FanoutTypes
  <2>3. resync[c] \in Versions
    BY <1>8 DEF HandleResync, FanoutTypes
  <2>4. sock' \in [Clients -> Seq(Frames)]
    <3>1. CASE ~CaughtUp(resync[c]) /\ Reachable(resync[c])
      <4>1. Replay(Missed(resync[c])) \in Frames
        BY <2>3, <3>1, ReplayIsFrame
      <4>0. sock[c] \in Seq(Frames)
        BY DEF FanoutTypes
      <4>2. Append(sock[c], Replay(Missed(resync[c]))) \in Seq(Frames)
        BY <4>0, <4>1, QueueGets
      <4> QED
        BY <1>8, <4>2 DEF HandleResync, FanoutTypes
    <3>2. CASE ~(~CaughtUp(resync[c]) /\ Reachable(resync[c]))
      BY <1>8, <3>2 DEF HandleResync, FanoutTypes
    <3> QED
      BY <3>1, <3>2
  <2>5. reads' \in [Clients -> Seq(Reads)]
    <3>1. Asked(FALSE) \in Reads
      BY DEF Asked, Reads
    <3>0. reads[c] \in Seq(Reads)
      BY DEF FanoutTypes
    <3>2. Append(reads[c], Asked(FALSE)) \in Seq(Reads)
      BY <3>0, <3>1, QueueGets
    <3> QED
      BY <1>8, <3>2 DEF HandleResync, FanoutTypes
  <2> QED
    BY <1>8, <2>1, <2>2, <2>4, <2>5 DEF HandleResync, FanoutTypes
<1>9. ASSUME log' = log, NEW c \in Clients, Receive(c)
      PROVE  FanoutTypes'
  <2>1. Versions' = Versions /\ Frames' = Frames /\ Reads' = Reads
    BY <1>9, TypesStand
  <2> DEFINE f == Head(sock[c])
  <2>2. f \in Frames /\ Tail(sock[c]) \in Seq(Frames)
    BY <1>9 DEF Receive, FanoutTypes
  <2>3. f.seq \in Versions /\ f.writes \in [Cells -> Versions]
    BY <2>2 DEF Frames
  <2> HIDE DEF f
  <2>4. sock' \in [Clients -> Seq(Frames)]
    BY <1>9, <2>2 DEF Receive, FanoutTypes
  <2>5. /\ board' \in [Clients -> [Cells -> Versions]]
        /\ loaded' \in [Clients -> BOOLEAN] /\ applied' \in [Clients -> Versions \cup {None}]
        /\ cursor' \in [Clients -> Versions] /\ known' \in [Clients -> BOOLEAN]
        /\ welcomed' \in [Clients -> BOOLEAN] /\ settled' \in [Clients -> BOOLEAN]
    <3>1. CASE f.t = "welcome"
      BY <1>9, <2>3, <3>1 DEF Receive, FanoutTypes, f
    <3>2. CASE f.t = "snapshot"
      BY <1>9, <2>3, <3>2 DEF Receive, FanoutTypes, f
    <3>3. CASE f.t = "delta" /\ ~Stale(c, f)
      <4>1. Paint(board[c], f.writes) \in [Cells -> Versions]
        BY <2>3 DEF Paint, FanoutTypes
      <4>2. /\ board' = [board EXCEPT ![c] = Paint(@, f.writes)]
            /\ applied' = [applied EXCEPT ![c] = f.seq] /\ cursor' = [cursor EXCEPT ![c] = f.seq]
            /\ UNCHANGED <<loaded, known, welcomed, settled>>
        BY <1>9, <3>3 DEF Receive, f
      <4> QED
        BY <2>3, <4>1, <4>2 DEF FanoutTypes
    <3>4. CASE f.t = "delta" /\ Stale(c, f)
      <4>1. applied[c] >= 0 => applied[c] \in Versions
        BY DEF FanoutTypes, None
      <4> QED
        BY <1>9, <2>3, <3>4, <4>1 DEF Receive, FanoutTypes, f
    <3> QED
      BY <1>9, <3>1, <3>2, <3>3, <3>4 DEF Receive, f
  <2> QED
    BY <1>9, <2>1, <2>4, <2>5 DEF Receive, FanoutTypes
<1>10. ASSUME log' = log, NEW c \in Clients, Drop(c)
      PROVE  FanoutTypes'
  <2>1. Versions' = Versions /\ Frames' = Frames /\ Reads' = Reads
    BY <1>10, TypesStand
  <2>2. <<>> \in Seq(Frames) /\ <<>> \in Seq(Reads)
    OBVIOUS
  <2> QED
    BY <1>10, <2>1, <2>2 DEF Drop, FanoutTypes
<1>11. ASSUME log' = log, Restart
      PROVE  FanoutTypes'
  <2>1. Versions' = Versions /\ Frames' = Frames /\ Reads' = Reads
    BY <1>11, TypesStand
  <2>2. /\ pending' \in [Cells -> Versions] /\ maxSeq' \in Versions
        /\ ring' \in Seq(Versions \ {0}) /\ newest' \in Versions
    BY <1>11, <2>1, FreshTypes DEF Restart
  <2>3. <<>> \in Seq(Frames) /\ <<>> \in Seq(Reads)
    OBVIOUS
  <2>4. /\ reads' \in [Clients -> Seq(Reads)] /\ sock' \in [Clients -> Seq(Frames)]
        /\ conn' \in [Clients -> {"down", "dims", "up"}]
        /\ resync' \in [Clients -> Versions \cup {None}] /\ settled' \in [Clients -> BOOLEAN]
    BY <1>11, <2>3 DEF Restart
  <2>5. toRedis' \in Seq(Commands) /\ fromRedis' \in Seq(Versions \ {0}) /\ faults' \in Nat
    BY <1>11 DEF Restart, Fault, FanoutTypes
  <2> QED
    BY <1>11, <2>1, <2>2, <2>4, <2>5 DEF Restart, FanoutTypes
<1>12. ASSUME UNCHANGED fanoutVars
      PROVE  FanoutTypes'
  <2>1. Versions' = Versions /\ Frames' = Frames /\ Reads' = Reads
    BY <1>12, TypesStand DEF fanoutVars
  <2> QED
    BY <1>12, <2>1 DEF fanoutVars, FanoutTypes
<1> QED
  BY <1>1, <1>2, <1>3, <1>4, <1>5, <1>6, <1>7, <1>8, <1>9, <1>10, <1>11, <1>12
     DEF FanoutNext, Gateway, Viewers, Failures, ExecuteSub, DimsResolved, Deliver, Flush, Reap,
         ExecuteRead, SendSnapshot, HandleResync, Receive, Connect, Drop, Outage, Ready,
         SubscribeRefused, Restart
-----------------------------------------------------------------------------
(***************************************************************************)
(* The order of the deltas, and the subscription.                          *)
(***************************************************************************)

\* The order depends on the channel and the ring alone; a new ring keeps it, and so does
\* an empty channel.
LEMMA FreshInOrder ==
  ASSUME FanoutTypes, InOrder, ring' = <<>>, newest' = 0, fromRedis' \in {fromRedis, <<>>}
  PROVE  InOrder'
<1>1. /\ fromRedis \in Seq(Versions \ {0})
      /\ \A i \in DOMAIN fromRedis : fromRedis[i] \in Versions \ {0}
  BY DEF FanoutTypes
<1>2. \A i \in DOMAIN fromRedis : 0 < fromRedis[i]
  BY <1>1 DEF Versions
<1>3. CASE fromRedis' = fromRedis
  BY <1>2, <1>3 DEF InOrder
<1>4. CASE fromRedis' = <<>>
  BY <1>4 DEF InOrder
<1> QED
  BY <1>3, <1>4

LEMMA InOrderStep ==
  ASSUME FanoutTypes, InOrder, [FanoutNext]_fanoutVars
  PROVE  InOrder'
<1> USE DEF redisVars, coalescer, ringVars, gatewayVars, boardVars, clientVars
<1>0. /\ fromRedis \in Seq(Versions \ {0}) /\ ring \in Seq(Versions \ {0}) /\ newest \in Versions
      /\ \A v \in Versions : v \in Nat /\ v <= Len(log)
      /\ Len(log) \in Nat
  BY DEF FanoutTypes, Versions
<1>1. CASE UNCHANGED <<ring, newest, fromRedis>>
  BY <1>1 DEF InOrder
<1>2. ASSUME NEW x \in Cells, Publish(x)
      PROVE  InOrder'
  <2>1. CASE subscribed
    <3>1. fromRedis' = Append(fromRedis, Len(log) + 1) /\ ring' = ring /\ newest' = newest
      BY <1>2, <2>1 DEF Publish
    <3>2. /\ fromRedis \in Seq(Nat) /\ Len(log) + 1 \in Nat
          /\ \A i \in DOMAIN fromRedis : fromRedis[i] \in Nat /\ fromRedis[i] < Len(log) + 1
          /\ newest < Len(log) + 1
      BY <1>0
    <3>3. /\ Len(fromRedis) \in Nat /\ DOMAIN fromRedis = 1..Len(fromRedis)
          /\ DOMAIN fromRedis' = 1..(Len(fromRedis) + 1)
          /\ \A i \in 1..Len(fromRedis) : fromRedis'[i] = fromRedis[i]
          /\ fromRedis'[Len(fromRedis) + 1] = Len(log) + 1
      BY <3>1, <3>2, QueueGets
    <3>4. \A i \in DOMAIN fromRedis' : newest' < fromRedis'[i]
      BY <3>1, <3>2, <3>3 DEF InOrder
    <3>5. \A i, j \in DOMAIN fromRedis' : i < j => fromRedis'[i] < fromRedis'[j]
      BY <3>2, <3>3 DEF InOrder
    <3> QED
      BY <3>1, <3>4, <3>5 DEF InOrder
  <2>2. CASE ~subscribed
    BY <1>1, <1>2, <2>2 DEF Publish
  <2> QED
    BY <2>1, <2>2
<1>3. CASE Deliver
  <2> DEFINE v == Head(fromRedis)
  <2>1. /\ fromRedis' = Tail(fromRedis) /\ fromRedis # <<>> /\ 1 \in DOMAIN fromRedis
        /\ v = fromRedis[1] /\ v \in Versions \ {0}
    BY <1>0, <1>3 DEF Deliver
  <2>2. /\ Len(Tail(fromRedis)) = Len(fromRedis) - 1
        /\ \A i \in DOMAIN Tail(fromRedis) : i + 1 \in DOMAIN fromRedis /\ i \in DOMAIN fromRedis
                                             /\ Tail(fromRedis)[i] = fromRedis[i + 1]
    BY <1>0, <2>1
  <2>3. newest < v /\ \A i \in DOMAIN fromRedis' : v < fromRedis'[i] /\ newest < fromRedis'[i]
    <3>1. newest < v
      BY <2>1 DEF InOrder
    <3>2. \A i \in DOMAIN fromRedis' : v < fromRedis[i + 1] /\ newest < fromRedis[i + 1]
      BY <1>0, <2>1, <2>2 DEF InOrder
    <3> QED
      BY <2>1, <2>2, <3>1, <3>2
  <2>4. \A i, j \in DOMAIN fromRedis' : i < j => fromRedis'[i] < fromRedis'[j]
    BY <1>0, <2>1, <2>2 DEF InOrder
  <2>5. CASE entry
    <3>1. ring' = Pushed(v) /\ newest' = v
      BY <1>0, <1>3, <2>1, <2>3, <2>5 DEF Deliver
    <3>2. Pushed(v) # <<>> /\ Pushed(v)[Len(Pushed(v))] = v
      <4>1. CASE Len(ring) < RingSize
        BY <1>0, <2>1, <4>1, QueueGets DEF Pushed
      <4>2. CASE ~(Len(ring) < RingSize)
        <5>1. ring # <<>>
          BY <1>0, <4>2, FanoutAssumption
        <5>2. Tail(ring) \in Seq(Versions \ {0})
          BY <1>0, <5>1, QueueTakes
        <5>3. Pushed(v) = Append(Tail(ring), v)
          BY <4>2 DEF Pushed
        <5> QED
          BY <2>1, <5>2, <5>3, QueueGets
      <4> QED
        BY <4>1, <4>2
    <3> QED
      BY <2>3, <2>4, <3>1, <3>2 DEF InOrder
  <2>6. CASE ~entry
    <3>1. ring' = ring /\ newest' = newest
      BY <1>3, <2>6 DEF Deliver
    <3> QED
      BY <2>3, <2>4, <3>1 DEF InOrder
  <2> QED
    BY <2>5, <2>6
<1>4. CASE Outage
  BY <1>4 DEF Outage, InOrder
<1>5. CASE Ready \/ SubscribeRefused \/ Restart
  BY <1>5, FreshInOrder DEF Ready, SubscribeRefused, Restart, Fresh
<1>6. CASE DimsResolved \/ Reap
  BY <1>1, <1>6, FreshInOrder DEF DimsResolved, Reap, OpenState, Discard, Fresh
<1>7. ASSUME NEW c \in Clients, Connect(c)
      PROVE  InOrder'
  BY <1>1, <1>7, FreshInOrder DEF Connect, OpenState, Fresh
<1>8. ASSUME NEW c \in Clients,
             ExecuteRead(c) \/ SendSnapshot(c) \/ HandleResync(c) \/ Receive(c) \/ Drop(c)
      PROVE  InOrder'
  BY <1>1, <1>8 DEF ExecuteRead, SendSnapshot, HandleResync, Receive, Drop
<1>9. CASE ExecuteSub \/ Flush \/ UNCHANGED fanoutVars
  BY <1>1, <1>9 DEF ExecuteSub, Flush, fanoutVars
<1> QED
  BY <1>2, <1>3, <1>4, <1>5, <1>6, <1>7, <1>8, <1>9 DEF FanoutNext, Gateway, Viewers, Failures

\* What the last command asks for holds until another is sent, whatever Redis has executed.
LEMMA ExecutedAhead ==
  ASSUME FanoutTypes, ExecuteSub
  PROVE  SubscriptionAhead' = SubscriptionAhead
<1>0. toRedis \in Seq(Commands)
  BY DEF FanoutTypes
<1>1. /\ toRedis # <<>> /\ subscribed' = (Head(toRedis) # "unsubscribe")
      /\ toRedis' = Tail(toRedis)
  BY DEF ExecuteSub
<1>2. CASE Len(toRedis) = 1
  <2>1. Tail(toRedis) = <<>> /\ Head(toRedis) = toRedis[Len(toRedis)]
    BY <1>0, <1>1, <1>2, QueueTakes
  <2> QED
    BY <1>1, <2>1 DEF SubscriptionAhead
<1>3. CASE Len(toRedis) # 1
  <2>1. Len(toRedis) \in Nat /\ Len(toRedis) > 1
    BY <1>0, <1>1, <1>3, QueueTakes
  <2>2. /\ Tail(toRedis) # <<>> /\ Len(Tail(toRedis)) = Len(toRedis) - 1
        /\ \A i \in 1..(Len(toRedis) - 1) : Tail(toRedis)[i] = toRedis[i + 1]
    BY <1>0, <1>1, <1>3, QueueTakes
  <2>3. Tail(toRedis)[Len(toRedis) - 1] = toRedis[Len(toRedis)]
    BY <2>1, <2>2
  <2> QED
    BY <1>1, <2>2, <2>3 DEF SubscriptionAhead
<1> QED
  BY <1>2, <1>3

\* A new state asks for the channel, and giving one up asks to be rid of it.
LEMMA LastAsked ==
  ASSUME FanoutTypes
  PROVE  (OpenState => entry' /\ SubscriptionAhead') /\ (Discard => ~entry' /\ ~SubscriptionAhead')
<1>0. toRedis \in Seq(Commands) /\ "subscribe" \in Commands /\ "unsubscribe" \in Commands
  BY DEF FanoutTypes, Commands
<1>1. ASSUME NEW k \in Commands, toRedis' = Append(toRedis, k)
      PROVE  SubscriptionAhead' = (k # "unsubscribe")
  <2>1. toRedis' # <<>> /\ toRedis'[Len(toRedis')] = k
    BY <1>0, <1>1, QueueGets
  <2> QED
    BY <2>1 DEF SubscriptionAhead
<1> QED
  BY <1>0, <1>1 DEF OpenState, Discard

\* No step leaves a canvas with state and without deltas.
LEMMA SubscriptionStep ==
  ASSUME FanoutTypes, EntryIsSubscribed, [FanoutNext]_fanoutVars
  PROVE  EntryIsSubscribed'
<1> USE DEF redisVars, coalescer, ringVars, gatewayVars, boardVars, clientVars
<1>0. toRedis \in Seq(Commands)
  BY DEF FanoutTypes
<1>1. CASE ~entry'
  BY <1>1 DEF EntryIsSubscribed
<1>2. CASE UNCHANGED <<entry, toRedis, subscribed>>
  BY <1>2 DEF EntryIsSubscribed, SubscriptionAhead
<1>3. CASE ExecuteSub
  BY <1>3, ExecutedAhead DEF ExecuteSub, EntryIsSubscribed
<1>4. CASE OpenState
  BY <1>4, LastAsked DEF EntryIsSubscribed
<1>5. CASE Outage
  <2>1. /\ toRedis' = (IF subscribed THEN <<"resubscribe">> ELSE <<>>) \o toRedis
        /\ entry' = entry /\ ~subscribed'
    BY <1>5 DEF Outage
  <2>2. SubscriptionAhead => SubscriptionAhead'
    <3>1. CASE toRedis = <<>>
      <4>1. subscribed => toRedis' = <<"resubscribe">>
        BY <2>1, <3>1, ConcatEmptySeq, <1>0
      <4>2. subscribed => toRedis' # <<>> /\ toRedis'[Len(toRedis')] = "resubscribe"
        <5>1. <<"resubscribe">> # <<>> /\ <<"resubscribe">>[Len(<<"resubscribe">>)] = "resubscribe"
          OBVIOUS
        <5> QED
          BY <4>1, <5>1
      <4>3. subscribed \in BOOLEAN
        BY DEF FanoutTypes
      <4> QED
        BY <3>1, <4>2, <4>3 DEF SubscriptionAhead
    <3>2. CASE toRedis # <<>>
      <4>1. toRedis' # <<>> /\ toRedis'[Len(toRedis')] = toRedis[Len(toRedis)]
        <5>1. CASE subscribed
          <6>1. <<"resubscribe">> \in Seq(Commands)
            BY DEF Commands
          <6>2. toRedis' = <<"resubscribe">> \o toRedis
            BY <2>1, <5>1
          <6> QED
            BY <1>0, <3>2, <6>1, <6>2
        <5>2. CASE ~subscribed
          <6>1. toRedis' = toRedis
            BY <1>0, <2>1, <5>2
          <6> QED
            BY <3>2, <6>1
        <5> QED
          BY <5>1, <5>2
      <4> QED
        BY <3>2, <4>1 DEF SubscriptionAhead
    <3> QED
      BY <3>1, <3>2
  <2> QED
    BY <2>1, <2>2 DEF EntryIsSubscribed
<1>6. CASE SubscribeRefused \/ Restart \/ Discard
  BY <1>1, <1>6 DEF SubscribeRefused, Restart, Discard
<1>7. CASE DimsResolved \/ Reap
  BY <1>2, <1>4, <1>6, <1>7 DEF DimsResolved, Reap
<1>8. ASSUME NEW c \in Clients, Connect(c)
      PROVE  EntryIsSubscribed'
  BY <1>2, <1>4, <1>8 DEF Connect
<1>9. ASSUME NEW c \in Clients,
             ExecuteRead(c) \/ SendSnapshot(c) \/ HandleResync(c) \/ Receive(c) \/ Drop(c)
      PROVE  EntryIsSubscribed'
  BY <1>2, <1>9 DEF ExecuteRead, SendSnapshot, HandleResync, Receive, Drop
<1>10. CASE Ready \/ Flush \/ Deliver \/ UNCHANGED fanoutVars
  BY <1>2, <1>10 DEF Ready, Flush, Deliver, fanoutVars
<1>11. ASSUME NEW x \in Cells, Publish(x)
       PROVE  EntryIsSubscribed'
  BY <1>2, <1>11 DEF Publish
<1> QED
  BY <1>3, <1>5, <1>6, <1>7, <1>8, <1>9, <1>10, <1>11 DEF FanoutNext, Gateway, Viewers, Failures
-----------------------------------------------------------------------------
(***************************************************************************)
(* Under the discipline: the channel, the ring and the reads.              *)
(***************************************************************************)

\* A behaviour keeps the discipline throughout, and with it the connection.
LEMMA CalmLasts ==
  ASSUME [FanoutNext]_fanoutVars
  PROVE  calm' = calm
BY DEF FanoutNext, Gateway, Viewers, Failures, ExecuteSub, DimsResolved, Deliver, Flush, Reap,
       ExecuteRead, SendSnapshot, HandleResync, Receive, Connect, Drop, Outage, Ready,
       SubscribeRefused, Restart, Publish, fanoutVars

LEMMA UnbrokenStep ==
  ASSUME FanoutTypes, Unbroken, calm, [FanoutNext]_fanoutVars
  PROVE  Unbroken'
<1> USE DEF redisVars, coalescer, ringVars, gatewayVars, boardVars, clientVars
<1>0. /\ log \in Seq(Cells) /\ Len(log) \in Nat /\ Len(fromRedis) \in Nat
      /\ fromRedis \in Seq(Versions \ {0}) /\ DOMAIN fromRedis = 1..Len(fromRedis)
  BY LenProperties DEF FanoutTypes
<1>1. CASE UNCHANGED <<log, linked, fromRedis, entry, toRedis, subscribed>>
  BY <1>1 DEF Unbroken, Told, SubscriptionAhead
<1>2. ASSUME UNCHANGED <<log, linked, fromRedis>>, entry' <=> SubscriptionAhead'
      PROVE  Unbroken'
  BY <1>2 DEF Unbroken, Told
<1>3. ASSUME NEW x \in Cells, Publish(x)
      PROVE  Unbroken'
  <2>1. /\ Settled /\ log' = Append(log, x) /\ Len(log') = Len(log) + 1
        /\ UNCHANGED <<linked, entry, toRedis, subscribed>>
    BY <1>0, <1>3, QueueGets DEF Publish
  <2>2. entry' <=> SubscriptionAhead'
    BY <2>1 DEF Unbroken, SubscriptionAhead
  <2>3. CASE subscribed
    <3>1. fromRedis' = Append(fromRedis, Len(log) + 1)
      BY <1>3, <2>3 DEF Publish
    <3>2. fromRedis \in Seq(Nat) /\ Len(log) + 1 \in Nat
      BY <1>0 DEF Versions
    <3>3. /\ Len(fromRedis') = Len(fromRedis) + 1 /\ DOMAIN fromRedis' = 1..(Len(fromRedis) + 1)
          /\ \A i \in 1..Len(fromRedis) : fromRedis'[i] = fromRedis[i]
          /\ fromRedis'[Len(fromRedis) + 1] = Len(log) + 1
      BY <3>1, <3>2, QueueGets
    <3>4. Told' = Told
      BY <1>0, <2>1, <3>3 DEF Told
    <3>5. \A i \in DOMAIN fromRedis' : fromRedis'[i] = Told' + i
      BY <1>0, <3>3, <3>4 DEF Unbroken, Told
    <3> QED
      BY <2>1, <2>2, <3>4, <3>5 DEF Unbroken
  <2>4. CASE ~subscribed
    <3>1. fromRedis' = <<>>
      BY <1>3, <2>1, <2>4 DEF Publish, Settled
    <3>2. Told' = Len(log) + 1
      BY <1>0, <2>1, <3>1 DEF Told
    <3> QED
      BY <1>0, <2>1, <2>2, <3>1, <3>2 DEF Unbroken
  <2> QED
    BY <2>3, <2>4
<1>4. CASE Deliver
  <2>1. fromRedis # <<>> /\ fromRedis' = Tail(fromRedis) /\ log' = log
        /\ UNCHANGED <<linked, entry, toRedis, subscribed>>
    BY <1>4 DEF Deliver
  <2>2. /\ Len(fromRedis) \in Nat \ {0} /\ Len(fromRedis') = Len(fromRedis) - 1
        /\ DOMAIN fromRedis' = 1..(Len(fromRedis) - 1)
        /\ \A i \in 1..(Len(fromRedis) - 1) : fromRedis'[i] = fromRedis[i + 1]
    BY <1>0, <2>1, QueueTakes
  <2>3. Told' = Told + 1
    BY <1>0, <2>1, <2>2 DEF Told
  <2>4. \A i \in DOMAIN fromRedis' : fromRedis'[i] = Told' + i
    <3> TAKE i \in DOMAIN fromRedis'
    <3>1. i \in 1..(Len(fromRedis) - 1) /\ i + 1 \in DOMAIN fromRedis
      BY <1>0, <2>2
    <3>2. fromRedis'[i] = Told + (i + 1) /\ Told \in Nat
      BY <2>2, <3>1 DEF Unbroken
    <3> QED
      BY <2>3, <3>1, <3>2
  <2> QED
    BY <2>1, <2>3, <2>4 DEF Unbroken, SubscriptionAhead
<1>5. CASE ExecuteSub
  BY <1>2, <1>5, ExecutedAhead DEF ExecuteSub, Unbroken
<1>6. CASE DimsResolved \/ Reap
  BY <1>1, <1>2, <1>6, LastAsked DEF DimsResolved, Reap
<1>7. ASSUME NEW c \in Clients, Connect(c)
      PROVE  Unbroken'
  BY <1>1, <1>2, <1>7, LastAsked DEF Connect
<1>8. CASE Restart
  <2>1. Told' = Len(log) /\ fromRedis' = <<>>
    BY <1>0, <1>8 DEF Restart, Told
  <2> QED
    BY <1>0, <1>8, <2>1 DEF Restart, Unbroken, SubscriptionAhead
<1>9. CASE Outage \/ Ready \/ SubscribeRefused
  BY <1>9 DEF Outage, Ready, SubscribeRefused, Unbroken
<1>10. CASE Flush \/ UNCHANGED fanoutVars
  BY <1>1, <1>10 DEF Flush, fanoutVars
<1>11. ASSUME NEW c \in Clients,
              ExecuteRead(c) \/ SendSnapshot(c) \/ HandleResync(c) \/ Receive(c) \/ Drop(c)
       PROVE  Unbroken'
  BY <1>1, <1>11 DEF ExecuteRead, SendSnapshot, HandleResync, Receive, Drop
<1> QED
  BY <1>3, <1>4, <1>5, <1>6, <1>7, <1>8, <1>9, <1>10, <1>11
     DEF FanoutNext, Gateway, Viewers, Failures

\* A new coalescer and ring follow whatever the gateway was told.
LEMMA FreshFollows ==
  ASSUME Fresh, Told' \in Nat
  PROVE  RingFollows'
BY DEF Fresh, Empty, RingFollows

LEMMA RingStep ==
  ASSUME FanoutTypes, Unbroken, Unbroken', RingFollows, calm, [FanoutNext]_fanoutVars
  PROVE  RingFollows'
<1> USE DEF redisVars, coalescer, ringVars, gatewayVars, boardVars, clientVars
<1>0. /\ log \in Seq(Cells) /\ Len(log) \in Nat /\ Len(fromRedis) \in Nat
      /\ fromRedis \in Seq(Versions \ {0}) /\ DOMAIN fromRedis = 1..Len(fromRedis)
      /\ ring \in Seq(Nat) /\ Len(ring) \in Nat /\ DOMAIN ring = 1..Len(ring)
      /\ Told \in Nat /\ Told' \in Nat
  BY LenProperties DEF FanoutTypes, Versions, Unbroken
<1>1. CASE UNCHANGED <<log, fromRedis, entry, pending, maxSeq, ring>>
  BY <1>1 DEF RingFollows, Told, Empty
<1>2. CASE Fresh
  BY <1>0, <1>2, FreshFollows
<1>3. ASSUME NEW x \in Cells, Publish(x)
      PROVE  RingFollows'
  <2>1. /\ Settled /\ Len(log') = Len(log) + 1
        /\ UNCHANGED <<entry, pending, maxSeq, ring>>
    BY <1>0, <1>3, QueueGets DEF Publish
  <2>2. CASE subscribed
    <3>1. fromRedis' = Append(fromRedis, Len(log) + 1)
      BY <1>3, <2>2 DEF Publish
    <3>2. fromRedis \in Seq(Nat) /\ Len(log) + 1 \in Nat
      BY <1>0 DEF Versions
    <3>3. Len(fromRedis') = Len(fromRedis) + 1
      BY <3>1, <3>2, QueueGets
    <3>4. Told' = Told
      BY <1>0, <2>1, <3>3 DEF Told
    <3> QED
      BY <2>1, <3>4 DEF RingFollows, Empty
  <2>3. CASE ~subscribed
    <3>1. ~entry
      BY <2>1, <2>3 DEF Settled, Unbroken, SubscriptionAhead
    <3>2. maxSeq' = 0 /\ ring' = <<>> /\ pending' = Empty' /\ Told' \in Nat
      BY <1>0, <2>1, <3>1 DEF RingFollows, Empty
    <3> QED
      BY <3>2 DEF RingFollows
  <2> QED
    BY <2>2, <2>3
<1>4. CASE Deliver
  <2>1. /\ fromRedis # <<>> /\ fromRedis' = Tail(fromRedis) /\ log' = log /\ entry' = entry
    BY <1>4 DEF Deliver
  <2>2. /\ Len(fromRedis) \in Nat \ {0} /\ Len(fromRedis') = Len(fromRedis) - 1
        /\ Head(fromRedis) = fromRedis[1] /\ fromRedis[1] = Told + 1
    BY <1>0, <2>1, QueueTakes DEF Unbroken
  <2>3. Told' = Told + 1
    BY <1>0, <2>1, <2>2 DEF Told
  <2> DEFINE v == Head(fromRedis)
  <2>4. CASE entry
    <3>1. ring' = Pushed(v) /\ maxSeq' = v
      <4>1. ring' = Pushed(v) /\ maxSeq' = IF v > maxSeq THEN v ELSE maxSeq
        BY <1>4, <2>4 DEF Deliver
      <4>2. v = Told + 1 /\ maxSeq \in {0, Told}
        BY <2>2 DEF RingFollows
      <4> QED
        BY <1>0, <4>1, <4>2
    <3>2. v = Told' /\ v \in Nat
      BY <1>0, <2>2, <2>3
    <3> HIDE DEF v
    <3>3. /\ Len(Pushed(v)) <= Told'
          /\ \A i \in DOMAIN Pushed(v) : Pushed(v)[i] = Told' - Len(Pushed(v)) + i
      <4>1. CASE Len(ring) < RingSize
        <5>1. Pushed(v) = Append(ring, v)
          BY <4>1 DEF Pushed
        <5>2. /\ Len(Pushed(v)) = Len(ring) + 1 /\ DOMAIN Pushed(v) = 1..(Len(ring) + 1)
              /\ \A i \in 1..Len(ring) : Pushed(v)[i] = ring[i]
              /\ Pushed(v)[Len(ring) + 1] = v
          BY <1>0, <3>2, <5>1, QueueGets
        <5>3. \A i \in 1..Len(ring) : Pushed(v)[i] = Told - Len(ring) + i
          BY <1>0, <5>2 DEF RingFollows
        <5>4. Len(ring) <= Told
          BY DEF RingFollows
        <5>5. \A i \in DOMAIN Pushed(v) : i \in 1..Len(ring) \/ i = Len(ring) + 1
          BY <1>0, <5>2
        <5>6. \A i \in DOMAIN Pushed(v) : Pushed(v)[i] = Told' - Len(Pushed(v)) + i
          <6> TAKE i \in DOMAIN Pushed(v)
          <6>1. CASE i \in 1..Len(ring)
            BY <1>0, <2>3, <5>2, <5>3, <6>1
          <6>2. CASE i = Len(ring) + 1
            BY <1>0, <2>3, <3>2, <5>2, <6>2
          <6> QED
            BY <5>5, <6>1, <6>2
        <5> QED
          BY <1>0, <2>3, <5>2, <5>4, <5>6
      <4>2. CASE ~(Len(ring) < RingSize)
        <5>1. Pushed(v) = Append(Tail(ring), v) /\ ring # <<>>
          BY <1>0, <4>2, FanoutAssumption DEF Pushed
        <5>2. /\ Tail(ring) \in Seq(Nat) /\ Len(Tail(ring)) = Len(ring) - 1
              /\ \A i \in 1..(Len(ring) - 1) : Tail(ring)[i] = ring[i + 1]
          BY <1>0, <5>1, QueueTakes
        <5>3. /\ Len(Pushed(v)) = Len(ring) /\ DOMAIN Pushed(v) = 1..Len(ring)
              /\ \A i \in 1..(Len(ring) - 1) : Pushed(v)[i] = Tail(ring)[i]
              /\ Pushed(v)[Len(ring)] = v
          BY <1>0, <3>2, <5>1, <5>2, QueueGets
        <5>4. \A i \in 1..(Len(ring) - 1) : Pushed(v)[i] = Told - Len(ring) + (i + 1)
          <6> TAKE i \in 1..(Len(ring) - 1)
          <6>1. i + 1 \in DOMAIN ring /\ i \in Nat
            BY <1>0
          <6>2. ring[i + 1] = Told - Len(ring) + (i + 1)
            BY <6>1 DEF RingFollows
          <6> QED
            BY <5>2, <5>3, <6>2
        <5>5. \A i \in DOMAIN Pushed(v) : Pushed(v)[i] = Told' - Len(Pushed(v)) + i
          <6> TAKE i \in DOMAIN Pushed(v)
          <6>1. i \in 1..(Len(ring) - 1) \/ i = Len(ring)
            BY <1>0, <5>3
          <6>2. CASE i \in 1..(Len(ring) - 1)
            BY <1>0, <2>3, <5>3, <5>4, <6>2
          <6>3. CASE i = Len(ring)
            <7>1. Pushed(v)[i] = v /\ Len(Pushed(v)) = i /\ i \in Nat
              BY <1>0, <5>3, <6>3
            <7>2. Told' = Told + 1 /\ Told \in Nat /\ v = Told'
              BY <1>0, <2>3, <3>2
            <7>3. Told' - Len(Pushed(v)) + i = Told'
              BY <7>1, <7>2
            <7> QED
              BY <7>1, <7>2, <7>3
          <6> QED
            BY <6>1, <6>2, <6>3
        <5>6. Len(ring) <= Told
          BY DEF RingFollows
        <5> QED
          BY <1>0, <2>3, <5>3, <5>5, <5>6
      <4> QED
        BY <4>1, <4>2
    <3> QED
      BY <2>1, <2>4, <3>1, <3>2, <3>3 DEF RingFollows
  <2>5. CASE ~entry
    <3>1. maxSeq' = 0 /\ ring' = <<>> /\ pending' = Empty'
      BY <1>4, <2>5 DEF Deliver, RingFollows, Empty
    <3> QED
      BY <1>0, <3>1 DEF RingFollows
  <2> QED
    BY <2>4, <2>5
<1>5. CASE Flush
  <2>1. entry
    BY <1>5 DEF Flush, RingFollows
  <2>2. Told' = Told /\ UNCHANGED <<entry, ring>> /\ maxSeq' = 0
    BY <1>5 DEF Flush, Told
  <2> QED
    BY <2>1, <2>2 DEF RingFollows
<1>6. CASE DimsResolved \/ Reap \/ Restart
  BY <1>1, <1>2, <1>6 DEF DimsResolved, Reap, Restart, OpenState, Discard
<1>7. ASSUME NEW c \in Clients, Connect(c)
      PROVE  RingFollows'
  BY <1>1, <1>2, <1>7 DEF Connect, OpenState
<1>8. CASE Outage \/ Ready \/ SubscribeRefused
  BY <1>8 DEF Outage, Ready, SubscribeRefused, Unbroken
<1>9. CASE ExecuteSub \/ UNCHANGED fanoutVars
  BY <1>1, <1>9 DEF ExecuteSub, fanoutVars
<1>10. ASSUME NEW c \in Clients,
              ExecuteRead(c) \/ SendSnapshot(c) \/ HandleResync(c) \/ Receive(c) \/ Drop(c)
       PROVE  RingFollows'
  BY <1>1, <1>10 DEF ExecuteRead, SendSnapshot, HandleResync, Receive, Drop
<1> QED
  BY <1>3, <1>4, <1>5, <1>6, <1>7, <1>8, <1>9, <1>10 DEF FanoutNext, Gateway, Viewers, Failures

LEMMA ReadsStep ==
  ASSUME FanoutTypes, Unbroken, ReadsCurrent, calm, [FanoutNext]_fanoutVars
  PROVE  ReadsCurrent'
<1> USE DEF redisVars, coalescer, ringVars, gatewayVars, boardVars, clientVars
<1>0. \A d \in Clients : /\ reads[d] \in Seq(Reads) /\ Len(reads[d]) \in Nat
                         /\ DOMAIN reads[d] = 1..Len(reads[d])
  BY LenProperties DEF FanoutTypes
<1>a. reads \in [Clients -> Seq(Reads)]
  BY DEF FanoutTypes
<1>b. \A n \in BOOLEAN : Asked(n) \in Reads /\ Asked(n).at = None
  BY DEF Asked, Reads
<1>1. CASE UNCHANGED <<log, reads>>
  BY <1>1 DEF ReadsCurrent
<1>2. ASSUME NEW x \in Cells, Publish(x)
      PROVE  ReadsCurrent'
  <2>1. \A c \in Clients : reads'[c] = <<>>
    BY <1>2 DEF Publish, Settled
  <2> QED
    BY <2>1 DEF ReadsCurrent
<1>3. ASSUME NEW d \in Clients, NEW n \in BOOLEAN, log' = log, reads'[d] = Append(reads[d], Asked(n))
      PROVE  \A i \in DOMAIN reads'[d] : reads'[d][i].at \in {None, Len(log')}
  <2>1. /\ DOMAIN reads'[d] = 1..(Len(reads[d]) + 1)
        /\ \A i \in 1..Len(reads[d]) : reads'[d][i] = reads[d][i]
        /\ reads'[d][Len(reads[d]) + 1] = Asked(n)
    BY <1>0, <1>3, <1>b, QueueGets
  <2> QED
    BY <1>0, <1>3, <1>b, <2>1 DEF ReadsCurrent
<1>4. ASSUME NEW c \in Clients, Connect(c)
      PROVE  ReadsCurrent'
  <2>1. reads'[c] = <<Asked(TRUE)>> \/ reads'[c] = reads[c]
    BY <1>4, <1>a DEF Connect
  <2>2. \A d \in Clients : d # c => reads'[d] = reads[d]
    BY <1>4, <1>a DEF Connect
  <2>3. log' = log
    BY <1>4 DEF Connect
  <2>4. \A i \in DOMAIN <<Asked(TRUE)>> : <<Asked(TRUE)>>[i] = Asked(TRUE)
    BY OneInQueue
  <2>5. \A i \in DOMAIN reads'[c] : reads'[c][i].at \in {None, Len(log)}
    BY <1>b, <2>1, <2>4 DEF ReadsCurrent
  <2> QED
    BY <2>2, <2>3, <2>5 DEF ReadsCurrent
<1>5. CASE DimsResolved
  <2>1. \A d \in Clients : reads'[d] = reads[d] \/ reads'[d] = Append(reads[d], Asked(TRUE))
    BY <1>5 DEF DimsResolved, Resumed
  <2>2. log' = log
    BY <1>5 DEF DimsResolved
  <2> QED
    BY <1>3, <2>1, <2>2 DEF ReadsCurrent
<1>6. ASSUME NEW c \in Clients, HandleResync(c)
      PROVE  ReadsCurrent'
  <2>1. reads'[c] = reads[c] \/ reads'[c] = Append(reads[c], Asked(FALSE))
    BY <1>6, <1>a DEF HandleResync
  <2>2. \A d \in Clients : d # c => reads'[d] = reads[d]
    BY <1>6, <1>a DEF HandleResync
  <2>3. log' = log
    BY <1>6 DEF HandleResync
  <2> QED
    BY <1>3, <2>1, <2>2, <2>3 DEF ReadsCurrent
<1>7. ASSUME NEW c \in Clients, ExecuteRead(c)
      PROVE  ReadsCurrent'
  <2>1. PICK i \in DOMAIN reads[c] : reads' = [reads EXCEPT ![c][i].at = Len(log)]
    BY <1>7 DEF ExecuteRead
  <2>2. log' = log
    BY <1>7 DEF ExecuteRead
  <2>3. \A d \in Clients : d # c => reads'[d] = reads[d]
    BY <1>a, <2>1
  <2>4. reads[c][i] \in Reads
    BY <1>0
  <2>5. reads'[c] = [reads[c] EXCEPT ![i] = [reads[c][i] EXCEPT !.at = Len(log)]]
    BY <1>a, <2>1
  <2>6. /\ DOMAIN reads'[c] = DOMAIN reads[c] /\ reads'[c][i].at = Len(log)
        /\ \A j \in DOMAIN reads[c] : j # i => reads'[c][j] = reads[c][j]
    BY <2>4, <2>5 DEF Reads
  <2> QED
    BY <2>2, <2>3, <2>6 DEF ReadsCurrent
<1>8. ASSUME NEW c \in Clients, SendSnapshot(c)
      PROVE  ReadsCurrent'
  <2>1. reads[c] # <<>> /\ reads'[c] = Tail(reads[c]) /\ log' = log
    BY <1>8, <1>a DEF SendSnapshot
  <2>2. \A d \in Clients : d # c => reads'[d] = reads[d]
    BY <1>8, <1>a DEF SendSnapshot
  <2>3. /\ Len(reads[c]) \in Nat /\ DOMAIN reads'[c] = 1..(Len(reads[c]) - 1)
        /\ \A i \in 1..(Len(reads[c]) - 1) : reads'[c][i] = reads[c][i + 1]
    BY <1>0, <2>1, QueueTakes
  <2>4. \A i \in DOMAIN reads'[c] : reads'[c][i].at \in {None, Len(log)}
    BY <1>0, <2>3 DEF ReadsCurrent
  <2> QED
    BY <2>1, <2>2, <2>4 DEF ReadsCurrent
<1>9. ASSUME NEW c \in Clients, Drop(c)
      PROVE  ReadsCurrent'
  <2>1. \A d \in Clients : reads'[d] \in {<<>>, reads[d]}
    BY <1>9, <1>a DEF Drop
  <2>2. log' = log
    BY <1>9 DEF Drop
  <2> QED
    BY <2>1, <2>2 DEF ReadsCurrent
<1>10. CASE Restart
  BY <1>10 DEF Restart, ReadsCurrent
<1>11. CASE Outage \/ Ready \/ SubscribeRefused
  BY <1>11 DEF Outage, Ready, SubscribeRefused, Unbroken
<1>12. CASE ExecuteSub \/ Deliver \/ Flush \/ Reap \/ UNCHANGED fanoutVars
  BY <1>1, <1>12 DEF ExecuteSub, Deliver, Flush, Reap, fanoutVars
<1>13. ASSUME NEW c \in Clients, Receive(c)
       PROVE  ReadsCurrent'
  BY <1>1, <1>13 DEF Receive
<1> QED
  BY <1>2, <1>4, <1>5, <1>6, <1>7, <1>8, <1>9, <1>10, <1>11, <1>12, <1>13
     DEF FanoutNext, Gateway, Viewers, Failures
-----------------------------------------------------------------------------
(***************************************************************************)
(* Under the discipline: the viewers and the batch.                        *)
(***************************************************************************)

\* What is known of one viewer's queue and board.
LEMMA ViewerTypes ==
  ASSUME FanoutTypes, NEW c \in Clients
  PROVE  /\ sock[c] \in Seq(Frames) /\ Len(sock[c]) \in Nat /\ DOMAIN sock[c] = 1..Len(sock[c])
         /\ \A i \in 1..Len(sock[c]) :
              /\ sock[c][i].seq \in Nat /\ sock[c][i].seq <= Len(log)
              /\ sock[c][i].writes \in [Cells -> Nat]
              /\ sock[c][i].t \in {"welcome", "snapshot", "delta"}
         /\ applied[c] \in Nat \cup {None} /\ applied[c] <= Len(log)
         /\ resync[c] \in Nat \cup {None} /\ resync[c] <= Len(log)
         /\ board[c] \in [Cells -> Nat] /\ Len(log) \in Nat /\ log \in Seq(Cells)
<1>1. sock[c] \in Seq(Frames)
  BY DEF FanoutTypes
<1>2. Len(sock[c]) \in Nat /\ DOMAIN sock[c] = 1..Len(sock[c])
  BY <1>1, LenProperties
<1>3. \A i \in 1..Len(sock[c]) : sock[c][i] \in Frames
  BY <1>1, ElementOfSeq
<1>4. /\ log \in Seq(Cells) /\ Len(log) \in Nat
      /\ \A v \in Versions : v \in Nat /\ v <= Len(log)
  BY DEF FanoutTypes, Versions
<1>5. \A f \in Frames : /\ f.seq \in Nat /\ f.seq <= Len(log) /\ f.writes \in [Cells -> Nat]
                        /\ f.t \in {"welcome", "snapshot", "delta"}
  BY <1>4 DEF Frames
<1>6. applied[c] \in Versions \cup {None} /\ resync[c] \in Versions \cup {None}
      /\ board[c] \in [Cells -> Versions]
  BY DEF FanoutTypes
<1>7. /\ applied[c] \in Nat \cup {None} /\ applied[c] <= Len(log)
      /\ resync[c] \in Nat \cup {None} /\ resync[c] <= Len(log)
      /\ board[c] \in [Cells -> Nat]
  BY <1>4, <1>6 DEF None
<1> QED
  BY <1>1, <1>2, <1>3, <1>4, <1>5, <1>7

\* What is shown is shown whether or not a write is made.
LEMMA ShowsStill ==
  ASSUME log \in Seq(Cells), log' = log \/ \E x \in Cells : log' = Append(log, x),
         NEW w \in [Cells -> Nat], NEW lo \in Nat, NEW s \in Nat, s <= Len(log),
         Shows(log, w, lo, s)
  PROVE  Shows(log', w, lo, s)
BY ShowsSurvives

\* The frames a viewer is already sent are as good when more follow.
LEMMA FramesKeep ==
  ASSUME FanoutTypes, NEW c \in Clients, ViewerFollows(c),
         log' = log \/ \E x \in Cells : log' = Append(log, x),
         conn'[c] = conn[c], welcomed'[c] = welcomed[c], settled'[c] = settled[c],
         applied'[c] = applied[c], resync'[c] \in {resync[c], None},
         Len(sock'[c]) \in Nat, Len(sock[c]) <= Len(sock'[c]),
         \A j \in 1..Len(sock[c]) : sock'[c][j] = sock[c][j]
  PROVE  \A i \in 1..Len(sock[c]) : FrameFollows(c, i)'
<1> TAKE i \in 1..Len(sock[c])
<1> DEFINE f == sock[c][i]
<1>1. FrameFollows(c, i) /\ sock'[c][i] = f /\ i \in Nat
  BY ViewerTypes DEF ViewerFollows
<1>2. Len(sock[c]) \in Nat /\ f.seq \in Nat /\ f.seq <= Len(log) /\ f.writes \in [Cells -> Nat]
      /\ log \in Seq(Cells)
  BY ViewerTypes
<1>3. f.t = "welcome" => conn'[c] = "up" /\ i < Len(sock'[c]) /\ sock'[c][i + 1].t = "snapshot"
  BY <1>1, <1>2 DEF FrameFollows
<1>4. f.t = "snapshot" =>
         /\ Shows(log', f.writes, 0, f.seq)
         /\ settled'[c] => applied'[c] <= f.seq
         /\ resync'[c] <= f.seq
         /\ \A j \in 1..(i - 1) : sock'[c][j].seq <= f.seq
  <2> SUFFICES ASSUME f.t = "snapshot"
               PROVE  /\ Shows(log', f.writes, 0, f.seq)
                      /\ settled'[c] => applied'[c] <= f.seq
                      /\ resync'[c] <= f.seq
                      /\ \A j \in 1..(i - 1) : sock'[c][j].seq <= f.seq
    OBVIOUS
  <2>1. Shows(log', f.writes, 0, f.seq)
    BY <1>1, <1>2, ShowsStill DEF FrameFollows
  <2>2. resync'[c] <= f.seq
    BY <1>1, <1>2 DEF FrameFollows, None
  <2>3. \A j \in 1..(i - 1) : sock'[c][j].seq <= f.seq
    <3> TAKE j \in 1..(i - 1)
    <3>1. j \in 1..Len(sock[c])
      BY <1>1, <1>2
    <3> QED
      BY <1>1, <3>1 DEF FrameFollows
  <2> QED
    BY <1>1, <2>1, <2>2, <2>3 DEF FrameFollows
<1>5. f.t = "delta" /\ Greeted(c, i)' =>
         \E lo \in 0..f.seq : Shows(log', f.writes, lo, f.seq) /\ Has(c, i, lo)'
  <2> SUFFICES ASSUME f.t = "delta", Greeted(c, i)'
               PROVE  \E lo \in 0..f.seq : Shows(log', f.writes, lo, f.seq) /\ Has(c, i, lo)'
    OBVIOUS
  <2>1. \A j \in 1..(i - 1) : j \in 1..Len(sock[c]) /\ sock'[c][j] = sock[c][j]
    BY <1>1, <1>2
  <2>2. Greeted(c, i)
    BY <2>1 DEF Greeted
  <2>3. PICK lo \in 0..f.seq : Shows(log, f.writes, lo, f.seq) /\ Has(c, i, lo)
    BY <1>1, <2>2 DEF FrameFollows
  <2>4. Shows(log', f.writes, lo, f.seq)
    <3>1. lo \in Nat
      BY <1>2
    <3> QED
      BY <1>2, <2>3, <3>1, ShowsStill
  <2>5. Has(c, i, lo)'
    BY <2>1, <2>3 DEF Has
  <2> QED
    BY <2>4, <2>5
<1> QED
  BY <1>1, <1>3, <1>4, <1>5 DEF FrameFollows

\* A viewer none of whose variables change still follows, as long as the gateway keeps the
\* canvas's state and its reads are its own.
LEMMA ViewerKeeps ==
  ASSUME FanoutTypes, NEW c \in Clients, ViewerFollows(c),
         log' = log \/ \E x \in Cells : log' = Append(log, x),
         conn'[c] = conn[c], welcomed'[c] = welcomed[c], settled'[c] = settled[c],
         applied'[c] = applied[c], resync'[c] \in {resync[c], None}, sock'[c] = sock[c],
         board'[c] = board[c], loaded'[c] = loaded[c],
         conn[c] = "up" => entry', conn[c] = "down" => reads'[c] = <<>>,
         \A i \in DOMAIN reads'[c] : reads'[c][i].initial => conn[c] = "up"
  PROVE  ViewerFollows(c)'
<1>1. Len(sock[c]) \in Nat /\ DOMAIN sock[c] = 1..Len(sock[c])
  BY ViewerTypes
<1>2. \A i \in DOMAIN sock'[c] : FrameFollows(c, i)'
  BY <1>1, FramesKeep
<1>3. settled[c] => Shows(log', board[c], 0, applied[c]) /\ resync'[c] <= applied[c]
  <2>1. /\ applied[c] \in Nat \cup {None} /\ applied[c] <= Len(log)
        /\ board[c] \in [Cells -> Nat] /\ log \in Seq(Cells) /\ resync[c] \in Nat \cup {None}
    BY ViewerTypes
  <2>2. settled[c] => applied[c] \in Nat /\ Shows(log, board[c], 0, applied[c])
                      /\ resync[c] <= applied[c]
    BY <2>1 DEF ViewerFollows
  <2>3. settled[c] => Shows(log', board[c], 0, applied[c])
    BY <2>1, <2>2, ShowsStill
  <2>4. settled[c] => resync'[c] <= applied[c]
    BY <2>2 DEF None
  <2> QED
    BY <2>3, <2>4
<1> QED
  BY <1>2, <1>3 DEF ViewerFollows

\* A delta joins a viewer's queue: it starts no later than what the viewer has by then.
LEMMA DeltaSent ==
  ASSUME FanoutTypes, NEW c \in Clients, ViewerFollows(c), log' = log,
         NEW f \in Frames, f.t = "delta", sock'[c] = Append(sock[c], f),
         NEW lo \in 0..f.seq, Shows(log, f.writes, lo, f.seq),
         Greeted(c, Len(sock[c]) + 1) => Has(c, Len(sock[c]) + 1, lo),
         conn[c] # "down",
         conn'[c] = conn[c], welcomed'[c] = welcomed[c], settled'[c] = settled[c],
         applied'[c] = applied[c], resync'[c] \in {resync[c], None},
         board'[c] = board[c], loaded'[c] = loaded[c], reads'[c] = reads[c], entry' = entry
  PROVE  ViewerFollows(c)'
<1>0. PICK n \in Nat : n = Len(sock[c])
  BY ViewerTypes
<1>1. /\ n \in Nat /\ DOMAIN sock[c] = 1..n /\ sock'[c] # <<>>
      /\ Len(sock'[c]) = n + 1 /\ DOMAIN sock'[c] = 1..(n + 1)
      /\ \A j \in 1..n : sock'[c][j] = sock[c][j]
      /\ sock'[c][n + 1] = f
  <2>1. sock[c] \in Seq(Frames)
    BY ViewerTypes
  <2> QED
    BY <1>0, <2>1, QueueGets
<1>2. \A i \in 1..n : FrameFollows(c, i)'
  BY <1>0, <1>1, FramesKeep
<1>3. FrameFollows(c, n + 1)'
  <2>1. \A j \in 1..((n + 1) - 1) : sock'[c][j] = sock[c][j]
    BY <1>1
  <2>2. Greeted(c, n + 1)' => Greeted(c, n + 1)
    BY <2>1 DEF Greeted
  <2>3. Has(c, n + 1, lo) => Has(c, n + 1, lo)'
    BY <2>1 DEF Has
  <2>4. Greeted(c, n + 1)' => Has(c, n + 1, lo)'
    BY <1>0, <2>2, <2>3
  <2>5. sock'[c][n + 1].t = "delta" /\ sock'[c][n + 1].seq = f.seq
        /\ sock'[c][n + 1].writes = f.writes
    BY <1>1
  <2> QED
    BY <2>4, <2>5 DEF FrameFollows
<1>4. \A i \in DOMAIN sock'[c] : FrameFollows(c, i)'
  <2>1. \A i \in 1..(n + 1) : i \in 1..n \/ i = n + 1
    BY <1>1
  <2> QED
    BY <1>1, <1>2, <1>3, <2>1
<1>5. settled[c] => resync'[c] <= applied[c]
  <2>1. settled[c] => resync[c] <= applied[c] /\ applied[c] \in Nat
    BY ViewerTypes DEF ViewerFollows
  <2> QED
    BY <2>1 DEF None
<1>6. sock[c] # <<>> => 1 \in 1..n
  BY <1>0, <1>1, ViewerTypes, EmptySeq
<1> QED
  BY <1>1, <1>4, <1>5, <1>6 DEF ViewerFollows
\* A snapshot is sent, as of the last write; the first one with its welcome.
LEMMA SnapshotSent ==
  ASSUME FanoutTypes, ReadsCurrent, NEW c \in Clients, ViewerFollows(c), SendSnapshot(c)
  PROVE  /\ ViewerFollows(c)'
         /\ \E j \in DOMAIN sock'[c] : sock'[c][j].t # "welcome" /\ sock'[c][j].seq = Len(log)
<1> USE DEF redisVars, coalescer, ringVars, gatewayVars, boardVars, clientVars
<1> DEFINE r == Head(reads[c])
<1>0. PICK n \in Nat : n = Len(sock[c])
  BY ViewerTypes
<1>1. /\ sock[c] \in Seq(Frames) /\ log \in Seq(Cells) /\ Len(log) \in Versions /\ Len(log) \in Nat
      /\ applied[c] \in Nat \cup {None} /\ applied[c] <= Len(log)
      /\ resync[c] \in Nat \cup {None} /\ resync[c] <= Len(log)
      /\ \A i \in 1..n : sock[c][i].seq <= Len(log)
  BY <1>0, ViewerTypes DEF Versions
<1>2. /\ reads[c] # <<>> /\ r.at # None
      /\ sock' = [sock EXCEPT ![c] = @ \o (IF r.initial THEN <<WelcomeOf(r.at)>> ELSE <<>>)
                                       \o <<SnapshotOf(r.at)>>]
      /\ reads' = [reads EXCEPT ![c] = Tail(@)] /\ log' = log
      /\ UNCHANGED <<entry, conn, resync, board, loaded, applied, cursor, known, welcomed, settled>>
  BY DEF SendSnapshot
<1>3. /\ reads[c] \in Seq(Reads) /\ Len(reads[c]) \in Nat \ {0}
      /\ DOMAIN reads[c] = 1..Len(reads[c]) /\ r = reads[c][1] /\ 1 \in DOMAIN reads[c]
      /\ DOMAIN Tail(reads[c]) = 1..(Len(reads[c]) - 1)
      /\ \A i \in 1..(Len(reads[c]) - 1) : Tail(reads[c])[i] = reads[c][i + 1]
  BY <1>2, QueueTakes DEF FanoutTypes
<1>4. r.at = Len(log) /\ (r.initial => conn[c] = "up") /\ conn[c] # "down"
  BY <1>2, <1>3 DEF ReadsCurrent, ViewerFollows
<1> HIDE DEF r
<1> DEFINE W == WelcomeOf(Len(log))
           S == SnapshotOf(Len(log))
<1>5. /\ W \in Frames /\ S \in Frames /\ Shows(log, At(Len(log)), 0, Len(log))
      /\ W.t = "welcome" /\ W.seq = Len(log)
      /\ S.t = "snapshot" /\ S.seq = Len(log) /\ S.writes = At(Len(log))
  BY <1>1, SnapshotIsFrame DEF WelcomeOf, SnapshotOf
<1>6. reads'[c] = Tail(reads[c]) /\ \A i \in DOMAIN reads'[c] : reads'[c][i].initial => conn[c] = "up"
  <2>1. reads'[c] = Tail(reads[c])
    BY <1>2 DEF FanoutTypes
  <2>2. \A i \in 1..(Len(reads[c]) - 1) : i + 1 \in DOMAIN reads[c]
    BY <1>3
  <2> QED
    BY <1>3, <2>1, <2>2 DEF ViewerFollows
<1> HIDE DEF W, S
<1>7. /\ Len(<<W>>) = 1 /\ Len(<<S>>) = 1 /\ <<W>>[1] = W /\ <<S>>[1] = S
      /\ <<W>> \in Seq(Frames) /\ <<S>> \in Seq(Frames)
  BY <1>5, OneInQueue
<1>8. sock'[c] = (IF r.initial THEN sock[c] \o <<W>> ELSE sock[c]) \o <<S>>
  <2>1. sock'[c] = sock[c] \o (IF r.initial THEN <<WelcomeOf(r.at)>> ELSE <<>>) \o <<SnapshotOf(r.at)>>
    BY <1>2 DEF FanoutTypes
  <2>2. sock[c] \o <<>> = sock[c]
    BY <1>1, ConcatEmptySeq
  <2> QED
    BY <1>4, <2>1, <2>2 DEF W, S
\* The frame numbered k is the snapshot, and what comes before it the welcome if there is one.
<1>9. PICK k \in Nat :
        /\ n + 1 <= k /\ Len(sock'[c]) = k /\ DOMAIN sock'[c] = 1..k
        /\ \A j \in 1..n : sock'[c][j] = sock[c][j]
        /\ sock'[c][k] = S
        /\ \A j \in (n + 1)..(k - 1) : sock'[c][j] = W /\ j = k - 1 /\ conn[c] = "up"
  <2>1. CASE r.initial
    <3>1. /\ sock[c] \o <<W>> \in Seq(Frames) /\ Len(sock[c] \o <<W>>) = n + 1
          /\ \A j \in 1..(n + 1) : (sock[c] \o <<W>>)[j] = IF j <= n THEN sock[c][j] ELSE <<W>>[j - n]
      BY <1>0, <1>1, <1>7, ConcatProperties
    <3>2. /\ sock'[c] \in Seq(Frames) /\ Len(sock'[c]) = n + 2
          /\ \A j \in 1..(n + 2) :
               sock'[c][j] = IF j <= n + 1 THEN (sock[c] \o <<W>>)[j] ELSE <<S>>[j - (n + 1)]
      BY <1>7, <1>8, <2>1, <3>1, ConcatProperties
    <3>3. DOMAIN sock'[c] = 1..(n + 2)
      BY <3>2, LenProperties
    <3>4. \A j \in 1..n : sock'[c][j] = sock[c][j]
      BY <3>1, <3>2
    <3>5. sock'[c][n + 1] = W /\ sock'[c][n + 2] = S
      <4>1. (n + 1) - n = 1 /\ (n + 2) - (n + 1) = 1 /\ ~(n + 1 <= n) /\ ~(n + 2 <= n + 1)
            /\ n + 1 \in 1..(n + 2) /\ n + 2 \in 1..(n + 2) /\ n + 1 \in 1..(n + 1)
        OBVIOUS
      <4> QED
        BY <1>7, <3>1, <3>2, <4>1
    <3>6. \A j \in (n + 1)..((n + 2) - 1) : j = n + 1
      OBVIOUS
    <3> QED
      BY <1>4, <2>1, <3>2, <3>3, <3>4, <3>5, <3>6
  <2>2. CASE ~r.initial
    <3>1. /\ sock'[c] \in Seq(Frames) /\ Len(sock'[c]) = n + 1
          /\ \A j \in 1..(n + 1) : sock'[c][j] = IF j <= n THEN sock[c][j] ELSE <<S>>[j - n]
      BY <1>0, <1>1, <1>7, <1>8, <2>2, ConcatProperties
    <3>2. DOMAIN sock'[c] = 1..(n + 1)
      BY <3>1, LenProperties
    <3>3. sock'[c][n + 1] = S
      <4>1. (n + 1) - n = 1 /\ ~(n + 1 <= n) /\ n + 1 \in 1..(n + 1)
        OBVIOUS
      <4> QED
        BY <1>7, <3>1, <4>1
    <3>4. \A j \in (n + 1)..((n + 1) - 1) : FALSE
      OBVIOUS
    <3>5. \A j \in 1..n : sock'[c][j] = sock[c][j]
      <4>1. \A j \in 1..n : j \in 1..(n + 1) /\ j <= n
        OBVIOUS
      <4> QED
        BY <3>1, <4>1
    <3>6. n + 1 \in Nat
      OBVIOUS
    <3> QED
      BY <3>1, <3>2, <3>3, <3>4, <3>5, <3>6
  <2> QED
    BY <2>1, <2>2
<1>10. \A i \in 1..n : FrameFollows(c, i)'
  <2>1. n \in 0..Len(sock[c]) /\ Len(sock'[c]) \in Nat /\ n <= Len(sock'[c])
    BY <1>0, <1>9
  <2>2. /\ log' = log /\ conn'[c] = conn[c] /\ welcomed'[c] = welcomed[c]
        /\ settled'[c] = settled[c] /\ applied'[c] = applied[c] /\ resync'[c] = resync[c]
    BY <1>2
  <2> QED
    BY <1>0, <1>9, <2>1, <2>2, FramesKeep
<1>11. FrameFollows(c, k)'
  <2>1. \A j \in 1..(k - 1) : sock'[c][j].seq <= Len(log)
    <3> TAKE j \in 1..(k - 1)
    <3>1. CASE j \in 1..n
      BY <1>1, <1>9, <3>1
    <3>2. CASE j \in (n + 1)..(k - 1)
      BY <1>1, <1>5, <1>9, <3>2
    <3> QED
      BY <3>1, <3>2
  <2>2. applied'[c] <= Len(log) /\ resync'[c] <= Len(log)
    BY <1>1, <1>2
  <2> QED
    BY <1>2, <1>5, <1>9, <2>1, <2>2 DEF FrameFollows
<1>12. \A i \in (n + 1)..(k - 1) : FrameFollows(c, i)'
  <2> TAKE i \in (n + 1)..(k - 1)
  <2>1. sock'[c][i] = W /\ i + 1 = k /\ i < k /\ conn'[c] = "up"
    BY <1>2, <1>9
  <2> QED
    BY <1>5, <1>9, <2>1 DEF FrameFollows
<1>13. \A i \in DOMAIN sock'[c] : FrameFollows(c, i)'
  <2>1. \A i \in 1..k : i \in 1..n \/ i \in (n + 1)..(k - 1) \/ i = k
    BY <1>9
  <2> QED
    BY <1>9, <1>10, <1>11, <1>12, <2>1
<1>14. sock[c] # <<>> => sock'[c][1] = sock[c][1]
  BY <1>0, <1>1, <1>9, EmptySeq
<1>15. sock'[c] # <<>>
  BY <1>9, EmptySeq
<1>16. ViewerFollows(c)'
  <2>1. conn'[c] = conn[c] /\ entry' = entry
    BY <1>2
  <2>2. settled'[c] => /\ welcomed'[c] /\ loaded'[c] /\ applied'[c] # None'
                   /\ Shows(log', board'[c], 0, applied'[c]) /\ resync'[c] <= applied'[c]
    BY <1>2 DEF ViewerFollows, None
  <2>3. welcomed'[c] /\ ~settled'[c] /\ conn'[c] = "up" =>
            sock'[c] # <<>> /\ sock'[c][1].t = "snapshot"
    BY <1>2, <1>14, <1>15 DEF ViewerFollows
  <2> QED
    BY <1>2, <1>4, <1>6, <1>13, <2>1, <2>2, <2>3 DEF ViewerFollows
<1> QED
  BY <1>5, <1>9, <1>16

\* What a viewer had by a later frame it still has once the first has been taken: a board
\* that was settled took the frame in, and any other is yet to take a snapshot that is no
\* older (BoardBuffer.applyDelta, loadSnapshot).
LEMMA HasSurvives ==
  ASSUME FanoutTypes, NEW c \in Clients, ViewerFollows(c), Receive(c),
         NEW i \in 2..(Len(sock[c]) + 1),
         i = Len(sock[c]) + 1 \/ sock[c][i].t = "delta",
         NEW lo \in Nat, Greeted(c, i), Has(c, i, lo)
  PROVE  Has(c, i - 1, lo)'
<1> USE DEF redisVars, coalescer, ringVars, gatewayVars, boardVars, clientVars
<1> DEFINE f == sock[c][1]
<1>0. PICK n \in Nat : n = Len(sock[c])
  BY ViewerTypes
<1>1. /\ sock[c] # <<>> /\ f = Head(sock[c]) /\ sock'[c] = Tail(sock[c]) /\ n # 0
      /\ \A j \in 1..(n - 1) : sock'[c][j] = sock[c][j + 1]
      /\ DOMAIN sock[c] = 1..n /\ 1 \in 1..n
  <2>1. sock[c] # <<>> /\ sock' = [sock EXCEPT ![c] = Tail(@)]
    BY DEF Receive
  <2>2. sock'[c] = Tail(sock[c])
    BY <2>1 DEF FanoutTypes
  <2>3. sock[c] \in Seq(Frames)
    BY ViewerTypes
  <2>4. /\ Len(sock[c]) \in Nat \ {0} /\ DOMAIN sock[c] = 1..Len(sock[c])
        /\ Head(sock[c]) = sock[c][1]
        /\ \A j \in 1..(Len(sock[c]) - 1) : Tail(sock[c])[j] = sock[c][j + 1]
    BY <2>1, <2>3, QueueTakes
  <2>5. \A j \in 1..(n - 1) : sock'[c][j] = sock[c][j + 1]
    BY <1>0, <2>2, <2>4
  <2>6. n # 0 /\ DOMAIN sock[c] = 1..n /\ 1 \in 1..n
    BY <1>0, <2>4
  <2> QED
    BY <2>1, <2>2, <2>4, <2>5, <2>6
<1>2. /\ FrameFollows(c, 1) /\ f.seq \in Nat /\ f.t \in {"welcome", "snapshot", "delta"}
      /\ applied[c] \in Nat \cup {None} /\ i \in 2..(n + 1) /\ i - 1 \in Nat
      /\ conn[c] # "down"
  <2>1. FrameFollows(c, 1) /\ conn[c] # "down"
    BY <1>1 DEF ViewerFollows
  <2>2. f.seq \in Nat /\ f \in Frames /\ applied[c] \in Nat \cup {None}
    BY <1>1, ViewerTypes
  <2>3. f.t \in {"welcome", "snapshot", "delta"}
    BY <2>2 DEF Frames
  <2>4. i \in 2..(n + 1) /\ i - 1 \in Nat
    BY <1>0
  <2> QED
    BY <2>1, <2>2, <2>3, <2>4
\* A later frame of the queue vouches for lo.
<1>3. ASSUME NEW j \in 2..(i - 1), sock[c][j].t # "welcome", lo <= sock[c][j].seq
      PROVE  Has(c, i - 1, lo)'
  <2>1. j - 1 \in 1..((i - 1) - 1) /\ j - 1 \in 1..(n - 1) /\ (j - 1) + 1 = j
    <3>1. i \in 2..(n + 1) /\ n \in Nat /\ j \in 2..(i - 1)
      BY <1>0, <1>2
    <3> QED
      BY <3>1
  <2>2. sock'[c][j - 1] = sock[c][j]
    BY <1>1, <2>1
  <2> QED
    BY <1>3, <2>1, <2>2 DEF Has
\* The snapshot of a welcome still to come is no older than the frame taken.
<1>4. ASSUME ~welcomed[c], lo <= f.seq, f.t # "welcome"
      PROVE  Has(c, i - 1, lo)'
  <2>1. PICK m \in 1..(i - 1) : sock[c][m].t = "welcome"
    BY <1>4 DEF Greeted
  <2>2. m \in 1..n /\ m # 1 /\ m \in 2..n
    BY <1>2, <1>4, <2>1
  <2>3. m + 1 \in 1..n /\ sock[c][m + 1].t = "snapshot"
    <3>1. FrameFollows(c, m)
      BY <1>1, <2>2 DEF ViewerFollows
    <3> QED
      BY <1>0, <2>1, <2>2, <3>1 DEF FrameFollows
  <2>4. f.seq <= sock[c][m + 1].seq
    <3>1. FrameFollows(c, m + 1) /\ 1 \in 1..((m + 1) - 1)
      BY <1>1, <2>2, <2>3 DEF ViewerFollows
    <3> QED
      BY <2>3, <3>1 DEF FrameFollows
  <2>5. m + 1 # i
    BY <1>0, <2>2, <2>3
  <2>6. m + 1 \in 2..(i - 1) /\ sock[c][m + 1].seq \in Nat
    <3>1. sock[c][m + 1].seq \in Nat
      BY <1>1, <2>3, ViewerTypes
    <3>2. m \in 1..(i - 1) /\ m # 1
      BY <2>1, <2>2
    <3>3. i \in Nat
      BY <1>0, <1>2
    <3>4. m \in Nat /\ m <= i - 1 /\ 1 <= m
      BY <3>2, <3>3
    <3> QED
      BY <2>5, <3>1, <3>2, <3>3, <3>4
  <2>7. lo <= sock[c][m + 1].seq
    <3>1. lo \in Nat /\ lo <= sock[c][1].seq /\ sock[c][1].seq <= sock[c][m + 1].seq
      BY <1>4, <2>4
    <3>2. sock[c][1].seq \in Nat
      BY <1>2, ViewerTypes
    <3> QED
      BY <2>6, <3>1, <3>2
  <2> QED
    BY <1>3, <2>3, <2>6, <2>7
<1>5. CASE f.t = "welcome"
  <2>1. settled'[c] = settled[c] /\ applied'[c] = applied[c]
    BY <1>1, <1>5 DEF Receive
  <2>2. CASE settled[c] /\ lo <= applied[c]
    BY <2>1, <2>2 DEF Has
  <2>3. CASE \E j \in 1..(i - 1) : sock[c][j].t # "welcome" /\ lo <= sock[c][j].seq
    <3>1. PICK j \in 1..(i - 1) : sock[c][j].t # "welcome" /\ lo <= sock[c][j].seq
      BY <2>3
    <3>2. j \in 2..(i - 1)
      BY <1>2, <1>5, <3>1
    <3> QED
      BY <1>3, <3>1, <3>2
  <2> QED
    BY <2>2, <2>3 DEF Has
<1>6. CASE f.t = "snapshot"
  <2>1. settled'[c] = welcomed[c] /\ applied'[c] = f.seq
    BY <1>1, <1>6 DEF Receive, FanoutTypes
  <2>2. lo <= f.seq => Has(c, i - 1, lo)'
    <3>1. CASE welcomed[c]
      BY <2>1, <3>1 DEF Has
    <3>2. CASE ~welcomed[c]
      BY <1>4, <1>6, <3>2
    <3> QED
      BY <3>1, <3>2
  <2>3. settled[c] => applied[c] <= f.seq
    BY <1>2, <1>6 DEF FrameFollows
  <2>4. CASE settled[c] /\ lo <= applied[c]
    <3>1. lo <= f.seq
      BY <1>2, <2>3, <2>4 DEF None
    <3> QED
      BY <2>2, <3>1
  <2>5. CASE \E j \in 1..(i - 1) : sock[c][j].t # "welcome" /\ lo <= sock[c][j].seq
    <3>1. PICK j \in 1..(i - 1) : sock[c][j].t # "welcome" /\ lo <= sock[c][j].seq
      BY <2>5
    <3>2. j = 1 \/ j \in 2..(i - 1)
      BY <1>2
    <3> QED
      BY <1>3, <2>2, <3>1, <3>2
  <2> QED
    BY <2>4, <2>5 DEF Has
<1>7. CASE f.t = "delta"
  <2>1. settled'[c] = settled[c]
    BY <1>1, <1>7 DEF Receive
  <2>2. settled[c] => f.seq <= applied'[c] /\ applied[c] <= applied'[c] /\ applied'[c] \in Nat
    <3>1. CASE Stale(c, f)
      <4>1. applied'[c] = applied[c]
        BY <1>1, <1>7, <3>1 DEF Receive
      <4> QED
        BY <1>2, <3>1, <4>1 DEF Stale, ViewerFollows
    <3>2. CASE ~Stale(c, f)
      <4>1. applied'[c] = f.seq
        BY <1>1, <1>7, <3>2 DEF Receive, FanoutTypes
      <4> QED
        BY <1>2, <3>2, <4>1 DEF Stale, None
    <3> QED
      BY <3>1, <3>2
  <2>3. CASE settled[c] /\ lo <= applied[c]
    BY <1>2, <2>1, <2>2, <2>3 DEF Has, ViewerFollows
  <2>4. CASE \E j \in 1..(i - 1) : sock[c][j].t # "welcome" /\ lo <= sock[c][j].seq
    <3>1. PICK j \in 1..(i - 1) : sock[c][j].t # "welcome" /\ lo <= sock[c][j].seq
      BY <2>4
    <3>2. j = 1 \/ j \in 2..(i - 1)
      BY <1>2
    <3>3. CASE j = 1
      <4>1. CASE settled[c]
        <5>1. lo <= applied'[c]
          BY <1>2, <2>2, <3>1, <3>3, <4>1
        <5> QED
          BY <2>1, <4>1, <5>1 DEF Has
      <4>2. CASE ~settled[c]
        <5>1. ~welcomed[c]
          <6>1. conn[c] \in {"down", "dims", "up"}
            BY DEF FanoutTypes
          <6> QED
            BY <1>2, <1>7, <4>2, <6>1 DEF ViewerFollows
        <5> QED
          BY <1>4, <1>7, <3>1, <3>3, <5>1
      <4> QED
        BY <4>1, <4>2
    <3> QED
      BY <1>3, <3>1, <3>2, <3>3
  <2> QED
    BY <2>3, <2>4 DEF Has
<1> QED
  BY <1>2, <1>5, <1>6, <1>7
\* A frame taken leaves the viewer's queue and its board as they should be: a welcome its
\* snapshot, a snapshot the canvas, a delta the canvas further on (net.ts onMessage).
LEMMA ReceiveFollows ==
  ASSUME FanoutTypes, NEW c \in Clients, ViewerFollows(c), Receive(c)
  PROVE  ViewerFollows(c)'
<1> USE DEF redisVars, coalescer, ringVars, gatewayVars, boardVars, clientVars
<1> DEFINE f == sock[c][1]
<1>0. PICK n \in Nat : n = Len(sock[c])
  BY ViewerTypes
<1>1. /\ sock[c] # <<>> /\ f = Head(sock[c]) /\ sock'[c] = Tail(sock[c]) /\ n # 0
      /\ \A j \in 1..(n - 1) : sock'[c][j] = sock[c][j + 1]
      /\ DOMAIN sock[c] = 1..n /\ 1 \in 1..n
      /\ Len(sock'[c]) = n - 1 /\ DOMAIN sock'[c] = 1..(n - 1)
      /\ n # 1 => sock'[c] # <<>>
  <2>1. sock[c] # <<>> /\ sock' = [sock EXCEPT ![c] = Tail(@)]
    BY DEF Receive
  <2>2. sock'[c] = Tail(sock[c])
    BY <2>1 DEF FanoutTypes
  <2>3. sock[c] \in Seq(Frames)
    BY ViewerTypes
  <2>4. /\ Len(sock[c]) \in Nat \ {0} /\ DOMAIN sock[c] = 1..Len(sock[c])
        /\ Head(sock[c]) = sock[c][1]
        /\ \A j \in 1..(Len(sock[c]) - 1) : Tail(sock[c])[j] = sock[c][j + 1]
        /\ Len(Tail(sock[c])) = Len(sock[c]) - 1 /\ DOMAIN Tail(sock[c]) = 1..(Len(sock[c]) - 1)
        /\ Len(sock[c]) # 1 => Tail(sock[c]) # <<>>
    BY <2>1, <2>3, QueueTakes
  <2>5. \A j \in 1..(n - 1) : sock'[c][j] = sock[c][j + 1]
    BY <1>0, <2>2, <2>4
  <2>6. n # 0 /\ DOMAIN sock[c] = 1..n /\ 1 \in 1..n
    BY <1>0, <2>4
  <2>7. Len(sock'[c]) = n - 1 /\ DOMAIN sock'[c] = 1..(n - 1) /\ (n # 1 => sock'[c] # <<>>)
    BY <1>0, <2>2, <2>4
  <2> QED
    BY <2>1, <2>2, <2>4, <2>5, <2>6, <2>7
<1>2. /\ FrameFollows(c, 1) /\ f.seq \in Nat /\ f.writes \in [Cells -> Nat]
      /\ f.t \in {"welcome", "snapshot", "delta"}
      /\ applied[c] \in Nat \cup {None} /\ resync[c] \in Nat \cup {None}
      /\ board[c] \in [Cells -> Nat] /\ conn[c] \in {"dims", "up"}
      /\ \A j \in 1..n : sock[c][j].seq \in Nat
  <2>1. FrameFollows(c, 1) /\ conn[c] # "down"
    BY <1>1 DEF ViewerFollows
  <2>2. conn[c] \in {"down", "dims", "up"}
    BY DEF FanoutTypes
  <2> QED
    BY <1>0, <1>1, <2>1, <2>2, ViewerTypes
<1>3. /\ UNCHANGED <<log, entry, reads, conn, resync>>
      /\ f.t = "welcome" => /\ welcomed'[c] = TRUE
                            /\ UNCHANGED <<board, loaded, applied, settled>>
      /\ f.t = "snapshot" => /\ board'[c] = f.writes /\ loaded'[c] = TRUE /\ applied'[c] = f.seq
                             /\ settled'[c] = welcomed[c] /\ welcomed'[c] = welcomed[c]
      /\ f.t = "delta" =>
           /\ UNCHANGED <<loaded, welcomed, settled>>
           /\ \/ /\ ~Stale(c, f) /\ board'[c] = Paint(board[c], f.writes) /\ applied'[c] = f.seq
              \/ Stale(c, f) /\ UNCHANGED <<board, applied>>
  <2>1. UNCHANGED <<log, entry, reads, conn, resync>>
    BY DEF Receive
  <2>2. CASE f.t = "welcome"
    BY <1>1, <2>1, <2>2 DEF Receive, FanoutTypes
  <2>3. CASE f.t = "snapshot"
    BY <1>1, <2>1, <2>3 DEF Receive, FanoutTypes
  <2>4. CASE f.t = "delta"
    BY <1>1, <2>1, <2>4 DEF Receive, FanoutTypes
  <2> QED
    BY <1>2, <2>2, <2>3, <2>4
\* The board of a settled viewer.
<1>4. settled'[c] => /\ welcomed'[c] /\ loaded'[c] /\ applied'[c] # None
                     /\ Shows(log', board'[c], 0, applied'[c]) /\ resync'[c] <= applied'[c]
  <2> SUFFICES ASSUME settled'[c]
               PROVE  /\ welcomed'[c] /\ loaded'[c] /\ applied'[c] # None
                      /\ Shows(log', board'[c], 0, applied'[c]) /\ resync'[c] <= applied'[c]
    OBVIOUS
  <2>0. settled[c] => /\ welcomed[c] /\ loaded[c] /\ applied[c] # None /\ applied[c] \in Nat
                      /\ Shows(log, board[c], 0, applied[c]) /\ resync[c] <= applied[c]
    BY <1>2 DEF ViewerFollows
  <2>1. CASE f.t = "welcome"
    BY <1>3, <2>0, <2>1
  <2>2. CASE f.t = "snapshot"
    <3>1. f.seq # None /\ Shows(log, f.writes, 0, f.seq) /\ resync[c] <= f.seq
      BY <1>2, <2>2 DEF FrameFollows, None
    <3> QED
      BY <1>3, <2>2, <3>1
  <2>3. CASE f.t = "delta" /\ ~Stale(c, f)
    <3>1. settled[c] /\ applied[c] < f.seq
      BY <1>2, <1>3, <2>0, <2>3 DEF Stale
    <3>2. Greeted(c, 1)
      BY <1>2, <2>0, <3>1 DEF Greeted
    <3>3. PICK lo \in 0..f.seq : Shows(log, f.writes, lo, f.seq) /\ Has(c, 1, lo)
      BY <2>3, <1>2, <3>2 DEF FrameFollows
    <3>4. lo <= applied[c] /\ lo \in Nat
      BY <1>2, <3>3 DEF Has
    <3>5. Shows(log, Paint(board[c], f.writes), 0, f.seq)
      BY <1>2, <2>0, <3>1, <3>3, <3>4, PaintCatchesUp
    <3>6. resync[c] <= f.seq
      BY <1>2, <2>0, <3>1 DEF None
    <3> QED
      BY <1>2, <1>3, <2>0, <2>3, <3>1, <3>5, <3>6 DEF None, Stale
  <2>4. CASE f.t = "delta" /\ Stale(c, f)
    BY <1>3, <2>0, <2>4
  <2> QED
    BY <1>2, <2>1, <2>2, <2>3, <2>4
\* The frames still queued.
<1>5. ASSUME NEW k \in 2..n
      PROVE  FrameFollows(c, k - 1)'
  <2> DEFINE g == sock[c][k]
  <2>1. /\ k - 1 \in 1..(n - 1) /\ sock'[c][k - 1] = g /\ FrameFollows(c, k) /\ k \in Nat
        /\ 1 \in 1..(k - 1) /\ k \in 1..n /\ g.seq \in Nat
    <3>1. k - 1 \in 1..(n - 1) /\ (k - 1) + 1 = k /\ k \in 1..n /\ 1 \in 1..(k - 1)
      BY <1>0
    <3> QED
      BY <1>1, <1>2, <3>1 DEF ViewerFollows
  <2>2. \A j \in 1..((k - 1) - 1) : sock'[c][j] = sock[c][j + 1] /\ j + 1 \in 1..(k - 1)
    BY <1>1, <2>1
  <2>3. g.t = "welcome" =>
           conn'[c] = "up" /\ k - 1 < Len(sock'[c]) /\ sock'[c][(k - 1) + 1].t = "snapshot"
    <3> SUFFICES ASSUME g.t = "welcome"
                 PROVE  conn'[c] = "up" /\ k - 1 < Len(sock'[c])
                        /\ sock'[c][(k - 1) + 1].t = "snapshot"
      OBVIOUS
    <3>1. conn[c] = "up" /\ k < n /\ sock[c][k + 1].t = "snapshot"
      BY <1>0, <2>1 DEF FrameFollows
    <3>2. (k - 1) + 1 = k /\ k \in 1..(n - 1)
      BY <1>0, <3>1
    <3> QED
      BY <1>1, <1>3, <3>1, <3>2
  <2>4. g.t = "snapshot" =>
           /\ Shows(log', g.writes, 0, g.seq)
           /\ settled'[c] => applied'[c] <= g.seq
           /\ resync'[c] <= g.seq
           /\ \A j \in 1..((k - 1) - 1) : sock'[c][j].seq <= g.seq
    <3> SUFFICES ASSUME g.t = "snapshot"
                 PROVE  /\ Shows(log', g.writes, 0, g.seq)
                        /\ settled'[c] => applied'[c] <= g.seq
                        /\ resync'[c] <= g.seq
                        /\ \A j \in 1..((k - 1) - 1) : sock'[c][j].seq <= g.seq
      OBVIOUS
    <3>1. /\ Shows(log, g.writes, 0, g.seq)
          /\ settled[c] => applied[c] <= g.seq
          /\ resync[c] <= g.seq
          /\ \A j \in 1..(k - 1) : sock[c][j].seq <= g.seq
      BY <2>1 DEF FrameFollows
    <3>2. f.seq <= g.seq
      BY <2>1, <3>1
    <3>3. settled'[c] => applied'[c] <= g.seq
      BY <1>2, <1>3, <3>1, <3>2
    <3> QED
      BY <1>3, <2>2, <3>1, <3>3
  <2>5. g.t = "delta" /\ Greeted(c, k - 1)' =>
           \E lo \in 0..g.seq : Shows(log', g.writes, lo, g.seq) /\ Has(c, k - 1, lo)'
    <3> SUFFICES ASSUME g.t = "delta", Greeted(c, k - 1)'
                 PROVE  \E lo \in 0..g.seq : Shows(log', g.writes, lo, g.seq) /\ Has(c, k - 1, lo)'
      OBVIOUS
    <3>1. Greeted(c, k)
      <4>1. CASE \E m \in 1..((k - 1) - 1) : sock'[c][m].t = "welcome"
        <5>1. PICK m \in 1..((k - 1) - 1) : sock'[c][m].t = "welcome"
          BY <4>1
        <5>2. m + 1 \in 1..(k - 1) /\ sock[c][m + 1].t = "welcome"
          BY <2>2, <5>1
        <5> QED
          BY <1>2, <5>2 DEF Greeted
      <4>2. CASE welcomed'[c]
        <5>1. welcomed[c] \/ f.t = "welcome"
          BY <1>2, <1>3, <4>2
        <5> QED
          BY <1>2, <2>1, <5>1 DEF Greeted
      <4> QED
        BY <4>1, <4>2 DEF Greeted
    <3>2. PICK lo \in 0..g.seq : Shows(log, g.writes, lo, g.seq) /\ Has(c, k, lo)
      BY <2>1, <3>1 DEF FrameFollows
    <3>3. Has(c, k - 1, lo)'
      <4>1. k \in 2..(Len(sock[c]) + 1) /\ lo \in Nat
        BY <1>0, <2>1
      <4> QED
        BY <3>1, <3>2, <4>1, HasSurvives
    <3> QED
      BY <1>3, <3>2, <3>3
  <2> QED
    BY <2>1, <2>3, <2>4, <2>5 DEF FrameFollows
<1>6. \A i \in DOMAIN sock'[c] : FrameFollows(c, i)'
  <2> TAKE i \in DOMAIN sock'[c]
  <2>1. PICK k \in 2..n : k = i + 1 /\ i \in Nat
    BY <1>0, <1>1
  <2>2. k - 1 = i
    BY <2>1
  <2>3. FrameFollows(c, k - 1)'
    BY <1>5
  <2> QED
    BY <2>2, <2>3
<1>7. welcomed'[c] => conn'[c] # "dims"
  BY <1>2, <1>3 DEF ViewerFollows, FrameFollows
<1>8. welcomed'[c] /\ ~settled'[c] /\ conn'[c] = "up" =>
        sock'[c] # <<>> /\ sock'[c][1].t = "snapshot"
  <2> SUFFICES ASSUME welcomed'[c], ~settled'[c], conn'[c] = "up"
               PROVE  sock'[c] # <<>> /\ sock'[c][1].t = "snapshot"
    OBVIOUS
  <2>1. CASE f.t = "welcome"
    <3>1. 1 < n /\ sock[c][1 + 1].t = "snapshot"
      BY <1>0, <1>2, <2>1 DEF FrameFollows
    <3>2. n # 1 /\ 1 \in 1..(n - 1)
      BY <1>0, <3>1
    <3> QED
      BY <1>1, <3>1, <3>2
  <2>2. CASE f.t = "snapshot"
    BY <1>3, <2>2
  <2>3. CASE f.t = "delta"
    BY <1>3, <2>3 DEF ViewerFollows
  <2> QED
    BY <1>2, <2>1, <2>2, <2>3
<1> QED
  BY <1>1, <1>2, <1>3, <1>4, <1>6, <1>7, <1>8 DEF ViewerFollows
\* A replay is of every write since the seq the viewer gave (SeqRingBuffer.since).
LEMMA ReplayFollows ==
  ASSUME FanoutTypes, InOrder, Unbroken, RingFollows, NEW s \in Versions,
         ~CaughtUp(s), Reachable(s)
  PROVE  /\ Replay(Missed(s)) \in Frames /\ Replay(Missed(s)).t = "delta"
         /\ Replay(Missed(s)).seq = Told /\ s < Told
         /\ Shows(log, Replay(Missed(s)).writes, s, Told)
<1>1. /\ Replay(Missed(s)) \in Frames /\ Missed(s) \subseteq Versions \ {0}
      /\ Latest(Missed(s)) \in Missed(s) /\ \A v \in Missed(s) : v <= Latest(Missed(s))
  BY ReplayIsFrame
<1>2. PICK n \in Nat : n = Len(ring)
  BY DEF FanoutTypes
<1>3. /\ ring \in Seq(Versions \ {0}) /\ ring # <<>> /\ s \in Nat /\ Told \in Nat
      /\ DOMAIN ring = 1..n /\ n # 0
  BY <1>2, EmptySeq DEF FanoutTypes, Reachable, Versions, Unbroken
<1>4. /\ \A i \in 1..n : ring[i] = Told - n + i
      /\ n <= Told /\ newest = ring[n]
  BY <1>2, <1>3 DEF RingFollows, InOrder
<1>5. newest = Told /\ ring[1] = Told - n + 1 /\ s < Told /\ Told - n + 1 <= s + 1
  <2>1. n \in 1..n /\ 1 \in 1..n
    BY <1>2, <1>3
  <2>2. newest = Told /\ ring[1] = Told - n + 1
    BY <1>2, <1>3, <1>4, <2>1
  <2> QED
    BY <1>3, <2>2 DEF CaughtUp, Reachable
<1>6. Missed(s) = (s + 1)..Told
  <2>1. ASSUME NEW v \in (s + 1)..Told
        PROVE  v \in Missed(s)
    <3>1. PICK i \in 1..n : v = Told - n + i
      <4>1. v - (Told - n) \in 1..n /\ v = Told - n + (v - (Told - n))
        BY <1>2, <1>3, <1>5
      <4> QED
        BY <4>1
    <3>2. v = ring[i] /\ i \in DOMAIN ring
      BY <1>3, <1>4, <3>1
    <3> QED
      BY <1>3, <3>2 DEF Missed
  <2>2. ASSUME NEW v \in Missed(s)
        PROVE  v \in (s + 1)..Told
    <3>1. PICK i \in 1..n : v = ring[i]
      BY <1>3 DEF Missed
    <3>2. v = Told - n + i /\ v > s
      BY <1>4, <3>1 DEF Missed
    <3> QED
      BY <1>2, <1>3, <3>1, <3>2
  <2> QED
    BY <2>1, <2>2
<1>7. Latest(Missed(s)) = Told
  <2>1. Told \in Missed(s)
    BY <1>3, <1>5, <1>6
  <2>2. Latest(Missed(s)) \in (s + 1)..Told
    BY <1>1, <1>6
  <2>3. Told <= Latest(Missed(s))
    BY <1>1, <2>1
  <2> QED
    BY <1>3, <2>2, <2>3
<1>8. Replay(Missed(s)).writes = LastWrites(log, s, Told)
  BY <1>6 DEF Replay, LastWrites
<1>9. Shows(log, LastWrites(log, s, Told), s, Told)
  BY <1>3, LatestShows
<1> QED
  BY <1>1, <1>5, <1>7, <1>8, <1>9 DEF Replay

\* A viewer the gateway greeted has all it had received when it asked for what it missed.
LEMMA AskedIsHad ==
  ASSUME FanoutTypes, NEW c \in Clients, ViewerFollows(c), resync[c] # None,
         Greeted(c, Len(sock[c]) + 1)
  PROVE  Has(c, Len(sock[c]) + 1, resync[c])
<1>0. PICK n \in Nat : n = Len(sock[c])
  BY ViewerTypes
<1>1. /\ DOMAIN sock[c] = 1..n /\ resync[c] \in Nat /\ (sock[c] # <<>> => 1 \in 1..n)
      /\ (n + 1) - 1 = n
  BY <1>0, ViewerTypes, EmptySeq
<1>2. CASE settled[c]
  BY <1>2 DEF Has, ViewerFollows
<1>3. ASSUME NEW k \in 1..n, sock[c][k].t = "snapshot"
      PROVE  Has(c, n + 1, resync[c])
  <2>1. resync[c] <= sock[c][k].seq
    BY <1>1, <1>3 DEF ViewerFollows, FrameFollows
  <2>2. k \in 1..((n + 1) - 1)
    BY <1>1
  <2> QED
    BY <1>3, <2>1, <2>2 DEF Has
<1>4. CASE ~settled[c] /\ welcomed[c]
  <2>1. conn[c] = "up"
    <3>1. conn[c] \in {"down", "dims", "up"}
      BY DEF FanoutTypes
    <3> QED
      BY <1>4, <3>1 DEF Greeted, ViewerFollows
  <2>2. 1 \in 1..n /\ sock[c][1].t = "snapshot"
    BY <1>1, <1>4, <2>1 DEF ViewerFollows
  <2> QED
    BY <1>0, <1>3, <2>2
<1>5. CASE ~welcomed[c]
  <2>1. PICK m \in 1..n : sock[c][m].t = "welcome"
    BY <1>0, <1>1, <1>5 DEF Greeted
  <2>2. m < Len(sock[c]) /\ sock[c][m + 1].t = "snapshot"
    BY <1>1, <2>1 DEF ViewerFollows, FrameFollows
  <2>3. m + 1 \in 1..n
    BY <1>0, <2>2
  <2> QED
    BY <1>0, <1>3, <2>2, <2>3
<1> QED
  BY <1>2, <1>4, <1>5

\* The replies to a resync: nothing, every missed write, or a snapshot to come.
LEMMA ResyncFollows ==
  ASSUME FanoutTypes, InOrder, Unbroken, RingFollows, NEW c \in Clients, ViewerFollows(c),
         HandleResync(c)
  PROVE  ViewerFollows(c)'
<1> USE DEF redisVars, coalescer, ringVars, gatewayVars, boardVars, clientVars
<1> DEFINE s == resync[c]
<1>1. /\ conn[c] # "down" /\ s # None /\ resync'[c] = None
      /\ UNCHANGED <<log, entry, conn, board, loaded, applied, welcomed, settled>>
      /\ s \in Versions /\ s \in Nat
  <2>1. conn[c] # "down" /\ s # None /\ resync' = [resync EXCEPT ![c] = None]
    BY DEF HandleResync
  <2>2. UNCHANGED <<log, entry, conn, board, loaded, applied, welcomed, settled>>
    BY DEF HandleResync
  <2>3. s \in Versions /\ Len(log) \in Nat
    BY <2>1 DEF FanoutTypes
  <2> QED
    BY <2>1, <2>2, <2>3 DEF FanoutTypes, Versions
<1>2. conn[c] = "up" => entry
  BY DEF ViewerFollows
<1>3. \A i \in DOMAIN reads[c] : reads[c][i].initial => conn[c] = "up"
  BY DEF ViewerFollows
<1>4. CASE CaughtUp(s) /\ UNCHANGED <<sock, reads>>
  BY <1>1, <1>2, <1>3, <1>4, ViewerKeeps
<1>5. CASE /\ ~CaughtUp(s) /\ Reachable(s) /\ UNCHANGED reads
           /\ sock' = [sock EXCEPT ![c] = Append(@, Replay(Missed(s)))]
  <2> DEFINE f == Replay(Missed(s))
  <2>1. f \in Frames /\ f.t = "delta" /\ f.seq = Told /\ s < Told /\ Shows(log, f.writes, s, Told)
    BY <1>1, <1>5, ReplayFollows
  <2>2. sock'[c] = Append(sock[c], f)
    BY <1>5 DEF FanoutTypes
  <2> HIDE DEF f
  <2>3. s \in 0..f.seq
    BY <1>1, <2>1 DEF Unbroken
  <2>4. Shows(log, f.writes, s, f.seq)
    BY <2>1
  <2>5. Greeted(c, Len(sock[c]) + 1) => Has(c, Len(sock[c]) + 1, s)
    BY <1>1, AskedIsHad
  <2>6. /\ log' = log /\ conn'[c] = conn[c] /\ welcomed'[c] = welcomed[c]
        /\ settled'[c] = settled[c] /\ applied'[c] = applied[c] /\ board'[c] = board[c]
        /\ loaded'[c] = loaded[c] /\ reads'[c] = reads[c] /\ entry' = entry
        /\ resync'[c] \in {resync[c], None}
    BY <1>1, <1>5
  <2> HIDE DEF s
  <2> QED
    BY <1>1, <2>1, <2>2, <2>3, <2>4, <2>5, <2>6, DeltaSent
<1>6. CASE UNCHANGED sock /\ reads' = [reads EXCEPT ![c] = Append(@, Asked(FALSE))]
  <2>1. reads'[c] = Append(reads[c], Asked(FALSE)) /\ reads[c] \in Seq(Reads)
    BY <1>6 DEF FanoutTypes
  <2>2. Asked(FALSE) \in Reads /\ Asked(FALSE).initial = FALSE
    BY DEF Asked, Reads
  <2>3. PICK n \in Nat : n = Len(reads[c])
    BY <2>1
  <2>4. /\ DOMAIN reads'[c] = 1..(n + 1) /\ DOMAIN reads[c] = 1..n
        /\ \A i \in 1..n : reads'[c][i] = reads[c][i]
        /\ reads'[c][n + 1] = Asked(FALSE)
    <3>1. PICK a \in Reads : a = Asked(FALSE)
      BY <2>2
    <3>2. /\ DOMAIN Append(reads[c], a) = 1..(n + 1) /\ DOMAIN reads[c] = 1..n
          /\ \A i \in 1..n : Append(reads[c], a)[i] = reads[c][i]
          /\ Append(reads[c], a)[n + 1] = a
      BY <2>1, <2>3, QueueGets
    <3> QED
      BY <2>1, <3>1, <3>2
  <2>5. \A i \in DOMAIN reads'[c] : reads'[c][i].initial => conn[c] = "up"
    <3> TAKE i \in DOMAIN reads'[c]
    <3>1. CASE i \in 1..n
      BY <1>3, <2>4, <3>1
    <3>2. CASE i = n + 1
      BY <2>2, <2>4, <3>2
    <3> QED
      BY <2>4, <3>1, <3>2
  <2> QED
    BY <1>1, <1>2, <1>6, <2>5, ViewerKeeps
<1> QED
  BY <1>1, <1>4, <1>5, <1>6 DEF HandleResync
\* A batch that is not empty goes up to what the gateway was told.
LEMMA BatchIsTold ==
  ASSUME FanoutTypes, Unbroken, BatchFollows, pending # Empty
  PROVE  maxSeq = Told
<1>1. PICK b \in 0..Told : Shows(log, pending, b, Told) /\ (b < Told => maxSeq = Told)
  BY DEF BatchFollows
<1>2. Told \in Nat /\ b \in Nat /\ pending \in [Cells -> Nat]
  <2>1. Len(log) \in Nat /\ pending \in [Cells -> Versions]
    BY DEF FanoutTypes
  <2> QED
    BY <1>1, <2>1 DEF Unbroken, Versions
<1>3. CASE b = Told
  BY <1>1, <1>2, <1>3, EmptyRun
<1> QED
  BY <1>1, <1>2, <1>3

\* No step of a disciplined run leads a viewer astray.
LEMMA ViewerStep ==
  ASSUME FanoutTypes, InOrder, Disciplined, calm, [FanoutNext]_fanoutVars,
         NEW c \in Clients
  PROVE  ViewerFollows(c)'
<1> USE DEF redisVars, coalescer, ringVars, gatewayVars, boardVars, clientVars, fanoutVars
<1>1. ViewerFollows(c) /\ Unbroken /\ RingFollows /\ ReadsCurrent /\ BatchFollows
  BY DEF Disciplined
<1>2. /\ conn[c] = "up" => entry
      /\ conn[c] = "down" => sock[c] = <<>> /\ reads[c] = <<>> /\ ~settled[c]
      /\ \A i \in DOMAIN reads[c] : reads[c][i].initial => conn[c] = "up"
      /\ welcomed[c] => conn[c] # "dims"
      /\ settled[c] => welcomed[c]
      /\ conn[c] \in {"down", "dims", "up"}
  BY <1>1 DEF ViewerFollows, FanoutTypes
\* A step of another viewer, of Redis or of the gateway that leaves this one alone.
<1>3. ASSUME log' = log \/ \E x \in Cells : log' = Append(log, x),
             conn'[c] = conn[c], welcomed'[c] = welcomed[c], settled'[c] = settled[c],
             applied'[c] = applied[c], resync'[c] = resync[c], sock'[c] = sock[c],
             board'[c] = board[c], loaded'[c] = loaded[c], reads'[c] = reads[c],
             conn[c] = "up" => entry'
      PROVE  ViewerFollows(c)'
  BY <1>1, <1>2, <1>3, ViewerKeeps
<1>4. ASSUME NEW x \in Cells, Publish(x)
      PROVE  ViewerFollows(c)'
  BY <1>2, <1>3, <1>4 DEF Publish
<1>5. CASE ExecuteSub
  BY <1>2, <1>3, <1>5 DEF ExecuteSub
<1>6. ASSUME NEW d \in Clients, ExecuteRead(d)
      PROVE  ViewerFollows(c)'
  <2>1. PICK i \in DOMAIN reads[d] : reads' = [reads EXCEPT ![d][i].at = Len(log)]
    BY <1>6 DEF ExecuteRead
  <2>2. UNCHANGED <<log, conn, welcomed, settled, applied, resync, sock, board, loaded, entry>>
    BY <1>6 DEF ExecuteRead
  <2>3. CASE d # c
    <3>1. reads'[c] = reads[c]
      BY <2>1, <2>3 DEF FanoutTypes
    <3> QED
      BY <1>2, <1>3, <2>2, <3>1
  <2>4. CASE d = c
    <3>1. reads'[c] = [reads[c] EXCEPT ![i].at = Len(log)]
      BY <2>1, <2>4 DEF FanoutTypes
    <3>2. reads[c] \in Seq(Reads) /\ DOMAIN reads[c] = 1..Len(reads[c])
      BY DEF FanoutTypes
    <3>3. DOMAIN reads'[c] = DOMAIN reads[c]
      BY <3>1, <3>2
    <3>4. \A k \in DOMAIN reads[c] : reads'[c][k].initial = reads[c][k].initial
      <4> TAKE k \in DOMAIN reads[c]
      <4>1. reads[c][k] \in Reads
        BY <3>2
      <4>2. reads'[c][k] = IF k = i THEN [reads[c][k] EXCEPT !.at = Len(log)] ELSE reads[c][k]
        BY <2>4, <3>1
      <4> QED
        BY <4>1, <4>2 DEF Reads
    <3>5. conn[c] = "down" => reads'[c] = <<>>
      <4>1. conn[c] = "down" => reads[c] = <<>>
        BY <1>2
      <4>2. reads[c] # <<>>
        BY <2>1, <2>4, <3>2, EmptySeq
      <4> QED
        BY <4>1, <4>2
    <3> QED
      BY <1>1, <1>2, <2>2, <3>3, <3>4, <3>5, ViewerKeeps
  <2> QED
    BY <2>3, <2>4
<1>7. ASSUME NEW d \in Clients, Connect(d)
      PROVE  ViewerFollows(c)'
  <2>1. /\ UNCHANGED <<log, sock, board, loaded, applied>>
        /\ entry => entry'
    <3>1. UNCHANGED <<log, sock, board, loaded, applied>>
      BY <1>7 DEF Connect
    <3>2. entry => entry' = entry
      BY <1>7 DEF Connect
    <3> QED
      BY <3>1, <3>2
  <2>2. CASE d # c
    <3>1. conn'[c] = conn[c] /\ reads'[c] = reads[c]
      BY <1>7, <2>2 DEF Connect, FanoutTypes
    <3>2. welcomed'[c] = welcomed[c] /\ settled'[c] = settled[c] /\ resync'[c] = resync[c]
      BY <1>7, <2>2 DEF Connect, FanoutTypes
    <3> QED
      BY <1>2, <1>3, <2>1, <3>1, <3>2
  <2>3. CASE d = c
    <3>1. conn[c] = "down" /\ ~welcomed'[c] /\ ~settled'[c]
      BY <1>7, <2>3 DEF Connect, FanoutTypes
    <3>2. sock'[c] = <<>> /\ DOMAIN sock'[c] = {}
      BY <1>2, <2>1, <3>1, EmptySeq
    <3>3. \/ conn'[c] = "up" /\ entry' /\ reads'[c] = <<Asked(TRUE)>>
          \/ conn'[c] = "dims" /\ reads'[c] = <<>>
      <4>1. \/ /\ entry' /\ conn' = [conn EXCEPT ![c] = "up"]
               /\ reads' = [reads EXCEPT ![c] = <<Asked(TRUE)>>]
            \/ conn' = [conn EXCEPT ![c] = "dims"] /\ reads' = reads
        <5>1. Connect(c)
          BY <1>7, <2>3
        <5>2. \/ /\ entry /\ entry' = entry /\ conn' = [conn EXCEPT ![c] = "up"]
                 /\ reads' = [reads EXCEPT ![c] = <<Asked(TRUE)>>]
              \/ /\ OpenState /\ conn' = [conn EXCEPT ![c] = "up"]
                 /\ reads' = [reads EXCEPT ![c] = <<Asked(TRUE)>>]
              \/ conn' = [conn EXCEPT ![c] = "dims"] /\ reads' = reads
          BY <5>1, Zenon DEF Connect
        <5>3. OpenState => entry'
          BY DEF OpenState
        <5>4. entry /\ entry' = entry => entry'
          OBVIOUS
        <5> QED
          BY <5>2, <5>3, <5>4, Zenon
      <4>2. reads[c] = <<>>
        BY <1>2, <3>1
      <4> QED
        BY <4>1, <4>2 DEF FanoutTypes
    <3>4. \A i \in DOMAIN reads'[c] : reads'[c][i].initial => conn'[c] = "up"
      <4>1. CASE conn'[c] = "up"
        BY <4>1
      <4>2. CASE reads'[c] = <<>>
        <5>1. DOMAIN reads'[c] = {}
          BY <4>2, EmptySeq
        <5> QED
          BY <5>1
      <4> QED
        BY <3>3, <4>1, <4>2
    <3> QED
      BY <3>1, <3>2, <3>3, <3>4 DEF ViewerFollows
  <2> QED
    BY <2>2, <2>3
<1>8. CASE DimsResolved
  <2>1. /\ UNCHANGED <<log, sock, resync, board, loaded, applied, welcomed, settled>>
        /\ entry' /\ reads' = Resumed
        /\ conn' = [e \in Clients |-> IF e \in Waiting THEN "up" ELSE conn[e]]
    BY <1>8 DEF DimsResolved, OpenState, FanoutTypes
  <2>2. CASE c \notin Waiting
    <3>1. reads'[c] = reads[c] /\ conn'[c] = conn[c]
      BY <2>1, <2>2 DEF Resumed
    <3> QED
      BY <1>3, <2>1, <3>1
  <2>3. CASE c \in Waiting
    <3>1. conn[c] = "dims" /\ conn'[c] = "up" /\ ~welcomed[c] /\ ~settled[c]
      BY <1>2, <2>1, <2>3 DEF Waiting
    <3>2. PICK n \in Nat : n = Len(sock[c])
      BY ViewerTypes
    <3>3. DOMAIN sock[c] = 1..n
      BY <3>2, ViewerTypes
    <3>4. \A i \in 1..n : sock[c][i].t # "welcome"
      BY <1>1, <3>1, <3>3 DEF ViewerFollows, FrameFollows
    <3>5. ASSUME NEW i \in 1..n
          PROVE  FrameFollows(c, i)'
      <4>1. ~Greeted(c, i)'
        <5>1. \A m \in 1..(i - 1) : m \in 1..n
          BY <3>2
        <5> QED
          BY <2>1, <3>1, <3>4, <5>1 DEF Greeted
      <4>2. FrameFollows(c, i) /\ sock'[c][i].t # "welcome"
        BY <1>1, <2>1, <3>3, <3>4 DEF ViewerFollows
      <4> QED
        BY <2>1, <4>1, <4>2 DEF FrameFollows
    <3> QED
      BY <2>1, <3>1, <3>3, <3>5 DEF ViewerFollows
  <2> QED
    BY <2>2, <2>3
<1>9. CASE Deliver
  BY <1>2, <1>3, <1>9 DEF Deliver
<1>10. CASE Flush
  <2>1. UNCHANGED <<log, entry, reads, conn, resync, board, loaded, applied, welcomed, settled>>
    BY <1>10 DEF Flush
  <2>2. CASE c \notin Connected
    <3>1. sock'[c] = sock[c]
      BY <1>10, <2>2 DEF Flush
    <3> QED
      BY <1>2, <1>3, <2>1, <3>1
  <2>3. CASE c \in Connected
    <3>1. sock'[c] = Append(sock[c], Batch) /\ conn[c] # "down"
      BY <1>10, <2>3 DEF Flush, Connected
    <3>2. PICK b \in 0..Told :
            /\ Shows(log, pending, b, Told)
            /\ b < Told => maxSeq = Told
            /\ \A e \in Clients : GreetedNow(e) => HasNow(e, b)
      BY <1>1 DEF BatchFollows
    <3>3. Told \in Nat /\ b \in Nat /\ pending \in [Cells -> Nat]
      <4>1. Len(log) \in Nat /\ pending \in [Cells -> Versions]
        BY DEF FanoutTypes
      <4> QED
        BY <1>1, <3>2, <4>1 DEF Unbroken, Versions
    <3>4. maxSeq = Told
      BY <1>1, <1>10, BatchIsTold DEF Flush
    <3>5. Batch \in Frames /\ Batch.t = "delta" /\ Batch.seq = Told /\ Batch.writes = pending
      BY <3>4 DEF Batch, Frames, FanoutTypes
    <3>6. PICK f \in Frames : f = Batch
      BY <3>5
    <3>7. b \in 0..f.seq /\ Shows(log, f.writes, b, f.seq) /\ f.t = "delta"
      BY <3>2, <3>5, <3>6
    <3>8. Greeted(c, Len(sock[c]) + 1) => Has(c, Len(sock[c]) + 1, b)
      BY <3>2 DEF GreetedNow, HasNow
    <3> QED
      BY <1>1, <2>1, <3>1, <3>6, <3>7, <3>8, DeltaSent
  <2> QED
    BY <2>2, <2>3
<1>11. ASSUME NEW d \in Clients, SendSnapshot(d)
       PROVE  ViewerFollows(c)'
  <2>1. CASE d = c
    BY <1>1, <1>11, <2>1, SnapshotSent
  <2>2. CASE d # c
    <3>1. sock'[c] = sock[c] /\ reads'[c] = reads[c]
      BY <1>11, <2>2 DEF SendSnapshot, FanoutTypes
    <3> QED
      BY <1>2, <1>3, <1>11, <3>1 DEF SendSnapshot
  <2> QED
    BY <2>1, <2>2
<1>12. ASSUME NEW d \in Clients, HandleResync(d)
       PROVE  ViewerFollows(c)'
  <2>1. CASE d = c
    BY <1>1, <1>12, <2>1, ResyncFollows
  <2>2. CASE d # c
    <3>1. sock'[c] = sock[c] /\ reads'[c] = reads[c] /\ resync'[c] = resync[c]
      BY <1>12, <2>2 DEF HandleResync, FanoutTypes
    <3>2. UNCHANGED <<log, entry, conn, board, loaded, applied, welcomed, settled>>
      BY <1>12 DEF HandleResync
    <3> QED
      BY <1>2, <1>3, <3>1, <3>2
  <2> QED
    BY <2>1, <2>2
<1>13. CASE Reap
  <2>1. /\ UNCHANGED <<log, sock, reads, conn, resync, board, loaded, applied, welcomed, settled>>
        /\ conn[c] = "up" => entry'
    BY <1>2, <1>13 DEF Reap, LastGone, Connected
  <2> QED
    BY <1>3, <2>1
<1>14. ASSUME NEW d \in Clients, Receive(d)
       PROVE  ViewerFollows(c)'
  <2>1. CASE d = c
    BY <1>1, <1>14, <2>1, ReceiveFollows
  <2>2. CASE d # c
    <3>1. sock'[c] = sock[c] /\ UNCHANGED <<log, entry, reads, conn, resync>>
      BY <1>14, <2>2 DEF Receive, FanoutTypes
    <3>2. /\ board'[c] = board[c] /\ loaded'[c] = loaded[c] /\ applied'[c] = applied[c]
          /\ welcomed'[c] = welcomed[c] /\ settled'[c] = settled[c]
      <4>1. CASE Head(sock[d]).t = "welcome"
        BY <1>14, <2>2, <4>1 DEF Receive, FanoutTypes
      <4>2. CASE Head(sock[d]).t = "snapshot"
        BY <1>14, <2>2, <4>2 DEF Receive, FanoutTypes
      <4>3. CASE Head(sock[d]).t = "delta"
        BY <1>14, <2>2, <4>3 DEF Receive, FanoutTypes
      <4> QED
        BY <1>14, <4>1, <4>2, <4>3 DEF Receive
    <3> QED
      BY <1>2, <1>3, <3>1, <3>2
  <2> QED
    BY <2>1, <2>2
<1>15. ASSUME NEW d \in Clients, Drop(d)
       PROVE  ViewerFollows(c)'
  <2>1. CASE d = c
    <3>1. conn'[c] = "down" /\ sock'[c] = <<>> /\ reads'[c] = <<>> /\ ~settled'[c]
      BY <1>15, <2>1 DEF Drop, FanoutTypes
    <3> QED
      BY <3>1, EmptySeq DEF ViewerFollows
  <2>2. CASE d # c
    <3>1. /\ conn'[c] = conn[c] /\ sock'[c] = sock[c] /\ reads'[c] = reads[c]
          /\ resync'[c] = resync[c] /\ settled'[c] = settled[c]
      BY <1>15, <2>2 DEF Drop, FanoutTypes
    <3> QED
      BY <1>2, <1>3, <1>15, <3>1 DEF Drop
  <2> QED
    BY <2>1, <2>2
<1>16. CASE Outage \/ SubscribeRefused \/ Ready
  BY <1>1, <1>16 DEF Outage, SubscribeRefused, Ready, Unbroken
<1>17. CASE Restart
  <2>1. conn'[c] = "down" /\ sock'[c] = <<>> /\ reads'[c] = <<>> /\ ~settled'[c]
    BY <1>17 DEF Restart
  <2> QED
    BY <2>1, EmptySeq DEF ViewerFollows
<1>18. CASE UNCHANGED fanoutVars
  BY <1>2, <1>3, <1>18
<1> QED
  BY <1>4, <1>5, <1>6, <1>7, <1>8, <1>9, <1>10, <1>11, <1>12, <1>13, <1>14, <1>15, <1>16,
     <1>17, <1>18 DEF FanoutNext, Gateway, Viewers, Failures
\* A greeted viewer is on a canvas the gateway keeps state for.
LEMMA GreetedIsUp ==
  ASSUME FanoutTypes, NEW c \in Clients, ViewerFollows(c), GreetedNow(c)
  PROVE  conn[c] = "up" /\ entry
<1>0. PICK n \in Nat : n = Len(sock[c])
  BY ViewerTypes
<1>1. DOMAIN sock[c] = 1..n /\ (n + 1) - 1 = n /\ conn[c] \in {"down", "dims", "up"}
  BY <1>0, ViewerTypes DEF FanoutTypes
<1>2. conn[c] # "down" /\ (welcomed[c] \/ \E m \in 1..n : sock[c][m].t = "welcome")
  BY <1>0, <1>1 DEF GreetedNow, Greeted
<1>3. CASE welcomed[c]
  BY <1>1, <1>2, <1>3 DEF ViewerFollows
<1>4. CASE \E m \in 1..n : sock[c][m].t = "welcome"
  BY <1>1, <1>4 DEF ViewerFollows, FrameFollows
<1> QED
  BY <1>2, <1>3, <1>4

\* A viewer a step leaves alone has what it had.
LEMMA HadIsHas ==
  ASSUME NEW c \in Clients, conn'[c] # "down" => conn[c] # "down",
         welcomed'[c] = welcomed[c], settled'[c] = settled[c], applied'[c] = applied[c],
         sock'[c] = sock[c]
  PROVE  /\ GreetedNow(c)' => GreetedNow(c)
         /\ \A b : HasNow(c, b) => HasNow(c, b)'
BY DEF GreetedNow, HasNow, Greeted, Has

\* The coalescer untouched, and no viewer worse off: the batch is as it was.
LEMMA BatchStays ==
  ASSUME FanoutTypes, Unbroken, BatchFollows, Told' = Told,
         log' = log \/ \E x \in Cells : log' = Append(log, x),
         pending' = pending, maxSeq' = maxSeq,
         \A c \in Clients : \A b \in 0..Told :
           (GreetedNow(c) => HasNow(c, b)) => (GreetedNow(c)' => HasNow(c, b)')
  PROVE  BatchFollows'
<1>1. PICK b \in 0..Told :
        /\ Shows(log, pending, b, Told)
        /\ b < Told => maxSeq = Told
        /\ \A c \in Clients : GreetedNow(c) => HasNow(c, b)
  BY DEF BatchFollows
<1>2. /\ Told \in Nat /\ Told <= Len(log) /\ b \in Nat /\ pending \in [Cells -> Nat]
      /\ log \in Seq(Cells)
  <2>1. Len(log) \in Nat /\ pending \in [Cells -> Versions] /\ Len(fromRedis) \in Nat
    BY DEF FanoutTypes
  <2>2. Told \in Nat /\ Told <= Len(log)
    BY <2>1 DEF Unbroken, Told
  <2> QED
    BY <1>1, <2>1, <2>2 DEF Versions, FanoutTypes
<1>3. Shows(log', pending, b, Told)
  BY <1>1, <1>2, ShowsStill
<1>4. \A c \in Clients : GreetedNow(c)' => HasNow(c, b)'
  BY <1>1
<1> HIDE DEF Told
<1> QED
  BY <1>1, <1>3, <1>4 DEF BatchFollows

\* A fresh coalescer, and no viewer greeted yet.
LEMMA BatchStarts ==
  ASSUME Told' \in Nat, pending' = Empty, \A c \in Clients : ~GreetedNow(c)'
  PROVE  BatchFollows'
<1>1. Shows(log', pending', Told', Told') /\ Told' \in 0..Told' /\ ~(Told' < Told')
  BY EmptyShows
<1>2. PICK b \in 0..Told' : b = Told'
  BY <1>1
<1> QED
  BY <1>1, <1>2 DEF BatchFollows

\* The deltas on their way, as sequences and as numbers.
LEMMA ToldTypes ==
  ASSUME FanoutTypes, Unbroken
  PROVE  /\ log \in Seq(Cells) /\ fromRedis \in Seq(Versions \ {0})
         /\ Len(log) \in Nat /\ Len(fromRedis) \in Nat /\ Told \in Nat /\ Told <= Len(log)
         /\ pending \in [Cells -> Nat] /\ DOMAIN fromRedis = 1..Len(fromRedis)
<1>1. Len(log) \in Nat /\ Len(fromRedis) \in Nat /\ DOMAIN fromRedis = 1..Len(fromRedis)
  BY DEF FanoutTypes
<1>2. pending \in [Cells -> Versions]
  BY DEF FanoutTypes
<1> QED
  BY <1>1, <1>2 DEF FanoutTypes, Unbroken, Told, Versions
\* A delta delivered extends the batch by one write (DeltaCoalescer.add).
LEMMA DeliverBatch ==
  ASSUME FanoutTypes, InOrder, Disciplined, Unbroken', Deliver
  PROVE  BatchFollows'
<1> USE DEF redisVars, coalescer, ringVars, gatewayVars, boardVars, clientVars
<1>1. Unbroken /\ RingFollows /\ BatchFollows /\ \A c \in Clients : ViewerFollows(c)
  BY DEF Disciplined
<1>2. PICK t \in Nat : t = Told
  BY <1>1 DEF Unbroken
<1>3. /\ fromRedis # <<>> /\ fromRedis' = Tail(fromRedis) /\ log' = log
      /\ UNCHANGED <<entry, conn, sock, welcomed, settled, applied>>
  BY DEF Deliver
<1>4. /\ Head(fromRedis) = t + 1 /\ t + 1 \in Versions /\ Told' = t + 1 /\ t + 1 <= Len(log)
      /\ log \in Seq(Cells) /\ pending \in [Cells -> Nat] /\ Len(log) \in Nat
  <2>1. /\ log \in Seq(Cells) /\ fromRedis \in Seq(Versions \ {0}) /\ pending \in [Cells -> Nat]
        /\ Len(log) \in Nat
    BY <1>1, ToldTypes
  <2>2. /\ Head(fromRedis) = fromRedis[1] /\ Head(fromRedis) \in Versions
        /\ Len(fromRedis) \in Nat \ {0} /\ Len(Tail(fromRedis)) = Len(fromRedis) - 1
        /\ DOMAIN fromRedis = 1..Len(fromRedis)
    BY <1>3, <2>1, QueueTakes
  <2>3. fromRedis[1] = Told + 1
    BY <1>1, <2>2 DEF Unbroken
  <2>4. Told' = t + 1 /\ t + 1 <= Len(log)
    BY <1>2, <1>3, <2>1, <2>2 DEF Told
  <2> QED
    BY <1>2, <2>1, <2>2, <2>3, <2>4
<1>5. CASE ~entry
  <2>1. pending' = Empty /\ Told' \in Nat
    BY <1>1, <1>4, <1>5 DEF Deliver, RingFollows
  <2>2. \A c \in Clients : ~GreetedNow(c)'
    BY <1>1, <1>3, <1>5, HadIsHas, GreetedIsUp
  <2> QED
    BY <2>1, <2>2, BatchStarts
<1>6. CASE entry
  <2>1. PICK b \in 0..t :
          /\ Shows(log, pending, b, t)
          /\ \A c \in Clients : GreetedNow(c) => HasNow(c, b)
    BY <1>1, <1>2 DEF BatchFollows
  <2>2. pending' = [pending EXCEPT ![log[t + 1]] = t + 1]
    BY <1>4, <1>6 DEF Deliver
  <2>3. maxSeq' = t + 1
    <3>1. maxSeq \in {0, t}
      BY <1>1, <1>2 DEF RingFollows
    <3>2. maxSeq' = IF t + 1 > maxSeq THEN t + 1 ELSE maxSeq
      BY <1>4, <1>6 DEF Deliver
    <3> QED
      BY <1>2, <3>1, <3>2
  <2>4. log[t + 1] \in Cells
    <3>1. t + 1 \in 1..Len(log)
      BY <1>2, <1>4
    <3> QED
      BY <1>4, <3>1
  <2>5. Shows(log, pending', b, t + 1)
    <3>1. b \in Nat /\ b <= t /\ t \in Nat
      BY <1>2, <2>1
    <3>2. Shows(log, [pending EXCEPT ![log[t + 1]] = t + 1], b, t + 1)
      BY <1>4, <2>1, <2>4, <3>1, BatchGrows
    <3> QED
      BY <2>2, <3>2
  <2>6. \A c \in Clients : GreetedNow(c)' => HasNow(c, b)'
    BY <1>3, <2>1, HadIsHas
  <2>7. b \in 0..(t + 1)
    BY <1>2
  <2> HIDE DEF Told
  <2> QED
    BY <1>3, <1>4, <2>3, <2>5, <2>6, <2>7 DEF BatchFollows
<1> QED
  BY <1>5, <1>6

\* A flush leaves an empty batch, and every viewer with all the gateway was told of on its
\* way (DeltaCoalescer.flush).
LEMMA FlushBatch ==
  ASSUME FanoutTypes, Unbroken, BatchFollows, Flush
  PROVE  BatchFollows'
<1> USE DEF redisVars, coalescer, ringVars, gatewayVars, boardVars, clientVars
<1>1. PICK t \in Nat : t = Told
  BY DEF Unbroken
<1>2. /\ pending' = Empty /\ Told' = t /\ maxSeq = t /\ conn' = conn
      /\ UNCHANGED <<log, welcomed>>
  <2>1. maxSeq = t
    BY <1>1, BatchIsTold DEF Flush
  <2>2. Told' = t
    BY <1>1 DEF Flush, Told
  <2> QED
    BY <2>1, <2>2 DEF Flush
<1>3. ASSUME NEW c \in Clients, GreetedNow(c)'
      PROVE  HasNow(c, t)'
  <2>0. PICK n \in Nat : n = Len(sock[c])
    BY ViewerTypes
  <2>1. c \in Connected
    BY <1>2, <1>3 DEF GreetedNow, Greeted, Connected
  <2>2. sock'[c] = Append(sock[c], Batch)
    BY <2>1 DEF Flush
  <2>3. PICK f \in Frames : f = Batch
    BY DEF Batch, Frames, FanoutTypes
  <2>4. sock[c] \in Seq(Frames)
    BY ViewerTypes
  <2>5. Len(sock'[c]) = n + 1 /\ sock'[c][n + 1] = f
    BY <2>0, <2>2, <2>3, <2>4, QueueGets
  <2>6. f.t = "delta" /\ f.seq = t
    BY <1>2, <2>3 DEF Batch
  <2>7. n + 1 \in 1..(((n + 1) + 1) - 1) /\ t <= t
    BY <1>1
  <2> QED
    BY <2>5, <2>6, <2>7 DEF HasNow, Has
<1>4. Shows(log', Empty, t, t) /\ t \in 0..t /\ ~(t < t)
  BY EmptyShows
<1> HIDE DEF Told
<1> QED
  BY <1>2, <1>3, <1>4 DEF BatchFollows

\* A placement: announced to a gateway that keeps the canvas's state, or to none.
LEMMA PublishBatch ==
  ASSUME FanoutTypes, Disciplined, Unbroken', calm, NEW x \in Cells, Publish(x)
  PROVE  BatchFollows'
<1> USE DEF redisVars, coalescer, ringVars, gatewayVars, boardVars, clientVars
<1>1. Unbroken /\ RingFollows /\ BatchFollows /\ \A c \in Clients : ViewerFollows(c)
  BY DEF Disciplined
<1>2. /\ log' = Append(log, x) /\ Settled
      /\ UNCHANGED <<entry, pending, maxSeq, conn, sock, welcomed, settled, applied>>
  BY DEF Publish
<1>3. \A c \in Clients : /\ GreetedNow(c)' => GreetedNow(c)
                         /\ \A b : HasNow(c, b) => HasNow(c, b)'
  BY <1>2, HadIsHas
<1>4. entry <=> subscribed
  BY <1>1, <1>2 DEF Unbroken, SubscriptionAhead, Settled
<1>5. CASE entry
  <2>1. fromRedis' = Append(fromRedis, Len(log) + 1)
    BY <1>4, <1>5 DEF Publish
  <2>2. Told' = Told
    <3>1. log \in Seq(Cells) /\ Len(log) \in Nat /\ Len(fromRedis) \in Nat
          /\ fromRedis \in Seq(Versions \ {0})
      BY <1>1, ToldTypes
    <3>2. Len(log') = Len(log) + 1
      BY <1>2, <3>1
    <3>3. fromRedis \in Seq(Nat) /\ Len(log) + 1 \in Nat
      BY <3>1 DEF Versions
    <3>4. Len(fromRedis') = Len(fromRedis) + 1
      BY <2>1, <3>3, QueueGets
    <3> QED
      BY <3>1, <3>2, <3>4 DEF Told
  <2> QED
    BY <1>1, <1>2, <1>3, <2>2, BatchStays
<1>6. CASE ~entry
  <2>1. \A c \in Clients : ~GreetedNow(c)'
    BY <1>1, <1>3, <1>6, GreetedIsUp
  <2>2. pending' = Empty /\ Told' \in Nat
    BY <1>1, <1>2, <1>6 DEF RingFollows, Unbroken
  <2> QED
    BY <2>1, <2>2, BatchStarts
<1> QED
  BY <1>5, <1>6
\* No step of a disciplined run leaves a hole between what the coalescer holds and what
\* the viewers have.
LEMMA BatchStep ==
  ASSUME FanoutTypes, InOrder, Disciplined, Unbroken', calm, [FanoutNext]_fanoutVars
  PROVE  BatchFollows'
<1> USE DEF redisVars, coalescer, ringVars, gatewayVars, boardVars, clientVars, fanoutVars
<1>1. /\ Unbroken /\ RingFollows /\ ReadsCurrent /\ BatchFollows
      /\ \A c \in Clients : ViewerFollows(c)
  BY DEF Disciplined
<1>2. Told' \in Nat
  BY DEF Unbroken
\* The canvas's state untouched, and at most one viewer not left alone.
<1>3. ASSUME NEW d \in Clients, UNCHANGED <<log, fromRedis, pending, maxSeq>>,
             \A c \in Clients \ {d} :
               /\ conn'[c] = conn[c] /\ welcomed'[c] = welcomed[c] /\ settled'[c] = settled[c]
               /\ applied'[c] = applied[c] /\ sock'[c] = sock[c],
             \A b \in 0..Told : (GreetedNow(d) => HasNow(d, b)) => (GreetedNow(d)' => HasNow(d, b)')
      PROVE  BatchFollows'
  <2>1. Told' = Told
    BY <1>3 DEF Told
  <2>2. \A c \in Clients : \A b \in 0..Told :
           (GreetedNow(c) => HasNow(c, b)) => (GreetedNow(c)' => HasNow(c, b)')
    <3> TAKE c \in Clients
    <3>1. CASE c = d
      BY <1>3, <3>1
    <3>2. CASE c # d
      BY <1>3, <3>2, HadIsHas
    <3> QED
      BY <3>1, <3>2
  <2> QED
    BY <1>1, <1>3, <2>1, <2>2, BatchStays
\* The canvas's state opened, or the last viewer gone: no viewer is greeted.
<1>4. ASSUME Fresh, \A c \in Clients : ~GreetedNow(c)'
      PROVE  BatchFollows'
  BY <1>2, <1>4, BatchStarts DEF Fresh
<1>5. ASSUME NEW x \in Cells, Publish(x)
      PROVE  BatchFollows'
  BY <1>5, PublishBatch
<1>6. CASE Deliver
  BY <1>6, DeliverBatch
<1>7. CASE Flush
  BY <1>1, <1>7, FlushBatch
<1>8. ASSUME NEW d \in Clients, Receive(d)
      PROVE  BatchFollows'
  <2>1. UNCHANGED <<log, fromRedis, pending, maxSeq, conn>>
    BY <1>8 DEF Receive
  <2>2. sock' = [sock EXCEPT ![d] = Tail(@)] /\ sock[d] # <<>>
    BY <1>8 DEF Receive
  <2>3. \A c \in Clients \ {d} :
          /\ conn'[c] = conn[c] /\ welcomed'[c] = welcomed[c] /\ settled'[c] = settled[c]
          /\ applied'[c] = applied[c] /\ sock'[c] = sock[c]
    <3> TAKE c \in Clients \ {d}
    <3>1. CASE Head(sock[d]).t = "welcome"
      BY <1>8, <2>2, <3>1 DEF Receive, FanoutTypes
    <3>2. CASE Head(sock[d]).t = "snapshot"
      BY <1>8, <2>2, <3>2 DEF Receive, FanoutTypes
    <3>3. CASE Head(sock[d]).t = "delta"
      BY <1>8, <2>2, <3>3 DEF Receive, FanoutTypes
    <3> QED
      BY <1>8, <3>1, <3>2, <3>3 DEF Receive
  <2>4. ASSUME NEW b \in 0..Told, GreetedNow(d) => HasNow(d, b), GreetedNow(d)'
        PROVE  HasNow(d, b)'
    <3>0. PICK n \in Nat : n = Len(sock[d])
      BY ViewerTypes
    <3>1. sock[d] \in Seq(Frames)
      BY ViewerTypes
    <3>2. /\ sock'[d] = Tail(sock[d]) /\ Head(sock[d]) = sock[d][1]
          /\ n # 0 /\ Len(sock'[d]) = n - 1
          /\ \A j \in 1..(n - 1) : sock'[d][j] = sock[d][j + 1]
      BY <2>2, <3>0, <3>1, QueueTakes DEF FanoutTypes
    <3>3. GreetedNow(d)
      <4>1. CASE \E m \in 1..(n - 1) : sock'[d][m].t = "welcome"
        <5>1. PICK m \in 1..(n - 1) : sock'[d][m].t = "welcome"
          BY <4>1
        <5>2. m + 1 \in 1..((n + 1) - 1) /\ sock[d][m + 1].t = "welcome"
          BY <3>0, <3>2, <5>1
        <5> QED
          BY <2>4, <2>1, <3>0, <5>2 DEF GreetedNow, Greeted
      <4>2. CASE welcomed'[d]
        <5>1. welcomed[d] \/ sock[d][1].t = "welcome"
          BY <1>8, <3>2, <4>2 DEF Receive
        <5>2. 1 \in 1..((n + 1) - 1)
          BY <3>0, <3>2
        <5> QED
          BY <2>4, <2>1, <3>0, <5>1, <5>2 DEF GreetedNow, Greeted
      <4>3. ((n - 1) + 1) - 1 = n - 1
        BY <3>0
      <4> QED
        BY <2>4, <3>2, <4>1, <4>2, <4>3 DEF GreetedNow, Greeted
    <3>4. PICK k \in 2..(Len(sock[d]) + 1) : k = n + 1
      BY <3>0, <3>2
    <3>5. Greeted(d, k) /\ Has(d, k, b)
      BY <2>4, <3>0, <3>3, <3>4 DEF GreetedNow, HasNow
    <3>6. b \in Nat /\ k = Len(sock[d]) + 1
      BY <1>1, <3>0, <3>4 DEF Unbroken
    <3>7. Has(d, k - 1, b)'
      BY <1>1, <1>8, <3>5, <3>6, HasSurvives
    <3>8. k - 1 = Len(sock'[d]) + 1
      BY <3>0, <3>2, <3>4
    <3> QED
      BY <3>7, <3>8 DEF HasNow, Has
  <2> QED
    BY <1>3, <2>1, <2>3, <2>4
<1>9. ASSUME NEW d \in Clients, SendSnapshot(d)
      PROVE  BatchFollows'
  <2>1. UNCHANGED <<log, fromRedis, pending, maxSeq, conn, welcomed, settled, applied>>
    BY <1>9 DEF SendSnapshot
  <2>2. \A c \in Clients \ {d} : sock'[c] = sock[c]
    BY <1>9 DEF SendSnapshot, FanoutTypes
  <2>3. ASSUME NEW b \in 0..Told
        PROVE  HasNow(d, b)'
    <3>1. PICK j \in DOMAIN sock'[d] : sock'[d][j].t # "welcome" /\ sock'[d][j].seq = Len(log)
      BY <1>1, <1>9, SnapshotSent
    <3>2. b <= Len(log)
      BY <1>1, ToldTypes
    <3>3. j \in 1..((Len(sock'[d]) + 1) - 1)
      <4>1. sock'[d] \in Seq(Frames')
        BY <1>9, TypesStep DEF FanoutNext, Gateway, FanoutTypes
      <4>2. PICK m \in Nat : m = Len(sock'[d])
        BY <4>1
      <4>3. DOMAIN sock'[d] = 1..m
        BY <4>1, <4>2, LenProperties
      <4> QED
        BY <3>1, <4>2, <4>3
    <3> QED
      BY <3>1, <3>2, <3>3 DEF HasNow, Has
  <2> QED
    BY <1>3, <2>1, <2>2, <2>3
<1>10. ASSUME NEW d \in Clients, HandleResync(d)
       PROVE  BatchFollows'
  <2>1. UNCHANGED <<log, fromRedis, pending, maxSeq, conn, welcomed, settled, applied>>
    BY <1>10 DEF HandleResync
  <2>2. \A c \in Clients \ {d} : sock'[c] = sock[c]
    BY <1>10 DEF HandleResync, FanoutTypes
  <2>3. ASSUME NEW b \in 0..Told, GreetedNow(d) => HasNow(d, b), GreetedNow(d)'
        PROVE  HasNow(d, b)'
    <3>1. CASE sock' = sock
      BY <2>1, <2>3, <3>1, HadIsHas
    <3>2. CASE \E f \in Frames : f.t = "delta" /\ sock'[d] = Append(sock[d], f)
      <4>0. PICK n \in Nat : n = Len(sock[d])
        BY ViewerTypes
      <4>1. PICK f \in Frames : f.t = "delta" /\ sock'[d] = Append(sock[d], f)
        BY <3>2
      <4>2. sock[d] \in Seq(Frames)
        BY ViewerTypes
      <4>3. /\ Len(sock'[d]) = n + 1 /\ \A j \in 1..n : sock'[d][j] = sock[d][j]
            /\ sock'[d][n + 1] = f
        BY <4>0, <4>1, <4>2, QueueGets
      <4>4. \A j \in 1..(((n + 1) + 1) - 1) : j \in 1..n \/ j = n + 1
        BY <4>0
      <4>5. \A j \in 1..n : j \in 1..(((n + 1) + 1) - 1) /\ j \in 1..((n + 1) - 1)
        BY <4>0
      <4>6. GreetedNow(d)
        BY <2>1, <2>3, <4>0, <4>1, <4>3, <4>4, <4>5 DEF GreetedNow, Greeted
      <4>7. HasNow(d, b)
        BY <2>3, <4>6
      <4>8. (n + 1) - 1 = n
        BY <4>0
      <4> QED
        BY <2>1, <4>0, <4>3, <4>5, <4>7, <4>8 DEF HasNow, Has
    <3>3. ASSUME ~CaughtUp(resync[d]), Reachable(resync[d]),
                 sock' = [sock EXCEPT ![d] = Append(@, Replay(Missed(resync[d])))]
          PROVE  \E f \in Frames : f.t = "delta" /\ sock'[d] = Append(sock[d], f)
      <4>1. resync[d] \in Versions
        BY <1>10 DEF HandleResync, FanoutTypes
      <4>2. Replay(Missed(resync[d])) \in Frames /\ Replay(Missed(resync[d])).t = "delta"
        BY <1>1, <3>3, <4>1, ReplayFollows
      <4> QED
        BY <3>3, <4>2 DEF FanoutTypes
    <3> QED
      BY <1>10, <3>1, <3>2, <3>3 DEF HandleResync
  <2> QED
    BY <1>3, <2>1, <2>2, <2>3
<1>11. ASSUME NEW d \in Clients, Connect(d)
       PROVE  BatchFollows'
  <2>1. UNCHANGED <<log, fromRedis, sock, applied>>
    BY <1>11 DEF Connect
  <2>2. /\ conn[d] = "down" /\ sock[d] = <<>> /\ ~welcomed'[d]
        /\ \A c \in Clients \ {d} : /\ conn'[c] = conn[c] /\ welcomed'[c] = welcomed[c]
                                    /\ settled'[c] = settled[c]
    <3>1. conn[d] = "down" /\ ~welcomed'[d]
      BY <1>11 DEF Connect, FanoutTypes
    <3>2. sock[d] = <<>>
      BY <1>1, <3>1 DEF ViewerFollows
    <3> QED
      BY <1>11, <3>1, <3>2 DEF Connect, FanoutTypes
  <2>3. ~GreetedNow(d)'
    <3>1. Len(sock'[d]) = 0
      BY <2>1, <2>2, EmptySeq
    <3>2. \A m \in 1..((0 + 1) - 1) : FALSE
      OBVIOUS
    <3> QED
      BY <2>2, <3>1, <3>2 DEF GreetedNow, Greeted
  <2>4. CASE pending' = pending /\ maxSeq' = maxSeq
    BY <1>3, <2>1, <2>2, <2>3, <2>4
  <2>5. CASE ~entry /\ Fresh
    <3>1. \A c \in Clients : ~GreetedNow(c)
      BY <1>1, <2>5, GreetedIsUp
    <3>2. \A c \in Clients \ {d} : ~GreetedNow(c)'
      BY <2>1, <2>2, <3>1, HadIsHas
    <3> QED
      BY <1>4, <2>3, <2>5, <3>2
  <2> QED
    BY <1>11, <2>4, <2>5 DEF Connect, OpenState
<1>12. CASE DimsResolved
  <2>1. /\ UNCHANGED <<log, fromRedis, sock, applied, welcomed, settled>>
        /\ \A c \in Clients : conn'[c] # "down" => conn[c] # "down"
    <3>1. UNCHANGED <<log, fromRedis, sock, applied, welcomed, settled>>
      BY <1>12 DEF DimsResolved
    <3>2. conn' = [c \in Clients |-> IF c \in Waiting THEN "up" ELSE conn[c]]
      BY <1>12 DEF DimsResolved
    <3> QED
      BY <3>1, <3>2 DEF Waiting
  <2>2. \A c \in Clients : /\ GreetedNow(c)' => GreetedNow(c)
                           /\ \A b : HasNow(c, b) => HasNow(c, b)'
    BY <2>1, HadIsHas
  <2>3. CASE pending' = pending /\ maxSeq' = maxSeq
    <3>1. Told' = Told
      BY <2>1 DEF Told
    <3> QED
      BY <1>1, <2>1, <2>2, <2>3, <3>1, BatchStays
  <2>4. CASE ~entry /\ Fresh
    BY <1>1, <1>4, <2>2, <2>4, GreetedIsUp
  <2> QED
    BY <1>12, <2>3, <2>4 DEF DimsResolved, OpenState
<1>13. CASE Reap
  <2>1. UNCHANGED <<log, fromRedis, conn, sock, welcomed, settled, applied>>
    BY <1>13 DEF Reap
  <2>2. CASE LastGone
    <3>1. Fresh /\ \A c \in Clients : conn'[c] = "down"
      BY <1>13, <2>1, <2>2 DEF Reap, Discard, LastGone, Connected
    <3> QED
      BY <1>4, <3>1 DEF GreetedNow, Greeted
  <2>3. CASE ~LastGone
    <3>1. pending' = pending /\ maxSeq' = maxSeq /\ Told' = Told
      BY <1>13, <2>1, <2>3 DEF Reap, Told
    <3>2. \A c \in Clients : /\ GreetedNow(c)' => GreetedNow(c)
                             /\ \A b : HasNow(c, b) => HasNow(c, b)'
      BY <2>1, HadIsHas
    <3> QED
      BY <1>1, <2>1, <3>1, <3>2, BatchStays
  <2> QED
    BY <2>2, <2>3
<1>14. ASSUME NEW d \in Clients, Drop(d)
       PROVE  BatchFollows'
  <2>1. UNCHANGED <<log, fromRedis, pending, maxSeq, welcomed, applied>>
    BY <1>14 DEF Drop
  <2>2. /\ conn'[d] = "down"
        /\ \A c \in Clients \ {d} : conn'[c] = conn[c] /\ sock'[c] = sock[c]
                                    /\ settled'[c] = settled[c]
    BY <1>14 DEF Drop, FanoutTypes
  <2>3. ~GreetedNow(d)'
    BY <2>2 DEF GreetedNow, Greeted
  <2> QED
    BY <1>3, <2>1, <2>2, <2>3
<1>15. CASE ExecuteSub \/ (\E d \in Clients : ExecuteRead(d)) \/ UNCHANGED fanoutVars
  <2>1. UNCHANGED <<log, fromRedis, pending, maxSeq, conn, sock, welcomed, settled, applied>>
    BY <1>15 DEF ExecuteSub, ExecuteRead
  <2>2. Told' = Told
    BY <2>1 DEF Told
  <2>3. \A c \in Clients : /\ GreetedNow(c)' => GreetedNow(c)
                           /\ \A b : HasNow(c, b) => HasNow(c, b)'
    BY <2>1, HadIsHas
  <2> QED
    BY <1>1, <2>1, <2>2, <2>3, BatchStays
<1>16. CASE Outage \/ SubscribeRefused \/ Ready
  BY <1>1, <1>16 DEF Outage, SubscribeRefused, Ready, Unbroken
<1>17. CASE Restart
  <2>1. Fresh /\ \A c \in Clients : conn'[c] = "down"
    BY <1>17 DEF Restart
  <2> QED
    BY <1>4, <2>1 DEF GreetedNow, Greeted
<1> QED
  BY <1>5, <1>6, <1>7, <1>8, <1>9, <1>10, <1>11, <1>12, <1>13, <1>14, <1>15, <1>16, <1>17
     DEF FanoutNext, Gateway, Viewers, Failures
(***************************************************************************)
(* The invariant, and what follows from it.                                *)
(***************************************************************************)

\* A gateway and its viewers as the process and the pages start.
LEMMA InitInductive == FanoutInit => FanoutInductive
<1> SUFFICES ASSUME FanoutInit
             PROVE  FanoutInductive
  OBVIOUS
<1>1. /\ Len(log) = 0 /\ Len(fromRedis) = 0 /\ DOMAIN fromRedis = {} /\ DOMAIN ring = {}
      /\ Len(ring) = 0
  BY EmptySeq DEF FanoutInit
<1>2. FanoutTypes
  <2>1. Versions = {0} /\ Empty \in [Cells -> Versions]
    BY <1>1 DEF Versions, Empty
  <2>2. /\ log \in Seq(Cells) /\ toRedis \in Seq(Commands)
        /\ fromRedis \in Seq(Versions \ {0}) /\ ring \in Seq(Versions \ {0})
    BY EmptySeq DEF FanoutInit
  <2>3. reads \in [Clients -> Seq(Reads)] /\ sock \in [Clients -> Seq(Frames)]
    BY EmptySeq DEF FanoutInit
  <2>4. board \in [Clients -> [Cells -> Versions]]
    BY <2>1 DEF FanoutInit
  <2> QED
    BY <2>1, <2>2, <2>3, <2>4 DEF FanoutTypes, FanoutInit
<1>3. InOrder /\ EntryIsSubscribed
  BY <1>1 DEF InOrder, EntryIsSubscribed, FanoutInit
<1>4. Told = 0 /\ Unbroken /\ RingFollows /\ ReadsCurrent
  <2>1. Told = 0
    BY <1>1 DEF Told
  <2>2. \A c \in Clients : DOMAIN reads[c] = {}
    <3>1. \A c \in Clients : reads[c] = <<>>
      BY DEF FanoutInit
    <3>2. DOMAIN <<>> = {}
      BY EmptySeq
    <3> QED
      BY <3>1, <3>2
  <2> QED
    BY <1>1, <2>1, <2>2 DEF Unbroken, RingFollows, ReadsCurrent, SubscriptionAhead, FanoutInit
<1>5. \A c \in Clients : conn[c] = "down" /\ sock[c] = <<>> /\ reads[c] = <<>> /\ ~settled[c]
                         /\ DOMAIN sock[c] = {} /\ DOMAIN reads[c] = {} /\ ~welcomed[c]
                         /\ Len(sock[c]) = 0
  <2>1. \A c \in Clients : conn[c] = "down" /\ sock[c] = <<>> /\ reads[c] = <<>>
    BY DEF FanoutInit
  <2>2. \A c \in Clients : ~settled[c] /\ ~welcomed[c]
    BY DEF FanoutInit
  <2>3. DOMAIN <<>> = {} /\ Len(<<>>) = 0
    BY EmptySeq
  <2> QED
    BY <2>1, <2>2, <2>3
<1>6. \A c \in Clients : ViewerFollows(c) /\ ~GreetedNow(c)
  BY <1>5 DEF ViewerFollows, GreetedNow, Greeted
<1>7. BatchFollows
  <2>1. Shows(log, pending, 0, 0)
    BY EmptyShows DEF FanoutInit
  <2> QED
    BY <1>4, <1>6, <2>1 DEF BatchFollows
<1> QED
  BY <1>2, <1>3, <1>4, <1>6, <1>7 DEF FanoutInductive, Disciplined

\* Every step keeps it.
LEMMA StepInductive == FanoutInductive /\ [FanoutNext]_fanoutVars => FanoutInductive'
<1> SUFFICES ASSUME FanoutInductive, [FanoutNext]_fanoutVars
             PROVE  FanoutInductive'
  OBVIOUS
<1>1. FanoutTypes /\ InOrder /\ EntryIsSubscribed
  BY DEF FanoutInductive
<1>2. FanoutTypes' /\ InOrder' /\ EntryIsSubscribed'
  BY <1>1, TypesStep, InOrderStep, SubscriptionStep
<1>3. CASE calm
  <2>1. Disciplined
    BY <1>3 DEF FanoutInductive
  <2>2. Unbroken'
    BY <1>1, <1>3, <2>1, UnbrokenStep DEF Disciplined
  <2>3. RingFollows' /\ ReadsCurrent'
    BY <1>1, <1>3, <2>1, <2>2, RingStep, ReadsStep DEF Disciplined
  <2>4. BatchFollows'
    BY <1>1, <1>3, <2>1, <2>2, BatchStep
  <2>5. \A c \in Clients : ViewerFollows(c)'
    BY <1>1, <1>3, <2>1, ViewerStep
  <2> QED
    BY <1>2, <2>2, <2>3, <2>4, <2>5 DEF FanoutInductive, Disciplined
<1>4. CASE ~calm
  BY <1>2, <1>4, CalmLasts DEF FanoutInductive
<1> QED
  BY <1>3, <1>4

\* The inductive invariant holds of every reachable state: the types, FIFO order, the
\* subscription, and under the discipline what links the log, the channel, the ring, the
\* coalescer, the sockets and the boards.
THEOREM FanoutIsInductive == FanoutSpec => []FanoutInductive
  BY InitInductive, StepInductive, PTL DEF FanoutSpec

\* A canvas the gateway keeps state for is subscribed or about to be, however reaps, dims
\* fetches, refusals, outages and restarts interleave (pubsub.ts ensureCanvasSubscribed).
THEOREM EntrySubscribed == FanoutSpec => []EntryIsSubscribed
<1>1. FanoutInductive => EntryIsSubscribed
  BY DEF FanoutInductive
<1> QED
  BY <1>1, FanoutIsInductive, PTL

\* A settled viewer's board is the canvas as of the seq it claims, and no frame takes it
\* back (BoardBuffer.applyDelta, loadSnapshot).
LEMMA ReceiveAdvances ==
  ASSUME FanoutTypes, FanoutTypes', NEW c \in Clients, ViewerFollows(c), Receive(c)
  PROVE  /\ settled[c] => /\ settled'[c] /\ applied[c] <= applied'[c]
                          /\ board[c] = At(applied[c]) /\ applied[c] \in Nat
         /\ settled'[c] => applied'[c] \in 0..Len(log) /\ board'[c] = At(applied'[c])
<1> USE DEF redisVars, coalescer, ringVars, gatewayVars, boardVars, clientVars
<1>1. sock[c] # <<>> /\ log' = log
  BY DEF Receive
<1>2. sock[c] \in Seq(Frames)
  BY ViewerTypes
<1>3. /\ Head(sock[c]) = sock[c][1] /\ 1 \in DOMAIN sock[c]
  BY <1>1, <1>2, QueueTakes
<1>4. PICK f \in Frames : f = sock[c][1] /\ f = Head(sock[c])
  BY <1>1, <1>2, <1>3, QueueTakes
<1>5. ViewerFollows(c)' /\ FrameFollows(c, 1)
  BY <1>3, ReceiveFollows DEF ViewerFollows
<1>6. settled[c] => /\ welcomed[c] /\ loaded[c] /\ applied[c] \in Nat
                    /\ Shows(log, board[c], 0, applied[c]) /\ board[c] \in [Cells -> Nat]
  BY ViewerTypes DEF ViewerFollows
<1>7. settled'[c] => /\ applied'[c] \in 0..Len(log) /\ Shows(log, board'[c], 0, applied'[c])
                     /\ board'[c] \in [Cells -> Nat] /\ applied'[c] \in Nat
  <2>1. applied'[c] \in Versions' \cup {None} /\ board'[c] \in [Cells -> Versions']
    BY DEF FanoutTypes
  <2>2. Versions' = 0..Len(log) /\ Len(log) \in Nat
    BY <1>1 DEF Versions, FanoutTypes
  <2>3. settled'[c] => applied'[c] # None' /\ Shows(log, board'[c], 0, applied'[c])
    BY <1>1, <1>5 DEF ViewerFollows
  <2> QED
    BY <2>1, <2>2, <2>3 DEF None
<1>8. settled[c] => settled'[c] /\ applied[c] <= applied'[c]
  <2> SUFFICES ASSUME settled[c]
               PROVE  settled'[c] /\ applied[c] <= applied'[c]
    OBVIOUS
  <2>1. CASE f.t = "welcome"
    BY <1>4, <1>6, <2>1 DEF Receive
  <2>2. CASE f.t = "snapshot"
    <3>1. settled'[c] /\ applied'[c] = f.seq
      <4>1. settled' = [settled EXCEPT ![c] = welcomed[c]]
            /\ applied' = [applied EXCEPT ![c] = f.seq]
        BY <1>4, <2>2 DEF Receive
      <4>2. settled'[c] = welcomed[c] /\ applied'[c] = f.seq
        BY <4>1 DEF FanoutTypes
      <4> QED
        BY <1>6, <4>2
    <3>2. applied[c] <= f.seq
      BY <1>4, <1>5, <2>2 DEF FrameFollows
    <3> QED
      BY <3>1, <3>2
  <2>3. CASE f.t = "delta"
    <3>1. f.seq \in Nat
      BY DEF Frames, Versions
    <3>2. CASE Stale(c, f)
      BY <1>4, <1>6, <2>3, <3>2 DEF Receive
    <3>3. CASE ~Stale(c, f)
      <4>1. settled' = settled /\ applied'[c] = f.seq
        BY <1>4, <2>3, <3>3 DEF Receive, FanoutTypes
      <4> QED
        BY <1>6, <3>1, <3>3, <4>1 DEF Stale
    <3> QED
      BY <3>2, <3>3
  <2> QED
    BY <1>4, <2>1, <2>2, <2>3 DEF Frames
<1> QED
  BY <1>6, <1>7, <1>8, ShownIsCanvas

\* Under the discipline every step of the fan-out is one of the mirror or leaves it alone:
\* a placement grows the log, a frame advances a viewer, a lost connection has it leave.
LEMMA StepMirrors ==
  ASSUME FanoutInductive, FanoutInductive', calm, [FanoutNext]_fanoutVars
  PROVE  [Mirror!MirrorNext]_(Mirror!mirrorVars)
<1> USE DEF redisVars, coalescer, ringVars, gatewayVars, boardVars, clientVars, fanoutVars
<1> DEFINE V == [c \in Clients |-> IF settled[c] THEN applied[c] ELSE -1]
           S == [c \in Clients |-> IF settled[c] THEN board[c] ELSE Empty]
<1>1. FanoutTypes /\ FanoutTypes' /\ \A c \in Clients : ViewerFollows(c)
  BY DEF FanoutInductive, Disciplined
<1>2. /\ V' = [c \in Clients |-> IF settled'[c] THEN applied'[c] ELSE -1]
      /\ S' = [c \in Clients |-> IF settled'[c] THEN board'[c] ELSE Empty]
  BY DEF Empty
<1>3. (V' = V /\ S' = S /\ log' = log) => UNCHANGED Mirror!mirrorVars
  BY DEF Mirror!mirrorVars
<1>4. (\E x \in Cells : log' = Append(log, x)) /\ V' = V /\ S' = S => Mirror!Grow
  BY DEF Mirror!Grow
<1>5. ASSUME NEW c \in Clients, NEW v \in 0..Len(log), log' = log, v > V[c],
             V' = [V EXCEPT ![c] = v], S' = [S EXCEPT ![c] = At(v)]
      PROVE  Mirror!Advance(c)
  <2>1. Mirror!AsOf(v) = At(v)
    BY DEF Mirror!AsOf, At, Latest
  <2> QED
    BY <1>5, <2>1 DEF Mirror!Advance
<1>6. ASSUME NEW L \in SUBSET Clients, log' = log,
             V' = [c \in Clients |-> IF c \in L THEN -1 ELSE V[c]],
             S' = [c \in Clients |-> IF c \in L THEN Empty ELSE S[c]]
      PROVE  Mirror!Leave(L)
  BY <1>6 DEF Mirror!Leave, Mirror!Blank, Empty
<1>7. UNCHANGED <<settled, applied, board>> => V' = V /\ S' = S
  BY <1>2
<1>8. ASSUME NEW x \in Cells, Publish(x)
      PROVE  Mirror!Grow
  BY <1>4, <1>7, <1>8 DEF Publish
<1>9. CASE \/ ExecuteSub \/ DimsResolved \/ Deliver \/ Flush \/ Reap \/ Outage \/ Ready
           \/ SubscribeRefused \/ UNCHANGED fanoutVars
           \/ \E c \in Clients : ExecuteRead(c) \/ SendSnapshot(c) \/ HandleResync(c)
  <2>1. UNCHANGED <<settled, applied, board>> /\ log' = log
    BY <1>9 DEF ExecuteSub, DimsResolved, Deliver, Flush, Reap, Outage, Ready,
                SubscribeRefused, ExecuteRead, SendSnapshot, HandleResync
  <2> QED
    BY <1>3, <1>7, <2>1
<1>10. ASSUME NEW c \in Clients, Connect(c)
       PROVE  UNCHANGED Mirror!mirrorVars
  <2>1. conn[c] = "down" /\ settled' = [settled EXCEPT ![c] = FALSE]
        /\ UNCHANGED <<log, applied, board>>
    BY <1>10 DEF Connect
  <2>2. ~settled[c]
    BY <1>1, <2>1 DEF ViewerFollows
  <2>3. V' = V /\ S' = S
    BY <1>1, <1>2, <2>1, <2>2 DEF FanoutTypes
  <2> QED
    BY <1>3, <2>1, <2>3
<1>11. ASSUME NEW c \in Clients, Drop(c)
       PROVE  Mirror!Leave({c})
  <2>1. settled' = [settled EXCEPT ![c] = FALSE] /\ UNCHANGED <<log, applied, board>>
    BY <1>11 DEF Drop
  <2>2. /\ V' = [e \in Clients |-> IF e \in {c} THEN -1 ELSE V[e]]
        /\ S' = [e \in Clients |-> IF e \in {c} THEN Empty ELSE S[e]]
    BY <1>1, <1>2, <2>1 DEF FanoutTypes
  <2> QED
    BY <1>6, <2>1, <2>2
<1>12. CASE Restart
  <2>1. settled' = [c \in Clients |-> FALSE] /\ UNCHANGED <<log, applied, board>>
    BY <1>12 DEF Restart
  <2>2. /\ V' = [e \in Clients |-> IF e \in Clients THEN -1 ELSE V[e]]
        /\ S' = [e \in Clients |-> IF e \in Clients THEN Empty ELSE S[e]]
    BY <1>2, <2>1
  <2>3. Mirror!Leave(Clients)
    BY <1>6, <2>1, <2>2
  <2> QED
    BY <2>3 DEF Mirror!MirrorNext
<1>13. ASSUME NEW c \in Clients, Receive(c)
       PROVE  Mirror!Advance(c) \/ UNCHANGED Mirror!mirrorVars
  <2>1. /\ settled[c] => /\ settled'[c] /\ applied[c] <= applied'[c]
                         /\ board[c] = At(applied[c]) /\ applied[c] \in Nat
        /\ settled'[c] => applied'[c] \in 0..Len(log) /\ board'[c] = At(applied'[c])
    BY <1>1, <1>13, ReceiveAdvances
  <2>2. log' = log
    BY <1>13 DEF Receive
  <2>3. \A e \in Clients \ {c} :
          settled'[e] = settled[e] /\ applied'[e] = applied[e] /\ board'[e] = board[e]
    <3> TAKE e \in Clients \ {c}
    <3>1. CASE Head(sock[c]).t = "welcome"
      BY <1>13, <3>1 DEF Receive
    <3>2. CASE Head(sock[c]).t = "snapshot"
      BY <1>1, <1>13, <3>2 DEF Receive, FanoutTypes
    <3>3. CASE Head(sock[c]).t = "delta"
      BY <1>1, <1>13, <3>3 DEF Receive, FanoutTypes
    <3> QED
      BY <1>13, <3>1, <3>2, <3>3 DEF Receive
  <2>4. \A e \in Clients \ {c} : V'[e] = V[e] /\ S'[e] = S[e]
    BY <1>2, <2>3
  <2>5. /\ V[c] = IF settled[c] THEN applied[c] ELSE -1
        /\ S[c] = IF settled[c] THEN board[c] ELSE Empty
        /\ V'[c] = IF settled'[c] THEN applied'[c] ELSE -1
        /\ S'[c] = IF settled'[c] THEN board'[c] ELSE Empty
        /\ V = [e \in Clients |-> V[e]] /\ V' = [e \in Clients |-> V'[e]]
        /\ S = [e \in Clients |-> S[e]] /\ S' = [e \in Clients |-> S'[e]]
    BY <1>2
  <2> HIDE DEF V, S
  <2>6. CASE V'[c] = V[c] /\ S'[c] = S[c]
    <3>1. V' = V /\ S' = S
      BY <2>4, <2>5, <2>6
    <3> QED
      BY <1>3, <2>2, <3>1
  <2>7. CASE settled'[c] /\ (settled[c] => applied'[c] # applied[c])
    <3>1. PICK v \in 0..Len(log) : v = applied'[c] /\ board'[c] = At(v)
      BY <2>1, <2>7
    <3>2. v > V[c]
      BY <2>1, <2>5, <2>7, <3>1
    <3>3. V' = [V EXCEPT ![c] = v] /\ S' = [S EXCEPT ![c] = At(v)]
      BY <2>4, <2>5, <2>7, <3>1
    <3> QED
      BY <1>5, <2>2, <3>2, <3>3
  <2>8. (~settled'[c] \/ (settled[c] /\ applied'[c] = applied[c]))
        => V'[c] = V[c] /\ S'[c] = S[c]
    BY <2>1, <2>5
  <2> QED
    BY <2>6, <2>7, <2>8
<1> QED
  BY <1>8, <1>9, <1>10, <1>11, <1>12, <1>13
     DEF FanoutNext, Gateway, Viewers, Failures, Mirror!MirrorNext

\* Under the discipline, viewers see the canvas, and only forward: from the snapshot
\* through every coalesced delta and every replay of the ring, the fan-out implements
\* module CanvasMirror.
THEOREM FanoutImplementsMirror == FanoutSpec => ImplementsMirror
<1>1. FanoutInit => Mirror!MirrorInit
  BY DEF FanoutInit, Mirror!MirrorInit, Mirror!Blank, Empty
<1>2. FanoutInductive /\ FanoutInductive' /\ [FanoutNext]_fanoutVars
        => [calm => [Mirror!MirrorNext]_(Mirror!mirrorVars)]_fanoutVars
  BY StepMirrors
<1> QED
  BY <1>1, <1>2, FanoutIsInductive, PTL DEF FanoutSpec, ImplementsMirror

-----------------------------------------------------------------------------
(***************************************************************************)
(* The budget of a viewer.                                                 *)
(***************************************************************************)
LEMMA DivBounds ==
  ASSUME NEW a \in Nat, NEW b \in Nat \ {0}
  PROVE  a \div b \in Nat /\ b * (a \div b) <= a
  OBVIOUS

LEMMA TimesMono ==
  ASSUME NEW k \in Nat, NEW m \in Int, NEW n \in Int, m <= n
  PROVE  k * m <= k * n
  OBVIOUS

LEMMA Distributes ==
  ASSUME NEW k \in Int, NEW m \in Int, NEW n \in Int
  PROVE  k * (m + n) = k * m + k * n
  OBVIOUS

\* What a refill returns: a gauge within the ceiling, whose clock never runs ahead.
LEMMA RefillType ==
  ASSUME NEW g \in Gauge, NEW t \in Nat, NEW max \in Nat, g.ts <= t
  PROVE  /\ Refilled(g, t, max).c \in Nat /\ Refilled(g, t, max).c <= max
         /\ Refilled(g, t, max).ts \in Nat /\ Refilled(g, t, max).ts <= t
<1> USE ScriptAssumption
<1> DEFINE k == Ticks(g.ts, t)
<1>1. /\ g.c \in Nat /\ g.ts \in Nat /\ g.dies \in Nat
  BY DEF Gauge
<1>2. k \in Nat /\ Interval * k <= t - g.ts
  BY <1>1, DivBounds DEF Ticks
<1>3. g.ts + k * Interval \in Nat /\ g.ts + k * Interval <= t
  BY <1>1, <1>2
<1>4. k * Amount \in Nat
  BY <1>2
<1> HIDE DEF k
<1>5. /\ Refilled(g, t, max) =
           IF t >= g.dies THEN [c |-> max, ts |-> t]
           ELSE Pinned(IF k > 0 THEN AtMost(g.c + k * Amount, max) ELSE g.c,
                       g.ts + k * Interval, max, t)
  BY DEF Refilled, k
<1> QED
  BY <1>1, <1>2, <1>3, <1>4, <1>5 DEF Pinned, AtMost

\* A refill gains nothing over the clock: every charge it adds costs its interval.
LEMMA RefillPays ==
  ASSUME NEW g \in Gauge, NEW t \in Nat, NEW max \in Nat, g.ts <= t, t < g.dies
  PROVE  LET r == Refilled(g, t, max)
         IN  Interval * r.c + Amount * g.ts <= Interval * g.c + Amount * r.ts
<1> USE ScriptAssumption
<1> DEFINE k == Ticks(g.ts, t)
           c == IF k > 0 THEN AtMost(g.c + k * Amount, max) ELSE g.c
           ts == g.ts + k * Interval
           r == Refilled(g, t, max)
<1>1. /\ g.c \in Nat /\ g.ts \in Nat /\ g.dies \in Nat
  BY DEF Gauge
<1>2. k \in Nat /\ Interval * k <= t - g.ts
  BY <1>1, DivBounds DEF Ticks
<1>3. r = Pinned(c, ts, max, t)
  BY <1>1 DEF Refilled
<1> HIDE DEF k
<1>4. c \in Nat /\ c <= g.c + k * Amount
  BY <1>1, <1>2 DEF AtMost
<1>5. ts \in Nat /\ ts <= t
  BY <1>1, <1>2
<1>6. Interval * c <= Interval * g.c + Amount * (k * Interval)
  <2>1. Interval * c <= Interval * (g.c + k * Amount)
    BY <1>1, <1>2, <1>4, TimesMono
  <2> QED
    BY <1>1, <1>2, <1>4, <2>1
<1>7. Amount * ts = Amount * g.ts + Amount * (k * Interval)
  BY <1>1, <1>2
<1> HIDE DEF c, ts, r
<1>8. r.c \in Nat /\ r.c <= c /\ r.ts \in Nat /\ ts <= r.ts
  BY <1>3, <1>4, <1>5 DEF Pinned
<1>9. Interval * r.c <= Interval * c /\ Amount * ts <= Amount * r.ts
  BY <1>4, <1>5, <1>8, TimesMono
<1>10. \A x \in {Interval * r.c, Interval * c, Interval * g.c, Amount * ts, Amount * r.ts,
                 Amount * g.ts, Amount * (k * Interval)} : x \in Int
  BY <1>1, <1>2, <1>4, <1>5, <1>8
<1>11. Interval * r.c + Amount * g.ts <= Interval * g.c + Amount * r.ts
  BY <1>6, <1>7, <1>9, <1>10
<1> QED
  BY <1>11 DEF r
-----------------------------------------------------------------------------
\* The budget, and what makes it inductive: a hash that has expired had the time to
\* fill, one never written belongs to a viewer who has earned nothing yet, and no
\* answer under way is ahead of Convex.
Aged ==
  /\ gauge.ts <= now
  /\ gauge.dies = 0 => spent = 0
  /\ gauge.dies # 0 => gauge.dies >= gauge.ts + GaugeTtl

AnswersHold == \A a \in asks : a.answer <= bonus

ChargesInv ==
  /\ ChargesTypeOK /\ Aged /\ AnswersHold
  /\ NeverAboveCeiling /\ EarnedByPlaying /\ NeverOverspends

\* Nobody has earned a tier without a point.
LEMMA NoFreeTier ==
  ASSUME NEW k \in Nat \ {0}, EarnedTier(k, 0)
  PROVE  FALSE
<1> USE ChargesAssumption
<1>1. Cost * k \in Nat \ {0} /\ Cost * k * (k + 1) \in Nat \ {0}
  OBVIOUS
<1> QED
  BY <1>1 DEF EarnedTier

\* Whatever ceiling a session or a claim acts under, the refill stays in the budget.
LEMMA RefillInBudget ==
  ASSUME ChargesInv, NEW max \in Nat, max <= Base + bonus
  PROVE  LET r == Refilled(gauge, now, max) IN
         /\ r.c \in Nat /\ r.c <= max /\ r.ts \in Nat /\ r.ts <= now
         /\ Interval * (spent + r.c) <= Interval * (Base + granted) + Amount * r.ts
<1> USE ScriptAssumption, ChargesAssumption
<1> DEFINE r == Refilled(gauge, now, max)
<1>1. /\ gauge \in Gauge /\ gauge.c \in Nat /\ gauge.ts \in Nat /\ gauge.dies \in Nat
      /\ now \in Nat /\ spent \in Nat /\ granted \in Nat /\ bonus \in 0..Cap
      /\ accrued \in Nat
  BY DEF ChargesInv, ChargesTypeOK, Gauge
<1>2. gauge.ts <= now
  BY DEF ChargesInv, Aged
<1>3. r.c \in Nat /\ r.c <= max /\ r.ts \in Nat /\ r.ts <= now
  BY <1>1, <1>2, RefillType
<1>4. Interval * spent + Interval * gauge.c <= Interval * (Base + granted) + Amount * gauge.ts
  <2>1. Interval * (spent + gauge.c) = Interval * spent + Interval * gauge.c
    BY <1>1, Distributes
  <2> QED
    BY <2>1 DEF ChargesInv, NeverOverspends
<1>5. \A x \in {Interval * r.c, Interval * gauge.c, Interval * spent, Interval * max,
                Interval * (Base + granted), Amount * gauge.ts, Amount * r.ts,
                Amount * now, Amount * GaugeTtl} : x \in Int
  BY <1>1, <1>3
<1>6. ASSUME now < gauge.dies
      PROVE  Interval * spent + Interval * r.c <= Interval * (Base + granted) + Amount * r.ts
  <2>1. Interval * r.c + Amount * gauge.ts <= Interval * gauge.c + Amount * r.ts
    BY <1>1, <1>2, <1>6, RefillPays
  <2> HIDE DEF r
  <2> QED
    BY <1>4, <1>5, <2>1
<1>7. ASSUME now >= gauge.dies, gauge.dies # 0
      PROVE  Interval * spent + Interval * r.c <= Interval * (Base + granted) + Amount * r.ts
  <2>1. r.c = max /\ r.ts = now
    BY <1>1, <1>7 DEF Refilled
  <2>2. now >= gauge.ts + GaugeTtl
    BY <1>1, <1>7 DEF ChargesInv, Aged
  <2>3. Amount * (gauge.ts + GaugeTtl) <= Amount * now
    BY <1>1, <2>2, TimesMono
  <2>4. Amount * (gauge.ts + GaugeTtl) = Amount * gauge.ts + Amount * GaugeTtl
    BY <1>1, Distributes
  <2>5. Interval * max <= Interval * (Base + Cap)
    BY <1>1, TimesMono
  <2>6. Interval * max <= Amount * GaugeTtl
    BY <2>5
  <2>7. Interval * gauge.c \in Nat
    BY <1>1
  <2> HIDE DEF r
  <2> QED
    BY <1>4, <1>5, <2>1, <2>3, <2>4, <2>6, <2>7
<1>8. ASSUME now >= gauge.dies, gauge.dies = 0
      PROVE  Interval * spent + Interval * r.c <= Interval * (Base + granted) + Amount * r.ts
  <2>1. r.c = max /\ r.ts = now /\ spent = 0
    BY <1>1, <1>8 DEF Refilled, ChargesInv, Aged
  <2>2. accrued = 0
    BY <1>1, <2>1 DEF ChargesInv, EarnedByPlaying
  <2>3. bonus = 0
    BY <1>1, <2>2, NoFreeTier DEF ChargesInv, EarnedByPlaying
  <2>4. Interval * max <= Interval * (Base + granted)
    BY <1>1, <2>3, TimesMono
  <2>5. Amount * now \in Nat /\ Interval * spent = 0
    BY <1>1, <2>1
  <2> HIDE DEF r
  <2> QED
    BY <1>5, <2>1, <2>4, <2>5
<1>9. Interval * (spent + r.c) = Interval * spent + Interval * r.c
  BY <1>1, <1>3, Distributes
<1>10. Interval * (spent + r.c) <= Interval * (Base + granted) + Amount * r.ts
  BY <1>1, <1>6, <1>7, <1>8, <1>9
<1> QED
  BY <1>3, <1>10 DEF r

LEMMA PlaceKeeps ==
  ASSUME ChargesInv, NEW s \in Sessions, Place(s)
  PROVE  ChargesInv'
<1> USE ScriptAssumption, ChargesAssumption
<1> DEFINE max == Ceiling(s)
           r == Refilled(gauge, now, max)
<1>1. max \in Nat /\ max <= Base + bonus
  BY DEF Ceiling, ChargesInv, ChargesTypeOK, NeverAboveCeiling
<1> HIDE DEF max
<1>2. /\ r.c \in Nat /\ r.c <= max /\ r.ts \in Nat /\ r.ts <= now
      /\ Interval * (spent + r.c) <= Interval * (Base + granted) + Amount * r.ts
  BY <1>1, RefillInBudget
<1>3. r.c >= 1 /\ gauge' = Consumed(gauge, now, max) /\ spent' = spent + 1
  BY DEF Place, max
<1>4. gauge' = [c |-> r.c - 1, ts |-> r.ts, dies |-> now + GaugeTtl]
  <2>1. r = [c |-> r.c, ts |-> r.ts]
    BY DEF Refilled, Pinned
  <2> HIDE DEF r
  <2>2. gauge' = Stored([r EXCEPT !.c = @ - 1], now)
    BY <1>3 DEF Consumed, r
  <2> QED
    BY <2>1, <2>2 DEF Stored
<1> HIDE DEF r
<1>5. now \in Nat /\ bonus \in 0..Cap /\ spent \in Nat /\ accrued \in Nat /\ accrued <= spent
  BY DEF ChargesInv, ChargesTypeOK, EarnedByPlaying
<1>6. UNCHANGED <<now, granted, accrued, bonus, status, resolved, asks, posts, jobs>>
  BY DEF Place, stats, sessions, work
<1>7. spent' \in Nat /\ gauge' \in Gauge
  BY <1>2, <1>3, <1>4, <1>5 DEF Gauge
<1>8. ChargesTypeOK'
  BY <1>6, <1>7 DEF ChargesInv, ChargesTypeOK
<1>9. Aged' /\ AnswersHold'
  BY <1>2, <1>4, <1>5, <1>6 DEF ChargesInv, Aged, AnswersHold
<1>10. NeverAboveCeiling'
  BY <1>1, <1>2, <1>4, <1>5, <1>6 DEF ChargesInv, NeverAboveCeiling
<1>11. EarnedByPlaying'
  BY <1>3, <1>5, <1>6 DEF ChargesInv, EarnedByPlaying
<1>12. spent' + gauge'.c = spent + r.c /\ gauge'.ts = r.ts
  BY <1>2, <1>3, <1>4, <1>5
<1>13. NeverOverspends'
  BY <1>2, <1>6, <1>12 DEF NeverOverspends
<1> QED
  BY <1>8, <1>9, <1>10, <1>11, <1>13 DEF ChargesInv

LEMMA GrantKeeps ==
  ASSUME ChargesInv, NEW j \in jobs, Grant(j)
  PROVE  ChargesInv'
<1> USE ScriptAssumption, ChargesAssumption
<1> DEFINE r == Refilled(gauge, now, j.max)
           p == Pinned(AtMost(r.c + j.charges, j.max), r.ts, j.max, now)
<1>1. j.max \in Nat /\ j.max <= Base + bonus /\ j.charges \in 1..Cap
  BY DEF ChargesInv, ChargesTypeOK, NeverAboveCeiling, Job
<1>2. /\ r.c \in Nat /\ r.c <= j.max /\ r.ts \in Nat /\ r.ts <= now
      /\ Interval * (spent + r.c) <= Interval * (Base + granted) + Amount * r.ts
  BY <1>1, RefillInBudget
<1>3. gauge' = Stored(p, now) /\ granted' = granted + j.charges
  BY DEF Grant, Granted
<1> HIDE DEF r
<1>4. /\ now \in Nat /\ bonus \in 0..Cap /\ spent \in Nat /\ granted \in Nat
  BY DEF ChargesInv, ChargesTypeOK
<1>5. /\ p.c \in Nat /\ p.c <= j.max /\ p.c <= r.c + j.charges
      /\ p.ts \in Nat /\ r.ts <= p.ts /\ p.ts <= now
  BY <1>1, <1>2, <1>4 DEF Pinned, AtMost
<1> HIDE DEF p
<1>6. gauge' = [c |-> p.c, ts |-> p.ts, dies |-> now + GaugeTtl]
  BY <1>3 DEF Stored
<1>7. UNCHANGED <<now, spent, accrued, bonus, status, resolved, asks, posts>>
      /\ jobs' \subseteq jobs
  BY DEF Grant, stats, sessions
<1>8. granted' \in Nat /\ gauge' \in Gauge
  BY <1>1, <1>3, <1>4, <1>5, <1>6 DEF Gauge
<1>9. ChargesTypeOK'
  BY <1>7, <1>8 DEF ChargesInv, ChargesTypeOK
<1>10. Aged' /\ AnswersHold'
  BY <1>4, <1>5, <1>6, <1>7 DEF ChargesInv, Aged, AnswersHold
<1>11. NeverAboveCeiling'
  BY <1>1, <1>4, <1>5, <1>6, <1>7 DEF ChargesInv, NeverAboveCeiling
<1>12. EarnedByPlaying'
  BY <1>7 DEF ChargesInv, EarnedByPlaying
<1>13. NeverOverspends'
  <2>1. Interval * (spent + p.c) <= Interval * (spent + r.c + j.charges)
    BY <1>1, <1>2, <1>4, <1>5, TimesMono
  <2>2. /\ Interval * (spent + r.c + j.charges) = Interval * (spent + r.c) + Interval * j.charges
        /\ Interval * (Base + granted + j.charges) = Interval * (Base + granted) + Interval * j.charges
    BY <1>1, <1>2, <1>4, Distributes
  <2>3. Amount * r.ts <= Amount * p.ts
    BY <1>2, <1>5, TimesMono
  <2>4. \A x \in {Interval * (spent + p.c), Interval * (spent + r.c), Interval * j.charges,
                  Interval * (Base + granted), Amount * r.ts, Amount * p.ts} : x \in Int
    BY <1>1, <1>2, <1>4, <1>5
  <2>5. Interval * (spent + p.c) <= Interval * (Base + granted + j.charges) + Amount * p.ts
    BY <1>2, <2>1, <2>2, <2>3, <2>4
  <2>6. gauge'.c = p.c /\ gauge'.ts = p.ts /\ spent' = spent
        /\ Base + granted' = Base + granted + j.charges
    BY <1>1, <1>3, <1>4, <1>6, <1>7
  <2> QED
    BY <2>5, <2>6 DEF NeverOverspends
<1> QED
  BY <1>9, <1>10, <1>11, <1>12, <1>13 DEF ChargesInv

LEMMA SessionKeeps ==
  ASSUME ChargesInv,
         \/ \E s \in Sessions : Open(s) \/ Close(s)
         \/ \E a \in asks : Answer(a) \/ Refresh(a) \/ RefreshFails(a)
  PROVE  ChargesInv'
<1> USE ScriptAssumption, ChargesAssumption DEF stats, sessions, work
<1>1. UNCHANGED <<now, gauge, spent, granted, accrued, bonus, posts>>
  BY DEF Open, Close, Answer, Refresh, RefreshFails
<1>2. NeverOverspends' /\ EarnedByPlaying' /\ Aged'
  BY <1>1 DEF ChargesInv, NeverOverspends, EarnedByPlaying, Aged
<1>3. /\ bonus \in 0..Cap /\ asks \subseteq Ask /\ jobs \subseteq Job
      /\ resolved \in [Sessions -> 0..Cap]
      /\ \A s \in Sessions : resolved[s] <= bonus
      /\ \A a \in asks : a.answer <= bonus
      /\ \A j \in jobs : j.max <= Base + bonus
  BY DEF ChargesInv, ChargesTypeOK, AnswersHold, NeverAboveCeiling
<1>4. SUFFICES /\ status' \in [Sessions -> {"new", "up", "closed"}]
               /\ resolved' \in [Sessions -> 0..Cap] /\ asks' \subseteq Ask /\ jobs' \subseteq Job
               /\ \A s \in Sessions : resolved'[s] <= bonus
               /\ \A a \in asks' : a.answer <= bonus
               /\ \A j \in jobs' : j.max <= Base + bonus
  BY <1>1, <1>2 DEF ChargesInv, ChargesTypeOK, AnswersHold, NeverAboveCeiling
<1>5. ASSUME NEW s \in Sessions, Open(s) \/ Close(s)
      PROVE  <1>4!1
  <2>1. status' \in [Sessions -> {"new", "up", "closed"}]
    BY <1>5 DEF Open, Close, ChargesInv, ChargesTypeOK
  <2>2. Asking(s, 0) \in Ask /\ Asking(s, 0).answer <= bonus
    BY <1>3 DEF Asking, Ask, Unanswered
  <2> QED
    BY <1>3, <1>5, <2>1, <2>2 DEF Open, Close
<1>6. ASSUME NEW a \in asks, Answer(a)
      PROVE  <1>4!1
  <2>1. [a EXCEPT !.answer = bonus] \in Ask
    BY <1>3 DEF Ask
  <2>2. [a EXCEPT !.answer = bonus].answer = bonus
    BY <1>3 DEF Ask
  <2>3. asks' = (asks \ {a}) \cup {[a EXCEPT !.answer = bonus]} /\ UNCHANGED <<sessions, jobs>>
    BY <1>6 DEF Answer
  <2>4. ASSUME NEW x \in asks'
        PROVE  x \in Ask /\ x.answer <= bonus
    <3>1. CASE x = [a EXCEPT !.answer = bonus]
      <4> bonus <= bonus
        BY <1>3
      <4> QED
        BY <2>1, <2>2, <3>1
    <3>2. CASE x \in asks
      BY <1>3, <3>2
    <3> QED
      BY <2>3, <3>1, <3>2
  <2>5. status' \in [Sessions -> {"new", "up", "closed"}]
    BY <2>3 DEF ChargesInv, ChargesTypeOK
  <2> QED
    BY <1>3, <2>3, <2>4, <2>5
<1>7. ASSUME NEW a \in asks, NEW b \in 0..Cap, b <= bonus, Resume(a, b)
      PROVE  jobs' \subseteq Job /\ \A j \in jobs' : j.max <= Base + bonus
  <2>1. ASSUME NEW j \in jobs
        PROVE  LET i == [j EXCEPT !.todo = @ \ {a.session}, !.max = Larger(@, Base + b)]
               IN  i \in Job /\ i.max <= Base + bonus
    <3>1. /\ j \in [tier: 1..Cap, charges: 1..Cap, todo: SUBSET Sessions, max: Nat]
          /\ j.max \in Nat /\ j.max <= Base + bonus /\ j.todo \ {a.session} \subseteq Sessions
      BY <1>3 DEF Job
    <3>2. Larger(j.max, Base + b) \in Nat /\ Larger(j.max, Base + b) <= Base + bonus
      BY <1>3, <1>7, <3>1 DEF Larger
    <3> QED
      BY <3>1, <3>2 DEF Job
  <2> QED
    BY <1>3, <1>7, <2>1 DEF Resume
<1>8. ASSUME NEW a \in asks, Refresh(a) \/ RefreshFails(a)
      PROVE  <1>4!1
  <2>1. a.session \in Sessions /\ resolved[a.session] \in 0..Cap /\ resolved[a.session] <= bonus
    BY <1>3 DEF Ask
  <2>2. CASE Refresh(a)
    <3>1. a.answer \in 0..Cap /\ a.answer <= bonus
      BY <1>3, <2>2 DEF Refresh, Ask
    <3> QED
      BY <1>3, <1>7, <2>1, <2>2, <3>1 DEF Refresh, ChargesInv, ChargesTypeOK
  <2>3. CASE RefreshFails(a)
    BY <1>3, <1>7, <2>1, <2>3 DEF RefreshFails, ChargesInv, ChargesTypeOK
  <2> QED
    BY <1>8, <2>2, <2>3
<1> QED
  BY <1>5, <1>6, <1>8

LEMMA ConvexKeeps ==
  ASSUME ChargesInv, Tick \/ Accrue \/ \E k \in 1..Cap : ClaimTier(k)
  PROVE  ChargesInv'
<1> USE ScriptAssumption, ChargesAssumption DEF stats, sessions, work
<1>1. UNCHANGED <<gauge, spent, granted, status, resolved, asks, jobs>>
  BY DEF Tick, Accrue, ClaimTier
<1>2. NeverOverspends'
  BY <1>1 DEF ChargesInv, NeverOverspends
<1>3. /\ now \in Nat /\ spent \in Nat /\ accrued \in Nat /\ bonus \in 0..Cap /\ accrued <= spent
      /\ gauge.c \in Nat /\ gauge.ts \in Nat /\ posts \subseteq Post
      /\ resolved \in [Sessions -> 0..Cap] /\ asks \subseteq Ask /\ jobs \subseteq Job
  BY DEF ChargesInv, ChargesTypeOK, EarnedByPlaying, Gauge
<1>4. CASE Tick
  BY <1>1, <1>2, <1>3, <1>4 DEF Tick, ChargesInv, ChargesTypeOK, Aged, AnswersHold,
     NeverAboveCeiling, EarnedByPlaying
<1>5. CASE Accrue
  <2>1. accrued' \in Nat /\ accrued' <= spent /\ accrued' = accrued + 1
    BY <1>3, <1>5 DEF Accrue
  <2>2. EarnedTier(bonus, accrued) => EarnedTier(bonus, accrued + 1)
    <3>1. Cost * bonus * (bonus + 1) \in Nat
      BY <1>3
    <3> QED
      BY <1>3, <3>1 DEF EarnedTier
  <2>3. EarnedByPlaying'
    BY <1>1, <1>5, <2>1, <2>2 DEF Accrue, ChargesInv, EarnedByPlaying
  <2> QED
    BY <1>1, <1>2, <1>5, <2>1, <2>3 DEF Accrue, ChargesInv, ChargesTypeOK, Aged, AnswersHold,
       NeverAboveCeiling
<1>6. ASSUME NEW k \in 1..Cap, ClaimTier(k)
      PROVE  ChargesInv'
  <2>1. UNCHANGED <<now, accrued>> /\ bonus' = k /\ bonus <= k /\ EarnedTier(k, accrued)
    BY <1>3, <1>6 DEF ClaimTier
  <2>2. [tier |-> k, charges |-> k - bonus] \in Post
    BY <1>3, <1>6 DEF ClaimTier, Post
  <2>3. ChargesTypeOK'
    BY <1>1, <1>6, <2>1, <2>2 DEF ClaimTier, ChargesInv, ChargesTypeOK
  <2>4. NeverAboveCeiling' /\ AnswersHold'
    BY <1>1, <1>3, <2>1 DEF ChargesInv, NeverAboveCeiling, AnswersHold, Ask, Job, Unanswered
  <2> QED
    BY <1>1, <1>2, <1>3, <2>1, <2>3, <2>4 DEF ChargesInv, EarnedByPlaying, Aged
<1> QED
  BY <1>4, <1>5, <1>6

LEMMA ClaimKeeps ==
  ASSUME ChargesInv,
         \/ \E p \in posts : PostLost(p) \/ PostArrives(p)
         \/ \E j \in jobs : AskNext(j) \/ GrantFails(j)
  PROVE  ChargesInv'
<1> USE ScriptAssumption, ChargesAssumption DEF stats, sessions, work
<1>1. UNCHANGED <<now, gauge, spent, granted, accrued, bonus, status, resolved>>
  BY DEF PostLost, PostArrives, AskNext, GrantFails
<1>2. NeverOverspends' /\ EarnedByPlaying' /\ Aged'
  BY <1>1 DEF ChargesInv, NeverOverspends, EarnedByPlaying, Aged
<1>3. /\ bonus \in 0..Cap /\ asks \subseteq Ask /\ posts \subseteq Post /\ jobs \subseteq Job
      /\ \A a \in asks : a.answer <= bonus
      /\ \A j \in jobs : j.max <= Base + bonus
  BY DEF ChargesInv, ChargesTypeOK, AnswersHold, NeverAboveCeiling
<1>4. SUFFICES /\ asks' \subseteq Ask /\ posts' \subseteq Post /\ jobs' \subseteq Job
               /\ \A a \in asks' : a.answer <= bonus
               /\ \A j \in jobs' : j.max <= Base + bonus
  BY <1>1, <1>2 DEF ChargesInv, ChargesTypeOK, AnswersHold, NeverAboveCeiling
<1>5. ASSUME NEW p \in posts, PostLost(p) \/ PostArrives(p)
      PROVE  <1>4!1
  <2> DEFINE conns == {s \in Sessions : status[s] = "up"}
             new == [tier |-> p.tier, charges |-> p.charges, todo |-> conns, max |-> Base]
  <2>1. p.tier \in 1..Cap /\ p.charges \in 1..Cap
    BY <1>3 DEF Post
  <2>2. new \in Job /\ new.max = Base /\ Base <= Base + bonus
    BY <1>3, <2>1 DEF Job
  <2>3. UNCHANGED asks /\ posts' \subseteq posts /\ (jobs' = jobs \/ jobs' = jobs \cup {new})
    BY <1>5 DEF PostLost, PostArrives
  <2> HIDE DEF new
  <2> QED
    BY <1>3, <2>2, <2>3
<1>6. ASSUME NEW j \in jobs, AskNext(j)
      PROVE  <1>4!1
  <2>1. j.tier \in 0..Cap /\ j.todo \subseteq Sessions
    BY <1>3 DEF Job
  <2>2. PICK s \in j.todo : asks' = asks \cup {Asking(s, j.tier)}
    BY <1>6 DEF AskNext
  <2>3. Asking(s, j.tier) \in Ask /\ Asking(s, j.tier).answer <= bonus
    BY <1>3, <2>1, <2>2 DEF Asking, Ask, Unanswered
  <2> QED
    BY <1>3, <1>6, <2>2, <2>3 DEF AskNext
<1>7. ASSUME NEW j \in jobs, GrantFails(j)
      PROVE  <1>4!1
  BY <1>3, <1>7 DEF GrantFails
<1> QED
  BY <1>5, <1>6, <1>7

LEMMA ChargesInitInv == ChargesInit => ChargesInv
<1> USE ScriptAssumption, ChargesAssumption
<1>1. Interval * (Base + 0) \in Nat /\ Interval * 0 = 0 /\ Amount * 0 = 0
  OBVIOUS
<1> QED
  BY <1>1 DEF ChargesInit, ChargesInv, ChargesTypeOK, Aged, AnswersHold, NeverAboveCeiling,
     EarnedByPlaying, NeverOverspends, NoGauge, Gauge

LEMMA ChargesStep == ChargesInv /\ [ChargesNext]_chargesVars => ChargesInv'
<1> SUFFICES ASSUME ChargesInv, [ChargesNext]_chargesVars PROVE ChargesInv'
  OBVIOUS
<1>1. CASE \E s \in Sessions : Place(s)
  BY <1>1, PlaceKeeps
<1>2. CASE \E j \in jobs : Grant(j)
  BY <1>2, GrantKeeps
<1>3. CASE UNCHANGED chargesVars
  BY <1>3 DEF chargesVars, stats, sessions, work, ChargesInv, ChargesTypeOK, Aged, AnswersHold,
     NeverAboveCeiling, EarnedByPlaying, NeverOverspends
<1> QED
  BY <1>1, <1>2, <1>3, SessionKeeps, ConvexKeeps, ClaimKeeps DEF ChargesNext

\* The invariants of the gauge's types (place.lua, points.ts, gaugeBonus.ts).
THEOREM ChargesTypes == ChargesSpec => []ChargesTypeOK
<1>1. ChargesInv => ChargesTypeOK
  BY DEF ChargesInv
<1> QED
  BY <1>1, ChargesInitInv, ChargesStep, PTL DEF ChargesSpec

\* No viewer places more than the base, the granted charges and the elapsed intervals
\* allow, whatever tabs, claims, late or lost answers do (place.lua, grant.lua).
THEOREM Budget == ChargesSpec => []NeverOverspends
<1>1. ChargesInv => NeverOverspends
  BY DEF ChargesInv
<1> QED
  BY <1>1, ChargesInitInv, ChargesStep, PTL DEF ChargesSpec

\* No session, claim or gauge is ahead of the bonus Convex holds (SessionGauge.refresh,
\* grantUserCharge).
THEOREM Ceilings == ChargesSpec => []NeverAboveCeiling
<1>1. ChargesInv => NeverAboveCeiling
  BY DEF ChargesInv
<1> QED
  BY <1>1, ChargesInitInv, ChargesStep, PTL DEF ChargesSpec

\* Confirmed tiers are earned ones, and points come from placements (claimTier).
THEOREM Progression == ChargesSpec => []EarnedByPlaying
<1>1. ChargesInv => EarnedByPlaying
  BY DEF ChargesInv
<1> QED
  BY <1>1, ChargesInitInv, ChargesStep, PTL DEF ChargesSpec
-----------------------------------------------------------------------------
LEMMA DivShift ==
  ASSUME NEW a \in Nat, NEW b \in Nat \ {0}, NEW k \in Nat, b * k <= a
  PROVE  (a - b * k) \div b = a \div b - k
  OBVIOUS

LEMMA DivAbove ==
  ASSUME NEW a \in Nat, NEW b \in Nat \ {0}, NEW k \in Nat
  PROVE  a \div b >= k <=> a >= b * k
  OBVIOUS

\* A viewer without a charge gets one at the next whole tick.
LEMMA EmptyUntil ==
  ASSUME ChargesInv, NEW max \in Nat, max >= Base, now < gauge.dies,
         Refilled(gauge, now, max).c < 1, NEW t \in Nat, now <= t, t < gauge.dies
  PROVE  LET until == CooldownUntil(Refilled(gauge, now, max))
         IN  until > now /\ (Refilled(gauge, t, max).c >= 1 <=> t >= until)
<1> USE ScriptAssumption, ChargesAssumption
<1> DEFINE k == Ticks(gauge.ts, now)
           l == Ticks(gauge.ts, t)
<1>1. /\ gauge.c \in Nat /\ gauge.ts \in Nat /\ now \in Nat /\ gauge.ts <= now
      /\ gauge.dies \in Nat
  BY DEF ChargesInv, ChargesTypeOK, Aged, Gauge
<1>2. k \in Nat /\ l \in Nat
  BY <1>1, DivBounds DEF Ticks
<1>3. gauge.c = 0 /\ k = 0 /\ Refilled(gauge, now, max).ts = gauge.ts
  <2> HIDE DEF k
  <2>1. k * Amount \in Nat /\ (k > 0 => k * Amount > 0)
    BY <1>2
  <2>2. Refilled(gauge, now, max) =
          Pinned(IF k > 0 THEN AtMost(gauge.c + k * Amount, max) ELSE gauge.c,
                 gauge.ts + k * Interval, max, now)
    BY <1>1 DEF Refilled, k
  <2>3. gauge.c = 0 /\ k = 0
    BY <1>1, <1>2, <2>1, <2>2 DEF Pinned, AtMost
  <2> QED
    BY <1>1, <2>2, <2>3 DEF Pinned
<1>4. now < gauge.ts + Interval
  BY <1>1, <1>3, DivAbove DEF Ticks
<1>5. t >= gauge.ts + Interval <=> l >= 1
  BY <1>1, DivAbove DEF Ticks
<1>6. Refilled(gauge, t, max).c >= 1 <=> l >= 1
  <2> HIDE DEF l
  <2>1. l * Amount \in Nat /\ (l > 0 => l * Amount > 0)
    BY <1>2
  <2>2. Refilled(gauge, t, max) =
          Pinned(IF l > 0 THEN AtMost(gauge.c + l * Amount, max) ELSE gauge.c,
                 gauge.ts + l * Interval, max, t)
    BY <1>1 DEF Refilled, l
  <2> QED
    BY <1>1, <1>2, <1>3, <2>1, <2>2 DEF Pinned, AtMost
<1> QED
  BY <1>1, <1>3, <1>4, <1>5, <1>6 DEF CooldownUntil

\* The time a refusal names is the first at which the viewer has a charge again
\* (place.lua).
THEOREM HonestCooldown == ChargesSpec => []CooldownIsHonest
<1>1. ChargesInv => CooldownIsHonest
  <2> SUFFICES ASSUME ChargesInv, NEW max \in Base..(Base + bonus),
                      Refilled(gauge, now, max).c < 1
               PROVE  /\ CooldownUntil(Refilled(gauge, now, max)) > now
                      /\ \A t \in now..MaxTime : t < gauge.dies =>
                           (Refilled(gauge, t, max).c >= 1 <=>
                              t >= CooldownUntil(Refilled(gauge, now, max)))
    BY DEF CooldownIsHonest
  <2>1. now \in Nat /\ bonus \in Nat /\ max \in Nat /\ max >= Base /\ gauge.dies \in Nat
    BY ChargesAssumption DEF ChargesInv, ChargesTypeOK, Gauge
  <2>2. now < gauge.dies
    BY <2>1, ChargesAssumption DEF Refilled
  <2>3. CooldownUntil(Refilled(gauge, now, max)) > now
    BY <2>1, <2>2, EmptyUntil
  <2>4. ASSUME NEW t \in now..MaxTime, t < gauge.dies
        PROVE  Refilled(gauge, t, max).c >= 1 <=> t >= CooldownUntil(Refilled(gauge, now, max))
    <3>1. t \in Nat /\ now <= t
      BY <2>1, ChargesAssumption
    <3> QED
      BY <2>1, <2>2, <2>4, <3>1, EmptyUntil
  <2> QED
    BY <2>3, <2>4
<1> QED
  BY <1>1, ChargesInitInv, ChargesStep, PTL DEF ChargesSpec

\* Storing a refill and refilling again later is refilling once.
LEMMA RefillTwice ==
  ASSUME NEW g \in Gauge, NEW t \in Nat, NEW u \in Nat, g.ts <= t, t <= u, u < g.dies,
         NEW max \in Nat
  PROVE  LET r == Refilled(g, t, max)
         IN  Refilled([c |-> r.c, ts |-> r.ts, dies |-> g.dies], u, max) = Refilled(g, u, max)
<1> USE ScriptAssumption
<1> DEFINE k == Ticks(g.ts, t)
           l == Ticks(g.ts, u)
           r == Refilled(g, t, max)
           h == [c |-> r.c, ts |-> r.ts, dies |-> g.dies]
           j == Ticks(r.ts, u)
           c == IF k > 0 THEN AtMost(g.c + k * Amount, max) ELSE g.c
<1>1. /\ g.c \in Nat /\ g.ts \in Nat /\ g.dies \in Nat
      /\ g = [c |-> g.c, ts |-> g.ts, dies |-> g.dies]
  BY DEF Gauge
<1>2. /\ r.c \in Nat /\ r.c <= max /\ r.ts \in Nat /\ r.ts <= t
  BY RefillType
<1>3. k \in Nat /\ l \in Nat /\ j \in Nat /\ k <= l
  <2>1. k \in Nat /\ l \in Nat /\ j \in Nat
    BY <1>1, <1>2, DivBounds DEF Ticks
  <2>2. Interval * k <= u - g.ts
    BY <1>1, DivBounds DEF Ticks
  <2>3. CASE u > g.ts
    <3>1. l = (u - g.ts) \div Interval
      BY <2>3 DEF Ticks
    <3>2. u - g.ts \in Nat
      BY <1>1, <2>3
    <3> HIDE DEF k, l, j
    <3>3. l >= k
      BY <2>1, <2>2, <3>1, <3>2, DivAbove
    <3> QED
      BY <2>1, <3>3
  <2>4. CASE ~(u > g.ts)
    <3>1. k = 0
      BY <1>1, <2>4 DEF Ticks
    <3> HIDE DEF k, l, j
    <3> QED
      BY <2>1, <3>1
  <2> QED
    BY <1>1, <2>1, <2>3, <2>4
<1>4. /\ r = Pinned(c, g.ts + k * Interval, max, t)
      /\ Refilled(g, u, max) =
           Pinned(IF l > 0 THEN AtMost(g.c + l * Amount, max) ELSE g.c,
                  g.ts + l * Interval, max, u)
      /\ Refilled(h, u, max) =
           Pinned(IF j > 0 THEN AtMost(r.c + j * Amount, max) ELSE r.c,
                  r.ts + j * Interval, max, u)
  BY <1>1 DEF Refilled
<1>5. /\ k * Amount \in Nat /\ l * Amount \in Nat /\ j * Amount \in Nat
      /\ k * Amount <= l * Amount
  BY <1>3, TimesMono
<1>6. g.ts + k * Interval \in Nat /\ g.ts + k * Interval <= t
  BY <1>1, DivBounds DEF Ticks
<1>7. CASE c >= max
  <2> HIDE DEF k, l, j, c, r, h
  <2>1. r.c = max
    BY <1>4, <1>7 DEF Pinned
  <2>2. Refilled(h, u, max) = [c |-> max, ts |-> u]
    <3>1. (IF j > 0 THEN AtMost(r.c + j * Amount, max) ELSE r.c) = max
      BY <1>5, <2>1 DEF AtMost
    <3> QED
      BY <1>4, <3>1 DEF Pinned
  <2>3. (IF l > 0 THEN AtMost(g.c + l * Amount, max) ELSE g.c) >= max
    <3> USE DEF c
    <3> QED
      BY <1>1, <1>3, <1>5, <1>7 DEF AtMost
  <2>4. Refilled(g, u, max) = [c |-> max, ts |-> u]
    BY <1>4, <2>3 DEF Pinned
  <2> QED
    BY <2>2, <2>4 DEF r, h
<1>8. CASE ~(c >= max)
  <2>1. r.c = c /\ r.ts = g.ts + k * Interval
    <3> HIDE DEF r, c, k
    <3> QED
      BY <1>4, <1>8 DEF Pinned
  <2>2. c = g.c + k * Amount
    <3> HIDE DEF k
    <3>1. k = 0 => k * Amount = 0
      OBVIOUS
    <3> QED
      BY <1>1, <1>3, <1>5, <1>8, <3>1 DEF AtMost
  <2>3. j = l - k
    <3>1. u - r.ts = (u - g.ts) - Interval * k /\ u >= r.ts /\ Interval * k <= u - g.ts
      BY <1>1, <1>2, <1>3, <1>6, <2>1
    <3>2. \A ts \in Nat : ts <= u => Ticks(ts, u) = (u - ts) \div Interval
      BY DEF Ticks
    <3>3. j = (u - r.ts) \div Interval /\ l = (u - g.ts) \div Interval
      BY <1>1, <1>2, <3>2
    <3>4. u - g.ts \in Nat
      BY <1>1
    <3>5. ((u - g.ts) - Interval * k) \div Interval = (u - g.ts) \div Interval - k
      <4> HIDE DEF k, l, j, r
      <4> QED
        BY <1>3, <3>1, <3>4, DivShift
    <3> HIDE DEF k, l, j, r
    <3> QED
      BY <3>1, <3>3, <3>5
  <2> HIDE DEF k, l, j, c, r, h
  <2>4. /\ r.ts + j * Interval = g.ts + l * Interval
        /\ r.c + j * Amount = g.c + l * Amount
    BY <1>1, <1>2, <1>3, <2>1, <2>2, <2>3
  <2>5. (IF j > 0 THEN AtMost(r.c + j * Amount, max) ELSE r.c)
          = IF l > 0 THEN AtMost(g.c + l * Amount, max) ELSE g.c
    <3>1. CASE j > 0
      BY <1>3, <2>3, <2>4, <3>1
    <3>2. CASE j = 0
      <4>1. j * Amount = 0 /\ (l = 0 => l * Amount = 0)
        BY <3>2
      <4>2. r.c = g.c + l * Amount /\ ~(r.c > max)
        BY <1>1, <1>2, <1>5, <2>4, <4>1
      <4>3. CASE l = 0
        BY <1>1, <3>2, <4>1, <4>2, <4>3
      <4>4. CASE l > 0
        BY <3>2, <4>2, <4>4 DEF AtMost
      <4> QED
        BY <1>3, <4>3, <4>4
    <3> QED
      BY <1>3, <3>1, <3>2
  <2>6. Refilled(h, u, max) = Refilled(g, u, max)
    BY <1>4, <2>4, <2>5
  <2> QED
    BY <2>6 DEF r, h
<1> QED
  BY <1>7, <1>8

\* Peeking, storing and placing see the same gauge, whatever happened in between
\* (refill-peek.lua, grant.lua, place.lua).
THEOREM OneGauge == ChargesSpec => []PeekAgrees
<1>1. ChargesInv => PeekAgrees
  <2> SUFFICES ASSUME ChargesInv, NEW max \in Base..(Base + bonus),
                      NEW t \in now..MaxTime, NEW u \in now..MaxTime, t <= u, u < gauge.dies
               PROVE  LET halfway == Refilled(gauge, t, max)
                      IN  Refilled([c |-> halfway.c, ts |-> halfway.ts, dies |-> gauge.dies],
                                   u, max) = Refilled(gauge, u, max)
    BY DEF PeekAgrees
  <2>1. now \in Nat /\ bonus \in Nat /\ gauge \in Gauge /\ gauge.ts \in Nat /\ gauge.ts <= now
    BY ChargesAssumption DEF ChargesInv, ChargesTypeOK, Aged, Gauge
  <2>2. max \in Nat /\ t \in Nat /\ u \in Nat /\ gauge.ts <= t
    BY <2>1, ChargesAssumption
  <2> QED
    BY <2>1, <2>2, RefillTwice
<1> QED
  BY <1>1, ChargesInitInv, ChargesStep, PTL DEF ChargesSpec
-----------------------------------------------------------------------------
\* A non-empty set of naturals has a least element.
LEMMA LeastOf ==
  ASSUME NEW S \in SUBSET Nat, S # {}
  PROVE  \E s \in S : \A j \in S : s <= j
<1> DEFINE Less == {ss \in Nat \X Nat : ss[1] < ss[2]}
<1>1. IsWellFoundedOn(Less, Nat)
  BY NatLessThanWellFounded DEF OpToRel
<1> HIDE DEF Less
<1>2. PICK s \in S : \A m \in S : ~ (<<m, s>> \in Less)
  BY <1>1, WFMin
<1>3. \A m \in S : ~ (m < s)
  BY <1>2 DEF Less
<1> QED
  BY <1>3

\* What the sum over the subsets of S, element by element, has to be.
Pick(S) == CHOOSE x \in S : TRUE
SumOver(f, s) == IF s = {} THEN 0 ELSE Pick(s).charges + f[s \ {Pick(s)}]
Sums(f, S) == f = [s \in SUBSET S |-> SumOver(f, s)]

\* A part of a finite set has a size, and one element less one less.
LEMMA PartSizes ==
  ASSUME NEW S, IsFiniteSet(S)
  PROVE  \A s \in SUBSET S :
            /\ IsFiniteSet(s) /\ Cardinality(s) \in Nat
            /\ s = {} <=> Cardinality(s) = 0
            /\ \A x \in s : /\ s \ {x} \in SUBSET S
                            /\ Cardinality(s \ {x}) = Cardinality(s) - 1
<1> TAKE s \in SUBSET S
<1>1. IsFiniteSet(s)
  BY FS_Subset
<1> QED
  BY <1>1, FS_CardinalityType, FS_EmptySet, FS_RemoveElement

\* A set that is not empty has an element to pick.
LEMMA PickIs ==
  ASSUME NEW S, S # {}
  PROVE  Pick(S) \in S
  BY DEF Pick

\* There is such a function: up to any size of subsets, hence for all of them.
LEMMA SumsExist ==
  ASSUME NEW S, IsFiniteSet(S)
  PROVE  \E f : Sums(f, S)
<1> DEFINE Upto(n) == {s \in SUBSET S : Cardinality(s) <= n}
           Part(f, n) == f = [s \in Upto(n) |-> SumOver(f, s)]
           Bad == {n \in Nat : \A f : ~Part(f, n)}
<1>1. ASSUME Bad # {}
      PROVE  FALSE
  <2>1. PICK n \in Nat : n \in Bad /\ \A m \in Bad : n <= m
    BY <1>1, LeastOf
  <2>2. CASE n = 0
    <3>1. Upto(0) = {{}}
      BY PartSizes
    <3>2. Part([s \in Upto(0) |-> 0], 0)
      BY <3>1 DEF SumOver
    <3> QED
      BY <2>1, <2>2, <3>2
  <2>3. CASE n # 0
    <3>1. n - 1 \in Nat /\ n - 1 \notin Bad
      BY <2>1, <2>3
    <3>2. PICK f : Part(f, n - 1)
      BY <3>1
    <3> DEFINE g == [s \in Upto(n) |-> SumOver(f, s)]
    <3>3. \A s \in Upto(n) : s # {} => s \ {Pick(s)} \in Upto(n - 1) /\ s \ {Pick(s)} \in Upto(n)
      BY <2>1, PartSizes, PickIs
    <3>4. \A s \in Upto(n - 1) : f[s] = SumOver(f, s)
      BY <3>2
    <3>5. \A s \in Upto(n) : g[s] = SumOver(f, s)
      OBVIOUS
    <3> HIDE DEF g
    <3>6. \A s \in Upto(n) : SumOver(f, s) = SumOver(g, s)
      BY <3>3, <3>4, <3>5 DEF SumOver
    <3>7. Part(g, n)
      BY <3>6 DEF g
    <3> QED
      BY <2>1, <3>7
  <2> QED
    BY <2>2, <2>3
<1>2. Cardinality(S) \in Nat /\ Cardinality(S) \notin Bad
  BY <1>1, PartSizes
<1>3. Upto(Cardinality(S)) = SUBSET S
  <2>1. ASSUME NEW s \in SUBSET S
        PROVE  Cardinality(s) <= Cardinality(S)
    BY FS_Subset
  <2> QED
    BY <2>1
<1>4. PICK f : Part(f, Cardinality(S))
  BY <1>2
<1>5. Sums(f, S)
  BY <1>3, <1>4 DEF Sums
<1> QED
  BY <1>5

\* There is one only, whatever set it is taken over.
LEMMA SumsAgree ==
  ASSUME NEW S, IsFiniteSet(S), NEW T \in SUBSET S, NEW f, NEW g, Sums(f, S), Sums(g, T)
  PROVE  \A s \in SUBSET T : f[s] = g[s]
<1> DEFINE Bad == {n \in Nat : \E s \in SUBSET T : Cardinality(s) = n /\ f[s] # g[s]}
<1>1. \A s \in SUBSET T : f[s] = SumOver(f, s) /\ g[s] = SumOver(g, s)
  BY DEF Sums
<1>2. ASSUME Bad # {}
      PROVE  FALSE
  <2>1. PICK n \in Bad : \A m \in Bad : n <= m
    BY <1>2, LeastOf
  <2>2. PICK s \in SUBSET T : Cardinality(s) = n /\ f[s] # g[s]
    BY <2>1
  <2>3. s # {}
    BY <1>1, <2>2 DEF SumOver
  <2>4. /\ s \ {Pick(s)} \in SUBSET T /\ Cardinality(s \ {Pick(s)}) = n - 1
        /\ Cardinality(s \ {Pick(s)}) \in Nat
    BY <2>2, <2>3, PartSizes, PickIs
  <2>5. f[s \ {Pick(s)}] = g[s \ {Pick(s)}]
    BY <2>1, <2>4
  <2> QED
    BY <1>1, <2>2, <2>3, <2>5 DEF SumOver
<1>3. \A s \in SUBSET T : Cardinality(s) \in Nat
  BY PartSizes
<1> QED
  BY <1>2, <1>3

\* Nothing adds up to nothing, and a set adds up to one of its elements and the rest.
LEMMA SumStep ==
  ASSUME NEW S, IsFiniteSet(S)
  PROVE  ChargesOf(S) = IF S = {} THEN 0 ELSE Pick(S).charges + ChargesOf(S \ {Pick(S)})
<1>1. ASSUME NEW T
      PROVE  \E f : f = (CHOOSE g : Sums(g, T)) /\ ChargesOf(T) = f[T]
  BY DEF ChargesOf, MapThenSumSet, MapThenFoldSet, Sums, SumOver, Pick
<1>2. ASSUME NEW T \in SUBSET S
      PROVE  \E f : Sums(f, T) /\ ChargesOf(T) = f[T]
  <2>1. IsFiniteSet(T)
    BY FS_Subset
  <2>2. \E f : Sums(f, T)
    BY <2>1, SumsExist
  <2> QED
    BY <1>1, <2>2
<1>3. PICK f : Sums(f, S) /\ ChargesOf(S) = f[S]
  BY <1>2
<1>4. f[S] = SumOver(f, S)
  BY <1>3 DEF Sums
<1>5. CASE S = {}
  BY <1>3, <1>4, <1>5 DEF SumOver
<1>6. CASE S # {}
  <2> DEFINE T == S \ {Pick(S)}
  <2>1. PICK g : Sums(g, T) /\ ChargesOf(T) = g[T]
    BY <1>2
  <2>2. f[T] = g[T]
    BY <1>3, <2>1, SumsAgree
  <2> QED
    BY <1>3, <1>4, <1>6, <2>1, <2>2 DEF SumOver
<1> QED
  BY <1>5, <1>6

\* A finite set of claims, each of so many charges.
Counted(S) == IsFiniteSet(S) /\ \A x \in S : x.charges \in Nat

\* Whichever element is taken first, the sum is the same natural.
LEMMA SumSplit ==
  ASSUME NEW S, Counted(S)
  PROVE  /\ ChargesOf(S) \in Nat
         /\ \A x \in S : ChargesOf(S) = x.charges + ChargesOf(S \ {x})
<1> DEFINE Good(s) == /\ ChargesOf(s) \in Nat
                      /\ \A x \in s : ChargesOf(s) = x.charges + ChargesOf(s \ {x})
           Bad == {n \in Nat : \E s \in SUBSET S : Cardinality(s) = n /\ ~Good(s)}
<1> HIDE DEF Good
<1>1. ASSUME Bad # {}
      PROVE  FALSE
  <2>1. PICK n \in Nat : n \in Bad /\ \A m \in Bad : n <= m
    BY <1>1, LeastOf
  <2>2. PICK s \in SUBSET S : Cardinality(s) = n /\ ~Good(s)
    BY <2>1
  <2>0. ASSUME NEW t \in SUBSET S, Cardinality(t) \in Nat, Cardinality(t) < n
        PROVE  Good(t)
    <3>1. Cardinality(t) \notin Bad
      BY <2>1, <2>0
    <3> QED
      BY <2>0, <3>1
  <2> HIDE DEF Bad
  <2>3. \A x \in s : /\ s \ {x} \in SUBSET S /\ IsFiniteSet(s \ {x}) /\ x.charges \in Nat
                     /\ Cardinality(s \ {x}) \in Nat /\ Cardinality(s \ {x}) = n - 1
    BY <2>2, PartSizes DEF Counted
  <2>4. ASSUME NEW x \in s
        PROVE  Good(s \ {x})
    <3>1. Cardinality(s \ {x}) < n
      BY <2>3
    <3> QED
      BY <2>3, <2>0, <3>1
  <2>5. IsFiniteSet(s)
    BY <2>2, PartSizes DEF Counted
  <2>6. CASE s = {}
    <3>1. ChargesOf(s) = 0
      BY <2>5, <2>6, SumStep
    <3> QED
      BY <2>2, <2>6, <3>1 DEF Good
  <2>7. CASE s # {}
    <3> DEFINE p == Pick(s)
    <3>1. p \in s
      BY <2>7, PickIs
    <3>2. ChargesOf(s) = p.charges + ChargesOf(s \ {p})
      BY <2>5, <2>7, SumStep
    <3> HIDE DEF p
    <3>3. ChargesOf(s) \in Nat
      <4>1. Good(s \ {p}) /\ p.charges \in Nat
        BY <2>3, <2>4, <3>1
      <4> QED
        BY <3>2, <4>1 DEF Good
    <3>4. ASSUME NEW x \in s
          PROVE  ChargesOf(s) = x.charges + ChargesOf(s \ {x})
      <4>1. CASE x = p
        BY <3>2, <4>1
      <4>2. CASE x # p
        <5>1. x \in s \ {p} /\ p \in s \ {x} /\ (s \ {p}) \ {x} = (s \ {x}) \ {p}
          BY <3>1, <4>2
        <5>2. ChargesOf(s \ {p}) = x.charges + ChargesOf((s \ {p}) \ {x})
          BY <2>4, <3>1, <5>1 DEF Good
        <5>3. ChargesOf(s \ {x}) = p.charges + ChargesOf((s \ {x}) \ {p})
          BY <2>4, <5>1 DEF Good
        <5>4. p \in s \ {x} => /\ x.charges \in Nat /\ p.charges \in Nat
                               /\ ChargesOf(s \ {p}) \in Nat /\ ChargesOf(s \ {x}) \in Nat
          BY <2>3, <2>4, <3>1 DEF Good
        <5>5. ChargesOf((s \ {p}) \ {x}) \in Nat
          <6> DEFINE r == s \ {p}
          <6>1. r \in SUBSET S /\ Cardinality(r) = n - 1 /\ x \in r
            BY <2>3, <3>1, <5>1
          <6> HIDE DEF r
          <6>2. \A y \in r : r \ {y} \in SUBSET S /\ Cardinality(r \ {y}) = Cardinality(r) - 1
            BY <6>1, PartSizes DEF Counted
          <6>3. r \ {x} \in SUBSET S /\ Cardinality(r \ {x}) \in Nat /\ Cardinality(r \ {x}) < n
            BY <6>1, <6>2, PartSizes DEF Counted
          <6>4. ChargesOf(r \ {x}) \in Nat
            BY <6>3, <2>0 DEF Good
          <6> QED
            BY <6>4 DEF r
        <5> QED
          <6> DEFINE a == ChargesOf((s \ {p}) \ {x})
                     b == ChargesOf(s \ {p})
                     c == ChargesOf(s \ {x})
          <6>1. /\ a \in Nat /\ b \in Nat /\ c \in Nat /\ x.charges \in Nat /\ p.charges \in Nat
                /\ b = x.charges + a /\ c = p.charges + a /\ ChargesOf(s) = p.charges + b
            BY <3>2, <5>1, <5>2, <5>3, <5>4, <5>5
          <6> HIDE DEF a, b, c
          <6>2. ChargesOf(s) = x.charges + c
            BY <6>1
          <6> QED
            BY <6>2 DEF c
      <4> QED
        BY <4>1, <4>2
    <3> QED
      BY <2>2, <3>3, <3>4 DEF Good
  <2> QED
    BY <2>6, <2>7
<1>2. Cardinality(S) \in Nat
  BY PartSizes DEF Counted
<1>3. Good(S)
  BY <1>1, <1>2
<1> QED
  BY <1>3 DEF Good

\* One element more.
LEMMA SumAdd ==
  ASSUME NEW S, Counted(S), NEW x, x.charges \in Nat
  PROVE  /\ Counted(S \cup {x}) /\ ChargesOf(S \cup {x}) \in Nat
         /\ ChargesOf(S \cup {x}) <= ChargesOf(S) + x.charges
<1>1. Counted(S \cup {x})
  BY FS_AddElement DEF Counted
<1>2. CASE x \in S
  <2>1. S \cup {x} = S
    BY <1>2
  <2> QED
    BY <1>1, <2>1, SumSplit
<1>3. CASE x \notin S
  <2>1. (S \cup {x}) \ {x} = S
    BY <1>3
  <2> QED
    BY <1>1, <2>1, SumSplit
<1> QED
  BY <1>2, <1>3

\* One element less.
LEMMA SumRemove ==
  ASSUME NEW S, Counted(S), NEW x \in S
  PROVE  /\ Counted(S \ {x}) /\ ChargesOf(S \ {x}) \in Nat
         /\ ChargesOf(S) = x.charges + ChargesOf(S \ {x})
<1>1. Counted(S \ {x})
  BY FS_RemoveElement DEF Counted
<1> QED
  BY <1>1, SumSplit

\* What keeps the charges of each element does not raise the sum.
LEMMA SumKept ==
  ASSUME NEW S, Counted(S), NEW F, \A x \in S : F[x].charges = x.charges
  PROVE  /\ Counted({F[x] : x \in S}) /\ ChargesOf({F[x] : x \in S}) \in Nat
         /\ ChargesOf({F[x] : x \in S}) <= ChargesOf(S)
<1> DEFINE Image(s) == {F[x] : x \in s}
           Good(s) == /\ Counted(Image(s)) /\ ChargesOf(Image(s)) \in Nat
                      /\ ChargesOf(Image(s)) <= ChargesOf(s)
           Bad == {n \in Nat : \E s \in SUBSET S : Cardinality(s) = n /\ ~Good(s)}
<1> HIDE DEF Good
<1>1. ASSUME Bad # {}
      PROVE  FALSE
  <2>1. PICK n \in Nat : n \in Bad /\ \A m \in Bad : n <= m
    BY <1>1, LeastOf
  <2>2. PICK s \in SUBSET S : Cardinality(s) = n /\ ~Good(s)
    BY <2>1
  <2>0. ASSUME NEW t \in SUBSET S, Cardinality(t) \in Nat, Cardinality(t) < n
        PROVE  Good(t)
    <3>1. Cardinality(t) \notin Bad
      BY <2>1, <2>0
    <3> QED
      BY <2>0, <3>1
  <2> HIDE DEF Bad
  <2>3. Counted(s)
    BY <2>2, PartSizes DEF Counted
  <2>4. CASE s = {}
    <3>1. Image(s) = s
      BY <2>4
    <3> QED
      <4>1. ChargesOf(s) \in Nat /\ ChargesOf(s) <= ChargesOf(s)
        BY <2>3, SumSplit
      <4> HIDE DEF Image
      <4>2. Good(s)
        BY <2>3, <3>1, <4>1 DEF Good
      <4> QED
        BY <2>2, <4>2
  <2>5. CASE s # {}
    <3>1. PICK x \in s : TRUE
      BY <2>5
    <3> DEFINE t == s \ {x}
    <3>2. /\ t \in SUBSET S /\ Cardinality(t) < n /\ Cardinality(t) \in Nat
      BY <2>2, PartSizes DEF Counted
    <3>3. Good(t)
      BY <2>0, <3>2
    <3>4. Image(s) = Image(t) \cup {F[x]}
      OBVIOUS
    <3>5. F[x].charges = x.charges /\ x.charges \in Nat
      BY DEF Counted
    <3>6. ChargesOf(s) = x.charges + ChargesOf(t) /\ ChargesOf(t) \in Nat
      BY <2>3, SumRemove
    <3> DEFINE y == F[x]
               img == Image(t)
    <3> HIDE DEF Image, t
    <3>7. Counted(img) /\ y.charges \in Nat /\ y.charges = x.charges /\ Image(s) = img \cup {y}
      BY <3>3, <3>4, <3>5 DEF Good
    <3> HIDE DEF y, img
    <3>8. /\ Counted(Image(s)) /\ ChargesOf(Image(s)) \in Nat
          /\ ChargesOf(Image(s)) <= ChargesOf(img) + x.charges
      BY <3>7, SumAdd
    <3> QED
      BY <2>2, <3>3, <3>5, <3>6, <3>8 DEF Good, img
  <2> QED
    BY <2>4, <2>5
<1>2. Cardinality(S) \in Nat
  BY PartSizes DEF Counted
<1>3. Good(S)
  BY <1>1, <1>2
<1> QED
  BY <1>3 DEF Good

-----------------------------------------------------------------------------
\* What a claim under way is worth stays within what the tiers reached are worth.
GrantsInv == ChargesTypeOK /\ Counted(posts) /\ Counted(jobs) /\ GrantedOncePerTier

\* Nothing is claimed at the start.
LEMMA GrantsInit == ChargesInit => GrantsInv
<1> SUFFICES ASSUME ChargesInit PROVE GrantsInv
  OBVIOUS
<1>1. Counted({}) /\ ChargesOf({}) = 0
  BY FS_EmptySet, SumStep DEF Counted
<1>2. ChargesTypeOK
  BY ChargesInitInv DEF ChargesInv
<1> QED
  BY <1>1, <1>2 DEF ChargesInit, GrantsInv, GrantedOncePerTier

\* A claim adds to the posts what it adds to the bonus (claimTier).
LEMMA ClaimTierCounts ==
  ASSUME GrantsInv, ChargesTypeOK', NEW k \in 1..Cap, ClaimTier(k)
  PROVE  GrantsInv'
<1> DEFINE p == [tier |-> k, charges |-> k - bonus]
<1>1. bonus \in 0..Cap /\ k > bonus /\ granted \in Nat /\ Cap \in Nat
  BY ChargesAssumption DEF GrantsInv, ChargesTypeOK, ClaimTier
<1>2. posts' = posts \cup {p} /\ bonus' = k /\ UNCHANGED <<granted, jobs>> /\ p.charges = k - bonus
  BY DEF ClaimTier
<1> HIDE DEF p
<1>3. p.charges \in Nat
  BY <1>1, <1>2
<1>4. /\ Counted(posts') /\ ChargesOf(posts') \in Nat
      /\ ChargesOf(posts') <= ChargesOf(posts) + p.charges
  BY <1>2, <1>3, SumAdd DEF GrantsInv
<1>5. ChargesOf(posts) \in Nat /\ ChargesOf(jobs) \in Nat
  BY SumSplit DEF GrantsInv
<1> QED
  BY <1>1, <1>2, <1>3, <1>4, <1>5 DEF GrantsInv, GrantedOncePerTier

\* A post leaves the posts, into a job or into nothing (handleGaugeClaim).
LEMMA PostCounts ==
  ASSUME GrantsInv, ChargesTypeOK', NEW p \in posts, PostLost(p) \/ PostArrives(p)
  PROVE  GrantsInv'
<1> DEFINE conns == {s \in Sessions : status[s] = "up"}
           new == [tier |-> p.tier, charges |-> p.charges, todo |-> conns, max |-> Base]
<1>1. bonus \in Int /\ granted \in Nat /\ Counted(posts) /\ Counted(jobs)
  BY ChargesAssumption DEF GrantsInv, ChargesTypeOK
<1>2. p.charges \in Nat /\ new.charges = p.charges
  BY <1>1 DEF Counted
<1>3. /\ posts' = posts \ {p} /\ UNCHANGED <<granted, bonus>>
      /\ jobs' = jobs \/ jobs' = jobs \cup {new}
  BY DEF PostLost, PostArrives, stats
<1> HIDE DEF new
<1>4. /\ Counted(posts') /\ ChargesOf(posts') \in Nat
      /\ ChargesOf(posts) = p.charges + ChargesOf(posts')
  BY <1>1, <1>3, SumRemove
<1>5. ChargesOf(jobs) \in Nat
  BY <1>1, SumSplit
<1>6. /\ Counted(jobs') /\ ChargesOf(jobs') \in Nat
      /\ ChargesOf(jobs') <= ChargesOf(jobs) + p.charges
  <2>1. CASE jobs' = jobs
    BY <1>1, <1>2, <1>5, <2>1
  <2>2. CASE jobs' = jobs \cup {new}
    BY <1>1, <1>2, <2>2, SumAdd
  <2> QED
    BY <1>3, <2>1, <2>2
<1> QED
  BY <1>1, <1>2, <1>3, <1>4, <1>5, <1>6 DEF GrantsInv, GrantedOncePerTier

\* A grant gives what the job was worth, a failed one gives it up (grantUserCharge).
LEMMA GrantCounts ==
  ASSUME GrantsInv, ChargesTypeOK', NEW j \in jobs, Grant(j) \/ GrantFails(j)
  PROVE  GrantsInv'
<1>1. bonus \in Int /\ granted \in Nat /\ Counted(posts) /\ Counted(jobs)
  BY ChargesAssumption DEF GrantsInv, ChargesTypeOK
<1>2. /\ jobs' = jobs \ {j} /\ UNCHANGED <<bonus, posts>>
      /\ granted' = granted \/ granted' = granted + j.charges
  BY DEF Grant, GrantFails, stats
<1>3. j.charges \in Nat /\ ChargesOf(posts) \in Nat
  BY <1>1, SumSplit DEF Counted
<1>4. /\ Counted(jobs') /\ ChargesOf(jobs') \in Nat
      /\ ChargesOf(jobs) = j.charges + ChargesOf(jobs')
  BY <1>1, <1>2, SumRemove
<1> QED
  BY <1>1, <1>2, <1>3, <1>4 DEF GrantsInv, GrantedOncePerTier

\* A job that goes on to its next session is worth what it was (handleGaugeClaim).
LEMMA ResumeCounts ==
  ASSUME GrantsInv, ChargesTypeOK', NEW a \in asks, Refresh(a) \/ RefreshFails(a)
  PROVE  GrantsInv'
<1>1. /\ bonus \in Int /\ granted \in Nat /\ Counted(posts) /\ Counted(jobs)
      /\ jobs \subseteq Job
  BY ChargesAssumption DEF GrantsInv, ChargesTypeOK
<1>2. UNCHANGED <<granted, bonus, posts>> /\ \E b : Resume(a, b)
  BY DEF Refresh, RefreshFails, stats
<1>3. PICK b : Resume(a, b)
  BY <1>2
<1> DEFINE F == [j \in jobs |->
                   IF j.tier = a.tier
                   THEN [j EXCEPT !.todo = @ \ {a.session}, !.max = Larger(@, Base + b)] ELSE j]
<1>4. \A j \in jobs : F[j].charges = j.charges
  BY <1>1 DEF Job
<1>5. jobs' = {F[j] : j \in jobs}
  BY <1>3 DEF Resume
<1> HIDE DEF F
<1>6. /\ Counted(jobs') /\ ChargesOf(jobs') \in Nat
      /\ ChargesOf(jobs') <= ChargesOf(jobs)
  BY <1>1, <1>4, <1>5, SumKept
<1>7. ChargesOf(posts) \in Nat /\ ChargesOf(jobs) \in Nat
  BY <1>1, SumSplit
<1> QED
  BY <1>1, <1>2, <1>6, <1>7 DEF GrantsInv, GrantedOncePerTier

\* Only a claim, a post, a grant and a refresh move the accounts.
LEMMA GrantsKept ==
  ASSUME GrantsInv, ChargesTypeOK', [ChargesNext]_chargesVars
  PROVE  GrantsInv'
<1>1. CASE UNCHANGED <<granted, bonus, posts, jobs>>
  BY <1>1 DEF GrantsInv, GrantedOncePerTier, Counted
<1>2. ASSUME \/ UNCHANGED chargesVars \/ Tick \/ Accrue
             \/ \E s \in Sessions : Open(s) \/ Close(s) \/ Place(s)
             \/ \E a \in asks : Answer(a)
             \/ \E j \in jobs : AskNext(j)
      PROVE  UNCHANGED <<granted, bonus, posts, jobs>>
  BY <1>2 DEF chargesVars, stats, sessions, work, Tick, Accrue, Open, Close, Place, Answer, AskNext
<1> QED
  BY <1>1, <1>2, ClaimTierCounts, PostCounts, GrantCounts, ResumeCounts DEF ChargesNext

\* Over all the tiers a viewer has reached, the charges granted and those on their way add
\* up to no more than one a tier: no order of claims, no second tab and no lost post
\* makes claimTier, dispatchGaugeClaim and grantUserCharge hand one out twice.
THEOREM OneChargeATier == ChargesSpec => []GrantedOncePerTier
<1>1. GrantsInv /\ ChargesTypeOK' /\ [ChargesNext]_chargesVars => GrantsInv'
  BY GrantsKept
<1>2. GrantsInv => GrantedOncePerTier
  BY DEF GrantsInv
<1> QED
  BY <1>1, <1>2, GrantsInit, ChargesTypes, PTL DEF ChargesSpec

-----------------------------------------------------------------------------
(***************************************************************************)
(* The shared rules, for numbers of every size.                            *)
(***************************************************************************)
Config(cfg) == cfg \in [perPlacement : Nat, cost : Nat, cap : Nat]

\* A tier costs one upgrade more than the tier below it (tierThreshold, nextUpgradeCost).
LEMMA ThresholdSteps ==
  ASSUME NEW cfg, Config(cfg), NEW n \in Nat
  PROVE  /\ TierThreshold(0, cfg) = 0 /\ TierThreshold(n, cfg) \in Nat
         /\ TierThreshold(n + 1, cfg) = TierThreshold(n, cfg) + NextUpgradeCost(n, cfg)
<1> DEFINE c == cfg.cost
           a == c * n * (n + 1)
           b == c * (n + 1)
<1>1. c \in Nat
  BY DEF Config
<1> HIDE DEF c
<1>2. a \in Nat /\ b \in Nat /\ c * (n + 1) * (n + 1 + 1) = a + 2 * b
  BY <1>1
<1>3. (c * 0 * (0 + 1)) \div 2 = 0
  BY <1>1
<1>4. a \div 2 \in Nat /\ (a + 2 * b) \div 2 = a \div 2 + b
  <2> HIDE DEF a, b
  <2> QED
    BY <1>2
<1> QED
  BY <1>2, <1>3, <1>4 DEF TierThreshold, NextUpgradeCost, c

\* A higher tier does not cost less (tierThreshold).
LEMMA ThresholdsGrow ==
  ASSUME NEW cfg, Config(cfg), NEW m \in Nat, NEW n \in Nat, m <= n
  PROVE  TierThreshold(m, cfg) <= TierThreshold(n, cfg)
<1> DEFINE c == cfg.cost
           p == m * (m + 1)
           q == n * (n + 1)
<1>1. c \in Nat
  BY DEF Config
<1> HIDE DEF c
<1>2. p \in Nat /\ q \in Nat
  OBVIOUS
<1>3. p <= q
  <2>1. m * m <= n * m /\ n * m <= n * n
    BY TimesMono
  <2> QED
    BY <2>1
<1>4. c * m * (m + 1) = c * p /\ c * n * (n + 1) = c * q
  BY <1>1
<1> HIDE DEF p, q
<1>5. c * p \in Nat /\ c * q \in Nat /\ c * p <= c * q
  BY <1>1, <1>2, <1>3, TimesMono
<1>6. \A x, y \in Nat : x <= y => x \div 2 <= y \div 2
  OBVIOUS
<1> QED
  BY <1>4, <1>5, <1>6 DEF TierThreshold, c

\* The climb of tiersEarned, tier after tier, as a function of where it starts.
Climbs(f, points, cfg) ==
  f = [n \in 0..cfg.cap |-> IF n < cfg.cap /\ TierThreshold(n + 1, cfg) <= points THEN f[n + 1] ELSE n]

\* The loop of tiersEarned is the inverse of the thresholds: whatever a tier costs, whatever
\* the cap and the points, a tier up to the cap is earned exactly when the points pay for it.
THEOREM TiersAreWhatPointsPay ==
  ASSUME NEW cfg, Config(cfg), NEW points \in Nat
  PROVE  /\ TiersEarned(points, cfg) \in 0..cfg.cap
         /\ \A n \in 0..cfg.cap : n <= TiersEarned(points, cfg) <=> TierThreshold(n, cfg) <= points
<1> DEFINE cap == cfg.cap
           Thr(n) == TierThreshold(n, cfg)
           Stops == {n \in Nat : n = cap \/ Thr(n + 1) > points}
<1>1. cap \in Nat
  BY DEF Config
<1>2. /\ Thr(0) = 0 /\ \A n \in Nat : Thr(n) \in Nat
      /\ \A m, n \in Nat : m <= n => Thr(m) <= Thr(n)
  BY ThresholdSteps, ThresholdsGrow
<1> HIDE DEF cap, Thr
<1>3. PICK top \in Stops : \A n \in Stops : top <= n
  <2>1. cap \in Stops
    BY <1>1
  <2> QED
    BY <2>1, LeastOf
<1>4. /\ top \in 0..cap /\ top \in Nat
      /\ \A n \in 0..top - 1 : n < cap /\ Thr(n + 1) <= points
      /\ top < cap => Thr(top + 1) > points
  <2>1. top \in Nat /\ top <= cap /\ (top = cap \/ Thr(top + 1) > points)
    BY <1>1, <1>3
  <2>2. ASSUME NEW n \in 0..top - 1
        PROVE  n < cap /\ Thr(n + 1) <= points
    <3>1. n \in Nat /\ n < top /\ n \notin Stops /\ n + 1 \in Nat
      BY <1>3, <2>1
    <3> QED
      BY <1>2, <2>1, <3>1, <1>1
  <2> QED
    BY <1>1, <2>1, <2>2
<1>5. \A n \in Nat : n > top /\ top < cap => Thr(n) > points
  <2> TAKE n \in Nat
  <2> SUFFICES ASSUME n > top, top < cap
               PROVE  Thr(n) > points
    OBVIOUS
  <2>1. top + 1 \in Nat /\ top + 1 <= n
    BY <1>4
  <2> QED
    BY <1>2, <1>4, <2>1
<1>6. \A n \in 0..cap : n <= top <=> Thr(n) <= points
  <2> TAKE n \in 0..cap
  <2>1. CASE n = 0
    BY <1>2, <1>4, <2>1
  <2>2. CASE n > 0 /\ n <= top
    <3>1. n - 1 \in 0..top - 1 /\ (n - 1) + 1 = n
      BY <1>1, <1>4, <2>2
    <3> QED
      BY <1>4, <2>2, <3>1
  <2>3. CASE n > top
    <3>1. n \in Nat /\ top < cap
      BY <1>1, <1>4, <2>3
    <3>2. Thr(n) > points /\ Thr(n) \in Nat
      BY <1>2, <1>5, <2>3, <3>1
    <3> QED
      BY <1>4, <2>3, <3>1, <3>2
  <2> QED
    BY <1>1, <1>4, <2>1, <2>2, <2>3
<1> DEFINE Next(n, v) == IF n < cap /\ Thr(n + 1) <= points THEN v ELSE n
           g == [n \in 0..cap |-> IF n <= top THEN top ELSE n]
<1>7. \A f : Climbs(f, points, cfg) <=> f = [n \in 0..cap |-> Next(n, f[n + 1])]
  BY DEF Climbs, cap, Thr
<1>8. \A n \in 0..cap : g[n] = Next(n, g[n + 1])
  <2> TAKE n \in 0..cap
  <2>1. CASE n < top
    <3>1. n \in 0..top - 1 /\ n + 1 \in 0..cap /\ n <= top /\ n + 1 <= top
      BY <1>1, <1>4, <2>1
    <3>2. n < cap /\ Thr(n + 1) <= points
      BY <1>4, <3>1
    <3> QED
      BY <3>1, <3>2
  <2>2. CASE ~(n < top)
    <3>1. g[n] = n
      BY <1>4, <2>2
    <3>2. n < cap => Thr(n + 1) > points /\ Thr(n + 1) \in Nat
      <4>1. CASE n = top
        BY <1>2, <1>4, <4>1
      <4>2. CASE n > top /\ n < cap
        <5>1. n + 1 \in Nat /\ n + 1 > top /\ top < cap
          BY <1>1, <1>4, <4>2
        <5> QED
          BY <1>2, <1>5, <5>1
      <4> QED
        BY <1>1, <1>4, <2>2, <4>1, <4>2
    <3>3. ~(n < cap /\ Thr(n + 1) <= points)
      BY <3>2
    <3> QED
      BY <3>1, <3>3
  <2> QED
    BY <2>1, <2>2
<1>9. Climbs(g, points, cfg)
  <2>1. g = [n \in 0..cap |-> Next(n, g[n + 1])]
    <3>1. g = [n \in 0..cap |-> g[n]]
      OBVIOUS
    <3> HIDE DEF g, Next
    <3> QED
      BY <1>8, <3>1
  <2> QED
    BY <1>7, <2>1
<1>10. ASSUME NEW f, Climbs(f, points, cfg)
       PROVE  f[0] = top
  <2> DEFINE Bad == {k \in Nat : k <= top /\ f[top - k] # top}
  <2>1. \A n \in 0..cap : f[n] = Next(n, f[n + 1])
    BY <1>7, <1>10
  <2>2. f[top] = top
    <3>1. ~(top < cap /\ Thr(top + 1) <= points)
      <4>1. top + 1 \in Nat
        BY <1>4
      <4> QED
        BY <1>2, <1>4, <4>1
    <3> QED
      BY <1>4, <2>1, <3>1
  <2>3. ASSUME Bad # {}
        PROVE  FALSE
    <3>1. PICK k \in Bad : \A j \in Bad : k <= j
      BY <2>3, LeastOf
    <3>2. k \in Nat /\ k <= top /\ k # 0 /\ f[top - k] # top
      <4>1. top - 0 = top
        BY <1>4
      <4> QED
        BY <2>2, <3>1, <4>1
    <3>3. /\ k - 1 \in Nat /\ k - 1 <= top /\ ~(k <= k - 1) /\ top - (k - 1) = (top - k) + 1
          /\ top - k \in 0..top - 1 /\ top - k \in 0..cap
      BY <1>1, <1>4, <3>2
    <3>4. f[(top - k) + 1] = top
      BY <3>1, <3>3
    <3>5. top - k < cap /\ Thr((top - k) + 1) <= points
      BY <1>4, <3>3
    <3> QED
      BY <2>1, <3>2, <3>3, <3>4, <3>5
  <2>4. top - top = 0 /\ top <= top /\ top \in Nat
    BY <1>4
  <2>5. top \notin Bad
    BY <2>3
  <2> QED
    BY <2>4, <2>5
<1>11. TiersEarned(points, cfg) = (CHOOSE f : Climbs(f, points, cfg))[0]
  BY DEF TiersEarned, Climbs
<1>12. Climbs(CHOOSE f : Climbs(f, points, cfg), points, cfg)
  BY <1>9
<1>13. TiersEarned(points, cfg) = top
  BY <1>10, <1>11, <1>12
<1> QED
  BY <1>4, <1>6, <1>13 DEF cap, Thr

\* Tiers follow one another as the upgrades do (tierThreshold, nextUpgradeCost, tiersEarned).
THEOREM TiersCostTheirUpgrades ==
  ASSUME NEW cfg, Config(cfg), NEW points \in Nat
  PROVE  LET earned == TiersEarned(points, cfg)
         IN  earned < cfg.cap =>
               points < TierThreshold(earned, cfg) + NextUpgradeCost(earned, cfg)
<1> DEFINE earned == TiersEarned(points, cfg)
<1>1. cfg.cap \in Nat
  BY DEF Config
<1>2. earned \in Nat
  BY <1>1, TiersAreWhatPointsPay
<1> SUFFICES ASSUME earned < cfg.cap
             PROVE  points < TierThreshold(earned, cfg) + NextUpgradeCost(earned, cfg)
  OBVIOUS
<1> HIDE DEF earned
<1>3. earned + 1 \in 0..cfg.cap /\ ~(earned + 1 <= earned)
  BY <1>1, <1>2
<1>4. ~(TierThreshold(earned + 1, cfg) <= points)
  BY <1>3, TiersAreWhatPointsPay DEF earned
<1>5. /\ TierThreshold(earned + 1, cfg) \in Nat
      /\ TierThreshold(earned + 1, cfg) = TierThreshold(earned, cfg) + NextUpgradeCost(earned, cfg)
  BY <1>2, ThresholdSteps
<1> QED
  BY <1>4, <1>5

\* What one claim does to the bonus (evaluateTierClaim).
LEMMA ClaimRaises ==
  ASSUME NEW cfg, Config(cfg), NEW points \in Nat, NEW best \in Nat, NEW tier \in Int
  PROVE  LET d == EvaluateTierClaim([pointsEarned |-> points, gaugeMaxBonus |-> best], tier, cfg)
             paid == tier \in 1..TiersEarned(points, cfg)
         IN  /\ d.newBonus \in Nat /\ d.granted \in Nat /\ d.newBonus = best + d.granted
             /\ d.newBonus = IF paid /\ tier > best THEN tier ELSE best
             /\ d.ok <=> paid /\ tier > best
<1> DEFINE earned == TiersEarned(points, cfg)
           claimed == [pointsEarned |-> points, gaugeMaxBonus |-> best]
           d == EvaluateTierClaim(claimed, tier, cfg)
<1>1. earned \in Nat
  <2>1. cfg.cap \in Nat
    BY DEF Config
  <2> QED
    BY <2>1, TiersAreWhatPointsPay
<1>2. claimed.pointsEarned = points /\ claimed.gaugeMaxBonus = best
  OBVIOUS
<1> HIDE DEF claimed
<1> DEFINE Kept(ok, noop, reason) ==
             [ok |-> ok, noop |-> noop, reason |-> reason, newBonus |-> best, granted |-> 0]
           Ruled == IF tier < 1 THEN Kept(FALSE, FALSE, "invalid_config")
                   ELSE IF tier > earned THEN Kept(FALSE, FALSE, "tier_not_earned")
                   ELSE IF tier <= best THEN Kept(FALSE, TRUE, "none")
                   ELSE [ok |-> TRUE, noop |-> FALSE, reason |-> "none", newBonus |-> tier,
                         granted |-> tier - best]
<1>3. d = Ruled
  <2>1. TiersEarned(claimed.pointsEarned, cfg) = earned
    BY <1>2
  <2> HIDE DEF earned
  <2> QED
    BY <1>2, <2>1 DEF EvaluateTierClaim
<1> HIDE DEF earned
<1>4. /\ Ruled.newBonus \in Nat /\ Ruled.granted \in Nat /\ Ruled.newBonus = best + Ruled.granted
      /\ Ruled.newBonus = IF tier \in 1..earned /\ tier > best THEN tier ELSE best
      /\ Ruled.ok <=> tier \in 1..earned /\ tier > best
  <2>1. CASE tier < 1
    BY <1>1, <2>1
  <2>2. CASE tier >= 1 /\ tier > earned
    BY <1>1, <2>2
  <2>3. CASE tier >= 1 /\ tier <= earned /\ tier <= best
    BY <1>1, <2>3
  <2>4. CASE tier >= 1 /\ tier <= earned /\ tier > best
    BY <1>1, <2>4
  <2> QED
    BY <1>1, <2>1, <2>2, <2>3, <2>4
<1> QED
  BY <1>3, <1>4 DEF claimed, earned

\* A run of claims: the points and the tier of each, and what the row has after each.
ClaimRun(cfg, N, points, tier, best, gains) ==
  /\ gains[0] = 0
  /\ \A n \in 1..N :
       LET d == EvaluateTierClaim([pointsEarned |-> points[n], gaugeMaxBonus |-> best[n - 1]],
                                  tier[n], cfg)
       IN  best[n] = d.newBonus /\ gains[n] = gains[n - 1] + d.granted

\* However many claims are made, in whatever order, repeated, too early or of no tier at all,
\* and however the points change meanwhile: what is granted is what the bonus has gained,
\* and the bonus ends at the highest tier that was paid for when it was claimed
\* (evaluateTierClaim: "no tier is double-counted either way").
THEOREM ClaimsInAnyOrder ==
  ASSUME NEW cfg, Config(cfg), NEW N \in Nat, NEW points \in [1..N -> Nat],
         NEW tier \in [1..N -> Int], NEW best \in [0..N -> Nat], NEW gains \in [0..N -> Nat],
         ClaimRun(cfg, N, points, tier, best, gains)
  PROVE  LET paid == {tier[n] : n \in {k \in 1..N : tier[k] \in 1..TiersEarned(points[k], cfg)}}
         IN  /\ best[N] = best[0] + gains[N]
             /\ best[N] \in paid \cup {best[0]}
             /\ \A t \in paid \cup {best[0]} : t <= best[N]
<1> DEFINE Paid(n) == tier[n] \in 1..TiersEarned(points[n], cfg)
           Good(n) == /\ best[n] = best[0] + gains[n]
                      /\ best[n] = best[0] \/ \E k \in 1..n : Paid(k) /\ best[n] = tier[k]
                      /\ best[0] <= best[n] /\ \A k \in 1..n : Paid(k) => tier[k] <= best[n]
           Bad == {n \in Nat : n <= N /\ ~Good(n)}
<1>1. \A n \in 1..N : /\ best[n] \in Nat /\ gains[n] \in Nat /\ tier[n] \in Int
                      /\ best[n] = best[n - 1] + (gains[n] - gains[n - 1])
                      /\ best[n] = IF Paid(n) /\ tier[n] > best[n - 1] THEN tier[n] ELSE best[n - 1]
  <2> TAKE n \in 1..N
  <2> DEFINE p == points[n]
             b == best[n - 1]
             t == tier[n]
             d == EvaluateTierClaim([pointsEarned |-> p, gaugeMaxBonus |-> b], t, cfg)
  <2>1. n - 1 \in 0..N /\ n \in 0..N
    OBVIOUS
  <2>2. p \in Nat /\ b \in Nat /\ t \in Int /\ gains[n - 1] \in Nat
    BY <2>1
  <2>3. best[n] = d.newBonus /\ gains[n] = gains[n - 1] + d.granted
    BY DEF ClaimRun
  <2> HIDE DEF p, b, t
  <2>4. /\ d.newBonus \in Nat /\ d.granted \in Nat /\ d.newBonus = b + d.granted
        /\ d.newBonus = IF t \in 1..TiersEarned(p, cfg) /\ t > b THEN t ELSE b
    BY <2>2, ClaimRaises
  <2> HIDE DEF d
  <2> QED
    BY <2>1, <2>2, <2>3, <2>4 DEF p, b, t
<1> HIDE DEF Paid
<1>2. ASSUME Bad # {}
      PROVE  FALSE
  <2>1. PICK n \in Bad : \A m \in Bad : n <= m
    <3> HIDE DEF Good
    <3> QED
      BY <1>2, LeastOf
  <2>2. n # 0
    <3>1. best[0] \in Nat /\ gains[0] = 0 /\ 1..0 = {}
      BY DEF ClaimRun
    <3>2. Good(0)
      BY <3>1
    <3> HIDE DEF Good
    <3> QED
      BY <2>1, <3>2
  <2>3. n \in 1..N /\ n - 1 \in 0..N /\ ~(n <= n - 1) /\ n - 1 \in Nat /\ n - 1 <= N
    <3> HIDE DEF Good
    <3> QED
      BY <2>1, <2>2
  <2>4. Good(n - 1)
    <3> HIDE DEF Good
    <3> QED
      BY <2>1, <2>3
  <2>5. \A k \in 1..n : k = n \/ k \in 1..n - 1
    BY <2>3
  <2>6. n \in 1..n /\ \A k \in 1..n - 1 : k \in 1..n /\ k \in 1..N
    BY <2>3
  <2>7. /\ best[n - 1] \in Nat /\ gains[n - 1] \in Nat /\ best[0] \in Nat
        /\ best[n] \in Nat /\ gains[n] \in Nat /\ tier[n] \in Int
    BY <2>3
  <2> DEFINE up == Paid(n) /\ tier[n] > best[n - 1]
  <2>12. /\ best[n] = best[n - 1] + (gains[n] - gains[n - 1])
         /\ best[n] = IF up THEN tier[n] ELSE best[n - 1]
    BY <1>1, <2>3
  <2>13. best[n - 1] <= best[n]
    <3>1. CASE up
      BY <2>7, <2>12, <3>1
    <3>2. CASE ~up
      BY <2>7, <2>12, <3>2
    <3> QED
      BY <3>1, <3>2
  <2>8. best[n] = best[0] + gains[n] /\ best[0] <= best[n] /\ best[n - 1] <= best[n]
    <3> HIDE DEF up
    <3>1. best[n - 1] = best[0] + gains[n - 1] /\ best[0] <= best[n - 1]
      BY <2>4
    <3> DEFINE b0 == best[0]
               b1 == best[n - 1]
               b2 == best[n]
               g1 == gains[n - 1]
               g2 == gains[n]
    <3>2. b0 \in Nat /\ b1 \in Nat /\ b2 \in Nat /\ g1 \in Nat /\ g2 \in Nat
      BY <2>7
    <3>3. b1 = b0 + g1 /\ b0 <= b1 /\ b2 = b1 + (g2 - g1) /\ b1 <= b2
      BY <2>12, <2>13, <3>1
    <3> HIDE DEF b0, b1, b2, g1, g2, Good, Bad
    <3>4. b2 = b0 + g2 /\ b0 <= b2 /\ b1 <= b2
      BY <3>2, <3>3
    <3> QED
      BY <3>4 DEF b0, b1, b2, g1, g2
  <2>9. best[n] = best[0] \/ \E k \in 1..n : Paid(k) /\ best[n] = tier[k]
    BY <1>1, <2>3, <2>4, <2>6
  <2>10. ASSUME NEW k \in 1..n, Paid(k)
         PROVE  tier[k] <= best[n]
    <3>1. CASE k = n
      <4>1. Paid(n)
        BY <2>10, <3>1
      <4>2. tier[n] <= best[n]
        BY <2>7, <2>12, <4>1
      <4> QED
        BY <3>1, <4>2
    <3>2. CASE k \in 1..n - 1
      <4>1. tier[k] <= best[n - 1] /\ tier[k] \in Int
        BY <2>4, <2>6, <2>10, <3>2
      <4> QED
        BY <1>1, <2>3, <2>7, <2>8, <4>1
    <3> QED
      BY <2>5, <3>1, <3>2
  <2>11. Good(n)
    BY <2>8, <2>9, <2>10
  <2> HIDE DEF Good
  <2> QED
    BY <2>1, <2>11
<1>3. Good(N)
  <2> HIDE DEF Good
  <2>1. N \notin Bad
    BY <1>2
  <2>2. N <= N
    OBVIOUS
  <2> QED
    BY <2>1, <2>2
<1> QED
  BY <1>3 DEF Paid
-----------------------------------------------------------------------------
\* One message at the limiter (TokenBucket.tryRemove): the clock of the bucket never goes
\* back, what the time between pays goes in, and what a message costs comes out.
LEMMA BucketStep ==
  ASSUME NEW capacity \in Nat, NEW rate \in Nat, NEW b, NEW t \in Int,
         b \in [tokens : 0..capacity * Second, last : Int]
  PROVE  LET r == TryRemove(b, capacity, rate, t)
             paidOut == IF r.ok THEN Second ELSE 0
         IN  /\ r.ok \in BOOLEAN /\ r.bucket \in [tokens : 0..capacity * Second, last : Int]
             /\ r.bucket.last = IF t > b.last THEN t ELSE b.last
             /\ r.bucket.tokens + paidOut <= b.tokens + rate * (r.bucket.last - b.last)
             /\ capacity > 0 /\ (t - b.last) * rate >= Second => r.ok
<1> DEFINE full == capacity * Second
           more == IF t > b.last THEN (t - b.last) * rate ELSE 0
           filled == BucketRefilled(b, capacity, rate, t)
           r == TryRemove(b, capacity, rate, t)
<1>1. Second \in Nat \ {0}
  BY RulesAssumption
<1>2. full \in Nat /\ b.tokens \in Nat /\ b.tokens <= full /\ b.last \in Int
  BY <1>1
<1>3. more \in Nat /\ (capacity > 0 => full >= Second)
  <2>1. ASSUME t > b.last
        PROVE  (t - b.last) * rate \in Nat
    <3>1. t - b.last \in Nat
      BY <1>2, <2>1
    <3> QED
      BY <3>1
  <2>2. capacity > 0 => full >= Second
    <3>1. Second * 1 = Second /\ capacity * Second = Second * capacity
      BY <1>1
    <3>2. capacity > 0 => Second * 1 <= Second * capacity
      BY <1>1, TimesMono
    <3> QED
      BY <3>1, <3>2
  <2> QED
    BY <2>1, <2>2
<1>4. /\ filled \in [tokens : Nat, last : Int]
      /\ filled.last = IF t > b.last THEN t ELSE b.last
      /\ filled.tokens = IF t > b.last THEN AtMost(b.tokens + more, full) ELSE b.tokens
  <2> HIDE DEF full
  <2>1. CASE t > b.last
    BY <1>2, <1>3, <2>1 DEF BucketRefilled, AtMost, full
  <2>2. CASE ~(t > b.last)
    BY <1>2, <2>2 DEF BucketRefilled
  <2> QED
    BY <2>1, <2>2
<1>5. filled.tokens <= full /\ filled.tokens <= b.tokens + more
      /\ (filled.tokens = b.tokens + more \/ filled.tokens = full)
  <2> HIDE DEF full, more, filled
  <2> QED
    BY <1>2, <1>3, <1>4 DEF AtMost, more
<1>6. /\ r.ok <=> filled.tokens >= Second
      /\ r.ok \in BOOLEAN /\ r.bucket \in [tokens : Nat, last : Int] /\ r.bucket.last = filled.last
      /\ r.bucket.tokens = IF r.ok THEN filled.tokens - Second ELSE filled.tokens
  <2>1. r = IF filled.tokens < Second THEN [ok |-> FALSE, bucket |-> filled]
            ELSE [ok |-> TRUE, bucket |-> [filled EXCEPT !.tokens = @ - Second]]
    BY DEF TryRemove
  <2> HIDE DEF filled, r
  <2>2. CASE filled.tokens < Second
    BY <1>1, <1>4, <2>1, <2>2
  <2>3. CASE ~(filled.tokens < Second)
    BY <1>1, <1>4, <2>1, <2>3
  <2> QED
    BY <2>2, <2>3
<1>7. more = rate * (filled.last - b.last)
  <2>1. CASE t > b.last
    BY <1>2, <1>4, <2>1
  <2>2. CASE ~(t > b.last)
    BY <1>2, <1>4, <2>2
  <2> QED
    BY <2>1, <2>2
<1>8. capacity > 0 /\ (t - b.last) * rate >= Second => r.ok
  <2> SUFFICES ASSUME capacity > 0, (t - b.last) * rate >= Second
               PROVE  r.ok
    OBVIOUS
  <2>1. t > b.last
    <3>1. ASSUME t <= b.last
          PROVE  FALSE
      <4>1. rate * (t - b.last) <= rate * 0 /\ rate * 0 = 0
        BY <1>2, <3>1, TimesMono
      <4> QED
        BY <1>1, <1>2, <4>1
    <3> QED
      BY <1>2, <3>1
  <2>2. more >= Second /\ full >= Second
    BY <1>3, <2>1
  <2> HIDE DEF more, full, filled, r
  <2> QED
    BY <1>1, <1>2, <1>3, <1>4, <1>5, <1>6, <2>2
<1>9. r.bucket.tokens \in 0..full
  <2> HIDE DEF full, filled, r
  <2> QED
    BY <1>1, <1>2, <1>4, <1>5, <1>6
<1>10. r.bucket.tokens + (IF r.ok THEN Second ELSE 0) <= b.tokens + rate * (r.bucket.last - b.last)
  <2> HIDE DEF full, filled, r, more
  <2> QED
    BY <1>1, <1>2, <1>3, <1>4, <1>5, <1>6, <1>7
<1>11. r.bucket \in [tokens : 0..full, last : Int]
  <2> HIDE DEF r, full, filled
  <2> QED
    BY <1>6, <1>9
<1> QED
  BY <1>4, <1>6, <1>8, <1>10, <1>11

\* Two stretches, one after the other, are a stretch.
LEMMA StretchAdds ==
  ASSUME NEW rate \in Nat, NEW sec \in Nat, NEW t0 \in Nat, NEW t1 \in Nat, NEW t2 \in Nat,
         NEW l0 \in Int, NEW l1 \in Int, NEW l2 \in Int,
         NEW p0 \in Nat, NEW p1 \in Nat, NEW p2 \in Nat,
         t1 + sec * (p1 - p0) <= t0 + rate * (l1 - l0),
         t2 + sec * (p2 - p1) <= t1 + rate * (l2 - l1)
  PROVE  t2 + sec * (p2 - p0) <= t0 + rate * (l2 - l0)
<1>1. /\ sec * (p1 - p0) + sec * (p2 - p1) = sec * (p2 - p0)
      /\ rate * (l1 - l0) + rate * (l2 - l1) = rate * (l2 - l0)
  OBVIOUS
<1> DEFINE a == sec * (p1 - p0)
           b == sec * (p2 - p1)
           c == sec * (p2 - p0)
           d == rate * (l1 - l0)
           e == rate * (l2 - l1)
           f == rate * (l2 - l0)
<1>2. /\ a \in Int /\ b \in Int /\ c \in Int /\ d \in Int /\ e \in Int /\ f \in Int
      /\ a + b = c /\ d + e = f /\ t1 + a <= t0 + d /\ t2 + b <= t1 + e
  BY <1>1
<1> HIDE DEF a, b, c, d, e, f
<1>3. t2 + c <= t0 + f
  BY <1>2
<1> QED
  BY <1>3 DEF c, f

\* A run of messages: the bucket and the number that got through, after each.
MessageRun(capacity, rate, N, at, start, bucket, passed) ==
  /\ bucket[0] = NewBucket(capacity, start)
  /\ \A n \in 1..N : LET r == TryRemove(bucket[n - 1], capacity, rate, at[n])
                     IN  /\ bucket[n] = r.bucket
                         /\ passed[n] = passed[n - 1] + (IF r.ok THEN 1 ELSE 0)

\* In any stretch of a connection's messages, however they are timed and also when the clock
\* goes back, no more get through than the burst and what the rate pays between the first and
\* the last instant the bucket saw (rateLimiter.ts TokenBucket).
THEOREM BucketLimitsEveryStretch ==
  ASSUME NEW capacity \in Nat, NEW rate \in Nat, NEW N \in Nat, NEW at \in [1..N -> Int],
         NEW start \in Int, NEW bucket, NEW passed \in [0..N -> Nat],
         MessageRun(capacity, rate, N, at, start, bucket, passed)
  PROVE  \A i \in 0..N, j \in 0..N :
           i <= j => /\ bucket[i].last <= bucket[j].last
                     /\ Second * (passed[j] - passed[i])
                          <= capacity * Second + rate * (bucket[j].last - bucket[i].last)
<1> DEFINE full == capacity * Second
           Bucket(n) == bucket[n] \in [tokens : 0..full, last : Int]
           Wild == {n \in Nat : n <= N /\ ~Bucket(n)}
<1>1. Second \in Nat \ {0} /\ full \in Nat
  BY RulesAssumption
<1>2. ASSUME NEW n \in 1..N, Bucket(n - 1)
      PROVE  LET b == bucket[n - 1]
                 paidOut == passed[n] - passed[n - 1]
             IN  /\ Bucket(n) /\ passed[n] >= passed[n - 1]
                 /\ b.last <= bucket[n].last /\ paidOut \in {0, 1}
                 /\ bucket[n].tokens + Second * paidOut <= b.tokens + rate * (bucket[n].last - b.last)
  <2> DEFINE b == bucket[n - 1]
             r == TryRemove(b, capacity, rate, at[n])
  <2>1. bucket[n] = r.bucket /\ passed[n] = passed[n - 1] + (IF r.ok THEN 1 ELSE 0)
    BY DEF MessageRun
  <2>2. n - 1 \in 0..N /\ passed[n - 1] \in Nat /\ at[n] \in Int
    OBVIOUS
  <2>3. /\ r.ok \in BOOLEAN /\ r.bucket \in [tokens : 0..full, last : Int]
        /\ r.bucket.last = IF at[n] > b.last THEN at[n] ELSE b.last
        /\ r.bucket.tokens + (IF r.ok THEN Second ELSE 0) <= b.tokens + rate * (r.bucket.last - b.last)
    <3>1. b \in [tokens : 0..capacity * Second, last : Int]
      BY <1>2
    <3> DEFINE t == at[n]
    <3>2. t \in Int
      BY <2>2
    <3>3. r = TryRemove(b, capacity, rate, t)
      OBVIOUS
    <3> HIDE DEF b, t, r
    <3>4. /\ r.ok \in BOOLEAN /\ r.bucket \in [tokens : 0..capacity * Second, last : Int]
          /\ r.bucket.last = IF t > b.last THEN t ELSE b.last
          /\ r.bucket.tokens + (IF r.ok THEN Second ELSE 0)
               <= b.tokens + rate * (r.bucket.last - b.last)
      BY <3>1, <3>2, <3>3, BucketStep
    <3> QED
      BY <3>4 DEF t
  <2>4. b.last \in Int /\ r.bucket.last >= b.last
    <3>1. b.last \in Int
      BY <1>2
    <3> HIDE DEF b, r
    <3> QED
      BY <2>2, <2>3, <3>1
  <2>5. passed[n] - passed[n - 1] = IF r.ok THEN 1 ELSE 0
    <3> HIDE DEF r
    <3> QED
      BY <2>1, <2>2
  <2>6. Second * (passed[n] - passed[n - 1]) = IF r.ok THEN Second ELSE 0
    <3> HIDE DEF r
    <3> QED
      BY <1>1, <2>5
  <2> HIDE DEF r, b, full
  <2> QED
    BY <2>1, <2>2, <2>3, <2>4, <2>5, <2>6 DEF b, full
<1>3. \A n \in 0..N : Bucket(n)
  <2>1. ASSUME Wild # {}
        PROVE  FALSE
    <3>1. PICK n \in Wild : \A m \in Wild : n <= m
      <4> HIDE DEF Bucket
      <4> QED
        BY <2>1, LeastOf
    <3>2. Bucket(0)
      BY <1>1 DEF NewBucket, MessageRun
    <3>3. n \in 1..N /\ n - 1 \in 0..N /\ ~(n <= n - 1)
      BY <3>1, <3>2
    <3> HIDE DEF Bucket
    <3>4. Bucket(n - 1)
      BY <3>1, <3>3
    <3> QED
      BY <1>2, <3>1, <3>3, <3>4
  <2> QED
    BY <2>1
<1> HIDE DEF full
<1> DEFINE Held(i, j) == bucket[j].tokens + Second * (passed[j] - passed[i])
                           <= bucket[i].tokens + rate * (bucket[j].last - bucket[i].last)
           Good(i, j) == bucket[i].last <= bucket[j].last /\ Held(i, j)
<1>4. \A n \in 0..N : /\ bucket[n].tokens \in Nat /\ bucket[n].tokens <= full
                      /\ bucket[n].last \in Int /\ passed[n] \in Nat
  BY <1>1, <1>3
<1>5. ASSUME NEW i \in 0..N, NEW j \in 0..N, i <= j
      PROVE  Good(i, j)
  <2> DEFINE Bad == {n \in Nat : n <= N /\ i <= n /\ ~Good(i, n)}
  <2>1. ASSUME Bad # {}
        PROVE  FALSE
    <3>1. PICK n \in Bad : \A m \in Bad : n <= m
      <4> HIDE DEF Good
      <4> QED
        BY <2>1, LeastOf
    <3>2. Good(i, i)
      <4>1. bucket[i].tokens \in Nat /\ bucket[i].last \in Int /\ passed[i] \in Nat
        BY <1>4
      <4>2. Second * 0 = 0 /\ rate * 0 = 0
        BY <1>1
      <4>3. passed[i] - passed[i] = 0 /\ bucket[i].last - bucket[i].last = 0
        BY <4>1
      <4> QED
        BY <4>1, <4>2, <4>3
    <3>3. n \in 1..N /\ n - 1 \in 0..N /\ i <= n - 1 /\ ~(n <= n - 1) /\ n \in 0..N
      BY <3>1, <3>2
    <3>20. /\ bucket[i].last \in Int /\ bucket[n - 1].last \in Int /\ bucket[n].last \in Int
           /\ passed[i] \in Nat /\ passed[n - 1] \in Nat /\ passed[n] \in Nat
           /\ bucket[i].tokens \in Nat /\ bucket[n - 1].tokens \in Nat /\ bucket[n].tokens \in Nat
      <4> HIDE DEF Bad, Good
      <4> QED
        BY <1>4, <3>3
    <3>4. Good(i, n - 1)
      BY <3>1, <3>3
    <3>5. /\ bucket[n - 1].last <= bucket[n].last
          /\ bucket[n].tokens + Second * (passed[n] - passed[n - 1])
               <= bucket[n - 1].tokens + rate * (bucket[n].last - bucket[n - 1].last)
      BY <1>2, <1>3, <3>3
    <3>6. bucket[i].last <= bucket[n].last
      <4>1. bucket[i].last <= bucket[n - 1].last
        BY <3>4
      <4> DEFINE l0 == bucket[i].last
                 l1 == bucket[n - 1].last
                 l2 == bucket[n].last
      <4>2. l0 \in Int /\ l1 \in Int /\ l2 \in Int /\ l0 <= l1 /\ l1 <= l2
        BY <3>5, <3>20, <4>1
      <4> HIDE DEF l0, l1, l2, Bad, Good
      <4>3. l0 <= l2
        BY <4>2
      <4> QED
        BY <4>3 DEF l0, l2
    <3>7. Held(i, n)
      <4> DEFINE t0 == bucket[i].tokens
                 t1 == bucket[n - 1].tokens
                 t2 == bucket[n].tokens
                 l0 == bucket[i].last
                 l1 == bucket[n - 1].last
                 l2 == bucket[n].last
                 p0 == passed[i]
                 p1 == passed[n - 1]
                 p2 == passed[n]
      <4>1. /\ t0 \in Nat /\ t1 \in Nat /\ t2 \in Nat /\ l0 \in Int /\ l1 \in Int /\ l2 \in Int
            /\ p0 \in Nat /\ p1 \in Nat /\ p2 \in Nat /\ Second \in Nat
        BY <1>1, <3>20
      <4>2. t1 + Second * (p1 - p0) <= t0 + rate * (l1 - l0)
        BY <3>4
      <4>3. t2 + Second * (p2 - p1) <= t1 + rate * (l2 - l1)
        BY <3>5
      <4> HIDE DEF t0, t1, t2, l0, l1, l2, p0, p1, p2, Bad, Good
      <4>4. t2 + Second * (p2 - p0) <= t0 + rate * (l2 - l0)
        BY <4>1, <4>2, <4>3, StretchAdds
      <4> QED
        BY <4>4 DEF t0, t2, l0, l2, p0, p2
    <3> QED
      BY <3>1, <3>6, <3>7
  <2> QED
    BY <1>5, <2>1
<1>6. ASSUME NEW i \in 0..N, NEW j \in 0..N, i <= j
      PROVE  /\ bucket[i].last <= bucket[j].last
             /\ Second * (passed[j] - passed[i])
                  <= capacity * Second + rate * (bucket[j].last - bucket[i].last)
  <2>1. Good(i, j)
    BY <1>5, <1>6
  <2>2. /\ Second * (passed[j] - passed[i]) \in Int
        /\ rate * (bucket[j].last - bucket[i].last) \in Int
    BY <1>1, <1>4
  <2>3. bucket[i].tokens <= full /\ bucket[i].tokens \in Nat /\ bucket[j].tokens \in Nat
    BY <1>4
  <2>4. bucket[j].tokens + Second * (passed[j] - passed[i])
          <= bucket[i].tokens + rate * (bucket[j].last - bucket[i].last)
    BY <2>1
  <2>5. Second * (passed[j] - passed[i]) <= full + rate * (bucket[j].last - bucket[i].last)
    <3> DEFINE s == Second * (passed[j] - passed[i])
               r == rate * (bucket[j].last - bucket[i].last)
    <3>1. s \in Int /\ r \in Int /\ bucket[j].tokens + s <= bucket[i].tokens + r
      BY <2>2, <2>4
    <3> HIDE DEF s, r
    <3>2. s <= full + r
      <4> DEFINE ti == bucket[i].tokens
                 tj == bucket[j].tokens
      <4>1. ti \in Nat /\ tj \in Nat /\ ti <= full /\ tj + s <= ti + r
        BY <2>3, <3>1
      <4> HIDE DEF ti, tj
      <4> QED
        BY <1>1, <3>1, <4>1
    <3> QED
      BY <3>2 DEF s, r
  <2> QED
    BY <2>1, <2>5 DEF full
<1> QED
  BY <1>6

\* Rounding up is the least number of units that are enough (Math.ceil).
LEMMA CeilBounds ==
  ASSUME NEW a \in Int, NEW b \in Nat \ {0}
  PROVE  /\ CeilDiv(a, b) \in Int /\ b * CeilDiv(a, b) >= a /\ b * (CeilDiv(a, b) - 1) < a
         /\ CeilDiv(a, b) <= 0 <=> a <= 0
<1> DEFINE x == -a
           q == x \div b
           k == -q
<1>1. x \in Int /\ q \in Int /\ b * q <= x /\ x < b * q + b
  OBVIOUS
<1>2. CeilDiv(a, b) = k
  BY DEF CeilDiv
<1>3. b * k = -(b * q) /\ b * (k - 1) = b * k - b /\ b * q \in Int /\ b * k \in Int /\ k \in Int
  <2> HIDE DEF q
  <2> QED
    BY <1>1
<1>4. b * k >= a /\ b * (k - 1) < a
  <2> HIDE DEF q, k
  <2> QED
    BY <1>1, <1>3
<1>5. k <= 0 => a <= 0
  <2> SUFFICES ASSUME k <= 0
               PROVE  a <= 0
    OBVIOUS
  <2> HIDE DEF k
  <2>1. b * k <= b * 0 /\ b * 0 = 0
    BY <1>3, TimesMono
  <2> QED
    BY <1>3, <1>4, <2>1
<1>6. a <= 0 => k <= 0
  <2> SUFFICES ASSUME a <= 0, k >= 1
               PROVE  FALSE
    BY <1>3
  <2> HIDE DEF k
  <2>1. b * 0 <= b * (k - 1) /\ b * 0 = 0 /\ b * (k - 1) \in Int
    BY <1>3, TimesMono
  <2> QED
    BY <1>4, <2>1
<1> HIDE DEF k
<1> QED
  BY <1>2, <1>3, <1>4, <1>5, <1>6

\* The cells that can be armed are those that can be fired next: one while the gauge is
\* empty, and none is fired then; the countdown is the whole seconds to the charge, and ends
\* when the charge is there, for every count and instant (cooldown.ts).
THEOREM ArmingFollowsTheGauge ==
  ASSUME NEW charges \in Int, NEW until \in Int, NEW t \in Int, NEW staged \in Nat
  PROVE  LET v == CooldownView(charges, until, t, staged)
         IN  /\ v.readyToFire => ~v.onCooldown /\ v.phase = "refilledArmed"
             /\ v.onCooldown => (v.canArm <=> v.phase = "waiting")
             /\ ~v.onCooldown => (v.canArm <=> staged < charges)
             /\ v.onCooldown => (v.secondsUntilNext = 0 <=> until <= t)
             /\ v.secondsUntilNext > 0 => /\ Second * v.secondsUntilNext >= until - t
                                          /\ Second * (v.secondsUntilNext - 1) < until - t
<1> DEFINE v == CooldownView(charges, until, t, staged)
           k == CeilDiv(until - t, Second)
           s == SecondsUntil(until, t)
<1>1. Second \in Nat \ {0} /\ until - t \in Int
  BY RulesAssumption
<1>2. k \in Int /\ Second * k >= until - t /\ Second * (k - 1) < until - t /\ (k <= 0 <=> until - t <= 0)
  BY <1>1, CeilBounds
<1>3. s = IF k < 0 THEN 0 ELSE k
  BY DEF SecondsUntil, AtLeast
<1>4. v = [phase |-> CooldownPhase(charges, staged), onCooldown |-> charges <= 0,
           secondsUntilNext |-> IF charges <= 0 THEN s ELSE 0,
           capacity |-> IF charges <= 0 THEN 1 ELSE charges,
           canArm |-> staged < (IF charges <= 0 THEN 1 ELSE charges),
           readyToFire |-> charges > 0 /\ staged > 0]
  <2> HIDE DEF s
  <2>1. CASE charges <= 0
    BY <2>1 DEF CooldownView, ArmingCapacity, s
  <2>2. CASE ~(charges <= 0)
    BY <2>2 DEF CooldownView, ArmingCapacity, AtLeast, s
  <2> QED
    BY <2>1, <2>2
<1> HIDE DEF v, k, s
<1>5. /\ s \in Nat /\ (s = 0 <=> until <= t)
      /\ s > 0 => Second * s >= until - t /\ Second * (s - 1) < until - t
  BY <1>1, <1>2, <1>3
<1>6. /\ v.phase = CooldownPhase(charges, staged) /\ (v.onCooldown <=> charges <= 0)
      /\ v.secondsUntilNext = IF charges <= 0 THEN s ELSE 0
      /\ v.canArm <=> staged < (IF charges <= 0 THEN 1 ELSE charges)
      /\ v.readyToFire <=> charges > 0 /\ staged > 0
  BY <1>4
<1>7. /\ v.readyToFire => ~v.onCooldown /\ v.phase = "refilledArmed"
      /\ v.onCooldown => (v.canArm <=> v.phase = "waiting")
      /\ ~v.onCooldown => (v.canArm <=> staged < charges)
  BY <1>6 DEF CooldownPhase
<1>8. /\ v.onCooldown => (v.secondsUntilNext = 0 <=> until <= t)
      /\ v.secondsUntilNext > 0 => /\ Second * v.secondsUntilNext >= until - t
                                   /\ Second * (v.secondsUntilNext - 1) < until - t
  <2>1. CASE charges <= 0
    BY <1>5, <1>6, <2>1
  <2>2. CASE ~(charges <= 0)
    BY <1>6, <2>2
  <2> QED
    BY <2>1, <2>2
<1> QED
  BY <1>7, <1>8 DEF v

\* The countdown of a gauge frame is honest: from then on, and as long as the gauge is not
\* forgotten, the viewer is shown more charges exactly from the instant it names, and a
\* full gauge names none and stays full, for every interval, amount and maximum
\* (refill-peek.lua).
THEOREM PeekCountdownIsHonest ==
  ASSUME NEW g \in Gauge, NEW max \in Nat, g.c <= max, NEW t \in Nat, NEW u \in Nat,
         g.ts <= t, t <= u, u < g.dies
  PROVE  LET seen == Peeked(g, t, max)
             later == Peeked(g, u, max)
         IN  IF seen.charges = max THEN seen.cooldownUntil = 0 /\ later.charges = max
             ELSE later.charges > seen.charges <=> u >= seen.cooldownUntil
<1> DEFINE j == Ticks(g.ts, t)
           l == Ticks(g.ts, u)
           C(k) == AtMost(g.c + k * Amount, max)
<1>1. /\ Interval \in Nat \ {0} /\ Amount \in Nat \ {0}
      /\ g.c \in Nat /\ g.ts \in Nat /\ g.dies \in Nat /\ t < g.dies
  BY ScriptAssumption DEF Gauge
<1>2. \A x \in Nat : g.ts <= x => /\ Ticks(g.ts, x) \in Nat
                                  /\ \A k \in Nat : Ticks(g.ts, x) >= k <=> x - g.ts >= Interval * k
  <2> TAKE x \in Nat
  <2> SUFFICES ASSUME g.ts <= x
               PROVE  /\ Ticks(g.ts, x) \in Nat
                      /\ \A k \in Nat : Ticks(g.ts, x) >= k <=> x - g.ts >= Interval * k
    OBVIOUS
  <2> DEFINE w == x - g.ts
  <2>1. w \in Nat /\ w \div Interval \in Nat /\ 0 \div Interval = 0
    BY <1>1
  <2>2. Ticks(g.ts, x) = w \div Interval
    BY <1>1, <2>1 DEF Ticks
  <2>3. \A k \in Nat : w \div Interval >= k <=> w >= Interval * k
    BY <1>1, <2>1, DivAbove
  <2> QED
    BY <2>1, <2>2, <2>3
<1>3. \A x \in Nat : g.ts <= x /\ x < g.dies =>
        LET k == Ticks(g.ts, x)
        IN  /\ Peeked(g, x, max).charges = C(k)
            /\ Peeked(g, x, max).cooldownUntil
                 = IF C(k) < max THEN g.ts + k * Interval + Interval ELSE 0
  <2> TAKE x \in Nat
  <2> SUFFICES ASSUME g.ts <= x, x < g.dies
               PROVE  LET k == Ticks(g.ts, x)
                      IN  /\ Peeked(g, x, max).charges = C(k)
                          /\ Peeked(g, x, max).cooldownUntil
                               = IF C(k) < max THEN g.ts + k * Interval + Interval ELSE 0
    OBVIOUS
  <2> DEFINE k == Ticks(g.ts, x)
             c == IF k > 0 THEN C(k) ELSE g.c
             r == Refilled(g, x, max)
  <2>1. k \in Nat /\ ~(x >= g.dies)
    BY <1>1, <1>2
  <2>2. c = C(k) /\ C(k) \in Nat /\ C(k) <= max
    <3>1. k * Amount \in Nat /\ (k = 0 => k * Amount = 0)
      BY <1>1, <2>1
    <3> HIDE DEF k
    <3> QED
      BY <1>1, <2>1, <3>1 DEF AtMost
  <2>3. r = Pinned(c, g.ts + k * Interval, max, x)
    BY <2>1 DEF Refilled
  <2>4. r.c = C(k) /\ (C(k) < max => r.ts = g.ts + k * Interval)
    <3> HIDE DEF r, c, k, C
    <3>1. CASE C(k) >= max
      BY <2>2, <2>3, <3>1 DEF Pinned
    <3>2. CASE ~(C(k) >= max)
      BY <2>2, <2>3, <3>2 DEF Pinned
    <3> QED
      BY <3>1, <3>2
  <2>5. Peeked(g, x, max) = Reply(r, max)
    BY <2>1 DEF Peeked
  <2> HIDE DEF r, c, k, C
  <2>6. /\ Peeked(g, x, max).charges = C(k)
        /\ Peeked(g, x, max).cooldownUntil = IF C(k) < max THEN g.ts + k * Interval + Interval ELSE 0
    BY <2>4, <2>5 DEF Reply, CooldownUntil
  <2> QED
    BY <2>6 DEF k
<1>4. j \in Nat /\ l \in Nat /\ (\A k \in Nat : j >= k <=> t - g.ts >= Interval * k)
      /\ (\A k \in Nat : l >= k <=> u - g.ts >= Interval * k)
  BY <1>1, <1>2
<1> HIDE DEF j, l
<1>5. j <= l
  <2>1. t - g.ts >= Interval * j /\ Interval * j \in Nat
    <3>1. j >= j <=> t - g.ts >= Interval * j
      BY <1>4
    <3>2. j >= j /\ Interval * j \in Nat
      BY <1>1, <1>4
    <3> QED
      BY <3>1, <3>2
  <2>2. u - g.ts >= Interval * j
    BY <1>1, <2>1
  <2> QED
    BY <1>4, <2>2
<1>6. j + 1 <= l <=> u >= g.ts + j * Interval + Interval
  <2>1. Interval * (j + 1) = j * Interval + Interval /\ j * Interval \in Nat
    <3>1. \A a, k \in Nat : k * a \in Nat /\ a * (k + 1) = k * a + a
      OBVIOUS
    <3> HIDE DEF C
    <3> QED
      BY <1>1, <1>4, <3>1
  <2>2. j + 1 <= l <=> u - g.ts >= Interval * (j + 1)
    BY <1>4
  <2> QED
    BY <1>1, <2>1, <2>2
<1>7. /\ C(j) \in Nat /\ C(l) \in Nat /\ C(j) <= max
      /\ C(j) <= C(l) /\ C(l) <= max
      /\ C(j) < max /\ j + 1 <= l => C(l) > C(j)
  <2>1. /\ j * Amount \in Nat /\ l * Amount \in Nat /\ j * Amount = Amount * j /\ l * Amount = Amount * l
        /\ Amount * (j + 1) = Amount * j + Amount
    <3>1. \A a, k \in Nat : k * a \in Nat /\ k * a = a * k /\ a * (k + 1) = a * k + a
      OBVIOUS
    <3> HIDE DEF C
    <3> QED
      BY <1>1, <1>4, <3>1
  <2>2. Amount * j <= Amount * l /\ (j + 1 <= l => Amount * (j + 1) <= Amount * l)
    BY <1>1, <1>4, <1>5, TimesMono
  <2> DEFINE a == j * Amount
             b == l * Amount
  <2>3. a \in Nat /\ b \in Nat /\ a <= b /\ (j + 1 <= l => a + Amount <= b)
    BY <1>1, <2>1, <2>2
  <2>4. C(j) = AtMost(g.c + a, max) /\ C(l) = AtMost(g.c + b, max)
    OBVIOUS
  <2> HIDE DEF a, b, C
  <2> QED
    BY <1>1, <2>3, <2>4 DEF AtMost
<1>8. /\ Peeked(g, t, max).charges = C(j) /\ Peeked(g, u, max).charges = C(l)
      /\ Peeked(g, t, max).cooldownUntil = IF C(j) < max THEN g.ts + j * Interval + Interval ELSE 0
  BY <1>1, <1>3 DEF j, l
<1> HIDE DEF C
<1>9. CASE C(j) = max
  BY <1>7, <1>8, <1>9
<1>10. CASE C(j) # max
  <2>1. C(j) < max
    BY <1>7, <1>10
  <2>2. C(l) > C(j) <=> j + 1 <= l
    <3>1. ~(j + 1 <= l) => j = l
      BY <1>4, <1>5
    <3>2. j = l => ~(C(l) > C(j))
      BY <1>7
    <3> QED
      BY <1>7, <2>1, <3>1, <3>2
  <2> QED
    BY <1>6, <1>8, <1>10, <2>1, <2>2
<1> QED
  BY <1>9, <1>10

\* Division has one quotient and one remainder.
LEMMA DivUnique ==
  ASSUME NEW a \in Int, NEW b \in Nat \ {0}, NEW q \in Int, NEW r \in 0..b - 1, a = b * q + r
  PROVE  a \div b = q /\ a % b = r
<1> DEFINE p == a \div b
           s == a % b
<1>1. p \in Int /\ s \in 0..b - 1 /\ a = b * p + s
  OBVIOUS
<1> HIDE DEF p, s
<1>2. b * (p - q) = r - s
  <2>1. b * (p - q) = b * p - b * q /\ b * p \in Int /\ b * q \in Int
    BY <1>1
  <2> QED
    BY <1>1, <2>1
<1>3. p = q
  <2>1. CASE p > q
    <3>1. b * 1 <= b * (p - q)
      BY <1>1, <2>1, TimesMono
    <3> QED
      BY <1>1, <1>2, <3>1
  <2>2. CASE p < q
    <3>1. b * (p - q) <= b * (-1)
      BY <1>1, <2>2, TimesMono
    <3> QED
      BY <1>1, <1>2, <3>1
  <2> QED
    BY <1>1, <2>1, <2>2
<1>4. r = s
  BY <1>1, <1>2, <1>3
<1> QED
  BY <1>3, <1>4 DEF p, s

\* A field of two bytes keeps a number modulo what it holds (DataView.setUint16, getUint16).
LEMMA TwoBytes ==
  ASSUME NEW v \in Nat
  PROVE  LET hi == (v \div Byte) % Byte
             lo == v % Byte
         IN  hi \in U8 /\ lo \in U8 /\ hi * Byte + lo = v % (Byte * Byte)
<1> DEFINE B == Byte
           q == v \div B
           lo == v % B
           hi == q % B
           p == q \div B
<1>1. B \in Nat \ {0} /\ B * B \in Nat \ {0}
  BY WireAssumption
<1> HIDE DEF B
<1>2. q \in Int /\ lo \in 0..B - 1 /\ v = B * q + lo
  BY <1>1
<1> HIDE DEF q, lo
<1>3. p \in Int /\ hi \in 0..B - 1 /\ q = B * p + hi
  BY <1>1, <1>2
<1> HIDE DEF p, hi
<1>4. v = (B * B) * p + (hi * B + lo)
  <2>1. B * (B * p + hi) = (B * B) * p + hi * B
    BY <1>1, <1>3
  <2> QED
    BY <1>1, <1>2, <1>3, <2>1
<1>5. hi * B + lo \in 0..B * B - 1
  <2>1. B * hi <= B * (B - 1) /\ B * (B - 1) = B * B - B /\ hi * B = B * hi /\ B * hi \in Nat
    BY <1>1, <1>3, TimesMono
  <2> QED
    BY <1>1, <1>2, <2>1
<1>6. v % (B * B) = hi * B + lo
  <2> DEFINE m == B * B
             r == hi * B + lo
  <2>1. m \in Nat \ {0} /\ r \in 0..m - 1 /\ v = m * p + r
    BY <1>1, <1>4, <1>5
  <2> HIDE DEF m, r
  <2>2. v % m = r
    BY <1>3, <2>1, DivUnique
  <2> QED
    BY <2>2 DEF m, r
<1> QED
  BY <1>2, <1>3, <1>6 DEF q, lo, hi, B, U8

\* A field of four bytes keeps what fits it (DataView.setUint32, getUint32).
LEMMA FourBytes ==
  ASSUME NEW v \in U32
  PROVE  /\ v \in Nat /\ v \div (Byte * Byte) \in U16
         /\ (v \div (Byte * Byte)) * (Byte * Byte) + (v % (Byte * Byte)) = v
<1> DEFINE M == Byte * Byte
           q == v \div M
           r == v % M
<1>1. Byte \in Nat /\ M \in Nat \ {0} /\ Byte * Byte * Byte * Byte = M * M
  BY WireAssumption
<1>2. v \in Nat /\ v < M * M
  BY <1>1 DEF U32
<1> HIDE DEF M
<1>3. q \in Int /\ r \in 0..M - 1 /\ v = M * q + r /\ q * M = M * q /\ M * q \in Int
  BY <1>1, <1>2
<1> HIDE DEF q, r
<1>4. q >= 0
  <2> SUFFICES ASSUME q <= -1
               PROVE  FALSE
    BY <1>3
  <2>1. M * q <= M * (-1) /\ M * (-1) = -M
    BY <1>1, <1>3, TimesMono
  <2> QED
    BY <1>1, <1>2, <1>3, <2>1
<1>5. q < M
  <2> SUFFICES ASSUME M <= q
               PROVE  FALSE
    BY <1>1, <1>3
  <2>1. M * M <= M * q
    BY <1>1, <1>3, TimesMono
  <2> QED
    BY <1>1, <1>2, <1>3, <2>1
<1>6. q \in 0..M - 1
  BY <1>1, <1>3, <1>4, <1>5
<1>7. q \in U16
  BY <1>6 DEF M, U16
<1>8. v \in Nat /\ q * M + r = v
  BY <1>2, <1>3
<1> QED
  BY <1>7, <1>8 DEF q, r, M

\* A function on 1..n is a sequence of n elements.
LEMMA FunctionIsSeq ==
  ASSUME NEW S, NEW n \in Nat, NEW f \in [1..n -> S]
  PROVE  f \in Seq(S) /\ Len(f) = n
<1>1. f \in Seq(S)
  OBVIOUS
<1>2. Len(f) \in Nat /\ 1..Len(f) = 1..n
  BY <1>1, LenProperties
<1>3. Len(f) = n
  BY <1>2
<1> QED
  BY <1>1, <1>3

\* What the fields are, byte by byte (DataView).
LEMMA PutBytes ==
  ASSUME NEW v \in Nat
  PROVE  /\ PutU8(v) \in Seq(U8) /\ Len(PutU8(v)) = 1 /\ PutU8(v)[1] = v % Byte
         /\ PutU16(v) \in Seq(U8) /\ Len(PutU16(v)) = 2
         /\ PutU16(v)[1] * Byte + PutU16(v)[2] = v % (Byte * Byte)
         /\ PutU32(v) \in Seq(U8) /\ Len(PutU32(v)) = 4
         /\ v \in U32 => (PutU32(v)[1] * Byte + PutU32(v)[2]) * (Byte * Byte)
                            + (PutU32(v)[3] * Byte + PutU32(v)[4]) = v
<1> DEFINE a == v \div (Byte * Byte)
           P(n) == PutU16(n)
<1>1. Byte \in Nat \ {0} /\ Byte * Byte \in Nat \ {0}
  BY WireAssumption
<1>2. a \in Nat
  <2> DEFINE M == Byte * Byte
  <2>1. M \in Nat \ {0}
    BY <1>1
  <2> HIDE DEF M
  <2>2. v \div M \in Nat
    BY <2>1
  <2> QED
    BY <2>2 DEF M
<1> HIDE DEF a
<1>3. \A n \in Nat : /\ P(n) \in Seq(U8) /\ Len(P(n)) = 2
                     /\ P(n)[1] * Byte + P(n)[2] = n % (Byte * Byte)
  <2> TAKE n \in Nat
  <2> DEFINE hi == (n \div Byte) % Byte
             lo == n % Byte
  <2>1. hi \in U8 /\ lo \in U8 /\ hi * Byte + lo = n % (Byte * Byte)
    BY TwoBytes
  <2>2. P(n) = <<hi, lo>>
    BY DEF PutU16
  <2> HIDE DEF hi, lo, P
  <2>3. P(n) \in Seq(U8) /\ Len(P(n)) = 2 /\ P(n)[1] = hi /\ P(n)[2] = lo
    BY <2>1, <2>2
  <2> QED
    BY <2>1, <2>3
<1>4. PutU8(v) \in Seq(U8) /\ Len(PutU8(v)) = 1 /\ PutU8(v)[1] = v % Byte
  <2>1. v % Byte \in U8
    BY <1>1 DEF U8
  <2> QED
    BY <2>1 DEF PutU8
<1>5. PutU32(v) = P(a) \o P(v)
  BY DEF PutU32, a
<1> HIDE DEF P
<1> DEFINE s == P(a)
           t == P(v)
           u == s \o t
<1>6. s \in Seq(U8) /\ t \in Seq(U8) /\ Len(s) = 2 /\ Len(t) = 2
  BY <1>2, <1>3
<1> HIDE DEF s, t
<1>7. /\ u \in Seq(U8) /\ Len(u) = Len(s) + Len(t)
      /\ \A i \in 1..Len(s) + Len(t) : u[i] = IF i <= Len(s) THEN s[i] ELSE t[i - Len(s)]
  BY <1>6, ConcatProperties
<1> HIDE DEF u
<1>8. Len(u) = 4 /\ u[1] = s[1] /\ u[2] = s[2] /\ u[3] = t[1] /\ u[4] = t[2]
  BY <1>6, <1>7
<1>9. /\ s[1] * Byte + s[2] = a % (Byte * Byte)
      /\ t[1] * Byte + t[2] = v % (Byte * Byte)
  BY <1>2, <1>3 DEF s, t
<1>10. ASSUME v \in U32
       PROVE  (u[1] * Byte + u[2]) * (Byte * Byte) + (u[3] * Byte + u[4]) = v
  <2> DEFINE M == Byte * Byte
  <2>1. a \in U16 /\ a * M + (v % M) = v
    BY <1>10, FourBytes DEF a
  <2>2. a \in 0..M - 1 /\ M \in Nat \ {0}
    BY <1>1, <2>1 DEF U16
  <2> HIDE DEF M
  <2>3. a % M = a
    BY <2>2
  <2>4. u[1] * Byte + u[2] = a % M /\ u[3] * Byte + u[4] = v % M
    BY <1>8, <1>9 DEF M
  <2> DEFINE x == u[1] * Byte + u[2]
             y == u[3] * Byte + u[4]
  <2>5. x = a /\ y = v % M
    BY <2>3, <2>4
  <2> HIDE DEF x, y
  <2>6. x * M + y = v
    BY <2>1, <2>5
  <2> QED
    BY <2>6 DEF M, x, y
<1>11. PutU32(v) = u
  BY <1>5 DEF u, s, t
<1>12. PutU32(v) \in Seq(U8) /\ Len(PutU32(v)) = 4
  BY <1>7, <1>8, <1>11
<1> QED
  BY <1>3, <1>4, <1>10, <1>11, <1>12 DEF P

\* Three fields, one after the other.
LEMMA ThreeParts ==
  ASSUME NEW S, NEW s \in Seq(S), NEW t \in Seq(S), NEW u \in Seq(S)
  PROVE  LET j == (s \o t) \o u
         IN  /\ j \in Seq(S) /\ Len(j) = Len(s) + Len(t) + Len(u)
             /\ \A i \in 1..Len(s) : j[i] = s[i]
             /\ \A i \in 1..Len(t) : j[Len(s) + i] = t[i]
             /\ \A i \in 1..Len(u) : j[Len(s) + Len(t) + i] = u[i]
<1> DEFINE p == s \o t
           j == p \o u
           a == Len(s)
           b == Len(t)
           c == Len(u)
<1>1. a \in Nat /\ b \in Nat /\ c \in Nat
  BY LenProperties
<1>2. /\ p \in Seq(S) /\ Len(p) = a + b
      /\ \A i \in 1..a + b : p[i] = IF i <= a THEN s[i] ELSE t[i - a]
  BY ConcatProperties
<1> HIDE DEF p
<1>3. /\ j \in Seq(S) /\ Len(j) = a + b + c
      /\ \A i \in 1..a + b + c : j[i] = IF i <= a + b THEN p[i] ELSE u[i - (a + b)]
  <2>1. p \in Seq(S)
    BY <1>2
  <2>2. /\ j \in Seq(S) /\ Len(j) = Len(p) + Len(u)
        /\ \A i \in 1..Len(p) + Len(u) : j[i] = IF i <= Len(p) THEN p[i] ELSE u[i - Len(p)]
    <3> HIDE DEF a, b, c
    <3> QED
      BY <2>1, ConcatProperties
  <2> HIDE DEF j, a, b
  <2> QED
    BY <1>2, <2>2
<1> HIDE DEF j, a, b, c
<1>4. ASSUME NEW i \in 1..a
      PROVE  j[i] = s[i]
  <2>1. i \in 1..a + b + c /\ i <= a + b /\ i \in 1..a + b /\ i <= a
    BY <1>1
  <2> QED
    BY <1>2, <1>3, <2>1
<1>5. ASSUME NEW i \in 1..b
      PROVE  j[a + i] = t[i]
  <2>1. a + i \in 1..a + b + c /\ a + i <= a + b /\ a + i \in 1..a + b /\ ~(a + i <= a) /\ (a + i) - a = i
    BY <1>1
  <2> QED
    BY <1>2, <1>3, <2>1
<1>6. ASSUME NEW i \in 1..c
      PROVE  j[a + b + i] = u[i]
  <2>1. a + b + i \in 1..a + b + c /\ ~(a + b + i <= a + b) /\ (a + b + i) - (a + b) = i
    BY <1>1
  <2> QED
    BY <1>3, <2>1
<1> QED
  BY <1>3, <1>4, <1>5, <1>6 DEF j, p, a, b, c

\* A write that fits its record.
WireWrites == [x : U16, y : U16, color : U8]

\* The header of a delta (encodeDelta).
LEMMA HeaderIs ==
  ASSUME NEW seq \in U32, NEW count \in Nat
  PROVE  LET h == DeltaHeader(seq, count)
         IN  /\ h \in Seq(U8) /\ Len(h) = 7 /\ h[1] = OpDelta
             /\ (h[2] * Byte + h[3]) * (Byte * Byte) + (h[4] * Byte + h[5]) = seq
             /\ h[6] * Byte + h[7] = count % (Byte * Byte)
<1> DEFINE s == PutU8(OpDelta)
           t == PutU32(seq)
           u == PutU16(count)
           h == (s \o t) \o u
<1>1. seq \in Nat /\ OpDelta \in Nat /\ OpDelta % Byte = OpDelta
  BY WireAssumption DEF U32, OpDelta
<1>2. s \in Seq(U8) /\ Len(s) = 1 /\ s[1] = OpDelta
  BY <1>1, PutBytes
<1>3. /\ t \in Seq(U8) /\ Len(t) = 4
      /\ (t[1] * Byte + t[2]) * (Byte * Byte) + (t[3] * Byte + t[4]) = seq
  BY <1>1, PutBytes
<1>4. u \in Seq(U8) /\ Len(u) = 2 /\ u[1] * Byte + u[2] = count % (Byte * Byte)
  BY PutBytes
<1>5. DeltaHeader(seq, count) = h
  BY DEF DeltaHeader
<1> HIDE DEF s, t, u
<1>6. /\ h \in Seq(U8) /\ Len(h) = Len(s) + Len(t) + Len(u)
      /\ \A i \in 1..Len(s) : h[i] = s[i]
      /\ \A i \in 1..Len(t) : h[Len(s) + i] = t[i]
      /\ \A i \in 1..Len(u) : h[Len(s) + Len(t) + i] = u[i]
  <2>1. s \in Seq(U8) /\ t \in Seq(U8) /\ u \in Seq(U8)
    BY <1>2, <1>3, <1>4
  <2> QED
    BY <2>1, ThreeParts
<1> HIDE DEF h
<1>7. /\ Len(h) = 7 /\ h[1] = s[1] /\ h[2] = t[1] /\ h[3] = t[2] /\ h[4] = t[3] /\ h[5] = t[4]
      /\ h[6] = u[1] /\ h[7] = u[2]
  BY <1>2, <1>3, <1>4, <1>6
<1> QED
  BY <1>2, <1>3, <1>4, <1>5, <1>6, <1>7

\* The record of a write (encodeDelta).
LEMMA RecordIs ==
  ASSUME NEW w \in WireWrites
  PROVE  LET r == DeltaRecord(w)
         IN  /\ r \in Seq(U8) /\ Len(r) = 5
             /\ r[1] * Byte + r[2] = w.x /\ r[3] * Byte + r[4] = w.y /\ r[5] = w.color
<1> DEFINE s == PutU16(w.x)
           t == PutU16(w.y)
           u == PutU8(w.color)
           r == (s \o t) \o u
<1>1. /\ w.x \in Nat /\ w.y \in Nat /\ w.color \in Nat
      /\ w.x % (Byte * Byte) = w.x /\ w.y % (Byte * Byte) = w.y /\ w.color % Byte = w.color
  <2> DEFINE M == Byte * Byte
  <2>1. M \in Nat \ {0} /\ Byte \in Nat \ {0}
    BY WireAssumption
  <2>2. w.x \in 0..M - 1 /\ w.y \in 0..M - 1 /\ w.color \in 0..Byte - 1
    BY DEF WireWrites, U16, U8
  <2> HIDE DEF M
  <2>3. w.x % M = w.x /\ w.y % M = w.y /\ w.color % Byte = w.color
    BY <2>1, <2>2
  <2> QED
    BY <2>1, <2>2, <2>3 DEF M
<1>2. s \in Seq(U8) /\ Len(s) = 2 /\ s[1] * Byte + s[2] = w.x
  BY <1>1, PutBytes
<1>3. t \in Seq(U8) /\ Len(t) = 2 /\ t[1] * Byte + t[2] = w.y
  BY <1>1, PutBytes
<1>4. u \in Seq(U8) /\ Len(u) = 1 /\ u[1] = w.color
  BY <1>1, PutBytes
<1>5. DeltaRecord(w) = r
  BY DEF DeltaRecord
<1> HIDE DEF s, t, u
<1>6. /\ r \in Seq(U8) /\ Len(r) = Len(s) + Len(t) + Len(u)
      /\ \A i \in 1..Len(s) : r[i] = s[i]
      /\ \A i \in 1..Len(t) : r[Len(s) + i] = t[i]
      /\ \A i \in 1..Len(u) : r[Len(s) + Len(t) + i] = u[i]
  <2>1. s \in Seq(U8) /\ t \in Seq(U8) /\ u \in Seq(U8)
    BY <1>2, <1>3, <1>4
  <2> QED
    BY <2>1, ThreeParts
<1> HIDE DEF r
<1>7. Len(r) = 5 /\ r[1] = s[1] /\ r[2] = s[2] /\ r[3] = t[1] /\ r[4] = t[2] /\ r[5] = u[1]
  BY <1>2, <1>3, <1>4, <1>6
<1> QED
  BY <1>2, <1>3, <1>4, <1>5, <1>6, <1>7

\* A delta is its header and its records (encodeDelta).
LEMMA EncodedIs ==
  ASSUME NEW seq \in U32, NEW writes \in Seq(WireWrites)
  PROVE  LET e == EncodeDelta(seq, writes)
             n == Len(writes)
         IN  /\ e \in Seq(U8) /\ Len(e) = 7 + 5 * n
             /\ \A i \in 1..7 : e[i] = DeltaHeader(seq, n)[i]
             /\ \A k \in 1..n, m \in 1..5 : e[7 + 5 * (k - 1) + m] = DeltaRecord(writes[k])[m]
<1> DEFINE n == Len(writes)
           size == 7 + 5 * n
           h == DeltaHeader(seq, n)
           R(k) == DeltaRecord(writes[k])
           Cut(i) == IF i <= 7 THEN h[i] ELSE R(((i - 7 - 1) \div 5) + 1)[((i - 7 - 1) % 5) + 1]
           e == [i \in 1..size |-> Cut(i)]
<1>1. n \in Nat /\ size \in Nat /\ \A k \in 1..n : writes[k] \in WireWrites
  BY LenProperties
<1>2. h \in Seq(U8) /\ Len(h) = 7
  BY <1>1, HeaderIs
<1>3. \A k \in 1..n : R(k) \in Seq(U8) /\ Len(R(k)) = 5
  BY <1>1, RecordIs
<1>4. EncodeDelta(seq, writes) = e
  BY DEF EncodeDelta, DeltaHeaderBytes, DeltaRecordBytes
<1> HIDE DEF n, h, R
<1>5. \A i \in 1..7 : h[i] \in U8
  <2>1. h \in [1..7 -> U8]
    BY <1>2, LenProperties
  <2> QED
    BY <2>1
<1>6. \A k \in 1..n, m \in 1..5 : R(k)[m] \in U8
  BY <1>3
<1>7. \A i \in 1..size : Cut(i) \in U8
  <2> TAKE i \in 1..size
  <2>1. CASE i <= 7
    BY <1>5, <2>1
  <2>2. CASE ~(i <= 7)
    <3>1. ((i - 7 - 1) \div 5) + 1 \in 1..n /\ ((i - 7 - 1) % 5) + 1 \in 1..5
      BY <1>1, <2>2
    <3> QED
      BY <1>6, <2>2, <3>1
  <2> QED
    BY <2>1, <2>2
<1>8. e \in Seq(U8) /\ Len(e) = size
  <2>1. e \in [1..size -> U8]
    <3> HIDE DEF Cut, size
    <3> QED
      BY <1>7
  <2> HIDE DEF e, size
  <2> QED
    BY <1>1, <2>1, FunctionIsSeq
<1>9. \A i \in 1..7 : e[i] = h[i]
  BY <1>1
<1>10. ASSUME NEW k \in 1..n, NEW m \in 1..5
       PROVE  e[7 + 5 * (k - 1) + m] = R(k)[m]
  <2> DEFINE i == 7 + 5 * (k - 1) + m
  <2>1. i \in 1..size /\ ~(i <= 7) /\ i - 7 - 1 = 5 * (k - 1) + (m - 1)
    BY <1>1
  <2>2. (i - 7 - 1) \div 5 = k - 1 /\ (i - 7 - 1) % 5 = m - 1
    <3>1. \A a, b \in Int : b \in 0..4 => (5 * a + b) \div 5 = a /\ (5 * a + b) % 5 = b
      OBVIOUS
    <3>2. k - 1 \in Int /\ m - 1 \in 0..4
      BY <1>1
    <3> HIDE DEF i
    <3> QED
      BY <2>1, <3>1, <3>2
  <2> HIDE DEF i
  <2>3. ((i - 7 - 1) \div 5) + 1 = k /\ ((i - 7 - 1) % 5) + 1 = m
    BY <1>1, <2>2
  <2>4. e[i] = Cut(i)
    <3> HIDE DEF size, Cut
    <3> QED
      BY <2>1
  <2>5. Cut(i) = R(k)[m]
    BY <2>1, <2>3
  <2> HIDE DEF e, Cut
  <2> QED
    BY <2>4, <2>5 DEF i
<1> HIDE DEF e
<1> QED
  BY <1>4, <1>8, <1>9, <1>10 DEF n, h, R

\* A frame that was encoded decodes to the same sequence number and the same writes, for any
\* width of a byte, as long as the count fits its two bytes.  The coalescer does not cut its
\* batches: of a longer one the page reads as many writes as the count is modulo what two
\* bytes hold, none at all of a batch of exactly so many (encodeDelta, decodeDelta).
THEOREM DeltasSurvive ==
  ASSUME NEW seq \in U32, NEW writes \in Seq(WireWrites)
  PROVE  DecodeDelta(EncodeDelta(seq, writes))
           = [seq |-> seq, writes |-> SubSeq(writes, 1, Len(writes) % (Byte * Byte))]
<1> DEFINE n == Len(writes)
           M == Byte * Byte
           count == n % M
           e == EncodeDelta(seq, writes)
           h == DeltaHeader(seq, n)
           R(k) == DeltaRecord(writes[k])
           told == SubSeq(writes, 1, count)
<1>1. n \in Nat /\ \A k \in 1..n : writes[k] \in WireWrites
  BY LenProperties
<1>2. M \in Nat \ {0} /\ Byte \in Nat
  BY WireAssumption
<1>3. count \in Nat /\ count <= n
  <2> HIDE DEF M, n
  <2> QED
    BY <1>1, <1>2
<1>4. /\ h \in Seq(U8) /\ Len(h) = 7 /\ h[1] = OpDelta
      /\ (h[2] * Byte + h[3]) * (Byte * Byte) + (h[4] * Byte + h[5]) = seq
      /\ h[6] * Byte + h[7] = count
  BY <1>1, HeaderIs
<1>5. /\ e \in Seq(U8) /\ Len(e) = 7 + 5 * n
      /\ \A i \in 1..7 : e[i] = h[i]
      /\ \A k \in 1..n, m \in 1..5 : e[7 + 5 * (k - 1) + m] = R(k)[m]
  BY EncodedIs
<1>6. \A k \in 1..n : LET r == R(k)
                          w == writes[k]
                      IN  r[1] * Byte + r[2] = w.x /\ r[3] * Byte + r[4] = w.y /\ r[5] = w.color
  BY <1>1, RecordIs
<1> HIDE DEF n, M, count, e, h, R
<1>7. ASSUME NEW k \in 1..n
      PROVE  WriteAt(e, 7 + 5 * (k - 1)) = writes[k]
  <2> DEFINE o == 7 + 5 * (k - 1)
  <2>1. /\ e[o + 1] = R(k)[1] /\ e[o + 2] = R(k)[2] /\ e[o + 3] = R(k)[3]
        /\ e[o + 4] = R(k)[4] /\ e[o + 5] = R(k)[5]
    BY <1>5
  <2>2. o \in Int /\ (o + 2) + 1 = o + 3 /\ (o + 2) + 2 = o + 4 /\ (o + 4) + 1 = o + 5
    BY <1>1
  <2> HIDE DEF o
  <2>3. WriteAt(e, o) = [x |-> writes[k].x, y |-> writes[k].y, color |-> writes[k].color]
    BY <1>6, <2>1, <2>2 DEF WriteAt, GetU16, GetU8
  <2>4. writes[k] = [x |-> writes[k].x, y |-> writes[k].y, color |-> writes[k].color]
    BY <1>1 DEF WireWrites
  <2> QED
    BY <2>3, <2>4 DEF o
<1>8. [k \in 1..count |-> WriteAt(e, 7 + 5 * (k - 1))] = told
  <2> DEFINE f == [k \in 1..count |-> WriteAt(e, 7 + 5 * (k - 1))]
  <2>1. \A k \in 1..count : k \in 1..n /\ f[k] = writes[k]
    BY <1>1, <1>3, <1>7
  <2>2. f \in [1..count -> WireWrites]
    <3>1. f = [k \in 1..count |-> f[k]]
      OBVIOUS
    <3> HIDE DEF f
    <3> QED
      BY <1>1, <2>1, <3>1
  <2> HIDE DEF f
  <2>3. f \in Seq(WireWrites) /\ Len(f) = count
    BY <1>3, <2>2, FunctionIsSeq
  <2>4. \A i \in 1..count : writes[i] \in WireWrites
    BY <1>1, <2>1
  <2>5. /\ told \in Seq(WireWrites) /\ Len(told) = IF 1 <= count THEN count - 1 + 1 ELSE 0
        /\ \A i \in 1..count - 1 + 1 : told[i] = writes[1 + i - 1]
    BY <1>3, <2>4, SubSeqProperties
  <2> HIDE DEF told
  <2>6. Len(told) = count /\ \A i \in 1..count : told[i] = writes[i]
    BY <1>3, <2>5
  <2>7. f = told
    BY <2>1, <2>3, <2>5, <2>6, SeqEqual
  <2> QED
    BY <2>7 DEF f
<1> HIDE DEF told
<1>9. /\ GetU8(e, 0) = OpDelta /\ GetU16(e, 5) = count /\ GetU32(e, 1) = seq
  BY <1>4, <1>5 DEF GetU8, GetU16, GetU32
<1>10. ~(Len(e) < 7) /\ ~(Len(e) < 7 + 5 * count)
  BY <1>1, <1>3, <1>5
<1>11. DecodeDelta(e) = [seq |-> seq, writes |-> told]
  BY <1>8, <1>9, <1>10 DEF DecodeDelta, DeltaHeaderBytes, DeltaRecordBytes
<1> QED
  BY <1>11 DEF e, told, count, n, M


\* A frame of five parts, of which four are the header of a snapshot.
Joined(S, a, b, c, d, p, e) ==
  Len(a) = 1 /\ Len(b) = 4 /\ Len(c) = 2 /\ Len(d) = 2 =>
    /\ e \in Seq(S) /\ Len(e) = 9 + Len(p)
    /\ e[1] = a[1] /\ e[2] = b[1] /\ e[3] = b[2] /\ e[4] = b[3] /\ e[5] = b[4]
    /\ e[6] = c[1] /\ e[7] = c[2] /\ e[8] = d[1] /\ e[9] = d[2]
    /\ \A i \in 1..Len(p) : e[9 + i] = p[i]

\* The parts follow one another (encodeSnapshot).
LEMMA FiveParts ==
  ASSUME NEW S, NEW a \in Seq(S), NEW b \in Seq(S), NEW c \in Seq(S), NEW d \in Seq(S),
         NEW p \in Seq(S)
  PROVE  Joined(S, a, b, c, d, p, (((a \o b) \o c) \o d) \o p)
<1> DEFINE h == (a \o b) \o c
           e == (h \o d) \o p
<1>1. /\ h \in Seq(S) /\ Len(h) = Len(a) + Len(b) + Len(c)
      /\ \A i \in 1..Len(a) : h[i] = a[i]
      /\ \A i \in 1..Len(b) : h[Len(a) + i] = b[i]
      /\ \A i \in 1..Len(c) : h[Len(a) + Len(b) + i] = c[i]
  <2> HIDE DEF e
  <2> QED
    BY ThreeParts
<1> HIDE DEF h
<1>3. /\ e \in Seq(S) /\ Len(e) = Len(h) + Len(d) + Len(p)
      /\ \A i \in 1..Len(h) : e[i] = h[i]
      /\ \A i \in 1..Len(d) : e[Len(h) + i] = d[i]
      /\ \A i \in 1..Len(p) : e[Len(h) + Len(d) + i] = p[i]
  <2>1. h \in Seq(S)
    BY <1>1
  <2> QED
    BY <2>1, ThreeParts
<1> SUFFICES ASSUME Len(a) = 1, Len(b) = 4, Len(c) = 2, Len(d) = 2
             PROVE  /\ e \in Seq(S) /\ Len(e) = 9 + Len(p)
                    /\ e[1] = a[1] /\ e[2] = b[1] /\ e[3] = b[2] /\ e[4] = b[3] /\ e[5] = b[4]
                    /\ e[6] = c[1] /\ e[7] = c[2] /\ e[8] = d[1] /\ e[9] = d[2]
                    /\ \A i \in 1..Len(p) : e[9 + i] = p[i]
  BY DEF h, Joined
<1>2. /\ Len(h) = 7 /\ h[1] = a[1] /\ h[2] = b[1] /\ h[3] = b[2] /\ h[4] = b[3] /\ h[5] = b[4]
      /\ h[6] = c[1] /\ h[7] = c[2]
  BY <1>1
<1> HIDE DEF e
<1>4. /\ Len(e) = 9 + Len(p)
      /\ e[1] = h[1] /\ e[2] = h[2] /\ e[3] = h[3] /\ e[4] = h[4] /\ e[5] = h[5]
      /\ e[6] = h[6] /\ e[7] = h[7] /\ e[8] = d[1] /\ e[9] = d[2]
      /\ \A i \in 1..Len(p) : e[9 + i] = p[i]
  <2>1. Len(p) \in Nat
    BY LenProperties
  <2> QED
    BY <1>2, <1>3, <2>1
<1> QED
  BY <1>2, <1>3, <1>4

\* The bytes of a snapshot frame, as its reader takes them.
SnapshotFrame(pixels, seq, width, height, e) ==
  /\ e \in Seq(U8) /\ Len(e) = 9 + Len(pixels) /\ e[1] = OpSnapshot
  /\ (e[2] * Byte + e[3]) * (Byte * Byte) + (e[4] * Byte + e[5]) = seq
  /\ e[6] * Byte + e[7] = width /\ e[8] * Byte + e[9] = height
  /\ \A i \in 1..Len(pixels) : e[9 + i] = pixels[i]

\* What is encoded of a snapshot: its header, then the pixels as they are (encodeSnapshot).
LEMMA SnapshotIs ==
  ASSUME NEW seq \in U32, NEW width \in U16, NEW height \in U16, NEW pixels \in Seq(U8)
  PROVE  SnapshotFrame(pixels, seq, width, height,
           (((PutU8(OpSnapshot) \o PutU32(seq)) \o PutU16(width)) \o PutU16(height)) \o pixels)
<1> DEFINE a == PutU8(OpSnapshot)
           b == PutU32(seq)
           c == PutU16(width)
           d == PutU16(height)
           e == (((a \o b) \o c) \o d) \o pixels
<1>1. /\ width \in Nat /\ height \in Nat /\ seq \in Nat
      /\ OpSnapshot \in Nat /\ OpSnapshot % Byte = OpSnapshot
      /\ width % (Byte * Byte) = width /\ height % (Byte * Byte) = height
  <2> DEFINE M == Byte * Byte
  <2>1. M \in Nat \ {0}
    BY WireAssumption
  <2>2. width \in 0..M - 1 /\ height \in 0..M - 1
    BY DEF U16
  <2>3. seq \in Nat /\ OpSnapshot \in Nat /\ OpSnapshot % Byte = OpSnapshot
    BY WireAssumption DEF U32, OpSnapshot
  <2> HIDE DEF M
  <2>4. width \in Nat /\ height \in Nat /\ width % M = width /\ height % M = height
    BY <2>1, <2>2
  <2> QED
    BY <2>3, <2>4 DEF M
<1>2. a \in Seq(U8) /\ Len(a) = 1 /\ a[1] = OpSnapshot
  BY <1>1, PutBytes
<1>3. /\ b \in Seq(U8) /\ Len(b) = 4
      /\ (b[1] * Byte + b[2]) * (Byte * Byte) + (b[3] * Byte + b[4]) = seq
  BY <1>1, PutBytes
<1>4. c \in Seq(U8) /\ Len(c) = 2 /\ c[1] * Byte + c[2] = width
  BY <1>1, PutBytes
<1>5. d \in Seq(U8) /\ Len(d) = 2 /\ d[1] * Byte + d[2] = height
  BY <1>1, PutBytes
<1> HIDE DEF a, b, c, d
<1>6. Joined(U8, a, b, c, d, pixels, e)
  <2>1. a \in Seq(U8) /\ b \in Seq(U8) /\ c \in Seq(U8) /\ d \in Seq(U8)
    BY <1>2, <1>3, <1>4, <1>5
  <2> QED
    BY <2>1, FiveParts
<1>7. Len(a) = 1 /\ Len(b) = 4 /\ Len(c) = 2 /\ Len(d) = 2
  BY <1>2, <1>3, <1>4, <1>5
<1> HIDE DEF e
<1>8. /\ e \in Seq(U8) /\ Len(e) = 9 + Len(pixels) /\ e[1] = OpSnapshot
      /\ (e[2] * Byte + e[3]) * (Byte * Byte) + (e[4] * Byte + e[5]) = seq
      /\ e[6] * Byte + e[7] = width /\ e[8] * Byte + e[9] = height
      /\ \A i \in 1..Len(pixels) : e[9 + i] = pixels[i]
  BY <1>2, <1>3, <1>4, <1>5, <1>6, <1>7 DEF Joined
<1> QED
  BY <1>8 DEF e, a, b, c, d, SnapshotFrame

\* A snapshot that was encoded decodes to itself, for every board whose sides fit two bytes:
\* neither the header nor the end of the pixels is off by a byte (encodeSnapshot,
\* decodeSnapshot).
THEOREM SnapshotsSurvive ==
  ASSUME NEW seq \in U32, NEW width \in U16, NEW height \in U16, NEW pixels \in Seq(U8),
         Len(pixels) = width * height
  PROVE  DecodeSnapshot(EncodeSnapshot(pixels, seq, width, height))
           = [seq |-> seq, width |-> width, height |-> height, pixels |-> pixels]
<1> DEFINE n == width * height
           e == EncodeSnapshot(pixels, seq, width, height)
           cut == SubSeq(e, 10, 9 + n)
<1>1. n \in Nat /\ Len(pixels) = n
  BY LenProperties
<1>2. /\ e \in Seq(U8) /\ Len(e) = 9 + n /\ e[1] = OpSnapshot
      /\ (e[2] * Byte + e[3]) * (Byte * Byte) + (e[4] * Byte + e[5]) = seq
      /\ e[6] * Byte + e[7] = width /\ e[8] * Byte + e[9] = height
      /\ \A i \in 1..n : e[9 + i] = pixels[i]
  <2> DEFINE f == (((PutU8(OpSnapshot) \o PutU32(seq)) \o PutU16(width)) \o PutU16(height)) \o pixels
  <2>1. e = f
    BY DEF EncodeSnapshot
  <2>2. SnapshotFrame(pixels, seq, width, height, f)
    BY SnapshotIs
  <2> HIDE DEF e, f, n
  <2> QED
    BY <1>1, <2>1, <2>2 DEF SnapshotFrame
<1>3. /\ GetU8(e, 0) = OpSnapshot /\ GetU32(e, 1) = seq
      /\ GetU16(e, 5) = width /\ GetU16(e, 7) = height
  <2> HIDE DEF e, n
  <2> QED
    BY <1>2 DEF GetU8, GetU16, GetU32
<1> HIDE DEF e
<1>4. cut = pixels
  <2> HIDE DEF n
  <2>1. \A i \in 10..9 + n : e[i] \in U8
    <3>1. DOMAIN e = 1..9 + n /\ \A i \in 1..9 + n : e[i] \in U8
      BY <1>2, LenProperties, ElementOfSeq
    <3> QED
      BY <1>1, <3>1
  <2>2. /\ cut \in Seq(U8) /\ Len(cut) = IF 10 <= 9 + n THEN (9 + n) - 10 + 1 ELSE 0
        /\ \A i \in 1..(9 + n) - 10 + 1 : cut[i] = e[10 + i - 1]
    <3>1. 10 \in Int /\ 9 + n \in Int
      BY <1>1
    <3> HIDE DEF cut
    <3> QED
      BY <2>1, <3>1, SubSeqProperties DEF cut
  <2> HIDE DEF cut
  <2>3. /\ Len(cut) = n /\ (9 + n) - 10 + 1 = n /\ \A i \in 1..n : 10 + i - 1 = 9 + i
    BY <1>1, <2>2
  <2>4. \A i \in 1..n : cut[i] = pixels[i]
    BY <1>2, <2>2, <2>3
  <2> QED
    BY <1>1, <2>2, <2>3, <2>4, SeqEqual
<1>5. ~(Len(e) < 9) /\ ~(9 + n < Len(e))
  BY <1>1, <1>2
<1>6. DecodeSnapshot(e) = [seq |-> seq, width |-> width, height |-> height, pixels |-> cut]
  <2>1. (IF 9 + n < Len(e) THEN 9 + n ELSE Len(e)) = 9 + n
    BY <1>2, <1>5
  <2>2. 9 + 1 = 10
    OBVIOUS
  <2> QED
    BY <1>3, <1>5, <2>1, <2>2 DEF DecodeSnapshot, SnapshotHeaderBytes
<1> QED
  BY <1>4, <1>6 DEF e


-----------------------------------------------------------------------------
\* A board of the page and a write to it, of any size and any colour.
Inks == Nat \cup {"transparent"}
ABoard(b) ==
  /\ b \in [width : Nat, height : Nat, pixels : Seq(Nat), imageView : Seq(Inks),
            appliedSeq : Int, loaded : BOOLEAN]
  /\ Len(b.pixels) = b.width * b.height
  /\ b.imageView = Drawn(b.pixels)
AnyWrite == [x : Nat, y : Nat, color : Nat]

\* The cells of a board are its indices, each of them once (BoardBuffer.index).
LEMMA CellsAreIndices ==
  ASSUME NEW width \in Nat, NEW height \in Nat, NEW x \in 0..width - 1, NEW y \in 0..height - 1
  PROVE  /\ y * width + x + 1 \in 1..(width * height)
         /\ \A v \in 0..width - 1, k \in 0..height - 1 :
              k * width + v + 1 = y * width + x + 1 => v = x /\ k = y
<1>1. width \in Nat \ {0} /\ y \in Nat /\ x \in Nat
  OBVIOUS
<1>2. y * width + x + 1 \in 1..(width * height)
  <2>1. width * (y + 1) <= width * height
    BY TimesMono
  <2>2. width * (y + 1) = y * width + width /\ y * width \in Nat /\ width * height \in Nat
    BY <1>1
  <2> DEFINE p == y * width
             q == width * height
  <2>3. p \in Nat /\ q \in Nat /\ p + width <= q
    BY <2>1, <2>2
  <2> HIDE DEF p, q
  <2>4. p + x + 1 \in 1..q
    BY <1>1, <2>3
  <2> QED
    BY <2>4 DEF p, q
<1>3. ASSUME NEW v \in 0..width - 1, NEW k \in 0..height - 1, k * width + v + 1 = y * width + x + 1
      PROVE  v = x /\ k = y
  <2> DEFINE a == width * k + v
  <2>1. a \in Int /\ a = width * y + x
    <3>1. k * width = width * k /\ y * width = width * y /\ width * k \in Int /\ width * y \in Int
      BY <1>1
    <3> DEFINE s == k * width
               t == y * width
    <3>2. s \in Int /\ t \in Int /\ a = s + v /\ width * y + x = t + x /\ s + v + 1 = t + x + 1
      BY <1>3, <3>1
    <3> HIDE DEF a, s, t
    <3>3. a \in Int /\ a = t + x
      BY <3>2
    <3> QED
      BY <3>2, <3>3
  <2>2. k \in Int /\ y \in Int /\ v \in 0..width - 1 /\ a = width * k + v
    OBVIOUS
  <2> HIDE DEF a
  <2>3. a \div width = k /\ a % width = v
    BY <1>1, <2>1, <2>2, DivUnique
  <2>4. a \div width = y /\ a % width = x
    BY <1>1, <2>1, <2>2, DivUnique
  <2> QED
    BY <2>3, <2>4
<1> QED
  BY <1>2, <1>3

\* What a write does to a board: its cell has the colour, every other is kept, and the
\* image is still the drawing of the colours.  One outside the board does nothing.
Sets(b, w, a) ==
  /\ ABoard(a) /\ a.width = b.width /\ a.height = b.height
  /\ a.loaded = b.loaded /\ a.appliedSeq = b.appliedSeq
  /\ \A x \in Int, y \in Int :
       GetPixel(a, x, y) = IF OnBoard(b, x, y) /\ w.x = x /\ w.y = y THEN w.color
                           ELSE GetPixel(b, x, y)

\* One write is set in the colours and in the image (BoardBuffer.setPixel).
LEMMA WriteSets ==
  ASSUME NEW b, ABoard(b), NEW w \in AnyWrite
  PROVE  Sets(b, w, SetPixel(b, w))
<1>1. /\ w.x \in Nat /\ w.y \in Nat /\ w.color \in Nat
      /\ b.width \in Nat /\ b.height \in Nat /\ b.pixels \in Seq(Nat) /\ b.imageView \in Seq(Inks)
      /\ b.loaded \in BOOLEAN /\ Len(b.pixels) = b.width * b.height /\ b.imageView = Drawn(b.pixels)
      /\ b.appliedSeq \in Int
  BY DEF ABoard, AnyWrite
<1>2. CASE ~OnBoard(b, w.x, w.y)
  <2>1. SetPixel(b, w) = b
    BY <1>2 DEF SetPixel
  <2> QED
    BY <1>2, <2>1 DEF Sets
<1>3. CASE OnBoard(b, w.x, w.y)
  <2> DEFINE i == Index(b, w.x, w.y)
             n == b.width * b.height
             pixels == [b.pixels EXCEPT ![i] = w.color]
             view == [b.imageView EXCEPT ![i] = Ink(w.color)]
             a == [b EXCEPT !.pixels = pixels, !.imageView = view]
  <2>1. SetPixel(b, w) = a
    BY <1>3 DEF SetPixel
  <2>2. w.x \in 0..b.width - 1 /\ w.y \in 0..b.height - 1 /\ b.loaded
    BY <1>3 DEF OnBoard, IsInBounds
  <2>3. i \in 1..n
    BY <1>1, <2>2, CellsAreIndices DEF Index
  <2>4. n \in Nat /\ DOMAIN b.pixels = 1..n /\ \A j \in 1..n : b.pixels[j] \in Nat
    <3>1. DOMAIN b.pixels = 1..n
      BY <1>1, LenProperties
    <3>2. \A j \in 1..Len(b.pixels) : b.pixels[j] \in Nat
      BY <1>1, ElementOfSeq
    <3> QED
      BY <1>1, <3>1, <3>2
  <2> HIDE DEF i, n
  <2>5. pixels \in [1..n -> Nat] /\ \A j \in 1..n : pixels[j] = IF j = i THEN w.color ELSE b.pixels[j]
    <3>1. b.pixels \in [1..n -> Nat]
      <4>1. b.pixels \in [1..Len(b.pixels) -> Nat]
        BY <1>1, LenProperties
      <4> QED
        BY <1>1, <4>1 DEF n
    <3> QED
      BY <1>1, <2>3, <3>1
  <2> HIDE DEF pixels
  <2>6. view = Drawn(pixels) /\ view \in [1..n -> Inks]
    <3>1. b.imageView = [j \in 1..n |-> Ink(b.pixels[j])]
      BY <1>1, <2>4 DEF Drawn
    <3>2. DOMAIN pixels = 1..n
      BY <2>5
    <3>3. Drawn(pixels) = [j \in 1..n |-> Ink(pixels[j])]
      BY <3>2 DEF Drawn
    <3>4. view = [j \in 1..n |-> IF j = i THEN Ink(w.color) ELSE Ink(b.pixels[j])]
      BY <2>3, <3>1
    <3>5. \A j \in 1..n : Ink(pixels[j]) = IF j = i THEN Ink(w.color) ELSE Ink(b.pixels[j])
      BY <2>5
    <3>6. \A c \in Nat : Ink(c) \in Inks
      BY DEF Ink, Inks
    <3>7. view = Drawn(pixels)
      BY <3>3, <3>4, <3>5
    <3>8. \A j \in 1..n : Ink(pixels[j]) \in Inks
      BY <2>5, <3>6
    <3> QED
      BY <3>3, <3>7, <3>8
  <2> HIDE DEF view
  <2>7. pixels \in Seq(Nat) /\ Len(pixels) = n
    BY <2>4, <2>5, FunctionIsSeq
  <2>8. view \in Seq(Inks)
    BY <2>4, <2>6, FunctionIsSeq
  <2>9. /\ a.width = b.width /\ a.height = b.height /\ a.loaded = b.loaded
        /\ a.appliedSeq = b.appliedSeq /\ a.pixels = pixels /\ a.imageView = view
    BY DEF ABoard
  <2>10. a \in [width : Nat, height : Nat, pixels : Seq(Nat), imageView : Seq(Inks),
                appliedSeq : Int, loaded : BOOLEAN]
    BY <2>7, <2>8 DEF ABoard
  <2> HIDE DEF a
  <2>11. ABoard(a)
    BY <2>6, <2>7, <2>9, <2>10 DEF ABoard, n
  <2>12. ASSUME NEW x \in Int, NEW y \in Int
         PROVE  GetPixel(a, x, y) = IF OnBoard(b, x, y) /\ w.x = x /\ w.y = y THEN w.color
                                    ELSE GetPixel(b, x, y)
    <3>1. OnBoard(a, x, y) <=> OnBoard(b, x, y)
      BY <2>9 DEF OnBoard
    <3>2. CASE ~OnBoard(b, x, y)
      BY <3>1, <3>2 DEF GetPixel
    <3>3. CASE OnBoard(b, x, y)
      <4> DEFINE j == Index(b, x, y)
      <4>1. x \in 0..b.width - 1 /\ y \in 0..b.height - 1
        BY <3>3 DEF OnBoard, IsInBounds
      <4>2. j \in 1..n /\ (j = i => w.x = x /\ w.y = y)
        <5>1. b.width \in Nat /\ b.height \in Nat
          BY <1>1
        <5>2. /\ w.y * b.width + w.x + 1 = i /\ y * b.width + x + 1 = j
              /\ b.width * b.height = n
          BY DEF Index, i, n
        <5>3. /\ y * b.width + x + 1 \in 1..(b.width * b.height)
              /\ \A v \in 0..b.width - 1, k \in 0..b.height - 1 :
                   k * b.width + v + 1 = y * b.width + x + 1 => v = x /\ k = y
          BY <4>1, <5>1, CellsAreIndices
        <5>4. w.y * b.width + w.x + 1 = y * b.width + x + 1 => w.x = x /\ w.y = y
          BY <2>2, <5>3
        <5> HIDE DEF j
        <5> QED
          BY <5>2, <5>3, <5>4
      <4>3. w.x = x /\ w.y = y => j = i
        BY DEF i
      <4>4. Index(a, x, y) = j
        BY <2>9 DEF Index
      <4> HIDE DEF j
      <4>5. GetPixel(a, x, y) = pixels[j]
        BY <2>9, <3>1, <3>3, <4>4 DEF GetPixel
      <4>6. GetPixel(b, x, y) = b.pixels[j]
        BY <3>3 DEF GetPixel, j
      <4> QED
        BY <2>5, <3>3, <4>2, <4>3, <4>5, <4>6
    <3> QED
      BY <3>2, <3>3
  <2>13. Sets(b, w, a)
    BY <2>9, <2>11, <2>12 DEF Sets
  <2> QED
    BY <2>1, <2>13
<1> QED
  BY <1>2, <1>3

\* The board after each of the writes of a batch (BoardBuffer.applyDelta).
Runs(f, page, writes, n) ==
  f = [k \in 0..n |-> IF k = 0 THEN page ELSE SetPixel(f[k - 1], writes[k])]

\* The boards after the writes of a batch exist, so that their equation may be used.
LEMMA BatchRuns ==
  ASSUME NEW page, NEW writes, NEW N \in Nat
  PROVE  \E f : Runs(f, page, writes, N)
<1> DEFINE Bad == {n \in Nat : ~\E f : Runs(f, page, writes, n)}
<1>1. ASSUME Bad # {}
      PROVE  FALSE
  <2>1. PICK n \in Bad : \A m \in Bad : n <= m
    BY <1>1, LeastOf
  <2>2. n \in Nat /\ ~\E f : Runs(f, page, writes, n)
    BY <2>1
  <2>3. CASE n = 0
    <3> DEFINE g == [k \in 0..0 |-> page]
    <3>1. \A k \in 0..0 : k = 0
      OBVIOUS
    <3>2. g = [k \in 0..0 |-> IF k = 0 THEN page ELSE SetPixel(g[k - 1], writes[k])]
      BY <3>1
    <3> HIDE DEF g
    <3>3. Runs(g, page, writes, 0)
      BY <3>2 DEF Runs
    <3> QED
      BY <2>2, <2>3, <3>3
  <2>4. CASE n # 0
    <3>1. n - 1 \in Nat /\ ~(n <= n - 1)
      BY <2>2, <2>4
    <3>2. PICK f : Runs(f, page, writes, n - 1)
      BY <2>1, <3>1
    <3> DEFINE g == [k \in 0..n |-> IF k = n THEN SetPixel(f[n - 1], writes[n]) ELSE f[k]]
               Step(k, v) == IF k = 0 THEN page ELSE SetPixel(v, writes[k])
    <3>3. \A k \in 0..n - 1 : f[k] = Step(k, f[k - 1])
      BY <3>2 DEF Runs
    <3> HIDE DEF Step
    <3>4. ASSUME NEW k \in 0..n
          PROVE  g[k] = Step(k, g[k - 1])
      <4>1. CASE k = n
        <5>1. g[n] = SetPixel(f[n - 1], writes[n])
          BY <2>2
        <5>2. g[n - 1] = f[n - 1]
          BY <2>2, <2>4
        <5> HIDE DEF g
        <5> QED
          BY <2>4, <4>1, <5>1, <5>2 DEF Step
      <4>2. CASE k = 0
        <5>1. g[k] = f[k] /\ k \in 0..n - 1
          BY <2>2, <2>4, <4>2
        <5>2. f[k] = page
          BY <3>3, <4>2, <5>1 DEF Step
        <5> HIDE DEF g
        <5> QED
          BY <4>2, <5>1, <5>2 DEF Step
      <4>3. CASE k # 0 /\ k # n
        <5>1. k \in 0..n - 1 /\ k - 1 \in 0..n /\ k - 1 # n
          BY <2>2, <4>3
        <5>2. g[k] = f[k] /\ g[k - 1] = f[k - 1]
          BY <4>3, <5>1
        <5> HIDE DEF g
        <5> QED
          BY <3>3, <5>1, <5>2
      <4> QED
        BY <4>1, <4>2, <4>3
    <3>5. g = [k \in 0..n |-> g[k]]
      OBVIOUS
    <3> HIDE DEF g
    <3>6. g = [k \in 0..n |-> Step(k, g[k - 1])]
      BY <3>4, <3>5
    <3>7. Runs(g, page, writes, n)
      BY <3>6 DEF Runs, Step
    <3> QED
      BY <2>2, <3>7
  <2> QED
    BY <2>3, <2>4
<1> QED
  BY <1>1

\* The writes of a batch applied one after the other: the newest on a cell is what it shows,
\* a cell without a write keeps what it showed, and the image is the drawing of the colours
\* throughout, for a board and a batch of any size with writes inside and outside
\* (BoardBuffer.applyDelta, setPixel).
THEOREM BoardFollowsBatches ==
  ASSUME NEW page, ABoard(page), page.loaded, NEW delta \in [seq : Nat, writes : Seq(AnyWrite)],
         delta.seq > page.appliedSeq
  PROVE  LET b       == ApplyDelta(page, delta)
             On(n, x, y) == delta.writes[n].x = x /\ delta.writes[n].y = y
         IN  /\ ABoard(b) /\ b.appliedSeq = delta.seq
             /\ \A x \in 0..page.width - 1, y \in 0..page.height - 1 :
                  /\ (\A n \in 1..Len(delta.writes) : ~On(n, x, y))
                        => GetPixel(b, x, y) = GetPixel(page, x, y)
                  /\ \A n \in 1..Len(delta.writes) :
                       On(n, x, y) /\ (\A m \in n + 1..Len(delta.writes) : ~On(m, x, y))
                         => GetPixel(b, x, y) = delta.writes[n].color
<1> DEFINE writes == delta.writes
           N == Len(writes)
           On(n, x, y) == writes[n].x = x /\ writes[n].y = y
           f == CHOOSE g : Runs(g, page, writes, N)
           Follows(n, x, y) ==
             /\ (\A k \in 1..n : ~On(k, x, y)) => GetPixel(f[n], x, y) = GetPixel(page, x, y)
             /\ \A k \in 1..n : On(k, x, y) /\ (\A m \in k + 1..n : ~On(m, x, y))
                                 => GetPixel(f[n], x, y) = writes[k].color
           Places == (0..page.width - 1) \X (0..page.height - 1)
           Good(n) == /\ ABoard(f[n]) /\ f[n].loaded
                      /\ f[n].width = page.width /\ f[n].height = page.height
                      /\ \A c \in Places : Follows(n, c[1], c[2])
           Bad == {n \in Nat : n <= N /\ ~Good(n)}
<1>1. writes \in Seq(AnyWrite) /\ N \in Nat /\ \A n \in 1..N : writes[n] \in AnyWrite
  BY LenProperties, ElementOfSeq
<1>2. Runs(f, page, writes, N)
  BY <1>1, BatchRuns
<1>3. Written(page, writes) = f[N]
  BY DEF Written, Runs
<1> HIDE DEF writes, N, f
<1>4. f[0] = page /\ \A n \in 1..N : f[n] = SetPixel(f[n - 1], writes[n])
  BY <1>1, <1>2 DEF Runs
<1>5. ASSUME Bad # {}
      PROVE  FALSE
  <2>1. PICK n \in Bad : \A m \in Bad : n <= m
    <3> HIDE DEF Good
    <3> QED
      BY <1>5, LeastOf
  <2>2. n \in Nat /\ n <= N /\ ~Good(n)
    BY <2>1
  <2>3. n # 0
    <3>1. Good(0)
      BY <1>4
    <3> QED
      BY <2>2, <3>1
  <2>4. n \in 1..N /\ n - 1 \in Nat /\ n - 1 <= N /\ ~(n <= n - 1)
    BY <1>1, <2>2, <2>3
  <2>5. Good(n - 1)
    <3> HIDE DEF Good
    <3> QED
      BY <2>1, <2>4
  <2> DEFINE p == f[n - 1]
             a == f[n]
             w == writes[n]
  <2>6. Sets(p, w, a)
    <3>1. a = SetPixel(p, w) /\ w \in AnyWrite
      BY <1>1, <1>4, <2>4
    <3>2. ABoard(p)
      BY <2>5
    <3> HIDE DEF p, a, w
    <3> QED
      BY <3>1, <3>2, WriteSets
  <2>7. /\ ABoard(a) /\ a.loaded /\ a.width = page.width /\ a.height = page.height
        /\ p.loaded /\ p.width = page.width /\ p.height = page.height
    <3>1. p.loaded /\ p.width = page.width /\ p.height = page.height
      BY <2>5
    <3> HIDE DEF p, a, w
    <3> QED
      BY <2>6, <3>1 DEF Sets
  <2>8. ASSUME NEW c \in Places
        PROVE  Follows(n, c[1], c[2])
    <3> DEFINE x == c[1]
               y == c[2]
    <3>1. x \in 0..page.width - 1 /\ y \in 0..page.height - 1
      OBVIOUS
    <3>2. Follows(n - 1, x, y)
      BY <2>5
    <3>3. x \in Int /\ y \in Int /\ OnBoard(p, x, y)
      BY <2>7, <3>1 DEF OnBoard, IsInBounds
    <3> HIDE DEF x, y
    <3>4. GetPixel(a, x, y) = IF On(n, x, y) THEN writes[n].color ELSE GetPixel(p, x, y)
      <4>1. GetPixel(a, x, y) = IF OnBoard(p, x, y) /\ w.x = x /\ w.y = y THEN w.color
                               ELSE GetPixel(p, x, y)
        <5> HIDE DEF a, p, w
        <5> QED
          BY <2>6, <3>3 DEF Sets
      <4> QED
        BY <3>3, <4>1
    <3> HIDE DEF On
    <3>5. (\A k \in 1..n : ~On(k, x, y)) => GetPixel(f[n], x, y) = GetPixel(page, x, y)
      <4> SUFFICES ASSUME \A k \in 1..n : ~On(k, x, y)
                   PROVE  GetPixel(f[n], x, y) = GetPixel(page, x, y)
        OBVIOUS
      <4>1. ~On(n, x, y) /\ \A k \in 1..n - 1 : ~On(k, x, y)
        BY <2>4
      <4> QED
        BY <3>2, <3>4, <4>1
    <3>6. ASSUME NEW k \in 1..n, On(k, x, y), \A m \in k + 1..n : ~On(m, x, y)
          PROVE  GetPixel(f[n], x, y) = writes[k].color
      <4>1. CASE k = n
        BY <3>4, <3>6, <4>1
      <4>2. CASE k # n
        <5>1. k \in 1..n - 1 /\ n \in k + 1..n /\ \A m \in k + 1..n - 1 : m \in k + 1..n
          BY <2>4, <4>2
        <5>2. ~On(n, x, y) /\ \A m \in k + 1..n - 1 : ~On(m, x, y)
          BY <3>6, <5>1
        <5> QED
          BY <3>2, <3>4, <3>6, <5>1, <5>2
      <4> QED
        BY <4>1, <4>2
    <3> QED
      BY <3>5, <3>6 DEF x, y
  <2>9. Good(n)
    BY <2>7, <2>8
  <2> QED
    BY <2>2, <2>9
<1>6. Good(N)
  <2> HIDE DEF Good
  <2> QED
    BY <1>1, <1>5
<1> DEFINE b == ApplyDelta(page, delta)
<1>7. b = [f[N] EXCEPT !.appliedSeq = delta.seq]
  <2>1. ~(~page.loaded \/ delta.seq <= page.appliedSeq)
    BY DEF ABoard
  <2> QED
    BY <1>3, <2>1 DEF ApplyDelta, writes
<1>8. /\ ABoard(b) /\ b.appliedSeq = delta.seq
      /\ \A x \in Int, y \in Int : GetPixel(b, x, y) = GetPixel(f[N], x, y)
  <2> DEFINE g == f[N]
  <2>1. ABoard(g) /\ delta.seq \in Int
    BY <1>6
  <2>2. b = [g EXCEPT !.appliedSeq = delta.seq]
    BY <1>7
  <2> HIDE DEF g, b
  <2>3. /\ b \in [width : Nat, height : Nat, pixels : Seq(Nat), imageView : Seq(Inks),
                  appliedSeq : Int, loaded : BOOLEAN]
        /\ b.width = g.width /\ b.height = g.height /\ b.pixels = g.pixels /\ b.loaded = g.loaded
        /\ b.imageView = g.imageView /\ b.appliedSeq = delta.seq
    BY <2>1, <2>2 DEF ABoard
  <2> QED
    BY <2>1, <2>3 DEF ABoard, GetPixel, OnBoard, Index, g
<1> HIDE DEF b
<1>9. ASSUME NEW x \in 0..page.width - 1, NEW y \in 0..page.height - 1
      PROVE  Follows(N, x, y) /\ GetPixel(b, x, y) = GetPixel(f[N], x, y)
  <2>1. <<x, y>> \in Places /\ <<x, y>>[1] = x /\ <<x, y>>[2] = y
    OBVIOUS
  <2>2. \A c \in Places : Follows(N, c[1], c[2])
    BY <1>6
  <2>3. x \in Int /\ y \in Int
    OBVIOUS
  <2> HIDE DEF Follows, Places
  <2>4. Follows(N, <<x, y>>[1], <<x, y>>[2])
    BY <2>1, <2>2
  <2>5. Follows(N, x, y)
    BY <2>1, <2>4
  <2> QED
    BY <1>8, <2>3, <2>5
<1> QED
  BY <1>8, <1>9 DEF b, N, writes

\* What a cell shows is a colour (BoardBuffer.getPixel).
LEMMA CellsHaveColours ==
  ASSUME NEW b, ABoard(b), NEW x \in Int, NEW y \in Int
  PROVE  GetPixel(b, x, y) \in Nat
<1>1. /\ b.width \in Nat /\ b.height \in Nat /\ b.pixels \in Seq(Nat)
      /\ Len(b.pixels) = b.width * b.height
  BY DEF ABoard
<1>2. CASE ~OnBoard(b, x, y)
  BY <1>2 DEF GetPixel
<1>3. CASE OnBoard(b, x, y)
  <2>1. x \in 0..b.width - 1 /\ y \in 0..b.height - 1
    BY <1>3 DEF OnBoard, IsInBounds
  <2>2. Index(b, x, y) \in 1..(b.width * b.height)
    BY <1>1, <2>1, CellsAreIndices DEF Index
  <2> DEFINE i == Index(b, x, y)
  <2>3. i \in 1..Len(b.pixels)
    BY <1>1, <2>2
  <2> HIDE DEF i
  <2>4. b.pixels[i] \in Nat
    BY <1>1, <2>3, ElementOfSeq
  <2> QED
    BY <1>3, <2>4 DEF GetPixel, i
<1> QED
  BY <1>2, <1>3

\* A resize keeps every cell that both sizes have, at its coordinates, and leaves the others
\* empty: rows are cut or padded and never run into each other, whatever the two sizes, and
\* the image is drawn anew (BoardBuffer.resizeTo).
THEOREM ResizeKeepsCells ==
  ASSUME NEW page, ABoard(page), page.loaded, NEW width \in Nat, NEW height \in Nat
  PROVE  LET b == ResizeTo(page, width, height)
         IN  /\ ABoard(b) /\ b.loaded /\ b.width = width /\ b.height = height
             /\ b.appliedSeq = page.appliedSeq
             /\ \A x \in 0..width - 1, y \in 0..height - 1 :
                  GetPixel(b, x, y) = IF x < page.width /\ y < page.height
                                      THEN page.pixels[y * page.width + x + 1] ELSE 0
<1>1. /\ page.width \in Nat /\ page.height \in Nat
      /\ \A x \in Nat, y \in Nat :
           GetPixel(page, x, y) = IF x < page.width /\ y < page.height
                                   THEN page.pixels[y * page.width + x + 1] ELSE 0
  <2>1. page.width \in Nat /\ page.height \in Nat
    BY DEF ABoard
  <2>2. ASSUME NEW x \in Nat, NEW y \in Nat
        PROVE  GetPixel(page, x, y) = IF x < page.width /\ y < page.height
                                       THEN page.pixels[y * page.width + x + 1] ELSE 0
    <3>1. OnBoard(page, x, y) <=> x < page.width /\ y < page.height
      BY <2>1 DEF OnBoard, IsInBounds
    <3> QED
      BY <3>1 DEF GetPixel, Index
  <2> QED
    BY <2>1, <2>2
<1> DEFINE b == ResizeTo(page, width, height)
<1>2. CASE width = page.width /\ height = page.height
  <2>1. b = page
    BY <1>2 DEF ResizeTo
  <2>2. \A x \in 0..width - 1, y \in 0..height - 1 : x \in Nat /\ y \in Nat
    OBVIOUS
  <2> HIDE DEF b
  <2> QED
    BY <1>1, <1>2, <2>1, <2>2 DEF b
<1>3. CASE ~(width = page.width /\ height = page.height)
  <2> DEFINE n == width * height
             V(i) == GetPixel(page, (i - 1) % width, (i - 1) \div width)
             pixels == [i \in 1..n |-> V(i)]
             a == [page EXCEPT !.width = width, !.height = height,
                                !.pixels = pixels, !.imageView = Drawn(pixels)]
  <2>1. b = a
    BY <1>3 DEF ResizeTo
  <2>2. n \in Nat /\ (width = 0 => n = 0)
    OBVIOUS
  <2>3. \A i \in 1..n : V(i) \in Nat
    <3> TAKE i \in 1..n
    <3>1. width \in Nat \ {0} /\ i - 1 \in Int
      BY <2>2
    <3>2. (i - 1) % width \in Int /\ (i - 1) \div width \in Int
      <4> HIDE DEF n
      <4> QED
        BY <3>1
    <3> QED
      BY <3>2, CellsHaveColours
  <2>4. pixels \in [1..n -> Nat]
    <3> HIDE DEF n, V
    <3> QED
      BY <2>3
  <2>5. \A x \in 0..width - 1, y \in 0..height - 1 : pixels[y * width + x + 1] = GetPixel(page, x, y)
    <3> TAKE x \in 0..width - 1, y \in 0..height - 1
    <3> DEFINE i == y * width + x + 1
    <3>1. i \in 1..n
      BY CellsAreIndices
    <3>2. i - 1 = width * y + x /\ i - 1 \in Int
      <4> DEFINE s == y * width
      <4>1. s \in Int /\ s = width * y
        OBVIOUS
      <4> HIDE DEF s
      <4>2. (s + x + 1) - 1 = s + x /\ s + x \in Int
        BY <4>1
      <4> QED
        BY <4>1, <4>2 DEF s
    <3>3. width \in Nat \ {0} /\ y \in Int
      OBVIOUS
    <3> HIDE DEF i, n
    <3>4. (i - 1) \div width = y /\ (i - 1) % width = x
      BY <3>2, <3>3, DivUnique
    <3>5. pixels[i] = V(i)
      <4> HIDE DEF V
      <4> QED
        BY <3>1
    <3> HIDE DEF pixels
    <3> QED
      BY <3>4, <3>5 DEF i
  <2> HIDE DEF pixels
  <2>6. Drawn(pixels) \in [1..n -> Inks]
    <3>1. Drawn(pixels) = [i \in 1..n |-> Ink(pixels[i])]
      BY <2>4 DEF Drawn
    <3>2. \A i \in 1..n : Ink(pixels[i]) \in Inks
      <4>1. \A c \in Nat : Ink(c) \in Inks
        BY DEF Ink, Inks
      <4> HIDE DEF n
      <4> QED
        BY <2>4, <4>1
    <3> QED
      BY <3>1, <3>2
  <2> DEFINE view == Drawn(pixels)
  <2> HIDE DEF n, view
  <2>7. pixels \in Seq(Nat) /\ Len(pixels) = n
    BY <2>2, <2>4, FunctionIsSeq
  <2>8. view \in Seq(Inks)
    <3>1. view \in [1..n -> Inks]
      BY <2>6 DEF view
    <3> QED
      BY <2>2, <3>1, FunctionIsSeq
  <2>9. /\ a.width = width /\ a.height = height /\ a.loaded = page.loaded
        /\ a.appliedSeq = page.appliedSeq /\ a.pixels = pixels /\ a.imageView = view
    BY DEF ABoard, view
  <2>10. a \in [width : Nat, height : Nat, pixels : Seq(Nat), imageView : Seq(Inks),
                appliedSeq : Int, loaded : BOOLEAN]
    BY <2>7, <2>8 DEF ABoard, view
  <2> HIDE DEF a
  <2>11. ABoard(a)
    BY <2>7, <2>9, <2>10 DEF ABoard, n, view
  <2>12. \A x \in 0..width - 1, y \in 0..height - 1 :
           GetPixel(a, x, y) = GetPixel(page, x, y) /\ x \in Nat /\ y \in Nat
    BY <2>5, <2>9 DEF GetPixel, OnBoard, IsInBounds, Index
  <2>13. ASSUME NEW x \in 0..width - 1, NEW y \in 0..height - 1
         PROVE  GetPixel(a, x, y) = IF x < page.width /\ y < page.height
                                    THEN page.pixels[y * page.width + x + 1] ELSE 0
    BY <1>1, <2>12
  <2>14. a.loaded
    BY <2>9
  <2> QED
    BY <2>1, <2>9, <2>11, <2>13, <2>14
<1> QED
  BY <1>2, <1>3


=============================================================================
