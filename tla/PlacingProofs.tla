---------------------------- MODULE PlacingProofs ----------------------------
(***************************************************************************)
(* Proofs about a tap and its verdict, for any op ids, gauge, times and    *)
(* bounds: that an op is written once, and that what the tab tells its     *)
(* viewer is true.                                                         *)
(***************************************************************************)
EXTENDS PlacingProps, SequenceTheorems, FiniteSetTheorems, WellFoundedInduction, TLAPS

-----------------------------------------------------------------------------
(***************************************************************************)
(* The inductive invariant, in parts.                                      *)
(***************************************************************************)
Writer == Ops \cup {"other", "elsewhere"}
Paint == Ops \cup {"other", "empty"}
Verdicts == {"ack", "refused", "cooldown", "stray"}
Frame == [t: Verdicts, op: Ops, from: {0}, at: {0}]
         \cup [t: {"welcome"}, op: {"none"}, from: {0}, at: {0}]
         \cup [t: {"snapshot", "delta"}, op: {"none"}, from: Nat, at: Nat]

Types ==
  /\ now \in Nat /\ claim \in [Ops -> Nat] /\ log \in Seq(Writer) /\ flushed \in Nat
  /\ link \in {"down", "open", "up"} /\ joins \in Nat
  /\ greeted \in BOOLEAN /\ known \in BOOLEAN /\ loaded \in BOOLEAN
  /\ smudged \in BOOLEAN /\ overlapped \in BOOLEAN
  /\ toGw \in Seq(Ops) /\ calls \in Seq(Call) /\ detours \subseteq Call
  /\ sock \in Seq(Frame)
  /\ pending \in Seq(Ops)
  /\ fate \in [Ops -> {"idle", "pending", "kept", "reverted"}]
  /\ sentAt \in [Ops -> Nat]
  /\ shown \in Paint /\ prev \in [Ops -> Paint]
  /\ applied \in Nat /\ strays \in Nat /\ faults \in Nat
  /\ resent \subseteq Ops /\ failed \subseteq Ops

Written(op) == \E i \in DOMAIN log : log[i] = op

\* The message of an op before its verdict: on the wire, on a detour, at the script.
AtGateway(op) == \E i \in DOMAIN toGw : toGw[i] = op
Detoured(op) == \E d \in detours : d.op = op
Called(op) == \E i \in DOMAIN calls : calls[i].op = op
Underway(op) == AtGateway(op) \/ Detoured(op) \/ Called(op)
Answered(op) == \E i \in DOMAIN sock : sock[i].op = op

\* The map of pending ops and their fates agree.
PendingIsFate ==
  /\ \A i \in DOMAIN pending : fate[pending[i]] = "pending"
  /\ \A op \in Ops : fate[op] = "pending" => \E i \in DOMAIN pending : pending[i] = op
  /\ \A i, j \in DOMAIN pending : pending[i] = pending[j] => i = j
  /\ ~overlapped => Len(pending) <= 1

\* A claim outlives the retry window of the op it stands for.
Claimed ==
  \A op \in Ops :
    /\ sentAt[op] <= now
    /\ Written(op) => claim[op] >= sentAt[op] + OpTtl
    /\ claim[op] > 0 => Written(op)

\* Nothing of an op exists before its tap.
IdleLeavesNoTrace ==
  \A op \in Ops : fate[op] = "idle" =>
    ~Written(op) /\ ~Underway(op) /\ ~Answered(op) /\ op \notin resent

\* An op that was sent once has one message underway at most, and none once it is
\* written or answered.
Single(op) ==
  /\ \A i, j \in DOMAIN toGw : toGw[i] = op /\ toGw[j] = op => i = j
  /\ \A i, j \in DOMAIN calls : calls[i].op = op /\ calls[j].op = op => i = j
  /\ \A d, e \in detours : d.op = op /\ e.op = op => d = e
  /\ AtGateway(op) => ~Detoured(op) /\ ~Called(op)
  /\ Detoured(op) => ~Called(op)
  /\ Underway(op) => ~Written(op) /\ ~Answered(op)
SentOnce == \A op \in Ops \ resent : Single(op)

\* What an answer on its way says is so.
IsTrue(f) ==
  /\ f.t = "ack" => Written(f.op)
  /\ f.t \in {"refused", "cooldown"} => f.op \in resent \cup failed \/ ~Written(f.op)
AnswersAreTrue == \A i \in DOMAIN sock : IsTrue(sock[i])

\* A connection that is down carries nothing, and no answer is meant for it.
Connection ==
  /\ link = "up" => known /\ greeted
  /\ ~known => pending = <<>>
  /\ link = "down" =>
       /\ sock = <<>> /\ toGw = <<>>
       /\ \A i \in DOMAIN calls : ~calls[i].live
       /\ \A d \in detours : ~d.live

\* The handshake of a connection: the welcome comes once, the snapshot right behind it.
Handshake ==
  /\ \A i, j \in DOMAIN sock : sock[i].t \in {"welcome", "snapshot"} /\ sock[j].t = sock[i].t => i = j
  /\ \A i \in DOMAIN sock : sock[i].t \in {"welcome", "snapshot"} => greeted
  /\ \A i \in DOMAIN sock : sock[i].t = "welcome" =>
       link = "open" /\ i + 1 \in DOMAIN sock /\ sock[i + 1].t = "snapshot"
  /\ \A i \in DOMAIN sock : sock[i].t = "snapshot" =>
       /\ sock[i].from = 0
       /\ i = 1 \/ sock[i - 1].t = "welcome"
  /\ link = "open" /\ greeted => \E i \in DOMAIN sock : sock[i].t = "welcome"
Greeting == Connection /\ Handshake

\* Where the board of this connection starts: what it holds, or the snapshot to come.
NoSnapshot == \A i \in DOMAIN sock : sock[i].t # "snapshot"
Synced == link = "up" /\ NoSnapshot
Starts(s) == \/ s = 0 /\ Synced
             \/ s \in DOMAIN sock /\ sock[s].t = "snapshot"
AtOf(i) == IF i = 0 THEN applied ELSE sock[i].at

\* From there on the deltas leave no gap, up to what the coalescer has sent.
Joins(s) ==
  /\ \A j \in DOMAIN sock : j > s /\ sock[j].t = "delta" =>
       \E i \in s..(j - 1) : sock[j].from <= AtOf(i)
  /\ \E i \in s..Len(sock) : flushed <= AtOf(i)
Bounds ==
  /\ flushed <= Len(log) /\ applied <= Len(log)
  /\ \A i \in DOMAIN sock : sock[i].from <= sock[i].at /\ sock[i].at <= Len(log)
DeltasJoin ==
  /\ Bounds
  /\ \A s \in 0..Len(sock) : Starts(s) => Joins(s)
  /\ Synced => loaded

\* The ack of an op sent once comes before any frame that shows its write.
Precedes(i, k) == applied < k /\ \A j \in 1..(i - 1) : sock[j].at < k
AcksComeFirst ==
  \A i \in DOMAIN sock :
    sock[i].t = "ack" /\ sock[i].op \notin resent /\ fate[sock[i].op] = "pending" =>
      \E k \in DOMAIN log : log[k] = sock[i].op /\ Precedes(i, k)

\* What is under the pending pixel was on the canvas, no longer ago than what the board
\* has applied, or is the pixel of a replayed op.
Cell(n) == IF Ink(0, n) = "none" THEN "empty" ELSE Ink(0, n)
Under == IF pending = <<>> THEN shown ELSE prev[pending[1]]
Sound(paint) == paint \in Replayed \/ \E n \in applied..Len(log) : paint = Cell(n)
BoardIsSound == Synced /\ ~smudged /\ ~overlapped => Sound(Under)

\* The one pending pixel is what the board shows.
Painted == loaded /\ ~overlapped /\ pending # <<>> => shown = pending[1]

\* As long as no refusal is misdirected, the answers come in the order of the taps, but
\* for the refusals that name their op.
OlderIn(p, x, y) == \E i, j \in DOMAIN p : i < j /\ p[i] = x /\ p[j] = y
Older(x, y) == OlderIn(pending, x, y)
Settles(i) == sock[i].t \in Verdicts
ToOldest(i) == sock[i].t = "cooldown"
Undisturbed == detours = {} /\ \A i \in DOMAIN sock : sock[i].t # "stray"
Silent ==
  link # "up" =>
    /\ toGw = <<>>
    /\ \A i \in DOMAIN calls : ~calls[i].live
    /\ \A i \in DOMAIN sock : ~Settles(i)
AllPending ==
  /\ \A i \in DOMAIN toGw : fate[toGw[i]] = "pending"
  /\ \A i \in DOMAIN calls : calls[i].live => fate[calls[i].op] = "pending"
  /\ \A i \in DOMAIN sock : Settles(i) => fate[sock[i].op] = "pending"
Awaited(op) ==
  \/ \E i \in DOMAIN toGw : toGw[i] = op
  \/ \E i \in DOMAIN calls : calls[i].live /\ calls[i].op = op
  \/ \E i \in DOMAIN sock : Settles(i) /\ sock[i].op = op
NoneLost == link = "up" => \A op \in Ops : fate[op] = "pending" => Awaited(op)
Distinct ==
  /\ \A i, j \in DOMAIN sock : Settles(i) /\ Settles(j) /\ sock[i].op = sock[j].op => i = j
  /\ \A i \in DOMAIN sock, j \in DOMAIN calls : Settles(i) /\ calls[j].live => sock[i].op # calls[j].op
  /\ \A i \in DOMAIN sock, j \in DOMAIN toGw : Settles(i) => sock[i].op # toGw[j]
InOrder ==
  /\ \A i, j \in DOMAIN sock : ToOldest(i) /\ Settles(j) /\ i < j => Older(sock[i].op, sock[j].op)
  /\ \A i \in DOMAIN sock, j \in DOMAIN calls : ToOldest(i) /\ calls[j].live => Older(sock[i].op, calls[j].op)
  /\ \A i \in DOMAIN sock, j \in DOMAIN toGw : ToOldest(i) => Older(sock[i].op, toGw[j])
  /\ \A i, j \in DOMAIN calls : calls[i].live /\ calls[j].live /\ i < j => Older(calls[i].op, calls[j].op)
  /\ \A i \in DOMAIN calls, j \in DOMAIN toGw : calls[i].live => Older(calls[i].op, toGw[j])
  /\ \A i, j \in DOMAIN toGw : i < j => Older(toGw[i], toGw[j])
Orderly == Undisturbed /\ Silent /\ AllPending /\ NoneLost /\ Distinct /\ InOrder

\* A reverted op whose one call did not fail was not written and will not be.
RevertsHold ==
  \A op \in Ops : fate[op] = "reverted" /\ op \notin resent \cup failed =>
    ~Written(op) /\ ~Underway(op)

PlacingInv ==
  /\ Types /\ PendingIsFate /\ Claimed /\ IdleLeavesNoTrace /\ SentOnce /\ AnswersAreTrue
  /\ Greeting /\ DeltasJoin /\ AcksComeFirst /\ BoardIsSound /\ Painted
  /\ (strays = 0 => Orderly /\ RevertsHold)

-----------------------------------------------------------------------------
(***************************************************************************)
(* Sequences, point by point.                                              *)
(***************************************************************************)

\* t is s with x at its end; t is s without its head.
Pushes(s, t, x) ==
  /\ Len(t) = Len(s) + 1 /\ DOMAIN t = 1..(Len(s) + 1) /\ DOMAIN s = 1..Len(s) /\ Len(s) \in Nat
  /\ t[Len(s) + 1] = x
  /\ \A i \in 1..Len(s) : t[i] = s[i]
Pops(s, t) ==
  /\ Len(s) = Len(t) + 1 /\ DOMAIN t = 1..Len(t) /\ DOMAIN s = 1..(Len(t) + 1) /\ Len(t) \in Nat
  /\ \A i \in 1..Len(t) : t[i] = s[i + 1]

\* What Append and Tail do, entry by entry.
LEMMA AppendPushes ==
  ASSUME NEW S, NEW s \in Seq(S), NEW x \in S
  PROVE  Append(s, x) \in Seq(S) /\ Pushes(s, Append(s, x), x)
BY AppendProperties, LenProperties DEF Pushes

\* Tail shifts what Append has queued: the FIFO of the socket and of the command connection.
LEMMA TailPops ==
  ASSUME NEW S, NEW s \in Seq(S), s # <<>>
  PROVE  /\ Tail(s) \in Seq(S) /\ Pops(s, Tail(s))
         /\ Head(s) = s[1] /\ Head(s) \in S /\ 1 \in DOMAIN s
<1>1. Len(s) \in Nat /\ Len(s) # 0 /\ DOMAIN s = 1..Len(s)
  BY EmptySeq, LenProperties
<1>2. Tail(s) \in Seq(S) /\ Len(Tail(s)) = Len(s) - 1 /\ Head(s) \in S
      /\ \A i \in 1..Len(Tail(s)) : Tail(s)[i] = s[i + 1]
  BY HeadTailProperties
<1>3. DOMAIN Tail(s) = 1..Len(Tail(s))
  BY <1>2, LenProperties
<1>4. Head(s) = s[1]
  BY <1>1
<1> QED
  BY <1>1, <1>2, <1>3, <1>4 DEF Pops

\* A bounded non-empty set of naturals has a greatest element, and Max is it.
LEMMA MaxIsGreatest ==
  ASSUME NEW S \in SUBSET Nat, S # {}, NEW n \in Nat, \A s \in S : s <= n
  PROVE  Max(S) \in S /\ \A j \in S : Max(S) >= j
<1> DEFINE Less == {ss \in Nat \X Nat : ss[1] < ss[2]}
           D == {n - s : s \in S}
<1>1. IsWellFoundedOn(Less, Nat)
  BY NatLessThanWellFounded DEF OpToRel
<1>2. \A s \in S : n - s \in Nat
  OBVIOUS
<1>3. D \subseteq Nat /\ D # {}
  BY <1>2
<1> HIDE DEF Less
<1>4. PICK d \in D : \A m \in D : ~ (<<m, d>> \in Less)
  BY <1>1, <1>3, WFMin
<1>5. PICK s \in S : d = n - s
  BY <1>4
<1>6. \A j \in S : s >= j
  <2> TAKE j \in S
  <2>1. n - j \in D /\ n - j \in Nat /\ d \in Nat
    BY <1>2, <1>3, <1>4
  <2>2. ~ (n - j < d)
    BY <1>4, <2>1 DEF Less
  <2> QED
    BY <1>5, <2>1, <2>2
<1> QED
  BY <1>5, <1>6 DEF Max

-----------------------------------------------------------------------------
(***************************************************************************)
(* What a stretch of the log leaves on the cell.                           *)
(***************************************************************************)

\* Ink is the last write of a stretch that is on the cell, if there is one.
LastOn(k, from, at) ==
  /\ k \in (from + 1)..at /\ log[k] # "elsewhere"
  /\ \A i \in (k + 1)..at : log[i] = "elsewhere"

\* Ink is the last write on the cell, if the stretch has one (the order in which a delta
\* or a snapshot applies its writes).
LEMMA InkIs ==
  ASSUME NEW from \in Nat, NEW at \in Nat
  PROVE  \/ /\ \A i \in (from + 1)..at : log[i] = "elsewhere"
            /\ Ink(from, at) = "none"
         \/ \E k \in Nat : LastOn(k, from, at) /\ Ink(from, at) = log[k]
<1> DEFINE S == {i \in (from + 1)..at : log[i] # "elsewhere"}
<1>1. CASE S = {}
  BY <1>1 DEF Ink
<1>2. CASE S # {}
  <2>1. S \in SUBSET Nat /\ \A s \in S : s <= at
    OBVIOUS
  <2>2. Ink(from, at) = log[Max(S)]
    BY <1>2 DEF Ink
  <2>3. PICK k \in S : k = Max(S) /\ \A j \in S : k >= j
    <3> HIDE DEF S
    <3> QED
      BY <1>2, <2>1, MaxIsGreatest
  <2>4. k \in Nat /\ LastOn(k, from, at)
    BY <2>1, <2>3 DEF LastOn
  <2> QED
    BY <2>2, <2>3, <2>4
<1> QED
  BY <1>1, <1>2

\* A stretch that leaves something on the cell decides its pixel; one that does not
\* leaves the pixel as it was.
LEMMA InkDecides ==
  ASSUME Types, PlacingAssumption, NEW from \in Nat, NEW at \in Nat, at <= Len(log)
  PROVE  /\ Ink(from, at) # "none" => Cell(at) = Ink(from, at) /\ Ink(from, at) \in Paint
         /\ Ink(from, at) = "none" => \A n \in from..at : Cell(n) = Cell(at)
         /\ Cell(at) \in Paint
<1>1. \A i \in 1..at : log[i] \in Writer /\ log[i] # "none"
  <2>1. \A i \in 1..Len(log) : log[i] \in Writer
    BY DEF Types
  <2>2. Len(log) \in Nat
    BY LenProperties DEF Types
  <2> QED
    BY <2>1, <2>2, PlacingAssumption DEF Writer, PlacingAssumption
<1>2. ASSUME NEW n \in Nat, n <= at, NEW k \in Nat, LastOn(k, 0, n)
      PROVE  Ink(0, n) = log[k] /\ log[k] # "none"
  <2>0. ~\A i \in (0 + 1)..n : log[i] = "elsewhere"
    BY <1>2 DEF LastOn
  <2>1. PICK j \in Nat : LastOn(j, 0, n) /\ Ink(0, n) = log[j]
    BY <1>2, <2>0, InkIs
  <2>2. j = k
    BY <1>2, <2>1 DEF LastOn
  <2> QED
    BY <1>1, <1>2, <2>1, <2>2 DEF LastOn
<1>3. ASSUME NEW n \in Nat, n <= at, \A i \in 1..n : log[i] = "elsewhere"
      PROVE  Ink(0, n) = "none"
  BY <1>3, InkIs DEF LastOn
<1>4. ASSUME Ink(from, at) # "none"
      PROVE  Cell(at) = Ink(from, at) /\ Ink(from, at) \in Paint
  <2>1. PICK k \in Nat : LastOn(k, from, at) /\ Ink(from, at) = log[k]
    BY <1>4, InkIs
  <2>2. LastOn(k, 0, at)
    BY <2>1 DEF LastOn
  <2>3. log[k] \in Paint
    BY <1>1, <2>2 DEF LastOn, Writer, Paint
  <2> QED
    BY <1>2, <2>1, <2>2, <2>3 DEF Cell
<1>5. ASSUME Ink(from, at) = "none", NEW n \in from..at
      PROVE  Cell(n) = Cell(at)
  <2>1. \A i \in (from + 1)..at : log[i] = "elsewhere"
    <3>1. \A k \in Nat : LastOn(k, from, at) => log[k] # "none"
      BY <1>1 DEF LastOn
    <3> QED
      BY <1>5, <3>1, InkIs
  <2>2. n \in Nat /\ n <= at
    OBVIOUS
  <2>3. CASE \A i \in 1..n : log[i] = "elsewhere"
    <3>1. \A i \in 1..at : log[i] = "elsewhere"
      BY <2>1, <2>2, <2>3
    <3> QED
      BY <1>3, <2>2, <2>3, <3>1 DEF Cell
  <2>4. CASE \E i \in 1..n : log[i] # "elsewhere"
    <3>1. PICK k \in Nat : LastOn(k, 0, n)
      BY <2>2, <2>4, InkIs
    <3>2. LastOn(k, 0, at)
      BY <2>1, <2>2, <3>1 DEF LastOn
    <3> QED
      BY <1>2, <2>2, <3>1, <3>2 DEF Cell
  <2> QED
    BY <2>3, <2>4
<1>6. Cell(at) \in Paint
  <2>1. Ink(0, at) = "none" \/ \E k \in Nat : LastOn(k, 0, at) /\ Ink(0, at) = log[k]
    BY InkIs
  <2>2. \A k \in Nat : LastOn(k, 0, at) => log[k] \in Paint
    BY <1>1 DEF LastOn, Writer, Paint
  <2> QED
    BY <2>1, <2>2 DEF Cell, Paint
<1> QED
  BY <1>4, <1>5, <1>6

\* A write that is on the cell is its pixel until the next.
LEMMA WriteShows ==
  ASSUME Types, PlacingAssumption, NEW k \in DOMAIN log, log[k] # "elsewhere"
  PROVE  Cell(k) = log[k]
<1>1. k \in Nat /\ k >= 1 /\ k <= Len(log)
  BY LenProperties DEF Types
<1>2. LastOn(k, 0, k)
  BY <1>1 DEF LastOn
<1>3. PICK j \in Nat : LastOn(j, 0, k) /\ Ink(0, k) = log[j]
  BY <1>1, <1>2, InkIs DEF LastOn
<1>4. j = k
  BY <1>1, <1>2, <1>3 DEF LastOn
<1>5. log[k] # "none"
  <2>1. log[k] \in Writer
    BY DEF Types
  <2> QED
    BY <2>1, PlacingAssumption DEF Writer, PlacingAssumption
<1> QED
  BY <1>3, <1>4, <1>5 DEF Cell

\* What was on the cell stays on record: the log only grows.
LEMMA CellStays ==
  ASSUME Types, NEW w, Pushes(log, log', w), NEW n \in 0..Len(log)
  PROVE  Cell(n)' = Cell(n)
<1> DEFINE S == {i \in (0 + 1)..n : log[i] # "elsewhere"}
           T == {i \in (0 + 1)..n : log'[i] # "elsewhere"}
<1>1. Ink(0, n)' = Ink(0, n)
  <2>1. T = S /\ \A i \in S : log'[i] = log[i]
    BY DEF Pushes
  <2>2. S \in SUBSET Nat /\ n \in Nat /\ \A s \in S : s <= n
    BY LenProperties DEF Types
  <2>3. Ink(0, n) = IF S = {} THEN "none" ELSE log[Max(S)]
    BY DEF Ink
  <2>4. Ink(0, n)' = IF T = {} THEN "none" ELSE log'[Max(T)]
    BY DEF Ink
  <2> HIDE DEF S, T
  <2>5. S # {} => Max(S) \in S
    BY <2>2, MaxIsGreatest
  <2> QED
    BY <2>1, <2>3, <2>4, <2>5
<1> QED
  BY <1>1 DEF Cell

-----------------------------------------------------------------------------
(***************************************************************************)
(* What each handler does, entry by entry.                                 *)
(***************************************************************************)

\* Execute and ExecuteFails: the script runs, or fails, for the call c.
Accepts(op) ==
  /\ claim[op] <= now
  /\ claim' = [claim EXCEPT ![op] = now + OpTtl]
  /\ log' \in Seq(Writer) /\ Pushes(log, log', op)
Ran(c) ==
  /\ c \in Call /\ c = calls[1] /\ 1 \in DOMAIN calls
  /\ calls' \in Seq(Call) /\ Pops(calls, calls')
  /\ sock' \in Seq(Frame)
  /\ failed \subseteq failed' /\ failed' \subseteq failed \cup {c.op} /\ faults' \in Nat
  /\ Accepts(c.op) \/ UNCHANGED <<claim, log>>
  /\ IF c.live
     THEN \E t \in {"ack", "refused", "cooldown"} :
            /\ Pushes(sock, sock', To(t, c.op))
            /\ t = "ack" => Accepts(c.op) \/ (claim[c.op] > now /\ UNCHANGED log)
            /\ t # "ack" => UNCHANGED log \/ c.op \in failed'
     ELSE sock' = sock
  /\ UNCHANGED <<now, greeted, flushed, detours, toGw, tabVars, strays>>

\* place.lua changes something exactly when it answers ok, and acks only that or a replay.
LEMMA EffectAccepts ==
  ASSUME Types, NEW op \in Ops, NEW barred \in BOOLEAN, Effect(op, barred)
  PROVE  /\ Verdict(op, barred) = "ok" => Accepts(op)
         /\ Verdict(op, barred) # "ok" => UNCHANGED <<claim, log>>
         /\ Answer(op, barred) \in {"ack", "refused", "cooldown"}
         /\ Answer(op, barred) = "ack" =>
              Verdict(op, barred) = "ok" \/ (claim[op] > now /\ Verdict(op, barred) # "ok")
<1>1. CASE Verdict(op, barred) = "ok"
  <2>1. ~(claim[op] > now)
    BY <1>1 DEF Verdict
  <2>2. claim[op] \in Nat /\ now \in Nat
    BY DEF Types
  <2>3. log' \in Seq(Writer) /\ Pushes(log, log', op)
    <3>1. log' = Append(log, op)
      BY <1>1 DEF Effect
    <3> QED
      BY <3>1, AppendPushes DEF Types, Writer
  <2>4. Accepts(op)
    BY <1>1, <2>1, <2>2, <2>3 DEF Accepts, Effect
  <2> QED
    BY <1>1, <2>4 DEF Answer
<1>2. CASE Verdict(op, barred) # "ok"
  <2>1. UNCHANGED <<claim, log>>
    BY <1>2 DEF Effect
  <2>2. Answer(op, barred) \in {"ack", "refused", "cooldown"}
        /\ (Answer(op, barred) = "ack" => claim[op] > now)
    BY <1>2 DEF Answer, Verdict
  <2> QED
    BY <1>2, <2>1, <2>2
<1> QED
  BY <1>1, <1>2

\* A verdict is a frame that carries the op it is about.
LEMMA AnswerIsFrame ==
  ASSUME NEW op \in Ops, NEW t \in Verdicts
  PROVE  /\ To(t, op) \in Frame /\ To(t, op).t = t /\ To(t, op).op = op
         /\ To(t, op).at = 0 /\ To(t, op).from = 0
BY DEF To, Frame

\* One script call comes to its answer, or fails (evalPlacement and its catch).
LEMMA ExecuteRuns ==
  ASSUME Types, Execute \/ ExecuteFails
  PROVE  \E c \in Call : Ran(c)
<1> DEFINE c == Head(calls)
<1>1. calls # <<>> /\ calls' = Tail(calls) /\ calls \in Seq(Call) /\ sock \in Seq(Frame)
  BY DEF Execute, ExecuteFails, Types
<1>2. c \in Call /\ c = calls[1] /\ 1 \in DOMAIN calls /\ calls' \in Seq(Call) /\ Pops(calls, calls')
  BY <1>1, TailPops
<1>3. c.op \in Ops /\ c.live \in BOOLEAN
  BY <1>2 DEF Call
<1> HIDE DEF c
<1>4. \A t \in {"ack", "refused", "cooldown"} :
        /\ Append(sock, To(t, c.op)) \in Seq(Frame)
        /\ Pushes(sock, Append(sock, To(t, c.op)), To(t, c.op))
  BY <1>1, <1>3, AnswerIsFrame, AppendPushes DEF Verdicts
<1>5. CASE Execute
  <2>1. PICK barred \in BOOLEAN :
          /\ Effect(c.op, barred)
          /\ sock' = IF c.live THEN Append(sock, To(Answer(c.op, barred), c.op)) ELSE sock
    BY <1>5 DEF Execute, c
  <2>2. /\ Verdict(c.op, barred) = "ok" => Accepts(c.op)
        /\ Verdict(c.op, barred) # "ok" => UNCHANGED <<claim, log>>
        /\ Answer(c.op, barred) \in {"ack", "refused", "cooldown"}
        /\ Answer(c.op, barred) = "ack" =>
              Verdict(c.op, barred) = "ok" \/ (claim[c.op] > now /\ Verdict(c.op, barred) # "ok")
    BY <1>3, <2>1, EffectAccepts
  <2>3. Answer(c.op, barred) # "ack" => Verdict(c.op, barred) # "ok"
    BY DEF Answer
  <2>4. /\ failed' = failed /\ faults' \in Nat
        /\ UNCHANGED <<now, greeted, flushed, detours, toGw, tabVars, strays>>
    BY <1>5 DEF Execute, Types
  <2>5. sock' \in Seq(Frame)
    BY <1>1, <1>4, <2>1, <2>2
  <2>6. Accepts(c.op) \/ UNCHANGED <<claim, log>>
    BY <2>2
  <2>7. CASE c.live
    <3> DEFINE t == Answer(c.op, barred)
    <3>1. /\ t \in {"ack", "refused", "cooldown"} /\ Pushes(sock, sock', To(t, c.op))
          /\ t = "ack" => Accepts(c.op) \/ (claim[c.op] > now /\ UNCHANGED log)
          /\ t # "ack" => UNCHANGED log \/ c.op \in failed'
      BY <1>4, <2>1, <2>2, <2>3, <2>7
    <3> HIDE DEF t
    <3>2. \E t2 \in {"ack", "refused", "cooldown"} :
            /\ Pushes(sock, sock', To(t2, c.op))
            /\ t2 = "ack" => Accepts(c.op) \/ (claim[c.op] > now /\ UNCHANGED log)
            /\ t2 # "ack" => UNCHANGED log \/ c.op \in failed'
      BY <3>1
    <3>3. Ran(c)
      BY <1>2, <2>4, <2>5, <2>6, <2>7, <3>2, Zenon DEF Ran
    <3> QED
      BY <1>2, <3>3
  <2>8. CASE ~c.live
    <3>1. sock' = sock
      BY <2>1, <2>8
    <3>2. Ran(c)
      BY <1>2, <2>4, <2>5, <2>6, <2>8, <3>1, Zenon DEF Ran
    <3> QED
      BY <1>2, <3>2
  <2> QED
    BY <2>7, <2>8
<1>6. CASE ExecuteFails
  <2>1. /\ (\E barred \in BOOLEAN : Effect(c.op, barred)) \/ UNCHANGED <<claim, log, gauge>>
        /\ sock' = IF c.live THEN Append(sock, To("refused", c.op)) ELSE sock
        /\ failed' = failed \cup {c.op}
    BY <1>6 DEF ExecuteFails, c
  <2>2. Accepts(c.op) \/ UNCHANGED <<claim, log>>
    BY <1>3, <2>1, EffectAccepts
  <2>3. /\ faults' \in Nat
        /\ UNCHANGED <<now, greeted, flushed, detours, toGw, tabVars, strays>>
    BY <1>6 DEF ExecuteFails, Fault, Types
  <2>4. sock' \in Seq(Frame)
    BY <1>1, <1>4, <2>1
  <2>5. CASE c.live
    <3>1. \E t \in {"ack", "refused", "cooldown"} :
            /\ Pushes(sock, sock', To(t, c.op))
            /\ t = "ack" => Accepts(c.op) \/ (claim[c.op] > now /\ UNCHANGED log)
            /\ t # "ack" => UNCHANGED log \/ c.op \in failed'
      BY <1>4, <2>1, <2>5
    <3>2. Ran(c)
      BY <1>2, <2>1, <2>2, <2>3, <2>4, <2>5, <3>1, Zenon DEF Ran
    <3> QED
      BY <1>2, <3>2
  <2>6. CASE ~c.live
    <3>1. sock' = sock
      BY <2>1, <2>6
    <3>2. Ran(c)
      BY <1>2, <2>1, <2>2, <2>3, <2>4, <2>6, <3>1, Zenon DEF Ran
    <3> QED
      BY <1>2, <3>2
  <2> QED
    BY <2>5, <2>6
<1> QED
  BY <1>5, <1>6

\* Handle: the message of op goes to the script, on a detour, or is refused at once.
Handled(op) ==
  /\ op \in Ops /\ op = toGw[1] /\ 1 \in DOMAIN toGw
  /\ toGw' \in Seq(Ops) /\ Pops(toGw, toGw') /\ faults' \in Nat
  /\ \/ /\ calls' \in Seq(Call) /\ Pushes(calls, calls', [op |-> op, live |-> TRUE])
        /\ UNCHANGED <<detours, sock, strays>>
     \/ /\ sock' \in Seq(Frame) /\ Pushes(sock, sock', To("stray", op))
        /\ strays' = strays + 1 /\ UNCHANGED <<detours, calls>>
     \/ /\ sock' \in Seq(Frame) /\ Pushes(sock, sock', To("refused", op))
        /\ UNCHANGED <<detours, calls, strays>>
     \/ /\ detours' = detours \cup {[op |-> op, live |-> TRUE]}
        /\ strays' = strays + 1 /\ UNCHANGED <<calls, sock>>
  /\ UNCHANGED <<now, redisVars, greeted, flushed, tabVars, failed>>

\* One place message is handled (onClientMessage, handlePlace).
LEMMA HandleIs ==
  ASSUME Types, Handle
  PROVE  \E op \in Ops : Handled(op)
<1> DEFINE op == Head(toGw)
<1>1. /\ toGw # <<>> /\ toGw' = Tail(toGw) /\ toGw \in Seq(Ops) /\ sock \in Seq(Frame)
      /\ calls \in Seq(Call)
  BY DEF Handle, Types
<1>2. op \in Ops /\ op = toGw[1] /\ 1 \in DOMAIN toGw /\ toGw' \in Seq(Ops) /\ Pops(toGw, toGw')
  BY <1>1, TailPops
<1>3. /\ \/ calls' = Append(calls, [op |-> op, live |-> TRUE]) /\ UNCHANGED <<detours, sock, strays, faults>>
         \/ /\ Fault /\ strays' = strays + 1 /\ sock' = Append(sock, To("stray", op))
            /\ UNCHANGED <<detours, calls>>
         \/ Fault /\ sock' = Append(sock, To("refused", op)) /\ UNCHANGED <<detours, calls, strays>>
         \/ /\ Fault /\ strays' = strays + 1 /\ detours' = detours \cup {[op |-> op, live |-> TRUE]}
            /\ UNCHANGED <<calls, sock>>
      /\ UNCHANGED <<now, redisVars, greeted, flushed, tabVars, failed>>
  BY DEF Handle
<1> HIDE DEF op
<1>4. [op |-> op, live |-> TRUE] \in Call
  BY <1>2 DEF Call
<1>5. /\ Append(calls, [op |-> op, live |-> TRUE]) \in Seq(Call)
      /\ Pushes(calls, Append(calls, [op |-> op, live |-> TRUE]), [op |-> op, live |-> TRUE])
  BY <1>1, <1>4, AppendPushes
<1>6. \A t \in {"stray", "refused"} :
        /\ Append(sock, To(t, op)) \in Seq(Frame)
        /\ Pushes(sock, Append(sock, To(t, op)), To(t, op))
  BY <1>1, <1>2, AnswerIsFrame, AppendPushes DEF Verdicts
<1>7. faults' \in Nat
  BY <1>3 DEF Fault, Types
<1>8. \/ /\ calls' \in Seq(Call) /\ Pushes(calls, calls', [op |-> op, live |-> TRUE])
         /\ UNCHANGED <<detours, sock, strays>>
      \/ /\ sock' \in Seq(Frame) /\ Pushes(sock, sock', To("stray", op))
         /\ strays' = strays + 1 /\ UNCHANGED <<detours, calls>>
      \/ /\ sock' \in Seq(Frame) /\ Pushes(sock, sock', To("refused", op))
         /\ UNCHANGED <<detours, calls, strays>>
      \/ /\ detours' = detours \cup {[op |-> op, live |-> TRUE]}
         /\ strays' = strays + 1 /\ UNCHANGED <<calls, sock>>
  BY <1>3, <1>5, <1>6
<1>9. Handled(op)
  BY <1>2, <1>3, <1>7, <1>8, Zenon DEF Handled
<1> QED
  BY <1>2, <1>9

\* Resolve: a detour ends at the script or in a refusal.
Resolved(d) ==
  /\ d \in detours /\ d \in Call /\ detours' = detours \ {d}
  /\ \/ calls' \in Seq(Call) /\ Pushes(calls, calls', d) /\ UNCHANGED sock
     \/ d.live /\ sock' \in Seq(Frame) /\ Pushes(sock, sock', To("refused", d.op)) /\ UNCHANGED calls
     \/ ~d.live /\ UNCHANGED <<sock, calls>>
  /\ UNCHANGED <<now, redisVars, greeted, flushed, toGw, tabVars, failed, strays, faults>>

\* One detour ends (forceResolve).
LEMMA ResolveIs ==
  ASSUME Types, NEW d \in detours, Resolve(d)
  PROVE  Resolved(d)
<1>1. d \in Call /\ d.op \in Ops /\ sock \in Seq(Frame) /\ calls \in Seq(Call)
  BY DEF Types, Call
<1>2. /\ Append(sock, To("refused", d.op)) \in Seq(Frame)
      /\ Pushes(sock, Append(sock, To("refused", d.op)), To("refused", d.op))
  BY <1>1, AnswerIsFrame, AppendPushes DEF Verdicts
<1>3. Append(calls, d) \in Seq(Call) /\ Pushes(calls, Append(calls, d), d)
  BY <1>1, AppendPushes
<1>4. /\ detours' = detours \ {d}
      /\ UNCHANGED <<now, redisVars, greeted, flushed, toGw, tabVars, failed, strays, faults>>
      /\ \/ calls' = Append(calls, d) /\ UNCHANGED sock
         \/ sock' = (IF d.live THEN Append(sock, To("refused", d.op)) ELSE sock) /\ UNCHANGED calls
  BY DEF Resolve
<1>5. \/ calls' \in Seq(Call) /\ Pushes(calls, calls', d) /\ UNCHANGED sock
      \/ d.live /\ sock' \in Seq(Frame) /\ Pushes(sock, sock', To("refused", d.op)) /\ UNCHANGED calls
      \/ ~d.live /\ UNCHANGED <<sock, calls>>
  BY <1>2, <1>3, <1>4
<1> QED
  BY <1>1, <1>4, <1>5, Zenon DEF Resolved

\* An op leaves the map of pending ops.
Removed(op) ==
  \E k \in DOMAIN pending :
    /\ pending[k] = op
    /\ Len(pending') = Len(pending) - 1 /\ DOMAIN pending' = 1..(Len(pending) - 1)
    /\ \A i \in 1..(Len(pending) - 1) : pending'[i] = pending[IF i < k THEN i ELSE i + 1]

\* Map.delete takes one op out and leaves the others in their order.
LEMMA WithoutRemoves ==
  ASSUME Types, NEW op, \E i \in DOMAIN pending : pending[i] = op, pending' = Without(op)
  PROVE  pending' \in Seq(Ops) /\ Removed(op)
<1> DEFINE k == CHOOSE i \in DOMAIN pending : pending[i] = op
           n == Len(pending) - 1
           at(i) == IF i < k THEN i ELSE i + 1
<1>1. k \in DOMAIN pending /\ pending[k] = op
  OBVIOUS
<1>2. Len(pending) \in Nat /\ DOMAIN pending = 1..Len(pending)
      /\ \A i \in 1..Len(pending) : pending[i] \in Ops
  BY LenProperties DEF Types
<1>3. pending' = [i \in 1..n |-> pending[at(i)]]
  BY DEF Without
<1> HIDE DEF k
<1>4. n \in Nat /\ \A i \in 1..n : at(i) \in 1..Len(pending)
  BY <1>1, <1>2
<1>5. pending' \in [1..n -> Ops]
  BY <1>2, <1>3, <1>4
<1>6. pending' \in Seq(Ops) /\ Len(pending') = n /\ DOMAIN pending' = 1..n
  <2>1. pending' \in Seq(Ops)
    BY <1>4, <1>5, IsASeq
  <2> QED
    BY <1>4, <1>5, <2>1, LenProperties
<1>7. \A i \in 1..n : pending'[i] = pending[at(i)]
  BY <1>3
<1>8. Removed(op)
  BY <1>1, <1>6, <1>7 DEF Removed
<1> QED
  BY <1>6, <1>8

\* Settle: an op gets its verdict, or the frame comes too late.
Dropped(op, verdict) ==
  /\ op \in Ops /\ fate[op] = "pending"
  /\ pending' \in Seq(Ops) /\ Removed(op)
  /\ fate' = [fate EXCEPT ![op] = verdict]
  /\ prev' = [prev EXCEPT ![op] = "empty"]
  /\ shown' = IF verdict = "reverted" /\ loaded THEN prev[op] ELSE shown
Settled(f) ==
  \/ UNCHANGED <<pending, fate, shown, prev>>
     /\ (pending = <<>> \/ (f.t \in {"ack", "refused"} /\ fate[f.op] # "pending"))
  \/ f.t = "ack" /\ Dropped(f.op, "kept")
  \/ f.t = "refused" /\ Dropped(f.op, "reverted")
  \/ /\ f.t \in {"cooldown", "stray"} /\ 1 \in DOMAIN pending
     /\ Dropped(pending[1], "reverted")

\* A verdict takes one op off the map, or comes too late (OptimisticPlacement.handle).
LEMMA SettleIs ==
  ASSUME Types, PendingIsFate, NEW f \in Frame, f.t \in Verdicts, Settle(f)
  PROVE  Settled(f)
<1>1. f.op \in Ops
  BY DEF Frame, Verdicts
<1>2. CASE pending = <<>> \/ (f.t \in {"ack", "refused"} /\ fate[f.op] # "pending")
  <2>1. UNCHANGED <<pending, fate, shown, prev>>
    BY <1>2 DEF Settle
  <2> QED
    BY <1>2, <2>1 DEF Settled
<1>3. CASE ~(pending = <<>> \/ (f.t \in {"ack", "refused"} /\ fate[f.op] # "pending"))
  <2>1. \/ f.t = "ack" /\ Commit(f.op)
        \/ f.t = "refused" /\ Rollback(f.op)
        \/ f.t \in {"cooldown", "stray"} /\ Rollback(Head(pending))
    BY <1>3 DEF Settle
  <2>2. pending # <<>> /\ Head(pending) = pending[1] /\ 1 \in DOMAIN pending /\ pending[1] \in Ops
    <3>1. pending \in Seq(Ops) /\ pending # <<>>
      BY <1>3 DEF Types
    <3> QED
      BY <3>1, TailPops
  <2>3. ASSUME NEW op \in Ops, fate[op] = "pending", Commit(op)
        PROVE  Dropped(op, "kept")
    <3>1. pending' \in Seq(Ops) /\ Removed(op)
      BY <2>3, WithoutRemoves DEF PendingIsFate, Commit
    <3> QED
      BY <2>3, <3>1 DEF Dropped, Commit
  <2>4. ASSUME NEW op \in Ops, fate[op] = "pending", Rollback(op)
        PROVE  Dropped(op, "reverted")
    <3>1. pending' \in Seq(Ops) /\ Removed(op)
      BY <2>4, WithoutRemoves DEF PendingIsFate, Rollback
    <3> QED
      BY <2>4, <3>1 DEF Dropped, Rollback
  <2>5. CASE f.t = "ack" /\ Commit(f.op)
    BY <1>1, <1>3, <2>3, <2>5 DEF Settled
  <2>6. CASE f.t = "refused" /\ Rollback(f.op)
    BY <1>1, <1>3, <2>4, <2>6 DEF Settled
  <2>7. CASE f.t \in {"cooldown", "stray"} /\ Rollback(Head(pending))
    <3>1. fate[pending[1]] = "pending"
      BY <2>2 DEF PendingIsFate
    <3> QED
      BY <2>2, <2>4, <2>7, <3>1 DEF Settled
  <2> QED
    BY <2>1, <2>5, <2>6, <2>7
<1> QED
  BY <1>2, <1>3

\* Receive: the welcome, a verdict, or a frame of the board.
Received(f) ==
  /\ f \in Frame /\ f = sock[1] /\ 1 \in DOMAIN sock
  /\ sock' \in Seq(Frame) /\ Pops(sock, sock')
  /\ \/ /\ f.t = "welcome" /\ link' = "up" /\ known' = TRUE
        /\ toGw' = toGw \o (IF known THEN pending ELSE <<>>)
        /\ resent' = IF known THEN resent \cup {pending[i] : i \in DOMAIN pending} ELSE resent
        /\ UNCHANGED <<pending, fate, shown, prev, loaded, applied, smudged>>
     \/ /\ f.t \in Verdicts /\ Settled(f)
        /\ UNCHANGED <<toGw, link, known, resent, loaded, applied, smudged>>
     \/ /\ f.t \in {"snapshot", "delta"} /\ Show(f)
        /\ UNCHANGED <<toGw, link, known, resent, pending, fate>>
  /\ UNCHANGED <<now, redisVars, gatewayVars, joins, sentAt, overlapped, verdictVars>>

\* The tab takes one frame off the socket.
LEMMA ReceiveIs ==
  ASSUME Types, PendingIsFate, Receive
  PROVE  \E f \in Frame : Received(f)
<1> DEFINE f == Head(sock)
<1>1. sock # <<>> /\ sock' = Tail(sock) /\ sock \in Seq(Frame)
  BY DEF Receive, Types
<1>2. f \in Frame /\ f = sock[1] /\ 1 \in DOMAIN sock /\ sock' \in Seq(Frame) /\ Pops(sock, sock')
  BY <1>1, TailPops
<1>3. /\ \/ /\ f.t = "welcome" /\ link' = "up" /\ known' = TRUE
            /\ toGw' = toGw \o (IF known THEN pending ELSE <<>>)
            /\ resent' = IF known THEN resent \cup {pending[i] : i \in DOMAIN pending} ELSE resent
            /\ UNCHANGED <<pending, fate, shown, prev, loaded, applied, smudged>>
         \/ /\ f.t \in Verdicts /\ Settle(f)
            /\ UNCHANGED <<toGw, link, known, resent, loaded, applied, smudged>>
         \/ /\ f.t \in {"snapshot", "delta"} /\ Show(f)
            /\ UNCHANGED <<toGw, link, known, resent, pending, fate>>
      /\ UNCHANGED <<now, redisVars, gatewayVars, joins, sentAt, overlapped, verdictVars>>
  BY DEF Receive, Verdicts, ResendQueue
<1> HIDE DEF f
<1>4. f.t \in Verdicts /\ Settle(f) => Settled(f)
  BY <1>2, SettleIs
<1>5. \/ /\ f.t = "welcome" /\ link' = "up" /\ known' = TRUE
         /\ toGw' = toGw \o (IF known THEN pending ELSE <<>>)
         /\ resent' = IF known THEN resent \cup {pending[i] : i \in DOMAIN pending} ELSE resent
         /\ UNCHANGED <<pending, fate, shown, prev, loaded, applied, smudged>>
      \/ /\ f.t \in Verdicts /\ Settled(f)
         /\ UNCHANGED <<toGw, link, known, resent, loaded, applied, smudged>>
      \/ /\ f.t \in {"snapshot", "delta"} /\ Show(f)
         /\ UNCHANGED <<toGw, link, known, resent, pending, fate>>
  BY <1>3, <1>4
<1>6. Received(f)
  BY <1>2, <1>3, <1>5, Zenon DEF Received
<1> QED
  BY <1>2, <1>6

\* Tap: the op is pending and on the wire.
Tapped(op) ==
  /\ op \in Ops /\ fate[op] = "idle"
  /\ fate' = [fate EXCEPT ![op] = "pending"]
  /\ pending' \in Seq(Ops) /\ Pushes(pending, pending', op)
  /\ toGw' \in Seq(Ops) /\ Pushes(toGw, toGw', op)
  /\ sentAt' = [sentAt EXCEPT ![op] = now]
  /\ prev' = [prev EXCEPT ![op] = shown]
  /\ shown' = IF loaded THEN op ELSE shown
  /\ overlapped' = (overlapped \/ pending # <<>>)
  /\ \/ link = "up" /\ UNCHANGED <<strays, faults>>
     \/ /\ link = "open" /\ known
        /\ strays' = strays + 1 /\ faults' = faults + 1
  /\ UNCHANGED <<now, redisVars, gatewayVars, sock, link, joins, known, resent>>
  /\ UNCHANGED <<loaded, applied, smudged, failed>>

\* A tap (OptimisticPlacement.place).
LEMMA TapIs ==
  ASSUME Types, NEW op \in Ops, Tap(op)
  PROVE  Tapped(op)
<1>1. pending' = Append(pending, op) /\ toGw' = Append(toGw, op)
  BY DEF Tap
<1>2. /\ pending' \in Seq(Ops) /\ Pushes(pending, pending', op)
      /\ toGw' \in Seq(Ops) /\ Pushes(toGw, toGw', op)
  BY <1>1, AppendPushes DEF Types
<1> QED
  BY <1>2 DEF Tapped, Tap

\* Drop: what is on the wire is lost, what the gateway runs goes on unheard.
Lost ==
  /\ link # "down" /\ link' = "down"
  /\ toGw' = <<>> /\ sock' = <<>>
  /\ calls' \in Seq(Call) /\ DOMAIN calls' = DOMAIN calls
  /\ \A i \in DOMAIN calls : calls'[i].op = calls[i].op /\ ~calls'[i].live
  /\ detours' \subseteq Call
  /\ detours' = {[d EXCEPT !.live = FALSE] : d \in detours}
  /\ UNCHANGED <<now, redisVars, greeted, flushed, joins, known, pending, fate>>
  /\ UNCHANGED <<sentAt, resent, boardVars, verdictVars>>

\* A connection ends (the gateway's close handler, CanvasNetClient's onclose).
LEMMA DropIs ==
  ASSUME Types, Drop
  PROVE  Lost
<1>1. calls' = [i \in DOMAIN calls |-> [calls[i] EXCEPT !.live = FALSE]]
  BY DEF Drop
<1>2. Len(calls) \in Nat /\ DOMAIN calls = 1..Len(calls) /\ \A i \in DOMAIN calls : calls[i] \in Call
  BY LenProperties DEF Types
<1>3. \A d \in Call : /\ [d EXCEPT !.live = FALSE] \in Call
                      /\ [d EXCEPT !.live = FALSE].op = d.op /\ ~[d EXCEPT !.live = FALSE].live
  BY DEF Call
<1>4. calls' \in [1..Len(calls) -> Call]
  BY <1>1, <1>2, <1>3
<1>5. calls' \in Seq(Call)
  BY <1>2, <1>4, IsASeq
<1>6. \A i \in DOMAIN calls : calls'[i].op = calls[i].op /\ ~calls'[i].live
  BY <1>1, <1>2, <1>3
<1>7. {[d EXCEPT !.live = FALSE] : d \in detours} \subseteq Call
  BY <1>3 DEF Types
<1> QED
  BY <1>1, <1>5, <1>6, <1>7 DEF Lost, Drop

\* Welcome: the welcome and the snapshot behind it.
Greets ==
  /\ link = "open" /\ ~greeted /\ greeted'
  /\ sock' \in Seq(Frame)
  /\ Len(sock) \in Nat /\ DOMAIN sock = 1..Len(sock)
  /\ Len(sock') = Len(sock) + 2 /\ DOMAIN sock' = 1..(Len(sock) + 2)
  /\ \A i \in 1..Len(sock) : sock'[i] = sock[i]
  /\ sock'[Len(sock) + 1] = To("welcome", "none")
  /\ sock'[Len(sock) + 2] = Pixels("snapshot", 0, Len(log))
  /\ UNCHANGED <<now, redisVars, detours, calls, flushed, toGw, tabVars, verdictVars>>

\* The gateway greets a connection (sendInitialState).
LEMMA WelcomeIs ==
  ASSUME Types, Welcome
  PROVE  Greets
<1> DEFINE pair == <<To("welcome", "none"), Pixels("snapshot", 0, Len(log))>>
<1>1. sock' = sock \o pair /\ sock \in Seq(Frame)
  BY DEF Welcome, Types
<1>2. To("welcome", "none") \in Frame /\ Pixels("snapshot", 0, Len(log)) \in Frame
  BY LenProperties DEF Types, To, Pixels, Frame
<1>3. pair \in Seq(Frame) /\ Len(pair) = 2
  BY <1>2
<1>4. pair[1] = To("welcome", "none") /\ pair[2] = Pixels("snapshot", 0, Len(log))
  OBVIOUS
<1> HIDE DEF pair
<1>5. /\ sock' \in Seq(Frame) /\ Len(sock') = Len(sock) + 2
      /\ \A i \in 1..(Len(sock) + 2) : sock'[i] = IF i <= Len(sock) THEN sock[i] ELSE pair[i - Len(sock)]
  BY <1>1, <1>3, ConcatProperties
<1>6. Len(sock) \in Nat /\ DOMAIN sock = 1..Len(sock) /\ DOMAIN sock' = 1..(Len(sock) + 2)
  BY <1>1, <1>5, LenProperties
<1> QED
  BY <1>4, <1>5, <1>6 DEF Greets, Welcome

\* Flush: what was written since the last one, if there is a connection.
Sent ==
  /\ flushed < Len(log) /\ flushed' = Len(log)
  /\ sock' \in Seq(Frame)
  /\ IF link = "down" THEN sock' = sock
     ELSE Pushes(sock, sock', Pixels("delta", flushed, Len(log)))
  /\ UNCHANGED <<now, redisVars, greeted, detours, calls, toGw, tabVars, verdictVars>>

\* The coalescer flushes.
LEMMA FlushIs ==
  ASSUME Types, Flush
  PROVE  Sent
<1>1. Pixels("delta", flushed, Len(log)) \in Frame /\ sock \in Seq(Frame)
  BY LenProperties DEF Types, Pixels, Frame
<1>2. /\ Append(sock, Pixels("delta", flushed, Len(log))) \in Seq(Frame)
      /\ Pushes(sock, Append(sock, Pixels("delta", flushed, Len(log))), Pixels("delta", flushed, Len(log)))
  BY <1>1, AppendPushes
<1> QED
  BY <1>1, <1>2 DEF Sent, Flush

\* OthersWrite: one more write, of nobody's op.
WrittenByOthers ==
  /\ \E w \in {"other", "elsewhere"} : Pushes(log, log', w)
  /\ log' \in Seq(Writer) /\ faults' \in Nat
  /\ UNCHANGED <<now, gauge, claim, gatewayVars, wireVars, tabVars, failed, strays>>

\* Another viewer's placement.
LEMMA OthersWriteIs ==
  ASSUME Types, OthersWrite
  PROVE  WrittenByOthers
<1>1. PICK w \in {"other", "elsewhere"} : log' = Append(log, w)
  BY DEF OthersWrite
<1>2. log' \in Seq(Writer) /\ Pushes(log, log', w)
  BY <1>1, AppendPushes DEF Types, Writer
<1> QED
  BY <1>2 DEF WrittenByOthers, OthersWrite, Fault, Types

\* The steps of the system, each by what it does.
Stepped ==
  \/ (now' \in Nat /\ now <= now' /\ UNCHANGED <<redisVars, gatewayVars, wireVars, tabVars, verdictVars>>)
  \/ WrittenByOthers
  \/ Connect
  \/ (\E op \in Ops : Tapped(op))
  \/ (\E f \in Frame : Received(f))
  \/ Lost \/ Greets \/ Sent
  \/ (\E op \in Ops : Handled(op))
  \/ (\E d \in detours : Resolved(d))
  \/ (\E c \in Call : Ran(c))

\* Every action of Placing is one of these steps.
LEMMA NextIsStepped ==
  ASSUME Types, PendingIsFate, PlacingNext
  PROVE  Stepped
<1>1. CASE Tick
  BY <1>1 DEF Tick, Stepped, Types
<1>2. CASE OthersWrite
  BY <1>2, OthersWriteIs DEF Stepped
<1>3. CASE Connect
  BY <1>3 DEF Stepped
<1>4. CASE Receive
  BY <1>4, ReceiveIs DEF Stepped
<1>5. CASE Drop
  BY <1>5, DropIs DEF Stepped
<1>6. CASE Flush
  BY <1>6, FlushIs DEF Stepped
<1>7. CASE Welcome
  BY <1>7, WelcomeIs DEF Stepped
<1>8. CASE Handle
  BY <1>8, HandleIs DEF Stepped
<1>9. CASE Execute \/ ExecuteFails
  BY <1>9, ExecuteRuns DEF Stepped
<1>10. CASE \E op \in Ops : Tap(op)
  BY <1>10, TapIs DEF Stepped
<1>11. CASE \E d \in detours : Resolve(d)
  BY <1>11, ResolveIs DEF Stepped
<1> QED
  BY <1>1, <1>2, <1>3, <1>4, <1>5, <1>6, <1>7, <1>8, <1>9, <1>10, <1>11 DEF PlacingNext

-----------------------------------------------------------------------------
(***************************************************************************)
(* The types and the map of pending ops.                                   *)
(***************************************************************************)
\* What is left of the map once an op is taken off it.
LEMMA RemovedIs ==
  ASSUME Types, PendingIsFate, NEW op \in Ops, pending' \in Seq(Ops), Removed(op)
  PROVE  /\ \A i \in DOMAIN pending' : \E j \in DOMAIN pending : pending[j] = pending'[i] /\ pending[j] # op
         /\ \A x : x # op /\ (\E i \in DOMAIN pending : pending[i] = x) =>
              \E i \in DOMAIN pending' : pending'[i] = x
         /\ \A i, j \in DOMAIN pending' : pending'[i] = pending'[j] => i = j
         /\ \A x, y : x # op /\ y # op /\ Older(x, y) => Older(x, y)'
         /\ ~overlapped => pending' = <<>>
         /\ Len(pending') = Len(pending) - 1 /\ Len(pending) \in Nat
<1> DEFINE n == Len(pending) - 1
           at(k, i) == IF i < k THEN i ELSE i + 1
<1>1. PICK k \in DOMAIN pending :
        /\ pending[k] = op
        /\ Len(pending') = n /\ DOMAIN pending' = 1..n
        /\ \A i \in 1..n : pending'[i] = pending[at(k, i)]
  BY DEF Removed
<1>2. Len(pending) \in Nat /\ DOMAIN pending = 1..Len(pending)
  BY LenProperties DEF Types
<1>3. \A i, j \in DOMAIN pending : pending[i] = pending[j] => i = j
  BY DEF PendingIsFate
<1>4. \A i \in 1..n : at(k, i) \in DOMAIN pending /\ at(k, i) # k
  BY <1>1, <1>2
<1>5. \A i, j \in 1..n : (at(k, i) = at(k, j) => i = j) /\ (i < j <=> at(k, i) < at(k, j))
  BY <1>1, <1>2
<1>6. \A j \in DOMAIN pending : j # k => \E i \in 1..n : at(k, i) = j
  <2> SUFFICES ASSUME NEW j \in DOMAIN pending, j # k PROVE \E i \in 1..n : at(k, i) = j
    OBVIOUS
  <2>1. CASE j < k
    <3>1. j \in 1..n /\ at(k, j) = j
      BY <1>1, <1>2, <2>1
    <3> QED
      BY <3>1
  <2>2. CASE j > k
    <3>1. j - 1 \in 1..n /\ at(k, j - 1) = j
      BY <1>1, <1>2, <2>2
    <3> QED
      BY <3>1
  <2> QED
    BY <1>1, <1>2, <2>1, <2>2
<1> HIDE DEF at
<1>7. \A i \in DOMAIN pending' : \E j \in DOMAIN pending : pending[j] = pending'[i] /\ pending[j] # op
  BY <1>1, <1>3, <1>4
<1>8. \A x : x # op /\ (\E i \in DOMAIN pending : pending[i] = x) =>
        \E i \in DOMAIN pending' : pending'[i] = x
  BY <1>1, <1>6
<1>9. \A i, j \in DOMAIN pending' : pending'[i] = pending'[j] => i = j
  BY <1>1, <1>3, <1>4, <1>5
<1>10. \A x, y : x # op /\ y # op /\ Older(x, y) => Older(x, y)'
  <2> SUFFICES ASSUME NEW x, NEW y, x # op, y # op, Older(x, y) PROVE Older(x, y)'
    OBVIOUS
  <2>1. PICK i, j \in DOMAIN pending : i < j /\ pending[i] = x /\ pending[j] = y
    BY DEF Older, OlderIn
  <2>2. PICK i1 \in 1..n : at(k, i1) = i
    BY <1>1, <1>6, <2>1
  <2>3. PICK j1 \in 1..n : at(k, j1) = j
    BY <1>1, <1>6, <2>1
  <2>4. i1 < j1 /\ pending'[i1] = x /\ pending'[j1] = y
    BY <1>1, <1>5, <2>1, <2>2, <2>3
  <2> QED
    BY <1>1, <2>4 DEF Older, OlderIn
<1>11. ASSUME ~overlapped PROVE pending' = <<>>
  <2>1. Len(pending') = 0
    BY <1>1, <1>2, <1>11 DEF PendingIsFate
  <2> QED
    BY <2>1, EmptySeq
<1> QED
  BY <1>1, <1>2, <1>7, <1>8, <1>9, <1>10, <1>11

\* Every handler keeps the types: frames carry what their kind says, queues hold op ids.
LEMMA TypesStep ==
  ASSUME Types, PendingIsFate, DeltasJoin, PlacingAssumption, Stepped
  PROVE  Types'
<1>1. CASE now' \in Nat /\ now <= now' /\ UNCHANGED <<redisVars, gatewayVars, wireVars, tabVars, verdictVars>>
  BY <1>1 DEF Types, redisVars, gatewayVars, wireVars, tabVars, boardVars, verdictVars
<1>2. CASE WrittenByOthers
  BY <1>2 DEF WrittenByOthers, Types, gatewayVars, wireVars, tabVars, boardVars
<1>3. CASE Connect
  <2>1. link' \in {"down", "open", "up"} /\ joins' \in Nat /\ greeted' \in BOOLEAN
    <3>1. link' = "open" /\ joins' = joins + 1 /\ greeted' = FALSE
      BY <1>3 DEF Connect
    <3>2. joins' \in Nat
      BY <3>1 DEF Types
    <3>3. link' \in {"down", "open", "up"}
      BY <3>1
    <3>4. greeted' \in BOOLEAN
      BY <3>1, Zenon
    <3> QED
      BY <3>2, <3>3, <3>4, Zenon
  <2>2. /\ UNCHANGED <<now, claim, log, flushed, toGw, calls, detours, sock, known, pending, fate>>
        /\ UNCHANGED <<sentAt, shown, prev, loaded, applied, smudged, overlapped, resent, failed>>
        /\ UNCHANGED <<strays, faults>>
    BY <1>3 DEF Connect, redisVars, wireVars, boardVars, verdictVars
  <2> QED
    BY <2>1, <2>2 DEF Types
<1>4. ASSUME NEW op \in Ops, Tapped(op) PROVE Types'
  <2>1. /\ fate' \in [Ops -> {"idle", "pending", "kept", "reverted"}]
        /\ sentAt' \in [Ops -> Nat] /\ prev' \in [Ops -> Paint] /\ shown' \in Paint
        /\ strays' \in Nat /\ faults' \in Nat /\ overlapped' \in BOOLEAN
    BY <1>4 DEF Tapped, Types, Paint
  <2> QED
    BY <1>4, <2>1 DEF Tapped, Types, redisVars, gatewayVars
<1>5. ASSUME NEW f \in Frame, Received(f) PROVE Types'
  <2> USE <1>5
  <2>1. /\ sock' \in Seq(Frame)
        /\ UNCHANGED <<now, redisVars, gatewayVars, joins, sentAt, overlapped, verdictVars>>
    BY DEF Received
  <2>2. CASE f.t = "welcome"
    <3>1. /\ link' = "up" /\ known' = TRUE
          /\ toGw' = toGw \o (IF known THEN pending ELSE <<>>)
          /\ resent' = IF known THEN resent \cup {pending[i] : i \in DOMAIN pending} ELSE resent
          /\ UNCHANGED <<pending, fate, shown, prev, loaded, applied, smudged>>
      BY <2>2 DEF Received, Verdicts
    <3>2. toGw' \in Seq(Ops)
      <4>1. (IF known THEN pending ELSE <<>>) \in Seq(Ops) /\ toGw \in Seq(Ops)
        BY DEF Types
      <4> QED
        BY <3>1, <4>1, ConcatProperties
    <3>3. resent' \subseteq Ops
      BY <3>1, LenProperties DEF Types
    <3> QED
      BY <2>1, <3>1, <3>2, <3>3 DEF Types, redisVars, gatewayVars, verdictVars
  <2>3. CASE f.t \in Verdicts
    <3>1. Settled(f) /\ UNCHANGED <<toGw, link, known, resent, loaded, applied, smudged>>
      BY <2>3 DEF Received, Verdicts
    <3>2. ASSUME NEW op, NEW v \in {"kept", "reverted"}, Dropped(op, v)
          PROVE  /\ pending' \in Seq(Ops) /\ fate' \in [Ops -> {"idle", "pending", "kept", "reverted"}]
                 /\ prev' \in [Ops -> Paint] /\ shown' \in Paint
      BY <3>2 DEF Dropped, Types, Paint
    <3>3. /\ pending' \in Seq(Ops) /\ fate' \in [Ops -> {"idle", "pending", "kept", "reverted"}]
          /\ prev' \in [Ops -> Paint] /\ shown' \in Paint
      <4>1. CASE UNCHANGED <<pending, fate, shown, prev>>
        BY <4>1 DEF Types
      <4> QED
        BY <3>1, <3>2, <4>1 DEF Settled
    <3> QED
      BY <2>1, <3>1, <3>3 DEF Types, redisVars, gatewayVars, verdictVars
  <2>4. CASE f.t \in {"snapshot", "delta"}
    <3> DEFINE fresh == f.t = "snapshot" \/ (loaded /\ f.at > applied)
               ink == IF fresh THEN Ink(f.from, f.at) ELSE "none"
               base == IF ink # "none" THEN ink ELSE IF f.t = "snapshot" THEN "empty" ELSE shown
    <3>1. Show(f) /\ UNCHANGED <<toGw, link, known, resent, pending, fate>>
      BY <2>4 DEF Received, Verdicts
    <3>2. f.from \in Nat /\ f.at \in Nat
      BY <2>4 DEF Frame, Verdicts
    <3>3. base \in Paint
      <4>1. f.at <= Len(log)
        BY <1>5 DEF Received, DeltasJoin, Bounds
      <4>2. Ink(f.from, f.at) # "none" => Ink(f.from, f.at) \in Paint
        BY <3>2, <4>1, InkDecides
      <4>3. shown \in Paint /\ "empty" \in Paint
        BY DEF Types, Paint
      <4> QED
        BY <4>2, <4>3
    <3>4. /\ loaded' = (loaded \/ f.t = "snapshot")
          /\ applied' = (IF fresh THEN f.at ELSE applied)
          /\ smudged' = (smudged \/ (pending # <<>> /\ f.t = "delta" /\ ink = "none"))
          /\ \/ UNCHANGED <<shown, prev>>
             \/ Repaint(base)
      BY <3>1 DEF Show
    <3> HIDE DEF base, ink
    <3>5. shown' \in Paint /\ prev' \in [Ops -> Paint]
      <4>1. CASE UNCHANGED <<shown, prev>>
        BY <4>1 DEF Types
      <4>2. CASE Repaint(base)
        <5>1. Len(pending) \in Nat /\ DOMAIN pending = 1..Len(pending)
              /\ \A i \in 1..Len(pending) : pending[i] \in Paint
          BY LenProperties DEF Types, Paint
        <5>2. pending # <<>> => Len(pending) \in 1..Len(pending)
          BY <5>1, EmptySeq DEF Types
        <5>3. shown' \in Paint
          BY <3>3, <4>2, <5>1, <5>2 DEF Repaint
        <5> DEFINE under(op) ==
              IF \E i \in DOMAIN pending : pending[i] = op
              THEN LET i == CHOOSE j \in DOMAIN pending : pending[j] = op
                   IN  IF i = 1 THEN base ELSE pending[i - 1]
              ELSE "empty"
        <5>4. ASSUME NEW op \in Ops PROVE under(op) \in Paint
          <6>1. CASE \E i \in DOMAIN pending : pending[i] = op
            <7> DEFINE i == CHOOSE j \in DOMAIN pending : pending[j] = op
            <7>1. i \in 1..Len(pending)
              BY <5>1, <6>1
            <7>2. under(op) = IF i = 1 THEN base ELSE pending[i - 1]
              BY <6>1
            <7> HIDE DEF i, under
            <7>3. i # 1 => i - 1 \in 1..Len(pending)
              BY <5>1, <7>1
            <7> QED
              BY <3>3, <5>1, <7>2, <7>3
          <6>2. CASE ~\E i \in DOMAIN pending : pending[i] = op
            <7>1. under(op) = "empty"
              BY <6>2
            <7> QED
              BY <7>1 DEF Paint
          <6> QED
            BY <6>1, <6>2
        <5>5. prev' = [op \in Ops |-> under(op)]
          BY <4>2 DEF Repaint
        <5> HIDE DEF under
        <5> QED
          BY <5>3, <5>4, <5>5
      <4> QED
        BY <3>4, <4>1, <4>2
    <3>6. loaded' \in BOOLEAN /\ applied' \in Nat /\ smudged' \in BOOLEAN
      BY <3>2, <3>4 DEF Types
    <3> QED
      BY <2>1, <3>1, <3>5, <3>6 DEF Types, redisVars, gatewayVars, verdictVars
  <2> QED
    BY <2>2, <2>3, <2>4 DEF Frame, Verdicts
<1>6. CASE Lost
  BY <1>6 DEF Lost, Types, redisVars, boardVars, verdictVars
<1>7. CASE Greets
  BY <1>7 DEF Greets, Types, redisVars, tabVars, boardVars, verdictVars
<1>8. CASE Sent
  <2>1. flushed' \in Nat
    BY <1>8, LenProperties DEF Sent, Types
  <2> QED
    BY <1>8, <2>1 DEF Sent, Types, redisVars, tabVars, boardVars, verdictVars
<1>9. ASSUME NEW op \in Ops, Handled(op) PROVE Types'
  <2>0. [op |-> op, live |-> TRUE] \in Call /\ strays + 1 \in Nat
    BY DEF Call, Types
  <2>1. calls' \in Seq(Call) /\ sock' \in Seq(Frame) /\ detours' \subseteq Call /\ strays' \in Nat
    BY <1>9, <2>0 DEF Handled, Types
  <2> QED
    BY <1>9, <2>1 DEF Handled, Types, redisVars, tabVars, boardVars
<1>10. ASSUME NEW d \in detours, Resolved(d) PROVE Types'
  <2>1. calls' \in Seq(Call) /\ sock' \in Seq(Frame) /\ detours' \subseteq Call
    BY <1>10 DEF Resolved, Types
  <2> QED
    BY <1>10, <2>1 DEF Resolved, Types, redisVars, tabVars, boardVars
<1>11. ASSUME NEW c \in Call, Ran(c) PROVE Types'
  <2>0. c.op \in Ops /\ now + OpTtl \in Nat
    BY PlacingAssumption DEF Types, Call
  <2>1. claim' \in [Ops -> Nat] /\ log' \in Seq(Writer) /\ failed' \subseteq Ops
    BY <1>11, <2>0 DEF Ran, Accepts, Types
  <2> QED
    BY <1>11, <2>1 DEF Ran, Types, tabVars, boardVars
<1> QED
  BY <1>1, <1>2, <1>3, <1>4, <1>5, <1>6, <1>7, <1>8, <1>9, <1>10, <1>11 DEF Stepped

\* A tap adds to the map, a verdict takes from it, nothing else changes it.
LEMMA PendingStep ==
  ASSUME Types, PendingIsFate, Stepped
  PROVE  PendingIsFate'
<1>0. Len(pending) \in Nat /\ DOMAIN pending = 1..Len(pending)
  BY LenProperties DEF Types
<1>1. ASSUME UNCHANGED <<pending, fate, overlapped>> PROVE PendingIsFate'
  BY <1>1 DEF PendingIsFate
<1>2. ASSUME NEW op \in Ops, Tapped(op) PROVE PendingIsFate'
  <2>1. /\ fate[op] = "idle" /\ fate' = [fate EXCEPT ![op] = "pending"] /\ Pushes(pending, pending', op)
        /\ overlapped' = (overlapped \/ pending # <<>>)
    BY <1>2 DEF Tapped
  <2>2. \A i \in DOMAIN pending : pending[i] # op
    BY <2>1 DEF PendingIsFate
  <2>3. \A i \in DOMAIN pending' : fate'[pending'[i]] = "pending"
    <3>1. \A i \in 1..Len(pending) : pending[i] \in Ops /\ fate[pending[i]] = "pending"
      BY <1>0 DEF PendingIsFate, Types
    <3>2. \A x \in Ops : fate'[x] = IF x = op THEN "pending" ELSE fate[x]
      BY <2>1 DEF Types
    <3>3. \A i \in DOMAIN pending' : pending'[i] = op \/ (i \in 1..Len(pending) /\ pending'[i] = pending[i])
      BY <1>0, <2>1 DEF Pushes
    <3>4. op \in Ops
      BY <1>2
    <3> QED
      BY <3>1, <3>2, <3>3, <3>4
  <2>4. \A x \in Ops : fate'[x] = "pending" => \E i \in DOMAIN pending' : pending'[i] = x
    <3> SUFFICES ASSUME NEW x \in Ops, fate'[x] = "pending" PROVE \E i \in DOMAIN pending' : pending'[i] = x
      OBVIOUS
    <3>1. CASE x = op
      BY <1>0, <2>1, <3>1 DEF Pushes
    <3>2. CASE x # op
      <4>1. fate[x] = "pending"
        BY <2>1, <3>2 DEF Types
      <4>2. PICK i \in DOMAIN pending : pending[i] = x
        BY <4>1 DEF PendingIsFate
      <4>3. i \in DOMAIN pending' /\ pending'[i] = x
        BY <1>0, <2>1, <4>2 DEF Pushes
      <4> QED
        BY <4>3
    <3> QED
      BY <3>1, <3>2
  <2>5. \A i, j \in DOMAIN pending' : pending'[i] = pending'[j] => i = j
    <3>1. \A i, j \in 1..Len(pending) : pending[i] = pending[j] => i = j
      BY <1>0 DEF PendingIsFate
    <3> QED
      BY <1>0, <2>1, <2>2, <3>1 DEF Pushes
  <2>6. ~overlapped' => Len(pending') <= 1
    <3>1. pending = <<>> => Len(pending) = 0
      BY EmptySeq
    <3>2. ~overlapped' => pending = <<>>
      BY <2>1, Zenon
    <3>3. Len(pending') = Len(pending) + 1
      BY <2>1 DEF Pushes
    <3> QED
      BY <3>1, <3>2, <3>3
  <2> QED
    BY <2>3, <2>4, <2>5, <2>6 DEF PendingIsFate
<1>3. ASSUME NEW op, NEW v \in {"kept", "reverted"}, Dropped(op, v), overlapped' = overlapped
      PROVE  PendingIsFate'
  <2>1. /\ op \in Ops /\ pending' \in Seq(Ops) /\ Removed(op) /\ fate' = [fate EXCEPT ![op] = v]
    BY <1>3 DEF Dropped
  <2>2. /\ \A i \in DOMAIN pending' : \E j \in DOMAIN pending : pending[j] = pending'[i] /\ pending[j] # op
        /\ \A x : x # op /\ (\E i \in DOMAIN pending : pending[i] = x) =>
             \E i \in DOMAIN pending' : pending'[i] = x
        /\ \A i, j \in DOMAIN pending' : pending'[i] = pending'[j] => i = j
        /\ ~overlapped => pending' = <<>>
    BY <2>1, RemovedIs
  <2>3. \A x \in Ops : x # op => fate'[x] = fate[x]
    BY <2>1 DEF Types
  <2>4. \A i \in DOMAIN pending' : fate'[pending'[i]] = "pending"
    <3>1. \A j \in DOMAIN pending : pending[j] \in Ops /\ fate[pending[j]] = "pending"
      BY DEF PendingIsFate, Types
    <3> QED
      BY <2>2, <2>3, <3>1
  <2>5. \A x \in Ops : fate'[x] = "pending" => \E i \in DOMAIN pending' : pending'[i] = x
    <3>1. fate'[op] # "pending"
      BY <2>1 DEF Types
    <3>2. \A x \in Ops : fate[x] = "pending" => \E i \in DOMAIN pending : pending[i] = x
      BY DEF PendingIsFate
    <3> QED
      BY <2>2, <2>3, <3>1, <3>2
  <2>6. ~overlapped' => Len(pending') <= 1
    <3>1. pending' = <<>> => Len(pending') = 0
      BY EmptySeq
    <3> QED
      BY <1>3, <2>2, <3>1
  <2> QED
    BY <2>2, <2>4, <2>5, <2>6 DEF PendingIsFate
<1>4. ASSUME NEW f \in Frame, Received(f) PROVE PendingIsFate'
  <2>1. overlapped' = overlapped
    BY <1>4 DEF Received
  <2>2. CASE f.t \in Verdicts
    <3>1. Settled(f)
      BY <1>4, <2>2 DEF Received, Verdicts
    <3> QED
      BY <1>1, <1>3, <2>1, <3>1 DEF Settled
  <2>3. CASE f.t \notin Verdicts
    BY <1>1, <1>4, <2>1, <2>3 DEF Received
  <2> QED
    BY <2>2, <2>3
<1>5. ASSUME NEW c \in Call, Ran(c) PROVE UNCHANGED <<pending, fate, overlapped>>
  BY <1>5 DEF Ran, tabVars, boardVars
<1>6. ASSUME NEW op \in Ops, Handled(op) PROVE UNCHANGED <<pending, fate, overlapped>>
  BY <1>6 DEF Handled, tabVars, boardVars
<1>7. ASSUME NEW d \in detours, Resolved(d) PROVE UNCHANGED <<pending, fate, overlapped>>
  BY <1>7 DEF Resolved, tabVars, boardVars
<1>8. CASE WrittenByOthers \/ Connect \/ Lost \/ Greets \/ Sent
  BY <1>1, <1>8 DEF WrittenByOthers, Connect, Lost, Greets, Sent, tabVars, boardVars
<1>9. CASE UNCHANGED <<redisVars, gatewayVars, wireVars, tabVars, verdictVars>>
  BY <1>1, <1>9 DEF tabVars, boardVars
<1> QED
  BY <1>1, <1>2, <1>4, <1>5, <1>6, <1>7, <1>8, <1>9 DEF Stepped

-----------------------------------------------------------------------------
(***************************************************************************)
(* Claims, traces and answers.                                             *)
(***************************************************************************)

\* An append adds one writer.
LEMMA PushWrites ==
  ASSUME NEW w, Pushes(log, log', w)
  PROVE  \A op : Written(op)' <=> Written(op) \/ op = w
<1> SUFFICES ASSUME NEW op PROVE Written(op)' <=> Written(op) \/ op = w
  OBVIOUS
<1>1. Written(op) => Written(op)'
  BY DEF Written, Pushes
<1>2. op = w => Written(op)'
  <2>1. Len(log) + 1 \in DOMAIN log' /\ log'[Len(log) + 1] = w
    BY DEF Pushes
  <2> QED
    BY <2>1 DEF Written
<1>3. Written(op)' => Written(op) \/ op = w
  BY DEF Written, Pushes
<1> QED
  BY <1>1, <1>2, <1>3

\* Only the script writes an op, and only one it has the call of.
LEMMA WrittenStep ==
  ASSUME Types, PlacingAssumption, Stepped
  PROVE  /\ \A op \in Ops : Written(op) => Written(op)'
         /\ \A op \in Ops : Written(op)' /\ ~Written(op) =>
              \E c \in Call : Ran(c) /\ c.op = op /\ Accepts(op)
<1>1. CASE UNCHANGED log
  BY <1>1 DEF Written
<1>2. CASE WrittenByOthers
  <2>1. PICK w \in {"other", "elsewhere"} : Pushes(log, log', w)
    BY <1>2 DEF WrittenByOthers
  <2>2. w \notin Ops
    BY PlacingAssumption DEF PlacingAssumption
  <2> QED
    BY <2>1, <2>2, PushWrites
<1>3. ASSUME NEW c \in Call, Ran(c), ~UNCHANGED log
      PROVE  /\ \A op \in Ops : Written(op) => Written(op)'
             /\ \A op \in Ops : Written(op)' /\ ~Written(op) => c.op = op /\ Accepts(op)
  <2>1. Accepts(c.op)
    BY <1>3 DEF Ran
  <2>2. Pushes(log, log', c.op)
    BY <2>1 DEF Accepts
  <2> QED
    BY <2>1, <2>2, PushWrites
<1>4. CASE Connect \/ Lost \/ Greets \/ Sent
  BY <1>1, <1>4 DEF Connect, Lost, Greets, Sent, redisVars
<1>5. ASSUME NEW op \in Ops, Tapped(op) \/ Handled(op) PROVE UNCHANGED log
  BY <1>5 DEF Tapped, Handled, redisVars
<1>6. ASSUME NEW f \in Frame, Received(f) PROVE UNCHANGED log
  BY <1>6 DEF Received, redisVars
<1>7. ASSUME NEW d \in detours, Resolved(d) PROVE UNCHANGED log
  BY <1>7 DEF Resolved, redisVars
<1>8. CASE UNCHANGED <<redisVars, gatewayVars, wireVars, tabVars, verdictVars>>
  BY <1>1, <1>8 DEF redisVars
<1> QED
  BY <1>1, <1>2, <1>3, <1>4, <1>5, <1>6, <1>7, <1>8 DEF Stepped

\* A claim is made with the write, now + opTtlMs, and only the op's own script call moves it
\* (place.lua: SET ... PX after the claim is looked up).
LEMMA ClaimedStep ==
  ASSUME Types, PlacingAssumption, Claimed, IdleLeavesNoTrace, Stepped
  PROVE  Claimed'
<1> USE DEF Types
<1>0. OpTtl \in Nat
  BY PlacingAssumption DEF PlacingAssumption
<1>1. ASSUME UNCHANGED <<sentAt, log, claim>>, now' \in Nat, now <= now' PROVE Claimed'
  <2> SUFFICES ASSUME NEW op \in Ops
               PROVE  /\ sentAt[op] <= now' /\ (Written(op) => claim[op] >= sentAt[op] + OpTtl)
                      /\ (claim[op] > 0 => Written(op))
    BY <1>1 DEF Claimed, Written
  <2> QED
    BY <1>1 DEF Claimed
<1>2. CASE UNCHANGED <<sentAt, log, claim, now>>
  BY <1>1, <1>2
<1>3. CASE WrittenByOthers
  <2>1. PICK w \in {"other", "elsewhere"} : Pushes(log, log', w)
    BY <1>3 DEF WrittenByOthers
  <2>2. w \notin Ops
    BY PlacingAssumption DEF PlacingAssumption
  <2>3. \A op \in Ops : Written(op)' <=> Written(op)
    BY <2>1, <2>2, PushWrites
  <2>4. UNCHANGED <<sentAt, claim, now>>
    BY <1>3 DEF WrittenByOthers, tabVars
  <2> QED
    BY <2>3, <2>4 DEF Claimed
<1>4. ASSUME NEW c \in Call, Ran(c), ~UNCHANGED <<claim, log>> PROVE Claimed'
  <2>1. Accepts(c.op) /\ c.op \in Ops
    BY <1>4 DEF Ran, Call
  <2>2. Pushes(log, log', c.op) /\ claim' = [claim EXCEPT ![c.op] = now + OpTtl]
    BY <2>1 DEF Accepts
  <2>3. \A op : Written(op)' <=> Written(op) \/ op = c.op
    BY <2>2, PushWrites
  <2>4. UNCHANGED <<sentAt, now>>
    BY <1>4 DEF Ran, tabVars
  <2> SUFFICES ASSUME NEW op \in Ops
               PROVE  /\ sentAt[op] <= now /\ (Written(op)' => claim'[op] >= sentAt[op] + OpTtl)
                      /\ (claim'[op] > 0 => Written(op)')
    BY <2>4 DEF Claimed
  <2>5. sentAt[op] <= now /\ sentAt[op] \in Nat /\ now \in Nat
    BY DEF Claimed
  <2>6. CASE op = c.op
    BY <1>0, <2>2, <2>3, <2>5, <2>6
  <2>7. CASE op # c.op
    <3>1. claim'[op] = claim[op] /\ (Written(op)' <=> Written(op))
      BY <2>2, <2>3, <2>7
    <3> QED
      BY <2>5, <3>1 DEF Claimed
  <2> QED
    BY <2>6, <2>7
<1>5. ASSUME NEW op \in Ops, Tapped(op) PROVE Claimed'
  <2>1. sentAt' = [sentAt EXCEPT ![op] = now] /\ UNCHANGED <<log, claim, now>> /\ fate[op] = "idle"
    BY <1>5 DEF Tapped, redisVars
  <2>2. ~Written(op)
    BY <2>1 DEF IdleLeavesNoTrace
  <2>3. \A x : Written(x)' <=> Written(x)
    BY <2>1 DEF Written
  <2> SUFFICES ASSUME NEW x \in Ops
               PROVE  /\ sentAt'[x] <= now /\ (Written(x) => claim[x] >= sentAt'[x] + OpTtl)
                      /\ (claim[x] > 0 => Written(x))
    BY <2>1, <2>3 DEF Claimed
  <2>4. sentAt'[x] = IF x = op THEN now ELSE sentAt[x]
    BY <2>1
  <2> QED
    BY <2>2, <2>4 DEF Claimed
<1>6. CASE Connect \/ Lost \/ Greets \/ Sent
  BY <1>2, <1>6 DEF Connect, Lost, Greets, Sent, redisVars, tabVars
<1>7. ASSUME NEW op \in Ops, Handled(op) PROVE UNCHANGED <<sentAt, log, claim, now>>
  BY <1>7 DEF Handled, redisVars, tabVars
<1>8. ASSUME NEW f \in Frame, Received(f) PROVE UNCHANGED <<sentAt, log, claim, now>>
  BY <1>8 DEF Received, redisVars
<1>9. ASSUME NEW d \in detours, Resolved(d) PROVE UNCHANGED <<sentAt, log, claim, now>>
  BY <1>9 DEF Resolved, redisVars, tabVars
<1>10. CASE now' \in Nat /\ now <= now' /\ UNCHANGED <<redisVars, gatewayVars, wireVars, tabVars, verdictVars>>
  BY <1>1, <1>10 DEF redisVars, tabVars
<1>11. ASSUME NEW c \in Call, Ran(c), UNCHANGED <<claim, log>> PROVE UNCHANGED <<sentAt, log, claim, now>>
  BY <1>11 DEF Ran, tabVars
<1> QED
  BY <1>2, <1>3, <1>4, <1>5, <1>6, <1>7, <1>8, <1>9, <1>10, <1>11 DEF Stepped

-----------------------------------------------------------------------------
(***************************************************************************)
(* Messages do not come from nowhere, and an op sent once has one.         *)
(***************************************************************************)
Trace(op) == Written(op) \/ Underway(op) \/ Answered(op) \/ op \in resent

\* What the welcome of a renewed connection puts on the wire.
LEMMA Joined ==
  ASSUME NEW s \in Seq(Ops), NEW u \in Seq(Ops)
  PROVE  /\ s \o u \in Seq(Ops) /\ Len(s \o u) = Len(s) + Len(u)
         /\ Len(s) \in Nat /\ Len(u) \in Nat
         /\ DOMAIN s = 1..Len(s) /\ DOMAIN u = 1..Len(u)
         /\ DOMAIN (s \o u) = 1..(Len(s) + Len(u))
         /\ \A i \in 1..Len(s) : (s \o u)[i] = s[i]
         /\ \A i \in 1..Len(u) : (s \o u)[Len(s) + i] = u[i]
         /\ \A i \in (Len(s) + 1)..(Len(s) + Len(u)) :
              i - Len(s) \in 1..Len(u) /\ (s \o u)[i] = u[i - Len(s)]
<1>1. /\ s \o u \in Seq(Ops) /\ Len(s \o u) = Len(s) + Len(u)
      /\ \A i \in 1..(Len(s) + Len(u)) : (s \o u)[i] = IF i <= Len(s) THEN s[i] ELSE u[i - Len(s)]
  BY ConcatProperties
<1>2. Len(s) \in Nat /\ Len(u) \in Nat /\ DOMAIN s = 1..Len(s) /\ DOMAIN u = 1..Len(u)
      /\ DOMAIN (s \o u) = 1..Len(s \o u)
  BY <1>1, LenProperties
<1> DEFINE w == s \o u
<1> HIDE DEF w
<1>3. \A i \in 1..Len(s) : w[i] = s[i]
  BY <1>1, <1>2 DEF w
<1>4. \A i \in 1..Len(u) : w[Len(s) + i] = u[i]
  <2> SUFFICES ASSUME NEW i \in 1..Len(u) PROVE w[Len(s) + i] = u[i]
    OBVIOUS
  <2>1. Len(s) + i \in 1..(Len(s) + Len(u)) /\ ~(Len(s) + i <= Len(s)) /\ (Len(s) + i) - Len(s) = i
    BY <1>2
  <2> QED
    BY <1>1, <2>1 DEF w
<1>5. \A i \in (Len(s) + 1)..(Len(s) + Len(u)) : i - Len(s) \in 1..Len(u) /\ w[i] = u[i - Len(s)]
  <2> SUFFICES ASSUME NEW i \in (Len(s) + 1)..(Len(s) + Len(u))
               PROVE  i - Len(s) \in 1..Len(u) /\ w[i] = u[i - Len(s)]
    OBVIOUS
  <2>1. i \in 1..(Len(s) + Len(u)) /\ ~(i <= Len(s)) /\ i - Len(s) \in 1..Len(u)
    BY <1>2
  <2> QED
    BY <1>1, <2>1 DEF w
<1> QED
  BY <1>1, <1>2, <1>3, <1>4, <1>5 DEF w

\* The fate of an op leaves "idle" with its tap and does not come back to it, and an op
\* that was resent stays one.
LEMMA FateMoves ==
  ASSUME Types, PendingIsFate, Stepped
  PROVE  /\ \A op \in Ops : fate'[op] = "idle" => fate[op] = "idle"
         /\ \A op \in Ops : fate'[op] = "pending" => fate[op] = "pending" \/ Tapped(op)
         /\ \A op \in Ops : fate[op] # fate'[op] /\ fate[op] # "idle" =>
              fate[op] = "pending" /\ fate'[op] \in {"kept", "reverted"}
                /\ \E f \in Frame : Received(f) /\ f.t \in Verdicts
         /\ resent \subseteq resent' /\ failed \subseteq failed'
<1>1. CASE UNCHANGED <<fate, resent, failed>>
  BY <1>1
<1>2. ASSUME NEW x \in Ops, Tapped(x)
      PROVE  /\ \A op \in Ops : fate'[op] = IF op = x THEN "pending" ELSE fate[op]
             /\ fate[x] = "idle" /\ resent' = resent /\ failed' = failed
  BY <1>2 DEF Tapped, Types
<1>3. ASSUME NEW f \in Frame, Received(f)
      PROVE  /\ \A op \in Ops : fate[op] # fate'[op] =>
                  fate[op] = "pending" /\ fate'[op] \in {"kept", "reverted"} /\ f.t \in Verdicts
             /\ resent \subseteq resent' /\ failed' = failed
  <2>1. failed' = failed /\ resent \subseteq resent'
    BY <1>3 DEF Received, verdictVars
  <2>2. CASE f.t \in Verdicts
    <3>1. Settled(f)
      BY <1>3, <2>2 DEF Received, Verdicts
    <3>2. ASSUME NEW op, NEW v \in {"kept", "reverted"}, Dropped(op, v)
          PROVE  \A x \in Ops : fate[x] # fate'[x] => fate[x] = "pending" /\ fate'[x] \in {"kept", "reverted"}
      BY <3>2 DEF Dropped, Types
    <3> QED
      BY <2>1, <2>2, <3>1, <3>2 DEF Settled
  <2>3. CASE f.t \notin Verdicts
    BY <1>3, <2>1, <2>3 DEF Received
  <2> QED
    BY <2>2, <2>3
<1>4. CASE \E op \in Ops : Tapped(op)
  BY <1>2, <1>4
<1>5. CASE \E f \in Frame : Received(f)
  BY <1>3, <1>5
<1>6. CASE \E op \in Ops : Handled(op)
  BY <1>1, <1>6 DEF Handled, tabVars
<1>7. CASE \E d \in detours : Resolved(d)
  BY <1>1, <1>7 DEF Resolved, tabVars
<1>8. CASE \E c \in Call : Ran(c)
  BY <1>8 DEF Ran, tabVars
<1>9. CASE WrittenByOthers \/ Connect \/ Lost \/ Greets \/ Sent
  BY <1>1, <1>9 DEF WrittenByOthers, Connect, Lost, Greets, Sent, tabVars, verdictVars
<1>10. CASE UNCHANGED <<redisVars, gatewayVars, wireVars, tabVars, verdictVars>>
  BY <1>1, <1>10 DEF tabVars, verdictVars
<1> QED
  BY <1>4, <1>5, <1>6, <1>7, <1>8, <1>9, <1>10 DEF Stepped

\* A step leaves a trace of an op only where there was one, or for a pending op.
LEMMA TraceMoves ==
  ASSUME Types, PendingIsFate, PlacingAssumption, Stepped, NEW op \in Ops, Trace(op)'
  PROVE  Trace(op) \/ fate[op] = "pending" \/ Tapped(op)
<1> USE DEF AtGateway, Detoured, Called, Underway, Answered, Trace
<1>0. op # "none"
  BY PlacingAssumption DEF PlacingAssumption
<1>1. CASE UNCHANGED <<log, toGw, detours, calls, sock, resent>>
  BY <1>1 DEF Written
<1>2. CASE WrittenByOthers
  <2>1. UNCHANGED <<toGw, detours, calls, sock, resent>>
    BY <1>2 DEF WrittenByOthers, gatewayVars, wireVars, tabVars
  <2>2. Written(op)' => Written(op)
    <3>1. PICK w \in {"other", "elsewhere"} : Pushes(log, log', w)
      BY <1>2 DEF WrittenByOthers
    <3> QED
      BY <3>1, PushWrites, PlacingAssumption DEF PlacingAssumption
  <2> QED
    BY <2>1, <2>2
<1>3. CASE Connect
  BY <1>1, <1>3 DEF Connect, redisVars, wireVars
<1>4. ASSUME NEW x \in Ops, Tapped(x) PROVE Trace(op) \/ Tapped(op)
  <2>1. UNCHANGED <<log, detours, calls, sock, resent>> /\ Pushes(toGw, toGw', x)
    BY <1>4 DEF Tapped, redisVars, gatewayVars
  <2>2. AtGateway(op)' => AtGateway(op) \/ op = x
    BY <2>1 DEF Pushes
  <2> QED
    BY <1>4, <2>1, <2>2 DEF Written
<1>5. ASSUME NEW f \in Frame, Received(f) PROVE Trace(op) \/ fate[op] = "pending"
  <2>1. UNCHANGED <<log, detours, calls>> /\ Pops(sock, sock')
    BY <1>5 DEF Received, redisVars, gatewayVars
  <2>2. Answered(op)' => Answered(op)
    BY <2>1 DEF Pops
  <2>3. \A i \in DOMAIN pending : fate[pending[i]] = "pending"
    BY DEF PendingIsFate
  <2>4. CASE UNCHANGED <<toGw, resent>>
    BY <2>1, <2>2, <2>4 DEF Written
  <2>5. CASE f.t = "welcome"
    <3>1. /\ toGw' = toGw \o (IF known THEN pending ELSE <<>>)
          /\ resent' = IF known THEN resent \cup {pending[i] : i \in DOMAIN pending} ELSE resent
      BY <1>5, <2>5 DEF Received, Verdicts
    <3>2. AtGateway(op)' => AtGateway(op) \/ \E i \in DOMAIN pending : pending[i] = op
      <4>1. CASE known
        <5>1. toGw' = toGw \o pending /\ toGw \in Seq(Ops) /\ pending \in Seq(Ops)
          BY <3>1, <4>1 DEF Types
        <5> QED
          BY <5>1, Joined
      <4>2. CASE ~known
        <5>1. toGw' = toGw
          BY <3>1, <4>2, ConcatEmptySeq DEF Types
        <5> QED
          BY <5>1
      <4> QED
        BY <4>1, <4>2
    <3> QED
      BY <2>1, <2>2, <2>3, <3>1, <3>2 DEF Written
  <2> QED
    BY <1>5, <2>4, <2>5 DEF Received
<1>6. CASE Lost
  <2>1. UNCHANGED <<log, resent>> /\ toGw' = <<>> /\ sock' = <<>>
    BY <1>6 DEF Lost, redisVars
  <2>2. ~AtGateway(op)' /\ ~Answered(op)'
    BY <2>1
  <2>3. Called(op)' => Called(op)
    BY <1>6 DEF Lost
  <2>4. Detoured(op)' => Detoured(op)
    <3> SUFFICES ASSUME NEW e \in detours', e.op = op PROVE Detoured(op)
      OBVIOUS
    <3>1. PICK d \in detours : e = [d EXCEPT !.live = FALSE]
      BY <1>6 DEF Lost
    <3>2. d \in Call
      BY DEF Types
    <3>3. e.op = d.op
      BY <3>1, <3>2 DEF Call
    <3> QED
      BY <3>3
  <2> QED
    BY <2>1, <2>2, <2>3, <2>4 DEF Written
<1>7. CASE Greets
  <2>1. UNCHANGED <<log, toGw, detours, calls, resent>>
    BY <1>7 DEF Greets, redisVars, tabVars
  <2>2. \A i \in DOMAIN sock' : i \in DOMAIN sock \/ sock'[i].op = "none"
    <3>1. \A i \in DOMAIN sock' : i \in DOMAIN sock \/ i = Len(sock) + 1 \/ i = Len(sock) + 2
      BY <1>7 DEF Greets
    <3> QED
      BY <1>7, <3>1 DEF Greets, To, Pixels
  <2>3. Answered(op)' => Answered(op)
    BY <1>0, <1>7, <2>2 DEF Greets
  <2> QED
    BY <2>1, <2>3 DEF Written
<1>8. CASE Sent
  <2>1. UNCHANGED <<log, toGw, detours, calls, resent>>
    BY <1>8 DEF Sent, redisVars, tabVars
  <2>2. Answered(op)' => Answered(op)
    BY <1>0, <1>8 DEF Sent, Pushes, Pixels
  <2> QED
    BY <2>1, <2>2 DEF Written
<1>9. ASSUME NEW x \in Ops, Handled(x) PROVE Trace(op)
  <2>1. UNCHANGED <<log, resent>> /\ Pops(toGw, toGw') /\ AtGateway(x)
    BY <1>9 DEF Handled, redisVars, tabVars
  <2>2. AtGateway(op)' => AtGateway(op)
    BY <2>1 DEF Pops
  <2>3. Called(op)' => Called(op) \/ op = x
    BY <1>9 DEF Handled, Pushes
  <2>4. Detoured(op)' => Detoured(op) \/ op = x
    BY <1>9 DEF Handled
  <2>5. Answered(op)' => Answered(op) \/ op = x
    BY <1>9 DEF Handled, Pushes, To
  <2> QED
    BY <2>1, <2>2, <2>3, <2>4, <2>5 DEF Written
<1>10. ASSUME NEW d \in detours, Resolved(d) PROVE Trace(op)
  <2>1. UNCHANGED <<log, toGw, resent>> /\ Detoured(d.op)
    BY <1>10 DEF Resolved, redisVars, tabVars
  <2>2. Detoured(op)' => Detoured(op)
    BY <1>10 DEF Resolved
  <2>3. Called(op)' => Called(op) \/ op = d.op
    BY <1>10 DEF Resolved, Pushes
  <2>4. Answered(op)' => Answered(op) \/ op = d.op
    BY <1>10 DEF Resolved, Pushes, To
  <2> QED
    BY <2>1, <2>2, <2>3, <2>4 DEF Written
<1>11. ASSUME NEW c \in Call, Ran(c) PROVE Trace(op)
  <2>1. UNCHANGED <<toGw, detours, resent>> /\ Called(c.op) /\ Pops(calls, calls')
    BY <1>11 DEF Ran, tabVars
  <2>2. Called(op)' => Called(op)
    BY <2>1 DEF Pops
  <2>3. Answered(op)' => Answered(op) \/ op = c.op
    <3>1. CASE c.live
      <4>1. PICK t \in {"ack", "refused", "cooldown"} : Pushes(sock, sock', To(t, c.op))
        BY <1>11, <3>1 DEF Ran
      <4> QED
        BY <4>1 DEF Pushes, To
    <3>2. CASE ~c.live
      BY <1>11, <3>2 DEF Ran
    <3> QED
      BY <3>1, <3>2
  <2>4. Written(op)' => Written(op) \/ op = c.op
    <3>1. CASE Accepts(c.op)
      BY <3>1, PushWrites DEF Accepts
    <3>2. CASE UNCHANGED log
      BY <3>2 DEF Written
    <3> QED
      BY <1>11, <3>1, <3>2 DEF Ran
  <2> QED
    BY <2>1, <2>2, <2>3, <2>4
<1>12. CASE UNCHANGED <<redisVars, gatewayVars, wireVars, tabVars, verdictVars>>
  BY <1>1, <1>12 DEF redisVars, gatewayVars, wireVars, tabVars
<1> QED
  BY <1>2, <1>3, <1>4, <1>5, <1>6, <1>7, <1>8, <1>9, <1>10, <1>11, <1>12 DEF Stepped

\* Nothing of an op exists before its tap.
LEMMA IdleStep ==
  ASSUME Types, PendingIsFate, IdleLeavesNoTrace, PlacingAssumption, Stepped
  PROVE  IdleLeavesNoTrace'
<1> SUFFICES ASSUME NEW op \in Ops, fate'[op] = "idle" PROVE ~Trace(op)'
  BY DEF IdleLeavesNoTrace, Trace
<1>1. fate[op] = "idle" /\ ~Trace(op)
  BY FateMoves DEF IdleLeavesNoTrace, Trace
<1>2. ~Tapped(op)
  BY DEF Tapped, Types
<1>3. fate[op] # "pending"
  BY <1>1
<1> QED
  BY <1>1, <1>2, <1>3, TraceMoves

\* What a welcome resends is resent; the rest of the wire stays.
LEMMA WelcomeJoins ==
  ASSUME Types, NEW f \in Frame, Received(f), f.t = "welcome"
  PROVE  /\ \A op \in Ops \ resent' :
              /\ AtGateway(op)' <=> AtGateway(op)
              /\ \A i \in DOMAIN toGw' : toGw'[i] = op => i \in DOMAIN toGw /\ toGw[i] = op
         /\ \A i \in DOMAIN toGw : i \in DOMAIN toGw' /\ toGw'[i] = toGw[i]
         /\ \A i \in DOMAIN toGw' : i \in DOMAIN toGw \/ (known /\ \E j \in DOMAIN pending : pending[j] = toGw'[i])
<1>1. /\ toGw' = toGw \o (IF known THEN pending ELSE <<>>)
      /\ resent' = IF known THEN resent \cup {pending[i] : i \in DOMAIN pending} ELSE resent
  BY DEF Received, Verdicts
<1>2. toGw \in Seq(Ops) /\ pending \in Seq(Ops)
  BY DEF Types
<1>3. CASE known
  <2>1. toGw' = toGw \o pending
    BY <1>1, <1>3
  <2>2. /\ DOMAIN toGw = 1..Len(toGw) /\ DOMAIN toGw' = 1..(Len(toGw) + Len(pending))
        /\ Len(toGw) \in Nat /\ Len(pending) \in Nat /\ DOMAIN pending = 1..Len(pending)
        /\ \A i \in 1..Len(toGw) : toGw'[i] = toGw[i]
        /\ \A i \in (Len(toGw) + 1)..(Len(toGw) + Len(pending)) :
              i - Len(toGw) \in 1..Len(pending) /\ toGw'[i] = pending[i - Len(toGw)]
    BY <1>2, <2>1, Joined
  <2>3. \A i \in DOMAIN toGw : i \in DOMAIN toGw' /\ toGw'[i] = toGw[i]
    BY <2>2
  <2>4. \A i \in DOMAIN toGw' : i \in DOMAIN toGw \/ \E j \in DOMAIN pending : pending[j] = toGw'[i]
    <3> SUFFICES ASSUME NEW i \in DOMAIN toGw', i \notin DOMAIN toGw
                 PROVE  \E j \in DOMAIN pending : pending[j] = toGw'[i]
      OBVIOUS
    <3>1. i \in (Len(toGw) + 1)..(Len(toGw) + Len(pending))
      BY <2>2
    <3> QED
      BY <2>2, <3>1
  <2>5. \A i \in DOMAIN pending : pending[i] \in resent'
    BY <1>1, <1>3
  <2>6. \A op \in Ops \ resent', i \in DOMAIN toGw' : toGw'[i] = op => i \in DOMAIN toGw /\ toGw[i] = op
    BY <2>3, <2>4, <2>5
  <2> QED
    BY <1>3, <2>3, <2>4, <2>6 DEF AtGateway
<1>4. CASE ~known
  <2>1. toGw' = toGw
    BY <1>1, <1>2, <1>4, ConcatEmptySeq
  <2> QED
    BY <2>1 DEF AtGateway
<1> QED
  BY <1>3, <1>4

\* A connection that ends takes what is on the wire with it and nothing else.
LEMMA LostKeeps ==
  ASSUME Types, Lost, NEW op
  PROVE  /\ ~AtGateway(op)' /\ ~Answered(op)'
         /\ Called(op)' <=> Called(op)
         /\ Detoured(op)' => Detoured(op)
         /\ \A d, e \in detours' : d.op = op /\ e.op = op =>
              \E d1, e1 \in detours : /\ d1.op = op /\ e1.op = op
                                      /\ d = [d1 EXCEPT !.live = FALSE] /\ e = [e1 EXCEPT !.live = FALSE]
<1>1. toGw' = <<>> /\ sock' = <<>>
  BY DEF Lost
<1>2. ~AtGateway(op)' /\ ~Answered(op)'
  BY <1>1 DEF AtGateway, Answered
<1>3. Called(op)' <=> Called(op)
  BY DEF Lost, Called
<1>4. \A e \in detours' : \E d \in detours : e = [d EXCEPT !.live = FALSE] /\ d.op = e.op
  <2> SUFFICES ASSUME NEW e \in detours'
               PROVE  \E d \in detours : e = [d EXCEPT !.live = FALSE] /\ d.op = e.op
    OBVIOUS
  <2>1. PICK d \in detours : e = [d EXCEPT !.live = FALSE]
    BY DEF Lost
  <2>2. d \in Call
    BY DEF Types
  <2> QED
    BY <2>1, <2>2 DEF Call
<1>5. Detoured(op)' => Detoured(op)
  BY <1>4 DEF Detoured
<1>6. \A d, e \in detours' : d.op = op /\ e.op = op =>
        \E d1, e1 \in detours : /\ d1.op = op /\ e1.op = op
                                /\ d = [d1 EXCEPT !.live = FALSE] /\ e = [e1 EXCEPT !.live = FALSE]
  BY <1>4
<1> QED
  BY <1>2, <1>3, <1>5, <1>6

\* Frames that are no answers do not count as one.
LEMMA BoardFrames ==
  ASSUME Types, PlacingAssumption, Greets \/ Sent
  PROVE  \A op \in Ops : Answered(op)' <=> Answered(op)
<1> SUFFICES ASSUME NEW op \in Ops PROVE Answered(op)' <=> Answered(op)
  OBVIOUS
<1>0. op # "none"
  BY PlacingAssumption DEF PlacingAssumption
<1>1. CASE Greets
  <2>1. \A i \in DOMAIN sock' : i \in DOMAIN sock \/ sock'[i].op = "none"
    <3>1. \A i \in DOMAIN sock' : i \in DOMAIN sock \/ i = Len(sock) + 1 \/ i = Len(sock) + 2
      BY <1>1 DEF Greets
    <3> QED
      BY <1>1, <3>1 DEF Greets, To, Pixels
  <2>2. \A i \in DOMAIN sock : i \in DOMAIN sock' /\ sock'[i] = sock[i]
    BY <1>1 DEF Greets
  <2> QED
    BY <1>0, <1>1, <2>1, <2>2 DEF Answered, Greets
<1>2. CASE Sent
  <2>1. CASE link = "down"
    BY <1>2, <2>1 DEF Sent, Answered
  <2>2. CASE link # "down"
    <3>1. Pushes(sock, sock', Pixels("delta", flushed, Len(log)))
      BY <1>2, <2>2 DEF Sent
    <3>2. \A i \in DOMAIN sock' : (i \in DOMAIN sock /\ sock'[i] = sock[i]) \/ sock'[i].op = "none"
      BY <3>1 DEF Pushes, Pixels
    <3>3. \A i \in DOMAIN sock : i \in DOMAIN sock' /\ sock'[i] = sock[i]
      BY <3>1 DEF Pushes
    <3> QED
      BY <1>0, <3>2, <3>3 DEF Answered
  <2> QED
    BY <2>1, <2>2
<1> QED
  BY <1>1, <1>2

\* A message moves on: from the wire to the script or to its answer.
LEMMA SentOnceStep ==
  ASSUME Types, PendingIsFate, IdleLeavesNoTrace, SentOnce, PlacingAssumption, Stepped
  PROVE  SentOnce'
<1> SUFFICES ASSUME NEW op \in Ops, op \notin resent' PROVE Single(op)'
  BY DEF SentOnce
<1>0. op \notin resent /\ Single(op)
  BY FateMoves DEF SentOnce
<1>1. CASE UNCHANGED <<log, toGw, detours, calls, sock>>
  BY <1>0, <1>1 DEF Single, Written, Underway, AtGateway, Detoured, Called, Answered
<1>2. CASE WrittenByOthers
  <2>1. UNCHANGED <<toGw, detours, calls, sock>>
    BY <1>2 DEF WrittenByOthers, gatewayVars, wireVars
  <2>2. Written(op)' => Written(op)
    <3>1. PICK w \in {"other", "elsewhere"} : Pushes(log, log', w)
      BY <1>2 DEF WrittenByOthers
    <3> QED
      BY <3>1, PushWrites, PlacingAssumption DEF PlacingAssumption
  <2> QED
    BY <1>0, <2>1, <2>2 DEF Single, Underway, AtGateway, Detoured, Called, Answered
<1>3. CASE Connect
  BY <1>1, <1>3 DEF Connect, redisVars, wireVars
<1>4. ASSUME NEW x \in Ops, Tapped(x) PROVE Single(op)'
  <2>1. UNCHANGED <<log, detours, calls, sock>> /\ Pushes(toGw, toGw', x) /\ fate[x] = "idle"
    BY <1>4 DEF Tapped, redisVars, gatewayVars
  <2>2. UNCHANGED <<Written(op), Detoured(op), Called(op), Answered(op)>>
    BY <2>1 DEF Written, Detoured, Called, Answered
  <2>3. CASE op = x
    <3>1. ~Written(op) /\ ~AtGateway(op) /\ ~Detoured(op) /\ ~Called(op) /\ ~Answered(op)
      BY <2>1, <2>3 DEF IdleLeavesNoTrace, Underway
    <3>2. \A i, j \in DOMAIN toGw' : toGw'[i] = op /\ toGw'[j] = op => i = j
      <4>1. \A i \in DOMAIN toGw' : toGw'[i] = op => i = Len(toGw) + 1
        BY <2>1, <3>1 DEF Pushes, AtGateway
      <4> QED
        BY <4>1
    <3> QED
      BY <1>0, <2>1, <2>2, <3>1, <3>2 DEF Single
  <2>4. CASE op # x
    <3>1. \A i \in DOMAIN toGw' : toGw'[i] = op => i \in DOMAIN toGw /\ toGw[i] = op
      BY <2>1, <2>4 DEF Pushes
    <3>2. AtGateway(op)' => AtGateway(op)
      BY <3>1 DEF AtGateway
    <3>3. Underway(op)' => Underway(op)
      BY <2>2, <3>2 DEF Underway
    <3> QED
      BY <1>0, <2>1, <2>2, <3>1, <3>2, <3>3 DEF Single
  <2> QED
    BY <2>3, <2>4
<1>5. ASSUME NEW f \in Frame, Received(f) PROVE Single(op)'
  <2>1. UNCHANGED <<log, detours, calls>> /\ Pops(sock, sock')
    BY <1>5 DEF Received, redisVars, gatewayVars
  <2>2. UNCHANGED <<Written(op), Detoured(op), Called(op)>> /\ (Answered(op)' => Answered(op))
    BY <2>1 DEF Written, Detoured, Called, Answered, Pops
  <2>3. /\ \A i \in DOMAIN toGw' : toGw'[i] = op => i \in DOMAIN toGw /\ toGw[i] = op
        /\ AtGateway(op)' <=> AtGateway(op)
    <3>1. CASE UNCHANGED toGw
      BY <3>1 DEF AtGateway
    <3>2. CASE f.t = "welcome"
      BY <1>5, <3>2, WelcomeJoins
    <3> QED
      BY <1>5, <3>1, <3>2 DEF Received
  <2>4. Underway(op)' => Underway(op)
    BY <2>2, <2>3 DEF Underway
  <2> QED
    BY <1>0, <2>1, <2>2, <2>3, <2>4 DEF Single
<1>6. CASE Lost
  <2>1. UNCHANGED Written(op) /\ toGw' = <<>>
    BY <1>6 DEF Lost, redisVars, Written
  <2>2. /\ ~AtGateway(op)' /\ ~Answered(op)' /\ (Called(op)' <=> Called(op)) /\ (Detoured(op)' => Detoured(op))
        /\ \A d, e \in detours' : d.op = op /\ e.op = op =>
              \E d1, e1 \in detours : /\ d1.op = op /\ e1.op = op
                                      /\ d = [d1 EXCEPT !.live = FALSE] /\ e = [e1 EXCEPT !.live = FALSE]
    BY <1>6, LostKeeps
  <2>3. \A i, j \in DOMAIN calls' : calls'[i].op = op /\ calls'[j].op = op => i = j
    BY <1>0, <1>6 DEF Single, Lost
  <2>4. \A d, e \in detours' : d.op = op /\ e.op = op => d = e
    <3> SUFFICES ASSUME NEW d \in detours', NEW e \in detours', d.op = op, e.op = op PROVE d = e
      OBVIOUS
    <3>1. PICK d1, e1 \in detours : /\ d1.op = op /\ e1.op = op
                                   /\ d = [d1 EXCEPT !.live = FALSE] /\ e = [e1 EXCEPT !.live = FALSE]
      BY <2>2
    <3>2. d1 = e1
      BY <1>0, <3>1 DEF Single
    <3> QED
      BY <3>1, <3>2
  <2>5. \A i, j \in DOMAIN toGw' : toGw'[i] = op /\ toGw'[j] = op => i = j
    BY <2>1
  <2>6. Underway(op)' => Underway(op)
    BY <2>2 DEF Underway
  <2> QED
    BY <1>0, <2>1, <2>2, <2>3, <2>4, <2>5, <2>6 DEF Single
<1>7. CASE Greets \/ Sent
  <2>1. UNCHANGED <<log, toGw, detours, calls>> /\ (Answered(op)' <=> Answered(op))
    BY <1>7, BoardFrames DEF Greets, Sent, redisVars
  <2> QED
    BY <1>0, <2>1 DEF Single, Written, Underway, AtGateway, Detoured, Called
<1>8. ASSUME NEW x \in Ops, Handled(x) PROVE Single(op)'
  <2>1. UNCHANGED <<log, resent>> /\ Pops(toGw, toGw') /\ x = toGw[1] /\ 1 \in DOMAIN toGw
    BY <1>8 DEF Handled, redisVars, tabVars
  <2>2. /\ UNCHANGED Written(op) /\ (AtGateway(op)' => AtGateway(op))
        /\ \A i, j \in DOMAIN toGw' : toGw'[i] = op /\ toGw'[j] = op => i = j
    <3>1. \A i, j \in DOMAIN toGw' : toGw'[i] = op /\ toGw'[j] = op => i + 1 = j + 1
      BY <1>0, <2>1 DEF Single, Pops
    <3>2. \A i \in DOMAIN toGw' : i \in Nat
      BY <2>1 DEF Pops
    <3> QED
      BY <2>1, <3>1, <3>2 DEF Written, AtGateway, Pops
  <2>3. CASE op = x
    <3>1. AtGateway(op) /\ ~Written(op) /\ ~Detoured(op) /\ ~Called(op) /\ ~Answered(op)
      <4>1. AtGateway(op)
        BY <2>1, <2>3 DEF AtGateway
      <4> QED
        BY <1>0, <4>1 DEF Single, Underway
    <3>2. ~AtGateway(op)'
      <4>1. \A i \in DOMAIN toGw' : toGw'[i] = op => i + 1 = 1
        BY <1>0, <2>1, <2>3 DEF Single, Pops
      <4> QED
        BY <2>1, <4>1 DEF AtGateway, Pops
    <3>3. CASE Pushes(calls, calls', [op |-> op, live |-> TRUE]) /\ UNCHANGED <<detours, sock>>
      <4>1. \A i \in DOMAIN calls' : calls'[i].op = op => i = Len(calls) + 1
        BY <3>1, <3>3 DEF Pushes, Called
      <4>2. ~Detoured(op)' /\ ~Answered(op)'
        BY <3>1, <3>3 DEF Detoured, Answered
      <4> QED
        BY <2>2, <3>1, <3>2, <3>3, <4>1, <4>2 DEF Single, Detoured
    <3>4. CASE \E t \in {"stray", "refused"} : Pushes(sock, sock', To(t, op)) /\ UNCHANGED <<detours, calls>>
      <4>1. ~Detoured(op)' /\ ~Called(op)'
        BY <3>1, <3>4 DEF Detoured, Called
      <4> QED
        BY <2>2, <3>1, <3>2, <3>4, <4>1 DEF Single, Underway, Detoured, Called
    <3>5. CASE detours' = detours \cup {[op |-> op, live |-> TRUE]} /\ UNCHANGED <<calls, sock>>
      <4>1. ~Called(op)' /\ ~Answered(op)'
        BY <3>1, <3>5 DEF Called, Answered
      <4>2. \A d \in detours' : d.op = op => d = [op |-> op, live |-> TRUE]
        BY <3>1, <3>5 DEF Detoured
      <4> QED
        BY <2>2, <3>1, <3>2, <3>5, <4>1, <4>2 DEF Single, Called
    <3> QED
      BY <1>8, <2>3, <3>3, <3>4, <3>5 DEF Handled
  <2>4. CASE op # x
    <3>1. /\ \A i \in DOMAIN calls' : calls'[i].op = op => i \in DOMAIN calls /\ calls[i].op = op
          /\ \A d \in detours' : d.op = op => d \in detours
          /\ (Answered(op)' => Answered(op))
      BY <1>8, <2>4 DEF Handled, Pushes, Answered, To
    <3>2. (Called(op)' => Called(op)) /\ (Detoured(op)' => Detoured(op))
      BY <3>1 DEF Called, Detoured
    <3>3. Underway(op)' => Underway(op)
      BY <2>2, <3>2 DEF Underway
    <3> QED
      BY <1>0, <2>2, <3>1, <3>2, <3>3 DEF Single
  <2> QED
    BY <2>3, <2>4
<1>9. ASSUME NEW d \in detours, Resolved(d) PROVE Single(op)'
  <2>1. UNCHANGED <<log, toGw>> /\ detours' = detours \ {d}
    BY <1>9 DEF Resolved, redisVars
  <2>2. UNCHANGED Written(op) /\ UNCHANGED AtGateway(op) /\ (Detoured(op)' => Detoured(op))
    BY <2>1 DEF Written, AtGateway, Detoured
  <2>3. CASE op = d.op
    <3>1. Detoured(op) /\ ~Written(op) /\ ~AtGateway(op) /\ ~Called(op) /\ ~Answered(op)
      <4>1. Detoured(op)
        BY <2>3 DEF Detoured
      <4> QED
        BY <1>0, <4>1 DEF Single, Underway
    <3>2. ~Detoured(op)'
      BY <1>0, <2>1, <2>3 DEF Single, Detoured
    <3>3. CASE Pushes(calls, calls', d) /\ UNCHANGED sock
      <4>1. \A i \in DOMAIN calls' : calls'[i].op = op => i = Len(calls) + 1
        BY <3>1, <3>3 DEF Pushes, Called
      <4>2. ~Answered(op)'
        BY <3>1, <3>3 DEF Answered
      <4> QED
        BY <1>0, <2>1, <2>2, <3>1, <3>2, <4>1, <4>2 DEF Single
    <3>4. CASE UNCHANGED calls
      <4>1. ~Called(op)'
        BY <3>1, <3>4 DEF Called
      <4> QED
        BY <1>0, <2>1, <2>2, <3>1, <3>2, <3>4, <4>1 DEF Single, Underway
    <3> QED
      BY <1>9, <3>3, <3>4 DEF Resolved
  <2>4. CASE op # d.op
    <3>1. /\ \A i \in DOMAIN calls' : calls'[i].op = op => i \in DOMAIN calls /\ calls[i].op = op
          /\ (Answered(op)' => Answered(op))
      BY <1>9, <2>4 DEF Resolved, Pushes, Answered, To
    <3>2. Called(op)' => Called(op)
      BY <3>1 DEF Called
    <3>3. Underway(op)' => Underway(op)
      BY <2>2, <3>2 DEF Underway
    <3> QED
      BY <1>0, <2>1, <2>2, <3>1, <3>2, <3>3 DEF Single
  <2> QED
    BY <2>3, <2>4
<1>10. ASSUME NEW c \in Call, Ran(c) PROVE Single(op)'
  <2>1. UNCHANGED <<toGw, detours>> /\ Pops(calls, calls') /\ c = calls[1] /\ 1 \in DOMAIN calls
    BY <1>10 DEF Ran
  <2>2. UNCHANGED AtGateway(op) /\ UNCHANGED Detoured(op) /\ (Called(op)' => Called(op))
    BY <2>1 DEF AtGateway, Detoured, Called, Pops
  <2>3. \A i, j \in DOMAIN calls' : calls'[i].op = op /\ calls'[j].op = op => i = j
    <3>1. \A i, j \in DOMAIN calls' : calls'[i].op = op /\ calls'[j].op = op => i + 1 = j + 1
      BY <1>0, <2>1 DEF Single, Pops
    <3>2. \A i \in DOMAIN calls' : i \in Nat
      BY <2>1 DEF Pops
    <3> QED
      BY <3>1, <3>2
  <2>4. CASE op = c.op
    <3>1. Called(op) /\ ~AtGateway(op) /\ ~Detoured(op)
      <4>1. Called(op)
        BY <2>1, <2>4 DEF Called
      <4> QED
        BY <1>0, <4>1 DEF Single
    <3>2. ~Called(op)'
      <4>1. \A i \in DOMAIN calls' : calls'[i].op = op => i + 1 = 1
        BY <1>0, <2>1, <2>4 DEF Single, Pops
      <4> QED
        BY <2>1, <4>1 DEF Called, Pops
    <3> QED
      BY <1>0, <2>1, <2>2, <2>3, <3>1, <3>2 DEF Single, Underway
  <2>5. CASE op # c.op
    <3>1. Answered(op)' => Answered(op)
      <4>1. CASE c.live
        <5>1. PICK t \in {"ack", "refused", "cooldown"} : Pushes(sock, sock', To(t, c.op))
          BY <1>10, <4>1 DEF Ran
        <5> QED
          BY <2>5, <5>1 DEF Answered, Pushes, To
      <4>2. CASE ~c.live
        BY <1>10, <4>2 DEF Ran, Answered
      <4> QED
        BY <4>1, <4>2
    <3>2. Written(op)' => Written(op)
      <4>1. CASE Accepts(c.op)
        BY <2>5, <4>1, PushWrites DEF Accepts
      <4>2. CASE UNCHANGED log
        BY <4>2 DEF Written
      <4> QED
        BY <1>10, <4>1, <4>2 DEF Ran
    <3>3. Underway(op)' => Underway(op)
      BY <2>2 DEF Underway
    <3> QED
      BY <1>0, <2>1, <2>2, <2>3, <3>1, <3>2, <3>3 DEF Single
  <2> QED
    BY <2>4, <2>5
<1>11. CASE UNCHANGED <<redisVars, gatewayVars, wireVars, tabVars, verdictVars>>
  BY <1>1, <1>11 DEF redisVars, gatewayVars, wireVars
<1> QED
  BY <1>2, <1>3, <1>4, <1>5, <1>6, <1>7, <1>8, <1>9, <1>10, <1>11 DEF Stepped

\* A call that answers ack has written its op, now or before.
LEMMA AckIsWritten ==
  ASSUME Types, Claimed, NEW c \in Call, Ran(c), NEW t, t = "ack", c.live,
         Pushes(sock, sock', To(t, c.op))
  PROVE  Written(c.op)'
<1>1. c.op \in Ops /\ claim[c.op] \in Nat /\ now \in Nat
  BY DEF Call, Types
<1>2. PICK u \in {"ack", "refused", "cooldown"} :
        /\ Pushes(sock, sock', To(u, c.op))
        /\ u = "ack" => Accepts(c.op) \/ (claim[c.op] > now /\ UNCHANGED log)
  BY DEF Ran
<1>3. u = t
  BY <1>2 DEF Pushes, To
<1>4. CASE Accepts(c.op)
  BY <1>4, PushWrites DEF Accepts
<1>5. CASE claim[c.op] > now /\ UNCHANGED log
  <2>1. Written(c.op)
    BY <1>1, <1>5 DEF Claimed
  <2> QED
    BY <1>5, <2>1 DEF Written
<1> QED
  BY <1>2, <1>3, <1>4, <1>5

\* What the script, the handler and the dims look-up answer is so, and stays so while the
\* answer is on its way: an op sent once has no second call that could write it.
LEMMA AnswersStep ==
  ASSUME Types, PendingIsFate, Claimed, SentOnce, AnswersAreTrue, PlacingAssumption, Stepped
  PROVE  AnswersAreTrue'
<1>0. ASSUME \A i \in DOMAIN sock' : \A g : g = sock'[i] => IsTrue(g)' PROVE AnswersAreTrue'
  BY <1>0 DEF AnswersAreTrue, IsTrue, Written
<1>1. ASSUME NEW j \in DOMAIN sock, NEW f, f = sock[j] PROVE IsTrue(f)'
  <2>0. IsTrue(f) /\ f \in Frame
    BY <1>1 DEF AnswersAreTrue, Types
  <2>1. ASSUME f.t = "ack" PROVE Written(f.op)'
    <3>1. f.op \in Ops /\ Written(f.op)
      BY <2>0, <2>1 DEF IsTrue, Frame, Verdicts
    <3> QED
      BY <3>1, WrittenStep
  <2>2. ASSUME f.t \in {"refused", "cooldown"}, f.op \notin resent' \cup failed', Written(f.op)'
        PROVE  FALSE
    <3>1. f.op \in Ops
      BY <2>0, <2>2 DEF Frame, Verdicts
    <3>2. f.op \notin resent \cup failed
      BY <2>2, FateMoves
    <3>3. ~Written(f.op)
      BY <2>0, <2>2, <3>2 DEF IsTrue
    <3>4. PICK c \in Call : Ran(c) /\ c.op = f.op
      BY <2>2, <3>1, <3>3, WrittenStep
    <3>5. Called(f.op)
      BY <3>4 DEF Ran, Called
    <3>6. Answered(f.op)
      BY <1>1 DEF Answered
    <3> QED
      BY <3>1, <3>2, <3>5, <3>6 DEF SentOnce, Single, Underway
  <2> QED
    BY <2>1, <2>2 DEF IsTrue
<1>2. ASSUME NEW f, f.t \notin {"ack", "refused", "cooldown"} PROVE IsTrue(f)'
  BY <1>2 DEF IsTrue
<1>3. ASSUME NEW x, Pushes(sock, sock', x), IsTrue(x)' PROVE AnswersAreTrue'
  <2> SUFFICES ASSUME NEW i \in DOMAIN sock', NEW g, g = sock'[i] PROVE IsTrue(g)'
    BY <1>0
  <2>1. g = sock'[i]
    OBVIOUS
  <2>2. g = x \/ (i \in DOMAIN sock /\ g = sock[i])
    BY <1>3, <2>1 DEF Pushes
  <2> QED
    BY <1>1, <1>3, <2>2
<1>4. CASE UNCHANGED sock
  BY <1>0, <1>1, <1>4
<1>5. ASSUME NEW f \in Frame, Received(f) PROVE AnswersAreTrue'
  <2> SUFFICES ASSUME NEW i \in DOMAIN sock', NEW g, g = sock'[i] PROVE IsTrue(g)'
    BY <1>0
  <2>1. g = sock'[i]
    OBVIOUS
  <2>2. i + 1 \in DOMAIN sock /\ g = sock[i + 1]
    BY <1>5, <2>1 DEF Received, Pops
  <2> QED
    BY <1>1, <2>2
<1>6. CASE Lost
  BY <1>6 DEF Lost, AnswersAreTrue
<1>7. CASE Greets
  <2> SUFFICES ASSUME NEW i \in DOMAIN sock', NEW g, g = sock'[i] PROVE IsTrue(g)'
    BY <1>0
  <2>1. g = sock'[i]
    OBVIOUS
  <2>2. (i \in DOMAIN sock /\ g = sock[i]) \/ g.t \in {"welcome", "snapshot"}
    <3>1. i \in DOMAIN sock \/ i = Len(sock) + 1 \/ i = Len(sock) + 2
      BY <1>7 DEF Greets
    <3> QED
      BY <1>7, <2>1, <3>1 DEF Greets, To, Pixels
  <2> QED
    BY <1>1, <1>2, <2>2
<1>8. CASE Sent
  <2>1. PICK x : x = Pixels("delta", flushed, Len(log))
    OBVIOUS
  <2>2. IsTrue(x)'
    BY <1>2, <2>1 DEF Pixels
  <2> QED
    BY <1>3, <1>4, <1>8, <2>1, <2>2 DEF Sent
<1>9. ASSUME NEW op \in Ops, NEW t \in {"stray", "refused"}, Pushes(sock, sock', To(t, op)),
             Underway(op), UNCHANGED log
      PROVE  AnswersAreTrue'
  <2>1. PICK x : x = To(t, op)
    OBVIOUS
  <2>2. x.t = t /\ x.op = op
    BY <2>1 DEF To
  <2>3. Written(op)' <=> Written(op)
    BY <1>9 DEF Written
  <2>4. op \notin resent' => ~Written(op)
    BY <1>9, FateMoves DEF SentOnce, Single
  <2>5. IsTrue(x)'
    BY <1>9, <2>2, <2>3, <2>4 DEF IsTrue
  <2> QED
    BY <1>3, <1>9, <2>1, <2>5
<1>10. ASSUME NEW op \in Ops, Handled(op) PROVE AnswersAreTrue'
  <2>1. Underway(op) /\ UNCHANGED log
    BY <1>10 DEF Handled, Underway, AtGateway, redisVars
  <2> QED
    BY <1>4, <1>9, <1>10, <2>1 DEF Handled
<1>11. ASSUME NEW d \in detours, Resolved(d) PROVE AnswersAreTrue'
  <2>1. Underway(d.op) /\ UNCHANGED log /\ d.op \in Ops
    BY <1>11 DEF Resolved, Underway, Detoured, redisVars, Call
  <2> QED
    BY <1>4, <1>9, <1>11, <2>1 DEF Resolved
<1>12. ASSUME NEW c \in Call, Ran(c) PROVE AnswersAreTrue'
  <2>1. CASE c.live
    <3>1. PICK t \in {"ack", "refused", "cooldown"} :
            /\ Pushes(sock, sock', To(t, c.op))
            /\ t # "ack" => UNCHANGED log \/ c.op \in failed'
      BY <1>12, <2>1 DEF Ran
    <3>2. PICK x : x = To(t, c.op)
      OBVIOUS
    <3>3. x.t = t /\ x.op = c.op /\ c.op \in Ops
      BY <3>2 DEF To, Call
    <3>4. t = "ack" => Written(c.op)'
      BY <1>12, <2>1, <3>1, AckIsWritten
    <3>5. t # "ack" => c.op \in resent' \cup failed' \/ ~Written(c.op)'
      <4> SUFFICES ASSUME t # "ack", c.op \notin resent', c.op \notin failed' PROVE ~Written(c.op)'
        OBVIOUS
      <4>1. Called(c.op)
        BY <1>12 DEF Ran, Called
      <4>2. ~Written(c.op)
        BY <3>3, <4>1, FateMoves DEF SentOnce, Single, Underway
      <4> QED
        BY <3>1, <4>2 DEF Written
    <3>6. IsTrue(x)'
      BY <3>1, <3>3, <3>4, <3>5 DEF IsTrue
    <3> QED
      BY <1>3, <3>1, <3>2, <3>6
  <2>2. CASE ~c.live
    BY <1>4, <1>12, <2>2 DEF Ran
  <2> QED
    BY <2>1, <2>2
<1>13. ASSUME NEW op \in Ops, Tapped(op) PROVE UNCHANGED sock
  BY <1>13 DEF Tapped
<1>14. CASE WrittenByOthers \/ Connect
  BY <1>4, <1>14 DEF WrittenByOthers, Connect, wireVars
<1>15. CASE UNCHANGED <<redisVars, gatewayVars, wireVars, tabVars, verdictVars>>
  BY <1>4, <1>15 DEF wireVars
<1> QED
  BY <1>4, <1>5, <1>6, <1>7, <1>8, <1>10, <1>11, <1>12, <1>13, <1>14, <1>15 DEF Stepped

-----------------------------------------------------------------------------
(***************************************************************************)
(* The handshake, and the deltas of a connection.                          *)
(***************************************************************************)

\* Nothing goes out on a connection that is down.
LEMMA ConnectionStep ==
  ASSUME Types, PendingIsFate, Greeting, Stepped
  PROVE  Connection'
<1> USE DEF Greeting
<1>1. CASE UNCHANGED <<link, greeted, known, pending, sock, toGw, calls, detours>>
  BY <1>1 DEF Connection
<1>2. CASE WrittenByOthers
  BY <1>1, <1>2 DEF WrittenByOthers, gatewayVars, wireVars, tabVars
<1>3. CASE Connect
  BY <1>3 DEF Connect, Connection
<1>4. ASSUME NEW op \in Ops, Tapped(op) PROVE Connection'
  <2>1. UNCHANGED <<link, greeted, known, sock, calls, detours>> /\ (link = "up" \/ (link = "open" /\ known))
    BY <1>4 DEF Tapped, gatewayVars
  <2> QED
    BY <2>1 DEF Connection
<1>5. ASSUME NEW f \in Frame, Received(f) PROVE Connection'
  <2>1. UNCHANGED <<greeted, calls, detours>> /\ 1 \in DOMAIN sock /\ f = sock[1]
    BY <1>5 DEF Received, gatewayVars
  <2>2. link # "down"
    <3>1. sock # <<>>
      BY <2>1
    <3> QED
      BY <3>1 DEF Connection
  <2>3. CASE f.t = "welcome"
    <3>1. link' = "up" /\ known' = TRUE
      BY <1>5, <2>3 DEF Received, Verdicts
    <3>2. greeted
      BY <2>1, <2>3 DEF Handshake
    <3> QED
      BY <2>1, <3>1, <3>2 DEF Connection
  <2>4. CASE f.t \in Verdicts
    <3>1. UNCHANGED <<link, known>> /\ Settled(f)
      BY <1>5, <2>4 DEF Received, Verdicts
    <3>2. \A op, v : Dropped(op, v) => pending # <<>>
      BY DEF Dropped, PendingIsFate
    <3>3. pending' = pending \/ pending # <<>>
      BY <3>1, <3>2 DEF Settled
    <3> QED
      BY <2>1, <2>2, <3>1, <3>3 DEF Connection
  <2>5. CASE f.t \in {"snapshot", "delta"}
    <3>1. UNCHANGED <<link, known, pending>>
      BY <1>5, <2>5 DEF Received, Verdicts
    <3> QED
      BY <2>1, <2>2, <3>1 DEF Connection
  <2> QED
    BY <2>3, <2>4, <2>5 DEF Frame
<1>6. CASE Lost
  <2>1. \A d \in detours' : ~d.live
    <3> SUFFICES ASSUME NEW e \in detours' PROVE ~e.live
      OBVIOUS
    <3>1. PICK d \in detours : e = [d EXCEPT !.live = FALSE]
      BY <1>6 DEF Lost
    <3>2. d \in Call
      BY DEF Types
    <3> QED
      BY <3>1, <3>2 DEF Call
  <2> QED
    BY <1>6, <2>1 DEF Lost, Connection
<1>7. CASE Greets
  BY <1>7 DEF Greets, Connection, tabVars
<1>8. CASE Sent
  BY <1>8 DEF Sent, Connection, tabVars
<1>9. ASSUME NEW op \in Ops, Handled(op) PROVE Connection'
  <2>1. toGw # <<>> /\ UNCHANGED <<link, greeted, known, pending>>
    BY <1>9 DEF Handled, tabVars
  <2> QED
    BY <2>1 DEF Connection
<1>10. ASSUME NEW d \in detours, Resolved(d) PROVE Connection'
  <2>1. UNCHANGED <<link, greeted, known, pending, toGw>> /\ detours' = detours \ {d}
    BY <1>10 DEF Resolved, tabVars
  <2>2. CASE link = "down"
    <3>1. ~d.live
      BY <2>2 DEF Connection
    <3>2. \A i \in DOMAIN calls' : ~calls'[i].live
      BY <1>10, <2>2, <3>1 DEF Resolved, Connection, Pushes
    <3>3. sock' = sock
      BY <1>10, <3>1 DEF Resolved
    <3> QED
      BY <2>1, <2>2, <3>2, <3>3 DEF Connection
  <2>3. CASE link # "down"
    BY <2>1, <2>3 DEF Connection
  <2> QED
    BY <2>2, <2>3
<1>11. ASSUME NEW c \in Call, Ran(c) PROVE Connection'
  <2>1. UNCHANGED <<link, greeted, known, pending, toGw, detours>> /\ Pops(calls, calls')
    BY <1>11 DEF Ran, tabVars
  <2>2. CASE link = "down"
    <3>1. ~c.live
      BY <1>11, <2>2 DEF Connection, Ran
    <3>2. \A i \in DOMAIN calls' : ~calls'[i].live
      BY <2>1, <2>2 DEF Connection, Pops
    <3>3. sock' = sock
      BY <1>11, <3>1 DEF Ran
    <3> QED
      BY <2>1, <2>2, <3>2, <3>3 DEF Connection
  <2>3. CASE link # "down"
    BY <2>1, <2>3 DEF Connection
  <2> QED
    BY <2>2, <2>3
<1>12. CASE UNCHANGED <<redisVars, gatewayVars, wireVars, tabVars, verdictVars>>
  BY <1>1, <1>12 DEF gatewayVars, wireVars, tabVars
<1> QED
  BY <1>2, <1>3, <1>4, <1>5, <1>6, <1>7, <1>8, <1>9, <1>10, <1>11, <1>12 DEF Stepped

\* A step puts at most one frame that is neither welcome nor snapshot on the socket, takes
\* the first one off, clears it, or greets.
Frames ==
  \/ UNCHANGED sock
  \/ (\E x \in Frame : x.t \notin {"welcome", "snapshot"} /\ Pushes(sock, sock', x)
                       /\ link # "down" /\ UNCHANGED <<link, greeted>>)
  \/ (\E f \in Frame : Received(f))
  \/ Lost \/ Greets

\* Frames leave the socket at its head, join it at its end, or are lost with it.
LEMMA FramesMove ==
  ASSUME Types, PendingIsFate, Greeting, Stepped
  PROVE  Frames
<1>1. CASE WrittenByOthers \/ Connect
  BY <1>1 DEF WrittenByOthers, Connect, wireVars, Frames
<1>2. CASE \E op \in Ops : Tapped(op)
  BY <1>2 DEF Tapped, Frames
<1>3. CASE Sent
  <2>1. CASE link = "down"
    BY <1>3, <2>1 DEF Sent, Frames
  <2>2. CASE link # "down"
    <3>1. PICK x : x = Pixels("delta", flushed, Len(log))
      OBVIOUS
    <3>2. x \in Frame /\ x.t = "delta"
      BY <3>1, LenProperties DEF Pixels, Frame, Types
    <3>3. Pushes(sock, sock', x) /\ UNCHANGED <<link, greeted>>
      BY <1>3, <2>2, <3>1 DEF Sent, tabVars
    <3> QED
      BY <2>2, <3>2, <3>3 DEF Frames
  <2> QED
    BY <2>1, <2>2
<1>4. ASSUME NEW op \in Ops, NEW t \in Verdicts, Pushes(sock, sock', To(t, op)), link # "down",
             UNCHANGED <<link, greeted>>
      PROVE  Frames
  <2>1. PICK x : x = To(t, op)
    OBVIOUS
  <2>2. x \in Frame /\ x.t \notin {"welcome", "snapshot"}
    BY <2>1, AnswerIsFrame DEF Verdicts
  <2> QED
    BY <1>4, <2>1, <2>2 DEF Frames
<1>5. ASSUME NEW op \in Ops, Handled(op) PROVE Frames
  <2>1. toGw # <<>> /\ UNCHANGED <<link, greeted>>
    BY <1>5 DEF Handled, tabVars
  <2>2. link # "down"
    BY <2>1 DEF Greeting, Connection
  <2>3. UNCHANGED sock \/ \E t \in Verdicts : Pushes(sock, sock', To(t, op))
    BY <1>5 DEF Handled, Verdicts
  <2> QED
    BY <1>4, <2>1, <2>2, <2>3 DEF Frames
<1>6. ASSUME NEW d \in detours, Resolved(d) PROVE Frames
  <2>1. UNCHANGED <<link, greeted>> /\ d.op \in Ops
    BY <1>6 DEF Resolved, tabVars, Call
  <2>2. UNCHANGED sock \/ (d.live /\ \E t \in Verdicts : Pushes(sock, sock', To(t, d.op)))
    BY <1>6 DEF Resolved, Verdicts
  <2>3. d.live => link # "down"
    BY DEF Greeting, Connection
  <2> QED
    BY <1>4, <2>1, <2>2, <2>3 DEF Frames
<1>7. ASSUME NEW c \in Call, Ran(c) PROVE Frames
  <2>1. UNCHANGED <<link, greeted>> /\ c.op \in Ops /\ c = calls[1] /\ 1 \in DOMAIN calls
    BY <1>7 DEF Ran, tabVars, Call
  <2>2. CASE c.live
    <3>1. link # "down"
      BY <2>1, <2>2 DEF Greeting, Connection
    <3>2. \E t \in Verdicts : Pushes(sock, sock', To(t, c.op))
      BY <1>7, <2>2 DEF Ran, Verdicts
    <3> QED
      BY <1>4, <2>1, <3>1, <3>2
  <2>3. CASE ~c.live
    BY <1>7, <2>3 DEF Ran, Frames
  <2> QED
    BY <2>2, <2>3
<1>8. CASE UNCHANGED <<redisVars, gatewayVars, wireVars, tabVars, verdictVars>>
  BY <1>8 DEF wireVars, Frames
<1>9. CASE (\E f \in Frame : Received(f)) \/ Lost \/ Greets
  BY <1>9 DEF Frames
<1> QED
  BY <1>1, <1>2, <1>3, <1>5, <1>6, <1>7, <1>8, <1>9 DEF Stepped

\* The welcome and its snapshot travel together.
LEMMA HandshakeStep ==
  ASSUME Types, PendingIsFate, Greeting, Stepped
  PROVE  Handshake'
<1> USE DEF Greeting
<1>1. CASE UNCHANGED <<sock, link, greeted>>
  BY <1>1 DEF Handshake
<1>2. CASE Connect
  <2>1. sock = <<>> /\ sock' = sock /\ greeted' = FALSE
    BY <1>2 DEF Connect, wireVars, Connection
  <2> QED
    BY <2>1 DEF Handshake
<1>3. ASSUME NEW x \in Frame, x.t \notin {"welcome", "snapshot"}, Pushes(sock, sock', x),
             UNCHANGED <<link, greeted>>
      PROVE  Handshake'
  <2>1. /\ \A i \in DOMAIN sock : i \in DOMAIN sock' /\ sock'[i] = sock[i]
        /\ \A i \in DOMAIN sock' : sock'[i].t \in {"welcome", "snapshot"} => i \in DOMAIN sock /\ sock'[i] = sock[i]
        /\ \A i \in DOMAIN sock : i \in Nat /\ (i = 1 \/ i - 1 \in DOMAIN sock)
    BY <1>3 DEF Pushes
  <2>2. \A i, j \in DOMAIN sock' :
          sock'[i].t \in {"welcome", "snapshot"} /\ sock'[j].t = sock'[i].t => i = j
    BY <2>1 DEF Handshake
  <2>3. \A i \in DOMAIN sock' : sock'[i].t = "welcome" =>
          link' = "open" /\ i + 1 \in DOMAIN sock' /\ sock'[i + 1].t = "snapshot"
    BY <1>3, <2>1 DEF Handshake
  <2>4. \A i \in DOMAIN sock' : sock'[i].t = "snapshot" =>
          sock'[i].from = 0 /\ (i = 1 \/ sock'[i - 1].t = "welcome")
    BY <2>1 DEF Handshake
  <2>5. link' = "open" /\ greeted' => \E i \in DOMAIN sock' : sock'[i].t = "welcome"
    BY <1>3, <2>1 DEF Handshake
  <2>6. \A i \in DOMAIN sock' : sock'[i].t \in {"welcome", "snapshot"} => greeted'
    BY <1>3, <2>1 DEF Handshake
  <2> QED
    BY <2>2, <2>3, <2>4, <2>5, <2>6 DEF Handshake
<1>4. ASSUME NEW f \in Frame, Received(f) PROVE Handshake'
  <2>1. greeted' = greeted /\ Pops(sock, sock') /\ f = sock[1] /\ 1 \in DOMAIN sock
    BY <1>4 DEF Received, gatewayVars
  <2>2. \A i \in DOMAIN sock' : i \in Nat /\ i >= 1 /\ i + 1 \in DOMAIN sock /\ sock'[i] = sock[i + 1]
    BY <2>1 DEF Pops
  <2>3. \A i, j \in DOMAIN sock' :
          sock'[i].t \in {"welcome", "snapshot"} /\ sock'[j].t = sock'[i].t => i = j
    <3>1. \A i, j \in DOMAIN sock' :
            sock'[i].t \in {"welcome", "snapshot"} /\ sock'[j].t = sock'[i].t => i + 1 = j + 1
      BY <2>2 DEF Handshake
    <3> QED
      BY <2>2, <3>1
  <2>4. \A i \in DOMAIN sock' : sock'[i].t \in {"welcome", "snapshot"} => greeted'
    BY <2>1, <2>2 DEF Handshake
  <2>5. \A i \in DOMAIN sock' : sock'[i].t = "snapshot" =>
          sock'[i].from = 0 /\ (i = 1 \/ sock'[i - 1].t = "welcome")
    <3> SUFFICES ASSUME NEW i \in DOMAIN sock', sock'[i].t = "snapshot"
                 PROVE  sock'[i].from = 0 /\ (i = 1 \/ sock'[i - 1].t = "welcome")
      OBVIOUS
    <3>1. i + 1 \in DOMAIN sock /\ sock[i + 1].t = "snapshot" /\ sock'[i] = sock[i + 1] /\ i + 1 # 1
      BY <2>2
    <3>2. sock'[i].from = 0 /\ sock[(i + 1) - 1].t = "welcome"
      BY <3>1 DEF Handshake
    <3>3. (i + 1) - 1 = i
      BY <2>2
    <3>4. i = 1 \/ (i - 1 \in DOMAIN sock' /\ sock'[i - 1] = sock[(i - 1) + 1] /\ (i - 1) + 1 = i)
      BY <2>1, <2>2 DEF Pops
    <3> QED
      BY <3>2, <3>3, <3>4
  <2>6. CASE f.t = "welcome"
    <3>1. link' = "up"
      BY <1>4, <2>6 DEF Received, Verdicts
    <3>2. \A i \in DOMAIN sock' : sock'[i].t # "welcome"
      <4>1. \A i \in DOMAIN sock' : sock'[i].t = "welcome" => i + 1 = 1
        BY <2>1, <2>2, <2>6 DEF Handshake
      <4> QED
        BY <2>2, <4>1
    <3> QED
      BY <2>3, <2>4, <2>5, <3>1, <3>2 DEF Handshake
  <2>7. CASE f.t # "welcome"
    <3>1. link' = link
      BY <1>4, <2>7 DEF Received
    <3>2. \A i \in DOMAIN sock : i # 1 => i - 1 \in DOMAIN sock' /\ sock'[i - 1] = sock[i]
      BY <2>1 DEF Pops
    <3>3. \A i \in DOMAIN sock' : sock'[i].t = "welcome" =>
            link' = "open" /\ i + 1 \in DOMAIN sock' /\ sock'[i + 1].t = "snapshot"
      <4> SUFFICES ASSUME NEW i \in DOMAIN sock', sock'[i].t = "welcome"
                   PROVE  link' = "open" /\ i + 1 \in DOMAIN sock' /\ sock'[i + 1].t = "snapshot"
        OBVIOUS
      <4>1. i + 1 \in DOMAIN sock /\ sock[i + 1].t = "welcome" /\ i \in Nat /\ i >= 1
        BY <2>2
      <4>2. link = "open" /\ (i + 1) + 1 \in DOMAIN sock /\ sock[(i + 1) + 1].t = "snapshot"
        BY <4>1 DEF Handshake
      <4>3. (i + 1) + 1 # 1 /\ ((i + 1) + 1) - 1 = i + 1
        BY <4>1
      <4> QED
        BY <3>1, <3>2, <4>2, <4>3
    <3>4. link' = "open" /\ greeted' => \E i \in DOMAIN sock' : sock'[i].t = "welcome"
      <4> SUFFICES ASSUME link' = "open", greeted' PROVE \E i \in DOMAIN sock' : sock'[i].t = "welcome"
        OBVIOUS
      <4>1. PICK i \in DOMAIN sock : sock[i].t = "welcome"
        BY <2>1, <3>1 DEF Handshake
      <4>2. i # 1
        BY <2>1, <2>7, <4>1
      <4> QED
        BY <3>2, <4>1, <4>2
    <3> QED
      BY <2>3, <2>4, <2>5, <3>3, <3>4 DEF Handshake
  <2> QED
    BY <2>6, <2>7
<1>5. CASE Lost
  BY <1>5 DEF Lost, Handshake
<1>6. CASE Greets
  <2>1. \A i \in DOMAIN sock : sock[i].t \notin {"welcome", "snapshot"}
    BY <1>6 DEF Greets, Handshake
  <2>2. link' = "open" /\ greeted'
    BY <1>6 DEF Greets, tabVars
  <2>3. PICK n \in Nat : n = Len(sock)
    BY <1>6 DEF Greets
  <2>4. /\ DOMAIN sock = 1..n /\ DOMAIN sock' = 1..(n + 2)
        /\ \A i \in 1..n : sock'[i].t \notin {"welcome", "snapshot"}
        /\ sock'[n + 1].t = "welcome" /\ sock'[n + 2].t = "snapshot" /\ sock'[n + 2].from = 0
    BY <1>6, <2>1, <2>3 DEF Greets, To, Pixels
  <2>5. \A i \in DOMAIN sock' : i \in 1..n \/ i = n + 1 \/ i = n + 2
    BY <2>4
  <2>6. /\ \A i \in DOMAIN sock' : sock'[i].t = "welcome" => i = n + 1
        /\ \A i \in DOMAIN sock' : sock'[i].t = "snapshot" => i = n + 2
    BY <2>4, <2>5
  <2>7. (n + 2) - 1 = n + 1 /\ (n + 1) + 1 = n + 2 /\ n + 1 \in DOMAIN sock' /\ n + 2 \in DOMAIN sock'
    BY <2>4
  <2>8. \A i, j \in DOMAIN sock' :
          sock'[i].t \in {"welcome", "snapshot"} /\ sock'[j].t = sock'[i].t => i = j
    BY <2>6
  <2>9. \A i \in DOMAIN sock' : sock'[i].t = "welcome" =>
          link' = "open" /\ i + 1 \in DOMAIN sock' /\ sock'[i + 1].t = "snapshot"
    BY <2>2, <2>4, <2>6, <2>7
  <2>10. \A i \in DOMAIN sock' : sock'[i].t = "snapshot" =>
          sock'[i].from = 0 /\ (i = 1 \/ sock'[i - 1].t = "welcome")
    BY <2>4, <2>6, <2>7
  <2> QED
    BY <2>2, <2>4, <2>7, <2>8, <2>9, <2>10 DEF Handshake
<1>7. CASE Frames
  <2>1. CASE UNCHANGED sock
    <3>1. CASE Connect
      BY <1>2, <3>1
    <3>2. CASE Lost
      BY <1>5, <3>2
    <3>3. CASE Greets
      BY <1>6, <3>3
    <3>4. CASE \E f \in Frame : Received(f)
      BY <1>4, <3>4
    <3>5. CASE WrittenByOthers
      BY <1>1, <3>5 DEF WrittenByOthers, gatewayVars, wireVars, tabVars
    <3>6. CASE \E op \in Ops : Tapped(op)
      BY <1>1, <3>6 DEF Tapped, gatewayVars
    <3>7. CASE \E op \in Ops : Handled(op)
      BY <1>1, <2>1, <3>7 DEF Handled, tabVars
    <3>8. CASE \E d \in detours : Resolved(d)
      BY <1>1, <2>1, <3>8 DEF Resolved, tabVars
    <3>9. CASE \E c \in Call : Ran(c)
      BY <1>1, <2>1, <3>9 DEF Ran, tabVars
    <3>10. CASE Sent
      BY <1>1, <2>1, <3>10 DEF Sent, tabVars
    <3>11. CASE UNCHANGED <<redisVars, gatewayVars, wireVars, tabVars, verdictVars>>
      BY <1>1, <3>11 DEF gatewayVars, wireVars, tabVars
    <3> QED
      BY <3>1, <3>2, <3>3, <3>4, <3>5, <3>6, <3>7, <3>8, <3>9, <3>10, <3>11 DEF Stepped
  <2> QED
    BY <1>3, <1>4, <1>5, <1>6, <1>7, <2>1 DEF Frames
<1> QED
  BY <1>7, FramesMove

\* The board never runs ahead of the log, nor does a frame.
LEMMA LogGrows ==
  ASSUME Types, Stepped
  PROVE  Len(log) \in Nat /\ Len(log') \in Nat /\ Len(log) <= Len(log')
<1>0. Len(log) \in Nat
  BY LenProperties DEF Types
<1>1. CASE UNCHANGED log
  BY <1>0, <1>1
<1>2. ASSUME NEW w, Pushes(log, log', w) PROVE Len(log') \in Nat /\ Len(log) <= Len(log')
  BY <1>0, <1>2 DEF Pushes
<1>3. CASE WrittenByOthers
  BY <1>0, <1>2, <1>3 DEF WrittenByOthers
<1>4. CASE \E c \in Call : Ran(c)
  BY <1>0, <1>1, <1>2, <1>4 DEF Ran, Accepts
<1>5. CASE Connect \/ Lost \/ Greets \/ Sent
  BY <1>1, <1>5 DEF Connect, Lost, Greets, Sent, redisVars
<1>6. CASE \E op \in Ops : Tapped(op) \/ Handled(op)
  BY <1>1, <1>6 DEF Tapped, Handled, redisVars
<1>7. CASE \E f \in Frame : Received(f)
  BY <1>1, <1>7 DEF Received, redisVars
<1>8. CASE \E d \in detours : Resolved(d)
  BY <1>1, <1>8 DEF Resolved, redisVars
<1>9. CASE UNCHANGED <<redisVars, gatewayVars, wireVars, tabVars, verdictVars>>
  BY <1>1, <1>9 DEF redisVars
<1> QED
  BY <1>3, <1>4, <1>5, <1>6, <1>7, <1>8, <1>9 DEF Stepped

\* What a frame does to the board's position.
LEMMA Applies ==
  ASSUME Types, NEW f \in Frame, Received(f)
  PROVE  /\ f.t = "snapshot" => applied' = f.at /\ loaded' /\ link' = link
         /\ f.t = "delta" => /\ loaded' = loaded /\ link' = link
                             /\ applied' = (IF loaded /\ f.at > applied THEN f.at ELSE applied)
         /\ f.t \in Verdicts => UNCHANGED <<applied, loaded, link>> /\ f.at = 0 /\ f.from = 0
         /\ f.t = "welcome" => UNCHANGED <<applied, loaded>> /\ link' = "up"
<1>1. CASE f.t = "snapshot"
  BY <1>1 DEF Received, Show, Verdicts
<1>2. CASE f.t = "delta"
  <2>1. Show(f) /\ link' = link
    BY <1>2 DEF Received, Verdicts
  <2>2. loaded' = (loaded \/ f.t = "snapshot") /\ loaded \in BOOLEAN
    BY <2>1 DEF Show, Types
  <2>3. loaded' = loaded
    BY <1>2, <2>2
  <2>4. applied' = (IF loaded /\ f.at > applied THEN f.at ELSE applied)
    BY <1>2, <2>1 DEF Show
  <2> QED
    BY <1>2, <2>1, <2>3, <2>4 DEF Verdicts
<1>3. CASE f.t \in Verdicts
  BY <1>3 DEF Received, Verdicts, Frame
<1>4. CASE f.t = "welcome"
  BY <1>4 DEF Received, Verdicts
<1> QED
  BY <1>1, <1>2, <1>3, <1>4 DEF Frame, Verdicts

\* Neither the coalescer nor a frame nor the board gets ahead of the log.
LEMMA BoundsStep ==
  ASSUME Types, PendingIsFate, Greeting, DeltasJoin, Stepped
  PROVE  Bounds'
<1> USE DEF DeltasJoin
<1>0. Len(log) \in Nat /\ Len(log') \in Nat /\ Len(log) <= Len(log')
  BY LogGrows
<1>1. flushed' <= Len(log')
  <2>1. CASE Sent
    <3>1. flushed' = Len(log) /\ log' = log
      BY <2>1 DEF Sent, redisVars
    <3> QED
      BY <1>0, <3>1
  <2>2. CASE ~Sent
    <3>1. ASSUME WrittenByOthers \/ Connect \/ Lost \/ Greets PROVE flushed' = flushed
      BY <3>1 DEF WrittenByOthers, Connect, Lost, Greets, gatewayVars
    <3>2. ASSUME \E op \in Ops : Tapped(op) \/ Handled(op) PROVE flushed' = flushed
      BY <3>2 DEF Tapped, Handled, gatewayVars
    <3>3. ASSUME \E f \in Frame : Received(f) PROVE flushed' = flushed
      BY <3>3 DEF Received, gatewayVars
    <3>4. ASSUME (\E d \in detours : Resolved(d)) \/ (\E c \in Call : Ran(c)) PROVE flushed' = flushed
      BY <3>4 DEF Resolved, Ran
    <3>5. ASSUME UNCHANGED <<redisVars, gatewayVars, wireVars, tabVars, verdictVars>> PROVE flushed' = flushed
      BY <3>5 DEF gatewayVars
    <3>6. flushed' = flushed
      BY <2>2, <3>1, <3>2, <3>3, <3>4, <3>5 DEF Stepped
    <3> QED
      BY <1>0, <3>6 DEF Bounds, Types
  <2> QED
    BY <2>1, <2>2
<1>2. applied' <= Len(log')
  <2>1. CASE \E f \in Frame : Received(f)
    <3>1. PICK f \in Frame : Received(f)
      BY <2>1
    <3>2. f.at <= Len(log) /\ f.at \in Nat /\ applied <= Len(log) /\ applied \in Nat
      BY <3>1 DEF Received, Bounds, Types, Frame
    <3>3. applied' = applied \/ applied' = f.at
      <4>1. f.t \in {"snapshot", "delta", "welcome"} \cup Verdicts
        BY DEF Frame
      <4> QED
        BY <3>1, <4>1, Applies
    <3> QED
      BY <1>0, <3>2, <3>3
  <2>2. CASE ~\E f \in Frame : Received(f)
    <3>1. ASSUME WrittenByOthers \/ Connect \/ Lost \/ Greets \/ Sent PROVE applied' = applied
      BY <3>1 DEF WrittenByOthers, Connect, Lost, Greets, Sent, tabVars, boardVars
    <3>2. ASSUME \E op \in Ops : Tapped(op) \/ Handled(op) PROVE applied' = applied
      BY <3>2 DEF Tapped, Handled, tabVars, boardVars
    <3>4. ASSUME (\E d \in detours : Resolved(d)) \/ (\E c \in Call : Ran(c)) PROVE applied' = applied
      BY <3>4 DEF Resolved, Ran, tabVars, boardVars
    <3>5. ASSUME UNCHANGED <<redisVars, gatewayVars, wireVars, tabVars, verdictVars>> PROVE applied' = applied
      BY <3>5 DEF tabVars, boardVars
    <3>6. applied' = applied
      BY <2>2, <3>1, <3>2, <3>4, <3>5 DEF Stepped
    <3> QED
      BY <1>0, <3>6 DEF Bounds, Types
  <2> QED
    BY <2>1, <2>2
<1>3. \A i \in DOMAIN sock' : sock'[i].from <= sock'[i].at /\ sock'[i].at <= Len(log')
  <2>0. ASSUME NEW f \in Frame, f.from <= f.at, f.at <= Len(log)
        PROVE  f.from <= f.at /\ f.at <= Len(log')
    <3>1. f.at \in Nat
      BY DEF Frame
    <3> QED
      BY <1>0, <2>0, <3>1
  <2>1. \A i \in DOMAIN sock : sock[i] \in Frame /\ sock[i].from <= sock[i].at /\ sock[i].at <= Len(log)
    BY DEF Bounds, Types
  <2>2. CASE UNCHANGED sock
    BY <2>0, <2>1, <2>2
  <2>3. ASSUME NEW x \in Frame, Pushes(sock, sock', x), x.t \notin {"welcome", "snapshot"}
        PROVE  \A i \in DOMAIN sock' : sock'[i].from <= sock'[i].at /\ sock'[i].at <= Len(log')
    <3>1. x.from <= x.at /\ x.at <= Len(log)
      <4>1. CASE x.t = "delta"
        <5>1. x = Pixels("delta", flushed, Len(log))
          <6>1. \A t \in Verdicts : \A op : x # To(t, op)
            BY <4>1 DEF To, Verdicts
          <6>2. sock' # sock /\ ~Lost /\ ~Greets /\ \A f \in Frame : ~Received(f)
            <7>1. Len(sock') = Len(sock) + 1 /\ Len(sock) \in Nat
              BY <2>3 DEF Pushes
            <7>2. ~Greets
              BY <7>1 DEF Greets
            <7>3. ~Lost
              <8>1. Lost => sock' = <<>>
                BY DEF Lost
              <8>2. sock' = <<>> => Len(sock') = 0
                BY EmptySeq
              <8> QED
                BY <7>1, <8>1, <8>2
            <7>4. \A f \in Frame : ~Received(f)
              BY <7>1 DEF Received, Pops
            <7> QED
              BY <7>1, <7>2, <7>3, <7>4
          <6>3. CASE Sent
            BY <2>3, <6>2, <6>3 DEF Sent, Pushes
          <6>4. ASSUME NEW op, Handled(op) PROVE FALSE
            BY <2>3, <6>1, <6>2, <6>4 DEF Handled, Pushes, Verdicts
          <6>5. ASSUME NEW d, Resolved(d) PROVE FALSE
            BY <2>3, <6>1, <6>2, <6>5 DEF Resolved, Pushes, Verdicts
          <6>6. ASSUME NEW c, Ran(c) PROVE FALSE
            <7>1. CASE c.live
              <8>1. PICK t \in {"ack", "refused", "cooldown"} : Pushes(sock, sock', To(t, c.op))
                BY <6>6, <7>1 DEF Ran
              <8> QED
                BY <2>3, <6>1, <8>1 DEF Pushes, Verdicts
            <7>2. CASE ~c.live
              BY <6>2, <6>6, <7>2 DEF Ran
            <7> QED
              BY <7>1, <7>2
          <6>7. ~WrittenByOthers /\ ~Connect /\ \A op : ~Tapped(op)
            BY <6>2 DEF WrittenByOthers, Connect, Tapped, wireVars
          <6>8. ~UNCHANGED <<redisVars, gatewayVars, wireVars, tabVars, verdictVars>>
            BY <6>2 DEF wireVars
          <6> QED
            BY <6>2, <6>3, <6>4, <6>5, <6>6, <6>7, <6>8 DEF Stepped
        <5> QED
          BY <1>0, <5>1 DEF Pixels, Bounds
      <4>2. CASE x.t \in Verdicts
        <5>1. x.from = 0 /\ x.at = 0
          BY <4>2 DEF Frame, Verdicts
        <5> QED
          BY <1>0, <5>1
      <4> QED
        BY <2>3, <4>1, <4>2 DEF Frame
    <3>2. \A i \in DOMAIN sock' : sock'[i] = x \/ (i \in DOMAIN sock /\ sock'[i] = sock[i])
      BY <2>3 DEF Pushes
    <3> QED
      BY <2>0, <2>1, <3>1, <3>2
  <2>4. ASSUME NEW f \in Frame, Received(f)
        PROVE  \A i \in DOMAIN sock' : sock'[i].from <= sock'[i].at /\ sock'[i].at <= Len(log')
    <3>1. \A i \in DOMAIN sock' : i + 1 \in DOMAIN sock /\ sock'[i] = sock[i + 1]
      BY <2>4 DEF Received, Pops
    <3> QED
      BY <2>0, <2>1, <3>1
  <2>5. CASE Lost
    BY <2>5 DEF Lost
  <2>6. CASE Greets
    <3>1. \A i \in DOMAIN sock' : i \in DOMAIN sock \/ i = Len(sock) + 1 \/ i = Len(sock) + 2
      BY <2>6 DEF Greets
    <3>2. \A i \in DOMAIN sock : sock'[i] = sock[i]
      BY <2>6 DEF Greets
    <3>3. sock'[Len(sock) + 1].from = 0 /\ sock'[Len(sock) + 1].at = 0
          /\ sock'[Len(sock) + 2].from = 0 /\ sock'[Len(sock) + 2].at = Len(log)
      BY <2>6 DEF Greets, To, Pixels
    <3>4. \A i \in DOMAIN sock : sock[i].from <= sock[i].at /\ sock[i].at <= Len(log')
      BY <2>0, <2>1
    <3> SUFFICES ASSUME NEW i \in DOMAIN sock' PROVE sock'[i].from <= sock'[i].at /\ sock'[i].at <= Len(log')
      OBVIOUS
    <3>5. CASE i \in DOMAIN sock
      BY <3>2, <3>4, <3>5
    <3>6. CASE i = Len(sock) + 1
      BY <1>0, <3>3, <3>6
    <3>7. CASE i = Len(sock) + 2
      BY <1>0, <3>3, <3>7
    <3> QED
      BY <3>1, <3>5, <3>6, <3>7
  <2> QED
    BY <2>2, <2>3, <2>4, <2>5, <2>6, FramesMove DEF Frames
<1> QED
  BY <1>1, <1>2, <1>3 DEF Bounds

\* A frame taken off the socket: what follows it joins the board it leaves.
LEMMA ReceiveJoins ==
  ASSUME Types, Greeting, DeltasJoin, NEW f \in Frame, Received(f)
  PROVE  /\ \A s \in 0..Len(sock') : Starts(s)' => Joins(s)'
         /\ Synced' => loaded'
<1>1. /\ Pops(sock, sock') /\ f = sock[1] /\ 1 \in DOMAIN sock /\ flushed' = flushed
      /\ f \in Frame
  BY DEF Received, gatewayVars
<1>2. PICK n \in Nat : /\ n = Len(sock') /\ Len(sock) = n + 1
                       /\ DOMAIN sock' = 1..n /\ DOMAIN sock = 1..(n + 1)
                       /\ \A i \in 1..n : sock'[i] = sock[i + 1]
  BY <1>1 DEF Pops
<1>3. \A i \in 1..n : AtOf(i)' = AtOf(i + 1)
  BY <1>2 DEF AtOf
<1>4. /\ AtOf(0) = applied /\ AtOf(0)' = applied' /\ AtOf(1) = f.at
      /\ applied \in Nat /\ applied' \in Nat /\ f.at \in Nat
      /\ \A i \in DOMAIN sock : sock[i].at \in Nat /\ sock[i].from \in Nat
  <2>1. f.at \in Nat /\ applied \in Nat
    BY DEF Frame, Types
  <2>2. applied' = applied \/ applied' = f.at
    BY Applies DEF Frame, Verdicts
  <2>3. \A i \in DOMAIN sock : sock[i] \in Frame
    BY DEF Types
  <2> QED
    BY <1>1, <2>1, <2>2, <2>3 DEF AtOf, Frame
<1>5. ASSUME NEW s \in 1..n, Starts(s)' PROVE Joins(s)'
  <2>1. sock'[s].t = "snapshot"
    BY <1>5, <1>2 DEF Starts
  <2>2. s + 1 \in 0..Len(sock) /\ s + 1 \in DOMAIN sock /\ sock[s + 1].t = "snapshot"
    BY <1>2, <2>1
  <2>3. Joins(s + 1)
    BY <2>2 DEF DeltasJoin, Starts
  <2>4. ASSUME NEW j \in DOMAIN sock', j > s, sock'[j].t = "delta"
        PROVE  \E i \in s..(j - 1) : sock'[j].from <= AtOf(i)'
    <3>1. j + 1 \in DOMAIN sock /\ j + 1 > s + 1 /\ sock[j + 1].t = "delta" /\ sock'[j] = sock[j + 1]
      BY <1>2, <2>4
    <3>2. PICK i \in (s + 1)..((j + 1) - 1) : sock[j + 1].from <= AtOf(i)
      BY <2>3, <3>1 DEF Joins
    <3>3. i - 1 \in s..(j - 1) /\ i - 1 \in 1..n /\ (i - 1) + 1 = i
      BY <1>2, <2>4, <3>2
    <3>4. AtOf(i - 1)' = AtOf(i)
      BY <1>3, <3>3
    <3> QED
      BY <3>1, <3>2, <3>3, <3>4
  <2>5. \E i \in s..Len(sock') : flushed' <= AtOf(i)'
    <3>1. PICK i \in (s + 1)..Len(sock) : flushed <= AtOf(i)
      BY <2>3 DEF Joins
    <3>2. i - 1 \in s..n /\ i - 1 \in 1..n /\ (i - 1) + 1 = i
      BY <1>2, <3>1
    <3>3. AtOf(i - 1)' = AtOf(i)
      BY <1>3, <3>2
    <3> QED
      BY <1>1, <1>2, <3>1, <3>2, <3>3
  <2> QED
    BY <2>4, <2>5 DEF Joins
<1>6. ASSUME Synced' PROVE \E s \in {0, 1} : Starts(s) /\ (s = 0 => applied <= applied') /\ f.at <= applied'
  <2>1. link' = "up" /\ \A i \in DOMAIN sock' : sock'[i].t # "snapshot"
    BY <1>6 DEF Synced, NoSnapshot
  <2>2. CASE f.t = "snapshot"
    <3>1. Starts(1)
      BY <1>1, <2>2 DEF Starts
    <3> QED
      BY <1>4, <2>2, <3>1, Applies
  <2>3. CASE f.t = "welcome"
    <3>1. 1 + 1 \in DOMAIN sock /\ sock[1 + 1].t = "snapshot"
      BY <1>1, <2>3 DEF Greeting, Handshake
    <3>2. 1 \in DOMAIN sock' /\ sock'[1] = sock[1 + 1]
      BY <1>2, <3>1
    <3> QED
      BY <2>1, <3>1, <3>2
  <2>4. CASE f.t \in Verdicts \cup {"delta"}
    <3>1. link = "up"
      BY <2>1, <2>4, Applies
    <3>2. \A i \in DOMAIN sock : sock[i].t # "snapshot"
      <4> SUFFICES ASSUME NEW i \in DOMAIN sock PROVE sock[i].t # "snapshot"
        OBVIOUS
      <4>1. CASE i = 1
        BY <1>1, <2>4, <4>1 DEF Verdicts
      <4>2. CASE i # 1
        <5>1. i - 1 \in 1..n /\ (i - 1) + 1 = i
          BY <1>2, <4>2
        <5> QED
          BY <1>2, <2>1, <5>1
      <4> QED
        BY <4>1, <4>2
    <3>3. Synced
      BY <3>1, <3>2 DEF Synced, NoSnapshot
    <3>4. loaded
      BY <3>3 DEF DeltasJoin
    <3>5. CASE f.t = "delta"
      <4>1. applied' = (IF f.at > applied THEN f.at ELSE applied)
        BY <3>4, <3>5, Applies
      <4>2. applied <= applied' /\ f.at <= applied'
        BY <1>4, <4>1
      <4> QED
        BY <3>3, <4>2 DEF Starts
    <3>6. CASE f.t \in Verdicts
      <4>1. applied' = applied /\ f.at = 0
        BY <3>6, Applies
      <4> QED
        BY <1>4, <3>3, <4>1 DEF Starts
    <3> QED
      BY <2>4, <3>5, <3>6
  <2> QED
    BY <2>2, <2>3, <2>4 DEF Frame
<1>7. ASSUME Starts(0)' PROVE Joins(0)'
  <2>0. Synced'
    BY <1>7, <1>2 DEF Starts
  <2>1. PICK s \in {0, 1} : Starts(s) /\ (s = 0 => applied <= applied') /\ f.at <= applied'
    BY <1>6, <2>0
  <2>2. Joins(s)
    BY <1>2, <2>1 DEF DeltasJoin
  <2>3. \A i \in s..(n + 1) : IF i <= 1 THEN AtOf(i) <= AtOf(0)' ELSE AtOf(i) = AtOf(i - 1)'
    <3> SUFFICES ASSUME NEW i \in s..(n + 1)
                 PROVE  IF i <= 1 THEN AtOf(i) <= AtOf(0)' ELSE AtOf(i) = AtOf(i - 1)'
      OBVIOUS
    <3>1. CASE i = 0
      <4>1. s = 0
        BY <2>1, <3>1
      <4> QED
        BY <1>4, <2>1, <3>1, <4>1
    <3>2. CASE i = 1
      BY <1>4, <2>1, <3>2
    <3>3. CASE i > 1
      <4>1. i - 1 \in 1..n /\ (i - 1) + 1 = i /\ ~(i <= 1)
        BY <2>1, <3>3
      <4>2. AtOf(i - 1)' = AtOf((i - 1) + 1)
        BY <1>3, <4>1
      <4> QED
        BY <4>1, <4>2
    <3> QED
      BY <2>1, <3>1, <3>2, <3>3
  <2>4. ASSUME NEW j \in DOMAIN sock', j > 0, sock'[j].t = "delta"
        PROVE  \E i \in 0..(j - 1) : sock'[j].from <= AtOf(i)'
    <3>1. j + 1 \in DOMAIN sock /\ j + 1 > s /\ sock[j + 1].t = "delta" /\ sock'[j] = sock[j + 1] /\ j \in 1..n
      BY <1>2, <2>1, <2>4
    <3>2. PICK i \in s..((j + 1) - 1) : sock[j + 1].from <= AtOf(i)
      BY <2>2, <3>1 DEF Joins
    <3>3. i \in s..(n + 1) /\ i \in Nat /\ i <= j
      BY <2>1, <3>1, <3>2
    <3>4. CASE i <= 1
      <4>1. AtOf(i) <= AtOf(0)'
        BY <2>3, <3>3, <3>4
      <4>2. AtOf(i) \in Nat /\ sock[j + 1].from \in Nat
        <5>1. i = 0 \/ i = 1
          BY <3>3, <3>4
        <5> QED
          BY <1>4, <3>1, <5>1
      <4>3. sock'[j].from <= AtOf(0)'
        BY <1>4, <3>1, <3>2, <4>1, <4>2
      <4> QED
        BY <3>1, <4>3
    <3>5. CASE ~(i <= 1)
      <4>1. AtOf(i) = AtOf(i - 1)' /\ i - 1 \in 0..(j - 1)
        BY <2>3, <3>1, <3>3, <3>5
      <4> QED
        BY <3>1, <3>2, <4>1
    <3> QED
      BY <3>4, <3>5
  <2>5. \E i \in 0..Len(sock') : flushed' <= AtOf(i)'
    <3>1. PICK i \in s..(n + 1) : flushed <= AtOf(i)
      BY <1>2, <2>2 DEF Joins
    <3>2. i \in Nat
      BY <2>1, <3>1
    <3>4. CASE i <= 1
      <4>1. AtOf(i) <= AtOf(0)' /\ (i = 0 \/ i = 1)
        BY <2>3, <3>1, <3>2, <3>4
      <4>2. AtOf(i) \in Nat /\ flushed \in Nat
        BY <1>4, <4>1 DEF Types
      <4>3. flushed <= AtOf(0)'
        BY <1>4, <3>1, <4>1, <4>2
      <4> QED
        BY <1>1, <1>2, <4>3
    <3>5. CASE ~(i <= 1)
      <4>1. AtOf(i) = AtOf(i - 1)' /\ i - 1 \in 0..n
        BY <2>1, <2>3, <3>1, <3>2, <3>5
      <4> QED
        BY <1>1, <1>2, <3>1, <4>1
    <3> QED
      BY <3>4, <3>5
  <2> QED
    BY <2>4, <2>5 DEF Joins
<1>8. ASSUME Synced' PROVE loaded'
  <2>1. PICK s \in {0, 1} : Starts(s)
    BY <1>6, <1>8
  <2>2. CASE f.t = "snapshot"
    BY <2>2, Applies
  <2>3. CASE f.t # "snapshot"
    <3>1. s = 0 /\ Synced
      BY <1>1, <1>2, <2>1, <2>3 DEF Starts
    <3>2. loaded
      BY <3>1 DEF DeltasJoin
    <3>3. loaded' = loaded
      BY <2>3, Applies DEF Frame
    <3> QED
      BY <3>2, <3>3
  <2> QED
    BY <2>2, <2>3
<1>9. \A s \in 0..n : s = 0 \/ s \in 1..n
  OBVIOUS
<1> QED
  BY <1>2, <1>5, <1>7, <1>8, <1>9

\* Every stretch of writes the coalescer sends starts where the last one, or the snapshot,
\* ended.
LEMMA DeltasStep ==
  ASSUME Types, PendingIsFate, Greeting, DeltasJoin, Stepped
  PROVE  DeltasJoin'
<1> DEFINE Goal == (\A s \in 0..Len(sock') : Starts(s)' => Joins(s)') /\ (Synced' => loaded')
<1> SUFFICES Goal
  BY BoundsStep DEF DeltasJoin
<1>1. CASE UNCHANGED <<sock, link, applied, loaded, flushed>>
  BY <1>1 DEF DeltasJoin, Starts, Synced, NoSnapshot, Joins, AtOf
<1>2. ASSUME sock' = <<>>, link' # "up" PROVE Goal
  <2>1. Len(sock') = 0 /\ DOMAIN sock' = {}
    BY <1>2
  <2>2. ~Synced'
    BY <1>2 DEF Synced
  <2>3. \A s \in 0..Len(sock') : ~Starts(s)'
    BY <2>1, <2>2 DEF Starts
  <2> QED
    BY <2>2, <2>3
<1>3. CASE Connect
  <2>1. sock' = <<>> /\ link' = "open"
    BY <1>3 DEF Connect, Greeting, Connection, wireVars
  <2> QED
    BY <1>2, <2>1
<1>4. CASE Lost
  BY <1>2, <1>4 DEF Lost
<1>5. CASE Greets
  <2>1. link' = "open" /\ flushed' = flushed
    BY <1>5 DEF Greets, tabVars
  <2>2. ~Synced'
    BY <2>1 DEF Synced
  <2>3. PICK n \in Nat : n = Len(sock) /\ DOMAIN sock = 1..n /\ DOMAIN sock' = 1..(n + 2) /\ Len(sock') = n + 2
    BY <1>5 DEF Greets
  <2>4. \A i \in 1..n : sock'[i].t # "snapshot"
    BY <1>5, <2>3 DEF Greets, Greeting, Handshake
  <2>5. sock'[n + 1].t = "welcome" /\ sock'[n + 2].at = Len(log)
    BY <1>5, <2>3 DEF Greets, To, Pixels
  <2>6. \A s \in 0..Len(sock') : Starts(s)' => s = n + 2
    <3> SUFFICES ASSUME NEW s \in 0..Len(sock'), Starts(s)' PROVE s = n + 2
      OBVIOUS
    <3>1. s \in 1..(n + 2) /\ sock'[s].t = "snapshot"
      BY <2>2, <2>3 DEF Starts
    <3>2. s \in 1..n \/ s = n + 1 \/ s = n + 2
      BY <3>1
    <3> QED
      BY <2>4, <2>5, <3>1, <3>2
  <2>7. AtOf(n + 2)' = Len(log) /\ flushed <= Len(log)
    BY <2>5 DEF AtOf, DeltasJoin, Bounds
  <2>8. Joins(n + 2)'
    BY <2>1, <2>3, <2>7 DEF Joins
  <2> QED
    BY <2>2, <2>6, <2>8
<1>6. ASSUME NEW x \in Frame, Pushes(sock, sock', x), x.t \notin {"welcome", "snapshot"},
             UNCHANGED <<link, applied, loaded>>,
             \/ x.t # "delta" /\ flushed' = flushed
             \/ x.t = "delta" /\ x.from = flushed /\ flushed' = x.at
      PROVE  Goal
  <2>1. PICK n \in Nat : n = Len(sock) /\ DOMAIN sock = 1..n /\ DOMAIN sock' = 1..(n + 1) /\ Len(sock') = n + 1
    BY <1>6 DEF Pushes
  <2>2. /\ \A i \in 1..n : sock'[i] = sock[i]
        /\ sock'[n + 1] = x
    BY <1>6, <2>1 DEF Pushes
  <2>3. \A i \in 0..n : AtOf(i)' = AtOf(i)
    BY <1>6, <2>1, <2>2 DEF AtOf
  <2>4. Synced' <=> Synced
    <3>1. \A i \in 1..(n + 1) : i \in 1..n \/ i = n + 1
      OBVIOUS
    <3>2. NoSnapshot' <=> NoSnapshot
      BY <1>6, <2>1, <2>2, <3>1 DEF NoSnapshot
    <3> QED
      BY <1>6, <3>2 DEF Synced
  <2>5. ASSUME NEW s \in 0..Len(sock'), Starts(s)' PROVE s \in 0..n /\ Starts(s)
    <3>1. s # n + 1
      <4>1. sock'[n + 1].t # "snapshot" /\ n + 1 # 0
        BY <1>6, <2>2
      <4> QED
        BY <2>5, <4>1 DEF Starts
    <3>2. s \in 0..n
      BY <2>1, <3>1
    <3> QED
      BY <2>1, <2>2, <2>4, <2>5, <3>2 DEF Starts
  <2>6. ASSUME NEW s \in 0..n, Joins(s) PROVE Joins(s)'
    <3>1. PICK k \in s..n : flushed <= AtOf(k)
      BY <2>1, <2>6 DEF Joins
    <3>2. ASSUME NEW j \in DOMAIN sock', j > s, sock'[j].t = "delta"
          PROVE  \E i \in s..(j - 1) : sock'[j].from <= AtOf(i)'
      <4>1. CASE j \in 1..n
        <5>1. PICK i \in s..(j - 1) : sock[j].from <= AtOf(i)
          BY <2>1, <2>2, <2>6, <3>2, <4>1 DEF Joins
        <5>2. i \in 0..n
          BY <4>1, <5>1
        <5> QED
          BY <2>2, <2>3, <4>1, <5>1, <5>2
      <4>2. CASE j = n + 1
        <5>1. x.t = "delta" /\ x.from = flushed
          BY <1>6, <2>2, <3>2, <4>2
        <5>2. k \in s..(j - 1) /\ k \in 0..n
          BY <3>1, <4>2
        <5>3. sock'[j].from <= AtOf(k)'
          BY <2>2, <2>3, <3>1, <4>2, <5>1, <5>2
        <5> QED
          BY <5>2, <5>3
      <4> QED
        BY <2>1, <4>1, <4>2
    <3>3. \E i \in s..Len(sock') : flushed' <= AtOf(i)'
      <4>1. CASE x.t # "delta" /\ flushed' = flushed
        <5>1. k \in s..Len(sock') /\ k \in 0..n
          BY <2>1, <3>1
        <5> QED
          BY <2>3, <3>1, <4>1, <5>1
      <4>2. CASE x.t = "delta" /\ flushed' = x.at
        <5>1. n + 1 \in s..Len(sock') /\ AtOf(n + 1)' = x.at
          BY <2>1, <2>2 DEF AtOf
        <5>2. x.at \in Nat
          BY <4>2 DEF Frame, Verdicts
        <5> QED
          BY <4>2, <5>1, <5>2
      <4> QED
        BY <1>6, <4>1, <4>2
    <3> QED
      BY <3>2, <3>3 DEF Joins
  <2>7. \A s \in 0..Len(sock') : Starts(s)' => Joins(s)'
    BY <2>1, <2>5, <2>6 DEF DeltasJoin
  <2>8. Synced' => loaded'
    BY <1>6, <2>4 DEF DeltasJoin
  <2> QED
    BY <2>7, <2>8
<1>7. ASSUME NEW op \in Ops, NEW t \in Verdicts, Pushes(sock, sock', To(t, op)),
             UNCHANGED <<link, applied, loaded, flushed>>
      PROVE  Goal
  <2>1. PICK x : x = To(t, op)
    OBVIOUS
  <2>2. x \in Frame /\ x.t = t
    BY <2>1, AnswerIsFrame
  <2>3. x.t \notin {"welcome", "snapshot"} /\ x.t # "delta"
    BY <2>2 DEF Verdicts
  <2> HIDE DEF Goal
  <2> QED
    BY <1>6, <1>7, <2>1, <2>2, <2>3
<1>8. ASSUME NEW f \in Frame, Received(f) PROVE Goal
  BY <1>8, ReceiveJoins
<1>9. CASE Sent
  <2>0. flushed' = Len(log) /\ UNCHANGED <<link, applied, loaded>>
    BY <1>9 DEF Sent, tabVars, boardVars
  <2>1. CASE link = "down"
    <3>1. sock' = <<>> /\ link' # "up"
      BY <1>9, <2>0, <2>1 DEF Sent, Greeting, Connection
    <3> QED
      BY <1>2, <3>1
  <2>2. CASE link # "down"
    <3>1. PICK x : x = Pixels("delta", flushed, Len(log))
      OBVIOUS
    <3>2. x \in Frame /\ x.t = "delta" /\ x.from = flushed /\ x.at = Len(log)
      BY <3>1, LenProperties DEF Pixels, Frame, Types
    <3>3. Pushes(sock, sock', x)
      BY <1>9, <2>2, <3>1 DEF Sent
    <3> HIDE DEF Goal
    <3> QED
      BY <1>6, <2>0, <3>2, <3>3
  <2> QED
    BY <2>1, <2>2
<1> HIDE DEF Goal
<1>10. ASSUME NEW op \in Ops, Handled(op) PROVE Goal
  <2>1. UNCHANGED <<link, applied, loaded, flushed>>
    BY <1>10 DEF Handled, tabVars, boardVars
  <2>2. UNCHANGED sock \/ \E t \in Verdicts : Pushes(sock, sock', To(t, op))
    BY <1>10 DEF Handled, Verdicts
  <2> QED
    BY <1>1, <1>7, <2>1, <2>2
<1>11. ASSUME NEW d \in detours, Resolved(d) PROVE Goal
  <2>1. UNCHANGED <<link, applied, loaded, flushed>> /\ d.op \in Ops
    BY <1>11 DEF Resolved, tabVars, boardVars, Call
  <2>2. UNCHANGED sock \/ \E t \in Verdicts : Pushes(sock, sock', To(t, d.op))
    BY <1>11 DEF Resolved, Verdicts
  <2> QED
    BY <1>1, <1>7, <2>1, <2>2
<1>12. ASSUME NEW c \in Call, Ran(c) PROVE Goal
  <2>1. UNCHANGED <<link, applied, loaded, flushed>> /\ c.op \in Ops
    BY <1>12 DEF Ran, tabVars, boardVars, Call
  <2>2. UNCHANGED sock \/ \E t \in Verdicts : Pushes(sock, sock', To(t, c.op))
    BY <1>12 DEF Ran, Verdicts
  <2> QED
    BY <1>1, <1>7, <2>1, <2>2
<1>13. CASE WrittenByOthers
  BY <1>1, <1>13 DEF WrittenByOthers, gatewayVars, wireVars, tabVars, boardVars
<1>14. ASSUME NEW op \in Ops, Tapped(op) PROVE Goal
  BY <1>1, <1>14 DEF Tapped, gatewayVars
<1>15. CASE UNCHANGED <<redisVars, gatewayVars, wireVars, tabVars, verdictVars>>
  BY <1>1, <1>15 DEF gatewayVars, wireVars, tabVars, boardVars
<1> QED
  BY <1>3, <1>4, <1>5, <1>8, <1>9, <1>10, <1>11, <1>12, <1>13, <1>14, <1>15 DEF Stepped

-----------------------------------------------------------------------------
(***************************************************************************)
(* The verdict and the board.                                              *)
(***************************************************************************)

\* Nothing is taken out of the log.
LEMMA LogKeeps ==
  ASSUME Types, Stepped
  PROVE  /\ \A k \in DOMAIN log : k \in DOMAIN log' /\ log'[k] = log[k]
         /\ UNCHANGED log \/ \E w : Pushes(log, log', w)
<1>1. CASE UNCHANGED log
  BY <1>1
<1>2. CASE WrittenByOthers
  BY <1>2 DEF WrittenByOthers, Pushes
<1>3. CASE \E c \in Call : Ran(c)
  BY <1>1, <1>3 DEF Ran, Accepts, Pushes
<1>4. CASE Connect \/ Lost \/ Greets \/ Sent
  BY <1>1, <1>4 DEF Connect, Lost, Greets, Sent, redisVars
<1>5. CASE \E op \in Ops : Tapped(op) \/ Handled(op)
  BY <1>1, <1>5 DEF Tapped, Handled, redisVars
<1>6. CASE \E f \in Frame : Received(f)
  BY <1>1, <1>6 DEF Received, redisVars
<1>7. CASE \E d \in detours : Resolved(d)
  BY <1>1, <1>7 DEF Resolved, redisVars
<1>8. CASE UNCHANGED <<redisVars, gatewayVars, wireVars, tabVars, verdictVars>>
  BY <1>1, <1>8 DEF redisVars
<1> QED
  BY <1>2, <1>3, <1>4, <1>5, <1>6, <1>7, <1>8 DEF Stepped

\* Only the script acks.
LEMMA OnlyTheScriptAcks ==
  ASSUME Types, Stepped, NEW x \in Frame, Pushes(sock, sock', x), x.t = "ack"
  PROVE  \E c \in Call : Ran(c) /\ c.live /\ x.op = c.op /\ Pushes(sock, sock', To("ack", c.op))
<1>1. Len(sock') = Len(sock) + 1 /\ Len(sock) \in Nat /\ sock'[Len(sock) + 1] = x
  BY DEF Pushes
<1>2. ~Greets /\ \A f \in Frame : ~Received(f)
  BY <1>1 DEF Greets, Received, Pops
<1>3. ~Lost
  <2>1. sock' = <<>> => Len(sock') = 0
    BY EmptySeq
  <2> QED
    BY <1>1, <2>1 DEF Lost
<1>4. sock' # sock
  BY <1>1
<1>5. ~Sent
  BY <1>1, <1>4 DEF Sent, Pushes, Pixels
<1>6. ASSUME NEW op, Handled(op) PROVE FALSE
  BY <1>1, <1>4, <1>6 DEF Handled, Pushes, To
<1>7. ASSUME NEW d, Resolved(d) PROVE FALSE
  BY <1>1, <1>4, <1>7 DEF Resolved, Pushes, To
<1>8. ~WrittenByOthers /\ ~Connect /\ \A op : ~Tapped(op)
  BY <1>4 DEF WrittenByOthers, Connect, Tapped, wireVars
<1>9. ~UNCHANGED <<redisVars, gatewayVars, wireVars, tabVars, verdictVars>>
  BY <1>4 DEF wireVars
<1>10. PICK c \in Call : Ran(c)
  BY <1>2, <1>3, <1>5, <1>6, <1>7, <1>8, <1>9 DEF Stepped
<1>11. c.live
  BY <1>4, <1>10 DEF Ran
<1>12. PICK t \in {"ack", "refused", "cooldown"} : Pushes(sock, sock', To(t, c.op))
  BY <1>10, <1>11 DEF Ran
<1>13. x = To(t, c.op)
  BY <1>1, <1>12 DEF Pushes
<1>14. t = "ack" /\ x.op = c.op
  BY <1>13 DEF To
<1> QED
  BY <1>10, <1>11, <1>12, <1>14

\* The script acks an op before anyone can send the write on, and the socket keeps them in
\* this order.
LEMMA AcksStep ==
  ASSUME Types, PendingIsFate, Claimed, IdleLeavesNoTrace, SentOnce, Greeting, DeltasJoin,
         AcksComeFirst, PlacingAssumption, Stepped
  PROVE  AcksComeFirst'
<1> SUFFICES ASSUME NEW i \in DOMAIN sock', NEW f, f = sock'[i],
                    f.t = "ack", f.op \notin resent', fate'[f.op] = "pending"
             PROVE  \E k \in DOMAIN log' : log'[k] = f.op /\ Precedes(i, k)'
  BY DEF AcksComeFirst
<1>0. sock' \in Seq(Frame) /\ DOMAIN sock' = 1..Len(sock') /\ Len(sock') \in Nat /\ i \in Nat
  <2>1. sock' \in Seq(Frame)
    BY TypesStep DEF Types
  <2> QED
    BY <2>1, LenProperties
<1>1. f \in Frame /\ f.op \in Ops /\ f.op \notin resent
  <2>1. f \in Frame
    BY <1>0
  <2> QED
    BY <2>1, FateMoves DEF Frame, Verdicts
<1>2. ASSUME NEW j \in DOMAIN sock, sock[j] = f
      PROVE  \E k \in DOMAIN log : log[k] = f.op /\ Precedes(j, k)
  <2>1. Answered(f.op)
    BY <1>2 DEF Answered
  <2>2. fate[f.op] = "pending"
    <3>1. ~Tapped(f.op)
      BY <1>1, <2>1 DEF Tapped, IdleLeavesNoTrace
    <3> QED
      BY <1>1, <3>1, FateMoves
  <2> QED
    BY <1>1, <1>2, <2>2 DEF AcksComeFirst
<1>3. ASSUME NEW j \in DOMAIN sock, sock[j] = f, i = j, applied' = applied,
             \A m \in 1..(i - 1) : sock'[m] = sock[m]
      PROVE  \E k \in DOMAIN log' : log'[k] = f.op /\ Precedes(i, k)'
  <2>1. PICK k \in DOMAIN log : log[k] = f.op /\ Precedes(j, k)
    BY <1>2, <1>3
  <2>2. k \in DOMAIN log' /\ log'[k] = f.op
    BY <2>1, LogKeeps
  <2>3. Precedes(i, k)'
    BY <1>3, <2>1 DEF Precedes
  <2> QED
    BY <2>2, <2>3
<1>4. CASE UNCHANGED sock /\ applied' = applied
  BY <1>3, <1>4
<1>5. ASSUME NEW x \in Frame, Pushes(sock, sock', x), applied' = applied
      PROVE  \E k \in DOMAIN log' : log'[k] = f.op /\ Precedes(i, k)'
  <2>1. CASE i \in DOMAIN sock
    <3>1. sock[i] = f /\ \A m \in 1..(i - 1) : sock'[m] = sock[m]
      BY <1>5, <2>1 DEF Pushes
    <3> QED
      BY <1>3, <1>5, <2>1, <3>1
  <2>2. CASE i \notin DOMAIN sock
    <3>1. i = Len(sock) + 1 /\ f = x /\ \A m \in 1..(i - 1) : m \in DOMAIN sock /\ sock'[m] = sock[m]
      BY <1>5, <2>2 DEF Pushes
    <3>2. PICK c \in Call : Ran(c) /\ c.live /\ x.op = c.op /\ Pushes(sock, sock', To("ack", c.op))
      BY <1>5, <3>1, OnlyTheScriptAcks
    <3>3. c.op \notin resent /\ c.op \in Ops /\ Called(c.op)
      BY <1>1, <3>1, <3>2 DEF Ran, Called
    <3>4. ~Written(c.op)
      BY <3>3 DEF SentOnce, Single, Underway
    <3>5. ~(claim[c.op] > now)
      BY <3>3, <3>4 DEF Claimed, Types
    <3>6. Accepts(c.op)
      <4>1. PICK t \in {"ack", "refused", "cooldown"} :
              /\ Pushes(sock, sock', To(t, c.op))
              /\ t = "ack" => Accepts(c.op) \/ (claim[c.op] > now /\ UNCHANGED log)
        BY <3>2 DEF Ran
      <4>2. t = "ack"
        BY <3>2, <4>1 DEF Pushes, To
      <4> QED
        BY <3>5, <4>1, <4>2
    <3>7. /\ Len(log) + 1 \in DOMAIN log' /\ log'[Len(log) + 1] = c.op
          /\ Len(log) \in Nat
      BY <3>6 DEF Accepts, Pushes
    <3>8. \E k : k = Len(log) + 1 /\ Precedes(i, k)'
      <4>1. applied' < Len(log) + 1
        BY <1>5, <3>7 DEF DeltasJoin, Bounds, Types
      <4>2. \A m \in 1..(i - 1) : sock'[m].at < Len(log) + 1
        <5>1. \A m \in DOMAIN sock : sock[m].at <= Len(log) /\ sock[m].at \in Nat
          <6>1. \A m \in DOMAIN sock : sock[m] \in Frame
            BY DEF Types
          <6> QED
            BY <6>1 DEF DeltasJoin, Bounds, Frame
        <5> QED
          BY <3>1, <3>7, <5>1
      <4>3. PICK k : k = Len(log) + 1
        OBVIOUS
      <4>4. Precedes(i, k)'
        BY <4>1, <4>2, <4>3 DEF Precedes
      <4> QED
        BY <4>3, <4>4
    <3> QED
      BY <3>1, <3>2, <3>7, <3>8
  <2> QED
    BY <2>1, <2>2
<1>6. ASSUME NEW g \in Frame, Received(g)
      PROVE  \E k \in DOMAIN log' : log'[k] = f.op /\ Precedes(i, k)'
  <2>1. i + 1 \in DOMAIN sock /\ sock[i + 1] = f /\ i >= 1 /\ Pops(sock, sock') /\ g = sock[1]
    BY <1>6 DEF Received, Pops
  <2>2. PICK k \in DOMAIN log : log[k] = f.op /\ Precedes(i + 1, k)
    BY <1>2, <2>1
  <2>3. k \in DOMAIN log' /\ log'[k] = f.op
    BY <2>2, LogKeeps
  <2>4. applied < k /\ \A m \in 1..i : sock[m].at < k
    <3>1. (i + 1) - 1 = i
      BY <1>0
    <3> QED
      BY <2>2, <3>1 DEF Precedes
  <2>5. applied' < k
    <3>1. applied' = applied \/ applied' = g.at
      BY <1>6, Applies DEF Frame
    <3>2. g.at < k
      BY <1>0, <2>1, <2>4
    <3> QED
      BY <2>4, <3>1, <3>2
  <2>6. \A m \in 1..(i - 1) : sock'[m].at < k
    <3>1. \A m \in 1..(i - 1) : m + 1 \in 1..i /\ sock'[m] = sock[m + 1]
      BY <1>0, <2>1 DEF Pops
    <3> QED
      BY <2>4, <3>1
  <2>7. Precedes(i, k)'
    BY <2>5, <2>6 DEF Precedes
  <2> QED
    BY <2>3, <2>7
<1>7. ~Lost
  <2>1. sock' = <<>> => Len(sock') = 0
    BY EmptySeq
  <2> QED
    BY <1>0, <2>1 DEF Lost
<1>8. CASE Greets
  <2>1. applied' = applied
    BY <1>8 DEF Greets, tabVars, boardVars
  <2>2. PICK n \in Nat : /\ n = Len(sock) /\ DOMAIN sock = 1..n /\ DOMAIN sock' = 1..(n + 2)
                         /\ \A m \in 1..n : sock'[m] = sock[m]
    BY <1>8 DEF Greets
  <2>3. sock'[n + 1].t = "welcome" /\ sock'[n + 2].t = "snapshot"
    BY <1>8, <2>2 DEF Greets, To, Pixels
  <2>4. i \in 1..n
    <3>1. i \in 1..n \/ i = n + 1 \/ i = n + 2
      BY <2>2
    <3> QED
      BY <2>3, <3>1
  <2>5. sock[i] = f /\ \A m \in 1..(i - 1) : sock'[m] = sock[m]
    BY <2>2, <2>4
  <2> QED
    BY <1>3, <2>1, <2>2, <2>4, <2>5
<1>9. ASSUME ~(\E g \in Frame : Received(g)) PROVE applied' = applied
  <2>1. ASSUME WrittenByOthers \/ Connect \/ Lost \/ Greets \/ Sent PROVE applied' = applied
    BY <2>1 DEF WrittenByOthers, Connect, Lost, Greets, Sent, tabVars, boardVars
  <2>2. ASSUME \E op \in Ops : Tapped(op) \/ Handled(op) PROVE applied' = applied
    BY <2>2 DEF Tapped, Handled, tabVars, boardVars
  <2>3. ASSUME (\E d \in detours : Resolved(d)) \/ (\E c \in Call : Ran(c)) PROVE applied' = applied
    BY <2>3 DEF Resolved, Ran, tabVars, boardVars
  <2>4. ASSUME UNCHANGED <<redisVars, gatewayVars, wireVars, tabVars, verdictVars>> PROVE applied' = applied
    BY <2>4 DEF tabVars, boardVars
  <2> QED
    BY <1>9, <2>1, <2>2, <2>3, <2>4 DEF Stepped
<1> QED
  BY <1>4, <1>5, <1>6, <1>7, <1>8, <1>9, FramesMove DEF Frames

\* Placed counts what Written tells.
Places(s, x) == Cardinality({i \in DOMAIN s : s[i] = x})
Holds(s, x) == \E i \in DOMAIN s : s[i] = x

\* A count of places is zero just when there is none.
LEMMA PlacesCounts ==
  ASSUME NEW S, NEW s \in Seq(S), NEW x
  PROVE  Places(s, x) \in Nat /\ (Places(s, x) > 0 <=> Holds(s, x))
<1> DEFINE T == {i \in DOMAIN s : s[i] = x}
<1>1. DOMAIN s = 1..Len(s) /\ Len(s) \in Nat
  BY LenProperties
<1>2. IsFiniteSet(1..Len(s))
  BY <1>1, FS_Interval
<1>3. T \subseteq 1..Len(s)
  BY <1>1
<1>4. IsFiniteSet(T)
  BY <1>2, <1>3, FS_Subset
<1>5. Places(s, x) = Cardinality(T)
  BY DEF Places
<1>6. Holds(s, x) <=> T # {}
  BY DEF Holds
<1> HIDE DEF T
<1>7. Cardinality(T) \in Nat
  BY <1>4, FS_CardinalityType
<1>8. Cardinality(T) = 0 <=> T = {}
  BY <1>4, FS_EmptySet
<1> QED
  BY <1>5, <1>6, <1>7, <1>8

\* Placed is above zero just when the op was written.
LEMMA PlacedIsWritten ==
  ASSUME NEW op
  PROVE  /\ Types => (Placed(op) \in Nat /\ (Placed(op) > 0 <=> Written(op)))
         /\ Types' => (Placed(op)' \in Nat /\ (Placed(op)' > 0 <=> Written(op)'))
<1>1. Placed(op) = Places(log, op) /\ (Written(op) <=> Holds(log, op))
  BY DEF Placed, Places, Written, Holds
<1>2. Placed(op)' = Places(log', op) /\ (Written(op)' <=> Holds(log', op))
  BY DEF Placed, Places, Written, Holds
<1>3. Types => log \in Seq(Writer)
  BY DEF Types
<1>4. Types' => log' \in Seq(Writer)
  BY DEF Types
<1> QED
  BY <1>1, <1>2, <1>3, <1>4, PlacesCounts

\* What was sound stays sound as long as the board does not move past it.
LEMMA SoundStays ==
  ASSUME Types, PendingIsFate, DeltasJoin, PlacingAssumption, Stepped, NEW paint,
         \/ paint \in Replayed
         \/ \E n \in 0..Len(log) : applied' <= n /\ paint = Cell(n)
  PROVE  Sound(paint)'
<1>1. Types'
  BY TypesStep
<1>2. CASE paint \in Replayed
  <2>1. paint \in resent /\ fate[paint] = "kept" /\ Written(paint) /\ paint \in Ops
    BY <1>2, PlacedIsWritten DEF Replayed, Types
  <2>2. paint \in resent' /\ fate'[paint] = "kept"
    BY <2>1, FateMoves
  <2>3. Written(paint)'
    BY <2>1, WrittenStep
  <2>4. (Placed(paint) > 0)'
    BY <1>1, <2>3, PlacedIsWritten
  <2> QED
    BY <2>2, <2>4 DEF Sound, Replayed
<1>3. ASSUME NEW n \in 0..Len(log), applied' <= n, paint = Cell(n) PROVE Sound(paint)'
  <2>1. Cell(n)' = Cell(n)
    <3>1. CASE UNCHANGED log
      BY <3>1 DEF Cell, Ink
    <3>2. CASE \E w : Pushes(log, log', w)
      BY <3>2, CellStays
    <3> QED
      BY <3>1, <3>2, LogKeeps
  <2>2. applied' \in Nat
    BY <1>1 DEF Types
  <2>3. n \in applied'..Len(log')
    BY <1>3, <2>2, LogGrows
  <2> QED
    BY <1>3, <2>1, <2>3 DEF Sound
<1> QED
  BY <1>2, <1>3

\* Without overlap a verdict empties the map.
LEMMA LastOneGoes ==
  ASSUME Types, PendingIsFate, ~overlapped, NEW op, NEW v, Dropped(op, v)
  PROVE  /\ pending' = <<>> /\ pending # <<>> /\ pending[1] = op /\ op \in Ops
<1>1. op \in Ops /\ pending' \in Seq(Ops) /\ Removed(op)
  BY DEF Dropped
<1>2. pending' = <<>> /\ Len(pending) \in Nat
  BY <1>1, RemovedIs
<1>3. PICK k \in DOMAIN pending : pending[k] = op
  BY <1>1 DEF Removed
<1>4. DOMAIN pending = 1..Len(pending) /\ Len(pending) <= 1
  BY LenProperties DEF Types, PendingIsFate
<1>5. k = 1
  BY <1>2, <1>3, <1>4
<1> QED
  BY <1>1, <1>2, <1>3, <1>5

\* A frame of the board repaints the one pending pixel over the new base.
LEMMA ShowRepaints ==
  ASSUME Types, PendingIsFate, ~overlapped, NEW f \in Frame, NEW base, Repaint(base), pending' = pending
  PROVE  /\ Under' = base
         /\ pending # <<>> => shown' = pending[1]
<1>1. Len(pending) \in Nat /\ DOMAIN pending = 1..Len(pending) /\ Len(pending) <= 1
  BY LenProperties DEF Types, PendingIsFate
<1>2. CASE pending = <<>>
  BY <1>2 DEF Repaint, Under
<1>3. CASE pending # <<>>
  <2>1. Len(pending) = 1 /\ 1 \in DOMAIN pending /\ pending[1] \in Ops
    <3>1. Len(pending) # 0
      BY <1>3, EmptySeq DEF Types
    <3>2. Len(pending) = 1
      BY <1>1, <3>1
    <3>3. pending \in Seq(Ops)
      BY DEF Types
    <3>4. 1 \in DOMAIN pending /\ pending[1] = Head(pending) /\ Head(pending) \in Ops
      BY <1>3, <3>3, TailPops
    <3> QED
      BY <3>2, <3>4
  <2>2. shown' = pending[1]
    BY <1>3, <2>1 DEF Repaint
  <2> DEFINE j == CHOOSE m \in DOMAIN pending : pending[m] = pending[1]
  <2>3. j \in DOMAIN pending
    BY <2>1
  <2>4. j = 1
    BY <1>1, <2>1, <2>3
  <2>5. prev'[pending[1]] = IF j = 1 THEN base ELSE pending[j - 1]
    BY <2>1 DEF Repaint
  <2> HIDE DEF j
  <2>6. Under' = base
    BY <1>3, <2>4, <2>5 DEF Under
  <2> QED
    BY <2>2, <2>6
<1> QED
  BY <1>2, <1>3

\* The one pending pixel is what the board shows: a tap paints it, and every frame that
\* touches the board paints it again.
LEMMA PaintedStep ==
  ASSUME Types, PendingIsFate, Painted, Stepped
  PROVE  Painted'
<1>1. CASE UNCHANGED <<loaded, overlapped, pending, shown>>
  BY <1>1 DEF Painted
<1>2. ASSUME NEW op \in Ops, Tapped(op) PROVE Painted'
  <2>1. Pushes(pending, pending', op) /\ shown' = (IF loaded THEN op ELSE shown) /\ loaded' = loaded
        /\ overlapped' = (overlapped \/ pending # <<>>)
    BY <1>2 DEF Tapped
  <2>2. ~overlapped' => pending'[1] = op
    <3>1. ~overlapped' => pending = <<>>
      BY <2>1, Zenon
    <3>2. pending = <<>> => Len(pending) = 0
      BY EmptySeq
    <3>3. pending'[Len(pending) + 1] = op
      BY <2>1 DEF Pushes
    <3> QED
      BY <3>1, <3>2, <3>3
  <2> QED
    BY <2>1, <2>2 DEF Painted
<1>3. ASSUME NEW f \in Frame, Received(f) PROVE Painted'
  <2>0. overlapped' = overlapped
    BY <1>3 DEF Received
  <2>1. CASE f.t \in Verdicts
    <3>1. Settled(f) /\ loaded' = loaded
      BY <1>3, <2>1 DEF Received, Verdicts
    <3>2. CASE UNCHANGED <<pending, shown>>
      BY <2>0, <3>1, <3>2 DEF Painted
    <3>3. ASSUME NEW op, NEW v, Dropped(op, v) PROVE Painted'
      <4>1. overlapped \/ pending' = <<>>
        BY <3>3, LastOneGoes
      <4> QED
        BY <2>0, <4>1 DEF Painted
    <3> QED
      BY <3>1, <3>2, <3>3 DEF Settled
  <2>2. CASE f.t \in {"snapshot", "delta"}
    <3>1. Show(f) /\ pending' = pending
      BY <1>3, <2>2 DEF Received, Verdicts
    <3>2. CASE ~loaded'
      BY <3>2 DEF Painted
    <3>3. CASE loaded'
      <4>1. PICK base : Repaint(base)
        BY <3>1, <3>3 DEF Show
      <4>2. ~overlapped /\ pending # <<>> => shown' = pending[1]
        BY <3>1, <4>1, ShowRepaints
      <4> QED
        BY <2>0, <3>1, <4>2 DEF Painted
    <3> QED
      BY <3>2, <3>3
  <2>3. CASE f.t = "welcome"
    <3>1. UNCHANGED <<pending, shown, loaded>>
      BY <1>3, <2>3 DEF Received, Verdicts
    <3> QED
      BY <2>0, <3>1 DEF Painted
  <2> QED
    BY <2>1, <2>2, <2>3 DEF Frame
<1>4. CASE WrittenByOthers \/ Connect \/ Lost \/ Greets \/ Sent
  BY <1>1, <1>4 DEF WrittenByOthers, Connect, Lost, Greets, Sent, tabVars, boardVars
<1>5. CASE \E op \in Ops : Handled(op)
  BY <1>1, <1>5 DEF Handled, tabVars, boardVars
<1>6. CASE (\E d \in detours : Resolved(d)) \/ (\E c \in Call : Ran(c))
  BY <1>1, <1>6 DEF Resolved, Ran, tabVars, boardVars
<1>7. CASE UNCHANGED <<redisVars, gatewayVars, wireVars, tabVars, verdictVars>>
  BY <1>1, <1>7 DEF tabVars, boardVars
<1> QED
  BY <1>2, <1>3, <1>4, <1>5, <1>6, <1>7 DEF Stepped

\* What a frame, or its verdict, leaves under the pending pixel.
LEMMA ReceiveIsSound ==
  ASSUME Types, PendingIsFate, AnswersAreTrue, Greeting, DeltasJoin, AcksComeFirst, BoardIsSound, Painted,
         PlacingAssumption, Stepped, NEW f \in Frame, Received(f),
         Synced', ~smudged', ~overlapped'
  PROVE  Sound(Under)'
<1>0. /\ ~overlapped /\ f = sock[1] /\ 1 \in DOMAIN sock /\ Pops(sock, sock') /\ UNCHANGED log
      /\ link' = "up"
  BY DEF Received, redisVars, Synced
<1>1. f.t # "welcome"
  <2>1. ASSUME f.t = "welcome" PROVE FALSE
    <3>1. 1 + 1 \in DOMAIN sock /\ sock[1 + 1].t = "snapshot"
      BY <1>0, <2>1 DEF Greeting, Handshake
    <3>2. 1 \in DOMAIN sock' /\ sock'[1] = sock[1 + 1]
      BY <1>0, <3>1 DEF Pops
    <3> QED
      BY <3>1, <3>2 DEF Synced, NoSnapshot
  <2> QED
    BY <2>1
<1>2. link = "up"
  BY <1>0, <1>1, Applies DEF Frame
<1>3. f.t # "snapshot" => Synced
  <2> SUFFICES ASSUME f.t # "snapshot", NEW i \in DOMAIN sock PROVE sock[i].t # "snapshot"
    BY <1>2 DEF Synced, NoSnapshot
  <2>1. i = 1 \/ (i - 1 \in DOMAIN sock' /\ sock'[i - 1] = sock[i])
    BY <1>0 DEF Pops
  <2> QED
    BY <1>0, <2>1 DEF Synced, NoSnapshot
<1>4. ASSUME NEW p, \/ p \in Replayed
                    \/ \E n \in 0..Len(log) : applied' <= n /\ p = Cell(n)
      PROVE  Sound(p)'
  BY <1>4, SoundStays
<1>5. ASSUME NEW p, Sound(p), applied' = applied PROVE Sound(p)'
  <2>1. p \in Replayed \/ \E n \in 0..Len(log) : applied' <= n /\ p = Cell(n)
    BY <1>5 DEF Sound, Types
  <2> QED
    BY <1>4, <2>1
<1>6. ASSUME NEW p, p = Under', Sound(p)' PROVE Sound(Under)'
  BY <1>6 DEF Sound
<1>7. ~smudged
  <2>1. CASE f.t \in {"snapshot", "delta"}
    <3>1. Show(f)
      BY <2>1 DEF Received, Verdicts
    <3> QED
      BY <3>1 DEF Show
  <2>2. CASE f.t \in Verdicts
    BY <2>2 DEF Received, Verdicts
  <2> QED
    BY <1>1, <2>1, <2>2 DEF Frame
<1>8. CASE f.t \in Verdicts
  <2>0. UNCHANGED <<applied, loaded>> /\ Settled(f) /\ resent' = resent
    BY <1>8 DEF Received, Verdicts
  <2>1. Synced /\ loaded /\ Sound(Under)
    <3>1. Synced
      BY <1>3, <1>8 DEF Verdicts
    <3> QED
      BY <1>0, <1>7, <3>1 DEF BoardIsSound, DeltasJoin
  <2>2. CASE UNCHANGED <<pending, shown, prev>>
    <3>1. Under' = Under
      BY <2>2 DEF Under
    <3>2. PICK p : p = Under
      OBVIOUS
    <3> QED
      BY <1>5, <1>6, <2>0, <2>1, <3>1, <3>2
  <2>3. ASSUME NEW op, Dropped(op, "kept"), f.t = "ack", op = f.op PROVE Sound(Under)'
    <3>1. pending' = <<>> /\ pending # <<>> /\ pending[1] = op /\ op \in Ops
      BY <1>0, <2>3, LastOneGoes
    <3>2. shown = op
      BY <1>0, <2>1, <3>1 DEF Painted
    <3>3. Under' = op
      BY <2>3, <3>1, <3>2 DEF Under, Dropped
    <3>4. CASE op \in resent
      <4>1. Written(op)
        BY <1>0, <2>3 DEF AnswersAreTrue, IsTrue
      <4>2. Written(op)' /\ op \in resent'
        BY <2>0, <3>1, <3>4, <4>1, WrittenStep
      <4>3. fate'[op] = "kept"
        BY <2>3, <3>1 DEF Dropped, Types
      <4>4. Placed(op)' > 0
        BY <4>2, TypesStep, PlacedIsWritten
      <4>5. Sound(op)'
        BY <4>2, <4>3, <4>4 DEF Sound, Replayed
      <4> QED
        BY <1>6, <3>3, <4>5
    <3>5. CASE op \notin resent
      <4>1. fate[op] = "pending"
        BY <2>3 DEF Dropped
      <4>2. PICK k \in DOMAIN log : log[k] = op /\ applied < k
        BY <1>0, <2>3, <3>5, <4>1 DEF AcksComeFirst, Precedes
      <4>3. op # "elsewhere"
        BY <3>1, PlacingAssumption DEF PlacingAssumption
      <4>4. Cell(k) = op
        BY <4>2, <4>3, WriteShows
      <4>5. k \in 0..Len(log) /\ applied' <= k
        <5>1. k \in Nat /\ k <= Len(log) /\ applied \in Nat
          BY <4>2, LenProperties DEF Types
        <5>2. Len(log) \in Nat
          BY LenProperties DEF Types
        <5> QED
          BY <2>0, <4>2, <5>1, <5>2
      <4>6. Sound(op)'
        BY <1>4, <4>4, <4>5
      <4> QED
        BY <1>6, <3>3, <4>6
    <3> QED
      BY <3>4, <3>5
  <2>4. ASSUME NEW op, Dropped(op, "reverted") PROVE Sound(Under)'
    <3>1. pending' = <<>> /\ pending # <<>> /\ pending[1] = op
      BY <1>0, <2>4, LastOneGoes
    <3>2. Under' = prev[op] /\ Under = prev[op]
      BY <2>1, <2>4, <3>1 DEF Under, Dropped
    <3>3. PICK p : p = Under
      OBVIOUS
    <3> QED
      BY <1>5, <1>6, <2>0, <2>1, <3>2, <3>3
  <2> QED
    BY <2>0, <2>2, <2>3, <2>4 DEF Settled
<1>9. CASE f.t = "snapshot"
  <2>1. Show(f) /\ pending' = pending
    BY <1>9 DEF Received, Verdicts
  <2>2. f.from = 0 /\ f.at \in Nat /\ f.at <= Len(log)
    BY <1>0, <1>9 DEF Greeting, Handshake, DeltasJoin, Bounds, Frame, Verdicts
  <2>3. applied' = f.at /\ loaded'
    BY <1>9, Applies
  <2>4. Repaint(Cell(f.at))
    BY <1>9, <2>1, <2>2, <2>3 DEF Show, Cell
  <2>5. Under' = Cell(f.at)
    BY <1>0, <2>1, <2>4, ShowRepaints
  <2>6. PICK p : p = Cell(f.at)
    OBVIOUS
  <2>7. Sound(p)'
    <3>1. f.at \in 0..Len(log) /\ applied' <= f.at
      BY <2>2, <2>3, LenProperties DEF Types
    <3> QED
      BY <1>4, <2>6, <3>1
  <2> QED
    BY <1>6, <2>5, <2>6, <2>7
<1>10. CASE f.t = "delta"
  <2>1. Show(f) /\ pending' = pending
    BY <1>10 DEF Received, Verdicts
  <2>2. f.from \in Nat /\ f.at \in Nat /\ f.from <= f.at /\ f.at <= Len(log) /\ applied \in Nat /\ Len(log) \in Nat
    BY <1>0, <1>10, LenProperties DEF DeltasJoin, Bounds, Frame, Verdicts, Types
  <2>3. Synced /\ loaded /\ Sound(Under)
    <3>1. Synced
      BY <1>3, <1>10
    <3> QED
      BY <1>0, <1>7, <3>1 DEF BoardIsSound, DeltasJoin
  <2>4. loaded' /\ applied' = IF f.at > applied THEN f.at ELSE applied
    BY <1>10, <2>3, Applies
  <2> DEFINE ink == IF f.at > applied THEN Ink(f.from, f.at) ELSE "none"
             base == IF ink # "none" THEN ink ELSE shown
  <2>5. /\ Repaint(base)
        /\ smudged' = (smudged \/ (pending # <<>> /\ ink = "none"))
    BY <1>10, <2>1, <2>3, <2>4 DEF Show
  <2>6. Under' = base
    BY <1>0, <2>1, <2>5, ShowRepaints
  <2>7. CASE ink # "none"
    <3>1. f.at > applied /\ ink = Ink(f.from, f.at) /\ base = Ink(f.from, f.at)
      BY <2>7
    <3>2. Cell(f.at) = Ink(f.from, f.at)
      BY <2>2, <2>7, <3>1, InkDecides
    <3>3. f.at \in 0..Len(log) /\ applied' <= f.at
      BY <2>2, <2>4, <3>1
    <3>4. PICK p : p = base
      OBVIOUS
    <3>5. Sound(p)'
      BY <1>4, <3>1, <3>2, <3>3, <3>4
    <3> QED
      BY <1>6, <2>6, <3>4, <3>5
  <2>8. CASE ink = "none"
    <3>1. pending = <<>> /\ base = shown /\ Under = shown
      <4>1. pending = <<>>
        BY <2>5, <2>8, Zenon
      <4> QED
        BY <2>8, <4>1 DEF Under
    <3>2. PICK p : p = Under
      OBVIOUS
    <3>3. CASE f.at > applied
      <4>1. applied' = f.at /\ Ink(f.from, f.at) = "none"
        BY <2>4, <2>8, <3>3
      <4>2. \A n \in f.from..f.at : Cell(n) = Cell(f.at)
        BY <2>2, <4>1, InkDecides
      <4>3. f.from <= applied
        <5>1. 0 \in 0..Len(sock) /\ Starts(0)
          BY <2>3, LenProperties DEF Starts, Types
        <5>2. Joins(0)
          BY <5>1 DEF DeltasJoin
        <5>3. PICK i \in 0..(1 - 1) : sock[1].from <= AtOf(i)
          BY <1>0, <1>10, <5>2 DEF Joins
        <5>4. i = 0
          BY <5>3
        <5> QED
          BY <1>0, <5>3, <5>4 DEF AtOf
      <4>4. CASE p \in Replayed
        BY <1>4, <1>6, <2>6, <3>1, <3>2, <4>4
      <4>5. ASSUME NEW n \in applied..Len(log), p = Cell(n) PROVE Sound(Under)'
        <5>1. \E m \in 0..Len(log) : applied' <= m /\ p = Cell(m)
          <6>1. CASE n >= f.at
            BY <2>2, <4>1, <4>5, <6>1
          <6>2. CASE n < f.at
            <7>1. n \in f.from..f.at
              BY <2>2, <4>3, <4>5, <6>2
            <7>2. p = Cell(f.at) /\ f.at \in 0..Len(log) /\ applied' <= f.at
              BY <2>2, <4>1, <4>2, <4>5, <7>1
            <7> QED
              BY <7>2
          <6> QED
            BY <2>2, <4>5, <6>1, <6>2
        <5>2. Sound(p)'
          BY <1>4, <5>1
        <5> QED
          BY <1>6, <2>6, <3>1, <3>2, <5>2
      <4> QED
        BY <2>3, <3>2, <4>4, <4>5 DEF Sound
    <3>4. CASE ~(f.at > applied)
      <4>1. applied' = applied
        BY <2>4, <3>4
      <4>2. Sound(p)'
        BY <1>5, <2>3, <3>2, <4>1
      <4> QED
        BY <1>6, <2>6, <3>1, <3>2, <4>2
    <3> QED
      BY <3>3, <3>4
  <2> QED
    BY <2>7, <2>8
<1> QED
  BY <1>1, <1>8, <1>9, <1>10 DEF Frame

\* The board's pixel under the pending one is sound.
LEMMA BoardStep ==
  ASSUME Types, PendingIsFate, AnswersAreTrue, Greeting, DeltasJoin, AcksComeFirst, BoardIsSound, Painted,
         PlacingAssumption, Stepped
  PROVE  BoardIsSound'
<1> SUFFICES ASSUME Synced', ~smudged', ~overlapped' PROVE Sound(Under)'
  BY DEF BoardIsSound
<1>1. CASE \E f \in Frame : Received(f)
  BY <1>1, ReceiveIsSound
<1>2. CASE ~\E f \in Frame : Received(f)
  <2>0. link' = "up" /\ \A i \in DOMAIN sock' : sock'[i].t # "snapshot"
    BY DEF Synced, NoSnapshot
  <2>1. ~Connect /\ ~Lost /\ ~Greets
    BY <2>0 DEF Connect, Lost, Greets, tabVars
  <2>2. \A i \in DOMAIN sock : i \in DOMAIN sock' /\ sock'[i] = sock[i]
    BY <1>2, <2>1, FramesMove DEF Frames, Pushes
  <2>3. ASSUME link' = link, UNCHANGED <<applied, smudged>>, Under' = Under, ~overlapped
        PROVE  Sound(Under)'
    <3>1. Synced
      BY <2>0, <2>2, <2>3 DEF Synced, NoSnapshot
    <3>2. Sound(Under)
      BY <2>3, <3>1 DEF BoardIsSound
    <3>3. PICK p : p = Under
      OBVIOUS
    <3>4. p \in Replayed \/ \E n \in 0..Len(log) : applied' <= n /\ p = Cell(n)
      BY <2>3, <3>2, <3>3 DEF Sound, Types
    <3>5. Sound(p)'
      BY <3>4, SoundStays
    <3> QED
      BY <2>3, <3>3, <3>5 DEF Sound
  <2>4. ASSUME UNCHANGED <<link, applied, smudged, overlapped, pending, shown, prev>> PROVE Sound(Under)'
    BY <2>3, <2>4 DEF Under
  <2>5. ASSUME NEW op \in Ops, Tapped(op) PROVE Sound(Under)'
    <3>1. /\ UNCHANGED <<link, applied, smudged>>
          /\ overlapped' = (overlapped \/ pending # <<>>)
          /\ prev' = [prev EXCEPT ![op] = shown] /\ Pushes(pending, pending', op)
      BY <2>5 DEF Tapped
    <3>2. ~overlapped /\ pending = <<>>
      BY <3>1, Zenon
    <3>3. pending' # <<>> /\ pending'[1] = op
      <4>1. Len(pending) = 0 /\ Len(pending') = 1
        BY <3>1, <3>2, EmptySeq DEF Pushes
      <4>2. pending' # <<>>
        BY <4>1, EmptySeq
      <4> QED
        BY <3>1, <4>1, <4>2 DEF Pushes
    <3>4. prev'[op] = shown
      BY <3>1 DEF Types
    <3>5. Under' = Under
      BY <3>2, <3>3, <3>4 DEF Under
    <3> QED
      BY <2>3, <3>1, <3>2, <3>5
  <2>6. CASE WrittenByOthers \/ Sent
    BY <2>4, <2>6 DEF WrittenByOthers, Sent, tabVars, boardVars
  <2>7. CASE \E op \in Ops : Handled(op)
    BY <2>4, <2>7 DEF Handled, tabVars, boardVars
  <2>8. CASE (\E d \in detours : Resolved(d)) \/ (\E c \in Call : Ran(c))
    BY <2>4, <2>8 DEF Resolved, Ran, tabVars, boardVars
  <2>9. CASE UNCHANGED <<redisVars, gatewayVars, wireVars, tabVars, verdictVars>>
    BY <2>4, <2>9 DEF tabVars, boardVars
  <2> QED
    BY <1>2, <2>1, <2>5, <2>6, <2>7, <2>8, <2>9 DEF Stepped
<1> QED
  BY <1>1, <1>2

-----------------------------------------------------------------------------
(***************************************************************************)
(* As long as no refusal is misdirected, verdicts reach the op they are    *)
(* about.                                                                  *)
(***************************************************************************)

\* No op is older than itself, and none is older than the first.
LEMMA OldestFirst ==
  ASSUME Types, PendingIsFate
  PROVE  /\ \A x : ~Older(x, x)
         /\ \A x : ~Older(x, pending[1])
<1>1. DOMAIN pending = 1..Len(pending) /\ Len(pending) \in Nat
  BY LenProperties DEF Types
<1> QED
  BY <1>1 DEF PendingIsFate, Older, OlderIn

\* A refusal that names no op rolls back the oldest, and that is the op it is about
\* (CanvasNetClient: errors without a cid).
LEMMA VerdictHits ==
  ASSUME Types, PendingIsFate, Orderly, NEW f \in Frame, Received(f), f.t \in Verdicts
  PROVE  /\ f.t # "stray" /\ link = "up" /\ f.op \in Ops
         /\ f.t = "ack" => Dropped(f.op, "kept")
         /\ f.t # "ack" => Dropped(f.op, "reverted")
<1>1. f = sock[1] /\ 1 \in DOMAIN sock /\ Settled(f) /\ f.op \in Ops
  BY DEF Received, Verdicts, Frame
<1>2. Settles(1) /\ f.t # "stray"
  BY <1>1 DEF Settles, Orderly, Undisturbed
<1>3. link = "up" /\ fate[f.op] = "pending"
  BY <1>1, <1>2 DEF Orderly, Silent, AllPending
<1>4. PICK m \in DOMAIN pending : pending[m] = f.op
  BY <1>1, <1>3 DEF PendingIsFate
<1>5. pending # <<>> /\ 1 \in DOMAIN pending /\ pending[1] \in Ops
  <2>1. pending # <<>> /\ pending \in Seq(Ops)
    BY <1>4 DEF Types
  <2> QED
    BY <2>1, TailPops
<1>6. f.t = "cooldown" => f.op = pending[1]
  <2> SUFFICES ASSUME f.t = "cooldown", f.op # pending[1] PROVE FALSE
    OBVIOUS
  <2>1. ToOldest(1)
    BY <1>1 DEF ToOldest
  <2>2. Awaited(pending[1])
    BY <1>3, <1>5 DEF Orderly, NoneLost, PendingIsFate
  <2>3. ~Older(f.op, pending[1])
    BY OldestFirst
  <2>4. CASE \E i \in DOMAIN toGw : toGw[i] = pending[1]
    BY <1>1, <2>1, <2>3, <2>4 DEF Orderly, InOrder
  <2>5. CASE \E i \in DOMAIN calls : calls[i].live /\ calls[i].op = pending[1]
    BY <1>1, <2>1, <2>3, <2>5 DEF Orderly, InOrder
  <2>6. CASE \E i \in DOMAIN sock : Settles(i) /\ sock[i].op = pending[1]
    <3>1. PICK i \in DOMAIN sock : Settles(i) /\ sock[i].op = pending[1]
      BY <2>6
    <3>2. 1 < i
      <4>1. i # 1
        BY <1>1, <3>1
      <4>2. i \in Nat /\ i >= 1
        BY LenProperties DEF Types
      <4> QED
        BY <4>1, <4>2
    <3> QED
      BY <1>1, <2>1, <2>3, <3>1, <3>2 DEF Orderly, InOrder
  <2> QED
    BY <2>2, <2>4, <2>5, <2>6 DEF Awaited
<1> QED
  BY <1>1, <1>2, <1>3, <1>5, <1>6 DEF Settled, Verdicts

\* Once refused an op is not heard of again.
LEMMA UnderwayMoves ==
  ASSUME Types, PendingIsFate, PlacingAssumption, Stepped, NEW op \in Ops, op \notin resent',
         Underway(op)', ~Tapped(op)
  PROVE  Underway(op)
<1> USE DEF AtGateway, Detoured, Called, Underway
<1>1. CASE UNCHANGED <<toGw, detours, calls>>
  BY <1>1
<1>2. CASE WrittenByOthers \/ Connect \/ Greets \/ Sent
  BY <1>1, <1>2 DEF WrittenByOthers, Connect, Greets, Sent, gatewayVars, wireVars
<1>3. ASSUME NEW x \in Ops, Tapped(x) PROVE Underway(op)
  <2>1. UNCHANGED <<detours, calls>> /\ Pushes(toGw, toGw', x) /\ op # x
    BY <1>3 DEF Tapped, gatewayVars
  <2>2. AtGateway(op)' => AtGateway(op)
    BY <2>1 DEF Pushes
  <2> QED
    BY <2>1, <2>2
<1>4. ASSUME NEW f \in Frame, Received(f) PROVE Underway(op)
  <2>1. UNCHANGED <<detours, calls>>
    BY <1>4 DEF Received, gatewayVars
  <2>2. AtGateway(op)' => AtGateway(op)
    <3>1. CASE UNCHANGED toGw
      BY <3>1
    <3>2. CASE f.t = "welcome"
      BY <1>4, <3>2, WelcomeJoins
    <3> QED
      BY <1>4, <3>1, <3>2 DEF Received
  <2> QED
    BY <2>1, <2>2
<1>5. CASE Lost
  <2>1. ~AtGateway(op)' /\ (Called(op)' <=> Called(op)) /\ (Detoured(op)' => Detoured(op))
    BY <1>5, LostKeeps
  <2> QED
    BY <2>1
<1>6. ASSUME NEW x \in Ops, Handled(x) PROVE Underway(op)
  <2>1. Pops(toGw, toGw') /\ AtGateway(x)
    BY <1>6 DEF Handled
  <2>2. AtGateway(op)' => AtGateway(op)
    BY <2>1 DEF Pops
  <2>3. Called(op)' => Called(op) \/ op = x
    BY <1>6 DEF Handled, Pushes
  <2>4. Detoured(op)' => Detoured(op) \/ op = x
    BY <1>6 DEF Handled
  <2> QED
    BY <2>1, <2>2, <2>3, <2>4
<1>7. ASSUME NEW d \in detours, Resolved(d) PROVE Underway(op)
  <2>1. UNCHANGED toGw /\ Detoured(d.op)
    BY <1>7 DEF Resolved
  <2>2. Detoured(op)' => Detoured(op)
    BY <1>7 DEF Resolved
  <2>3. Called(op)' => Called(op) \/ op = d.op
    BY <1>7 DEF Resolved, Pushes
  <2> QED
    BY <2>1, <2>2, <2>3
<1>8. ASSUME NEW c \in Call, Ran(c) PROVE Underway(op)
  <2>1. UNCHANGED <<toGw, detours>> /\ Pops(calls, calls')
    BY <1>8 DEF Ran
  <2>2. Called(op)' => Called(op)
    BY <2>1 DEF Pops
  <2> QED
    BY <2>1, <2>2
<1>9. CASE UNCHANGED <<redisVars, gatewayVars, wireVars, tabVars, verdictVars>>
  BY <1>1, <1>9 DEF gatewayVars, wireVars
<1> QED
  BY <1>2, <1>3, <1>4, <1>5, <1>6, <1>7, <1>8, <1>9 DEF Stepped

\* A pixel the tab takes back is not on the canvas and will not be.
LEMMA RevertsStep ==
  ASSUME Types, PendingIsFate, SentOnce, AnswersAreTrue, Orderly, RevertsHold, PlacingAssumption, Stepped
  PROVE  RevertsHold'
<1> SUFFICES ASSUME NEW op \in Ops, fate'[op] = "reverted", op \notin resent', op \notin failed'
             PROVE  ~Written(op)' /\ ~Underway(op)'
  BY DEF RevertsHold
<1>0. op \notin resent /\ op \notin failed
  BY FateMoves
<1>1. ~Tapped(op)
  BY DEF Tapped, Types
<1>2. ASSUME ~Written(op), ~Underway(op) PROVE ~Written(op)' /\ ~Underway(op)'
  <2>1. ~Underway(op)'
    BY <1>1, <1>2, UnderwayMoves
  <2>2. ASSUME Written(op)' PROVE FALSE
    <3>1. PICK c \in Call : Ran(c) /\ c.op = op
      BY <1>2, <2>2, WrittenStep
    <3>2. Underway(op)
      BY <3>1 DEF Ran, Underway, Called
    <3> QED
      BY <1>2, <3>2
  <2> QED
    BY <2>1, <2>2
<1>3. CASE fate[op] = "reverted"
  BY <1>0, <1>2, <1>3 DEF RevertsHold
<1>4. CASE fate[op] # "reverted"
  <2>0. fate[op] # "idle"
    <3>1. fate[op] = "idle" => fate'[op] \in {"idle", "pending"}
      <4> SUFFICES ASSUME fate[op] = "idle", fate'[op] # "idle" PROVE fate'[op] = "pending"
        OBVIOUS
      <4>1. ASSUME NEW f \in Frame, Received(f) PROVE FALSE
        <5>1. CASE f.t \in Verdicts
          <6>1. \E v : Dropped(f.op, v)
            BY <4>1, <5>1, VerdictHits
          <6> QED
            BY <6>1 DEF Dropped, Types
        <5>2. CASE f.t \notin Verdicts
          BY <4>1, <5>2 DEF Received
        <5> QED
          BY <5>1, <5>2
      <4>2. ASSUME NEW x \in Ops, Tapped(x) PROVE fate'[op] = "pending"
        BY <4>2 DEF Tapped, Types
      <4>3. ASSUME WrittenByOthers \/ Connect \/ Lost \/ Greets \/ Sent PROVE fate' = fate
        BY <4>3 DEF WrittenByOthers, Connect, Lost, Greets, Sent, tabVars
      <4>4. ASSUME (\E x \in Ops : Handled(x)) \/ (\E d \in detours : Resolved(d)) \/ (\E c \in Call : Ran(c))
            PROVE fate' = fate
        BY <4>4 DEF Handled, Resolved, Ran, tabVars
      <4>5. ASSUME UNCHANGED <<redisVars, gatewayVars, wireVars, tabVars, verdictVars>> PROVE fate' = fate
        BY <4>5 DEF tabVars
      <4> QED
        BY <4>1, <4>2, <4>3, <4>4, <4>5 DEF Stepped
    <3> QED
      BY <3>1
  <2>1. PICK f \in Frame : Received(f) /\ f.t \in Verdicts
    BY <1>4, <2>0, FateMoves
  <2>2. f = sock[1] /\ 1 \in DOMAIN sock /\ f.t # "stray" /\ f.op \in Ops
        /\ (f.t = "ack" => Dropped(f.op, "kept")) /\ (f.t # "ack" => Dropped(f.op, "reverted"))
    <3>1. f = sock[1] /\ 1 \in DOMAIN sock
      BY <2>1 DEF Received
    <3> QED
      BY <2>1, <3>1, VerdictHits
  <2>3. f.op = op /\ f.t # "ack"
    BY <1>4, <2>2 DEF Dropped, Types
  <2>4. Answered(op)
    BY <2>2, <2>3 DEF Answered
  <2>5. ~Underway(op)
    BY <1>0, <2>4 DEF SentOnce, Single
  <2>6. ~Written(op)
    <3>1. IsTrue(f)
      BY <2>2 DEF AnswersAreTrue
    <3> QED
      BY <1>0, <2>1, <2>2, <2>3, <3>1 DEF IsTrue, Verdicts
  <2> QED
    BY <1>2, <2>5, <2>6
<1> QED
  BY <1>3, <1>4

\* A board frame, a write of others or nothing: the verdicts to come stay as they are.
LEMMA OrderlyRests ==
  ASSUME Types, Orderly, UNCHANGED <<detours, toGw, calls, pending, fate, link>>,
         \A i \in DOMAIN sock : i \in DOMAIN sock' /\ sock'[i] = sock[i],
         \A i \in DOMAIN sock' : i \in DOMAIN sock \/ sock'[i].t \notin Verdicts
  PROVE  Orderly'
<1>1. \A i \in DOMAIN sock' : Settles(i)' => i \in DOMAIN sock /\ Settles(i) /\ sock'[i] = sock[i]
  BY DEF Settles
<1>2. \A i \in DOMAIN sock' : ToOldest(i)' => i \in DOMAIN sock /\ ToOldest(i) /\ sock'[i] = sock[i]
  BY DEF ToOldest, Verdicts
<1>3. \A x, y : Older(x, y)' <=> Older(x, y)
  BY DEF Older, OlderIn
<1>4. Undisturbed'
  BY DEF Orderly, Undisturbed, Verdicts
<1>5. Silent'
  BY <1>1 DEF Orderly, Silent
<1>6. AllPending'
  BY <1>1 DEF Orderly, AllPending
<1>7. NoneLost'
  <2>1. \A op \in Ops : Awaited(op) => Awaited(op)'
    BY DEF Awaited, Settles
  <2> QED
    BY <2>1 DEF Orderly, NoneLost
<1>8. Distinct'
  BY <1>1 DEF Orderly, Distinct
<1>9. InOrder'
  BY <1>1, <1>2, <1>3 DEF Orderly, InOrder
<1> QED
  BY <1>4, <1>5, <1>6, <1>7, <1>8, <1>9 DEF Orderly

\* A renewed connection resends what is pending, oldest first, with nothing else underway.
LEMMA OrderlyOnWelcome ==
  ASSUME Types, PendingIsFate, Greeting, Orderly, NEW f \in Frame, Received(f), f.t = "welcome"
  PROVE  Orderly'
<1>1. /\ f = sock[1] /\ 1 \in DOMAIN sock /\ Pops(sock, sock')
      /\ link' = "up" /\ toGw' = toGw \o (IF known THEN pending ELSE <<>>)
      /\ UNCHANGED <<pending, fate, calls, detours>>
  BY DEF Received, gatewayVars, Verdicts
<1>2. link = "open"
  BY <1>1 DEF Greeting, Handshake
<1>3. toGw = <<>> /\ (\A i \in DOMAIN calls : ~calls[i].live) /\ (\A i \in DOMAIN sock : ~Settles(i))
  BY <1>2 DEF Orderly, Silent
<1>4. toGw' = pending
  <2>1. (IF known THEN pending ELSE <<>>) = pending
    BY DEF Greeting, Connection
  <2>2. <<>> \o pending = pending
    BY ConcatEmptySeq DEF Types
  <2> QED
    BY <1>1, <1>3, <2>1, <2>2
<1>5. \A i \in DOMAIN sock' : i + 1 \in DOMAIN sock /\ sock'[i] = sock[i + 1]
  BY <1>1 DEF Pops
<1>6. \A i \in DOMAIN sock' : ~Settles(i)' /\ ~ToOldest(i)'
  BY <1>3, <1>5 DEF Settles, ToOldest, Verdicts
<1>7. Undisturbed'
  BY <1>1, <1>5 DEF Orderly, Undisturbed
<1>8. Silent'
  BY <1>1 DEF Silent
<1>9. AllPending'
  BY <1>1, <1>3, <1>4, <1>6 DEF AllPending, PendingIsFate
<1>10. NoneLost'
  BY <1>1, <1>4 DEF NoneLost, Awaited, PendingIsFate
<1>11. Distinct'
  BY <1>1, <1>3, <1>6 DEF Distinct
<1>12. InOrder'
  BY <1>1, <1>3, <1>4, <1>6 DEF InOrder, Older, OlderIn
<1> QED
  BY <1>7, <1>8, <1>9, <1>10, <1>11, <1>12 DEF Orderly

\* A verdict takes its op off the map, and no message of that op is left.
LEMMA OrderlyOnVerdict ==
  ASSUME Types, PendingIsFate, Orderly, NEW f \in Frame, Received(f), f.t \in Verdicts
  PROVE  Orderly'
<1>1. /\ f = sock[1] /\ 1 \in DOMAIN sock /\ Pops(sock, sock')
      /\ UNCHANGED <<link, toGw, calls, detours>>
  BY DEF Received, gatewayVars, Verdicts
<1>2. link = "up" /\ f.op \in Ops /\ \E v \in {"kept", "reverted"} : Dropped(f.op, v)
  BY VerdictHits
<1>3. PICK v \in {"kept", "reverted"} : Dropped(f.op, v)
  BY <1>2
<1>4. pending' \in Seq(Ops) /\ Removed(f.op) /\ \A x \in Ops : x # f.op => fate'[x] = fate[x]
  BY <1>3 DEF Dropped, Types
<1>5. fate'[f.op] = v
  BY <1>2, <1>3 DEF Dropped, Types
<1>6. \A x, y : x # f.op /\ y # f.op /\ Older(x, y) => Older(x, y)'
  BY <1>2, <1>4, RemovedIs
<1>7. Settles(1)
  BY <1>1 DEF Settles
<1>8. /\ \A i \in DOMAIN sock' : i \in Nat /\ i + 1 \in DOMAIN sock /\ sock'[i] = sock[i + 1]
      /\ \A i \in DOMAIN sock : i # 1 => i - 1 \in DOMAIN sock' /\ sock'[i - 1] = sock[i]
      /\ \A i \in DOMAIN sock' : (Settles(i)' <=> Settles(i + 1)) /\ (ToOldest(i)' <=> ToOldest(i + 1))
  BY <1>1 DEF Pops, Settles, ToOldest
<1>9. /\ \A i \in DOMAIN sock' : Settles(i)' => sock'[i].op # f.op /\ sock'[i].op \in Ops
      /\ \A i \in DOMAIN calls : calls[i].live => calls[i].op # f.op
      /\ \A i \in DOMAIN toGw : toGw[i] # f.op
  <2>1. \A i \in DOMAIN sock' : Settles(i)' => sock'[i].op # f.op
    <3> SUFFICES ASSUME NEW i \in DOMAIN sock', Settles(i)', sock'[i].op = f.op PROVE FALSE
      OBVIOUS
    <3>1. i + 1 = 1 /\ i \in Nat /\ i >= 1
      BY <1>1, <1>7, <1>8 DEF Orderly, Distinct, Pops
    <3> QED
      BY <3>1
  <2>2. \A i \in DOMAIN sock' : Settles(i)' => sock'[i].op \in Ops
    <3>1. \A i \in DOMAIN sock : sock[i] \in Frame
      BY DEF Types
    <3>2. \A g \in Frame : g.t \in Verdicts => g.op \in Ops
      BY DEF Frame, Verdicts
    <3> QED
      BY <1>8, <3>1, <3>2 DEF Settles
  <2> QED
    BY <1>1, <1>7, <2>1, <2>2 DEF Orderly, Distinct
<1>10. /\ \A i \in DOMAIN calls : calls[i].op \in Ops
       /\ \A i \in DOMAIN toGw : toGw[i] \in Ops
  <2>1. \A i \in DOMAIN calls : calls[i] \in Call
    BY DEF Types
  <2>2. \A c \in Call : c.op \in Ops
    BY DEF Call
  <2>3. \A i \in DOMAIN toGw : toGw[i] \in Ops
    BY DEF Types
  <2> QED
    BY <2>1, <2>2, <2>3
<1>11. Undisturbed'
  BY <1>1, <1>8 DEF Orderly, Undisturbed
<1>12. Silent'
  BY <1>1, <1>2 DEF Silent
<1>13. AllPending'
  BY <1>1, <1>4, <1>8, <1>9, <1>10 DEF Orderly, AllPending
<1>14. NoneLost'
  <2> SUFFICES ASSUME NEW op \in Ops, fate'[op] = "pending" PROVE Awaited(op)'
    BY DEF NoneLost
  <2>1. op # f.op
    BY <1>5
  <2>2. Awaited(op)
    BY <1>2, <1>4, <2>1 DEF Orderly, NoneLost
  <2>3. CASE \E i \in DOMAIN sock : Settles(i) /\ sock[i].op = op
    <3>1. PICK i \in DOMAIN sock : Settles(i) /\ sock[i].op = op
      BY <2>3
    <3>2. i - 1 \in DOMAIN sock' /\ sock'[i - 1] = sock[i]
      BY <1>1, <1>8, <2>1, <3>1
    <3>3. PICK m : m = i - 1
      OBVIOUS
    <3>4. m \in DOMAIN sock' /\ Settles(m)' /\ sock'[m].op = op
      BY <3>1, <3>2, <3>3 DEF Settles
    <3> QED
      BY <3>4 DEF Awaited
  <2> QED
    BY <1>1, <2>2, <2>3 DEF Awaited
<1>15. Distinct'
  <2>1. \A i, j \in DOMAIN sock' : Settles(i)' /\ Settles(j)' /\ sock'[i].op = sock'[j].op => i = j
    <3>1. \A i, j \in DOMAIN sock' : Settles(i)' /\ Settles(j)' /\ sock'[i].op = sock'[j].op => i + 1 = j + 1
      BY <1>8 DEF Orderly, Distinct
    <3> QED
      BY <1>8, <3>1
  <2> QED
    BY <1>1, <1>8, <2>1 DEF Orderly, Distinct
<1>16. InOrder'
  <2> DEFINE After(x, y) == OlderIn(pending', x, y)
  <2>0. /\ \A x, y : x # f.op /\ y # f.op /\ Older(x, y) => After(x, y)
        /\ \A i \in DOMAIN sock' : ToOldest(i)' => Settles(i)'
    BY <1>6 DEF Older, ToOldest, Settles, Verdicts
  <2> HIDE DEF After
  <2>1. \A i, j \in DOMAIN sock' : ToOldest(i)' /\ Settles(j)' /\ i < j => After(sock'[i].op, sock'[j].op)
    <3> SUFFICES ASSUME NEW i \in DOMAIN sock', NEW j \in DOMAIN sock', ToOldest(i)', Settles(j)', i < j
                 PROVE  After(sock'[i].op, sock'[j].op)
      OBVIOUS
    <3>1. i + 1 < j + 1
      BY <1>8
    <3>2. Older(sock[i + 1].op, sock[j + 1].op)
      BY <1>8, <3>1 DEF Orderly, InOrder
    <3> QED
      BY <1>8, <1>9, <2>0, <3>2
  <2>2. \A i \in DOMAIN sock', j \in DOMAIN calls : ToOldest(i)' /\ calls[j].live => After(sock'[i].op, calls[j].op)
    <3> SUFFICES ASSUME NEW i \in DOMAIN sock', NEW j \in DOMAIN calls, ToOldest(i)', calls[j].live
                 PROVE  After(sock'[i].op, calls[j].op)
      OBVIOUS
    <3>1. Older(sock[i + 1].op, calls[j].op)
      BY <1>8 DEF Orderly, InOrder
    <3> QED
      BY <1>8, <1>9, <2>0, <3>1
  <2>3. \A i \in DOMAIN sock', j \in DOMAIN toGw : ToOldest(i)' => After(sock'[i].op, toGw[j])
    <3> SUFFICES ASSUME NEW i \in DOMAIN sock', NEW j \in DOMAIN toGw, ToOldest(i)'
                 PROVE  After(sock'[i].op, toGw[j])
      OBVIOUS
    <3>1. Older(sock[i + 1].op, toGw[j])
      BY <1>8 DEF Orderly, InOrder
    <3> QED
      BY <1>8, <1>9, <2>0, <3>1
  <2>4. \A i, j \in DOMAIN calls : calls[i].live /\ calls[j].live /\ i < j => After(calls[i].op, calls[j].op)
    BY <1>9, <2>0 DEF Orderly, InOrder
  <2>5. \A i \in DOMAIN calls, j \in DOMAIN toGw : calls[i].live => After(calls[i].op, toGw[j])
    BY <1>9, <2>0 DEF Orderly, InOrder
  <2>6. \A i, j \in DOMAIN toGw : i < j => After(toGw[i], toGw[j])
    BY <1>9, <2>0 DEF Orderly, InOrder
  <2> QED
    BY <1>1, <2>1, <2>2, <2>3, <2>4, <2>5, <2>6 DEF InOrder, Older, After
<1> QED
  BY <1>11, <1>12, <1>13, <1>14, <1>15, <1>16 DEF Orderly

\* A tap joins the end of every queue.
LEMMA OrderlyOnTap ==
  ASSUME Types, PendingIsFate, Orderly, NEW op \in Ops, Tapped(op), link = "up"
  PROVE  Orderly'
<1>1. /\ fate[op] = "idle" /\ fate' = [fate EXCEPT ![op] = "pending"]
      /\ Pushes(pending, pending', op) /\ Pushes(toGw, toGw', op)
      /\ UNCHANGED <<sock, calls, detours, link>>
  BY DEF Tapped, gatewayVars
<1>2. \A x \in Ops : fate'[x] = IF x = op THEN "pending" ELSE fate[x]
  BY <1>1 DEF Types
<1>3. /\ \A i \in DOMAIN toGw : toGw[i] \in Ops /\ toGw[i] # op /\ fate[toGw[i]] = "pending"
      /\ \A i \in DOMAIN calls : calls[i].live =>
           calls[i].op \in Ops /\ calls[i].op # op /\ fate[calls[i].op] = "pending"
      /\ \A i \in DOMAIN sock : Settles(i) =>
           sock[i].op \in Ops /\ sock[i].op # op /\ fate[sock[i].op] = "pending"
  <2>1. \A i \in DOMAIN toGw : toGw[i] \in Ops
    BY DEF Types
  <2>2. \A i \in DOMAIN calls : calls[i].op \in Ops
    <3>1. \A i \in DOMAIN calls : calls[i] \in Call
      BY DEF Types
    <3>2. \A c \in Call : c.op \in Ops
      BY DEF Call
    <3> QED
      BY <3>1, <3>2
  <2>3. \A i \in DOMAIN sock : Settles(i) => sock[i].op \in Ops
    <3>1. \A i \in DOMAIN sock : sock[i] \in Frame
      BY DEF Types
    <3>2. \A g \in Frame : g.t \in Verdicts => g.op \in Ops
      BY DEF Frame, Verdicts
    <3> QED
      BY <3>1, <3>2 DEF Settles
  <2>4. \A x : fate[x] = "pending" => x # op
    BY <1>1
  <2> QED
    BY <2>1, <2>2, <2>3, <2>4 DEF Orderly, AllPending
<1>4. \A i \in DOMAIN toGw' : (i \in DOMAIN toGw /\ toGw'[i] = toGw[i]) \/ (i = Len(toGw) + 1 /\ toGw'[i] = op)
  BY <1>1 DEF Pushes
<1>5. \A i \in DOMAIN toGw : i \in DOMAIN toGw' /\ toGw'[i] = toGw[i] /\ i \in Nat /\ i < Len(toGw) + 1
  BY <1>1 DEF Pushes
<1>6. Undisturbed'
  BY <1>1 DEF Orderly, Undisturbed
<1>7. Silent'
  BY <1>1 DEF Silent
<1>8. AllPending'
  <2>1. \A i \in DOMAIN toGw' : fate'[toGw'[i]] = "pending"
    BY <1>2, <1>3, <1>4
  <2>2. \A i \in DOMAIN calls : calls[i].live => fate'[calls[i].op] = "pending"
    BY <1>2, <1>3
  <2>3. \A i \in DOMAIN sock : Settles(i) => fate'[sock[i].op] = "pending"
    BY <1>2, <1>3
  <2> QED
    BY <1>1, <2>1, <2>2, <2>3 DEF AllPending, Settles
<1>9. NoneLost'
  <2> SUFFICES ASSUME NEW x \in Ops, fate'[x] = "pending" PROVE Awaited(x)'
    BY DEF NoneLost
  <2>1. CASE x = op
    <3>1. Len(toGw) + 1 \in DOMAIN toGw' /\ toGw'[Len(toGw) + 1] = op
      BY <1>1 DEF Pushes
    <3> QED
      BY <2>1, <3>1 DEF Awaited
  <2>2. CASE x # op
    <3>1. Awaited(x)
      BY <1>2, <2>2 DEF Orderly, NoneLost
    <3> QED
      BY <1>1, <1>5, <3>1 DEF Awaited, Settles
  <2> QED
    BY <2>1, <2>2
<1>10. Distinct'
  <2>1. \A i \in DOMAIN sock, j \in DOMAIN toGw' : Settles(i) => sock[i].op # toGw'[j]
    BY <1>3, <1>4 DEF Orderly, Distinct
  <2> QED
    BY <1>1, <2>1 DEF Orderly, Distinct, Settles
<1>11. InOrder'
  <2> DEFINE After(x, y) == OlderIn(pending', x, y)
  <2>1. \A x, y : Older(x, y) => After(x, y)
    <3> SUFFICES ASSUME NEW x, NEW y, Older(x, y) PROVE After(x, y)
      OBVIOUS
    <3>1. PICK i, j \in DOMAIN pending : i < j /\ pending[i] = x /\ pending[j] = y
      BY DEF Older, OlderIn
    <3>2. i \in DOMAIN pending' /\ j \in DOMAIN pending' /\ pending'[i] = x /\ pending'[j] = y
      BY <1>1, <3>1 DEF Pushes
    <3> QED
      BY <3>1, <3>2 DEF OlderIn
  <2>2. \A x \in Ops : fate[x] = "pending" => After(x, op)
    <3> SUFFICES ASSUME NEW x \in Ops, fate[x] = "pending" PROVE After(x, op)
      OBVIOUS
    <3>1. PICK i \in DOMAIN pending : pending[i] = x
      BY DEF PendingIsFate
    <3>2. /\ i \in DOMAIN pending' /\ pending'[i] = x /\ i < Len(pending) + 1
          /\ Len(pending) + 1 \in DOMAIN pending' /\ pending'[Len(pending) + 1] = op
      BY <1>1, <3>1 DEF Pushes
    <3> QED
      BY <3>2 DEF OlderIn
  <2> HIDE DEF After
  <2>3. \A i, j \in DOMAIN sock : ToOldest(i) /\ Settles(j) /\ i < j => After(sock[i].op, sock[j].op)
    BY <2>1 DEF Orderly, InOrder
  <2>4. \A i \in DOMAIN sock, j \in DOMAIN calls : ToOldest(i) /\ calls[j].live => After(sock[i].op, calls[j].op)
    BY <2>1 DEF Orderly, InOrder
  <2>5. \A i \in DOMAIN sock, j \in DOMAIN toGw' : ToOldest(i) => After(sock[i].op, toGw'[j])
    <3>1. \A i \in DOMAIN sock : ToOldest(i) => Settles(i)
      BY DEF ToOldest, Settles, Verdicts
    <3> QED
      BY <1>3, <1>4, <2>1, <2>2, <3>1 DEF Orderly, InOrder
  <2>6. \A i, j \in DOMAIN calls : calls[i].live /\ calls[j].live /\ i < j => After(calls[i].op, calls[j].op)
    BY <2>1 DEF Orderly, InOrder
  <2>7. \A i \in DOMAIN calls, j \in DOMAIN toGw' : calls[i].live => After(calls[i].op, toGw'[j])
    BY <1>3, <1>4, <2>1, <2>2 DEF Orderly, InOrder
  <2>8. \A i, j \in DOMAIN toGw' : i < j => After(toGw'[i], toGw'[j])
    <3> SUFFICES ASSUME NEW i \in DOMAIN toGw', NEW j \in DOMAIN toGw', i < j PROVE After(toGw'[i], toGw'[j])
      OBVIOUS
    <3>1. i \in DOMAIN toGw /\ toGw'[i] = toGw[i]
      BY <1>1 DEF Pushes
    <3>2. CASE j \in DOMAIN toGw /\ toGw'[j] = toGw[j]
      BY <2>1, <3>1, <3>2 DEF Orderly, InOrder
    <3>3. CASE toGw'[j] = op
      BY <1>3, <2>2, <3>1, <3>3
    <3> QED
      BY <1>4, <3>2, <3>3
  <2> QED
    BY <1>1, <2>3, <2>4, <2>5, <2>6, <2>7, <2>8 DEF InOrder, Older, After, ToOldest, Settles
<1> QED
  BY <1>6, <1>7, <1>8, <1>9, <1>10, <1>11 DEF Orderly

\* The handler takes the next message to the script, or refuses it under its id.
LEMMA OrderlyOnHandle ==
  ASSUME Types, PendingIsFate, Orderly, NEW op \in Ops, Handled(op), strays' = strays
  PROVE  Orderly'
<1>1. /\ op = toGw[1] /\ 1 \in DOMAIN toGw /\ Pops(toGw, toGw')
      /\ UNCHANGED <<pending, fate, link>>
      /\ \/ Pushes(calls, calls', [op |-> op, live |-> TRUE]) /\ UNCHANGED <<detours, sock>>
         \/ Pushes(sock, sock', To("refused", op)) /\ UNCHANGED <<detours, calls>>
  <2>1. strays + 1 # strays
    BY DEF Types
  <2> QED
    BY <2>1 DEF Handled, tabVars
<1>2. link = "up" /\ fate[op] = "pending"
  <2>1. toGw # <<>>
    BY <1>1
  <2> QED
    BY <1>1, <2>1 DEF Orderly, Silent, AllPending
<1>3. /\ \A i \in DOMAIN toGw' : i \in Nat /\ i + 1 \in DOMAIN toGw /\ toGw'[i] = toGw[i + 1] /\ 1 < i + 1
      /\ \A i \in DOMAIN toGw : i = 1 \/ (i - 1 \in DOMAIN toGw' /\ toGw'[i - 1] = toGw[i])
  BY <1>1 DEF Pops
<1>4. /\ \A x : ~Older(x, x)
      /\ \A j \in DOMAIN toGw' : Older(op, toGw'[j]) /\ op # toGw'[j]
      /\ \A i \in DOMAIN calls : calls[i].live => Older(calls[i].op, op) /\ calls[i].op # op
      /\ \A i \in DOMAIN sock : ToOldest(i) => Older(sock[i].op, op)
      /\ \A i \in DOMAIN sock : Settles(i) => sock[i].op # op
  <2>1. \A x : ~Older(x, x)
    BY OldestFirst
  <2>2. \A j \in DOMAIN toGw' : Older(op, toGw'[j])
    BY <1>1, <1>3 DEF Orderly, InOrder
  <2>3. \A i \in DOMAIN calls : calls[i].live => Older(calls[i].op, op)
    BY <1>1 DEF Orderly, InOrder
  <2>4. \A i \in DOMAIN sock : ToOldest(i) => Older(sock[i].op, op)
    BY <1>1 DEF Orderly, InOrder
  <2>5. \A i \in DOMAIN sock : Settles(i) => sock[i].op # op
    BY <1>1 DEF Orderly, Distinct
  <2> QED
    BY <2>1, <2>2, <2>3, <2>4, <2>5
<1>5. \A i, j \in DOMAIN toGw' : i < j => Older(toGw'[i], toGw'[j])
  <2> SUFFICES ASSUME NEW i \in DOMAIN toGw', NEW j \in DOMAIN toGw', i < j PROVE Older(toGw'[i], toGw'[j])
    OBVIOUS
  <2>1. i + 1 < j + 1
    BY <1>3
  <2> QED
    BY <1>3, <2>1 DEF Orderly, InOrder
<1>6. \A x, y : OlderIn(pending', x, y) <=> Older(x, y)
  BY <1>1 DEF Older
<1>7. \A x : (\E i \in DOMAIN toGw : toGw[i] = x) => x = op \/ \E i \in DOMAIN toGw' : toGw'[i] = x
  BY <1>1, <1>3
<1>8. CASE Pushes(calls, calls', [op |-> op, live |-> TRUE]) /\ UNCHANGED <<detours, sock>>
  <2> USE <1>8
  <2>1. /\ \A i \in DOMAIN calls' : \/ i \in DOMAIN calls /\ calls'[i] = calls[i]
                                    \/ i = Len(calls) + 1 /\ calls'[i] = [op |-> op, live |-> TRUE]
        /\ \A i \in DOMAIN calls : i \in DOMAIN calls' /\ calls'[i] = calls[i]
        /\ Len(calls) + 1 \in DOMAIN calls' /\ calls'[Len(calls) + 1] = [op |-> op, live |-> TRUE]
        /\ DOMAIN calls = 1..Len(calls) /\ Len(calls) \in Nat
        /\ DOMAIN calls' = 1..(Len(calls) + 1)
    BY DEF Pushes
  <2>2. Undisturbed'
    BY DEF Orderly, Undisturbed
  <2>3. Silent'
    BY <1>1, <1>2 DEF Silent
  <2>4. AllPending'
    BY <1>1, <1>2, <1>3, <2>1 DEF Orderly, AllPending, Settles
  <2>5. NoneLost'
    <3> SUFFICES ASSUME NEW x \in Ops, fate[x] = "pending" PROVE Awaited(x)'
      BY <1>1 DEF NoneLost
    <3>1. Awaited(x)
      BY <1>2 DEF Orderly, NoneLost
    <3>2. CASE x = op
      <4>1. calls'[Len(calls) + 1].live /\ calls'[Len(calls) + 1].op = op
        BY <2>1
      <4> QED
        BY <2>1, <3>2, <4>1 DEF Awaited
    <3>3. CASE x # op
      BY <1>7, <2>1, <3>1, <3>3 DEF Awaited, Settles
    <3> QED
      BY <3>2, <3>3
  <2>6. Distinct'
    <3>1. \A i \in DOMAIN sock, j \in DOMAIN calls' : Settles(i) /\ calls'[j].live => sock[i].op # calls'[j].op
      BY <1>4, <2>1 DEF Orderly, Distinct
    <3>2. \A i \in DOMAIN sock, j \in DOMAIN toGw' : Settles(i) => sock[i].op # toGw'[j]
      BY <1>3 DEF Orderly, Distinct
    <3> QED
      BY <3>1, <3>2 DEF Orderly, Distinct, Settles
  <2>7. InOrder'
    <3>1. \A i, j \in DOMAIN sock : ToOldest(i) /\ Settles(j) /\ i < j => Older(sock[i].op, sock[j].op)
      BY DEF Orderly, InOrder
    <3>2. \A i \in DOMAIN sock, j \in DOMAIN calls' : ToOldest(i) /\ calls'[j].live => Older(sock[i].op, calls'[j].op)
      BY <1>4, <2>1 DEF Orderly, InOrder
    <3>3. \A i \in DOMAIN sock, j \in DOMAIN toGw' : ToOldest(i) => Older(sock[i].op, toGw'[j])
      BY <1>3 DEF Orderly, InOrder
    <3>4. \A i, j \in DOMAIN calls' : calls'[i].live /\ calls'[j].live /\ i < j => Older(calls'[i].op, calls'[j].op)
      <4> SUFFICES ASSUME NEW i \in DOMAIN calls', NEW j \in DOMAIN calls', calls'[i].live, calls'[j].live, i < j
                   PROVE  Older(calls'[i].op, calls'[j].op)
        OBVIOUS
      <4>1. i \in DOMAIN calls /\ calls'[i] = calls[i]
        BY <2>1
      <4>2. CASE j \in DOMAIN calls /\ calls'[j] = calls[j]
        BY <4>1, <4>2 DEF Orderly, InOrder
      <4>3. CASE calls'[j] = [op |-> op, live |-> TRUE]
        BY <1>4, <4>1, <4>3
      <4> QED
        BY <2>1, <4>2, <4>3
    <3>5. \A i \in DOMAIN calls', j \in DOMAIN toGw' : calls'[i].live => Older(calls'[i].op, toGw'[j])
      BY <1>3, <1>4, <2>1 DEF Orderly, InOrder
    <3> QED
      BY <1>5, <1>6, <3>1, <3>2, <3>3, <3>4, <3>5 DEF InOrder, Older, ToOldest, Settles
  <2> QED
    BY <2>2, <2>3, <2>4, <2>5, <2>6, <2>7 DEF Orderly
<1>9. CASE Pushes(sock, sock', To("refused", op)) /\ UNCHANGED <<detours, calls>>
  <2> USE <1>9
  <2>1. /\ \A i \in DOMAIN sock' : \/ i \in DOMAIN sock /\ sock'[i] = sock[i]
                                   \/ i = Len(sock) + 1 /\ sock'[i] = To("refused", op)
        /\ \A i \in DOMAIN sock : i \in DOMAIN sock' /\ sock'[i] = sock[i]
        /\ Len(sock) + 1 \in DOMAIN sock' /\ sock'[Len(sock) + 1] = To("refused", op)
        /\ DOMAIN sock = 1..Len(sock) /\ Len(sock) \in Nat
        /\ DOMAIN sock' = 1..(Len(sock) + 1)
    BY DEF Pushes
  <2>2. To("refused", op).t = "refused" /\ To("refused", op).op = op
    BY DEF To
  <2>3. \A i \in DOMAIN sock' : ToOldest(i)' => i \in DOMAIN sock /\ sock'[i] = sock[i] /\ ToOldest(i)
    BY <2>1, <2>2 DEF ToOldest
  <2>4. \A i \in DOMAIN sock' : Settles(i)' =>
          (i \in DOMAIN sock /\ sock'[i] = sock[i] /\ Settles(i)) \/ (i = Len(sock) + 1 /\ sock'[i].op = op)
    BY <2>1, <2>2 DEF Settles
  <2>5. Undisturbed'
    BY <2>1, <2>2 DEF Orderly, Undisturbed
  <2>6. Silent'
    BY <1>1, <1>2 DEF Silent
  <2>7. AllPending'
    BY <1>1, <1>2, <1>3, <2>4 DEF Orderly, AllPending
  <2>8. NoneLost'
    <3> SUFFICES ASSUME NEW x \in Ops, fate[x] = "pending" PROVE Awaited(x)'
      BY <1>1 DEF NoneLost
    <3>1. Awaited(x)
      BY <1>2 DEF Orderly, NoneLost
    <3>2. CASE x = op
      <4>1. sock'[Len(sock) + 1].t \in Verdicts /\ sock'[Len(sock) + 1].op = op
        BY <2>1, <2>2 DEF Verdicts
      <4>2. PICK m : m = Len(sock) + 1
        OBVIOUS
      <4>3. m \in DOMAIN sock' /\ Settles(m)' /\ sock'[m].op = op
        BY <2>1, <4>1, <4>2 DEF Settles
      <4> QED
        BY <3>2, <4>3 DEF Awaited
    <3>3. CASE x # op
      BY <1>7, <2>1, <3>1, <3>3 DEF Awaited, Settles
    <3> QED
      BY <3>2, <3>3
  <2>9. Distinct'
    <3>1. \A i, j \in DOMAIN sock' : Settles(i)' /\ Settles(j)' /\ sock'[i].op = sock'[j].op => i = j
      BY <1>4, <2>4 DEF Orderly, Distinct
    <3>2. \A i \in DOMAIN sock', j \in DOMAIN calls : Settles(i)' /\ calls[j].live => sock'[i].op # calls[j].op
      BY <1>4, <2>4 DEF Orderly, Distinct
    <3>3. \A i \in DOMAIN sock', j \in DOMAIN toGw' : Settles(i)' => sock'[i].op # toGw'[j]
      BY <1>3, <1>4, <2>4 DEF Orderly, Distinct
    <3> QED
      BY <3>1, <3>2, <3>3 DEF Distinct
  <2>10. InOrder'
    <3>1. \A i, j \in DOMAIN sock' : ToOldest(i)' /\ Settles(j)' /\ i < j => Older(sock'[i].op, sock'[j].op)
      BY <1>4, <2>3, <2>4 DEF Orderly, InOrder
    <3>2. \A i \in DOMAIN sock', j \in DOMAIN calls : ToOldest(i)' /\ calls[j].live => Older(sock'[i].op, calls[j].op)
      BY <2>3 DEF Orderly, InOrder
    <3>3. \A i \in DOMAIN sock', j \in DOMAIN toGw' : ToOldest(i)' => Older(sock'[i].op, toGw'[j])
      BY <1>3, <2>3 DEF Orderly, InOrder
    <3>4. \A i, j \in DOMAIN calls : calls[i].live /\ calls[j].live /\ i < j => Older(calls[i].op, calls[j].op)
      BY DEF Orderly, InOrder
    <3>5. \A i \in DOMAIN calls, j \in DOMAIN toGw' : calls[i].live => Older(calls[i].op, toGw'[j])
      BY <1>3 DEF Orderly, InOrder
    <3> QED
      BY <1>5, <1>6, <3>1, <3>2, <3>3, <3>4, <3>5 DEF InOrder, Older
  <2> QED
    BY <2>5, <2>6, <2>7, <2>8, <2>9, <2>10 DEF Orderly
<1> QED
  BY <1>1, <1>8, <1>9

\* The script's answer takes the place of its call.
LEMMA OrderlyOnRun ==
  ASSUME Types, PendingIsFate, Orderly, NEW c \in Call, Ran(c)
  PROVE  Orderly'
<1>1. /\ c = calls[1] /\ 1 \in DOMAIN calls /\ Pops(calls, calls')
      /\ UNCHANGED <<toGw, detours, pending, fate, link>>
  BY DEF Ran, tabVars
<1>2. /\ \A i \in DOMAIN calls' : i \in Nat /\ i + 1 \in DOMAIN calls /\ calls'[i] = calls[i + 1] /\ 1 < i + 1
      /\ \A i \in DOMAIN calls : i = 1 \/ (i - 1 \in DOMAIN calls' /\ calls'[i - 1] = calls[i])
  BY <1>1 DEF Pops
<1>3. \A x, y : OlderIn(pending', x, y) <=> Older(x, y)
  BY <1>1 DEF Older
<1>4. \A i, j \in DOMAIN calls' : calls'[i].live /\ calls'[j].live /\ i < j => Older(calls'[i].op, calls'[j].op)
  <2> SUFFICES ASSUME NEW i \in DOMAIN calls', NEW j \in DOMAIN calls', calls'[i].live, calls'[j].live, i < j
               PROVE  Older(calls'[i].op, calls'[j].op)
    OBVIOUS
  <2>1. i + 1 < j + 1
    BY <1>2
  <2> QED
    BY <1>2, <2>1 DEF Orderly, InOrder
<1>5. \A i \in DOMAIN calls', j \in DOMAIN toGw : calls'[i].live => Older(calls'[i].op, toGw[j])
  BY <1>2 DEF Orderly, InOrder
<1>6. \A x : (\E i \in DOMAIN calls : calls[i].live /\ calls[i].op = x) =>
               (c.live /\ x = c.op) \/ \E i \in DOMAIN calls' : calls'[i].live /\ calls'[i].op = x
  <2> SUFFICES ASSUME NEW i \in DOMAIN calls, calls[i].live, ~(c.live /\ calls[i].op = c.op)
               PROVE  \E j \in DOMAIN calls' : calls'[j].live /\ calls'[j].op = calls[i].op
    OBVIOUS
  <2>1. i # 1
    BY <1>1
  <2> QED
    BY <1>2, <2>1
<1>7. CASE ~c.live
  <2>0. sock' = sock
    BY <1>7 DEF Ran
  <2> USE <2>0
  <2>1. Undisturbed'
    BY <1>1 DEF Orderly, Undisturbed
  <2>2. Silent'
    BY <1>1, <1>2 DEF Orderly, Silent, Settles
  <2>3. AllPending'
    BY <1>1, <1>2 DEF Orderly, AllPending, Settles
  <2>4. NoneLost'
    <3> SUFFICES ASSUME link = "up", NEW x \in Ops, fate[x] = "pending" PROVE Awaited(x)'
      BY <1>1 DEF NoneLost
    <3>1. Awaited(x)
      BY DEF Orderly, NoneLost
    <3> QED
      BY <1>1, <1>6, <1>7, <3>1 DEF Awaited, Settles
  <2>5. Distinct'
    BY <1>1, <1>2 DEF Orderly, Distinct, Settles
  <2>6. InOrder'
    <3>1. \A i, j \in DOMAIN sock : ToOldest(i) /\ Settles(j) /\ i < j => Older(sock[i].op, sock[j].op)
      BY DEF Orderly, InOrder
    <3>2. \A i \in DOMAIN sock, j \in DOMAIN calls' : ToOldest(i) /\ calls'[j].live => Older(sock[i].op, calls'[j].op)
      BY <1>2 DEF Orderly, InOrder
    <3>3. \A i \in DOMAIN sock, j \in DOMAIN toGw : ToOldest(i) => Older(sock[i].op, toGw[j])
      BY DEF Orderly, InOrder
    <3>4. \A i, j \in DOMAIN toGw : i < j => Older(toGw[i], toGw[j])
      BY DEF Orderly, InOrder
    <3> QED
      BY <1>1, <1>3, <1>4, <1>5, <3>1, <3>2, <3>3, <3>4 DEF InOrder, Older, ToOldest, Settles
  <2> QED
    BY <2>1, <2>2, <2>3, <2>4, <2>5, <2>6 DEF Orderly
<1>8. CASE c.live
  <2>0. PICK t \in {"ack", "refused", "cooldown"} : Pushes(sock, sock', To(t, c.op))
    BY <1>8 DEF Ran
  <2>00. PICK g : g = To(t, c.op)
    OBVIOUS
  <2>1. /\ \A i \in DOMAIN sock' : \/ i \in DOMAIN sock /\ sock'[i] = sock[i]
                                   \/ i = Len(sock) + 1 /\ sock'[i] = g
        /\ \A i \in DOMAIN sock : i \in DOMAIN sock' /\ sock'[i] = sock[i]
        /\ Len(sock) + 1 \in DOMAIN sock' /\ sock'[Len(sock) + 1] = g
        /\ DOMAIN sock = 1..Len(sock) /\ Len(sock) \in Nat
        /\ DOMAIN sock' = 1..(Len(sock) + 1)
    BY <2>0, <2>00 DEF Pushes
  <2>2. g.t = t /\ g.op = c.op /\ g.t \in Verdicts
    BY <2>00 DEF To, Verdicts
  <2>3. \A i \in DOMAIN sock' : ToOldest(i)' =>
          (i \in DOMAIN sock /\ sock'[i] = sock[i] /\ ToOldest(i)) \/ (i = Len(sock) + 1 /\ sock'[i].op = c.op)
    BY <2>1, <2>2 DEF ToOldest
  <2>4. \A i \in DOMAIN sock' : Settles(i)' =>
          (i \in DOMAIN sock /\ sock'[i] = sock[i] /\ Settles(i)) \/ (i = Len(sock) + 1 /\ sock'[i].op = c.op)
    BY <2>1, <2>2 DEF Settles
  <2>5. /\ \A j \in DOMAIN calls' : calls'[j].live => Older(c.op, calls'[j].op) /\ c.op # calls'[j].op
        /\ \A j \in DOMAIN toGw : Older(c.op, toGw[j]) /\ c.op # toGw[j]
        /\ \A i \in DOMAIN sock : ToOldest(i) => Older(sock[i].op, c.op)
        /\ \A i \in DOMAIN sock : Settles(i) => sock[i].op # c.op
    <3>1. \A x : ~Older(x, x)
      BY OldestFirst
    <3>2. \A j \in DOMAIN calls' : calls'[j].live => Older(c.op, calls'[j].op)
      BY <1>1, <1>2, <1>8 DEF Orderly, InOrder
    <3>3. \A j \in DOMAIN toGw : Older(c.op, toGw[j])
      BY <1>1, <1>8 DEF Orderly, InOrder
    <3>4. \A i \in DOMAIN sock : ToOldest(i) => Older(sock[i].op, c.op)
      BY <1>1, <1>8 DEF Orderly, InOrder
    <3>5. \A i \in DOMAIN sock : Settles(i) => sock[i].op # c.op
      BY <1>1, <1>8 DEF Orderly, Distinct
    <3> QED
      BY <3>1, <3>2, <3>3, <3>4, <3>5
  <2>6. link = "up" /\ fate[c.op] = "pending"
    BY <1>1, <1>8 DEF Orderly, Silent, AllPending
  <2>7. Undisturbed'
    BY <1>1, <2>1, <2>2 DEF Orderly, Undisturbed
  <2>8. Silent'
    BY <1>1, <2>6 DEF Silent
  <2>9. AllPending'
    <3>1. \A i \in DOMAIN sock' : Settles(i)' => fate[sock'[i].op] = "pending"
      BY <2>4, <2>6 DEF Orderly, AllPending
    <3>2. \A i \in DOMAIN calls' : calls'[i].live => fate[calls'[i].op] = "pending"
      BY <1>2 DEF Orderly, AllPending
    <3> QED
      BY <1>1, <3>1, <3>2 DEF Orderly, AllPending
  <2>10. NoneLost'
    <3> SUFFICES ASSUME NEW x \in Ops, fate[x] = "pending" PROVE Awaited(x)'
      BY <1>1 DEF NoneLost
    <3>1. Awaited(x)
      BY <2>6 DEF Orderly, NoneLost
    <3>2. CASE x = c.op
      <4>1. sock'[Len(sock) + 1].t \in Verdicts /\ sock'[Len(sock) + 1].op = c.op
        BY <2>1, <2>2
      <4>2. PICK m : m = Len(sock) + 1
        OBVIOUS
      <4>3. m \in DOMAIN sock' /\ Settles(m)' /\ sock'[m].op = c.op
        BY <2>1, <4>1, <4>2 DEF Settles
      <4> QED
        BY <3>2, <4>3 DEF Awaited
    <3>3. CASE x # c.op
      BY <1>1, <1>6, <2>1, <3>1, <3>3 DEF Awaited, Settles
    <3> QED
      BY <3>2, <3>3
  <2>11. Distinct'
    <3>1. \A i, j \in DOMAIN sock' : Settles(i)' /\ Settles(j)' /\ sock'[i].op = sock'[j].op => i = j
      BY <2>4, <2>5 DEF Orderly, Distinct
    <3>2. \A i \in DOMAIN sock', j \in DOMAIN calls' : Settles(i)' /\ calls'[j].live => sock'[i].op # calls'[j].op
      BY <1>2, <2>4, <2>5 DEF Orderly, Distinct
    <3>3. \A i \in DOMAIN sock', j \in DOMAIN toGw : Settles(i)' => sock'[i].op # toGw[j]
      BY <2>4, <2>5 DEF Orderly, Distinct
    <3> QED
      BY <1>1, <3>1, <3>2, <3>3 DEF Distinct
  <2>12. InOrder'
    <3>1. \A i, j \in DOMAIN sock' : ToOldest(i)' /\ Settles(j)' /\ i < j => Older(sock'[i].op, sock'[j].op)
      <4> SUFFICES ASSUME NEW i \in DOMAIN sock', NEW j \in DOMAIN sock', ToOldest(i)', Settles(j)', i < j
                   PROVE  Older(sock'[i].op, sock'[j].op)
        OBVIOUS
      <4>1. i \in DOMAIN sock /\ sock'[i] = sock[i] /\ ToOldest(i)
        BY <2>1, <2>3
      <4>2. CASE j \in DOMAIN sock /\ sock'[j] = sock[j] /\ Settles(j)
        BY <4>1, <4>2 DEF Orderly, InOrder
      <4>3. CASE sock'[j].op = c.op
        BY <2>5, <4>1, <4>3
      <4> QED
        BY <2>4, <4>2, <4>3
    <3>2. \A i \in DOMAIN sock', j \in DOMAIN calls' : ToOldest(i)' /\ calls'[j].live => Older(sock'[i].op, calls'[j].op)
      BY <1>2, <2>3, <2>5 DEF Orderly, InOrder
    <3>3. \A i \in DOMAIN sock', j \in DOMAIN toGw : ToOldest(i)' => Older(sock'[i].op, toGw[j])
      BY <2>3, <2>5 DEF Orderly, InOrder
    <3>4. \A i, j \in DOMAIN toGw : i < j => Older(toGw[i], toGw[j])
      BY DEF Orderly, InOrder
    <3> QED
      BY <1>1, <1>3, <1>4, <1>5, <3>1, <3>2, <3>3, <3>4 DEF InOrder, Older
  <2> QED
    BY <2>7, <2>8, <2>9, <2>10, <2>11, <2>12 DEF Orderly
<1> QED
  BY <1>7, <1>8

\* A frame of the board is taken off the socket; the verdicts behind it move up.
LEMMA OrderlyOnBoard ==
  ASSUME Types, Orderly, NEW f \in Frame, Received(f), f.t \in {"snapshot", "delta"}
  PROVE  Orderly'
<1>1. /\ f = sock[1] /\ 1 \in DOMAIN sock /\ Pops(sock, sock')
      /\ UNCHANGED <<toGw, detours, calls, pending, fate, link>>
  BY DEF Received, gatewayVars, Verdicts
<1>2. ~Settles(1)
  BY <1>1 DEF Settles, Verdicts
<1>3. /\ \A i \in DOMAIN sock' : i \in Nat /\ i + 1 \in DOMAIN sock /\ sock'[i] = sock[i + 1]
      /\ \A i \in DOMAIN sock : i # 1 => i - 1 \in DOMAIN sock' /\ sock'[i - 1] = sock[i]
      /\ \A i \in DOMAIN sock' : (Settles(i)' <=> Settles(i + 1)) /\ (ToOldest(i)' <=> ToOldest(i + 1))
  BY <1>1 DEF Pops, Settles, ToOldest
<1>4. \A x, y : OlderIn(pending', x, y) <=> Older(x, y)
  BY <1>1 DEF Older
<1>5. Undisturbed'
  BY <1>1, <1>3 DEF Orderly, Undisturbed
<1>6. Silent'
  BY <1>1, <1>3 DEF Orderly, Silent
<1>7. AllPending'
  BY <1>1, <1>3 DEF Orderly, AllPending
<1>8. NoneLost'
  <2> SUFFICES ASSUME link = "up", NEW op \in Ops, fate[op] = "pending" PROVE Awaited(op)'
    BY <1>1 DEF NoneLost
  <2>1. Awaited(op)
    BY DEF Orderly, NoneLost
  <2>2. CASE \E i \in DOMAIN sock : Settles(i) /\ sock[i].op = op
    <3>1. PICK i \in DOMAIN sock : Settles(i) /\ sock[i].op = op
      BY <2>2
    <3>2. i - 1 \in DOMAIN sock' /\ sock'[i - 1] = sock[i]
      BY <1>2, <1>3, <3>1
    <3>3. PICK m : m = i - 1
      OBVIOUS
    <3>4. m \in DOMAIN sock' /\ Settles(m)' /\ sock'[m].op = op
      BY <3>1, <3>2, <3>3 DEF Settles
    <3> QED
      BY <3>4 DEF Awaited
  <2> QED
    BY <1>1, <2>1, <2>2 DEF Awaited
<1>9. Distinct'
  <2>1. \A i, j \in DOMAIN sock' : Settles(i)' /\ Settles(j)' /\ sock'[i].op = sock'[j].op => i = j
    <3>1. \A i, j \in DOMAIN sock' : Settles(i)' /\ Settles(j)' /\ sock'[i].op = sock'[j].op => i + 1 = j + 1
      BY <1>3 DEF Orderly, Distinct
    <3> QED
      BY <1>3, <3>1
  <2> QED
    BY <1>1, <1>3, <2>1 DEF Orderly, Distinct
<1>10. InOrder'
  <2>1. \A i, j \in DOMAIN sock' : ToOldest(i)' /\ Settles(j)' /\ i < j => Older(sock'[i].op, sock'[j].op)
    <3> SUFFICES ASSUME NEW i \in DOMAIN sock', NEW j \in DOMAIN sock', ToOldest(i)', Settles(j)', i < j
                 PROVE  Older(sock'[i].op, sock'[j].op)
      OBVIOUS
    <3>1. i + 1 < j + 1
      BY <1>3
    <3> QED
      BY <1>3, <3>1 DEF Orderly, InOrder
  <2>2. \A i \in DOMAIN sock', j \in DOMAIN calls : ToOldest(i)' /\ calls[j].live => Older(sock'[i].op, calls[j].op)
    BY <1>3 DEF Orderly, InOrder
  <2>3. \A i \in DOMAIN sock', j \in DOMAIN toGw : ToOldest(i)' => Older(sock'[i].op, toGw[j])
    BY <1>3 DEF Orderly, InOrder
  <2>4. \A i, j \in DOMAIN calls : calls[i].live /\ calls[j].live /\ i < j => Older(calls[i].op, calls[j].op)
    BY DEF Orderly, InOrder
  <2>5. \A i \in DOMAIN calls, j \in DOMAIN toGw : calls[i].live => Older(calls[i].op, toGw[j])
    BY DEF Orderly, InOrder
  <2>6. \A i, j \in DOMAIN toGw : i < j => Older(toGw[i], toGw[j])
    BY DEF Orderly, InOrder
  <2> QED
    BY <1>1, <1>4, <2>1, <2>2, <2>3, <2>4, <2>5, <2>6 DEF InOrder, Older
<1> QED
  BY <1>5, <1>6, <1>7, <1>8, <1>9, <1>10 DEF Orderly

\* A connection that ends takes the verdicts to come with it.
LEMMA OrderlyOnLost ==
  ASSUME Types, Orderly, Lost
  PROVE  Orderly'
<1>1. toGw' = <<>> /\ sock' = <<>> /\ link' = "down" /\ fate' = fate
      /\ DOMAIN calls' = DOMAIN calls /\ \A i \in DOMAIN calls' : ~calls'[i].live
  BY DEF Lost
<1>2. DOMAIN toGw' = {} /\ DOMAIN sock' = {}
  BY <1>1
<1>3. detours' = {}
  BY DEF Lost, Orderly, Undisturbed
<1>4. Undisturbed' /\ Silent' /\ AllPending' /\ NoneLost' /\ Distinct'
  BY <1>1, <1>2, <1>3 DEF Undisturbed, Silent, AllPending, NoneLost, Distinct
<1>5. InOrder'
  BY <1>1, <1>2 DEF InOrder
<1> QED
  BY <1>4, <1>5 DEF Orderly

\* Every step keeps the answers in the order of the taps, as long as none of them is a
\* refusal without an id out of turn (onClientMessage's rate limit, forceResolve's detour).
LEMMA OrderlyStep ==
  ASSUME Types, PendingIsFate, Greeting, Orderly, Stepped, strays' = strays
  PROVE  Orderly'
<1>0. strays + 1 # strays
  BY DEF Types
<1>1. CASE WrittenByOthers
  BY <1>1, OrderlyRests DEF WrittenByOthers, gatewayVars, wireVars, tabVars
<1>2. CASE Connect
  <2>1. /\ UNCHANGED <<detours, toGw, calls, pending, fate, sock>> /\ link = "down"
    BY <1>2 DEF Connect, wireVars
  <2>2. Silent' /\ NoneLost'
    BY <1>2, <2>1 DEF Connect, Orderly, Silent, NoneLost, Settles
  <2>3. Undisturbed' /\ AllPending' /\ Distinct'
    BY <2>1 DEF Orderly, Undisturbed, AllPending, Distinct, Settles
  <2>4. InOrder'
    BY <2>1 DEF Orderly, InOrder, Older, OlderIn, ToOldest, Settles
  <2> QED
    BY <2>2, <2>3, <2>4 DEF Orderly
<1>3. ASSUME NEW op \in Ops, Tapped(op) PROVE Orderly'
  <2>1. link = "up"
    BY <1>0, <1>3 DEF Tapped
  <2> QED
    BY <1>3, <2>1, OrderlyOnTap
<1>4. ASSUME NEW f \in Frame, Received(f) PROVE Orderly'
  <2>1. f.t = "welcome" \/ f.t \in Verdicts \/ f.t \in {"snapshot", "delta"}
    BY <1>4 DEF Received
  <2> QED
    BY <1>4, <2>1, OrderlyOnWelcome, OrderlyOnVerdict, OrderlyOnBoard
<1>5. CASE Lost
  BY <1>5, OrderlyOnLost
<1>6. CASE Greets
  <2>1. UNCHANGED <<detours, toGw, calls, pending, fate, link>>
    BY <1>6 DEF Greets, tabVars
  <2>2. \A i \in DOMAIN sock : i \in DOMAIN sock' /\ sock'[i] = sock[i]
    BY <1>6 DEF Greets
  <2>3. \A i \in DOMAIN sock' : i \in DOMAIN sock \/ sock'[i].t \notin Verdicts
    <3>1. \A i \in DOMAIN sock' : i \in DOMAIN sock \/ i = Len(sock) + 1 \/ i = Len(sock) + 2
      BY <1>6 DEF Greets
    <3> QED
      BY <1>6, <3>1 DEF Greets, To, Pixels, Verdicts
  <2> QED
    BY <2>1, <2>2, <2>3, OrderlyRests
<1>7. CASE Sent
  <2>1. UNCHANGED <<detours, toGw, calls, pending, fate, link>>
    BY <1>7 DEF Sent, tabVars
  <2>2. CASE sock' = sock
    BY <2>1, <2>2, OrderlyRests
  <2>3. CASE Pushes(sock, sock', Pixels("delta", flushed, Len(log)))
    <3>1. \A i \in DOMAIN sock : i \in DOMAIN sock' /\ sock'[i] = sock[i]
      BY <2>3 DEF Pushes
    <3>2. \A i \in DOMAIN sock' : i \in DOMAIN sock \/ sock'[i].t \notin Verdicts
      BY <2>3 DEF Pushes, Pixels, Verdicts
    <3> QED
      BY <2>1, <3>1, <3>2, OrderlyRests
  <2> QED
    BY <1>7, <2>2, <2>3 DEF Sent
<1>8. ASSUME NEW op \in Ops, Handled(op) PROVE Orderly'
  BY <1>8, OrderlyOnHandle
<1>9. ASSUME NEW d \in detours, Resolved(d) PROVE Orderly'
  BY DEF Orderly, Undisturbed
<1>10. ASSUME NEW c \in Call, Ran(c) PROVE Orderly'
  BY <1>10, OrderlyOnRun
<1>11. CASE UNCHANGED <<redisVars, gatewayVars, wireVars, tabVars, verdictVars>>
  BY <1>11, OrderlyRests DEF gatewayVars, wireVars, tabVars
<1> QED
  BY <1>1, <1>2, <1>3, <1>4, <1>5, <1>6, <1>7, <1>8, <1>9, <1>10, <1>11 DEF Stepped

\* A misdirected refusal is not forgotten.
LEMMA StraysGrow ==
  ASSUME Types, Stepped
  PROVE  strays' = strays \/ strays' = strays + 1
<1>1. CASE WrittenByOthers \/ Connect \/ Lost \/ Greets \/ Sent
  BY <1>1 DEF WrittenByOthers, Connect, Lost, Greets, Sent, verdictVars
<1>2. CASE (\E op \in Ops : Tapped(op)) \/ (\E f \in Frame : Received(f))
  BY <1>2 DEF Tapped, Received, verdictVars
<1>3. CASE \E op \in Ops : Handled(op)
  BY <1>3 DEF Handled
<1>4. CASE (\E d \in detours : Resolved(d)) \/ (\E c \in Call : Ran(c))
  BY <1>4 DEF Resolved, Ran
<1>5. CASE UNCHANGED <<redisVars, gatewayVars, wireVars, tabVars, verdictVars>>
  BY <1>5 DEF verdictVars
<1> QED
  BY <1>1, <1>2, <1>3, <1>4, <1>5 DEF Stepped

-----------------------------------------------------------------------------
(***************************************************************************)
(* The theorems.                                                           *)
(***************************************************************************)

\* The tab starts unconnected, with an empty canvas and nothing tapped.
LEMMA InitInv ==
  ASSUME PlacingAssumption, PlacingInit
  PROVE  PlacingInv
<1> USE DEF PlacingInit
<1>1. DOMAIN log = {} /\ DOMAIN sock = {} /\ DOMAIN toGw = {} /\ DOMAIN calls = {} /\ DOMAIN pending = {}
      /\ Len(log) = 0 /\ Len(sock) = 0 /\ Len(pending) = 0
  OBVIOUS
<1>2. Types
  <2>1. log \in Seq(Writer) /\ toGw \in Seq(Ops) /\ calls \in Seq(Call) /\ sock \in Seq(Frame)
        /\ pending \in Seq(Ops)
    OBVIOUS
  <2>2. /\ claim \in [Ops -> Nat] /\ sentAt \in [Ops -> Nat] /\ prev \in [Ops -> Paint]
        /\ fate \in [Ops -> {"idle", "pending", "kept", "reverted"}]
    BY DEF Paint
  <2>3. detours \subseteq Call /\ resent \subseteq Ops /\ failed \subseteq Ops /\ shown \in Paint
    BY DEF Paint
  <2>4. /\ now \in Nat /\ flushed \in Nat /\ joins \in Nat /\ applied \in Nat /\ strays \in Nat /\ faults \in Nat
        /\ link \in {"down", "open", "up"} /\ greeted \in BOOLEAN /\ known \in BOOLEAN
        /\ loaded \in BOOLEAN /\ smudged \in BOOLEAN /\ overlapped \in BOOLEAN
    OBVIOUS
  <2> QED
    BY <2>1, <2>2, <2>3, <2>4 DEF Types
<1>3. PendingIsFate /\ Claimed /\ IdleLeavesNoTrace
  BY <1>1 DEF PendingIsFate, Claimed, IdleLeavesNoTrace, Written, Underway, AtGateway, Detoured, Called, Answered
<1>4. SentOnce /\ AnswersAreTrue
  BY <1>1 DEF SentOnce, Single, AnswersAreTrue, Written, Underway, AtGateway, Detoured, Called, Answered
<1>5. Greeting
  BY <1>1 DEF Greeting, Connection, Handshake
<1>6. ~Synced /\ DeltasJoin
  BY <1>1 DEF DeltasJoin, Bounds, Starts, Synced
<1>7. AcksComeFirst /\ BoardIsSound /\ Painted
  BY <1>1, <1>6 DEF AcksComeFirst, BoardIsSound, Painted
<1>8. Orderly
  BY <1>1 DEF Orderly, Undisturbed, Silent, AllPending, NoneLost, Distinct, InOrder
<1>9. RevertsHold
  BY DEF RevertsHold
<1> QED
  BY <1>2, <1>3, <1>4, <1>5, <1>6, <1>7, <1>8, <1>9 DEF PlacingInv

\* Every handler of the tab, the gateway and the script keeps the invariant.
LEMMA StepInv ==
  ASSUME PlacingAssumption, PlacingInv, Stepped
  PROVE  PlacingInv'
<1> USE DEF PlacingInv
<1>1. Types' /\ PendingIsFate' /\ Claimed' /\ IdleLeavesNoTrace'
  BY TypesStep, PendingStep, ClaimedStep, IdleStep
<1>2. SentOnce' /\ AnswersAreTrue'
  BY SentOnceStep, AnswersStep
<1>3. Greeting'
  BY ConnectionStep, HandshakeStep DEF Greeting
<1>4. DeltasJoin' /\ AcksComeFirst'
  BY DeltasStep, AcksStep
<1>5. BoardIsSound' /\ Painted'
  BY BoardStep, PaintedStep
<1>6. ASSUME strays' = 0 PROVE Orderly' /\ RevertsHold'
  <2>1. strays = 0 /\ strays' = strays
    <3>1. strays \in Nat
      BY DEF Types
    <3> QED
      BY <1>6, <3>1, StraysGrow
  <2> QED
    BY <2>1, OrderlyStep, RevertsStep
<1> QED
  BY <1>1, <1>2, <1>3, <1>4, <1>5, <1>6

\* A step of PlacingSpec, or none, is one the lemmas speak of.
LEMMA BoxIsStepped ==
  ASSUME Types, PendingIsFate, [PlacingNext]_placingVars
  PROVE  Stepped
<1>1. CASE PlacingNext
  BY <1>1, NextIsStepped
<1>2. CASE UNCHANGED placingVars
  BY <1>2 DEF placingVars, Stepped, Types
<1> QED
  BY <1>1, <1>2

\* The invariant holds throughout, with any op ids, gauge, times and bounds.
THEOREM PlacingIsInductive == PlacingSpec => []PlacingInv
<1>1. PlacingInit => PlacingInv
  BY PlacingAssumption, InitInv
<1>2. PlacingInv /\ [PlacingNext]_placingVars => PlacingInv'
  BY PlacingAssumption, BoxIsStepped, StepInv DEF PlacingInv
<1> QED
  BY <1>1, <1>2, PTL DEF PlacingSpec

\* Placed grows only with a write of the op.
LEMMA PlacedGrows ==
  ASSUME Types, Stepped, NEW op \in Ops, Placed(op)' > Placed(op)
  PROVE  Pushes(log, log', op)
<1> DEFINE S == {i \in DOMAIN log : log[i] = op}
           T == {i \in DOMAIN log' : log'[i] = op}
<1>1. Placed(op) = Cardinality(S) /\ Placed(op)' = Cardinality(T) /\ Placed(op) \in Nat
  BY PlacedIsWritten DEF Placed
<1>2. S # T
  <2> HIDE DEF S, T
  <2> QED
    BY <1>1
<1>3. ~UNCHANGED log
  BY <1>2
<1>4. PICK w : Pushes(log, log', w)
  BY <1>3, LogKeeps
<1>5. w = op
  BY <1>2, <1>4 DEF Pushes
<1> QED
  BY <1>4, <1>5

\* An op is written once however often it is sent: its claim, checked and made by the
\* script in one go, bars a second write for opTtlMs from its tap on (place.lua).
THEOREM WrittenOnce == PlacingSpec => PlacesExactlyOnce
<1> DEFINE Once == \A op \in Ops : Placed(op) > 0 /\ Placed(op)' > Placed(op) => now >= sentAt[op] + OpTtl
<1>1. PlacingInv /\ [PlacingNext]_placingVars => Once
  <2> SUFFICES ASSUME PlacingInv, [PlacingNext]_placingVars,
                      NEW op \in Ops, Placed(op) > 0, Placed(op)' > Placed(op)
               PROVE  now >= sentAt[op] + OpTtl
    OBVIOUS
  <2>1. Types /\ PendingIsFate /\ Claimed /\ Stepped
    BY BoxIsStepped DEF PlacingInv
  <2>2. Written(op)
    BY <2>1, PlacedIsWritten
  <2>3. Pushes(log, log', op)
    BY <2>1, PlacedGrows
  <2>4. claim[op] <= now
    <3>1. \A w : Pushes(log, log', w) => w = op
      BY <2>3 DEF Pushes
    <3>2. log' # log
      <4>1. Len(log') = Len(log) + 1 /\ Len(log) \in Nat
        BY <2>3 DEF Pushes
      <4> QED
        BY <4>1
    <3>3. ~WrittenByOthers
      BY <3>1, PlacingAssumption DEF WrittenByOthers, PlacingAssumption
    <3>4. ~(Connect \/ Lost \/ Greets \/ Sent)
      BY <3>2 DEF Connect, Lost, Greets, Sent, redisVars
    <3>5. ~\E x \in Ops : Tapped(x) \/ Handled(x)
      BY <3>2 DEF Tapped, Handled, redisVars
    <3>6. ~(\E f \in Frame : Received(f)) /\ ~\E d \in detours : Resolved(d)
      BY <3>2 DEF Received, Resolved, redisVars
    <3>7. ~UNCHANGED <<redisVars, gatewayVars, wireVars, tabVars, verdictVars>>
      BY <3>2 DEF redisVars
    <3>8. PICK c \in Call : Ran(c)
      BY <2>1, <3>3, <3>4, <3>5, <3>6, <3>7 DEF Stepped
    <3>9. Accepts(c.op)
      BY <3>2, <3>8 DEF Ran
    <3> QED
      BY <3>1, <3>9 DEF Accepts
  <2>5. claim[op] >= sentAt[op] + OpTtl
    BY <2>1, <2>2 DEF Claimed
  <2>6. claim[op] \in Nat /\ now \in Nat /\ sentAt[op] \in Nat /\ OpTtl \in Nat
    BY <2>1, PlacingAssumption DEF Types, PlacingAssumption
  <2> QED
    BY <2>4, <2>5, <2>6
<1>2. PlacingSpec => [][Once]_placingVars
  BY <1>1, PlacingIsInductive, PTL DEF PlacingSpec
<1> QED
  BY <1>2 DEF PlacesExactlyOnce

\* What the tab tells its viewer of a tap is true: the fate of the op and the colour left
\* on the board (OptimisticPlacement.handle, repaintPending).
THEOREM TabTruth == PlacingSpec => []TabIsTruthful
<1>1. PlacingInv => RevertedMeansUnplaced
  <2> SUFFICES ASSUME PlacingInv, strays = 0, NEW op \in Ops, fate[op] = "reverted"
               PROVE  Placed(op) = 0 \/ op \in resent \cup failed
    BY DEF RevertedMeansUnplaced
  <2>1. Types /\ RevertsHold
    BY DEF PlacingInv
  <2>2. Placed(op) \in Nat /\ (Placed(op) > 0 <=> Written(op))
    BY <2>1, PlacedIsWritten
  <2> QED
    BY <2>1, <2>2 DEF RevertsHold
<1>2. PlacingInv => BoardShowsCanvas
  <2> SUFFICES ASSUME PlacingInv, Quiet, ~smudged, ~overlapped
               PROVE  shown = Canvas \/ shown \in Replayed
    BY DEF BoardShowsCanvas
  <2>1. Types /\ DeltasJoin /\ BoardIsSound
    BY DEF PlacingInv
  <2>2. DOMAIN sock = {} /\ Len(sock) = 0 /\ Len(log) \in Nat
    BY <2>1, LenProperties DEF Quiet, Types
  <2>3. Synced
    BY <2>2 DEF Quiet, Synced, NoSnapshot
  <2>4. \E i \in 0..0 : flushed <= AtOf(i)
    BY <2>1, <2>2, <2>3 DEF DeltasJoin, Starts, Joins
  <2>5. Len(log) <= applied /\ applied <= Len(log) /\ applied \in Nat
    BY <2>1, <2>4 DEF AtOf, Quiet, DeltasJoin, Bounds, Types
  <2>6. applied = Len(log)
    BY <2>2, <2>5
  <2>7. Sound(shown)
    BY <2>1, <2>3 DEF BoardIsSound, Under, Quiet
  <2>8. shown \in Replayed \/ shown = Cell(Len(log))
    BY <2>2, <2>6, <2>7 DEF Sound
  <2> QED
    BY <2>8 DEF Cell, Canvas
<1> QED
  BY <1>1, <1>2, PlacingIsInductive, PTL DEF TabIsTruthful
=============================================================================
