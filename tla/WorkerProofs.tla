---------------------------- MODULE WorkerProofs ----------------------------
(***************************************************************************)
(* Proofs about the worker around its drain, for any grid, batch and page  *)
(* size, any flags of the operator and any number of writes and faults.    *)
(***************************************************************************)
EXTENDS Worker, SequenceTheorems, FiniteSetTheorems, WellFoundedInduction, TLAPS

-----------------------------------------------------------------------------
(***************************************************************************)
(* The inductive invariant, in parts.                                      *)
(***************************************************************************)
Entry == [cell: Cells, color: Colors, version: Nat]
Image == [Cells -> Nat]
Outcomes == {"none", "waiting", "served", "yielded", "skipped", "failed", "lost"}

Types ==
  /\ scenario \in Scenarios /\ log \in Seq(Entry) /\ meta \in Nat /\ pixels \in Image
  /\ marker \in BOOLEAN /\ lock \in {"free", "held", "stale"}
  /\ drained \in Nat /\ rows \subseteq Nat /\ snap \in [version: Nat, image: Image]
  /\ pc \in {"down", "rebuild", "page", "guard", "overwrite", "record", "mark", "load", "running"}
  /\ stopping \in BOOLEAN /\ attempt \in Nat
  /\ replay \in [cursor: Nat, count: Nat, image: Image, from: SUBSET Nat, seen: Nat]
  /\ next \subseteq Nudges \cup {Timer} /\ batch \subseteq Nudges \cup {Timer}
  /\ run \in {"none", "skipped", "drain", "drained", "yielded"} /\ rounds \in Nat
  /\ asked \in [Nudges -> [seen: Nat, state: Outcomes]]
  /\ faults \in Nat /\ rebuilt \in BOOLEAN /\ recorded \in BOOLEAN
  /\ buried \subseteq Nat /\ corrected \subseteq Nat

\* No rebuild moves the counter: the n-th accepted write has version n, and no image
\* shows a write that was not accepted.
Numbered ==
  /\ meta = Len(log)
  /\ \A i \in DOMAIN log : log[i].version = i
  /\ replay.cursor <= Len(log)
  /\ \A c \in Cells : pixels[c] <= Len(log) /\ replay.image[c] <= Len(log)

\* The durable rows are the drained part of the log but for what was corrected.
Durable ==
  /\ drained <= Len(log)
  /\ corrected \subseteq 1..drained
  /\ rows = (1..drained) \ corrected
  /\ buried \subseteq DOMAIN log

\* A run belongs to a running process and answers the triggers of its batch, which were
\* there before its last read.
Coalesced ==
  /\ run # "none" => pc = "running"
  /\ \A n \in Nudges : n \in batch \cup next => asked[n].state = "waiting"
  /\ \A n \in Nudges : ~(n \in batch /\ n \in next)
  /\ \A n \in Nudges : asked[n].seen <= Len(log)
  /\ run = "drained" => \A n \in Nudges : n \in batch => asked[n].seen <= drained

\* A replay shows the durable rows up to its cursor.
Replaying ==
  pc \in {"page", "guard", "overwrite"} =>
    /\ replay.from = {i \in rows : i <= replay.cursor}
    /\ \A c \in Cells : replay.image[c] = Newest(OnCell(c, replay.from))

\* Past the guard an empty replay has found nothing to wipe.
Guarded ==
  pc = "overwrite" =>
    /\ replay.seen <= Len(log)
    /\ ~scenario.forceEmpty /\ Painted(replay.image) = {} =>
         \A c \in Painted(pixels) : pixels[c] > replay.seen

\* The live grid is the snapshot under the writes after it.
Above(c) == {i \in OnCell(c, DOMAIN log) : i > snap.version}
Snapped ==
  /\ snap.version <= Len(log)
  /\ recorded /\ snap.version > 0 =>
       \A c \in Cells : pixels[c] = IF Above(c) = {} THEN snap.image[c] ELSE Newest(Above(c))
  /\ recorded /\ rebuilt => \A i \in corrected : i <= snap.version

WorkerInv ==
  /\ Types /\ Numbered /\ Durable /\ Coalesced /\ Replaying /\ Guarded /\ Snapped
  /\ AnswerCoversTrigger /\ RebuildShowsLog

-----------------------------------------------------------------------------
(***************************************************************************)
(* The log and its newest entries.                                         *)
(***************************************************************************)

\* A bounded non-empty set of naturals has a greatest element.
LEMMA Greatest ==
  ASSUME NEW S \in SUBSET Nat, S # {}, NEW n \in Nat, \A s \in S : s <= n
  PROVE  \E s \in S : \A j \in S : j <= s
<1> DEFINE Less == {ss \in Nat \X Nat : ss[1] < ss[2]}
           D == {n - s : s \in S}
<1>1. IsWellFoundedOn(Less, Nat)
  BY NatLessThanWellFounded DEF OpToRel
<1>2. \A s \in S : n - s \in Nat
  OBVIOUS
<1>3. D \subseteq Nat /\ D # {}
  BY <1>2
<1> HIDE DEF Less
<1>4. PICK d \in D : \A m \in D : ~ (<<m, d>> \in Less)
  BY <1>1, <1>3, WFMin
<1>5. PICK s \in S : d = n - s
  BY <1>4
<1>6. \A j \in S : j <= s
  <2> TAKE j \in S
  <2>1. n - j \in D /\ n - j \in Nat /\ d \in Nat
    BY <1>2, <1>3, <1>4
  <2>2. ~ (n - j < d)
    BY <1>4, <2>1 DEF Less
  <2> QED
    BY <1>5, <2>1, <2>2
<1> QED
  BY <1>5, <1>6

\* With versions in the order of the log the newest write is the one with the greatest
\* index (replayOrder, by version).
NewestIn(l, S) == IF S = {} THEN 0 ELSE CHOOSE i \in S : \A j \in S : l[j].version <= l[i].version
IsNewest(S, m) ==
  /\ S = {} => m = 0
  /\ S # {} => m \in S /\ \A j \in S : j <= m
LEMMA NewestIsGreatest ==
  ASSUME NEW l, NEW n \in Nat, NEW S \in SUBSET (1..n), \A i \in 1..n : l[i].version = i
  PROVE  IsNewest(S, NewestIn(l, S)) /\ NewestIn(l, S) \in 0..n
<1>1. S \in SUBSET Nat /\ \A i \in S : i <= n /\ l[i].version = i
  OBVIOUS
<1>2. CASE S = {}
  BY <1>2 DEF NewestIn, IsNewest
<1>3. CASE S # {}
  <2>1. PICK m \in S : \A j \in S : j <= m
    BY <1>1, <1>3, Greatest
  <2>2. \E i \in S : \A j \in S : l[j].version <= l[i].version
    BY <1>1, <2>1
  <2>3. NewestIn(l, S) = CHOOSE i \in S : \A j \in S : l[j].version <= l[i].version
    BY <1>3 DEF NewestIn
  <2>4. NewestIn(l, S) \in S /\ \A j \in S : l[j].version <= l[NewestIn(l, S)].version
    BY <2>2, <2>3
  <2>5. \A j \in S : j <= NewestIn(l, S)
    BY <1>1, <2>4
  <2>6. NewestIn(l, S) \in 0..n
    <3>1. \A k \in 1..n : k \in 0..n
      OBVIOUS
    <3>2. NewestIn(l, S) \in 1..n
      BY <2>4, Zenon
    <3> QED
      BY <3>1, <3>2
  <2> QED
    BY <1>3, <2>4, <2>5, <2>6 DEF IsNewest
<1> QED
  BY <1>2, <1>3

\* There is one newest write.
LEMMA NewestIsUnique ==
  ASSUME NEW S \in SUBSET Nat, NEW m, NEW k, IsNewest(S, m), IsNewest(S, k)
  PROVE  m = k
<1>1. CASE S = {}
  BY <1>1 DEF IsNewest
<1>2. CASE S # {}
  <2>1. m \in S /\ k \in S /\ m <= k /\ k <= m
    BY <1>2 DEF IsNewest
  <2>2. m \in Nat /\ k \in Nat
    BY <2>1
  <2> QED
    BY <2>1, <2>2
<1> QED
  BY <1>1, <1>2

\* Newest, before a step and after it.
LEMMA NewestIs ==
  ASSUME Types, Numbered, NEW S \in SUBSET (1..Len(log))
  PROVE  IsNewest(S, Newest(S)) /\ Newest(S) \in 0..Len(log)
<1>1. Len(log) \in Nat /\ DOMAIN log = 1..Len(log)
  BY LenProperties DEF Types
<1>2. Newest(S) = NewestIn(log, S)
  BY DEF Newest, NewestIn
<1>3. \A i \in 1..Len(log) : log[i].version = i
  BY <1>1 DEF Numbered
<1>4. IsNewest(S, NewestIn(log, S)) /\ NewestIn(log, S) \in 0..Len(log)
  BY <1>1, <1>3, NewestIsGreatest
<1> QED
  BY <1>2, <1>4

\* The same of the log as the step leaves it.
LEMMA NewestWillBe ==
  ASSUME Types', Numbered', NEW S \in SUBSET (1..Len(log'))
  PROVE  IsNewest(S, Newest(S)') /\ Newest(S)' \in 0..Len(log')
<1>1. Len(log') \in Nat /\ DOMAIN log' = 1..Len(log')
  BY LenProperties DEF Types
<1>2. Newest(S)' = NewestIn(log', S)
  BY DEF Newest, NewestIn
<1>3. \A i \in 1..Len(log') : log'[i].version = i
  BY <1>1 DEF Numbered
<1>4. IsNewest(S, NewestIn(log', S)) /\ NewestIn(log', S) \in 0..Len(log')
  BY <1>1, <1>3, NewestIsGreatest
<1> QED
  BY <1>2, <1>4

\* place.lua appends to the log and changes nothing that was in it.
Grew(c, color) ==
  /\ log' \in Seq(Entry) /\ Len(log') = Len(log) + 1
  /\ DOMAIN log = 1..Len(log) /\ DOMAIN log' = 1..(Len(log) + 1) /\ Len(log) \in Nat
  /\ \A i \in 1..Len(log) : log'[i] = log[i]
  /\ log'[Len(log) + 1] = [cell |-> c, color |-> color, version |-> Len(log) + 1]
  /\ meta' = meta + 1 /\ pixels' = [pixels EXCEPT ![c] = Len(log) + 1]
  /\ UNCHANGED <<scenario, marker, lock, convexVars, pc, stopping, bootVars, runVars, faults, history>>

\* An accepted placement (place.lua).
LEMMA PlaceGrows ==
  ASSUME Types, Numbered, NEW c \in Cells, NEW color \in Colors, Place(c, color)
  PROVE  Grew(c, color)
<1> DEFINE e == [cell |-> c, color |-> color, version |-> meta + 1]
<1>1. e \in Entry /\ log \in Seq(Entry) /\ meta = Len(log)
  BY DEF Types, Entry, Numbered
<1>2. log' = Append(log, e)
  BY DEF Place
<1>3. /\ log' \in Seq(Entry) /\ Len(log') = Len(log) + 1
      /\ \A i \in 1..Len(log) : log'[i] = log[i]
      /\ log'[Len(log) + 1] = e
  BY <1>1, <1>2, AppendProperties
<1>4. DOMAIN log = 1..Len(log) /\ DOMAIN log' = 1..(Len(log) + 1) /\ Len(log) \in Nat
  BY <1>1, <1>3, LenProperties
<1> QED
  BY <1>1, <1>3, <1>4 DEF Grew, Place

\* The newest of a set of accepted writes stays so when others follow.
LEMMA NewestStays ==
  ASSUME Types, Numbered, Types', Numbered', NEW S \in SUBSET (1..Len(log)), Len(log) <= Len(log')
  PROVE  Newest(S)' = Newest(S)
<1>1. Len(log) \in Nat /\ Len(log') \in Nat
  BY LenProperties DEF Types
<1>2. S \in SUBSET (1..Len(log')) /\ S \in SUBSET Nat
  BY <1>1
<1>3. IsNewest(S, Newest(S)) /\ IsNewest(S, Newest(S)')
  BY <1>2, NewestIs, NewestWillBe
<1> QED
  BY <1>2, <1>3, NewestIsUnique

-----------------------------------------------------------------------------
(***************************************************************************)
(* The steps, by what they leave alone.                                    *)
(***************************************************************************)

\* The process moves on, or only its supervisor, its lock or its marker does.
Moves ==
  /\ pc' = pc \/ (pc # "running" /\ pc' \notin {"page", "guard", "overwrite"})
  /\ UNCHANGED <<scenario, log, meta, pixels, convexVars, replay, runVars, history>>

\* A snapshot of the live canvas is recorded, by the rebuild or by a run.
Images ==
  /\ snap' = [version |-> meta, image |-> pixels] /\ recorded' = TRUE
  /\ pc' = pc \/ (pc' = "mark" /\ pc = "record")
  /\ UNCHANGED <<scenario, log, meta, pixels, drained, rows, replay, runVars, rebuilt, buried, corrected>>

\* A run ends, one way or the other.
Ends(outcome) ==
  /\ EndsWith(outcome) /\ run # "none"
  /\ outcome \in {"served", "yielded", "skipped", "failed"} /\ (outcome = "served" => run = "drained")
  /\ UNCHANGED <<scenario, log, meta, pixels, convexVars, pc, replay, history>>

Stepped ==
  \/ \E c \in Cells, color \in Colors : Grew(c, color)
  \/ \E i \in DOMAIN log : Correct(i)
  \/ Moves \/ Images
  \/ CheckMarker \/ Page \/ Guard \/ Overwrite
  \/ \E t \in Nudges \cup {Timer} : Trigger(t)
  \/ DrainOnce
  \/ \E outcome \in Outcomes : Ends(outcome)
  \/ Gone

\* Every action of Worker is one of these steps.
LEMMA NextIsStepped ==
  ASSUME Types, Numbered, [WorkNext]_workVars
  PROVE  Stepped
<1>1. CASE \E c \in Cells, color \in Colors : Place(c, color)
  BY <1>1, PlaceGrows DEF Stepped
<1>2. CASE \E i \in 1..Len(log) : Correct(i)
  BY <1>2, LenProperties DEF Stepped, Types
<1>3. CASE Boot \/ RebuildFails \/ Load \/ Mark
  <2>1. Moves
    BY <1>3 DEF Boot, RebuildFails, Load, Mark, Step, Booting, Moves, redisVars, convexVars, bootVars, runVars, history
  <2> QED
    BY <2>1 DEF Stepped
<1>4. CASE Shutdown \/ LockExpires \/ UNCHANGED workVars
  <2>1. Moves
    BY <1>4 DEF Shutdown, LockExpires, Moves, workVars, redisVars, convexVars, bootVars, runVars, history
  <2> QED
    BY <2>1 DEF Stepped
<1>5. CASE CheckMarker \/ Page \/ Guard \/ Overwrite
  BY <1>5 DEF Stepped
<1>6. CASE Record \/ Snapshot
  <2>1. CASE Record
    BY <2>1 DEF Record, Step, Booting, Images, runVars, Stepped
  <2>2. CASE Snapshot
    BY <2>2 DEF Snapshot, RunStep, Images, runVars, bootVars, Stepped
  <2> QED
    BY <1>6, <2>1, <2>2
<1>7. CASE (\E t \in Nudges \cup {Timer} : Trigger(t)) \/ DrainOnce
  BY <1>7 DEF Stepped
<1>8. CASE EndRun \/ RunFails
  <2>1. PICK outcome \in Outcomes :
          /\ EndsWith(outcome) /\ run # "none"
          /\ outcome \in {"served", "yielded", "skipped", "failed"} /\ (outcome = "served" => run = "drained")
    BY <1>8 DEF EndRun, RunFails, Outcomes
  <2>2. UNCHANGED <<scenario, log, meta, pixels, convexVars, pc, replay, history>>
    BY <1>8 DEF EndRun, RunFails, RunStep, bootVars, history
  <2>3. Ends(outcome)
    BY <2>1, <2>2 DEF Ends
  <2> QED
    BY <2>3 DEF Stepped
<1>9. CASE Exit \/ Crash
  BY <1>9 DEF Exit, Crash, Stepped
<1> QED
  BY <1>1, <1>2, <1>3, <1>4, <1>5, <1>6, <1>7, <1>8, <1>9 DEF WorkNext, Rebuild, Run

-----------------------------------------------------------------------------
(***************************************************************************)
(* The types.                                                              *)
(***************************************************************************)

\* A page of rows (getPlacementsSince).
Rest == {i \in rows : log[i].version > replay.cursor}
PageOf == {i \in Rest : Cardinality({j \in Rest : log[j].version < log[i].version}) < PageSize}

\* Page by page the replay reads past its cursor, and moves it to the last row it read.
LEMMA PageReads ==
  ASSUME Types, Numbered, Durable, Page
  PROVE  /\ pc = "page" /\ pc' \in {"page", "guard"}
         /\ PageOf \in SUBSET (1..Len(log)) /\ PageOf \subseteq rows
         /\ \A i \in PageOf : i > replay.cursor
         /\ Cardinality(PageOf) \in Nat
         /\ replay'.cursor = IF PageOf = {} THEN replay.cursor ELSE Newest(PageOf)
         /\ replay'.from = replay.from \cup PageOf
         /\ \A c \in Cells : replay'.image[c] = IF OnCell(c, PageOf) = {} THEN replay.image[c]
                                                ELSE Newest(OnCell(c, PageOf))
         /\ replay' \in [cursor: Nat, count: Nat, image: Image, from: SUBSET Nat, seen: Nat]
         /\ UNCHANGED <<Booting, meta, pixels, marker, snap, rebuilt, recorded, buried>>
<1>1. Len(log) \in Nat /\ DOMAIN log = 1..Len(log)
  BY LenProperties DEF Types
<1>2. PageOf \subseteq rows /\ rows \in SUBSET (1..Len(log)) /\ \A i \in PageOf : i > replay.cursor
  BY <1>1 DEF PageOf, Rest, Durable, Numbered, Types
<1>3. Cardinality(PageOf) \in Nat
  <2>1. IsFiniteSet(1..Len(log)) /\ PageOf \subseteq 1..Len(log)
    BY <1>1, <1>2, FS_Interval
  <2> QED
    BY <2>1, FS_Subset, FS_CardinalityType
<1>4. PageOf # {} => Newest(PageOf) \in PageOf /\ log[Newest(PageOf)].version = Newest(PageOf)
  BY <1>1, <1>2, NewestIs DEF IsNewest, Numbered
<1>5. \A c \in Cells : OnCell(c, PageOf) \in SUBSET (1..Len(log))
  BY <1>2 DEF OnCell
<1>6. \A c \in Cells : Newest(OnCell(c, PageOf)) \in Nat
  BY <1>1, <1>5, NewestIs
<1>7. /\ pc = "page" /\ pc' \in {"page", "guard"}
      /\ UNCHANGED <<Booting, meta, pixels, marker, snap, rebuilt, recorded, buried>>
      /\ replay' = [replay EXCEPT
              !.cursor = IF PageOf = {} THEN @ ELSE log[Newest(PageOf)].version,
              !.count = @ + Cardinality(PageOf),
              !.from = @ \cup PageOf,
              !.image = [c \in Cells |-> IF OnCell(c, PageOf) = {} THEN replay.image[c]
                                         ELSE Newest(OnCell(c, PageOf))]]
  BY DEF Page, Step, PageOf, Rest
<1>8. PICK image : image = [c \in Cells |-> IF OnCell(c, PageOf) = {} THEN replay.image[c]
                                            ELSE Newest(OnCell(c, PageOf))]
  OBVIOUS
<1>9. replay \in [cursor: Nat, count: Nat, image: Image, from: SUBSET Nat, seen: Nat]
  BY DEF Types
<1>10. image \in Image
  BY <1>6, <1>8, <1>9 DEF Image
<1>11. PICK p : p = PageOf
  OBVIOUS
<1>12. PICK n : n = IF p = {} THEN replay.cursor ELSE Newest(p)
  OBVIOUS
<1>13. n \in Nat /\ p \in SUBSET Nat
  <2>1. p \in SUBSET (1..Len(log))
    BY <1>2, <1>11
  <2>2. p \in SUBSET Nat
    BY <1>1, <2>1
  <2>3. CASE p = {}
    BY <1>9, <1>12, <2>2, <2>3
  <2>4. CASE p # {}
    BY <1>4, <1>11, <1>12, <2>2, <2>4
  <2> QED
    BY <2>3, <2>4
<1>14. PICK k : k = replay.count + Cardinality(p)
  OBVIOUS
<1>15. /\ replay' \in [cursor: Nat, count: Nat, image: Image, from: SUBSET Nat, seen: Nat]
       /\ replay'.cursor = n /\ replay'.from = replay.from \cup p /\ replay'.image = image
  <2>1. k \in Nat
    BY <1>3, <1>9, <1>11, <1>14
  <2>2. replay' = [replay EXCEPT !.cursor = n, !.count = k, !.from = @ \cup p, !.image = image]
    BY <1>4, <1>7, <1>8, <1>11, <1>12, <1>14
  <2>3. replay.from \cup p \in SUBSET Nat
    BY <1>9, <1>13
  <2>4. replay' = [cursor |-> n, count |-> k, image |-> image, from |-> replay.from \cup p, seen |-> replay.seen]
    BY <1>9, <2>2
  <2> QED
    BY <1>9, <1>10, <1>13, <2>1, <2>3, <2>4
<1>16. \A c \in Cells : replay'.image[c] = IF OnCell(c, PageOf) = {} THEN replay.image[c]
                                           ELSE Newest(OnCell(c, PageOf))
  BY <1>8, <1>15
<1> QED
  BY <1>2, <1>3, <1>7, <1>11, <1>12, <1>15, <1>16

\* Every step keeps the types: counters count, images map cells to writes.
LEMMA TypesStep ==
  ASSUME Types, Numbered, Durable, WorkerAssumption, [WorkNext]_workVars
  PROVE  Types'
<1>1. ASSUME NEW c \in Cells, NEW color \in Colors, Place(c, color) PROVE Types'
  <2>1. Grew(c, color)
    BY <1>1, PlaceGrows
  <2>2. meta' \in Nat /\ pixels' \in Image
    BY <2>1 DEF Grew, Types, Image
  <2>3. UNCHANGED <<scenario, marker, lock, convexVars, pc, stopping, bootVars, runVars, faults, history>>
        /\ log' \in Seq(Entry)
    BY <2>1 DEF Grew
  <2> QED
    BY <2>2, <2>3 DEF Types, convexVars, bootVars, runVars, history
<1>2. ASSUME NEW i, Correct(i) PROVE Types'
  <2>1. rows' \subseteq Nat /\ corrected' \subseteq Nat
    BY <1>2 DEF Correct, Types
  <2> QED
    BY <1>2, <2>1 DEF Correct, Types, redisVars, bootVars, runVars
<1>3. CASE Boot \/ Load \/ Mark \/ RebuildFails
  <2>1. /\ UNCHANGED <<scenario, log, meta, pixels, lock, convexVars, replay, runVars, history>>
        /\ marker' \in BOOLEAN /\ stopping' \in BOOLEAN /\ attempt' \in Nat /\ faults' \in Nat
        /\ pc' \in {"rebuild", "load", "running"}
    <3>1. CASE Boot
      BY <3>1 DEF Boot, Types, redisVars, convexVars, runVars, history
    <3>2. CASE Load
      BY <3>2 DEF Load, Step, Types, redisVars, convexVars, bootVars, runVars, history
    <3>3. CASE Mark
      BY <3>3 DEF Mark, Step, Booting, Types, convexVars, runVars, history
    <3>4. CASE RebuildFails
      <4>1. faults + 1 \in Nat /\ attempt + 1 \in Nat /\ attempt \in Nat /\ marker \in BOOLEAN /\ stopping \in BOOLEAN
        BY DEF Types
      <4>2. faults' \in Nat /\ attempt' \in Nat /\ pc' \in {"rebuild", "load", "running"}
        BY <3>4, <4>1 DEF RebuildFails
      <4> QED
        BY <3>4, <4>1, <4>2 DEF RebuildFails, redisVars, convexVars, runVars, history
    <3> QED
      BY <1>3, <3>1, <3>2, <3>3, <3>4
  <2> QED
    BY <2>1 DEF Types, convexVars, runVars, history
<1>4. CASE CheckMarker \/ Guard
  <2>1. replay' \in [cursor: Nat, count: Nat, image: Image, from: SUBSET Nat, seen: Nat]
    <3>1. NoReplay \in [cursor: Nat, count: Nat, image: Image, from: SUBSET Nat, seen: Nat]
      BY DEF NoReplay, Blank, Image
    <3>2. Len(log) \in Nat
      BY LenProperties DEF Types
    <3>3. replay \in [cursor: Nat, count: Nat, image: Image, from: SUBSET Nat, seen: Nat]
      BY DEF Types
    <3> QED
      BY <1>4, <3>1, <3>2, <3>3 DEF CheckMarker, Guard
  <2>2. /\ UNCHANGED <<scenario, log, lock, drained, rows, stopping, attempt, runVars, corrected,
                       meta, pixels, marker, snap, rebuilt, recorded, buried>>
        /\ pc' \in {"load", "page", "overwrite"} /\ faults' \in {faults, faults + 1}
    BY <1>4 DEF CheckMarker, Guard, Step, Booting, runVars
  <2>3. faults' \in Nat
    BY <2>2 DEF Types
  <2> QED
    BY <2>1, <2>2, <2>3 DEF Types, runVars
<1>5. CASE Page
  <2>1. /\ replay' \in [cursor: Nat, count: Nat, image: Image, from: SUBSET Nat, seen: Nat]
        /\ UNCHANGED <<Booting, meta, pixels, marker, snap, rebuilt, recorded, buried>>
        /\ pc' \in {"page", "guard"}
    BY <1>5, PageReads
  <2> QED
    BY <2>1 DEF Types, Booting, runVars
<1>6. CASE Overwrite
  <2>1. /\ replay \in [cursor: Nat, count: Nat, image: Image, from: SUBSET Nat, seen: Nat]
        /\ DOMAIN log = 1..Len(log)
    BY LenProperties DEF Types
  <2>2. /\ pixels' = replay.image /\ meta' \in {meta, replay.cursor} /\ rebuilt' = TRUE /\ recorded' = FALSE
        /\ buried' \subseteq DOMAIN log /\ pc' = "record"
        /\ UNCHANGED <<Booting, marker, snap, replay>>
    BY <1>6 DEF Overwrite, Step
  <2>3. pixels' \in Image /\ meta' \in Nat /\ buried' \subseteq Nat
    BY <2>1, <2>2 DEF Types
  <2> QED
    BY <2>2, <2>3 DEF Types, Booting, runVars
<1>7. CASE Record \/ Snapshot
  <2>1. snap' \in [version: Nat, image: Image]
    BY <1>7 DEF Record, Snapshot, Types
  <2>2. /\ UNCHANGED <<scenario, log, meta, pixels, marker, lock, drained, rows, stopping, bootVars, runVars>>
        /\ UNCHANGED <<faults, rebuilt, buried, corrected>>
        /\ recorded' = TRUE /\ (pc' = pc \/ pc' = "mark")
    BY <1>7 DEF Record, Snapshot, Step, Booting, RunStep, bootVars
  <2> QED
    BY <2>1, <2>2 DEF Types, bootVars, runVars
<1>8. ASSUME NEW t \in Nudges \cup {Timer}, Trigger(t) PROVE Types'
  <2>1. asked' \in [Nudges -> [seen: Nat, state: Outcomes]]
    <3>1. Len(log) \in Nat
      BY LenProperties DEF Types
    <3> QED
      BY <1>8, <3>1 DEF Trigger, Waits, Types, Outcomes
  <2>2. /\ next' \subseteq Nudges \cup {Timer} /\ batch' \subseteq Nudges \cup {Timer}
        /\ run' \in {"none", "skipped", "drain", "drained", "yielded"} /\ rounds' \in Nat
        /\ lock' \in {"free", "held", "stale"}
    BY <1>8 DEF Trigger, Starts, Types
  <2>3. UNCHANGED <<RunStep, recorded, convexVars, faults>>
    BY <1>8 DEF Trigger
  <2> QED
    BY <2>1, <2>2, <2>3 DEF Types, RunStep, convexVars, bootVars
<1>9. CASE DrainOnce
  <2>1. Len(log) \in Nat /\ MaxBatch \in Nat
    BY LenProperties, WorkerAssumption DEF Types, WorkerAssumption
  <2>2. PICK read \in Int :
          /\ read = IF Len(log) - drained < MaxBatch THEN Len(log) - drained ELSE MaxBatch
          /\ drained' = drained + read
          /\ rows' = rows \cup (drained + 1..drained + read)
          /\ rounds' = rounds + 1
          /\ run' \in {"drained", "yielded", "drain"}
    <3>1. PICK read :
            /\ read = IF Len(log) - drained < MaxBatch THEN Len(log) - drained ELSE MaxBatch
            /\ drained' = drained + read
            /\ rows' = rows \cup (drained + 1..drained + read)
            /\ rounds' = rounds + 1
            /\ run' = IF read < MaxBatch THEN "drained"
                      ELSE IF rounds + 1 >= MaxRounds THEN "yielded" ELSE "drain"
      BY <1>9 DEF DrainOnce
    <3>2. read \in Int
      BY <2>1, <3>1 DEF Types
    <3> QED
      BY <3>1, <3>2
  <2>3. read \in Nat
    BY <2>1, <2>2 DEF Durable, Types
  <2>4. drained' \in Nat /\ rows' \subseteq Nat /\ rounds' \in Nat
    <3>1. drained \in Nat /\ rounds \in Nat /\ rows \subseteq Nat
      BY DEF Types
    <3>2. (drained + 1..drained + read) \subseteq Nat
      BY <2>3, <3>1
    <3>3. drained + read \in Nat /\ rounds + 1 \in Nat
      BY <2>3, <3>1
    <3>4. rows' \subseteq Nat
      BY <2>2, <3>1, <3>2
    <3> QED
      BY <2>2, <3>3, <3>4
  <2>5. UNCHANGED <<RunStep, recorded, lock, snap, next, batch, asked, faults>>
    BY <1>9 DEF DrainOnce
  <2> QED
    BY <2>2, <2>4, <2>5 DEF Types, RunStep, bootVars
<1>10. CASE EndRun \/ RunFails
  <2>1. PICK outcome \in Outcomes : EndsWith(outcome)
    BY <1>10 DEF EndRun, RunFails, Outcomes
  <2>2. asked' \in [Nudges -> [seen: Nat, state: Outcomes]]
    <3>1. asked' = [n \in Nudges |-> IF n \in batch THEN [asked[n] EXCEPT !.state = outcome] ELSE asked[n]]
      BY <2>1 DEF EndsWith, Answered
    <3>2. \A n \in Nudges : asked[n] \in [seen: Nat, state: Outcomes]
                            /\ [asked[n] EXCEPT !.state = outcome] \in [seen: Nat, state: Outcomes]
      BY DEF Types
    <3> QED
      BY <3>1, <3>2
  <2>3. /\ next' \subseteq Nudges \cup {Timer} /\ batch' \subseteq Nudges \cup {Timer}
        /\ run' \in {"none", "skipped", "drain", "drained", "yielded"} /\ rounds' \in Nat
        /\ lock' \in {"free", "held", "stale"}
    BY <2>1 DEF EndsWith, Types
  <2>4. UNCHANGED <<RunStep, recorded, convexVars>> /\ faults' \in Nat
    BY <1>10 DEF EndRun, RunFails, Types
  <2> QED
    BY <2>2, <2>3, <2>4 DEF Types, RunStep, convexVars, bootVars
<1>11. CASE Exit \/ Crash
  <2>1. Gone /\ faults' \in Nat
    BY <1>11 DEF Exit, Crash, Types
  <2>2. asked' \in [Nudges -> [seen: Nat, state: Outcomes]]
    <3>1. \A n \in Nudges : asked[n] \in [seen: Nat, state: Outcomes]
                            /\ [asked[n] EXCEPT !.state = "lost"] \in [seen: Nat, state: Outcomes]
      BY DEF Types, Outcomes
    <3> QED
      BY <2>1, <3>1 DEF Gone
  <2>3. lock' \in {"free", "held", "stale"}
    BY <2>1 DEF Gone, Types
  <2> QED
    BY <2>1, <2>2, <2>3 DEF Gone, Types, redisVars, convexVars, bootVars, history
<1>12. CASE Shutdown \/ LockExpires \/ UNCHANGED workVars
  <2>1. /\ UNCHANGED <<scenario, log, meta, pixels, marker, convexVars, pc, bootVars, runVars, history>>
        /\ stopping' \in BOOLEAN /\ faults' \in Nat /\ lock' \in {"free", "held", "stale"}
    <3>1. faults \in Nat /\ faults + 1 \in Nat /\ lock \in {"free", "held", "stale"} /\ stopping \in BOOLEAN
      BY DEF Types
    <3>2. CASE Shutdown
      BY <3>1, <3>2 DEF Shutdown, redisVars
    <3>3. CASE LockExpires
      BY <3>1, <3>3 DEF LockExpires, redisVars
    <3>4. CASE UNCHANGED workVars
      BY <3>1, <3>4 DEF workVars, redisVars
    <3> QED
      BY <1>12, <3>2, <3>3, <3>4
  <2> QED
    BY <2>1 DEF Types, convexVars, bootVars, runVars, history
<1> QED
  BY <1>1, <1>2, <1>3, <1>4, <1>5, <1>6, <1>7, <1>8, <1>9, <1>10, <1>11, <1>12 DEF WorkNext, Rebuild, Run

-----------------------------------------------------------------------------
(***************************************************************************)
(* The log, the counter and the durable rows.                              *)
(***************************************************************************)

\* The length and the domain of the log.
LEMMA Lengths ==
  ASSUME Types
  PROVE  Len(log) \in Nat /\ DOMAIN log = 1..Len(log)
BY LenProperties DEF Types

\* No step but place.lua numbers a write, and a rebuild leaves the counter where it was.
LEMMA NumberedStep ==
  ASSUME Types, Numbered, Durable, Types', WorkerAssumption, Stepped
  PROVE  Numbered'
<1>1. Len(log) \in Nat /\ DOMAIN log = 1..Len(log)
  BY Lengths
<1>2. ASSUME NEW c \in Cells, NEW color \in Colors, Grew(c, color) PROVE Numbered'
  <2>1. /\ meta' = Len(log) + 1 /\ Len(log') = Len(log) + 1 /\ DOMAIN log' = 1..(Len(log) + 1)
        /\ UNCHANGED replay
    BY <1>2 DEF Grew, Numbered, bootVars
  <2>2. \A i \in DOMAIN log' : log'[i].version = i
    <3> TAKE i \in DOMAIN log'
    <3>1. CASE i = Len(log) + 1
      BY <1>2, <3>1 DEF Grew
    <3>2. CASE i \in 1..Len(log)
      BY <1>1, <1>2, <3>2 DEF Grew, Numbered
    <3> QED
      BY <1>1, <2>1, <3>1, <3>2
  <2>3. \A d \in Cells : pixels'[d] <= Len(log') /\ replay'.image[d] <= Len(log')
    <3> TAKE d \in Cells
    <3>1. pixels[d] \in Nat /\ replay.image[d] \in Nat /\ pixels[d] <= Len(log) /\ replay.image[d] <= Len(log)
      BY DEF Types, Image, Numbered
    <3>2. pixels'[d] = IF d = c THEN Len(log) + 1 ELSE pixels[d]
      BY <1>2 DEF Grew, Types, Image
    <3> QED
      BY <1>1, <2>1, <3>1, <3>2
  <2>4. replay'.cursor <= Len(log')
    <3>1. replay.cursor \in Nat /\ replay.cursor <= Len(log)
      BY DEF Types, Numbered
    <3> QED
      BY <1>1, <2>1, <3>1
  <2> QED
    BY <2>1, <2>2, <2>3, <2>4 DEF Numbered
<1>3. CASE UNCHANGED <<log, meta, pixels, replay>>
  BY <1>3 DEF Numbered
<1>4. CASE CheckMarker \/ Guard
  <2>1. UNCHANGED <<log, meta, pixels>>
    BY <1>4 DEF CheckMarker, Guard, Booting
  <2>2. replay'.cursor \in {0, replay.cursor} /\ \A c \in Cells : replay'.image[c] \in {0, replay.image[c]}
    <3>1. CASE CheckMarker
      BY <3>1 DEF CheckMarker, NoReplay, Blank
    <3>2. CASE Guard
      <4>1. replay' = [replay EXCEPT !.seen = Len(log)]
        BY <3>2 DEF Guard
      <4>2. replay'.cursor = replay.cursor /\ replay'.image = replay.image
        BY <4>1 DEF Types
      <4> QED
        BY <4>2
    <3> QED
      BY <1>4, <3>1, <3>2
  <2> QED
    BY <1>1, <2>1, <2>2 DEF Numbered
<1>5. CASE Page
  <2>1. /\ UNCHANGED <<log, meta, pixels>>
        /\ PageOf \in SUBSET (1..Len(log))
        /\ replay'.cursor = IF PageOf = {} THEN replay.cursor ELSE Newest(PageOf)
        /\ \A c \in Cells : replay'.image[c] = IF OnCell(c, PageOf) = {} THEN replay.image[c]
                                               ELSE Newest(OnCell(c, PageOf))
    BY <1>5, PageReads DEF Booting
  <2>2. \A c \in Cells : OnCell(c, PageOf) \in SUBSET (1..Len(log))
    BY <2>1 DEF OnCell
  <2>3. Newest(PageOf) <= Len(log) /\ \A c \in Cells : Newest(OnCell(c, PageOf)) <= Len(log)
    BY <1>1, <2>1, <2>2, NewestIs
  <2> QED
    BY <2>1, <2>3 DEF Numbered
<1>6. CASE Overwrite
  <2>1. meta' = meta
    <3>1. replay.cursor \in Nat /\ meta \in Nat /\ replay.cursor <= meta
      BY DEF Types, Numbered
    <3> QED
      BY <1>6, <3>1 DEF Overwrite
  <2>2. UNCHANGED <<log, replay>> /\ pixels' = replay.image
    BY <1>6 DEF Overwrite, Booting
  <2> QED
    BY <2>1, <2>2 DEF Numbered
<1>7. CASE Moves \/ Images \/ DrainOnce \/ Gone
  BY <1>3, <1>7 DEF Moves, Images, DrainOnce, Gone, RunStep, redisVars, bootVars
<1>8. ASSUME NEW i, Correct(i) PROVE Numbered'
  BY <1>3, <1>8 DEF Correct, redisVars, bootVars
<1>9. ASSUME NEW t, Trigger(t) PROVE Numbered'
  BY <1>3, <1>9 DEF Trigger, RunStep, bootVars
<1>10. ASSUME NEW outcome, Ends(outcome) PROVE Numbered'
  BY <1>3, <1>10 DEF Ends
<1> QED
  BY <1>2, <1>4, <1>5, <1>6, <1>7, <1>8, <1>9, <1>10 DEF Stepped

\* What a drained batch makes durable (drainOnce, as module Drain shows it).
DrainsTo(read) ==
  /\ read \in Nat /\ drained + read <= Len(log) /\ drained' = drained + read
  /\ rows' = rows \cup (drained + 1..drained + read)
  /\ run' = "drained" => drained + read = Len(log)
  /\ UNCHANGED <<RunStep, recorded, lock, snap, next, batch, asked, faults>>

\* A batch is a stretch of the stream, and a short one reaches its end.
LEMMA DrainOnceReads ==
  ASSUME Types, Durable, WorkerAssumption, DrainOnce
  PROVE  \E read \in Nat : DrainsTo(read)
<1>1. Len(log) \in Nat /\ MaxBatch \in Nat /\ drained \in Nat /\ drained <= Len(log)
  BY Lengths, WorkerAssumption DEF Types, Durable, WorkerAssumption
<1>2. PICK read :
        /\ read = IF Len(log) - drained < MaxBatch THEN Len(log) - drained ELSE MaxBatch
        /\ drained' = drained + read
        /\ rows' = rows \cup (drained + 1..drained + read)
        /\ run' = IF read < MaxBatch THEN "drained"
                  ELSE IF rounds + 1 >= MaxRounds THEN "yielded" ELSE "drain"
  BY DEF DrainOnce
<1>3. read \in Nat /\ drained + read <= Len(log) /\ (read < MaxBatch => drained + read = Len(log))
  BY <1>1, <1>2
<1>4. run' = "drained" => read < MaxBatch
  BY <1>2
<1>5. UNCHANGED <<RunStep, recorded, lock, snap, next, batch, asked, faults>>
  BY DEF DrainOnce
<1>6. DrainsTo(read)
  BY <1>2, <1>3, <1>4, <1>5 DEF DrainsTo
<1> QED
  BY <1>3, <1>6

\* The rows stay the drained log less the corrections.
LEMMA DurableStep ==
  ASSUME Types, Numbered, Durable, Types', WorkerAssumption, Stepped
  PROVE  Durable'
<1>1. Len(log) \in Nat /\ DOMAIN log = 1..Len(log) /\ drained \in Nat
  BY Lengths DEF Types
<1>2. ASSUME NEW c \in Cells, NEW color \in Colors, Grew(c, color) PROVE Durable'
  <2>1. /\ Len(log') = Len(log) + 1 /\ DOMAIN log' = 1..(Len(log) + 1)
        /\ UNCHANGED <<drained, corrected, rows, buried>>
    BY <1>2 DEF Grew, convexVars, history
  <2>2. drained <= Len(log) + 1 /\ DOMAIN log \subseteq DOMAIN log'
    BY <1>1, <2>1 DEF Durable
  <2> QED
    BY <2>1, <2>2 DEF Durable
<1>3. ASSUME NEW i, Correct(i) PROVE Durable'
  <2>1. /\ UNCHANGED <<log, drained, buried>> /\ i \in rows
        /\ rows' = rows \ {i} /\ corrected' = corrected \cup {i}
    BY <1>3 DEF Correct, redisVars
  <2> QED
    BY <2>1 DEF Durable
<1>4. CASE UNCHANGED <<log, drained, rows, corrected, buried>>
  BY <1>4 DEF Durable
<1>5. CASE DrainOnce
  <2>1. PICK read \in Nat : DrainsTo(read)
    BY <1>5, DrainOnceReads
  <2>2. /\ drained' = drained + read /\ drained + read <= Len(log)
        /\ rows' = rows \cup (drained + 1..drained + read) /\ UNCHANGED <<log, corrected, buried>>
    BY <2>1 DEF DrainsTo, RunStep
  <2>3. 1..(drained + read) = (1..drained) \cup (drained + 1..drained + read)
    BY <1>1
  <2>4. \A i \in corrected : i \notin (drained + 1..drained + read)
    BY <1>1 DEF Durable
  <2>5. rows' = (1..drained') \ corrected'
    BY <2>2, <2>3, <2>4 DEF Durable
  <2>6. corrected' \subseteq 1..drained'
    BY <2>2, <2>3 DEF Durable
  <2> QED
    BY <2>2, <2>5, <2>6 DEF Durable
<1>6. CASE Overwrite
  BY <1>6 DEF Overwrite, Booting, Durable
<1>7. CASE Moves \/ Images \/ Gone \/ CheckMarker \/ Page \/ Guard
  BY <1>4, <1>7 DEF Moves, Images, Gone, CheckMarker, Page, Guard, Booting, redisVars, convexVars, history
<1>8. ASSUME NEW t, Trigger(t) PROVE Durable'
  BY <1>4, <1>8 DEF Trigger, RunStep, convexVars
<1>9. ASSUME NEW outcome, Ends(outcome) PROVE Durable'
  BY <1>4, <1>9 DEF Ends, convexVars, history
<1> QED
  BY <1>2, <1>3, <1>5, <1>6, <1>7, <1>8, <1>9 DEF Stepped

-----------------------------------------------------------------------------
(***************************************************************************)
(* The coalescer.                                                          *)
(***************************************************************************)
Answers == Coalesced /\ AnswerCoversTrigger

\* A step that concerns neither the triggers nor the run leaves both as they were, and
\* the drained log no shorter.
LEMMA QuietStep ==
  ASSUME Types, Types', Answers, UNCHANGED <<next, batch, run, asked>>, pc' = pc \/ pc # "running",
         drained' = drained, Len(log) <= Len(log')
  PROVE  Answers'
<1>1. Len(log) \in Nat /\ Len(log') \in Nat
  BY LenProperties DEF Types
<1>2. \A n \in Nudges : asked[n].seen \in Nat
  BY DEF Types
<1>3. run' # "none" => pc' = "running"
  BY DEF Answers, Coalesced
<1>4. \A n \in Nudges : asked'[n].seen <= Len(log')
  BY <1>1, <1>2 DEF Answers, Coalesced
<1>5. /\ \A n \in Nudges : n \in batch' \cup next' => asked'[n].state = "waiting"
      /\ \A n \in Nudges : ~(n \in batch' /\ n \in next')
      /\ run' = "drained" => \A n \in Nudges : n \in batch' => asked'[n].seen <= drained'
  BY DEF Answers, Coalesced
<1>6. AnswerCoversTrigger'
  BY DEF Answers, AnswerCoversTrigger
<1> QED
  BY <1>3, <1>4, <1>5, <1>6 DEF Answers, Coalesced

\* A trigger joins the next run, or starts one: never the run in flight (trigger).
LEMMA TriggerStep ==
  ASSUME Types, Answers, WorkerAssumption, NEW t \in Nudges \cup {Timer}, Trigger(t)
  PROVE  Answers'
<1>1. Len(log) \in Nat
  BY Lengths
<1>2. /\ pc = "running" /\ UNCHANGED <<log, pc, drained>>
      /\ \A n \in Nudges : n = t => asked[n].state = "none"
  <2>1. \A n \in Nudges : n # Timer
    BY WorkerAssumption DEF WorkerAssumption
  <2> QED
    BY <2>1 DEF Trigger, RunStep, convexVars
<1>3. \A n \in Nudges : asked'[n] = IF n = t THEN [seen |-> Len(log), state |-> "waiting"] ELSE asked[n]
  <2>1. \A n \in Nudges : n # Timer
    BY WorkerAssumption DEF WorkerAssumption
  <2>2. asked \in [Nudges -> [seen: Nat, state: Outcomes]]
    BY DEF Types
  <2>3. asked' = IF t = Timer THEN asked ELSE [asked EXCEPT ![t] = [seen |-> Len(log), state |-> "waiting"]]
    BY DEF Trigger, Waits
  <2>4. CASE t = Timer
    BY <2>1, <2>3, <2>4
  <2>5. CASE t # Timer
    BY <2>2, <2>3, <2>5
  <2> QED
    BY <2>4, <2>5
<1>4. \A n \in Nudges : n = t => n \notin batch \cup next
  BY <1>2 DEF Answers, Coalesced
<1>5. \/ batch = {} /\ batch' = {t} /\ next' = next /\ run' \in {"skipped", "drain"}
      \/ batch' = batch /\ next' = next \cup {t} /\ run' = run
  BY DEF Trigger, Starts
<1>6. \A n \in Nudges : n \in batch' \cup next' => n = t \/ n \in batch \cup next
  BY <1>5
<1>7. \A n \in Nudges : n \in batch' \cup next' => asked'[n].state = "waiting"
  BY <1>3, <1>6 DEF Answers, Coalesced
<1>8. \A n \in Nudges : ~(n \in batch' /\ n \in next')
  BY <1>4, <1>5 DEF Answers, Coalesced
<1>9. \A n \in Nudges : asked'[n].seen <= Len(log')
  BY <1>1, <1>2, <1>3 DEF Answers, Coalesced
<1>10. run' = "drained" => \A n \in Nudges : n \in batch' => asked'[n].seen <= drained'
  <2> SUFFICES ASSUME run' = "drained", NEW n \in Nudges, n \in batch'
               PROVE  asked'[n].seen <= drained'
    OBVIOUS
  <2>1. batch' = batch /\ run = "drained"
    BY <1>5
  <2>2. asked'[n] = asked[n]
    BY <1>3, <1>4, <2>1
  <2> QED
    BY <1>2, <2>1, <2>2 DEF Answers, Coalesced
<1>11. AnswerCoversTrigger'
  BY <1>2, <1>3 DEF Answers, AnswerCoversTrigger
<1>12. run' # "none" => pc' = "running"
  BY <1>2
<1> QED
  BY <1>7, <1>8, <1>9, <1>10, <1>11, <1>12 DEF Answers, Coalesced

\* A run that reached the end of the stream covers its whole batch (drainOnce in tick).
LEMMA DrainStep ==
  ASSUME Types, Types', Durable, Answers, WorkerAssumption, DrainOnce
  PROVE  Answers'
<1>1. PICK read \in Nat : DrainsTo(read)
  BY DrainOnceReads
<1>2. /\ drained' = drained + read /\ (run' = "drained" => drained + read = Len(log))
      /\ UNCHANGED <<log, pc, next, batch, asked>>
  BY <1>1 DEF DrainsTo, RunStep
<1>3. Len(log) \in Nat /\ drained \in Nat /\ drained' \in Nat /\ \A n \in Nudges : asked[n].seen \in Nat
  BY Lengths DEF Types
<1>4. AnswerCoversTrigger'
  <2>1. drained <= drained'
    BY <1>2, <1>3
  <2> QED
    BY <1>2, <1>3, <2>1 DEF Answers, AnswerCoversTrigger
<1>5. run' = "drained" => \A n \in Nudges : n \in batch' => asked'[n].seen <= drained'
  BY <1>2, <1>3 DEF Answers, Coalesced
<1>6. pc = "running"
  BY DEF DrainOnce, Answers, Coalesced
<1> QED
  BY <1>2, <1>4, <1>5, <1>6 DEF Answers, Coalesced

\* The end of a run resolves its batch and starts the next (run, in nudge.ts).
LEMMA EndStep ==
  ASSUME Types, Answers, NEW outcome, Ends(outcome)
  PROVE  Answers'
<1>1. /\ run # "none" /\ outcome \in {"served", "yielded", "skipped", "failed"}
      /\ (outcome = "served" => run = "drained") /\ UNCHANGED <<log, drained, pc>>
  BY DEF Ends, convexVars
<1>2. \A n \in Nudges : asked'[n] = IF n \in batch THEN [asked[n] EXCEPT !.state = outcome] ELSE asked[n]
  BY DEF Ends, EndsWith, Answered
<1>3. \A n \in Nudges : asked[n] \in [seen: Nat, state: Outcomes]
  BY DEF Types
<1>4. \A n \in Nudges : /\ asked'[n].seen = asked[n].seen
                        /\ asked'[n].state = IF n \in batch THEN outcome ELSE asked[n].state
  BY <1>2, <1>3
<1>5. batch' = next /\ next' = {} /\ run' \in {"none", "skipped", "drain"}
  BY DEF Ends, EndsWith
<1>6. \A n \in Nudges : n \in batch' \cup next' => asked'[n].state = "waiting"
  BY <1>4, <1>5 DEF Answers, Coalesced
<1>7. AnswerCoversTrigger'
  <2> SUFFICES ASSUME NEW n \in Nudges, asked'[n].state = "served" PROVE drained' >= asked'[n].seen
    BY DEF AnswerCoversTrigger
  <2>1. drained \in Nat /\ asked[n].seen \in Nat
    BY <1>3 DEF Types
  <2>2. CASE n \in batch
    <3>1. run = "drained"
      BY <1>1, <1>4, <2>2
    <3> QED
      BY <1>1, <1>4, <2>1, <2>2, <3>1 DEF Answers, Coalesced
  <2>3. CASE n \notin batch
    BY <1>1, <1>4, <2>3 DEF Answers, AnswerCoversTrigger
  <2> QED
    BY <2>2, <2>3
<1>8. pc' = "running"
  BY <1>1 DEF Answers, Coalesced
<1>9. \A n \in Nudges : asked'[n].seen <= Len(log')
  BY <1>1, <1>4 DEF Answers, Coalesced
<1> QED
  BY <1>5, <1>6, <1>7, <1>8, <1>9 DEF Answers, Coalesced

\* A dead process loses its triggers and answers none.
LEMMA GoneStep ==
  ASSUME Types, Answers, Gone
  PROVE  Answers'
<1>1. \A n \in Nudges : asked[n] \in [seen: Nat, state: Outcomes]
  BY DEF Types
<1>2. \A n \in Nudges : asked'[n] = IF asked[n].state = "waiting" THEN [asked[n] EXCEPT !.state = "lost"] ELSE asked[n]
  BY DEF Gone
<1>3. \A n \in Nudges : asked'[n].seen = asked[n].seen /\ (asked'[n].state = "served" => asked[n].state = "served")
  BY <1>1, <1>2
<1>4. next' = {} /\ batch' = {} /\ run' = "none" /\ UNCHANGED <<log, drained>>
  BY DEF Gone, redisVars, convexVars
<1> QED
  BY <1>3, <1>4 DEF Answers, Coalesced, AnswerCoversTrigger

\* Every step keeps the book of triggers and answers.
LEMMA AnswersStep ==
  ASSUME Types, Numbered, Durable, Answers, Types', WorkerAssumption, Stepped
  PROVE  Answers'
<1>1. Len(log) \in Nat
  BY Lengths
<1>2. ASSUME NEW c \in Cells, NEW color \in Colors, Grew(c, color) PROVE Answers'
  <2>1. UNCHANGED <<next, batch, run, asked, pc, drained>> /\ Len(log') = Len(log) + 1
    BY <1>2 DEF Grew, runVars, convexVars
  <2>2. Len(log) <= Len(log')
    BY <1>1, <2>1
  <2> QED
    BY <2>1, <2>2, QuietStep
<1>3. ASSUME NEW i, Correct(i) PROVE Answers'
  <2>1. UNCHANGED <<log, next, batch, run, asked, pc, drained>>
    BY <1>3 DEF Correct, redisVars, runVars
  <2> QED
    BY <1>1, <2>1, QuietStep
<1>4. CASE Moves \/ Images \/ CheckMarker \/ Page \/ Guard \/ Overwrite
  <2>1. UNCHANGED <<log, next, batch, run, asked, drained>> /\ (pc' = pc \/ pc # "running")
    <3>1. CASE Moves
      BY <3>1 DEF Moves, runVars, convexVars
    <3>2. CASE Images
      BY <3>2 DEF Images, runVars
    <3>3. CASE CheckMarker \/ Page \/ Guard \/ Overwrite
      BY <3>3 DEF CheckMarker, Page, Guard, Overwrite, Step, Booting, runVars
    <3> QED
      BY <1>4, <3>1, <3>2, <3>3
  <2> QED
    BY <1>1, <2>1, QuietStep
<1>5. ASSUME NEW t \in Nudges \cup {Timer}, Trigger(t) PROVE Answers'
  BY <1>5, TriggerStep
<1>6. CASE DrainOnce
  BY <1>6, DrainStep
<1>7. ASSUME NEW outcome, Ends(outcome) PROVE Answers'
  BY <1>7, EndStep
<1>8. CASE Gone
  BY <1>8, GoneStep
<1> QED
  BY <1>2, <1>3, <1>4, <1>5, <1>6, <1>7, <1>8 DEF Stepped

-----------------------------------------------------------------------------
(***************************************************************************)
(* The replay.                                                             *)
(***************************************************************************)

\* A page leaves no gap: a row older than one of the page is in the page as well, so the
\* rows up to the new cursor are those up to the old one and the page.
LEMMA PageIsPrefix ==
  ASSUME Types, Numbered, Durable, WorkerAssumption, NEW i \in PageOf, NEW j \in Rest, j <= i
  PROVE  j \in PageOf
<1>1. Len(log) \in Nat /\ rows \in SUBSET (1..Len(log)) /\ Rest \in SUBSET (1..Len(log))
  BY Lengths DEF Durable, Types, Rest
<1>2. \A k \in Rest : k \in Nat /\ log[k].version = k
  BY <1>1, Lengths DEF Numbered
<1>3. PICK older : older = {k \in Rest : log[k].version < log[i].version}
  OBVIOUS
<1>4. PICK old : old = {k \in Rest : log[k].version < log[j].version}
  OBVIOUS
<1>5. i \in Rest /\ Cardinality(older) < PageSize
  BY <1>3 DEF PageOf
<1>6. old \subseteq older
  BY <1>2, <1>3, <1>4, <1>5
<1>7. IsFiniteSet(older)
  <2>1. IsFiniteSet(1..Len(log)) /\ older \subseteq 1..Len(log)
    BY <1>1, <1>3, FS_Interval
  <2> QED
    BY <2>1, FS_Subset
<1>8. Cardinality(old) <= Cardinality(older) /\ Cardinality(old) \in Nat /\ Cardinality(older) \in Nat
  BY <1>6, <1>7, FS_Subset, FS_CardinalityType
<1>9. PageSize \in Nat
  BY WorkerAssumption DEF WorkerAssumption
<1>10. Cardinality(old) < PageSize
  BY <1>5, <1>8, <1>9
<1> QED
  BY <1>4, <1>10 DEF PageOf

\* A row is of an accepted write.
LEMMA RowsLogged ==
  ASSUME Types, Durable
  PROVE  Len(log) \in Nat /\ DOMAIN log = 1..Len(log) /\ rows \in SUBSET (1..Len(log))
<1>1. Len(log) \in Nat /\ DOMAIN log = 1..Len(log) /\ drained \in Nat
  BY Lengths DEF Types
<1>2. 1..drained \subseteq 1..Len(log)
  BY <1>1 DEF Durable
<1> QED
  BY <1>1, <1>2 DEF Durable

\* A page goes over the image so far (getPlacementsSince, rebuild loop).
LEMMA PageReplays ==
  ASSUME Types, Numbered, Durable, Replaying, Types', Numbered', WorkerAssumption, Page
  PROVE  Replaying'
<1>1. /\ Len(log) \in Nat /\ DOMAIN log = 1..Len(log) /\ rows \in SUBSET (1..Len(log))
      /\ replay.cursor \in Nat
  BY RowsLogged DEF Types
<1>2. /\ pc = "page" /\ UNCHANGED <<log, rows>>
      /\ PageOf \in SUBSET (1..Len(log)) /\ PageOf \subseteq rows
      /\ \A i \in PageOf : i > replay.cursor
      /\ replay'.cursor = IF PageOf = {} THEN replay.cursor ELSE Newest(PageOf)
      /\ replay'.from = replay.from \cup PageOf
      /\ \A c \in Cells : replay'.image[c] = IF OnCell(c, PageOf) = {} THEN replay.image[c]
                                             ELSE Newest(OnCell(c, PageOf))
  BY PageReads DEF Booting
<1>3. /\ replay.from = {i \in rows : i <= replay.cursor}
      /\ \A c \in Cells : replay.image[c] = Newest(OnCell(c, replay.from))
  BY <1>2 DEF Replaying
<1>4. IsNewest(PageOf, Newest(PageOf))
  BY <1>2, NewestIs
<1>5. replay'.from = {i \in rows : i <= replay'.cursor}
  <2>1. CASE PageOf = {}
    BY <1>2, <1>3, <2>1
  <2>2. CASE PageOf # {}
    <3>1. Newest(PageOf) \in PageOf /\ (\A j \in PageOf : j <= Newest(PageOf)) /\ replay'.cursor = Newest(PageOf)
      BY <1>2, <1>4, <2>2 DEF IsNewest
    <3>2. \A i \in rows : i <= Newest(PageOf) /\ ~(i <= replay.cursor) => i \in PageOf
      <4> SUFFICES ASSUME NEW i \in rows, i <= Newest(PageOf), ~(i <= replay.cursor) PROVE i \in PageOf
        OBVIOUS
      <4>1. i \in Rest
        BY <1>1 DEF Rest, Numbered
      <4> QED
        BY <3>1, <4>1, PageIsPrefix
    <3>3. \A i \in rows : i <= replay.cursor => i <= Newest(PageOf)
      <4>1. Newest(PageOf) \in Nat /\ Newest(PageOf) > replay.cursor
        <5>1. PageOf \in SUBSET Nat
          BY <1>1, <1>2
        <5> QED
          BY <1>2, <3>1, <5>1
      <4>2. rows \in SUBSET Nat
        BY <1>1
      <4> QED
        BY <1>1, <4>1, <4>2
    <3> QED
      BY <1>2, <1>3, <3>1, <3>2, <3>3
  <2> QED
    BY <2>1, <2>2
<1>6. ASSUME NEW c \in Cells PROVE replay'.image[c] = Newest(OnCell(c, replay.from))'
  <2>1. PICK S : S = OnCell(c, replay.from \cup PageOf)
    OBVIOUS
  <2>2. S \in SUBSET (1..Len(log))
    BY <1>2, <1>3, <1>1, <2>1 DEF OnCell
  <2>3. Newest(OnCell(c, replay.from))' = Newest(S)
    BY <1>2, <2>1 DEF Newest, OnCell
  <2>4. CASE OnCell(c, PageOf) = {}
    <3>1. S = OnCell(c, replay.from)
      BY <2>1, <2>4 DEF OnCell
    <3> QED
      BY <1>2, <1>3, <2>3, <2>4, <3>1
  <2>5. CASE OnCell(c, PageOf) # {}
    <3>1. OnCell(c, PageOf) \in SUBSET (1..Len(log)) /\ OnCell(c, PageOf) \subseteq PageOf
      BY <1>2 DEF OnCell
    <3>2. PICK m : m = Newest(OnCell(c, PageOf))
      OBVIOUS
    <3>3. m \in OnCell(c, PageOf) /\ \A j \in OnCell(c, PageOf) : j <= m
      BY <2>5, <3>1, <3>2, NewestIs DEF IsNewest
    <3>4. m \in S /\ m \in Nat /\ m > replay.cursor
      <4>1. m \in PageOf
        BY <3>1, <3>3
      <4>2. m \in S
        BY <2>1, <3>3 DEF OnCell
      <4> QED
        BY <1>1, <1>2, <4>1, <4>2
    <3>5. \A j \in S : j <= m
      <4> TAKE j \in S
      <4>1. j \in replay.from \/ j \in OnCell(c, PageOf)
        BY <2>1 DEF OnCell
      <4>2. CASE j \in replay.from
        <5>1. j \in rows /\ j <= replay.cursor
          BY <1>3, <4>2
        <5>2. j \in Nat
          BY <1>1, <5>1
        <5> QED
          BY <1>1, <3>4, <5>1, <5>2
      <4> QED
        BY <3>3, <4>1, <4>2
    <3>6. IsNewest(S, m)
      BY <3>4, <3>5 DEF IsNewest
    <3>7. IsNewest(S, Newest(S)) /\ S \in SUBSET Nat
      BY <1>1, <2>2, NewestIs
    <3>8. Newest(S) = m
      BY <3>6, <3>7, NewestIsUnique
    <3> QED
      BY <1>2, <2>3, <2>5, <3>2, <3>8
  <2> QED
    BY <2>4, <2>5
<1> QED
  BY <1>2, <1>5, <1>6 DEF Replaying

\* The image of a replay depends on the log and on what was read.
LEMMA NewestSame ==
  ASSUME UNCHANGED log, replay'.from = replay.from, NEW c \in Cells
  PROVE  Newest(OnCell(c, replay.from))' = Newest(OnCell(c, replay.from))
<1>1. PICK S : S = OnCell(c, replay.from)
  OBVIOUS
<1>2. OnCell(c, replay.from)' = S
  BY <1>1 DEF OnCell
<1>3. Newest(OnCell(c, replay.from))' = Newest(S)
  BY <1>2 DEF Newest
<1> QED
  BY <1>1, <1>3

\* While the process reads no other step touches what it reads, but for the players.
LEMMA ReplayingStep ==
  ASSUME Types, Numbered, Durable, Coalesced, Replaying, Types', Numbered', WorkerAssumption, Stepped
  PROVE  Replaying'
<1>1. Len(log) \in Nat /\ DOMAIN log = 1..Len(log) /\ rows \in SUBSET (1..Len(log))
  BY RowsLogged
<1>2. ASSUME NEW c \in Cells, NEW color \in Colors, Grew(c, color) PROVE Replaying'
  <2> SUFFICES ASSUME pc' \in {"page", "guard", "overwrite"}
               PROVE  /\ replay'.from = {i \in rows' : i <= replay'.cursor}
                      /\ \A d \in Cells : replay'.image[d] = Newest(OnCell(d, replay.from))'
    BY DEF Replaying
  <2>1. /\ UNCHANGED <<pc, replay, rows>> /\ Len(log') = Len(log) + 1
        /\ \A i \in 1..Len(log) : log'[i] = log[i]
    BY <1>2 DEF Grew, bootVars, convexVars
  <2>2. /\ replay.from = {i \in rows : i <= replay.cursor}
        /\ \A d \in Cells : replay.image[d] = Newest(OnCell(d, replay.from))
    BY <2>1 DEF Replaying
  <2>3. ASSUME NEW d \in Cells PROVE Newest(OnCell(d, replay.from))' = Newest(OnCell(d, replay.from))
    <3>1. PICK S : S = OnCell(d, replay.from)
      OBVIOUS
    <3>2. S \in SUBSET (1..Len(log)) /\ replay.from \in SUBSET (1..Len(log))
      BY <1>1, <2>2, <3>1 DEF OnCell
    <3>3. OnCell(d, replay.from)' = S
      BY <2>1, <3>1, <3>2 DEF OnCell
    <3>4. Newest(S)' = Newest(S)
      BY <1>1, <2>1, <3>2, NewestStays
    <3>5. Newest(OnCell(d, replay.from))' = Newest(S)'
      BY <3>3 DEF Newest
    <3> QED
      BY <3>1, <3>4, <3>5
  <2> QED
    BY <2>1, <2>2, <2>3
<1>3. CASE pc' \notin {"page", "guard", "overwrite"}
  BY <1>3 DEF Replaying
<1>4. CASE /\ UNCHANGED <<log, pc, rows>> /\ replay'.from = replay.from
           /\ replay'.cursor = replay.cursor /\ replay'.image = replay.image
  BY <1>4, NewestSame DEF Replaying
<1>5. CASE CheckMarker
  <2>1. replay' = NoReplay /\ UNCHANGED <<log, rows>>
    BY <1>5 DEF CheckMarker, Booting
  <2>2. replay'.from = {} /\ replay'.cursor = 0 /\ \A c \in Cells : replay'.image[c] = 0
    BY <2>1 DEF NoReplay, Blank
  <2>3. {i \in rows' : i <= 0} = {}
    <3>1. \A i \in 1..Len(log) : ~(i <= 0)
      BY <1>1
    <3> QED
      BY <1>1, <2>1, <3>1
  <2>4. \A c \in Cells : Newest(OnCell(c, replay.from))' = 0
    BY <2>2 DEF Newest, OnCell
  <2> QED
    BY <2>2, <2>3, <2>4 DEF Replaying
<1>6. CASE Guard
  <2>1. replay' = [replay EXCEPT !.seen = Len(log)] /\ UNCHANGED <<log, rows>> /\ pc = "guard"
    BY <1>6 DEF Guard, Booting, Step
  <2>2. replay'.from = replay.from /\ replay'.cursor = replay.cursor /\ replay'.image = replay.image
    BY <2>1 DEF Types
  <2> QED
    BY <2>1, <2>2, NewestSame DEF Replaying
<1>7. CASE Page
  BY <1>7, PageReplays
<1>8. CASE Overwrite \/ Gone
  BY <1>3, <1>8 DEF Overwrite, Gone, Step
<1>9. CASE Moves \/ Images
  BY <1>3, <1>4, <1>9 DEF Moves, Images, convexVars
<1>10. CASE DrainOnce
  BY <1>3, <1>10 DEF DrainOnce, Coalesced, RunStep
<1>11. ASSUME NEW i, Correct(i) PROVE Replaying'
  BY <1>3, <1>11 DEF Correct
<1>12. ASSUME NEW t, Trigger(t) PROVE Replaying'
  BY <1>3, <1>12 DEF Trigger, RunStep
<1>13. ASSUME NEW outcome, Ends(outcome) PROVE Replaying'
  BY <1>4, <1>13 DEF Ends, convexVars
<1> QED
  BY <1>2, <1>5, <1>6, <1>7, <1>8, <1>9, <1>10, <1>11, <1>12, <1>13 DEF Stepped

-----------------------------------------------------------------------------
(***************************************************************************)
(* The guard against a wipe.                                               *)
(***************************************************************************)

\* A placement leaves an image of older writes painted or blank as it was.
LEMMA PaintedStays ==
  ASSUME Types, NEW c \in Cells, NEW color \in Colors, Grew(c, color),
         NEW d \in Cells, NEW v \in Nat, v <= Len(log)
  PROVE  (v # 0 /\ log'[v].color > 0) <=> (v # 0 /\ log[v].color > 0)
<1>1. Len(log) \in Nat
  BY Lengths
<1>2. v # 0 => v \in 1..Len(log)
  BY <1>1
<1> QED
  BY <1>2 DEF Grew

\* Between the guard and the overwrite only the players write (hardRebuildFromPlacements, 2b).
LEMMA GuardedStep ==
  ASSUME Types, Numbered, Coalesced, Guarded, Types', Stepped
  PROVE  Guarded'
<1>1. Len(log) \in Nat /\ DOMAIN log = 1..Len(log) /\ replay.seen \in Nat
  BY Lengths DEF Types
<1>2. ASSUME NEW c \in Cells, NEW color \in Colors, Grew(c, color) PROVE Guarded'
  <2> SUFFICES ASSUME pc' = "overwrite" PROVE Guarded'
    BY DEF Guarded
  <2>1. /\ UNCHANGED <<pc, replay, scenario>> /\ Len(log') = Len(log) + 1
        /\ \A i \in 1..Len(log) : log'[i] = log[i]
        /\ pixels' = [pixels EXCEPT ![c] = Len(log) + 1]
    BY <1>2 DEF Grew, bootVars
  <2>2. replay.seen <= Len(log)
    BY <2>1 DEF Guarded
  <2>3. \A d \in Cells : /\ pixels[d] \in Nat /\ pixels[d] <= Len(log)
                         /\ replay.image[d] \in Nat /\ replay.image[d] <= Len(log)
    BY DEF Types, Image, Numbered
  <2>4. Painted(replay.image)' = Painted(replay.image)
    <3>1. \A d \in Cells : (replay.image[d] # 0 /\ log'[replay.image[d]].color > 0)
                             <=> (replay.image[d] # 0 /\ log[replay.image[d]].color > 0)
      BY <1>2, <2>3, PaintedStays
    <3> QED
      BY <2>1, <3>1 DEF Painted
  <2>5. ASSUME ~scenario.forceEmpty, Painted(replay.image) = {}, NEW d \in Painted(pixels)'
        PROVE  pixels'[d] > replay.seen
    <3>1. d \in Cells
      BY DEF Painted
    <3>2. CASE d = c
      <4>1. pixels'[d] = Len(log) + 1
        BY <2>1, <3>2 DEF Types, Image
      <4> QED
        BY <1>1, <2>2, <4>1
    <3>3. CASE d # c
      <4>1. pixels'[d] = pixels[d]
        BY <2>1, <3>1, <3>3 DEF Types, Image
      <4>2. pixels[d] # 0 /\ log'[pixels[d]].color > 0
        BY <4>1 DEF Painted
      <4>3. d \in Painted(pixels)
        BY <1>2, <2>3, <3>1, <4>2, PaintedStays DEF Painted
      <4> QED
        BY <2>1, <2>5, <4>1, <4>3 DEF Guarded
    <3> QED
      BY <3>2, <3>3
  <2>6. replay.seen <= Len(log')
    BY <1>1, <2>1, <2>2
  <2> QED
    BY <2>1, <2>4, <2>5, <2>6 DEF Guarded
<1>3. CASE pc' # "overwrite"
  BY <1>3 DEF Guarded
<1>4. CASE UNCHANGED <<scenario, log, pixels, replay, pc>>
  BY <1>4 DEF Guarded, Painted
<1>5. CASE Guard
  <2> SUFFICES ASSUME pc' = "overwrite" PROVE Guarded'
    BY DEF Guarded
  <2>1. /\ ~(Painted(replay.image) = {} /\ ~scenario.forceEmpty /\ Painted(pixels) # {})
        /\ UNCHANGED <<scenario, log, pixels>>
    BY <1>5 DEF Guard, Step, Booting
  <2>2. replay'.seen = Len(log) /\ replay'.image = replay.image
    BY <1>5 DEF Guard, Types
  <2>3. Painted(replay.image)' = Painted(replay.image) /\ Painted(pixels)' = Painted(pixels)
    BY <2>1, <2>2 DEF Painted
  <2> QED
    BY <1>1, <2>1, <2>2, <2>3 DEF Guarded
<1>6. CASE CheckMarker \/ Page \/ Overwrite \/ Gone
  BY <1>3, <1>6 DEF CheckMarker, Page, Overwrite, Gone, Step
<1>7. CASE Moves \/ Images
  BY <1>3, <1>4, <1>7 DEF Moves, Images
<1>8. CASE DrainOnce
  BY <1>3, <1>8 DEF DrainOnce, Coalesced, RunStep
<1>9. ASSUME NEW i, Correct(i) PROVE Guarded'
  BY <1>3, <1>9 DEF Correct
<1>10. ASSUME NEW t, Trigger(t) PROVE Guarded'
  BY <1>3, <1>10 DEF Trigger, RunStep
<1>11. ASSUME NEW outcome, Ends(outcome) PROVE Guarded'
  BY <1>4, <1>11 DEF Ends
<1> QED
  BY <1>2, <1>5, <1>6, <1>7, <1>8, <1>9, <1>10, <1>11 DEF Stepped

-----------------------------------------------------------------------------
(***************************************************************************)
(* The snapshot and the live grid.                                         *)
(***************************************************************************)

\* A placement is the newest write of whatever it joins.
LEMMA NewcomerIsNewest ==
  ASSUME Types', Numbered', NEW T \in SUBSET (1..Len(log')), Len(log') \in T
  PROVE  Newest(T)' = Len(log') /\ T # {}
<1>1. Len(log') \in Nat /\ T \in SUBSET Nat
  BY LenProperties DEF Types
<1>2. IsNewest(T, Len(log'))
  <2>1. \A j \in T : j <= Len(log')
    BY <1>1
  <2> QED
    BY <2>1 DEF IsNewest
<1>3. IsNewest(T, Newest(T)')
  BY NewestWillBe
<1> QED
  BY <1>1, <1>2, <1>3, NewestIsUnique

\* A snapshot, by a rebuild or a run, is of the live grid; a placement goes on top.
LEMMA SnappedStep ==
  ASSUME Types, Numbered, Durable, Snapped, Types', Numbered', WorkerAssumption, Stepped
  PROVE  Snapped'
<1>1. Len(log) \in Nat /\ DOMAIN log = 1..Len(log) /\ snap.version \in Nat /\ drained \in Nat
  BY Lengths DEF Types
<1>2. ASSUME NEW c \in Cells, NEW color \in Colors, Grew(c, color) PROVE Snapped'
  <2>1. /\ UNCHANGED <<snap, rebuilt, recorded, corrected>> /\ Len(log') = Len(log) + 1
        /\ DOMAIN log' = 1..(Len(log) + 1)
        /\ \A i \in 1..Len(log) : log'[i] = log[i]
        /\ log'[Len(log) + 1].cell = c
        /\ pixels' = [pixels EXCEPT ![c] = Len(log) + 1]
    BY <1>2 DEF Grew, convexVars, history
  <2>2. snap.version <= Len(log) /\ snap.version < Len(log')
    BY <1>1, <2>1 DEF Snapped
  <2>3. ASSUME NEW d \in Cells, recorded, snap.version > 0
        PROVE  pixels'[d] = IF Above(d)' = {} THEN snap'.image[d] ELSE Newest(Above(d))'
    <3>1. PICK T : T = Above(d)'
      OBVIOUS
    <3>2. T = {i \in 1..(Len(log) + 1) : log'[i].cell = d /\ i > snap.version}
      BY <2>1, <3>1 DEF Above, OnCell
    <3>3. Newest(Above(d))' = Newest(T)'
      BY <3>1 DEF Newest
    <3>4. CASE d = c
      <4>1. Len(log') \in T /\ T \in SUBSET (1..Len(log'))
        BY <1>1, <2>1, <2>2, <3>2, <3>4
      <4>2. Newest(T)' = Len(log') /\ T # {}
        BY <4>1, NewcomerIsNewest
      <4>3. pixels'[d] = Len(log')
        BY <2>1, <3>4 DEF Types, Image
      <4> QED
        BY <3>1, <3>3, <4>2, <4>3
    <3>5. CASE d # c
      <4>1. T = {i \in 1..Len(log) : log[i].cell = d /\ i > snap.version}
        <5>1. \A i \in 1..(Len(log) + 1) : i = Len(log) + 1 \/ i \in 1..Len(log)
          BY <1>1
        <5>2. \A i \in 1..Len(log) : i \in 1..(Len(log) + 1)
          BY <1>1
        <5> QED
          BY <2>1, <3>2, <3>5, <5>1, <5>2
      <4>2. T = Above(d) /\ T \in SUBSET (1..Len(log))
        BY <1>1, <4>1 DEF Above, OnCell
      <4>3. Newest(T)' = Newest(T)
        <5>1. Len(log) <= Len(log')
          BY <1>1, <2>1
        <5> QED
          BY <4>2, <5>1, NewestStays
      <4>4. pixels'[d] = pixels[d]
        BY <2>1, <3>5 DEF Types, Image
      <4>5. pixels[d] = IF T = {} THEN snap.image[d] ELSE Newest(T)
        BY <2>3, <4>2 DEF Snapped
      <4> QED
        BY <2>1, <3>1, <3>3, <4>3, <4>4, <4>5
    <3> QED
      BY <3>4, <3>5
  <2>4. snap'.version <= Len(log')
    BY <1>1, <2>1, <2>2
  <2>5. recorded' /\ rebuilt' => \A i \in corrected' : i <= snap'.version
    BY <2>1 DEF Snapped
  <2> QED
    BY <2>1, <2>3, <2>4, <2>5 DEF Snapped
<1>3. CASE UNCHANGED <<log, pixels, snap, recorded, rebuilt, corrected>>
  <2>1. ASSUME NEW c \in Cells PROVE Above(c)' = Above(c) /\ Newest(Above(c))' = Newest(Above(c))
    <3>1. PICK T : T = Above(c)
      OBVIOUS
    <3>2. Above(c)' = T
      BY <1>3, <3>1 DEF Above, OnCell
    <3> QED
      BY <1>3, <3>1, <3>2 DEF Newest
  <2> QED
    BY <1>3, <2>1 DEF Snapped
<1>4. CASE Images
  <2>1. /\ snap' = [version |-> meta, image |-> pixels]
        /\ UNCHANGED <<log, pixels, corrected>>
    BY <1>4 DEF Images
  <2>2. snap'.version = Len(log) /\ snap'.image = pixels
    BY <2>1 DEF Numbered
  <2>3. \A c \in Cells : Above(c)' = {}
    <3>1. \A i \in 1..Len(log) : ~(i > Len(log))
      BY <1>1
    <3> QED
      BY <1>1, <2>1, <2>2, <3>1 DEF Above, OnCell
  <2>4. \A i \in corrected : i <= Len(log)
    BY <1>1 DEF Durable
  <2> QED
    BY <1>1, <2>1, <2>2, <2>3, <2>4 DEF Snapped
<1>5. CASE Overwrite
  BY <1>5 DEF Overwrite, Booting, Snapped
<1>6. ASSUME NEW i, Correct(i) PROVE Snapped'
  <2>1. ~rebuilt /\ UNCHANGED <<log, pixels, snap, recorded, rebuilt>>
    BY <1>6 DEF Correct, redisVars
  <2>2. ASSUME NEW c \in Cells PROVE Above(c)' = Above(c) /\ Newest(Above(c))' = Newest(Above(c))
    <3>1. PICK T : T = Above(c)
      OBVIOUS
    <3>2. Above(c)' = T
      BY <2>1, <3>1 DEF Above, OnCell
    <3> QED
      BY <2>1, <3>1, <3>2 DEF Newest
  <2> QED
    BY <2>1, <2>2 DEF Snapped
<1>7. CASE Moves \/ CheckMarker \/ Page \/ Guard \/ Gone
  BY <1>3, <1>7 DEF Moves, CheckMarker, Page, Guard, Gone, Booting, redisVars, convexVars, history
<1>8. CASE DrainOnce
  BY <1>3, <1>8 DEF DrainOnce, RunStep
<1>9. ASSUME NEW t, Trigger(t) PROVE Snapped'
  BY <1>3, <1>9 DEF Trigger, RunStep, convexVars
<1>10. ASSUME NEW outcome, Ends(outcome) PROVE Snapped'
  BY <1>3, <1>10 DEF Ends, convexVars, history
<1> QED
  BY <1>2, <1>4, <1>5, <1>6, <1>7, <1>8, <1>9, <1>10 DEF Stepped

-----------------------------------------------------------------------------
(***************************************************************************)
(* The rebuilt grid and the log.                                           *)
(***************************************************************************)
Shown(c) == OnCell(c, DOMAIN log \ (buried \cup corrected))

\* The grid of an overwrite is the replayed log, and what the replay had not read goes.
LEMMA RebuildStep ==
  ASSUME Types, Numbered, Durable, Replaying, RebuildShowsLog, Types', Numbered', WorkerAssumption, Stepped
  PROVE  RebuildShowsLog'
<1>1. Len(log) \in Nat /\ DOMAIN log = 1..Len(log) /\ rows \in SUBSET (1..Len(log))
  BY RowsLogged
<1> SUFFICES ASSUME rebuilt', NEW d \in Cells PROVE pixels'[d] = Newest(Shown(d))'
  BY DEF RebuildShowsLog, Shown
<1>2. rebuilt => pixels[d] = Newest(Shown(d))
  BY DEF RebuildShowsLog, Shown
<1>3. ASSUME NEW c \in Cells, NEW color \in Colors, Grew(c, color) PROVE pixels'[d] = Newest(Shown(d))'
  <2>1. /\ UNCHANGED <<rebuilt, buried, corrected>> /\ Len(log') = Len(log) + 1
        /\ DOMAIN log' = 1..(Len(log) + 1)
        /\ \A i \in 1..Len(log) : log'[i] = log[i]
        /\ log'[Len(log) + 1].cell = c
        /\ pixels' = [pixels EXCEPT ![c] = Len(log) + 1]
    <3>1. log'[Len(log) + 1].cell = c
      BY <1>3 DEF Grew
    <3>2. /\ UNCHANGED history /\ Len(log') = Len(log) + 1
          /\ DOMAIN log' = 1..(Len(log) + 1)
          /\ \A i \in 1..Len(log) : log'[i] = log[i]
          /\ pixels' = [pixels EXCEPT ![c] = Len(log) + 1]
      BY <1>3 DEF Grew
    <3> QED
      BY <3>1, <3>2 DEF history
  <2>2. PICK T : T = Shown(d)'
    OBVIOUS
  <2>3. T = {i \in (1..(Len(log) + 1)) \ (buried \cup corrected) : log'[i].cell = d}
    BY <2>1, <2>2 DEF Shown, OnCell
  <2>4. Newest(Shown(d))' = Newest(T)'
    BY <2>2 DEF Newest
  <2>5. Len(log) + 1 \notin buried \cup corrected
    <3>1. \A i \in 1..Len(log) : i # Len(log) + 1
      BY <1>1
    <3>2. buried \cup corrected \subseteq 1..Len(log)
      <4>1. drained \in Nat /\ drained <= Len(log)
        BY DEF Types, Durable
      <4>2. 1..drained \subseteq 1..Len(log)
        BY <1>1, <4>1
      <4> QED
        BY <1>1, <4>2 DEF Durable
    <3> QED
      BY <3>1, <3>2
  <2>6. CASE d = c
    <3>1. Len(log') \in T /\ T \in SUBSET (1..Len(log'))
      BY <1>1, <2>1, <2>3, <2>5, <2>6
    <3>2. Newest(T)' = Len(log')
      BY <3>1, NewcomerIsNewest
    <3>3. pixels'[d] = Len(log')
      BY <2>1, <2>6 DEF Types, Image
    <3> QED
      BY <2>4, <3>2, <3>3
  <2>7. CASE d # c
    <3>1. T = {i \in (1..Len(log)) \ (buried \cup corrected) : log[i].cell = d}
      <4>1. \A i \in 1..(Len(log) + 1) : i = Len(log) + 1 \/ i \in 1..Len(log)
        BY <1>1
      <4>2. \A i \in 1..Len(log) : i \in 1..(Len(log) + 1)
        BY <1>1
      <4> QED
        BY <2>1, <2>3, <2>7, <4>1, <4>2
    <3>2. T = Shown(d) /\ T \in SUBSET (1..Len(log))
      BY <1>1, <3>1 DEF Shown, OnCell
    <3>3. Newest(T)' = Newest(T)
      <4>1. Len(log) <= Len(log')
        BY <1>1, <2>1
      <4> QED
        BY <3>2, <4>1, NewestStays
    <3>4. pixels'[d] = pixels[d]
      BY <2>1, <2>7 DEF Types, Image
    <3> QED
      BY <1>2, <2>1, <2>4, <3>2, <3>3, <3>4
  <2> QED
    BY <2>6, <2>7
<1>4. CASE UNCHANGED <<log, pixels, rebuilt, buried, corrected>>
  <2>1. PICK T : T = Shown(d)
    OBVIOUS
  <2>2. Shown(d)' = T
    BY <1>4, <2>1 DEF Shown, OnCell
  <2>3. Newest(Shown(d))' = Newest(T)
    BY <1>4, <2>2 DEF Newest
  <2> QED
    BY <1>2, <1>4, <2>1, <2>3
<1>5. CASE Overwrite
  <2>1. /\ pc = "overwrite" /\ pixels' = replay.image /\ buried' = DOMAIN log \ replay.from
        /\ UNCHANGED <<log, corrected>>
    BY <1>5 DEF Overwrite, Step, Booting
  <2>2. replay.from = {i \in rows : i <= replay.cursor} /\ replay.image[d] = Newest(OnCell(d, replay.from))
    BY <2>1 DEF Replaying
  <2>3. DOMAIN log \ (buried' \cup corrected) = replay.from
    <3>1. replay.from \subseteq rows /\ rows \subseteq DOMAIN log /\ rows \cap corrected = {}
      BY <1>1, <2>2 DEF Durable
    <3> QED
      BY <2>1, <3>1
  <2>4. PICK T : T = OnCell(d, replay.from)
    OBVIOUS
  <2>5. Shown(d)' = T
    BY <2>1, <2>3, <2>4 DEF Shown, OnCell
  <2>6. Newest(Shown(d))' = Newest(T)
    BY <2>1, <2>5 DEF Newest
  <2> QED
    BY <2>1, <2>2, <2>4, <2>6
<1>6. CASE Moves \/ Images \/ CheckMarker \/ Page \/ Guard \/ Gone
  BY <1>4, <1>6 DEF Moves, Images, CheckMarker, Page, Guard, Gone, Booting, redisVars, history
<1>7. CASE DrainOnce
  BY <1>4, <1>7 DEF DrainOnce, RunStep
<1>8. ASSUME NEW i, Correct(i) PROVE pixels'[d] = Newest(Shown(d))'
  BY <1>8 DEF Correct
<1>9. ASSUME NEW t, Trigger(t) PROVE pixels'[d] = Newest(Shown(d))'
  BY <1>4, <1>9 DEF Trigger, RunStep
<1>10. ASSUME NEW outcome, Ends(outcome) PROVE pixels'[d] = Newest(Shown(d))'
  BY <1>4, <1>10 DEF Ends, history
<1> QED
  BY <1>3, <1>5, <1>6, <1>7, <1>8, <1>9, <1>10 DEF Stepped

-----------------------------------------------------------------------------
(***************************************************************************)
(* The theorems.                                                           *)
(***************************************************************************)

\* An empty canvas, no process, nothing asked.
LEMMA InitInv ==
  ASSUME WorkerAssumption, WorkInit
  PROVE  WorkerInv
<1>1. Blank \in Image /\ \A c \in Cells : Blank[c] = 0
  BY DEF Blank, Image
<1>2. log \in Seq(Entry) /\ Len(log) = 0 /\ DOMAIN log = {}
  BY DEF WorkInit
<1>3. NoReplay \in [cursor: Nat, count: Nat, image: Image, from: SUBSET Nat, seen: Nat]
  BY <1>1 DEF NoReplay
<1>4. [version |-> 0, image |-> Blank] \in [version: Nat, image: Image]
  BY <1>1
<1>5. Quiet \in [seen: Nat, state: Outcomes] /\ Quiet.seen = 0 /\ Quiet.state = "none"
  BY DEF Quiet, Outcomes
<1>6. Types
  <2>1. asked \in [Nudges -> [seen: Nat, state: Outcomes]]
    BY <1>5 DEF WorkInit
  <2> QED
    BY <1>1, <1>2, <1>3, <1>4, <2>1 DEF WorkInit, Types
<1>7. Numbered
  BY <1>1, <1>2 DEF WorkInit, Numbered, NoReplay
<1>8. Durable
  BY <1>2 DEF WorkInit, Durable
<1>9. Coalesced /\ AnswerCoversTrigger
  <2>1. \A n \in Nudges : asked[n].seen = 0 /\ asked[n].state = "none"
    BY <1>5 DEF WorkInit
  <2> QED
    BY <1>2, <2>1 DEF WorkInit, Coalesced, AnswerCoversTrigger
<1>10. Replaying /\ Guarded /\ RebuildShowsLog
  BY DEF WorkInit, Replaying, Guarded, RebuildShowsLog
<1>11. Snapped
  BY <1>2 DEF WorkInit, Snapped
<1> QED
  BY <1>6, <1>7, <1>8, <1>9, <1>10, <1>11 DEF WorkerInv

\* Every step of players, operator, process and supervisor keeps it.
LEMMA StepInv ==
  ASSUME WorkerAssumption, WorkerInv, [WorkNext]_workVars
  PROVE  WorkerInv'
<1>1. /\ Types /\ Numbered /\ Durable /\ Coalesced /\ Replaying /\ Guarded /\ Snapped
      /\ AnswerCoversTrigger /\ RebuildShowsLog
  BY DEF WorkerInv
<1>2. Stepped
  BY <1>1, NextIsStepped
<1>3. Types'
  BY <1>1, TypesStep
<1>4. Numbered' /\ Durable'
  BY <1>1, <1>2, <1>3, NumberedStep, DurableStep
<1>5. Answers'
  BY <1>1, <1>2, <1>3, AnswersStep DEF Answers
<1>6. Replaying'
  BY <1>1, <1>2, <1>3, <1>4, ReplayingStep
<1>7. Guarded'
  BY <1>1, <1>2, <1>3, GuardedStep
<1>8. Snapped'
  BY <1>1, <1>2, <1>3, <1>4, SnappedStep
<1>9. RebuildShowsLog'
  BY <1>1, <1>2, <1>3, <1>4, RebuildStep
<1> QED
  BY <1>3, <1>4, <1>5, <1>6, <1>7, <1>8, <1>9 DEF WorkerInv, Answers

\* The inductive invariant of the worker's boot, triggers, runs and shutdown.
THEOREM WorkerIsInductive == WorkSpec => []WorkerInv
<1>1. WorkInit => WorkerInv
  BY InitInv, WorkerAssumption
<1>2. WorkerInv /\ [WorkNext]_workVars => WorkerInv'
  BY StepInv, WorkerAssumption
<1> QED
  BY <1>1, <1>2, PTL DEF WorkSpec

\* What a trigger saw is durable when its promise resolves as served (DrainCoalescer).
THEOREM AnswersAreLate == WorkSpec => []AnswerCoversTrigger
<1>1. WorkerInv => AnswerCoversTrigger
  BY DEF WorkerInv
<1> QED
  BY <1>1, WorkerIsInductive, PTL

\* A rebuilt grid is the corrected log, less what the replay had not read (rebuild.ts).
THEOREM RebuildIsReplay == WorkSpec => []RebuildShowsLog
<1>1. WorkerInv => RebuildShowsLog
  BY DEF WorkerInv
<1> QED
  BY <1>1, WorkerIsInductive, PTL

\* With everything durable and recorded a cold start would show the live grid.
THEOREM RestoreIsLive == WorkSpec => []RestoreShowsLive
<1>1. WorkerInv => RestoreShowsLive
  <2> SUFFICES ASSUME WorkerInv, drained = Len(log), snap.version > 0, corrected = {} \/ rebuilt, recorded,
                      NEW c \in Cells, NEW tail, tail = {i \in OnCell(c, rows) : log[i].version > snap.version}
               PROVE  pixels[c] = IF tail = {} THEN snap.image[c] ELSE Newest(tail)
    BY DEF RestoreShowsLive
  <2>1. Types /\ Numbered /\ Durable /\ Snapped
    BY DEF WorkerInv
  <2>2. Len(log) \in Nat /\ DOMAIN log = 1..Len(log) /\ snap.version \in Nat /\ rows = (1..Len(log)) \ corrected
    BY <2>1, Lengths DEF Types, Durable
  <2>3. \A i \in 1..Len(log) : i > snap.version => i \notin corrected
    <3>1. \A i \in corrected : i <= snap.version
      BY <2>1 DEF Snapped
    <3> QED
      BY <2>2, <3>1
  <2>4. \A i \in 1..Len(log) : log[i].version = i
    BY <2>1, <2>2 DEF Numbered
  <2>5. tail = Above(c)
    BY <2>2, <2>3, <2>4 DEF Above, OnCell
  <2>6. pixels[c] = IF Above(c) = {} THEN snap.image[c] ELSE Newest(Above(c))
    BY <2>1 DEF Snapped
  <2> QED
    BY <2>5, <2>6
<1> QED
  BY <1>1, WorkerIsInductive, PTL

\* A step that takes the color off a populated grid is forced, or takes only pixels that
\* came after the guard (hardRebuildFromPlacements, 2b).
THEOREM NoWipe == WorkSpec => NeverWipesPopulated
<1> DEFINE Wipes == ~scenario.forceEmpty /\ Painted(pixels) # {} /\ pixels' # pixels
                    /\ (\A c \in Cells : pixels'[c] = 0 \/ log'[pixels'[c]].color = 0)
                    /\ log' = log
           Spares == \A c \in Painted(pixels) : pixels[c] > replay.seen
<1>1. WorkerInv /\ [WorkNext]_workVars => (Wipes => Spares)
  <2> SUFFICES ASSUME WorkerInv, [WorkNext]_workVars, Wipes PROVE Spares
    OBVIOUS
  <2>1. Types /\ Numbered /\ Durable /\ Guarded
    BY DEF WorkerInv
  <2>2. Stepped
    BY <2>1, NextIsStepped
  <2>3. log' = log /\ pixels' # pixels /\ ~scenario.forceEmpty
        /\ (\A c \in Cells : pixels'[c] = 0 \/ log[pixels'[c]].color = 0)
    OBVIOUS
  <2>4. ASSUME NEW c \in Cells, NEW color \in Colors, Grew(c, color) PROVE FALSE
    <3>1. Len(log') = Len(log) + 1 /\ Len(log) \in Nat
      BY <2>4 DEF Grew
    <3> QED
      BY <2>3, <3>1
  <2>5. Overwrite
    <3>1. ~(Moves \/ Images \/ CheckMarker \/ Page \/ Guard \/ Gone \/ DrainOnce)
      BY <2>3 DEF Moves, Images, CheckMarker, Page, Guard, Gone, DrainOnce, RunStep, redisVars
    <3>2. ASSUME NEW i, Correct(i) PROVE FALSE
      BY <2>3, <3>2 DEF Correct, redisVars
    <3>3. ASSUME NEW t, Trigger(t) PROVE FALSE
      BY <2>3, <3>3 DEF Trigger, RunStep
    <3>4. ASSUME NEW outcome, Ends(outcome) PROVE FALSE
      BY <2>3, <3>4 DEF Ends
    <3> QED
      BY <2>2, <2>4, <3>1, <3>2, <3>3, <3>4 DEF Stepped
  <2>6. pc = "overwrite" /\ pixels' = replay.image
    BY <2>5 DEF Overwrite, Step
  <2>7. Painted(replay.image) = {}
    <3>1. ASSUME NEW c \in Cells, replay.image[c] # 0 PROVE ~(log[replay.image[c]].color > 0)
      BY <2>3, <2>6, <3>1
    <3> QED
      BY <3>1 DEF Painted
  <2> QED
    BY <2>1, <2>3, <2>6, <2>7 DEF Guarded
<1>2. WorkerInv /\ [WorkNext]_workVars => [Wipes => Spares]_workVars
  BY <1>1
<1> QED
  BY <1>2, WorkerIsInductive, PTL DEF WorkSpec, NeverWipesPopulated
=============================================================================
