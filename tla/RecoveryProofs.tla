--------------------------- MODULE RecoveryProofs ---------------------------
(***************************************************************************)
(* Proofs about the worker's durable side, for all constants: first the    *)
(* drain alone, then the drain with snapshots and the restore.             *)
(*                                                                         *)
(* The drain, for any users, cells, workers, batch size, cap and bounds:   *)
(* its types, the invariants of module DrainProps, that it implements      *)
(* module PlacementLog when the stream has no cap, and that the            *)
(* incremental cellCount is exact as long as the cap evicts nothing early. *)
(***************************************************************************)
EXTENDS RecoveryProps, FiniteSetTheorems, SequenceTheorems, WellFoundedInduction, TLAPS

-----------------------------------------------------------------------------
(***************************************************************************)
(* Lemmas on the operators the actions are built from.                     *)
(***************************************************************************)

\* A bounded non-empty set of naturals has a greatest element, and Latest is it
\* (the id drain.ts takes as lastId).
LEMMA LatestIsGreatest ==
  ASSUME NEW S \in SUBSET Nat, S # {}, NEW n \in Nat, \A s \in S : s <= n
  PROVE  Latest(S) \in S /\ \A j \in S : j <= Latest(S)
<1> DEFINE Less == {ss \in Nat \X Nat : ss[1] < ss[2]}
           D == {n - s : s \in S}
<1>1. IsWellFoundedOn(Less, Nat)
  BY NatLessThanWellFounded DEF OpToRel
<1>2. \A s \in S : n - s \in Nat
  OBVIOUS
<1>3. D \subseteq Nat /\ D # {}
  BY <1>2
<1> HIDE DEF Less
<1>4. PICK d \in D : \A m \in D : ~ (<<m, d>> \in Less)
  BY <1>1, <1>3, WFMin
<1>5. PICK s \in S : d = n - s
  BY <1>4
<1>6. \A j \in S : j <= s
  <2> TAKE j \in S
  <2>1. n - j \in D /\ n - j \in Nat /\ d \in Nat
    BY <1>2, <1>3, <1>4
  <2>2. ~ (n - j < d)
    BY <1>4, <2>1 DEF Less
  <2> QED
    BY <1>5, <2>1, <2>2
<1> QED
  BY <1>5, <1>6 DEF Latest

\* Disjoint writes add up: the points of a batch and of what was durable before.
LEMMA CountsAdd ==
  ASSUME NEW S, NEW T, IsFiniteSet(S), IsFiniteSet(T), S \cap T = {}, NEW u
  PROVE  Cardinality(By(u, S \cup T)) = Cardinality(By(u, S)) + Cardinality(By(u, T))
<1>1. By(u, S) \subseteq S /\ By(u, T) \subseteq T
  BY DEF By
<1>2. IsFiniteSet(By(u, S)) /\ IsFiniteSet(By(u, T))
  BY <1>1, FS_Subset
<1>3. By(u, S \cup T) = By(u, S) \cup By(u, T) /\ By(u, S) \cap By(u, T) = {}
  BY DEF By
<1>4. Cardinality(By(u, S) \cup By(u, T)) =
        Cardinality(By(u, S)) + Cardinality(By(u, T)) - Cardinality(By(u, S) \cap By(u, T))
  BY <1>2, FS_Union
<1>5. Cardinality(By(u, S) \cap By(u, T)) = 0
  BY <1>3, FS_EmptySet
<1>6. Cardinality(By(u, S)) \in Nat /\ Cardinality(By(u, T)) \in Nat
  BY <1>2, FS_CardinalityType
<1>7. Cardinality(By(u, S \cup T)) = Cardinality(By(u, S) \cup By(u, T))
  BY <1>3
<1> QED
  BY <1>4, <1>5, <1>6, <1>7

\* What XADD MAXLEN leaves is part of the stream, and an entry it evicts has at
\* least StreamMaxLen entries after it (place.lua's backstop).
LEMMA CapKeepsNewest ==
  ASSUME NEW entries, \A e \in entries : e.id \in Nat, NEW top \in Nat,
         \A e \in entries : e.id <= top, StreamMaxLen \in Nat,
         NEW kept \in Capped(entries)
  PROVE  /\ kept \subseteq entries
         /\ \A e \in entries : e \in kept \/ (StreamMaxLen > 0 /\ e.id + StreamMaxLen <= top)
<1>1. CASE kept = entries
  BY <1>1
<1>2. CASE kept # entries
  <2>1. PICK k \in Ids(entries) :
          /\ kept = {e \in entries : e.id >= k}
          /\ StreamMaxLen > 0 /\ Cardinality(Ids(kept)) >= StreamMaxLen
    BY <1>2 DEF Capped
  <2>2. k \in Nat
    BY DEF Ids
  <2>3. ASSUME NEW e \in entries, e \notin kept
        PROVE  e.id + StreamMaxLen <= top
    <3>1. e.id < k
      BY <2>1, <2>2, <2>3
    <3>2. Ids(kept) \subseteq (e.id + 1)..top
      BY <2>1, <2>2, <3>1 DEF Ids
    <3>3. IsFiniteSet((e.id + 1)..top) /\
          Cardinality((e.id + 1)..top) = IF e.id + 1 > top THEN 0 ELSE top - (e.id + 1) + 1
      BY FS_Interval
    <3>4. Cardinality(Ids(kept)) <= Cardinality((e.id + 1)..top) /\ IsFiniteSet(Ids(kept))
      BY <3>2, <3>3, FS_Subset
    <3>5. Cardinality(Ids(kept)) \in Nat
      BY <3>4, FS_CardinalityType
    <3> QED
      BY <2>1, <3>3, <3>4, <3>5
  <2> QED
    BY <2>1, <2>3
<1> QED
  BY <1>1, <1>2

-----------------------------------------------------------------------------
(***************************************************************************)
(* The inductive invariant: the types and DrainInv together, because the   *)
(* types of what applyFlush computes rest on batches being non-empty and   *)
(* on the set of writes being finite.                                      *)
(***************************************************************************)
IInv == TypeOK /\ DrainInv

\* Distinct writes have distinct ids in 1..clock, so there are finitely many.
LEMMA WrittenFinite ==
  ASSUME TypeOK, Numbering
  PROVE  IsFiniteSet(written)
<1> DEFINE idOf == [e \in written |-> e.id]
<1>1. idOf \in Injection(written, 1..clock)
  BY DEF Numbering, Injection, IsInjective
<1>2. IsFiniteSet(1..clock)
  BY FS_Interval DEF TypeOK
<1> QED
  BY <1>1, <1>2, FS_Injection

\* A batch in flight has a last id and a newest version, both of one of its writes.
LEMMA BatchLatest ==
  ASSUME TypeOK, Numbering, NEW b, b \subseteq written, b # {}
  PROVE  /\ Latest(Ids(b)) \in Ids(b) /\ Latest(Ids(b)) \in Nat /\ Latest(Ids(b)) <= clock
         /\ \A e \in b : e.id <= Latest(Ids(b))
         /\ NewestVersion(b) \in Nat
<1>1. Ids(b) \in SUBSET Nat /\ Ids(b) # {} /\ \A s \in Ids(b) : s <= clock
  BY DEF Ids, Numbering
<1>2. clock \in Nat
  BY DEF TypeOK
<1>3. Latest(Ids(b)) \in Ids(b) /\ \A j \in Ids(b) : j <= Latest(Ids(b))
  BY <1>1, <1>2, LatestIsGreatest
<1> DEFINE V == {e.version : e \in b}
<1>4. V \in SUBSET Nat /\ V # {} /\ \A s \in V : s <= clock
  BY DEF Numbering
<1> HIDE DEF V
<1>5. Latest(V) \in V
  BY <1>2, <1>4, LatestIsGreatest
<1>6. NewestVersion(b) \in Nat
  BY <1>4, <1>5 DEF V, NewestVersion
<1> QED
  BY <1>1, <1>3, <1>6 DEF Ids

-----------------------------------------------------------------------------
(***************************************************************************)
(* What a producer does, whichever script it is.                           *)
(***************************************************************************)
Produced ==
  /\ clock' \in Nat /\ clock <= clock' /\ meta' = clock'
  /\ pixels' \in [Cells -> Nat]
  /\ written \subseteq written' /\ written' \subseteq Write
  /\ \A e \in written' \ written : clock < e.id /\ e.id <= clock' /\ e.version = e.id
  /\ \A e, f \in written' \ written : e.id = f.id => e = f
  /\ stream' \subseteq written'
  /\ \A e \in stream \cup (written' \ written) : e \in stream' \/ Evictable(e)'
  /\ UNCHANGED <<lock, canvasRow, convexVars, workerVars, orphans, faults>>

LEMMA PlaceProduces ==
  ASSUME TypeOK, Numbering, NEW u \in Users, NEW c \in Cells, NEW color \in Colors,
         Place(u, c, color)
  PROVE  Produced
<1> DEFINE e == [id |-> clock + 1, version |-> meta + 1, cell |-> c,
                 color |-> color, user |-> u]
           entries == stream \cup {e}
<1> USE DrainAssumption
<1>1. /\ clock' = clock + 1 /\ meta' = meta + 1 /\ clock \in Nat /\ meta \in Nat
      /\ written' = written \cup {e} /\ stream' \in Capped(entries)
      /\ UNCHANGED <<lock, canvasRow, convexVars, workerVars, orphans, faults>>
  BY DEF Place, TypeOK
<1>2. pixels' \in [Cells -> Nat]
  BY DEF Place, TypeOK
<1>3. e \in Write
  BY <1>1 DEF Write
<1>4. \A f \in entries : f.id \in Nat /\ f.id <= clock + 1
  BY <1>1 DEF Numbering
<1> HIDE DEF entries
<1>5. /\ stream' \subseteq entries
      /\ \A f \in entries : f \in stream' \/ (StreamMaxLen > 0 /\ f.id + StreamMaxLen <= clock + 1)
  BY <1>1, <1>4, CapKeepsNewest
<1>6. \A f \in stream \cup (written' \ written) : f \in stream' \/ Evictable(f)'
  BY <1>1, <1>5 DEF Evictable, entries
<1>7. stream' \subseteq written'
  BY <1>1, <1>5 DEF entries, Numbering
<1>8. written' \subseteq Write
  BY <1>1, <1>3 DEF TypeOK
<1>9. \A f \in written' \ written : f = e
  BY <1>1
<1> QED
  BY <1>1, <1>2, <1>6, <1>7, <1>8, <1>9 DEF Produced, Numbering

LEMMA ModerateProduces ==
  ASSUME TypeOK, Numbering, NEW n \in 1..MaxModCells,
         NEW target \in [1..n -> Cells], NEW color \in [1..n -> Colors],
         Moderate(n, target, color)
  PROVE  Produced
<1> DEFINE rec(i) == [id |-> clock + i, version |-> meta + i, cell |-> target[i],
                      color |-> color[i], user |-> NoUser]
           es == {rec(i) : i \in 1..n}
<1> USE DrainAssumption
<1>1. /\ clock' = clock + n /\ meta' = meta + n /\ clock \in Nat /\ meta \in Nat /\ n \in Nat
      /\ written' = written \cup es /\ stream' = stream \cup es
      /\ UNCHANGED <<lock, canvasRow, convexVars, workerVars, orphans, faults>>
  BY DEF Moderate, TypeOK
<1>2. pixels' \in [Cells -> Nat]
  <2>1. ASSUME NEW c \in Cells, \E i \in 1..n : target[i] = c
        PROVE  Latest({i \in 1..n : target[i] = c}) \in Nat
    <3> DEFINE S == {i \in 1..n : target[i] = c}
    <3>1. S \in SUBSET Nat /\ S # {} /\ \A s \in S : s <= n
      BY <1>1, <2>1
    <3> HIDE DEF S
    <3>2. Latest(S) \in S
      BY <1>1, <3>1, LatestIsGreatest
    <3> QED
      BY <3>1, <3>2 DEF S
  <2> DEFINE byte(c) == IF \E i \in 1..n : target[i] = c
                          THEN clock + Latest({i \in 1..n : target[i] = c}) ELSE pixels[c]
  <2>2. ASSUME NEW c \in Cells PROVE byte(c) \in Nat
    <3>1. CASE \E i \in 1..n : target[i] = c
      <4>1. byte(c) = clock + Latest({i \in 1..n : target[i] = c})
        BY <3>1
      <4> HIDE DEF byte
      <4>2. Latest({i \in 1..n : target[i] = c}) \in Nat /\ clock \in Nat
        BY <1>1, <2>1, <3>1
      <4> QED
        BY <4>1, <4>2
    <3>2. CASE ~ \E i \in 1..n : target[i] = c
      <4>1. byte(c) = pixels[c] /\ pixels[c] \in Nat
        BY <3>2 DEF TypeOK
      <4> QED
        BY <4>1
    <3> QED
      BY <3>1, <3>2
  <2>3. pixels' = [c \in Cells |-> byte(c)]
    BY DEF Moderate
  <2> HIDE DEF byte
  <2> QED
    BY <2>2, <2>3
<1>3. \A i \in 1..n : rec(i) \in Write /\ rec(i).id = clock + i /\ rec(i).version = meta + i
  BY <1>1 DEF Write
<1>4. \A e \in es : \E i \in 1..n : e = rec(i)
  OBVIOUS
<1> HIDE DEF rec
<1>5. \A e \in es : e \in Write /\ clock < e.id /\ e.id <= clock' /\ e.version = e.id
  BY <1>1, <1>3, <1>4 DEF Numbering
<1>6. \A e, f \in es : e.id = f.id => e = f
  BY <1>1, <1>3, <1>4
<1> HIDE DEF es
<1>7. written' \subseteq Write /\ stream' \subseteq written'
  BY <1>1, <1>5 DEF TypeOK, Numbering
<1>8. meta' = clock' /\ clock' \in Nat /\ clock <= clock'
  BY <1>1 DEF Numbering
<1>9. written' \ written \subseteq es
  BY <1>1
<1> QED
  BY <1>1, <1>2, <1>5, <1>6, <1>7, <1>8, <1>9 DEF Produced

-----------------------------------------------------------------------------
(***************************************************************************)
(* The invariant under each kind of step.                                  *)
(***************************************************************************)

\* A producer only adds writes above every cursor and every batch.
LEMMA ProducedInv ==
  ASSUME IInv, Produced
  PROVE  IInv'
<1> USE DEF IInv, DrainInv
<1> DEFINE new == written' \ written
<1>1. \A e \in written : Settled(e) => Settled(e)'
  BY DrainAssumption DEF Produced, Settled, Evictable, convexVars, Numbering, TypeOK
<1>2. \A e \in new : clock < e.id
  BY DEF Produced
<1>3. TypeOK'
  BY DEF TypeOK, Produced, convexVars, workerVars
<1>4. Numbering'
  <2>1. \A e, f \in written' : e.id = f.id => e = f
    <3>1. \A e \in written, f \in new : e.id < f.id
      BY <1>2 DEF Numbering, TypeOK, Produced, Write
    <3> QED
      BY <3>1 DEF Numbering, Produced, Write
  <2>2. \A e \in written' : e.id \in 1..clock' /\ e.version = e.id
    BY DEF Numbering, Produced, TypeOK, Write
  <2>3. (\A w \in Workers : cursor'[w] <= clock') /\ flushState'.lastStreamId <= clock'
    BY DEF Numbering, Produced, TypeOK, convexVars, workerVars
  <2> QED
    BY <2>1, <2>2, <2>3 DEF Numbering, Produced
<1>5. \A b : NoHoleBelow(b) => NoHoleBelow(b)'
  <2> TAKE b
  <2> SUFFICES ASSUME NoHoleBelow(b), NEW f \in b, NEW e \in written', e.id <= f.id
               PROVE  e \in b \/ Settled(e)'
    BY DEF NoHoleBelow, Produced
  <2>1. f.id <= clock /\ f.id \in Nat /\ clock \in Nat /\ e.id \in Nat
    BY <1>4 DEF NoHoleBelow, Numbering, TypeOK
  <2>2. e \in written
    BY <1>2, <2>1
  <2> QED
    BY <1>1, <2>2 DEF NoHoleBelow
<1>6. InFlight'
  BY <1>5 DEF InFlight, Produced, workerVars, convexVars, NoHoleBelow, Settled, Evictable
<1>7. NoAcceptedWriteLost'
  BY <1>1 DEF NoAcceptedWriteLost, Kept, Settled, Produced, convexVars
<1>8. CursorNeverSkips'
  <2>1. \A e \in new, w \in Workers : ~(e.id <= cursor'[w]) /\ ~(e.id <= flushState'.lastStreamId)
    BY <1>2, <1>4 DEF Numbering, Produced, workerVars, convexVars, TypeOK
  <2>2. \A e \in written, w \in Workers : e.id <= cursor'[w] => Settled(e)'
    BY <1>1 DEF CursorNeverSkips, Produced, workerVars
  <2>3. \A e \in written : e.id <= flushState'.lastStreamId => Settled(e)'
    BY <1>1 DEF CursorNeverSkips, Produced, convexVars
  <2>4. \A e \in new : ~(e.id <= flushState'.lastStreamId)
    BY <1>2, <1>4 DEF Numbering, Produced, convexVars, TypeOK
  <2> QED
    BY <2>1, <2>2, <2>3, <2>4 DEF CursorNeverSkips
<1>9. DurableIsPrefix'
  <2> SUFFICES ASSUME NEW p \in placements, NEW e \in written', e.id <= p.id
               PROVE  Settled(e)'
    BY DEF DurableIsPrefix, Produced, convexVars
  <2>1. p \in written /\ p.id <= clock /\ p.id \in Nat /\ clock \in Nat /\ e.id \in Nat
    BY <1>4 DEF ExactlyOnceCredit, Numbering, TypeOK
  <2>2. e \in written
    BY <1>2, <2>1
  <2> QED
    BY <1>1, <2>2 DEF DurableIsPrefix
<1>10. ExactlyOnceCredit'
  BY DEF ExactlyOnceCredit, Produced, convexVars
<1> QED
  BY <1>3, <1>4, <1>6, <1>7, <1>8, <1>9, <1>10

\* A batch without holes may commit at any time: afterwards all of it is durable,
\* and each of its writes is inserted and credited only if it was not before.
LEMMA FlushEffect ==
  ASSUME IInv, NEW b, NoHoleBelow(b), ApplyFlush(b), canvasRow
  PROVE  /\ placements' = placements \cup b
         /\ placements' \subseteq written /\ Fresh(b) = b \ placements
         /\ flushState' \in [lastStreamId: Nat, lastFlushedVersion: Nat]
         /\ flushState'.lastStreamId \in Ids(b)
         /\ points' \in [Users -> Nat] /\ cellCount' \in Int
         /\ \A u \in Users : points'[u] = points[u] + Cardinality(By(u, b \ placements))
         /\ \A u \in Users : points'[u] = Cardinality(By(u, placements'))
<1> USE DEF IInv, DrainInv
<1>1. b \subseteq written /\ b # {} /\ IsFiniteSet(written)
  BY WrittenFinite DEF NoHoleBelow
<1>2. Fresh(b) = b \ placements
  BY <1>1 DEF Fresh, Numbering, ExactlyOnceCredit
<1>3. /\ placements' = placements \cup Fresh(b)
      /\ points' = [u \in Users |-> points[u] + Cardinality(By(u, Fresh(b)))]
      /\ flushState' = [lastStreamId |-> Latest(Ids(b)),
           lastFlushedVersion |-> Latest({flushState.lastFlushedVersion, NewestVersion(b)})]
      /\ cellCount' = AtLeastZero(cellCount + CellDelta(Fresh(b), placements \cup Fresh(b)))
  BY DEF ApplyFlush, Accrue
<1>4. placements' = placements \cup b /\ placements' \subseteq written
  BY <1>1, <1>2, <1>3 DEF ExactlyOnceCredit
<1>5. Latest(Ids(b)) \in Ids(b) /\ Latest(Ids(b)) \in Nat /\ NewestVersion(b) \in Nat
  BY <1>1, BatchLatest
<1>6. Latest({flushState.lastFlushedVersion, NewestVersion(b)}) \in Nat
  <2> DEFINE v == flushState.lastFlushedVersion
             S == {v, NewestVersion(b)}
  <2>1. v \in Nat
    BY DEF TypeOK
  <2>2. S \in SUBSET Nat /\ S # {} /\ v + NewestVersion(b) \in Nat
        /\ \A s \in S : s <= v + NewestVersion(b)
    BY <1>5, <2>1
  <2> HIDE DEF S
  <2>3. Latest(S) \in S
    BY <2>2, LatestIsGreatest
  <2> QED
    BY <2>2, <2>3 DEF S
<1>7. IsFiniteSet(placements) /\ IsFiniteSet(b \ placements)
  BY <1>1, FS_Subset DEF ExactlyOnceCredit
<1>8. \A u \in Users : Cardinality(By(u, b \ placements)) \in Nat
  BY <1>7, FS_Subset, FS_CardinalityType DEF By
<1>9. cellCount' \in Int
  <2> DEFINE rows == placements \cup Fresh(b)
             gained == {p \in Fresh(b) : PrevColor(p, rows) = 0 /\ p.color > 0}
             lost == {p \in Fresh(b) : PrevColor(p, rows) > 0 /\ p.color = 0}
  <2>1. gained \subseteq b \ placements /\ lost \subseteq b \ placements
    BY <1>2
  <2> HIDE DEF gained, lost
  <2>2. Cardinality(gained) \in Nat /\ Cardinality(lost) \in Nat
    BY <1>7, <2>1, FS_Subset, FS_CardinalityType
  <2>3. CellDelta(Fresh(b), rows) \in Int
    BY <2>2 DEF CellDelta, gained, lost
  <2> QED
    BY <1>3, <2>3 DEF AtLeastZero, TypeOK
<1>10. \A u \in Users : points'[u] = points[u] + Cardinality(By(u, b \ placements))
  BY <1>2, <1>3
<1>11. points' \in [Users -> Nat]
  <2>1. \A u \in Users : points[u] + Cardinality(By(u, Fresh(b))) \in Nat
    <3> TAKE u \in Users
    <3>1. Cardinality(By(u, Fresh(b))) = Cardinality(By(u, b \ placements))
      BY <1>2
    <3>2. points[u] \in Nat
      BY DEF TypeOK
    <3> QED
      BY <1>8, <3>1, <3>2
  <2> QED
    BY <1>3, <2>1
<1>12. ASSUME NEW u \in Users
       PROVE  points'[u] = Cardinality(By(u, placements'))
  <2>1. placements' = placements \cup (b \ placements) /\ placements \cap (b \ placements) = {}
    BY <1>4
  <2>2. Cardinality(By(u, placements \cup (b \ placements))) =
          Cardinality(By(u, placements)) + Cardinality(By(u, b \ placements))
    BY <1>7, <2>1, CountsAdd
  <2>3. points[u] = Cardinality(By(u, placements))
    BY DEF ExactlyOnceCredit
  <2> QED
    BY <1>10, <2>1, <2>2, <2>3
<1>13. flushState' \in [lastStreamId: Nat, lastFlushedVersion: Nat]
  BY <1>3, <1>5, <1>6
<1>14. flushState'.lastStreamId \in Ids(b)
  BY <1>3, <1>5
<1> QED
  BY <1>2, <1>4, <1>9, <1>10, <1>11, <1>12, <1>13, <1>14

\* What a commit changes keeps every invariant on the log, whoever sent the batch.
LEMMA FlushInv ==
  ASSUME IInv, NEW b, NoHoleBelow(b), ApplyFlush(b), UNCHANGED <<redisVars, cursor>>
  PROVE  /\ Numbering' /\ NoAcceptedWriteLost' /\ CursorNeverSkips'
         /\ DurableIsPrefix' /\ ExactlyOnceCredit'
         /\ placements' \subseteq Write /\ placements \subseteq placements'
         /\ flushState' \in [lastStreamId: Nat, lastFlushedVersion: Nat]
         /\ points' \in [Users -> Nat] /\ cellCount' \in Int
         /\ canvasRow => b \subseteq placements'
         /\ \A s : NoHoleBelow(s) => NoHoleBelow(s)'
<1> USE DEF IInv, DrainInv
<1>1. CASE ~canvasRow
  <2>1. UNCHANGED convexVars
    BY <1>1 DEF ApplyFlush, Accrue
  <2> QED
    BY <1>1, <2>1 DEF convexVars, redisVars, TypeOK, Numbering, NoAcceptedWriteLost, Kept,
       CursorNeverSkips, DurableIsPrefix, ExactlyOnceCredit, Settled, Evictable, NoHoleBelow
<1>2. CASE canvasRow
  <2>1. /\ placements' = placements \cup b /\ placements' \subseteq written
        /\ flushState' \in [lastStreamId: Nat, lastFlushedVersion: Nat]
        /\ flushState'.lastStreamId \in Ids(b)
        /\ points' \in [Users -> Nat] /\ cellCount' \in Int
        /\ \A u \in Users : points'[u] = Cardinality(By(u, placements'))
    BY <1>2, FlushEffect
  <2>2. \A e \in written : Settled(e) => Settled(e)'
    BY <2>1 DEF Settled, Evictable, redisVars
  <2>3. PICK last \in b : flushState'.lastStreamId = last.id
    BY <2>1 DEF Ids
  <2>4. Numbering'
    BY <2>3 DEF Numbering, redisVars, NoHoleBelow
  <2>5. NoAcceptedWriteLost'
    BY <2>1, <2>2 DEF NoAcceptedWriteLost, Kept, Settled, Evictable, redisVars
  <2>6. CursorNeverSkips'
    <3>1. \A e \in written : e.id <= last.id => Settled(e)'
      BY <2>1, <2>2 DEF NoHoleBelow, Settled
    <3> QED
      BY <2>2, <2>3, <3>1 DEF CursorNeverSkips, redisVars
  <2>7. DurableIsPrefix'
    <3> SUFFICES ASSUME NEW p \in placements', NEW e \in written, e.id <= p.id
                 PROVE  Settled(e)'
      BY DEF DurableIsPrefix, redisVars
    <3>1. CASE p \in placements
      BY <2>2, <3>1 DEF DurableIsPrefix
    <3>2. CASE p \in b
      BY <2>1, <2>2, <3>2 DEF NoHoleBelow, Settled
    <3> QED
      BY <2>1, <3>1, <3>2
  <2>8. ExactlyOnceCredit'
    <3>1. \A p, q \in placements' : p.version = q.version => p = q
      BY <2>1 DEF Numbering
    <3> QED
      BY <2>1, <3>1 DEF ExactlyOnceCredit, redisVars
  <2>9. \A s : NoHoleBelow(s) => NoHoleBelow(s)'
    BY <2>2 DEF NoHoleBelow, redisVars
  <2> QED
    BY <2>1, <2>4, <2>5, <2>6, <2>7, <2>8, <2>9 DEF TypeOK
<1> QED
  BY <1>1, <1>2

\* The first entries past a cursor form a batch without holes.
LEMMA ReadsHaveNoHole ==
  ASSUME IInv, NEW w \in Workers, NEW b \in Reads(cursor[w])
  PROVE  NoHoleBelow(b) /\ b \subseteq Write
<1> USE DEF IInv, DrainInv
<1> DEFINE unread == {e \in stream : e.id > cursor[w]}
<1>1. PICK k \in Ids(unread) : b = {e \in unread : e.id <= k}
  BY DEF Reads
<1>2. b \subseteq stream /\ stream \subseteq written /\ b # {}
  BY <1>1 DEF Ids, Numbering
<1>3. ASSUME NEW f \in b, NEW e \in written, e.id <= f.id
      PROVE  e \in b \/ Settled(e)
  <2>1. CASE e.id <= cursor[w]
    BY <2>1 DEF CursorNeverSkips
  <2>2. CASE e \in stream /\ e.id > cursor[w]
    <3>1. e.id \in Nat /\ f.id \in Nat /\ k \in Nat /\ f.id <= k
      BY <1>1, <1>2 DEF Numbering, Ids
    <3> QED
      BY <1>1, <1>3, <2>2, <3>1
  <2>3. CASE e \notin stream
    BY <2>3 DEF NoAcceptedWriteLost, Kept, Settled
  <2> QED
    BY <2>1, <2>2, <2>3 DEF TypeOK, Numbering
<1> QED
  BY <1>2, <1>3 DEF NoHoleBelow, TypeOK

\* Steps that leave the log, the stream and Convex alone keep what is said of them.
LEMMA LogUntouched ==
  ASSUME IInv, UNCHANGED <<redisVars, convexVars>>
  PROVE  /\ NoAcceptedWriteLost' /\ DurableIsPrefix' /\ ExactlyOnceCredit'
         /\ \A e : Settled(e)' <=> Settled(e)
         /\ \A s : NoHoleBelow(s)' <=> NoHoleBelow(s)
BY DEF IInv, DrainInv, redisVars, convexVars, NoAcceptedWriteLost, Kept, DurableIsPrefix,
   ExactlyOnceCredit, Settled, Evictable, NoHoleBelow

\* Trimming below the last id of a durable batch removes only durable entries.
LEMMA TrimInv ==
  ASSUME IInv, NEW w \in Workers, TrimStream(w)
  PROVE  IInv'
<1> USE DEF IInv, DrainInv
<1> DEFINE b == batch[w]
           last == Latest(Ids(b))
<1>1. /\ pc[w] = "flushed" /\ stream' = {e \in stream : e.id >= last}
      /\ cursor' = [cursor EXCEPT ![w] = last]
      /\ batch' = [batch EXCEPT ![w] = {}]
      /\ pc' \in [Workers -> {"down", "idle", "drain", "flush", "flushed", "drained"}]
      /\ \A v \in Workers : pc'[v] = pc[v] \/ pc'[v] \in {"drain", "drained"}
      /\ pc'[w] \in {"drain", "drained"}
      /\ UNCHANGED <<meta, pixels, clock, written, lock, canvasRow, convexVars, orphans, faults>>
  BY DEF TrimStream, TypeOK
<1>2. b \subseteq written /\ b # {} /\ b \subseteq placements /\ NoHoleBelow(b)
  BY <1>1 DEF InFlight, NoHoleBelow
<1>3. last \in Ids(b) /\ last \in Nat /\ last <= clock
  BY <1>2, BatchLatest
<1>4. PICK newest \in b : newest.id = last
  BY <1>3 DEF Ids
<1> HIDE DEF last
<1>5. \A e \in written : e.id <= last => Settled(e)
  BY <1>2, <1>4 DEF NoHoleBelow, Settled
<1>6. /\ \A e : Settled(e)' <=> Settled(e)
      /\ \A s : NoHoleBelow(s)' <=> NoHoleBelow(s)
  BY <1>1 DEF Settled, Evictable, NoHoleBelow, convexVars
<1>7. TypeOK'
  BY <1>1, <1>3 DEF TypeOK, convexVars
<1>8. Numbering'
  BY <1>1, <1>3 DEF Numbering, TypeOK, convexVars
<1>9. InFlight'
  BY <1>1, <1>6 DEF InFlight, TypeOK, convexVars
<1>10. NoAcceptedWriteLost'
  <2> SUFFICES ASSUME NEW e \in written
               PROVE  (Kept(e) \/ Evictable(e))'
    BY <1>1 DEF NoAcceptedWriteLost
  <2>1. CASE e \in stream /\ e.id >= last
    BY <1>1, <2>1 DEF Kept
  <2>2. CASE e.id <= last
    BY <1>5, <1>6, <2>2 DEF Settled, Kept
  <2>3. CASE e \notin stream
    BY <1>1, <2>3 DEF NoAcceptedWriteLost, Kept, Evictable, convexVars
  <2> QED
    BY <1>3, <2>1, <2>2, <2>3 DEF Numbering
<1>11. CursorNeverSkips'
  BY <1>1, <1>5, <1>6 DEF CursorNeverSkips, TypeOK, convexVars
<1>12. DurableIsPrefix' /\ ExactlyOnceCredit'
  BY <1>1, <1>6 DEF DurableIsPrefix, ExactlyOnceCredit, convexVars
<1> QED
  BY <1>7, <1>8, <1>9, <1>10, <1>11, <1>12

\* The steps of a worker and of Convex.
LEMMA WorkerInv ==
  ASSUME IInv, NEW w \in Workers,
         Boot(w) \/ StartTick(w) \/ Drain(w) \/ EndTick(w) \/ TickError(w) \/ Crash(w)
  PROVE  IInv'
<1> USE DEF IInv, DrainInv
<1>1. CASE Boot(w)
  <2>1. TypeOK'
    BY <1>1 DEF Boot, TypeOK, redisVars, convexVars
  <2>2. Numbering' /\ CursorNeverSkips'
    BY <1>1, LogUntouched DEF Boot, Numbering, CursorNeverSkips, redisVars, convexVars, TypeOK
  <2>3. InFlight'
    BY <1>1, LogUntouched DEF Boot, InFlight, redisVars, convexVars, TypeOK
  <2> QED
    BY <1>1, <2>1, <2>2, <2>3, LogUntouched DEF Boot
<1>2. CASE StartTick(w)
  <2>1. TypeOK'
    BY <1>2 DEF StartTick, TypeOK, redisVars, convexVars
  <2>2. Numbering' /\ CursorNeverSkips'
    BY <1>2, LogUntouched DEF StartTick, Numbering, CursorNeverSkips, redisVars, convexVars
  <2>3. InFlight'
    BY <1>2, LogUntouched DEF StartTick, InFlight, redisVars, convexVars, TypeOK
  <2> QED
    BY <1>2, <2>1, <2>2, <2>3, LogUntouched DEF StartTick
<1>3. CASE DrainRead(w)
  <2>1. PICK b \in Reads(cursor[w]) : batch' = [batch EXCEPT ![w] = b]
    BY <1>3 DEF DrainRead
  <2>2. NoHoleBelow(b) /\ b \in SUBSET Write
    BY ReadsHaveNoHole
  <2>3. TypeOK'
    BY <1>3, <2>1, <2>2 DEF DrainRead, TypeOK, redisVars, convexVars
  <2>4. Numbering' /\ CursorNeverSkips'
    BY <1>3, LogUntouched DEF DrainRead, Numbering, CursorNeverSkips, redisVars, convexVars
  <2>5. InFlight'
    BY <1>3, <2>1, <2>2, LogUntouched DEF DrainRead, InFlight, redisVars, convexVars, TypeOK
  <2> QED
    BY <1>3, <2>3, <2>4, <2>5, LogUntouched DEF DrainRead
<1>4. CASE DrainEmpty(w)
  <2>1. TypeOK'
    BY <1>4 DEF DrainEmpty, TypeOK, redisVars, convexVars
  <2>2. Numbering' /\ CursorNeverSkips'
    BY <1>4, LogUntouched DEF DrainEmpty, Numbering, CursorNeverSkips, redisVars, convexVars
  <2>3. InFlight'
    BY <1>4, LogUntouched DEF DrainEmpty, InFlight, redisVars, convexVars, TypeOK
  <2> QED
    BY <1>4, <2>1, <2>2, <2>3, LogUntouched DEF DrainEmpty
<1>5. CASE CommitFlush(w)
  <2> DEFINE b == batch[w]
  <2>1. NoHoleBelow(b) /\ ApplyFlush(b) /\ UNCHANGED <<redisVars, cursor>>
    BY <1>5 DEF CommitFlush, InFlight
  <2>2. /\ Numbering' /\ NoAcceptedWriteLost' /\ CursorNeverSkips'
        /\ DurableIsPrefix' /\ ExactlyOnceCredit'
        /\ placements' \subseteq Write /\ placements \subseteq placements'
        /\ flushState' \in [lastStreamId: Nat, lastFlushedVersion: Nat]
        /\ points' \in [Users -> Nat] /\ cellCount' \in Int
        /\ canvasRow => b \subseteq placements'
        /\ \A s : NoHoleBelow(s) => NoHoleBelow(s)'
    BY <2>1, FlushInv
  <2>3. TypeOK'
    BY <1>5, <2>2 DEF CommitFlush, TypeOK, redisVars
  <2>4. InFlight'
    BY <1>5, <2>1, <2>2 DEF CommitFlush, InFlight, TypeOK
  <2> QED
    BY <2>2, <2>3, <2>4
<1>6. CASE TrimStream(w)
  BY <1>6, TrimInv
<1>7. CASE EndTick(w)
  <2>1. TypeOK'
    BY <1>7 DEF EndTick, Release, TypeOK, redisVars, convexVars
  <2>2. Numbering' /\ CursorNeverSkips'
    BY <1>7, LogUntouched DEF EndTick, Numbering, CursorNeverSkips, redisVars, convexVars
  <2>3. InFlight'
    BY <1>7, LogUntouched DEF EndTick, InFlight, redisVars, convexVars, TypeOK
  <2> QED
    BY <1>7, <2>1, <2>2, <2>3, LogUntouched DEF EndTick
<1>8. CASE TickError(w) \/ Crash(w)
  <2>1. /\ pc' \in [Workers -> {"down", "idle", "drain", "flush", "flushed", "drained"}]
        /\ \A v \in Workers : pc'[v] \in {"flush", "flushed"} =>
             pc'[v] = pc[v] /\ batch'[v] = batch[v]
        /\ lock' \in Workers \cup {NoWorker}
    BY <1>8 DEF TickError, Crash, Abandon, Release, TypeOK
  <2>2. /\ faults' \in Nat
        /\ orphans' = orphans \cup (IF pc[w] = "flush" THEN {batch[w]} ELSE {})
        /\ batch' = [batch EXCEPT ![w] = {}]
        /\ UNCHANGED <<redisVars, canvasRow, convexVars, cursor>>
    BY <1>8 DEF TickError, Crash, Abandon, TypeOK
  <2>3. TypeOK'
    BY <2>1, <2>2 DEF TypeOK, redisVars, convexVars
  <2>4. Numbering' /\ CursorNeverSkips'
    BY <2>2, LogUntouched DEF Numbering, CursorNeverSkips, redisVars, convexVars
  <2>5. InFlight'
    BY <2>1, <2>2, LogUntouched DEF InFlight, redisVars, convexVars, TypeOK
  <2> QED
    BY <2>2, <2>3, <2>4, <2>5, LogUntouched
<1> QED
  BY <1>1, <1>2, <1>3, <1>4, <1>5, <1>6, <1>7, <1>8 DEF Drain

LEMMA InitInv == DrainInit => IInv
<1> SUFFICES ASSUME DrainInit PROVE IInv
  OBVIOUS
<1>1. \A u \in Users : By(u, {}) = {}
  BY DEF By
<1>2. TypeOK
  BY DEF DrainInit, TypeOK
<1> QED
  BY <1>1, <1>2, FS_EmptySet DEF DrainInit, IInv, DrainInv, Numbering, InFlight,
     NoAcceptedWriteLost, CursorNeverSkips, DurableIsPrefix, ExactlyOnceCredit

LEMMA StepInv == IInv /\ [DrainNext]_drainVars => IInv'
<1> SUFFICES ASSUME IInv, [DrainNext]_drainVars PROVE IInv'
  OBVIOUS
<1> USE DEF IInv, DrainInv
<1>1. CASE Produce
  BY <1>1, PlaceProduces, ModerateProduces, ProducedInv DEF Produce
<1>2. CASE CreateCanvas \/ LockExpire \/ UNCHANGED drainVars
  <2>1. /\ UNCHANGED <<redisVars, convexVars, workerVars, orphans, faults>>
        /\ canvasRow' \in BOOLEAN /\ lock' \in Workers \cup {NoWorker}
    BY <1>2 DEF CreateCanvas, LockExpire, drainVars, TypeOK
  <2>2. TypeOK'
    BY <2>1 DEF TypeOK, redisVars, convexVars, workerVars
  <2>3. Numbering' /\ CursorNeverSkips' /\ InFlight'
    BY <2>1, LogUntouched DEF Numbering, CursorNeverSkips, InFlight, redisVars, convexVars, workerVars
  <2> QED
    BY <2>1, <2>2, <2>3, LogUntouched
<1>3. ASSUME NEW w \in Workers,
             Boot(w) \/ StartTick(w) \/ Drain(w) \/ EndTick(w) \/ TickError(w) \/ Crash(w)
      PROVE  IInv'
  BY <1>3, WorkerInv
<1>4. ASSUME NEW b \in orphans, CommitOrphan(b)
      PROVE  IInv'
  <2>1. NoHoleBelow(b) /\ ApplyFlush(b) /\ UNCHANGED <<redisVars, cursor>>
    BY <1>4 DEF CommitOrphan, InFlight, workerVars
  <2>2. /\ Numbering' /\ NoAcceptedWriteLost' /\ CursorNeverSkips'
        /\ DurableIsPrefix' /\ ExactlyOnceCredit'
        /\ placements' \subseteq Write /\ placements \subseteq placements'
        /\ flushState' \in [lastStreamId: Nat, lastFlushedVersion: Nat]
        /\ points' \in [Users -> Nat] /\ cellCount' \in Int
        /\ \A s : NoHoleBelow(s) => NoHoleBelow(s)'
    BY <2>1, FlushInv
  <2>3. TypeOK'
    BY <1>4, <2>2 DEF CommitOrphan, TypeOK, redisVars, workerVars
  <2>4. InFlight'
    BY <1>4, <2>2 DEF CommitOrphan, InFlight, workerVars
  <2> QED
    BY <2>2, <2>3, <2>4
<1> QED
  BY <1>1, <1>2, <1>3, <1>4 DEF DrainNext

-----------------------------------------------------------------------------
(***************************************************************************)
(* The theorems.                                                           *)
(***************************************************************************)

\* The types and the inductive invariant hold in every state the drain reaches.
THEOREM DrainInductive == DrainSpec => [](TypeOK /\ DrainInv)
<1>1. IInv => TypeOK /\ DrainInv
  BY DEF IInv
<1> QED
  BY <1>1, InitInv, StepInv, PTL DEF DrainSpec

\* No accepted write is lost between the stream and the durable log, whatever
\* workers crash, requests fail, commit late or commit twice (drain.ts, worker.ts).
THEOREM NothingLost == DrainSpec => []NoAcceptedWriteLost
<1>1. TypeOK /\ DrainInv => NoAcceptedWriteLost
  BY DEF DrainInv
<1> QED
  BY <1>1, DrainInductive, PTL

\* A drain that resumes from any cursor the system can hold skips nothing.
THEOREM NothingSkipped == DrainSpec => []CursorNeverSkips
<1>1. TypeOK /\ DrainInv => CursorNeverSkips
  BY DEF DrainInv
<1> QED
  BY <1>1, DrainInductive, PTL

\* The durable log never has a hole below its newest write.
THEOREM NoHoles == DrainSpec => []DurableIsPrefix
<1>1. TypeOK /\ DrainInv => DurableIsPrefix
  BY DEF DrainInv
<1> QED
  BY <1>1, DrainInductive, PTL

\* At-least-once delivery is exactly-once durable and exactly-once credited.
THEOREM CreditedOnce == DrainSpec => []ExactlyOnceCredit
<1>1. TypeOK /\ DrainInv => ExactlyOnceCredit
  BY DEF DrainInv
<1> QED
  BY <1>1, DrainInductive, PTL

-----------------------------------------------------------------------------
(***************************************************************************)
(* Without a cap, every step of the drain is a step of the abstract log or *)
(* leaves it as it was.                                                    *)
(***************************************************************************)

LEMMA CommitPersists ==
  ASSUME StreamMaxLen = 0, IInv, NEW b, NoHoleBelow(b), ApplyFlush(b),
         UNCHANGED <<redisVars, cursor>>
  PROVE  [Log!LogNext]_(Log!logVars)
<1> USE DEF IInv, DrainInv
<1>1. CASE ~canvasRow
  BY <1>1 DEF ApplyFlush, Accrue, convexVars, redisVars, Log!logVars
<1>2. CASE canvasRow
  <2>1. /\ placements' = placements \cup b /\ placements' \subseteq written
        /\ points' \in [Users -> Nat]
        /\ \A u \in Users : points'[u] = points[u] + Cardinality(By(u, b \ placements))
    BY <1>2, FlushEffect
  <2>2. DurableIsPrefix' /\ written' = written
    BY FlushInv DEF redisVars
  <2>3. placements' \ placements = b \ placements
    BY <2>1
  <2>4. points' = [u \in Users |-> points[u] + Cardinality(By(u, b \ placements))]
    BY <2>1
  <2>5. points' = [u \in Users |-> points[u] + Log!Cardinality(Log!By(u, placements' \ placements))]
    <3>1. \A u \in Users : Log!By(u, placements' \ placements) = By(u, b \ placements)
      BY <2>3 DEF By, Log!By
    <3>2. \A u \in Users : Log!Cardinality(By(u, b \ placements)) = Cardinality(By(u, b \ placements))
      BY DEF Cardinality, Log!Cardinality
    <3> QED
      BY <2>4, <3>1, <3>2
  <2>6. \A e \in written, f \in placements' : e.id <= f.id => e \in placements'
    BY <2>2 DEF DurableIsPrefix, Settled, Evictable
  <2>7. CASE placements' = placements
    <3>1. \A u \in Users : points'[u] = Cardinality(By(u, placements'))
      BY <1>2, FlushEffect
    <3>2. \A u \in Users : points'[u] = points[u]
      BY <2>7, <3>1 DEF ExactlyOnceCredit
    <3>3. points' = points
      BY <2>1, <3>2 DEF TypeOK
    <3> QED
      BY <2>2, <2>7, <3>3 DEF Log!logVars
  <2>8. CASE placements' # placements
    <3>1. placements \subseteq placements' /\ placements' \subseteq written
      BY <2>1
    <3> HIDE DEF IInv
    <3>2. Log!Persist
      BY Zenon, <2>2, <2>5, <2>6, <2>8, <3>1 DEF Log!Persist
    <3> QED
      BY <3>2 DEF Log!LogNext
  <2> QED
    BY <2>7, <2>8
<1> QED
  BY <1>1, <1>2

LEMMA StepImplements ==
  ASSUME StreamMaxLen = 0, IInv, [DrainNext]_drainVars
  PROVE  [Log!LogNext]_(Log!logVars)
<1> USE DEF IInv, DrainInv
<1>1. CASE Produce
  <2>1. Produced
    BY <1>1, PlaceProduces, ModerateProduces DEF Produce
  <2>2. \A e \in written, f \in written' \ written : e.id < f.id
    BY <2>1 DEF Produced, Numbering, TypeOK, Write
  <2> QED
    BY <2>1, <2>2 DEF Produced, convexVars, Log!Accept, Log!LogNext
<1>2. ASSUME NEW w \in Workers, CommitFlush(w)
      PROVE  [Log!LogNext]_(Log!logVars)
  BY <1>2, CommitPersists DEF CommitFlush, InFlight
<1>3. ASSUME NEW b \in orphans, CommitOrphan(b)
      PROVE  [Log!LogNext]_(Log!logVars)
  BY <1>3, CommitPersists DEF CommitOrphan, InFlight, workerVars
<1>4. ASSUME UNCHANGED <<written, convexVars>>
      PROVE  [Log!LogNext]_(Log!logVars)
  BY <1>4 DEF convexVars, Log!logVars
<1>5. ASSUME NEW w \in Workers,
             Boot(w) \/ StartTick(w) \/ DrainRead(w) \/ DrainEmpty(w) \/ TrimStream(w)
             \/ EndTick(w) \/ TickError(w) \/ Crash(w)
      PROVE  UNCHANGED <<written, convexVars>>
  BY <1>5 DEF Boot, StartTick, DrainRead, DrainEmpty, TrimStream, EndTick, TickError, Crash,
     Abandon, redisVars
<1>6. CASE CreateCanvas \/ LockExpire \/ UNCHANGED drainVars
  BY <1>4, <1>6 DEF CreateCanvas, LockExpire, drainVars, redisVars
<1> QED
  BY <1>1, <1>2, <1>3, <1>4, <1>5, <1>6 DEF DrainNext, Drain

\* The drain implements the abstract log of module PlacementLog: durable rows are
\* the accepted writes, in order, each credited exactly once.
THEOREM DrainImplementsLog ==
  ASSUME StreamMaxLen = 0
  PROVE  DrainSpec => ImplementsLog
<1>1. DrainInit => Log!LogInit
  BY DEF DrainInit, Log!LogInit
<1>2. IInv /\ [DrainNext]_drainVars => [Log!LogNext]_(Log!logVars)
  BY StepImplements
<1> QED
  BY <1>1, <1>2, InitInv, StepInv, PTL DEF DrainSpec, ImplementsLog, Log!LogSpec

-----------------------------------------------------------------------------
(***************************************************************************)
(* The incremental cellCount.  applyFlush counts the transitions of the    *)
(* rows it inserts, each against the row just below it by version; that    *)
(* adds up to the visible cells as long as rows arrive in version order.   *)
(***************************************************************************)

\* The cells whose newest row among rows is not empty.
Visible(rows) ==
  {c \in Cells : \E p \in rows :
     /\ p.cell = c /\ p.color > 0
     /\ \A q \in rows : q.cell = c => q.version <= p.version}

Upto(rows, n) == {p \in rows : p.version <= n}

\* The two kinds of transition applyFlush counts.
Appearing(fresh, rows) == {p \in fresh : PrevColor(p, rows) = 0 /\ p.color > 0}
Vanishing(fresh, rows) == {p \in fresh : PrevColor(p, rows) > 0 /\ p.color = 0}

\* What placements holds: finitely many rows, one per version.
Rows(S) ==
  /\ IsFiniteSet(S) /\ S \subseteq Write
  /\ \A p, q \in S : p.version = q.version => p = q
  /\ \E n \in Nat : \A p \in S : p.version <= n

\* A part of a set of rows is one too.
LEMMA RowsSubset ==
  ASSUME NEW S, Rows(S), NEW T, T \subseteq S
  PROVE  Rows(T)
BY FS_Subset DEF Rows

\* Finitely many rows show finitely many cells.
LEMMA VisibleFinite ==
  ASSUME NEW S, Rows(S)
  PROVE  IsFiniteSet(Visible(S)) /\ Cardinality(Visible(S)) \in Nat
<1> DEFINE f == [p \in S |-> p.cell]
           T == {p.cell : p \in S}
<1>1. f \in Surjection(S, T)
  BY DEF Surjection
<1>2. IsFiniteSet(T)
  BY <1>1, FS_Surjection DEF Rows
<1>3. Visible(S) \subseteq T
  BY DEF Visible
<1> QED
  BY <1>2, <1>3, FS_Subset, FS_CardinalityType

\* A row newer than all others decides what its cell shows, and no other cell.
LEMMA NewestDecides ==
  ASSUME NEW S, NEW e \in Write, S \subseteq Write, \A p \in S : p.version < e.version
  PROVE  /\ e.color > 0 => Visible(S \cup {e}) = Visible(S) \cup {e.cell}
         /\ ~(e.color > 0) => Visible(S \cup {e}) = Visible(S) \ {e.cell}
<1>1. e.version \in Nat /\ e.cell \in Cells /\ \A p \in S : p.version \in Nat
  BY DEF Write
<1>2. ASSUME NEW c \in Cells, c # e.cell
      PROVE  c \in Visible(S \cup {e}) <=> c \in Visible(S)
  BY <1>2 DEF Visible
<1>3. e.cell \in Visible(S \cup {e}) <=> e.color > 0
  <2>1. ASSUME e.color > 0 PROVE e.cell \in Visible(S \cup {e})
    <3>1. \A q \in S \cup {e} : q.version <= e.version
      BY <1>1
    <3> QED
      BY <1>1, <2>1, <3>1 DEF Visible
  <2>2. ASSUME e.cell \in Visible(S \cup {e}) PROVE e.color > 0
    <3>1. PICK p \in S \cup {e} : p.color > 0 /\ e.version <= p.version
      BY <2>2 DEF Visible
    <3>2. p = e
      BY <1>1, <3>1
    <3> QED
      BY <3>1, <3>2
  <2> QED
    BY <2>1, <2>2
<1>4. Visible(S \cup {e}) \subseteq Cells /\ Visible(S) \subseteq Cells
  BY DEF Visible
<1> HIDE DEF Visible
<1> QED
  BY <1>1, <1>2, <1>3, <1>4

\* The colour before a row, as applyFlush looks it up, is what the rows below show.
LEMMA PrevIsShown ==
  ASSUME NEW R, Rows(R), NEW e \in R
  PROVE  /\ PrevColor(e, R) \in Nat
         /\ PrevColor(e, R) > 0 <=> e.cell \in Visible({q \in R : q.version < e.version})
<1> DEFINE S == {q \in R : q.version < e.version}
           before == {q \in R : q.cell = e.cell /\ q.version < e.version}
<1>1. \A q \in R : q.version \in Nat /\ q.color \in Nat /\ q.cell \in Cells
  BY DrainAssumption DEF Rows, Write
<1>2. CASE before = {}
  <2>1. PrevColor(e, R) = 0
    BY <1>2 DEF PrevColor
  <2>2. e.cell \notin Visible(S)
    BY <1>2 DEF Visible
  <2> QED
    BY <2>1, <2>2
<1>3. CASE before # {}
  <2> DEFINE V == {q.version : q \in before}
  <2>1. V \in SUBSET Nat /\ V # {} /\ e.version \in Nat /\ \A v \in V : v <= e.version
    BY <1>1, <1>3
  <2> HIDE DEF V
  <2>2. Latest(V) \in V /\ \A v \in V : v <= Latest(V)
    BY <2>1, LatestIsGreatest
  <2>3. \E q \in before : \A r \in before : r.version <= q.version
    <3>1. PICK q \in before : q.version = Latest(V)
      BY <2>2 DEF V
    <3>2. \A r \in before : r.version \in V
      BY DEF V
    <3> QED
      BY <2>2, <3>1, <3>2
  <2> DEFINE last == CHOOSE q \in before : \A r \in before : r.version <= q.version
  <2>4. last \in before /\ \A r \in before : r.version <= last.version
    BY <2>3
  <2>5. PrevColor(e, R) = last.color
    BY <1>3 DEF PrevColor
  <2> HIDE DEF last
  <2>6. last \in R /\ last \in S /\ last.cell = e.cell /\ last.color \in Nat
    BY <1>1, <2>4
  <2>7. ASSUME last.color > 0 PROVE e.cell \in Visible(S)
    BY <1>1, <2>4, <2>6, <2>7 DEF Visible
  <2>8. ASSUME e.cell \in Visible(S) PROVE last.color > 0
    <3>1. PICK p \in S : p.cell = e.cell /\ p.color > 0 /\ last.version <= p.version
      BY <2>6, <2>8 DEF Visible
    <3>2. p \in before /\ p.version <= last.version
      BY <2>4, <3>1
    <3>3. p.version = last.version /\ p \in R
      BY <1>1, <2>6, <3>1, <3>2
    <3> QED
      BY <2>6, <3>1, <3>3 DEF Rows
  <2> QED
    BY <2>5, <2>6, <2>7, <2>8
<1> QED
  BY <1>2, <1>3

\* One more inserted row adds the one transition it makes, if it makes one.
LEMMA DeltaGrows ==
  ASSUME NEW F, IsFiniteSet(F), NEW R, NEW e, e \notin F
  PROVE  CellDelta(F \cup {e}, R) =
           CellDelta(F, R) + (IF PrevColor(e, R) = 0 /\ e.color > 0 THEN 1 ELSE 0)
                           - (IF PrevColor(e, R) > 0 /\ e.color = 0 THEN 1 ELSE 0)
<1> DEFINE A(s) == Appearing(s, R)
           D(s) == Vanishing(s, R)
<1>1. \A s : CellDelta(s, R) = Cardinality(A(s)) - Cardinality(D(s))
  BY DEF CellDelta, Appearing, Vanishing
<1>2. /\ IsFiniteSet(A(F)) /\ IsFiniteSet(D(F)) /\ e \notin A(F) /\ e \notin D(F)
      /\ Cardinality(A(F)) \in Nat /\ Cardinality(D(F)) \in Nat
  <2>1. A(F) \subseteq F /\ D(F) \subseteq F
    BY DEF Appearing, Vanishing
  <2> QED
    BY <2>1, FS_Subset, FS_CardinalityType
<1>3. A(F \cup {e}) = IF PrevColor(e, R) = 0 /\ e.color > 0 THEN A(F) \cup {e} ELSE A(F)
  BY DEF Appearing
<1>4. D(F \cup {e}) = IF PrevColor(e, R) > 0 /\ e.color = 0 THEN D(F) \cup {e} ELSE D(F)
  BY DEF Vanishing
<1> HIDE DEF A, D
<1>5. Cardinality(A(F \cup {e})) =
        Cardinality(A(F)) + (IF PrevColor(e, R) = 0 /\ e.color > 0 THEN 1 ELSE 0)
  <2>1. Cardinality(A(F) \cup {e}) = Cardinality(A(F)) + 1
    BY <1>2, FS_AddElement
  <2> QED
    BY <1>2, <1>3, <2>1
<1>6. Cardinality(D(F \cup {e})) =
        Cardinality(D(F)) + (IF PrevColor(e, R) > 0 /\ e.color = 0 THEN 1 ELSE 0)
  <2>1. Cardinality(D(F) \cup {e}) = Cardinality(D(F)) + 1
    BY <1>2, FS_AddElement
  <2> QED
    BY <1>2, <1>4, <2>1
<1> QED
  BY <1>1, <1>2, <1>5, <1>6

\* What must hold after the rows of a flush up to version n: the visible cells are
\* those before the flush plus the transitions counted so far.
AddsUpTo(S, F, n) ==
  Cardinality(Visible(S \cup Upto(F, n))) =
    Cardinality(Visible(S)) + CellDelta(Upto(F, n), S \cup F)

\* Rows inserted after all the durable ones: the inserted ones are all newer.
InsertsAbove(S, F) ==
  /\ Rows(S \cup F)
  /\ \A p \in S, e \in F : p.version < e.version

\* The next row of a flush, in version order, keeps the sum right.
LEMMA NextRowAdds ==
  ASSUME NEW S, NEW F, InsertsAbove(S, F), NEW n \in Nat, NEW e \in F, e.version = n + 1,
         AddsUpTo(S, F, n)
  PROVE  AddsUpTo(S, F, n + 1)
<1> DEFINE R == S \cup F
           B == Upto(F, n)
           T == S \cup B
<1>1. /\ Rows(R) /\ Rows(T) /\ Rows(S) /\ Rows(B) /\ e \in Write /\ e \in R
      /\ \A p \in R : p.version \in Nat
  <2>1. T \subseteq R /\ S \subseteq R /\ B \subseteq R /\ Rows(R)
    BY DEF InsertsAbove, Upto
  <2> QED
    BY <2>1, RowsSubset DEF Rows, Write
<1>2. Upto(F, n + 1) = B \cup {e} /\ e \notin B
  BY <1>1 DEF Upto, InsertsAbove, Rows
<1>3. T = {q \in R : q.version < e.version}
  BY <1>1 DEF Upto, InsertsAbove
<1>4. \A p \in T : p.version < e.version
  BY <1>3
<1> HIDE DEF R, B, T
<1>5. /\ e.color > 0 => Visible(T \cup {e}) = Visible(T) \cup {e.cell}
      /\ ~(e.color > 0) => Visible(T \cup {e}) = Visible(T) \ {e.cell}
  BY <1>1, <1>4, NewestDecides DEF Rows
<1>6. PrevColor(e, R) \in Nat /\ (PrevColor(e, R) > 0 <=> e.cell \in Visible(T))
  BY <1>1, <1>3, PrevIsShown
<1>7. IsFiniteSet(Visible(T)) /\ Cardinality(Visible(T)) \in Nat
  BY <1>1, VisibleFinite
<1>8. Cardinality(Visible(S)) \in Nat
  BY <1>1, VisibleFinite
<1>9. e.color \in Nat
  BY <1>1, DrainAssumption DEF Write
<1>10. Cardinality(Visible(T \cup {e})) =
         Cardinality(Visible(T)) + (IF PrevColor(e, R) = 0 /\ e.color > 0 THEN 1 ELSE 0)
                                 - (IF PrevColor(e, R) > 0 /\ e.color = 0 THEN 1 ELSE 0)
  <2>1. CASE e.color > 0
    <3>1. Cardinality(Visible(T \cup {e})) =
            IF e.cell \in Visible(T) THEN Cardinality(Visible(T)) ELSE Cardinality(Visible(T)) + 1
      BY <1>5, <1>7, <2>1, FS_AddElement
    <3> QED
      BY <1>6, <1>7, <1>9, <2>1, <3>1
  <2>2. CASE ~(e.color > 0)
    <3>1. Cardinality(Visible(T \cup {e})) =
            IF e.cell \in Visible(T) THEN Cardinality(Visible(T)) - 1 ELSE Cardinality(Visible(T))
      BY <1>5, <1>7, <2>2, FS_RemoveElement
    <3> QED
      BY <1>6, <1>7, <1>9, <2>2, <3>1
  <2> QED
    BY <2>1, <2>2
<1>11. CellDelta(B \cup {e}, R) =
         CellDelta(B, R) + (IF PrevColor(e, R) = 0 /\ e.color > 0 THEN 1 ELSE 0)
                         - (IF PrevColor(e, R) > 0 /\ e.color = 0 THEN 1 ELSE 0)
  BY <1>1, <1>2, DeltaGrows DEF Rows
<1>12. Cardinality(Visible(T)) = Cardinality(Visible(S)) + CellDelta(B, R)
  BY DEF AddsUpTo, T, B, R
<1>13. S \cup Upto(F, n + 1) = T \cup {e}
  BY <1>2 DEF T
<1>14. CellDelta(B, R) \in Int
  <2>1. Appearing(B, R) \subseteq B /\ Vanishing(B, R) \subseteq B
    BY DEF Appearing, Vanishing
  <2>2. Cardinality(Appearing(B, R)) \in Nat /\ Cardinality(Vanishing(B, R)) \in Nat
    BY <1>1, <2>1, FS_Subset, FS_CardinalityType DEF Rows
  <2> QED
    BY <2>2 DEF CellDelta, Appearing, Vanishing
<1>15. Cardinality(Visible(T \cup {e})) = Cardinality(Visible(S)) + CellDelta(B \cup {e}, R)
  BY <1>6, <1>7, <1>8, <1>9, <1>10, <1>11, <1>12, <1>14
<1> QED
  BY <1>2, <1>13, <1>15 DEF AddsUpTo, R

\* However many rows a flush inserts, the transitions it counts add up to the change
\* of the visible cells: a least version at which they do not cannot exist.
LEMMA FlushAddsUp ==
  ASSUME NEW S, NEW F, InsertsAbove(S, F), \A p \in S \cup F : p.version > 0
  PROVE  Cardinality(Visible(S \cup F)) = Cardinality(Visible(S)) + CellDelta(F, S \cup F)
<1> DEFINE Less == {ss \in Nat \X Nat : ss[1] < ss[2]}
           Bad == {n \in Nat : ~AddsUpTo(S, F, n)}
<1>1. IsWellFoundedOn(Less, Nat)
  BY NatLessThanWellFounded DEF OpToRel
<1>2. PICK top \in Nat : \A p \in S \cup F : p.version <= top
  BY DEF InsertsAbove, Rows
<1>3. Rows(S) /\ Rows(F) /\ \A p \in F : p.version \in Nat
  <2>1. S \subseteq S \cup F /\ F \subseteq S \cup F /\ Rows(S \cup F)
    BY DEF InsertsAbove
  <2> QED
    BY <2>1, RowsSubset DEF Rows, Write
<1>4. Cardinality(Visible(S)) \in Nat
  BY <1>3, VisibleFinite
<1>5. Bad = {}
  <2> SUFFICES ASSUME Bad # {} PROVE FALSE
    OBVIOUS
  <2> HIDE DEF Less
  <2>1. PICK m \in Bad : \A k \in Bad : ~ (<<k, m>> \in Less)
    BY <1>1, WFMin
  <2>2. \A k \in Nat : k < m => AddsUpTo(S, F, k)
    BY <2>1 DEF Less
  <2>3. m # 0
    <3>1. Upto(F, 0) = {}
      BY <1>3 DEF Upto
    <3>2. CellDelta({}, S \cup F) = 0
      <4>1. Appearing({}, S \cup F) = {} /\ Vanishing({}, S \cup F) = {}
        BY DEF Appearing, Vanishing
      <4> QED
        BY <4>1, FS_EmptySet DEF CellDelta, Appearing, Vanishing
    <3>3. S \cup Upto(F, 0) = S
      BY <3>1
    <3>4. Cardinality(Visible(S)) = Cardinality(Visible(S)) + CellDelta(Upto(F, 0), S \cup F)
      BY <1>4, <3>1, <3>2
    <3>5. AddsUpTo(S, F, 0)
      BY <3>3, <3>4 DEF AddsUpTo
    <3> QED
      BY <2>1, <3>5
  <2>4. PICK n \in Nat : m = n + 1 /\ AddsUpTo(S, F, n)
    <3>1. m - 1 \in Nat /\ m - 1 < m /\ m = (m - 1) + 1
      BY <2>1, <2>3
    <3> QED
      BY <2>2, <3>1
  <2>5. CASE \E e \in F : e.version = m
    BY <2>1, <2>4, <2>5, NextRowAdds
  <2>6. CASE ~\E e \in F : e.version = m
    <3>1. Upto(F, m) = Upto(F, n)
      BY <1>3, <2>4, <2>6 DEF Upto
    <3>2. AddsUpTo(S, F, m)
      BY <2>4, <3>1 DEF AddsUpTo
    <3> QED
      BY <2>1, <3>2
  <2> QED
    BY <2>5, <2>6
<1>6. Upto(F, top) = F
  BY <1>2 DEF Upto
<1>7. AddsUpTo(S, F, top)
  BY <1>5
<1> QED
  BY <1>6, <1>7 DEF AddsUpTo

-----------------------------------------------------------------------------
\* The drain keeps up with the cap: what place.lua's MAXLEN backstop may evict is
\* durable.  With STREAM_MAXLEN = 0 there is nothing it may evict.
KeepsUp == \A e \in written : Evictable(e) => e \in placements

\* A flush that leaves no hole below its rows counts the visible cells exactly,
\* and is never floored at zero.
LEMMA FlushCounts ==
  ASSUME IInv, KeepsUp, CellCountExact, NEW b, NoHoleBelow(b), ApplyFlush(b),
         UNCHANGED <<redisVars, cursor>>
  PROVE  CellCountExact'
<1> USE DEF IInv, DrainInv
<1>1. CASE ~canvasRow
  BY <1>1 DEF ApplyFlush, CellCountExact, convexVars
<1>2. CASE canvasRow
  <2> DEFINE F == Fresh(b)
             S == placements
  <2>1. /\ placements' = placements \cup b /\ placements' \subseteq written
        /\ Fresh(b) = b \ placements
    BY <1>2, FlushEffect
  <2>2. placements' = S \cup F /\ F \subseteq written /\ S \subseteq written
    BY <2>1 DEF ExactlyOnceCredit, NoHoleBelow
  <2>3. cellCount' = AtLeastZero(cellCount + CellDelta(F, S \cup F))
    BY <1>2 DEF ApplyFlush
  <2>4. Rows(written)
    BY WrittenFinite DEF Rows, TypeOK, Numbering, Write
  <2>5. \A p \in S, e \in F : p.version < e.version
    <3> SUFFICES ASSUME NEW p \in S, NEW e \in F PROVE p.version < e.version
      OBVIOUS
    <3>1. e \notin S /\ e \in written /\ p \in written
      BY <2>1, <2>2
    <3>2. ~(e.id <= p.id)
      BY <3>1 DEF DurableIsPrefix, Settled, KeepsUp
    <3> QED
      BY <3>1, <3>2 DEF Numbering, TypeOK, Write
  <2>6. InsertsAbove(S, F)
    <3>1. S \cup F \subseteq written
      BY <2>2
    <3>2. Rows(S \cup F)
      BY <2>4, <3>1, RowsSubset
    <3> QED
      BY <2>5, <3>2 DEF InsertsAbove
  <2>7. \A p \in S \cup F : p.version > 0
    BY <2>2 DEF Numbering, TypeOK
  <2> HIDE DEF F, S
  <2>8. Cardinality(Visible(S \cup F)) = Cardinality(Visible(S)) + CellDelta(F, S \cup F)
    BY <2>6, <2>7, FlushAddsUp
  <2>9. cellCount = Cardinality(Visible(S))
    BY DEF CellCountExact, Visible, S
  <2>10. Cardinality(Visible(S \cup F)) \in Nat
    BY <2>6, VisibleFinite DEF InsertsAbove
  <2>11. cellCount' = Cardinality(Visible(S \cup F))
    BY <2>3, <2>8, <2>9, <2>10 DEF AtLeastZero
  <2> QED
    BY <2>2, <2>11 DEF CellCountExact, Visible
<1> QED
  BY <1>1, <1>2

\* Only a commit changes the rows or the count.
LEMMA CountStep ==
  ASSUME IInv, KeepsUp, CellCountExact, [DrainNext]_drainVars
  PROVE  CellCountExact'
<1>1. ASSUME UNCHANGED convexVars
      PROVE  CellCountExact'
  BY <1>1 DEF convexVars, CellCountExact
<1>2. ASSUME NEW w \in Workers, CommitFlush(w)
      PROVE  CellCountExact'
  BY <1>2, FlushCounts DEF CommitFlush, IInv, DrainInv, InFlight
<1>3. ASSUME NEW b \in orphans, CommitOrphan(b)
      PROVE  CellCountExact'
  BY <1>3, FlushCounts DEF CommitOrphan, workerVars, IInv, DrainInv, InFlight
<1>4. CASE Produce
  <2>1. Produced
    BY <1>4, PlaceProduces, ModerateProduces DEF Produce, IInv, DrainInv
  <2> QED
    BY <1>1, <2>1 DEF Produced
<1>5. ASSUME NEW w \in Workers,
             Boot(w) \/ StartTick(w) \/ DrainRead(w) \/ DrainEmpty(w) \/ TrimStream(w)
             \/ EndTick(w) \/ TickError(w) \/ Crash(w)
      PROVE  UNCHANGED convexVars
  BY <1>5 DEF Boot, StartTick, DrainRead, DrainEmpty, TrimStream, EndTick, TickError, Crash,
     Abandon
<1>6. CASE CreateCanvas \/ LockExpire \/ UNCHANGED drainVars
  BY <1>1, <1>6 DEF CreateCanvas, LockExpire, drainVars
<1> QED
  BY <1>1, <1>2, <1>3, <1>4, <1>5, <1>6 DEF DrainNext, Drain

\* Nothing is durable and nothing is counted at the start.
LEMMA CountInit == DrainInit => CellCountExact
<1> SUFFICES ASSUME DrainInit PROVE CellCountExact
  OBVIOUS
<1>1. Visible(placements) = {}
  BY DEF DrainInit, Visible
<1> QED
  BY <1>1, FS_EmptySet DEF DrainInit, CellCountExact, Visible

\* As long as the drain keeps up with the cap, the incrementally maintained
\* cellCount (applyFlush) is the number of cells whose newest durable write is not
\* empty, in whatever order batches are read, abandoned, redelivered and committed.
THEOREM CountIsExact == DrainSpec /\ []KeepsUp => []CellCountExact
<1>1. IInv /\ KeepsUp /\ CellCountExact /\ [DrainNext]_drainVars => CellCountExact'
  BY CountStep
<1> QED
  BY <1>1, CountInit, InitInv, StepInv, PTL DEF DrainSpec

\* Without a cap (STREAM_MAXLEN = 0), it is exact in every state.
THEOREM CountIsExactUncapped ==
  ASSUME StreamMaxLen = 0
  PROVE  DrainSpec => []CellCountExact
<1>1. KeepsUp
  BY DEF KeepsUp, Evictable
<1> QED
  BY <1>1, CountIsExact, PTL
-----------------------------------------------------------------------------
(***************************************************************************)
(* Snapshots and the restore.                                              *)
(*                                                                         *)
(* The worker with them implements the worker without them until Redis     *)
(* first loses something: a restore has a frame to write only after some   *)
(* snapshot, and a snapshot is taken only of a canvas that has a version,  *)
(* which it then keeps; so the guard of the restore's script refuses.      *)
(*                                                                         *)
(* Under the discipline (careful) no version is reused, Convex can rebuild *)
(* the canvas and a restore misses no durable row: what Redis shows is     *)
(* ahead of all that may become durable, every frame covers the writes up  *)
(* to its version, and an empty Redis has nothing in flight.               *)
(***************************************************************************)

USE DrainAssumption, RecoveryAssumption

\* Nothing that a restore could write, or a snapshot could record, predates the canvas.
LiveBeforeFrames ==
  /\ meta \in Nat /\ Lossless
  /\ stage \in [Workers -> {"off", "meta", "base", "tail", "write", "ready", "build", "upload"}]
  /\ meta = 0 =>
       /\ snapshots = <<>> /\ snapOrphans = {}
       /\ \A w \in Workers : snapVersion[w] = 0
       /\ \A w \in Workers : stage[w] \notin {"tail", "write", "build", "upload"}
  /\ snapVersion \in [Workers -> {snapVersion[w] : w \in Workers}]

\* An empty canvas has no frames.
LEMMA LiveInit == RecoveryInit => LiveBeforeFrames /\ DrainInit
BY DEF RecoveryInit, DrainInit, LiveBeforeFrames, Lossless

\* The version counter never falls, and a canvas that has a version keeps one.
LEMMA LiveStays ==
  ASSUME LiveBeforeFrames, [RecoveryNext]_recVars, Lossless'
  PROVE  /\ meta' \in Nat /\ meta' >= meta
         /\ UNCHANGED <<wipes, rollbacks>>
         /\ [DrainNext]_drainVars
<1> USE DEF LiveBeforeFrames, Lossless
<1>1. ASSUME Produce PROVE meta' \in Nat /\ meta' >= meta
  <2>1. ASSUME NEW u, NEW c, NEW color, Place(u, c, color)
        PROVE  meta' \in Nat /\ meta' >= meta
    BY <2>1 DEF Place
  <2>2. ASSUME NEW n \in 1..MaxModCells, NEW target, NEW color, Moderate(n, target, color)
        PROVE  meta' \in Nat /\ meta' >= meta
    <3>1. meta' = meta + n
      BY <2>2 DEF Moderate
    <3> QED
      BY <3>1
  <2> QED
    BY <1>1, <2>1, <2>2 DEF Produce
<1>2. CASE Traffic
  BY <1>1, <1>2 DEF Traffic, lossVars, DrainNext
<1>3. CASE (CreateCanvas \/ LockExpire) /\ UNCHANGED <<bootVars, snapVars, lossVars>>
  BY <1>3 DEF CreateCanvas, LockExpire, redisVars, lossVars, DrainNext
<1>4. CASE (\E b \in orphans : CommitOrphan(b)) /\ UNCHANGED <<bootVars, snapVars, lossVars>>
  BY <1>4 DEF CommitOrphan, redisVars, lossVars, DrainNext
<1>5. ASSUME NEW w \in Workers,
             StartTick(w) \/ Drain(w) \/ TickError(w) \/ EndTick(w) \/ Boot(w) \/ Crash(w)
      PROVE  meta' = meta /\ DrainNext
  <2>1. meta' = meta
    BY <1>5 DEF StartTick, Drain, DrainRead, DrainEmpty, CommitFlush, TrimStream, TickError,
       EndTick, Boot, Crash, Abandon, redisVars
  <2> QED
    BY <1>5, <2>1 DEF DrainNext
<1>6. ASSUME NEW w \in Workers,
             BootWorker(w) \/ Tick(w) \/ SnapshotRecorded(w) \/ SnapshotError(w) \/ CrashWorker(w)
      PROVE  meta' = meta /\ DrainNext /\ UNCHANGED <<wipes, rollbacks>>
  BY <1>5, <1>6 DEF BootWorker, Tick, SnapshotRecorded, SnapshotError, CrashWorker, lossVars
<1>7. ASSUME NEW w \in Workers,
             CheckMeta(w) \/ ReadBase(w) \/ ReadTail(w) \/ RestoreFails(w) \/ SnapshotDue(w)
             \/ BuildFrame(w)
      PROVE  UNCHANGED <<drainVars, wipes, rollbacks>>
  BY <1>7 DEF CheckMeta, ReadBase, ReadTail, RestoreFails, SnapshotDue, BuildFrame, lossVars
<1>8. ASSUME NEW w \in Workers, WriteRestored(w)
      PROVE  UNCHANGED <<drainVars, wipes, rollbacks>>
  <2>1. meta # 0
    BY <1>8 DEF WriteRestored
  <2> QED
    BY <1>8, <2>1 DEF WriteRestored, lossVars, drainVars, redisVars
<1>9. CASE \E f \in snapOrphans : RecordOrphan(f)
  BY <1>9 DEF RecordOrphan, lossVars, drainVars, redisVars
<1>10. CASE Fsync
  BY <1>10 DEF Fsync, drainVars, redisVars
<1>11. ~Wipe /\ ~Rollback
  BY DEF Wipe, Rollback
<1>12. CASE UNCHANGED recVars
  BY <1>12 DEF recVars, lossVars, drainVars, redisVars
<1>13. ASSUME UNCHANGED drainVars PROVE meta' = meta
  BY <1>13 DEF drainVars, redisVars
<1> QED
  BY <1>2, <1>3, <1>4, <1>6, <1>7, <1>8, <1>9, <1>10, <1>11, <1>12, <1>13 DEF RecoveryNext, Workings

\* What holds before the first loss goes on to hold until it.
LEMMA LiveStep ==
  ASSUME LiveBeforeFrames, [RecoveryNext]_recVars, Lossless'
  PROVE  LiveBeforeFrames'
<1> USE DEF LiveBeforeFrames, Lossless, Move
<1>1. /\ meta' \in Nat /\ meta' >= meta
      /\ UNCHANGED <<wipes, rollbacks>>
  BY LiveStays
<1>2. meta' = 0 => meta = 0
  BY <1>1
<1>3. ASSUME UNCHANGED <<stage, snapVars>> PROVE LiveBeforeFrames'
  BY <1>1, <1>2, <1>3 DEF snapVars
<1>4. ASSUME NEW w \in Workers, BootWorker(w) PROVE LiveBeforeFrames'
  BY <1>1, <1>2, <1>4 DEF BootWorker, LatestVersion
<1>5. ASSUME NEW w \in Workers, CheckMeta(w) \/ ReadBase(w) \/ RestoreFails(w) \/ SnapshotDue(w)
      PROVE LiveBeforeFrames'
  BY <1>1, <1>2, <1>5 DEF CheckMeta, ReadBase, RestoreFails, SnapshotDue, snapVars
<1>6. ASSUME NEW w \in Workers, ReadTail(w) \/ WriteRestored(w) \/ BuildFrame(w)
      PROVE LiveBeforeFrames'
  BY <1>1, <1>2, <1>6 DEF ReadTail, WriteRestored, BuildFrame, snapVars
<1>7. ASSUME NEW w \in Workers, SnapshotRecorded(w) PROVE LiveBeforeFrames'
  BY <1>1, <1>2, <1>7 DEF SnapshotRecorded
<1>8. ASSUME NEW w \in Workers, SnapshotError(w) \/ CrashWorker(w) PROVE LiveBeforeFrames'
  BY <1>1, <1>2, <1>8 DEF SnapshotError, CrashWorker, AbandonFrame
<1>9. ASSUME NEW f \in snapOrphans, RecordOrphan(f) PROVE LiveBeforeFrames'
  BY <1>1, <1>2, <1>9 DEF RecordOrphan, bootVars
<1>10. ASSUME NEW w \in Workers, Tick(w) PROVE LiveBeforeFrames'
  BY <1>3, <1>10 DEF Tick, bootVars
<1>11. ~Wipe /\ ~Rollback
  BY DEF Wipe, Rollback
<1>12. CASE Fsync \/ Traffic \/ UNCHANGED recVars
  BY <1>3, <1>12 DEF Fsync, Traffic, recVars, bootVars
<1> QED
  BY <1>3, <1>4, <1>5, <1>6, <1>7, <1>8, <1>9, <1>10, <1>11, <1>12 DEF RecoveryNext, Workings, bootVars

\* What Redis lost stays lost.
LEMMA LossesCount ==
  ASSUME wipes \in Nat, rollbacks \in Nat, [RecoveryNext]_recVars
  PROVE  wipes' \in Nat /\ rollbacks' \in Nat /\ (Lossless' => Lossless)
<1>1. CASE Wipe \/ Rollback
  BY <1>1 DEF Wipe, Rollback, Lossless
<1>2. ASSUME NEW w \in Workers,
             \/ BootWorker(w) \/ CheckMeta(w) \/ ReadBase(w) \/ ReadTail(w)
             \/ WriteRestored(w) \/ RestoreFails(w)
             \/ Tick(w) \/ SnapshotDue(w) \/ BuildFrame(w) \/ SnapshotRecorded(w)
             \/ SnapshotError(w) \/ CrashWorker(w)
      PROVE  UNCHANGED <<wipes, rollbacks>>
  BY <1>2 DEF BootWorker, CheckMeta, ReadBase, ReadTail, WriteRestored, RestoreFails, Tick,
     SnapshotDue, BuildFrame, SnapshotRecorded, SnapshotError, CrashWorker, lossVars
<1>3. CASE UNCHANGED lossVars \/ Fsync \/ UNCHANGED recVars
  BY <1>3 DEF Fsync, recVars, lossVars, Lossless
<1>4. ASSUME NEW f \in snapOrphans, RecordOrphan(f) PROVE UNCHANGED lossVars
  BY <1>4 DEF RecordOrphan
<1> QED
  BY <1>1, <1>2, <1>3, <1>4 DEF RecoveryNext, Workings, Traffic, Lossless

RecInv ==
  /\ wipes \in Nat /\ rollbacks \in Nat
  /\ Lossless => LiveBeforeFrames

\* Until the first loss the whole worker implements the drain alone: the restore never
\* overwrites a canvas in use (restoreIfNeeded, RESTORE_LUA, makeTick).
THEOREM RecoveryImplementsDrain == RecoverySpec => ImplementsDrain
<1>1. RecoveryInit => RecInv /\ DrainInit
  BY LiveInit DEF RecInv, RecoveryInit
<1>2. RecInv /\ [RecoveryNext]_recVars => RecInv'
  BY LossesCount, LiveStep DEF RecInv
<1>3. RecInv /\ [RecoveryNext]_recVars => (Lossless' => [DrainNext]_drainVars)
  BY LossesCount, LiveStays DEF RecInv
<1> QED
  BY <1>1, <1>2, <1>3, PTL DEF RecoverySpec, ImplementsDrain

-----------------------------------------------------------------------------
(***************************************************************************)
(* The discipline: the volume is lost only at rest and traffic waits for   *)
(* the restore.  The inductive invariant.                                  *)
(***************************************************************************)

\* What a snapshot may hold.
Frames == [version : 0..clock, pixels : [Cells -> Nat]]
Stages == {"off", "meta", "base", "tail", "write", "ready", "build", "upload"}

\* Every write that is durable or may still become so.
Stored == placements \cup Pending

\* A worker that is down has let go of everything, and no batch is empty.
BatchesHeld ==
  /\ {} \notin orphans
  /\ \A w \in Workers : /\ pc[w] = "down" => batch[w] = {}
                        /\ pc[w] \in {"flush", "flushed"} => batch[w] # {}

DownIsOff == \A w \in Workers : pc[w] = "down" => stage[w] = "off"

\* The types the argument needs: ids are unique, and no version is ahead of the ids.
WriteTypes ==
  /\ meta \in Nat /\ clock \in Nat /\ meta <= clock
  /\ pixels \in [Cells -> Nat]
  /\ written \subseteq Write /\ Stored \subseteq written
  /\ \A e \in written : e.id \in 1..clock /\ e.version \in 1..clock
  /\ \A e, f \in written : e.id = f.id => e = f
  /\ pc \in [Workers -> {"down", "idle", "drain", "flush", "flushed", "drained"}]
  /\ batch \in [Workers -> SUBSET written]

RecoveryTypes ==
  /\ WriteTypes
  /\ wipes \in Nat
  /\ stage \in [Workers -> Stages]
  /\ frame \in [Workers -> Frames] /\ tail \in [Workers -> SUBSET placements]
  /\ snapVersion \in [Workers -> Nat]
  /\ snapshots \in Seq(Frames) /\ Len(snapshots) <= SnapshotRetention
  /\ snapOrphans \subseteq Frames

\* Versions follow ids, over everything that is or may become durable.
Ordered == \A e, f \in Stored : e.version < f.version <=> e.id < f.id

\* A canvas that awaits no restore is ahead of all of it.
LiveFollows == Restored => \A e \in Stored : e.version <= meta /\ e.id <= pixels[e.cell]

\* A frame shows every stored write up to its version.
Covers(f) == \A e \in Stored : e.version <= f.version => e.id <= f.pixels[e.cell]
Sound(f) == Covers(f) /\ (Restored => f.version <= meta)

FramesSound ==
  /\ snapshots # <<>> => Sound(Last(snapshots))
  /\ \A f \in snapOrphans : Sound(f)
  /\ \A w \in Workers : stage[w] = "upload" => Sound(frame[w])

\* Without a canvas in Redis nothing is on its way to Convex.
BareIsQuiet ==
  meta = 0 => /\ Pending = {} /\ snapOrphans = {}
              /\ \A w \in Workers : stage[w] \notin {"build", "upload"}

\* A worker that restores an empty Redis has read every page up to its cursor.
TailFollows(w) ==
  meta = 0 /\ stage[w] \in {"tail", "write"} =>
    /\ snapshots # <<>> /\ frame[w] = Last(snapshots)
    /\ \A p \in tail[w] : p.version > frame[w].version
    /\ \A p \in placements :
         /\ p.version > frame[w].version
         /\ stage[w] = "write" \/ p.version <= HeadVersion(frame[w], tail[w])
         => p \in tail[w]

\* Under the discipline what Redis shows is ahead of all that may become durable, what
\* Convex keeps can rebuild it, and an empty Redis has nothing in flight.
Careful ==
  /\ RecoveryTypes /\ BatchesHeld /\ DownIsOff
  /\ Ordered /\ LiveFollows /\ FramesSound /\ BareIsQuiet
  /\ \A w \in Workers : TailFollows(w)
CarefulInductive == careful => Careful

-----------------------------------------------------------------------------
(***************************************************************************)
(* The operators of the restore.                                           *)
(***************************************************************************)

\* A non-empty set of naturals has a least element.
LEMMA LeastOf ==
  ASSUME NEW S \in SUBSET Nat, S # {}
  PROVE  \E s \in S : \A j \in S : s <= j
<1> DEFINE Less == {ss \in Nat \X Nat : ss[1] < ss[2]}
<1>1. IsWellFoundedOn(Less, Nat)
  BY NatLessThanWellFounded DEF OpToRel
<1> HIDE DEF Less
<1>2. PICK s \in S : \A m \in S : ~ (<<m, s>> \in Less)
  BY <1>1, WFMin
<1>3. ASSUME NEW j \in S PROVE s <= j
  <2>1. j \in Nat /\ s \in Nat
    OBVIOUS
  <2>2. ~ (j < s)
    BY <1>2, <2>1 DEF Less
  <2> QED
    BY <2>1, <2>2
<1> QED
  BY <1>3

\* The counter a restore writes is the version of its frame or of the newest row past it
\* (restoreIfNeeded's headVersion).
LEMMA HeadIsGreatest ==
  ASSUME NEW n \in Nat, NEW f, f.version \in 0..n, NEW rows, \A p \in rows : p.version \in 1..n
  PROVE  /\ HeadVersion(f, rows) \in 0..n
         /\ f.version <= HeadVersion(f, rows)
         /\ \A p \in rows : p.version <= HeadVersion(f, rows)
         /\ HeadVersion(f, rows) = f.version \/ \E p \in rows : HeadVersion(f, rows) = p.version
<1> DEFINE S == {f.version} \cup {p.version : p \in rows}
<1>1. S \in SUBSET Nat /\ S # {} /\ \A s \in S : s <= n
  OBVIOUS
<1>2. HeadVersion(f, rows) = Latest(S)
  BY DEF HeadVersion
<1>3. f.version \in S /\ \A p \in rows : p.version \in S
  OBVIOUS
<1>4. \A s \in S : s = f.version \/ \E p \in rows : s = p.version
  OBVIOUS
<1> HIDE DEF S
<1>5. Latest(S) \in S /\ \A s \in S : s <= Latest(S)
  BY <1>1, LatestIsGreatest
<1>6. \A s \in S : s \in 0..n
  BY <1>1
<1>7. Latest(S) \in 0..n
  BY <1>5, <1>6
<1> QED
  BY <1>2, <1>3, <1>4, <1>5, <1>7

\* A rebuilt cell shows the newest row past the frame, or the frame where there is none
\* (reconstructPixels).
LEMMA ReplayPicks ==
  ASSUME NEW n \in Nat, NEW f, NEW rows, \A p \in rows : p.version \in 1..n,
         NEW c \in Cells
  PROVE  LET over == {p \in rows : p.cell = c /\ p.version > f.version}
         IN  \/ over = {} /\ Replay(f, rows)[c] = f.pixels[c]
             \/ \E e \in over : /\ Replay(f, rows)[c] = e.id
                                /\ \A q \in over : q.version <= e.version
<1> DEFINE over == {p \in rows : p.cell = c /\ p.version > f.version}
           newest == CHOOSE p \in over : \A q \in over : q.version <= p.version
<1>1. Replay(f, rows)[c] = IF over = {} THEN f.pixels[c] ELSE newest.id
  BY DEF Replay
<1>2. CASE over = {}
  BY <1>1, <1>2
<1>3. CASE over # {}
  <2> DEFINE V == {p.version : p \in over}
  <2>1. V \in SUBSET Nat /\ V # {} /\ \A v \in V : v <= n
    BY <1>3
  <2>2. Latest(V) \in V /\ \A v \in V : v <= Latest(V)
    <3> HIDE DEF V
    <3> QED
      BY <2>1, LatestIsGreatest
  <2>3. \E p \in over : \A q \in over : q.version <= p.version
    BY <2>2
  <2>4. newest \in over /\ \A q \in over : q.version <= newest.version
    BY <2>3
  <2>5. Replay(f, rows)[c] = newest.id
    BY <1>1, <1>3
  <2> QED
    BY <2>4, <2>5
<1> QED
  BY <1>2, <1>3

\* The bitmap a restore computes is behind no durable row, when its frame covers the rows
\* up to its version and the tail holds all rows past it.
LEMMA ReplayShows ==
  ASSUME WriteTypes, Ordered, NEW f \in Frames, Covers(f), NEW rows \in SUBSET placements,
         \A p \in placements : p.version > f.version => p \in rows,
         NEW p \in placements
  PROVE  p.id <= Replay(f, rows)[p.cell]
<1> DEFINE over == {q \in rows : q.cell = p.cell /\ q.version > f.version}
<1>1. /\ clock \in Nat /\ f.version \in 0..clock
      /\ \A q \in placements : /\ q \in Stored /\ q.version \in 1..clock /\ q.id \in 1..clock
                               /\ q.cell \in Cells
  BY DEF WriteTypes, Stored, Write, Frames
<1>2. \A q \in rows : q \in placements /\ q.version \in 1..clock
  BY <1>1
<1>3. \/ over = {} /\ Replay(f, rows)[p.cell] = f.pixels[p.cell]
      \/ \E e \in over : /\ Replay(f, rows)[p.cell] = e.id
                         /\ \A q \in over : q.version <= e.version
  BY <1>1, <1>2, ReplayPicks
<1>4. CASE over = {} /\ Replay(f, rows)[p.cell] = f.pixels[p.cell]
  <2>1. ~ (p.version > f.version)
    BY <1>4
  <2>2. p.version <= f.version
    BY <1>1, <2>1
  <2> QED
    BY <1>1, <1>4, <2>2 DEF Covers
<1>5. ASSUME NEW e \in over, Replay(f, rows)[p.cell] = e.id, \A q \in over : q.version <= e.version
      PROVE  p.id <= Replay(f, rows)[p.cell]
  <2>1. e \in placements /\ e.version > f.version
    BY <1>2
  <2>2. p.version <= e.version
    <3>1. CASE p.version > f.version
      BY <1>5, <3>1
    <3>2. CASE ~ (p.version > f.version)
      BY <1>1, <2>1, <3>2
    <3> QED
      BY <3>1, <3>2
  <2>3. ~ (e.version < p.version)
    BY <1>1, <2>1, <2>2
  <2>4. ~ (e.id < p.id)
    BY <1>1, <2>1, <2>3 DEF Ordered
  <2> QED
    BY <1>1, <1>5, <2>1, <2>4
<1> QED
  BY <1>3, <1>4, <1>5

\* A rebuilt bitmap holds a write, or nothing, in each cell.
LEMMA ReplayType ==
  ASSUME WriteTypes, NEW f \in Frames, NEW rows \in SUBSET placements
  PROVE  Replay(f, rows) \in [Cells -> Nat]
<1>1. \A q \in rows : q.version \in 1..clock /\ q.id \in Nat
  BY DEF WriteTypes, Stored
<1>2. clock \in Nat /\ f.pixels \in [Cells -> Nat]
  BY DEF WriteTypes, Frames
<1>3. ASSUME NEW c \in Cells PROVE Replay(f, rows)[c] \in Nat
  BY <1>1, <1>2, ReplayPicks
<1>4. \E g : Replay(f, rows) = [c \in Cells |-> g[c]]
  <2>1. Replay(f, rows) = [c \in Cells |-> Replay(f, rows)[c]]
    BY DEF Replay
  <2> QED
    BY <2>1
<1> QED
  BY <1>3, <1>4

\* How many numbers are left of 1..m without one of them.
LEMMA SizeWithout ==
  ASSUME NEW m \in Nat, NEW d \in Nat, d > 0
  PROVE  /\ IsFiniteSet((1..m) \ {d})
         /\ Cardinality((1..m) \ {d}) = m - (IF d <= m THEN 1 ELSE 0)
<1>1. IsFiniteSet(1..m) /\ Cardinality(1..m) = m
  BY FS_Interval
<1>2. IsFiniteSet((1..m) \ {d})
  BY <1>1, FS_RemoveElement
<1>3. CASE d \in 1..m
  <2>1. Cardinality((1..m) \ {d}) = Cardinality(1..m) - 1
    BY <1>1, <1>3, FS_RemoveElement
  <2> QED
    BY <1>1, <1>2, <1>3, <2>1
<1>4. CASE d \notin 1..m
  <2>1. (1..m) \ {d} = 1..m
    BY <1>4
  <2>2. ~ (d <= m)
    BY <1>4
  <2>3. Cardinality((1..m) \ {d}) = m
    BY <1>1, <2>1
  <2> QED
    BY <1>2, <2>2, <2>3
<1> QED
  BY <1>3, <1>4

\* The place of a member of 1..m \ {d}, counted from the least.
LEMMA PlaceWithout ==
  ASSUME NEW m \in Nat, NEW d \in Nat, NEW i \in (1..m) \ {d}, d > 0
  PROVE  Cardinality({j \in (1..m) \ {d} : j <= i}) = IF i < d THEN i ELSE i - 1
<1>1. IsFiniteSet(1..i) /\ Cardinality(1..i) = i /\ i \in Nat /\ i > 0
  BY FS_Interval
<1>2. CASE i < d
  <2>1. {j \in (1..m) \ {d} : j <= i} = 1..i
    BY <1>2
  <2> QED
    BY <1>1, <1>2, <2>1
<1>3. CASE ~ (i < d)
  <2>1. {j \in (1..m) \ {d} : j <= i} = (1..i) \ {d}
    BY <1>3
  <2>2. d \in 1..i
    BY <1>3
  <2>3. Cardinality((1..i) \ {d}) = Cardinality(1..i) - 1
    BY <1>1, <2>2, FS_RemoveElement
  <2> QED
    BY <1>1, <1>3, <2>1, <2>3
<1> QED
  BY <1>2, <1>3

\* The row a compaction puts at place k: the k-th of the kept ones.
KeptAt(kept, k) == CHOOSE i \in kept : Cardinality({j \in kept : j <= i}) = k

\* Each place is taken by exactly one of them.
LEMMA TakesPlace ==
  ASSUME NEW m \in Nat, NEW d \in Nat, d > 0, NEW k \in Nat, k > 0,
         k <= m - (IF d <= m THEN 1 ELSE 0)
  PROVE  KeptAt((1..m) \ {d}, k) = IF k < d THEN k ELSE k + 1
<1> DEFINE it == IF k < d THEN k ELSE k + 1
           place(i) == Cardinality({j \in (1..m) \ {d} : j <= i})
<1>1. it \in (1..m) \ {d}
  BY Z3
<1>2. \A i \in (1..m) \ {d} : place(i) = IF i < d THEN i ELSE i - 1
  BY PlaceWithout
<1> HIDE DEF place
<1>3. place(it) = k
  BY <1>1, <1>2
<1>4. \A i \in (1..m) \ {d} : place(i) = k => i = it
  BY <1>2
<1> HIDE DEF it
<1>5. (CHOOSE i \in (1..m) \ {d} : place(i) = k) = it
  BY <1>1, <1>3, <1>4
<1> QED
  BY <1>5 DEF place, it, KeptAt

\* Of the rows a compaction looks at it drops at most one, and only when they are too many.
LEMMA CompactionDrops ==
  ASSUME NEW rows, NEW m \in Nat, DOMAIN rows = 1..m, m > 0, m <= SnapshotRetention + 1,
         \A i \in 1..m : rows[i].version \in Nat
  PROVE  \E d \in Nat :
           /\ d > 0 /\ (d <= m <=> m = SnapshotRetention + 1)
           /\ {i \in DOMAIN rows : Cardinality(NewerThan(i, rows)) < SnapshotRetention}
                = (1..m) \ {d}
<1> DEFINE kept == {i \in DOMAIN rows : Cardinality(NewerThan(i, rows)) < SnapshotRetention}
<1>2. ASSUME NEW i \in 1..m
      PROVE  /\ NewerThan(i, rows) \subseteq (1..m) \ {i}
             /\ IsFiniteSet((1..m) \ {i}) /\ Cardinality((1..m) \ {i}) = m - 1
             /\ IsFiniteSet(NewerThan(i, rows)) /\ Cardinality(NewerThan(i, rows)) \in Nat
             /\ Cardinality(NewerThan(i, rows)) <= m - 1
  <2>1. NewerThan(i, rows) \subseteq (1..m) \ {i}
    BY DEF NewerThan
  <2>2. IsFiniteSet((1..m) \ {i}) /\ Cardinality((1..m) \ {i}) = m - 1
    <3>1. i \in Nat /\ i > 0 /\ i <= m
      OBVIOUS
    <3>2. IsFiniteSet((1..m) \ {i}) /\ Cardinality((1..m) \ {i}) = m - (IF i <= m THEN 1 ELSE 0)
      BY <3>1, SizeWithout
    <3> QED
      BY <3>1, <3>2
  <2>3. IsFiniteSet(NewerThan(i, rows)) /\ Cardinality(NewerThan(i, rows)) <= m - 1
    BY <2>1, <2>2, FS_Subset
  <2> QED
    BY <2>1, <2>2, <2>3, FS_CardinalityType
<1>3. CASE m <= SnapshotRetention
  <2>1. kept = (1..m) \ {m + 1}
    <3> SUFFICES ASSUME NEW i \in 1..m PROVE Cardinality(NewerThan(i, rows)) < SnapshotRetention
      OBVIOUS
    <3>1. Cardinality(NewerThan(i, rows)) \in Nat /\ Cardinality(NewerThan(i, rows)) <= m - 1
      BY <1>2
    <3> QED
      BY <1>3, <3>1
  <2>2. m + 1 \in Nat /\ m + 1 > 0 /\ (m + 1 <= m <=> m = SnapshotRetention + 1)
    BY <1>3
  <2> QED
    BY <2>1, <2>2
<1>4. CASE m = SnapshotRetention + 1
  <2> DEFINE V == {rows[i].version : i \in 1..m}
  <2>1. V \in SUBSET Nat /\ V # {}
    OBVIOUS
  <2>2. PICK v \in V : \A x \in V : v <= x
    <3> HIDE DEF V
    <3> QED
      BY <2>1, LeastOf
  <2> DEFINE D == {i \in 1..m : rows[i].version = v}
  <2>3. D \in SUBSET Nat /\ D # {}
    OBVIOUS
  <2>4. PICK d \in D : \A x \in D : d <= x
    <3> HIDE DEF D
    <3> QED
      BY <2>3, LeastOf
  <2>5. d \in 1..m /\ \A i \in (1..m) \ {d} : i \in NewerThan(d, rows)
    <3>1. d \in 1..m /\ rows[d].version = v
      OBVIOUS
    <3> SUFFICES ASSUME NEW i \in (1..m) \ {d} PROVE i \in NewerThan(d, rows)
      BY <3>1
    <3>2. v <= rows[i].version /\ v \in Nat /\ rows[i].version \in Nat
      BY <2>2
    <3>3. CASE rows[i].version = v
      <4>1. i > d
        BY <2>4, <3>1, <3>3
      <4> QED
        BY <3>1, <3>3, <4>1 DEF NewerThan
    <3>4. CASE rows[i].version # v
      BY <3>1, <3>2, <3>4 DEF NewerThan
    <3> QED
      BY <3>3, <3>4
  <2> HIDE DEF D, V
  <2>6. d \notin kept
    <3>1. NewerThan(d, rows) = (1..m) \ {d}
      BY <1>2, <2>5
    <3>2. Cardinality((1..m) \ {d}) = m - 1
      BY <1>2, <2>5
    <3>3. ~ (Cardinality(NewerThan(d, rows)) < SnapshotRetention)
      BY <1>4, <3>1, <3>2
    <3> QED
      BY <3>3
  <2>7. ASSUME NEW i \in (1..m) \ {d} PROVE i \in kept
    <3>1. d \notin NewerThan(i, rows)
      BY <2>5 DEF NewerThan
    <3>2. NewerThan(i, rows) \subseteq ((1..m) \ {i}) \ {d}
      BY <1>2, <3>1
    <3>3. /\ IsFiniteSet(((1..m) \ {i}) \ {d})
          /\ Cardinality(((1..m) \ {i}) \ {d}) = m - 2
      <4>1. d \in (1..m) \ {i} /\ IsFiniteSet((1..m) \ {i}) /\ Cardinality((1..m) \ {i}) = m - 1
        BY <1>2, <2>5
      <4>2. /\ IsFiniteSet(((1..m) \ {i}) \ {d})
            /\ Cardinality(((1..m) \ {i}) \ {d}) = Cardinality((1..m) \ {i}) - 1
        BY <4>1, FS_RemoveElement
      <4> QED
        BY <4>1, <4>2
    <3>4. Cardinality(NewerThan(i, rows)) <= m - 2
      BY <3>2, <3>3, FS_Subset
    <3>5. Cardinality(NewerThan(i, rows)) \in Nat
      BY <1>2
    <3> QED
      BY <1>4, <3>4, <3>5
  <2>8. kept = (1..m) \ {d}
    BY <2>6, <2>7
  <2>9. d \in Nat /\ d > 0 /\ d <= m
    BY <2>5
  <2> QED
    BY <1>4, <2>8, <2>9
<1> QED
  BY <1>3, <1>4

\* A recorded frame, or the row that was newest before it, is the newest row afterwards,
\* and no more rows are kept than the retention allows (recordSnapshot's compaction).
LEMMA CompactionKeeps ==
  ASSUME NEW S, S \subseteq [version : Nat, pixels : [Cells -> Nat]],
         NEW rows \in Seq(S), Len(rows) <= SnapshotRetention, NEW f \in S
  PROVE  /\ Compacted(Append(rows, f)) \in Seq(S)
         /\ Len(Compacted(Append(rows, f))) <= SnapshotRetention
         /\ Compacted(Append(rows, f)) # <<>>
         /\ \/ Last(Compacted(Append(rows, f))) = f
            \/ rows # <<>> /\ Last(Compacted(Append(rows, f))) = Last(rows)
<1>0. PICK n \in Nat : n = Len(rows)
  BY LenProperties
<1>1. PICK m \in Nat : m = n + 1
  BY <1>0
<1> DEFINE all == Append(rows, f)
<1>2. /\ all \in Seq(S) /\ Len(all) = m /\ DOMAIN all = 1..m
      /\ all[m] = f /\ \A i \in 1..n : all[i] = rows[i]
  <2>1. all \in Seq(S) /\ Len(all) = Len(rows) + 1
    BY AppendProperties
  <2>2. DOMAIN all = 1..Len(all)
    BY <2>1, LenProperties
  <2>3. all[Len(rows) + 1] = f /\ \A i \in 1..Len(rows) : all[i] = rows[i]
    BY AppendProperties
  <2> QED
    BY <1>0, <1>1, <2>1, <2>2, <2>3
<1>3. \A i \in 1..m : all[i] \in S
  BY <1>2, ElementOfSeq
<1> HIDE DEF all
<1>4. \A i \in 1..m : all[i].version \in Nat
  BY <1>3
<1> DEFINE kept == {i \in DOMAIN all : Cardinality(NewerThan(i, all)) < SnapshotRetention}
<1>5. PICK d \in Nat : /\ d > 0 /\ (d <= m <=> m = SnapshotRetention + 1)
                       /\ kept = (1..m) \ {d}
  <2>1. m > 0 /\ m <= SnapshotRetention + 1 /\ DOMAIN all = 1..m
    BY <1>0, <1>1, <1>2
  <2> QED
    BY <1>4, <2>1, CompactionDrops
<1>6. PICK k \in Nat : k = m - (IF d <= m THEN 1 ELSE 0)
  BY <1>0, <1>1
<1>7. Cardinality(kept) = k
  <2>1. Cardinality((1..m) \ {d}) = m - (IF d <= m THEN 1 ELSE 0)
    BY <1>5, SizeWithout
  <2> QED
    BY <1>5, <1>6, <2>1
<1> DEFINE nth(i) == KeptAt(kept, i)
<1>8. \A i \in 1..k : nth(i) = IF i < d THEN i ELSE i + 1
  <2> TAKE i \in 1..k
  <2>1. i \in Nat /\ i > 0 /\ i <= m - (IF d <= m THEN 1 ELSE 0)
    BY <1>6
  <2>2. KeptAt((1..m) \ {d}, i) = IF i < d THEN i ELSE i + 1
    <3>1. d > 0
      BY <1>5
    <3>2. i > 0 /\ i \in Nat /\ i <= m - (IF d <= m THEN 1 ELSE 0)
      BY <2>1
    <3> QED
      BY <3>1, <3>2, TakesPlace
  <2> QED
    BY <1>5, <2>2
<1>9. Compacted(all) = [i \in 1..k |-> all[nth(i)]]
  BY <1>7 DEF Compacted, KeptAt
<1> HIDE DEF nth, kept
<1>10. \A i \in 1..k : nth(i) \in 1..m
  BY <1>6, <1>8
<1>11. Compacted(all) \in Seq(S)
  BY <1>3, <1>9, <1>10, IsASeq
<1>12. k > 0 /\ k <= SnapshotRetention
  BY <1>0, <1>1, <1>5, <1>6
<1>13. DOMAIN Compacted(all) = 1..k
  BY <1>9
<1>14. Len(Compacted(all)) = k
  <2>1. Len(Compacted(all)) \in Nat /\ DOMAIN Compacted(all) = 1..Len(Compacted(all))
    BY <1>11, LenProperties
  <2> QED
    BY <1>12, <1>13, <2>1
<1>15. Compacted(all) # <<>>
  BY <1>12, <1>14, EmptySeq
<1>16. Last(Compacted(all)) = all[nth(k)]
  <2>1. Last(Compacted(all)) = Compacted(all)[k]
    BY <1>14 DEF Last
  <2>2. k \in 1..k
    BY <1>12
  <2> QED
    BY <1>9, <2>1, <2>2
<1>17. CASE nth(k) = m
  BY <1>2, <1>11, <1>12, <1>14, <1>15, <1>16, <1>17 DEF all
<1>18. CASE nth(k) # m
  <2>1. nth(k) = n /\ n \in 1..n
    BY <1>0, <1>1, <1>6, <1>8, <1>12, <1>18
  <2>2. all[nth(k)] = Last(rows)
    BY <1>0, <1>2, <2>1 DEF Last
  <2>3. rows # <<>>
    BY <1>0, <2>1, EmptySeq
  <2> QED
    BY <1>11, <1>12, <1>14, <1>15, <1>16, <2>2, <2>3 DEF all
<1> QED
  BY <1>17, <1>18

\* What getPlacementsSince returns of the rows past a cursor.
Page(rest) == {p \in rest : Cardinality({q \in rest : q.version < p.version}) < PageSize}

\* A page is the oldest rows past its cursor, and one that is not full is the last.
LEMMA PageFollows ==
  ASSUME NEW n \in Nat, NEW rest, IsFiniteSet(rest), \A p \in rest : p.version \in 1..n,
         NEW page, page = Page(rest)
  PROVE  /\ \A p \in rest, q \in page : p.version <= q.version => p \in page
         /\ Cardinality(page) < PageSize => page = rest
<1> DEFINE before(p) == {q \in rest : q.version < p.version}
<1>0. page \subseteq rest /\ \A p \in rest : p \in page <=> Cardinality(before(p)) < PageSize
  BY DEF Page
<1>1. \A p \in rest : IsFiniteSet(before(p)) /\ Cardinality(before(p)) \in Nat
  <2> TAKE p \in rest
  <2>1. before(p) \in SUBSET rest
    OBVIOUS
  <2>2. IsFiniteSet(before(p))
    BY <2>1, FS_Subset
  <2> QED
    BY <2>2, FS_CardinalityType
<1>2. ASSUME NEW p \in rest, NEW q \in page, p.version <= q.version PROVE p \in page
  <2>1. before(p) \subseteq before(q)
    BY <1>0, <1>2
  <2>2. Cardinality(before(p)) <= Cardinality(before(q))
    BY <1>1, <2>1, FS_Subset
  <2>3. q \in rest /\ Cardinality(before(q)) < PageSize
    BY <1>0
  <2> HIDE DEF before
  <2>4. Cardinality(before(p)) < PageSize
    BY <1>1, <2>2, <2>3
  <2> QED
    BY <1>0, <2>4
<1>3. ASSUME page # rest PROVE ~ (Cardinality(page) < PageSize)
  <2> DEFINE V == {p.version : p \in rest \ page}
  <2>1. V \in SUBSET Nat /\ V # {}
    <3>1. \E p \in rest : p \notin page
      BY <1>0, <1>3
    <3>2. \A p \in rest : p.version \in Nat
      OBVIOUS
    <3>3. V # {}
      BY <3>1
    <3>4. \A v \in V : v \in Nat
      BY <3>2
    <3> HIDE DEF V
    <3> QED
      BY <3>3, <3>4
  <2>2. PICK v \in V : \A x \in V : v <= x
    <3> HIDE DEF V
    <3> QED
      BY <2>1, LeastOf
  <2>3. PICK p \in rest \ page : p.version = v
    OBVIOUS
  <2>4. before(p) \subseteq page
    <3> SUFFICES ASSUME NEW q \in rest, q.version < p.version, q \notin page PROVE FALSE
      OBVIOUS
    <3>1. q.version \in V
      OBVIOUS
    <3>2. v <= q.version /\ q.version \in Nat /\ v \in Nat
      BY <2>1, <2>2, <3>1
    <3> QED
      BY <2>3, <3>2
  <2>5. ~ (Cardinality(before(p)) < PageSize)
    BY <1>0, <2>3
  <2>6. IsFiniteSet(page) /\ page \in SUBSET rest
    BY <1>0, FS_Subset
  <2>7. Cardinality(before(p)) <= Cardinality(page) /\ Cardinality(page) \in Nat
    BY <2>4, <2>6, FS_Subset, FS_CardinalityType
  <2>8. Cardinality(before(p)) \in Nat
    BY <1>1, <2>3
  <2> HIDE DEF before, V
  <2> QED
    BY <2>5, <2>7, <2>8
<1> QED
  BY <1>2, <1>3

-----------------------------------------------------------------------------
(***************************************************************************)
(* What a step of the drain does to the writes that are or may become      *)
(* durable: it only moves them on.                                         *)
(***************************************************************************)
Workaday ==
  /\ UNCHANGED <<meta, pixels, clock, written>>
  /\ placements \subseteq placements'
  /\ Pending' \subseteq Pending /\ placements' \subseteq Stored
  /\ pc' \in [Workers -> {"down", "idle", "drain", "flush", "flushed", "drained"}]
  /\ batch' \in [Workers -> SUBSET written]

\* applyFlush only inserts rows of its batch.
LEMMA FlushStores ==
  ASSUME NEW b, b \subseteq Pending, ApplyFlush(b)
  PROVE  placements \subseteq placements' /\ placements' \subseteq Stored
BY DEF ApplyFlush, convexVars, Fresh, Stored

\* Where a write that may still become durable is.
Underway(e) ==
  \/ e \in stream
  \/ \E w \in Workers : e \in batch[w]
  \/ \E b \in orphans : e \in b

\* A member of a union is a member of one of its sets.
LEMMA UnionOf ==
  ASSUME NEW S, NEW f
  PROVE  \A e : e \in UNION {f[x] : x \in S} <=> \E x \in S : e \in f[x]
OBVIOUS

\* Pending, by membership.
LEMMA PendingIsUnderway == \A e : /\ e \in Pending <=> Underway(e)
                                  /\ e \in Pending' <=> Underway(e)'
<1> TAKE e
<1> DEFINE held == UNION {batch[w] : w \in Workers}
           left == UNION orphans
           held2 == UNION {batch'[w] : w \in Workers}
           left2 == UNION orphans'
<1>1. e \in left <=> \E b \in orphans : e \in b
  OBVIOUS
<1>2. e \in held <=> \E w \in Workers : e \in batch[w]
  BY UnionOf
<1>3. e \in left2 <=> \E b \in orphans' : e \in b
  OBVIOUS
<1>4. e \in held2 <=> \E w \in Workers : e \in batch'[w]
  BY UnionOf
<1>5. Pending = stream \cup held \cup left
  BY DEF Pending
<1>8. Pending' = stream' \cup held2 \cup left2
  BY DEF Pending
<1> HIDE DEF held, held2, left, left2
<1>6. e \in Pending <=> Underway(e)
  BY <1>1, <1>2, <1>5 DEF Underway
<1>7. e \in Pending' <=> Underway(e)'
  BY <1>3, <1>4, <1>8 DEF Underway
<1> QED
  BY <1>6, <1>7

Moves(w, p, b, new) ==
  /\ UNCHANGED <<meta, pixels, clock, written>>
  /\ placements \subseteq placements' /\ placements' \subseteq Stored
  /\ stream' \subseteq stream
  /\ pc' = [pc EXCEPT ![w] = p]
  /\ p \in {"down", "idle", "drain", "flush", "flushed", "drained"}
  /\ batch' = [batch EXCEPT ![w] = b] /\ b \subseteq Pending
  /\ p = "down" => b = {}
  /\ p \in {"flush", "flushed"} => b # {}
  /\ orphans' \subseteq orphans \cup new
  /\ \A o \in new : o \subseteq Pending /\ o # {}

\* A step that takes a worker's batch from the stream, keeps it or abandons it moves
\* writes on and forges none.
LEMMA MovesOn ==
  ASSUME WriteTypes, BatchesHeld, NEW w \in Workers, NEW p, NEW b, NEW new, Moves(w, p, b, new)
  PROVE  /\ Workaday /\ BatchesHeld' /\ pc'[w] = p
         /\ \A v \in Workers : v # w => pc'[v] = pc[v]
<1> USE DEF Moves
<1>1. ASSUME NEW e, Underway(e)' PROVE e \in Pending
  <2>1. CASE e \in stream'
    BY <2>1, PendingIsUnderway DEF Underway
  <2>2. ASSUME NEW v \in Workers, e \in batch'[v] PROVE e \in Pending
    <3>1. v = w \/ e \in batch[v]
      BY <2>2 DEF WriteTypes
    <3>2. CASE e \in batch[v]
      BY <3>2, PendingIsUnderway DEF Underway
    <3>3. CASE v = w
      BY <2>2, <3>3 DEF WriteTypes
    <3> QED
      BY <3>1, <3>2, <3>3
  <2>3. ASSUME NEW o \in orphans', e \in o PROVE e \in Pending
    <3>1. CASE o \in orphans
      BY <2>3, <3>1, PendingIsUnderway DEF Underway
    <3>2. CASE o \in new
      BY <2>3, <3>2
    <3> QED
      BY <3>1, <3>2
  <2> QED
    BY <1>1, <2>1, <2>2, <2>3 DEF Underway
<1>2. Pending' \subseteq Pending
  BY <1>1, PendingIsUnderway
<1>3. b \subseteq written
  BY DEF WriteTypes, Stored
<1>4. Workaday
  BY <1>2, <1>3 DEF Workaday, WriteTypes
<1>5. pc'[w] = p /\ batch'[w] = b /\ \A v \in Workers : v # w => pc'[v] = pc[v] /\ batch'[v] = batch[v]
  BY DEF WriteTypes
<1>6. BatchesHeld'
  BY <1>5 DEF BatchesHeld
<1> QED
  BY <1>4, <1>5, <1>6

\* Every step of a worker's drain loop, and of the requests it abandoned, moves writes
\* on and forges none, and takes no other worker down.
LEMMA WorkerIsWorkaday ==
  ASSUME WriteTypes, BatchesHeld, NEW w \in Workers,
         Boot(w) \/ StartTick(w) \/ Drain(w) \/ EndTick(w) \/ TickError(w) \/ Crash(w)
  PROVE  /\ Workaday /\ BatchesHeld'
         /\ \A v \in Workers : pc'[v] = "down" => pc[v] = "down" \/ v = w
<1>0. /\ batch[w] \subseteq Pending /\ batch = [batch EXCEPT ![w] = batch[w]]
      /\ pc[w] = "down" => batch[w] = {}
      /\ pc[w] \in {"flush", "flushed"} => batch[w] # {}
      /\ placements \subseteq Stored
  BY PendingIsUnderway DEF Underway, WriteTypes, BatchesHeld, Stored
<1>1. CASE Boot(w) \/ StartTick(w) \/ DrainEmpty(w) \/ EndTick(w)
  <2>1. PICK p \in {"idle", "drain", "drained"} : pc' = [pc EXCEPT ![w] = p]
    BY <1>1 DEF Boot, StartTick, DrainEmpty, EndTick
  <2>2. UNCHANGED <<meta, pixels, clock, written, stream, placements, orphans, batch>>
    BY <1>1 DEF Boot, StartTick, DrainEmpty, EndTick, redisVars, convexVars
  <2>3. Moves(w, p, batch[w], {})
    BY <1>0, <2>1, <2>2 DEF Moves
  <2> QED
    BY <2>1, <2>3, MovesOn
<1>2. CASE DrainRead(w)
  <2>1. PICK b \in Reads(cursor[w]) : batch' = [batch EXCEPT ![w] = b]
    BY <1>2 DEF DrainRead
  <2>2. b \subseteq stream /\ b # {}
    <3>1. PICK k \in Ids({e \in stream : e.id > cursor[w]}) :
            b = {e \in {e \in stream : e.id > cursor[w]} : e.id <= k}
      BY DEF Reads
    <3>2. PICK e \in stream : e.id = k /\ e.id > cursor[w]
      BY DEF Ids
    <3>3. e.id \in Nat
      BY <3>2 DEF Pending, Stored, WriteTypes
    <3> QED
      BY <3>1, <3>2, <3>3
  <2>3. b \subseteq Pending
    BY <2>2 DEF Pending
  <2>4. /\ UNCHANGED <<meta, pixels, clock, written, stream, placements, orphans>>
        /\ pc' = [pc EXCEPT ![w] = "flush"]
    BY <1>2 DEF DrainRead, redisVars, convexVars
  <2>5. Moves(w, "flush", b, {})
    BY <1>0, <2>1, <2>2, <2>3, <2>4 DEF Moves
  <2> QED
    BY <2>5, MovesOn
<1>3. CASE CommitFlush(w)
  <2>1. placements \subseteq placements' /\ placements' \subseteq Stored
    BY <1>0, <1>3, FlushStores DEF CommitFlush
  <2>2. UNCHANGED <<meta, pixels, clock, written, stream, orphans>> /\ batch[w] # {}
    BY <1>0, <1>3 DEF CommitFlush, redisVars
  <2>3. CASE canvasRow
    <3>1. pc' = [pc EXCEPT ![w] = "flushed"] /\ batch' = batch
      BY <1>3, <2>3 DEF CommitFlush
    <3>2. Moves(w, "flushed", batch[w], {})
      BY <1>0, <2>1, <2>2, <3>1 DEF Moves
    <3> QED
      BY <3>2, MovesOn
  <2>4. CASE ~canvasRow
    <3>1. pc' = [pc EXCEPT ![w] = "drained"] /\ batch' = [batch EXCEPT ![w] = {}]
      BY <1>3, <2>4 DEF CommitFlush
    <3>2. Moves(w, "drained", {}, {})
      BY <1>0, <2>1, <2>2, <3>1 DEF Moves
    <3> QED
      BY <3>2, MovesOn
  <2> QED
    BY <2>3, <2>4
<1>4. CASE TrimStream(w)
  <2>1. PICK p \in {"drained", "drain"} : pc' = [pc EXCEPT ![w] = p]
    BY <1>4 DEF TrimStream
  <2>2. /\ UNCHANGED <<meta, pixels, clock, written, placements, orphans>>
        /\ stream' \subseteq stream /\ batch' = [batch EXCEPT ![w] = {}]
    BY <1>4 DEF TrimStream, convexVars
  <2>3. Moves(w, p, {}, {})
    BY <1>0, <2>1, <2>2 DEF Moves
  <2> QED
    BY <2>1, <2>3, MovesOn
<1>5. CASE TickError(w) \/ Crash(w)
  <2>1. /\ UNCHANGED <<meta, pixels, clock, written, stream, placements>>
        /\ orphans' = orphans \cup (IF pc[w] = "flush" THEN {batch[w]} ELSE {})
        /\ batch' = [batch EXCEPT ![w] = {}]
    BY <1>5 DEF TickError, Crash, Abandon, redisVars, convexVars
  <2>2. PICK p \in {"idle", "down"} : pc' = [pc EXCEPT ![w] = p] /\ (p = "down" => Crash(w))
    BY <1>5 DEF TickError, Crash
  <2>3. PICK new : new = IF pc[w] = "flush" THEN {batch[w]} ELSE {}
    OBVIOUS
  <2>4. \A o \in new : o \subseteq Pending /\ o # {}
    BY <1>0, <2>3
  <2>5. Moves(w, p, {}, new)
    BY <1>0, <2>1, <2>2, <2>3, <2>4 DEF Moves
  <2> QED
    BY <2>2, <2>5, MovesOn
<1> QED
  BY <1>1, <1>2, <1>3, <1>4, <1>5 DEF Drain

\* So does every other step of the drain.
LEMMA OthersAreWorkaday ==
  ASSUME WriteTypes, BatchesHeld,
         CreateCanvas \/ LockExpire \/ (\E b \in orphans : CommitOrphan(b))
         \/ UNCHANGED drainVars
  PROVE  Workaday /\ BatchesHeld' /\ pc' = pc
<1> USE DEF Workaday, BatchesHeld, WriteTypes
<1>1. CASE CreateCanvas \/ LockExpire \/ UNCHANGED drainVars
  BY <1>1 DEF CreateCanvas, LockExpire, drainVars, redisVars, convexVars, workerVars, Pending, Stored
<1>2. ASSUME NEW b \in orphans, CommitOrphan(b)
      PROVE  Workaday /\ BatchesHeld' /\ pc' = pc
  <2>1. b \subseteq Pending
    BY PendingIsUnderway DEF Underway
  <2>2. placements \subseteq placements' /\ placements' \subseteq Stored
    BY <1>2, <2>1, FlushStores DEF CommitOrphan
  <2> QED
    BY <1>2, <2>2 DEF CommitOrphan, redisVars, workerVars, Pending
<1> QED
  BY <1>1, <1>2

-----------------------------------------------------------------------------
(***************************************************************************)
(* The invariant when writes only move on.                                 *)
(***************************************************************************)

\* Sound, as of the next state.
SoundThen(f) ==
  /\ \A e \in Stored' : e.version <= f.version => e.id <= f.pixels[e.cell]
  /\ Restored' => f.version <= meta'

\* A frame that was sound stays so, and nothing new becomes durable without a canvas.
LEMMA WorkadayKeeps ==
  ASSUME WriteTypes, Ordered, LiveFollows, BareIsQuiet, Workaday, wipes' = wipes
  PROVE  /\ WriteTypes' /\ Ordered' /\ LiveFollows' /\ Frames' = Frames
         /\ \A f : Sound(f) => SoundThen(f)
         /\ meta = 0 => Pending' = {} /\ placements' = placements
<1>1. Stored' \subseteq Stored /\ UNCHANGED <<meta, clock, pixels, written>>
  BY DEF Workaday, Stored
<1>2. WriteTypes'
  BY <1>1 DEF WriteTypes, Workaday
<1>3. Ordered'
  BY <1>1 DEF Ordered
<1>4. LiveFollows'
  BY <1>1 DEF LiveFollows, Restored
<1>5. Frames' = Frames
  BY <1>1 DEF Frames
<1>6. \A f : Sound(f) => SoundThen(f)
  BY <1>1 DEF Sound, Covers, SoundThen, Restored
<1>7. meta = 0 => Pending' = {} /\ placements' = placements
  BY DEF BareIsQuiet, Workaday, Stored
<1> QED
  BY <1>2, <1>3, <1>4, <1>5, <1>6, <1>7

\* What must hold of the frames when a step moves writes on.
FramesThen ==
  /\ snapshots' \in Seq(Frames) /\ Len(snapshots') <= SnapshotRetention
  /\ snapshots' # <<>> => SoundThen(Last(snapshots'))
  /\ snapOrphans' \subseteq Frames /\ \A f \in snapOrphans' : SoundThen(f)
  /\ meta = 0 => snapshots' = snapshots /\ snapOrphans' = {}
  /\ snapVersion' \in [Workers -> Nat]

\* A step that records no frame leaves the frames sound.
LEMMA FramesStay ==
  ASSUME Careful, Workaday, wipes' = wipes, UNCHANGED <<snapshots, snapOrphans>>,
         snapVersion' \in [Workers -> Nat]
  PROVE  FramesThen
<1>1. WriteTypes /\ Ordered /\ LiveFollows /\ BareIsQuiet /\ FramesSound /\ RecoveryTypes
  BY DEF Careful, RecoveryTypes
<1>2. \A f : Sound(f) => SoundThen(f)
  BY <1>1, WorkadayKeeps
<1> QED
  BY <1>1, <1>2 DEF FramesThen, FramesSound, BareIsQuiet, RecoveryTypes

\* A worker the step leaves alone still follows: without a canvas the log stands still.
LEMMA TailStays ==
  ASSUME Careful, Workaday, wipes' = wipes, FramesThen, NEW w \in Workers,
         stage'[w] = stage[w], frame'[w] = frame[w], tail'[w] = tail[w]
  PROVE  TailFollows(w)'
<1>1. WriteTypes /\ Ordered /\ LiveFollows /\ BareIsQuiet /\ TailFollows(w) /\ meta' = meta
  BY DEF Careful, RecoveryTypes, Workaday
<1>2. SUFFICES ASSUME meta = 0 PROVE TailFollows(w)'
  BY <1>1 DEF TailFollows
<1>3. placements' = placements /\ snapshots' = snapshots
  BY <1>1, <1>2, WorkadayKeeps DEF FramesThen
<1> QED
  BY <1>1, <1>3 DEF TailFollows

\* A step that moves writes on, and the stage of at most the workers given, is careful if
\* what those workers hold afterwards is.
LEMMA CarefulStays ==
  ASSUME Careful, Workaday, wipes' = wipes, BatchesHeld', FramesThen, DownIsOff',
         stage' \in [Workers -> Stages], frame' \in [Workers -> Frames],
         tail' \in [Workers -> SUBSET placements'],
         \A w \in Workers : /\ stage'[w] = "upload" => SoundThen(frame'[w])
                            /\ meta = 0 => stage'[w] \notin {"build", "upload"}
                            /\ TailFollows(w)'
  PROVE  Careful'
<1>1. WriteTypes /\ Ordered /\ LiveFollows /\ BareIsQuiet /\ wipes \in Nat
  BY DEF Careful, RecoveryTypes
<1>2. /\ WriteTypes' /\ Ordered' /\ LiveFollows' /\ Frames' = Frames
      /\ meta = 0 => Pending' = {} /\ placements' = placements
  BY <1>1, WorkadayKeeps
<1>3. RecoveryTypes'
  BY <1>1, <1>2 DEF RecoveryTypes, FramesThen
<1>4. \A f : SoundThen(f) <=> Sound(f)'
  BY DEF SoundThen, Sound, Covers
<1>5. FramesSound'
  BY DEF FramesSound, FramesThen, SoundThen, Sound, Covers
<1>6. BareIsQuiet'
  BY <1>2 DEF BareIsQuiet, FramesThen, Workaday
<1> QED
  BY <1>2, <1>3, <1>5, <1>6 DEF Careful

\* A step that gives one worker the stage s, the frame f and the tail t.
StageMoves(w, s, f, t) ==
  /\ s \in Stages /\ f \in Frames /\ t \subseteq placements'
  /\ stage' = [stage EXCEPT ![w] = s]
  /\ frame' = [frame EXCEPT ![w] = f]
  /\ tail' = [tail EXCEPT ![w] = t]
  /\ \A v \in Workers : pc'[v] = "down" => pc[v] = "down" \/ v = w
  /\ pc'[w] = "down" => s = "off"
  /\ s = "upload" => SoundThen(f)
  /\ meta = 0 => s \notin {"build", "upload"}

\* The same for such a step.
LEMMA StageStep ==
  ASSUME Careful, Workaday, wipes' = wipes, BatchesHeld', FramesThen,
         NEW w \in Workers, NEW s, NEW f, NEW t, StageMoves(w, s, f, t), TailFollows(w)'
  PROVE  Careful'
<1> USE DEF StageMoves
<1>1. /\ RecoveryTypes /\ DownIsOff /\ BareIsQuiet /\ FramesSound
      /\ WriteTypes /\ Ordered /\ LiveFollows
  BY DEF Careful, RecoveryTypes
<1>2. /\ stage'[w] = s /\ frame'[w] = f /\ tail'[w] = t
      /\ \A v \in Workers : v # w => /\ stage'[v] = stage[v] /\ frame'[v] = frame[v]
                                    /\ tail'[v] = tail[v]
  BY <1>1 DEF RecoveryTypes
<1>3. /\ stage' \in [Workers -> Stages] /\ frame' \in [Workers -> Frames]
      /\ tail' \in [Workers -> SUBSET placements']
  BY <1>1 DEF RecoveryTypes, Workaday
<1>4. DownIsOff'
  BY <1>1, <1>2 DEF DownIsOff
<1>5. \A g : Sound(g) => SoundThen(g)
  BY <1>1, WorkadayKeeps
<1>6. ASSUME NEW v \in Workers, v # w
      PROVE  /\ stage'[v] = "upload" => SoundThen(frame'[v])
             /\ meta = 0 => stage'[v] \notin {"build", "upload"}
             /\ TailFollows(v)'
  <2>1. TailFollows(v)'
    BY <1>2, <1>6, TailStays
  <2>2. stage[v] = "upload" => Sound(frame[v])
    BY <1>1 DEF FramesSound
  <2>3. meta = 0 => stage[v] \notin {"build", "upload"}
    BY <1>1 DEF BareIsQuiet
  <2> QED
    BY <1>2, <1>5, <1>6, <2>1, <2>2, <2>3
<1> QED
  BY <1>2, <1>3, <1>4, <1>6, CarefulStays

\* A step of the drain alone.
LEMMA DrainKeeps ==
  ASSUME Careful, Workaday, BatchesHeld', UNCHANGED <<bootVars, snapVars, wipes>>,
         \A v \in Workers : pc'[v] = "down" => pc[v] = "down"
  PROVE  Careful'
<1>1. /\ RecoveryTypes /\ DownIsOff /\ BareIsQuiet /\ FramesSound
      /\ WriteTypes /\ Ordered /\ LiveFollows
  BY DEF Careful, RecoveryTypes
<1>2. UNCHANGED <<stage, frame, tail, snapshots, snapVersion, snapOrphans, wipes>>
  BY DEF bootVars, snapVars
<1>3. FramesThen
  BY <1>1, <1>2, FramesStay DEF RecoveryTypes
<1>4. \A w \in Workers : TailFollows(w)'
  BY <1>2, <1>3, TailStays
<1>5. \A f : Sound(f) => SoundThen(f)
  BY <1>1, WorkadayKeeps
<1>6. DownIsOff'
  BY <1>1, <1>2 DEF DownIsOff
<1>7. tail' \in [Workers -> SUBSET placements']
  BY <1>1, <1>2 DEF RecoveryTypes, Workaday
<1>8. \A w \in Workers : /\ stage'[w] = "upload" => SoundThen(frame'[w])
                         /\ meta = 0 => stage'[w] \notin {"build", "upload"}
  BY <1>1, <1>2, <1>5 DEF FramesSound, BareIsQuiet
<1> QED
  BY <1>1, <1>2, <1>3, <1>4, <1>6, <1>7, <1>8, CarefulStays DEF RecoveryTypes

-----------------------------------------------------------------------------
(***************************************************************************)
(* The boot and the restore.                                               *)
(***************************************************************************)

\* The last of a sequence of frames is one of them.
LEMMA LastOf ==
  ASSUME NEW S, NEW s \in Seq(S), s # <<>>
  PROVE  Last(s) \in S
<1>1. Len(s) \in Nat /\ Len(s) # 0
  BY EmptySeq, LenProperties
<1>2. Len(s) \in 1..Len(s)
  BY <1>1
<1> QED
  BY <1>2, ElementOfSeq DEF Last

\* The parts of the invariant, by name.
LEMMA Parts ==
  ASSUME Careful
  PROVE  /\ RecoveryTypes /\ WriteTypes /\ BatchesHeld /\ DownIsOff
         /\ Ordered /\ LiveFollows /\ FramesSound /\ BareIsQuiet
         /\ \A w \in Workers : TailFollows(w)
BY DEF Careful, RecoveryTypes

\* The blank frame of a worker that has none.
LEMMA NoFrameIsFrame == WriteTypes => NoFrame \in Frames
BY DEF WriteTypes, NoFrame, Frames, Blank

\* A boot starts the check of Redis (loadCanvasMap, restoreIfNeeded).
LEMMA BootKeeps ==
  ASSUME Careful, NEW w \in Workers, BootWorker(w)
  PROVE  Careful'
<1>1. /\ Workaday /\ BatchesHeld'
      /\ \A v \in Workers : pc'[v] = "down" => pc[v] = "down" \/ v = w
  BY Parts, WorkerIsWorkaday DEF BootWorker
<1>2. pc'[w] = "idle"
  BY Parts DEF BootWorker, Boot, WriteTypes
<1>3. /\ stage' = [stage EXCEPT ![w] = "meta"] /\ UNCHANGED <<frame, tail, snapshots, snapOrphans>>
      /\ wipes' = wipes /\ \E v \in {LatestVersion, 0} : snapVersion' = [snapVersion EXCEPT ![w] = v]
  BY DEF BootWorker, Move, lossVars
<1>4. LatestVersion \in Nat
  <2>1. CASE snapshots = <<>>
    BY <2>1 DEF LatestVersion
  <2>2. CASE snapshots # <<>>
    <3>1. Last(snapshots) \in Frames
      BY <2>2, Parts, LastOf DEF RecoveryTypes
    <3> QED
      BY <2>2, <3>1, Parts DEF LatestVersion, Frames, WriteTypes
  <2> QED
    BY <2>1, <2>2
<1>5. snapVersion' \in [Workers -> Nat]
  BY <1>3, <1>4, Parts DEF RecoveryTypes
<1>6. FramesThen
  BY <1>1, <1>3, <1>5, FramesStay
<1>7. PICK f \in Frames : f = frame[w]
  BY Parts DEF RecoveryTypes
<1>8. PICK t : t = tail[w] /\ t \subseteq placements
  BY Parts DEF RecoveryTypes
<1>9. frame' = [frame EXCEPT ![w] = f] /\ tail' = [tail EXCEPT ![w] = t]
  BY <1>3, <1>7, <1>8, Parts DEF RecoveryTypes
<1>10. t \subseteq placements'
  BY <1>1, <1>8 DEF Workaday
<1>11. stage'[w] = "meta"
  BY <1>3, Parts DEF RecoveryTypes
<1>12. TailFollows(w)'
  BY <1>11 DEF TailFollows
<1>13. StageMoves(w, "meta", f, t)
  BY <1>1, <1>2, <1>3, <1>9, <1>10 DEF StageMoves, Stages
<1> QED
  BY <1>1, <1>3, <1>6, <1>12, <1>13, StageStep

\* What a worker that leaves the restore, or does not enter it, holds.
LEMMA LeavesRestore ==
  ASSUME Careful, NEW w \in Workers, UNCHANGED <<drainVars, snapVars, lossVars>>,
         NEW s \in {"ready", "base", "build"}, s = "build" => meta # 0, stage[w] # "off",
         stage' = [stage EXCEPT ![w] = s],
         \/ UNCHANGED <<frame, tail>>
         \/ frame' = [frame EXCEPT ![w] = NoFrame] /\ tail' = [tail EXCEPT ![w] = {}]
  PROVE  Careful'
<1>1. Workaday /\ BatchesHeld' /\ pc' = pc
  BY Parts, OthersAreWorkaday
<1>2. wipes' = wipes /\ UNCHANGED <<snapshots, snapOrphans, snapVersion>>
  BY DEF lossVars, snapVars
<1>3. FramesThen
  BY <1>1, <1>2, Parts, FramesStay DEF RecoveryTypes
<1>4. PICK f \in Frames : frame' = [frame EXCEPT ![w] = f]
  <2>1. CASE frame' = frame
    <3>1. frame' = [frame EXCEPT ![w] = frame[w]] /\ frame[w] \in Frames
      BY <2>1, Parts DEF RecoveryTypes
    <3> QED
      BY <3>1
  <2>2. CASE frame' = [frame EXCEPT ![w] = NoFrame]
    BY <2>2, Parts, NoFrameIsFrame
  <2> QED
    BY <2>1, <2>2
<1>5. PICK t \in SUBSET placements : tail' = [tail EXCEPT ![w] = t]
  <2>1. CASE tail' = tail
    <3>1. tail' = [tail EXCEPT ![w] = tail[w]] /\ tail[w] \in SUBSET placements
      BY <2>1, Parts DEF RecoveryTypes
    <3> QED
      BY <3>1
  <2>2. CASE tail' = [tail EXCEPT ![w] = {}]
    BY <2>2
  <2> QED
    BY <2>1, <2>2
<1>6. t \subseteq placements'
  BY <1>1, <1>5 DEF Workaday
<1>7. stage'[w] = s /\ s \in Stages
  BY Parts DEF RecoveryTypes, Stages
<1>8. TailFollows(w)'
  BY <1>7 DEF TailFollows
<1>9. pc'[w] # "down"
  BY <1>1, Parts DEF DownIsOff
<1>10. StageMoves(w, s, f, t)
  BY <1>1, <1>4, <1>5, <1>6, <1>7, <1>9 DEF StageMoves
<1> QED
  BY <1>1, <1>2, <1>3, <1>8, <1>10, StageStep

\* The restore starts from the newest snapshot, with no row read past it.
LEMMA ReadBaseKeeps ==
  ASSUME Careful, NEW w \in Workers, ReadBase(w)
  PROVE  Careful'
<1>1. CASE snapshots = <<>>
  <2>1. /\ UNCHANGED <<drainVars, snapVars, lossVars, frame, tail>> /\ stage[w] = "base"
        /\ stage' = [stage EXCEPT ![w] = "ready"]
    BY <1>1 DEF ReadBase, Move
  <2> QED
    BY <2>1, LeavesRestore
<1>2. CASE snapshots # <<>>
  <2>1. /\ UNCHANGED <<drainVars, snapshots, snapOrphans, snapVersion>> /\ wipes' = wipes
        /\ stage' = [stage EXCEPT ![w] = "tail"] /\ tail' = [tail EXCEPT ![w] = {}]
    BY <1>2 DEF ReadBase, Move, snapVars, lossVars
  <2>2. PICK f \in Frames : f = Last(snapshots) /\ frame' = [frame EXCEPT ![w] = f]
    BY <1>2, Parts, LastOf DEF ReadBase, RecoveryTypes
  <2>3. Workaday /\ BatchesHeld' /\ pc' = pc
    BY <2>1, Parts, OthersAreWorkaday
  <2>4. FramesThen
    BY <2>1, <2>3, Parts, FramesStay DEF RecoveryTypes
  <2>5. stage'[w] = "tail" /\ frame'[w] = f /\ tail'[w] = {}
    BY <2>1, <2>2, Parts DEF RecoveryTypes
  <2>6. HeadVersion(f, {}) = f.version
    <3>1. clock \in Nat /\ f.version \in 0..clock
      BY Parts DEF WriteTypes, Frames
    <3>2. HeadVersion(f, {}) = f.version \/ \E p \in {} : HeadVersion(f, {}) = p.version
      BY <3>1, HeadIsGreatest
    <3> QED
      BY <3>2
  <2>7. \A p \in placements' : p.version \in Nat
    BY <2>3, Parts DEF Workaday, WriteTypes, Stored
  <2>8. f.version \in Nat
    BY Parts DEF WriteTypes, Frames
  <2>9. TailFollows(w)'
    <3>1. ASSUME NEW p \in placements', p.version > f.version
          PROVE  ~ (p.version <= HeadVersion(f, {}))
      BY <2>6, <2>7, <2>8, <3>1
    <3> QED
      BY <1>2, <2>1, <2>2, <2>5, <3>1 DEF TailFollows
  <2>10. pc'[w] # "down"
    BY <2>3, Parts DEF DownIsOff, ReadBase
  <2>11. StageMoves(w, "tail", f, {})
    BY <2>1, <2>2, <2>3, <2>10 DEF StageMoves, Stages
  <2> QED
    BY <2>1, <2>3, <2>4, <2>9, <2>11, StageStep
<1> QED
  BY <1>1, <1>2

\* There are finitely many durable rows, with versions no higher than the ids.
LEMMA PlacementsFinite ==
  ASSUME WriteTypes
  PROVE  /\ IsFiniteSet(placements)
         /\ \A p \in placements : p.version \in 1..clock /\ p.id \in 1..clock /\ p \in Stored
<1>0. \A p \in placements : p \in written /\ p \in Stored
  BY DEF WriteTypes, Stored
<1> DEFINE idOf == [e \in placements |-> e.id]
<1>1. idOf \in Injection(placements, 1..clock)
  BY <1>0 DEF WriteTypes, Injection, IsInjective
<1>2. IsFiniteSet(1..clock)
  BY FS_Interval DEF WriteTypes
<1>3. IsFiniteSet(placements)
  BY <1>1, <1>2, FS_Injection
<1> QED
  BY <1>0, <1>3 DEF WriteTypes

\* A page adds the oldest rows past the cursor: what was read up to the new cursor is
\* all there is up to it, and after a page that is not full all there is.
LEMMA PageExtends ==
  ASSUME WriteTypes, NEW f \in Frames, NEW read \in SUBSET placements,
         \A p \in placements : p.version > f.version /\ p.version <= HeadVersion(f, read) => p \in read,
         NEW rest, rest = {p \in placements : p.version > HeadVersion(f, read)},
         NEW page, page = Page(rest)
  PROVE  /\ \A p \in placements :
              p.version > f.version /\ p.version <= HeadVersion(f, read \cup page) => p \in read \cup page
         /\ Cardinality(page) < PageSize =>
              \A p \in placements : p.version > f.version => p \in read \cup page
<1>1. /\ clock \in Nat /\ f.version \in 0..clock
      /\ \A p \in placements : p.version \in 1..clock
  BY PlacementsFinite DEF WriteTypes, Frames
<1>2. /\ IsFiniteSet(rest) /\ rest \in SUBSET placements /\ page \in SUBSET rest
      /\ \A p \in rest : p.version \in 1..clock
  <2>1. rest \in SUBSET placements /\ page \in SUBSET rest
    BY DEF Page
  <2> QED
    BY <1>1, <2>1, PlacementsFinite, FS_Subset
<1>3. /\ \A p \in rest, q \in page : p.version <= q.version => p \in page
      /\ Cardinality(page) < PageSize => page = rest
  <2>1. clock \in Nat /\ IsFiniteSet(rest) /\ \A p \in rest : p.version \in 1..clock
    BY <1>1, <1>2
  <2> QED
    BY ONLY <2>1, PageFollows, page = Page(rest)
<1>4. PICK h \in 0..clock : h = HeadVersion(f, read)
  BY <1>1, HeadIsGreatest
<1>5. f.version <= h /\ \A p \in read : p.version <= h
  BY <1>1, <1>4, HeadIsGreatest
<1>6. \A p \in placements : p.version > f.version => p \in read \/ p \in rest
  BY <1>1, <1>4
<1> DEFINE both == read \cup page
<1>10. both \subseteq placements /\ \A p \in both : p \in read \/ p \in page
  BY <1>2
<1> HIDE DEF both
<1>11. \A p \in both : p.version \in 1..clock
  BY <1>1, <1>10
<1>7. PICK h2 \in 0..clock : h2 = HeadVersion(f, both)
  BY <1>1, <1>11, HeadIsGreatest
<1>8. h2 = f.version \/ \E q \in both : h2 = q.version
  BY <1>1, <1>7, <1>11, HeadIsGreatest
<1>9. ASSUME NEW p \in placements, p.version > f.version, p.version <= h2
      PROVE  p \in read \cup page
  <2>1. SUFFICES ASSUME p \in rest PROVE p \in page
    BY <1>6, <1>9
  <2>2. p.version > h
    BY <1>4, <2>1
  <2>3. ~ (h2 <= h)
    BY <1>1, <1>9, <2>2
  <2>4. PICK q \in page : h2 = q.version
    BY <1>1, <1>2, <1>5, <1>8, <1>10, <2>3
  <2> QED
    BY <1>3, <1>9, <2>1, <2>4
<1> QED
  BY <1>3, <1>6, <1>7, <1>9 DEF both

\* Each page leaves no row unread up to its cursor, the last one none at all.
LEMMA ReadTailKeeps ==
  ASSUME Careful, NEW w \in Workers, ReadTail(w)
  PROVE  Careful'
<1>1. PICK f \in Frames : f = frame[w]
  BY Parts DEF RecoveryTypes
<1>2. PICK read \in SUBSET placements : read = tail[w]
  BY Parts DEF RecoveryTypes
<1>3. PICK rest : rest = {p \in placements : p.version > HeadVersion(f, read)}
  OBVIOUS
<1>4. PICK page : page = Page(rest)
  OBVIOUS
<1>5. PICK s \in {"write", "tail"} : s = IF Cardinality(page) < PageSize THEN "write" ELSE "tail"
  OBVIOUS
<1>6. /\ stage[w] = "tail" /\ stage' = [stage EXCEPT ![w] = s]
      /\ tail' = [tail EXCEPT ![w] = tail[w] \cup page]
      /\ UNCHANGED <<drainVars, frame, snapshots, snapOrphans, snapVersion>> /\ wipes' = wipes
  BY <1>1, <1>2, <1>3, <1>4, <1>5 DEF ReadTail, Move, HeadVersion, Page, snapVars, lossVars
<1>7. Workaday /\ BatchesHeld' /\ pc' = pc
  BY <1>6, Parts, OthersAreWorkaday
<1>8. FramesThen
  BY <1>6, <1>7, Parts, FramesStay DEF RecoveryTypes
<1>9. frame' = [frame EXCEPT ![w] = f]
  BY <1>1, <1>6, Parts DEF RecoveryTypes
<1>10. page \subseteq placements
  BY <1>3, <1>4 DEF Page
<1>11. PICK t \in SUBSET placements : t = read \cup page
  BY <1>10
<1>12. tail' = [tail EXCEPT ![w] = t] /\ t \subseteq placements'
  BY <1>2, <1>6, <1>7, <1>11 DEF Workaday
<1>13. stage'[w] = s /\ frame'[w] = f /\ tail'[w] = t
  BY <1>6, <1>9, <1>12, Parts DEF RecoveryTypes
<1>14. TailFollows(w)'
  <2>1. SUFFICES ASSUME meta = 0 PROVE TailFollows(w)'
    BY <1>7 DEF TailFollows, Workaday
  <2>2. /\ snapshots # <<>> /\ f = Last(snapshots)
        /\ \A p \in read : p.version > f.version
        /\ \A p \in placements :
             p.version > f.version /\ p.version <= HeadVersion(f, read) => p \in read
    BY <1>1, <1>2, <1>6, <2>1, Parts DEF TailFollows
  <2>3. placements' = placements
    BY <1>6 DEF drainVars, convexVars
  <2>4. /\ \A p \in placements :
             p.version > f.version /\ p.version <= HeadVersion(f, t) => p \in t
        /\ s = "write" => \A p \in placements : p.version > f.version => p \in t
    BY <1>3, <1>4, <1>5, <1>11, <2>2, Parts, PageExtends
  <2>5. \A p \in t : p.version > f.version
    <3>1. clock \in Nat /\ f.version \in 0..clock /\ \A p \in placements : p.version \in 1..clock
      BY Parts, PlacementsFinite DEF WriteTypes, Frames
    <3>2. f.version <= HeadVersion(f, read) /\ HeadVersion(f, read) \in 0..clock
      BY <3>1, HeadIsGreatest
    <3>3. \A p \in page : p \in placements /\ p.version > HeadVersion(f, read)
      BY <1>3, <1>4 DEF Page
    <3>4. \A p \in page : p.version > f.version
      BY <3>1, <3>2, <3>3
    <3> QED
      BY <1>11, <2>2, <3>4
  <2> QED
    BY <1>6, <1>13, <2>2, <2>3, <2>4, <2>5 DEF TailFollows
<1>15. s \in Stages /\ s \notin {"upload", "build"}
  BY DEF Stages
<1>16. \A v \in Workers : pc'[v] = "down" => pc[v] = "down"
  BY <1>7
<1>17. pc'[w] # "down"
  BY <1>6, <1>7, Parts DEF DownIsOff
<1>18. StageMoves(w, s, f, t)
  BY <1>6, <1>9, <1>12, <1>15, <1>16, <1>17 DEF StageMoves
<1> QED
  BY <1>6, <1>7, <1>8, <1>14, <1>18, StageStep

\* The script writes a bitmap behind no durable row, and a counter ahead of them all.
LEMMA WriteRestoredKeeps ==
  ASSUME Careful, NEW w \in Workers, WriteRestored(w)
  PROVE  Careful'
<1>1. /\ stage[w] = "write" /\ stage' = [stage EXCEPT ![w] = "ready"]
      /\ frame' = [frame EXCEPT ![w] = NoFrame] /\ tail' = [tail EXCEPT ![w] = {}]
      /\ UNCHANGED <<stream, clock, written, lock, canvasRow, convexVars, workerVars,
                     orphans, faults, snapVars, lossVars>>
  BY DEF WriteRestored, Move
<1>2. CASE meta # 0
  <2>1. UNCHANGED drainVars
    BY <1>1, <1>2 DEF WriteRestored, drainVars, redisVars
  <2> QED
    BY <1>1, <2>1, LeavesRestore
<1>3. CASE meta = 0
  <2>1. PICK f \in Frames : f = frame[w]
    BY Parts DEF RecoveryTypes
  <2>2. PICK read \in SUBSET placements : read = tail[w]
    BY Parts DEF RecoveryTypes
  <2>3. meta' = HeadVersion(f, read) /\ pixels' = Replay(f, read)
    BY <1>3, <2>1, <2>2 DEF WriteRestored
  <2>4. /\ snapshots # <<>> /\ f = Last(snapshots)
        /\ \A p \in placements : p.version > f.version => p \in read
    BY <1>1, <1>3, <2>1, <2>2, Parts DEF TailFollows
  <2>5. Sound(f) /\ Covers(f)
    BY <2>4, Parts DEF FramesSound, Sound
  <2>6. /\ Pending = {} /\ snapOrphans = {} /\ Stored = placements
        /\ \A v \in Workers : stage[v] \notin {"build", "upload"}
    BY <1>3, Parts DEF BareIsQuiet, Stored
  <2>7. /\ clock \in Nat /\ f.version \in 0..clock
        /\ \A p \in placements : p.version \in 1..clock /\ p.id \in 1..clock
    BY Parts, PlacementsFinite DEF WriteTypes, Frames
  <2>8. /\ HeadVersion(f, read) \in 0..clock /\ f.version <= HeadVersion(f, read)
        /\ \A p \in read : p.version <= HeadVersion(f, read)
    BY <2>7, HeadIsGreatest
  <2>9. ASSUME NEW p \in placements PROVE p.version <= HeadVersion(f, read) /\ p.id <= Replay(f, read)[p.cell]
    <3>1. p.id <= Replay(f, read)[p.cell]
      BY <2>4, <2>5, Parts, ReplayShows
    <3>2. CASE p.version > f.version
      BY <2>4, <2>8, <3>1, <3>2
    <3>3. CASE ~ (p.version > f.version)
      BY <2>7, <2>8, <3>1, <3>3
    <3> QED
      BY <3>2, <3>3
  <2>10. Replay(f, read) \in [Cells -> Nat]
    BY Parts, ReplayType
  <2>11. /\ UNCHANGED <<stream, clock, written, placements, pc, batch, orphans, snapshots,
                        snapOrphans, snapVersion, wipes>>
         /\ Pending' = Pending /\ Stored' = Stored
    BY <1>1 DEF convexVars, workerVars, snapVars, lossVars, Pending, Stored
  <2>12. WriteTypes'
    <3>1. meta' \in Nat /\ clock' \in Nat /\ meta' <= clock' /\ pixels' \in [Cells -> Nat]
      BY <2>3, <2>7, <2>8, <2>10, <2>11
    <3> QED
      BY <2>11, <3>1, Parts DEF WriteTypes
  <2>13. Frames' = Frames /\ NoFrame \in Frames
    BY <2>11, Parts, NoFrameIsFrame DEF Frames
  <2>14. RecoveryTypes'
    BY <1>1, <2>11, <2>12, <2>13, Parts DEF RecoveryTypes, Stages
  <2>15. BatchesHeld' /\ DownIsOff' /\ Ordered'
    <3>1. BatchesHeld' /\ Ordered'
      BY <2>11, Parts DEF BatchesHeld, Ordered
    <3>2. pc[w] # "down"
      BY <1>1, Parts DEF DownIsOff
    <3>3. DownIsOff'
      BY <1>1, <2>11, <3>2, Parts DEF DownIsOff, RecoveryTypes
    <3> QED
      BY <3>1, <3>3
  <2>16. LiveFollows'
    BY <2>3, <2>6, <2>9, <2>11 DEF LiveFollows
  <2>17. \A v \in Workers : /\ v # w => /\ stage'[v] = stage[v] /\ frame'[v] = frame[v]
                                        /\ tail'[v] = tail[v]
                            /\ stage'[v] \notin {"build", "upload"}
                            /\ v = w => stage'[v] \notin {"tail", "write"}
    BY <1>1, <2>6, Parts DEF RecoveryTypes
  <2>18. FramesSound'
    <3>1. Covers(f)' /\ f.version <= meta'
      BY <2>3, <2>5, <2>8, <2>11 DEF Covers
    <3>2. Last(snapshots') = f
      BY <2>4, <2>11
    <3> QED
      BY <2>6, <2>11, <2>17, <3>1, <3>2 DEF FramesSound, Sound, Covers
  <2>19. BareIsQuiet'
    BY <2>6, <2>11, <2>17 DEF BareIsQuiet
  <2>20. \A v \in Workers : TailFollows(v)'
    BY <1>3, <2>11, <2>17, Parts DEF TailFollows
  <2> QED
    BY <2>14, <2>15, <2>16, <2>18, <2>19, <2>20 DEF Careful
<1> QED
  BY <1>2, <1>3

\* Every step of the restore.
LEMMA RestoreKeeps ==
  ASSUME Careful, NEW w \in Workers,
         CheckMeta(w) \/ ReadBase(w) \/ ReadTail(w) \/ WriteRestored(w) \/ RestoreFails(w)
         \/ SnapshotDue(w)
  PROVE  Careful'
<1>1. CASE CheckMeta(w)
  <2>1. PICK s \in {"ready", "base"} : stage' = [stage EXCEPT ![w] = s]
    BY <1>1 DEF CheckMeta, Move
  <2>2. UNCHANGED <<drainVars, snapVars, lossVars, frame, tail>> /\ stage[w] = "meta"
    BY <1>1 DEF CheckMeta
  <2> QED
    BY <2>1, <2>2, LeavesRestore
<1>2. CASE RestoreFails(w)
  <2>1. /\ UNCHANGED <<drainVars, snapVars, lossVars>> /\ stage[w] # "off"
        /\ stage' = [stage EXCEPT ![w] = "ready"]
        /\ frame' = [frame EXCEPT ![w] = NoFrame] /\ tail' = [tail EXCEPT ![w] = {}]
    BY <1>2 DEF RestoreFails, Move
  <2> QED
    BY <2>1, LeavesRestore
<1>3. CASE SnapshotDue(w)
  <2>1. /\ UNCHANGED <<drainVars, snapVars, lossVars, frame, tail>> /\ stage[w] = "ready"
        /\ stage' = [stage EXCEPT ![w] = "build"] /\ meta > snapVersion[w]
    BY <1>3 DEF SnapshotDue, Move
  <2>2. meta # 0
    BY <2>1, Parts DEF RecoveryTypes, WriteTypes
  <2> QED
    BY <2>1, <2>2, LeavesRestore
<1> QED
  BY <1>1, <1>2, <1>3, ReadBaseKeeps, ReadTailKeeps, WriteRestoredKeeps

-----------------------------------------------------------------------------
(***************************************************************************)
(* The snapshots.                                                          *)
(***************************************************************************)

\* A recorded frame that is sound leaves the newest snapshot sound.
LEMMA RecordKeeps ==
  ASSUME Careful, NEW f \in Frames, RecordSnapshot(f), SoundThen(f),
         Workaday, wipes' = wipes
  PROVE  /\ snapshots' \in Seq(Frames) /\ Len(snapshots') <= SnapshotRetention
         /\ snapshots' # <<>> => SoundThen(Last(snapshots'))
<1>1. /\ RecoveryTypes /\ FramesSound /\ WriteTypes /\ Ordered /\ LiveFollows /\ BareIsQuiet
  BY Parts
<1>2. \A g : Sound(g) => SoundThen(g)
  BY <1>1, WorkadayKeeps
<1>3. snapshots # <<>> => SoundThen(Last(snapshots))
  BY <1>1, <1>2 DEF FramesSound
<1>4. CASE ~canvasRow
  <2>1. snapshots' = snapshots
    BY <1>4 DEF RecordSnapshot
  <2> QED
    BY <1>1, <1>3, <2>1 DEF RecoveryTypes
<1>5. CASE canvasRow
  <2>1. snapshots' = Compacted(Append(snapshots, f))
    BY <1>5 DEF RecordSnapshot
  <2>2. /\ Frames \subseteq [version : Nat, pixels : [Cells -> Nat]]
        /\ snapshots \in Seq(Frames) /\ Len(snapshots) <= SnapshotRetention
    BY <1>1 DEF Frames, RecoveryTypes, WriteTypes
  <2>3. /\ snapshots' \in Seq(Frames) /\ Len(snapshots') <= SnapshotRetention
        /\ \/ Last(snapshots') = f
           \/ snapshots # <<>> /\ Last(snapshots') = Last(snapshots)
    BY <2>1, <2>2, CompactionKeeps
  <2> QED
    BY <1>3, <2>3
<1> QED
  BY <1>4, <1>5

\* A frame built from the live canvas covers all that is or may become durable.
LEMMA BuildKeeps ==
  ASSUME Careful, NEW w \in Workers, BuildFrame(w)
  PROVE  Careful'
<1>1. /\ stage[w] = "build" /\ stage' = [stage EXCEPT ![w] = "upload"]
      /\ frame' = [frame EXCEPT ![w] = [version |-> meta, pixels |-> pixels]]
      /\ UNCHANGED <<drainVars, tail, snapshots, snapOrphans, snapVersion>> /\ wipes' = wipes
  BY DEF BuildFrame, Move, snapVars, lossVars
<1>2. Workaday /\ BatchesHeld' /\ pc' = pc
  BY <1>1, Parts, OthersAreWorkaday
<1>3. FramesThen
  BY <1>1, <1>2, Parts, FramesStay DEF RecoveryTypes
<1>4. PICK f : f = [version |-> meta, pixels |-> pixels]
  OBVIOUS
<1>5. f \in Frames
  BY <1>4, Parts DEF Frames, WriteTypes
<1>6. meta # 0
  BY <1>1, Parts DEF BareIsQuiet
<1>7. Sound(f)
  BY <1>4, <1>6, Parts DEF Sound, Covers, LiveFollows, Restored, WriteTypes
<1>8. SoundThen(f)
  BY <1>1, <1>2, <1>7, Parts, WorkadayKeeps
<1>9. PICK t \in SUBSET placements : t = tail[w]
  BY Parts DEF RecoveryTypes
<1>10. tail' = [tail EXCEPT ![w] = t] /\ t \subseteq placements'
  BY <1>1, <1>2, <1>9, Parts DEF RecoveryTypes, Workaday
<1>11. TailFollows(w)'
  BY <1>2, <1>6 DEF TailFollows, Workaday
<1>12. pc'[w] # "down"
  BY <1>1, <1>2, Parts DEF DownIsOff
<1>13. StageMoves(w, "upload", f, t)
  BY <1>1, <1>2, <1>4, <1>5, <1>6, <1>8, <1>10, <1>12 DEF StageMoves, Stages
<1> QED
  BY <1>1, <1>2, <1>3, <1>11, <1>13, StageStep

\* A snapshot that is recorded is the one that was built.
LEMMA RecordedKeeps ==
  ASSUME Careful, NEW w \in Workers, SnapshotRecorded(w)
  PROVE  Careful'
<1>1. PICK f \in Frames : f = frame[w]
  BY Parts DEF RecoveryTypes
<1>2. /\ stage[w] = "upload" /\ EndTick(w) /\ RecordSnapshot(f)
      /\ snapVersion' = [snapVersion EXCEPT ![w] = f.version]
      /\ stage' = [stage EXCEPT ![w] = "ready"] /\ frame' = [frame EXCEPT ![w] = NoFrame]
      /\ UNCHANGED <<tail, snapOrphans>> /\ wipes' = wipes
  BY <1>1 DEF SnapshotRecorded, Move, lossVars
<1>3. /\ Workaday /\ BatchesHeld'
      /\ \A v \in Workers : pc'[v] = "down" => pc[v] = "down" \/ v = w
  BY <1>2, Parts, WorkerIsWorkaday
<1>4. pc'[w] # "down"
  BY <1>2, Parts DEF EndTick, WriteTypes
<1>5. meta # 0
  BY <1>2, Parts DEF BareIsQuiet
<1>6. Sound(f)
  BY <1>1, <1>2, Parts DEF FramesSound
<1>7. \A g : Sound(g) => SoundThen(g)
  BY <1>2, <1>3, Parts, WorkadayKeeps
<1>8. /\ snapshots' \in Seq(Frames) /\ Len(snapshots') <= SnapshotRetention
      /\ snapshots' # <<>> => SoundThen(Last(snapshots'))
  BY <1>2, <1>3, <1>6, <1>7, RecordKeeps
<1>9. f.version \in Nat
  BY Parts DEF Frames, WriteTypes
<1>10. FramesThen
  BY <1>2, <1>5, <1>7, <1>8, <1>9, Parts DEF FramesThen, RecoveryTypes, FramesSound
<1>11. PICK t \in SUBSET placements : t = tail[w]
  BY Parts DEF RecoveryTypes
<1>12. tail' = [tail EXCEPT ![w] = t] /\ t \subseteq placements'
  BY <1>2, <1>3, <1>11, Parts DEF RecoveryTypes, Workaday
<1>13. TailFollows(w)'
  BY <1>3, <1>5 DEF TailFollows, Workaday
<1>14. StageMoves(w, "ready", NoFrame, t)
  BY <1>2, <1>3, <1>4, <1>12, Parts, NoFrameIsFrame DEF StageMoves, Stages
<1> QED
  BY <1>2, <1>3, <1>10, <1>13, <1>14, StageStep

\* A frame that a worker no longer awaits is as sound as it was.
LEMMA AbandonKeeps ==
  ASSUME Careful, NEW w \in Workers, SnapshotError(w) \/ CrashWorker(w)
  PROVE  Careful'
<1>1. /\ TickError(w) \/ Crash(w)
      /\ snapOrphans' = snapOrphans \cup (IF stage[w] = "upload" THEN {frame[w]} ELSE {})
      /\ frame' = [frame EXCEPT ![w] = NoFrame]
      /\ UNCHANGED <<snapshots, snapVersion>> /\ wipes' = wipes
  BY DEF SnapshotError, CrashWorker, AbandonFrame, lossVars
<1>2. /\ Workaday /\ BatchesHeld'
      /\ \A v \in Workers : pc'[v] = "down" => pc[v] = "down" \/ v = w
  BY <1>1, Parts, WorkerIsWorkaday
<1>3. PICK s \in {"ready", "off"} : /\ stage' = [stage EXCEPT ![w] = s]
                                    /\ pc'[w] = "down" => s = "off"
  BY Parts DEF SnapshotError, CrashWorker, TickError, Move, WriteTypes
<1>4. PICK t \in SUBSET placements : tail' = [tail EXCEPT ![w] = t]
  <2>1. CASE SnapshotError(w)
    <3>1. tail' = [tail EXCEPT ![w] = tail[w]] /\ tail[w] \in SUBSET placements
      BY <2>1, Parts DEF SnapshotError, RecoveryTypes
    <3> QED
      BY <3>1
  <2>2. CASE CrashWorker(w)
    BY <2>2 DEF CrashWorker
  <2> QED
    BY <2>1, <2>2
<1>5. \A g : Sound(g) => SoundThen(g)
  BY <1>1, <1>2, Parts, WorkadayKeeps
<1>6. /\ snapOrphans' \subseteq Frames
      /\ \A f \in snapOrphans' : SoundThen(f)
      /\ meta = 0 => snapOrphans' = {}
  <2>1. frame[w] \in Frames /\ snapOrphans \subseteq Frames
    BY Parts DEF RecoveryTypes
  <2>2. stage[w] = "upload" => Sound(frame[w]) /\ meta # 0
    BY Parts DEF FramesSound, BareIsQuiet
  <2>3. \A f \in snapOrphans : Sound(f)
    BY Parts DEF FramesSound
  <2>4. meta = 0 => snapOrphans = {}
    BY Parts DEF BareIsQuiet
  <2> QED
    BY <1>1, <1>5, <2>1, <2>2, <2>3, <2>4
<1>7. FramesThen
  BY <1>1, <1>5, <1>6, Parts DEF FramesThen, RecoveryTypes, FramesSound
<1>8. stage'[w] = s
  BY <1>3, Parts DEF RecoveryTypes
<1>9. TailFollows(w)'
  BY <1>8 DEF TailFollows
<1>10. StageMoves(w, s, NoFrame, t)
  BY <1>1, <1>2, <1>3, <1>4, Parts, NoFrameIsFrame DEF StageMoves, Stages, Workaday
<1> QED
  BY <1>1, <1>2, <1>7, <1>9, <1>10, StageStep

\* A late recordSnapshot stores a frame that is still sound.
LEMMA OrphanKeeps ==
  ASSUME Careful, NEW f \in snapOrphans, RecordOrphan(f)
  PROVE  Careful'
<1>1. /\ RecordSnapshot(f) /\ snapOrphans' = snapOrphans \ {f}
      /\ UNCHANGED <<drainVars, stage, frame, tail, snapVersion>> /\ wipes' = wipes
  BY DEF RecordOrphan, bootVars, lossVars
<1>2. Workaday /\ BatchesHeld' /\ pc' = pc
  BY <1>1, Parts, OthersAreWorkaday
<1>3. f \in Frames /\ Sound(f) /\ meta # 0
  BY Parts DEF RecoveryTypes, FramesSound, BareIsQuiet
<1>4. \A g : Sound(g) => SoundThen(g)
  BY <1>1, <1>2, Parts, WorkadayKeeps
<1>5. /\ snapshots' \in Seq(Frames) /\ Len(snapshots') <= SnapshotRetention
      /\ snapshots' # <<>> => SoundThen(Last(snapshots'))
  BY <1>1, <1>2, <1>3, <1>4, RecordKeeps
<1>6. FramesThen
  BY <1>1, <1>3, <1>4, <1>5, Parts DEF FramesThen, RecoveryTypes, FramesSound
<1>7. \A w \in Workers : /\ stage'[w] = "upload" => SoundThen(frame'[w])
                         /\ meta = 0 => stage'[w] \notin {"build", "upload"}
                         /\ TailFollows(w)'
  BY <1>1, <1>2, <1>3, <1>4, Parts DEF FramesSound, TailFollows, Workaday
<1>8. DownIsOff' /\ tail' \in [Workers -> SUBSET placements']
  BY <1>1, <1>2, Parts DEF DownIsOff, RecoveryTypes, Workaday
<1> QED
  BY <1>1, <1>2, <1>6, <1>7, <1>8, Parts, CarefulStays DEF RecoveryTypes

-----------------------------------------------------------------------------
(***************************************************************************)
(* The producers, on a canvas that awaits no restore.                      *)
(***************************************************************************)

\* What a script of a producer does, whichever it is: fresh ids above all earlier ones,
\* versions in step with them, and a bitmap that shows them.
Minted(new) ==
  /\ clock' \in Nat /\ clock < clock' /\ meta' = meta + (clock' - clock)
  /\ pixels' \in [Cells -> Nat]
  /\ \A c \in Cells : pixels'[c] = pixels[c] \/ clock < pixels'[c]
  /\ written' = written \cup new /\ new \subseteq Write /\ stream' \subseteq stream \cup new
  /\ \A e \in new : /\ e.id \in (clock + 1)..clock' /\ e.version = meta + (e.id - clock)
                    /\ e.id <= pixels'[e.cell]
  /\ \A e, f \in new : e.id = f.id => e = f
  /\ UNCHANGED <<placements, pc, batch, orphans>>

\* place.lua mints one write.
LEMMA PlaceMints ==
  ASSUME Careful, NEW u \in Users, NEW c \in Cells, NEW color \in Colors, Place(u, c, color)
  PROVE  \E new : Minted(new)
<1>1. PICK e : e = [id |-> clock + 1, version |-> meta + 1, cell |-> c, color |-> color, user |-> u]
  OBVIOUS
<1>2. /\ clock' = clock + 1 /\ meta' = meta + 1 /\ clock \in Nat /\ meta \in Nat
      /\ written' = written \cup {e} /\ stream' \in Capped(stream \cup {e})
      /\ pixels' = [pixels EXCEPT ![c] = clock + 1]
      /\ UNCHANGED <<placements, pc, batch, orphans>>
  BY <1>1, Parts DEF Place, WriteTypes, convexVars, workerVars
<1>3. stream' \subseteq stream \cup {e}
  BY <1>2 DEF Capped
<1>4. e \in Write /\ e.id = clock + 1 /\ e.version = meta + 1 /\ e.cell = c
  BY <1>1, <1>2 DEF Write
<1>5. /\ pixels' \in [Cells -> Nat] /\ pixels'[c] = clock + 1
      /\ \A x \in Cells : pixels'[x] = pixels[x] \/ clock < pixels'[x]
  BY <1>2, Parts DEF WriteTypes
<1>6. Minted({e})
  BY <1>2, <1>3, <1>4, <1>5 DEF Minted
<1> QED
  BY <1>6

\* moderate.lua mints one write per cell, the last one to a cell on its byte.
LEMMA ModerateMints ==
  ASSUME Careful, NEW n \in 1..MaxModCells,
         NEW target \in [1..n -> Cells], NEW color \in [1..n -> Colors],
         Moderate(n, target, color)
  PROVE  \E new : Minted(new)
<1> DEFINE rec(i) == [id |-> clock + i, version |-> meta + i, cell |-> target[i],
                      color |-> color[i], user |-> NoUser]
           es == {rec(i) : i \in 1..n}
           to(c) == {i \in 1..n : target[i] = c}
           byte(c) == IF \E i \in 1..n : target[i] = c THEN clock + Latest(to(c)) ELSE pixels[c]
<1>1. /\ clock' = clock + n /\ meta' = meta + n /\ clock \in Nat /\ meta \in Nat
      /\ n \in Nat /\ n > 0
      /\ written' = written \cup es /\ stream' = stream \cup es
      /\ UNCHANGED <<placements, pc, batch, orphans>>
  BY Parts DEF Moderate, WriteTypes, convexVars, workerVars
<1>2. pixels' = [c \in Cells |-> byte(c)]
  BY DEF Moderate
<1>3. ASSUME NEW c \in Cells, NEW i \in 1..n, target[i] = c
      PROVE  Latest(to(c)) \in 1..n /\ \A j \in to(c) : j <= Latest(to(c))
  <2>1. to(c) \in SUBSET Nat /\ to(c) # {} /\ \A s \in to(c) : s <= n
    BY <1>1, <1>3
  <2>2. to(c) \subseteq 1..n
    OBVIOUS
  <2> HIDE DEF to
  <2> QED
    BY <1>1, <2>1, <2>2, LatestIsGreatest
<1>4. ASSUME NEW c \in Cells
      PROVE  byte(c) \in Nat /\ (byte(c) = pixels[c] \/ clock < byte(c))
  <2>1. CASE \E i \in 1..n : target[i] = c
    <3>1. Latest(to(c)) \in 1..n /\ byte(c) = clock + Latest(to(c))
      BY <1>3, <2>1
    <3> HIDE DEF byte, to
    <3> QED
      BY <1>1, <3>1
  <2>2. CASE ~ \E i \in 1..n : target[i] = c
    <3>1. byte(c) = pixels[c] /\ pixels[c] \in Nat
      BY <2>2, Parts DEF WriteTypes
    <3> QED
      BY <3>1
  <2> QED
    BY <2>1, <2>2
<1>5. ASSUME NEW i \in 1..n
      PROVE  /\ rec(i) \in Write /\ rec(i).id = clock + i /\ rec(i).version = meta + i
             /\ rec(i).cell \in Cells /\ clock + i <= byte(rec(i).cell)
  <2>1. rec(i) \in Write /\ rec(i).id = clock + i /\ rec(i).version = meta + i /\ rec(i).cell = target[i]
    BY <1>1 DEF Write
  <2>2. target[i] \in Cells /\ i \in to(target[i])
    OBVIOUS
  <2>3. i <= Latest(to(target[i])) /\ Latest(to(target[i])) \in 1..n
    BY <1>3, <2>2
  <2>4. byte(target[i]) = clock + Latest(to(target[i]))
    OBVIOUS
  <2>5. clock + i <= byte(target[i])
    <3> HIDE DEF byte, to
    <3> QED
      BY <1>1, <2>3, <2>4
  <2> QED
    BY <2>1, <2>2, <2>5
<1>6. \A e \in es : \E i \in 1..n : e = rec(i)
  OBVIOUS
<1> HIDE DEF byte, rec
<1>7. \A c \in Cells : pixels'[c] = byte(c)
  BY <1>2
<1>8. \A e \in es : /\ e \in Write /\ e.id \in (clock + 1)..(clock + n)
                    /\ e.version = meta + (e.id - clock) /\ e.id <= pixels'[e.cell]
  <2> TAKE e \in es
  <2>1. PICK i \in 1..n : e = rec(i)
    BY <1>6
  <2>2. /\ e \in Write /\ e.id = clock + i /\ e.version = meta + i /\ e.cell \in Cells
        /\ clock + i <= byte(e.cell)
    BY <1>5, <2>1
  <2> QED
    BY <1>1, <1>7, <2>2
<1>9. \A e, f \in es : e.id = f.id => e = f
  <2> SUFFICES ASSUME NEW e \in es, NEW f \in es, e.id = f.id PROVE e = f
    OBVIOUS
  <2>1. PICK i \in 1..n : e = rec(i)
    BY <1>6
  <2>2. PICK j \in 1..n : f = rec(j)
    BY <1>6
  <2>3. clock + i = clock + j
    BY <1>5, <2>1, <2>2
  <2>4. i = j
    BY <1>1, <2>3
  <2> QED
    BY <2>1, <2>2, <2>4
<1>10. pixels' \in [Cells -> Nat] /\ \A c \in Cells : pixels'[c] = pixels[c] \/ clock < pixels'[c]
  BY <1>2, <1>4
<1> HIDE DEF es
<1>11. Minted(es)
  BY <1>1, <1>8, <1>9, <1>10 DEF Minted
<1> QED
  BY <1>11

\* A fresh write is newer than all that is or may become durable, so no frame claims it
\* and no version of it was ever minted before.
LEMMA MintedKeeps ==
  ASSUME Careful, Restored, NEW new, Minted(new), UNCHANGED <<bootVars, snapVars, wipes>>
  PROVE  Careful'
<1>1. /\ UNCHANGED <<stage, frame, tail, snapshots, snapVersion, snapOrphans, wipes,
                     placements, pc, batch, orphans>>
      /\ written' = written \cup new /\ new \subseteq Write
  BY DEF bootVars, snapVars, Minted
<1>2. PICK n \in Nat : n = clock /\ n <= clock' /\ clock' \in Nat
  BY Parts DEF WriteTypes, Minted
<1>3. PICK m \in Nat : m = meta /\ m <= n /\ meta' = m + (clock' - n) /\ meta' \in Nat
                       /\ meta' <= clock' /\ m < meta'
  BY <1>2, Parts DEF WriteTypes, Minted
<1>4. \A e \in Stored : /\ e.id \in 1..n /\ e.version \in 1..n /\ e.version <= m
                        /\ e.id <= pixels[e.cell] /\ e.cell \in Cells
  BY <1>2, <1>3, Parts DEF WriteTypes, LiveFollows, Write
<1>5. \A e \in new : /\ e.id \in (n + 1)..clock' /\ e.version = m + (e.id - n)
                     /\ e.id <= pixels'[e.cell]
                     /\ e.version \in 1..clock' /\ m < e.version /\ e.version <= meta'
  BY <1>2, <1>3 DEF Minted
<1>6. Stored' \subseteq Stored \cup new
  <2>1. stream' \subseteq stream \cup new
    BY DEF Minted
  <2>2. \A e : Underway(e)' => Underway(e) \/ e \in new
    BY <1>1, <2>1 DEF Underway
  <2> QED
    BY <1>1, <2>2, PendingIsUnderway DEF Stored
<1>7. WriteTypes'
  <2>1. Stored' \subseteq written'
    BY <1>1, <1>6, Parts DEF WriteTypes
  <2>2. \A e \in written' : e.id \in 1..clock' /\ e.version \in 1..clock'
    <3>1. \A e \in written : e.id \in 1..n /\ e.version \in 1..n
      BY <1>2, Parts DEF WriteTypes
    <3>2. \A e \in new : e.id \in 1..clock' /\ e.version \in 1..clock'
      BY <1>2, <1>5
    <3> QED
      BY <1>1, <1>2, <3>1, <3>2
  <2>3. \A e, f \in written' : e.id = f.id => e = f
    <3>1. \A e \in written, f \in new : e.id # f.id
      BY <1>2, <1>5, Parts DEF WriteTypes
    <3>2. \A e, f \in written : e.id = f.id => e = f
      BY Parts DEF WriteTypes
    <3>3. \A e, f \in new : e.id = f.id => e = f
      BY DEF Minted
    <3> QED
      BY <1>1, <3>1, <3>2, <3>3
  <2>4. batch' \in [Workers -> SUBSET written'] /\ written' \subseteq Write
    BY <1>1, Parts DEF WriteTypes
  <2>5. pixels' \in [Cells -> Nat]
    BY DEF Minted
  <2>6. pc' \in [Workers -> {"down", "idle", "drain", "flush", "flushed", "drained"}]
    BY <1>1, Parts DEF WriteTypes
  <2> QED
    BY <1>2, <1>3, <2>1, <2>2, <2>3, <2>4, <2>5, <2>6 DEF WriteTypes
<1>8. Frames \subseteq Frames'
  BY <1>2 DEF Frames
<1>9. RecoveryTypes'
  <2>1. snapshots \in Seq(Frames) /\ Len(snapshots) <= SnapshotRetention /\ snapOrphans \subseteq Frames
        /\ frame \in [Workers -> Frames]
    BY Parts DEF RecoveryTypes
  <2>2. snapshots \in Seq(Frames')
    BY <1>8, <2>1, SeqMonotonic
  <2>3. frame \in [Workers -> Frames']
    BY <1>8, <2>1
  <2> QED
    BY <1>1, <1>7, <1>8, <2>1, <2>2, <2>3, Parts DEF RecoveryTypes
<1>10. BatchesHeld' /\ DownIsOff'
  BY <1>1, Parts DEF BatchesHeld, DownIsOff
<1>11. Ordered'
  <2>1. \A e, f \in Stored : e.version < f.version <=> e.id < f.id
    BY Parts DEF Ordered
  <2>2. \A e \in Stored, f \in new : e.version < f.version /\ e.id < f.id
    BY <1>2, <1>3, <1>4, <1>5
  <2>3. \A e, f \in new : e.version < f.version <=> e.id < f.id
    BY <1>2, <1>3, <1>5
  <2>4. \A e \in Stored, f \in new : ~(f.version < e.version) /\ ~(f.id < e.id)
    BY <1>2, <1>3, <1>4, <1>5
  <2> QED
    BY <1>6, <2>1, <2>2, <2>3, <2>4 DEF Ordered
<1>12. \A e \in Stored' : e.version <= meta' /\ e.id <= pixels'[e.cell]
  <2>1. \A e \in Stored : e.version <= meta' /\ e.id <= pixels'[e.cell]
    <3> TAKE e \in Stored
    <3>1. pixels'[e.cell] = pixels[e.cell] \/ n < pixels'[e.cell]
      BY <1>2, <1>4 DEF Minted
    <3>2. pixels'[e.cell] \in Nat
      BY <1>4 DEF Minted
    <3> QED
      BY <1>2, <1>3, <1>4, <3>1, <3>2
  <2> QED
    BY <1>5, <1>6, <2>1
<1>13. LiveFollows'
  BY <1>12 DEF LiveFollows
<1>14. ASSUME NEW f \in Frames, Sound(f)
       PROVE  SoundThen(f)
  <2>1. f.version <= m /\ f.version \in Nat
    BY <1>2, <1>3, <1>14 DEF Sound, Frames
  <2>2. \A e \in new : ~ (e.version <= f.version)
    BY <1>2, <1>3, <1>5, <2>1
  <2>3. \A e \in Stored' : e.version <= f.version => e.id <= f.pixels[e.cell]
    BY <1>6, <1>14, <2>2 DEF Sound, Covers
  <2> QED
    BY <1>3, <2>1, <2>3 DEF SoundThen
<1>15. FramesSound'
  <2>1. snapshots # <<>> => SoundThen(Last(snapshots))
    BY <1>14, Parts, LastOf DEF FramesSound, RecoveryTypes
  <2>2. \A f \in snapOrphans : SoundThen(f)
    BY <1>14, Parts DEF FramesSound, RecoveryTypes
  <2>3. \A w \in Workers : stage[w] = "upload" => SoundThen(frame[w])
    BY <1>14, Parts DEF FramesSound, RecoveryTypes
  <2> QED
    BY <1>1, <2>1, <2>2, <2>3 DEF FramesSound, SoundThen, Sound, Covers
<1>16. meta' # 0
  BY <1>3
<1>17. BareIsQuiet' /\ \A w \in Workers : TailFollows(w)'
  BY <1>16 DEF BareIsQuiet, TailFollows
<1> QED
  BY <1>9, <1>10, <1>11, <1>13, <1>15, <1>17 DEF Careful

-----------------------------------------------------------------------------
(***************************************************************************)
(* The loss, the start, and the theorems.                                  *)
(***************************************************************************)

\* An empty Redis, lost at rest, leaves only what is durable.
LEMMA WipeKeeps ==
  ASSUME Careful, careful, Wipe
  PROVE  Careful'
<1>1. /\ AtRest /\ wipes' = wipes + 1 /\ meta' = 0 /\ pixels' = Blank /\ stream' = {}
      /\ UNCHANGED <<clock, written, placements, pc, batch, orphans, stage, frame, tail,
                     snapshots, snapVersion, snapOrphans>>
  BY DEF Wipe, Becomes, Empty, convexVars, workerVars, bootVars, snapVars
<1>2. \A w \in Workers : stage[w] = "off" /\ batch[w] = {}
  BY <1>1, Parts DEF AtRest, DownIsOff, BatchesHeld
<1>3. Pending' = {}
  <2>1. \A e : ~ Underway(e)'
    BY <1>1, <1>2 DEF Underway, AtRest
  <2> QED
    BY <2>1, PendingIsUnderway
<1>4. Stored' \subseteq Stored
  BY <1>1, <1>3 DEF Stored
<1>5. WriteTypes'
  <2>1. Blank \in [Cells -> Nat]
    BY DEF Blank
  <2> QED
    BY <1>1, <1>4, <2>1, Parts DEF WriteTypes
<1>6. ~ Restored'
  BY <1>1, Parts DEF Restored, RecoveryTypes
<1>7. Frames' = Frames
  BY <1>1 DEF Frames
<1>8. RecoveryTypes'
  BY <1>1, <1>5, <1>7, Parts DEF RecoveryTypes
<1>9. BatchesHeld' /\ DownIsOff' /\ Ordered' /\ LiveFollows'
  BY <1>1, <1>4, <1>6, Parts DEF BatchesHeld, DownIsOff, Ordered, LiveFollows
<1>10. FramesSound'
  BY <1>1, <1>2, <1>4, <1>6, Parts DEF FramesSound, Sound, Covers, AtRest
<1>11. BareIsQuiet' /\ \A w \in Workers : TailFollows(w)'
  BY <1>1, <1>2, <1>3 DEF BareIsQuiet, TailFollows, AtRest
<1> QED
  BY <1>8, <1>9, <1>10, <1>11 DEF Careful

\* Nothing is durable or in flight at the start.
LEMMA CarefulInit == RecoveryInit => Careful
<1> SUFFICES ASSUME RecoveryInit PROVE Careful
  OBVIOUS
<1>1. /\ meta = 0 /\ clock = 0 /\ wipes = 0 /\ pixels = Blank /\ written = {} /\ stream = {}
      /\ placements = {} /\ orphans = {} /\ snapOrphans = {} /\ snapshots = <<>>
      /\ pc = [w \in Workers |-> "down"] /\ batch = [w \in Workers |-> {}]
      /\ stage = [w \in Workers |-> "off"] /\ frame = [w \in Workers |-> NoFrame]
      /\ tail = [w \in Workers |-> {}] /\ snapVersion = [w \in Workers |-> 0]
  BY DEF RecoveryInit, DrainInit, Blank
<1>2. Pending = {} /\ Stored = {}
  <2>1. \A e : ~ Underway(e)
    BY <1>1 DEF Underway
  <2> QED
    BY <1>1, <2>1, PendingIsUnderway DEF Stored
<1>3. WriteTypes
  BY <1>1, <1>2 DEF WriteTypes, Blank
<1>4. NoFrame \in Frames
  BY <1>3, NoFrameIsFrame
<1>5. <<>> \in Seq(Frames) /\ Len(<<>>) = 0
  BY EmptySeq
<1>6. RecoveryTypes
  BY <1>1, <1>3, <1>4, <1>5 DEF RecoveryTypes, Stages
<1>7. BatchesHeld /\ DownIsOff /\ Ordered /\ LiveFollows /\ BareIsQuiet
  BY <1>1, <1>2 DEF BatchesHeld, DownIsOff, Ordered, LiveFollows, BareIsQuiet
<1>8. FramesSound /\ \A w \in Workers : TailFollows(w)
  BY <1>1 DEF FramesSound, TailFollows
<1> QED
  BY <1>6, <1>7, <1>8 DEF Careful

\* Every step keeps the invariant.
LEMMA CarefulStep ==
  ASSUME CarefulInductive, [RecoveryNext]_recVars
  PROVE  CarefulInductive'
<1>1. careful' = careful
  <2>1. CASE Traffic \/ Wipe \/ Rollback \/ Fsync \/ UNCHANGED recVars
    BY <2>1 DEF Traffic, Wipe, Rollback, Becomes, Fsync, lossVars, recVars
  <2>2. CASE UNCHANGED lossVars
    BY <2>2 DEF lossVars
  <2>3. ASSUME NEW f \in snapOrphans, RecordOrphan(f) PROVE UNCHANGED lossVars
    BY <2>3 DEF RecordOrphan
  <2>4. ASSUME NEW w \in Workers,
               \/ BootWorker(w) \/ CheckMeta(w) \/ ReadBase(w) \/ ReadTail(w)
               \/ WriteRestored(w) \/ RestoreFails(w)
               \/ Tick(w) \/ SnapshotDue(w) \/ BuildFrame(w) \/ SnapshotRecorded(w)
               \/ SnapshotError(w) \/ CrashWorker(w)
        PROVE  UNCHANGED lossVars
    BY <2>4 DEF BootWorker, CheckMeta, ReadBase, ReadTail, WriteRestored, RestoreFails, Tick,
       SnapshotDue, BuildFrame, SnapshotRecorded, SnapshotError, CrashWorker
  <2> QED
    BY <2>1, <2>2, <2>3, <2>4 DEF RecoveryNext, Workings
<1>2. SUFFICES ASSUME careful, Careful PROVE Careful'
  BY <1>1 DEF CarefulInductive
<1>3. CASE Traffic
  <2>1. Restored /\ Produce /\ UNCHANGED <<bootVars, snapVars, wipes>>
    BY <1>2, <1>3 DEF Traffic, lossVars
  <2>2. \E new : Minted(new)
    BY <1>2, <2>1, PlaceMints, ModerateMints DEF Produce
  <2> QED
    BY <1>2, <2>1, <2>2, MintedKeeps
<1>4. CASE (CreateCanvas \/ LockExpire \/ \E b \in orphans : CommitOrphan(b))
           /\ UNCHANGED <<bootVars, snapVars, lossVars>>
  <2>1. Workaday /\ BatchesHeld' /\ pc' = pc
    BY <1>2, <1>4, Parts, OthersAreWorkaday
  <2>2. UNCHANGED <<bootVars, snapVars, wipes>>
    BY <1>4 DEF lossVars
  <2> QED
    BY <1>2, <2>1, <2>2, DrainKeeps
<1>5. ASSUME NEW w \in Workers, Tick(w) PROVE Careful'
  <2>1. UNCHANGED <<bootVars, snapVars, wipes>>
    BY <1>5 DEF Tick, lossVars
  <2>3. /\ Workaday /\ BatchesHeld'
        /\ \A v \in Workers : pc'[v] = "down" => pc[v] = "down" \/ v = w
    BY <1>2, <1>5, Parts, WorkerIsWorkaday DEF Tick
  <2>4. pc'[w] # "down"
    BY <1>2, <1>5, Parts DEF Tick, WriteTypes, StartTick, Drain, DrainRead, DrainEmpty, CommitFlush,
       TrimStream, TickError, EndTick
  <2> QED
    BY <1>2, <2>1, <2>3, <2>4, DrainKeeps
<1>6. ASSUME NEW w \in Workers,
             \/ BootWorker(w) \/ CheckMeta(w) \/ ReadBase(w) \/ ReadTail(w)
             \/ WriteRestored(w) \/ RestoreFails(w)
             \/ SnapshotDue(w) \/ BuildFrame(w) \/ SnapshotRecorded(w)
             \/ SnapshotError(w) \/ CrashWorker(w)
      PROVE  Careful'
  BY <1>2, <1>6, BootKeeps, RestoreKeeps, BuildKeeps, RecordedKeeps, AbandonKeeps
<1>7. CASE \E f \in snapOrphans : RecordOrphan(f)
  BY <1>2, <1>7, OrphanKeeps
<1>8. CASE Wipe
  BY <1>2, <1>8, WipeKeeps
<1>9. ~ Fsync /\ ~ Rollback
  BY <1>2 DEF Fsync, Rollback
<1>10. CASE UNCHANGED recVars
  <2>1. UNCHANGED drainVars /\ UNCHANGED <<bootVars, snapVars, wipes>>
    BY <1>10 DEF recVars, lossVars
  <2>2. Workaday /\ BatchesHeld' /\ pc' = pc
    BY <1>2, <2>1, Parts, OthersAreWorkaday
  <2> QED
    BY <1>2, <2>1, <2>2, DrainKeeps
<1> QED
  BY <1>3, <1>4, <1>5, <1>6, <1>7, <1>8, <1>9, <1>10 DEF RecoveryNext, Workings

\* Under the discipline the live canvas, the snapshots and the restore stay ahead of the
\* durable log, for any users, cells, workers, retention, page size and bounds.
THEOREM CarefulIsInductive == RecoverySpec => []CarefulInductive
<1>1. RecoveryInit => CarefulInductive
  BY CarefulInit DEF CarefulInductive
<1>2. CarefulInductive /\ [RecoveryNext]_recVars => CarefulInductive'
  BY CarefulStep
<1> QED
  BY <1>1, <1>2, PTL DEF RecoverySpec

\* No version is minted twice for writes that may both reach Convex (place.lua,
\* moderate.lua, applyFlush's idempotency on the version).
THEOREM VersionsAreFresh == RecoverySpec => []NoVersionReuse
<1>1. CarefulInductive => NoVersionReuse
  <2> SUFFICES ASSUME Careful, NEW e \in Stored, NEW f \in Stored, e.version = f.version
               PROVE  e = f
    BY DEF CarefulInductive, NoVersionReuse, Stored
  <2>1. e \in written /\ f \in written /\ e.id \in Nat /\ f.id \in Nat
        /\ e.version \in Nat /\ f.version \in Nat
    BY Parts DEF WriteTypes
  <2>2. ~(e.version < f.version) /\ ~(f.version < e.version)
    BY <2>1
  <2>3. ~(e.id < f.id) /\ ~(f.id < e.id)
    BY <2>2, Parts DEF Ordered
  <2>4. e.id = f.id
    BY <2>1, <2>3
  <2> QED
    BY <2>1, <2>4, Parts DEF WriteTypes
<1> QED
  BY <1>1, CarefulIsInductive, PTL

\* Once a snapshot exists Convex alone can rebuild a canvas behind no durable row
\* (recordSnapshot's compaction, restoreIfNeeded).
THEOREM ConvexRebuilds == RecoverySpec => []AlwaysRebuildable
<1>1. CarefulInductive => AlwaysRebuildable
  <2> SUFFICES ASSUME Careful, snapshots # <<>>, NEW p \in placements
               PROVE  /\ Replay(Last(snapshots), placements)[p.cell] >= p.id
                      /\ p.version <= HeadVersion(Last(snapshots), placements)
    BY DEF CarefulInductive, AlwaysRebuildable
  <2>1. PICK f \in Frames : f = Last(snapshots)
    BY Parts, LastOf DEF RecoveryTypes
  <2>2. Covers(f)
    BY <2>1, Parts DEF FramesSound, Sound
  <2>3. p.id <= Replay(f, placements)[p.cell]
    BY <2>2, Parts, ReplayShows
  <2>4. clock \in Nat /\ f.version \in 0..clock /\ \A q \in placements : q.version \in 1..clock
    BY Parts, PlacementsFinite DEF WriteTypes, Frames
  <2>5. p.version <= HeadVersion(f, placements)
    BY <2>4, HeadIsGreatest
  <2>6. p.id \in Nat /\ Replay(f, placements)[p.cell] \in Nat
    <3>1. Replay(f, placements) \in [Cells -> Nat]
      BY Parts, ReplayType
    <3>2. p.cell \in Cells /\ p.id \in Nat
      BY Parts DEF WriteTypes, Stored, Write
    <3> QED
      BY <3>1, <3>2
  <2> QED
    BY <2>1, <2>3, <2>5, <2>6
<1> QED
  BY <1>1, CarefulIsInductive, PTL

\* What a restore is about to write covers every durable row, over however many pages it
\* was read (getPlacementsSince, RESTORE_LUA).
THEOREM RestoreMissesNothing == RecoverySpec => []RestoreIsComplete
<1>1. CarefulInductive => RestoreIsComplete
  <2> SUFFICES ASSUME Careful, NEW w \in Workers, stage[w] = "write", meta = 0,
                      NEW p \in placements
               PROVE  Replay(frame[w], tail[w])[p.cell] >= p.id
    BY DEF CarefulInductive, RestoreIsComplete
  <2>1. PICK f \in Frames : f = frame[w]
    BY Parts DEF RecoveryTypes
  <2>2. PICK read \in SUBSET placements : read = tail[w]
    BY Parts DEF RecoveryTypes
  <2>3. /\ snapshots # <<>> /\ f = Last(snapshots)
        /\ \A q \in placements : q.version > f.version => q \in read
    BY <2>1, <2>2, Parts DEF TailFollows
  <2>4. Covers(f)
    BY <2>3, Parts DEF FramesSound, Sound
  <2>5. p.id <= Replay(f, read)[p.cell]
    BY <2>3, <2>4, Parts, ReplayShows
  <2>6. p.id \in Nat /\ Replay(f, read)[p.cell] \in Nat
    <3>1. Replay(f, read) \in [Cells -> Nat]
      BY Parts, ReplayType
    <3>2. p.cell \in Cells /\ p.id \in Nat
      BY Parts DEF WriteTypes, Stored, Write
    <3> QED
      BY <3>1, <3>2
  <2> QED
    BY <2>1, <2>2, <2>5, <2>6
<1> QED
  BY <1>1, CarefulIsInductive, PTL
=============================================================================
