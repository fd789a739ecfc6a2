--------------------------- MODULE ModerationProofs ---------------------------
(***************************************************************************)
(* Proofs about the moderation pipeline, for any viewers, moderators,      *)
(* cells, colours and scenarios: its types and its five safety properties. *)
(*                                                                         *)
(* The journal entry and the overlay rows a prepare transaction writes are *)
(* what its later steps, and everybody else's, can be held against: each   *)
(* row is the top of its cell in the log the action was decided from, the  *)
(* batch under way is exactly the rows of its entry, and once the dispatch *)
(* is answered every row has its overwrite behind that log.                *)
(***************************************************************************)
EXTENDS ModerationProps, FiniteSetTheorems, FunctionTheorems, SequenceTheorems,
        WellFoundedInduction, TLAPS

USE ModerationAssumption

-----------------------------------------------------------------------------
(***************************************************************************)
(* The inductive invariant.                                                *)
(***************************************************************************)
Kinds   == Rewrites \cup {"unban", "freeze", "sync", "none"}
Targets == Viewers \cup {NoUser}
Writes  == [cell : Cells, color : Colors, user : Targets, ts : Nat, by : Nat]
Entries == [action : Kinds, actor : Actors, target : Targets, ref : Nat, cells : Nat,
            detail : {"dispatch_pending", "dispatched", "no_cells"}, head : Nat, applied : Nat]
Removed == [action : Nat, cell : Cells, user : Targets, color : Colors, version : Nat,
            underneath : Colors, overwrite : Nat, restored : Nat]
Batches == UNION {[cs -> Colors] : cs \in SUBSET Cells}
Jobs    == [pc : {"idle", "prepare", "dispatch", "finalize", "gate", "sync"}, kind : Kinds,
            user : Targets, cells : SUBSET Cells, ref : Nat, flag : BOOLEAN, audit : Nat,
            batch : Batches, version : Nat, mods : SUBSET Delegates]

ModTypes ==
  /\ scenario \in Scenarios
  /\ writes \in Seq(Writes) /\ durable \in 0..Len(writes) /\ now \in Nat
  /\ bans \subseteq Targets /\ redisBans \subseteq Targets
  /\ open \in BOOLEAN /\ frozen \in BOOLEAN
  /\ audit \in Seq(Entries)
  /\ overlay \subseteq Removed /\ IsFiniteSet(overlay)
  /\ twitch \subseteq Delegates /\ roster \subseteq Delegates
  /\ jobs \in [Actors -> Jobs] /\ faults \in Nat

\* An actor whose action has its journal entry; no two act under one entry.  A sync gets
\* its entry in its last step.
Journaled(a) == jobs[a].pc \in {"gate", "dispatch", "finalize"}
EntriesOwned ==
  /\ \A a \in Actors : Journaled(a) =>
       /\ jobs[a].audit \in 1..Len(audit)
       /\ audit[jobs[a].audit].action = jobs[a].kind
  /\ \A a, b \in Actors :
       Journaled(a) /\ Journaled(b) /\ jobs[a].audit = jobs[b].audit => a = b
  /\ \A a \in Actors : jobs[a].pc = "sync" => jobs[a].kind = "sync"

\* A wipe has somebody to wipe.
WipesAim ==
  /\ \A a \in Actors : jobs[a].kind = "ban_wipe" => jobs[a].user \in Viewers
  /\ \A id \in 1..Len(audit) : audit[id].action = "ban_wipe" => audit[id].target \in Viewers

\* Nothing of a dispatch is there before it: its entry is open and no write is its.
Undispatched(a) ==
  jobs[a].pc = "dispatch" =>
    LET entry == audit[jobs[a].audit]
    IN  /\ jobs[a].kind \in Rewrites
        /\ entry.applied = 0 /\ entry.detail = "dispatch_pending" /\ entry.ref = jobs[a].ref
        /\ \A i \in 1..Len(writes) : writes[i].by # jobs[a].audit

\* A batch is the rows of its entry, or rows of the entry it restores that it has marked.
BatchFits(a) ==
  /\ jobs[a].pc \in {"dispatch", "finalize"} /\ IsRemoval(jobs[a].kind) =>
       /\ \A o \in overlay : o.action = jobs[a].audit => o.cell \in DOMAIN jobs[a].batch
       /\ \A c \in DOMAIN jobs[a].batch :
            \E o \in overlay : o.action = jobs[a].audit /\ o.cell = c
  /\ jobs[a].pc = "dispatch" /\ jobs[a].kind = "restore" =>
       \A c \in DOMAIN jobs[a].batch :
         \E o \in overlay : o.action = jobs[a].ref /\ o.cell = c /\ o.restored = jobs[a].audit

\* A version to be stamped is the one the dispatch has noted on the entry.
StampFits(a) ==
  jobs[a].pc \in {"gate", "finalize"} /\ jobs[a].version # 0 =>
    audit[jobs[a].audit].applied = jobs[a].version

\* No write on a cell after version v, up to version n.
Clear(v, n, c) == \A i \in (v + 1)..n : writes[i].cell # c

\* The n-th version shows the pixel that version v placed on its cell.
Shows(n, v) == v \in 1..n /\ Clear(v, n, writes[v].cell)

\* An overlay row records a version that was on top in the log it was decided from; once
\* the dispatch is answered the cell was overwritten after that log.
RowFits(o) ==
  /\ o.action \in 1..Len(audit)
  /\ IsRemoval(audit[o.action].action)
  /\ Shows(audit[o.action].head, o.version) /\ writes[o.version].cell = o.cell
  /\ audit[o.action].detail # "no_cells"
  /\ o.restored <= Len(audit)
  /\ o.overwrite # 0 => o.overwrite = audit[o.action].applied
  /\ audit[o.action].applied # 0 =>
       \E i \in 1..Len(writes) :
         /\ writes[i].by = o.action /\ writes[i].cell = o.cell
         /\ audit[o.action].head < i /\ i <= audit[o.action].applied

OneRowEach == \A o, p \in overlay : o.action = p.action /\ o.cell = p.cell => o = p

\* A write by an action: of the system user, after the log it was decided from, and for a
\* row of that action, or for one this action has marked restored.
WriteFits(i) ==
  writes[i].by # 0 =>
    LET entry == audit[writes[i].by]
    IN  /\ writes[i].by <= Len(audit) /\ writes[i].user = NoUser
        /\ entry.action \in Rewrites
        /\ IsRemoval(entry.action) =>
             \E o \in overlay :
               /\ o.action = writes[i].by /\ o.cell = writes[i].cell
               /\ entry.head < i
               /\ Clear(o.version, i - 1, o.cell) \/ ~Clear(entry.head, i - 1, o.cell)
        /\ entry.action = "restore" =>
             \E o \in overlay :
               o.action = entry.ref /\ o.cell = writes[i].cell /\ o.restored = writes[i].by

WrittenOnce ==
  \A i, j \in 1..Len(writes) :
    writes[i].by # 0 /\ writes[i].by = writes[j].by /\ writes[i].cell = writes[j].cell => i = j

\* Whatever its target showed in the log a wipe was decided from has a row.
WipeSees ==
  \A id \in 1..Len(audit) : audit[id].action = "ban_wipe" =>
    \A v \in 1..audit[id].head :
      /\ writes[v].user = audit[id].target /\ writes[v].color # 0
      /\ Shows(audit[id].head, v)
      => \E o \in overlay : o.action = id /\ o.version = v

HeadsBehind == \A id \in 1..Len(audit) : audit[id].head <= Len(writes)

\* The log, the journal and the rows, and the actors at work on them.
LogFits ==
  /\ HeadsBehind /\ OneRowEach /\ WrittenOnce /\ WipeSees
  /\ \A o \in overlay : RowFits(o)
  /\ \A i \in 1..Len(writes) : WriteFits(i)
ActorsFit == \A a \in Actors : Undispatched(a) /\ BatchFits(a) /\ StampFits(a)

ModInductive == ModTypes /\ EntriesOwned /\ WipesAim /\ LogFits /\ ActorsFit
-----------------------------------------------------------------------------
(***************************************************************************)
(* Finite sets and sequences.                                              *)
(***************************************************************************)

\* A non-empty set of naturals has a least element.
LEMMA LeastOf ==
  ASSUME NEW S \in SUBSET Nat, S # {}
  PROVE  \E s \in S : \A j \in S : s <= j
<1> DEFINE Less == {ss \in Nat \X Nat : ss[1] < ss[2]}
<1>1. IsWellFoundedOn(Less, Nat)
  BY NatLessThanWellFounded DEF OpToRel
<1> HIDE DEF Less
<1>2. PICK s \in S : \A m \in S : ~ (<<m, s>> \in Less)
  BY <1>1, WFMin
<1>3. ASSUME NEW j \in S PROVE s <= j
  <2>1. j \in Nat /\ s \in Nat
    OBVIOUS
  <2>2. ~ (j < s)
    BY <1>2, <2>1 DEF Less
  <2> QED
    BY <2>1, <2>2
<1> QED
  BY <1>3

\* A non-empty set of versions up to n has a newest one (Newest).
LEMMA NewestOf ==
  ASSUME NEW n \in Nat, NEW S \in SUBSET (1..n), S # {}
  PROVE  Newest(S) \in S /\ \A j \in S : j <= Newest(S)
<1> DEFINE Back == {i \in Nat : \E j \in S : i = n - j}
<1>1. PICK s \in S : TRUE
  OBVIOUS
<1>2. n - s \in Back
  OBVIOUS
<1> HIDE DEF Back
<1>3. PICK b \in Back : \A i \in Back : b <= i
  <2>1. Back \in SUBSET Nat
    BY DEF Back
  <2> QED
    BY <1>2, <2>1, LeastOf
<1>4. PICK m \in S : b = n - m
  BY DEF Back
<1>5. ASSUME NEW j \in S PROVE j <= m
  <2>1. n - j \in Back
    BY DEF Back
  <2> QED
    BY <1>3, <1>4, <2>1
<1>6. \E i \in S : \A j \in S : j <= i
  BY <1>5
<1> QED
  BY <1>6 DEF Newest

ImageOf(f, D) == {f[x] : x \in D}

\* A one-to-one image of a finite set has as many members.
LEMMA ImageSize ==
  ASSUME NEW D, IsFiniteSet(D), NEW R, NEW f \in [D -> R]
  PROVE  /\ IsFiniteSet(ImageOf(f, D))
         /\ Cardinality(ImageOf(f, D)) \in Nat
         /\ (\A x, y \in D : f[x] = f[y] => x = y) =>
              Cardinality(ImageOf(f, D)) = Cardinality(D)
<1> USE DEF ImageOf
<1> DEFINE T == ImageOf(f, D)
<1>1. f \in Surjection(D, T)
  BY DEF Surjection
<1>2. IsFiniteSet(T)
  BY <1>1, FS_Surjection
<1>3. Cardinality(T) \in Nat
  BY <1>2, FS_CardinalityType
<1>4. ASSUME \A x, y \in D : f[x] = f[y] => x = y PROVE Cardinality(T) = Cardinality(D)
  <2>1. f \in Bijection(D, T)
    BY <1>1, <1>4 DEF Bijection, Injection, Surjection, IsInjective
  <2>2. ExistsBijection(D, T)
    BY <2>1 DEF ExistsBijection
  <2> QED
    BY <2>2, FS_Bijection
<1> QED
  BY <1>2, <1>3, <1>4

\* The cells of a batch can be put in row-major order, each of them once (sortPlans).
LEMMA RowMajorOrders ==
  ASSUME NEW D \in SUBSET Nat, IsFiniteSet(D)
  PROVE  /\ Cardinality(D) \in Nat
         /\ RowMajor(D) \in [1..Cardinality(D) -> D]
         /\ \A i, j \in 1..Cardinality(D) : RowMajor(D)[i] = RowMajor(D)[j] => i = j
         /\ \A c \in D : \E i \in 1..Cardinality(D) : RowMajor(D)[i] = c
<1> DEFINE k == Cardinality(D)
           Upto(c) == {d \in D : d <= c}
           rank == [c \in D |-> Cardinality(Upto(c))]
<1>1. k \in Nat
  BY FS_CardinalityType
<1>2. ASSUME NEW c \in D
      PROVE  IsFiniteSet(Upto(c)) /\ Cardinality(Upto(c)) \in 1..k
  <2>1. IsFiniteSet(Upto(c)) /\ Cardinality(Upto(c)) <= k
    BY FS_Subset
  <2>2. Cardinality(Upto(c)) \in Nat
    BY <2>1, FS_CardinalityType
  <2>3. c \in Upto(c)
    OBVIOUS
  <2>4. Cardinality(Upto(c)) # 0
    BY <2>1, <2>3, FS_EmptySet
  <2> HIDE DEF k, Upto
  <2> QED
    BY <1>1, <2>1, <2>2, <2>4
<1>3. ASSUME NEW c \in D, NEW d \in D, c < d PROVE rank[c] < rank[d]
  <2> c \in Nat /\ d \in Nat
    OBVIOUS
  <2>1. Upto(c) \in SUBSET Upto(d)
    <3> SUFFICES ASSUME NEW e \in D, e <= c PROVE e <= d
      OBVIOUS
    <3>1. e \in Nat
      OBVIOUS
    <3> QED
      BY <1>3, <3>1
  <2>2. d \in Upto(d) /\ d \notin Upto(c)
    BY <1>3
  <2>6. Upto(c) # Upto(d)
    BY <2>2
  <2>3. Cardinality(Upto(c)) <= Cardinality(Upto(d)) /\ Cardinality(Upto(c)) # Cardinality(Upto(d))
    BY <1>2, <2>1, <2>6, FS_Subset
  <2>4. rank[c] = Cardinality(Upto(c)) /\ rank[d] = Cardinality(Upto(d))
    OBVIOUS
  <2>5. Cardinality(Upto(c)) \in Nat /\ Cardinality(Upto(d)) \in Nat
    BY <1>2
  <2> HIDE DEF rank, Upto
  <2> QED
    BY <2>3, <2>4, <2>5
<1>4. rank \in [D -> 1..k]
  BY <1>2
<1> HIDE DEF rank
<1>5. rank \in Injection(D, 1..k)
  <2>1. ASSUME NEW c \in D, NEW d \in D, rank[c] = rank[d] PROVE c = d
    <3>1. c \in Nat /\ d \in Nat /\ rank[c] \in Nat /\ rank[d] \in Nat
      BY <1>4
    <3>2. ~ (c < d) /\ ~ (d < c)
      BY <1>3, <2>1, <3>1
    <3> QED
      BY <3>1, <3>2
  <2> QED
    BY <1>4, <2>1 DEF Injection, IsInjective
<1>6. rank \in Surjection(D, 1..k)
  <2>1. IsFiniteSet(1..k) /\ Cardinality(1..k) = k
    BY <1>1, FS_Interval
  <2> QED
    BY <1>5, <2>1, FS_Injection
<1>7. \A i \in 1..k : \E c \in D : rank[c] = i
  BY <1>6 DEF Surjection
<1> DEFINE at == [i \in 1..k |-> CHOOSE c \in D : rank[c] = i]
<1>8. ASSUME NEW i \in 1..k PROVE at[i] \in D /\ rank[at[i]] = i
  BY <1>7
<1>9. at \in [1..k -> D]
  BY <1>8
<1> HIDE DEF at, k
<1>10. ASSUME NEW i \in 1..k, NEW j \in 1..k, i < j PROVE at[i] < at[j]
  <2>1. at[i] \in Nat /\ at[j] \in Nat
    BY <1>8
  <2>2. at[i] # at[j]
    BY <1>8, <1>10
  <2>3. ~ (at[j] < at[i])
    <3>1. SUFFICES ASSUME at[j] < at[i] PROVE FALSE
      OBVIOUS
    <3>2. rank[at[j]] < rank[at[i]]
      BY <1>3, <1>8, <3>1
    <3>3. j < i /\ i \in Nat /\ j \in Nat
      BY <1>1, <1>8, <3>2
    <3> QED
      BY <1>10, <3>3
  <2> QED
    BY <2>1, <2>2, <2>3
<1>11. DOMAIN at = 1..k
  BY <1>9
<1>12. \E cs \in [1..k -> D] : \A i, j \in DOMAIN cs : i < j => cs[i] < cs[j]
  BY <1>9, <1>10, <1>11
<1>13. RowMajor(D) \in [1..k -> D] /\ \A i, j \in DOMAIN RowMajor(D) : i < j => RowMajor(D)[i] < RowMajor(D)[j]
  BY <1>12 DEF RowMajor, k
<1> DEFINE cs == RowMajor(D)
<1> HIDE DEF cs
<1>14. cs \in [1..k -> D] /\ \A i, j \in 1..k : i < j => cs[i] < cs[j]
  BY <1>13 DEF cs
<1>15. ASSUME NEW i \in 1..k, NEW j \in 1..k, cs[i] = cs[j] PROVE i = j
  <2>1. cs[i] \in D /\ cs[j] \in D
    BY <1>14
  <2>3. cs[i] \in Nat /\ cs[j] \in Nat
    BY <2>1
  <2>4. i \in Nat /\ j \in Nat
    BY <1>1
  <2>2. ~ (i < j) /\ ~ (j < i)
    BY <1>14, <1>15, <2>3
  <2> QED
    BY <2>2, <2>4
<1>16. cs \in Injection(1..k, D)
  BY <1>14, <1>15 DEF Injection, IsInjective
<1>17. cs \in Surjection(1..k, D)
  <2>1. Cardinality(1..k) = Cardinality(D)
    BY <1>1, FS_Interval DEF k
  <2> QED
    BY <1>16, <2>1, FS_Injection
<1>18. \A c \in D : \E i \in 1..k : cs[i] = c
  BY <1>17 DEF Surjection
<1> QED
  BY <1>1, <1>14, <1>15, <1>18 DEF cs, k
-----------------------------------------------------------------------------
(***************************************************************************)
(* What the log says.                                                      *)
(***************************************************************************)

\* The top of a cell is the version it shows (Top).
LEMMA TopShows ==
  ASSUME writes \in Seq(Writes), NEW n \in 0..Len(writes), NEW c
  PROVE  /\ Top(n, c) \in 0..n
         /\ Top(n, c) = 0 => Clear(0, n, c)
         /\ Top(n, c) # 0 => Shows(n, Top(n, c)) /\ writes[Top(n, c)].cell = c
         /\ \A v : Shows(n, v) /\ writes[v].cell = c => Top(n, c) = v
<1>1. n \in Nat /\ Stack(n, c) \in SUBSET (1..n)
  BY DEF Stack
<1>2. CASE Stack(n, c) = {}
  BY <1>1, <1>2 DEF Top, Stack, Clear, Shows
<1>3. CASE Stack(n, c) # {}
  <2>1. Newest(Stack(n, c)) \in Stack(n, c) /\ \A j \in Stack(n, c) : j <= Newest(Stack(n, c))
    BY <1>1, <1>3, NewestOf
  <2>2. Top(n, c) = Newest(Stack(n, c))
    BY <1>3 DEF Top
  <2>3. PICK t : t = Top(n, c)
    OBVIOUS
  <2>4. t \in 1..n /\ writes[t].cell = c /\ \A j \in 1..n : writes[j].cell = c => j <= t
    BY <2>1, <2>2, <2>3 DEF Stack
  <2>5. Clear(t, n, c)
    BY <1>1, <2>4 DEF Clear
  <2>6. ASSUME NEW v, Shows(n, v), writes[v].cell = c PROVE t = v
    BY <1>1, <2>4, <2>6 DEF Shows, Clear
  <2> QED
    BY <2>3, <2>4, <2>5, <2>6 DEF Shows
<1> QED
  BY <1>2, <1>3

\* The colour a set of versions leaves is a colour.
LEMMA ColorOfType ==
  ASSUME writes \in Seq(Writes), NEW S \in SUBSET (1..Len(writes))
  PROVE  ColorOf(S) \in Colors
<1>1. CASE S = {}
  BY <1>1 DEF ColorOf
<1>2. CASE S # {}
  <2>0. Len(writes) \in Nat
    OBVIOUS
  <2>1. Newest(S) \in 1..Len(writes)
    BY <1>2, <2>0, NewestOf
  <2>2. writes[Newest(S)] \in Writes
    BY <2>1
  <2> QED
    BY <1>2, <2>2 DEF ColorOf, Writes
<1> QED
  BY <1>1, <1>2

\* A plan names for each of its cells, once, the version on top of it.
Plans == [cell : Cells, user : Targets, color : Colors, version : Nat, underneath : Colors]
PlansFit(n, plans) ==
  /\ plans \subseteq Plans /\ IsFiniteSet(plans) /\ Cardinality(plans) \in Nat
  /\ \A p \in plans : Shows(n, p.version) /\ writes[p.version].cell = p.cell
  /\ \A p, q \in plans : p.cell = q.cell => p = q

PlanEach(n, D, under) == {Plan(n, c, under[c]) : c \in D}

\* Whatever is planned cell by cell, of cells that show something (planWipe, planDelete).
LEMMA PlansByCell ==
  ASSUME writes \in Seq(Writes), NEW n \in 0..Len(writes),
         NEW D \in SUBSET Cells, \A c \in D : Shown(n, c),
         NEW under \in [D -> Colors]
  PROVE  /\ PlansFit(n, PlanEach(n, D, under))
         /\ Cardinality(PlanEach(n, D, under)) = Cardinality(D)
<1> DEFINE f == [c \in D |-> Plan(n, c, under[c])]
<1>1. ASSUME NEW c \in D
      PROVE  /\ f[c] \in Plans /\ f[c].cell = c
             /\ Shows(n, f[c].version) /\ writes[f[c].version].cell = c
  <2>1. Top(n, c) # 0 /\ Top(n, c) \in 0..n /\ Shows(n, Top(n, c)) /\ writes[Top(n, c)].cell = c
    BY TopShows DEF Shown
  <2>2. writes[Top(n, c)] \in Writes
    BY <2>1
  <2> QED
    BY <2>1, <2>2 DEF Plan, Plans, Writes
<1>2. PlanEach(n, D, under) = ImageOf(f, D)
  BY DEF PlanEach, ImageOf
<1>3. f \in [D -> Plans]
  BY <1>1
<1>4. IsFiniteSet(D)
  BY FS_Subset
<1> HIDE DEF f
<1>5. \A c, d \in D : f[c] = f[d] => c = d
  BY <1>1
<1>6. /\ IsFiniteSet(ImageOf(f, D)) /\ Cardinality(ImageOf(f, D)) \in Nat
      /\ Cardinality(ImageOf(f, D)) = Cardinality(D)
  BY <1>3, <1>4, <1>5, ImageSize
<1>7. ASSUME NEW p \in ImageOf(f, D)
      PROVE  p \in Plans /\ Shows(n, p.version) /\ writes[p.version].cell = p.cell /\ p = f[p.cell]
  BY <1>1, <1>7 DEF ImageOf
<1> QED
  BY <1>2, <1>6, <1>7 DEF PlansFit

\* A plan names its cell and the version on top of it.
LEMMA PlanFields ==
  \A n, c, color : Plan(n, c, color).cell = c /\ Plan(n, c, color).version = Top(n, c)
BY DEF Plan

\* A wipe plans for every pixel its target shows, and for nothing else (planWipe).
LEMMA WipePlans ==
  ASSUME writes \in Seq(Writes), NEW n \in 0..Len(writes), NEW u \in Viewers
  PROVE  /\ PlansFit(n, PlanWipe(n, u))
         /\ \A v : Shows(n, v) /\ writes[v].user = u /\ writes[v].color # 0 =>
              \E p \in PlanWipe(n, u) : p.cell = writes[v].cell /\ p.version = v
<1> DEFINE D == {d \in Cells : Shown(n, d) /\ writes[Top(n, d)].user = u}
           under == [c \in D |-> ColorOf({i \in Stack(n, c) : writes[i].user # u})]
<1>1. under \in [D -> Colors]
  <2> SUFFICES ASSUME NEW c \in D PROVE ColorOf({i \in Stack(n, c) : writes[i].user # u}) \in Colors
    OBVIOUS
  <2>1. {i \in Stack(n, c) : writes[i].user # u} \in SUBSET (1..Len(writes))
    BY DEF Stack
  <2> QED
    BY <2>1, ColorOfType
<1>2. PlanWipe(n, u) = PlanEach(n, D, under)
  BY DEF PlanWipe, PlanEach
<1>3. \A c \in D : Shown(n, c)
  OBVIOUS
<1>4. D \in SUBSET Cells
  OBVIOUS
<1>5. ASSUME NEW v, Shows(n, v), writes[v].user = u, writes[v].color # 0
      PROVE  \E p \in PlanWipe(n, u) : p.cell = writes[v].cell /\ p.version = v
  <2>1. v \in 1..Len(writes)
    BY <1>5 DEF Shows
  <2>5. writes[v] \in Writes
    BY <2>1
  <2>2. writes[v].cell \in Cells
    BY <2>5 DEF Writes
  <2>3. Top(n, writes[v].cell) = v
    BY <1>5, TopShows
  <2>4. writes[v].cell \in D
    BY <1>5, <2>1, <2>2, <2>3 DEF Shown
  <2>6. Plan(n, writes[v].cell, under[writes[v].cell]) \in PlanWipe(n, u)
    BY <1>2, <2>4 DEF PlanEach
  <2> QED
    BY <2>3, <2>6 DEF Plan
<1> HIDE DEF D, under
<1> QED
  BY <1>1, <1>2, <1>3, <1>4, <1>5, PlansByCell

\* A delete plans for each of its cells that shows something (planDelete).
LEMMA DeletePlans ==
  ASSUME writes \in Seq(Writes), NEW n \in 0..Len(writes), NEW targets \in SUBSET Cells
  PROVE  /\ PlansFit(n, PlanDelete(n, targets))
         /\ Cardinality(PlanDelete(n, targets)) = Cardinality({d \in targets : Shown(n, d)})
<1> DEFINE D == {d \in targets : Shown(n, d)}
           under == [c \in D |-> ColorOf(Stack(n, c) \ {Top(n, c)})]
<1>1. under \in [D -> Colors]
  <2> SUFFICES ASSUME NEW c \in D PROVE ColorOf(Stack(n, c) \ {Top(n, c)}) \in Colors
    OBVIOUS
  <2>1. Stack(n, c) \ {Top(n, c)} \in SUBSET (1..Len(writes))
    BY DEF Stack
  <2> QED
    BY <2>1, ColorOfType
<1>2. PlanDelete(n, targets) = PlanEach(n, D, under)
  BY DEF PlanDelete, PlanEach
<1>3. \A c \in D : Shown(n, c)
  OBVIOUS
<1>4. D \in SUBSET Cells
  OBVIOUS
<1>5. {d \in targets : Shown(n, d)} = D
  OBVIOUS
<1> HIDE DEF D, under
<1>6. PlansFit(n, PlanEach(n, D, under)) /\ Cardinality(PlanEach(n, D, under)) = Cardinality(D)
  BY <1>1, <1>3, <1>4, PlansByCell
<1> QED
  BY <1>2, <1>5, <1>6, Zenon

\* The empty batch is one.
LEMMA EmptyBatch == <<>> \in Batches
<1>1. <<>> \in [1..0 -> Colors]
  BY EmptySeq, LenProperties
<1>2. 1..0 = {}
  OBVIOUS
<1>3. {} \in SUBSET Cells
  OBVIOUS
<1> QED
  BY <1>1, <1>2, <1>3, Zenon DEF Batches

\* The batch of a plan has its cells (removalCells).
LEMMA CellsOfPlan ==
  ASSUME writes \in Seq(Writes), NEW n, NEW plans, PlansFit(n, plans)
  PROVE  /\ RemovalCells(plans) \in Batches
         /\ DOMAIN RemovalCells(plans) = {p.cell : p \in plans}
<1>1. ASSUME NEW c \in {p.cell : p \in plans}
      PROVE  (CHOOSE p \in plans : p.cell = c).underneath \in Colors
  <2>1. \E p \in plans : p.cell = c
    OBVIOUS
  <2>2. (CHOOSE p \in plans : p.cell = c) \in plans
    BY <2>1
  <2> QED
    BY <2>2 DEF PlansFit, Plans
<1>2. {p.cell : p \in plans} \in SUBSET Cells
  BY DEF PlansFit, Plans
<1>3. RemovalCells(plans) \in [{p.cell : p \in plans} -> Colors]
  BY <1>1 DEF RemovalCells
<1> QED
  BY <1>2, <1>3 DEF Batches

\* A dispatch writes each cell of its batch once, for the system user (handleModerate).
LEMMA BatchWrites ==
  ASSUME NEW job \in Jobs, now \in Nat
  PROVE  /\ Batch(job) \in Seq(Writes)
         /\ \A i \in 1..Len(Batch(job)) :
              /\ Batch(job)[i].user = NoUser /\ Batch(job)[i].by = job.audit
              /\ Batch(job)[i].cell \in DOMAIN job.batch
         /\ \A i, j \in 1..Len(Batch(job)) : Batch(job)[i].cell = Batch(job)[j].cell => i = j
         /\ \A c \in DOMAIN job.batch : \E i \in 1..Len(Batch(job)) : Batch(job)[i].cell = c
<1>1. PICK D \in SUBSET Cells : job.batch \in [D -> Colors]
  BY DEF Jobs, Batches
<1>2. DOMAIN job.batch = D
  BY <1>1
<1>3. IsFiniteSet(D) /\ D \in SUBSET Nat
  BY FS_Subset
<1>4. PICK cs : cs = RowMajor(D)
  OBVIOUS
<1>5. PICK k : k = Cardinality(D)
  OBVIOUS
<1>6. /\ k \in Nat /\ cs \in [1..k -> D]
      /\ \A i, j \in 1..k : cs[i] = cs[j] => i = j
      /\ \A c \in D : \E i \in 1..k : cs[i] = c
  BY <1>3, <1>4, <1>5, RowMajorOrders
<1>7. Len(cs) = k
  BY <1>6, LenProperties, IsASeq
<1>8. Batch(job) = [i \in 1..k |-> Row(cs[i], job.batch[cs[i]], NoUser, job.audit)]
  BY <1>2, <1>4, <1>7 DEF Batch
<1>9. ASSUME NEW i \in 1..k
      PROVE  /\ Row(cs[i], job.batch[cs[i]], NoUser, job.audit) \in Writes
             /\ Row(cs[i], job.batch[cs[i]], NoUser, job.audit).cell = cs[i]
  <2>1. cs[i] \in D /\ job.batch[cs[i]] \in Colors /\ job.audit \in Nat
    BY <1>1, <1>6 DEF Jobs
  <2> QED
    BY <2>1 DEF Row, Writes, Targets
<1>10. Batch(job) \in [1..k -> Writes]
  BY <1>8, <1>9
<1>11. Batch(job) \in Seq(Writes) /\ Len(Batch(job)) = k
  BY <1>6, <1>10, IsASeq, LenProperties
<1>12. \A i \in 1..k : /\ Batch(job)[i].user = NoUser /\ Batch(job)[i].by = job.audit
                       /\ Batch(job)[i].cell = cs[i]
  BY <1>8 DEF Row
<1> HIDE <1>8
<1>13. \A i \in 1..k : cs[i] \in D
  BY <1>6
<1>14. ASSUME NEW i \in 1..k, NEW j \in 1..k, Batch(job)[i].cell = Batch(job)[j].cell PROVE i = j
  BY <1>6, <1>12, <1>14
<1>15. \A c \in D : \E i \in 1..k : Batch(job)[i].cell = c
  BY <1>6, <1>12
<1> QED
  BY <1>2, <1>11, <1>12, <1>13, <1>14, <1>15

\* A preview that is not truncated lists every plan (planPreview's slice).
LEMMA FirstOfFew ==
  ASSUME NEW plans, IsFiniteSet(plans), NEW p \in plans, ~(p.cell < p.cell),
         ~(Cardinality(plans) > PreviewMax)
  PROVE  p \in FirstPlans(plans)
<1> DEFINE before == {q \in plans : q.cell < p.cell}
<1>1. IsFiniteSet(plans \ {p}) /\ Cardinality(plans \ {p}) = Cardinality(plans) - 1
  BY FS_RemoveElement
<1>2. before \subseteq plans \ {p}
  OBVIOUS
<1> HIDE DEF before
<1>3. IsFiniteSet(before) /\ Cardinality(before) <= Cardinality(plans \ {p})
  BY <1>1, <1>2, FS_Subset
<1>4. Cardinality(before) \in Nat /\ Cardinality(plans) \in Nat /\ PreviewMax \in Nat
  BY <1>3, FS_CardinalityType, ModerationAssumption
<1>5. Cardinality(before) < PreviewMax
  BY <1>1, <1>3, <1>4
<1> QED
  BY <1>5 DEF FirstPlans, before

\* The preview of a pixel and the action it announces agree: PreviewMatchesAction.
LEMMA PreviewsMatch == ModTypes => PreviewMatchesAction
<1> SUFFICES ASSUME ModTypes, NEW c \in Cells, AuthorAt(c) # NoUser
    PROVE  /\ c \in GroupCellsAt(durable, c)
           /\ \E p \in PlanWipe(durable, AuthorAt(c)) : p.cell = c
           /\ PreviewTargets(c, "ban_wipe").count = BanBlastRadius(AuthorAt(c))
           /\ {d.cell : d \in PreviewTargets(c, "group").cells} \subseteq GroupCellsAt(durable, c)
           /\ ~PreviewTargets(c, "group").truncated =>
                {d.cell : d \in PreviewTargets(c, "group").cells} = GroupCellsAt(durable, c)
           /\ PreviewTargets(c, "group").count = Cardinality(GroupCellsAt(durable, c))
           /\ \A p \in PlanDelete(durable, GroupCellsAt(durable, c)) :
                \E q \in PlanWipe(durable, AuthorAt(c)) : q.cell = p.cell /\ q.version = p.version
  BY DEF PreviewMatchesAction
<1> DEFINE u == AuthorAt(c)
           group == GroupCellsAt(durable, c)
           gone == PlanDelete(durable, group)
<1>1. writes \in Seq(Writes) /\ durable \in 0..Len(writes) /\ Len(writes) \in Nat
  BY DEF ModTypes
<1>2. /\ Shown(durable, c) /\ u = writes[Top(durable, c)].user /\ u = AuthorOfTop(durable, c)
      /\ u # NoUser
  BY DEF AuthorAt, AuthorOfTop
<1>3. \A d : Shown(durable, d) => Top(durable, d) \in 1..Len(writes)
  BY <1>1, TopShows DEF Shown
<1>4. u \in Viewers
  <2>1. writes[Top(durable, c)] \in Writes
    BY <1>1, <1>2, <1>3
  <2> QED
    BY <1>2, <2>1 DEF Writes, Targets
<1>5. Near(Top(durable, c), Top(durable, c))
  <2>1. writes[Top(durable, c)] \in Writes
    BY <1>1, <1>2, <1>3
  <2>2. writes[Top(durable, c)].ts \in Nat
    BY <2>1 DEF Writes
  <2> QED
    BY <2>2 DEF Near
<1>6. group = {d \in Cells : /\ Shown(durable, d) /\ writes[Top(durable, d)].user = u
                             /\ Near(Top(durable, d), Top(durable, c))}
  BY <1>2 DEF GroupCellsAt
<1>7. c \in group
  BY <1>2, <1>5, <1>6
<1> HIDE DEF u, group
<1>8. ASSUME NEW d \in group
      PROVE  \E q \in PlanWipe(durable, u) : q.cell = d /\ q.version = Top(durable, d)
  <2>1. d \in Cells /\ Shown(durable, d) /\ writes[Top(durable, d)].user = u
    BY <1>6
  <2>2. Plan(durable, d, ColorOf({i \in Stack(durable, d) : writes[i].user # u}))
          \in PlanWipe(durable, u)
    BY <2>1 DEF PlanWipe
  <2> QED
    BY <2>2, PlanFields
<1>9. ASSUME NEW p \in gone PROVE \E d \in group : p.cell = d /\ p.version = Top(durable, d)
  <2>1. PICK d \in group : p = Plan(durable, d, ColorOf(Stack(durable, d) \ {Top(durable, d)}))
    BY DEF PlanDelete
  <2> QED
    BY <2>1, PlanFields
<1>10. ASSUME NEW d \in group PROVE \E p \in gone : p.cell = d
  <2>1. Plan(durable, d, ColorOf(Stack(durable, d) \ {Top(durable, d)})) \in gone
    BY <1>6 DEF PlanDelete
  <2> QED
    BY <2>1, PlanFields
<1>11. Cardinality(gone) = Cardinality(group)
  <2>1. {d \in group : Shown(durable, d)} = group
    BY <1>6
  <2>2. group \in SUBSET Cells
    BY <1>6
  <2>3. Cardinality(gone) = Cardinality({d \in group : Shown(durable, d)})
    BY <1>1, <2>2, DeletePlans
  <2> QED
    BY <2>1, <2>3
<1>12. PreviewTargets(c, "group") = PlanPreview(gone)
  BY DEF PreviewTargets, group
<1>13. PreviewTargets(c, "ban_wipe") = PlanPreview(PlanWipe(durable, u))
  BY DEF PreviewTargets, u
<1> HIDE DEF gone
<1>18. IsFiniteSet(gone)
  <2>1. group \in SUBSET Cells
    BY <1>6
  <2> QED
    BY <1>1, <2>1, DeletePlans DEF gone, PlansFit
<1>14. /\ {d.cell : d \in PlanPreview(gone).cells} \subseteq group
       /\ ~PlanPreview(gone).truncated => {d.cell : d \in PlanPreview(gone).cells} = group
  <2>1. PlanPreview(gone).cells = {[cell |-> p.cell, color |-> p.color] : p \in FirstPlans(gone)}
    BY DEF PlanPreview
  <2>2. ASSUME NEW d \in PlanPreview(gone).cells PROVE d.cell \in group
    <3>1. PICK p \in FirstPlans(gone) : d = [cell |-> p.cell, color |-> p.color]
      BY <2>1
    <3>2. p \in gone /\ d.cell = p.cell
      BY <3>1 DEF FirstPlans
    <3> QED
      BY <1>9, <3>2
  <2>3. ASSUME ~PlanPreview(gone).truncated, NEW d \in group
        PROVE  \E e \in PlanPreview(gone).cells : e.cell = d
    <3>1. PICK p \in gone : p.cell = d
      BY <1>10
    <3>2. p \in FirstPlans(gone)
      <4>1. ~(Cardinality(gone) > PreviewMax)
        BY <2>3 DEF PlanPreview
      <4>2. d < d => FALSE
        BY <1>6, ModerationAssumption
      <4> QED
        BY <1>18, <3>1, <4>1, <4>2, FirstOfFew
    <3>3. [cell |-> p.cell, color |-> p.color] \in PlanPreview(gone).cells
      BY <2>1, <3>2
    <3> QED
      BY <3>1, <3>3
  <2> QED
    BY <2>2, <2>3
<1>15. /\ PlanPreview(gone).count = Cardinality(group)
       /\ PlanPreview(PlanWipe(durable, u)).count = BanBlastRadius(u)
  BY <1>11 DEF PlanPreview, BanBlastRadius
<1>16. \A p \in gone : \E q \in PlanWipe(durable, u) : q.cell = p.cell /\ q.version = p.version
  BY <1>8, <1>9
<1>17. \E p \in PlanWipe(durable, u) : p.cell = c
  BY <1>7, <1>8
<1> QED
  BY <1>7, <1>12, <1>13, <1>14, <1>15, <1>16, <1>17 DEF u, group, gone
-----------------------------------------------------------------------------
(***************************************************************************)
(* The types.                                                              *)
(***************************************************************************)

\* What the steps put into the journal and into an actor's hands.
LEMMA StepTypes ==
  ASSUME ModTypes
  PROVE  /\ Len(writes) \in Nat /\ Len(audit) \in Nat /\ durable \in Nat
         /\ Idle \in Jobs
         /\ \A a \in Actors, job \in Jobs, n \in Nat : AuditRow(a, job, n) \in Entries
         /\ \A c \in Cells, color \in Colors, u \in Targets, id \in Nat : Row(c, color, u, id) \in Writes
<1>1. Len(writes) \in Nat /\ Len(audit) \in Nat /\ durable \in Nat /\ now \in Nat
  BY DEF ModTypes
<1>2. Idle \in Jobs
  BY EmptyBatch DEF Idle, Jobs, Kinds, Targets
<1>3. \A a \in Actors, job \in Jobs, n \in Nat : AuditRow(a, job, n) \in Entries
  BY <1>1 DEF AuditRow, Entries, Jobs
<1>4. \A c \in Cells, color \in Colors, u \in Targets, id \in Nat : Row(c, color, u, id) \in Writes
  BY <1>1 DEF Row, Writes
<1> QED
  BY <1>1, <1>2, <1>3, <1>4

\* A job given new fields of the right types is a job.
LEMMA JobFields ==
  ASSUME NEW job \in Jobs
  PROVE  /\ \A pc \in {"idle", "prepare", "dispatch", "finalize", "gate", "sync"} :
              [job EXCEPT !.pc = pc] \in Jobs
         /\ \A n \in Nat : [job EXCEPT !.pc = "finalize", !.version = n] \in Jobs
         /\ \A id \in Nat, cs \in Batches :
              [job EXCEPT !.pc = "dispatch", !.audit = id, !.batch = cs] \in Jobs
BY DEF Jobs

\* Rows rewritten one by one stay rows, finitely many.
LEMMA RowsRewritten ==
  ASSUME ModTypes, NEW f \in [overlay -> Removed]
  PROVE  ImageOf(f, overlay) \subseteq Removed /\ IsFiniteSet(ImageOf(f, overlay))
<1>1. IsFiniteSet(overlay)
  BY DEF ModTypes
<1> QED
  BY <1>1, ImageSize DEF ImageOf

\* The rows of a plan (PREAUTH_prepareBanWipe and its siblings insert one per cell).
LEMMA RowsAdded ==
  ASSUME NEW n, NEW plans, PlansFit(n, plans), NEW id \in Nat
  PROVE  /\ Removals(plans, id) \subseteq Removed /\ IsFiniteSet(Removals(plans, id))
         /\ \A o \in Removals(plans, id) :
              /\ o.action = id /\ o.overwrite = 0 /\ o.restored = 0
              /\ Shows(n, o.version) /\ writes[o.version].cell = o.cell
         /\ \A o, q \in Removals(plans, id) : o.cell = q.cell => o = q
         /\ \A p \in plans : \E o \in Removals(plans, id) : o.cell = p.cell /\ o.version = p.version
         /\ \A o \in Removals(plans, id) : \E p \in plans : o.cell = p.cell
<1> DEFINE f == [p \in plans |->
      [action |-> id, cell |-> p.cell, user |-> p.user, color |-> p.color, version |-> p.version,
       underneath |-> p.underneath, overwrite |-> 0, restored |-> 0]]
<1>1. Removals(plans, id) = ImageOf(f, plans)
  BY DEF Removals, ImageOf
<1>2. ASSUME NEW p \in plans
      PROVE  /\ f[p] \in Removed /\ f[p].action = id /\ f[p].overwrite = 0 /\ f[p].restored = 0
             /\ f[p].cell = p.cell /\ f[p].version = p.version
  BY DEF PlansFit, Plans, Removed
<1>3. f \in [plans -> Removed]
  BY <1>2
<1> HIDE DEF f
<1>4. IsFiniteSet(Removals(plans, id))
  BY <1>1, <1>3, ImageSize DEF PlansFit
<1>5. \A o \in Removals(plans, id) : \E p \in plans : o = f[p]
  BY <1>1 DEF ImageOf
<1>6. \A p \in plans : f[p] \in Removals(plans, id)
  BY <1>1 DEF ImageOf
<1>7. ASSUME NEW o \in Removals(plans, id), NEW q \in Removals(plans, id), o.cell = q.cell
      PROVE  o = q
  <2>1. PICK p \in plans, r \in plans : o = f[p] /\ q = f[r]
    BY <1>5
  <2>2. p = r
    BY <1>2, <1>7, <2>1 DEF PlansFit
  <2> QED
    BY <2>1, <2>2
<1>8. \A o \in Removals(plans, id) :
        /\ o \in Removed /\ o.action = id /\ o.overwrite = 0 /\ o.restored = 0
        /\ Shows(n, o.version) /\ writes[o.version].cell = o.cell
        /\ \E p \in plans : o.cell = p.cell
  BY <1>2, <1>5 DEF PlansFit
<1>9. \A p \in plans : \E o \in Removals(plans, id) : o.cell = p.cell /\ o.version = p.version
  BY <1>2, <1>6
<1> QED
  BY <1>4, <1>7, <1>8, <1>9

\* An empty log and nobody at work.
LEMMA TypesInit == ModInit => ModTypes
<1> SUFFICES ASSUME ModInit PROVE ModTypes
  OBVIOUS
<1>1. <<>> \in Seq(Writes) /\ <<>> \in Seq(Entries) /\ Len(<<>>) = 0
  BY EmptySeq
<1>2. writes = <<>> /\ audit = <<>> /\ overlay = {} /\ durable = 0 /\ now = 0 /\ faults = 0
  BY DEF ModInit
<1>3. IsFiniteSet(overlay)
  BY <1>2, FS_EmptySet
<1>4. durable \in 0..Len(writes)
  BY <1>1, <1>2
<1>5. Idle \in Jobs
  BY EmptyBatch DEF Idle, Jobs, Kinds, Targets
<1> QED
  BY <1>1, <1>2, <1>3, <1>4, <1>5 DEF ModInit, ModTypes

\* An entry at the end of the journal, and an entry noted on.
LEMMA JournalTypes ==
  ASSUME ModTypes
  PROVE  /\ \A e \in Entries : /\ Append(audit, e) \in Seq(Entries)
                               /\ Len(Append(audit, e)) = Len(audit) + 1
                               /\ Append(audit, e)[Len(audit) + 1] = e
                               /\ \A id \in 1..Len(audit) : Append(audit, e)[id] = audit[id]
         /\ \A id \in 1..Len(audit), e \in Entries :
              /\ [audit EXCEPT ![id] = e] \in Seq(Entries)
              /\ Len([audit EXCEPT ![id] = e]) = Len(audit)
              /\ [audit EXCEPT ![id] = e][id] = e
              /\ \A k \in 1..Len(audit) : k # id => [audit EXCEPT ![id] = e][k] = audit[k]
<1>1. audit \in Seq(Entries) /\ Len(audit) \in Nat
  BY DEF ModTypes
<1>2. ASSUME NEW e \in Entries
      PROVE  /\ Append(audit, e) \in Seq(Entries) /\ Len(Append(audit, e)) = Len(audit) + 1
             /\ Append(audit, e)[Len(audit) + 1] = e
             /\ \A id \in 1..Len(audit) : Append(audit, e)[id] = audit[id]
  BY <1>1, AppendProperties
<1>3. ASSUME NEW id \in 1..Len(audit), NEW e \in Entries
      PROVE  /\ [audit EXCEPT ![id] = e] \in Seq(Entries)
             /\ Len([audit EXCEPT ![id] = e]) = Len(audit)
             /\ [audit EXCEPT ![id] = e][id] = e
             /\ \A k \in 1..Len(audit) : k # id => [audit EXCEPT ![id] = e][k] = audit[k]
  BY <1>1, ExceptSeq
<1> QED
  BY <1>2, <1>3

\* The transaction of a removal journals it, inserts its rows and hands on the batch.
LEMMA PrepareTypes ==
  ASSUME ModTypes, NEW a \in Actors, NEW kind, NEW plans,
         Prepare(a, kind, plans), PlansFit(durable, plans)
  PROVE  /\ audit' \in Seq(Entries)
         /\ overlay' \subseteq Removed /\ IsFiniteSet(overlay')
         /\ jobs' \in [Actors -> Jobs]
<1>1. jobs[a] \in Jobs /\ jobs \in [Actors -> Jobs] /\ Len(audit) + 1 \in Nat /\ writes \in Seq(Writes)
  BY DEF ModTypes
<1>2. AuditRow(a, jobs[a], Cardinality(plans)) \in Entries
  BY <1>1, StepTypes DEF PlansFit
<1>3. audit' = Append(audit, AuditRow(a, jobs[a], Cardinality(plans)))
  BY DEF Prepare
<1>4. overlay' = overlay \cup Removals(plans, Len(audit) + 1)
  BY DEF Prepare
<1>5. Removals(plans, Len(audit) + 1) \subseteq Removed /\ IsFiniteSet(Removals(plans, Len(audit) + 1))
  BY <1>1, RowsAdded
<1>6. overlay \subseteq Removed /\ IsFiniteSet(overlay)
  BY DEF ModTypes
<1>7. IsFiniteSet(overlay')
  BY <1>4, <1>5, <1>6, FS_Union
<1>8. RemovalCells(plans) \in Batches
  BY <1>1, CellsOfPlan
<1>9. jobs' = [jobs EXCEPT ![a] = [jobs[a] EXCEPT !.pc = "dispatch", !.audit = Len(audit) + 1,
                                                    !.batch = RemovalCells(plans)]]
  BY DEF Prepare, Set
<1>10. jobs' \in [Actors -> Jobs]
  BY <1>1, <1>8, <1>9, JobFields
<1> QED
  BY <1>2, <1>3, <1>4, <1>5, <1>6, <1>7, <1>10, JournalTypes

\* What a restore takes: the rows of its action that nothing has restored.
Restorable(id) == {o \in overlay : o.action = id /\ o.restored = 0}
Marked(ids, id) == [o \in overlay |-> IF o \in ids THEN [o EXCEPT !.restored = id] ELSE o]
ColorsOf(rows) == [c \in {o.cell : o \in rows} |-> (CHOOSE o \in rows : o.cell = c).color]

\* The transaction of a restore journals it and marks what it will rewrite.
LEMMA PrepareRestoreIs ==
  ASSUME NEW a, PrepareRestore(a)
  PROVE  /\ audit' = Append(audit, AuditRow(a, jobs[a], Cardinality(Restorable(jobs[a].ref))))
         /\ overlay' = ImageOf(Marked(Restorable(jobs[a].ref), Len(audit) + 1), overlay)
         /\ jobs' = [jobs EXCEPT ![a] = [jobs[a] EXCEPT !.pc = "dispatch", !.audit = Len(audit) + 1,
                                                          !.batch = ColorsOf(Restorable(jobs[a].ref))]]
BY DEF PrepareRestore, Set, Restorable, Marked, ColorsOf, ImageOf

\* A restore keeps the types (PREAUTH_prepareRestore).
LEMMA PrepareRestoreTypes ==
  ASSUME ModTypes, NEW a \in Actors, PrepareRestore(a)
  PROVE  /\ audit' \in Seq(Entries)
         /\ overlay' \subseteq Removed /\ IsFiniteSet(overlay')
         /\ jobs' \in [Actors -> Jobs]
<1>1. jobs[a] \in Jobs /\ jobs \in [Actors -> Jobs] /\ Len(audit) + 1 \in Nat
  BY DEF ModTypes
<1>2. overlay \subseteq Removed /\ IsFiniteSet(overlay)
  BY DEF ModTypes
<1> DEFINE rows == Restorable(jobs[a].ref)
<1>3. rows \in SUBSET overlay
  BY DEF Restorable
<1>4. Cardinality(rows) \in Nat
  BY <1>2, <1>3, FS_Subset, FS_CardinalityType
<1> HIDE DEF rows
<1>5. AuditRow(a, jobs[a], Cardinality(rows)) \in Entries
  BY <1>1, <1>4, StepTypes
<1>6. Marked(rows, Len(audit) + 1) \in [overlay -> Removed]
  <2> SUFFICES ASSUME NEW o \in overlay, o \in rows
      PROVE  [o EXCEPT !.restored = Len(audit) + 1] \in Removed
    BY <1>2 DEF Marked
  <2>1. o \in Removed
    BY <1>2
  <2> QED
    BY <1>1, <2>1 DEF Removed
<1>7. ColorsOf(rows) \in Batches
  <2>1. ASSUME NEW c \in {o.cell : o \in rows} PROVE (CHOOSE o \in rows : o.cell = c).color \in Colors
    <3>1. \E o \in rows : o.cell = c
      OBVIOUS
    <3>2. (CHOOSE o \in rows : o.cell = c) \in rows
      BY <3>1
    <3>3. (CHOOSE o \in rows : o.cell = c) \in Removed
      BY <1>2, <1>3, <3>2
    <3> QED
      BY <3>3 DEF Removed
  <2>2. {o.cell : o \in rows} \in SUBSET Cells
    BY <1>2, <1>3 DEF Removed
  <2>3. ColorsOf(rows) \in [{o.cell : o \in rows} -> Colors]
    BY <2>1 DEF ColorsOf
  <2> QED
    BY <2>2, <2>3 DEF Batches
<1>8. jobs' \in [Actors -> Jobs]
  <2>1. [jobs[a] EXCEPT !.pc = "dispatch", !.audit = Len(audit) + 1, !.batch = ColorsOf(rows)] \in Jobs
    BY <1>1, <1>7, JobFields
  <2> QED
    BY <1>1, <2>1, PrepareRestoreIs DEF rows
<1>9. audit' \in Seq(Entries)
  <2>1. audit' = Append(audit, AuditRow(a, jobs[a], Cardinality(rows)))
    BY PrepareRestoreIs DEF rows
  <2> QED
    BY <1>5, <2>1, JournalTypes
<1>10. overlay' \subseteq Removed /\ IsFiniteSet(overlay')
  BY <1>6, PrepareRestoreIs, RowsRewritten DEF rows
<1> QED
  BY <1>8, <1>9, <1>10

\* The dispatch appends the batch and notes on the entry how far it got.
LEMMA DispatchIs ==
  ASSUME ModTypes, EntriesOwned, NEW a \in Actors, Dispatch(a)
  PROVE  /\ Batch(jobs[a]) \in Seq(Writes)
         /\ writes' \in Seq(Writes) /\ Len(writes') = Len(writes) + Len(Batch(jobs[a]))
         /\ \A i \in 1..Len(writes) : writes'[i] = writes[i]
         /\ \A i \in 1..Len(Batch(jobs[a])) : writes'[Len(writes) + i] = Batch(jobs[a])[i]
         /\ jobs[a].audit \in 1..Len(audit)
         /\ audit' = IF DOMAIN jobs[a].batch = {} THEN audit
                     ELSE [audit EXCEPT ![jobs[a].audit] =
                             [audit[jobs[a].audit] EXCEPT !.applied = Len(writes')]]
<1>1. jobs[a] \in Jobs /\ now \in Nat /\ writes \in Seq(Writes)
  BY DEF ModTypes
<1>2. Batch(jobs[a]) \in Seq(Writes)
  BY <1>1, BatchWrites
<1>3. writes' = writes \o Batch(jobs[a])
  BY DEF Dispatch
<1>4. jobs[a].audit \in 1..Len(audit)
  BY DEF EntriesOwned, Journaled, Dispatch
<1>5. audit' = IF DOMAIN jobs[a].batch = {} THEN audit
               ELSE [audit EXCEPT ![jobs[a].audit] =
                       [audit[jobs[a].audit] EXCEPT !.applied = Len(writes')]]
  BY DEF Dispatch
<1> HIDE DEF Batches
<1>6. /\ writes' \in Seq(Writes) /\ Len(writes') = Len(writes) + Len(Batch(jobs[a]))
      /\ \A i \in 1..Len(writes) : writes'[i] = writes[i]
      /\ \A i \in 1..Len(Batch(jobs[a])) : writes'[Len(writes) + i] = Batch(jobs[a])[i]
  BY <1>1, <1>2, <1>3, ConcatProperties
<1> QED
  BY <1>2, <1>4, <1>5, <1>6

\* A dispatch keeps the types (handleModerate).
LEMMA DispatchTypes ==
  ASSUME ModTypes, EntriesOwned, NEW a \in Actors, Dispatch(a)
  PROVE  /\ Len(writes') >= Len(writes) /\ Len(writes') \in Nat
         /\ audit' \in Seq(Entries) /\ jobs' \in [Actors -> Jobs] /\ faults' \in Nat
<1>1. jobs[a] \in Jobs /\ jobs \in [Actors -> Jobs] /\ faults \in Nat /\ audit \in Seq(Entries)
  BY DEF ModTypes
<1>2. Len(writes) \in Nat /\ Len(Batch(jobs[a])) \in Nat
  BY DispatchIs DEF ModTypes
<1>9. /\ Len(writes') = Len(writes) + Len(Batch(jobs[a])) /\ jobs[a].audit \in 1..Len(audit)
      /\ audit' = IF DOMAIN jobs[a].batch = {} THEN audit
                  ELSE [audit EXCEPT ![jobs[a].audit] =
                          [audit[jobs[a].audit] EXCEPT !.applied = Len(writes')]]
  BY DispatchIs, Zenon
<1>3. Len(writes') >= Len(writes) /\ Len(writes') \in Nat
  BY <1>2, <1>9
<1>4. audit[jobs[a].audit] \in Entries
  BY <1>1, <1>9
<1>5. [audit[jobs[a].audit] EXCEPT !.applied = Len(writes')] \in Entries
  BY <1>3, <1>4 DEF Entries
<1>6. audit' \in Seq(Entries)
  BY <1>1, <1>5, <1>9, JournalTypes
<1>7. \/ faults' = faults
         /\ jobs' = [jobs EXCEPT ![a] = [jobs[a] EXCEPT !.pc = "finalize", !.version =
                       IF DOMAIN jobs[a].batch = {} THEN 0 ELSE Len(writes')]]
      \/ faults' = faults + 1 /\ jobs' = [jobs EXCEPT ![a] = Idle]
  BY DEF Dispatch, Set
<1>8. jobs' \in [Actors -> Jobs] /\ faults' \in Nat
  <2>1. Idle \in Jobs
    BY StepTypes
  <2>2. \A n \in Nat : [jobs[a] EXCEPT !.pc = "finalize", !.version = n] \in Jobs
    BY <1>1, JobFields
  <2>3. (IF DOMAIN jobs[a].batch = {} THEN 0 ELSE Len(writes')) \in Nat
    BY <1>3
  <2>4. faults' = faults \/ faults' = faults + 1
    BY <1>7
  <2>5. \E job \in Jobs : jobs' = [jobs EXCEPT ![a] = job]
    BY <1>7, <2>1, <2>2, <2>3, Zenon
  <2> QED
    BY <1>1, <2>4, <2>5
<1> QED
  BY <1>3, <1>6, <1>8

\* The last step stamps the rows of its entry.
Stamped(id, v) == [o \in overlay |-> IF v # 0 /\ o.action = id THEN [o EXCEPT !.overwrite = v] ELSE o]

\* What finalizeModerate changes.
LEMMA FinalizeIs ==
  ASSUME EntriesOwned, NEW a \in Actors, Finalize(a)
  PROVE  /\ jobs[a].audit \in 1..Len(audit)
         /\ audit' = [audit EXCEPT ![jobs[a].audit] =
                        [audit[jobs[a].audit] EXCEPT !.detail = Outcome(jobs[a])]]
         /\ overlay' = ImageOf(Stamped(jobs[a].audit, jobs[a].version), overlay)
         /\ jobs' = [jobs EXCEPT ![a] = Idle]
BY DEF Finalize, Set, Stamped, ImageOf, EntriesOwned, Journaled

\* The outcome and the stamps are of their types (finalizeModerate).
LEMMA FinalizeTypes ==
  ASSUME ModTypes, EntriesOwned, NEW a \in Actors, Finalize(a)
  PROVE  /\ audit' \in Seq(Entries) /\ jobs' \in [Actors -> Jobs]
         /\ overlay' \subseteq Removed /\ IsFiniteSet(overlay')
<1>1. jobs[a] \in Jobs /\ jobs \in [Actors -> Jobs] /\ audit \in Seq(Entries) /\ overlay \subseteq Removed
  BY DEF ModTypes
<1>7. /\ jobs[a].audit \in 1..Len(audit)
      /\ audit' = [audit EXCEPT ![jobs[a].audit] =
                      [audit[jobs[a].audit] EXCEPT !.detail = Outcome(jobs[a])]]
      /\ overlay' = ImageOf(Stamped(jobs[a].audit, jobs[a].version), overlay)
      /\ jobs' = [jobs EXCEPT ![a] = Idle]
  BY FinalizeIs, Zenon
<1>2. audit[jobs[a].audit] \in Entries
  BY <1>1, <1>7
<1>3. [audit[jobs[a].audit] EXCEPT !.detail = Outcome(jobs[a])] \in Entries
  BY <1>2 DEF Entries, Outcome
<1>4. audit' \in Seq(Entries)
  BY <1>3, <1>7, JournalTypes
<1>5. Stamped(jobs[a].audit, jobs[a].version) \in [overlay -> Removed]
  <2> SUFFICES ASSUME NEW o \in overlay PROVE [o EXCEPT !.overwrite = jobs[a].version] \in Removed
    BY <1>1 DEF Stamped
  <2>1. o \in Removed /\ jobs[a].version \in Nat
    BY <1>1 DEF Jobs
  <2> QED
    BY <2>1 DEF Removed
<1>6. jobs' \in [Actors -> Jobs]
  BY <1>1, <1>7, StepTypes
<1> QED
  BY <1>4, <1>5, <1>6, <1>7, RowsRewritten
-----------------------------------------------------------------------------
(***************************************************************************)
(* The kinds of steps.  What a step does to the log, the journal, the rows *)
(* and the actors is all the argument needs; the gates and Twitch's list   *)
(* play no part.                                                           *)
(***************************************************************************)

\* The actor is between actions, or its gate has been posted.
SetAside(a, job) ==
  /\ job \in Jobs /\ jobs' = [jobs EXCEPT ![a] = job]
  /\ job.kind = "ban_wipe" => job.user \in Viewers
  /\ \/ job.pc \in {"idle", "prepare"}
     \/ job.pc = "sync" /\ job.kind = "sync"
     \/ /\ jobs[a].pc = "gate" /\ jobs[a].kind \in {"unban", "freeze"}
        /\ job = [jobs[a] EXCEPT !.pc = "finalize"]
Aside ==
  /\ UNCHANGED <<writes, audit, overlay>>
  /\ UNCHANGED jobs \/ \E a \in Actors, job \in Jobs : SetAside(a, job)

\* A viewer's write.
Placing(row) == row \in Writes /\ row.by = 0 /\ writes' = Append(writes, row) /\ UNCHANGED <<audit, overlay, jobs>>

\* An action that rewrites nothing is journaled.
Opens(a, e, job) ==
  /\ e \in Entries /\ e.action \in {"unban", "freeze", "sync"} /\ e.head = durable /\ e.applied = 0
  /\ job \in Jobs /\ job.kind \in {"unban", "freeze", "none"}
  /\ \/ job.pc = "idle"
     \/ job.pc = "gate" /\ job.audit = Len(audit) + 1 /\ job.version = 0 /\ job.kind = e.action
  /\ audit' = Append(audit, e) /\ jobs' = [jobs EXCEPT ![a] = job]
  /\ UNCHANGED <<writes, overlay>>

\* A removal is prepared, as planned from the log.
Removes(a, kind, plans) ==
  /\ IsRemoval(kind) /\ Prepare(a, kind, plans) /\ PlansFit(durable, plans)
  /\ kind = "ban_wipe" => plans = PlanWipe(durable, jobs[a].user)

ModStep ==
  \/ Aside
  \/ \E row \in Writes : Placing(row)
  \/ \E a \in Actors, e \in Entries, job \in Jobs : Opens(a, e, job)
  \/ \E a \in Actors, kind \in Kinds, plans \in SUBSET Plans : Removes(a, kind, plans)
  \/ \E a \in Actors : PrepareRestore(a) \/ Dispatch(a) \/ Finalize(a)

\* A viewer's step and the worker's.
LEMMA LogSteps ==
  ASSUME ModTypes,
         \/ \E u \in Viewers, c \in Cells, color \in Colors : Place(u, c, color)
         \/ Drain \/ Tick \/ TwitchEdits \/ (\E on \in BOOLEAN : SetPlacementOpen(on)) \/ UNCHANGED modVars
  PROVE  ModTypes' /\ ModStep
<1> USE DEF ModTypes
<1>1. ASSUME NEW u \in Viewers, NEW c \in Cells, NEW color \in Colors, Place(u, c, color)
      PROVE  ModTypes' /\ ModStep
  <2>1. Row(c, color, u, 0) \in Writes /\ Row(c, color, u, 0).by = 0
    BY StepTypes DEF Targets, Row
  <2>2. Placing(Row(c, color, u, 0))
    BY <1>1, <2>1 DEF Placing, Place
  <2>3. writes' \in Seq(Writes) /\ Len(writes') = Len(writes) + 1
    BY <2>1, <2>2, AppendProperties DEF Placing
  <2>4. durable' \in 0..Len(writes')
    BY <1>1, <2>3 DEF Place
  <2> QED
    BY <1>1, <2>1, <2>2, <2>3, <2>4 DEF Place, ModStep, banVars, gateVars
<1>2. CASE Drain
  <2>1. durable' \in 0..Len(writes)
    BY <1>2 DEF Drain
  <2> QED
    BY <1>2, <2>1 DEF Drain, ModStep, Aside, banVars, gateVars
<1>3. CASE Tick
  <2>1. now' \in Nat
    BY <1>3 DEF Tick
  <2> QED
    BY <1>3, <2>1 DEF Tick, ModStep, Aside, banVars, gateVars
<1>4. CASE TwitchEdits
  BY <1>4 DEF TwitchEdits, ModStep, Aside, banVars, gateVars, logVars
<1>5. ASSUME NEW on \in BOOLEAN, SetPlacementOpen(on) PROVE ModTypes' /\ ModStep
  BY <1>5 DEF SetPlacementOpen, ModStep, Aside, gateVars, logVars
<1>6. CASE UNCHANGED modVars
  BY <1>6 DEF modVars, ModStep, Aside, banVars, gateVars, logVars
<1> QED
  BY <1>1, <1>2, <1>3, <1>4, <1>5, <1>6

\* An action begins: all its moderator has is what it was asked.
LEMMA StartSteps ==
  ASSUME ModTypes, NEW a \in Actors,
         \/ \E u \in Viewers : BanAndWipe(a, u)
         \/ \E cs \in SUBSET Cells \ {{}} : DeletePixels(a, cs)
         \/ \E c \in Cells : DeleteGroupAt(a, c)
         \/ \E action \in DOMAIN audit : Restore(a, action)
  PROVE  ModTypes' /\ ModStep
<1>1. PICK kind \in Rewrites, user \in Targets, cs \in SUBSET Cells, ref \in Nat :
        StartRewrite(a, kind, user, cs, ref) /\ (kind = "ban_wipe" => user \in Viewers)
  <2>1. ASSUME NEW u \in Viewers, BanAndWipe(a, u) PROVE StartRewrite(a, "ban_wipe", u, {}, 0)
    BY <2>1 DEF BanAndWipe
  <2>2. ASSUME NEW cs \in SUBSET Cells, DeletePixels(a, cs) PROVE StartRewrite(a, "delete", NoUser, cs, 0)
    BY <2>2 DEF DeletePixels
  <2>3. ASSUME NEW c \in Cells, DeleteGroupAt(a, c) PROVE StartRewrite(a, "group", NoUser, {c}, 0)
    BY <2>3 DEF DeleteGroupAt
  <2>4. ASSUME NEW action \in DOMAIN audit, Restore(a, action)
        PROVE  action \in Nat /\ StartRewrite(a, "restore", NoUser, {}, action)
    BY <2>4 DEF Restore, ModTypes
  <2>5. /\ {"ban_wipe", "delete", "group", "restore"} \subseteq Rewrites /\ {} \in SUBSET Cells
        /\ 0 \in Nat /\ NoUser \in Targets /\ Viewers \subseteq Targets
        /\ \A c \in Cells : {c} \in SUBSET Cells
    BY DEF Rewrites, Targets
  <2> QED
    BY <2>1, <2>2, <2>3, <2>4, <2>5
<1> DEFINE job == [Idle EXCEPT !.pc = "prepare", !.kind = kind, !.user = user, !.cells = cs, !.ref = ref]
<1>2. job \in Jobs /\ job.pc = "prepare" /\ job.kind = kind /\ job.user = user
  BY StepTypes DEF Idle, Jobs, Kinds
<1>3. /\ jobs' = [jobs EXCEPT ![a] = job]
      /\ UNCHANGED <<logVars, gateVars, banVars, audit, overlay, twitch, roster, faults>>
  BY <1>1 DEF StartRewrite, Set
<1> HIDE DEF job
<1>4. SetAside(a, job)
  BY <1>1, <1>2, <1>3 DEF SetAside
<1> QED
  BY <1>2, <1>3, <1>4 DEF ModStep, Aside, ModTypes, banVars, gateVars, logVars

\* An action ends before it has done what it began.
LEMMA StopSteps ==
  ASSUME ModTypes, NEW a \in Actors, PrepareDenied(a) \/ DispatchFails(a) \/ PostGateFails(a)
  PROVE  ModTypes' /\ ModStep
<1>1. jobs' = [jobs EXCEPT ![a] = Idle] /\ UNCHANGED <<writes, audit, overlay>>
  BY DEF PrepareDenied, DispatchFails, PostGateFails, Set, logVars
<1>2. Idle \in Jobs /\ Idle.pc = "idle" /\ Idle.kind = "none"
  BY StepTypes DEF Idle
<1>3. SetAside(a, Idle)
  BY <1>1, <1>2 DEF SetAside
<1>4. faults' \in Nat
  BY DEF PrepareDenied, DispatchFails, PostGateFails, ModTypes
<1>5. ModTypes'
  BY <1>1, <1>2, <1>4 DEF PrepareDenied, DispatchFails, PostGateFails, ModTypes, logVars, gateVars, banVars
<1> QED
  BY <1>1, <1>2, <1>3, <1>5 DEF ModStep, Aside

\* The gates and the sync of moderators.
LEMMA GateSteps ==
  ASSUME ModTypes, EntriesOwned, NEW a \in Actors,
         \/ \E u \in Viewers : Unban(a, u)
         \/ \E on \in BOOLEAN : Freeze(a, on)
         \/ PostUnban(a) \/ PostFreeze(a) \/ StartSync(a) \/ ApplySync(a)
  PROVE  ModTypes' /\ ModStep
<1> USE DEF ModTypes
<1>1. jobs[a] \in Jobs /\ Idle \in Jobs /\ Len(audit) + 1 \in Nat
  BY StepTypes
<1>2. ASSUME NEW e \in Entries, NEW job \in Jobs, Opens(a, e, job)
      PROVE  audit' \in Seq(Entries) /\ jobs' \in [Actors -> Jobs] /\ ModStep
  BY <1>2, JournalTypes DEF Opens, ModStep
<1>3. ASSUME NEW u \in Viewers, Unban(a, u) PROVE ModTypes' /\ ModStep
  <2> DEFINE e == AuditRow(a, [Idle EXCEPT !.kind = "unban", !.user = u], 0)
             job == [Idle EXCEPT !.pc = "gate", !.kind = "unban", !.user = u, !.audit = Len(audit) + 1]
  <2>1. [Idle EXCEPT !.kind = "unban", !.user = u] \in Jobs /\ job \in Jobs
    BY <1>1 DEF Jobs, Kinds, Targets
  <2>2. e \in Entries /\ e.action = "unban" /\ e.head = durable /\ e.applied = 0
    BY <2>1, StepTypes DEF AuditRow, Idle
  <2>3. job.pc = "gate" /\ job.audit = Len(audit) + 1 /\ job.version = 0 /\ job.kind = "unban"
    BY DEF Idle
  <2>4. audit' = Append(audit, e) /\ jobs' = [jobs EXCEPT ![a] = job]
    BY <1>3 DEF Unban, Set
  <2> HIDE DEF e, job
  <2>5. Opens(a, e, job)
    BY <1>3, <2>1, <2>2, <2>3, <2>4 DEF Opens, Unban, logVars
  <2> QED
    BY <1>2, <1>3, <2>1, <2>2, <2>5 DEF Unban, logVars, gateVars
<1>4. ASSUME NEW on \in BOOLEAN, Freeze(a, on) PROVE ModTypes' /\ ModStep
  <2> DEFINE e == AuditRow(a, [Idle EXCEPT !.kind = "freeze"], 0)
             job == [Idle EXCEPT !.pc = "gate", !.kind = "freeze", !.flag = on, !.audit = Len(audit) + 1]
  <2>1. [Idle EXCEPT !.kind = "freeze"] \in Jobs /\ job \in Jobs
    BY <1>1 DEF Jobs, Kinds
  <2>2. e \in Entries /\ e.action = "freeze" /\ e.head = durable /\ e.applied = 0
    BY <2>1, StepTypes DEF AuditRow, Idle
  <2>3. job.pc = "gate" /\ job.audit = Len(audit) + 1 /\ job.version = 0 /\ job.kind = "freeze"
    BY DEF Idle
  <2>4. audit' = Append(audit, e) /\ jobs' = [jobs EXCEPT ![a] = job]
    BY <1>4 DEF Freeze, Set
  <2> HIDE DEF e, job
  <2>5. Opens(a, e, job)
    BY <1>4, <2>1, <2>2, <2>3, <2>4 DEF Opens, Freeze, logVars
  <2>6. open' \in BOOLEAN
    BY <1>4 DEF Freeze
  <2> QED
    BY <1>2, <1>4, <2>1, <2>2, <2>5, <2>6 DEF Freeze, logVars, gateVars
<1>5. CASE PostUnban(a) \/ PostFreeze(a)
  <2> DEFINE job == [jobs[a] EXCEPT !.pc = "finalize"]
  <2>1. job \in Jobs /\ job.kind = jobs[a].kind
    BY <1>1, JobFields DEF Jobs
  <2>2. /\ jobs[a].pc = "gate" /\ jobs[a].kind \in {"unban", "freeze"}
        /\ jobs' = [jobs EXCEPT ![a] = job] /\ UNCHANGED <<writes, audit, overlay>>
    BY <1>5 DEF PostUnban, PostFreeze, Set, logVars
  <2>3. SetAside(a, job)
    BY <2>1, <2>2 DEF SetAside
  <2>4. redisBans' \subseteq Targets /\ frozen' \in BOOLEAN
    BY <1>1, <1>5 DEF PostUnban, PostFreeze, Jobs
  <2> HIDE DEF job
  <2> QED
    BY <1>5, <2>1, <2>2, <2>3, <2>4 DEF PostUnban, PostFreeze, logVars, banVars, ModStep, Aside
<1>6. CASE StartSync(a)
  <2> DEFINE job == [Idle EXCEPT !.pc = "sync", !.kind = "sync", !.mods = twitch]
  <2>1. job \in Jobs /\ job.pc = "sync" /\ job.kind = "sync"
    BY <1>1 DEF Jobs, Kinds, Idle
  <2>2. jobs' = [jobs EXCEPT ![a] = job] /\ UNCHANGED <<writes, audit, overlay>>
    BY <1>6 DEF StartSync, Set, logVars
  <2> HIDE DEF job
  <2>3. SetAside(a, job)
    BY <2>1, <2>2 DEF SetAside
  <2> QED
    BY <1>6, <2>1, <2>2, <2>3 DEF StartSync, logVars, banVars, gateVars, ModStep, Aside
<1>7. CASE ApplySync(a)
  <2>6. jobs[a].kind = "sync"
    BY <1>7 DEF ApplySync, EntriesOwned
  <2> DEFINE e == AuditRow(a, jobs[a], 0)
  <2>1. e \in Entries /\ e.action = "sync" /\ e.head = durable /\ e.applied = 0
    BY <1>1, <2>6, StepTypes DEF AuditRow
  <2>2. Idle.pc = "idle" /\ Idle.kind = "none"
    BY DEF Idle
  <2>3. audit' = Append(audit, e) /\ jobs' = [jobs EXCEPT ![a] = Idle]
    BY <1>7 DEF ApplySync, Set
  <2>4. roster' \subseteq Delegates
    BY <1>1, <1>7 DEF ApplySync, Jobs
  <2> HIDE DEF e
  <2>5. Opens(a, e, Idle)
    BY <1>1, <1>7, <2>1, <2>2, <2>3 DEF Opens, ApplySync, logVars
  <2> QED
    BY <1>1, <1>2, <1>7, <2>1, <2>4, <2>5 DEF ApplySync, logVars, gateVars, banVars
<1> QED
  BY <1>3, <1>4, <1>5, <1>6, <1>7

\* The prepare transactions of the removals plan from the log as drained so far.
LEMMA RemovalSteps ==
  ASSUME ModTypes, WipesAim, NEW a \in Actors, PrepareBanWipe(a) \/ PrepareDelete(a) \/ PrepareGroupDelete(a)
  PROVE  ModTypes' /\ ModStep
<1>1. jobs[a] \in Jobs /\ writes \in Seq(Writes) /\ durable \in 0..Len(writes)
  BY DEF ModTypes
<1>2. PICK kind \in Kinds, plans \in SUBSET Plans :
        /\ IsRemoval(kind) /\ Prepare(a, kind, plans) /\ PlansFit(durable, plans)
        /\ kind = "ban_wipe" => plans = PlanWipe(durable, jobs[a].user)
  <2>1. CASE PrepareBanWipe(a)
    <3>1. Prepare(a, "ban_wipe", PlanWipe(durable, jobs[a].user))
      BY <2>1 DEF PrepareBanWipe
    <3>2. jobs[a].user \in Viewers
      BY <3>1 DEF Prepare, WipesAim
    <3>3. PlansFit(durable, PlanWipe(durable, jobs[a].user))
      BY <1>1, <3>2, WipePlans
    <3>4. PlanWipe(durable, jobs[a].user) \in SUBSET Plans
      BY <3>3 DEF PlansFit
    <3> QED
      BY <3>1, <3>3, <3>4 DEF IsRemoval, Kinds, Rewrites
  <2>2. ASSUME NEW kind \in {"delete", "group"}, NEW targets \in SUBSET Cells,
               Prepare(a, kind, PlanDelete(durable, targets))
        PROVE  \E plans \in SUBSET Plans :
                 /\ IsRemoval(kind) /\ Prepare(a, kind, plans) /\ PlansFit(durable, plans)
                 /\ kind = "ban_wipe" => plans = PlanWipe(durable, jobs[a].user)
    <3>1. PlansFit(durable, PlanDelete(durable, targets))
      BY <1>1, DeletePlans
    <3>2. PlanDelete(durable, targets) \in SUBSET Plans
      BY <3>1 DEF PlansFit
    <3> QED
      BY <2>2, <3>1, <3>2 DEF IsRemoval
  <2>3. CASE PrepareDelete(a)
    <3>1. Prepare(a, "delete", PlanDelete(durable, jobs[a].cells))
      BY <2>3 DEF PrepareDelete
    <3>2. jobs[a].cells \in SUBSET Cells
      BY <1>1 DEF Jobs
    <3> QED
      BY <2>2, <3>1, <3>2 DEF Kinds, Rewrites
  <2>4. CASE PrepareGroupDelete(a)
    <3> DEFINE targets == UNION {GroupCellsAt(durable, c) : c \in jobs[a].cells}
    <3>1. Prepare(a, "group", PlanDelete(durable, targets))
      BY <2>4 DEF PrepareGroupDelete
    <3>2. \A c : GroupCellsAt(durable, c) \subseteq Cells
      BY DEF GroupCellsAt
    <3>3. targets \in SUBSET Cells
      BY <3>2
    <3> HIDE DEF targets
    <3> QED
      BY <2>2, <3>1, <3>3 DEF Kinds, Rewrites
  <2> QED
    BY <2>1, <2>3, <2>4
<1>3. plans \in SUBSET Plans
  BY <1>2 DEF PlansFit
<1>4. Removes(a, kind, plans)
  BY <1>2 DEF Removes
<1>5. /\ audit' \in Seq(Entries) /\ overlay' \subseteq Removed /\ IsFiniteSet(overlay')
      /\ jobs' \in [Actors -> Jobs]
  BY <1>2, PrepareTypes
<1>6. bans' \subseteq Targets
  BY <1>1 DEF PrepareBanWipe, PrepareDelete, PrepareGroupDelete, ModTypes, Jobs
<1>7. UNCHANGED <<logVars, gateVars, open, twitch, roster, faults>>
  BY <1>2 DEF Prepare
<1>8. ModTypes'
  BY <1>5, <1>6, <1>7 DEF ModTypes, logVars, gateVars
<1> QED
  BY <1>3, <1>4, <1>8 DEF ModStep

\* The other steps of a rewriting action.
LEMMA RewriteSteps ==
  ASSUME ModTypes, EntriesOwned, NEW a \in Actors, PrepareRestore(a) \/ Dispatch(a) \/ Finalize(a)
  PROVE  ModTypes' /\ ModStep
<1>1. ModStep
  BY DEF ModStep
<1>2. CASE PrepareRestore(a)
  <2>1. /\ audit' \in Seq(Entries) /\ overlay' \subseteq Removed /\ IsFiniteSet(overlay')
        /\ jobs' \in [Actors -> Jobs]
    BY <1>2, PrepareRestoreTypes
  <2>2. UNCHANGED <<logVars, gateVars, banVars, twitch, roster, faults>>
    BY <1>2 DEF PrepareRestore
  <2> QED
    BY <1>1, <2>1, <2>2 DEF ModTypes, logVars, gateVars, banVars
<1>3. CASE Dispatch(a)
  <2>1. /\ audit' \in Seq(Entries) /\ jobs' \in [Actors -> Jobs] /\ faults' \in Nat
        /\ Len(writes') >= Len(writes) /\ Len(writes') \in Nat
    BY <1>3, DispatchTypes
  <2>2. writes' \in Seq(Writes)
    BY <1>3, DispatchIs, Zenon
  <2>3. UNCHANGED <<scenario, durable, now, gateVars, banVars, overlay, twitch, roster>>
    BY <1>3 DEF Dispatch
  <2>4. durable' \in 0..Len(writes')
    BY <2>1, <2>3 DEF ModTypes
  <2> QED
    BY <1>1, <2>1, <2>2, <2>3, <2>4 DEF ModTypes, gateVars, banVars
<1>4. CASE Finalize(a)
  <2>1. /\ audit' \in Seq(Entries) /\ overlay' \subseteq Removed /\ IsFiniteSet(overlay')
        /\ jobs' \in [Actors -> Jobs]
    BY <1>4, FinalizeTypes
  <2>2. UNCHANGED <<logVars, gateVars, banVars, twitch, roster, faults>>
    BY <1>4 DEF Finalize
  <2> QED
    BY <1>1, <2>1, <2>2 DEF ModTypes, logVars, gateVars, banVars
<1> QED
  BY <1>2, <1>3, <1>4

\* Every step is of one of the kinds and keeps the types.
LEMMA StepsAreOfAKind ==
  ASSUME ModTypes, EntriesOwned, WipesAim, [ModNext]_modVars
  PROVE  ModTypes' /\ ModStep
<1>1. ASSUME NEW a \in Actors,
             \/ \E u \in Viewers : BanAndWipe(a, u)
             \/ \E cs \in SUBSET Cells \ {{}} : DeletePixels(a, cs)
             \/ \E c \in Cells : DeleteGroupAt(a, c)
             \/ \E action \in DOMAIN audit : Restore(a, action)
      PROVE  ModTypes' /\ ModStep
  BY <1>1, StartSteps, Zenon
<1>2. ASSUME NEW a \in Actors, PrepareDenied(a) \/ DispatchFails(a) \/ PostGateFails(a)
      PROVE  ModTypes' /\ ModStep
  BY <1>2, StopSteps, Zenon
<1>3. ASSUME NEW a \in Actors,
             \/ \E u \in Viewers : Unban(a, u)
             \/ \E on \in BOOLEAN : Freeze(a, on)
             \/ PostUnban(a) \/ PostFreeze(a) \/ StartSync(a) \/ ApplySync(a)
      PROVE  ModTypes' /\ ModStep
  BY <1>3, GateSteps, Zenon
<1>4. ASSUME NEW a \in Actors,
             \/ PrepareBanWipe(a) \/ PrepareDelete(a) \/ PrepareGroupDelete(a)
             \/ PrepareRestore(a) \/ Dispatch(a) \/ Finalize(a)
      PROVE  ModTypes' /\ ModStep
  BY <1>4, RemovalSteps, RewriteSteps, Zenon
<1>5. CASE \/ \E u \in Viewers, c \in Cells, color \in Colors : Place(u, c, color)
           \/ Drain \/ Tick \/ TwitchEdits \/ (\E on \in BOOLEAN : SetPlacementOpen(on))
           \/ UNCHANGED modVars
  BY <1>5, LogSteps, Zenon
<1> QED
  BY <1>1, <1>2, <1>3, <1>4, <1>5, Zenon DEF ModNext
-----------------------------------------------------------------------------
(***************************************************************************)
(* Steps that touch no row.                                                *)
(***************************************************************************)

\* The log only grows, and so does the journal; what is there stays as it is, but for the
\* outcome of an entry.
Grown ==
  /\ writes \in Seq(Writes) /\ Len(writes) \in Nat /\ Len(writes') \in Nat
  /\ Len(writes) <= Len(writes')
  /\ \A i \in 1..Len(writes) : writes'[i] = writes[i]

\* What a prefix of the log shows does not change.
LEMMA PrefixKeeps ==
  ASSUME Grown, NEW n \in Nat, n <= Len(writes)
  PROVE  /\ \A v \in Nat : \A c : Clear(v, n, c)' <=> Clear(v, n, c)
         /\ \A v : Shows(n, v)' <=> Shows(n, v)
<1>1. \A v \in Nat : \A i \in (v + 1)..n : writes'[i] = writes[i]
  BY DEF Grown
<1>2. \A i \in 1..n : writes'[i] = writes[i]
  BY DEF Grown
<1> QED
  BY <1>1, <1>2 DEF Clear, Shows

\* The new writes are viewers', the new entries rewrite nothing.
QuietStep ==
  /\ Grown /\ \A i \in (Len(writes) + 1)..Len(writes') : writes'[i].by = 0
  /\ Len(audit) \in Nat /\ Len(audit') \in Nat /\ Len(audit) <= Len(audit')
  /\ \A id \in 1..Len(audit) : audit'[id] = audit[id]
  /\ \A id \in (Len(audit) + 1)..Len(audit') :
       audit'[id].action \in {"unban", "freeze", "sync"} /\ audit'[id].head \in 0..Len(writes)
  /\ overlay' = overlay

\* A step that rewrites nothing leaves all that was recorded about the rewrites true.
LEMMA QuietLog ==
  ASSUME ModTypes, LogFits, QuietStep
  PROVE  LogFits'
<1>1. Grown /\ overlay' = overlay
  BY DEF QuietStep
<1>2. \A id \in 1..Len(audit) : audit[id] \in Entries
  BY DEF ModTypes
<1>3. \A id \in 1..Len(audit) : audit'[id] = audit[id] /\ audit[id].head \in Nat /\ audit[id].head <= Len(writes)
  BY <1>2 DEF QuietStep, LogFits, HeadsBehind, Entries
<1>4. HeadsBehind'
  <2> SUFFICES ASSUME NEW id \in 1..Len(audit') PROVE audit'[id].head <= Len(writes')
    BY DEF HeadsBehind
  <2>1. CASE id \in 1..Len(audit)
    BY <1>3, <2>1 DEF QuietStep, Grown
  <2>2. CASE id \in (Len(audit) + 1)..Len(audit')
    BY <2>2 DEF QuietStep, Grown
  <2> QED
    BY <2>1, <2>2 DEF QuietStep
<1>5. ASSUME NEW o \in overlay PROVE RowFits(o)'
  <2>1. RowFits(o)
    BY DEF LogFits
  <2>2. o.action \in 1..Len(audit) /\ o.action \in 1..Len(audit') /\ audit'[o.action] = audit[o.action]
    BY <2>1 DEF RowFits, QuietStep
  <2>3. PICK n \in Nat : n = audit[o.action].head /\ n <= Len(writes)
    BY <1>3, <2>2
  <2>4. Shows(n, o.version) /\ Shows(n, o.version)'
    BY <1>1, <2>1, <2>3, PrefixKeeps DEF RowFits
  <2>5. o.version \in 1..Len(writes) /\ writes'[o.version] = writes[o.version]
    BY <1>1, <2>3, <2>4 DEF Shows, Grown
  <2>6. o.restored <= Len(audit')
    <3>1. o.restored \in Nat
      BY DEF ModTypes, Removed
    <3> QED
      BY <2>1, <3>1 DEF RowFits, QuietStep
  <2>7. audit[o.action].applied # 0 =>
          \E i \in 1..Len(writes') : /\ writes'[i].by = o.action /\ writes'[i].cell = o.cell
                                     /\ audit[o.action].head < i /\ i <= audit[o.action].applied
    <3> SUFFICES ASSUME audit[o.action].applied # 0
                 PROVE  \E i \in 1..Len(writes') :
                          /\ writes'[i].by = o.action /\ writes'[i].cell = o.cell
                          /\ audit[o.action].head < i /\ i <= audit[o.action].applied
      OBVIOUS
    <3>1. PICK i \in 1..Len(writes) : /\ writes[i].by = o.action /\ writes[i].cell = o.cell
                                      /\ audit[o.action].head < i /\ i <= audit[o.action].applied
      BY <2>1 DEF RowFits
    <3>2. i \in 1..Len(writes') /\ writes'[i] = writes[i]
      BY <1>1 DEF Grown
    <3> QED
      BY <3>1, <3>2
  <2>8. Shows(audit[o.action].head, o.version)' /\ writes'[o.version].cell = o.cell
    BY <2>1, <2>2, <2>3, <2>4, <2>5 DEF RowFits
  <2>9. /\ IsRemoval(audit'[o.action].action) /\ audit'[o.action].detail # "no_cells"
        /\ o.overwrite # 0 => o.overwrite = audit'[o.action].applied
    BY <2>1, <2>2 DEF RowFits
  <2>10. audit'[o.action].applied # 0 =>
           \E i \in 1..Len(writes') : /\ writes'[i].by = o.action /\ writes'[i].cell = o.cell
                                      /\ audit'[o.action].head < i /\ i <= audit'[o.action].applied
    BY <2>2, <2>7
  <2> QED
    BY <2>2, <2>6, <2>8, <2>9, <2>10 DEF RowFits
<1>6. OneRowEach'
  BY <1>1 DEF LogFits, OneRowEach
<1>7. ASSUME NEW i \in 1..Len(writes') PROVE WriteFits(i)'
  <2>1. CASE i \in (Len(writes) + 1)..Len(writes')
    BY <2>1 DEF QuietStep, WriteFits
  <2>2. CASE i \in 1..Len(writes)
    <3>1. SUFFICES ASSUME writes[i].by # 0 PROVE WriteFits(i)'
      BY <1>1, <2>2 DEF WriteFits, Grown
    <3>2. WriteFits(i) /\ writes'[i] = writes[i] /\ writes[i] \in Writes
      BY <1>1, <2>2 DEF LogFits, Grown, ModTypes
    <3>3. writes[i].by \in 1..Len(audit)
      BY <3>1, <3>2 DEF WriteFits, Writes, QuietStep
    <3>4. audit'[writes[i].by] = audit[writes[i].by] /\ writes[i].by <= Len(audit')
      BY <3>3 DEF QuietStep
    <3>5. PICK n \in Nat : n = i - 1 /\ n <= Len(writes)
      BY <1>1, <2>2 DEF Grown
    <3>6. \A v \in Nat : \A c : Clear(v, n, c)' <=> Clear(v, n, c)
      BY <1>1, <3>5, PrefixKeeps
    <3>7. audit[writes[i].by].head \in Nat
      BY <1>3, <3>3
    <3>8. \A o \in overlay : o.version \in Nat
      BY DEF ModTypes, Removed
    <3> QED
      BY <1>1, <3>1, <3>2, <3>3, <3>4, <3>5, <3>6, <3>7, <3>8 DEF WriteFits
  <2> QED
    BY <1>1, <2>1, <2>2 DEF Grown
<1>8. WrittenOnce'
  <2> SUFFICES ASSUME NEW i \in 1..Len(writes'), NEW j \in 1..Len(writes'),
                      writes'[i].by # 0, writes'[i].by = writes'[j].by, writes'[i].cell = writes'[j].cell
               PROVE  i = j
    BY DEF WrittenOnce
  <2>1. i \in 1..Len(writes) /\ j \in 1..Len(writes)
    BY DEF QuietStep, Grown
  <2> QED
    BY <1>1, <2>1 DEF LogFits, WrittenOnce, Grown
<1>9. WipeSees'
  <2> SUFFICES ASSUME NEW id \in 1..Len(audit'), audit'[id].action = "ban_wipe",
                      NEW v \in 1..audit'[id].head,
                      writes'[v].user = audit'[id].target, writes'[v].color # 0,
                      Shows(audit[id].head, v)'
               PROVE  \E o \in overlay : o.action = id /\ o.version = v
    BY <1>1 DEF WipeSees
  <2>1. id \in 1..Len(audit)
    BY DEF QuietStep
  <2>2. PICK n \in Nat : n = audit[id].head /\ n <= Len(writes) /\ audit'[id] = audit[id]
    BY <1>3, <2>1
  <2>5. Shows(n, v)'
    BY <2>2 DEF Shows, Clear
  <2>3. Shows(n, v)
    BY <1>1, <2>2, <2>5, PrefixKeeps
  <2>4. writes'[v] = writes[v]
    BY <1>1, <2>2 DEF Grown
  <2> QED
    BY <2>1, <2>2, <2>3, <2>4 DEF LogFits, WipeSees
<1> QED
  BY <1>1, <1>4, <1>5, <1>6, <1>7, <1>8, <1>9 DEF LogFits

\* Every row is still there, with what has been marked on it; no row is added under id.
Carries ==
  \A o \in overlay : \E p \in overlay' :
    /\ p.action = o.action /\ p.cell = o.cell /\ p.version = o.version
    /\ o.restored # 0 => p.restored = o.restored
NoneAdded(id) == \A p \in overlay' : p.action = id => \E o \in overlay : o.action = id /\ o.cell = p.cell

\* A step that leaves an actor's job, entry and rows alone, and writes nothing for it.
Bystands(b) ==
  /\ jobs'[b] = jobs[b]
  /\ Journaled(b) =>
       /\ audit'[jobs[b].audit] = audit[jobs[b].audit]
       /\ \A i \in (Len(writes) + 1)..Len(writes') : writes'[i].by # jobs[b].audit
       /\ NoneAdded(jobs[b].audit)

\* What an actor has under way is not disturbed by a step that leaves it alone.
LEMMA BystandersKeep ==
  ASSUME EntriesOwned, ActorsFit, Grown, Carries, NEW b \in Actors, Bystands(b)
  PROVE  Undispatched(b)' /\ BatchFits(b)' /\ StampFits(b)'
<1>1. Undispatched(b) /\ BatchFits(b) /\ StampFits(b)
  BY DEF ActorsFit
<1>2. PICK job : job = jobs[b]
  OBVIOUS
<1>3. jobs'[b] = job
  BY <1>2 DEF Bystands
<1>4. ASSUME job.pc \in {"gate", "dispatch", "finalize"}
      PROVE  /\ job.audit \in 1..Len(audit) /\ audit'[job.audit] = audit[job.audit]
             /\ \A i \in (Len(writes) + 1)..Len(writes') : writes'[i].by # job.audit
             /\ NoneAdded(job.audit)
  BY <1>2, <1>4 DEF Bystands, EntriesOwned, Journaled
<1>5. Undispatched(b)'
  <2> SUFFICES ASSUME job.pc = "dispatch"
      PROVE  /\ job.kind \in Rewrites
             /\ audit'[job.audit].applied = 0 /\ audit'[job.audit].detail = "dispatch_pending"
             /\ audit'[job.audit].ref = job.ref
             /\ \A i \in 1..Len(writes') : writes'[i].by # job.audit
    BY <1>3 DEF Undispatched
  <2>1. \A i \in 1..Len(writes') : i \in 1..Len(writes) \/ i \in (Len(writes) + 1)..Len(writes')
    BY DEF Grown
  <2> QED
    BY <1>1, <1>2, <1>4, <2>1 DEF Undispatched, Grown
<1>6. BatchFits(b)'
  <2>1. ASSUME job.pc \in {"dispatch", "finalize"}, IsRemoval(job.kind)
        PROVE  /\ \A o \in overlay' : o.action = job.audit => o.cell \in DOMAIN job.batch
               /\ \A c \in DOMAIN job.batch : \E o \in overlay' : o.action = job.audit /\ o.cell = c
    <3>1. /\ \A o \in overlay : o.action = job.audit => o.cell \in DOMAIN job.batch
          /\ \A c \in DOMAIN job.batch : \E o \in overlay : o.action = job.audit /\ o.cell = c
      BY <1>1, <1>2, <2>1 DEF BatchFits
    <3> QED
      BY <1>4, <2>1, <3>1 DEF NoneAdded, Carries
  <2>2. ASSUME job.pc = "dispatch", job.kind = "restore", NEW c \in DOMAIN job.batch
        PROVE  \E o \in overlay' : o.action = job.ref /\ o.cell = c /\ o.restored = job.audit
    <3>1. PICK o \in overlay : o.action = job.ref /\ o.cell = c /\ o.restored = job.audit
      BY <1>1, <1>2, <2>2 DEF BatchFits
    <3>2. job.audit # 0
      BY <1>4, <2>2
    <3> QED
      BY <3>1, <3>2 DEF Carries
  <2> QED
    BY <1>3, <2>1, <2>2 DEF BatchFits, IsRemoval
<1>7. StampFits(b)'
  BY <1>1, <1>2, <1>3, <1>4 DEF StampFits
<1> QED
  BY <1>5, <1>6, <1>7

\* What an actor needs that is not journaled, or whose entry rewrites nothing: nothing.
LEMMA FreeActors ==
  ASSUME NEW a,
         \/ jobs'[a].pc \in {"idle", "prepare", "sync"}
         \/ /\ jobs'[a].pc \in {"gate", "finalize"} /\ jobs'[a].kind \in {"unban", "freeze"}
            /\ StampFits(a)'
  PROVE  Undispatched(a)' /\ BatchFits(a)' /\ StampFits(a)'
BY DEF Undispatched, BatchFits, StampFits, IsRemoval

\* If the rows stay, every one is carried and none added.
LEMMA SameRowsCarry == overlay' = overlay => Carries /\ \A id : NoneAdded(id)
BY DEF Carries, NoneAdded

\* The starts, the failures and the gate posts disturb nothing.
LEMMA AsideKeeps ==
  ASSUME ModTypes, ModTypes', EntriesOwned, WipesAim, LogFits, ActorsFit, Aside
  PROVE  EntriesOwned' /\ WipesAim' /\ LogFits' /\ ActorsFit'
<1>1. writes' = writes /\ audit' = audit /\ overlay' = overlay
  BY DEF Aside
<1>2. writes \in Seq(Writes) /\ audit \in Seq(Entries) /\ jobs \in [Actors -> Jobs]
  BY DEF ModTypes
<1>3. Grown
  BY <1>1, <1>2 DEF Grown
<1>4. QuietStep
  BY <1>1, <1>2, <1>3 DEF QuietStep
<1>5. LogFits'
  BY <1>4, QuietLog
<1>6. Carries /\ \A id : NoneAdded(id)
  BY <1>1, SameRowsCarry
<1>7. ASSUME NEW b \in Actors, jobs'[b] = jobs[b]
      PROVE  Undispatched(b)' /\ BatchFits(b)' /\ StampFits(b)'
  <2>1. Bystands(b)
    BY <1>1, <1>3, <1>6, <1>7 DEF Bystands, Grown
  <2> QED
    BY <1>3, <1>6, <2>1, BystandersKeep
<1>8. CASE UNCHANGED jobs
  BY <1>1, <1>5, <1>7, <1>8 DEF EntriesOwned, Journaled, WipesAim, ActorsFit
<1>9. ASSUME NEW a \in Actors, NEW job \in Jobs, SetAside(a, job)
      PROVE  EntriesOwned' /\ WipesAim' /\ ActorsFit'
  <2>1. jobs'[a] = job /\ \A b \in Actors : b # a => jobs'[b] = jobs[b]
    BY <1>2, <1>9 DEF SetAside
  <2>2. CASE job.pc \in {"idle", "prepare"} \/ (job.pc = "sync" /\ job.kind = "sync")
    <3>1. EntriesOwned'
      BY <1>1, <2>1, <2>2 DEF EntriesOwned, Journaled
    <3>2. Undispatched(a)' /\ BatchFits(a)' /\ StampFits(a)'
      BY <2>1, <2>2, FreeActors
    <3> QED
      BY <1>1, <1>7, <1>9, <2>1, <3>1, <3>2 DEF ActorsFit, WipesAim, SetAside
  <2>3. CASE /\ jobs[a].pc = "gate" /\ jobs[a].kind \in {"unban", "freeze"}
             /\ job = [jobs[a] EXCEPT !.pc = "finalize"]
    <3>5. jobs[a] \in Jobs
      BY <1>2
    <3>1. /\ job.pc = "finalize" /\ job.kind = jobs[a].kind /\ job.audit = jobs[a].audit
          /\ job.version = jobs[a].version
      BY <2>3, <3>5 DEF Jobs
    <3>6. \A b \in Actors :
            /\ jobs'[b].pc \in {"gate", "dispatch", "finalize"} => jobs[b].pc \in {"gate", "dispatch", "finalize"}
            /\ jobs'[b].kind = jobs[b].kind /\ jobs'[b].audit = jobs[b].audit
            /\ jobs'[b].pc = "sync" => jobs[b].pc = "sync"
      BY <2>1, <2>3, <3>1
    <3>2. EntriesOwned'
      BY <1>1, <3>6 DEF EntriesOwned, Journaled
    <3>3. StampFits(a)'
      BY <1>1, <2>1, <2>3, <3>1 DEF StampFits, ActorsFit
    <3>4. Undispatched(a)' /\ BatchFits(a)' /\ StampFits(a)'
      BY <2>1, <2>3, <3>1, <3>3, FreeActors
    <3> QED
      BY <1>1, <1>7, <1>9, <2>1, <3>2, <3>4 DEF ActorsFit, WipesAim, SetAside
  <2>4. \/ job.pc \in {"idle", "prepare"} \/ (job.pc = "sync" /\ job.kind = "sync")
        \/ /\ jobs[a].pc = "gate" /\ jobs[a].kind \in {"unban", "freeze"}
           /\ job = [jobs[a] EXCEPT !.pc = "finalize"]
    BY <1>9, Zenon DEF SetAside
  <2> QED
    BY <2>2, <2>3, <2>4
<1> QED
  BY <1>5, <1>8, <1>9 DEF Aside

\* A viewer's placement disturbs nothing (place.lua).
LEMMA PlacingKeeps ==
  ASSUME ModTypes, ModTypes', EntriesOwned, WipesAim, LogFits, ActorsFit, NEW row \in Writes, Placing(row)
  PROVE  EntriesOwned' /\ WipesAim' /\ LogFits' /\ ActorsFit'
<1>1. audit' = audit /\ overlay' = overlay /\ jobs' = jobs /\ writes' = Append(writes, row) /\ row.by = 0
  BY DEF Placing
<1>2. writes \in Seq(Writes) /\ audit \in Seq(Entries)
  BY DEF ModTypes
<1>3. /\ Len(writes') = Len(writes) + 1 /\ writes'[Len(writes) + 1] = row
      /\ \A i \in 1..Len(writes) : writes'[i] = writes[i]
  BY <1>1, <1>2, AppendProperties
<1>4. Grown /\ \A i \in (Len(writes) + 1)..Len(writes') : writes'[i].by = 0
  BY <1>1, <1>2, <1>3 DEF Grown
<1>5. QuietStep
  BY <1>1, <1>2, <1>4 DEF QuietStep
<1>6. Carries /\ \A id : NoneAdded(id)
  BY <1>1, SameRowsCarry
<1>7. ASSUME NEW b \in Actors PROVE Undispatched(b)' /\ BatchFits(b)' /\ StampFits(b)'
  <2>1. Bystands(b)
    BY <1>1, <1>4, <1>6 DEF Bystands, EntriesOwned
  <2> QED
    BY <1>4, <1>6, <2>1, BystandersKeep
<1> QED
  BY <1>1, <1>5, <1>7, QuietLog DEF EntriesOwned, Journaled, WipesAim, ActorsFit

\* Nor does journaling an unban, a freeze or a sync.
LEMMA OpensKeeps ==
  ASSUME ModTypes, ModTypes', EntriesOwned, WipesAim, LogFits, ActorsFit,
         NEW a \in Actors, NEW e \in Entries, NEW job \in Jobs, Opens(a, e, job)
  PROVE  EntriesOwned' /\ WipesAim' /\ LogFits' /\ ActorsFit'
<1>1. writes' = writes /\ overlay' = overlay /\ audit' = Append(audit, e)
  BY DEF Opens
<1>2. writes \in Seq(Writes) /\ Len(audit) \in Nat /\ jobs \in [Actors -> Jobs] /\ durable \in 0..Len(writes)
  BY DEF ModTypes
<1>3. /\ Len(audit') = Len(audit) + 1 /\ audit'[Len(audit) + 1] = e
      /\ \A id \in 1..Len(audit) : audit'[id] = audit[id]
  BY <1>1, JournalTypes
<1>4. Grown
  BY <1>1, <1>2 DEF Grown
<1>5. QuietStep
  BY <1>1, <1>2, <1>3, <1>4 DEF QuietStep, Opens
<1>6. Carries /\ \A id : NoneAdded(id)
  BY <1>1, SameRowsCarry
<1>7. jobs'[a] = job /\ \A b \in Actors : b # a => jobs'[b] = jobs[b]
  BY <1>2 DEF Opens
<1>8. ASSUME NEW b \in Actors, b # a PROVE Undispatched(b)' /\ BatchFits(b)' /\ StampFits(b)'
  <2>1. Bystands(b)
    BY <1>1, <1>2, <1>3, <1>6, <1>7, <1>8 DEF Bystands, EntriesOwned
  <2> QED
    BY <1>4, <1>6, <2>1, BystandersKeep
<1>9. StampFits(a)'
  BY <1>7 DEF StampFits, Opens
<1>10. Undispatched(a)' /\ BatchFits(a)' /\ StampFits(a)'
  BY <1>7, <1>9, FreeActors DEF Opens
<1>11. EntriesOwned'
  <2>1. \A b \in Actors : b # a /\ Journaled(b)' => Journaled(b) /\ jobs'[b].audit \in 1..Len(audit)
    BY <1>7 DEF Journaled, EntriesOwned
  <2>2. Journaled(a)' => job.pc = "gate" /\ job.audit = Len(audit) + 1 /\ job.kind = e.action
    BY <1>7 DEF Journaled, Opens
  <2> QED
    BY <1>2, <1>3, <1>7, <2>1, <2>2 DEF EntriesOwned, Opens
<1>12. WipesAim'
  BY <1>2, <1>3, <1>7 DEF WipesAim, Opens
<1> QED
  BY <1>5, <1>8, <1>10, <1>11, <1>12, QuietLog DEF ActorsFit
-----------------------------------------------------------------------------
(***************************************************************************)
(* The prepare transactions.                                               *)
(***************************************************************************)

\* A rewriting action is journaled, decided from the log as drained so far; its actor
\* goes on to the dispatch.
Journals(a, e, job) ==
  /\ jobs[a].pc = "prepare" /\ jobs[a].kind \in Rewrites
  /\ e \in Entries /\ e.action = jobs[a].kind /\ e.target = jobs[a].user /\ e.ref = jobs[a].ref
  /\ e.head = durable /\ e.applied = 0 /\ e.detail = "dispatch_pending"
  /\ job \in Jobs /\ job.pc = "dispatch" /\ job.kind = jobs[a].kind /\ job.user = jobs[a].user
  /\ job.ref = jobs[a].ref /\ job.audit = Len(audit) + 1
  /\ writes' = writes /\ audit' = Append(audit, e) /\ jobs' = [jobs EXCEPT ![a] = job]

\* What the log shows stays shown, whatever the journal says.
LEMMA SameLog ==
  ASSUME writes' = writes
  PROVE  /\ \A n, v : Shows(n, v)' <=> Shows(n, v)
         /\ \A v, n, c : Clear(v, n, c)' <=> Clear(v, n, c)
BY DEF Shows, Clear

\* Journaling an action disturbs no earlier one, nor any row or write of one
\* (the prepare mutations of apps/convex/convex/moderation.ts).
LEMMA JournalsKeep ==
  ASSUME ModTypes, EntriesOwned, WipesAim, LogFits, ActorsFit, Carries,
         NEW a \in Actors, NEW e, NEW job, Journals(a, e, job),
         \A id \in 1..Len(audit) : NoneAdded(id)
  PROVE  /\ EntriesOwned' /\ WipesAim' /\ HeadsBehind' /\ WrittenOnce'
         /\ \A i \in 1..Len(writes') : WriteFits(i)'
         /\ Undispatched(a)' /\ StampFits(a)'
         /\ \A b \in Actors : b # a => Undispatched(b)' /\ BatchFits(b)' /\ StampFits(b)'
<1>1. writes' = writes /\ audit' = Append(audit, e) /\ e \in Entries
  BY DEF Journals
<1>2. /\ writes \in Seq(Writes) /\ Len(writes) \in Nat /\ Len(audit) \in Nat
      /\ jobs \in [Actors -> Jobs] /\ durable \in 0..Len(writes)
  BY DEF ModTypes
<1>3. /\ Len(audit') = Len(audit) + 1 /\ audit'[Len(audit) + 1] = e
      /\ \A id \in 1..Len(audit) : audit'[id] = audit[id]
  BY <1>1, JournalTypes
<1>4. jobs'[a] = job /\ \A b \in Actors : b # a => jobs'[b] = jobs[b]
  BY <1>2 DEF Journals
<1>5. Grown
  BY <1>1, <1>2 DEF Grown
<1>6. ASSUME NEW b \in Actors, b # a PROVE Undispatched(b)' /\ BatchFits(b)' /\ StampFits(b)'
  <2>1. Bystands(b)
    BY <1>1, <1>2, <1>3, <1>4, <1>6 DEF Bystands, EntriesOwned
  <2> QED
    BY <1>5, <2>1, BystandersKeep
<1>7. \A i \in 1..Len(writes) : writes[i].by <= Len(audit)
  <2> SUFFICES ASSUME NEW i \in 1..Len(writes) PROVE writes[i].by <= Len(audit)
    OBVIOUS
  <2>1. WriteFits(i)
    BY DEF LogFits
  <2> QED
    BY <1>2, <2>1 DEF WriteFits
<1>8. Undispatched(a)'
  <2>1. job.audit = Len(audit) + 1 /\ job.kind \in Rewrites /\ job.ref = e.ref
        /\ e.applied = 0 /\ e.detail = "dispatch_pending"
    BY DEF Journals
  <2>2. \A i \in 1..Len(writes) : writes[i].by # Len(audit) + 1
    <3> SUFFICES ASSUME NEW i \in 1..Len(writes), writes[i].by = Len(audit) + 1 PROVE FALSE
      OBVIOUS
    <3> QED
      BY <1>2, <1>7
  <2> QED
    BY <1>1, <1>3, <1>4, <2>1, <2>2 DEF Undispatched
<1>9. StampFits(a)'
  BY <1>4 DEF StampFits, Journals
<1>10. EntriesOwned'
  <2>1. \A b \in Actors : b # a /\ Journaled(b)' => Journaled(b) /\ jobs'[b].audit \in 1..Len(audit)
    BY <1>4 DEF Journaled, EntriesOwned
  <2>2. job.audit = Len(audit) + 1 /\ job.kind = e.action /\ job.pc = "dispatch"
    BY DEF Journals
  <2> QED
    BY <1>2, <1>3, <1>4, <2>1, <2>2 DEF EntriesOwned
<1>11. WipesAim'
  <2>1. job.kind = jobs[a].kind /\ job.user = jobs[a].user /\ e.action = jobs[a].kind /\ e.target = jobs[a].user
    BY DEF Journals
  <2> QED
    BY <1>2, <1>3, <1>4, <2>1 DEF WipesAim
<1>12. HeadsBehind' /\ WrittenOnce'
  BY <1>1, <1>2, <1>3 DEF LogFits, HeadsBehind, WrittenOnce, Journals
<1>13. ASSUME NEW i \in 1..Len(writes') PROVE WriteFits(i)'
  <2>1. SUFFICES ASSUME writes[i].by # 0 PROVE WriteFits(i)'
    BY <1>1 DEF WriteFits
  <2>2. WriteFits(i) /\ writes[i] \in Writes
    BY <1>1, <1>2 DEF LogFits
  <2>3. writes[i].by \in 1..Len(audit)
    BY <1>2, <2>1, <2>2 DEF WriteFits, Writes
  <2>4. audit'[writes[i].by] = audit[writes[i].by] /\ writes[i].by <= Len(audit')
    BY <1>2, <1>3, <2>3
  <2>5. \A v, n, c : Clear(v, n, c)' <=> Clear(v, n, c)
    BY <1>1, SameLog
  <2>6. ASSUME IsRemoval(audit[writes[i].by].action)
        PROVE  \E p \in overlay' :
                 /\ p.action = writes[i].by /\ p.cell = writes[i].cell
                 /\ audit[writes[i].by].head < i
                 /\ Clear(p.version, i - 1, p.cell) \/ ~Clear(audit[writes[i].by].head, i - 1, p.cell)
    BY <2>1, <2>2, <2>6 DEF WriteFits, Carries
  <2>7. ASSUME audit[writes[i].by].action = "restore"
        PROVE  \E p \in overlay' :
                 p.action = audit[writes[i].by].ref /\ p.cell = writes[i].cell /\ p.restored = writes[i].by
    BY <2>1, <2>2, <2>7 DEF WriteFits, Carries
  <2> QED
    BY <1>1, <2>1, <2>2, <2>4, <2>5, <2>6, <2>7 DEF WriteFits, IsRemoval
<1> QED
  BY <1>1, <1>6, <1>8, <1>9, <1>10, <1>11, <1>12, <1>13

\* A row there before still fits, with what a later restore has marked on it.
LEMMA RowsStayFit ==
  ASSUME ModTypes, LogFits, NEW a \in Actors, NEW e, NEW job, Journals(a, e, job),
         NEW o \in overlay, NEW p,
         p.action = o.action, p.cell = o.cell, p.version = o.version, p.overwrite = o.overwrite,
         p.restored <= Len(audit) + 1
  PROVE  RowFits(p)'
<1>1. writes' = writes /\ audit' = Append(audit, e) /\ e \in Entries
  BY DEF Journals
<1>2. Len(audit) \in Nat
  BY DEF ModTypes
<1>3. /\ Len(audit') = Len(audit) + 1
      /\ \A id \in 1..Len(audit) : audit'[id] = audit[id]
  BY <1>1, JournalTypes
<1>4. RowFits(o)
  BY DEF LogFits
<1>5. o.action \in 1..Len(audit) /\ audit'[o.action] = audit[o.action] /\ o.action \in 1..Len(audit')
  BY <1>2, <1>3, <1>4 DEF RowFits
<1>6. \A n, v : Shows(n, v)' <=> Shows(n, v)
  BY <1>1, SameLog
<1> QED
  BY <1>1, <1>3, <1>4, <1>5, <1>6 DEF RowFits

\* A removal records, once for each cell, the version it takes away, which is the one on
\* top of the log it was planned from; a wipe, all its target shows there.
LEMMA RemovesKeeps ==
  ASSUME ModTypes, EntriesOwned, WipesAim, LogFits, ActorsFit,
         NEW a \in Actors, NEW kind, NEW plans, Removes(a, kind, plans)
  PROVE  EntriesOwned' /\ WipesAim' /\ LogFits' /\ ActorsFit'
<1>1. /\ writes \in Seq(Writes) /\ Len(writes) \in Nat /\ Len(audit) \in Nat /\ durable \in 0..Len(writes)
      /\ jobs[a] \in Jobs /\ jobs \in [Actors -> Jobs]
  BY DEF ModTypes
<1>2. PlansFit(durable, plans) /\ Prepare(a, kind, plans) /\ IsRemoval(kind)
  BY DEF Removes
<1>3. PICK id \in Nat : id = Len(audit) + 1
  BY <1>1
<1>18. PICK e, job :
         /\ e = AuditRow(a, jobs[a], Cardinality(plans))
         /\ job = [jobs[a] EXCEPT !.pc = "dispatch", !.audit = Len(audit) + 1, !.batch = RemovalCells(plans)]
  OBVIOUS
<1> DEFINE rows == Removals(plans, id)
<1>4. /\ rows \subseteq Removed
      /\ \A o \in rows : /\ o.action = id /\ o.overwrite = 0 /\ o.restored = 0
                         /\ Shows(durable, o.version) /\ writes[o.version].cell = o.cell
      /\ \A o, q \in rows : o.cell = q.cell => o = q
      /\ \A p \in plans : \E o \in rows : o.cell = p.cell /\ o.version = p.version
      /\ \A o \in rows : \E p \in plans : o.cell = p.cell
  BY <1>2, RowsAdded
<1>5. RemovalCells(plans) \in Batches /\ DOMAIN RemovalCells(plans) = {p.cell : p \in plans}
  BY <1>1, <1>2, CellsOfPlan
<1>6. overlay' = overlay \cup rows
  BY <1>2, <1>3 DEF Prepare
<1>7. Journals(a, e, job)
  <2>1. e \in Entries
    BY <1>1, <1>2, <1>18, StepTypes DEF PlansFit
  <2>2. /\ e.action = jobs[a].kind /\ e.target = jobs[a].user /\ e.ref = jobs[a].ref
        /\ e.head = durable /\ e.applied = 0 /\ e.detail = "dispatch_pending"
    BY <1>18 DEF AuditRow
  <2>3. job \in Jobs
    <3>1. Len(audit) + 1 \in Nat
      BY <1>1
    <3> QED
      BY <1>1, <1>5, <1>18, <3>1, JobFields
  <2>4. /\ job.pc = "dispatch" /\ job.kind = jobs[a].kind /\ job.user = jobs[a].user
        /\ job.ref = jobs[a].ref /\ job.audit = Len(audit) + 1
    BY <1>1, <1>18 DEF Jobs
  <2>5. /\ writes' = writes /\ audit' = Append(audit, e) /\ jobs' = [jobs EXCEPT ![a] = job]
        /\ jobs[a].pc = "prepare" /\ jobs[a].kind = kind
    BY <1>2, <1>18 DEF Prepare, Set, logVars
  <2>6. kind \in Rewrites
    BY <1>2 DEF IsRemoval, Rewrites
  <2> QED
    BY <2>1, <2>2, <2>3, <2>4, <2>5, <2>6 DEF Journals
<1>8. job.batch = RemovalCells(plans) /\ job.kind = kind /\ e.head = durable /\ e.applied = 0
      /\ e.action = kind /\ e.detail = "dispatch_pending" /\ job.pc = "dispatch"
      /\ e.target = jobs[a].user /\ job.audit = id
  BY <1>1, <1>2, <1>3, <1>18 DEF Jobs, AuditRow, Prepare
<1> HIDE DEF rows
<1>9. writes' = writes /\ jobs'[a] = job /\ audit' = Append(audit, e) /\ e \in Entries
  BY <1>1, <1>7 DEF Journals
<1>10. /\ Len(audit') = Len(audit) + 1 /\ audit'[id] = e
       /\ \A k \in 1..Len(audit) : audit'[k] = audit[k]
  BY <1>3, <1>9, JournalTypes
<1>11. \A o \in overlay : o.action \in 1..Len(audit) /\ o.restored <= Len(audit)
  BY DEF LogFits, RowFits
<1>12. Carries /\ \A k \in 1..Len(audit) : NoneAdded(k)
  BY <1>1, <1>3, <1>4, <1>6 DEF Carries, NoneAdded
<1>13. /\ EntriesOwned' /\ WipesAim' /\ HeadsBehind' /\ WrittenOnce'
       /\ \A i \in 1..Len(writes') : WriteFits(i)'
       /\ Undispatched(a)' /\ StampFits(a)'
       /\ \A b \in Actors : b # a => Undispatched(b)' /\ BatchFits(b)' /\ StampFits(b)'
  BY <1>7, <1>12, JournalsKeep
<1>14. BatchFits(a)'
  <2>1. \A o \in overlay' : o.action = id => o \in rows
    BY <1>1, <1>3, <1>6, <1>11
  <2>2. \A o \in overlay' : o.action = id => o.cell \in DOMAIN job.batch
    BY <1>4, <1>5, <1>8, <2>1
  <2>3. \A c \in DOMAIN job.batch : \E o \in overlay' : o.action = id /\ o.cell = c
    BY <1>4, <1>5, <1>6, <1>8
  <2> QED
    BY <1>2, <1>8, <1>9, <2>2, <2>3 DEF BatchFits, IsRemoval
<1>15. OneRowEach'
  <2>1. \A o \in overlay, q \in rows : o.action # q.action
    BY <1>1, <1>3, <1>4, <1>11
  <2> QED
    BY <1>4, <1>6, <2>1 DEF LogFits, OneRowEach
<1>16. ASSUME NEW o \in overlay' PROVE RowFits(o)'
  <2>1. CASE o \in overlay
    <3>1. o.restored <= Len(audit) + 1
      <4>1. o.restored \in Nat
        BY <2>1 DEF ModTypes, Removed
      <4> QED
        BY <1>1, <1>11, <2>1, <4>1
    <3> QED
      BY <1>7, <2>1, <3>1, RowsStayFit
  <2>2. CASE o \in rows
    <3>1. o.action = id /\ o.overwrite = 0 /\ o.restored = 0 /\ Shows(durable, o.version)
          /\ writes[o.version].cell = o.cell
      BY <1>4, <2>2
    <3>3. id \in 1..Len(audit')
      BY <1>1, <1>3, <1>10
    <3> QED
      BY <1>1, <1>2, <1>8, <1>9, <1>10, <3>1, <3>3 DEF RowFits, Shows, Clear
  <2> QED
    BY <1>6, <2>1, <2>2
<1>17. WipeSees'
  <2> SUFFICES ASSUME NEW k \in 1..Len(audit'), audit'[k].action = "ban_wipe",
                      NEW v \in 1..audit'[k].head,
                      writes[v].user = audit'[k].target, writes[v].color # 0,
                      Shows(audit'[k].head, v)
               PROVE  \E o \in overlay' : o.action = k /\ o.version = v
    BY <1>9 DEF WipeSees, Shows, Clear
  <2>1. CASE k \in 1..Len(audit)
    BY <1>6, <1>10, <2>1 DEF LogFits, WipeSees
  <2>2. CASE k = id
    <3>1. plans = PlanWipe(durable, jobs[a].user) /\ kind = "ban_wipe"
      BY <1>8, <1>10, <2>2 DEF Removes
    <3>2. jobs[a].user \in Viewers
      BY <1>2, <3>1 DEF WipesAim, Prepare
    <3>3. PICK p \in plans : p.version = v
      BY <1>1, <1>8, <1>10, <2>2, <3>1, <3>2, WipePlans
    <3> QED
      BY <1>4, <1>6, <2>2, <3>3
  <2> QED
    BY <1>1, <1>3, <1>10, <2>1, <2>2
<1> QED
  BY <1>13, <1>14, <1>15, <1>16, <1>17 DEF LogFits, ActorsFit

\* What a restore marks, it marks once, and its batch is what it has marked.
LEMMA RestoreKeeps ==
  ASSUME ModTypes, EntriesOwned, WipesAim, LogFits, ActorsFit,
         NEW a \in Actors, PrepareRestore(a)
  PROVE  EntriesOwned' /\ WipesAim' /\ LogFits' /\ ActorsFit'
<1>1. /\ writes \in Seq(Writes) /\ Len(writes) \in Nat /\ Len(audit) \in Nat /\ durable \in 0..Len(writes)
      /\ jobs[a] \in Jobs /\ jobs \in [Actors -> Jobs]
      /\ overlay \subseteq Removed /\ IsFiniteSet(overlay)
  BY DEF ModTypes
<1>2. PICK id \in Nat : id = Len(audit) + 1
  BY <1>1
<1> DEFINE rows == Restorable(jobs[a].ref)
<1>22. PICK e, job :
         /\ e = AuditRow(a, jobs[a], Cardinality(rows))
         /\ job = [jobs[a] EXCEPT !.pc = "dispatch", !.audit = Len(audit) + 1, !.batch = ColorsOf(rows)]
  OBVIOUS
<1>3. rows \in SUBSET overlay /\ \A o \in overlay : o \in rows <=> (o.action = jobs[a].ref /\ o.restored = 0)
  BY DEF Restorable
<1>4. Cardinality(rows) \in Nat
  BY <1>1, <1>3, FS_Subset, FS_CardinalityType
<1>5. /\ audit' = Append(audit, e) /\ overlay' = ImageOf(Marked(rows, id), overlay)
      /\ jobs' = [jobs EXCEPT ![a] = job]
  BY <1>2, <1>22, PrepareRestoreIs
<1>6. DOMAIN ColorsOf(rows) = {o.cell : o \in rows}
  BY DEF ColorsOf
<1>7. jobs' \in [Actors -> Jobs]
  BY PrepareRestoreTypes
<1>8. /\ job.batch = ColorsOf(rows) /\ job.kind = "restore" /\ job.audit = id /\ job.pc = "dispatch"
      /\ job.ref = jobs[a].ref /\ job.user = jobs[a].user /\ jobs[a].kind = "restore" /\ jobs[a].pc = "prepare"
  BY <1>1, <1>2, <1>22 DEF Jobs, PrepareRestore
<1>9. /\ e.action = jobs[a].kind /\ e.target = jobs[a].user /\ e.ref = jobs[a].ref
      /\ e.head = durable /\ e.applied = 0 /\ e.detail = "dispatch_pending"
  BY <1>22 DEF AuditRow
<1>10. e \in Entries
  BY <1>1, <1>4, <1>22, StepTypes
<1> HIDE DEF rows
<1>11. Journals(a, e, job)
  <2>1. jobs'[a] = job
    BY <1>1, <1>5
  <2>2. job \in Jobs
    BY <1>7, <2>1
  <2>3. writes' = writes
    BY DEF PrepareRestore, logVars
  <2> QED
    BY <1>2, <1>5, <1>8, <1>9, <1>10, <2>2, <2>3 DEF Journals, Rewrites
<1>12. writes' = writes /\ jobs'[a] = job
  BY <1>1, <1>11 DEF Journals
<1>13. /\ Len(audit') = Len(audit) + 1 /\ audit'[id] = e
       /\ \A k \in 1..Len(audit) : audit'[k] = audit[k]
  BY <1>2, <1>5, <1>10, JournalTypes
<1>14. ASSUME NEW o \in overlay
       PROVE  /\ Marked(rows, id)[o] \in overlay'
              /\ Marked(rows, id)[o].action = o.action /\ Marked(rows, id)[o].cell = o.cell
              /\ Marked(rows, id)[o].version = o.version /\ Marked(rows, id)[o].overwrite = o.overwrite
              /\ Marked(rows, id)[o].restored = IF o \in rows THEN id ELSE o.restored
  <2>1. o \in Removed
    BY <1>1
  <2> QED
    BY <1>5, <2>1 DEF Marked, ImageOf, Removed
<1>15. \A p \in overlay' : \E o \in overlay : p = Marked(rows, id)[o]
  BY <1>5 DEF ImageOf
<1>16. Carries /\ \A k : NoneAdded(k)
  <2>1. Carries
    BY <1>3, <1>14 DEF Carries
  <2>2. ASSUME NEW k PROVE NoneAdded(k)
    BY <1>14, <1>15 DEF NoneAdded
  <2> QED
    BY <2>1, <2>2
<1>17. /\ EntriesOwned' /\ WipesAim' /\ HeadsBehind' /\ WrittenOnce'
       /\ \A i \in 1..Len(writes') : WriteFits(i)'
       /\ Undispatched(a)' /\ StampFits(a)'
       /\ \A b \in Actors : b # a => Undispatched(b)' /\ BatchFits(b)' /\ StampFits(b)'
  BY <1>11, <1>16, JournalsKeep
<1>18. BatchFits(a)'
  <2>1. ASSUME NEW c \in DOMAIN job.batch
        PROVE  \E p \in overlay' : p.action = job.ref /\ p.cell = c /\ p.restored = job.audit
    <3>1. PICK o \in rows : o.cell = c
      BY <1>6, <1>8
    <3> QED
      BY <1>3, <1>8, <1>14, <3>1
  <2> QED
    BY <1>8, <1>12, <2>1 DEF BatchFits, IsRemoval
<1>19. OneRowEach'
  <2> SUFFICES ASSUME NEW p \in overlay', NEW q \in overlay', p.action = q.action, p.cell = q.cell
               PROVE  p = q
    BY DEF OneRowEach
  <2>1. PICK o \in overlay : p = Marked(rows, id)[o]
    BY <1>15
  <2>2. PICK r \in overlay : q = Marked(rows, id)[r]
    BY <1>15
  <2>3. o = r
    BY <1>14, <2>1, <2>2 DEF LogFits, OneRowEach
  <2> QED
    BY <2>1, <2>2, <2>3
<1>20. ASSUME NEW p \in overlay' PROVE RowFits(p)'
  <2>1. PICK o \in overlay : p = Marked(rows, id)[o]
    BY <1>15
  <2>2. o.restored <= Len(audit) /\ o.restored \in Nat
    BY <1>1 DEF LogFits, RowFits, Removed
  <2>3. p.restored <= Len(audit) + 1
    BY <1>1, <1>2, <1>14, <2>1, <2>2
  <2>4. p.action = o.action /\ p.cell = o.cell /\ p.version = o.version /\ p.overwrite = o.overwrite
    BY <1>14, <2>1
  <2> QED
    BY <1>11, <2>3, <2>4, RowsStayFit
<1>21. WipeSees'
  <2> SUFFICES ASSUME NEW k \in 1..Len(audit'), audit'[k].action = "ban_wipe",
                      NEW v \in 1..audit'[k].head,
                      writes[v].user = audit'[k].target, writes[v].color # 0,
                      Shows(audit'[k].head, v)
               PROVE  \E o \in overlay' : o.action = k /\ o.version = v
    BY <1>12 DEF WipeSees, Shows, Clear
  <2>3. k # id
    BY <1>8, <1>9, <1>13
  <2>1. k \in 1..Len(audit)
    <3>1. Len(audit') = Len(audit) + 1 /\ Len(audit) \in Nat
      BY <1>1, <1>13
    <3> QED
      BY <1>2, <2>3, <3>1
  <2>2. \E o \in overlay : o.action = k /\ o.version = v
    BY <1>13, <2>1 DEF LogFits, WipeSees
  <2> QED
    BY <1>16, <2>2 DEF Carries
<1> QED
  BY <1>17, <1>18, <1>19, <1>20, <1>21 DEF LogFits, ActorsFit
-----------------------------------------------------------------------------
(***************************************************************************)
(* The dispatch and the outcome.                                           *)
(***************************************************************************)

\* Some entry's outcome is noted; its rows, the other actors' entries and what every entry
\* was decided from are left alone.
Notes(id) ==
  /\ Len(audit') = Len(audit)
  /\ \A k \in 1..Len(audit) :
       /\ audit'[k].action = audit[k].action /\ audit'[k].target = audit[k].target
       /\ audit'[k].ref = audit[k].ref /\ audit'[k].head = audit[k].head
       /\ k # id => audit'[k] = audit[k]

\* The action under way is handed on, or is over.
HandsOn(a, id) ==
  /\ jobs[a].audit = id /\ Journaled(a)
  /\ \A b \in Actors : b # a => jobs'[b] = jobs[b]
  /\ \/ jobs'[a].pc = "idle" /\ jobs'[a].kind = "none"
     \/ /\ jobs'[a].pc = "finalize" /\ jobs'[a].kind = jobs[a].kind /\ jobs'[a].user = jobs[a].user
        /\ jobs'[a].audit = id

\* An action's later steps touch nobody else's entry and change no aim.
LEMMA NotesKeep ==
  ASSUME ModTypes, EntriesOwned, WipesAim, ActorsFit, Grown, Carries, \A k : NoneAdded(k),
         NEW a \in Actors, NEW id, Notes(id), HandsOn(a, id),
         \A i \in (Len(writes) + 1)..Len(writes') : writes'[i].by = id
  PROVE  /\ EntriesOwned' /\ WipesAim'
         /\ \A b \in Actors : b # a => Undispatched(b)' /\ BatchFits(b)' /\ StampFits(b)'
<1>1. id \in 1..Len(audit) /\ audit[id].action = jobs[a].kind
  BY DEF HandsOn, EntriesOwned
<1>2. ASSUME NEW b \in Actors, b # a PROVE Undispatched(b)' /\ BatchFits(b)' /\ StampFits(b)'
  <2>1. jobs'[b] = jobs[b]
    BY <1>2 DEF HandsOn
  <2>2. Journaled(b) => jobs[b].audit # id /\ jobs[b].audit \in 1..Len(audit)
    BY <1>2 DEF HandsOn, EntriesOwned
  <2>3. Bystands(b)
    BY <2>1, <2>2 DEF Bystands, Notes
  <2> QED
    BY <2>3, BystandersKeep
<1>3. ASSUME NEW b \in Actors, Journaled(b)'
      PROVE  Journaled(b) /\ jobs'[b].audit = jobs[b].audit /\ jobs'[b].kind = jobs[b].kind
  <2>1. CASE b = a
    BY <1>3, <2>1 DEF HandsOn, Journaled
  <2>2. CASE b # a
    BY <1>3, <2>2 DEF HandsOn, Journaled
  <2> QED
    BY <2>1, <2>2
<1>4. \A b \in Actors : jobs'[b].pc = "sync" => jobs'[b] = jobs[b]
  BY DEF HandsOn
<1>5. EntriesOwned'
  BY <1>3, <1>4 DEF EntriesOwned, Notes
<1>6. WipesAim'
  <2>1. ASSUME NEW b \in Actors, jobs'[b].kind = "ban_wipe" PROVE jobs'[b].user \in Viewers
    <3>1. jobs[b].kind = "ban_wipe" /\ jobs'[b].user = jobs[b].user
      BY <2>1 DEF HandsOn
    <3> QED
      BY <3>1 DEF WipesAim
  <2> QED
    BY <2>1 DEF WipesAim, Notes
<1> QED
  BY <1>2, <1>5, <1>6

\* What a dispatch writes: its own cells, each once, after all that was there.
Dispatched(a) ==
  /\ writes \in Seq(Writes) /\ Len(writes) \in Nat /\ Len(writes') \in Nat /\ writes' \in Seq(Writes)
  /\ \A i \in (Len(writes) + 1)..Len(writes') :
       writes'[i].by = jobs[a].audit /\ writes'[i].user = NoUser /\ writes'[i].cell \in DOMAIN jobs[a].batch
  /\ \A i, j \in (Len(writes) + 1)..Len(writes') : writes'[i].cell = writes'[j].cell => i = j
  /\ \A c \in DOMAIN jobs[a].batch : \E i \in (Len(writes) + 1)..Len(writes') : writes'[i].cell = c

\* The dispatch appends its batch and nothing else (moderate.lua).
LEMMA DispatchWrites ==
  ASSUME ModTypes, EntriesOwned, NEW a \in Actors, Dispatch(a)
  PROVE  Grown /\ Dispatched(a)
<1>1. jobs[a] \in Jobs /\ now \in Nat /\ writes \in Seq(Writes) /\ Len(writes) \in Nat
  BY DEF ModTypes
<1>10. PICK job \in Jobs : job = jobs[a]
  BY <1>1
<1>2. PICK more : more = Batch(job)
  OBVIOUS
<1>11. /\ Batch(job) \in Seq(Writes)
       /\ \A i \in 1..Len(Batch(job)) :
            /\ Batch(job)[i].user = NoUser /\ Batch(job)[i].by = job.audit
            /\ Batch(job)[i].cell \in DOMAIN job.batch
       /\ \A i, j \in 1..Len(Batch(job)) : Batch(job)[i].cell = Batch(job)[j].cell => i = j
       /\ \A c \in DOMAIN job.batch : \E i \in 1..Len(Batch(job)) : Batch(job)[i].cell = c
  BY <1>1, BatchWrites, Zenon
<1>3. /\ more \in Seq(Writes)
      /\ \A i \in 1..Len(more) : /\ more[i].user = NoUser /\ more[i].by = jobs[a].audit
                                 /\ more[i].cell \in DOMAIN jobs[a].batch
      /\ \A i, j \in 1..Len(more) : more[i].cell = more[j].cell => i = j
      /\ \A c \in DOMAIN jobs[a].batch : \E i \in 1..Len(more) : more[i].cell = c
  BY <1>2, <1>10, <1>11
<1>4. /\ writes' \in Seq(Writes) /\ Len(writes') = Len(writes) + Len(more)
      /\ \A i \in 1..Len(writes) : writes'[i] = writes[i]
      /\ \A i \in 1..Len(more) : writes'[Len(writes) + i] = more[i]
  BY <1>2, <1>10, DispatchIs
<1>5. Len(more) \in Nat
  BY <1>3
<1>6. Len(writes') \in Nat /\ Len(writes) <= Len(writes')
  BY <1>1, <1>4, <1>5
<1>7. ASSUME NEW i \in (Len(writes) + 1)..Len(writes')
      PROVE  i - Len(writes) \in 1..Len(more) /\ writes'[i] = more[i - Len(writes)]
  <2>1. i - Len(writes) \in 1..Len(more) /\ Len(writes) + (i - Len(writes)) = i
    BY <1>1, <1>4, <1>5
  <2> QED
    BY <1>4, <2>1
<1>8. ASSUME NEW i \in (Len(writes) + 1)..Len(writes'), NEW j \in (Len(writes) + 1)..Len(writes'),
             writes'[i].cell = writes'[j].cell
      PROVE  i = j
  <2>1. i - Len(writes) = j - Len(writes)
    BY <1>3, <1>7, <1>8
  <2> QED
    BY <1>1, <2>1
<1>9. ASSUME NEW c \in DOMAIN jobs[a].batch
      PROVE  \E i \in (Len(writes) + 1)..Len(writes') : writes'[i].cell = c
  <2>1. PICK i \in 1..Len(more) : more[i].cell = c
    BY <1>3
  <2>2. Len(writes) + i \in (Len(writes) + 1)..Len(writes')
    BY <1>1, <1>4, <1>5
  <2> QED
    BY <1>4, <2>1, <2>2
<1>12. Grown
  BY <1>1, <1>4, <1>6 DEF Grown
<1>13. \A i \in (Len(writes) + 1)..Len(writes') :
         writes'[i].by = jobs[a].audit /\ writes'[i].user = NoUser /\ writes'[i].cell \in DOMAIN jobs[a].batch
  BY <1>3, <1>7
<1> QED
  BY <1>1, <1>4, <1>6, <1>8, <1>9, <1>12, <1>13 DEF Dispatched

\* The dispatch notes on its entry how far the log then reaches, when it wrote anything.
LEMMA DispatchNotes ==
  ASSUME ModTypes, EntriesOwned, NEW a \in Actors, Dispatch(a)
  PROVE  /\ jobs[a].pc = "dispatch" /\ jobs[a].audit \in 1..Len(audit)
         /\ Notes(jobs[a].audit) /\ HandsOn(a, jobs[a].audit) /\ overlay' = overlay
         /\ audit'[jobs[a].audit].detail = audit[jobs[a].audit].detail
         /\ audit'[jobs[a].audit].applied =
              IF DOMAIN jobs[a].batch = {} THEN audit[jobs[a].audit].applied ELSE Len(writes')
         /\ jobs'[a].pc = "finalize" =>
              /\ jobs'[a].batch = jobs[a].batch
              /\ jobs'[a].version # 0 => DOMAIN jobs[a].batch # {} /\ jobs'[a].version = Len(writes')
<1>1. jobs[a] \in Jobs /\ jobs \in [Actors -> Jobs] /\ audit \in Seq(Entries)
  BY DEF ModTypes
<1>2. PICK id : id = jobs[a].audit
  OBVIOUS
<1>3. jobs[a].pc = "dispatch" /\ overlay' = overlay
  BY DEF Dispatch
<1>4. id \in 1..Len(audit)
  BY <1>2, DispatchIs
<1>5. PICK n : n = Len(writes')
  OBVIOUS
<1>6. n \in Nat
  BY <1>5, DispatchTypes
<1>7. audit' = IF DOMAIN jobs[a].batch = {} THEN audit
               ELSE [audit EXCEPT ![id] = [audit[id] EXCEPT !.applied = n]]
  BY <1>2, <1>5, DispatchIs
<1>8. audit[id] \in Entries
  BY <1>1, <1>4
<1>9. PICK e : e = [audit[id] EXCEPT !.applied = n]
  OBVIOUS
<1>10. /\ e \in Entries /\ e.applied = n /\ e.detail = audit[id].detail /\ e.action = audit[id].action
       /\ e.target = audit[id].target /\ e.ref = audit[id].ref /\ e.head = audit[id].head
  BY <1>6, <1>8, <1>9 DEF Entries
<1>11. /\ Len([audit EXCEPT ![id] = e]) = Len(audit) /\ [audit EXCEPT ![id] = e][id] = e
       /\ \A k \in 1..Len(audit) : k # id => [audit EXCEPT ![id] = e][k] = audit[k]
  BY <1>4, <1>10, JournalTypes
<1>12. /\ Notes(id) /\ audit'[id].detail = audit[id].detail
       /\ audit'[id].applied = IF DOMAIN jobs[a].batch = {} THEN audit[id].applied ELSE n
  <2>1. CASE DOMAIN jobs[a].batch = {}
    BY <1>7, <2>1 DEF Notes
  <2>2. CASE DOMAIN jobs[a].batch # {}
    <3>1. audit' = [audit EXCEPT ![id] = e]
      BY <1>7, <1>9, <2>2
    <3> QED
      BY <1>10, <1>11, <2>2, <3>1 DEF Notes
  <2> QED
    BY <2>1, <2>2
<1>13. \/ jobs' = [jobs EXCEPT ![a] = [jobs[a] EXCEPT !.pc = "finalize", !.version =
                     IF DOMAIN jobs[a].batch = {} THEN 0 ELSE n]]
       \/ jobs' = [jobs EXCEPT ![a] = Idle]
  BY <1>5 DEF Dispatch, Set
<1>14. \A b \in Actors : b # a => jobs'[b] = jobs[b]
  BY <1>1, <1>13
<1>15. \/ jobs'[a].pc = "idle" /\ jobs'[a].kind = "none"
       \/ /\ jobs'[a].pc = "finalize" /\ jobs'[a].kind = jobs[a].kind /\ jobs'[a].user = jobs[a].user
          /\ jobs'[a].audit = id /\ jobs'[a].batch = jobs[a].batch
          /\ jobs'[a].version # 0 => DOMAIN jobs[a].batch # {} /\ jobs'[a].version = n
  <2>1. CASE jobs' = [jobs EXCEPT ![a] = Idle]
    BY <1>1, <2>1 DEF Idle
  <2>2. ASSUME NEW v, jobs' = [jobs EXCEPT ![a] = [jobs[a] EXCEPT !.pc = "finalize", !.version = v]]
        PROVE  /\ jobs'[a].pc = "finalize" /\ jobs'[a].kind = jobs[a].kind /\ jobs'[a].user = jobs[a].user
               /\ jobs'[a].audit = id /\ jobs'[a].batch = jobs[a].batch /\ jobs'[a].version = v
    BY <1>1, <1>2, <2>2 DEF Jobs
  <2> QED
    BY <1>13, <2>1, <2>2
<1>16. HandsOn(a, id)
  BY <1>2, <1>3, <1>14, <1>15 DEF HandsOn, Journaled
<1> QED
  BY <1>2, <1>3, <1>4, <1>5, <1>12, <1>15, <1>16

\* A dispatch that is answered has overwritten, behind the log its action was decided
\* from, the cell of every row of it; and it writes nothing else (handleModerate).
LEMMA DispatchKeeps ==
  ASSUME ModTypes, EntriesOwned, WipesAim, LogFits, ActorsFit, NEW a \in Actors, Dispatch(a)
  PROVE  EntriesOwned' /\ WipesAim' /\ LogFits' /\ ActorsFit'
<1>1. PICK id, cs, ref, kind : id = jobs[a].audit /\ cs = DOMAIN jobs[a].batch /\ ref = jobs[a].ref /\ kind = jobs[a].kind
  OBVIOUS
<1>2. Grown /\ Dispatched(a)
  BY DispatchWrites
<1>3. /\ jobs[a].pc = "dispatch" /\ id \in 1..Len(audit)
      /\ Notes(id) /\ HandsOn(a, id) /\ overlay' = overlay
      /\ audit'[id].detail = audit[id].detail
      /\ audit'[id].applied = IF cs = {} THEN audit[id].applied ELSE Len(writes')
      /\ jobs'[a].pc = "finalize" =>
           /\ jobs'[a].batch = jobs[a].batch
           /\ jobs'[a].version # 0 => cs # {} /\ jobs'[a].version = Len(writes')
  BY <1>1, DispatchNotes
<1>4. Carries /\ \A k : NoneAdded(k)
  BY <1>3, SameRowsCarry
<1>5. /\ Len(audit) \in Nat /\ overlay \subseteq Removed
      /\ \A k \in 1..Len(audit) : audit[k] \in Entries /\ audit[k].head \in Nat /\ audit[k].head <= Len(writes)
  <2>1. audit \in Seq(Entries) /\ Len(audit) \in Nat /\ overlay \subseteq Removed
    BY DEF ModTypes
  <2>2. \A k \in 1..Len(audit) : audit[k] \in Entries
    BY <2>1
  <2>3. HeadsBehind
    BY DEF LogFits
  <2> QED
    BY <2>1, <2>2, <2>3 DEF HeadsBehind, Entries
<1>6. /\ \A i \in (Len(writes) + 1)..Len(writes') :
           writes'[i].by = id /\ writes'[i].user = NoUser /\ writes'[i].cell \in cs
      /\ \A i, j \in (Len(writes) + 1)..Len(writes') : writes'[i].cell = writes'[j].cell => i = j
      /\ \A c \in cs : \E i \in (Len(writes) + 1)..Len(writes') : writes'[i].cell = c
  BY <1>1, <1>2 DEF Dispatched
<1>7. /\ Len(writes) \in Nat /\ Len(writes') \in Nat /\ Len(writes) <= Len(writes')
      /\ \A i \in 1..Len(writes) : writes'[i] = writes[i]
  BY <1>2 DEF Grown
<1>8. /\ EntriesOwned' /\ WipesAim'
      /\ \A b \in Actors : b # a => Undispatched(b)' /\ BatchFits(b)' /\ StampFits(b)'
  BY <1>2, <1>3, <1>4, <1>6, NotesKeep
<1>9. /\ kind \in Rewrites /\ audit[id].applied = 0 /\ audit[id].ref = ref /\ audit[id].action = kind
      /\ audit[id].detail = "dispatch_pending"
      /\ \A i \in 1..Len(writes) : writes[i].by # id
  BY <1>1, <1>3 DEF ActorsFit, Undispatched, EntriesOwned, Journaled
<1>10. /\ IsRemoval(kind) => /\ \A o \in overlay : o.action = id => o.cell \in cs
                             /\ \A c \in cs : \E o \in overlay : o.action = id /\ o.cell = c
       /\ kind = "restore" => \A c \in cs : \E o \in overlay : o.action = ref /\ o.cell = c /\ o.restored = id
  BY <1>1, <1>3 DEF ActorsFit, BatchFits
<1>11. \A i \in 1..Len(writes') : i \in 1..Len(writes) \/ i \in (Len(writes) + 1)..Len(writes')
  BY <1>7
<1>12. HeadsBehind'
  BY <1>3, <1>5, <1>7 DEF HeadsBehind, Notes
<1>13. OneRowEach'
  BY <1>3 DEF OneRowEach, LogFits
<1>14. WrittenOnce'
  <2> SUFFICES ASSUME NEW i \in 1..Len(writes'), NEW j \in 1..Len(writes'),
                      writes'[i].by # 0, writes'[i].by = writes'[j].by, writes'[i].cell = writes'[j].cell
               PROVE  i = j
    BY DEF WrittenOnce
  <2>1. CASE i \in 1..Len(writes) /\ j \in 1..Len(writes)
    BY <1>7, <2>1 DEF LogFits, WrittenOnce
  <2>2. CASE i \in (Len(writes) + 1)..Len(writes') /\ j \in (Len(writes) + 1)..Len(writes')
    BY <1>6, <2>2
  <2>3. CASE i \in 1..Len(writes) /\ j \in (Len(writes) + 1)..Len(writes')
    BY <1>6, <1>7, <1>9, <2>3
  <2>4. CASE i \in (Len(writes) + 1)..Len(writes') /\ j \in 1..Len(writes)
    BY <1>6, <1>7, <1>9, <2>4
  <2> QED
    BY <1>11, <2>1, <2>2, <2>3, <2>4
<1>15. WipeSees'
  <2> SUFFICES ASSUME NEW k \in 1..Len(audit), audit[k].action = "ban_wipe",
                      NEW v \in 1..audit[k].head,
                      writes'[v].user = audit[k].target, writes'[v].color # 0,
                      Shows(audit[k].head, v)'
               PROVE  \E o \in overlay : o.action = k /\ o.version = v
    BY <1>3 DEF WipeSees, Notes
  <2>1. PICK n \in Nat : n = audit[k].head /\ n <= Len(writes)
    BY <1>5
  <2>2. Shows(n, v)'
    BY <1>3, <2>1 DEF Shows, Clear, Notes
  <2>3. Shows(n, v)
    BY <1>2, <2>1, <2>2, PrefixKeeps
  <2>4. writes'[v] = writes[v]
    BY <1>7, <2>1
  <2> QED
    BY <2>1, <2>3, <2>4 DEF LogFits, WipeSees
<1>16. ASSUME NEW o \in overlay PROVE RowFits(o)'
  <2>1. RowFits(o) /\ o \in Removed
    BY <1>5 DEF LogFits
  <2>2. PICK n \in Nat : n = audit[o.action].head /\ n <= Len(writes) /\ n = audit'[o.action].head
    BY <1>3, <1>5, <2>1 DEF RowFits, Notes
  <2>3. Shows(n, o.version) /\ Shows(n, o.version)'
    BY <1>2, <2>1, <2>2, PrefixKeeps DEF RowFits
  <2>4. o.version \in 1..Len(writes) /\ writes'[o.version] = writes[o.version]
    BY <1>7, <2>2, <2>3 DEF Shows
  <2>5. /\ o.action \in 1..Len(audit') /\ IsRemoval(audit'[o.action].action)
        /\ o.restored <= Len(audit') /\ audit'[o.action].detail # "no_cells"
    BY <1>3, <2>1 DEF RowFits, Notes
  <2>6. o.overwrite # 0 => o.overwrite = audit'[o.action].applied
    <3>1. CASE o.action = id
      BY <1>9, <2>1, <3>1 DEF RowFits
    <3>2. CASE o.action # id
      BY <1>3, <2>1, <3>2 DEF RowFits, Notes
    <3> QED
      BY <3>1, <3>2
  <2>7. ASSUME audit'[o.action].applied # 0
        PROVE  \E i \in 1..Len(writes') : /\ writes'[i].by = o.action /\ writes'[i].cell = o.cell
                                          /\ n < i /\ i <= audit'[o.action].applied
    <3>1. CASE o.action = id
      <4>1. cs # {} /\ audit'[id].applied = Len(writes')
        BY <1>3, <1>9, <2>7, <3>1
      <4>2. IsRemoval(kind)
        BY <1>9, <2>1, <3>1 DEF RowFits
      <4>3. PICK i \in (Len(writes) + 1)..Len(writes') : writes'[i].cell = o.cell
        BY <1>6, <1>10, <3>1, <4>2
      <4> QED
        BY <1>6, <1>7, <2>2, <3>1, <4>1, <4>3
    <3>2. CASE o.action # id
      <4>1. audit'[o.action] = audit[o.action]
        BY <1>3, <2>1, <3>2 DEF RowFits, Notes
      <4>2. PICK i \in 1..Len(writes) : /\ writes[i].by = o.action /\ writes[i].cell = o.cell
                                        /\ audit[o.action].head < i /\ i <= audit[o.action].applied
        BY <2>1, <2>7, <4>1 DEF RowFits
      <4> QED
        BY <1>7, <2>2, <4>1, <4>2
    <3> QED
      BY <3>1, <3>2
  <2> QED
    BY <2>1, <2>2, <2>3, <2>4, <2>5, <2>6, <2>7 DEF RowFits, Shows, Clear
<1>17. ASSUME NEW i \in 1..Len(writes), writes[i].by # 0 PROVE WriteFits(i)'
  <2>1. WriteFits(i) /\ writes'[i] = writes[i] /\ writes[i] \in Writes
    BY <1>2, <1>7 DEF LogFits, Grown
  <2>2. PICK k : k = writes[i].by
    OBVIOUS
  <2>3. k \in 1..Len(audit)
    BY <1>5, <1>17, <2>1, <2>2 DEF WriteFits, Writes
  <2>4. PICK e : e = audit[k]
    OBVIOUS
  <2>5. audit'[k].action = e.action /\ audit'[k].ref = e.ref /\ audit'[k].head = e.head /\ k <= Len(audit')
    BY <1>3, <2>3, <2>4 DEF Notes
  <2>6. PICK n \in Nat : n = i - 1 /\ n <= Len(writes)
    BY <1>7
  <2>7. \A v \in Nat : \A c : Clear(v, n, c)' <=> Clear(v, n, c)
    BY <1>2, <2>6, PrefixKeeps
  <2>8. e.head \in Nat /\ \A o \in overlay : o.version \in Nat
    BY <1>5, <2>3, <2>4 DEF Removed
  <2> QED
    BY <1>3, <2>1, <2>2, <2>4, <2>5, <2>6, <2>7, <2>8 DEF WriteFits
<1>18. ASSUME NEW i \in (Len(writes) + 1)..Len(writes') PROVE WriteFits(i)'
  <2>1. PICK c, n : c = writes'[i].cell /\ n = audit[id].head
    OBVIOUS
  <2>2. c \in cs /\ writes'[i].by = id /\ writes'[i].user = NoUser
    BY <1>6, <2>1
  <2>3. /\ audit'[id].action = kind /\ audit'[id].ref = ref /\ audit'[id].head = n /\ id <= Len(audit')
        /\ n \in Nat /\ n <= Len(writes) /\ n < i
    BY <1>3, <1>5, <1>7, <1>9, <2>1 DEF Notes
  <2>4. ASSUME IsRemoval(kind)
        PROVE  \E o \in overlay : /\ o.action = id /\ o.cell = c
                                  /\ Clear(o.version, i - 1, c)' \/ ~ Clear(n, i - 1, c)'
    <3>1. PICK o \in overlay : o.action = id /\ o.cell = c
      BY <1>10, <2>2, <2>4
    <3>2. Shows(n, o.version) /\ writes[o.version].cell = c
      BY <2>1, <3>1 DEF LogFits, RowFits
    <3>3. Shows(n, o.version)' /\ writes'[o.version] = writes[o.version]
      BY <1>2, <1>7, <2>3, <3>2, PrefixKeeps DEF Shows
    <3>4. ASSUME Clear(n, i - 1, c)' PROVE Clear(o.version, i - 1, c)'
      <4>1. o.version \in Nat
        BY <3>1, <1>5 DEF Removed
      <4>2. ASSUME NEW j \in (o.version + 1)..(i - 1) PROVE writes'[j].cell # c
        <5>1. j \in (o.version + 1)..n \/ j \in (n + 1)..(i - 1)
          BY <1>7, <2>3, <4>1
        <5> QED
          BY <3>2, <3>3, <3>4, <5>1 DEF Shows, Clear
      <4> QED
        BY <4>2 DEF Clear
    <3> QED
      BY <3>1, <3>4
  <2>5. kind = "restore" => \E o \in overlay : o.action = ref /\ o.cell = c /\ o.restored = id
    BY <1>10, <2>2
  <2> QED
    BY <1>3, <1>9, <2>1, <2>2, <2>3, <2>4, <2>5 DEF WriteFits, IsRemoval
<1>19. \A i \in 1..Len(writes') : WriteFits(i)'
  <2> SUFFICES ASSUME NEW i \in 1..Len(writes'), i \in 1..Len(writes), writes[i].by = 0 PROVE WriteFits(i)'
    BY <1>11, <1>17, <1>18
  <2> QED
    BY <1>7 DEF WriteFits
<1>20. Undispatched(a)' /\ BatchFits(a)' /\ StampFits(a)'
  <2>1. CASE jobs'[a].pc = "idle"
    BY <2>1, FreeActors
  <2>2. CASE jobs'[a].pc = "finalize"
    <3>1. jobs'[a].kind = kind /\ jobs'[a].audit = id /\ DOMAIN jobs'[a].batch = cs
      BY <1>1, <1>3, <2>2 DEF HandsOn
    <3>2. BatchFits(a)'
      BY <1>3, <1>10, <2>2, <3>1 DEF BatchFits, IsRemoval
    <3>3. StampFits(a)'
      BY <1>3, <2>2, <3>1 DEF StampFits
    <3> QED
      BY <2>2, <3>2, <3>3 DEF Undispatched
  <2> QED
    BY <1>3, <2>1, <2>2 DEF HandsOn
<1> QED
  BY <1>3, <1>8, <1>12, <1>13, <1>14, <1>15, <1>16, <1>19, <1>20 DEF LogFits, ActorsFit

\* The last step stamps the rows of its own entry with the version noted there, and says
\* "no cells" only of an entry without rows (finalizeModerate).
LEMMA FinalizeKeeps ==
  ASSUME ModTypes, EntriesOwned, WipesAim, LogFits, ActorsFit, NEW a \in Actors, Finalize(a)
  PROVE  EntriesOwned' /\ WipesAim' /\ LogFits' /\ ActorsFit'
<1>1. PICK id, v, said : id = jobs[a].audit /\ v = jobs[a].version /\ said = Outcome(jobs[a])
  OBVIOUS
<1>2. /\ jobs[a].pc = "finalize" /\ id \in 1..Len(audit) /\ audit[id].action = jobs[a].kind
      /\ audit' = [audit EXCEPT ![id] = [audit[id] EXCEPT !.detail = said]]
      /\ overlay' = ImageOf(Stamped(id, v), overlay)
      /\ jobs' = [jobs EXCEPT ![a] = Idle] /\ writes' = writes
  BY <1>1, FinalizeIs DEF Finalize, logVars, EntriesOwned, Journaled
<1>3. /\ writes \in Seq(Writes) /\ Len(writes) \in Nat /\ audit \in Seq(Entries) /\ Len(audit) \in Nat
      /\ jobs \in [Actors -> Jobs] /\ overlay \subseteq Removed
  BY DEF ModTypes
<1>4. PICK e : e = [audit[id] EXCEPT !.detail = said]
  OBVIOUS
<1>5. /\ e \in Entries /\ e.applied = audit[id].applied /\ e.detail = said /\ e.action = audit[id].action
      /\ e.target = audit[id].target /\ e.ref = audit[id].ref /\ e.head = audit[id].head
  <2>1. audit[id] \in Entries
    BY <1>2, <1>3
  <2> QED
    BY <1>1, <1>4, <2>1 DEF Entries, Outcome
<1>6. /\ Len(audit') = Len(audit) /\ audit'[id] = e
      /\ \A k \in 1..Len(audit) : k # id => audit'[k] = audit[k]
  BY <1>2, <1>4, <1>5, JournalTypes
<1>7. /\ Notes(id)
      /\ \A k \in 1..Len(audit) : /\ audit'[k].action = audit[k].action /\ audit'[k].target = audit[k].target
                                  /\ audit'[k].ref = audit[k].ref /\ audit'[k].head = audit[k].head
                                  /\ audit'[k].applied = audit[k].applied
  BY <1>5, <1>6 DEF Notes
<1>8. HandsOn(a, id) /\ jobs'[a].pc = "idle"
  BY <1>1, <1>2, <1>3 DEF HandsOn, Journaled, Idle
<1>9. ASSUME NEW o \in overlay
      PROVE  /\ Stamped(id, v)[o] \in overlay'
             /\ Stamped(id, v)[o].action = o.action /\ Stamped(id, v)[o].cell = o.cell
             /\ Stamped(id, v)[o].version = o.version /\ Stamped(id, v)[o].restored = o.restored
             /\ Stamped(id, v)[o].overwrite = IF v # 0 /\ o.action = id THEN v ELSE o.overwrite
  <2>1. o \in Removed
    BY <1>3
  <2> QED
    BY <1>2, <2>1 DEF Stamped, ImageOf, Removed
<1>10. \A p \in overlay' : \E o \in overlay : p = Stamped(id, v)[o]
  BY <1>2 DEF ImageOf
<1>11. Carries /\ \A k : NoneAdded(k)
  <2>1. Carries
    BY <1>9 DEF Carries
  <2>2. ASSUME NEW k PROVE NoneAdded(k)
    BY <1>9, <1>10 DEF NoneAdded
  <2> QED
    BY <2>1, <2>2
<1>12. Grown
  BY <1>2, <1>3 DEF Grown
<1>13. /\ EntriesOwned' /\ WipesAim'
       /\ \A b \in Actors : b # a => Undispatched(b)' /\ BatchFits(b)' /\ StampFits(b)'
  <2>1. \A i \in (Len(writes) + 1)..Len(writes') : writes'[i].by = id
    BY <1>2, <1>3
  <2> QED
    BY <1>7, <1>8, <1>11, <1>12, <2>1, NotesKeep
<1>14. Undispatched(a)' /\ BatchFits(a)' /\ StampFits(a)'
  BY <1>8, FreeActors
<1>15. HeadsBehind' /\ WrittenOnce'
  BY <1>2, <1>6, <1>7 DEF LogFits, HeadsBehind, WrittenOnce
<1>16. OneRowEach'
  <2> SUFFICES ASSUME NEW p \in overlay', NEW q \in overlay', p.action = q.action, p.cell = q.cell
               PROVE  p = q
    BY DEF OneRowEach
  <2>1. PICK o \in overlay : p = Stamped(id, v)[o]
    BY <1>10
  <2>2. PICK r \in overlay : q = Stamped(id, v)[r]
    BY <1>10
  <2>3. o = r
    BY <1>9, <2>1, <2>2 DEF LogFits, OneRowEach
  <2> QED
    BY <2>1, <2>2, <2>3
<1>17. WipeSees'
  <2> SUFFICES ASSUME NEW k \in 1..Len(audit), audit[k].action = "ban_wipe",
                      NEW n \in 1..audit[k].head,
                      writes[n].user = audit[k].target, writes[n].color # 0, Shows(audit[k].head, n)
               PROVE  \E p \in overlay' : p.action = k /\ p.version = n
    BY <1>2, <1>6, <1>7 DEF WipeSees, Shows, Clear
  <2>1. \E o \in overlay : o.action = k /\ o.version = n
    BY DEF LogFits, WipeSees
  <2> QED
    BY <1>11, <2>1 DEF Carries
<1>18. ASSUME NEW p \in overlay' PROVE RowFits(p)'
  <2>1. PICK o \in overlay : p = Stamped(id, v)[o]
    BY <1>10
  <2>2. /\ p.action = o.action /\ p.cell = o.cell /\ p.version = o.version /\ p.restored = o.restored
        /\ p.overwrite = IF v # 0 /\ o.action = id THEN v ELSE o.overwrite
    BY <1>9, <2>1
  <2>3. RowFits(o)
    BY DEF LogFits
  <2>4. o.action \in 1..Len(audit)
    BY <2>3 DEF RowFits
  <2>5. audit'[o.action].detail # "no_cells"
    <3>1. CASE o.action = id
      <4>1. IsRemoval(jobs[a].kind)
        BY <1>2, <2>3, <3>1 DEF RowFits
      <4>2. o.cell \in DOMAIN jobs[a].batch
        BY <1>1, <1>2, <3>1, <4>1 DEF ActorsFit, BatchFits
      <4>3. said = "dispatched"
        BY <1>1, <4>2 DEF Outcome
      <4> QED
        BY <1>5, <1>6, <3>1, <4>3
    <3>2. CASE o.action # id
      BY <1>6, <2>3, <2>4, <3>2 DEF RowFits
    <3> QED
      BY <3>1, <3>2
  <2>6. p.overwrite # 0 => p.overwrite = audit[o.action].applied
    <3>1. CASE v # 0 /\ o.action = id
      <4>1. audit[id].applied = v
        BY <1>1, <1>2, <3>1 DEF ActorsFit, StampFits
      <4> QED
        BY <2>2, <3>1, <4>1
    <3>2. CASE ~ (v # 0 /\ o.action = id)
      BY <2>2, <2>3, <3>2 DEF RowFits
    <3> QED
      BY <3>1, <3>2
  <2>7. PICK k, n : k = o.action /\ n = audit[k].head
    OBVIOUS
  <2>8. /\ audit'[k].head = n /\ audit'[k].action = audit[k].action /\ audit'[k].applied = audit[k].applied
        /\ k \in 1..Len(audit')
    BY <1>6, <1>7, <2>4, <2>7
  <2>9. /\ IsRemoval(audit[k].action) /\ Shows(n, p.version) /\ writes[p.version].cell = p.cell
        /\ p.restored <= Len(audit')
        /\ audit[k].applied # 0 =>
             \E i \in 1..Len(writes) : /\ writes[i].by = k /\ writes[i].cell = p.cell
                                       /\ n < i /\ i <= audit[k].applied
    BY <1>6, <2>2, <2>3, <2>7 DEF RowFits
  <2>10. Shows(n, p.version)'
    BY <1>2, <2>9 DEF Shows, Clear
  <2>11. p.action = k /\ audit'[k].detail # "no_cells" /\ (p.overwrite # 0 => p.overwrite = audit'[k].applied)
    BY <2>2, <2>5, <2>6, <2>7, <2>8
  <2> HIDE <2>1, <2>2, <2>7
  <2> QED
    BY <1>2, <2>8, <2>9, <2>10, <2>11 DEF RowFits, IsRemoval, Shows, Clear
<1>19. ASSUME NEW i \in 1..Len(writes') PROVE WriteFits(i)'
  <2>1. SUFFICES ASSUME writes[i].by # 0 PROVE WriteFits(i)'
    BY <1>2 DEF WriteFits
  <2>2. WriteFits(i) /\ writes[i] \in Writes
    BY <1>2, <1>3 DEF LogFits
  <2>3. PICK k \in 1..Len(audit) : k = writes[i].by
    BY <1>3, <2>1, <2>2 DEF WriteFits, Writes
  <2>4. IsRemoval(audit[k].action) =>
          \E p \in overlay' : /\ p.action = k /\ p.cell = writes[i].cell /\ audit[k].head < i
                              /\ Clear(p.version, i - 1, p.cell) \/ ~Clear(audit[k].head, i - 1, p.cell)
    BY <1>11, <2>1, <2>2, <2>3 DEF WriteFits, Carries
  <2>5. audit[k].action = "restore" =>
          \E p \in overlay' : p.action = audit[k].ref /\ p.cell = writes[i].cell /\ p.restored = k
    BY <1>11, <2>1, <2>2, <2>3 DEF WriteFits, Carries
  <2>6. /\ audit'[k].action = audit[k].action /\ audit'[k].ref = audit[k].ref
        /\ audit'[k].head = audit[k].head /\ k <= Len(audit')
    BY <1>6, <1>7, <2>3
  <2>7. writes[i].user = NoUser /\ audit[k].action \in Rewrites
    BY <2>1, <2>2, <2>3 DEF WriteFits
  <2> QED
    BY <1>2, <2>3, <2>4, <2>5, <2>6, <2>7 DEF WriteFits, Clear
<1> QED
  BY <1>13, <1>14, <1>15, <1>16, <1>17, <1>18, <1>19 DEF LogFits, ActorsFit
-----------------------------------------------------------------------------
(***************************************************************************)
(* The invariant holds, and what it says.                                  *)
(***************************************************************************)

\* Nothing is journaled, recorded or written yet.
LEMMA InductiveInit == ModInit => ModInductive
<1> SUFFICES ASSUME ModInit PROVE ModInductive
  OBVIOUS
<1>1. ModTypes
  BY TypesInit
<1>2. Len(writes) = 0 /\ Len(audit) = 0 /\ overlay = {}
  BY EmptySeq DEF ModInit
<1>3. \A a \in Actors : jobs[a].pc = "idle" /\ jobs[a].kind = "none"
  BY DEF ModInit, Idle
<1>4. EntriesOwned
  BY <1>3 DEF EntriesOwned, Journaled
<1>5. WipesAim
  BY <1>2, <1>3 DEF WipesAim
<1>6. LogFits
  BY <1>2 DEF LogFits, HeadsBehind, OneRowEach, WrittenOnce, WipeSees
<1>7. ActorsFit
  BY <1>3 DEF ActorsFit, Undispatched, BatchFits, StampFits
<1> QED
  BY <1>1, <1>4, <1>5, <1>6, <1>7 DEF ModInductive

\* Every step keeps it.
LEMMA InductiveStep == ModInductive /\ [ModNext]_modVars => ModInductive'
<1> SUFFICES ASSUME ModInductive, [ModNext]_modVars PROVE ModInductive'
  OBVIOUS
<1>1. ModTypes /\ EntriesOwned /\ WipesAim /\ LogFits /\ ActorsFit
  BY DEF ModInductive
<1>2. ModTypes' /\ ModStep
  BY <1>1, StepsAreOfAKind
<1>3. EntriesOwned' /\ WipesAim' /\ LogFits' /\ ActorsFit'
  <2>1. CASE Aside
    BY <1>1, <1>2, <2>1, AsideKeeps
  <2>2. ASSUME NEW row \in Writes, Placing(row)
        PROVE  EntriesOwned' /\ WipesAim' /\ LogFits' /\ ActorsFit'
    BY <1>1, <1>2, <2>2, PlacingKeeps
  <2>3. ASSUME NEW a \in Actors, NEW e \in Entries, NEW job \in Jobs, Opens(a, e, job)
        PROVE  EntriesOwned' /\ WipesAim' /\ LogFits' /\ ActorsFit'
    BY <1>1, <1>2, <2>3, OpensKeeps
  <2>4. ASSUME NEW a \in Actors, NEW kind \in Kinds, NEW plans \in SUBSET Plans, Removes(a, kind, plans)
        PROVE  EntriesOwned' /\ WipesAim' /\ LogFits' /\ ActorsFit'
    BY <1>1, <2>4, RemovesKeeps
  <2>5. ASSUME NEW a \in Actors, PrepareRestore(a)
        PROVE  EntriesOwned' /\ WipesAim' /\ LogFits' /\ ActorsFit'
    BY <1>1, <2>5, RestoreKeeps
  <2>6. ASSUME NEW a \in Actors, Dispatch(a)
        PROVE  EntriesOwned' /\ WipesAim' /\ LogFits' /\ ActorsFit'
    BY <1>1, <2>6, DispatchKeeps
  <2>7. ASSUME NEW a \in Actors, Finalize(a)
        PROVE  EntriesOwned' /\ WipesAim' /\ LogFits' /\ ActorsFit'
    BY <1>1, <2>7, FinalizeKeeps
  <2> QED
    BY <1>2, <2>1, <2>2, <2>3, <2>4, <2>5, <2>6, <2>7, Zenon DEF ModStep
<1> QED
  BY <1>2, <1>3 DEF ModInductive

\* What an answered wipe leaves of its target was placed after the log it was planned
\* from: all it showed there has a row, and every row's cell was overwritten behind it.
LEMMA InductiveWipe == ModInductive => WipeLeavesNothing
<1> SUFFICES ASSUME ModInductive, NEW id \in DOMAIN audit, audit[id].action = "ban_wipe", Answered(id),
                    NEW c \in Cells, AuthorOfTop(Len(writes), c) = audit[id].target
             PROVE  Top(Len(writes), c) > audit[id].head
  BY DEF WipeLeavesNothing
<1>1. ModTypes /\ WipesAim /\ LogFits
  BY DEF ModInductive
<1>2. /\ writes \in Seq(Writes) /\ Len(writes) \in Nat /\ audit \in Seq(Entries) /\ id \in 1..Len(audit)
      /\ overlay \subseteq Removed
  BY <1>1 DEF ModTypes
<1>3. PICK t, n : t = Top(Len(writes), c) /\ n = audit[id].head
  OBVIOUS
<1>4. audit[id] \in Entries
  BY <1>2
<1>5. n \in Nat /\ n <= Len(writes) /\ audit[id].applied \in Nat
  BY <1>1, <1>2, <1>3, <1>4 DEF LogFits, HeadsBehind, Entries
<1>6. audit[id].target # NoUser
  BY <1>1, <1>2 DEF WipesAim
<1>7. t # 0 /\ writes[t].user = audit[id].target /\ writes[t].color # 0
  BY <1>3, <1>6 DEF AuthorOfTop, Shown
<1>8. Shows(Len(writes), t) /\ writes[t].cell = c
  BY <1>2, <1>3, <1>7, TopShows
<1>9. t \in 1..Len(writes) /\ \A i \in (t + 1)..Len(writes) : writes[i].cell # c
  BY <1>8 DEF Shows, Clear
<1>10. SUFFICES ASSUME t <= n PROVE FALSE
  BY <1>3, <1>5, <1>9
<1>11. Shows(n, t)
  BY <1>2, <1>5, <1>8, <1>9, <1>10 DEF Shows, Clear
<1>12. PICK o \in overlay : o.action = id /\ o.version = t
  BY <1>1, <1>2, <1>3, <1>5, <1>7, <1>9, <1>10, <1>11 DEF LogFits, WipeSees
<1>13. RowFits(o)
  BY <1>1 DEF LogFits
<1>14. o.cell = c
  BY <1>8, <1>12, <1>13 DEF RowFits
<1>15. audit[id].applied # 0
  BY <1>5, <1>12, <1>13 DEF RowFits, Answered
<1>16. PICK i \in 1..Len(writes) : writes[i].cell = c /\ n < i
  BY <1>3, <1>12, <1>13, <1>14, <1>15 DEF RowFits
<1>17. i \in (t + 1)..Len(writes)
  BY <1>2, <1>5, <1>9, <1>10, <1>16
<1> QED
  BY <1>9, <1>16, <1>17

\* A removal's write is for a row, and finds on top what the row records, unless somebody
\* wrote the cell after the log the removal was decided from.
LEMMA InductiveBuries == ModInductive => BuriesOnlyUnseen
<1> SUFFICES ASSUME ModInductive, NEW i \in DOMAIN writes, writes[i].by # 0,
                    IsRemoval(audit[writes[i].by].action)
             PROVE  \E o \in overlay :
                      /\ o.action = writes[i].by /\ o.cell = writes[i].cell
                      /\ \/ Top(i - 1, o.cell) = o.version
                         \/ Top(i - 1, o.cell) > audit[o.action].head
  BY DEF BuriesOnlyUnseen
<1>1. ModTypes /\ LogFits
  BY DEF ModInductive
<1>2. /\ writes \in Seq(Writes) /\ Len(writes) \in Nat /\ audit \in Seq(Entries) /\ i \in 1..Len(writes)
      /\ overlay \subseteq Removed
  BY <1>1 DEF ModTypes
<1>3. WriteFits(i)
  BY <1>1, <1>2 DEF LogFits
<1>4. PICK o \in overlay :
        /\ o.action = writes[i].by /\ o.cell = writes[i].cell
        /\ audit[writes[i].by].head < i
        /\ Clear(o.version, i - 1, o.cell) \/ ~ Clear(audit[writes[i].by].head, i - 1, o.cell)
  BY <1>3 DEF WriteFits
<1>5. PICK n, c, k : n = audit[o.action].head /\ c = o.cell /\ k = i - 1
  OBVIOUS
<1>6. RowFits(o)
  BY <1>1 DEF LogFits
<1>7. o.action \in 1..Len(audit) /\ Shows(n, o.version) /\ writes[o.version].cell = c
  BY <1>5, <1>6 DEF RowFits
<1>8. audit[o.action] \in Entries
  BY <1>2, <1>7
<1>9. n \in Nat /\ k \in 0..Len(writes) /\ n <= k /\ o.version \in 1..n
  <2>1. n \in Nat
    BY <1>5, <1>8 DEF Entries
  <2>2. n < i
    BY <1>4, <1>5
  <2>3. o.version \in 1..n
    BY <1>7 DEF Shows
  <2> QED
    BY <1>2, <1>5, <2>1, <2>2, <2>3
<1>10. /\ Top(k, c) \in 0..k /\ (Top(k, c) = 0 => Clear(0, k, c))
       /\ (Top(k, c) # 0 => Shows(k, Top(k, c)) /\ writes[Top(k, c)].cell = c)
       /\ \A v : Shows(k, v) /\ writes[v].cell = c => Top(k, c) = v
  BY <1>2, <1>9, TopShows
<1>11. CASE Clear(o.version, k, c)
  <2>1. Shows(k, o.version)
    BY <1>7, <1>9, <1>11 DEF Shows
  <2>2. Top(k, c) = o.version
    BY <1>7, <1>10, <2>1
  <2> QED
    BY <1>4, <1>5, <2>2
<1>12. CASE ~ Clear(n, k, c)
  <2>1. PICK j \in (n + 1)..k : writes[j].cell = c
    BY <1>12 DEF Clear
  <2>2. j \in 1..k /\ n < j
    BY <1>9
  <2>3. Top(k, c) # 0
    BY <1>9, <1>10, <2>1, <2>2 DEF Clear
  <2>4. Clear(Top(k, c), k, c)
    BY <1>10, <2>3 DEF Shows
  <2>5. ~ (j \in (Top(k, c) + 1)..k)
    BY <2>1, <2>4 DEF Clear
  <2>6. Top(k, c) > n
    BY <1>9, <1>10, <2>2, <2>5
  <2> QED
    BY <1>4, <1>5, <2>6
<1> QED
  BY <1>4, <1>5, <1>11, <1>12

\* Two restores of an action that rewrite the same cell are one: they have marked the same row.
LEMMA InductiveRestored == ModInductive => RestoredOnce
<1> SUFFICES ASSUME ModInductive, NEW id \in DOMAIN audit, NEW c \in Cells
    PROVE  Cardinality({i \in DOMAIN writes :
             /\ writes[i].cell = c /\ writes[i].by # 0
             /\ audit[writes[i].by].action = "restore" /\ audit[writes[i].by].ref = id}) <= 1
  BY DEF RestoredOnce
<1> DEFINE S == {i \in DOMAIN writes :
                   /\ writes[i].cell = c /\ writes[i].by # 0
                   /\ audit[writes[i].by].action = "restore" /\ audit[writes[i].by].ref = id}
<1>1. LogFits /\ writes \in Seq(Writes)
  BY DEF ModInductive, ModTypes
<1>2. DOMAIN writes = 1..Len(writes)
  BY <1>1
<1>3. ASSUME NEW i \in S
      PROVE  \E o \in overlay : o.action = id /\ o.cell = c /\ o.restored = writes[i].by
  <2>1. WriteFits(i)
    BY <1>1, <1>2 DEF LogFits
  <2> QED
    BY <2>1 DEF WriteFits
<1>4. ASSUME NEW i \in S, NEW j \in S PROVE i = j
  <2>1. writes[i].by = writes[j].by
    BY <1>1, <1>3 DEF LogFits, OneRowEach
  <2> QED
    BY <1>1, <1>2, <2>1 DEF LogFits, WrittenOnce
<1> HIDE DEF S
<1>5. S = {} \/ \E i : S = {i}
  BY <1>4
<1>6. Cardinality(S) <= 1
  <2>1. CASE S = {}
    <3>1. Cardinality(S) = 0
      BY <2>1, FS_EmptySet
    <3> QED
      BY <3>1
  <2>2. ASSUME NEW i, S = {i} PROVE Cardinality(S) <= 1
    <3>1. Cardinality(S) = 1
      BY <2>2, FS_Singleton
    <3> QED
      BY <3>1
  <2> QED
    BY <1>5, <2>1, <2>2
<1> QED
  BY <1>6 DEF S

\* A stamp is the version its row's entry has noted, behind the overwrite of its cell.
LEMMA InductiveStamp == ModInductive => StampIsOwn
<1> SUFFICES ASSUME ModInductive, NEW o \in overlay, o.overwrite # 0
    PROVE  /\ o.overwrite = audit[o.action].applied
           /\ \E i \in Overwrites(o.action) : writes[i].cell = o.cell /\ o.version < i /\ i <= o.overwrite
  BY DEF StampIsOwn
<1>1. LogFits /\ writes \in Seq(Writes) /\ audit \in Seq(Entries)
  BY DEF ModInductive, ModTypes
<1>2. RowFits(o)
  BY <1>1 DEF LogFits
<1>3. o.overwrite = audit[o.action].applied /\ o.action \in 1..Len(audit)
  BY <1>2 DEF RowFits
<1>4. PICK i \in 1..Len(writes) : /\ writes[i].by = o.action /\ writes[i].cell = o.cell
                                  /\ audit[o.action].head < i /\ i <= audit[o.action].applied
  BY <1>2, <1>3 DEF RowFits
<1>5. o.version \in 1..audit[o.action].head /\ audit[o.action].head \in Nat
  <2>1. audit[o.action] \in Entries
    BY <1>1, <1>3
  <2> QED
    BY <1>2, <2>1 DEF RowFits, Shows, Entries
<1>6. o.version < i
  BY <1>4, <1>5
<1>7. i \in Overwrites(o.action)
  BY <1>1, <1>4 DEF Overwrites
<1> QED
  BY <1>3, <1>4, <1>6, <1>7

\* The invariant, for every run of the moderation pipeline.
THEOREM ModerationIsInductive == ModSpec => []ModInductive
<1> QED
  BY InductiveInit, InductiveStep, PTL DEF ModSpec

\* After a ban-and-wipe that was answered no pixel of its target shows, but one placed
\* after the log it was planned from (runCellRewrite, planWipe): WipeLeavesNothing.
THEOREM WipesLeaveNothing == ModSpec => []WipeLeavesNothing
<1> QED
  BY ModerationIsInductive, InductiveWipe, PTL

\* A removal buries the placement its row records, or one too recent for the log it was
\* decided from (runCellRewrite, moderate.lua): BuriesOnlyUnseen.
THEOREM RemovalsBuryOnlyUnseen == ModSpec => []BuriesOnlyUnseen
<1> QED
  BY ModerationIsInductive, InductiveBuries, PTL

\* However many moderators restore an action, each of its cells is rewritten at most once
\* (PREAUTH_prepareRestore): RestoredOnce.
THEOREM RestoresAreSingle == ModSpec => []RestoredOnce
<1> QED
  BY ModerationIsInductive, InductiveRestored, PTL

\* The version stamped on a row is that of its own action's overwrite of its cell
\* (finalizeModerate): StampIsOwn.
THEOREM StampsAreOwn == ModSpec => []StampIsOwn
<1> QED
  BY ModerationIsInductive, InductiveStamp, PTL

\* What a moderator is shown is what confirming would do to the same log
\* (previewModerationTargets): PreviewMatchesAction.
THEOREM PreviewsMatchActions == ModSpec => []PreviewMatchesAction
<1>1. ModInductive => PreviewMatchesAction
  BY PreviewsMatch DEF ModInductive
<1> QED
  BY <1>1, ModerationIsInductive, PTL
=============================================================================
