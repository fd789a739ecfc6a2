---------------------------- MODULE ErasureProofs ----------------------------
(***************************************************************************)
(* Proofs about ownership and account deletion, for any number of users,   *)
(* canvases, rows and interruptions, and any batch size.                   *)
(***************************************************************************)
EXTENDS Erasure, SequenceTheorems, FiniteSetTheorems, WellFoundedInduction, TLAPS

-----------------------------------------------------------------------------
(***************************************************************************)
(* The inductive invariant, in parts.                                      *)
(***************************************************************************)
Slug == [login : Logins, canvas : BOOLEAN, n : Nat]
Canvas == [owner : Users, slug : Slug, status : {"active", "archived", "deleted"}, minted : BOOLEAN]
Row == [canvas : Nat, version : Nat, user : Users \cup {Anon}]
StreamEntry == [version : Nat, user : Users]
Mark == [kind : {"ban", "mod", "overlay", "audit"}, canvas : Nat, of : Users \cup {Anon}, by : Users \cup {Anon}]
Poll == [ids : SUBSET Users, queried : SUBSET Users, on : SUBSET Users]

\* The steps a deletion has behind it, by where it is.
AfterAudit == {"live", "cascade", "redis2", "identity"}
AfterOverlay == {"audit"} \cup AfterAudit
AfterMod == {"overlay"} \cup AfterOverlay
AfterBan == {"mod"} \cup AfterMod
AfterPlacements == {"ban"} \cup AfterBan
AfterStats == {"placements"} \cup AfterPlacements
AfterRedis == {"stats"} \cup AfterStats
AfterLive == {"cascade", "redis2", "identity"}
AfterCascade == {"redis2", "identity"}
Pcs == {"idle", "flush", "redis"} \cup AfterRedis
Job == [pc : Pcs, user : Users \cup {Anon}, owned : SUBSET Nat, member : SUBSET Nat, extra : SUBSET Nat]

\* A user whose deletion is past a step, or over.
Past(pcs, u) == u \in gone \/ (job.user = u /\ job.pc \in pcs)

Types ==
  /\ canvases \in Seq(Canvas)
  /\ profile \in [Users -> SUBSET [login : Logins \cup {NoLogin}]]
  /\ named \in [Users -> SUBSET (Logins \cup {NoLogin})]
  /\ live \in [Users -> {"none", "off", "on"}] /\ poll \subseteq Poll
  /\ stream \in [DOMAIN canvases -> Seq(StreamEntry)] /\ meta \in [DOMAIN canvases -> Nat]
  /\ rows \subseteq Row /\ IsFiniteSet(rows)
  /\ stats \subseteq Users \X Nat /\ IsFiniteSet(stats)
  /\ keys \subseteq Nat \X Users /\ marks \subseteq Mark
  /\ gone \subseteq Users /\ job \in Job
  /\ job.pc = "idle" => job = NoJob
  /\ job.pc # "idle" => job.user \in Users \ gone

\* Names lead to one canvas, owners have one active canvas.
Slugs ==
  /\ \A c, d \in Ids : canvases[c].slug = canvases[d].slug => c = d
  /\ \A c, d \in Ids : canvases[c].owner = canvases[d].owner
                       /\ canvases[c].status = "active" /\ canvases[d].status = "active" => c = d

\* A deletion knows the canvases of its user, and a deleted user does not come back.
Owned ==
  /\ \A c \in job.owned : c \in DOMAIN canvases /\ canvases[c].owner = job.user
  /\ "canvas_created" \notin races => (job.pc # "idle" => OwnedBy(job.user) \subseteq job.owned)
  /\ "canvas_created" \notin races => \A u \in Users : Past(AfterCascade, u) => OwnedBy(u) = {}
  /\ \A u \in Users : profile[u] # {} => named[u] # {}
  /\ \A u \in gone : profile[u] = {} /\ named[u] # {}
  /\ job.pc # "idle" => named[job.user] # {}

\* No mark names a user whose scan of its table is over.
Names(u, m) == u = m.of \/ u = m.by
Unmarked ==
  /\ \A m \in marks : m.kind \in {"mod", "overlay"} => m.by = Anon
  /\ "moderated" \notin races => \A u \in Users, m \in marks : Names(u, m) =>
       /\ m.kind = "ban" => ~Past(AfterBan, u)
       /\ m.kind = "mod" => ~Past(AfterMod, u)
       /\ m.kind = "overlay" => ~Past(AfterOverlay, u)
       /\ m.kind = "audit" => ~Past(AfterAudit, u)

\* No badge, and no poll that would bring it back.
Badge ==
  "stale_poll" \notin races => \A u \in Users : Past(AfterLive, u) =>
    live[u] = "none" /\ \A p \in poll : u \notin p.ids /\ u \notin p.queried

Attributed == "reconnected" \notin races => \A u \in Users : Past(AfterRedis, u) => u \notin attr

\* Nothing in the stream or the tables, and nothing under way to them.
DataRaces == {"open_connection", "slow_worker"}
Purged ==
  races \cap DataRaces = {} => \A u \in Users :
    /\ Past(AfterStats, u) => InStream(u) = {} /\ \A s \in stats : s[1] # u
    /\ Past(AfterPlacements, u) => \A r \in rows : r.user # u

\* Every key is on a canvas that stays, where its user has a row or will have one, or where
\* the second sweep comes.
KeyRaces == DataRaces \cup {"sweep_failed", "forgotten", "dropped"}
RowOn(c, u) == \E r \in rows : r.canvas = c /\ r.user = u
Extras == job.extra \ (job.owned \cup job.member)
SweptKey(k) ==
  /\ k[1] \in Ids
  /\ job.pc \in AfterRedis => k[1] \notin job.owned /\ (k[2] = job.user => k[1] \notin job.member)
  /\ k[1] \in InStream(k[2]) \/ RowOn(k[1], k[2]) \/ (k[2] = job.user /\ k[1] \in Extras)
  /\ ~Past({"identity"}, k[2])
Swept == races \cap KeyRaces = {} => \A k \in keys : SweptKey(k)

ErasureInv ==
  Types /\ Slugs /\ Owned /\ Unmarked /\ Badge /\ Attributed /\ Purged /\ Swept

-----------------------------------------------------------------------------
(***************************************************************************)
(* Slugs.                                                                  *)
(***************************************************************************)

\* A non-empty set of naturals has a least element.
LEMMA Least ==
  ASSUME NEW S \in SUBSET Nat, S # {}
  PROVE  \E s \in S : \A j \in S : s <= j
<1> DEFINE Less == {ss \in Nat \X Nat : ss[1] < ss[2]}
<1>1. IsWellFoundedOn(Less, Nat)
  BY NatLessThanWellFounded DEF OpToRel
<1> HIDE DEF Less
<1>2. PICK s \in S : \A m \in S : ~ (<<m, s>> \in Less)
  BY <1>1, WFMin
<1>3. \A m \in S : ~ (m < s)
  BY <1>2 DEF Less
<1> QED
  BY <1>3

\* A canvas that is still there, in the terms of the table.
LEMMA IdsAre ==
  ASSUME Types
  PROVE  /\ Len(canvases) \in Nat /\ DOMAIN canvases = 1..Len(canvases) /\ Ids \subseteq 1..Len(canvases)
         /\ \A c \in DOMAIN canvases : canvases[c] \in Canvas
BY LenProperties, ElementOfSeq DEF Types, Ids

Base == [login : Logins, canvas : BOOLEAN]
Free(base) == {n \in 1..(Len(canvases) + 1) : ~Taken(SlugOf(base, n))}

\* uniqueSlug finds a free number, as the table is finite, and takes the first.
LEMMA UniqueSlugIsFree ==
  ASSUME Types, NEW base \in Base
  PROVE  UniqueSlug(base) \in Slug /\ ~Taken(UniqueSlug(base))
<1>1. Len(canvases) \in Nat /\ Ids \subseteq 1..Len(canvases)
  BY IdsAre
<1>2. Free(base) # {}
  <2> SUFFICES ASSUME \A n \in 1..(Len(canvases) + 1) : Taken(SlugOf(base, n)) PROVE FALSE
    BY DEF Free
  <2> DEFINE f == [n \in 1..(Len(canvases) + 1) |-> CHOOSE c \in Ids : canvases[c].slug = SlugOf(base, n)]
  <2>1. \A n \in 1..(Len(canvases) + 1) : f[n] \in Ids /\ canvases[f[n]].slug = SlugOf(base, n)
    BY DEF Taken
  <2>2. f \in [1..(Len(canvases) + 1) -> 1..Len(canvases)]
    BY <1>1, <2>1
  <2> HIDE DEF f
  <2>3. /\ IsFiniteSet(1..Len(canvases)) /\ Cardinality(1..Len(canvases)) = Len(canvases)
        /\ IsFiniteSet(1..(Len(canvases) + 1)) /\ Cardinality(1..(Len(canvases) + 1)) = Len(canvases) + 1
    <3>1. Len(canvases) + 1 \in Int /\ 1 \in Int /\ Len(canvases) \in Int
      BY <1>1
    <3>2. Cardinality(1..Len(canvases)) = IF 1 > Len(canvases) THEN 0 ELSE Len(canvases) - 1 + 1
      BY <3>1, FS_Interval
    <3>3. Cardinality(1..(Len(canvases) + 1)) = IF 1 > Len(canvases) + 1 THEN 0 ELSE Len(canvases) + 1 - 1 + 1
      BY <3>1, FS_Interval
    <3>4. IsFiniteSet(1..Len(canvases)) /\ IsFiniteSet(1..(Len(canvases) + 1))
      BY <3>1, FS_Interval
    <3> QED
      BY <1>1, <3>2, <3>3, <3>4
  <2>4. Cardinality(1..Len(canvases)) < Cardinality(1..(Len(canvases) + 1))
    BY <1>1, <2>3
  <2>5. PICK x \in 1..(Len(canvases) + 1), y \in 1..(Len(canvases) + 1) : x # y /\ f[x] = f[y]
    BY <2>2, <2>3, <2>4, FS_PigeonHole
  <2>6. SlugOf(base, x) = SlugOf(base, y)
    BY <2>1, <2>5
  <2> QED
    BY <2>5, <2>6 DEF SlugOf
<1>3. PICK n \in Free(base) : \A m \in Free(base) : n <= m
  <2>1. Free(base) \in SUBSET Nat
    BY <1>1 DEF Free
  <2> QED
    BY <1>2, <2>1, Least
<1>4. n \in 1..(Len(canvases) + 1) /\ ~Taken(SlugOf(base, n))
  BY <1>3 DEF Free
<1>5. \A m \in 1..(n - 1) : Taken(SlugOf(base, m))
  <2> SUFFICES ASSUME NEW m \in 1..(n - 1), ~Taken(SlugOf(base, m)) PROVE FALSE
    OBVIOUS
  <2>1. m \in 1..(Len(canvases) + 1) /\ m < n /\ n \in Nat /\ m \in Nat
    BY <1>1, <1>4
  <2>2. n <= m
    BY <1>3, <2>1 DEF Free
  <2> QED
    BY <2>1, <2>2
<1>6. PICK k : k = CHOOSE l \in 1..(Len(canvases) + 1) :
                     ~Taken(SlugOf(base, l)) /\ \A m \in 1..(l - 1) : Taken(SlugOf(base, m))
  OBVIOUS
<1>7. k \in 1..(Len(canvases) + 1) /\ ~Taken(SlugOf(base, k))
  BY <1>4, <1>5, <1>6
<1>8. UniqueSlug(base) = SlugOf(base, k)
  BY <1>6 DEF UniqueSlug
<1>9. SlugOf(base, k) \in Slug
  BY <1>1, <1>7 DEF SlugOf, Slug, Base
<1> QED
  BY <1>7, <1>8, <1>9

-----------------------------------------------------------------------------
(***************************************************************************)
(* The table of canvases.                                                  *)
(***************************************************************************)

\* No canvas changes hands or name, or comes back once deleted.
Kept ==
  /\ canvases' \in Seq(Canvas) /\ DOMAIN canvases \subseteq DOMAIN canvases'
  /\ \A c \in DOMAIN canvases : /\ canvases'[c].owner = canvases[c].owner
                                /\ canvases'[c].slug = canvases[c].slug
                                /\ canvases'[c].status = "deleted" <=> canvases[c].status = "deleted"

\* A canvas under a free slug, the others of its owner archived (insertActiveCanvas).
Inserted(u, slug) ==
  /\ Kept /\ ~Taken(slug)
  /\ \A c \in DOMAIN canvases : canvases'[c].status = IF c \in ActiveOf(u) THEN "archived" ELSE canvases[c].status
  /\ \E n : /\ DOMAIN canvases' = DOMAIN canvases \cup {n} /\ n \notin DOMAIN canvases
            /\ canvases'[n].owner = u /\ canvases'[n].slug = slug /\ canvases'[n].status = "active"

\* The same canvases, of which one user has at most one more active, in place of the others.
Switched(u) ==
  /\ Kept /\ DOMAIN canvases' = DOMAIN canvases
  /\ \A c \in DOMAIN canvases : canvases'[c].status # canvases[c].status => canvases[c].owner = u
  /\ \E n : \A c \in OwnedBy(u) : canvases'[c].status = "active" => c = n

\* The insert of createCanvas and ensurePersonalCanvas.
LEMMA InsertInserts ==
  ASSUME Types, NEW u \in Users, NEW slug \in Slug, NEW minted \in BOOLEAN, Insert(u, slug, minted), ~Taken(slug)
  PROVE  Inserted(u, slug)
<1>1. /\ Len(canvases) \in Nat /\ DOMAIN canvases = 1..Len(canvases) /\ Ids \subseteq 1..Len(canvases)
      /\ \A c \in DOMAIN canvases : canvases[c] \in Canvas
  BY IdsAre
<1>2. PICK demoted : demoted = Demoted(u, {})
  OBVIOUS
<1>3. demoted = [c \in 1..Len(canvases) |-> IF c \in ActiveOf(u) THEN [canvases[c] EXCEPT !.status = "archived"]
                                            ELSE canvases[c]]
  BY <1>1, <1>2 DEF Demoted
<1>4. \A c \in 1..Len(canvases) :
        /\ demoted[c] \in Canvas /\ demoted[c].owner = canvases[c].owner /\ demoted[c].slug = canvases[c].slug
        /\ demoted[c].status = IF c \in ActiveOf(u) THEN "archived" ELSE canvases[c].status
  BY <1>1, <1>3 DEF Canvas
<1>5. demoted \in [1..Len(canvases) -> Canvas]
  BY <1>3, <1>4
<1>6. demoted \in Seq(Canvas) /\ Len(demoted) = Len(canvases)
  <2>1. demoted \in Seq(Canvas)
    BY <1>1, <1>5, SeqDef
  <2>2. DOMAIN demoted = 1..Len(demoted) /\ Len(demoted) \in Nat /\ DOMAIN demoted = 1..Len(canvases)
    BY <1>3, <2>1, LenProperties
  <2>3. 1..Len(demoted) = 1..Len(canvases)
    BY <2>2
  <2>4. ~(Len(demoted) < Len(canvases))
    <3>1. Len(demoted) < Len(canvases) =>
            Len(demoted) + 1 \in 1..Len(canvases) /\ Len(demoted) + 1 \notin 1..Len(demoted)
      BY <1>1, <2>2
    <3> QED
      BY <2>3, <3>1
  <2>5. ~(Len(canvases) < Len(demoted))
    <3>1. Len(canvases) < Len(demoted) =>
            Len(canvases) + 1 \in 1..Len(demoted) /\ Len(canvases) + 1 \notin 1..Len(canvases)
      BY <1>1, <2>2
    <3> QED
      BY <2>3, <3>1
  <2>6. Len(demoted) \in Nat /\ Len(canvases) \in Nat
    BY <1>1, <2>2
  <2>7. Len(demoted) = Len(canvases)
    BY <2>4, <2>5, <2>6
  <2> QED
    BY <2>1, <2>7
<1>7. PICK new : new = NewCanvas(u, slug, minted)
  OBVIOUS
<1>8. new \in Canvas /\ new.owner = u /\ new.slug = slug /\ new.status = "active"
  BY <1>7 DEF NewCanvas, Canvas
<1>9. canvases' = Append(demoted, new)
  BY <1>2, <1>7 DEF Insert
<1>10. /\ canvases' \in Seq(Canvas) /\ Len(canvases') = Len(canvases) + 1
       /\ \A c \in 1..Len(canvases) : canvases'[c] = demoted[c]
       /\ canvases'[Len(canvases) + 1] = new
  BY <1>6, <1>8, <1>9, AppendProperties
<1>11. DOMAIN canvases' = 1..(Len(canvases) + 1)
  BY <1>10, LenProperties
<1>12. DOMAIN canvases' = DOMAIN canvases \cup {Len(canvases) + 1} /\ Len(canvases) + 1 \notin DOMAIN canvases
  BY <1>1, <1>11
<1>13. \A c \in ActiveOf(u) : canvases[c].status = "active"
  BY DEF ActiveOf
<1>14. Kept
  BY <1>1, <1>4, <1>10, <1>12, <1>13 DEF Kept
<1> QED
  BY <1>1, <1>4, <1>8, <1>10, <1>12, <1>14 DEF Inserted

\* Names of profiles.
LEMMA LoginIs ==
  ASSUME Types, LoginAssumption, NEW u \in Users
  PROVE  Login(u) \in Logins \cup {NoLogin}
<1>1. profile[u] \in SUBSET [login : Logins \cup {NoLogin}]
  BY DEF Types
<1>2. CASE profile[u] = {}
  BY <1>2 DEF Login
<1>3. CASE profile[u] # {}
  <2>1. (CHOOSE p \in profile[u] : TRUE) \in profile[u]
    BY <1>3
  <2> QED
    BY <1>1, <1>3, <2>1 DEF Login
<1> QED
  BY <1>2, <1>3

\* What the functions of canvases.ts and auth.ts do to the table.
TableStep ==
  \/ UNCHANGED canvases
  \/ \E u \in Users, slug \in Slug : Inserted(u, slug)
  \/ \E u \in Users : Switched(u)

\* ensurePersonalCanvas mints at most one.
LEMMA EnsureInserts ==
  ASSUME Types, LoginAssumption, NEW u \in Users, Ensure(u)
  PROVE  TableStep
<1>1. CASE UNCHANGED canvases
  BY <1>1 DEF TableStep
<1>2. CASE Login(u) # NoLogin /\ Insert(u, UniqueSlug(PersonalBase(Login(u))), TRUE)
  <2>1. PersonalBase(Login(u)) \in Base
    BY <1>2, LoginIs DEF PersonalBase, Base
  <2>2. PICK slug : slug = UniqueSlug(PersonalBase(Login(u)))
    OBVIOUS
  <2>3. slug \in Slug /\ ~Taken(slug)
    BY <2>1, <2>2, UniqueSlugIsFree
  <2>4. Insert(u, slug, TRUE)
    BY <1>2, <2>2
  <2>5. Inserted(u, slug)
    BY <2>3, <2>4, InsertInserts
  <2> QED
    BY <2>3, <2>5 DEF TableStep
<1> QED
  BY <1>1, <1>2 DEF Ensure

\* activateCanvas and archiveCanvas.
LEMMA ActivateSwitches ==
  ASSUME Types, NEW u \in Users, NEW c \in DOMAIN canvases, Activate(u, c)
  PROVE  Switched(u)
<1>1. /\ Len(canvases) \in Nat /\ DOMAIN canvases = 1..Len(canvases)
      /\ \A d \in DOMAIN canvases : canvases[d] \in Canvas
  BY IdsAre
<1>2. c \in OwnedBy(u) /\ canvases' = [Demoted(u, {c}) EXCEPT ![c].status = "active"]
  BY DEF Activate
<1>3. canvases[c].owner = u /\ canvases[c].status # "deleted"
  BY <1>2 DEF OwnedBy, Ids
<1>4. DOMAIN canvases' = DOMAIN canvases /\ canvases'[c] = [Demoted(u, {c})[c] EXCEPT !.status = "active"]
  BY <1>2 DEF Demoted
<1>5. Demoted(u, {c})[c] = canvases[c]
  BY DEF Demoted
<1>6. \A d \in DOMAIN canvases : d # c =>
        canvases'[d] = IF d \in ActiveOf(u) THEN [canvases[d] EXCEPT !.status = "archived"] ELSE canvases[d]
  BY <1>2 DEF Demoted
<1>7. canvases'[c] \in Canvas /\ canvases'[c].owner = u /\ canvases'[c].slug = canvases[c].slug
      /\ canvases'[c].status = "active"
  BY <1>1, <1>3, <1>4, <1>5 DEF Canvas
<1>8. \A d \in DOMAIN canvases : d # c =>
        /\ canvases'[d] \in Canvas /\ canvases'[d].owner = canvases[d].owner /\ canvases'[d].slug = canvases[d].slug
        /\ canvases'[d].status = IF d \in ActiveOf(u) THEN "archived" ELSE canvases[d].status
  BY <1>1, <1>6 DEF Canvas
<1>9. canvases' \in Seq(Canvas)
  <2>1. canvases' = [d \in 1..Len(canvases) |-> canvases'[d]]
    BY <1>1, <1>2, <1>4
  <2>2. \A d \in 1..Len(canvases) : canvases'[d] \in Canvas
    BY <1>1, <1>7, <1>8
  <2>3. canvases' \in [1..Len(canvases) -> Canvas]
    BY <2>1, <2>2
  <2> QED
    BY <1>1, <2>3, SeqDef
<1>10. \A d \in ActiveOf(u) : canvases[d].status = "active" /\ canvases[d].owner = u
  BY DEF ActiveOf, OwnedBy
<1>11. Kept
  BY <1>1, <1>3, <1>4, <1>7, <1>8, <1>9, <1>10 DEF Kept
<1>12. \A d \in OwnedBy(u) : canvases'[d].status = "active" => d = c
  BY <1>8 DEF ActiveOf, OwnedBy, Ids
<1> QED
  BY <1>3, <1>4, <1>8, <1>10, <1>11, <1>12 DEF Switched

\* archiveCanvas takes the only active canvas of its owner.
LEMMA ArchiveSwitches ==
  ASSUME Types, Slugs, NEW u \in Users, NEW c \in DOMAIN canvases, Archive(u, c)
  PROVE  Switched(u)
<1>1. /\ Len(canvases) \in Nat /\ DOMAIN canvases = 1..Len(canvases)
      /\ \A d \in DOMAIN canvases : canvases[d] \in Canvas
  BY IdsAre
<1>2. c \in ActiveOf(u) /\ canvases' = [canvases EXCEPT ![c].status = "archived"]
  BY DEF Archive
<1>3. canvases[c].owner = u /\ canvases[c].status = "active" /\ c \in Ids
  BY <1>2 DEF ActiveOf, OwnedBy
<1>4. DOMAIN canvases' = DOMAIN canvases /\ canvases'[c] = [canvases[c] EXCEPT !.status = "archived"]
      /\ \A d \in DOMAIN canvases : d # c => canvases'[d] = canvases[d]
  BY <1>2
<1>5. canvases'[c] \in Canvas /\ canvases'[c].owner = u /\ canvases'[c].slug = canvases[c].slug
      /\ canvases'[c].status = "archived"
  BY <1>1, <1>3, <1>4 DEF Canvas
<1>6. canvases' \in Seq(Canvas)
  <2>1. canvases' = [d \in 1..Len(canvases) |-> canvases'[d]]
    BY <1>1, <1>2, <1>4
  <2>2. \A d \in 1..Len(canvases) : canvases'[d] \in Canvas
    BY <1>1, <1>4, <1>5
  <2>3. canvases' \in [1..Len(canvases) -> Canvas]
    BY <2>1, <2>2
  <2> QED
    BY <1>1, <2>3, SeqDef
<1>7. Kept
  BY <1>1, <1>3, <1>4, <1>5, <1>6 DEF Kept
<1>8. \A d \in OwnedBy(u) : canvases'[d].status = "active" => d = c
  <2> SUFFICES ASSUME NEW d \in OwnedBy(u), canvases'[d].status = "active", d # c PROVE FALSE
    OBVIOUS
  <2>1. d \in Ids /\ d \in DOMAIN canvases /\ canvases[d].owner = u
    BY DEF OwnedBy, Ids
  <2>2. canvases[d].status = "active"
    BY <1>4, <2>1
  <2> QED
    BY <1>3, <2>1, <2>2 DEF Slugs
<1> QED
  BY <1>3, <1>4, <1>5, <1>7, <1>8 DEF Switched

\* Every function of canvases.ts and auth.ts is such a step.
LEMMA OwnershipIsTableStep ==
  ASSUME Types, Slugs, LoginAssumption, OwnershipNext
  PROVE  TableStep
<1>1. PICK u \in Users :
        \/ \E login \in Logins \cup {NoLogin} : SignUp(u, login)
        \/ EnsureJob(u) \/ EnsureOnMount(u) \/ Backfill(u) \/ BackfillFails(u)
        \/ \E login \in Logins, explicit \in BOOLEAN : CreateCanvas(u, login, explicit)
        \/ \E c \in DOMAIN canvases : Activate(u, c) \/ Archive(u, c)
  BY DEF OwnershipNext
<1>2. CASE (\E login \in Logins \cup {NoLogin} : SignUp(u, login)) \/ Backfill(u) \/ BackfillFails(u)
  BY <1>2 DEF SignUp, Backfill, BackfillFails, TableStep
<1>3. CASE EnsureJob(u) \/ EnsureOnMount(u)
  <2>1. Ensure(u)
    BY <1>3 DEF EnsureJob, EnsureOnMount
  <2> QED
    BY <2>1, EnsureInserts
<1>4. CASE \E login \in Logins, explicit \in BOOLEAN : CreateCanvas(u, login, explicit)
  <2>1. PICK login \in Logins, explicit \in BOOLEAN : CreateCanvas(u, login, explicit)
    BY <1>4
  <2>2. PICK base : base = [login |-> login, canvas |-> FALSE]
    OBVIOUS
  <2>3. base \in Base
    BY <2>2 DEF Base
  <2>4. PICK slug \in Slug : ~Taken(slug) /\ Insert(u, slug, FALSE)
    <3>1. CASE explicit
      <4>1. SlugOf(base, 1) \in Slug
        BY <2>2 DEF SlugOf, Slug
      <4>2. ~Taken(SlugOf(base, 1)) /\ Insert(u, SlugOf(base, 1), FALSE)
        BY <2>1, <2>2, <3>1 DEF CreateCanvas
      <4> QED
        BY <4>1, <4>2
    <3>2. CASE ~explicit
      <4>1. Insert(u, UniqueSlug(base), FALSE)
        BY <2>1, <2>2, <3>2 DEF CreateCanvas
      <4> QED
        BY <2>3, <4>1, UniqueSlugIsFree
    <3> QED
      BY <3>1, <3>2
  <2>5. Inserted(u, slug)
    BY <2>4, InsertInserts
  <2> QED
    BY <2>5 DEF TableStep
<1>5. CASE \E c \in DOMAIN canvases : Activate(u, c) \/ Archive(u, c)
  BY <1>5, ActivateSwitches, ArchiveSwitches DEF TableStep
<1> QED
  BY <1>1, <1>2, <1>3, <1>4, <1>5

\* An insert or a switch leaves names and active canvases unique.
LEMMA TableStepKeepsSlugs ==
  ASSUME Types, Slugs, TableStep
  PROVE  Slugs'
<1>1. CASE UNCHANGED canvases
  BY <1>1 DEF Slugs, Ids
<1>2. CASE \E u \in Users, slug \in Slug : Inserted(u, slug)
  <2>1. PICK u \in Users, slug \in Slug : Inserted(u, slug)
    BY <1>2
  <2>2. PICK n : /\ DOMAIN canvases' = DOMAIN canvases \cup {n} /\ n \notin DOMAIN canvases
                 /\ canvases'[n].owner = u /\ canvases'[n].slug = slug /\ canvases'[n].status = "active"
    BY <2>1 DEF Inserted
  <2>3. Ids' = Ids \cup {n}
    BY <2>1, <2>2 DEF Inserted, Kept, Ids
  <2>4. \A c \in Ids : /\ canvases'[c].owner = canvases[c].owner /\ canvases'[c].slug = canvases[c].slug
                       /\ canvases'[c].slug # slug
                       /\ canvases'[c].status = "active" => canvases[c].status = "active" /\ canvases[c].owner # u
    BY <2>1 DEF Inserted, Kept, Ids, Taken, ActiveOf, OwnedBy
  <2>5. \A c, d \in Ids' : canvases'[c].slug = canvases'[d].slug => c = d
    BY <2>2, <2>3, <2>4 DEF Slugs
  <2>6. \A c, d \in Ids' : canvases'[c].owner = canvases'[d].owner
          /\ canvases'[c].status = "active" /\ canvases'[d].status = "active" => c = d
    BY <2>2, <2>3, <2>4 DEF Slugs
  <2> QED
    BY <2>5, <2>6 DEF Slugs
<1>3. CASE \E u \in Users : Switched(u)
  <2>1. PICK u \in Users : Switched(u)
    BY <1>3
  <2>2. Ids' = Ids
    BY <2>1 DEF Switched, Kept, Ids
  <2>3. \A c \in Ids : /\ canvases'[c].owner = canvases[c].owner /\ canvases'[c].slug = canvases[c].slug
                       /\ canvases'[c].status # canvases[c].status => canvases[c].owner = u
    BY <2>1 DEF Switched, Kept, Ids
  <2>4. PICK n : \A c \in OwnedBy(u) : canvases'[c].status = "active" => c = n
    BY <2>1 DEF Switched
  <2>5. \A c, d \in Ids' : canvases'[c].slug = canvases'[d].slug => c = d
    BY <2>2, <2>3 DEF Slugs
  <2>6. ASSUME NEW c \in Ids, NEW d \in Ids, canvases'[c].owner = canvases'[d].owner,
               canvases'[c].status = "active", canvases'[d].status = "active"
        PROVE  c = d
    <3>1. CASE canvases[c].owner = u
      BY <2>3, <2>4, <2>6, <3>1 DEF OwnedBy
    <3>2. CASE canvases[c].owner # u
      BY <2>3, <2>6, <3>2 DEF Slugs
    <3> QED
      BY <3>1, <3>2
  <2> QED
    BY <2>2, <2>5, <2>6 DEF Slugs
<1> QED
  BY <1>1, <1>2, <1>3 DEF TableStep

-----------------------------------------------------------------------------
(***************************************************************************)
(* Where a deletion goes.                                                  *)
(***************************************************************************)

\* The step that follows each one that asks for it by position.
LEMMA AfterIs ==
  /\ After("placements") = "ban" /\ After("ban") = "mod" /\ After("mod") = "overlay"
  /\ After("overlay") = "audit" /\ After("audit") = "live"
<1>1. DOMAIN Steps = 1..12
  BY DEF Steps
<1>2. /\ Steps[1] = "flush" /\ Steps[2] = "redis" /\ Steps[3] = "stats" /\ Steps[4] = "placements"
      /\ Steps[5] = "ban" /\ Steps[6] = "mod" /\ Steps[7] = "overlay" /\ Steps[8] = "audit" /\ Steps[9] = "live"
      /\ Steps[10] = "cascade" /\ Steps[11] = "redis2" /\ Steps[12] = "identity"
  BY DEF Steps
<1>3. \A i \in 1..12 : /\ Steps[i] = "placements" <=> i = 4
                       /\ Steps[i] = "ban" <=> i = 5
                       /\ Steps[i] = "mod" <=> i = 6
                       /\ Steps[i] = "overlay" <=> i = 7
                       /\ Steps[i] = "audit" <=> i = 8
  <2> SUFFICES ASSUME NEW i \in 1..12
               PROVE  /\ Steps[i] = "placements" <=> i = 4
                      /\ Steps[i] = "ban" <=> i = 5
                      /\ Steps[i] = "mod" <=> i = 6
                      /\ Steps[i] = "overlay" <=> i = 7
                      /\ Steps[i] = "audit" <=> i = 8
    OBVIOUS
  <2>1. i = 1 \/ i = 2 \/ i = 3 \/ i = 4 \/ i = 5 \/ i = 6 \/ i = 7 \/ i = 8 \/ i = 9 \/ i = 10 \/ i = 11 \/ i = 12
    OBVIOUS
  <2> QED
    BY <1>2, <2>1
<1>4. (CHOOSE i \in DOMAIN Steps : Steps[i] = "placements") = 4
  BY <1>1, <1>3
<1>5. (CHOOSE i \in DOMAIN Steps : Steps[i] = "ban") = 5
  BY <1>1, <1>3
<1>6. (CHOOSE i \in DOMAIN Steps : Steps[i] = "mod") = 6
  BY <1>1, <1>3
<1>7. (CHOOSE i \in DOMAIN Steps : Steps[i] = "overlay") = 7
  BY <1>1, <1>3
<1>8. (CHOOSE i \in DOMAIN Steps : Steps[i] = "audit") = 8
  BY <1>1, <1>3
<1>9. After("placements") = Steps[4 + 1]
  BY <1>4 DEF After
<1>10. After("ban") = Steps[5 + 1]
  BY <1>5 DEF After
<1>11. After("mod") = Steps[6 + 1]
  BY <1>6 DEF After
<1>12. After("overlay") = Steps[7 + 1]
  BY <1>7 DEF After
<1>13. After("audit") = Steps[8 + 1]
  BY <1>8 DEF After
<1> QED
  BY <1>2, <1>9, <1>10, <1>11, <1>12, <1>13

\* No step takes back a recorded race.
LEMMA RacesGrow ==
  ASSUME Next
  PROVE  races \subseteq races'
<1>1. CASE OwnershipSteps \/ LiveSteps
  BY <1>1 DEF OwnershipSteps, LiveSteps, Race
<1>2. CASE Traffic
  BY <1>2 DEF Traffic, Connect, Place, Drain, WorkerBoot, Moderate, Race
<1>3. CASE \E u \in Users : StartErasure(u)
  BY <1>3 DEF StartErasure
<1>4. CASE JobStep
  BY <1>4 DEF JobStep, FlushAndWait, FirstSweep, PurgeStats, PurgePlacements, ScrubBans, ScrubModerators,
    ScrubPixelModeration, ScrubAudit, Scrub, DeleteLiveStatus, CascadeCanvas, CascadeDone, SecondSweep,
    DeleteIdentity, Race
<1>5. CASE SecondSweepFails \/ ErasureDies
  BY <1>5 DEF SecondSweepFails, ErasureDies, Race
<1> QED
  BY <1>1, <1>2, <1>3, <1>4, <1>5 DEF Next

Moved(p, q) ==
  /\ job.pc = p /\ job'.pc = q /\ job'.user = job.user /\ job'.owned = job.owned /\ job'.member = job.member
  /\ job' \in Job /\ gone' = gone

Starts(u) ==
  /\ job = NoJob /\ u \in Users \ gone /\ gone' = gone /\ job' \in Job /\ job'.pc = "flush" /\ job'.user = u
Dies == job # NoJob /\ job' = NoJob /\ gone' = gone
Ends == job.pc = "identity" /\ job' = NoJob /\ gone' = gone \cup {job.user}

\* Everything that happens to a deletion.
JobMove ==
  \/ UNCHANGED <<job, gone>>
  \/ FlushAndWait /\ Moved("flush", "redis")
  \/ FirstSweep /\ Moved("redis", "stats")
  \/ PurgeStats /\ Moved("stats", "placements")
  \/ PurgePlacements /\ Moved("placements", "ban")
  \/ PurgePlacements /\ Moved("placements", "placements")
  \/ ScrubBans /\ Moved("ban", "mod")
  \/ ScrubModerators /\ Moved("mod", "overlay")
  \/ ScrubPixelModeration /\ Moved("overlay", "audit")
  \/ ScrubAudit /\ Moved("audit", "live")
  \/ DeleteLiveStatus /\ Moved("live", "cascade")
  \/ CascadeDone /\ Moved("cascade", "redis2")
  \/ (SecondSweep \/ SecondSweepFails) /\ Moved("redis2", "identity")
  \/ \E u \in Users : StartErasure(u) /\ Starts(u)
  \/ ErasureDies /\ Dies
  \/ DeleteIdentity /\ Ends

\* Moving on changes the step only.
LEMMA GotoMoves ==
  ASSUME Types, NEW p \in Pcs, NEW q \in Pcs, At(p), Goto(q), gone' = gone
  PROVE  Moved(p, q)
BY DEF Types, Job, At, Goto, Moved

\* A step of deleteMyAccount is taken from where the one before it ended.
LEMMA JobMoves ==
  ASSUME Types, Next
  PROVE  JobMove
<1> USE DEF Pcs, AfterRedis, AfterStats, AfterPlacements, AfterBan, AfterMod, AfterOverlay, AfterAudit
<1>1. CASE OwnershipSteps \/ LiveSteps \/ Traffic
  BY <1>1 DEF OwnershipSteps, LiveSteps, Traffic, Connect, Place, Drain, WorkerBoot, Moderate, JobMove
<1>2. CASE \E u \in Users : StartErasure(u)
  <2>1. PICK u \in Users : StartErasure(u)
    BY <1>2
  <2>2. OwnedBy(u) \in SUBSET Nat /\ Ids \in SUBSET Nat
    BY IdsAre DEF OwnedBy
  <2>3. Starts(u)
    BY <2>1, <2>2 DEF StartErasure, Starts, Job
  <2> QED
    BY <2>1, <2>3 DEF JobMove
<1>3. CASE FlushAndWait
  <2>1. Moved("flush", "redis")
    BY <1>3, GotoMoves DEF FlushAndWait
  <2> QED
    BY <1>3, <2>1 DEF JobMove
<1>4. CASE FirstSweep
  <2>1. Moved("redis", "stats")
    BY <1>4, GotoMoves DEF FirstSweep
  <2> QED
    BY <1>4, <2>1 DEF JobMove
<1>5. CASE PurgeStats
  <2>1. gone' = gone /\ At("stats") /\ (Goto("placements") \/ UNCHANGED job)
    BY <1>5 DEF PurgeStats
  <2>2. CASE UNCHANGED job
    BY <2>1, <2>2 DEF JobMove
  <2>3. CASE Goto("placements")
    <3>1. Moved("stats", "placements")
      BY <2>1, <2>3, GotoMoves
    <3> QED
      BY <1>5, <3>1 DEF JobMove
  <2> QED
    BY <2>1, <2>2, <2>3
<1>6. CASE PurgePlacements
  <2>1. /\ gone' = gone /\ job.pc = "placements"
        /\ \E batch \in SUBSET rows, q \in {"placements", After(job.pc)} :
             job' = [job EXCEPT !.extra = @ \cup {r.canvas : r \in batch}, !.pc = q]
    <3>1. PICK mine : mine = {r \in rows : r.user = job.user}
      OBVIOUS
    <3>2. PICK batch \in kSubset(Min({BatchSize, Cardinality(mine)}), mine) :
            job' = [job EXCEPT !.extra = @ \cup {r.canvas : r \in batch},
                               !.pc = IF Cardinality(mine) < BatchSize THEN After(@) ELSE @]
      BY <1>6, <3>1 DEF PurgePlacements
    <3>3. batch \in SUBSET rows
      BY <3>1, <3>2 DEF kSubset
    <3> QED
      BY <1>6, <3>2, <3>3 DEF PurgePlacements, At
  <2>2. PICK batch \in SUBSET rows, q \in {"placements", After(job.pc)} :
             job' = [job EXCEPT !.extra = @ \cup {r.canvas : r \in batch}, !.pc = q]
    BY <2>1
  <2>3. q \in {"placements", "ban"}
    BY <2>1, <2>2, AfterIs
  <2>4. {r.canvas : r \in batch} \in SUBSET Nat
    BY DEF Types, Row
  <2>5. job' \in Job /\ Moved("placements", q)
    BY <2>1, <2>2, <2>3, <2>4 DEF Types, Job, Moved
  <2> QED
    BY <1>6, <2>3, <2>5 DEF JobMove
<1>7. CASE ScrubBans
  <2>1. Moved("ban", "mod")
    BY <1>7, GotoMoves, AfterIs DEF ScrubBans, Scrub
  <2> QED
    BY <1>7, <2>1 DEF JobMove
<1>8. CASE ScrubModerators
  <2>1. Moved("mod", "overlay")
    BY <1>8, GotoMoves, AfterIs DEF ScrubModerators, Scrub
  <2> QED
    BY <1>8, <2>1 DEF JobMove
<1>9. CASE ScrubPixelModeration
  <2>1. Moved("overlay", "audit")
    BY <1>9, GotoMoves, AfterIs DEF ScrubPixelModeration, Scrub
  <2> QED
    BY <1>9, <2>1 DEF JobMove
<1>10. CASE ScrubAudit
  <2>1. Moved("audit", "live")
    BY <1>10, GotoMoves, AfterIs DEF ScrubAudit, Scrub
  <2> QED
    BY <1>10, <2>1 DEF JobMove
<1>11. CASE DeleteLiveStatus
  <2>1. Moved("live", "cascade")
    BY <1>11, GotoMoves DEF DeleteLiveStatus
  <2> QED
    BY <1>11, <2>1 DEF JobMove
<1>12. CASE \E c \in DOMAIN canvases : CascadeCanvas(c)
  BY <1>12 DEF CascadeCanvas, JobMove
<1>13. CASE CascadeDone
  <2>1. Moved("cascade", "redis2")
    BY <1>13, GotoMoves DEF CascadeDone
  <2> QED
    BY <1>13, <2>1 DEF JobMove
<1>14. CASE SecondSweep \/ SecondSweepFails
  <2>1. Moved("redis2", "identity")
    BY <1>14, GotoMoves DEF SecondSweep, SecondSweepFails
  <2> QED
    BY <1>14, <2>1 DEF JobMove
<1>15. CASE DeleteIdentity
  BY <1>15 DEF DeleteIdentity, Ends, At, JobMove
<1>16. CASE ErasureDies
  BY <1>16 DEF ErasureDies, Dies, JobMove
<1> QED
  BY <1>1, <1>2, <1>3, <1>4, <1>5, <1>6, <1>7, <1>8, <1>9, <1>10, <1>11, <1>12, <1>13, <1>14, <1>15, <1>16
  DEF Next, JobStep

\* A deletion that comes past a step.
Crosses(pcs) == job.pc \notin pcs /\ job'.pc \in pcs /\ job'.user = job.user /\ gone' = gone
StaysOut(pcs) == \A u \in Users : Past(pcs, u)' => Past(pcs, u)

\* A user whom a move brings past a step is the one whose deletion takes it.
LEMMA PastMoves ==
  ASSUME JobMove, NEW pcs, "identity" \in pcs, "idle" \notin pcs, "flush" \notin pcs
  PROVE  Crosses(pcs) \/ StaysOut(pcs)
<1>1. CASE UNCHANGED <<job, gone>>
  BY <1>1 DEF StaysOut, Past
<1>2. CASE \E p, q \in Pcs : Moved(p, q)
  BY <1>2 DEF Moved, Crosses, StaysOut, Past
<1>3. CASE \E u \in Users : Starts(u)
  BY <1>3 DEF Starts, StaysOut, Past
<1>4. CASE Dies \/ Ends
  BY <1>4 DEF Dies, Ends, NoJob, StaysOut, Past
<1> QED
  BY <1>1, <1>2, <1>3, <1>4
  DEF JobMove, Pcs, AfterRedis, AfterStats, AfterPlacements, AfterBan, AfterMod, AfterOverlay, AfterAudit

\* Which step each set is past of.
LEMMA CrossingIs ==
  ASSUME JobMove
  PROVE  /\ Crosses(AfterRedis) => FirstSweep
         /\ Crosses(AfterStats) => PurgeStats /\ Moved("stats", "placements")
         /\ Crosses(AfterPlacements) => PurgePlacements /\ Moved("placements", "ban")
         /\ Crosses(AfterBan) => ScrubBans
         /\ Crosses(AfterMod) => ScrubModerators
         /\ Crosses(AfterOverlay) => ScrubPixelModeration
         /\ Crosses(AfterAudit) => ScrubAudit
         /\ Crosses(AfterLive) => DeleteLiveStatus
         /\ Crosses(AfterCascade) => CascadeDone
         /\ Crosses({"identity"}) => SecondSweep \/ SecondSweepFails
<1>1. CASE UNCHANGED <<job, gone>>
  BY <1>1 DEF Crosses
<1>2. CASE \E u \in Users : Starts(u)
  BY <1>2 DEF Starts, Crosses, AfterRedis, AfterStats, AfterPlacements, AfterBan, AfterMod, AfterOverlay, AfterAudit,
    AfterLive, AfterCascade
<1>3. CASE Dies \/ Ends
  BY <1>3 DEF Dies, Ends, NoJob, Crosses, AfterRedis, AfterStats, AfterPlacements, AfterBan, AfterMod, AfterOverlay,
    AfterAudit, AfterLive, AfterCascade
<1>4. \A p, q \in Pcs : Moved(p, q) =>
        /\ Crosses(AfterRedis) => p \notin AfterRedis /\ q \in AfterRedis
        /\ Crosses(AfterStats) => p \notin AfterStats /\ q \in AfterStats
        /\ Crosses(AfterPlacements) => p \notin AfterPlacements /\ q \in AfterPlacements
        /\ Crosses(AfterBan) => p \notin AfterBan /\ q \in AfterBan
        /\ Crosses(AfterMod) => p \notin AfterMod /\ q \in AfterMod
        /\ Crosses(AfterOverlay) => p \notin AfterOverlay /\ q \in AfterOverlay
        /\ Crosses(AfterAudit) => p \notin AfterAudit /\ q \in AfterAudit
        /\ Crosses(AfterLive) => p \notin AfterLive /\ q \in AfterLive
        /\ Crosses(AfterCascade) => p \notin AfterCascade /\ q \in AfterCascade
        /\ Crosses({"identity"}) => p # "identity" /\ q = "identity"
  BY DEF Crosses, Moved
<1> QED
  BY <1>1, <1>2, <1>3, <1>4 DEF JobMove, Pcs, AfterRedis, AfterStats, AfterPlacements, AfterBan, AfterMod,
    AfterOverlay, AfterAudit, AfterLive, AfterCascade

\* Which steps change what.
Framed ==
  /\ UNCHANGED canvases \/ OwnershipSteps \/ \E c \in DOMAIN canvases : CascadeCanvas(c)
  /\ UNCHANGED <<profile, named>> \/ OwnershipSteps \/ DeleteIdentity
  /\ UNCHANGED <<live, poll>> \/ LiveSteps \/ DeleteLiveStatus
  /\ \/ UNCHANGED <<stream, meta>> \/ OwnershipSteps \/ FirstSweep \/ SecondSweep
     \/ \E c \in DOMAIN canvases : Drain(c) \/ \E u \in Users : Place(u, c)
  /\ UNCHANGED keys \/ FirstSweep \/ SecondSweep \/ \E u \in Users, c \in DOMAIN canvases : Place(u, c)
  /\ UNCHANGED attr \/ FirstSweep \/ SecondSweep \/ \E u \in Users : Connect(u)
  /\ UNCHANGED rows \/ PurgePlacements \/ \E c \in DOMAIN canvases : Drain(c) \/ CascadeCanvas(c)
  /\ UNCHANGED stats \/ PurgeStats \/ \E c \in DOMAIN canvases : Drain(c) \/ CascadeCanvas(c)
  /\ \/ UNCHANGED marks \/ ScrubBans \/ ScrubModerators \/ ScrubPixelModeration \/ ScrubAudit
     \/ \E c \in DOMAIN canvases : CascadeCanvas(c)
     \/ \E m, u \in Users, c \in DOMAIN canvases, kind \in {"ban", "mod", "overlay"} : Moderate(m, u, c, kind)

\* Each handler writes its own tables only.
LEMMA StepsFrame ==
  ASSUME Next
  PROVE  Framed
<1> USE DEF ownVars, liveVars, redisVars, dataVars
<1>1. CASE OwnershipSteps
  BY <1>1 DEF OwnershipSteps, Framed
<1>2. CASE LiveSteps
  <2>1. UNCHANGED <<profile, canvases, named>>
    BY <1>2 DEF LiveSteps, LiveNext, TwitchChanges, StartPoll, AskHelix, HelixFails, ApplyStatus
  <2> QED
    BY <1>2, <2>1 DEF LiveSteps, Framed
<1>3. CASE Traffic
  BY <1>3 DEF Traffic, Connect, Place, Drain, WorkerBoot, Moderate, Framed
<1>4. CASE (\E u \in Users : StartErasure(u)) \/ SecondSweepFails \/ ErasureDies
  BY <1>4 DEF StartErasure, SecondSweepFails, ErasureDies, Framed
<1>5. CASE FlushAndWait \/ PurgeStats \/ PurgePlacements \/ DeleteLiveStatus \/ CascadeDone \/ DeleteIdentity
  BY <1>5 DEF FlushAndWait, PurgeStats, PurgePlacements, DeleteLiveStatus, CascadeDone, DeleteIdentity, Framed
<1>6. CASE ScrubBans \/ ScrubModerators \/ ScrubPixelModeration \/ ScrubAudit
  BY <1>6 DEF ScrubBans, ScrubModerators, ScrubPixelModeration, ScrubAudit, Scrub, Framed
<1>7. CASE FirstSweep \/ SecondSweep
  BY <1>7 DEF FirstSweep, SecondSweep, Framed
<1>8. CASE \E c \in DOMAIN canvases : CascadeCanvas(c)
  BY <1>8 DEF CascadeCanvas, Framed
<1> QED
  BY <1>1, <1>2, <1>3, <1>4, <1>5, <1>6, <1>7, <1>8 DEF Next, JobStep

-----------------------------------------------------------------------------
(***************************************************************************)
(* Types.                                                                  *)
(***************************************************************************)

\* The rows of the tables change by these.
LEMMA CascadeKeeps ==
  ASSUME Types, NEW c \in DOMAIN canvases, CascadeCanvas(c)
  PROVE  /\ canvases' \in Seq(Canvas) /\ DOMAIN canvases' = DOMAIN canvases
         /\ Ids' \subseteq Ids
         /\ \A d \in DOMAIN canvases : /\ canvases'[d].owner = canvases[d].owner
                                       /\ canvases'[d].slug = canvases[d].slug
                                       /\ d \in Ids' => canvases'[d] = canvases[d]
                                       /\ d # c => canvases'[d] = canvases[d]
<1>1. /\ Len(canvases) \in Nat /\ DOMAIN canvases = 1..Len(canvases) /\ canvases \in Seq(Canvas)
      /\ \A d \in DOMAIN canvases : canvases[d] \in Canvas
  BY IdsAre DEF Types
<1>2. UNCHANGED canvases \/ canvases' = [canvases EXCEPT ![c].status = "deleted"]
  BY DEF CascadeCanvas
<1>3. CASE UNCHANGED canvases
  BY <1>1, <1>3 DEF Ids
<1>4. CASE canvases' = [canvases EXCEPT ![c].status = "deleted"]
  <2>1. DOMAIN canvases' = DOMAIN canvases /\ canvases'[c] = [canvases[c] EXCEPT !.status = "deleted"]
        /\ \A d \in DOMAIN canvases : d # c => canvases'[d] = canvases[d]
    BY <1>4
  <2>2. canvases'[c] \in Canvas /\ canvases'[c].owner = canvases[c].owner /\ canvases'[c].slug = canvases[c].slug
        /\ canvases'[c].status = "deleted"
    BY <1>1, <2>1 DEF Canvas
  <2>3. canvases' \in Seq(Canvas)
    <3>1. canvases' = [d \in 1..Len(canvases) |-> canvases'[d]]
      BY <1>1, <1>4, <2>1
    <3>2. \A d \in 1..Len(canvases) : canvases'[d] \in Canvas
      BY <1>1, <2>1, <2>2
    <3>3. canvases' \in [1..Len(canvases) -> Canvas]
      BY <3>1, <3>2
    <3> QED
      BY <1>1, <3>3, SeqDef
  <2> QED
    BY <2>1, <2>2, <2>3 DEF Ids
<1> QED
  BY <1>2, <1>3, <1>4

\* The table of canvases only grows.
LEMMA TableTyped ==
  ASSUME Types, Slugs, LoginAssumption, Next
  PROVE  /\ canvases' \in Seq(Canvas) /\ DOMAIN canvases \subseteq DOMAIN canvases'
         /\ DOMAIN canvases' \subseteq Nat
<1>1. canvases' \in Seq(Canvas) /\ DOMAIN canvases \subseteq DOMAIN canvases'
  <2>1. CASE UNCHANGED canvases
    BY <2>1 DEF Types
  <2>2. CASE OwnershipSteps
    <3>1. TableStep
      BY <2>2, OwnershipIsTableStep DEF OwnershipSteps
    <3> QED
      BY <3>1 DEF TableStep, Inserted, Switched, Kept, Types
  <2>3. CASE \E c \in DOMAIN canvases : CascadeCanvas(c)
    BY <2>3, CascadeKeeps
  <2> QED
    BY <2>1, <2>2, <2>3, StepsFrame DEF Framed
<1>2. DOMAIN canvases' = 1..Len(canvases') /\ Len(canvases') \in Nat
  BY <1>1, LenProperties
<1> QED
  BY <1>1, <1>2

\* A user has one profile at most, and its logins are the names it had.
LEMMA NamesTyped ==
  ASSUME Types, LoginAssumption, Next
  PROVE  /\ profile' \in [Users -> SUBSET [login : Logins \cup {NoLogin}]]
         /\ named' \in [Users -> SUBSET (Logins \cup {NoLogin})]
<1>1. CASE UNCHANGED <<profile, named>>
  BY <1>1 DEF Types
<1>2. CASE OwnershipSteps
  <2>1. PICK u \in Users :
          \/ \E login \in Logins \cup {NoLogin} : SignUp(u, login)
          \/ Backfill(u)
          \/ UNCHANGED <<profile, named>>
    BY <1>2 DEF OwnershipSteps, OwnershipNext, EnsureJob, EnsureOnMount, BackfillFails, CreateCanvas, Activate, Archive
  <2>2. CASE \E login \in Logins \cup {NoLogin} : SignUp(u, login)
    BY <2>2 DEF SignUp, Types
  <2>3. CASE Backfill(u)
    <3>1. {[p EXCEPT !.login = ExactLogin[u]] : p \in profile[u]} \in SUBSET [login : Logins \cup {NoLogin}]
      BY LoginAssumption DEF LoginAssumption, Types
    <3>2. ExactLogin[u] \in Logins
      BY LoginAssumption DEF LoginAssumption
    <3>3. profile' \in [Users -> SUBSET [login : Logins \cup {NoLogin}]]
      BY <2>3, <3>1 DEF Backfill, Types
    <3>4. named' \in [Users -> SUBSET (Logins \cup {NoLogin})]
      BY <2>3, <3>2 DEF Backfill, Types
    <3> QED
      BY <3>3, <3>4
  <2> QED
    BY <2>1, <2>2, <2>3, <1>1
<1>3. CASE DeleteIdentity
  BY <1>3 DEF DeleteIdentity, Types
<1> QED
  BY <1>1, <1>2, <1>3, StepsFrame DEF Framed

\* The cron writes statuses for users it asked about.
LEMMA LiveTyped ==
  ASSUME Types, Next
  PROVE  live' \in [Users -> {"none", "off", "on"}] /\ poll' \subseteq Poll
<1>1. CASE UNCHANGED <<live, poll>>
  BY <1>1 DEF Types
<1>2. CASE LiveSteps
  <2>1. CASE \E u \in Users : TwitchChanges(u)
    BY <2>1 DEF TwitchChanges, Types
  <2>2. CASE StartPoll
    BY <2>2 DEF StartPoll, ActiveOwners, Types, Poll
  <2>3. CASE \E batch \in SUBSET Users : AskHelix(batch) \/ HelixFails(batch)
    BY <2>3 DEF AskHelix, HelixFails, Types, Poll
  <2>4. CASE ApplyStatus
    BY <2>4 DEF ApplyStatus, Patched, Types
  <2> QED
    BY <1>2, <2>1, <2>2, <2>3, <2>4 DEF LiveSteps, LiveNext
<1>3. CASE DeleteLiveStatus
  BY <1>3 DEF DeleteLiveStatus, Types
<1> QED
  BY <1>1, <1>2, <1>3, StepsFrame DEF Framed

\* Each canvas has a stream and a counter, made with it.
LEMMA StreamTyped ==
  ASSUME Types, Slugs, LoginAssumption, Next
  PROVE  /\ stream' \in [DOMAIN canvases' -> Seq(StreamEntry)] /\ meta' \in [DOMAIN canvases' -> Nat]
         /\ keys' \subseteq Nat \X Users
<1> USE DEF Types
<1>1. <<>> \in Seq(StreamEntry) /\ 0 \in Nat
  BY EmptySeq
<1>2. UNCHANGED canvases \/ OwnershipSteps \/ \E c \in DOMAIN canvases : CascadeCanvas(c)
  BY StepsFrame DEF Framed
<1>3. CASE OwnershipSteps
  <2>1. keys' \subseteq Nat \X Users
    BY <1>3 DEF OwnershipSteps
  <2>2. stream' \in [DOMAIN canvases' -> Seq(StreamEntry)]
    BY <1>1, <1>3 DEF OwnershipSteps
  <2>3. meta' \in [DOMAIN canvases' -> Nat]
    BY <1>1, <1>3 DEF OwnershipSteps
  <2> QED
    BY <2>1, <2>2, <2>3
<1>4. CASE \E c \in DOMAIN canvases : CascadeCanvas(c)
  BY <1>4, CascadeKeeps DEF CascadeCanvas, redisVars
<1>5. CASE UNCHANGED canvases
  <2>1. CASE \E u \in Users, c \in DOMAIN canvases : Place(u, c)
    <3>1. PICK u \in Users, c \in DOMAIN canvases : Place(u, c)
      BY <2>1
    <3>2. [version |-> meta[c] + 1, user |-> u] \in StreamEntry /\ meta[c] + 1 \in Nat
      BY DEF StreamEntry
    <3>3. Append(stream[c], [version |-> meta[c] + 1, user |-> u]) \in Seq(StreamEntry)
      BY <3>2, AppendProperties
    <3>4. c \in Nat
      BY IdsAre
    <3>5. stream' \in [DOMAIN canvases' -> Seq(StreamEntry)]
      BY <1>5, <3>1, <3>3 DEF Place
    <3>6. meta' \in [DOMAIN canvases' -> Nat]
      BY <1>5, <3>1, <3>2 DEF Place
    <3>7. keys' \subseteq Nat \X Users
      BY <3>1, <3>4 DEF Place
    <3> QED
      BY <3>5, <3>6, <3>7
  <2>2. CASE \E c \in DOMAIN canvases : Drain(c)
    <3>1. PICK c \in DOMAIN canvases : Drain(c)
      BY <2>2
    <3>2. stream' = [stream EXCEPT ![c] = <<>>] /\ UNCHANGED <<keys, meta>>
      BY <3>1 DEF Drain
    <3> QED
      BY <1>1, <1>5, <3>2
  <2>3. CASE FirstSweep \/ SecondSweep
    <3>1. (\E member : PurgeRedis(member)) \/ UNCHANGED redisVars
      BY <2>3 DEF FirstSweep, SecondSweep
    <3>2. CASE UNCHANGED redisVars
      BY <1>5, <3>2 DEF redisVars
    <3>3. CASE \E member : PurgeRedis(member)
      <4>1. keys' \subseteq Nat \X Users
        BY <3>3 DEF PurgeRedis
      <4>2. stream' \in [DOMAIN canvases' -> Seq(StreamEntry)]
        BY <1>1, <1>5, <3>3 DEF PurgeRedis
      <4>3. meta' \in [DOMAIN canvases' -> Nat]
        BY <1>1, <1>5, <3>3 DEF PurgeRedis
      <4> QED
        BY <4>1, <4>2, <4>3
    <3> QED
      BY <3>1, <3>2, <3>3
  <2>4. CASE UNCHANGED <<stream, meta>> /\ UNCHANGED keys
    BY <1>5, <2>4
  <2> QED
    BY <1>3, <2>1, <2>2, <2>3, <2>4, StepsFrame DEF Framed, Drain, redisVars
<1> QED
  BY <1>2, <1>3, <1>4, <1>5

\* The image of a finite set.
LEMMA ImageIsFinite ==
  ASSUME NEW f, IsFiniteSet(DOMAIN f)
  PROVE  IsFiniteSet({f[x] : x \in DOMAIN f})
<1> DEFINE T == {f[x] : x \in DOMAIN f}
           g == [x \in DOMAIN f |-> f[x]]
<1>1. g \in Surjection(DOMAIN f, T)
  BY DEF Surjection
<1> QED
  BY <1>1, FS_Surjection

\* A batch that comes back short is all there is.
LEMMA ShortBatch ==
  ASSUME ErasureAssumption, NEW mine, IsFiniteSet(mine), Cardinality(mine) < BatchSize,
         NEW batch \in kSubset(Min({BatchSize, Cardinality(mine)}), mine)
  PROVE  batch = mine
<1>1. BatchSize \in Nat /\ Cardinality(mine) \in Nat
  BY ErasureAssumption, FS_CardinalityType DEF ErasureAssumption
<1>2. Min({BatchSize, Cardinality(mine)}) = Cardinality(mine)
  <2> DEFINE S == {BatchSize, Cardinality(mine)}
  <2>1. \A x \in S : (\A y \in S : x =< y) <=> x = Cardinality(mine)
    BY <1>1
  <2>2. Cardinality(mine) \in S
    OBVIOUS
  <2> HIDE DEF S
  <2>3. (CHOOSE x \in S : \A y \in S : x =< y) = Cardinality(mine)
    BY <2>1, <2>2
  <2> QED
    BY <2>3 DEF Min, S
<1>3. batch \in SUBSET mine /\ Cardinality(batch) = Cardinality(mine)
  BY <1>2 DEF kSubset
<1> QED
  BY <1>3, FS_Subset

\* The rows a drain writes.
Fresh(c) == {[canvas |-> c, version |-> stream[c][i].version, user |-> stream[c][i].user] : i \in DOMAIN stream[c]}
NewOf(c) == {r \in Fresh(c) : \A old \in rows : old.canvas = c => old.version # r.version}

\* A drain writes the undrained entries whose version has no row (drain.ts).
LEMMA DrainWrites ==
  ASSUME Types, NEW c \in DOMAIN canvases, Drain(c)
  PROVE  /\ c \in Ids
         /\ rows' = rows \cup NewOf(c) /\ stats' = stats \cup {<<r.user, c>> : r \in NewOf(c)}
         /\ stream' = [stream EXCEPT ![c] = <<>>] /\ (Fresh(c) # NewOf(c) => "dropped" \in races')
         /\ Fresh(c) \subseteq Row /\ IsFiniteSet(Fresh(c))
         /\ \A r \in Fresh(c) : r.canvas = c /\ r.user \in Users /\ c \in InStream(r.user)
<1>1. stream[c] \in Seq(StreamEntry) /\ c \in Nat
  BY IdsAre DEF Types
<1>2. DOMAIN stream[c] = 1..Len(stream[c]) /\ Len(stream[c]) \in Nat
  BY <1>1, LenProperties
<1>3. \A i \in DOMAIN stream[c] : stream[c][i] \in StreamEntry
  BY <1>1, <1>2, ElementOfSeq
<1>4. Fresh(c) \subseteq Row /\ \A r \in Fresh(c) : r.canvas = c /\ r.user \in Users
  BY <1>1, <1>3 DEF Fresh, Row, StreamEntry
<1>5. \A r \in Fresh(c) : c \in InStream(r.user)
  BY DEF Fresh, InStream, Types
<1>6. IsFiniteSet(Fresh(c))
  <2> DEFINE f == [i \in DOMAIN stream[c] |->
                     [canvas |-> c, version |-> stream[c][i].version, user |-> stream[c][i].user]]
  <2>1. IsFiniteSet(DOMAIN f)
    BY <1>2, FS_Interval
  <2>2. Fresh(c) = {f[i] : i \in DOMAIN f}
    BY DEF Fresh
  <2> HIDE DEF f
  <2> QED
    BY <2>1, <2>2, ImageIsFinite
<1>7. /\ rows' = rows \cup NewOf(c) /\ stats' = stats \cup {<<r.user, c>> : r \in NewOf(c)}
      /\ stream' = [stream EXCEPT ![c] = <<>>] /\ c \in Ids
  BY DEF Drain, Fresh, NewOf
<1>8. races' = IF Fresh(c) \ NewOf(c) = {} THEN races ELSE races \cup {"dropped"}
  BY DEF Drain, Fresh, NewOf, Race
<1> QED
  BY <1>4, <1>5, <1>6, <1>7, <1>8 DEF NewOf

\* The rows a batch of the deletion leaves.
LEMMA PlacementsLeave ==
  ASSUME Types, ErasureAssumption, PurgePlacements
  PROVE  \E batch \in SUBSET {r \in rows : r.user = job.user} :
           /\ rows' = (rows \ batch) \cup {[r EXCEPT !.user = Anon] : r \in {s \in batch : s.canvas \notin job.owned}}
           /\ job'.extra = job.extra \cup {r.canvas : r \in batch}
           /\ job'.pc = "ban" => batch = {r \in rows : r.user = job.user}
           /\ InStream(job.user) # {} => "slow_worker" \in races'
<1>1. PICK mine : mine = {r \in rows : r.user = job.user}
  OBVIOUS
<1>2. PICK batch \in kSubset(Min({BatchSize, Cardinality(mine)}), mine) :
        /\ rows' = (rows \ batch) \cup UNION {PlanPurge(r, job.owned) : r \in batch}
        /\ job' = [job EXCEPT !.extra = @ \cup {r.canvas : r \in batch},
                              !.pc = IF Cardinality(mine) < BatchSize THEN After(@) ELSE @]
  BY <1>1 DEF PurgePlacements
<1>3. batch \in SUBSET mine
  BY <1>2 DEF kSubset
<1>4. UNION {PlanPurge(r, job.owned) : r \in batch}
        = {[r EXCEPT !.user = Anon] : r \in {s \in batch : s.canvas \notin job.owned}}
  BY DEF PlanPurge
<1>5. job'.extra = job.extra \cup {r.canvas : r \in batch}
      /\ job'.pc = IF Cardinality(mine) < BatchSize THEN After(job.pc) ELSE job.pc
  BY <1>2 DEF Types, Job
<1>6. job.pc = "placements" /\ (InStream(job.user) # {} => "slow_worker" \in races')
  BY DEF PurgePlacements, Race, At
<1>7. IsFiniteSet(mine)
  BY <1>1, FS_Subset DEF Types
<1>8. job'.pc = "ban" => batch = mine
  BY <1>2, <1>5, <1>6, <1>7, ShortBatch
<1> QED
  BY <1>1, <1>2, <1>3, <1>4, <1>5, <1>6, <1>8

\* The placements stay a finite table, through drains, batches and cascades.
LEMMA RowsTyped ==
  ASSUME Types, ErasureAssumption, Next
  PROVE  rows' \subseteq Row /\ IsFiniteSet(rows')
<1>1. CASE UNCHANGED rows
  BY <1>1 DEF Types
<1>2. CASE PurgePlacements
  <2>1. PICK batch \in SUBSET {r \in rows : r.user = job.user} :
          rows' = (rows \ batch) \cup {[r EXCEPT !.user = Anon] : r \in {s \in batch : s.canvas \notin job.owned}}
    BY <1>2, PlacementsLeave
  <2>2. PICK left : left = {s \in batch : s.canvas \notin job.owned}
    OBVIOUS
  <2>3. {[r EXCEPT !.user = Anon] : r \in left} \subseteq Row
    <3> SUFFICES ASSUME NEW r \in left PROVE [r EXCEPT !.user = Anon] \in Row
      OBVIOUS
    <3>1. r \in Row
      BY <2>2 DEF Types
    <3> QED
      BY <3>1 DEF Row
  <2>4. IsFiniteSet(left) /\ IsFiniteSet(rows \ batch)
    BY <2>2, FS_Subset DEF Types
  <2>5. IsFiniteSet({[r EXCEPT !.user = Anon] : r \in left})
    <3> DEFINE f == [r \in left |-> [r EXCEPT !.user = Anon]]
    <3>1. DOMAIN f = left /\ {f[r] : r \in DOMAIN f} = {[r EXCEPT !.user = Anon] : r \in left}
      OBVIOUS
    <3> HIDE DEF f
    <3> QED
      BY <2>4, <3>1, ImageIsFinite
  <2>6. rows' = (rows \ batch) \cup {[r EXCEPT !.user = Anon] : r \in left}
    BY <2>1, <2>2
  <2> QED
    BY <2>3, <2>4, <2>5, <2>6, FS_Union DEF Types
<1>3. CASE \E c \in DOMAIN canvases : Drain(c)
  <2>1. PICK c \in DOMAIN canvases : Drain(c)
    BY <1>3
  <2>2. rows' = rows \cup NewOf(c) /\ Fresh(c) \subseteq Row /\ IsFiniteSet(Fresh(c))
    BY <2>1, DrainWrites
  <2>3. NewOf(c) \in SUBSET Fresh(c)
    BY DEF NewOf
  <2>4. IsFiniteSet(NewOf(c))
    BY <2>2, <2>3, FS_Subset
  <2> QED
    BY <2>2, <2>3, <2>4, FS_Union DEF Types
<1>4. CASE \E c \in DOMAIN canvases : CascadeCanvas(c)
  <2>1. rows' \in SUBSET rows
    BY <1>4 DEF CascadeCanvas
  <2> QED
    BY <2>1, FS_Subset DEF Types
<1> QED
  BY <1>1, <1>2, <1>3, <1>4, StepsFrame DEF Framed

\* So do the counts.
LEMMA StatsTyped ==
  ASSUME Types, ErasureAssumption, Next
  PROVE  stats' \subseteq Users \X Nat /\ IsFiniteSet(stats')
<1>1. CASE \E c \in DOMAIN canvases : Drain(c)
  <2>1. PICK c \in DOMAIN canvases : Drain(c)
    BY <1>1
  <2>2. PICK new : new = NewOf(c)
    OBVIOUS
  <2>3. /\ stats' = stats \cup {<<r.user, c>> : r \in new}
        /\ \A r \in new : r.user \in Users
        /\ new \in SUBSET Fresh(c) /\ IsFiniteSet(Fresh(c))
    BY <2>1, <2>2, DrainWrites DEF NewOf
  <2>4. c \in Nat /\ IsFiniteSet(new)
    BY <2>3, IdsAre, FS_Subset
  <2>5. IsFiniteSet({<<r.user, c>> : r \in new})
    <3> DEFINE f == [r \in new |-> <<r.user, c>>]
    <3>1. DOMAIN f = new /\ {f[r] : r \in DOMAIN f} = {<<r.user, c>> : r \in new}
      OBVIOUS
    <3> HIDE DEF f
    <3> QED
      BY <2>4, <3>1, ImageIsFinite
  <2>6. {<<r.user, c>> : r \in new} \subseteq Users \X Nat
    BY <2>3, <2>4
  <2> QED
    BY <2>3, <2>5, <2>6, FS_Union DEF Types
<1>2. CASE stats' \in SUBSET stats
  BY <1>2, FS_Subset DEF Types
<1>3. PurgeStats => stats' \in SUBSET stats
  BY DEF PurgeStats
<1>4. \A c \in DOMAIN canvases : CascadeCanvas(c) => stats' \in SUBSET stats
  BY DEF CascadeCanvas
<1> QED
  BY <1>1, <1>2, <1>3, <1>4, StepsFrame DEF Framed

\* What the scans leave of a row.
LEMMA ScrubLeaves ==
  ASSUME NEW m \in Mark, NEW u, NEW q
  PROVE  /\ q \in ScrubBanRow(m, u) =>
              /\ q \in Mark /\ q.kind = m.kind /\ q.canvas = m.canvas /\ q.of = m.of /\ m.of # u
              /\ q.by = IF m.by = u THEN Anon ELSE m.by
         /\ q \in ScrubModeratorRow(m, u) => q = m /\ m.of # u
         /\ q \in ScrubOverlayRow(m, u) =>
              /\ q \in Mark /\ q.kind = m.kind /\ q.canvas = m.canvas /\ q.by = m.by
              /\ q.of = IF m.of = u THEN Anon ELSE m.of
         /\ q \in ScrubAuditRow(m, u) =>
              /\ q \in Mark /\ q.kind = m.kind /\ q.canvas = m.canvas
              /\ q.of = IF m.of = u THEN Anon ELSE m.of
              /\ q.by = IF m.by = u THEN Anon ELSE m.by
<1>1. m.kind \in {"ban", "mod", "overlay", "audit"} /\ m.canvas \in Nat
  BY DEF Mark
<1>2. m = [kind |-> m.kind, canvas |-> m.canvas, of |-> m.of, by |-> m.by]
      /\ m.of \in Users \cup {Anon} /\ m.by \in Users \cup {Anon}
  BY DEF Mark
<1>3. \A v, w : [m EXCEPT !.of = v, !.by = w] = [kind |-> m.kind, canvas |-> m.canvas, of |-> v, by |-> w]
  <2> SUFFICES ASSUME NEW v, NEW w
               PROVE  [m EXCEPT !.of = v, !.by = w] = [kind |-> m.kind, canvas |-> m.canvas, of |-> v, by |-> w]
    OBVIOUS
  <2>1. PICK n : n = [m EXCEPT !.of = v]
    OBVIOUS
  <2>2. n = [kind |-> m.kind, canvas |-> m.canvas, of |-> v, by |-> m.by]
    BY <1>2, <2>1
  <2>3. [m EXCEPT !.of = v, !.by = w] = [n EXCEPT !.by = w]
    BY <2>1
  <2> QED
    BY <2>2, <2>3
<1>4. \A w : [m EXCEPT !.by = w] = [kind |-> m.kind, canvas |-> m.canvas, of |-> m.of, by |-> w]
  BY <1>2
<1>5. \A v : [m EXCEPT !.of = v] = [kind |-> m.kind, canvas |-> m.canvas, of |-> v, by |-> m.by]
  BY <1>2
<1>6. \A v, w \in Users \cup {Anon} : [kind |-> m.kind, canvas |-> m.canvas, of |-> v, by |-> w] \in Mark
  BY <1>1 DEF Mark
<1>7. ASSUME q \in ScrubBanRow(m, u)
      PROVE  /\ q \in Mark /\ q.kind = m.kind /\ q.canvas = m.canvas /\ q.of = m.of /\ m.of # u
             /\ q.by = IF m.by = u THEN Anon ELSE m.by
  <2>1. m.of # u /\ q = [m EXCEPT !.by = IF m.by = u THEN Anon ELSE m.by]
    BY <1>7 DEF ScrubBanRow
  <2>2. q = [kind |-> m.kind, canvas |-> m.canvas, of |-> m.of, by |-> IF m.by = u THEN Anon ELSE m.by]
    BY <1>4, <2>1
  <2>3. q \in Mark
    BY <1>2, <1>6, <2>2
  <2> QED
    BY <2>1, <2>2, <2>3
<1>8. q \in ScrubModeratorRow(m, u) => q = m /\ m.of # u
  BY DEF ScrubModeratorRow
<1>9. ASSUME q \in ScrubOverlayRow(m, u)
      PROVE  /\ q \in Mark /\ q.kind = m.kind /\ q.canvas = m.canvas /\ q.by = m.by
             /\ q.of = IF m.of = u THEN Anon ELSE m.of
  <2>1. q = [m EXCEPT !.of = IF m.of = u THEN Anon ELSE m.of]
    BY <1>9 DEF ScrubOverlayRow
  <2>2. q = [kind |-> m.kind, canvas |-> m.canvas, of |-> IF m.of = u THEN Anon ELSE m.of, by |-> m.by]
    BY <1>5, <2>1
  <2>3. q \in Mark
    BY <1>2, <1>6, <2>2
  <2> QED
    BY <2>2, <2>3
<1>10. ASSUME q \in ScrubAuditRow(m, u)
       PROVE  /\ q \in Mark /\ q.kind = m.kind /\ q.canvas = m.canvas
              /\ q.of = IF m.of = u THEN Anon ELSE m.of
              /\ q.by = IF m.by = u THEN Anon ELSE m.by
  <2>1. q = [m EXCEPT !.of = IF m.of = u THEN Anon ELSE m.of, !.by = IF m.by = u THEN Anon ELSE m.by]
    BY <1>2, <1>10 DEF ScrubAuditRow
  <2>2. q = [kind |-> m.kind, canvas |-> m.canvas, of |-> IF m.of = u THEN Anon ELSE m.of,
             by |-> IF m.by = u THEN Anon ELSE m.by]
    BY <1>3, <2>1
  <2>3. q \in Mark
    BY <1>2, <1>6, <2>2
  <2> QED
    BY <2>2, <2>3
<1> QED
  BY <1>7, <1>8, <1>9, <1>10, Zenon

\* Moderation and the scans write well-formed rows.
LEMMA MarksTyped ==
  ASSUME Types, Next
  PROVE  marks' \subseteq Mark
<1>1. CASE UNCHANGED marks
  BY <1>1 DEF Types
<1>2. CASE \E c \in DOMAIN canvases : CascadeCanvas(c)
  BY <1>2 DEF CascadeCanvas, Types
<1>3. CASE \E m, u \in Users, c \in DOMAIN canvases, kind \in {"ban", "mod", "overlay"} : Moderate(m, u, c, kind)
  <2>1. PICK m \in Users, u \in Users, c \in DOMAIN canvases, kind \in {"ban", "mod", "overlay"} :
          Moderate(m, u, c, kind)
    BY <1>3
  <2>2. c \in Nat
    BY IdsAre
  <2> QED
    BY <2>1, <2>2 DEF Moderate, Mark, Types
<1>4. CASE ScrubBans
  BY <1>4, ScrubLeaves DEF ScrubBans, Scrub, Types
<1>5. CASE ScrubModerators
  BY <1>5, ScrubLeaves DEF ScrubModerators, Scrub, Types
<1>6. CASE ScrubPixelModeration
  BY <1>6, ScrubLeaves DEF ScrubPixelModeration, Scrub, Types
<1>7. CASE ScrubAudit
  BY <1>7, ScrubLeaves DEF ScrubAudit, Scrub, Types
<1> QED
  BY <1>1, <1>2, <1>3, <1>4, <1>5, <1>6, <1>7, StepsFrame DEF Framed

\* A deletion under way is of a user who is still there.
LEMMA JobTyped ==
  ASSUME Types, Next
  PROVE  /\ gone \subseteq gone' /\ gone' \subseteq Users /\ job' \in Job
         /\ job'.pc = "idle" => job' = NoJob
         /\ job'.pc # "idle" => job'.user \in Users \ gone'
<1>1. JobMove
  BY JobMoves
<1>2. CASE UNCHANGED <<job, gone>>
  BY <1>2 DEF Types
<1>3. CASE \E p, q \in Pcs \ {"idle"} : Moved(p, q)
  BY <1>3 DEF Moved, Types
<1>4. CASE \E u \in Users : Starts(u)
  BY <1>4 DEF Starts, Types
<1>5. NoJob \in Job /\ NoJob.pc = "idle"
  BY DEF NoJob, Job, Pcs
<1>6. CASE Dies \/ Ends
  BY <1>5, <1>6 DEF Dies, Ends, Types
<1> QED
  BY <1>1, <1>2, <1>3, <1>4, <1>6
  DEF JobMove, Pcs, AfterRedis, AfterStats, AfterPlacements, AfterBan, AfterMod, AfterOverlay, AfterAudit

\* Every step keeps the types.
LEMMA TypesStep ==
  ASSUME Types, Slugs, LoginAssumption, ErasureAssumption, Next
  PROVE  Types'
<1>1. canvases' \in Seq(Canvas)
  BY TableTyped
<1>2. /\ profile' \in [Users -> SUBSET [login : Logins \cup {NoLogin}]]
      /\ named' \in [Users -> SUBSET (Logins \cup {NoLogin})]
  BY NamesTyped
<1>3. live' \in [Users -> {"none", "off", "on"}] /\ poll' \subseteq Poll
  BY LiveTyped
<1>4. /\ stream' \in [DOMAIN canvases' -> Seq(StreamEntry)] /\ meta' \in [DOMAIN canvases' -> Nat]
      /\ keys' \subseteq Nat \X Users
  BY StreamTyped
<1>5. rows' \subseteq Row /\ IsFiniteSet(rows')
  BY RowsTyped
<1>6. stats' \subseteq Users \X Nat /\ IsFiniteSet(stats')
  BY StatsTyped
<1>7. marks' \subseteq Mark
  BY MarksTyped
<1>8. /\ gone' \subseteq Users /\ job' \in Job
      /\ job'.pc = "idle" => job' = NoJob
      /\ job'.pc # "idle" => job'.user \in Users \ gone'
  BY JobTyped
<1> QED
  BY <1>1, <1>2, <1>3, <1>4, <1>5, <1>6, <1>7, <1>8 DEF Types

\* Every step keeps names and active canvases unique (CA2).
LEMMA SlugsStep ==
  ASSUME Types, Slugs, LoginAssumption, Next
  PROVE  Slugs'
<1>1. CASE UNCHANGED canvases
  BY <1>1 DEF Slugs, Ids
<1>2. CASE OwnershipSteps
  <2>1. TableStep
    BY <1>2, OwnershipIsTableStep DEF OwnershipSteps
  <2> QED
    BY <2>1, TableStepKeepsSlugs
<1>3. CASE \E c \in DOMAIN canvases : CascadeCanvas(c)
  <2>1. Ids' \subseteq Ids /\ \A d \in Ids' : canvases'[d] = canvases[d]
    BY <1>3, CascadeKeeps DEF Ids
  <2> QED
    BY <2>1 DEF Slugs
<1> QED
  BY <1>1, <1>2, <1>3, StepsFrame DEF Framed

-----------------------------------------------------------------------------
(***************************************************************************)
(* What a deletion owns.                                                   *)
(***************************************************************************)

\* Ownership only adds canvases, and records one made behind a deletion.
LEMMA OwnershipAdds ==
  ASSUME Types, Slugs, LoginAssumption, OwnershipSteps
  PROVE  /\ DOMAIN canvases \subseteq DOMAIN canvases'
         /\ \A c \in DOMAIN canvases : canvases'[c].owner = canvases[c].owner /\ (c \in Ids' <=> c \in Ids)
         /\ \A c \in Ids' \ Ids : canvases'[c].owner \in {job.user} \cup gone => "canvas_created" \in races'
<1>1. TableStep
  BY OwnershipIsTableStep DEF OwnershipSteps
<1>2. /\ DOMAIN canvases \subseteq DOMAIN canvases'
      /\ \A c \in DOMAIN canvases : canvases'[c].owner = canvases[c].owner /\ (c \in Ids' <=> c \in Ids)
  BY <1>1 DEF TableStep, Inserted, Switched, Kept, Ids
<1>3. \A c \in Ids' \ Ids : c \in DOMAIN canvases' \ DOMAIN canvases
  BY <1>2 DEF Ids
<1>4. PICK made : made = {c \in DOMAIN canvases' \ DOMAIN canvases : canvases'[c].owner \in {job.user} \cup gone}
  OBVIOUS
<1>5. races' = IF made = {} THEN races ELSE races \cup {"canvas_created"}
  BY <1>4 DEF OwnershipSteps, Race
<1> QED
  BY <1>2, <1>3, <1>4, <1>5

\* The canvases of a user after a step: no others, unless one was made, which a deletion records.
LEMMA OwnedAfter ==
  ASSUME Types, Slugs, LoginAssumption, Next
  PROVE  /\ DOMAIN canvases \subseteq DOMAIN canvases'
         /\ \A c \in DOMAIN canvases : canvases'[c].owner = canvases[c].owner /\ (c \in Ids' => c \in Ids)
         /\ \A c \in Ids' \ Ids : canvases'[c].owner \in {job.user} \cup gone => "canvas_created" \in races'
         /\ Ids' \subseteq Ids \/ UNCHANGED <<job, gone>>
<1>1. CASE UNCHANGED canvases
  BY <1>1 DEF Ids
<1>2. CASE OwnershipSteps
  BY <1>2, OwnershipAdds DEF OwnershipSteps
<1>3. CASE \E c \in DOMAIN canvases : CascadeCanvas(c)
  BY <1>3, CascadeKeeps DEF Ids
<1> QED
  BY <1>1, <1>2, <1>3, StepsFrame DEF Framed

\* A name once had stays on record, and a profile once lost does not come back.
LEMMA NamesAfter ==
  ASSUME Types, LoginAssumption, Next, NEW u \in Users
  PROVE  /\ named[u] # {} => named'[u] # {}
         /\ named'[u] = {} => named[u] = {} /\ (profile'[u] = {} \/ profile'[u] = profile[u])
         /\ profile[u] = {} /\ named[u] # {} => profile'[u] = {}
<1> USE DEF Types
<1>1. CASE UNCHANGED <<profile, named>>
  BY <1>1
<1>2. CASE OwnershipSteps
  <2>1. PICK v \in Users :
          \/ \E login \in Logins \cup {NoLogin} : SignUp(v, login)
          \/ Backfill(v)
          \/ UNCHANGED <<profile, named>>
    BY <1>2 DEF OwnershipSteps, OwnershipNext, EnsureJob, EnsureOnMount, BackfillFails, CreateCanvas, Activate, Archive
  <2>2. CASE \E login \in Logins \cup {NoLogin} : SignUp(v, login)
    BY <2>2 DEF SignUp
  <2>3. CASE Backfill(v)
    <3>1. /\ u # v => profile'[u] = profile[u] /\ named'[u] = named[u]
          /\ profile'[v] = {[p EXCEPT !.login = ExactLogin[v]] : p \in profile[v]}
          /\ named'[v] = IF profile[v] = {} THEN named[v] ELSE named[v] \cup {ExactLogin[v]}
      BY <2>3 DEF Backfill
    <3>2. profile[v] = {} => profile'[v] = {}
      BY <3>1
    <3>3. profile[v] # {} => named'[v] # {}
      BY <3>1
    <3> QED
      BY <3>1, <3>2, <3>3
  <2> QED
    BY <2>1, <2>2, <2>3, <1>1
<1>3. CASE DeleteIdentity
  BY <1>3 DEF DeleteIdentity
<1> QED
  BY <1>1, <1>2, <1>3, StepsFrame DEF Framed

\* No canvas of the user escapes the cascade but one made behind it (UNAUTH_deleteOwnedCanvasBatch).
LEMMA OwnedStep ==
  ASSUME Types, Slugs, Owned, LoginAssumption, Next
  PROVE  Owned'
<1>1. JobMove /\ races \subseteq races'
  BY JobMoves, RacesGrow
<1>2. /\ DOMAIN canvases \subseteq DOMAIN canvases'
      /\ \A c \in DOMAIN canvases : canvases'[c].owner = canvases[c].owner /\ (c \in Ids' => c \in Ids)
      /\ \A c \in Ids' \ Ids : canvases'[c].owner \in {job.user} \cup gone => "canvas_created" \in races'
      /\ Ids' \subseteq Ids \/ UNCHANGED <<job, gone>>
  BY OwnedAfter
<1>3. \A u \in Users : /\ named[u] # {} => named'[u] # {}
                       /\ named'[u] = {} => named[u] = {} /\ (profile'[u] = {} \/ profile'[u] = profile[u])
                       /\ profile[u] = {} /\ named[u] # {} => profile'[u] = {}
  BY NamesAfter
<1>4. \A u \in Users : "canvas_created" \notin races' /\ (u = job.user \/ u \in gone) =>
        OwnedBy(u)' \subseteq OwnedBy(u)
  BY <1>2 DEF OwnedBy, Ids
<1>5. /\ \A c \in job'.owned : c \in DOMAIN canvases' /\ canvases'[c].owner = job'.user
      /\ "canvas_created" \notin races' => (job'.pc # "idle" => OwnedBy(job.user)' \subseteq job'.owned)
      /\ job'.pc # "idle" => named'[job'.user] # {}
  <2>1. CASE job'.user = job.user /\ job'.owned = job.owned /\ (job'.pc # "idle" => job.pc # "idle")
    BY <1>1, <1>2, <1>3, <1>4, <2>1 DEF Owned, Types
  <2>2. CASE \E u \in Users : StartErasure(u)
    <3>1. PICK u \in Users : StartErasure(u)
      BY <2>2
    <3>2. job'.owned = OwnedBy(u) /\ job'.user = u /\ profile[u] # {} /\ UNCHANGED <<canvases, profile, named>>
      BY <3>1 DEF StartErasure
    <3>3. OwnedBy(u)' = OwnedBy(u)
      BY <3>2 DEF OwnedBy, Ids
    <3>4. named[u] # {}
      BY <3>2 DEF Owned
    <3>5. \A c \in OwnedBy(u) : c \in DOMAIN canvases /\ canvases[c].owner = u
      BY DEF OwnedBy, Ids
    <3>6. OwnedBy(job.user)' = OwnedBy(u)'
      BY <3>2 DEF OwnedBy, Ids
    <3> QED
      BY <3>2, <3>3, <3>4, <3>5, <3>6
  <2>3. CASE job' = NoJob
    BY <2>3 DEF NoJob
  <2> QED
    BY <1>1, <2>1, <2>2, <2>3 DEF JobMove, Moved, Dies, Ends
<1>6. ASSUME "canvas_created" \notin races', NEW u \in Users, Past(AfterCascade, u)'
      PROVE  OwnedBy(u)' = {}
  <2>1. "canvas_created" \notin races
    BY <1>1, <1>6
  <2>2. CASE Past(AfterCascade, u)
    <3>1. OwnedBy(u) = {}
      BY <2>1, <2>2 DEF Owned
    <3>2. u = job.user \/ u \in gone
      BY <2>2 DEF Past
    <3> QED
      BY <1>4, <1>6, <3>1, <3>2
  <2>3. CASE Crosses(AfterCascade)
    <3>1. CascadeDone
      BY <1>1, <2>3, CrossingIs
    <3>2. job.owned \cap Ids = {} /\ job.pc = "cascade" /\ UNCHANGED canvases
      BY <3>1 DEF CascadeDone, At, ownVars
    <3>3. OwnedBy(job.user) = {}
      BY <2>1, <3>2 DEF Owned, OwnedBy
    <3>4. u = job.user \/ u \in gone
      BY <1>6, <2>3 DEF Past, Crosses
    <3>5. OwnedBy(u) = {}
      BY <2>1, <3>3, <3>4 DEF Owned, Past
    <3> QED
      BY <3>2, <3>5 DEF OwnedBy, Ids
  <2> QED
    BY <1>1, <1>6, <2>2, <2>3, PastMoves DEF StaysOut, AfterCascade
<1>7. \A u \in Users : profile'[u] # {} => named'[u] # {}
  BY <1>3 DEF Owned
<1>8. \A u \in gone' : profile'[u] = {} /\ named'[u] # {}
  <2>1. \A u \in gone : profile'[u] = {} /\ named'[u] # {}
    BY <1>3 DEF Owned, Types
  <2>2. CASE gone' = gone
    BY <2>1, <2>2
  <2>3. CASE DeleteIdentity
    <3>1. job.pc = "identity" /\ gone' = gone \cup {job.user} /\ profile' = [profile EXCEPT ![job.user] = {}]
          /\ UNCHANGED named
      BY <2>3 DEF DeleteIdentity, At
    <3> QED
      BY <2>1, <3>1 DEF Owned, Types
  <2> QED
    BY <1>1, <2>2, <2>3 DEF JobMove, Moved, Starts, Dies
<1> QED
  BY <1>5, <1>6, <1>7, <1>8 DEF Owned

-----------------------------------------------------------------------------
(***************************************************************************)
(* Names on marks, badges and campaigns.                                   *)
(***************************************************************************)

\* No scan writes a name, and each takes those of its user from its kind of rows.
Anonymised(kind) ==
  \A u \in Users, q \in marks' : Names(u, q) =>
    (\E m \in marks : m.kind = q.kind /\ Names(u, m)) /\ (q.kind = kind => u # job.user)

\* The four scans of account.ts, each over its table.
LEMMA ScansAnonymise ==
  ASSUME Types, Unmarked, ErasureAssumption
  PROVE  /\ ScrubBans => Anonymised("ban")
         /\ ScrubModerators => Anonymised("mod")
         /\ ScrubPixelModeration => Anonymised("overlay")
         /\ ScrubAudit => Anonymised("audit")
<1>1. Anon \notin Users /\ \A m \in marks : m \in Mark
  BY ErasureAssumption DEF ErasureAssumption, Types
<1>2. ScrubBans => Anonymised("ban")
  <2> SUFFICES ASSUME ScrubBans, NEW u \in Users, NEW q \in marks', Names(u, q)
               PROVE  (\E m \in marks : m.kind = q.kind /\ Names(u, m)) /\ (q.kind = "ban" => u # job.user)
    BY DEF Anonymised
  <2>1. PICK m \in marks : q \in IF m.kind = "ban" THEN ScrubBanRow(m, job.user) ELSE {m}
    BY DEF ScrubBans, Scrub
  <2> QED
    BY <1>1, <2>1, ScrubLeaves DEF Names
<1>3. ScrubModerators => Anonymised("mod")
  <2> SUFFICES ASSUME ScrubModerators, NEW u \in Users, NEW q \in marks', Names(u, q)
               PROVE  (\E m \in marks : m.kind = q.kind /\ Names(u, m)) /\ (q.kind = "mod" => u # job.user)
    BY DEF Anonymised
  <2>1. PICK m \in marks : q \in IF m.kind = "mod" THEN ScrubModeratorRow(m, job.user) ELSE {m}
    BY DEF ScrubModerators, Scrub
  <2> QED
    BY <1>1, <2>1, ScrubLeaves DEF Names, Unmarked
<1>4. ScrubPixelModeration => Anonymised("overlay")
  <2> SUFFICES ASSUME ScrubPixelModeration, NEW u \in Users, NEW q \in marks', Names(u, q)
               PROVE  (\E m \in marks : m.kind = q.kind /\ Names(u, m)) /\ (q.kind = "overlay" => u # job.user)
    BY DEF Anonymised
  <2>1. PICK m \in marks : q \in IF m.kind = "overlay" THEN ScrubOverlayRow(m, job.user) ELSE {m}
    BY DEF ScrubPixelModeration, Scrub
  <2> QED
    BY <1>1, <2>1, ScrubLeaves DEF Names, Unmarked
<1>5. ScrubAudit => Anonymised("audit")
  <2> SUFFICES ASSUME ScrubAudit, NEW u \in Users, NEW q \in marks', Names(u, q)
               PROVE  (\E m \in marks : m.kind = q.kind /\ Names(u, m)) /\ (q.kind = "audit" => u # job.user)
    BY DEF Anonymised
  <2>1. PICK m \in marks : q \in IF m.kind = "audit" THEN ScrubAuditRow(m, job.user) ELSE {m}
    BY DEF ScrubAudit, Scrub
  <2> QED
    BY <1>1, <2>1, ScrubLeaves DEF Names
<1> QED
  BY <1>2, <1>3, <1>4, <1>5

\* Moderators name in what they do the user it is about and themselves.
LEMMA ModeratingNames ==
  ASSUME Types, ErasureAssumption,
         \E m, v \in Users, c \in DOMAIN canvases, kind \in {"ban", "mod", "overlay"} : Moderate(m, v, c, kind)
  PROVE  /\ UNCHANGED <<job, gone>>
         /\ \A q \in marks' \ marks : q.kind \in {"mod", "overlay"} => q.by = Anon
         /\ \A u \in Users, q \in marks' \ marks : Names(u, q) =>
              "moderated" \in races' \/ u \notin {job.user} \cup gone
<1> PICK m \in Users, v \in Users, c \in DOMAIN canvases, kind \in {"ban", "mod", "overlay"} : Moderate(m, v, c, kind)
  OBVIOUS
<1>1. UNCHANGED <<job, gone>>
  BY DEF Moderate
<1>2. marks' = marks \cup {[kind |-> k, canvas |-> c, of |-> v, by |-> IF k \in {"ban", "audit"} THEN m ELSE Anon]
                              : k \in {kind, "audit"}}
  BY DEF Moderate
<1>3. {v, m} \cap ({job.user} \cup gone) = {} \/ "moderated" \in races'
  BY DEF Moderate, Race
<1>4. \A q \in marks' \ marks : q.of = v /\ q.by \in {m, Anon} /\ (q.kind \in {"mod", "overlay"} => q.by = Anon)
  BY <1>2
<1> QED
  BY <1>1, <1>3, <1>4, ErasureAssumption DEF Names, ErasureAssumption

\* A name in a row was there before, or was put there with no deletion of that user under way.
NamedBefore ==
  \A u \in Users, q \in marks' : Names(u, q) =>
    \/ \E m \in marks : m.kind = q.kind /\ Names(u, m)
    \/ UNCHANGED <<job, gone>> /\ ("moderated" \in races' \/ u \notin {job.user} \cup gone)

\* The rows about people after a step, whoever took it.
LEMMA MarksAfter ==
  ASSUME Types, Unmarked, ErasureAssumption, Next
  PROVE  NamedBefore /\ \A q \in marks' : q.kind \in {"mod", "overlay"} => q.by = Anon
<1>1. CASE marks' \subseteq marks
  BY <1>1 DEF NamedBefore, Unmarked
<1>2. CASE \E m, v \in Users, c \in DOMAIN canvases, kind \in {"ban", "mod", "overlay"} : Moderate(m, v, c, kind)
  <2>2. /\ UNCHANGED <<job, gone>>
        /\ \A q \in marks' \ marks : q.kind \in {"mod", "overlay"} => q.by = Anon
        /\ \A u \in Users, q \in marks' \ marks : Names(u, q) =>
             "moderated" \in races' \/ u \notin {job.user} \cup gone
    BY <1>2, ModeratingNames
  <2>3. NamedBefore
    BY <2>2 DEF NamedBefore
  <2> QED
    BY <2>2, <2>3 DEF Unmarked
<1>3. CASE ScrubBans \/ ScrubModerators \/ ScrubPixelModeration \/ ScrubAudit
  <2>1. NamedBefore
    BY <1>3, ScansAnonymise DEF NamedBefore, Anonymised
  <2>2. \A m \in marks : m \in Mark /\ (m.kind \in {"mod", "overlay"} => m.by = Anon)
    BY DEF Types, Unmarked
  <2>3. ASSUME NEW q \in marks', q.kind \in {"mod", "overlay"}
        PROVE  q.by = Anon
    <3>1. CASE ScrubBans
      BY <2>2, <2>3, <3>1, ScrubLeaves DEF ScrubBans, Scrub
    <3>2. CASE ScrubModerators
      BY <2>2, <2>3, <3>2, ScrubLeaves DEF ScrubModerators, Scrub
    <3>3. CASE ScrubPixelModeration
      BY <2>2, <2>3, <3>3, ScrubLeaves DEF ScrubPixelModeration, Scrub
    <3>4. CASE ScrubAudit
      BY <2>2, <2>3, <3>4, ScrubLeaves DEF ScrubAudit, Scrub
    <3> QED
      BY <1>3, <3>1, <3>2, <3>3, <3>4
  <2> QED
    BY <2>1, <2>3
<1>4. \A c \in DOMAIN canvases : CascadeCanvas(c) => marks' \subseteq marks
  BY DEF CascadeCanvas
<1> QED
  BY <1>1, <1>2, <1>3, <1>4, StepsFrame DEF Framed

\* The table of one kind of rows, and the step that scans it.
ScanSpares(kind, pcs) ==
  "moderated" \notin races => \A u \in Users, m \in marks : m.kind = kind /\ Names(u, m) => ~Past(pcs, u)

\* What a scan has spared stays spared, as only a moderator can bring a name back.
LEMMA ScanKeepsSparing ==
  ASSUME Types, NamedBefore, JobMove, races \subseteq races', NEW kind,
         NEW pcs, "identity" \in pcs, "idle" \notin pcs, "flush" \notin pcs,
         Crosses(pcs) => Anonymised(kind), ScanSpares(kind, pcs)
  PROVE  ScanSpares(kind, pcs)'
<1> SUFFICES ASSUME "moderated" \notin races', NEW u \in Users, NEW q \in marks', q.kind = kind, Names(u, q),
                    Past(pcs, u)'
             PROVE  FALSE
  BY DEF ScanSpares, Names
<1>1. CASE UNCHANGED <<job, gone>> /\ u \notin {job.user} \cup gone
  BY <1>1 DEF Past
<1>2. CASE \E m \in marks : m.kind = q.kind /\ Names(u, m)
  <2>1. ~Past(pcs, u)
    BY <1>2 DEF ScanSpares
  <2>2. Crosses(pcs)
    BY <2>1, PastMoves DEF StaysOut
  <2>3. u # job.user
    BY <2>2 DEF Anonymised
  <2> QED
    BY <2>1, <2>2, <2>3 DEF Crosses, Past
<1> QED
  BY <1>1, <1>2 DEF NamedBefore

\* The four scans one after the other leave no name behind them.
LEMMA UnmarkedStep ==
  ASSUME Types, Unmarked, ErasureAssumption, Next
  PROVE  Unmarked'
<1>1. JobMove /\ races \subseteq races'
  BY JobMoves, RacesGrow
<1>2. NamedBefore /\ \A q \in marks' : q.kind \in {"mod", "overlay"} => q.by = Anon
  BY MarksAfter
<1>3. /\ Crosses(AfterBan) => Anonymised("ban")
      /\ Crosses(AfterMod) => Anonymised("mod")
      /\ Crosses(AfterOverlay) => Anonymised("overlay")
      /\ Crosses(AfterAudit) => Anonymised("audit")
  BY <1>1, CrossingIs, ScansAnonymise
<1>4. /\ ScanSpares("ban", AfterBan) /\ ScanSpares("mod", AfterMod)
      /\ ScanSpares("overlay", AfterOverlay) /\ ScanSpares("audit", AfterAudit)
  BY DEF Unmarked, ScanSpares
<1>5. ScanSpares("ban", AfterBan)'
  <2>1. "identity" \in AfterBan /\ "idle" \notin AfterBan /\ "flush" \notin AfterBan
    BY DEF AfterBan, AfterMod, AfterOverlay, AfterAudit
  <2> QED
    BY <1>1, <1>2, <1>3, <1>4, <2>1, ScanKeepsSparing
<1>6. ScanSpares("mod", AfterMod)'
  <2>1. "identity" \in AfterMod /\ "idle" \notin AfterMod /\ "flush" \notin AfterMod
    BY DEF AfterMod, AfterOverlay, AfterAudit
  <2> QED
    BY <1>1, <1>2, <1>3, <1>4, <2>1, ScanKeepsSparing
<1>7. ScanSpares("overlay", AfterOverlay)'
  <2>1. "identity" \in AfterOverlay /\ "idle" \notin AfterOverlay /\ "flush" \notin AfterOverlay
    BY DEF AfterOverlay, AfterAudit
  <2> QED
    BY <1>1, <1>2, <1>3, <1>4, <2>1, ScanKeepsSparing
<1>8. ScanSpares("audit", AfterAudit)'
  <2>1. "identity" \in AfterAudit /\ "idle" \notin AfterAudit /\ "flush" \notin AfterAudit
    BY DEF AfterAudit
  <2> QED
    BY <1>1, <1>2, <1>3, <1>4, <2>1, ScanKeepsSparing
<1> QED
  BY <1>2, <1>5, <1>6, <1>7, <1>8 DEF Unmarked, ScanSpares

\* A user past the badge has none, and no poll asks for one.
LEMMA BadgeStep ==
  ASSUME Types, Slugs, Owned, Badge, Next
  PROVE  Badge'
<1>1. JobMove /\ races \subseteq races'
  BY JobMoves, RacesGrow
<1> SUFFICES ASSUME "stale_poll" \notin races', NEW u \in Users, Past(AfterLive, u)'
             PROVE  live'[u] = "none" /\ \A p \in poll' : u \notin p.ids /\ u \notin p.queried
  BY DEF Badge
<1>2. "stale_poll" \notin races
  BY <1>1
<1>3. Crosses(AfterLive) \/ Past(AfterLive, u)
  BY <1>1, PastMoves DEF StaysOut, AfterLive
<1>4. CASE DeleteLiveStatus
  <2>1. /\ job.pc = "live" /\ live' = [live EXCEPT ![job.user] = "none"] /\ poll' = poll /\ gone' = gone
        /\ {p \in poll : job.user \in p.ids \cup p.queried} = {}
        /\ job' = [job EXCEPT !.pc = "cascade"]
    BY <1>4 DEF DeleteLiveStatus, Race, At, Goto
  <2>2. CASE u = job.user
    BY <2>1, <2>2 DEF Types
  <2>3. CASE u # job.user
    <3>1. u \in gone
      BY <2>1, <2>3, <1>3 DEF Past, AfterLive, Crosses, Types, Job
    <3> QED
      BY <1>2, <2>1, <2>3, <3>1 DEF Badge, Past
  <2> QED
    BY <2>2, <2>3
<1>5. CASE ~DeleteLiveStatus
  <2>1. Past(AfterLive, u)
    BY <1>1, <1>3, <1>5, CrossingIs
  <2>2. live[u] = "none" /\ \A p \in poll : u \notin p.ids /\ u \notin p.queried
    BY <1>2, <2>1 DEF Badge
  <2>3. CASE UNCHANGED <<live, poll>>
    BY <2>2, <2>3
  <2>4. CASE LiveSteps
    <3>1. CASE \E v \in Users : TwitchChanges(v)
      BY <2>2, <3>1 DEF TwitchChanges
    <3>2. CASE StartPoll
      <4>1. poll = {} /\ poll' = {[ids |-> ActiveOwners, queried |-> {}, on |-> {}]} /\ UNCHANGED live
        BY <3>2 DEF StartPoll
      <4>2. u \notin ActiveOwners
        <5>1. CASE u \in gone
          BY <5>1 DEF Owned, ActiveOwners
        <5>2. CASE u = job.user /\ job.pc \in AfterLive
          <6>1. {w \in {job.user} : /\ job.pc \in {"cascade", "redis2", "identity"}
                                    /\ poll = {} /\ \E p \in poll' : w \in p.ids} = {}
            BY <2>4 DEF LiveSteps, Race
          <6>2. ~ \E p \in poll' : u \in p.ids
            BY <4>1, <5>2, <6>1 DEF AfterLive
          <6> QED
            BY <4>1, <6>2
        <5> QED
          BY <2>1, <5>1, <5>2 DEF Past
      <4> QED
        BY <2>2, <4>1, <4>2
    <3>3. CASE \E batch \in SUBSET Users : AskHelix(batch) \/ HelixFails(batch)
      <4>1. PICK batch \in SUBSET Users : AskHelix(batch) \/ HelixFails(batch)
        BY <3>3
      <4>2. live' = live
        BY <4>1 DEF AskHelix, HelixFails
      <4>3. \A q \in poll' : \E p \in poll : q.ids \subseteq p.ids /\ q.queried \subseteq p.ids \cup p.queried
        <5>1. CASE AskHelix(batch)
          BY <5>1 DEF AskHelix
        <5>2. CASE HelixFails(batch)
          <6>1. PICK p \in poll : poll' = {[p EXCEPT !.ids = p.ids \ batch]}
            BY <5>2 DEF HelixFails
          <6>2. p \in Poll
            BY DEF Types
          <6> QED
            BY <6>1, <6>2 DEF Poll
        <5> QED
          BY <4>1, <5>1, <5>2
      <4> QED
        BY <2>2, <4>2, <4>3
    <3>4. CASE ApplyStatus
      BY <2>2, <3>4 DEF ApplyStatus
    <3> QED
      BY <2>4, <3>1, <3>2, <3>3, <3>4 DEF LiveSteps, LiveNext
  <2> QED
    BY <1>5, <2>3, <2>4, StepsFrame DEF Framed
<1> QED
  BY <1>4, <1>5

\* A user past the first sweep is on no campaign, unless it came back.
LEMMA AttributedStep ==
  ASSUME Types, Attributed, Next
  PROVE  Attributed'
<1>1. JobMove /\ races \subseteq races'
  BY JobMoves, RacesGrow
<1> SUFFICES ASSUME "reconnected" \notin races', NEW u \in Users, Past(AfterRedis, u)'
             PROVE  u \notin attr'
  BY DEF Attributed
<1>2. "identity" \in AfterRedis /\ "idle" \notin AfterRedis /\ "flush" \notin AfterRedis
  BY DEF AfterRedis, AfterStats, AfterPlacements, AfterBan, AfterMod, AfterOverlay, AfterAudit
<1>3. CASE Past(AfterRedis, u)
  <2>1. u \notin attr
    BY <1>1, <1>3 DEF Attributed
  <2>2. CASE \E v \in Users : Connect(v)
    <3>1. PICK v \in Users : Connect(v)
      BY <2>2
    <3>2. attr' = attr \cup {v} /\ v \notin gone /\ ({v} \cap {job.user} = {} \/ "reconnected" \in races')
      BY <3>1 DEF Connect, Race
    <3> QED
      BY <1>3, <2>1, <3>2 DEF Past
  <2>3. CASE FirstSweep \/ SecondSweep
    BY <2>1, <2>3 DEF FirstSweep, SecondSweep, PurgeRedis, redisVars
  <2> QED
    BY <2>1, <2>2, <2>3, StepsFrame DEF Framed
<1>4. CASE ~Past(AfterRedis, u)
  <2>1. Crosses(AfterRedis)
    BY <1>1, <1>2, <1>4, PastMoves DEF StaysOut
  <2>2. FirstSweep /\ u = job.user
    BY <1>1, <1>4, <2>1, CrossingIs DEF Crosses, Past
  <2> QED
    BY <2>2 DEF FirstSweep, PurgeRedis
<1> QED
  BY <1>3, <1>4

-----------------------------------------------------------------------------
(***************************************************************************)
(* Placements: stream, tables and keys.                                    *)
(***************************************************************************)

\* A placement behind a deletion, or on a canvas that dies with its owner, is recorded.
LEMMA PlaceWrites ==
  ASSUME Types, NEW v \in Users, NEW c \in DOMAIN canvases, Place(v, c)
  PROVE  /\ InStream(v)' = InStream(v) \cup {c} /\ \A w \in Users : w # v => InStream(w)' = InStream(w)
         /\ keys' = keys \cup {<<c, v>>}
         /\ UNCHANGED <<canvases, job, gone, rows, stats>>
         /\ "open_connection" \in races' \/ (v \notin {job.user} \cup gone /\ c \in Ids /\ c \notin job.owned)
<1>1. PICK e : e = [version |-> meta[c] + 1, user |-> v]
  OBVIOUS
<1>2. /\ stream' = [stream EXCEPT ![c] = Append(stream[c], e)]
      /\ keys' = keys \cup {<<c, v>>} /\ UNCHANGED <<canvases, job, gone, rows, stats>>
  BY <1>1 DEF Place, dataVars
<1>3. "open_connection" \in races' \/ {w \in {v} : \/ w \in {job.user} \cup gone
                                                   \/ c \in job.owned \cup (DOMAIN canvases \ Ids)} = {}
  BY DEF Place, Race
<1>4. "open_connection" \in races' \/ (v \notin {job.user} \cup gone /\ c \in Ids /\ c \notin job.owned)
  BY <1>3
<1>5. stream[c] \in Seq(StreamEntry) /\ e \in StreamEntry /\ e.user = v
  <2>1. stream[c] \in Seq(StreamEntry) /\ meta[c] \in Nat
    BY DEF Types
  <2>2. e \in StreamEntry /\ e.user = v
    BY <1>1, <2>1 DEF StreamEntry
  <2> QED
    BY <2>1, <2>2
<1>6. /\ Len(Append(stream[c], e)) = Len(stream[c]) + 1 /\ Append(stream[c], e)[Len(stream[c]) + 1] = e
      /\ \A i \in 1..Len(stream[c]) : Append(stream[c], e)[i] = stream[c][i]
      /\ Append(stream[c], e) \in Seq(StreamEntry)
  BY <1>5, AppendProperties
<1>7. /\ DOMAIN stream[c] = 1..Len(stream[c]) /\ Len(stream[c]) \in Nat
      /\ DOMAIN Append(stream[c], e) = 1..(Len(stream[c]) + 1)
  BY <1>5, <1>6, LenProperties
<1>8. /\ DOMAIN stream' = DOMAIN stream /\ stream'[c] = Append(stream[c], e) /\ c \in DOMAIN stream
      /\ \A d \in DOMAIN stream : d # c => stream'[d] = stream[d]
  BY <1>2 DEF Types
<1>9. \A w \in Users : (\E i \in DOMAIN stream'[c] : stream'[c][i].user = w)
                         <=> (w = v \/ \E i \in DOMAIN stream[c] : stream[c][i].user = w)
  <2> SUFFICES ASSUME NEW w \in Users
               PROVE  (\E i \in DOMAIN stream'[c] : stream'[c][i].user = w)
                         <=> (w = v \/ \E i \in DOMAIN stream[c] : stream[c][i].user = w)
    OBVIOUS
  <2>1. Len(stream[c]) + 1 \in DOMAIN stream'[c] /\ stream'[c][Len(stream[c]) + 1].user = v
    BY <1>5, <1>6, <1>7, <1>8
  <2>2. \A i \in DOMAIN stream[c] : i \in DOMAIN stream'[c] /\ stream'[c][i] = stream[c][i]
    BY <1>6, <1>7, <1>8
  <2>3. \A i \in DOMAIN stream'[c] : i = Len(stream[c]) + 1 \/ i \in DOMAIN stream[c]
    BY <1>7, <1>8
  <2> QED
    BY <2>1, <2>2, <2>3
<1>10. InStream(v)' = InStream(v) \cup {c}
  BY <1>8, <1>9 DEF InStream
<1>11. \A w \in Users : w # v => InStream(w)' = InStream(w)
  BY <1>8, <1>9 DEF InStream
<1> QED
  BY <1>2, <1>4, <1>10, <1>11

\* Nothing else puts a user in a stream.
LEMMA StreamAfter ==
  ASSUME Types, Slugs, LoginAssumption, Next, NEW u \in Users
  PROVE  InStream(u)' \subseteq InStream(u) \/ \E c \in DOMAIN canvases : Place(u, c)
<1>1. CASE UNCHANGED stream
  BY <1>1 DEF InStream
<1>2. CASE OwnershipSteps
  <2>1. DOMAIN canvases \subseteq DOMAIN canvases'
    BY TableTyped
  <2>2. stream' = [c \in DOMAIN canvases' |-> IF c \in DOMAIN stream THEN stream[c] ELSE <<>>]
    BY <1>2 DEF OwnershipSteps
  <2>3. \A c \in DOMAIN stream' : (c \in DOMAIN stream /\ stream'[c] = stream[c]) \/ stream'[c] = <<>>
    BY <2>2
  <2> QED
    BY <2>3, EmptySeq DEF InStream
<1>3. CASE FirstSweep \/ SecondSweep
  <2>1. \/ UNCHANGED stream
        \/ stream' = [c \in DOMAIN stream |-> IF c \in job.owned THEN <<>> ELSE stream[c]]
    BY <1>3 DEF FirstSweep, SecondSweep, PurgeRedis, redisVars
  <2> QED
    BY <1>1, <2>1, EmptySeq DEF InStream
<1>4. CASE \E c \in DOMAIN canvases : Drain(c)
  <2>1. PICK c \in DOMAIN canvases : stream' = [stream EXCEPT ![c] = <<>>]
    BY <1>4 DEF Drain
  <2> QED
    BY <2>1, EmptySeq DEF InStream, Types
<1>5. CASE \E v \in Users, c \in DOMAIN canvases : Place(v, c)
  BY <1>5, PlaceWrites
<1> QED
  BY <1>1, <1>2, <1>3, <1>4, <1>5, StepsFrame DEF Framed

\* Only the worker writes a row with a name.
LEMMA RowsAfter ==
  ASSUME Types, ErasureAssumption, Next, NEW r \in rows', r.user \in Users
  PROVE  r \in rows \/ \E c \in DOMAIN canvases : Drain(c) /\ r \in NewOf(c)
<1>1. CASE PurgePlacements
  <2>1. PICK batch \in SUBSET {s \in rows : s.user = job.user} :
          rows' = (rows \ batch) \cup {[s EXCEPT !.user = Anon] : s \in {t \in batch : t.canvas \notin job.owned}}
    BY <1>1, PlacementsLeave
  <2>2. \A s \in batch : s \in Row
    BY DEF Types
  <2>3. \A s \in batch : [s EXCEPT !.user = Anon].user = Anon
    BY <2>2 DEF Row
  <2>4. \A q \in rows' : q \in rows \/ \E s \in batch : q = [s EXCEPT !.user = Anon]
    BY <2>1
  <2>5. r.user # Anon
    BY ErasureAssumption DEF ErasureAssumption
  <2> QED
    BY <2>3, <2>4, <2>5
<1>2. CASE \E c \in DOMAIN canvases : Drain(c)
  BY <1>2, DrainWrites
<1>3. \A c \in DOMAIN canvases : CascadeCanvas(c) => rows' \subseteq rows
  BY DEF CascadeCanvas
<1> QED
  BY <1>1, <1>2, <1>3, StepsFrame DEF Framed

\* Only the worker counts for a user.
LEMMA StatsAfter ==
  ASSUME Types, Next, NEW s \in stats'
  PROVE  s \in stats \/ \E c \in DOMAIN canvases : Drain(c) /\ c \in InStream(s[1])
<1>1. CASE \E c \in DOMAIN canvases : Drain(c)
  <2>1. PICK c \in DOMAIN canvases : Drain(c)
    BY <1>1
  <2>2. stats' = stats \cup {<<r.user, c>> : r \in NewOf(c)} /\ \A r \in NewOf(c) : c \in InStream(r.user)
    BY <2>1, DrainWrites DEF NewOf
  <2> QED
    BY <2>1, <2>2
<1>2. PurgeStats \/ (\E c \in DOMAIN canvases : CascadeCanvas(c)) => stats' \subseteq stats
  BY DEF PurgeStats, CascadeCanvas
<1> QED
  BY <1>1, <1>2, StepsFrame DEF Framed

\* The last batch of the counts, which finds nothing undrained.
LEMMA StatsLeave ==
  ASSUME Types, ErasureAssumption, PurgeStats, job'.pc # "stats"
  PROVE  /\ \A s \in stats' : s \in stats /\ s[1] # job.user
         /\ InStream(job.user) # {} => "slow_worker" \in races'
         /\ UNCHANGED <<stream, rows>>
<1>1. PICK mine : mine = {s \in stats : s[1] = job.user}
  OBVIOUS
<1>2. PICK batch \in kSubset(Min({BatchSize, Cardinality(mine)}), mine) :
        /\ stats' = stats \ batch
        /\ IF Cardinality(mine) < BatchSize THEN Goto("placements") ELSE UNCHANGED job
  BY <1>1 DEF PurgeStats
<1>3. job.pc = "stats" /\ UNCHANGED <<stream, rows>> /\ (InStream(job.user) # {} => "slow_worker" \in races')
  BY DEF PurgeStats, At, Race, redisVars
<1>4. Cardinality(mine) < BatchSize
  BY <1>2, <1>3
<1>5. IsFiniteSet(mine)
  BY <1>1, FS_Subset DEF Types
<1>6. batch = mine
  BY <1>2, <1>4, <1>5, ShortBatch
<1> QED
  BY <1>1, <1>2, <1>3, <1>6

\* The stream is empty of the user when the last count goes, so no drain brings back a row.
LEMMA PurgedStep ==
  ASSUME Types, Slugs, Purged, LoginAssumption, ErasureAssumption, Next
  PROVE  Purged'
<1>1. JobMove /\ races \subseteq races'
  BY JobMoves, RacesGrow
<1> SUFFICES ASSUME races' \cap DataRaces = {}, NEW u \in Users
             PROVE  /\ Past(AfterStats, u)' => InStream(u)' = {} /\ \A s \in stats' : s[1] # u
                    /\ Past(AfterPlacements, u)' => \A r \in rows' : r.user # u
  BY DEF Purged
<1>2. races \cap DataRaces = {} /\ "open_connection" \notin races' /\ "slow_worker" \notin races'
  BY <1>1 DEF DataRaces
<1>3. Past(AfterStats, u) => /\ InStream(u) = {} /\ \A s \in stats : s[1] # u
                             /\ InStream(u)' = {} /\ \A s \in stats' : s[1] # u
  <2> SUFFICES ASSUME Past(AfterStats, u)
               PROVE  /\ InStream(u) = {} /\ \A s \in stats : s[1] # u
                      /\ InStream(u)' = {} /\ \A s \in stats' : s[1] # u
    OBVIOUS
  <2>1. InStream(u) = {} /\ \A s \in stats : s[1] # u
    BY <1>2 DEF Purged
  <2>2. u \in {job.user} \cup gone
    BY DEF Past
  <2>3. \A c \in DOMAIN canvases : ~Place(u, c)
    BY <1>2, <2>2, PlaceWrites
  <2>4. InStream(u)' = {}
    BY <2>1, <2>3, StreamAfter
  <2>5. \A s \in stats' : s[1] # u
    BY <2>1, StatsAfter
  <2> QED
    BY <2>1, <2>4, <2>5
<1>4. Past(AfterStats, u)' => InStream(u)' = {} /\ \A s \in stats' : s[1] # u
  <2> SUFFICES ASSUME Past(AfterStats, u)', ~Past(AfterStats, u)
               PROVE  InStream(u)' = {} /\ \A s \in stats' : s[1] # u
    BY <1>3
  <2>1. "identity" \in AfterStats /\ "idle" \notin AfterStats /\ "flush" \notin AfterStats
    BY DEF AfterStats, AfterPlacements, AfterBan, AfterMod, AfterOverlay, AfterAudit
  <2>2. Crosses(AfterStats)
    BY <1>1, <2>1, PastMoves DEF StaysOut
  <2>3. PurgeStats /\ u = job.user /\ job'.pc # "stats"
    BY <1>1, <2>2, CrossingIs DEF Crosses, Past, Moved
  <2>4. InStream(u) = {} /\ UNCHANGED stream /\ \A s \in stats' : s[1] # u
    BY <1>2, <2>3, StatsLeave
  <2> QED
    BY <2>4 DEF InStream
<1>5. Past(AfterPlacements, u)' => \A r \in rows' : r.user # u
  <2> SUFFICES ASSUME Past(AfterPlacements, u)', NEW r \in rows', r.user = u
               PROVE  FALSE
    OBVIOUS
  <2>1. "identity" \in AfterPlacements /\ "idle" \notin AfterPlacements /\ "flush" \notin AfterPlacements
        /\ AfterPlacements \subseteq AfterStats
    BY DEF AfterStats, AfterPlacements, AfterBan, AfterMod, AfterOverlay, AfterAudit
  <2>2. CASE Past(AfterPlacements, u)
    <3>1. InStream(u) = {} /\ r \notin rows
      BY <1>2, <2>1, <2>2 DEF Purged, Past
    <3>2. PICK c \in DOMAIN canvases : Drain(c) /\ r \in NewOf(c)
      BY <3>1, RowsAfter
    <3>3. c \in InStream(r.user)
      BY <3>2, DrainWrites DEF NewOf
    <3> QED
      BY <3>1, <3>3
  <2>3. CASE ~Past(AfterPlacements, u)
    <3>1. Crosses(AfterPlacements)
      BY <1>1, <2>1, <2>3, PastMoves DEF StaysOut
    <3>2. PurgePlacements /\ u = job.user /\ job'.pc = "ban"
      BY <1>1, <2>3, <3>1, CrossingIs DEF Crosses, Past, Moved
    <3>3. PICK batch \in SUBSET {s \in rows : s.user = job.user} :
            /\ rows' = (rows \ batch) \cup {[s EXCEPT !.user = Anon] : s \in {t \in batch : t.canvas \notin job.owned}}
            /\ job'.pc = "ban" => batch = {s \in rows : s.user = job.user}
      BY <3>2, PlacementsLeave
    <3>4. \A s \in batch : [s EXCEPT !.user = Anon].user = Anon
      BY DEF Types, Row
    <3>5. \A q \in rows' : q \in rows \ batch \/ \E s \in batch : q = [s EXCEPT !.user = Anon]
      BY <3>3
    <3>6. u # Anon
      BY ErasureAssumption DEF ErasureAssumption
    <3>7. batch = {s \in rows : s.user = job.user}
      BY <3>2, <3>3
    <3>8. r \notin rows \ batch
      BY <3>2, <3>7
    <3>9. PICK s \in batch : r = [s EXCEPT !.user = Anon]
      BY <3>5, <3>8
    <3> QED
      BY <3>4, <3>6, <3>9
  <2> QED
    BY <2>2, <2>3
<1> QED
  BY <1>4, <1>5

\* A step that takes nothing from what a key stands for.
QuietJob ==
  /\ job'.user = job.user /\ job'.owned = job.owned /\ job'.member = job.member /\ job.extra \subseteq job'.extra
  /\ gone' = gone
  /\ job'.pc \in AfterRedis => job.pc \in AfterRedis
  /\ job'.pc = "identity" => job.pc = "identity"
Quiet(k) ==
  /\ QuietJob /\ (k[1] \in Ids => k[1] \in Ids')
  /\ k[1] \in InStream(k[2]) => k[1] \in InStream(k[2])' \/ RowOn(k[1], k[2])'
  /\ RowOn(k[1], k[2]) => RowOn(k[1], k[2])' \/ (k[2] = job'.user /\ k[1] \in Extras')

\* What a key stands for survives a quiet step.
LEMMA KeyStays ==
  ASSUME NEW k, SweptKey(k), Quiet(k)
  PROVE  SweptKey(k)'
<1>1. k[1] \in Ids'
  BY DEF SweptKey, Quiet
<1>2. job'.pc \in AfterRedis => k[1] \notin job'.owned /\ (k[2] = job'.user => k[1] \notin job'.member)
  BY DEF SweptKey, Quiet, QuietJob
<1>3. k[1] \in InStream(k[2])' \/ RowOn(k[1], k[2])' \/ (k[2] = job'.user /\ k[1] \in Extras')
  BY DEF SweptKey, Quiet, QuietJob, Extras
<1>4. ~Past({"identity"}, k[2])'
  BY DEF SweptKey, Quiet, QuietJob, Past
<1> QED
  BY <1>1, <1>2, <1>3, <1>4 DEF SweptKey

\* Going on to a step before the end is quiet.
LEMMA GotoIsQuiet ==
  ASSUME Types, NEW q, Goto(q), gone' = gone, q \in AfterRedis => job.pc \in AfterRedis, q # "identity"
  PROVE  QuietJob
<1>1. /\ job'.user = job.user /\ job'.owned = job.owned /\ job'.member = job.member /\ job'.extra = job.extra
      /\ job'.pc = q
  BY DEF Goto, Types, Job
<1> QED
  BY <1>1 DEF QuietJob

\* The steps that touch neither canvases, keys, streams nor rows.
LEMMA SweptBeside ==
  ASSUME Types, Swept, Next, UNCHANGED <<canvases, keys, stream, rows>>, QuietJob
  PROVE  Swept'
<1>1. races \subseteq races'
  BY RacesGrow
<1>2. \A k : Quiet(k)
  BY DEF Quiet, Ids, InStream, RowOn
<1> QED
  BY <1>1, <1>2, KeyStays DEF Swept

\* A new canvas takes no key from the others.
LEMMA SweptOwnership ==
  ASSUME Types, Slugs, Swept, LoginAssumption, Next, OwnershipSteps
  PROVE  Swept'
<1>1. races \subseteq races' /\ UNCHANGED <<keys, rows, job, gone>>
  BY RacesGrow DEF OwnershipSteps, dataVars
<1>2. /\ DOMAIN canvases \subseteq DOMAIN canvases'
      /\ \A c \in DOMAIN canvases : c \in Ids' <=> c \in Ids
  BY OwnershipAdds
<1>3. stream' = [c \in DOMAIN canvases' |-> IF c \in DOMAIN stream THEN stream[c] ELSE <<>>]
  BY DEF OwnershipSteps
<1>4. \A c \in DOMAIN stream : c \in DOMAIN stream' /\ stream'[c] = stream[c]
  BY <1>2, <1>3 DEF Types
<1>5. \A k : Quiet(k)
  BY <1>1, <1>2, <1>4 DEF Quiet, QuietJob, Ids, InStream, RowOn
<1> QED
  BY <1>1, <1>5, KeyStays DEF Swept

\* A placement brings a key and the entry it stands for (place.lua).
LEMMA SweptPlace ==
  ASSUME Types, Swept, Next, \E u \in Users, c \in DOMAIN canvases : Place(u, c)
  PROVE  Swept'
<1> PICK v \in Users, c \in DOMAIN canvases : Place(v, c)
  OBVIOUS
<1>1. races \subseteq races'
  BY RacesGrow
<1>2. /\ InStream(v)' = InStream(v) \cup {c} /\ \A w \in Users : w # v => InStream(w)' = InStream(w)
      /\ keys' = keys \cup {<<c, v>>}
      /\ UNCHANGED <<canvases, job, gone, rows>>
      /\ "open_connection" \in races' \/ (v \notin {job.user} \cup gone /\ c \in Ids /\ c \notin job.owned)
  BY PlaceWrites
<1> SUFFICES ASSUME races' \cap KeyRaces = {} PROVE \A k \in keys' : SweptKey(k)'
  BY DEF Swept
<1>3. \A k \in keys : SweptKey(k)
  BY <1>1 DEF Swept
<1>4. \A k \in keys : k[2] \in Users
  BY DEF Types
<1>5. \A k \in keys : Quiet(k)
  <2> SUFFICES ASSUME NEW k \in keys PROVE Quiet(k)
    OBVIOUS
  <2>1. InStream(k[2]) \subseteq InStream(k[2])'
    BY <1>2, <1>4
  <2>2. Ids' = Ids
    BY <1>2 DEF Ids
  <2>3. RowOn(k[1], k[2]) => RowOn(k[1], k[2])'
    BY <1>2 DEF RowOn
  <2> QED
    BY <1>2, <2>1, <2>2, <2>3 DEF Quiet, QuietJob
<1>6. \A k \in keys : SweptKey(k)'
  BY <1>3, <1>5, KeyStays
<1>7. SweptKey(<<c, v>>)'
  <2>1. v \notin {job.user} \cup gone /\ c \in Ids /\ c \notin job.owned
    BY <1>2 DEF KeyRaces, DataRaces
  <2>2. c \in Ids' /\ c \in InStream(v)' /\ ~Past({"identity"}, v)'
    BY <1>2, <2>1 DEF Ids, Past
  <2> QED
    BY <1>2, <2>1, <2>2 DEF SweptKey
<1> QED
  BY <1>2, <1>6, <1>7

\* A drain turns the entry a key stands for into a row.
LEMMA SweptDrain ==
  ASSUME Types, Swept, Next, NEW c \in DOMAIN canvases, Drain(c)
  PROVE  Swept'
<1>1. races \subseteq races'
  BY RacesGrow
<1>2. /\ rows' = rows \cup NewOf(c) /\ stream' = [stream EXCEPT ![c] = <<>>]
      /\ (Fresh(c) # NewOf(c) => "dropped" \in races')
  BY DrainWrites
<1>3. UNCHANGED <<canvases, keys, job, gone>>
  BY DEF Drain, ownVars
<1> SUFFICES ASSUME races' \cap KeyRaces = {} PROVE \A k \in keys : SweptKey(k)'
  BY <1>3 DEF Swept
<1>4. \A k \in keys : SweptKey(k)
  BY <1>1 DEF Swept
<1>5. rows' = rows \cup Fresh(c)
  BY <1>2 DEF KeyRaces
<1>6. \A k \in keys : Quiet(k)
  <2> SUFFICES ASSUME NEW k \in keys PROVE Quiet(k)
    OBVIOUS
  <2>1. RowOn(k[1], k[2]) => RowOn(k[1], k[2])'
    BY <1>5 DEF RowOn
  <2>2. ASSUME k[1] \in InStream(k[2]) PROVE k[1] \in InStream(k[2])' \/ RowOn(k[1], k[2])'
    <3>1. CASE k[1] = c
      <4>1. PICK i \in DOMAIN stream[c] : stream[c][i].user = k[2]
        BY <2>2, <3>1 DEF InStream
      <4>2. PICK r : r = [canvas |-> c, version |-> stream[c][i].version, user |-> stream[c][i].user]
        OBVIOUS
      <4>3. r \in rows' /\ r.canvas = c /\ r.user = k[2]
        BY <1>5, <4>1, <4>2 DEF Fresh
      <4> QED
        BY <3>1, <4>3 DEF RowOn
    <3>2. CASE k[1] # c
      <4>1. k[1] \in DOMAIN stream /\ \E i \in DOMAIN stream[k[1]] : stream[k[1]][i].user = k[2]
        BY <2>2 DEF InStream
      <4>2. k[1] \in DOMAIN stream' /\ stream'[k[1]] = stream[k[1]]
        BY <1>2, <3>2, <4>1
      <4> QED
        BY <4>1, <4>2 DEF InStream
    <3> QED
      BY <3>1, <3>2
  <2>3. Ids' = Ids
    BY <1>3 DEF Ids
  <2> QED
    BY <1>3, <2>1, <2>2, <2>3 DEF Quiet, QuietJob
<1> QED
  BY <1>4, <1>6, KeyStays

\* An anonymised row leaves its canvas to the second sweep (PREAUTH_purgePlacementsBatch).
LEMMA SweptPlacements ==
  ASSUME Types, Swept, ErasureAssumption, Next, PurgePlacements
  PROVE  Swept'
<1>1. races \subseteq races' /\ JobMove
  BY RacesGrow, JobMoves
<1>2. PICK batch \in SUBSET {r \in rows : r.user = job.user} :
        /\ rows' = (rows \ batch) \cup {[r EXCEPT !.user = Anon] : r \in {s \in batch : s.canvas \notin job.owned}}
        /\ job'.extra = job.extra \cup {r.canvas : r \in batch}
  BY PlacementsLeave
<1>3. UNCHANGED <<canvases, keys, stream, gone>> /\ job.pc = "placements"
  BY DEF PurgePlacements, ownVars, redisVars, At
<1>4. QuietJob
  <2>1. /\ job'.user = job.user /\ job'.owned = job.owned /\ job'.member = job.member
        /\ job'.pc \in {"placements", "ban"}
    <3>1. After(job.pc) = "ban"
      BY <1>3, AfterIs
    <3>2. PICK mine : mine = {r \in rows : r.user = job.user}
      OBVIOUS
    <3>3. PICK last \in kSubset(Min({BatchSize, Cardinality(mine)}), mine) :
            job' = [job EXCEPT !.extra = @ \cup {r.canvas : r \in last},
                               !.pc = IF Cardinality(mine) < BatchSize THEN After(@) ELSE @]
      BY <3>2 DEF PurgePlacements
    <3> QED
      BY <1>3, <3>1, <3>3 DEF Types, Job
  <2> QED
    BY <1>2, <1>3, <2>1 DEF QuietJob, AfterRedis, AfterStats
<1> SUFFICES ASSUME races' \cap KeyRaces = {} PROVE \A k \in keys : SweptKey(k)'
  BY <1>3 DEF Swept
<1>5. \A k \in keys : SweptKey(k)
  BY <1>1 DEF Swept
<1>6. \A k \in keys : Quiet(k)
  <2> SUFFICES ASSUME NEW k \in keys PROVE Quiet(k)
    OBVIOUS
  <2>1. ASSUME RowOn(k[1], k[2])
        PROVE  RowOn(k[1], k[2])' \/ (k[2] = job'.user /\ k[1] \in Extras')
    <3>1. PICK r \in rows : r.canvas = k[1] /\ r.user = k[2]
      BY <2>1 DEF RowOn
    <3>2. CASE r \notin batch
      BY <1>2, <3>1, <3>2 DEF RowOn
    <3>3. CASE r \in batch
      <4>1. k[2] = job.user /\ k[1] \in job'.extra
        BY <1>2, <3>1, <3>3
      <4>2. k[1] \notin job.owned /\ k[1] \notin job.member
        BY <1>3, <1>5, <4>1 DEF SweptKey, AfterRedis, AfterStats
      <4> QED
        BY <1>4, <4>1, <4>2 DEF QuietJob, Extras
    <3> QED
      BY <3>2, <3>3
  <2>2. Ids' = Ids /\ InStream(k[2])' = InStream(k[2])
    BY <1>3 DEF Ids, InStream
  <2> QED
    BY <1>4, <2>1, <2>2 DEF Quiet
<1> QED
  BY <1>5, <1>6, KeyStays

\* The first sweep came before the cascade: no key is on a canvas that goes.
LEMMA SweptCascade ==
  ASSUME Types, Swept, Next, NEW c \in DOMAIN canvases, CascadeCanvas(c)
  PROVE  Swept'
<1>1. UNCHANGED <<races, keys, stream, job, gone>> /\ job.pc = "cascade" /\ c \in job.owned
  BY DEF CascadeCanvas, redisVars, At
<1>2. \A d \in Ids : d # c => d \in Ids'
  BY CascadeKeeps DEF Ids
<1>3. \A r \in rows : r.canvas # c => r \in rows'
  <2>1. PICK placed : placed = {r \in rows : r.canvas = c}
    OBVIOUS
  <2>2. \E batch \in SUBSET placed : rows' = rows \ batch
    BY <2>1 DEF CascadeCanvas, kSubset
  <2> QED
    BY <2>1, <2>2
<1> SUFFICES ASSUME races \cap KeyRaces = {} PROVE \A k \in keys : SweptKey(k)'
  BY <1>1 DEF Swept
<1>4. \A k \in keys : SweptKey(k) /\ k[1] # c
  BY <1>1 DEF Swept, SweptKey, AfterRedis, AfterStats, AfterPlacements, AfterBan, AfterMod, AfterOverlay, AfterAudit
<1>5. \A k \in keys : Quiet(k)
  <2> SUFFICES ASSUME NEW k \in keys PROVE Quiet(k)
    OBVIOUS
  <2>1. k[1] \in Ids => k[1] \in Ids'
    BY <1>2, <1>4
  <2>2. RowOn(k[1], k[2]) => RowOn(k[1], k[2])'
    BY <1>3, <1>4 DEF RowOn
  <2>3. InStream(k[2])' = InStream(k[2])
    BY <1>1 DEF InStream
  <2> QED
    BY <1>1, <2>1, <2>2, <2>3 DEF Quiet, QuietJob
<1> QED
  BY <1>4, <1>5, KeyStays

\* Both sweeps, by what they take.
LEMMA SweepTakes ==
  ASSUME Types, NEW member, PurgeRedis(member)
  PROVE  /\ \A k \in keys' : k \in keys /\ k[1] \notin job.owned /\ ~(k[1] \in member /\ k[2] = job.user)
         /\ \A k \in keys' : k[1] \in InStream(k[2]) => k[1] \in InStream(k[2])'
<1>1. \A k \in keys' : k \in keys /\ k[1] \notin job.owned /\ ~(k[1] \in member /\ k[2] = job.user)
  BY DEF PurgeRedis
<1>2. stream' = [c \in DOMAIN stream |-> IF c \in job.owned THEN <<>> ELSE stream[c]]
  BY DEF PurgeRedis
<1>3. \A c \in DOMAIN stream : c \notin job.owned => c \in DOMAIN stream' /\ stream'[c] = stream[c]
  BY <1>2
<1> QED
  BY <1>1, <1>3 DEF InStream

\* The first sweep takes the keys of owned and member canvases (purgeUser).
LEMMA SweptFirst ==
  ASSUME Types, Swept, Next, FirstSweep
  PROVE  Swept'
<1>1. races \subseteq races'
  BY RacesGrow
<1>2. /\ UNCHANGED <<canvases, rows, gone>> /\ job.pc = "redis"
      /\ job'.pc = "stats" /\ job'.user = job.user /\ job'.owned = job.owned /\ job'.member = job.member
      /\ job'.extra = job.extra
  BY DEF FirstSweep, ownVars, dataVars, At, Goto, Types, Job
<1>3. /\ \A k \in keys' : k \in keys /\ k[1] \notin job.owned /\ ~(k[1] \in job.member /\ k[2] = job.user)
      /\ \A k \in keys' : k[1] \in InStream(k[2]) => k[1] \in InStream(k[2])'
  BY SweepTakes DEF FirstSweep
<1> SUFFICES ASSUME races' \cap KeyRaces = {}, NEW k \in keys' PROVE SweptKey(k)'
  BY DEF Swept
<1>4. SweptKey(k)
  BY <1>1, <1>3 DEF Swept
<1>5. Ids' = Ids /\ RowOn(k[1], k[2])' = RowOn(k[1], k[2]) /\ Extras' = Extras
  BY <1>2 DEF Ids, RowOn, Extras
<1> QED
  BY <1>2, <1>3, <1>4, <1>5 DEF SweptKey, Past

\* The second sweep takes the last keys of the user: no entry or row of theirs is left.
LEMMA SweptSecond ==
  ASSUME Types, Swept, Purged, Next, SecondSweep
  PROVE  Swept'
<1>1. races \subseteq races'
  BY RacesGrow
<1>2. /\ UNCHANGED <<canvases, rows, gone>> /\ job.pc = "redis2"
      /\ job'.pc = "identity" /\ job'.user = job.user /\ job'.owned = job.owned /\ job'.member = job.member
      /\ job'.extra = job.extra
  BY DEF SecondSweep, ownVars, dataVars, At, Goto, Types, Job
<1>3. \/ Extras = {} /\ UNCHANGED <<keys, stream>>
      \/ PurgeRedis(Extras)
  BY DEF SecondSweep, Extras, redisVars
<1>4. /\ \A k \in keys' : k \in keys /\ ~(k[1] \in Extras /\ k[2] = job.user)
      /\ \A k \in keys' : k[1] \in InStream(k[2]) => k[1] \in InStream(k[2])'
  <2>1. CASE Extras = {} /\ UNCHANGED <<keys, stream>>
    BY <2>1 DEF InStream
  <2>2. CASE PurgeRedis(Extras)
    BY <2>2, SweepTakes
  <2> QED
    BY <1>3, <2>1, <2>2
<1> SUFFICES ASSUME races' \cap KeyRaces = {}, NEW k \in keys' PROVE SweptKey(k)'
  BY DEF Swept
<1>5. SweptKey(k) /\ k[2] \in Users
  BY <1>1, <1>4 DEF Swept, Types
<1>6. races \cap DataRaces = {}
  BY <1>1 DEF KeyRaces
<1>7. Ids' = Ids /\ RowOn(k[1], k[2])' = RowOn(k[1], k[2]) /\ Extras' = Extras
  BY <1>2 DEF Ids, RowOn, Extras
<1>8. k[2] # job.user
  <2> SUFFICES ASSUME k[2] = job.user PROVE FALSE
    OBVIOUS
  <2>1. Past(AfterStats, k[2]) /\ Past(AfterPlacements, k[2])
    BY <1>2 DEF Past, AfterStats, AfterPlacements, AfterBan, AfterMod, AfterOverlay, AfterAudit
  <2>2. InStream(k[2]) = {} /\ \A r \in rows : r.user # k[2]
    BY <1>5, <1>6, <2>1 DEF Purged
  <2> QED
    BY <1>4, <1>5, <2>2 DEF SweptKey, RowOn
<1>9. job'.pc \in AfterRedis => job.pc \in AfterRedis
  BY <1>2 DEF AfterRedis, AfterStats, AfterPlacements, AfterBan, AfterMod, AfterOverlay, AfterAudit
<1> QED
  BY <1>2, <1>4, <1>5, <1>7, <1>8, <1>9 DEF SweptKey, Past

\* A deletion that starts, dies or ends.
LEMMA SweptElsewhere ==
  ASSUME Types, Swept, ErasureAssumption, Next,
         (\E u \in Users : StartErasure(u)) \/ ErasureDies \/ DeleteIdentity
  PROVE  Swept'
<1>1. races \subseteq races'
  BY RacesGrow
<1>2. UNCHANGED <<canvases, rows, keys, stream>>
  BY DEF StartErasure, ErasureDies, DeleteIdentity, ownVars, dataVars, redisVars
<1> SUFFICES ASSUME races' \cap KeyRaces = {}, NEW k \in keys PROVE SweptKey(k)'
  BY <1>2 DEF Swept
<1>3. SweptKey(k) /\ k[2] \in Users /\ k[2] # Anon
  BY <1>1, ErasureAssumption DEF Swept, Types, ErasureAssumption
<1>4. Ids' = Ids /\ RowOn(k[1], k[2])' = RowOn(k[1], k[2]) /\ InStream(k[2])' = InStream(k[2])
  BY <1>2 DEF Ids, RowOn, InStream
<1>5. job'.pc \notin AfterRedis /\ job'.pc # "identity"
  BY DEF StartErasure, ErasureDies, DeleteIdentity, NoJob, AfterRedis, AfterStats, AfterPlacements, AfterBan, AfterMod,
    AfterOverlay, AfterAudit
<1>6. ~(k[2] = job.user /\ k[1] \in Extras)
  <2>1. CASE \E u \in Users : StartErasure(u)
    BY <1>3, <2>1 DEF StartErasure, NoJob
  <2>2. CASE ErasureDies
    <3>1. Extras = {} \/ "forgotten" \in races'
      BY <2>2 DEF ErasureDies, Race, Extras
    <3> QED
      BY <3>1 DEF KeyRaces
  <2>3. CASE DeleteIdentity
    BY <1>3, <2>3 DEF DeleteIdentity, At, SweptKey, Past
  <2> QED
    BY <2>1, <2>2, <2>3
<1>7. k[2] \notin gone'
  <2>1. CASE gone' = gone
    BY <1>3, <2>1 DEF SweptKey, Past
  <2>2. CASE DeleteIdentity
    BY <1>3, <2>2 DEF DeleteIdentity, At, SweptKey, Past
  <2> QED
    BY <2>1, <2>2 DEF StartErasure, ErasureDies
<1> QED
  BY <1>3, <1>4, <1>5, <1>6, <1>7 DEF SweptKey, Past

\* Every step leaves each key what it stands for.
LEMMA SweptStep ==
  ASSUME Types, Slugs, Swept, Purged, LoginAssumption, ErasureAssumption, Next
  PROVE  Swept'
<1> USE DEF ownVars, liveVars, redisVars, dataVars
<1>1. CASE OwnershipSteps
  BY <1>1, SweptOwnership
<1>2. CASE LiveSteps
  <2>1. UNCHANGED canvases
    BY <1>2 DEF LiveSteps, LiveNext, TwitchChanges, StartPoll, AskHelix, HelixFails, ApplyStatus
  <2>2. UNCHANGED <<keys, stream, rows>> /\ QuietJob
    BY <1>2 DEF LiveSteps, QuietJob
  <2> QED
    BY <2>1, <2>2, SweptBeside
<1>3. CASE Traffic
  <2>1. CASE (\E u \in Users : Connect(u)) \/ WorkerBoot
             \/ \E m, u \in Users, c \in DOMAIN canvases, kind \in {"ban", "mod", "overlay"} : Moderate(m, u, c, kind)
    <3>1. UNCHANGED <<canvases, keys, stream, rows>> /\ QuietJob
      BY <2>1 DEF Connect, WorkerBoot, Moderate, QuietJob
    <3> QED
      BY <3>1, SweptBeside
  <2>2. CASE \E u \in Users, c \in DOMAIN canvases : Place(u, c)
    BY <2>2, SweptPlace
  <2>3. CASE \E c \in DOMAIN canvases : Drain(c)
    BY <2>3, SweptDrain
  <2> QED
    BY <1>3, <2>1, <2>2, <2>3 DEF Traffic
<1>4. CASE (\E u \in Users : StartErasure(u)) \/ ErasureDies \/ DeleteIdentity
  BY <1>4, SweptElsewhere
<1>5. CASE SecondSweepFails
  BY <1>5 DEF SecondSweepFails, Race, Swept, KeyRaces, Types, Job
<1>6. CASE FlushAndWait \/ DeleteLiveStatus \/ CascadeDone
  <2>1. UNCHANGED <<canvases, keys, stream, rows>>
    BY <1>6 DEF FlushAndWait, DeleteLiveStatus, CascadeDone
  <2>2. QuietJob
    BY <1>6, GotoIsQuiet DEF FlushAndWait, DeleteLiveStatus, CascadeDone, At, AfterRedis, AfterStats, AfterPlacements,
      AfterBan, AfterMod, AfterOverlay, AfterAudit
  <2> QED
    BY <2>1, <2>2, SweptBeside
<1>7. CASE PurgeStats
  <2>1. UNCHANGED <<canvases, keys, stream, rows>>
    BY <1>7 DEF PurgeStats
  <2>2. job.pc = "stats" /\ gone' = gone /\ (Goto("placements") \/ UNCHANGED job)
    BY <1>7 DEF PurgeStats, At
  <2>3. QuietJob
    <3>1. CASE Goto("placements")
      BY <2>2, <3>1, GotoIsQuiet DEF AfterRedis
    <3>2. CASE UNCHANGED job
      BY <2>2, <3>2 DEF QuietJob
    <3> QED
      BY <2>2, <3>1, <3>2
  <2> QED
    BY <2>1, <2>3, SweptBeside
<1>8. CASE ScrubBans \/ ScrubModerators \/ ScrubPixelModeration \/ ScrubAudit
  <2>1. UNCHANGED <<canvases, keys, stream, rows>>
    BY <1>8 DEF ScrubBans, ScrubModerators, ScrubPixelModeration, ScrubAudit, Scrub
  <2>2. /\ gone' = gone /\ job.pc \in {"ban", "mod", "overlay", "audit"}
        /\ Goto("mod") \/ Goto("overlay") \/ Goto("audit") \/ Goto("live")
    BY <1>8, AfterIs DEF ScrubBans, ScrubModerators, ScrubPixelModeration, ScrubAudit, Scrub, At
  <2>3. job.pc \in AfterRedis
    BY <2>2 DEF AfterRedis, AfterStats, AfterPlacements, AfterBan, AfterMod, AfterOverlay, AfterAudit
  <2>4. QuietJob
    BY <2>2, <2>3, GotoIsQuiet
  <2> QED
    BY <2>1, <2>4, SweptBeside
<1>9. CASE FirstSweep
  BY <1>9, SweptFirst
<1>10. CASE PurgePlacements
  BY <1>10, SweptPlacements
<1>11. CASE \E c \in DOMAIN canvases : CascadeCanvas(c)
  BY <1>11, SweptCascade
<1>12. CASE SecondSweep
  BY <1>12, SweptSecond
<1> QED
  BY <1>1, <1>2, <1>3, <1>4, <1>5, <1>6, <1>7, <1>8, <1>9, <1>10, <1>11, <1>12 DEF Next, JobStep

-----------------------------------------------------------------------------
(***************************************************************************)
(* The theorems.                                                           *)
(***************************************************************************)

\* A population to start from has the invariant.
LEMMA InitTypes ==
  ASSUME Init, LoginAssumption, ErasureAssumption
  PROVE  /\ Types /\ Slugs
         /\ \A k \in keys : k[1] \in Ids /\ RowOn(k[1], k[2])
         /\ \A u \in Users : profile[u] # {} => named[u] # {}
<1>1. PICK p \in Populations :
        /\ profile = p.profile /\ canvases = p.canvases
        /\ named = [u \in Users |-> {q.login : q \in p.profile[u]}]
        /\ rows = p.rows
        /\ stats = {<<r.user, r.canvas>> : r \in p.rows}
        /\ keys = {<<r.canvas, r.user>> : r \in p.rows}
        /\ stream = [c \in DOMAIN p.canvases |-> <<>>]
        /\ meta = [c \in DOMAIN p.canvases |-> Cardinality({r \in p.rows : r.canvas = c})]
  BY DEF Init
<1>2. /\ profile \in [Users -> SUBSET [login : Logins \cup {NoLogin}]]
      /\ canvases \in Seq([owner : Users, status : {"active", "archived"}, minted : BOOLEAN,
                           slug : [login : Logins, canvas : BOOLEAN, n : Nat]])
      /\ \A c, d \in DOMAIN canvases : c # d =>
            /\ canvases[c].slug # canvases[d].slug
            /\ canvases[c].owner = canvases[d].owner => "archived" \in {canvases[c].status, canvases[d].status}
      /\ IsFiniteSet(rows) /\ rows \subseteq [canvas : DOMAIN canvases, version : Nat, user : Users]
  BY <1>1, ErasureAssumption DEF ErasureAssumption
<1>3. live = [u \in Users |-> "none"] /\ poll = {} /\ marks = {} /\ gone = {} /\ job = NoJob
  BY DEF Init, LiveInit
<1>4. /\ Len(canvases) \in Nat /\ DOMAIN canvases = 1..Len(canvases)
      /\ \A c \in DOMAIN canvases : canvases[c] \in [owner : Users, status : {"active", "archived"}, minted : BOOLEAN,
                                                     slug : [login : Logins, canvas : BOOLEAN, n : Nat]]
  <2>1. PICK S : S = [owner : Users, status : {"active", "archived"}, minted : BOOLEAN,
                      slug : [login : Logins, canvas : BOOLEAN, n : Nat]]
    OBVIOUS
  <2>2. canvases \in Seq(S)
    BY <1>2, <2>1
  <2>3. Len(canvases) \in Nat /\ DOMAIN canvases = 1..Len(canvases) /\ \A c \in DOMAIN canvases : canvases[c] \in S
    BY <2>2, LenProperties, ElementOfSeq
  <2> QED
    BY <2>1, <2>3
<1>5. \A c \in DOMAIN canvases : canvases[c] \in Canvas /\ canvases[c].status # "deleted"
  BY <1>4 DEF Canvas, Slug
<1>6. canvases \in Seq(Canvas)
  <2>1. canvases = [c \in 1..Len(canvases) |-> canvases[c]]
    BY <1>2, LenProperties
  <2>2. canvases \in [1..Len(canvases) -> Canvas]
    BY <1>4, <1>5, <2>1
  <2> QED
    BY <1>4, <2>2, SeqDef
<1>7. Ids = DOMAIN canvases
  BY <1>5 DEF Ids
<1>8. Slugs
  BY <1>2, <1>7 DEF Slugs
<1>9. named \in [Users -> SUBSET (Logins \cup {NoLogin})] /\ \A u \in Users : profile[u] # {} => named[u] # {}
  BY <1>1, <1>2
<1>10. stream \in [DOMAIN canvases -> Seq(StreamEntry)]
  BY <1>1, EmptySeq
<1>11. meta \in [DOMAIN canvases -> Nat]
  <2>1. \A c \in DOMAIN canvases : {r \in rows : r.canvas = c} \in SUBSET rows
    OBVIOUS
  <2>2. \A c \in DOMAIN canvases : Cardinality({r \in rows : r.canvas = c}) \in Nat
    BY <1>2, <2>1, FS_Subset, FS_CardinalityType
  <2> QED
    BY <1>1, <2>2
<1>12. \A r \in rows : r.canvas \in DOMAIN canvases /\ r.canvas \in Nat /\ r.user \in Users /\ r \in Row
  BY <1>2, <1>4 DEF Row
<1>13. stats \subseteq Users \X Nat /\ IsFiniteSet(stats)
  <2> DEFINE f == [r \in rows |-> <<r.user, r.canvas>>]
  <2>1. stats = {<<r.user, r.canvas>> : r \in rows}
    BY <1>1
  <2>2. DOMAIN f = rows /\ {f[r] : r \in DOMAIN f} = {<<r.user, r.canvas>> : r \in rows}
    OBVIOUS
  <2> HIDE DEF f
  <2>3. IsFiniteSet(stats)
    <3>1. stats = {f[r] : r \in DOMAIN f}
      BY <2>1, <2>2
    <3>2. IsFiniteSet(DOMAIN f)
      BY <1>2, <2>2
    <3> QED
      BY <3>1, <3>2, ImageIsFinite
  <2> QED
    BY <1>12, <2>1, <2>3
<1>14. keys \subseteq Nat \X Users /\ \A k \in keys : k[1] \in Ids /\ RowOn(k[1], k[2])
  BY <1>1, <1>7, <1>12 DEF RowOn
<1>15. job \in Job /\ job.pc = "idle"
  BY <1>3 DEF NoJob, Job, Pcs
<1>16. live \in [Users -> {"none", "off", "on"}] /\ poll \subseteq Poll /\ marks \subseteq Mark /\ gone \subseteq Users
  BY <1>3
<1>17. Types
  BY <1>2, <1>3, <1>6, <1>9, <1>10, <1>11, <1>12, <1>13, <1>14, <1>15, <1>16 DEF Types
<1> QED
  BY <1>8, <1>9, <1>14, <1>17

\* Nothing of anybody is past a step at first.
LEMMA InitInv ==
  ASSUME Init, LoginAssumption, ErasureAssumption
  PROVE  ErasureInv
<1>1. /\ Types /\ Slugs
      /\ \A k \in keys : k[1] \in Ids /\ RowOn(k[1], k[2])
      /\ \A u \in Users : profile[u] # {} => named[u] # {}
  BY InitTypes
<1>2. marks = {} /\ gone = {} /\ job = NoJob
  BY DEF Init
<1>3. \A pcs, u : "idle" \notin pcs => ~Past(pcs, u)
  BY <1>2 DEF NoJob, Past
<1>4. /\ \A u : ~Past(AfterRedis, u) /\ ~Past(AfterStats, u) /\ ~Past(AfterPlacements, u) /\ ~Past(AfterLive, u)
      /\ \A u : ~Past(AfterCascade, u) /\ ~Past({"identity"}, u)
      /\ "idle" \notin AfterRedis
  BY <1>3 DEF AfterRedis, AfterStats, AfterPlacements, AfterBan, AfterMod, AfterOverlay, AfterAudit, AfterLive,
    AfterCascade
<1>5. Owned
  BY <1>1, <1>2, <1>4 DEF Owned, NoJob
<1>6. Unmarked /\ Badge /\ Attributed /\ Purged
  BY <1>2, <1>4 DEF Unmarked, Badge, Attributed, Purged
<1>7. Swept
  BY <1>1, <1>2, <1>4 DEF Swept, SweptKey, NoJob
<1> QED
  BY <1>1, <1>5, <1>6, <1>7 DEF ErasureInv

\* Every step keeps it.
LEMMA StepInv ==
  ASSUME ErasureInv, LoginAssumption, ErasureAssumption, [Next]_vars
  PROVE  ErasureInv'
<1> USE DEF ErasureInv
<1>1. CASE Next
  <2>1. Types' /\ Slugs'
    BY <1>1, TypesStep, SlugsStep
  <2>2. Owned' /\ Unmarked' /\ Badge' /\ Attributed'
    BY <1>1, OwnedStep, UnmarkedStep, BadgeStep, AttributedStep
  <2>3. Purged' /\ Swept'
    BY <1>1, PurgedStep, SweptStep
  <2> QED
    BY <2>1, <2>2, <2>3
<1>2. CASE UNCHANGED vars
  <2>1. UNCHANGED <<profile, canvases, named, live, poll, stream, meta, keys, attr>>
    BY <1>2 DEF vars, ownVars, liveVars, redisVars
  <2>2. UNCHANGED <<rows, stats, marks, job, gone, races>>
    BY <1>2 DEF vars, dataVars
  <2>3. Types' /\ Slugs'
    BY <2>1, <2>2 DEF Types, Slugs, Ids
  <2>4. Owned' /\ Unmarked' /\ Badge' /\ Attributed'
    BY <2>1, <2>2 DEF Owned, OwnedBy, Ids, Past, Unmarked, Names, Badge, Attributed
  <2>5. Purged'
    BY <2>1, <2>2 DEF Purged, InStream, Past
  <2>6. Swept'
    BY <2>1, <2>2 DEF Swept, SweptKey, Ids, InStream, RowOn, Extras, Past
  <2> QED
    BY <2>3, <2>4, <2>5, <2>6
<1> QED
  BY <1>1, <1>2

\* Types, the names of canvases and, step by step of a deletion, what has gone of a user: an
\* invariant of the whole, whatever runs against it and however often it dies.
THEOREM ErasureIsInductive == Spec => []ErasureInv
<1>1. Init => ErasureInv
  BY InitInv, LoginAssumption, ErasureAssumption
<1>2. ErasureInv /\ [Next]_vars => ErasureInv'
  BY StepInv, LoginAssumption, ErasureAssumption
<1> QED
  BY <1>1, <1>2, PTL DEF Spec

\* No two canvases share a slug, an owner has one active canvas at most, and a user's own
\* link leads to it (insertActiveCanvas, uniqueSlug, getCanvasBySlug, auth.me).
THEOREM LinksLead == Spec => []LinksLeadToActive
<1>1. ErasureInv => LinksLeadToActive
  <2> SUFFICES ASSUME ErasureInv PROVE LinksLeadToActive
    OBVIOUS
  <2>1. Types /\ Slugs
    BY DEF ErasureInv
  <2>2. \A c \in Ids : canvases[c] \in Canvas
    BY <2>1, IdsAre DEF Ids
  <2>3. \A u \in Users : \A c, d \in ActiveOf(u) : c = d
    BY <2>1 DEF Slugs, ActiveOf, OwnedBy
  <2>4. \A u \in Users : \A c \in ActiveOf(u) :
          ActiveOf(u) = {c} /\ c \in Ids /\ canvases[c].status = "active"
    BY <2>3 DEF ActiveOf, OwnedBy
  <2>5. OneActiveOneSlug
    <3>1. \A u \in Users : Cardinality(ActiveOf(u)) <= 1
      <4> SUFFICES ASSUME NEW u \in Users PROVE Cardinality(ActiveOf(u)) <= 1
        OBVIOUS
      <4>1. CASE ActiveOf(u) = {}
        BY <4>1, FS_EmptySet
      <4>2. CASE ActiveOf(u) # {}
        <5>1. PICK c : ActiveOf(u) = {c}
          BY <2>4, <4>2
        <5>2. Cardinality({c}) = 1
          BY FS_Singleton
        <5> QED
          BY <5>1, <5>2
      <4> QED
        BY <4>1, <4>2
    <3> QED
      BY <2>1, <3>1 DEF OneActiveOneSlug, Slugs
  <2>6. \A c \in Ids : {d \in Ids : canvases[d].slug = canvases[c].slug} = {c}
    BY <2>1 DEF Slugs
  <2>7. ASSUME NEW c \in Ids, canvases[c].status = "active"
        PROVE  ResolveSlug(canvases[c].slug) = {c}
    BY <2>6, <2>7 DEF ResolveSlug
  <2>8. ASSUME NEW u \in Users, ActiveOf(u) # {}, NEW c \in OwnedBy(u),
               canvases[c].slug = SlugOf(PersonalBase(Login(u)), 1)
        PROVE  ResolveSlug(SlugOf(PersonalBase(Login(u)), 1)) = ActiveOf(u)
    <3>1. c \in Ids /\ canvases[c].owner = u
      BY DEF OwnedBy
    <3>2. CASE canvases[c].status = "active"
      BY <2>4, <2>7, <2>8, <3>1, <3>2 DEF ActiveOf
    <3>3. CASE canvases[c].status # "active"
      <4>1. Login(u) \in Logins
        <5>1. canvases[c].slug.login \in Logins
          BY <2>2, <3>1 DEF Canvas, Slug
        <5>2. SlugOf(PersonalBase(Login(u)), 1).login = Login(u)
          BY DEF SlugOf, PersonalBase
        <5> QED
          BY <2>8, <5>1, <5>2
      <4>2. Login(u) # NoLogin
        BY <4>1, LoginAssumption DEF LoginAssumption
      <4>3. PICK slug : slug = SlugOf(PersonalBase(Login(u)), 1)
        OBVIOUS
      <4>4. {d \in Ids : canvases[d].slug = slug} = {c}
        BY <2>6, <2>8, <3>1, <4>3
      <4>5. ResolveSlug(slug) = ActiveOf(u)
        BY <2>8, <3>1, <3>3, <4>2, <4>3, <4>4 DEF ResolveSlug
      <4> QED
        BY <4>3, <4>5
    <3> QED
      BY <3>2, <3>3
  <2>9. LinkFollowsActive
    BY <2>8 DEF LinkFollowsActive
  <2>10. ASSUME NEW u \in Users, ActiveOf(u) # {}
         PROVE  ResolveSlug(MyCanvasSlug(u)) = ActiveOf(u)
    <3>1. PICK c : c = CHOOSE d \in ActiveOf(u) : TRUE
      OBVIOUS
    <3>2. c \in ActiveOf(u) /\ MyCanvasSlug(u) = canvases[c].slug
      BY <2>10, <3>1 DEF MyCanvasSlug
    <3>3. ActiveOf(u) = {c} /\ c \in Ids /\ canvases[c].status = "active"
      BY <2>4, <3>2
    <3> QED
      BY <2>7, <3>2, <3>3
  <2> QED
    BY <2>5, <2>9, <2>10 DEF LinksLeadToActive, MyCanvasIsActive
<1> QED
  BY <1>1, ErasureIsInductive, PTL

\* When deleteMyAccount has deleted the identity, nothing names the user, but for the races
\* the model records: across batches, deaths and retries.
THEOREM LeavesNoTrace == Spec => []ErasedLeavesNoTrace
<1>1. ErasureInv => ErasedLeavesNoTrace
  <2> SUFFICES ASSUME ErasureInv, NEW u \in gone
               PROVE  /\ races \cap DataRaces = {} =>
                              /\ InStream(u) = {} /\ \A r \in rows : r.user # u
                              /\ \A s \in stats : s[1] # u
                      /\ races \cap KeyRaces = {} => \A k \in keys : k[2] # u
                      /\ "moderated" \notin races => \A m \in marks : m.of # u /\ m.by # u
                      /\ "stale_poll" \notin races => live[u] = "none"
                      /\ "canvas_created" \notin races => OwnedBy(u) = {}
                      /\ "reconnected" \notin races => u \notin attr
    BY DEF ErasedLeavesNoTrace, DataRaces, KeyRaces
  <2>1. u \in Users /\ \A pcs : Past(pcs, u)
    BY DEF ErasureInv, Types, Past
  <2>2. races \cap DataRaces = {} =>
          /\ InStream(u) = {} /\ \A r \in rows : r.user # u
          /\ \A s \in stats : s[1] # u
    BY <2>1 DEF ErasureInv, Purged
  <2>3. races \cap KeyRaces = {} => \A k \in keys : k[2] # u
    BY <2>1 DEF ErasureInv, Swept, SweptKey
  <2>4. "moderated" \notin races => \A m \in marks : m.of # u /\ m.by # u
    <3> SUFFICES ASSUME "moderated" \notin races, NEW m \in marks, Names(u, m) PROVE FALSE
      BY DEF Names
    <3>1. m.kind \in {"ban", "mod", "overlay", "audit"}
      BY DEF ErasureInv, Types, Mark
    <3> QED
      BY <2>1, <3>1 DEF ErasureInv, Unmarked
  <2>5. "stale_poll" \notin races => live[u] = "none"
    BY <2>1 DEF ErasureInv, Badge
  <2>6. "canvas_created" \notin races => OwnedBy(u) = {}
    BY <2>1 DEF ErasureInv, Owned
  <2>7. "reconnected" \notin races => u \notin attr
    BY <2>1 DEF ErasureInv, Attributed
  <2> QED
    BY <2>2, <2>3, <2>4, <2>5, <2>6, <2>7
<1> QED
  BY <1>1, ErasureIsInductive, PTL

\* A deletion never takes a row from somebody else's canvas: batch by batch it takes the name
\* only (planPlacementPurge), and the cascade stays on the canvases of its user.
THEOREM OthersKeep == Spec => OthersKeepPixels
<1> DEFINE StaysAsRow == \A r \in rows : r.canvas \in Ids /\ canvases[r.canvas].owner # job.user =>
                      \E q \in rows' : q.canvas = r.canvas /\ q.version = r.version
<1>1. ErasureInv /\ [Next]_vars => [StaysAsRow]_vars
  <2> SUFFICES ASSUME ErasureInv, Next, NEW r \in rows, canvases[r.canvas].owner # job.user
               PROVE  \E q \in rows' : q.canvas = r.canvas /\ q.version = r.version
    OBVIOUS
  <2>1. Types /\ Owned /\ r \in Row
    BY DEF ErasureInv, Types
  <2>2. r.canvas \notin job.owned
    BY <2>1 DEF Owned
  <2>3. CASE PurgePlacements
    <3>1. PICK batch \in SUBSET {s \in rows : s.user = job.user} :
            rows' = (rows \ batch) \cup {[s EXCEPT !.user = Anon] : s \in {t \in batch : t.canvas \notin job.owned}}
      BY <2>1, <2>3, PlacementsLeave, ErasureAssumption
    <3>2. CASE r \notin batch
      BY <3>1, <3>2
    <3>3. CASE r \in batch
      <4>1. [r EXCEPT !.user = Anon] \in rows'
        BY <2>2, <3>1, <3>3
      <4>2. [r EXCEPT !.user = Anon].canvas = r.canvas /\ [r EXCEPT !.user = Anon].version = r.version
        BY <2>1 DEF Row
      <4> QED
        BY <4>1, <4>2
    <3> QED
      BY <3>2, <3>3
  <2>4. CASE \E c \in DOMAIN canvases : Drain(c)
    BY <2>4 DEF Drain
  <2>5. CASE \E c \in DOMAIN canvases : CascadeCanvas(c)
    <3>1. PICK c \in DOMAIN canvases : CascadeCanvas(c)
      BY <2>5
    <3>2. c \in job.owned /\ r.canvas # c
      BY <2>2, <3>1 DEF CascadeCanvas
    <3>3. PICK placed : placed = {s \in rows : s.canvas = c}
      OBVIOUS
    <3>4. \E batch \in SUBSET placed : rows' = rows \ batch
      BY <3>1, <3>3 DEF CascadeCanvas, kSubset
    <3> QED
      BY <3>2, <3>3, <3>4
  <2> QED
    BY <2>3, <2>4, <2>5, StepsFrame DEF Framed
<1>2. [][StaysAsRow]_vars <=> OthersKeepPixels
  BY DEF OthersKeepPixels
<1> HIDE DEF StaysAsRow
<1> QED
  BY <1>1, <1>2, ErasureIsInductive, PTL DEF Spec
=============================================================================
