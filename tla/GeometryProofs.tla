--------------------------- MODULE GeometryProofs ---------------------------
(***************************************************************************)
(* What a resize keeps, for every whitelist of sides and any number of     *)
(* writes, resizes, connections and faults: types, the agreement of the    *)
(* gateway with Convex, of the bytes with the log, of a cold start with    *)
(* the bytes, and the count of painted cells.                              *)
(*                                                                         *)
(* While a resize is under way none of these agree.  The invariant says    *)
(* what each cell is due to show once the posts have run, in which order   *)
(* they may run, and what the rows still owe to the frame.                 *)
(***************************************************************************)
EXTENDS Geometry, FiniteSetTheorems, SequenceTheorems, WellFoundedInduction, TLAPS

\* What the code does not guard against; the properties are about behaviours without.
Races == {"lost_post", "healed_early", "wrong_stride", "stale_join", "wrong_old_dims",
          "overtaking", "detached", "same_tick", "snapshot_in_gap"}

GeoTypeOK ==
  /\ dims \in Dims /\ layout \in Dims /\ state \in Dims \cup {NoDims}
  /\ written \in Seq(Pixels) /\ drained \in 0..Len(written)
  /\ rows \subseteq 1..drained /\ cellCount \in Int /\ stray \subseteq 1..Len(written)
  /\ resizes \in Nat /\ posts \subseteq [d: Dims, n: Nat]
  /\ jobs \subseteq [d: Dims, n: Nat, entry: BOOLEAN]
  /\ bytes \in [Offsets -> Colors] /\ cut \subseteq AllCells
  /\ cache \in [dims: Dims \cup {NoDims}, at: Nat]
  /\ fetch \in [pc: {"none", "sent", "read"}, at: Nat, val: Dims \cup {NoDims},
                pixels: SUBSET Pixels]
  /\ fetch.pc = "read" => fetch.val \in Dims
  /\ now \in Nat /\ cache.at <= now /\ fetch.at <= now
  /\ boards \in [Conns -> Dims \cup {NoDims}] /\ joining \subseteq Conns
  /\ snap \in [dims: Dims \cup {NoDims}, version: Nat, at: [AllCells -> Colors]]
  /\ snap.dims = NoDims => snap = NoSnap
  /\ snap.version <= drained /\ nudged \in BOOLEAN /\ faults \in Nat /\ races \subseteq Races

\* The posts under way end in the durable dims, the bytes are in the dims of the last one
\* that ran, and one runs at a time.
InTurn ==
  /\ \A p \in posts : p.n < resizes /\ (p.n = resizes - 1 => p.d = dims)
  /\ posts # {} => \E p \in posts : p.n = resizes - 1
  /\ posts = {} => layout = dims
  /\ \A p, q \in posts : p.n = q.n => p = q
  /\ \A j \in jobs : j.d = layout /\ j.n < resizes /\ \A p \in posts : j.n < p.n
  /\ \A i, j \in jobs : i = j

\* With no resize under way the gateway agrees with Convex, and an answer from before the
\* last resize finds a cache that is younger than its question.
Follows ==
  posts = {} /\ jobs = {} =>
    /\ cache.dims \in {NoDims, dims} /\ state \in {NoDims, dims}
    /\ \A c \in Conns : boards[c] \in {NoDims, dims}
    /\ fetch.pc = "read" => fetch.val = dims \/ (cache.dims # NoDims /\ cache.at > fetch.at)

\* The rows and the stream have nothing outside the frame but strays.
StraysKnown == \A v \in Logged : ~In(written[v].cell, dims) => v \in stray

\* What a cell will show once the posts under way have run.
Stays(c) == In(c, layout) /\ \A p \in posts : In(c, p.d)
Due(c) == IF Stays(c) THEN Shows(bytes, layout, c) ELSE 0
DueIsLogged == \A c \in Frame(dims) : Unstray(c) => Due(c) = ColorOn(c, Logged)

\* The snapshot shows what it should of the cells that were not written nor cut since.
OutIsCut == \A c \in AllCells : ~In(c, layout) => c \in cut \/ snap.at[c] = 0
SnapFollows ==
  \A c \in Frame(dims) \ cut :
    Unstray(c) /\ Stays(c) /\ (\A v \in On(c, Logged) : v <= snap.version)
      => snap.at[c] = ColorOn(c, Logged)

CleanInv == InTurn /\ Follows /\ StraysKnown /\ DueIsLogged /\ OutIsCut /\ SnapFollows
GeoInv == GeoTypeOK /\ (races = {} => CleanInv)
-----------------------------------------------------------------------------
(***************************************************************************)
(* Offsets.                                                                *)
(***************************************************************************)
\* A non-empty set of naturals has a least element.
LEMMA LeastOf ==
  ASSUME NEW S \in SUBSET Nat, S # {}
  PROVE  \E s \in S : \A j \in S : s <= j
<1> DEFINE Less == {ss \in Nat \X Nat : ss[1] < ss[2]}
<1>1. IsWellFoundedOn(Less, Nat)
  BY NatLessThanWellFounded DEF OpToRel
<1> HIDE DEF Less
<1>2. PICK s \in S : \A m \in S : ~ (<<m, s>> \in Less)
  BY <1>1, WFMin
<1>3. \A m \in S : ~ (m < s)
  BY <1>2 DEF Less
<1> QED
  BY <1>3

\* A bounded set of naturals has a greatest element.
LEMMA GreatestOf ==
  ASSUME NEW S \in SUBSET Nat, S # {}, NEW n \in Nat, \A s \in S : s <= n
  PROVE  \E s \in S : \A j \in S : j <= s
<1> DEFINE D == {n - s : s \in S}
<1>0. \A s \in S : n - s \in Nat
  OBVIOUS
<1>1. D \subseteq Nat /\ D # {}
  BY <1>0
<1>2. PICK d \in D : \A m \in D : d <= m
  <2> HIDE DEF D
  <2> QED
    BY <1>1, LeastOf
<1>3. PICK s \in S : d = n - s
  BY <1>2
<1>4. ASSUME NEW j \in S
      PROVE  j <= s
  <2>1. n - j \in D
    OBVIOUS
  <2>2. d <= n - j
    BY <1>2, <2>1
  <2> QED
    BY <1>3, <2>2
<1> QED
  BY <1>4

\* A finite set of naturals is bounded.
LEMMA FiniteIsBounded ==
  ASSUME NEW S \in SUBSET Nat, IsFiniteSet(S)
  PROVE  \E n \in Nat : \A s \in S : s <= n
<1> DEFINE Bounded(T) == \E n \in Nat : \A s \in T : s <= n
           Bad == {k \in Nat : \E T \in SUBSET S : Cardinality(T) = k /\ ~Bounded(T)}
<1>1. \A T \in SUBSET S : Cardinality(T) \in Nat /\ IsFiniteSet(T)
  BY FS_Subset, FS_CardinalityType
<1>2. ASSUME Bad # {}
      PROVE  FALSE
  <2>1. PICK k \in Nat : k \in Bad /\ \A m \in Bad : k <= m
    BY <1>2, LeastOf
  <2>2. PICK T \in SUBSET S : Cardinality(T) = k /\ ~Bounded(T)
    BY <2>1
  <2>3. T # {}
    BY <2>2
  <2>4. PICK x \in T : TRUE
    BY <2>3
  <2>5. T \ {x} \in SUBSET S /\ Cardinality(T \ {x}) = k - 1 /\ k - 1 \in Nat
    BY <1>1, <2>2, FS_RemoveElement
  <2>6. Bounded(T \ {x})
    BY <2>1, <2>5
  <2>7. PICK n \in Nat : \A s \in T \ {x} : s <= n
    BY <2>6
  <2>8. n + x \in Nat /\ \A s \in T : s <= n + x
    BY <2>7
  <2> QED
    BY <2>2, <2>8
<1> QED
  BY <1>1, <1>2

\* The largest side there is, which bounds the bytes of a canvas.
LEMMA MaxSideIs ==
  /\ MaxSide \in Sides /\ MaxSide \in Nat \ {0}
  /\ \A d \in Dims : d.w \in 1..MaxSide /\ d.h \in 1..MaxSide
<1>1. Sides # {} /\ Sides \subseteq Nat \ {0}
  BY GeometryAssumption DEF Dims
<1>2. PICK n \in Nat : \A s \in Sides : s <= n
  BY <1>1, FiniteIsBounded, GeometryAssumption
<1>3. \E s \in Sides : \A j \in Sides : j <= s
  BY <1>1, <1>2, GreatestOf
<1>4. MaxSide \in Sides /\ \A t \in Sides : t <= MaxSide
  BY <1>3 DEF MaxSide
<1>5. \A s \in Sides : s \in 1..MaxSide
  BY <1>1, <1>4
<1> QED
  BY <1>1, <1>4, <1>5 DEF Dims

\* The dims nobody knows are no geometry.
LEMMA NoDimsIsNone == NoDims \notin Dims
<1>1. NoDims.w = 0 /\ 0 \notin Sides
  BY GeometryAssumption DEF NoDims
<1>2. \A d \in Dims : d.w \in Sides
  BY DEF Dims
<1> QED
  BY <1>1, <1>2

\* Where a cell of the frame is, no other cell of the frame is (readCanvasSnapshot).
LEMMA OffsetsAre ==
  ASSUME NEW d \in Dims, NEW c \in AllCells, In(c, d)
  PROVE  /\ OffsetOf(c, d) \in Offsets
         /\ OffsetOf(c, d) % d.w = c[1] /\ OffsetOf(c, d) \div d.w = c[2]
<1> DEFINE x == c[1]
           y == c[2]
           w == d.w
           h == d.h
           o == y * w + x
<1>1. /\ MaxSide \in Nat \ {0} /\ w \in 1..MaxSide /\ h \in 1..MaxSide
      /\ x \in Nat /\ y \in Nat /\ x < w /\ y < h
  BY MaxSideIs DEF AllCells, In
<1>2. OffsetOf(c, d) = o
  BY DEF OffsetOf
<1> HIDE DEF x, y, w, h
<1>3. o \in Nat /\ o <= (h - 1) * w + x
  <2>1. y * w <= (h - 1) * w
    BY <1>1
  <2> QED
    BY <1>1, <2>1
<1>4. (h - 1) * w + x < h * w
  BY <1>1
<1>5. h * w <= MaxSide * MaxSide
  <2>1. h * w <= MaxSide * w /\ MaxSide * w <= MaxSide * MaxSide
    BY <1>1
  <2> QED
    BY <1>1, <2>1
<1>6. o <= MaxSide * MaxSide - 1
  BY <1>1, <1>3, <1>4, <1>5
<1>7. o % w = x /\ o \div w = y
  BY <1>1
<1> QED
  BY <1>2, <1>3, <1>6, <1>7 DEF Offsets, x, y, w

\* Two cells of a frame at one offset are one cell.
LEMMA OffsetsDiffer ==
  ASSUME NEW d \in Dims, NEW b \in AllCells, NEW c \in AllCells, In(b, d), In(c, d),
         OffsetOf(b, d) = OffsetOf(c, d)
  PROVE  b = c
<1>1. b[1] = c[1] /\ b[2] = c[2]
  BY OffsetsAre
<1> QED
  BY <1>1 DEF AllCells

\* A relayout moves each cell of both frames with what it shows and leaves the rest of
\* the new frame blank (grid-resize.lua).
LEMMA RelayoutShows ==
  ASSUME NEW old \in Dims, NEW new \in Dims, NEW c \in AllCells, In(c, new)
  PROVE  Shows(Relayout(bytes, old, new), new, c) = Shows(bytes, old, c)
<1> DEFINE o == OffsetOf(c, new)
           at == <<o % new.w, o \div new.w>>
<1>1. o \in Offsets /\ o % new.w = c[1] /\ o \div new.w = c[2]
  BY OffsetsAre
<1>2. at = c
  BY <1>1 DEF AllCells
<1> HIDE DEF o
<1>3. Relayout(bytes, old, new)[o] =
        IF In(at, new) /\ In(at, old) THEN bytes[OffsetOf(at, old)] ELSE 0
  BY <1>1 DEF Relayout
<1> HIDE DEF at
<1>4. Relayout(bytes, old, new)[o] = IF In(c, old) THEN bytes[OffsetOf(c, old)] ELSE 0
  BY <1>2, <1>3
<1> QED
  BY <1>4 DEF Shows, o
-----------------------------------------------------------------------------
(***************************************************************************)
(* The log.                                                                *)
(***************************************************************************)
\* A set of versions has a newest one.
LEMMA NewestIs ==
  ASSUME NEW S \in SUBSET Nat, S # {}, NEW n \in Nat, \A s \in S : s <= n
  PROVE  Newest(S) \in S /\ \A s \in S : s <= Newest(S)
<1>1. \E v \in S : \A u \in S : u <= v
  BY GreatestOf
<1> QED
  BY <1>1 DEF Newest

\* What a log shows on a cell, counting some of its entries.
OnIn(log, c, versions) == {v \in versions : log[v].cell = c}
ColorIn(log, c, versions) ==
  IF OnIn(log, c, versions) = {} THEN 0 ELSE log[Newest(OnIn(log, c, versions))].color

\* The log of the model is the one the code writes, now and after a step.
LEMMA ColorIs ==
  /\ \A c, V : On(c, V) = OnIn(written, c, V) /\ ColorOn(c, V) = ColorIn(written, c, V)
  /\ \A c : /\ On(c, Logged)' = OnIn(written', c, Logged')
            /\ ColorOn(c, Logged)' = ColorIn(written', c, Logged')
BY DEF On, ColorOn, OnIn, ColorIn

\* A set of versions of a log of n entries.
Within(V, n) == n \in Nat /\ V \subseteq 1..n

\* Two logs that agree on the entries of a cell show the same there.
LEMMA SameColor ==
  ASSUME NEW log, NEW more, NEW c, NEW n, NEW V, NEW W, Within(V, n), \A v \in V : more[v] = log[v],
         OnIn(more, c, W) = OnIn(log, c, V)
  PROVE  ColorIn(more, c, W) = ColorIn(log, c, V)
<1> DEFINE S == OnIn(log, c, V)
<1>1. CASE S = {}
  BY <1>1 DEF ColorIn
<1>2. CASE S # {}
  <2>1. S \subseteq V
    BY DEF OnIn
  <2>2. S \subseteq Nat /\ \A s \in S : s <= n
    <3> HIDE DEF S
    <3>1. \A v \in V : v \in Nat /\ v <= n
      BY DEF Within
    <3> QED
      BY <2>1, <3>1
  <2>3. Newest(S) \in S
    <3> HIDE DEF S
    <3>1. n \in Nat
      BY DEF Within
    <3> QED
      BY <1>2, <2>2, <3>1, NewestIs
  <2> HIDE DEF S
  <2>4. more[Newest(S)] = log[Newest(S)]
    BY <2>1, <2>3
  <2> QED
    BY <1>2, <2>4 DEF ColorIn, S
<1> QED
  BY <1>1, <1>2

\* The entry written last is what its cell shows.
LEMMA LastShows ==
  ASSUME NEW log, NEW c, NEW n \in Nat, NEW V \in SUBSET (1..n), n \in V, log[n].cell = c
  PROVE  ColorIn(log, c, V) = log[n].color
<1> DEFINE S == OnIn(log, c, V)
<1>0. \A v \in V : v \in Nat /\ v <= n
  OBVIOUS
<1>1. n \in S /\ S \subseteq V
  BY DEF OnIn
<1> HIDE DEF S
<1>2. S \subseteq Nat /\ \A s \in S : s <= n
  BY <1>0, <1>1
<1>3. Newest(S) \in S /\ n <= Newest(S)
  BY <1>1, <1>2, NewestIs
<1>4. Newest(S) = n
  <2>1. Newest(S) \in Nat /\ Newest(S) <= n
    BY <1>2, <1>3
  <2> QED
    BY <1>3, <2>1
<1> QED
  BY <1>1, <1>4 DEF ColorIn, S

\* The versions the canvas should show are versions of the log.
LEMMA LoggedIn ==
  ASSUME GeoTypeOK
  PROVE  /\ Logged \in SUBSET (1..Len(written)) /\ Len(written) \in Nat
         /\ \A v \in Logged : written[v] \in Pixels /\ written[v].cell \in AllCells
<1>1. /\ written \in Seq(Pixels) /\ Len(written) \in Nat /\ drained \in 0..Len(written)
      /\ rows \subseteq 1..drained
  BY DEF GeoTypeOK
<1>2. ASSUME NEW v \in Logged
      PROVE  v \in 1..Len(written)
  <2>1. v \in 1..drained \/ v \in drained + 1..Len(written)
    BY <1>1 DEF Logged
  <2> QED
    BY <1>1, <2>1
<1>3. \A v \in 1..Len(written) : written[v] \in Pixels
  BY <1>1
<1> QED
  BY <1>1, <1>2, <1>3 DEF Pixels
-----------------------------------------------------------------------------
(***************************************************************************)
(* The bytes and the log.                                                  *)
(***************************************************************************)
LogInv == InTurn /\ StraysKnown /\ DueIsLogged /\ OutIsCut /\ SnapFollows

logVars == <<dims, posts, layout, rows, drained, written, stray, bytes, cut, snap>>

\* A step that leaves log, bytes, frames and snapshot leaves what is said of them.
LEMMA LogUnchanged ==
  ASSUME StraysKnown, DueIsLogged, OutIsCut, SnapFollows, UNCHANGED logVars
  PROVE  StraysKnown' /\ DueIsLogged' /\ OutIsCut' /\ SnapFollows'
BY DEF logVars, StraysKnown, DueIsLogged, OutIsCut, SnapFollows, Logged, Unstray, Due, Stays,
   On, ColorOn

\* A cell that no post under way takes away is inside the durable frame.
LEMMA StaysInFrame ==
  ASSUME InTurn, NEW c, Stays(c)
  PROVE  In(c, dims)
BY DEF InTurn, Stays

\* A pixel is written where the bytes have its cell, and counts for the log unless a frame
\* that was decided leaves its cell out (place.lua with the gateway's width).
LEMMA WriteKeepsLog ==
  ASSUME GeoTypeOK, LogInv, NEW p \in Pixels, NEW d \in Dims, NEW past, Written(p, d, past),
         d.w = layout.w, In(p.cell, layout),
         UNCHANGED <<dims, posts, layout, rows, drained, cut, snap>>
  PROVE  StraysKnown' /\ DueIsLogged' /\ OutIsCut' /\ SnapFollows'
<1> DEFINE n == Len(written) + 1
           add == IF \A d2 \in {dims} \cup {q.d : q \in posts} : In(p.cell, d2)
                  THEN {} ELSE {n}
<1>1. /\ written \in Seq(Pixels) /\ Len(written) \in Nat /\ n \in Nat /\ drained \in 0..Len(written)
      /\ rows \subseteq 1..drained /\ stray \subseteq 1..Len(written) /\ layout \in Dims
      /\ bytes \in [Offsets -> Colors] /\ dims \in Dims
      /\ p.cell \in AllCells /\ p.color \in Colors /\ snap.version \in Nat
      /\ snap.version <= Len(written)
  BY DEF GeoTypeOK, Pixels
<1>2. /\ written' = Append(written, p) /\ stray' = stray \cup add
      /\ bytes' = [bytes EXCEPT ![OffsetOf(p.cell, layout)] = p.color]
  BY DEF Written, OffsetOf
<1>3. /\ Len(written') = n /\ written'[n] = p
      /\ \A v \in 1..Len(written) : written'[v] = written[v]
  BY <1>1, <1>2
<1> HIDE DEF n
<1>4. n \notin 1..Len(written) /\ n \notin Logged /\ Logged' = Logged \cup {n}
  <2>1. n = Len(written) + 1
    BY DEF n
  <2>2. drained + 1..n = (drained + 1..Len(written)) \cup {n}
    BY <1>1, <2>1
  <2>3. n \notin 1..Len(written)
    BY <1>1, <2>1
  <2>4. Logged' = rows \cup (drained + 1..n)
    BY <1>3 DEF Logged
  <2> QED
    BY <2>2, <2>3, <2>4, LoggedIn DEF Logged
<1>5. Logged \in SUBSET (1..Len(written))
  BY LoggedIn
<1>6. ASSUME NEW c \in AllCells, c # p.cell
      PROVE  /\ ColorOn(c, Logged)' = ColorOn(c, Logged) /\ On(c, Logged)' = On(c, Logged)
             /\ Unstray(c)' => Unstray(c)
  <2>1. \A v \in Logged : written'[v] = written[v]
    BY <1>3, <1>5
  <2>2. OnIn(written', c, Logged') = OnIn(written, c, Logged)
    BY <1>3, <1>4, <1>6, <2>1 DEF OnIn
  <2>3. ColorIn(written', c, Logged') = ColorIn(written, c, Logged)
    <3> DEFINE log == written
               more == written'
               V == Logged
               W == Logged'
               k == Len(written)
    <3>1. Within(V, k) /\ \A v \in V : more[v] = log[v]
      BY <1>1, <1>5, <2>1 DEF Within
    <3>2. OnIn(more, c, W) = OnIn(log, c, V)
      BY <2>2
    <3> HIDE DEF log, more, V, W, k
    <3>3. ColorIn(more, c, W) = ColorIn(log, c, V)
      BY <3>1, <3>2, SameColor
    <3> QED
      BY <3>3 DEF log, more, V, W
  <2>5. \A v \in stray : written'[v] = written[v] /\ v \in stray'
    BY <1>1, <1>2, <1>3
  <2> QED
    BY <2>2, <2>3, <2>5, ColorIs DEF Unstray
<1>7. /\ \A c \in AllCells : In(c, layout) /\ c # p.cell => Shows(bytes', layout, c) = Shows(bytes, layout, c)
      /\ Shows(bytes', layout, p.cell) = p.color
  BY <1>1, <1>2, OffsetsAre, OffsetsDiffer DEF Shows
<1>8. ColorOn(p.cell, Logged)' = p.color /\ n \in On(p.cell, Logged)'
  <2>1. Logged' \in SUBSET (1..n) /\ n \in Logged'
    <3>1. \A v \in 1..Len(written) : v \in 1..n
      BY <1>1 DEF n
    <3>2. n \in 1..n
      BY <1>1 DEF n
    <3> QED
      BY <1>4, <1>5, <3>1, <3>2
  <2>2. ColorIn(written', p.cell, Logged') = p.color
    <3> DEFINE log == written'
               V == Logged'
    <3>1. V \in SUBSET (1..n) /\ n \in V /\ log[n].cell = p.cell /\ log[n].color = p.color
      BY <1>3, <2>1
    <3> HIDE DEF log, V
    <3>2. ColorIn(log, p.cell, V) = p.color
      BY <1>1, <3>1, LastShows
    <3> QED
      BY <3>2 DEF log, V
  <2> QED
    BY <1>3, <2>1, <2>2, ColorIs DEF OnIn
<1>9. Unstray(p.cell)' => Stays(p.cell)
  <2>1. Unstray(p.cell)' => n \notin add
    BY <1>2, <1>3 DEF Unstray
  <2> QED
    BY <2>1 DEF Stays
<1>10. \A c : Stays(c)' <=> Stays(c)
  BY DEF Stays
<1>11. StraysKnown'
  <2>1. ASSUME NEW v \in Logged', ~In(written'[v].cell, dims)
        PROVE  v \in stray'
    <3>1. CASE v = n
      BY <1>2, <1>3, <2>1, <3>1
    <3>2. CASE v \in Logged
      BY <1>2, <1>3, <1>5, <2>1, <3>2 DEF LogInv, StraysKnown
    <3> QED
      BY <1>4, <3>1, <3>2
  <2> QED
    BY <2>1 DEF StraysKnown
<1>12. DueIsLogged'
  <2>1. ASSUME NEW c \in Frame(dims), Unstray(c)'
        PROVE  Due(c)' = ColorOn(c, Logged)'
    <3>1. c \in AllCells
      BY DEF Frame
    <3>2. CASE c = p.cell
      BY <1>7, <1>8, <1>9, <1>10, <2>1, <3>2 DEF Due
    <3>3. CASE c # p.cell
      <4>1. Due(c)' = Due(c)
        BY <1>7, <1>10, <3>1, <3>3 DEF Due, Stays
      <4> QED
        BY <1>6, <2>1, <3>1, <3>3, <4>1 DEF LogInv, DueIsLogged
    <3> QED
      BY <3>2, <3>3
  <2> QED
    BY <2>1 DEF DueIsLogged, Frame, AllCells
<1>13. SnapFollows'
  <2>1. ASSUME NEW c \in Frame(dims) \ cut, Unstray(c)', Stays(c)',
               \A v \in On(c, Logged)' : v <= snap.version
        PROVE  snap.at[c] = ColorOn(c, Logged)'
    <3>1. c # p.cell
      BY <1>1, <1>8, <2>1 DEF n
    <3>2. c \in AllCells
      BY DEF Frame
    <3> QED
      BY <1>6, <1>10, <2>1, <3>1, <3>2 DEF LogInv, SnapFollows
  <2> QED
    BY <2>1 DEF SnapFollows, Frame, AllCells
<1> QED
  BY <1>11, <1>12, <1>13 DEF LogInv, OutIsCut

\* An entry that is drained is in the log as before (applyFlush).
LEMMA IngestKeepsLog ==
  ASSUME GeoTypeOK, LogInv, Ingest
  PROVE  StraysKnown' /\ DueIsLogged' /\ OutIsCut' /\ SnapFollows'
<1>1. UNCHANGED <<dims, posts, layout, written, stray, bytes, cut, snap>>
  BY DEF Ingest, redisVars
<1>2. Logged' = Logged
  <2>1. drained \in Nat /\ Len(written) \in Nat /\ drained < Len(written)
    BY DEF GeoTypeOK, Ingest
  <2>2. drained + 1..Len(written) = {drained + 1} \cup (drained + 1 + 1..Len(written))
    BY <2>1
  <2>3. rows' = rows \cup {drained + 1} /\ drained' = drained + 1 /\ written' = written
    BY <1>1 DEF Ingest
  <2> QED
    BY <2>2, <2>3 DEF Logged
<1> QED
  BY <1>1, <1>2 DEF LogInv, StraysKnown, DueIsLogged, OutIsCut, SnapFollows, Unstray, Due, Stays,
     On, ColorOn

\* A resize that is decided takes the rows outside its frame at once, and its post will
\* take the cells; what comes back into the frame has nothing but strays (updateCanvasConfig).
LEMMA UpdateKeepsLog ==
  ASSUME GeoTypeOK, LogInv, NEW d \in Dims, NEW confirmed, UpdateCanvasConfig(d, confirmed)
  PROVE  StraysKnown' /\ DueIsLogged' /\ OutIsCut' /\ SnapFollows'
<1>1. /\ dims' = d /\ rows' = {v \in rows : In(written[v].cell, d)}
      /\ posts' = posts \cup {[d |-> d, n |-> resizes]}
      /\ stray' = stray \cup {v \in drained + 1..Len(written) : ~In(written[v].cell, d)}
      /\ UNCHANGED <<layout, drained, written, bytes, cut, snap>>
  BY DEF UpdateCanvasConfig, redisVars, workerVars
<1>2. Logged' = rows' \cup (drained + 1..Len(written)) /\ Logged' \subseteq Logged
  BY <1>1 DEF Logged
<1>3. ASSUME NEW c, In(c, d)
      PROVE  /\ On(c, Logged') = On(c, Logged)
             /\ Unstray(c)' <=> Unstray(c)
  <2>1. \A v \in Logged : written[v].cell = c => v \in Logged'
    BY <1>1, <1>2, <1>3 DEF Logged
  <2>2. \A v \in stray' : written[v].cell = c => v \in stray
    BY <1>1, <1>3
  <2> QED
    BY <1>1, <1>2, <2>1, <2>2 DEF On, Unstray
<1>4. ASSUME NEW c, In(c, d)
      PROVE  ColorOn(c, Logged)' = ColorOn(c, Logged) /\ On(c, Logged)' = On(c, Logged)
  <2>1. ColorOn(c, Logged)' = ColorIn(written, c, Logged') /\ On(c, Logged)' = On(c, Logged')
    BY <1>1, ColorIs DEF On, OnIn
  <2>2. OnIn(written, c, Logged') = OnIn(written, c, Logged)
    BY <1>3, <1>4, ColorIs DEF On, OnIn
  <2>3. ColorIn(written, c, Logged') = ColorIn(written, c, Logged)
    BY <2>2 DEF ColorIn
  <2> QED
    BY <1>3, <1>4, <2>1, <2>3, ColorIs
<1>5. ASSUME NEW c
      PROVE  Stays(c)' <=> Stays(c) /\ In(c, d)
  <2>1. (\A q \in posts' : In(c, q.d)) <=> (\A q \in posts : In(c, q.d)) /\ In(c, d)
    <3> DEFINE r == [d |-> d, n |-> resizes]
    <3>1. r.d = d /\ posts' = posts \cup {r}
      BY <1>1
    <3> HIDE DEF r
    <3> QED
      BY <3>1
  <2>2. Stays(c)' <=> In(c, layout) /\ \A q \in posts' : In(c, q.d)
    BY <1>1 DEF Stays, In
  <2> QED
    BY <2>1, <2>2 DEF Stays
<1>6. StraysKnown'
  BY <1>1, <1>2 DEF StraysKnown, Logged
<1>7. DueIsLogged'
  <2>1. ASSUME NEW c \in Frame(d), Unstray(c)'
        PROVE  Due(c)' = ColorOn(c, Logged)'
    <3>1. In(c, d) /\ c \in AllCells /\ Unstray(c)
      BY <1>3, <2>1 DEF Frame
    <3>2. Due(c)' = Due(c)
      BY <1>1, <1>5, <3>1 DEF Due
    <3>3. CASE In(c, dims)
      BY <1>4, <3>1, <3>2, <3>3 DEF LogInv, DueIsLogged, Frame
    <3>4. CASE ~In(c, dims)
      <4>1. ~Stays(c)
        BY <3>4, StaysInFrame DEF LogInv
      <4>2. On(c, Logged) = {}
        BY <3>1, <3>4 DEF On, LogInv, StraysKnown, Unstray
      <4> QED
        BY <1>4, <3>1, <3>2, <4>1, <4>2 DEF Due, ColorOn
    <3> QED
      BY <3>3, <3>4
  <2> QED
    BY <1>1, <2>1 DEF DueIsLogged, Frame, AllCells
<1>8. SnapFollows'
  <2>1. ASSUME NEW c \in Frame(d) \ cut, Unstray(c)', Stays(c)',
               \A v \in On(c, Logged)' : v <= snap.version
        PROVE  snap.at[c] = ColorOn(c, Logged)'
    <3>1. In(c, d) /\ c \in AllCells /\ Unstray(c) /\ Stays(c)
      BY <1>3, <1>5, <2>1 DEF Frame
    <3>2. In(c, dims)
      BY <3>1, StaysInFrame DEF LogInv
    <3> QED
      BY <1>4, <2>1, <3>1, <3>2 DEF LogInv, SnapFollows, Frame
  <2> QED
    BY <1>1, <2>1 DEF SnapFollows, Frame, AllCells
<1> QED
  BY <1>1, <1>6, <1>7, <1>8 DEF LogInv, OutIsCut

\* A relayout in turn, from the dims the bytes have, leaves every cell with what was due
\* to it (handleGridResize, grid-resize.lua).
LEMMA RelayoutKeepsLog ==
  ASSUME GeoTypeOK, LogInv, NEW p \in posts, StartResize(p), OldDims = layout
  PROVE  StraysKnown' /\ DueIsLogged' /\ OutIsCut' /\ SnapFollows'
<1>1. /\ posts' = posts \ {p} /\ bytes' = Relayout(bytes, layout, p.d) /\ layout' = p.d
      /\ cut' = cut \cup (AllCells \ Frame(p.d))
      /\ UNCHANGED <<dims, rows, drained, written, stray, snap>>
  BY DEF StartResize, workerVars
<1>2. /\ p.d \in Dims /\ layout \in Dims
  BY DEF GeoTypeOK
<1>3. /\ Logged' = Logged
      /\ \A c : /\ ColorOn(c, Logged)' = ColorOn(c, Logged) /\ On(c, Logged)' = On(c, Logged)
                /\ Unstray(c)' <=> Unstray(c)
  BY <1>1 DEF Logged, ColorOn, On, Unstray
<1>4. ASSUME NEW c
      PROVE  Stays(c) <=> Stays(c)' /\ In(c, layout)
  <2>1. Stays(c)' <=> In(c, p.d) /\ \A q \in posts \ {p} : In(c, q.d)
    BY <1>1 DEF Stays, In
  <2>2. (\A q \in posts : In(c, q.d)) <=> In(c, p.d) /\ \A q \in posts \ {p} : In(c, q.d)
    OBVIOUS
  <2> QED
    BY <2>1, <2>2 DEF Stays
<1>5. ASSUME NEW c \in AllCells
      PROVE  Due(c)' = Due(c)
  <2>1. In(c, p.d) => Shows(bytes', p.d, c) = Shows(bytes, layout, c)
    BY <1>1, <1>2, RelayoutShows
  <2>2. Stays(c)' => In(c, p.d)
    BY <1>1 DEF Stays
  <2> QED
    BY <1>1, <1>4, <2>1, <2>2 DEF Due, Shows
<1>6. StraysKnown'
  BY <1>1, <1>3 DEF LogInv, StraysKnown
<1>7. DueIsLogged'
  BY <1>1, <1>3, <1>5 DEF LogInv, DueIsLogged, Frame, AllCells
<1>8. OutIsCut'
  BY <1>1 DEF LogInv, OutIsCut, Frame, AllCells
<1>9. SnapFollows'
  <2>1. ASSUME NEW c \in Frame(dims) \ cut', Unstray(c), Stays(c)',
               \A v \in On(c, Logged) : v <= snap.version
        PROVE  snap.at[c] = ColorOn(c, Logged)
    <3>1. c \in AllCells /\ c \notin cut
      BY <1>1, <2>1 DEF Frame
    <3>2. CASE In(c, layout)
      BY <1>4, <2>1, <3>1, <3>2 DEF LogInv, SnapFollows
    <3>3. CASE ~In(c, layout)
      <4>1. snap.at[c] = 0
        BY <3>1, <3>3 DEF LogInv, OutIsCut
      <4>2. Due(c) = 0
        BY <3>3 DEF Due, Stays
      <4> QED
        BY <2>1, <4>1, <4>2 DEF LogInv, DueIsLogged
    <3> QED
      BY <3>2, <3>3
  <2> QED
    BY <1>1, <1>3, <2>1 DEF SnapFollows, Frame, AllCells
<1> QED
  BY <1>6, <1>7, <1>8, <1>9

\* A snapshot read in the dims of the bytes shows what the bytes show (maybeSnapshot).
LEMMA TickKeepsLog ==
  ASSUME GeoTypeOK, LogInv, Tick, drained > snap.version => layout = dims
  PROVE  StraysKnown' /\ DueIsLogged' /\ OutIsCut' /\ SnapFollows'
<1>1. UNCHANGED <<dims, posts, layout, rows, drained, written, stray, bytes>>
  BY DEF Tick, convexVars, gatewayVars
<1>2. CASE ~(drained > snap.version)
  BY <1>1, <1>2, LogUnchanged DEF Tick, LogInv, logVars
<1>3. CASE drained > snap.version
  <2>1. layout = dims /\ snap'.at = Grid(bytes, dims) /\ cut' = {}
    BY <1>3 DEF Tick
  <2>2. \A c \in AllCells : snap'.at[c] = Shows(bytes, layout, c)
    BY <2>1 DEF Grid
  <2>3. StraysKnown' /\ DueIsLogged'
    BY <1>1 DEF LogInv, StraysKnown, DueIsLogged, Logged, Unstray, Due, Stays, ColorOn, On
  <2>4. OutIsCut'
    BY <1>1, <2>2 DEF OutIsCut, Shows, AllCells
  <2>5. \A c \in Frame(dims) : Unstray(c) /\ Stays(c) => snap'.at[c] = ColorOn(c, Logged)
    BY <2>2 DEF LogInv, DueIsLogged, Due, Frame
  <2>6. SnapFollows'
    BY <1>1, <2>5 DEF SnapFollows, Frame, AllCells, Logged, Unstray, Stays, ColorOn, On
  <2> QED
    BY <2>3, <2>4, <2>6
<1> QED
  BY <1>2, <1>3
-----------------------------------------------------------------------------
(***************************************************************************)
(* Types.                                                                  *)
(***************************************************************************)
\* A placement keeps the types of the log and of the bytes (place.lua).
LEMMA WriteKeepsTypes ==
  ASSUME GeoTypeOK, NEW p \in Pixels, NEW d \in Dims, NEW past \in SUBSET Races,
         Written(p, d, past)
  PROVE  /\ written' \in Seq(Pixels) /\ Len(written) <= Len(written') /\ Len(written') \in Nat
         /\ stray' \subseteq 1..Len(written')
         /\ bytes' \in [Offsets -> Colors] /\ races' \subseteq Races /\ past \subseteq races'
<1>1. /\ written \in Seq(Pixels) /\ Len(written) \in Nat /\ stray \subseteq 1..Len(written)
      /\ bytes \in [Offsets -> Colors] /\ p.color \in Colors
  BY DEF GeoTypeOK, Pixels
<1>2. written' = Append(written, p)
  BY DEF Written
<1>3. /\ written' \in Seq(Pixels) /\ Len(written') = Len(written) + 1
  BY <1>1, <1>2
<1>4. stray' \subseteq stray \cup {Len(written) + 1}
  BY DEF Written
<1>5. stray' \subseteq 1..Len(written')
  <2>1. \A v \in 1..Len(written) : v \in 1..Len(written')
    BY <1>1, <1>3
  <2>2. Len(written) + 1 \in 1..Len(written')
    BY <1>1, <1>3
  <2> QED
    BY <1>1, <1>4, <2>1, <2>2
<1>6. bytes' = [bytes EXCEPT ![OffsetOf(p.cell, d)] = p.color]
  BY DEF Written
<1>7. bytes' \in [Offsets -> Colors]
  BY <1>1, <1>6
<1>8. races' \subseteq Races /\ past \subseteq races'
  BY DEF Written, Races
<1> QED
  BY <1>1, <1>3, <1>5, <1>7, <1>8

\* The types of what the gateway keeps, given d is a geometry (Resume).
LEMMA ResumeKeepsTypes ==
  ASSUME GeoTypeOK, NEW d \in Dims, Resume(d)
  PROVE  /\ state' \in Dims \cup {NoDims} /\ boards' \in [Conns -> Dims \cup {NoDims}]
         /\ joining' \subseteq Conns /\ fetch' = NoFetch /\ races \subseteq races'
         /\ written' \in Seq(Pixels) /\ Len(written) <= Len(written') /\ Len(written') \in Nat
         /\ stray' \subseteq 1..Len(written')
         /\ bytes' \in [Offsets -> Colors] /\ races' \subseteq Races
<1>1. /\ state \in Dims \cup {NoDims} /\ boards \in [Conns -> Dims \cup {NoDims}]
      /\ written \in Seq(Pixels) /\ Len(written) \in Nat /\ stray \subseteq 1..Len(written)
      /\ bytes \in [Offsets -> Colors] /\ races \subseteq Races /\ fetch.pixels \subseteq Pixels
  BY DEF GeoTypeOK
<1>2. state' \in Dims \cup {NoDims}
  BY <1>1 DEF Resume
<1>3. boards' \in [Conns -> Dims \cup {NoDims}] /\ joining' \subseteq Conns /\ fetch' = NoFetch
  BY <1>1, <1>2 DEF Resume
<1> DEFINE past == IF state' \notin {NoDims, dims} /\ posts = {} /\ jobs = {}
                   THEN races \cup {"stale_join"} ELSE races
<1>4. past \in SUBSET Races /\ races \subseteq past
  BY <1>1 DEF Races
<1>5. \/ races' = past /\ UNCHANGED <<written, bytes, stray>>
      \/ \E p \in fetch.pixels : In(p.cell, d) /\ Written(p, d, past)
  BY DEF Resume
<1> HIDE DEF past
<1>6. CASE races' = past /\ UNCHANGED <<written, bytes, stray>>
  <2>1. Len(written) <= Len(written)
    BY <1>1
  <2> QED
    BY <1>1, <1>2, <1>3, <1>4, <1>6, <2>1
<1>7. CASE \E p \in fetch.pixels : In(p.cell, d) /\ Written(p, d, past)
  <2>1. PICK p \in Pixels : Written(p, d, past)
    BY <1>1, <1>7
  <2> QED
    BY <1>2, <1>3, <1>4, <2>1, WriteKeepsTypes
<1> QED
  BY <1>5, <1>6, <1>7

\* There are finitely many cells.
LEMMA CellsFinite == IsFiniteSet(AllCells)
<1>1. MaxSide - 1 \in Int
  BY MaxSideIs
<1>2. IsFiniteSet(0..MaxSide - 1)
  BY <1>1, FS_Interval
<1> QED
  BY <1>2, FS_Product DEF AllCells

\* What the bytes show of a cell is a colour (readCanvasSnapshot).
LEMMA ShownIsColor ==
  ASSUME GeoTypeOK, NEW d \in Dims, NEW c \in AllCells
  PROVE  Shows(bytes, d, c) \in Colors
<1>1. bytes \in [Offsets -> Colors] /\ 0 \in Colors
  BY GeometryAssumption DEF GeoTypeOK
<1> QED
  BY <1>1, OffsetsAre DEF Shows

\* A transaction of Convex keeps the types (updateCanvasConfig, applyFlush).
LEMMA ConvexTypes ==
  ASSUME GeoTypeOK, \/ Ingest \/ \E p \in posts : LosePost(p)
                    \/ \E d \in Dims, confirmed \in BOOLEAN : UpdateCanvasConfig(d, confirmed)
  PROVE  GeoTypeOK'
<1> USE DEF convexVars, redisVars, gatewayVars, workerVars
<1>1. /\ cellCount \in Int /\ drained \in 0..Len(written) /\ Len(written) \in Nat
      /\ rows \subseteq 1..drained /\ stray \subseteq 1..Len(written) /\ resizes \in Nat
      /\ posts \subseteq [d: Dims, n: Nat] /\ snap.version \in Nat /\ snap.version <= drained
  BY DEF GeoTypeOK
<1>2. CASE Ingest
  <2>1. /\ UNCHANGED <<dims, posts, resizes, redisVars, gatewayVars, snap, nudged, now, faults,
                       stray, races>>
        /\ rows' = rows \cup {drained + 1} /\ drained' = drained + 1 /\ drained < Len(written)
        /\ \E i \in {0, 1}, j \in {0, 1} : cellCount' = cellCount + i - j
    BY <1>2 DEF Ingest
  <2>2. cellCount' \in Int
    BY <1>1, <2>1
  <2>3. drained + 1 \in 0..Len(written) /\ drained + 1 \in 1..drained + 1
        /\ \A v \in 1..drained : v \in 1..drained + 1
    BY <1>1, <2>1
  <2>4. rows' \subseteq 1..drained' /\ drained' \in 0..Len(written) /\ snap.version <= drained'
    BY <1>1, <2>1, <2>3
  <2> QED
    BY <2>1, <2>2, <2>4 DEF GeoTypeOK
<1>3. ASSUME NEW p \in posts, LosePost(p)
      PROVE  GeoTypeOK'
  <2>1. /\ posts' \subseteq posts /\ faults' = faults + 1 /\ races' = races \cup {"lost_post"}
        /\ UNCHANGED <<dims, rows, cellCount, resizes, redisVars, gatewayVars, workerVars, now,
                       stray>>
    BY <1>3 DEF LosePost
  <2> QED
    BY <2>1 DEF GeoTypeOK, Races
<1>4. ASSUME NEW d \in Dims, NEW confirmed \in BOOLEAN, UpdateCanvasConfig(d, confirmed)
      PROVE  GeoTypeOK'
  <2>1. /\ rows' \subseteq rows /\ cellCount' = Cardinality(Painted(rows) \cap Frame(d))
        /\ dims' = d /\ posts' = posts \cup {[d |-> d, n |-> resizes]} /\ resizes' = resizes + 1
        /\ stray' = stray \cup {v \in drained + 1..Len(written) : ~In(written[v].cell, d)}
        /\ UNCHANGED <<redisVars, gatewayVars, workerVars, now, faults, races>>
    BY <1>4 DEF UpdateCanvasConfig
  <2>2. cellCount' \in Int
    <3>1. Painted(rows) \cap Frame(d) \in SUBSET AllCells
      BY DEF Frame
    <3> QED
      BY <2>1, <3>1, CellsFinite, FS_Subset, FS_CardinalityType
  <2>3. stray' \subseteq 1..Len(written)
    <3>1. \A v \in drained + 1..Len(written) : v \in 1..Len(written)
      BY <1>1
    <3> QED
      BY <1>1, <2>1, <3>1
  <2>4. posts' \subseteq [d: Dims, n: Nat] /\ resizes' \in Nat /\ rows' \subseteq 1..drained
    BY <1>1, <2>1
  <2> QED
    BY <2>1, <2>2, <2>3, <2>4 DEF GeoTypeOK
<1> QED
  BY <1>2, <1>3, <1>4

\* What the gateway does without touching the bytes keeps the types.
LEMMA GatewayTypes ==
  ASSUME GeoTypeOK, \/ \E c \in Conns : Connect(c) \/ Disconnect(c)
                    \/ FetchReads
                    \/ \E p \in Pixels : PlaceOutside(p)
                    \/ \E j \in jobs : FinishResize(j)
                    \/ ClockTick
  PROVE  GeoTypeOK'
<1> USE DEF convexVars, redisVars, gatewayVars, workerVars
<1>1. /\ dims \in Dims /\ state \in Dims \cup {NoDims} /\ now \in Nat
      /\ cache \in [dims: Dims \cup {NoDims}, at: Nat]
      /\ fetch \in [pc: {"none", "sent", "read"}, at: Nat, val: Dims \cup {NoDims},
                    pixels: SUBSET Pixels]
      /\ cache.at <= now /\ fetch.at <= now /\ (fetch.pc = "read" => fetch.val \in Dims)
      /\ boards \in [Conns -> Dims \cup {NoDims}] /\ joining \subseteq Conns
      /\ jobs \subseteq [d: Dims, n: Nat, entry: BOOLEAN] /\ races \subseteq Races
  BY DEF GeoTypeOK
<1>2. ASSUME NEW pixels \in SUBSET Pixels, Fetching(pixels)
      PROVE  /\ fetch' \in [pc: {"none", "sent", "read"}, at: Nat, val: Dims \cup {NoDims},
                            pixels: SUBSET Pixels]
             /\ fetch'.at <= now /\ (fetch'.pc = "read" => fetch'.val \in Dims)
  <2>1. CASE fetch.pc = "none"
    <3>1. fetch' = [pc |-> "sent", at |-> now, val |-> NoDims, pixels |-> pixels]
      BY <1>2, <2>1 DEF Fetching, NoFetch
    <3>2. now <= now
      BY <1>1
    <3> QED
      BY <1>1, <3>1, <3>2
  <2>2. CASE fetch.pc # "none"
    <3>1. fetch' = [fetch EXCEPT !.pixels = fetch.pixels \cup pixels]
      BY <1>2, <2>2 DEF Fetching
    <3> QED
      BY <1>1, <3>1
  <2> QED
    BY <2>1, <2>2
<1>3. ASSUME NEW c \in Conns, Connect(c)
      PROVE  GeoTypeOK'
  <2>1. UNCHANGED <<convexVars, redisVars, cache, jobs, workerVars, now, faults, stray>>
    BY <1>3 DEF Connect
  <2>2. CASE state # NoDims \/ Fresh
    <3>1. /\ state' = (IF state # NoDims THEN state ELSE cache.dims)
          /\ boards' = [boards EXCEPT ![c] = state'] /\ UNCHANGED <<joining, fetch>>
          /\ races' \in {races, races \cup {"stale_join"}}
      BY <1>3, <2>2 DEF Connect
    <3>2. state' \in Dims \cup {NoDims}
      BY <1>1, <3>1
    <3>3. boards' \in [Conns -> Dims \cup {NoDims}]
      BY <1>1, <3>1, <3>2
    <3> QED
      BY <2>1, <3>1, <3>2, <3>3 DEF GeoTypeOK, Races
  <2>3. CASE ~(state # NoDims \/ Fresh)
    <3>1. /\ joining' = joining \cup {c} /\ Fetching({}) /\ UNCHANGED <<state, boards, races>>
      BY <1>3, <2>3 DEF Connect
    <3> QED
      BY <1>2, <2>1, <3>1 DEF GeoTypeOK
  <2> QED
    BY <2>2, <2>3
<1>4. ASSUME NEW c \in Conns, Disconnect(c)
      PROVE  GeoTypeOK'
  <2>1. /\ UNCHANGED <<convexVars, redisVars, cache, fetch, workerVars, now, faults, stray, races>>
        /\ boards' = [boards EXCEPT ![c] = NoDims] /\ joining' \subseteq joining
        /\ state' \in {state, NoDims}
        /\ jobs' \in {jobs, {[j EXCEPT !.entry = FALSE] : j \in jobs}}
    BY <1>4 DEF Disconnect
  <2>2. boards' \in [Conns -> Dims \cup {NoDims}]
    BY <1>1, <2>1
  <2>3. \A j \in jobs : [j EXCEPT !.entry = FALSE] \in [d: Dims, n: Nat, entry: BOOLEAN]
    BY <1>1
  <2>4. jobs' \subseteq [d: Dims, n: Nat, entry: BOOLEAN]
    <3> DEFINE Job == [d: Dims, n: Nat, entry: BOOLEAN]
               Left(j) == [j EXCEPT !.entry = FALSE]
    <3>1. jobs \subseteq Job /\ (\A j \in jobs : Left(j) \in Job)
          /\ jobs' \in {jobs, {Left(j) : j \in jobs}}
      BY <1>1, <2>1, <2>3
    <3> HIDE DEF Job, Left
    <3>2. jobs' \subseteq Job
      BY <3>1
    <3> QED
      BY <3>2 DEF Job
  <2> QED
    BY <2>1, <2>2, <2>4 DEF GeoTypeOK
<1>5. CASE FetchReads
  <2>1. fetch' = [fetch EXCEPT !.pc = "read", !.val = dims]
    BY <1>5 DEF FetchReads
  <2>2. /\ fetch' \in [pc: {"none", "sent", "read"}, at: Nat, val: Dims \cup {NoDims},
                       pixels: SUBSET Pixels]
        /\ fetch'.at <= now /\ fetch'.val \in Dims
    BY <1>1, <2>1
  <2> QED
    BY <1>5, <2>2 DEF FetchReads, GeoTypeOK
<1>6. ASSUME NEW p \in Pixels, PlaceOutside(p)
      PROVE  GeoTypeOK'
  BY <1>2, <1>6 DEF PlaceOutside, GeoTypeOK
<1>7. ASSUME NEW j \in jobs, FinishResize(j)
      PROVE  GeoTypeOK'
  <2>1. /\ UNCHANGED <<convexVars, redisVars, fetch, joining, drained, snap, now, faults, stray>>
        /\ jobs' \subseteq jobs /\ cache' = [dims |-> j.d, at |-> now] /\ nudged' = TRUE
        /\ state' \in {j.d, state}
        /\ boards' = [c \in Conns |-> IF boards[c] # NoDims THEN j.d ELSE NoDims]
        /\ races' \subseteq races \cup {"detached", "same_tick"}
    BY <1>7 DEF FinishResize
  <2>2. j.d \in Dims /\ now <= now
    BY <1>1
  <2>3. boards' \in [Conns -> Dims \cup {NoDims}]
    BY <2>1, <2>2
  <2>4. races' \subseteq Races
    BY <1>1, <2>1 DEF Races
  <2> QED
    BY <1>1, <2>1, <2>2, <2>3, <2>4 DEF GeoTypeOK
<1>8. CASE ClockTick
  <2>1. /\ now' = now + 1
        /\ UNCHANGED <<convexVars, redisVars, gatewayVars, workerVars, faults, stray, races>>
    BY <1>8 DEF ClockTick
  <2>2. now' \in Nat /\ cache.at <= now' /\ fetch.at <= now'
    BY <1>1, <2>1
  <2> QED
    BY <2>1, <2>2 DEF GeoTypeOK
<1> QED
  BY <1>3, <1>4, <1>5, <1>6, <1>7, <1>8

\* What touches the bytes, or snapshots them, keeps the types.
LEMMA BytesTypes ==
  ASSUME GeoTypeOK, \/ FetchReturns \/ FetchFails
                    \/ \E p \in Pixels : Place(p)
                    \/ \E p \in posts : StartResize(p)
                    \/ Tick
  PROVE  GeoTypeOK'
<1> USE DEF convexVars, redisVars, gatewayVars, workerVars
<1>1. /\ dims \in Dims /\ state \in Dims \cup {NoDims} /\ now \in Nat /\ layout \in Dims
      /\ cache \in [dims: Dims \cup {NoDims}, at: Nat] /\ cache.at <= now
      /\ fetch.pc = "read" => fetch.val \in Dims
      /\ races \in SUBSET Races /\ drained \in 0..Len(written) /\ Len(written) \in Nat
      /\ posts \subseteq [d: Dims, n: Nat] /\ jobs \subseteq [d: Dims, n: Nat, entry: BOOLEAN]
      /\ cut \subseteq AllCells /\ bytes \in [Offsets -> Colors]
      /\ snap \in [dims: Dims \cup {NoDims}, version: Nat, at: [AllCells -> Colors]]
      /\ Fallback \in Dims /\ 0 \in Colors
  BY GeometryAssumption DEF GeoTypeOK
<1>2. ASSUME Len(written) <= Len(written'), Len(written') \in Nat, UNCHANGED drained
      PROVE  drained' \in 0..Len(written')
  BY <1>1, <1>2
<1>3. /\ NoFetch \in [pc: {"none", "sent", "read"}, at: Nat, val: Dims \cup {NoDims},
                      pixels: SUBSET Pixels]
      /\ NoFetch.at <= now /\ NoFetch.pc # "read"
  BY <1>1 DEF NoFetch
<1>4. ASSUME NEW d \in Dims, Resume(d), cache' \in [dims: Dims \cup {NoDims}, at: Nat],
             cache'.at <= now, faults' \in Nat,
             UNCHANGED <<convexVars, layout, cut, jobs, workerVars, now>>
      PROVE  GeoTypeOK'
  BY <1>2, <1>3, <1>4, ResumeKeepsTypes DEF GeoTypeOK
<1>5. CASE FetchReturns
  <2>1. cache' \in {cache, [dims |-> fetch.val, at |-> now]} /\ fetch.val \in Dims /\ Resume(fetch.val)
    BY <1>1, <1>5 DEF FetchReturns
  <2>2. cache' \in [dims: Dims \cup {NoDims}, at: Nat] /\ cache'.at <= now
    <3>1. now <= now
      BY <1>1
    <3> QED
      BY <1>1, <2>1, <3>1
  <2>3. faults' \in Nat
    BY <1>5 DEF FetchReturns, GeoTypeOK
  <2> QED
    BY <1>4, <1>5, <2>1, <2>2, <2>3 DEF FetchReturns
<1>6. CASE FetchFails
  <2> DEFINE d == IF cache.dims # NoDims THEN cache.dims ELSE Fallback
  <2>1. d \in Dims /\ Resume(d)
    BY <1>1, <1>6 DEF FetchFails
  <2>2. faults' \in Nat
    BY <1>6 DEF FetchFails, GeoTypeOK
  <2> HIDE DEF d
  <2> QED
    BY <1>1, <1>4, <1>6, <2>1, <2>2 DEF FetchFails
<1>7. ASSUME NEW p \in Pixels, Place(p)
      PROVE  GeoTypeOK'
  <2>1. cache.dims \in Dims /\ Written(p, cache.dims, races)
    BY <1>1, <1>7 DEF Place
  <2> QED
    BY <1>1, <1>2, <1>7, <2>1, WriteKeepsTypes DEF Place, GeoTypeOK
<1>8. ASSUME NEW p \in posts, StartResize(p)
      PROVE  GeoTypeOK'
  <2>1. /\ posts' \subseteq posts
        /\ jobs' = jobs \cup {[d |-> p.d, n |-> p.n, entry |-> state # NoDims]}
        /\ bytes' = Relayout(bytes, OldDims, p.d) /\ layout' = p.d
        /\ cut' = cut \cup (AllCells \ Frame(p.d))
        /\ races' \subseteq races \cup {"wrong_old_dims", "overtaking"}
        /\ UNCHANGED <<dims, rows, cellCount, resizes, written, cache, state, fetch, boards,
                       joining, workerVars, now, faults, stray>>
    BY <1>8 DEF StartResize
  <2>2. p.d \in Dims /\ p.n \in Nat /\ OldDims \in Dims
    BY <1>1 DEF OldDims
  <2>3. jobs' \subseteq [d: Dims, n: Nat, entry: BOOLEAN]
    <3> DEFINE e == state # NoDims
               j == [d |-> p.d, n |-> p.n, entry |-> e]
    <3>1. e \in BOOLEAN
      OBVIOUS
    <3> HIDE DEF e
    <3>2. j \in [d: Dims, n: Nat, entry: BOOLEAN]
      BY <2>2, <3>1
    <3>3. jobs' = jobs \cup {j}
      BY <2>1 DEF e
    <3> HIDE DEF j
    <3> QED
      BY <1>1, <3>2, <3>3
  <2>4. bytes' \in [Offsets -> Colors]
    <3>1. ASSUME NEW o \in Offsets
          PROVE  bytes'[o] \in Colors
      <4> DEFINE c == <<o % p.d.w, o \div p.d.w>>
      <4>1. bytes'[o] = IF In(c, p.d) /\ In(c, OldDims) THEN bytes[OffsetOf(c, OldDims)] ELSE 0
        BY <2>1 DEF Relayout
      <4>2. In(c, p.d) => c \in AllCells
        <5>1. /\ p.d.w \in 1..MaxSide /\ p.d.h \in 1..MaxSide /\ MaxSide \in Nat \ {0}
              /\ o \in Nat
          BY <2>2, MaxSideIs DEF Offsets
        <5>2. o % p.d.w \in Nat /\ o \div p.d.w \in Nat
          BY <5>1
        <5> QED
          BY <5>1, <5>2 DEF In, AllCells
      <4> HIDE DEF c
      <4>3. In(c, p.d) /\ In(c, OldDims) => OffsetOf(c, OldDims) \in Offsets
        BY <2>2, <4>2, OffsetsAre
      <4> QED
        BY <1>1, <4>1, <4>3
    <3>2. bytes' = [o \in Offsets |-> bytes'[o]]
      BY <2>1 DEF Relayout
    <3> QED
      BY <3>1, <3>2
  <2>5. races' \subseteq Races
    BY <1>1, <2>1 DEF Races
  <2>6. cut' \subseteq AllCells
    BY <1>1, <2>1
  <2> QED
    BY <1>1, <2>1, <2>2, <2>3, <2>4, <2>5, <2>6 DEF GeoTypeOK
<1>9. CASE Tick
  <2>1. /\ nudged' = FALSE
        /\ UNCHANGED <<convexVars, written, bytes, layout, gatewayVars, drained, now, faults, stray>>
    BY <1>9 DEF Tick
  <2>2. CASE drained > snap.version
    <3>1. /\ snap' = [dims |-> dims, version |-> drained, at |-> Grid(bytes, dims)] /\ cut' = {}
          /\ races' \subseteq races \cup {"snapshot_in_gap"}
      BY <1>9, <2>2 DEF Tick
    <3>2. Grid(bytes, dims) \in [AllCells -> Colors]
      BY <1>1, ShownIsColor DEF Grid
    <3>3. /\ snap' \in [dims: Dims \cup {NoDims}, version: Nat, at: [AllCells -> Colors]]
          /\ snap'.version <= drained
      BY <1>1, <3>1, <3>2
    <3>4. races' \subseteq Races
      BY <1>1, <3>1 DEF Races
    <3> QED
      BY <1>1, <2>1, <3>1, <3>3, <3>4, NoDimsIsNone DEF GeoTypeOK
  <2>3. CASE ~(drained > snap.version)
    BY <1>9, <2>1, <2>3 DEF Tick, GeoTypeOK
  <2> QED
    BY <2>2, <2>3
<1> QED
  BY <1>5, <1>6, <1>7, <1>8, <1>9
-----------------------------------------------------------------------------
(***************************************************************************)
(* Turns: which resize is under way.                                       *)
(***************************************************************************)
\* What does not touch the posts nor the jobs leaves the turns.
LEMMA TurnUnchanged ==
  ASSUME InTurn, UNCHANGED <<dims, posts, resizes, layout, jobs>>
  PROVE  InTurn'
BY DEF InTurn

\* A post is scheduled after all the others (updateCanvasConfig).
LEMMA UpdateKeepsTurn ==
  ASSUME GeoTypeOK, InTurn, NEW d \in Dims, NEW confirmed, UpdateCanvasConfig(d, confirmed)
  PROVE  InTurn'
<1> DEFINE r == [d |-> d, n |-> resizes]
<1>1. /\ dims' = d /\ posts' = posts \cup {r} /\ resizes' = resizes + 1
      /\ UNCHANGED <<layout, jobs>>
  BY DEF UpdateCanvasConfig, redisVars, gatewayVars
<1>2. r.d = d /\ r.n = resizes /\ resizes \in Nat
  BY DEF GeoTypeOK
<1>3. (\A p \in posts : p.n \in Nat) /\ (\A j \in jobs : j.n \in Nat)
  BY DEF GeoTypeOK
<1> HIDE DEF r
<1>4. \A p \in posts' : p.n < resizes' /\ (p.n = resizes' - 1 => p.d = dims')
  BY <1>1, <1>2, <1>3 DEF InTurn
<1>5. \E p \in posts' : p.n = resizes' - 1
  BY <1>1, <1>2
<1>6. \A p, q \in posts' : p.n = q.n => p = q
  BY <1>1, <1>2, <1>3 DEF InTurn
<1>7. \A j \in jobs' : j.d = layout' /\ j.n < resizes' /\ \A p \in posts' : j.n < p.n
  BY <1>1, <1>2, <1>3 DEF InTurn
<1> QED
  BY <1>1, <1>4, <1>5, <1>6, <1>7 DEF InTurn

\* A resize that overtakes no other runs alone, and the last one lays the bytes out in
\* the durable dims (handleGridResize).
LEMMA StartKeepsTurn ==
  ASSUME GeoTypeOK, InTurn, NEW p \in posts, StartResize(p), races' = {}
  PROVE  InTurn'
<1> DEFINE r == [d |-> p.d, n |-> p.n, entry |-> state # NoDims]
<1>1. /\ posts' = posts \ {p} /\ jobs' = jobs \cup {r} /\ layout' = p.d
      /\ UNCHANGED <<dims, resizes>>
  BY DEF StartResize
<1>2. /\ r.d = p.d /\ r.n = p.n /\ resizes \in Nat
      /\ (\A q \in posts : q.n \in Nat) /\ (\A j \in jobs : j.n \in Nat)
  BY DEF GeoTypeOK
<1> HIDE DEF r
<1>3. \A q \in posts \cup jobs : ~(q.n < p.n)
  BY DEF StartResize
<1>4. jobs = {}
  BY <1>3 DEF InTurn
<1>5. \A q \in posts' : p.n < q.n
  BY <1>1, <1>2, <1>3 DEF InTurn
<1>6. ASSUME posts' = {}
      PROVE  layout' = dims'
  <2>1. p.n = resizes - 1
    BY <1>1, <1>6 DEF InTurn
  <2> QED
    BY <1>1, <2>1 DEF InTurn
<1>7. ASSUME posts' # {}
      PROVE  \E q \in posts' : q.n = resizes' - 1
  <2>1. PICK q \in posts : q.n = resizes - 1
    BY DEF InTurn
  <2>2. PICK s \in posts' : p.n < s.n /\ s.n < resizes
    BY <1>1, <1>5, <1>7 DEF InTurn
  <2>3. s.n \in Nat /\ p.n \in Nat
    BY <1>1, <1>2
  <2>4. q # p
    BY <1>2, <2>1, <2>2, <2>3
  <2> QED
    BY <1>1, <2>1, <2>4
<1>8. \A j \in jobs' : j.d = layout' /\ j.n < resizes' /\ \A q \in posts' : j.n < q.n
  BY <1>1, <1>2, <1>4, <1>5 DEF InTurn
<1>9. \A i, j \in jobs' : i = j
  BY <1>1, <1>4
<1> QED
  BY <1>1, <1>6, <1>7, <1>8, <1>9 DEF InTurn

\* The one resize whose reply was awaited is over (handleGridResize).
LEMMA FinishKeepsTurn ==
  ASSUME InTurn, NEW j \in jobs, FinishResize(j)
  PROVE  InTurn' /\ jobs' = {}
<1>1. jobs' = jobs \ {j} /\ UNCHANGED <<dims, posts, resizes, layout>>
  BY DEF FinishResize, convexVars, redisVars
<1>2. jobs' = {}
  BY <1>1 DEF InTurn
<1> QED
  BY <1>1, <1>2 DEF InTurn

\* A resize goes on without the entry that was reaped (reapCanvasIfEmpty).
LEMMA LeaveKeepsTurn ==
  ASSUME GeoTypeOK, InTurn, NEW c, Disconnect(c)
  PROVE  InTurn' /\ (jobs' = {} => jobs = {})
<1>1. UNCHANGED <<dims, posts, resizes, layout>>
  BY DEF Disconnect, convexVars, redisVars
<1>2. CASE UNCHANGED jobs
  BY <1>1, <1>2, TurnUnchanged
<1>3. CASE jobs' = {[j EXCEPT !.entry = FALSE] : j \in jobs}
  <2> DEFINE Left(j) == [j EXCEPT !.entry = FALSE]
  <2>1. \A j \in jobs : Left(j).d = j.d /\ Left(j).n = j.n
    BY DEF GeoTypeOK
  <2>2. jobs' = {Left(j) : j \in jobs}
    BY <1>3
  <2> HIDE DEF Left
  <2>3. (\A i, j \in jobs' : i = j) /\ (jobs' = {} => jobs = {})
    BY <2>2 DEF InTurn
  <2>4. \A j \in jobs' : j.d = layout /\ j.n < resizes /\ \A p \in posts : j.n < p.n
    BY <2>1, <2>2 DEF InTurn
  <2> QED
    BY <1>1, <2>3, <2>4 DEF InTurn
<1> QED
  BY <1>2, <1>3 DEF Disconnect
-----------------------------------------------------------------------------
(***************************************************************************)
(* The gateway and Convex.                                                 *)
(***************************************************************************)
Quiet == posts = {} /\ jobs = {}

\* A fetch that is asked for, or shared, has no answer of its own yet (forceResolve).
LEMMA FetchingAsks ==
  ASSUME GeoTypeOK, NEW pixels, Fetching(pixels)
  PROVE  fetch'.pc = "read" => /\ fetch.pc = "read" /\ fetch'.val = fetch.val
                               /\ fetch'.at = fetch.at
<1>1. CASE fetch.pc = "none"
  BY <1>1 DEF Fetching, NoFetch
<1>2. CASE fetch.pc # "none"
  BY <1>2 DEF Fetching, GeoTypeOK
<1> QED
  BY <1>1, <1>2

\* A client that joins is told the dims of the entry, or of the cache (sendInitialState).
LEMMA ConnectFollows ==
  ASSUME GeoTypeOK, Follows, NEW c \in Conns, Connect(c)
  PROVE  Follows'
<1>1. UNCHANGED <<dims, posts, jobs, cache>>
  BY DEF Connect, convexVars
<1>2. boards \in [Conns -> Dims \cup {NoDims}]
  BY DEF GeoTypeOK
<1>3. CASE state # NoDims \/ Fresh
  <2>1. /\ state' = (IF state # NoDims THEN state ELSE cache.dims)
        /\ boards' = [boards EXCEPT ![c] = state'] /\ UNCHANGED fetch
    BY <1>3 DEF Connect
  <2>2. Quiet => state' \in {NoDims, dims}
    BY <2>1 DEF Follows, Quiet
  <2>3. Quiet => \A b \in Conns : boards'[b] \in {NoDims, dims}
    BY <1>2, <2>1, <2>2 DEF Follows, Quiet
  <2> QED
    BY <1>1, <2>1, <2>2, <2>3 DEF Follows, Quiet
<1>4. CASE ~(state # NoDims \/ Fresh)
  BY <1>1, <1>4, FetchingAsks DEF Connect, Follows
<1> QED
  BY <1>3, <1>4

\* Whoever awaited a fetch goes on with what the gateway agrees on (resolve).
LEMMA ResumeFollows ==
  ASSUME GeoTypeOK, Follows, NEW d, Resume(d), races' = {}, UNCHANGED <<dims, posts, jobs>>,
         Quiet => cache'.dims \in {NoDims, dims}
  PROVE  Follows'
<1>1. /\ boards' = [c \in Conns |-> IF c \in joining THEN state' ELSE boards[c]]
      /\ fetch' = NoFetch
  BY DEF Resume
<1>2. Quiet => state' \in {NoDims, dims}
  <2> DEFINE past == IF state' \notin {NoDims, dims} /\ posts = {} /\ jobs = {}
                     THEN races \cup {"stale_join"} ELSE races
  <2>1. \/ races' = past
        \/ \E p \in fetch.pixels : In(p.cell, d) /\ Written(p, d, past)
    BY DEF Resume
  <2> HIDE DEF past
  <2>2. past = {}
    BY <2>1 DEF Written
  <2> QED
    BY <2>2 DEF past, Quiet
<1>3. Quiet => \A c \in Conns : boards'[c] \in {NoDims, dims}
  BY <1>1, <1>2 DEF Follows, Quiet
<1> QED
  BY <1>1, <1>2, <1>3 DEF Follows, Quiet, NoFetch

\* An answer that is older than the cached dims is not cached (_fetch).
LEMMA FetchReturnsFollows ==
  ASSUME GeoTypeOK, Follows, FetchReturns, races' = {}
  PROVE  Follows'
<1>1. /\ Resume(fetch.val) /\ fetch.pc = "read" /\ UNCHANGED <<dims, posts, jobs>>
      /\ cache' = (IF cache.dims = NoDims \/ cache.at <= fetch.at
                   THEN [dims |-> fetch.val, at |-> now] ELSE cache)
  BY DEF FetchReturns, convexVars
<1>2. cache.at \in Nat /\ fetch.at \in Nat
  BY DEF GeoTypeOK
<1>3. Quiet => cache'.dims \in {NoDims, dims}
  BY <1>1, <1>2 DEF Follows, Quiet
<1> QED
  BY <1>1, <1>3, ResumeFollows

\* With the last resize the cache, the entry and every client take the durable dims, and
\* an answer that is still on its way is older (handleGridResize).
LEMMA FinishFollows ==
  ASSUME GeoTypeOK, InTurn, Follows, NEW j \in jobs, FinishResize(j), races' = {}
  PROVE  Follows'
<1>1. /\ cache' = [dims |-> j.d, at |-> now] /\ state' = (IF j.entry THEN j.d ELSE state)
      /\ boards' = [c \in Conns |-> IF boards[c] # NoDims THEN j.d ELSE NoDims]
      /\ UNCHANGED <<dims, posts, fetch>>
      /\ ~(~j.entry /\ state \notin {NoDims, j.d})
      /\ ~(fetch.pc # "none" /\ fetch.at = now)
  BY DEF FinishResize, convexVars
<1>2. posts = {} => j.d = dims
  BY DEF InTurn
<1>3. fetch.at \in Nat /\ now \in Nat /\ fetch.at <= now
  BY DEF GeoTypeOK
<1>4. j.d # NoDims
  BY NoDimsIsNone DEF GeoTypeOK
<1>5. fetch'.pc = "read" => cache'.dims # NoDims /\ cache'.at > fetch'.at
  BY <1>1, <1>3, <1>4
<1>6. ASSUME posts = {}
      PROVE  /\ cache'.dims \in {NoDims, dims} /\ state' \in {NoDims, dims}
             /\ \A c \in Conns : boards'[c] \in {NoDims, dims}
  BY <1>1, <1>2, <1>6
<1> QED
  BY <1>1, <1>5, <1>6 DEF Follows
-----------------------------------------------------------------------------
(***************************************************************************)
(* The invariant.                                                          *)
(***************************************************************************)
\* What happened of the races is never forgotten: a step that ends without any met none.
LEMMA NoRaceYet ==
  ASSUME GeoTypeOK, GeoNext, races' = {}
  PROVE  races = {}
<1> USE DEF convexVars, redisVars, gatewayVars, workerVars
<1>1. \A p, d, past : Written(p, d, past) => past \subseteq races'
  BY DEF Written
<1>2. \A d : Resume(d) => races \subseteq races'
  <2>1. ASSUME NEW d, Resume(d)
        PROVE  races \subseteq races'
    <3> DEFINE past == IF state' \notin {NoDims, dims} /\ posts = {} /\ jobs = {}
                       THEN races \cup {"stale_join"} ELSE races
    <3>1. \/ races' = past
          \/ \E p \in fetch.pixels : In(p.cell, d) /\ Written(p, d, past)
      BY <2>1 DEF Resume
    <3>2. races \subseteq past
      OBVIOUS
    <3> HIDE DEF past
    <3> QED
      BY <1>1, <3>1, <3>2
  <2> QED
    BY <2>1
<1>3. ASSUME Convex \/ Worker \/ ClockTick
      PROVE  races \subseteq races'
  BY <1>3 DEF Convex, Worker, UpdateCanvasConfig, LosePost, Ingest, Tick, ClockTick
<1>4. ASSUME Gateway
      PROVE  races \subseteq races'
  <2>1. CASE FetchReturns \/ FetchFails
    BY <1>2, <2>1 DEF FetchReturns, FetchFails
  <2>2. CASE \E p \in Pixels : Place(p)
    BY <1>1, <2>2 DEF Place
  <2>3. CASE \/ \E c \in Conns : Connect(c) \/ Disconnect(c)
             \/ FetchReads \/ \E p \in Pixels : PlaceOutside(p)
    BY <2>3 DEF Connect, Disconnect, FetchReads, PlaceOutside
  <2>4. CASE (\E p \in posts : StartResize(p)) \/ \E j \in jobs : FinishResize(j)
    BY <2>4 DEF StartResize, FinishResize
  <2> QED
    BY <1>4, <2>1, <2>2, <2>3, <2>4 DEF Gateway
<1> QED
  BY <1>3, <1>4 DEF GeoNext

\* What leaves the bytes, the log and the posts leaves the invariant of the log.
LEMMA LogStutters ==
  ASSUME CleanInv, UNCHANGED logVars, UNCHANGED <<resizes, jobs>>, Follows'
  PROVE  CleanInv'
BY LogUnchanged, TurnUnchanged DEF CleanInv, logVars

\* A pixel that went on after a fetch was written in the stride of the bytes.
LEMMA ResumeKeepsClean ==
  ASSUME GeoTypeOK, CleanInv, NEW d \in Dims, Resume(d), races' = {}, Follows',
         UNCHANGED <<dims, posts, resizes, jobs, layout, rows, drained, cut, snap>>
  PROVE  CleanInv'
<1> DEFINE past == IF state' \notin {NoDims, dims} /\ posts = {} /\ jobs = {}
                   THEN races \cup {"stale_join"} ELSE races
<1>1. \/ UNCHANGED <<written, bytes, stray>>
      \/ \E p \in fetch.pixels : In(p.cell, d) /\ Written(p, d, past)
  BY DEF Resume
<1> HIDE DEF past
<1>2. CASE UNCHANGED <<written, bytes, stray>>
  BY <1>2, LogStutters DEF logVars
<1>3. ASSUME NEW p \in fetch.pixels, Written(p, d, past)
      PROVE  CleanInv'
  <2>1. p \in Pixels
    BY DEF GeoTypeOK
  <2>2. d.w = layout.w /\ In(p.cell, layout)
    BY <1>3 DEF Written
  <2> QED
    BY <1>3, <2>1, <2>2, WriteKeepsLog, TurnUnchanged DEF CleanInv, LogInv
<1> QED
  BY <1>1, <1>2, <1>3

\* A pixel inside the cached dims was written in the stride of the bytes.
LEMMA PlaceKeepsClean ==
  ASSUME GeoTypeOK, CleanInv, NEW p \in Pixels, Place(p), races' = {}
  PROVE  CleanInv'
<1>1. /\ cache.dims \in Dims /\ Written(p, cache.dims, races)
      /\ UNCHANGED <<convexVars, layout, cut, gatewayVars, workerVars>>
  BY DEF Place, GeoTypeOK
<1>2. cache.dims.w = layout.w /\ In(p.cell, layout)
  BY <1>1 DEF Written
<1>3. UNCHANGED <<dims, posts, resizes, jobs, layout, rows, drained, cut, snap, cache, state,
                  boards, fetch>>
  BY <1>1 DEF convexVars, gatewayVars, workerVars
<1>4. Follows'
  BY <1>3 DEF CleanInv, Follows
<1> QED
  BY <1>1, <1>2, <1>3, <1>4, WriteKeepsLog, TurnUnchanged DEF CleanInv, LogInv

\* Each step of Convex keeps the invariant.
LEMMA ConvexKeepsClean ==
  ASSUME GeoTypeOK, CleanInv, Convex, races' = {}
  PROVE  CleanInv'
<1>1. ASSUME NEW d \in Dims, NEW confirmed \in BOOLEAN, UpdateCanvasConfig(d, confirmed)
      PROVE  CleanInv'
  <2>1. Follows'
    BY <1>1 DEF UpdateCanvasConfig, Follows
  <2> QED
    BY <1>1, <2>1, UpdateKeepsLog, UpdateKeepsTurn DEF CleanInv, LogInv
<1> QED
  BY <1>1 DEF Convex, LosePost

\* Each step of the worker keeps the invariant.
LEMMA WorkerKeepsClean ==
  ASSUME GeoTypeOK, CleanInv, Worker, races' = {}
  PROVE  CleanInv'
<1>1. UNCHANGED <<dims, posts, resizes, jobs, layout, cache, state, boards, fetch>>
  BY DEF Worker, Ingest, Tick, redisVars, gatewayVars, convexVars
<1>2. Follows'
  BY <1>1 DEF CleanInv, Follows
<1>3. CASE Ingest
  BY <1>1, <1>2, <1>3, IngestKeepsLog, TurnUnchanged DEF CleanInv, LogInv
<1>4. CASE Tick
  <2>1. drained > snap.version => layout = dims
    BY <1>4 DEF Tick
  <2> QED
    BY <1>1, <1>2, <1>4, <2>1, TickKeepsLog, TurnUnchanged DEF CleanInv, LogInv
<1> QED
  BY <1>3, <1>4 DEF Worker

\* Each step of the gateway keeps the invariant.
LEMMA GatewayKeepsClean ==
  ASSUME GeoTypeOK, CleanInv, Gateway, races' = {}
  PROVE  CleanInv'
<1> USE DEF convexVars, redisVars, workerVars
<1>1. ASSUME NEW c \in Conns, Connect(c)
      PROVE  CleanInv'
  <2>1. UNCHANGED logVars /\ UNCHANGED <<resizes, jobs>>
    BY <1>1 DEF Connect, logVars
  <2> QED
    BY <1>1, <2>1, ConnectFollows, LogStutters DEF CleanInv
<1>2. ASSUME NEW c \in Conns, Disconnect(c)
      PROVE  CleanInv'
  <2>1. /\ UNCHANGED logVars /\ UNCHANGED <<cache, fetch>>
        /\ boards' = [boards EXCEPT ![c] = NoDims] /\ state' \in {state, NoDims}
    BY <1>2 DEF Disconnect, logVars
  <2>2. InTurn' /\ (jobs' = {} => jobs = {})
    BY <1>2, LeaveKeepsTurn DEF CleanInv
  <2>3. Follows'
    <3>1. \A b \in Conns : boards'[b] \in {boards[b], NoDims}
      BY <2>1 DEF GeoTypeOK
    <3> QED
      BY <2>1, <2>2, <3>1 DEF CleanInv, Follows, logVars
  <2> QED
    BY <2>1, <2>2, <2>3, LogUnchanged DEF CleanInv
<1>3. CASE FetchReads
  <2>1. UNCHANGED logVars /\ UNCHANGED <<resizes, jobs, cache, state, boards>>
    BY <1>3 DEF FetchReads, logVars
  <2>2. fetch'.val = dims
    BY <1>3 DEF FetchReads, GeoTypeOK
  <2>3. Follows'
    BY <2>1, <2>2 DEF CleanInv, Follows, logVars
  <2> QED
    BY <2>1, <2>3, LogStutters
<1>4. CASE FetchReturns
  <2>1. Follows'
    BY <1>4, FetchReturnsFollows DEF CleanInv
  <2>2. fetch.val \in Dims
    BY <1>4 DEF FetchReturns, GeoTypeOK
  <2> QED
    BY <1>4, <2>1, <2>2, ResumeKeepsClean DEF FetchReturns
<1>5. CASE FetchFails
  <2> DEFINE d == IF cache.dims # NoDims THEN cache.dims ELSE Fallback
  <2>1. d \in Dims
    BY GeometryAssumption DEF GeoTypeOK
  <2>2. Resume(d) /\ UNCHANGED <<dims, posts, resizes, jobs, layout, rows, drained, cut, snap, cache>>
    BY <1>5 DEF FetchFails
  <2> HIDE DEF d
  <2>3. posts = {} /\ jobs = {} => cache'.dims \in {NoDims, dims}
    BY <2>2 DEF CleanInv, Follows
  <2>4. Follows'
    BY <2>2, <2>3, ResumeFollows DEF CleanInv, Quiet
  <2> QED
    BY <2>1, <2>2, <2>4, ResumeKeepsClean
<1>6. ASSUME NEW p \in Pixels, PlaceOutside(p)
      PROVE  CleanInv'
  <2>1. UNCHANGED logVars /\ UNCHANGED <<resizes, jobs, cache, state, boards>> /\ Fetching({p})
    BY <1>6 DEF PlaceOutside, logVars
  <2>2. Follows'
    BY <2>1, FetchingAsks DEF CleanInv, Follows, logVars
  <2> QED
    BY <2>1, <2>2, LogStutters
<1>7. ASSUME NEW p \in posts, StartResize(p)
      PROVE  CleanInv'
  <2>1. OldDims = layout
    BY <1>7 DEF StartResize
  <2>2. Follows'
    BY <1>7 DEF StartResize, Follows
  <2> QED
    BY <1>7, <2>1, <2>2, StartKeepsTurn, RelayoutKeepsLog DEF CleanInv, LogInv
<1>8. ASSUME NEW j \in jobs, FinishResize(j)
      PROVE  CleanInv'
  <2>1. UNCHANGED logVars
    BY <1>8 DEF FinishResize, logVars
  <2> QED
    BY <1>8, <2>1, FinishFollows, FinishKeepsTurn, LogUnchanged DEF CleanInv
<1>9. ASSUME NEW p \in Pixels, Place(p)
      PROVE  CleanInv'
  BY <1>9, PlaceKeepsClean
<1> QED
  BY <1>1, <1>2, <1>3, <1>4, <1>5, <1>6, <1>7, <1>8, <1>9 DEF Gateway

\* A canvas starts with nothing written and no resize under way.
LEMMA GeoInitInv ==
  ASSUME GeoInit
  PROVE  GeoInv
<1>1. GeoTypeOK
  <2>1. /\ layout \in Dims /\ dims \in Dims /\ state = NoDims /\ 0 \in Colors
    BY GeometryAssumption DEF GeoInit
  <2>2. /\ cache \in [dims: Dims \cup {NoDims}, at: Nat]
        /\ fetch \in [pc: {"none", "sent", "read"}, at: Nat, val: Dims \cup {NoDims},
                      pixels: SUBSET Pixels]
        /\ fetch.pc # "read" /\ cache.at = 0 /\ fetch.at = 0
    BY DEF GeoInit, NoCache, NoFetch
  <2>3. snap = NoSnap /\ snap.version = 0
        /\ snap \in [dims: Dims \cup {NoDims}, version: Nat, at: [AllCells -> Colors]]
    BY <2>1 DEF GeoInit, NoSnap
  <2>4. written = <<>> /\ Len(written) = 0 /\ drained \in 0..Len(written)
    BY DEF GeoInit
  <2>5. bytes \in [Offsets -> Colors] /\ boards \in [Conns -> Dims \cup {NoDims}]
    BY <2>1 DEF GeoInit
  <2>6. rows \subseteq 1..drained /\ stray \subseteq 1..Len(written)
    BY DEF GeoInit
  <2>7. snap.version <= drained /\ written \in Seq(Pixels) /\ cache.at <= now /\ fetch.at <= now
    BY <2>2, <2>3 DEF GeoInit
  <2>8. /\ cellCount = 0 /\ resizes = 0 /\ posts = {} /\ jobs = {} /\ cut = {} /\ now = 0
        /\ joining = {} /\ nudged = FALSE /\ faults = 0 /\ races = {}
    BY DEF GeoInit
  <2>9. cellCount \in Int /\ resizes \in Nat /\ now \in Nat /\ faults \in Nat
    BY <2>8
  <2>10. /\ posts \subseteq [d: Dims, n: Nat] /\ jobs \subseteq [d: Dims, n: Nat, entry: BOOLEAN]
         /\ races \subseteq Races /\ joining \subseteq Conns /\ cut \subseteq AllCells
         /\ nudged \in BOOLEAN
    BY <2>8
  <2> QED
    BY <2>1, <2>2, <2>3, <2>4, <2>5, <2>6, <2>7, <2>9, <2>10 DEF GeoTypeOK
<1>2. InTurn /\ Follows
  BY DEF GeoInit, InTurn, Follows, NoCache, NoFetch
<1>3. Logged = {}
  BY DEF GeoInit, Logged
<1>4. \A c : On(c, Logged) = {} /\ ColorOn(c, Logged) = 0
  BY <1>3 DEF On, ColorOn
<1>5. \A c \in AllCells : Shows(bytes, layout, c) = 0 /\ snap.at[c] = 0
  <2>1. layout \in Dims /\ bytes = [o \in Offsets |-> 0]
    BY DEF GeoInit
  <2> QED
    BY <2>1, OffsetsAre DEF Shows, GeoInit, NoSnap
<1>6. StraysKnown /\ DueIsLogged /\ OutIsCut /\ SnapFollows
  BY <1>3, <1>4, <1>5 DEF StraysKnown, DueIsLogged, OutIsCut, SnapFollows, Due, Frame
<1> QED
  BY <1>1, <1>2, <1>6 DEF GeoInv, CleanInv

\* Every step keeps the invariant.
LEMMA GeoInvStep ==
  ASSUME GeoInv, [GeoNext]_geoVars
  PROVE  GeoInv'
<1>1. CASE UNCHANGED geoVars
  <2>1. UNCHANGED <<dims, rows, cellCount, posts, resizes, written, bytes, layout, cut, cache,
                    state, fetch, jobs, boards, joining, drained, snap, nudged, now, faults,
                    stray, races>>
    BY <1>1 DEF geoVars, convexVars, redisVars, gatewayVars, workerVars
  <2>2. GeoTypeOK'
    BY <2>1 DEF GeoInv, GeoTypeOK
  <2>3. CleanInv => Follows'
    BY <2>1 DEF CleanInv, Follows
  <2> QED
    BY <2>1, <2>2, <2>3, LogStutters DEF GeoInv, logVars
<1>2. CASE GeoNext
  <2>1. GeoTypeOK'
    BY <1>2, ConvexTypes, GatewayTypes, BytesTypes DEF GeoInv, GeoNext, Convex, Gateway, Worker
  <2>2. ASSUME races' = {}
        PROVE  CleanInv'
    <3>1. GeoTypeOK /\ CleanInv
      BY <1>2, <2>2, NoRaceYet DEF GeoInv
    <3>2. CASE ClockTick
      <4>1. UNCHANGED logVars /\ UNCHANGED <<resizes, jobs, cache, state, boards, fetch>>
        BY <3>2 DEF ClockTick, convexVars, redisVars, gatewayVars, workerVars, logVars
      <4>2. Follows'
        BY <3>1, <4>1 DEF CleanInv, Follows, logVars
      <4> QED
        BY <3>1, <4>1, <4>2, LogStutters
    <3> QED
      BY <1>2, <2>2, <3>1, <3>2, ConvexKeepsClean, GatewayKeepsClean, WorkerKeepsClean DEF GeoNext
  <2> QED
    BY <2>1, <2>2 DEF GeoInv
<1> QED
  BY <1>1, <1>2
-----------------------------------------------------------------------------
(***************************************************************************)
(* The properties.                                                         *)
(***************************************************************************)
\* With no resize under way the invariant is what the gateway promises.
LEMMA GatewayFollows ==
  ASSUME GeoInv
  PROVE  GatewayFollowsConvex
BY DEF GeoInv, CleanInv, InTurn, Follows, Settled, GatewayFollowsConvex

\* With no resize under way what is due to a cell is what it shows.
LEMMA DueIsShown ==
  ASSUME InTurn, posts = {}
  PROVE  \A c \in Frame(dims) : Stays(c) /\ Due(c) = Shows(bytes, dims, c)
BY DEF InTurn, Frame, Stays, Due

\* The bytes show the log once no post is under way.
LEMMA BytesShow ==
  ASSUME GeoInv
  PROVE  BytesShowLog
<1> SUFFICES ASSUME Settled, races = {}, NEW c \in Frame(dims), Unstray(c)
             PROVE  Shows(bytes, dims, c) = ColorOn(c, Logged)
  BY DEF BytesShowLog
<1> QED
  BY DueIsShown DEF GeoInv, CleanInv, Settled, DueIsLogged

\* A row newer than the snapshot is what a restore shows, and the snapshot shows a cell
\* with no such row (reconstructPixels).
LEMMA RestoreShows ==
  ASSUME GeoInv
  PROVE  RestoreShowsLive
<1> SUFFICES ASSUME Settled, races = {}, drained = Len(written),
                    NEW c \in Frame(dims) \ cut, Unstray(c)
             PROVE  Restored[c] = Shows(bytes, dims, c)
  BY DEF RestoreShowsLive
<1>1. c \in AllCells /\ In(c, dims) /\ CleanInv /\ GeoTypeOK /\ posts = {}
  BY DEF Frame, GeoInv, Settled
<1>2. Logged = rows
  <2>1. Len(written) \in Nat
    BY <1>1 DEF GeoTypeOK
  <2>2. drained + 1..Len(written) = {}
    BY <2>1
  <2> QED
    BY <2>2 DEF Logged
<1>3. Shows(bytes, dims, c) = ColorOn(c, rows)
  BY <1>1, <1>2, DueIsShown DEF CleanInv, DueIsLogged
<1> DEFINE tail == {v \in rows : v > snap.version /\ written[v].cell = c}
           s == On(c, rows)
<1>4. Restored[c] = IF tail # {} THEN written[Newest(tail)].color
                    ELSE IF snap.dims = NoDims THEN 0 ELSE CropPad(snap, dims)[c]
  BY <1>1 DEF Restored
<1>5. /\ tail \subseteq s /\ s \subseteq Nat /\ tail \subseteq Nat /\ drained \in Nat
      /\ (\A v \in s : v <= drained) /\ snap.version \in Nat
  <2>1. rows \subseteq 1..drained /\ drained \in 0..Len(written) /\ snap.version \in Nat
        /\ Len(written) \in Nat
    BY <1>1 DEF GeoTypeOK
  <2>2. s \subseteq rows /\ tail \subseteq s
    BY DEF On
  <2>3. \A v \in rows : v \in Nat /\ v <= drained
    BY <2>1
  <2> HIDE DEF tail, s
  <2> QED
    BY <2>1, <2>2, <2>3
<1>6. ASSUME tail # {}
      PROVE  Newest(tail) = Newest(s)
  <2>1. \A v \in s : v > snap.version <=> v \in tail
    BY DEF On
  <2> HIDE DEF tail, s
  <2>2. Newest(tail) \in tail /\ \A v \in tail : v <= Newest(tail)
    BY <1>5, <1>6, NewestIs
  <2>3. Newest(s) \in s /\ \A v \in s : v <= Newest(s)
    BY <1>5, <1>6, NewestIs
  <2> DEFINE a == Newest(tail)
             b == Newest(s)
             k == snap.version
  <2>4. a \in Nat /\ b \in Nat /\ k \in Nat /\ a \in s /\ b \in s /\ a \in tail
    BY <1>5, <2>2, <2>3
  <2>5. a <= b /\ a > k
    BY <2>1, <2>3, <2>4
  <2>6. b \in tail => b <= a
    BY <2>2
  <2>7. b > k => b \in tail
    BY <2>1, <2>4
  <2> HIDE DEF a, b, k
  <2>8. a = b
    BY <2>4, <2>5, <2>6, <2>7
  <2> QED
    BY <2>8 DEF a, b
<1>7. CASE tail # {}
  <2>1. s # {}
    BY <1>5, <1>7
  <2>2. ColorOn(c, rows) = written[Newest(s)].color
    BY <2>1 DEF ColorOn
  <2> HIDE DEF tail, s
  <2> QED
    BY <1>3, <1>4, <1>6, <1>7, <2>2
<1>8. CASE tail = {}
  <2>1. \A v \in s : v <= snap.version
    BY <1>5, <1>8 DEF On
  <2>2. snap.at[c] = ColorOn(c, rows)
    BY <1>1, <1>2, <2>1, DueIsShown DEF CleanInv, SnapFollows
  <2>3. Restored[c] = snap.at[c]
    <3>1. CASE snap.dims = NoDims
      <4>1. snap.at[c] = 0
        BY <1>1, <3>1 DEF GeoTypeOK, NoSnap
      <4> QED
        BY <1>4, <1>8, <3>1, <4>1
    <3>2. CASE snap.dims # NoDims
      <4>1. CropPad(snap, dims)[c] = snap.at[c]
        BY <1>1 DEF CropPad
      <4> QED
        BY <1>4, <1>8, <3>2, <4>1
    <3> QED
      BY <3>1, <3>2
  <2> QED
    BY <1>3, <2>2, <2>3
<1> QED
  BY <1>7, <1>8

\* The geometry keeps its types.
THEOREM GeometryTypes == GeoSpec => []GeoTypeOK
<1>1. GeoInv => GeoTypeOK
  BY DEF GeoInv
<1> QED
  BY <1>1, GeoInitInv, GeoInvStep, PTL DEF GeoSpec

\* Once a resize has settled the gateway and its clients agree with Convex, whatever
\* fetches, joins and leaves it met (handleGridResize, _fetch, sendInitialState).
THEOREM GatewayAgrees == GeoSpec => []GatewayFollowsConvex
BY GeoInitInv, GeoInvStep, GatewayFollows, PTL DEF GeoSpec

\* Once a resize has settled the bytes show the newest placement of every cell of the
\* frame (grid-resize.lua).
THEOREM BytesAgree == GeoSpec => []BytesShowLog
BY GeoInitInv, GeoInvStep, BytesShow, PTL DEF GeoSpec

\* Once a resize has settled a cold start would rebuild what the bytes show, but for the
\* cells that were cut since the snapshot (reconstructPixels).
THEOREM RestoreAgrees == GeoSpec => []RestoreShowsLive
BY GeoInitInv, GeoInvStep, RestoreShows, PTL DEF GeoSpec
-----------------------------------------------------------------------------
(***************************************************************************)
(* The count of painted cells.                                             *)
(***************************************************************************)
\* cellCount, which a flush moves by the change of one cell and a resize recounts, is the
\* number of cells the rows paint.
CountsPainted == cellCount = Cardinality(Painted(rows))

\* A placement that is accepted is no row yet.
LEMMA RowsKeepColors ==
  ASSUME GeoTypeOK, rows' = rows,
         \/ UNCHANGED written \/ \E p \in Pixels : written' = Append(written, p)
  PROVE  Painted(rows)' = Painted(rows)
<1>1. /\ written \in Seq(Pixels) /\ Len(written) \in Nat /\ rows \subseteq 1..drained
      /\ drained \in 0..Len(written)
  BY DEF GeoTypeOK
<1>2. \A v \in 1..Len(written) : written'[v] = written[v]
  BY <1>1
<1>3. Within(rows, Len(written))
  <2>1. \A v \in 1..drained : v \in 1..Len(written)
    BY <1>1
  <2> QED
    BY <1>1, <2>1 DEF Within
<1>4. \A v \in rows : written'[v] = written[v]
  BY <1>2, <1>3 DEF Within
<1>5. ASSUME NEW c
      PROVE  ColorIn(written', c, rows) = ColorIn(written, c, rows)
  <2> DEFINE log == written
             more == written'
             V == rows
             k == Len(written)
  <2>1. Within(V, k) /\ (\A v \in V : more[v] = log[v]) /\ OnIn(more, c, V) = OnIn(log, c, V)
    BY <1>3, <1>4 DEF OnIn
  <2> HIDE DEF log, more, V, k
  <2>2. ColorIn(more, c, V) = ColorIn(log, c, V)
    BY <2>1, SameColor
  <2> QED
    BY <2>2 DEF log, more, V
<1>6. Painted(rows)' = {c \in AllCells : ColorIn(written', c, rows) > 0}
  BY DEF Painted, ColorOn, On, ColorIn, OnIn
<1>7. Painted(rows) = {c \in AllCells : ColorIn(written, c, rows) > 0}
  BY DEF Painted, ColorOn, On, ColorIn, OnIn
<1> QED
  BY <1>5, <1>6, <1>7

\* A flush changes the count by what it changes on its cell (applyFlush).
LEMMA IngestCounts ==
  ASSUME GeoTypeOK, CountsPainted, Ingest
  PROVE  CountsPainted'
<1>1. PICK n : n = drained + 1
  OBVIOUS
<1>2. PICK c : c = written[n].cell
  OBVIOUS
<1> DEFINE was == ColorOn(c, rows)
           is == written[n].color
           P == Painted(rows)
           Q == Painted(rows)'
<1>3. /\ rows' = rows \cup {n} /\ written' = written
      /\ cellCount' = cellCount + (IF is > 0 THEN 1 ELSE 0) - (IF was > 0 THEN 1 ELSE 0)
  BY <1>1, <1>2 DEF Ingest, redisVars
<1>4. n \in Nat /\ n \in 1..Len(written) /\ rows \subseteq 1..drained /\ n \notin rows
      /\ drained \in Nat
  BY <1>1 DEF GeoTypeOK, Ingest
<1>5. written[n] \in Pixels /\ c \in AllCells /\ is \in Nat
  <2>1. written[n] \in Pixels
    BY <1>4 DEF GeoTypeOK
  <2> QED
    BY <1>2, <2>1, GeometryAssumption DEF Pixels
<1>6. ColorOn(c, rows)' = is
  <2>1. rows' \in SUBSET (1..n) /\ n \in rows'
    <3>1. \A v \in 1..drained : v \in 1..n
      BY <1>4, <1>1
    <3> QED
      BY <1>3, <1>4, <3>1
  <2>2. ColorIn(written, c, rows') = is
    <3> DEFINE V == rows'
               b == c
               k == n
    <3>1. k \in Nat /\ V \in SUBSET (1..k) /\ k \in V /\ written[k].cell = b
      BY <1>4, <1>2, <2>1
    <3> HIDE DEF V, b, k
    <3>2. ColorIn(written, b, V) = written[k].color
      BY <3>1, LastShows
    <3> QED
      BY <3>2 DEF V, b, k
  <2> QED
    BY <1>3, <2>2 DEF ColorOn, On, ColorIn, OnIn
<1>7. ASSUME NEW b \in AllCells, b # c
      PROVE  b \in Q <=> b \in P
  <2>1. On(b, rows)' = On(b, rows)
    BY <1>3, <1>7, <1>2 DEF On
  <2>2. ColorOn(b, rows)' = ColorOn(b, rows)
    BY <1>3, <2>1 DEF ColorOn
  <2> QED
    BY <2>2 DEF Painted
<1>8. c \in Q <=> is > 0
  <2>1. Q = {b \in AllCells : ColorOn(b, rows)' > 0}
    BY DEF Painted
  <2> QED
    BY <1>3, <1>5, <1>6, <2>1 DEF ColorOn, On
<1>9. c \in P <=> was > 0
  BY <1>5 DEF Painted
<1>10. P \subseteq AllCells /\ Q \subseteq AllCells
  BY DEF Painted
<1>11. IsFiniteSet(P) /\ IsFiniteSet(Q) /\ Cardinality(P) \in Nat
  BY <1>10, CellsFinite, FS_Subset, FS_CardinalityType
<1>12. cellCount = Cardinality(P) /\ (CountsPainted' <=> cellCount' = Cardinality(Q))
  BY DEF CountsPainted
<1> DEFINE new == is > 0
           old == was > 0
<1>13. cellCount' = cellCount + (IF new THEN 1 ELSE 0) - (IF old THEN 1 ELSE 0)
  BY <1>3
<1>14. (c \in Q <=> new) /\ (c \in P <=> old)
  BY <1>8, <1>9
<1> HIDE DEF P, Q, new, old
<1>15. CASE new /\ ~old
  <2>1. Q = P \cup {c} /\ c \notin P
    BY <1>5, <1>7, <1>10, <1>14, <1>15
  <2>2. Cardinality(Q) = Cardinality(P) + 1
    BY <1>11, <2>1, FS_AddElement
  <2> QED
    BY <1>11, <1>12, <1>13, <1>15, <2>2
<1>16. CASE old /\ ~new
  <2>1. Q = P \ {c} /\ c \in P
    BY <1>5, <1>7, <1>10, <1>14, <1>16
  <2>2. Cardinality(Q) = Cardinality(P) - 1
    BY <1>11, <2>1, FS_RemoveElement
  <2> QED
    BY <1>11, <1>12, <1>13, <1>16, <2>2
<1>17. CASE old <=> new
  <2>1. Q = P
    BY <1>5, <1>7, <1>10, <1>14, <1>17
  <2> QED
    BY <1>11, <1>12, <1>13, <1>17, <2>1
<1> QED
  BY <1>15, <1>16, <1>17

\* The rows a resize keeps paint what they painted of its frame (updateCanvasConfig).
LEMMA UpdateCounts ==
  ASSUME NEW d, NEW confirmed, UpdateCanvasConfig(d, confirmed)
  PROVE  CountsPainted'
<1>1. /\ rows' = {v \in rows : In(written[v].cell, d)} /\ written' = written
      /\ cellCount' = Cardinality(Painted(rows) \cap Frame(d))
  BY DEF UpdateCanvasConfig, redisVars
<1>2. ASSUME NEW c \in AllCells, In(c, d)
      PROVE  ColorOn(c, rows)' = ColorOn(c, rows)
  <2>1. On(c, rows)' = On(c, rows)
    BY <1>1, <1>2 DEF On
  <2> QED
    BY <1>1, <2>1 DEF ColorOn
<1>3. ASSUME NEW c \in AllCells, ~In(c, d)
      PROVE  ColorOn(c, rows)' = 0
  <2>1. On(c, rows)' = {}
    BY <1>1, <1>3 DEF On
  <2> QED
    BY <2>1 DEF ColorOn
<1>4. Painted(rows)' = {c \in AllCells : ColorOn(c, rows)' > 0}
  BY DEF Painted
<1>5. Painted(rows)' = Painted(rows) \cap Frame(d)
  BY <1>2, <1>3, <1>4 DEF Painted, Frame
<1> QED
  BY <1>1, <1>5 DEF CountsPainted

\* Every step keeps the count.
LEMMA CountStep ==
  ASSUME GeoTypeOK, CountsPainted, [GeoNext]_geoVars
  PROVE  CountsPainted'
<1> USE DEF convexVars, redisVars, gatewayVars, workerVars
<1>1. ASSUME UNCHANGED <<rows, cellCount>>,
             \/ UNCHANGED written \/ \E p \in Pixels : written' = Append(written, p)
      PROVE  CountsPainted'
  BY <1>1, RowsKeepColors DEF CountsPainted
<1>2. CASE \E d \in Dims, confirmed \in BOOLEAN : UpdateCanvasConfig(d, confirmed)
  BY <1>2, UpdateCounts
<1>3. CASE Ingest
  BY <1>3, IngestCounts
<1>4. CASE UNCHANGED geoVars \/ ClockTick \/ Tick \/ \E p \in posts : LosePost(p)
  <2>1. UNCHANGED <<rows, cellCount, written>>
    BY <1>4 DEF geoVars, ClockTick, Tick, LosePost
  <2> QED
    BY <1>1, <2>1
<1>5. CASE FetchReturns \/ FetchFails
  <2>1. PICK d : Resume(d) /\ UNCHANGED <<rows, cellCount>>
    BY <1>5 DEF FetchReturns, FetchFails
  <2>2. UNCHANGED written \/ \E p \in fetch.pixels : written' = Append(written, p)
    BY <2>1 DEF Resume, Written
  <2>3. fetch.pixels \subseteq Pixels
    BY DEF GeoTypeOK
  <2> QED
    BY <1>1, <2>1, <2>2, <2>3
<1>6. CASE \E p \in Pixels : Place(p)
  BY <1>1, <1>6 DEF Place, Written
<1>7. CASE \/ \E c \in Conns : Connect(c) \/ Disconnect(c)
           \/ FetchReads \/ \E p \in Pixels : PlaceOutside(p)
           \/ \E p \in posts : StartResize(p)
           \/ \E j \in jobs : FinishResize(j)
  <2>1. UNCHANGED <<rows, cellCount, written>>
    BY <1>7 DEF Connect, Disconnect, FetchReads, PlaceOutside, StartResize, FinishResize
  <2> QED
    BY <1>1, <2>1
<1> QED
  BY <1>2, <1>3, <1>4, <1>5, <1>6, <1>7 DEF GeoNext, Convex, Gateway, Worker

\* The count the lists of canvases show is exact, whatever the order of flushes and
\* resizes and whatever races they met (applyFlush, updateCanvasConfig).
THEOREM CountIsExact == GeoSpec => []CountsPainted
<1>1. GeoInit => CountsPainted
  <2> SUFFICES ASSUME GeoInit
               PROVE  CountsPainted
    OBVIOUS
  <2>1. rows = {} /\ cellCount = 0
    BY DEF GeoInit
  <2>2. Painted(rows) = {}
    BY <2>1 DEF Painted, ColorOn, On
  <2> QED
    BY <2>1, <2>2, FS_EmptySet DEF CountsPainted
<1>2. GeoTypeOK /\ CountsPainted /\ [GeoNext]_geoVars => CountsPainted'
  BY CountStep
<1> QED
  BY <1>1, <1>2, GeometryTypes, PTL DEF GeoSpec
=============================================================================
