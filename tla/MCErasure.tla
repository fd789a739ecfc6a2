----------------------------- MODULE MCErasure -----------------------------
EXTENDS Erasure, Keys, TLC

MCExact == [u \in Users |-> IF u = "u1" THEN "ann" ELSE "bob"]

(* Nobody yet: two sign-ups, slugs and names that collide.                    *)
Empty(budget0) ==
    [profile |-> [u \in Users |-> {}], canvases |-> <<>>, conn |-> {}, rows |-> {},
     budget |-> budget0]

(* u1 and u2 own a canvas each; u1 has placed on both.                        *)
Peopled(budget0) ==
    [profile |-> [u \in Users |-> {[login |-> MCExact[u]]}],
     canvases |-> <<NewCanvas("u1", SlugOf(PersonalBase("ann"), 1), TRUE),
                    NewCanvas("u2", SlugOf(PersonalBase("bob"), 1), TRUE)>>,
     conn |-> {"u1"},
     rows |-> {[canvas |-> 1, version |-> 1, user |-> "u1"],
               [canvas |-> 2, version |-> 1, user |-> "u1"],
               [canvas |-> 2, version |-> 2, user |-> "u2"]},
     budget |-> budget0]

(* The same, but u1 has placed nowhere.                                       *)
Newcomer(budget0) ==
    [Peopled(budget0) EXCEPT !.rows = {[canvas |-> 2, version |-> 1, user |-> "u2"]}]

MCPopulations ==
    {Empty([signUp |-> 2, create |-> 1, activate |-> 1, archive |-> 1]),
     Empty([signUp |-> 1, create |-> 2, activate |-> 1, archive |-> 1]),
     Peopled([erase |-> 2, die |-> 1, place |-> 2]),
     Newcomer([erase |-> 2, die |-> 1, place |-> 1]),
     Peopled([erase |-> 1, place |-> 1, moderate |-> 2, sweepFails |-> 1]),
     Peopled([erase |-> 1, die |-> 1, twitch |-> 2, helixFails |-> 1, cron |-> 1]),
     Peopled([erase |-> 1, place |-> 1, connect |-> 1, boot |-> 1, create |-> 1])}

(* The names in Redis, for ids that are also parts of names, and op ids of    *)
(* one part and of two.                                                       *)
KeyCanvases == {"a", "op"}
KeyUsers == {"u", "gauge"}
KeyOps == {<<"x">>, <<"gauge", "u">>, <<"s", "1">>}

Personal(c, u) == {GaugeKey(c, u)} \cup {UserOpKey(c, u, op) : op \in KeyOps}
Shared(c) == {CanvasKeys(c)[part] : part \in DOMAIN CanvasKeys(c)}
               \cup {CanvasDeltaChannel(c), FlushRequestChannel(c)}
NamesOf(c) == Shared(c) \cup UNION {Personal(c, u) : u \in KeyUsers}
Names == UNION {NamesOf(c) : c \in KeyCanvases}

(* No two things have one name, whatever the ids (canvasKeys, gaugeKey,       *)
(* userOpKey).                                                                *)
ASSUME NamesAreDistinct ==
    Cardinality(Names) = Cardinality(KeyCanvases) * (8 + Cardinality(KeyUsers) * 4)

(* A purge takes the viewer's own keys on the canvases they played on, all    *)
(* the keys of the canvases they own, and nothing else (purgeUser).           *)
ASSUME SweepsAreExact ==
    \A u \in KeyUsers, members \in SUBSET KeyCanvases, owned \in SUBSET KeyCanvases :
      Purged(Names, u, members, owned) =
        Names \ (UNION {NamesOf(c) : c \in owned} \cup UNION {Personal(c, u) : c \in members})

(* A delta is fanned out to the viewers of the canvas it was published for,   *)
(* and no other message is taken for a delta (parseCanvasDeltaChannel).       *)
ASSUME ChannelsNameTheirCanvas ==
    \A name \in Names : ParseCanvasDeltaChannel(name) = {c \in KeyCanvases : name = CanvasDeltaChannel(c)}

(* Every script reads under a name what its caller sent under that name       *)
(* ("KEYS/ARGV order must match the Lua headers"), for any number of cells;   *)
(* place.lua claims an op exactly when the client named it.                   *)
SentGauge == [refillIntervalMs |-> "interval", refillAmount |-> "amount", gaugeMax |-> "max",
              gaugeTtlMs |-> "gaugeTtl"]
Sent == [nowMs |-> "now", gauge |-> SentGauge, userId |-> "u", canvasId |-> "a"]
ReadGauge == [interval |-> "interval", amount |-> "amount", max |-> "max", now |-> "now",
              gauge |-> GaugeKey("a", "u")]
SentCells == UNION {[1..n -> [x : {1, 2}, y : {1, 2}, color : {3}]] : n \in 0..3}

Reads(read, sent) == \A f \in DOMAIN read : read[f] = sent[f]

ASSUME ScriptsReadWhatIsSent ==
    /\ PeekReads(PeekArgs(Sent)) = ReadGauge
    /\ GrantReads(GrantArgs(Sent @@ [grant |-> "grant"])) =
         ReadGauge @@ [grant |-> "grant", gaugeTtl |-> "gaugeTtl"]
    /\ \A op \in KeyOps \cup {<<>>} :
         LET read == PlaceReads(PlaceArgs(Sent @@ [x |-> "x", y |-> "y", width |-> "w",
                       height |-> "h", color |-> "ink", paletteSize |-> "p", opId |-> op,
                       opTtlMs |-> "ttl", streamMaxLen |-> "len"]))
         IN  /\ Reads(read, ReadGauge @@ CanvasKeys("a") @@
                 [x |-> "x", y |-> "y", width |-> "w", height |-> "h", color |-> "ink",
                  paletteSize |-> "p", gaugeTtl |-> "gaugeTtl", placerId |-> "u",
                  deltaChan |-> CanvasDeltaChannel("a"), opId |-> op, opTtl |-> "ttl",
                  streamMaxLen |-> "len", claim |-> read.claim])
             /\ IF op = <<>> THEN ~Claims(read) ELSE Claims(read) /\ read.claim = UserOpKey("a", "u", op)
    /\ \A cells \in SentCells :
         LET read == ModerateReads(ModerateArgs([width |-> "w", height |-> "h", paletteSize |-> "p",
                       canvasId |-> "a", nowMs |-> "ts", cells |-> cells]))
         IN  read.cells = cells /\ read.width = "w" /\ read.height = "h" /\ read.userId = ""
               /\ read.ts = "ts" /\ read.stream = CanvasKeys("a").stream
    /\ ResizeGridReads(ResizeGridArgs([oldWidth |-> "w", oldHeight |-> "h", newWidth |-> "v",
                                       newHeight |-> "k", canvasId |-> "a"])) =
         [pixels |-> CanvasKeys("a").pixels, oldW |-> "w", oldH |-> "h", newW |-> "v", newH |-> "k"]

(* An entry of the stream is read as it was written, and one cut short shows  *)
(* it: what is missing is not a number (parseStreamRecord).                   *)
ASSUME StreamRecordsSurvive ==
    LET r == [x |-> 1, y |-> 2, color |-> 3, version |-> 4, userId |-> "u", ts |-> 5]
        Field(n) == StreamFields[n]
    IN  \A n \in 0..12 :
          LET read == ParseStreamRecord(SubSeq(Entry(r), 1, n))
          IN  \A k \in 1..6 :
                IF 2 * k <= n THEN read[Field(k)] = r[Field(k)]
                ELSE read[Field(k)] = IF Field(k) = "userId" THEN "" ELSE "NaN"

LateExact == [u \in Users |-> "ann"]
LatePopulations ==
    {Empty([signUp |-> 1, connect |-> 1, place |-> 1])}
=============================================================================
