-------------------------------- MODULE Keys --------------------------------
(***************************************************************************)
(* What the services agree on with Redis (packages/redis-scripts): the     *)
(* names of the keys and channels, the order of the arguments of each      *)
(* script and the shape of its reply.                                      *)
(*                                                                         *)
(* A name is the sequence of its parts, joined by ":" in the code.  A      *)
(* canvas id and a user id are one part each (isValidCanvasId; the ids of  *)
(* Better Auth), an op id is any number of parts.                          *)
(***************************************************************************)
EXTENDS Integers, Sequences

DefaultCanvasId == "default"

\* An optional field of the caller's record.
Opt(o, field, default) == IF field \in DOMAIN o THEN o[field] ELSE default
-----------------------------------------------------------------------------
CanvasKeys(c) ==
  [part \in {"pixels", "meta", "stream", "frozen", "bans", "rebuiltAt"} |-> <<"canvas", c, part>>]

UserOpKey(c, u, op) == <<"canvas", c, "op", u>> \o op
GaugeKey(c, u) == <<"canvas", c, "gauge", u>>
CanvasDeltaChannel(c) == <<"canvas", c, "deltas">>
FlushRequestChannel(c) == <<"canvas", c, "flush", "request">>

\* The canvas of a channel, as a set: none when the name has another form.
ParseCanvasDeltaChannel(name) ==
  {name[i] : i \in {j \in DOMAIN name : j = 2 /\ name = CanvasDeltaChannel(name[2]) /\ name[2] # ""}}

\* "prefix:*".
Under(prefix, name) == Len(name) > Len(prefix) /\ SubSeq(name, 1, Len(prefix)) = prefix

CanvasUserOpPattern(c, u, name) == Under(<<"canvas", c, "op", u>>, name)
CanvasNamespacePattern(c, name) == Under(<<"canvas", c>>, name)

\* purgeUser: the names that are left of a store.  A canvas in both lists is swept whole.
Purged(store, u, members, owned) ==
  {name \in store :
    /\ \A c \in members \ owned : name # GaugeKey(c, u) /\ ~CanvasUserOpPattern(c, u, name)
    /\ \A c \in owned : ~CanvasNamespacePattern(c, name)}
-----------------------------------------------------------------------------
(***************************************************************************)
(* The scripts.  What a script reads is KEYS and ARGV by position; what    *)
(* its caller sends is built from a record.                                *)
(***************************************************************************)
Gauge(o) == <<o.nowMs, o.gauge.refillIntervalMs, o.gauge.refillAmount, o.gauge.gaugeMax>>

\* An op without an id has no claim: an empty name, which place.lua does not touch.
PlaceArgs(o) ==
  LET c  == Opt(o, "canvasId", DefaultCanvasId)
      k  == CanvasKeys(c)
      op == Opt(o, "opId", <<>>)
  IN  [keys |-> <<k.pixels, GaugeKey(c, o.userId), k.meta, k.frozen, k.stream, k.bans,
                  IF op = <<>> THEN <<>> ELSE UserOpKey(c, o.userId, op)>>,
       argv |-> <<o.x, o.y, o.width, o.height, o.color, o.paletteSize>> \o Gauge(o)
                \o <<o.gauge.gaugeTtlMs, Opt(o, "deltaChannel", CanvasDeltaChannel(c)), o.userId,
                     op, Opt(o, "opTtlMs", 0), Opt(o, "streamMaxLen", 0)>>]

PlaceReads(a) ==
  [pixels |-> a.keys[1], gauge |-> a.keys[2], meta |-> a.keys[3], frozen |-> a.keys[4],
   stream |-> a.keys[5], bans |-> a.keys[6], claim |-> a.keys[7],
   x |-> a.argv[1], y |-> a.argv[2], width |-> a.argv[3], height |-> a.argv[4],
   color |-> a.argv[5], paletteSize |-> a.argv[6], now |-> a.argv[7], interval |-> a.argv[8],
   amount |-> a.argv[9], max |-> a.argv[10], gaugeTtl |-> a.argv[11], deltaChan |-> a.argv[12],
   placerId |-> a.argv[13], opId |-> a.argv[14], opTtl |-> a.argv[15],
   streamMaxLen |-> a.argv[16]]

\* The condition of the idempotency claim.
Claims(read) == read.opId # <<>> /\ read.claim # <<>>

PeekArgs(o) ==
  [keys |-> <<GaugeKey(Opt(o, "canvasId", DefaultCanvasId), o.userId)>>, argv |-> Gauge(o)]

PeekReads(a) ==
  [gauge |-> a.keys[1], now |-> a.argv[1], interval |-> a.argv[2], amount |-> a.argv[3],
   max |-> a.argv[4]]

GrantArgs(o) ==
  [keys |-> <<GaugeKey(Opt(o, "canvasId", DefaultCanvasId), o.userId)>>,
   argv |-> Gauge(o) \o <<o.grant, o.gauge.gaugeTtlMs>>]

GrantReads(a) ==
  [gauge |-> a.keys[1], now |-> a.argv[1], interval |-> a.argv[2], amount |-> a.argv[3],
   max |-> a.argv[4], grant |-> a.argv[5], gaugeTtl |-> a.argv[6]]

\* The cells follow one another, three arguments each.
Flattened(cells) ==
  [i \in 1..(3 * Len(cells)) |->
    LET cell == cells[((i - 1) \div 3) + 1] IN <<cell.x, cell.y, cell.color>>[((i - 1) % 3) + 1]]

ModerateArgs(o) ==
  LET c == Opt(o, "canvasId", DefaultCanvasId)
      k == CanvasKeys(c)
  IN  [keys |-> <<k.pixels, k.meta, IF Opt(o, "streamKey", TRUE) THEN k.stream ELSE <<>>>>,
       argv |-> <<o.width, o.height, o.paletteSize, Opt(o, "deltaChannel", CanvasDeltaChannel(c)),
                  Opt(o, "actorUserId", ""), o.nowMs, Len(o.cells)>> \o Flattened(o.cells)]

ModerateReads(a) ==
  [pixels |-> a.keys[1], meta |-> a.keys[2], stream |-> a.keys[3],
   width |-> a.argv[1], height |-> a.argv[2], paletteSize |-> a.argv[3], deltaChan |-> a.argv[4],
   userId |-> a.argv[5], ts |-> a.argv[6],
   cells |-> [n \in 1..a.argv[7] |->
     LET base == 8 + (n - 1) * 3
     IN  [x |-> a.argv[base], y |-> a.argv[base + 1], color |-> a.argv[base + 2]]]]

ResizeGridArgs(o) ==
  [keys |-> <<CanvasKeys(Opt(o, "canvasId", DefaultCanvasId)).pixels>>,
   argv |-> <<o.oldWidth, o.oldHeight, o.newWidth, o.newHeight>>]

ResizeGridReads(a) ==
  [pixels |-> a.keys[1], oldW |-> a.argv[1], oldH |-> a.argv[2], newW |-> a.argv[3],
   newH |-> a.argv[4]]

ParsePlaceResult(raw) == [status |-> raw[1], charges |-> raw[2], max |-> raw[3], cooldownUntil |-> raw[4]]
ParsePeekResult(raw) == [charges |-> raw[1], max |-> raw[2], cooldownUntil |-> raw[3]]
ParseModerateResult(raw) == [applied |-> raw[1], lastSeq |-> raw[2]]
-----------------------------------------------------------------------------
(***************************************************************************)
(* The durable stream: an entry is a flat list of fields and values.       *)
(***************************************************************************)
StreamFields == <<"x", "y", "color", "version", "userId", "ts">>

\* XADD of place.lua and moderate.lua.
Entry(r) == <<"x", r.x, "y", r.y, "color", r.color, "version", r.version,
              "userId", r.userId, "ts", r.ts>>

\* The value of a field is the last one given for it; a missing one is NaN, or nobody.
FieldAt(fields, name) ==
  {i \in DOMAIN fields : i % 2 = 1 /\ i < Len(fields) /\ fields[i] = name}

ParseStreamRecord(fields) ==
  [name \in {StreamFields[i] : i \in DOMAIN StreamFields} |->
    LET at == FieldAt(fields, name)
    IN  IF at = {} THEN IF name = "userId" THEN "" ELSE "NaN"
        ELSE fields[1 + CHOOSE i \in at : \A j \in at : j <= i]]
=============================================================================
