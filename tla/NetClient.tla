----------------------------- MODULE NetClient -----------------------------
(* The web client's transport (net.ts) and the effects that drive it: the     *)
(* mount, the auth flip, the browser's online event.  connect() waits for a   *)
(* ticket before it opens its socket, and nothing ties the wait to what has   *)
(* happened meanwhile, so two connects may each open one; the last to resolve *)
(* owns `socket`, while every open one keeps feeding the page.                *)
EXTENDS Naturals, FiniteSets, TLC

CONSTANTS
    None,           \* no socket, no gauge, nothing
    MaxSockets      \* bound: sockets open at once

VARIABLES
    convexAuthed,   \* useConvexAuth().isAuthenticated
    begun,          \* wsConnectedRef: the first connect() has been called
    fetches,        \* connect() calls awaiting a token
    sockets,        \* id -> [as: "user" | "anon", phase: "opening"|"open"|"ready"]
    socket,         \* the id this.socket holds, or None
    timers,         \* backoff timers of onClose
    everConnected,
    status,         \* the last onStatus
    tokenFailed     \* a token could not be had since the last flip (history)

netVars == <<convexAuthed, begun, fetches, sockets, socket, timers, everConnected,
             status, tokenFailed>>

Ready(s) == s \in DOMAIN sockets /\ sockets[s].phase = "ready"
CanSend == socket \in DOMAIN sockets /\ sockets[socket].phase # "opening"
Identified == socket \in DOMAIN sockets /\ sockets[socket].as = "user"
Without(f, s) == [x \in DOMAIN f \ {s} |-> f[x]]
FreeId(socks) ==
    LET free == 1..MaxSockets \ DOMAIN socks
    IN  IF free = {} THEN None ELSE CHOOSE i \in free : \A j \in free : i <= j
Opened(socks, as) == (FreeId(socks) :> [as |-> as, phase |-> "opening"]) @@ socks

NetInit(authed) ==
    /\ convexAuthed = authed /\ begun = FALSE /\ fetches = 0 /\ sockets = <<>>
    /\ socket = None /\ timers = 0 /\ everConnected = FALSE /\ status = "connecting"
    /\ tokenFailed = FALSE

(* connect(): without a confirmed identity the ticket is null at once, else   *)
(* the token has to be fetched (makeWsTicketResolver).                        *)
Connect(authed, socks, held) ==
    /\ FreeId(socks) # None
    /\ status' = "connecting"
    /\ IF authed THEN fetches' = fetches + 1 /\ sockets' = socks /\ socket' = held
       ELSE /\ sockets' = Opened(socks, "anon")
            /\ socket' = FreeId(socks)
            /\ UNCHANGED fetches

(* reconnect(): drop the current socket, its close handler first.             *)
Reconnect(authed) == Connect(authed, Without(sockets, socket), None)

(* The mount effect; it leaves the first connect to the auth flip when a      *)
(* session exists that Convex has not confirmed yet.                          *)
Mount(session) ==
    /\ ~begun /\ (convexAuthed \/ ~session)
    /\ begun' = TRUE
    /\ Connect(convexAuthed, sockets, socket)
    /\ UNCHANGED <<convexAuthed, timers, everConnected, tokenFailed>>

(* (mutated) the flip is left to the next reconnect.                          *)
AuthFlipKeepsSocket ==
    /\ convexAuthed' = ~convexAuthed
    /\ begun' = TRUE
    /\ tokenFailed' = FALSE
    /\ IF begun THEN UNCHANGED <<sockets, socket, fetches, status>>
       ELSE Connect(~convexAuthed, sockets, socket)
    /\ UNCHANGED <<timers, everConnected>>

(* The auth-flip effect: the deferred first connect, or a reconnect.          *)
AuthFlip ==
    /\ convexAuthed' = ~convexAuthed
    /\ begun' = TRUE
    /\ tokenFailed' = FALSE
    /\ IF begun THEN Reconnect(~convexAuthed) ELSE Connect(~convexAuthed, sockets, socket)
    /\ UNCHANGED <<timers, everConnected>>

(* fetchConvexToken resolves - with null when it fails, which connects        *)
(* anonymously - and the call goes on to open its socket.                     *)
TicketArrives(as) ==
    /\ fetches > 0 /\ FreeId(sockets) # None
    /\ fetches' = fetches - 1
    /\ sockets' = Opened(sockets, as)
    /\ socket' = FreeId(sockets)
    /\ tokenFailed' = (tokenFailed \/ as = "anon")
    /\ UNCHANGED <<convexAuthed, begun, timers, everConnected, status>>

SocketOpens(s) ==
    /\ s \in DOMAIN sockets /\ sockets[s].phase = "opening"
    /\ sockets' = [sockets EXCEPT ![s].phase = "open"]
    /\ status' = "open"
    /\ UNCHANGED <<convexAuthed, begun, fetches, socket, timers, everConnected, tokenFailed>>

(* onWelcome; on any but the first the caller replays what is un-acked.       *)
Welcome(s) ==
    /\ s \in DOMAIN sockets /\ sockets[s].phase = "open"
    /\ sockets' = [sockets EXCEPT ![s].phase = "ready"]
    /\ everConnected' = TRUE
    /\ UNCHANGED <<convexAuthed, begun, fetches, socket, timers, status, tokenFailed>>

(* onClose, of whichever socket: the client forgets the one it holds.         *)
SocketDrops(s) ==
    /\ s \in DOMAIN sockets
    /\ sockets' = Without(sockets, s)
    /\ socket' = None
    /\ status' = "closed"
    /\ timers' = timers + 1
    /\ UNCHANGED <<convexAuthed, begun, fetches, everConnected, tokenFailed>>

BackoffEnds ==
    /\ timers > 0
    /\ timers' = timers - 1
    /\ Connect(convexAuthed, sockets, socket)
    /\ UNCHANGED <<convexAuthed, begun, everConnected, tokenFailed>>

(* window "offline" only changes what is shown; "online" reconnects.          *)
Offline ==
    /\ status # "closed"
    /\ status' = "closed"
    /\ UNCHANGED <<convexAuthed, begun, fetches, sockets, socket, timers, everConnected,
                   tokenFailed>>
Online ==
    /\ begun
    /\ Reconnect(convexAuthed)
    /\ UNCHANGED <<convexAuthed, begun, timers, everConnected, tokenFailed>>
=============================================================================
