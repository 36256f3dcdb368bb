---------------------------- MODULE BridgeClient ----------------------------
(***************************************************************************)
(* src/bridge.ts and src/websocket.ts: how the page stays attached to the  *)
(* bridge.  A WebSocket that reconnects by itself, an EventSource that the *)
(* page opens when the socket fails and reopens when it errs, the health   *)
(* poll that retries the socket, the snapshot replay, and the demo mode.   *)
(*                                                                         *)
(* Handlers run to completion, but a status change of the socket calls the *)
(* page back in the middle of a call: the synchronous calls are operators  *)
(* on the client's record c and compose as the code composes them.  What   *)
(* is awaited (discovery, health, snapshot) is a request in flight.        *)
(* Delays are left open: a timer may fire at any time.                     *)
(***************************************************************************)
EXTENDS Naturals, FiniteSets

CONSTANTS
    MaxFlaps,       \* times the server goes down or comes back
    MaxFaults,      \* requests that fail although the server is up
    MaxHealth,      \* health requests in flight at once
    MaxTimers       \* pending SSE reconnection timers

Streams == 1..3
Timers == 1..MaxTimers

BridgeClientAssumption ==
    /\ MaxFlaps \in Nat
    /\ MaxFaults \in Nat
    /\ MaxHealth \in Nat \ {0}
    /\ MaxTimers \in Nat \ {0}

VARIABLES
    up,             \* is the server up?
    auth,           \* does it accept the page's token on the WebSocket?
    c,              \* the BridgeEvents object with its RepoCivWebSocket
    discovering,    \* _discoverWs awaits GET /ws
    health,         \* GET /health in flight
    snapshot,       \* GET of the session snapshots in flight
    missed,         \* has an event been lost since the last snapshot?
    copies,         \* most copies of one event the page handled
    flaps, faults

vars == <<up, auth, c, discovering, health, snapshot, missed, copies, flaps, faults>>

Raw == {"none", "connecting", "open", "broken"}
Failing(r) == r = "broken" \/ (r = "connecting" /\ ~up)

TypeOK ==
    /\ up \in BOOLEAN /\ auth \in BOOLEAN /\ discovering \in BOOLEAN
    /\ snapshot \in BOOLEAN /\ missed \in BOOLEAN
    /\ health \in 0..MaxHealth
    /\ c \in [wsEnabled : BOOLEAN, wsConnected : BOOLEAN,
              raw : Raw, closed : BOOLEAN, retry : BOOLEAN,
              status : {"none", "connecting", "connected", "disconnected", "auth_failed"},
              sse : {0} \cup Streams, stream : [Streams -> Raw],
              timers : SUBSET Timers, handle : {0} \cup Timers,
              online : BOOLEAN, offlineSince : {"null", "recent", "long"},
              demo : BOOLEAN, stopped : BOOLEAN, sync : BOOLEAN]
    /\ c.handle # 0 => c.handle \in c.timers
    /\ copies \in Nat /\ flaps \in 0..MaxFlaps /\ faults \in 0..MaxFaults

Init ==
    /\ up \in BOOLEAN
    /\ auth \in BOOLEAN
    /\ c = [wsEnabled |-> TRUE, wsConnected |-> FALSE,
            raw |-> "none", closed |-> FALSE, retry |-> FALSE, status |-> "none",
            sse |-> 0, stream |-> [s \in Streams |-> "none"],
            timers |-> {}, handle |-> 0,
            online |-> FALSE, offlineSince |-> "null", demo |-> FALSE,
            stopped |-> FALSE, sync |-> FALSE]
    /\ discovering = TRUE
    /\ health = 1
    /\ snapshot = FALSE /\ missed = FALSE
    /\ copies = 0 /\ flaps = 0 /\ faults = 0

-----------------------------------------------------------------------------
(* Synchronous calls.  sync asks for a snapshot replay.                    *)
onBridgeOnline(b) == [b EXCEPT !.online = TRUE, !.offlineSince = "null", !.demo = FALSE]

onBridgeOffline(b) ==
    LET since == IF b.online THEN "recent" ELSE b.offlineSince
    IN [b EXCEPT !.online = FALSE, !.offlineSince = since,
                 !.demo = @ \/ since = "long"]

OpenStream(b) ==
    LET s == CHOOSE s \in Streams : b.stream[s] = "none"
    IN [b EXCEPT !.sse = s, !.stream[s] = "connecting"]

CloseStream(b) ==
    IF b.sse = 0 THEN b ELSE [b EXCEPT !.stream[b.sse] = "none", !.sse = 0]

\* Slip of connectSSE: an open stream does not stop another.
OpenAnother(b) == IF b.stopped THEN b ELSE OpenStream(b)

connectSSE(b) == IF b.stopped THEN b ELSE OpenStream(CloseStream(b))

OnStatus(b, status) ==
    CASE status = "connected" ->
           onBridgeOnline([b EXCEPT !.wsConnected = TRUE, !.sync = TRUE])
      [] status \in {"disconnected", "auth_failed"} ->
           IF b.wsEnabled
           THEN connectSSE([b EXCEPT !.wsConnected = FALSE, !.wsEnabled = FALSE])
           ELSE [b EXCEPT !.wsConnected = FALSE]
      [] OTHER -> b

SetStatus(b, status) ==
    IF b.status = status THEN b ELSE OnStatus([b EXCEPT !.status = status], status)

CloseWs(b) ==
    IF b.status = "none" THEN b
    ELSE SetStatus([b EXCEPT !.closed = TRUE, !.retry = FALSE, !.raw = "none"], "disconnected")

\* The old socket is closed first: its status handler is still this page's.
connectWs(b) ==
    IF ~b.wsEnabled THEN b
    ELSE [CloseWs(b) EXCEPT !.raw = "connecting", !.status = "connecting",
                            !.closed = FALSE, !.retry = FALSE]

-----------------------------------------------------------------------------
(* The WebSocket.                                                          *)
DiscoverWs ==
    /\ discovering = TRUE
    /\ discovering' = FALSE
    /\ c' = connectWs(c)
    /\ UNCHANGED <<up, auth, health, snapshot, missed, copies, flaps, faults>>

WsOpens ==
    /\ up /\ c.raw = "connecting"
    /\ c' = [c EXCEPT !.raw = "open"]
    /\ UNCHANGED <<up, auth, discovering, health, snapshot, missed, copies, flaps, faults>>

\* auth_ok completes the handshake; auth_error closes for good.
WsAnswers ==
    /\ up /\ c.raw = "open" /\ c.status # "connected"
    /\ c' = IF auth THEN SetStatus(c, "connected") ELSE CloseWs(SetStatus(c, "auth_failed"))
    /\ UNCHANGED <<up, auth, discovering, health, snapshot, missed, copies, flaps, faults>>

WsCloses ==
    /\ Failing(c.raw)
    /\ c' = [SetStatus([c EXCEPT !.raw = "none"], "disconnected") EXCEPT !.retry = TRUE]
    /\ UNCHANGED <<up, auth, discovering, health, snapshot, missed, copies, flaps, faults>>

WsRetries ==
    /\ c.retry
    /\ c' = [c EXCEPT !.retry = FALSE, !.raw = "connecting"]
    /\ UNCHANGED <<up, auth, discovering, health, snapshot, missed, copies, flaps, faults>>

-----------------------------------------------------------------------------
(* The EventSource.                                                        *)
SseOpens(s) ==
    /\ up /\ c.stream[s] = "connecting"
    /\ c' = [c EXCEPT !.stream[s] = "open", !.sync = TRUE]
    /\ UNCHANGED <<up, auth, discovering, health, snapshot, missed, copies, flaps, faults>>

OnError(b, s, t) ==
    LET d == [b EXCEPT !.stream[s] = "none", !.sse = IF @ = s THEN 0 ELSE @]
    IN IF b.stopped THEN d ELSE [d EXCEPT !.timers = @ \cup {t}, !.handle = t]

SseErrs(s) ==
    /\ Failing(c.stream[s])
    /\ \E t \in Timers \ c.timers : c' = OnError(c, s, t)
    /\ UNCHANGED <<up, auth, discovering, health, snapshot, missed, copies, flaps, faults>>

SseRetries(t) ==
    /\ t \in c.timers
    /\ c' = connectSSE([c EXCEPT !.timers = @ \ {t}, !.handle = 0])
    /\ UNCHANGED <<up, auth, discovering, health, snapshot, missed, copies, flaps, faults>>

-----------------------------------------------------------------------------
(* The polls and their answers.                                            *)
RequestHealth ==
    /\ health < MaxHealth
    /\ health' = health + 1
    /\ c' = c

\* Slip of CheckHealth: a connected socket is not looked at, the indicator stays offline.
CheckUnconnected ==
    /\ ~c.stopped /\ ~c.wsConnected
    /\ RequestHealth
    /\ UNCHANGED <<up, auth, discovering, snapshot, missed, copies, flaps, faults>>

CheckHealth ==
    /\ ~c.stopped
    /\ IF c.wsConnected
       THEN /\ ~c.online
            /\ c' = onBridgeOnline(c)
            /\ health' = health
       ELSE RequestHealth
    /\ UNCHANGED <<up, auth, discovering, snapshot, missed, copies, flaps, faults>>

Recovered(b) ==
    onBridgeOnline(IF ~b.wsEnabled /\ ~b.stopped THEN connectWs([b EXCEPT !.wsEnabled = TRUE])
                   ELSE b)

HealthAnswers ==
    /\ health > 0
    /\ health' = health - 1
    /\ \/ up /\ c' = Recovered(c) /\ UNCHANGED faults
       \/ ~up /\ c' = onBridgeOffline(c) /\ UNCHANGED faults
       \/ up /\ faults < MaxFaults /\ faults' = faults + 1 /\ c' = onBridgeOffline(c)
    /\ UNCHANGED <<up, auth, discovering, snapshot, missed, copies, flaps>>

\* The replay runs on every (re)connection and every ten seconds.
SyncDue == ~c.stopped
Sync ==
    /\ ~snapshot /\ SyncDue
    /\ snapshot' = TRUE
    /\ c' = [c EXCEPT !.sync = FALSE]
    /\ UNCHANGED <<up, auth, discovering, health, missed, copies, flaps, faults>>

SnapshotAnswers ==
    /\ snapshot
    /\ snapshot' = FALSE
    /\ \/ up /\ missed' = (missed /\ c.stopped) /\ UNCHANGED faults
       \/ ~up /\ UNCHANGED <<missed, faults>>
       \/ up /\ faults < MaxFaults /\ faults' = faults + 1 /\ UNCHANGED missed
    /\ UNCHANGED <<up, auth, c, discovering, health, copies, flaps>>

\* OFFLINE_DEMO_THRESHOLD_MS passes.
LongOffline ==
    /\ c.offlineSince = "recent"
    /\ c' = [c EXCEPT !.offlineSince = "long"]
    /\ UNCHANGED <<up, auth, discovering, health, snapshot, missed, copies, flaps, faults>>

Stop ==
    /\ ~c.stopped
    /\ c' = LET b == CloseWs([c EXCEPT !.stopped = TRUE, !.timers = @ \ {c.handle}, !.handle = 0])
            IN [CloseStream(b) EXCEPT !.status = "none", !.wsConnected = FALSE, !.demo = FALSE]
    /\ UNCHANGED <<up, auth, discovering, health, snapshot, missed, copies, flaps, faults>>

-----------------------------------------------------------------------------
(* The server: external to these files.                                    *)
WsLive == c.raw = "open" /\ c.status = "connected"
SseLive == {s \in Streams : c.stream[s] = "open"}

Break(r) == IF r = "none" THEN r ELSE "broken"

Flap ==
    /\ flaps < MaxFlaps
    /\ flaps' = flaps + 1
    /\ up' = ~up
    /\ c' = IF up THEN [c EXCEPT !.raw = Break(@), !.stream = [s \in Streams |-> Break(@[s])]]
            ELSE c
    /\ UNCHANGED <<auth, discovering, health, snapshot, missed, copies, faults>>

\* Every client of the bridge gets every event, over either transport.
Emit ==
    /\ up
    /\ LET n == Cardinality(SseLive) + IF WsLive THEN 1 ELSE 0
       IN /\ copies' = IF n > copies THEN n ELSE copies
          /\ missed' = (missed \/ (n = 0 /\ ~c.stopped))
    /\ UNCHANGED <<up, auth, c, discovering, health, snapshot, flaps, faults>>

Socket == WsOpens \/ WsAnswers \/ WsCloses \/ WsRetries
Stream == (\E s \in Streams : SseOpens(s) \/ SseErrs(s)) \/ \E t \in Timers : SseRetries(t)

Next ==
    \/ DiscoverWs \/ Socket \/ Stream
    \/ CheckHealth \/ HealthAnswers \/ Sync \/ SnapshotAnswers \/ LongOffline
    \/ Stop \/ Flap \/ Emit

Spec == Init /\ [][Next]_vars

(* Timers fire, requests are answered, connection attempts end; the server *)
(* need not flap, send events or keep a connection it has.                 *)
FairSpec ==
    /\ Spec
    /\ WF_vars(DiscoverWs) /\ WF_vars(CheckHealth) /\ WF_vars(HealthAnswers)
    /\ WF_vars(Sync) /\ WF_vars(SnapshotAnswers)
    /\ WF_vars(WsOpens) /\ WF_vars(WsAnswers) /\ WF_vars(WsCloses) /\ WF_vars(WsRetries)
    /\ \A s \in Streams : WF_vars(SseOpens(s)) /\ WF_vars(SseErrs(s))
    /\ \A t \in Timers : WF_vars(SseRetries(t))

-----------------------------------------------------------------------------
(* The page never holds two event streams, and never loses the reference   *)
(* to one that is open: connectSSE is reached from the socket's status     *)
(* handler, from the error timer and from a timer whose handle was already *)
(* overwritten.                                                            *)
OneStream ==
    /\ Cardinality({s \in Streams : c.stream[s] # "none"}) <= 1
    /\ \A s \in Streams : c.stream[s] # "none" => c.sse = s

(* After stop() no event stream exists, although a reconnection timer      *)
(* whose handle was overwritten is still pending and will fire.            *)
StopClosesStreams == c.stopped => \A s \in Streams : c.stream[s] = "none"

(* Connected for good, the page has missed an event.                        *)
Behind == up /\ ~c.stopped /\ missed

---------------------------------------------------------------------------
(* What a document, a comment or a test says and this code does not keep    *)
(* (README, "Where the code differs").                                      *)

(* "via WebSocket (primary) or SSE (fallback)" (src/bridge.ts:2): an event *)
(* is handled once.                                                        *)
HandledOnce == copies <= 1

(* "If WS is connected, bridge is healthy" (src/bridge.ts:237).            *)
HealthyWhenConnected == c.wsConnected => c.online
=============================================================================
