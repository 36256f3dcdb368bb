----------------------------- MODULE LinkProofs -----------------------------
(***************************************************************************)
(* Proofs about the four components of MCLink: any number of reconnection  *)
(* timers and of requests in flight, of flaps, failures, notifications and *)
(* commands.                                                               *)
(***************************************************************************)
EXTENDS MCLink, FiniteSetTheorems, SequenceTheorems, TLAPS

---------------------------------------------------------------------------
(* The event streams of the page.                                           *)

Clients ==
  [wsEnabled : BOOLEAN, wsConnected : BOOLEAN,
   raw : Bridge!Raw, closed : BOOLEAN, retry : BOOLEAN,
   status : {"none", "connecting", "connected", "disconnected", "auth_failed"},
   sse : {0} \cup Bridge!Streams, stream : [Bridge!Streams -> Bridge!Raw],
   timers : SUBSET Bridge!Timers, handle : {0} \cup Bridge!Timers,
   online : BOOLEAN, offlineSince : {"null", "recent", "long"},
   demo : BOOLEAN, stopped : BOOLEAN, sync : BOOLEAN]

(* Of a client: its one stream is the one it refers to.                     *)
Held(b) ==
  /\ b \in Clients
  /\ b.handle # 0 => b.handle \in b.timers
  /\ \A s \in Bridge!Streams : b.stream[s] # "none" => b.sse = s

Silent(b) == \A s \in Bridge!Streams : b.stream[s] = "none"

(* What a synchronous call makes of a client: a stopped one opens nothing.  *)
Follows(d, b) == Held(d) /\ d.stopped = b.stopped /\ (b.stopped => d.stream = b.stream)

LEMMA ClosesItsStream ==
  ASSUME NEW b, Held(b)
  PROVE  Held(Bridge!CloseStream(b)) /\ Silent(Bridge!CloseStream(b)) /\ Bridge!CloseStream(b).stopped = b.stopped
<1> DEFINE d == Bridge!CloseStream(b)
<1>1. CASE b.sse = 0
  BY <1>1 DEF Held, Silent, Bridge!CloseStream, Bridge!Streams
<1>2. CASE b.sse # 0
  <2>1. d = [b EXCEPT !.stream[b.sse] = "none", !.sse = 0]
    BY <1>2 DEF Bridge!CloseStream
  <2>2. b.sse \in Bridge!Streams
    BY <1>2 DEF Held, Clients
  <2> DEFINE f == [b.stream EXCEPT ![b.sse] = "none"]
  <2>5. f \in [Bridge!Streams -> Bridge!Raw]
    BY <2>2 DEF Held, Clients, Bridge!Raw
  <2>6. d = [b EXCEPT !.stream = f, !.sse = 0]
    BY <2>1, <2>2 DEF Held, Clients
  <2> HIDE DEF f
  <2>3. d \in Clients
    BY <2>5, <2>6 DEF Held, Clients
  <2>4. Silent(d)
    BY <2>1, <2>2 DEF Held, Clients, Silent
  <2> QED BY <2>1, <2>3, <2>4 DEF Held, Silent, Clients
<1> QED BY <1>1, <1>2

LEMMA OpensAStream ==
  ASSUME NEW b, Held(b), Silent(b), ~b.stopped
  PROVE  Follows(Bridge!OpenStream(b), b)
<1> DEFINE s == CHOOSE s \in Bridge!Streams : b.stream[s] = "none"
<1>1. s \in Bridge!Streams
  BY DEF Silent, Bridge!Streams
<1>2. Bridge!OpenStream(b) = [b EXCEPT !.sse = s, !.stream[s] = "connecting"]
  BY DEF Bridge!OpenStream
<1> HIDE DEF s
<1> DEFINE f == [b.stream EXCEPT ![s] = "connecting"]
<1>3. f \in [Bridge!Streams -> Bridge!Raw]
  BY <1>1 DEF Held, Clients, Bridge!Raw
<1>4. \A r \in Bridge!Streams : f[r] # "none" => r = s
  BY <1>1 DEF Held, Clients, Silent
<1>5. Bridge!OpenStream(b) = [b EXCEPT !.sse = s, !.stream = f]
  BY <1>1, <1>2 DEF Held, Clients
<1> DEFINE d == [b EXCEPT !.sse = s, !.stream = f]
<1> HIDE DEF f
<1>6. d \in Clients
  BY <1>1, <1>3 DEF Held, Clients
<1>7. d.stream = f /\ d.sse = s /\ d.handle = b.handle /\ d.timers = b.timers /\ d.stopped = b.stopped
  BY DEF Held, Clients
<1> HIDE DEF d
<1>8. Held(d) /\ d.stopped = b.stopped
  BY <1>4, <1>6, <1>7 DEF Held
<1> QED BY <1>5, <1>8 DEF Follows, d

LEMMA Alike ==
  ASSUME NEW b, Held(b), NEW d \in Clients, d.handle = b.handle, d.timers = b.timers,
         d.sse = b.sse, d.stream = b.stream, d.stopped = b.stopped
  PROVE  Follows(d, b)
BY DEF Follows, Held

LEMMA Connects ==
  ASSUME NEW b, Held(b)
  PROVE  Follows(Bridge!connectSSE(b), b)
<1>1. CASE b.stopped
  BY <1>1 DEF Follows, Bridge!connectSSE
<1>2. CASE ~b.stopped
  BY <1>2, ClosesItsStream, OpensAStream DEF Follows, Bridge!connectSSE
<1> QED BY <1>1, <1>2 DEF Held, Clients

LEMMA GoesOnline ==
  ASSUME NEW b, Held(b)
  PROVE  Follows(Bridge!onBridgeOnline(b), b)
BY DEF Follows, Held, Clients, Bridge!onBridgeOnline

LEMMA GoesOffline ==
  ASSUME NEW b, Held(b)
  PROVE  Follows(Bridge!onBridgeOffline(b), b)
<1> DEFINE since == IF b.online THEN "recent" ELSE b.offlineSince
<1>1. since \in {"null", "recent", "long"}
  BY DEF Held, Clients
<1> DEFINE demo == b.demo \/ since = "long"
<1>2. Bridge!onBridgeOffline(b) = [b EXCEPT !.online = FALSE, !.offlineSince = since, !.demo = demo]
  BY DEF Bridge!onBridgeOffline
<1>3. demo \in BOOLEAN
  BY Zenon DEF demo
<1> DEFINE d == [b EXCEPT !.online = FALSE, !.offlineSince = since, !.demo = demo]
<1> HIDE DEF since, demo
<1>4. d \in Clients
  BY <1>1, <1>3 DEF Held, Clients
<1>5. /\ d.handle = b.handle /\ d.timers = b.timers
      /\ d.sse = b.sse /\ d.stream = b.stream /\ d.stopped = b.stopped
  BY DEF Held, Clients
<1> HIDE DEF d
<1>6. Follows(d, b)
  BY <1>4, <1>5, Alike
<1> QED BY <1>2, <1>6 DEF d

LEMMA HearsStatus ==
  ASSUME NEW b, Held(b), NEW status \in {"connecting", "connected", "disconnected", "auth_failed"}
  PROVE  Follows(Bridge!SetStatus(b, status), b)
<1>1. CASE b.status = status
  BY <1>1 DEF Follows, Bridge!SetStatus
<1>2. CASE b.status # status
  <2> DEFINE d == [b EXCEPT !.status = status]
  <2>1. Bridge!SetStatus(b, status) = Bridge!OnStatus(d, status)
    BY <1>2 DEF Bridge!SetStatus
  <2>2. Follows(d, b)
    BY DEF Follows, Held, Clients
  <2>3. Follows([d EXCEPT !.wsConnected = TRUE, !.sync = TRUE], b)
    BY DEF Follows, Held, Clients
  <2>4. Follows([d EXCEPT !.wsConnected = FALSE, !.wsEnabled = FALSE], b)
    BY DEF Follows, Held, Clients
  <2>5. Follows([d EXCEPT !.wsConnected = FALSE], b)
    BY DEF Follows, Held, Clients
  <2> HIDE DEF d
  <2>6. CASE status = "connected"
    <3>1. Bridge!OnStatus(d, status) = Bridge!onBridgeOnline([d EXCEPT !.wsConnected = TRUE, !.sync = TRUE])
      BY <2>6 DEF Bridge!OnStatus
    <3> QED BY <3>1, <2>1, <2>3, GoesOnline DEF Follows
  <2>7. CASE status \in {"disconnected", "auth_failed"}
    <3>1. Bridge!OnStatus(d, status) =
            IF d.wsEnabled THEN Bridge!connectSSE([d EXCEPT !.wsConnected = FALSE, !.wsEnabled = FALSE])
            ELSE [d EXCEPT !.wsConnected = FALSE]
      BY <2>7 DEF Bridge!OnStatus
    <3> QED BY <3>1, <2>1, <2>4, <2>5, Connects DEF Follows
  <2>8. CASE status = "connecting"
    BY <2>1, <2>2, <2>8 DEF Bridge!OnStatus
  <2> QED BY <2>6, <2>7, <2>8
<1> QED BY <1>1, <1>2

LEMMA ClosesSocket ==
  ASSUME NEW b, Held(b)
  PROVE  Follows(Bridge!CloseWs(b), b)
<1> DEFINE d == [b EXCEPT !.closed = TRUE, !.retry = FALSE, !.raw = "none"]
<1>1. Follows(d, b)
  BY DEF Follows, Held, Clients, Bridge!Raw
<1>2. Bridge!CloseWs(b) = IF b.status = "none" THEN b ELSE Bridge!SetStatus(d, "disconnected")
  BY DEF Bridge!CloseWs
<1>3. Follows(b, b)
  BY DEF Follows
<1> HIDE DEF d
<1> QED BY <1>1, <1>2, <1>3, HearsStatus DEF Follows

LEMMA ConnectsSocket ==
  ASSUME NEW b, Held(b)
  PROVE  Follows(Bridge!connectWs(b), b)
<1> DEFINE d == Bridge!CloseWs(b)
<1>1. Follows(d, b)
  BY ClosesSocket
<1>2. Bridge!connectWs(b) = IF ~b.wsEnabled THEN b
        ELSE [d EXCEPT !.raw = "connecting", !.status = "connecting", !.closed = FALSE, !.retry = FALSE]
  BY DEF Bridge!connectWs
<1> HIDE DEF d
<1> DEFINE e == [d EXCEPT !.raw = "connecting", !.status = "connecting", !.closed = FALSE, !.retry = FALSE]
<1>8. d \in Clients
  BY <1>1 DEF Follows, Held
<1>4. e \in Clients
  BY <1>8 DEF Clients, Bridge!Raw
<1>6. /\ e.handle = d.handle /\ e.timers = d.timers
      /\ e.sse = d.sse /\ e.stream = d.stream /\ e.stopped = d.stopped
  BY <1>1 DEF Follows, Held, Clients
<1> HIDE DEF e
<1>7. Held(d)
  BY <1>1 DEF Follows
<1>9. Follows(e, d)
  BY <1>4, <1>6, <1>7, Alike
<1>5. Follows(e, b)
  BY <1>1, <1>6, <1>9 DEF Follows
<1>3. Follows([d EXCEPT !.raw = "connecting", !.status = "connecting", !.closed = FALSE, !.retry = FALSE], b)
  BY <1>5 DEF e
<1> QED BY <1>2, <1>3 DEF Follows

---------------------------------------------------------------------------
(* The steps of the transport.                                              *)

TransportHolds ==
  /\ Bridge!TypeOK
  /\ Held(c)
  /\ c.stopped => Silent(c)

(* The two properties of the streams follow: at most one is referred to.    *)
LEMMA HeldIsOneStream ==
  ASSUME TransportHolds
  PROVE  Bridge!TypeOK /\ Bridge!OneStream /\ Bridge!StopClosesStreams
<1> DEFINE open == {s \in Bridge!Streams : c.stream[s] # "none"}
<1>1. open \subseteq {c.sse}
  BY DEF TransportHolds, Held
<1>2. IsFiniteSet({c.sse}) /\ Cardinality({c.sse}) = 1
  BY FS_Singleton
<1>3. Cardinality(open) <= Cardinality({c.sse})
  BY <1>1, <1>2, FS_Subset
<1> HIDE DEF open
<1>4. Cardinality(open) <= 1
  BY <1>2, <1>3
<1>5. Bridge!OneStream
  <2>1. Cardinality({s \in Bridge!Streams : c.stream[s] # "none"}) <= 1
    BY <1>4 DEF open
  <2>2. \A s \in Bridge!Streams : c.stream[s] # "none" => c.sse = s
    BY DEF TransportHolds, Held
  <2> QED BY <2>1, <2>2 DEF Bridge!OneStream, Bridge!Cardinality, Cardinality, Bridge!IsFiniteSet, IsFiniteSet
<1>6. Bridge!StopClosesStreams
  BY DEF TransportHolds, Silent, Bridge!StopClosesStreams
<1> QED BY <1>5, <1>6 DEF TransportHolds

(* A step that only changes the client by calls that follow it.             *)
LEMMA ClientSteps ==
  ASSUME TransportHolds, Follows(c', c),
         up' \in BOOLEAN, auth' \in BOOLEAN, discovering' \in BOOLEAN, snapshot' \in BOOLEAN,
         missed' \in BOOLEAN, health' \in 0 .. MaxHealth, copies' \in Nat,
         flaps' \in 0 .. MaxFlaps, faults' \in 0 .. MaxFaults
  PROVE  TransportHolds'
<1>1. Held(c') /\ (c'.stopped => Silent(c'))
  BY DEF TransportHolds, Follows, Silent
<1> QED BY <1>1 DEF TransportHolds, Bridge!TypeOK, Held, Clients

LEMMA DiscoverHolds ==
  ASSUME TransportHolds, Bridge!DiscoverWs
  PROVE  TransportHolds'
<1>1. Held(c)
  BY DEF TransportHolds
<1>2. Follows(c', c)
  BY <1>1, ConnectsSocket DEF Bridge!DiscoverWs
<1> QED BY <1>2, ClientSteps DEF Bridge!DiscoverWs, TransportHolds, Bridge!TypeOK

(* The socket: a client that differs from one that follows only in what no   *)
(* stream depends on follows too.                                           *)
LEMMA SocketHolds ==
  ASSUME TransportHolds, Bridge!Socket
  PROVE  TransportHolds'
<1>1. Held(c) /\ c \in Clients
  BY DEF TransportHolds, Held
<1>2. Follows(c', c)
  <2>1. CASE Bridge!WsOpens
    <3> DEFINE d == [c EXCEPT !.raw = "open"]
    <3>1. d \in Clients
      BY <1>1 DEF Clients, Bridge!Raw
    <3>2. /\ d.handle = c.handle /\ d.timers = c.timers
          /\ d.sse = c.sse /\ d.stream = c.stream /\ d.stopped = c.stopped
      BY <1>1 DEF Clients
    <3>3. c' = d
      BY <2>1 DEF Bridge!WsOpens
    <3> HIDE DEF d
    <3> QED BY <3>1, <3>2, <3>3, <1>1, Alike
  <2>2. CASE Bridge!WsAnswers
    <3>1. Follows(Bridge!SetStatus(c, "connected"), c) /\ Follows(Bridge!SetStatus(c, "auth_failed"), c)
      BY <1>1, HearsStatus
    <3>2. Follows(Bridge!CloseWs(Bridge!SetStatus(c, "auth_failed")), c)
      BY <3>1, ClosesSocket DEF Follows
    <3> QED BY <2>2, <3>1, <3>2 DEF Bridge!WsAnswers
  <2>3. CASE Bridge!WsCloses
    <3> DEFINE d == [c EXCEPT !.raw = "none"]
               e == Bridge!SetStatus(d, "disconnected")
               f == [e EXCEPT !.retry = TRUE]
    <3>1. d \in Clients
      BY <1>1 DEF Clients, Bridge!Raw
    <3>2. /\ d.handle = c.handle /\ d.timers = c.timers
          /\ d.sse = c.sse /\ d.stream = c.stream /\ d.stopped = c.stopped
      BY <1>1 DEF Clients
    <3>3. c' = f
      BY <2>3 DEF Bridge!WsCloses
    <3> HIDE DEF d
    <3>4. Follows(d, c)
      BY <3>1, <3>2, <1>1, Alike
    <3>5. Follows(e, d)
      BY <3>4, HearsStatus DEF Follows
    <3> HIDE DEF e
    <3>6. Held(e) /\ e \in Clients
      BY <3>5 DEF Follows, Held
    <3>7. f \in Clients
      BY <3>6 DEF Clients
    <3>8. /\ f.handle = e.handle /\ f.timers = e.timers
          /\ f.sse = e.sse /\ f.stream = e.stream /\ f.stopped = e.stopped
      BY <3>6 DEF Clients
    <3> HIDE DEF f
    <3>9. Follows(f, e)
      BY <3>6, <3>7, <3>8, Alike
    <3> QED BY <3>3, <3>4, <3>5, <3>9 DEF Follows
  <2>4. CASE Bridge!WsRetries
    <3> DEFINE d == [c EXCEPT !.retry = FALSE, !.raw = "connecting"]
    <3>1. d \in Clients
      BY <1>1 DEF Clients, Bridge!Raw
    <3>2. /\ d.handle = c.handle /\ d.timers = c.timers
          /\ d.sse = c.sse /\ d.stream = c.stream /\ d.stopped = c.stopped
      BY <1>1 DEF Clients
    <3>3. c' = d
      BY <2>4 DEF Bridge!WsRetries
    <3> HIDE DEF d
    <3> QED BY <3>1, <3>2, <3>3, <1>1, Alike
  <2> QED BY <2>1, <2>2, <2>3, <2>4 DEF Bridge!Socket
<1>3. UNCHANGED <<up, auth, discovering, health, snapshot, missed, copies, flaps, faults>>
  BY DEF Bridge!Socket, Bridge!WsOpens, Bridge!WsAnswers, Bridge!WsCloses, Bridge!WsRetries
<1> QED BY <1>2, <1>3, ClientSteps DEF TransportHolds, Bridge!TypeOK

(* The event streams: only one that is open or connecting is opened or errs, *)
(* so it is the one referred to, and an error forgets it.                   *)
LEMMA StreamHolds ==
  ASSUME TransportHolds, Bridge!Stream
  PROVE  TransportHolds'
<1>1. Held(c) /\ c \in Clients
  BY DEF TransportHolds, Held
<1>2. Held(c') /\ (c'.stopped => Silent(c'))
  <2>1. ASSUME NEW s \in Bridge!Streams, Bridge!SseOpens(s)
        PROVE  Held(c') /\ (c'.stopped => Silent(c'))
    <3> DEFINE f == [c.stream EXCEPT ![s] = "open"]
               d == [c EXCEPT !.stream = f, !.sync = TRUE]
    <3>1. c' = d
      BY <2>1, <1>1 DEF Bridge!SseOpens, Clients
    <3>2. f \in [Bridge!Streams -> Bridge!Raw] /\ \A r \in Bridge!Streams : f[r] # "none" => c.stream[r] # "none"
      BY <2>1, <1>1 DEF Bridge!SseOpens, Clients, Bridge!Raw
    <3>5. ~c.stopped
      BY <2>1 DEF TransportHolds, Silent, Bridge!SseOpens
    <3> HIDE DEF f
    <3>3. d \in Clients
      BY <3>2, <1>1 DEF Clients
    <3>4. d.stream = f /\ d.sse = c.sse /\ d.handle = c.handle /\ d.timers = c.timers /\ d.stopped = c.stopped
      BY <1>1 DEF Clients
    <3> HIDE DEF d
    <3> QED BY <3>1, <3>2, <3>3, <3>4, <3>5, <1>1 DEF Held
  <2>2. ASSUME NEW s \in Bridge!Streams, Bridge!SseErrs(s)
        PROVE  Held(c') /\ (c'.stopped => Silent(c'))
    <3> DEFINE f == [c.stream EXCEPT ![s] = "none"]
               d == [c EXCEPT !.stream = f, !.sse = 0]
    <3>1. PICK t \in Bridge!Timers \ c.timers : c' = Bridge!OnError(c, s, t)
      BY <2>2 DEF Bridge!SseErrs
    <3>2. c.stream[s] # "none" /\ c.sse = s
      BY <2>2, <1>1 DEF Bridge!SseErrs, Bridge!Failing, Held
    <3>3. f \in [Bridge!Streams -> Bridge!Raw] /\ \A r \in Bridge!Streams : f[r] = "none"
      BY <3>2, <1>1 DEF Held, Clients, Bridge!Raw
    <3>4. [c EXCEPT !.stream[s] = "none", !.sse = IF @ = s THEN 0 ELSE @] = d
      BY <3>2, <1>1 DEF Clients
    <3>5. c' = IF c.stopped THEN d ELSE [d EXCEPT !.timers = @ \cup {t}, !.handle = t]
      BY <3>1, <3>4 DEF Bridge!OnError
    <3> HIDE DEF f
    <3>6. d \in Clients
      BY <3>3, <1>1 DEF Clients
    <3>7. d.stream = f /\ d.sse = 0 /\ d.handle = c.handle /\ d.timers = c.timers /\ d.stopped = c.stopped
      BY <1>1 DEF Clients
    <3> HIDE DEF d
    <3>8. CASE c.stopped
      BY <3>3, <3>5, <3>6, <3>7, <3>8, <1>1 DEF Held, Silent
    <3>9. CASE ~c.stopped
      <4> DEFINE e == [d EXCEPT !.timers = @ \cup {t}, !.handle = t]
      <4>1. e \in Clients
        BY <3>6 DEF Clients
      <4>2. e.stream = f /\ e.handle = t /\ t \in e.timers
        BY <3>6, <3>7 DEF Clients
      <4>3. c' = e
        BY <3>5, <3>9
      <4> HIDE DEF e
      <4> QED BY <3>3, <4>1, <4>2, <4>3 DEF Held, Silent
    <3> QED BY <3>8, <3>9
  <2>3. ASSUME NEW t \in Bridge!Timers, Bridge!SseRetries(t)
        PROVE  Held(c') /\ (c'.stopped => Silent(c'))
    <3> DEFINE d == [c EXCEPT !.timers = @ \ {t}, !.handle = 0]
    <3>1. c' = Bridge!connectSSE(d)
      BY <2>3 DEF Bridge!SseRetries
    <3>2. d \in Clients
      BY <1>1 DEF Clients
    <3>3. d.stream = c.stream /\ d.sse = c.sse /\ d.handle = 0 /\ d.stopped = c.stopped
      BY <1>1 DEF Clients
    <3> HIDE DEF d
    <3>4. Held(d)
      BY <3>2, <3>3, <1>1 DEF Held
    <3>5. Follows(c', d)
      BY <3>1, <3>4, Connects
    <3> QED BY <3>3, <3>5 DEF Follows, TransportHolds, Silent
  <2> QED BY <2>1, <2>2, <2>3 DEF Bridge!Stream
<1>3. UNCHANGED <<up, auth, discovering, health, snapshot, missed, copies, flaps, faults>>
  BY DEF Bridge!Stream, Bridge!SseOpens, Bridge!SseErrs, Bridge!SseRetries
<1> QED BY <1>2, <1>3 DEF TransportHolds, Bridge!TypeOK, Held, Clients

(* The polls of the transport.                                              *)
LEMMA Unchanged ==
  ASSUME NEW b, Held(b)
  PROVE  Follows(b, b)
BY DEF Follows

LEMMA Recovers ==
  ASSUME NEW b, Held(b)
  PROVE  Follows(Bridge!Recovered(b), b)
<1> DEFINE d == [b EXCEPT !.wsEnabled = TRUE]
<1>1. d \in Clients /\ b \in Clients
  BY DEF Held, Clients
<1>2. /\ d.handle = b.handle /\ d.timers = b.timers
      /\ d.sse = b.sse /\ d.stream = b.stream /\ d.stopped = b.stopped
  BY <1>1 DEF Clients
<1> HIDE DEF d
<1>3. Follows(d, b)
  BY <1>1, <1>2, Alike
<1>4. Follows(Bridge!connectWs(d), b)
  BY <1>3, ConnectsSocket DEF Follows
<1>5. Bridge!Recovered(b) = Bridge!onBridgeOnline(IF ~b.wsEnabled /\ ~b.stopped THEN Bridge!connectWs(d) ELSE b)
  BY DEF Bridge!Recovered, d
<1> QED BY <1>4, <1>5, Unchanged, GoesOnline DEF Follows

LEMMA PollsHold ==
  ASSUME TransportHolds, MaxHealth \in Nat, MaxFaults \in Nat,
         Bridge!CheckHealth \/ Bridge!HealthAnswers \/ Bridge!Sync \/ Bridge!SnapshotAnswers \/ Bridge!LongOffline
  PROVE  TransportHolds'
<1>1. Held(c) /\ c \in Clients
  BY DEF TransportHolds, Held
<1>2. Follows(c, c)
  BY <1>1, Unchanged
<1>3. CASE Bridge!CheckHealth
  <2>1. Follows(c', c)
    BY <1>1, <1>2, <1>3, GoesOnline DEF Bridge!CheckHealth, Bridge!RequestHealth
  <2>2. health' \in 0 .. MaxHealth
    BY <1>3 DEF Bridge!CheckHealth, Bridge!RequestHealth, TransportHolds, Bridge!TypeOK
  <2> QED BY <1>3, <2>1, <2>2, ClientSteps DEF Bridge!CheckHealth, TransportHolds, Bridge!TypeOK
<1>4. CASE Bridge!HealthAnswers
  <2>1. Follows(c', c)
    BY <1>1, <1>4, GoesOffline, Recovers DEF Bridge!HealthAnswers
  <2>2. health' \in 0 .. MaxHealth
    BY <1>4 DEF Bridge!HealthAnswers, TransportHolds, Bridge!TypeOK
  <2>3. faults' \in 0 .. MaxFaults
    BY <1>4 DEF Bridge!HealthAnswers, TransportHolds, Bridge!TypeOK
  <2> QED BY <1>4, <2>1, <2>2, <2>3, ClientSteps DEF Bridge!HealthAnswers, TransportHolds, Bridge!TypeOK
<1>5. CASE Bridge!Sync
  <2> DEFINE d == [c EXCEPT !.sync = FALSE]
  <2>1. d \in Clients
    BY <1>1 DEF Clients
  <2>2. /\ d.handle = c.handle /\ d.timers = c.timers
        /\ d.sse = c.sse /\ d.stream = c.stream /\ d.stopped = c.stopped
    BY <1>1 DEF Clients
  <2>3. c' = d
    BY <1>5 DEF Bridge!Sync
  <2> HIDE DEF d
  <2>4. Follows(c', c)
    BY <2>1, <2>2, <2>3, <1>1, Alike
  <2> QED BY <1>5, <2>4, ClientSteps DEF Bridge!Sync, TransportHolds, Bridge!TypeOK
<1>6. CASE Bridge!SnapshotAnswers
  <2>1. missed' \in BOOLEAN
    <3>1. missed' \in {FALSE, missed, missed /\ c.stopped}
      BY <1>6, Zenon DEF Bridge!SnapshotAnswers
    <3>2. missed \in BOOLEAN /\ (missed /\ c.stopped) \in BOOLEAN
      BY Zenon DEF TransportHolds, Bridge!TypeOK
    <3> QED BY <3>1, <3>2, Zenon
  <2>2. faults' \in 0 .. MaxFaults
    BY <1>6 DEF Bridge!SnapshotAnswers, TransportHolds, Bridge!TypeOK
  <2>3. Follows(c', c)
    BY <1>2, <1>6 DEF Bridge!SnapshotAnswers
  <2> QED BY <1>6, <2>1, <2>2, <2>3, ClientSteps DEF Bridge!SnapshotAnswers, TransportHolds, Bridge!TypeOK
<1>7. CASE Bridge!LongOffline
  <2> DEFINE d == [c EXCEPT !.offlineSince = "long"]
  <2>1. d \in Clients
    BY <1>1 DEF Clients
  <2>2. /\ d.handle = c.handle /\ d.timers = c.timers
        /\ d.sse = c.sse /\ d.stream = c.stream /\ d.stopped = c.stopped
    BY <1>1 DEF Clients
  <2>3. c' = d
    BY <1>7 DEF Bridge!LongOffline
  <2> HIDE DEF d
  <2>4. Follows(c', c)
    BY <2>1, <2>2, <2>3, <1>1, Alike
  <2> QED BY <1>7, <2>4, ClientSteps DEF Bridge!LongOffline, TransportHolds, Bridge!TypeOK
<1> QED BY <1>3, <1>4, <1>5, <1>6, <1>7

(* stop() closes the socket, which cannot open a stream any more, and then   *)
(* the stream.                                                              *)
LEMMA StopHolds ==
  ASSUME TransportHolds, Bridge!Stop
  PROVE  TransportHolds'
<1> DEFINE d == [c EXCEPT !.stopped = TRUE, !.timers = @ \ {c.handle}, !.handle = 0]
           b == Bridge!CloseWs(d)
           a == Bridge!CloseStream(b)
           e == [a EXCEPT !.status = "none", !.wsConnected = FALSE, !.demo = FALSE]
<1>1. c \in Clients /\ Held(c)
  BY DEF TransportHolds, Held
<1>2. d \in Clients
  BY <1>1 DEF Clients
<1>3. d.handle = 0 /\ d.sse = c.sse /\ d.stream = c.stream
  BY <1>1 DEF Clients
<1>4. c' = e
  BY DEF Bridge!Stop
<1> HIDE DEF d
<1>5. Held(d)
  BY <1>1, <1>2, <1>3 DEF Held
<1>6. Held(b)
  BY <1>5, ClosesSocket DEF Follows
<1> HIDE DEF b
<1>7. Held(a) /\ Silent(a) /\ a \in Clients
  BY <1>6, ClosesItsStream DEF Held
<1> HIDE DEF a
<1>8. e \in Clients
  BY <1>7 DEF Clients
<1>9. e.handle = a.handle /\ e.timers = a.timers /\ e.sse = a.sse /\ e.stream = a.stream
  BY <1>7 DEF Clients
<1> HIDE DEF e
<1>10. Held(c') /\ Silent(c')
  BY <1>4, <1>7, <1>8, <1>9 DEF Held, Silent
<1> QED BY <1>10 DEF Bridge!Stop, TransportHolds, Bridge!TypeOK, Held, Clients

(* The server goes down: what is open breaks, nothing is opened.            *)
LEMMA FlapHolds ==
  ASSUME TransportHolds, Bridge!Flap, MaxFlaps \in Nat
  PROVE  TransportHolds'
<1> DEFINE f == [s \in Bridge!Streams |-> Bridge!Break(c.stream[s])]
           r == Bridge!Break(c.raw)
           d == [c EXCEPT !.raw = r, !.stream = f]
<1>1. c \in Clients /\ Held(c)
  BY DEF TransportHolds, Held
<1>2. f \in [Bridge!Streams -> Bridge!Raw] /\ r \in Bridge!Raw
  BY <1>1 DEF Clients, Bridge!Raw, Bridge!Break
<1>3. \A s \in Bridge!Streams : f[s] # "none" <=> c.stream[s] # "none"
  BY DEF Bridge!Break
<1>4. c' = d \/ c' = c
  BY DEF Bridge!Flap
<1> HIDE DEF f, r
<1>5. d \in Clients
  BY <1>1, <1>2 DEF Clients
<1>6. d.stream = f /\ d.sse = c.sse /\ d.handle = c.handle /\ d.timers = c.timers /\ d.stopped = c.stopped
  BY <1>1 DEF Clients
<1> HIDE DEF d
<1>7. Held(c') /\ (c'.stopped => Silent(c'))
  <2>1. Held(d) /\ (d.stopped => Silent(d))
    BY <1>1, <1>3, <1>5, <1>6 DEF Held, Silent, TransportHolds
  <2> QED BY <1>4, <2>1 DEF TransportHolds
<1>8. up' \in BOOLEAN /\ flaps' \in 0 .. MaxFlaps
  BY DEF Bridge!Flap, TransportHolds, Bridge!TypeOK
<1> QED BY <1>7, <1>8 DEF Bridge!Flap, TransportHolds, Bridge!TypeOK, Held, Clients

(* An event reaches the page over a countable number of transports.         *)
LEMMA EmitHolds ==
  ASSUME TransportHolds, Bridge!Emit
  PROVE  TransportHolds'
<1> DEFINE n == Cardinality(Bridge!SseLive) + IF Bridge!WsLive THEN 1 ELSE 0
<1>1. n \in Nat
  <2>1. IsFiniteSet(1 .. 3)
    BY 1 \in Int, 3 \in Int, FS_Interval
  <2>2. Cardinality(Bridge!SseLive) \in Nat
    BY <2>1, FS_Subset, FS_CardinalityType DEF Bridge!SseLive, Bridge!Streams
  <2> QED BY <2>2
<1>2. copies' = (IF n > copies THEN n ELSE copies) /\ missed' = (missed \/ (n = 0 /\ ~c.stopped))
  BY DEF Bridge!Emit, Bridge!Cardinality, Cardinality, Bridge!IsFiniteSet, IsFiniteSet
<1> HIDE DEF n
<1>3. copies' \in Nat
  BY <1>1, <1>2 DEF TransportHolds, Bridge!TypeOK
<1>4. missed' \in BOOLEAN
  <2>1. (missed \/ (n = 0 /\ ~c.stopped)) \in BOOLEAN
    BY Zenon
  <2> QED BY <1>2, <2>1
<1>5. Follows(c', c)
  BY Unchanged DEF Bridge!Emit, TransportHolds
<1> QED BY <1>3, <1>4, <1>5, ClientSteps DEF Bridge!Emit, TransportHolds, Bridge!TypeOK

LEMMA TransportSteps ==
  ASSUME TransportHolds, Bridge!BridgeClientAssumption, Bridge!Next \/ UNCHANGED bridgeVars
  PROVE  TransportHolds'
<1>1. MaxFlaps \in Nat /\ MaxFaults \in Nat /\ MaxHealth \in Nat
  BY DEF Bridge!BridgeClientAssumption
<1>2. CASE Bridge!Next
  BY <1>1, <1>2, DiscoverHolds, SocketHolds, StreamHolds, PollsHold, StopHolds, FlapHolds, EmitHolds
  DEF Bridge!Next
<1>3. CASE UNCHANGED bridgeVars
  BY <1>3 DEF bridgeVars, TransportHolds, Bridge!TypeOK, Held, Silent
<1> QED BY <1>2, <1>3

LEMMA TransportStarts ==
  ASSUME Bridge!Init, Bridge!BridgeClientAssumption
  PROVE  TransportHolds
<1>1. MaxFlaps \in Nat /\ MaxFaults \in Nat /\ MaxHealth \in Nat \ {0}
  BY DEF Bridge!BridgeClientAssumption
<1>2. c \in Clients
  BY DEF Bridge!Init, Clients, Bridge!Raw
<1>3. c.handle = 0 /\ \A s \in Bridge!Streams : c.stream[s] = "none"
  BY DEF Bridge!Init
<1>4. Held(c) /\ Silent(c)
  BY <1>2, <1>3 DEF Held, Silent
<1>5. c \in Clients /\ (c.handle # 0 => c.handle \in c.timers)
  BY <1>2, <1>3
<1>7. /\ up \in BOOLEAN /\ auth \in BOOLEAN /\ discovering \in BOOLEAN
      /\ snapshot \in BOOLEAN /\ missed \in BOOLEAN /\ health \in 0 .. MaxHealth
      /\ copies \in Nat /\ flaps \in 0 .. MaxFlaps /\ faults \in 0 .. MaxFaults
  <2>1. /\ up \in BOOLEAN /\ auth \in BOOLEAN /\ discovering = TRUE
        /\ snapshot = FALSE /\ missed = FALSE /\ health = 1
        /\ copies = 0 /\ flaps = 0 /\ faults = 0
    BY DEF Bridge!Init
  <2>2. discovering \in BOOLEAN /\ snapshot \in BOOLEAN /\ missed \in BOOLEAN
    BY <2>1, Zenon
  <2>3. health \in 0 .. MaxHealth /\ copies \in Nat /\ flaps \in 0 .. MaxFlaps /\ faults \in 0 .. MaxFaults
    BY <1>1, <2>1
  <2> QED BY <2>1, <2>2, <2>3
<1>6. Bridge!TypeOK
  BY <1>5, <1>7 DEF Clients, Bridge!TypeOK
<1> QED BY <1>4, <1>6 DEF TransportHolds

---------------------------------------------------------------------------
(* The banners of the notifications.                                        *)

(* What was shown, followed by what waits, is what was raised: one by one.   *)
Counted(n) == [i \in 1 .. n |-> i]

LEMMA CountsOn ==
  ASSUME NEW n \in Nat, NEW S, NEW s \in Seq(S), NEW q \in Seq(S), n + 1 \in S,
         s \o q = Counted(n)
  PROVE  s \o Append(q, n + 1) = Counted(n + 1)
<1> DEFINE r == Append(q, n + 1)
<1>1. Len(s) \in Nat /\ Len(q) \in Nat
  BY LenProperties
<1>2. Len(s) + Len(q) = n /\ \A i \in 1 .. n : (IF i <= Len(s) THEN s[i] ELSE q[i - Len(s)]) = i
  <2>1. Len(Counted(n)) = n /\ \A i \in 1 .. n : Counted(n)[i] = i
    BY DEF Counted
  <2> QED BY <2>1, <1>1, ConcatProperties
<1>3. r \in Seq(S) /\ Len(r) = Len(q) + 1 /\ \A i \in 1 .. Len(q) : r[i] = q[i]
  OBVIOUS
<1>4. r[Len(q) + 1] = n + 1
  BY <1>1
<1> HIDE DEF r
<1>5. s \o r \in Seq(S) /\ Len(s \o r) = n + 1
      /\ \A i \in 1 .. n + 1 : (s \o r)[i] = IF i <= Len(s) THEN s[i] ELSE r[i - Len(s)]
  <2>1. s \o r \in Seq(S) /\ Len(s \o r) = Len(s) + Len(r)
        /\ \A i \in 1 .. Len(s) + Len(r) : (s \o r)[i] = IF i <= Len(s) THEN s[i] ELSE r[i - Len(s)]
    BY <1>3, ConcatProperties
  <2>2. Len(s) + Len(r) = n + 1
    <3>1. Len(s) + Len(q) = n /\ Len(r) = Len(q) + 1
      BY <1>2, <1>3
    <3> QED BY <1>1, <3>1
  <2> QED BY <2>1, <2>2
<1>6. \A i \in 1 .. n + 1 : (s \o r)[i] = i
  <2>1. ASSUME NEW i \in 1 .. n
        PROVE  (IF i <= Len(s) THEN s[i] ELSE r[i - Len(s)]) = i
    <3>1. CASE i <= Len(s)
      BY <1>1, <1>2, <3>1
    <3>2. CASE i > Len(s)
      <4>1. i - Len(s) \in 1 .. Len(q)
        BY <1>1, <1>2, <3>2
      <4> QED BY <1>1, <1>2, <1>3, <3>2, <4>1
    <3> QED BY <1>1, <3>1, <3>2
  <2>2. (IF n + 1 <= Len(s) THEN s[n + 1] ELSE r[n + 1 - Len(s)]) = n + 1
    BY <1>1, <1>2, <1>4
  <2>3. 1 .. n + 1 = (1 .. n) \cup {n + 1}
    OBVIOUS
  <2> QED BY <1>5, <2>1, <2>2, <2>3
<1>7. s \o r = [i \in 1 .. n + 1 |-> (s \o r)[i]]
  BY <1>5, LenProperties
<1> QED BY <1>6, <1>7 DEF Counted, r

LEMMA MovesOn ==
  ASSUME NEW S, NEW s \in Seq(S), NEW q \in Seq(S), q # <<>>
  PROVE  Append(s, Head(q)) \o Tail(q) = s \o q
<1>1. Head(q) \in S /\ Tail(q) \in Seq(S) /\ Len(Tail(q)) = Len(q) - 1
      /\ \A i \in 1 .. Len(Tail(q)) : Tail(q)[i] = q[i + 1]
  BY HeadTailProperties
<1>2. Head(q) = q[1] /\ Len(q) \in Nat /\ Len(s) \in Nat
  BY LenProperties
<1> DEFINE r == Append(s, Head(q))
           t == Tail(q)
<1>3. r \in Seq(S) /\ Len(r) = Len(s) + 1 /\ r[Len(s) + 1] = q[1] /\ \A i \in 1 .. Len(s) : r[i] = s[i]
  BY <1>1, <1>2
<1>4. t \in Seq(S) /\ Len(t) = Len(q) - 1 /\ \A i \in 1 .. Len(t) : t[i] = q[i + 1]
  BY <1>1
<1> HIDE DEF r, t
<1>5. r \o t \in Seq(S) /\ Len(r \o t) = Len(s) + Len(q)
      /\ \A i \in 1 .. Len(s) + Len(q) : (r \o t)[i] = IF i <= Len(r) THEN r[i] ELSE t[i - Len(r)]
  <2>1. r \o t \in Seq(S) /\ Len(r \o t) = Len(r) + Len(t)
        /\ \A i \in 1 .. Len(r) + Len(t) : (r \o t)[i] = IF i <= Len(r) THEN r[i] ELSE t[i - Len(r)]
    BY <1>3, <1>4, ConcatProperties
  <2>2. Len(r) + Len(t) = Len(s) + Len(q)
    BY <1>2, <1>3, <1>4
  <2> QED BY <2>1, <2>2
<1>6. s \o q \in Seq(S) /\ Len(s \o q) = Len(s) + Len(q)
      /\ \A i \in 1 .. Len(s) + Len(q) : (s \o q)[i] = IF i <= Len(s) THEN s[i] ELSE q[i - Len(s)]
  BY ConcatProperties
<1>7. \A i \in 1 .. Len(s) + Len(q) : (r \o t)[i] = (s \o q)[i]
  <2> SUFFICES ASSUME NEW i \in 1 .. Len(s) + Len(q)
               PROVE  (r \o t)[i] = (s \o q)[i]
    OBVIOUS
  <2>1. CASE i <= Len(s)
    BY <1>2, <1>3, <1>5, <1>6, <2>1
  <2>2. CASE i = Len(s) + 1
    BY <1>2, <1>3, <1>5, <1>6, <2>2
  <2>3. CASE i > Len(s) + 1
    <3>1. i - Len(r) \in 1 .. Len(t) /\ i - Len(r) + 1 = i - Len(s)
      BY <1>2, <1>3, <1>4, <2>3
    <3>2. (r \o t)[i] = t[i - Len(r)]
      BY <1>2, <1>3, <1>5, <2>3
    <3>3. (s \o q)[i] = q[i - Len(s)]
      BY <1>2, <1>6, <2>3
    <3> QED BY <1>4, <3>1, <3>2, <3>3
  <2>4. i <= Len(s) \/ i = Len(s) + 1 \/ i > Len(s) + 1
    BY <1>2
  <2> QED BY <2>1, <2>2, <2>3, <2>4
<1>8. r \o t = s \o q
  BY <1>5, <1>6, <1>7, SeqEqual
<1> QED BY <1>8 DEF r, t

InTurn == Banners!TypeOK /\ order \o queue = Counted(idSeq)

LEMMA QueueMoves ==
  ASSUME InTurn, NEW n, NEW a \in {0} \cup Banners!Banners, NEW q \in Seq(Banners!Banners),
         NEW s \in SUBSET Banners!Banners, order \o q = Counted(n), Banners!processQueue(a, q, s)
  PROVE  /\ active' \in {0} \cup Banners!Banners /\ queue' \in Seq(Banners!Banners)
         /\ order' \in Seq(Banners!Banners) /\ shown' \subseteq Banners!Banners
         /\ autos' \subseteq Banners!Banners /\ handle' \in {0} \cup Banners!Banners
         /\ order' \o queue' = Counted(n)
<1>1. /\ order \in Seq(Banners!Banners) /\ autos \subseteq Banners!Banners
      /\ handle \in {0} \cup Banners!Banners
  BY DEF InTurn, Banners!TypeOK
<1>2. CASE a # 0 \/ q = <<>>
  BY <1>1, <1>2 DEF Banners!processQueue
<1>3. CASE a = 0 /\ q # <<>>
  <2>1. Head(q) \in Banners!Banners /\ Tail(q) \in Seq(Banners!Banners)
    BY <1>3, HeadTailProperties
  <2>2. /\ active' = Head(q) /\ queue' = Tail(q) /\ shown' = s \cup {Head(q)}
        /\ order' = Append(order, Head(q)) /\ handle' = Head(q) /\ autos' = autos \cup {Head(q)}
    BY <1>3 DEF Banners!processQueue
  <2>3. order' \o queue' = Counted(n)
    BY <1>1, <1>3, <2>2, MovesOn
  <2>4. order' \in Seq(Banners!Banners)
    BY <1>1, <2>1, <2>2
  <2> QED BY <1>1, <2>1, <2>2, <2>3, <2>4
<1> QED BY <1>2, <1>3

LEMMA BannerSteps ==
  ASSUME InTurn, Banners!NotificationsAssumption, Banners!Next \/ UNCHANGED bannerVars
  PROVE  InTurn'
<1> USE DEF Banners!NotificationsAssumption
<1>1. CASE Banners!showNotification
  <2>1. idSeq + 1 \in Banners!Banners /\ idSeq \in Nat
    BY <1>1 DEF InTurn, Banners!TypeOK, Banners!showNotification, Banners!Banners
  <2>2. Append(queue, idSeq + 1) \in Seq(Banners!Banners)
    BY <2>1 DEF InTurn, Banners!TypeOK
  <2>3. order \o Append(queue, idSeq + 1) = Counted(idSeq + 1)
    BY <2>1, CountsOn DEF InTurn, Banners!TypeOK
  <2>4. Banners!processQueue(active, Append(queue, idSeq + 1), shown) /\ idSeq' = idSeq + 1 /\ exits' = exits
    BY <1>1 DEF Banners!showNotification
  <2>5. idSeq' \in 0 .. MaxBanners
    BY <2>1, <2>4 DEF Banners!Banners
  <2>6. active \in {0} \cup Banners!Banners /\ shown \in SUBSET Banners!Banners
    BY DEF InTurn, Banners!TypeOK
  <2> QED BY <2>2, <2>3, <2>4, <2>5, <2>6, QueueMoves DEF InTurn, Banners!TypeOK
<1>2. ASSUME NEW ts \in SUBSET Banners!Banners, Banners!dismissCurrent(ts)
      PROVE  InTurn'
  <2>1. autos' \subseteq Banners!Banners /\ handle' \in {0} \cup Banners!Banners
    BY <1>2 DEF InTurn, Banners!TypeOK, Banners!dismissCurrent
  <2>2. exits' \in [Banners!Banners -> 0 .. 3]
    <3>1. CASE active = 0
      BY <1>2, <3>1 DEF InTurn, Banners!TypeOK, Banners!dismissCurrent
    <3>2. CASE active # 0
      <4>1. exits[active] \in 0 .. 3 /\ exits[active] < 3 /\ exits' = [exits EXCEPT ![active] = @ + 1]
        BY <1>2, <3>2 DEF InTurn, Banners!TypeOK, Banners!dismissCurrent
      <4>2. exits[active] + 1 \in 0 .. 3
        BY <4>1
      <4> QED BY <4>1, <4>2 DEF InTurn, Banners!TypeOK
    <3> QED BY <3>1, <3>2
  <2> QED BY <1>2, <2>1, <2>2 DEF InTurn, Banners!TypeOK, Banners!dismissCurrent
<1>3. ASSUME NEW b \in Banners!Banners, Banners!clickClose(b) \/ Banners!autoDismiss(b)
      PROVE  InTurn'
  BY <1>2, <1>3 DEF Banners!clickClose, Banners!autoDismiss, InTurn, Banners!TypeOK
<1>4. ASSUME NEW b \in Banners!Banners, Banners!exitEnds(b)
      PROVE  InTurn'
  <2>1. exits' \in [Banners!Banners -> 0 .. 3]
    BY <1>4 DEF Banners!exitEnds, Banners!Leaving, InTurn, Banners!TypeOK
  <2>2. /\ queue \in Seq(Banners!Banners) /\ (shown \ {b}) \in SUBSET Banners!Banners
        /\ order \o queue = Counted(idSeq) /\ idSeq \in 0 .. MaxBanners /\ idSeq' = idSeq
        /\ Banners!processQueue(0, queue, shown \ {b})
    BY <1>4 DEF Banners!exitEnds, InTurn, Banners!TypeOK
  <2> QED BY <2>1, <2>2, QueueMoves DEF InTurn, Banners!TypeOK
<1>5. CASE UNCHANGED bannerVars
  BY <1>5 DEF bannerVars, InTurn, Banners!TypeOK
<1> QED BY <1>1, <1>3, <1>4, <1>5 DEF Banners!Next

(* When no banner is closed as it slides out, one call to dismissCurrent is  *)
(* made for each banner.                                                    *)
LEMMA PatientIsABanner ==
  ASSUME Patient!Next
  PROVE  Banners!Next
<1>1. CASE Patient!showNotification
  BY <1>1 DEF Patient!showNotification, Banners!showNotification, Patient!processQueue,
     Banners!processQueue, Banners!Next
<1>2. ASSUME NEW b \in Patient!Banners, Patient!clickClose(b) \/ Patient!autoDismiss(b) \/ Patient!exitEnds(b)
      PROVE  Banners!clickClose(b) \/ Banners!autoDismiss(b) \/ Banners!exitEnds(b)
  BY <1>2 DEF Patient!clickClose, Banners!clickClose, Patient!autoDismiss, Banners!autoDismiss,
     Patient!exitEnds, Banners!exitEnds, Patient!dismissCurrent, Banners!dismissCurrent,
     Patient!processQueue, Banners!processQueue, Patient!Leaving, Banners!Leaving
<1>3. Patient!Banners = Banners!Banners
  BY DEF Patient!Banners, Banners!Banners
<1> QED BY <1>1, <1>2, <1>3 DEF Patient!Next, Banners!Next

Alone ==
  /\ active = 0 => shown = {} /\ queue = <<>> /\ autos = {}
  /\ active # 0 => shown = {active}
  /\ \A b \in Banners!Banners : exits[b] # 0 => b = active /\ exits[b] = 1 /\ autos = {}
  /\ autos # {} => autos = {active} /\ handle = active

LEMMA AloneStays ==
  ASSUME InTurn, Alone, Banners!NotificationsAssumption, Patient!Next \/ UNCHANGED bannerVars
  PROVE  Alone'
<1>0. /\ idSeq \in Nat /\ active \in {0} \cup Banners!Banners
      /\ queue \in Seq(Banners!Banners) /\ exits \in [Banners!Banners -> 0 .. 3]
      /\ autos \subseteq Banners!Banners /\ 0 \notin Banners!Banners
  BY DEF InTurn, Banners!TypeOK, Banners!Banners, Banners!NotificationsAssumption
<1>1. CASE Patient!showNotification
  <2> DEFINE q == Append(queue, idSeq')
  <2>1. Patient!processQueue(active, q, shown) /\ exits' = exits
    BY <1>1 DEF Patient!showNotification
  <2>2. CASE active # 0
    <3>1. UNCHANGED <<active, shown, handle, autos, exits>>
      BY <2>1, <2>2 DEF Patient!processQueue
    <3> QED BY <2>2, <3>1 DEF Alone
  <2>3. CASE active = 0
    <3>1. queue = <<>> /\ shown = {} /\ autos = {} /\ \A b \in Banners!Banners : exits[b] = 0
      BY <1>0, <2>3 DEF Alone
    <3>2. q # <<>> /\ Head(q) = idSeq' /\ Tail(q) = <<>>
      BY <3>1
    <3>3. idSeq' = idSeq + 1 /\ idSeq' # 0
      BY <1>0, <1>1 DEF Patient!showNotification
    <3> HIDE DEF q
    <3>4. active' = idSeq' /\ shown' = {idSeq'} /\ handle' = idSeq' /\ autos' = {idSeq'}
      BY <2>1, <2>3, <3>1, <3>2 DEF Patient!processQueue
    <3> QED BY <2>1, <3>1, <3>3, <3>4 DEF Alone
  <2> QED BY <2>2, <2>3
<1>2. ASSUME NEW ts, ts \in {autos, {}}, active # 0, exits[active] = 0,
             autos # {} => autos = {active} /\ handle = active, Patient!dismissCurrent(ts)
      PROVE  Alone'
  <2>1. /\ UNCHANGED <<queue, active, shown>> /\ autos' = {}
        /\ exits' = [exits EXCEPT ![active] = @ + 1]
    BY <1>2 DEF Patient!dismissCurrent
  <2>2. \A b \in Banners!Banners : exits'[b] # 0 => b = active /\ exits'[b] = 1
    BY <1>0, <1>2, <2>1 DEF Alone
  <2> QED BY <1>2, <2>1, <2>2 DEF Alone
<1>3. ASSUME NEW b \in Banners!Banners, Patient!clickClose(b)
      PROVE  Alone'
  <2>1. active = b /\ active # 0
    BY <1>0, <1>3 DEF Patient!clickClose, Alone
  <2>2. exits[active] = 0
    BY <1>0, <1>3, <2>1 DEF Patient!clickClose, Patient!Leaving
  <2>3. Patient!dismissCurrent(autos)
    BY <1>3 DEF Patient!clickClose
  <2> QED BY <1>2, <2>1, <2>2, <2>3 DEF Alone
<1>4. ASSUME NEW b \in Banners!Banners, Patient!autoDismiss(b)
      PROVE  Alone'
  <2>1. autos = {active} /\ b = active /\ active # 0 /\ handle = active
    BY <1>0, <1>4 DEF Patient!autoDismiss, Alone
  <2>2. exits[active] = 0
    BY <1>0, <2>1 DEF Alone
  <2>3. Patient!dismissCurrent({})
    BY <1>4, <2>1 DEF Patient!autoDismiss
  <2> QED BY <1>2, <2>1, <2>2, <2>3
<1>5. ASSUME NEW b \in Banners!Banners, Patient!exitEnds(b)
      PROVE  Alone'
  <2>1. b = active /\ exits[b] = 1 /\ autos = {} /\ active # 0 /\ shown = {b}
    BY <1>0, <1>5 DEF Patient!exitEnds, Patient!Leaving, Alone
  <2>2. exits' = [exits EXCEPT ![b] = @ - 1] /\ Patient!processQueue(0, queue, shown \ {b})
    BY <1>5 DEF Patient!exitEnds
  <2>3. \A d \in Banners!Banners : exits'[d] = 0
    BY <1>0, <2>1, <2>2 DEF Alone
  <2>4. shown \ {b} = {}
    BY <2>1
  <2>5. CASE queue = <<>>
    <3>1. active' = 0 /\ queue' = <<>> /\ shown' = {} /\ autos' = autos
      BY <2>2, <2>4, <2>5 DEF Patient!processQueue
    <3> QED BY <2>1, <2>3, <3>1 DEF Alone
  <2>6. CASE queue # <<>>
    <3>1. Head(queue) \in Banners!Banners
      BY <1>0, <2>6, HeadTailProperties
    <3>2. active' = Head(queue) /\ shown' = {Head(queue)} /\ handle' = Head(queue) /\ autos' = {Head(queue)}
      BY <2>1, <2>2, <2>4, <2>6 DEF Patient!processQueue
    <3> QED BY <1>0, <2>3, <3>1, <3>2 DEF Alone
  <2> QED BY <2>5, <2>6
<1>6. CASE UNCHANGED bannerVars
  BY <1>6 DEF bannerVars, Alone
<1>7. Patient!Banners = Banners!Banners
  BY DEF Patient!Banners, Banners!Banners
<1> QED BY <1>1, <1>3, <1>4, <1>5, <1>6, <1>7 DEF Patient!Next

LEMMA BannersStart ==
  ASSUME Banners!Init, Banners!NotificationsAssumption
  PROVE  InTurn /\ Alone
<1>1. order \o queue = Counted(idSeq)
  BY DEF Banners!Init, Counted
<1>2. Banners!TypeOK
  BY DEF Banners!Init, Banners!TypeOK, Banners!NotificationsAssumption
<1> QED BY <1>1, <1>2 DEF InTurn, Alone, Banners!Init

LEMMA AloneIsOneBanner ==
  ASSUME Alone
  PROVE  Patient!OneBanner
<1>1. shown = {} \/ shown = {active}
  BY DEF Alone
<1>2. Cardinality({}) = 0 /\ Cardinality({active}) = 1
  BY FS_EmptySet, FS_Singleton
<1>3. Cardinality(shown) <= 1
  BY <1>1, <1>2
<1> QED BY <1>3 DEF Patient!OneBanner, Patient!Cardinality, Cardinality, Patient!IsFiniteSet, IsFiniteSet

---------------------------------------------------------------------------
(* The polls and the Hermes banner.                                         *)

Of(who) == {q \in asked : q.who = who}

(* The banner is mounted once, before it is polled (main.ts:368).            *)
Requests ==
  [who : Polling!Askers, root : {0} \cup Polling!Roots, seen : BOOLEAN, id : 1 .. MaxInFlight]

Numbered ==
  /\ asked \subseteq Requests
  /\ \A q, r \in asked : q.who = r.who /\ q.id = r.id => q = r
  /\ \A q \in asked : q.root # 0 => q.who = "refresh"

OnceMounted ==
  /\ \A q, r \in Of("mount") : q = r
  /\ Of("mount") # {} => "hermes" \notin registered
  /\ mounts = 0 => Of("mount") = {} /\ "hermes" \notin registered
  /\ "hermes" \notin registered => Of("poll") = {} /\ banners = {}
  /\ \A r, s \in banners : r = s
  /\ dismissed => banners = {}

(* Of a poll, what was waited and what is left to wait make an interval.     *)
Paced ==
  \A p \in Polling!Polls :
    /\ p \in registered => wait[p] + idle[p] >= Interval[p]
    /\ p \notin registered => idle[p] = Interval[p]

PollsPaced == Polling!TypeOK /\ Numbered /\ OnceMounted /\ Paced

(* A request has a number no other of its asker has, and a banner a place    *)
(* that no refresh is about.                                                *)
LEMMA Asks ==
  ASSUME Polling!TypeOK, NEW who \in Polling!Askers, NEW root \in {0} \cup Polling!Roots, Polling!Free(who) # {}
  PROVE  /\ Polling!Request(who, root) \in Requests
         /\ Polling!Request(who, root).who = who /\ Polling!Request(who, root).root = root
         /\ \A q \in asked : q.who = who => q.id # Polling!Request(who, root).id
<1> DEFINE i == CHOOSE i \in Polling!Free(who) : TRUE
<1>1. i \in Polling!Free(who)
  OBVIOUS
<1>2. i \in 1 .. MaxInFlight /\ \A q \in asked : q.who = who => q.id # i
  BY <1>1 DEF Polling!Free
<1>3. Polling!Request(who, root) = [who |-> who, root |-> root, seen |-> services[Polling!PollOf(who)], id |-> i]
  BY DEF Polling!Request
<1>4. services[Polling!PollOf(who)] \in BOOLEAN
  BY DEF Polling!TypeOK, Polling!PollOf, Polling!Polls
<1> HIDE DEF i
<1> QED BY <1>2, <1>3, <1>4 DEF Requests

LEMMA FindsARoot ==
  ASSUME Numbered, MaxInFlight \in Nat, banners = {}
  PROVE  Polling!NewRoot \in Polling!Roots
<1> DEFINE M == MaxInFlight
           Free(r) == \A q \in asked : q.root # r
           f == [r \in Polling!Roots |-> (CHOOSE q \in asked : q.root = r).id]
<1>1. SUFFICES \E r \in Polling!Roots : Free(r)
  BY DEF Polling!NewRoot
<1>2. SUFFICES ASSUME \A r \in Polling!Roots : ~Free(r)
               PROVE  FALSE
  OBVIOUS
<1>3. \A r \in Polling!Roots : \E q \in asked : q.root = r
  BY <1>2
<1>4. ASSUME NEW r \in Polling!Roots
      PROVE  \E q \in asked : q.root = r /\ q.id = f[r] /\ q.who = "refresh" /\ f[r] \in 1 .. M
  <2> DEFINE q == CHOOSE q \in asked : q.root = r
  <2>1. q \in asked /\ q.root = r
    BY <1>3
  <2>2. q.id = f[r]
    OBVIOUS
  <2>3. q.who = "refresh"
    BY <2>1 DEF Numbered, Polling!Roots
  <2>4. q.id \in 1 .. M
    BY <2>1 DEF Numbered, Requests
  <2> HIDE DEF q, f
  <2> QED BY <2>1, <2>2, <2>3, <2>4
<1>5. f \in [Polling!Roots -> 1 .. M]
  <2>1. \A r \in Polling!Roots : f[r] \in 1 .. M
    BY <1>4
  <2> QED BY <2>1
<1>6. \A r, s \in Polling!Roots : f[r] = f[s] => r = s
  <2> HIDE DEF f
  <2> QED BY <1>4 DEF Numbered
<1>7. IsFiniteSet(1 .. M) /\ Cardinality(1 .. M) = M
  BY 1 \in Int, M \in Int, FS_Interval
<1>8. IsFiniteSet(Polling!Roots) /\ Cardinality(Polling!Roots) = M + 1
  <2>1. 1 \in Int /\ M + 1 \in Int /\ ~(1 > M + 1) /\ (M + 1) - 1 + 1 = M + 1
    OBVIOUS
  <2> QED BY <2>1, FS_Interval DEF Polling!Roots
<1> HIDE DEF f
<1>9. \E r, s \in Polling!Roots : r # s /\ f[r] = f[s]
  BY <1>5, <1>7, <1>8, FS_PigeonHole
<1> QED BY <1>6, <1>9

LEMMA Grows ==
  ASSUME Numbered, NEW N, asked' = asked \cup N,
         \A q \in N : q \in Requests /\ (q.root # 0 => q.who = "refresh"),
         \A q \in N : \A r \in asked : r.who = q.who => r.id # q.id,
         \A q, r \in N : q.who = r.who => q = r
  PROVE  /\ Numbered'
         /\ \A who : Of(who)' = Of(who) \cup {q \in N : q.who = who}
<1>1. Numbered'
  <2>1. asked' \subseteq Requests
    BY DEF Numbered
  <2>2. \A q, r \in asked' : q.who = r.who /\ q.id = r.id => q = r
    BY DEF Numbered
  <2>3. \A q \in asked' : q.root # 0 => q.who = "refresh"
    BY DEF Numbered
  <2> QED BY <2>1, <2>2, <2>3 DEF Numbered, Requests, Polling!Roots, Polling!Askers
<1>2. \A who : Of(who)' = Of(who) \cup {q \in N : q.who = who}
  BY DEF Of
<1> QED BY <1>1, <1>2

LEMMA AsksOne ==
  ASSUME Polling!TypeOK, Numbered, NEW who \in Polling!Askers, NEW root \in {0} \cup Polling!Roots,
         Polling!Free(who) # {}, root # 0 => who = "refresh",
         asked' = asked \cup {Polling!Request(who, root)}
  PROVE  /\ Numbered' /\ \A w : w # who => Of(w)' = Of(w)
         /\ Of(who)' = Of(who) \cup {Polling!Request(who, root)}
<1> DEFINE q == Polling!Request(who, root)
<1>1. q \in Requests /\ q.who = who /\ q.root = root /\ \A r \in asked : r.who = who => r.id # q.id
  BY Asks
<1>2. asked' = asked \cup {q}
  OBVIOUS
<1> HIDE DEF q
<1>3. Numbered' /\ \A w : Of(w)' = Of(w) \cup {r \in {q} : r.who = w}
  BY <1>1, <1>2, Grows
<1>4. \A w : {r \in {q} : r.who = w} = IF w = who THEN {q} ELSE {}
  BY <1>1
<1> QED BY <1>3, <1>4 DEF q

(* The callbacks of a tick: each asker asks once.                            *)
LEMMA RunAsks ==
  ASSUME Polling!TypeOK, Numbered, NEW ps \in SUBSET Polling!Polls, Polling!Run(ps)
  PROVE  /\ Numbered' /\ Of("mount")' = Of("mount")
         /\ "hermes" \notin ps => Of("poll")' = Of("poll")
<1> DEFINE N == {Polling!callback(p) : p \in ps}
<1>1. ASSUME NEW p \in ps
      PROVE  /\ Polling!callback(p) \in Requests /\ Polling!callback(p).who = Polling!Asker(p)
             /\ Polling!callback(p).root = 0
             /\ \A r \in asked : r.who = Polling!Asker(p) => r.id # Polling!callback(p).id
  <2>1. Polling!Asker(p) \in Polling!Askers /\ Polling!Free(Polling!Asker(p)) # {}
    BY DEF Polling!Run, Polling!Asker, Polling!Askers
  <2> QED BY <2>1, Asks DEF Polling!callback
<1>2. \A p \in Polling!Polls : Polling!Asker(p) = IF p = "mcp" THEN "mcp" ELSE "poll"
  BY DEF Polling!Asker
<1>3. asked' = asked \cup N
  BY DEF Polling!Run
<1>4. \A q \in N : q \in Requests /\ q.root = 0 /\ \A r \in asked : r.who = q.who => r.id # q.id
  BY <1>1
<1>5. \A q, r \in N : q.who = r.who => q = r
  BY <1>1, <1>2 DEF Polling!Polls
<1>6. \A q \in N : q.who # "mount" /\ ("hermes" \notin ps => q.who # "poll")
  BY <1>1, <1>2 DEF Polling!Polls
<1> HIDE DEF N
<1>7. Numbered' /\ \A who : Of(who)' = Of(who) \cup {q \in N : q.who = who}
  BY <1>3, <1>4, <1>5, Grows
<1> QED BY <1>6, <1>7

LEMMA MountedStays ==
  ASSUME OnceMounted, UNCHANGED <<registered, banners, dismissed, mounts>>, Of("mount")' = Of("mount"),
         "hermes" \notin registered => Of("poll")' = Of("poll")
  PROVE  OnceMounted'
BY DEF OnceMounted

LEMMA TicksOn ==
  ASSUME PollsPaced, Polling!StatusPollingAssumption,
         NEW w \in [Polling!Polls -> Nat], NEW age \in [Polling!Polls -> Nat],
         \A p \in Polling!Polls : w[p] <= Interval[p] /\ age[p] <= Interval[p],
         \A p \in Polling!Polls : p \in registered => w[p] + age[p] >= Interval[p],
         \A p \in Polling!Polls : p \notin registered => age[p] = Interval[p],
         registered' = registered, UNCHANGED <<banners, dismissed, mounts>>, Polling!onTick(w, age)
  PROVE  /\ wait' \in [Polling!Polls -> Nat] /\ \A p \in Polling!Polls : wait'[p] <= Interval[p]
         /\ idle' \in [Polling!Polls -> Nat] /\ \A p \in Polling!Polls : idle'[p] <= Interval[p]
         /\ \A p \in Polling!Polls : idle'[p] = 0 => age[p] = 0 \/ w[p] = 0
         /\ Numbered' /\ OnceMounted' /\ Paced'
<1> DEFINE due == {p \in registered : w[p] = 0}
<1>1. /\ wait' = [p \in Polling!Polls |-> IF p \in due THEN Interval[p] ELSE w[p]]
      /\ idle' = [p \in Polling!Polls |-> IF p \in due THEN 0 ELSE age[p]]
      /\ Polling!Run(due)
  BY DEF Polling!onTick
<1>2. due \subseteq registered /\ due \in SUBSET Polling!Polls /\ \A p \in due : w[p] = 0
  BY DEF PollsPaced, Polling!TypeOK
<1>3. Interval \in [Polling!Polls -> Nat]
  BY DEF Polling!StatusPollingAssumption
<1> HIDE DEF due
<1>4. Numbered' /\ Of("mount")' = Of("mount") /\ ("hermes" \notin due => Of("poll")' = Of("poll"))
  BY <1>1, <1>2, RunAsks DEF PollsPaced
<1>5. OnceMounted'
  BY <1>2, <1>4, MountedStays DEF PollsPaced
<1>6. Paced'
  BY <1>1, <1>2, <1>3 DEF Paced
<1> QED BY <1>1, <1>2, <1>3, <1>4, <1>5, <1>6

LEMMA TickHolds ==
  ASSUME PollsPaced, Polling!StatusPollingAssumption, Polling!Tick \/ Polling!visibilitychange
  PROVE  PollsPaced' /\ Polling!NoBurst
<1>1. Interval \in [Polling!Polls -> Nat \ {0}]
  BY DEF Polling!StatusPollingAssumption
<1>2. /\ wait \in [Polling!Polls -> Nat] /\ \A p \in Polling!Polls : wait[p] <= Interval[p]
      /\ idle \in [Polling!Polls -> Nat] /\ \A p \in Polling!Polls : idle[p] <= Interval[p]
      /\ \A p \in Polling!Polls : p \in registered => wait[p] + idle[p] >= Interval[p]
      /\ \A p \in Polling!Polls : p \notin registered => idle[p] = Interval[p]
      /\ registered \subseteq Polling!Polls
  BY DEF PollsPaced, Polling!TypeOK, Paced
<1>3. CASE Polling!Tick
  <2> DEFINE w == [p \in Polling!Polls |-> IF wait[p] = 0 THEN 0 ELSE wait[p] - 1]
             age == [p \in Polling!Polls |-> IF idle[p] = Interval[p] THEN idle[p] ELSE idle[p] + 1]
  <2>1. /\ w \in [Polling!Polls -> Nat] /\ age \in [Polling!Polls -> Nat]
        /\ \A p \in Polling!Polls : w[p] <= Interval[p] /\ age[p] <= Interval[p]
        /\ \A p \in Polling!Polls : p \in registered => w[p] + age[p] >= Interval[p]
        /\ \A p \in Polling!Polls : p \notin registered => age[p] = Interval[p]
        /\ \A p \in Polling!Polls : age[p] # 0
        /\ \A p \in Polling!Polls : w[p] = 0 => wait[p] <= 1
    BY <1>1, <1>2
  <2>2. IF hidden THEN wait' = w /\ idle' = age /\ asked' = asked ELSE Polling!onTick(w, age)
    BY <1>3 DEF Polling!Tick
  <2>3. UNCHANGED <<services, registered, hidden, banners, dismissed, mcpShown, mounts, changes>>
    BY <1>3 DEF Polling!Tick, Polling!dom
  <2> HIDE DEF w, age
  <2>4. CASE hidden
    <3>1. Numbered' /\ OnceMounted'
      BY <2>2, <2>3, <2>4 DEF PollsPaced, Numbered, OnceMounted, Of
    <3>2. Paced'
      BY <2>1, <2>2, <2>3, <2>4 DEF Paced
    <3>3. Polling!TypeOK'
      BY <2>1, <2>2, <2>3, <2>4 DEF PollsPaced, Polling!TypeOK
    <3>4. Polling!NoBurst
      BY <1>2, <2>1, <2>2, <2>4 DEF Polling!NoBurst
    <3> QED BY <3>1, <3>2, <3>3, <3>4 DEF PollsPaced
  <2>5. CASE ~hidden
    <3>1. /\ wait' \in [Polling!Polls -> Nat] /\ \A p \in Polling!Polls : wait'[p] <= Interval[p]
          /\ idle' \in [Polling!Polls -> Nat] /\ \A p \in Polling!Polls : idle'[p] <= Interval[p]
          /\ \A p \in Polling!Polls : idle'[p] = 0 => age[p] = 0 \/ w[p] = 0
          /\ Numbered' /\ OnceMounted' /\ Paced'
      BY <2>1, <2>2, <2>3, <2>5, TicksOn
    <3>2. Polling!TypeOK'
      BY <2>3, <3>1 DEF PollsPaced, Polling!TypeOK, Numbered, Requests
    <3>3. Polling!NoBurst
      BY <1>1, <1>2, <2>1, <2>3, <3>1 DEF Polling!NoBurst
    <3> QED BY <3>1, <3>2, <3>3 DEF PollsPaced
  <2> QED BY <2>4, <2>5
<1>4. CASE Polling!visibilitychange
  <2>1. UNCHANGED <<services, registered, banners, dismissed, mcpShown, mounts, changes>> /\ hidden' \in BOOLEAN
    BY <1>4 DEF Polling!visibilitychange, Polling!dom, PollsPaced, Polling!TypeOK
  <2>2. CASE hidden
    <3>1. /\ wait' \in [Polling!Polls -> Nat] /\ \A p \in Polling!Polls : wait'[p] <= Interval[p]
          /\ idle' \in [Polling!Polls -> Nat] /\ \A p \in Polling!Polls : idle'[p] <= Interval[p]
          /\ \A p \in Polling!Polls : idle'[p] = 0 => idle[p] = 0 \/ wait[p] = 0
          /\ Numbered' /\ OnceMounted' /\ Paced'
      BY <1>2, <1>4, <2>1, <2>2, TicksOn DEF Polling!visibilitychange
    <3>2. Polling!TypeOK'
      BY <2>1, <3>1 DEF PollsPaced, Polling!TypeOK, Numbered, Requests
    <3>3. Polling!NoBurst
      BY <1>1, <1>2, <3>1 DEF Polling!NoBurst
    <3> QED BY <3>1, <3>2, <3>3 DEF PollsPaced
  <2>3. CASE ~hidden
    <3>1. UNCHANGED <<wait, idle, asked>>
      BY <1>4, <2>3 DEF Polling!visibilitychange
    <3>2. Numbered' /\ OnceMounted' /\ Paced'
      BY <2>1, <3>1 DEF PollsPaced, Numbered, OnceMounted, Paced, Of
    <3>3. Polling!TypeOK' /\ Polling!NoBurst
      BY <2>1, <3>1 DEF PollsPaced, Polling!TypeOK, Polling!NoBurst
    <3> QED BY <3>2, <3>3 DEF PollsPaced
  <2> QED BY <2>2, <2>3
<1> QED BY <1>3, <1>4

LEMMA StartHolds ==
  ASSUME PollsPaced, Polling!StatusPollingAssumption, Polling!startMcpStatusPolling
  PROVE  PollsPaced' /\ Polling!NoBurst
<1>1. /\ "mcp" \notin registered /\ registered' = registered \cup {"mcp"}
      /\ wait' = [wait EXCEPT !["mcp"] = Interval["mcp"]]
      /\ UNCHANGED <<services, hidden, banners, dismissed, mcpShown, mounts, changes>>
  BY DEF Polling!startMcpStatusPolling, Polling!dom
<1>2. Interval \in [Polling!Polls -> Nat \ {0}] /\ "mcp" \in Polling!Polls
  BY DEF Polling!StatusPollingAssumption, Polling!Polls
<1>3. /\ wait \in [Polling!Polls -> Nat] /\ idle \in [Polling!Polls -> Nat]
      /\ \A p \in Polling!Polls : wait[p] <= Interval[p] /\ idle[p] <= Interval[p]
      /\ registered \subseteq Polling!Polls
  BY DEF PollsPaced, Polling!TypeOK
<1>4. Numbered' /\ Of("mount")' = Of("mount") /\ Of("poll")' = Of("poll")
  <2>1. CASE hidden
    BY <2>1 DEF Polling!startMcpStatusPolling, PollsPaced, Numbered, Of
  <2>2. CASE ~hidden
    <3>1. Polling!Run({"mcp"})
      BY <2>2 DEF Polling!startMcpStatusPolling
    <3> QED BY <1>2, <3>1, RunAsks DEF PollsPaced
  <2> QED BY <2>1, <2>2
<1>5. OnceMounted'
  BY <1>1, <1>4 DEF PollsPaced, OnceMounted
<1>6. idle' = idle \/ idle' = [idle EXCEPT !["mcp"] = 0]
  BY DEF Polling!startMcpStatusPolling
<1>7. Paced'
  BY <1>1, <1>2, <1>3, <1>6 DEF PollsPaced, Paced
<1>8. Polling!TypeOK'
  <2>1. /\ wait' \in [Polling!Polls -> Nat] /\ idle' \in [Polling!Polls -> Nat]
        /\ \A p \in Polling!Polls : wait'[p] <= Interval[p] /\ idle'[p] <= Interval[p]
        /\ registered' \subseteq Polling!Polls
    BY <1>1, <1>2, <1>3, <1>6
  <2> QED BY <1>1, <1>4, <2>1 DEF PollsPaced, Polling!TypeOK, Numbered, Requests
<1>9. Polling!NoBurst
  BY <1>1, <1>3, <1>6 DEF Polling!NoBurst
<1> QED BY <1>4, <1>5, <1>7, <1>8, <1>9 DEF PollsPaced

LEMMA Undisturbed ==
  ASSUME PollsPaced, UNCHANGED <<registered, wait, idle>>
  PROVE  Paced' /\ Polling!NoBurst
BY DEF PollsPaced, Paced, Polling!NoBurst, Polling!TypeOK

LEMMA MountHolds ==
  ASSUME PollsPaced, Polling!StatusPollingAssumption, Mounts <= 1, Polling!mountHermesStatusBanner
  PROVE  PollsPaced' /\ Polling!NoBurst
<1>1. /\ mounts = 0 /\ mounts' \in 0 .. Mounts /\ mounts' # 0
      /\ UNCHANGED <<services, registered, wait, idle, hidden, banners, dismissed, mcpShown, changes>>
  BY DEF Polling!mountHermesStatusBanner, Polling!sched, Polling!dom, PollsPaced, Polling!TypeOK,
     Polling!StatusPollingAssumption
<1>2. Of("mount") = {} /\ "hermes" \notin registered /\ banners = {} /\ Of("poll") = {}
  BY <1>1 DEF PollsPaced, OnceMounted
<1>3. asked' = asked \cup {Polling!Request("mount", 0)} /\ Polling!Free("mount") # {}
  BY <1>2 DEF Polling!mountHermesStatusBanner
<1>4. /\ Numbered' /\ Of("poll")' = Of("poll")
      /\ Of("mount")' = Of("mount") \cup {Polling!Request("mount", 0)}
  BY <1>3, AsksOne DEF PollsPaced, Polling!Askers
<1>5. OnceMounted'
  BY <1>1, <1>2, <1>4 DEF OnceMounted, PollsPaced
<1>6. Polling!TypeOK'
  BY <1>1, <1>4 DEF PollsPaced, Polling!TypeOK, Numbered, Requests
<1> QED BY <1>1, <1>4, <1>5, <1>6, Undisturbed DEF PollsPaced

LEMMA ClickHolds ==
  ASSUME PollsPaced, NEW r \in Polling!Roots, Polling!clickClose(r) \/ Polling!clickRefresh(r)
  PROVE  PollsPaced' /\ Polling!NoBurst
<1>1. CASE Polling!clickClose(r)
  <2>1. /\ UNCHANGED <<services, registered, wait, idle, hidden, asked, mcpShown, mounts, changes>>
        /\ r \in banners /\ dismissed' = TRUE /\ banners' = banners \ {r}
    BY <1>1 DEF Polling!clickClose, Polling!sched
  <2>2. banners' = {} /\ "hermes" \in registered
    BY <2>1 DEF PollsPaced, OnceMounted
  <2>3. Numbered' /\ OnceMounted'
    BY <2>1, <2>2 DEF PollsPaced, Numbered, OnceMounted, Of
  <2>4. Polling!TypeOK'
    BY <2>1, <2>2 DEF PollsPaced, Polling!TypeOK
  <2> QED BY <2>1, <2>3, <2>4, Undisturbed DEF PollsPaced
<1>2. CASE Polling!clickRefresh(r)
  <2>1. /\ UNCHANGED <<services, registered, wait, idle, hidden, banners, dismissed, mcpShown, mounts, changes>>
        /\ asked' = asked \cup {Polling!Request("refresh", r)} /\ Polling!Free("refresh") # {}
    BY <1>2 DEF Polling!clickRefresh, Polling!sched, Polling!dom
  <2>2. Numbered' /\ Of("mount")' = Of("mount") /\ Of("poll")' = Of("poll")
    BY <2>1, AsksOne DEF PollsPaced, Polling!Askers
  <2>3. OnceMounted'
    BY <2>1, <2>2, MountedStays DEF PollsPaced
  <2>4. Polling!TypeOK'
    BY <2>1, <2>2 DEF PollsPaced, Polling!TypeOK, Numbered, Requests
  <2> QED BY <2>1, <2>2, <2>3, <2>4, Undisturbed DEF PollsPaced
<1> QED BY <1>1, <1>2

(* An answer that comes after the banner was closed shows nothing.          *)
LEMMA AnswerHolds ==
  ASSUME PollsPaced, Polling!StatusPollingAssumption, NEW q \in asked, Polling!Answers(q)
  PROVE  PollsPaced' /\ Polling!NoBurst
<1>1. PICK ok \in {q.seen, services[Polling!PollOf(q.who)]} :
        /\ asked' = asked \ {q}
        /\ \/ Polling!McpAnswers(q, ok) \/ Polling!MountAnswers(q, ok)
           \/ Polling!pollHermesBanner(q, ok) \/ Polling!RefreshAnswers(q, ok)
        /\ UNCHANGED <<services, idle, hidden, mounts, changes>>
  BY DEF Polling!Answers
<1>2. ok \in BOOLEAN
  BY DEF PollsPaced, Polling!TypeOK, Polling!PollOf, Polling!Polls
<1>3. Numbered' /\ \A who : Of(who)' = Of(who) \ {q}
  BY <1>1 DEF PollsPaced, Numbered, Of, Requests, Polling!Roots, Polling!Askers
<1>4. Polling!NewRoot \in Polling!Roots \/ banners # {}
  BY FindsARoot DEF PollsPaced, Polling!StatusPollingAssumption
<1>5. CASE Polling!McpAnswers(q, ok)
  <2>1. UNCHANGED <<registered, wait, banners, dismissed>> /\ mcpShown' \in BOOLEAN
    BY <1>2, <1>5 DEF Polling!McpAnswers, Polling!setMcpStatus
  <2>2. OnceMounted'
    BY <1>1, <1>3, <2>1 DEF PollsPaced, OnceMounted
  <2>3. Polling!TypeOK'
    BY <1>1, <2>1 DEF PollsPaced, Polling!TypeOK
  <2> QED BY <1>1, <1>3, <2>1, <2>2, <2>3, Undisturbed DEF PollsPaced
<1>6. CASE Polling!MountAnswers(q, ok)
  <2>1. /\ UNCHANGED <<dismissed, mcpShown>> /\ q \in Of("mount")
        /\ registered' = registered \cup {"hermes"}
        /\ banners' = IF Polling!HasHtml(ok) THEN banners \cup {Polling!NewRoot} ELSE banners
    BY <1>6 DEF Polling!MountAnswers, Of
  <2>2. "hermes" \notin registered /\ banners = {} /\ Of("mount") \ {q} = {} /\ mounts # 0
    BY <2>1 DEF PollsPaced, OnceMounted
  <2>3. wait' = [wait EXCEPT !["hermes"] = 0]
    BY <1>6, <2>2 DEF Polling!MountAnswers
  <2>4. banners' \in {{}, {Polling!NewRoot}} /\ (dismissed => banners' = {})
    BY <2>1, <2>2 DEF Polling!HasHtml
  <2>5. OnceMounted'
    <3>1. "hermes" \in registered' /\ Of("mount")' = {} /\ mounts' # 0
      BY <1>1, <1>3, <2>1, <2>2
    <3>2. \A r, s \in banners' : r = s
      BY <2>4
    <3> QED BY <2>1, <2>4, <3>1, <3>2 DEF OnceMounted
  <2>6. /\ wait' \in [Polling!Polls -> Nat] /\ idle' = idle /\ "hermes" \in Polling!Polls
        /\ \A p \in Polling!Polls : wait'[p] <= Interval[p]
    BY <1>1, <2>3 DEF PollsPaced, Polling!TypeOK, Polling!Polls, Polling!StatusPollingAssumption
  <2>7. Paced'
    BY <2>1, <2>2, <2>3, <2>6 DEF PollsPaced, Polling!TypeOK, Paced, Polling!StatusPollingAssumption
  <2>8. Polling!TypeOK'
    BY <1>1, <1>4, <2>1, <2>2, <2>4, <2>6 DEF PollsPaced, Polling!TypeOK
  <2>9. Polling!NoBurst
    BY <2>6 DEF Polling!NoBurst
  <2> QED BY <1>3, <2>5, <2>7, <2>8, <2>9 DEF PollsPaced
<1>7. CASE Polling!pollHermesBanner(q, ok) \/ Polling!RefreshAnswers(q, ok)
  <2>1. UNCHANGED <<registered, wait, dismissed, mcpShown>>
    BY <1>7 DEF Polling!pollHermesBanner, Polling!RefreshAnswers
  <2>2. \/ banners' \subseteq banners
        \/ banners = {} /\ ~dismissed /\ "hermes" \in registered /\ banners' = {Polling!NewRoot}
    <3>1. CASE Polling!RefreshAnswers(q, ok)
      BY <3>1 DEF Polling!RefreshAnswers
    <3>2. CASE Polling!pollHermesBanner(q, ok)
      <4>1. "hermes" \in registered
        BY <3>2 DEF Polling!pollHermesBanner, PollsPaced, OnceMounted, Of
      <4> QED BY <3>2, <4>1 DEF Polling!pollHermesBanner, Polling!HasHtml
    <3> QED BY <1>7, <3>1, <3>2
  <2>3. OnceMounted'
    <3>1. \A r, s \in banners' : r = s
      BY <2>2 DEF PollsPaced, OnceMounted
    <3>2. ("hermes" \notin registered => banners' = {}) /\ (dismissed => banners' = {})
      BY <2>2 DEF PollsPaced, OnceMounted
    <3> QED BY <1>1, <1>3, <2>1, <3>1, <3>2 DEF PollsPaced, OnceMounted
  <2>4. Polling!TypeOK'
    BY <1>1, <1>4, <2>1, <2>2 DEF PollsPaced, Polling!TypeOK
  <2> QED BY <1>1, <1>3, <2>1, <2>3, <2>4, Undisturbed DEF PollsPaced
<1> QED BY <1>1, <1>5, <1>6, <1>7

LEMMA ChangeHolds ==
  ASSUME PollsPaced, Polling!StatusPollingAssumption, NEW p \in Polling!Polls, Polling!Change(p)
  PROVE  PollsPaced' /\ Polling!NoBurst
<1>1. /\ UNCHANGED <<registered, wait, idle, hidden, asked, banners, dismissed, mcpShown, mounts>>
      /\ changes' = changes + 1 /\ changes < MaxChanges /\ services' = [services EXCEPT ![p] = ~@]
  BY DEF Polling!Change, Polling!sched, Polling!dom
<1>2. services' \in [Polling!Polls -> BOOLEAN] /\ changes' \in 0 .. MaxChanges
  BY <1>1 DEF PollsPaced, Polling!TypeOK, Polling!StatusPollingAssumption
<1>3. Numbered' /\ OnceMounted' /\ Polling!TypeOK'
  BY <1>1, <1>2 DEF PollsPaced, Numbered, OnceMounted, Of, Polling!TypeOK
<1> QED BY <1>1, <1>3, Undisturbed DEF PollsPaced

LEMMA PollSteps ==
  ASSUME PollsPaced, Polling!StatusPollingAssumption, Mounts <= 1, Polling!Next \/ UNCHANGED pollingVars
  PROVE  PollsPaced' /\ Polling!NoBurst
<1>1. CASE Polling!Next
  BY <1>1, TickHolds, StartHolds, MountHolds, ClickHolds, AnswerHolds, ChangeHolds DEF Polling!Next
<1>2. CASE UNCHANGED pollingVars
  <2>1. Numbered' /\ OnceMounted' /\ Polling!TypeOK'
    BY <1>2 DEF pollingVars, PollsPaced, Numbered, OnceMounted, Of, Polling!TypeOK
  <2> QED BY <1>2, <2>1, Undisturbed DEF pollingVars, PollsPaced
<1> QED BY <1>1, <1>2

LEMMA PollsStart ==
  ASSUME Polling!Init, Polling!StatusPollingAssumption
  PROVE  PollsPaced
<1>1. Numbered /\ OnceMounted
  BY DEF Polling!Init, Numbered, OnceMounted, Of
<1>2. Paced
  BY DEF Polling!Init, Paced
<1>3. Polling!TypeOK
  <2>1. dismissed \in BOOLEAN /\ mcpShown \in BOOLEAN /\ hidden \in BOOLEAN
    BY Zenon DEF Polling!Init
  <2>2. /\ wait \in [Polling!Polls -> Nat] /\ \A p \in Polling!Polls : wait[p] <= Interval[p]
        /\ idle \in [Polling!Polls -> Nat] /\ \A p \in Polling!Polls : idle[p] <= Interval[p]
        /\ mounts \in 0 .. Mounts /\ changes \in 0 .. MaxChanges
    BY DEF Polling!Init, Polling!StatusPollingAssumption
  <2>3. services \in [Polling!Polls -> BOOLEAN] /\ registered = {} /\ asked = {} /\ banners = {}
    BY DEF Polling!Init
  <2> QED BY <2>1, <2>2, <2>3 DEF Polling!TypeOK
<1> QED BY <1>1, <1>2, <1>3 DEF PollsPaced

---------------------------------------------------------------------------
(* The cards and the panel of the approvals.                                *)

Outcome(approve) == IF approve THEN "approved" ELSE "rejected"

(* What is said of a command, in an event, an answer or a card, is what the  *)
(* server decided; nothing asks to open a card that says expired.           *)
EventsTrue ==
  /\ \A i \in 1 .. Len(events) : events[i][1] = "expired" => server[events[i][2]] = "expired"
  /\ \A i \in 1 .. Len(events) : server[events[i][2]] # "none"
  /\ \A i, j \in 1 .. Len(events) : i < j /\ events[i][1] = "expired" /\ events[j][1] = "waiting"
                                   => events[i][2] # events[j][2]
  /\ \A i \in 1 .. Len(events) : events[i][1] = "waiting" => card[events[i][2]] # "expired"

AnswersTrue == \A d \in decisions : d.answer = "ok" => server[d.cmd] = Outcome(d.approve)

Truthful == Cards!CardTruthful /\ EventsTrue /\ AnswersTrue

(* A press that awaits a second one is the panel's last.                    *)
Confirmed == \A k \in confirming : last[k] = "approve"

CardsHold == Cards!TypeOK /\ Truthful /\ Confirmed

(* A command that was decided stays so.                                     *)
LEMMA Appends ==
  ASSUME NEW S, NEW s \in Seq(S), NEW e \in S
  PROVE  /\ Append(s, e) \in Seq(S) /\ Len(Append(s, e)) = Len(s) + 1 /\ Append(s, e)[Len(s) + 1] = e
         /\ \A i \in 1 .. Len(s) : Append(s, e)[i] = s[i]
BY LenProperties

LEMMA EventComes ==
  ASSUME CardsHold, NEW k \in Cmds, NEW kind \in {"waiting", "expired"},
         server[k] = IF kind = "waiting" THEN "none" ELSE "pending",
         server' = [server EXCEPT ![k] = IF kind = "waiting" THEN "pending" ELSE "expired"],
         events' = Append(events, <<kind, k>>), UNCHANGED <<card, items, confirming, disabled, last, decisions, fetches, failures>>
  PROVE  CardsHold'
<1> DEFINE n == Len(events)
           e == <<kind, k>>
           E == {"waiting", "expired"} \X Cmds
<1>1. /\ server \in [Cmds -> Cards!Status] /\ events \in Seq(E) /\ e \in E /\ n \in Nat
      /\ \A i \in 1 .. n : events[i] \in E
  BY LenProperties, ElementOfSeq DEF CardsHold, Cards!TypeOK
<1>2. /\ events' \in Seq(E) /\ Len(events') = n + 1 /\ events'[n + 1] = e
      /\ \A i \in 1 .. n : events'[i] = events[i]
  BY <1>1, Appends
<1>3. server' \in [Cmds -> Cards!Status] /\ \A o \in Cmds : o # k => server'[o] = server[o]
  BY <1>1 DEF Cards!Status
<1>4. e[1] = kind /\ e[2] = k /\ server'[k] = IF kind = "waiting" THEN "pending" ELSE "expired"
  BY <1>1
<1>5. \A i \in 1 .. n + 1 : i \in 1 .. n \/ i = n + 1
  BY <1>1
<1> HIDE DEF n, e
<1>6. Cards!TypeOK'
  BY <1>2, <1>3 DEF CardsHold, Cards!TypeOK
<1>7. Cards!CardTruthful'
  BY <1>3, <1>4 DEF CardsHold, Truthful, Cards!CardTruthful
<1>8. \A i \in 1 .. n + 1 : /\ events'[i][1] = "expired" => server'[events'[i][2]] = "expired"
                            /\ server'[events'[i][2]] # "none"
  <2>1. ASSUME NEW i \in 1 .. n
        PROVE  /\ events'[i][1] = "expired" => server'[events'[i][2]] = "expired"
               /\ server'[events'[i][2]] # "none"
    BY <1>1, <1>2, <1>3, <1>4 DEF CardsHold, Truthful, EventsTrue, n
  <2> QED BY <1>2, <1>4, <1>5, <2>1
<1>9. \A i, j \in 1 .. n + 1 : i < j /\ events'[i][1] = "expired" /\ events'[j][1] = "waiting"
                                => events'[i][2] # events'[j][2]
  <2>1. ASSUME NEW i \in 1 .. n, events[i][1] = "expired", kind = "waiting"
        PROVE  events[i][2] # k
    BY <2>1 DEF CardsHold, Truthful, EventsTrue, n
  <2>2. ASSUME NEW i \in 1 .. n, NEW j \in 1 .. n, i < j, events[i][1] = "expired", events[j][1] = "waiting"
        PROVE  events[i][2] # events[j][2]
    BY <2>2 DEF CardsHold, Truthful, EventsTrue, n
  <2>4. \A j \in 1 .. n + 1 : ~(n + 1 < j)
    BY <1>1
  <2> SUFFICES ASSUME NEW i \in 1 .. n + 1, NEW j \in 1 .. n + 1, i < j,
                      events'[i][1] = "expired", events'[j][1] = "waiting"
               PROVE  events'[i][2] # events'[j][2]
    OBVIOUS
  <2>5. i \in 1 .. n /\ events'[i] = events[i]
    BY <1>2, <1>5, <2>4
  <2>6. CASE j \in 1 .. n
    BY <1>2, <2>2, <2>5, <2>6
  <2>7. CASE j = n + 1
    BY <1>2, <1>4, <2>1, <2>5, <2>7
  <2> QED BY <1>5, <2>6, <2>7
<1>10. \A i \in 1 .. n + 1 : events'[i][1] = "waiting" => card'[events'[i][2]] # "expired"
  <2>1. ASSUME NEW i \in 1 .. n, events[i][1] = "waiting"
        PROVE  card[events[i][2]] # "expired"
    BY <2>1 DEF CardsHold, Truthful, EventsTrue, n
  <2>2. kind = "waiting" => card[k] # "expired"
    BY DEF CardsHold, Truthful, Cards!CardTruthful
  <2> QED BY <1>2, <1>4, <1>5, <2>1, <2>2
<1>11. \A d \in decisions' : d.answer = "ok" => server'[d.cmd] = Outcome(d.approve)
  <2>1. \A d \in decisions : d.cmd \in Cmds
    BY DEF CardsHold, Cards!TypeOK, Cards!Decision
  <2>2. \A d \in decisions : d.answer = "ok" => server[d.cmd] = Outcome(d.approve)
    BY DEF CardsHold, Truthful, AnswersTrue
  <2> QED BY <1>3, <2>1, <2>2 DEF Outcome
<1>12. Truthful' /\ Confirmed'
  BY <1>2, <1>7, <1>8, <1>9, <1>10, <1>11 DEF Truthful, EventsTrue, AnswersTrue, Confirmed, CardsHold, Outcome
<1> QED BY <1>6, <1>12 DEF CardsHold

(* Events are handled, or lost, in the order they were sent.                *)
LEMMA EventsLeft ==
  ASSUME CardsHold, server' = server, events' = events \/ (events # <<>> /\ events' = Tail(events)),
         \A k \in Cmds : card'[k] = "expired" =>
            card[k] = "expired" \/ (events # <<>> /\ events' = Tail(events) /\ events[1][1] = "expired" /\ events[1][2] = k)
  PROVE  events' \in Seq({"waiting", "expired"} \X Cmds) /\ EventsTrue'
<1> DEFINE E == {"waiting", "expired"} \X Cmds
<1>1. events \in Seq(E) /\ Len(events) \in Nat /\ \A i \in 1 .. Len(events) : events[i] \in E
  BY LenProperties, ElementOfSeq DEF CardsHold, Cards!TypeOK
<1>2. \A i \in 1 .. Len(events) : events[i][2] \in Cmds
  BY <1>1
<1>3. EventsTrue
  BY DEF CardsHold, Truthful
<1>4. CASE events' = Tail(events) /\ events # <<>>
  <2>1. /\ events' \in Seq(E) /\ Len(events') = Len(events) - 1
        /\ \A i \in 1 .. Len(events') : events'[i] = events[i + 1]
    BY <1>1, <1>4, HeadTailProperties
  <2>2. Len(events') \in Nat /\ \A i \in 1 .. Len(events') : i + 1 \in 1 .. Len(events) /\ 1 < i + 1
    BY <1>1, <2>1, LenProperties
  <2>3. 1 \in 1 .. Len(events)
    BY <1>1, <1>4, EmptySeq
  <2>4. \A i \in 1 .. Len(events') : /\ events'[i][1] = "expired" => server'[events'[i][2]] = "expired"
                                    /\ server'[events'[i][2]] # "none"
    BY <1>3, <2>1, <2>2 DEF EventsTrue
  <2>5. ASSUME NEW i \in 1 .. Len(events'), NEW j \in 1 .. Len(events'), i < j,
               events'[i][1] = "expired", events'[j][1] = "waiting"
        PROVE  events'[i][2] # events'[j][2]
    <3>1. i + 1 < j + 1 /\ i + 1 \in 1 .. Len(events) /\ j + 1 \in 1 .. Len(events)
      BY <2>2, <2>5
    <3>2. events'[i] = events[i + 1] /\ events'[j] = events[j + 1]
      BY <2>1
    <3> QED BY <1>3, <2>5, <3>1, <3>2 DEF EventsTrue
  <2>6. ASSUME NEW i \in 1 .. Len(events'), events'[i][1] = "waiting"
        PROVE  card'[events'[i][2]] # "expired"
    <3>1. events'[i] = events[i + 1] /\ i + 1 \in 1 .. Len(events) /\ 1 < i + 1
      BY <2>1, <2>2
    <3>2. card[events[i + 1][2]] # "expired"
      BY <1>3, <2>6, <3>1 DEF EventsTrue
    <3>3. events[1][1] = "expired" => events[1][2] # events[i + 1][2]
      BY <1>3, <2>3, <2>6, <3>1 DEF EventsTrue
    <3>4. events[i + 1][2] \in Cmds
      BY <1>2, <3>1
    <3> QED BY <3>1, <3>2, <3>3, <3>4
  <2> QED BY <2>1, <2>4, <2>5, <2>6 DEF EventsTrue
<1>5. CASE events' = events /\ ~(events' = Tail(events) /\ events # <<>>)
  <2>1. \A k \in Cmds : card'[k] = "expired" => card[k] = "expired"
    BY <1>5
  <2>2. \A i \in 1 .. Len(events) : events[i][1] = "waiting" => card'[events[i][2]] # "expired"
    BY <1>2, <1>3, <2>1 DEF EventsTrue
  <2> QED BY <1>1, <1>3, <1>5, <2>2 DEF EventsTrue
<1> QED BY <1>4, <1>5

(* What one step may not do to a card, nor the panel to a high risk.         *)
ExpiredStep == \A k \in Cmds : card[k] = "expired" => card'[k] \in {"expired", "none"}
ConfirmStep == \A k \in High : Cards!Decided(k, TRUE) \in decisions' \ decisions => last[k] = "approve"

LEMMA ServerSpeaks ==
  ASSUME CardsHold, NEW k \in Cmds, Cards!Request(k) \/ Cards!Expire(k)
  PROVE  CardsHold' /\ ExpiredStep /\ ConfirmStep
<1>1. CardsHold'
  BY EventComes DEF Cards!Request, Cards!Expire, Cards!panel
<1>2. card' = card /\ decisions' = decisions
  BY DEF Cards!Request, Cards!Expire
<1> QED BY <1>1, <1>2 DEF ExpiredStep, ConfirmStep

(* The server takes a decision on a pending command, and no other.          *)
LEMMA DecideHolds ==
  ASSUME CardsHold, NEW d \in decisions, Cards!Decide(d)
  PROVE  CardsHold' /\ ExpiredStep /\ ConfirmStep
<1> DEFINE k == d.cmd
           answer == IF server[k] = "pending" THEN "ok" ELSE "refused"
           e == [d EXCEPT !.answer = answer]
<1>1. /\ decisions' = (decisions \ {d}) \cup {e}
      /\ server' = IF server[k] = "pending" THEN [server EXCEPT ![k] = Outcome(d.approve)] ELSE server
      /\ UNCHANGED <<events, card, items, confirming, disabled, last, fetches, failures>>
  BY DEF Cards!Decide, Cards!panel, Outcome
<1>2. /\ decisions \subseteq Cards!Decision /\ d \in Cards!Decision /\ k \in Cmds /\ d.approve \in BOOLEAN
      /\ server \in [Cmds -> Cards!Status]
  BY DEF CardsHold, Cards!TypeOK, Cards!Decision
<1>3. answer \in {"ok", "refused"} /\ (answer = "ok" => server[k] = "pending")
  OBVIOUS
<1> HIDE DEF answer
<1>4. e \in Cards!Decision /\ e.answer = answer /\ e.cmd = k /\ e.approve = d.approve
  BY <1>2, <1>3 DEF Cards!Decision
<1>5. Outcome(d.approve) \in {"approved", "rejected"}
  BY DEF Outcome
<1> HIDE DEF e, k
<1>6. server' \in [Cmds -> Cards!Status] /\ \A o \in Cmds : server[o] # "pending" => server'[o] = server[o]
  BY <1>1, <1>2, <1>5 DEF Cards!Status
<1>7. Cards!TypeOK'
  BY <1>1, <1>2, <1>4, <1>6 DEF CardsHold, Cards!TypeOK
<1>8. Cards!CardTruthful'
  BY <1>1, <1>6 DEF CardsHold, Truthful, Cards!CardTruthful
<1>9. EventsTrue'
  <2>1. \A i \in 1 .. Len(events) : events[i][2] \in Cmds
    BY ElementOfSeq DEF CardsHold, Cards!TypeOK
  <2>2. EventsTrue
    BY DEF CardsHold, Truthful
  <2>3. \A o \in Cmds : /\ server[o] = "expired" => server'[o] = "expired"
                      /\ server[o] # "none" => server'[o] # "none"
    BY <1>1, <1>2, <1>5, <1>6 DEF Cards!Status
  <2> QED BY <1>1, <2>1, <2>2, <2>3 DEF EventsTrue
<1>10. AnswersTrue'
  <2>1. ASSUME NEW o \in decisions, o.answer = "ok"
        PROVE  server'[o.cmd] = Outcome(o.approve)
    <3>1. server[o.cmd] = Outcome(o.approve) /\ o.cmd \in Cmds
      BY <1>2, <2>1 DEF CardsHold, Truthful, AnswersTrue, Cards!Decision
    <3>2. server[o.cmd] # "pending"
      BY <3>1 DEF Outcome
    <3> QED BY <1>6, <3>1, <3>2
  <2>2. e.answer = "ok" => server'[e.cmd] = Outcome(e.approve)
    BY <1>1, <1>2, <1>3, <1>4 DEF k
  <2> QED BY <1>1, <2>1, <2>2 DEF AnswersTrue, Outcome
<1>11. Confirmed'
  BY <1>1 DEF CardsHold, Confirmed
<1>12. ExpiredStep
  BY <1>1 DEF ExpiredStep
<1>13. ConfirmStep
  <2>1. \A o \in High : Cards!Decided(o, TRUE) # e
    BY <1>3, <1>4 DEF Cards!Decided
  <2> QED BY <1>1, <2>1 DEF ConfirmStep
<1> QED BY <1>7, <1>8, <1>9, <1>10, <1>11, <1>12, <1>13 DEF CardsHold, Truthful

LEMMA LoseHolds ==
  ASSUME CardsHold, Cards!Lose, MaxLost \in Nat
  PROVE  CardsHold' /\ ExpiredStep /\ ConfirmStep
<1>1. /\ UNCHANGED <<server, card, items, confirming, disabled, last, decisions>>
      /\ events' = events \/ (events # <<>> /\ events' = Tail(events))
      /\ fetches' \subseteq fetches /\ failures < MaxLost /\ failures' = failures + 1
  BY DEF Cards!Lose, Cards!Fault, Cards!panel
<1>2. events' \in Seq({"waiting", "expired"} \X Cmds) /\ EventsTrue'
  BY <1>1, EventsLeft
<1>3. failures' \in 0 .. MaxLost /\ fetches' \subseteq [id : 1 .. MaxFetches, ids : SUBSET Cmds]
  BY <1>1 DEF CardsHold, Cards!TypeOK
<1>4. Cards!TypeOK'
  BY <1>1, <1>2, <1>3 DEF CardsHold, Cards!TypeOK
<1>5. Cards!CardTruthful' /\ AnswersTrue' /\ Confirmed'
  BY <1>1 DEF CardsHold, Truthful, Cards!CardTruthful, AnswersTrue, Confirmed
<1> QED BY <1>1, <1>2, <1>4, <1>5 DEF CardsHold, Truthful, ExpiredStep, ConfirmStep

(* A card changes: which words it may take, and what may be sent with it.    *)
CardWords == {"none", "open", "busy"} \cup Cards!Outcomes

LEMMA CardChanges ==
  ASSUME CardsHold, server' = server, UNCHANGED <<confirming, last>>,
         card' \in [Cmds -> CardWords],
         \A k \in Cmds : \/ card'[k] = card[k] \/ card'[k] \in {"none", "busy", "open", "unavailable"} \/ server[k] = card'[k],
         events' \in Seq({"waiting", "expired"} \X Cmds) /\ EventsTrue',
         decisions' \in SUBSET Cards!Decision,
         \A d \in decisions' : d \in decisions \/ (d.answer = "unsent" /\ d.from # "panel"),
         items' \subseteq Cmds, disabled' \subseteq Cmds \X BOOLEAN,
         fetches' \subseteq [id : 1 .. MaxFetches, ids : SUBSET Cmds], failures' \in 0 .. MaxLost
  PROVE  CardsHold' /\ ConfirmStep
<1>1. Cards!TypeOK'
  BY DEF CardsHold, Cards!TypeOK, CardWords
<1>2. Cards!CardTruthful'
  BY DEF CardsHold, Truthful, Cards!CardTruthful
<1>3. AnswersTrue'
  BY DEF CardsHold, Truthful, AnswersTrue, Outcome
<1>4. Confirmed'
  BY DEF CardsHold, Confirmed
<1>5. ConfirmStep
  BY DEF ConfirmStep, Cards!Decided
<1> QED BY <1>1, <1>2, <1>3, <1>4, <1>5 DEF CardsHold, Truthful

LEMMA Settles ==
  ASSUME NEW word \in CardWords, NEW outcome \in Cards!Outcomes
  PROVE  /\ Cards!settleApprovalCard(word, outcome) \in {word, outcome}
         /\ word = "expired" => Cards!settleApprovalCard(word, outcome) = "expired"
BY DEF Cards!settleApprovalCard

LEMMA EventHandled ==
  ASSUME CardsHold, Cards!HandleEvent, Trusted \subseteq Cmds
  PROVE  CardsHold' /\ ExpiredStep /\ ConfirmStep
<1> DEFINE k == Head(events)[2]
<1>1. /\ events # <<>> /\ events' = Tail(events)
      /\ UNCHANGED <<server, items, confirming, disabled, last, fetches, failures>>
  BY DEF Cards!HandleEvent, Cards!panel
<1>2. /\ events \in Seq({"waiting", "expired"} \X Cmds) /\ card \in [Cmds -> CardWords]
      /\ decisions \subseteq Cards!Decision
  BY DEF CardsHold, Cards!TypeOK, CardWords
<1>3. Head(events) = events[1] /\ events[1] \in {"waiting", "expired"} \X Cmds /\ 1 \in 1 .. Len(events)
  BY <1>1, <1>2, EmptySeq, HeadTailProperties
<1>4. k \in Cmds /\ k = events[1][2]
  BY <1>3
<1>5. EventsTrue
  BY DEF CardsHold, Truthful
<1>6. CASE events[1][1] = "waiting"
  <2>1. Cards!waiting_approval(k)
    BY <1>3, <1>6 DEF Cards!HandleEvent
  <2>2. card' \in {card, [card EXCEPT ![k] = "open"]} /\ card[k] # "expired"
    BY <1>3, <1>4, <1>5, <1>6, <2>1 DEF Cards!waiting_approval, EventsTrue
  <2>3. decisions' \in SUBSET Cards!Decision /\ \A d \in decisions' : d \in decisions \/ (d.answer = "unsent" /\ d.from # "panel")
    <3> DEFINE auto == [cmd |-> k, approve |-> TRUE, from |-> "auto", answer |-> "unsent"]
    <3>1. decisions' \in {decisions, decisions \cup {auto}}
      BY <2>1 DEF Cards!waiting_approval
    <3>2. auto \in Cards!Decision /\ auto.answer = "unsent" /\ auto.from # "panel"
      BY <1>4 DEF Cards!Decision
    <3> HIDE DEF auto
    <3> QED BY <1>2, <3>1, <3>2
  <2> HIDE DEF k
  <2>4. card' \in [Cmds -> CardWords] /\ \A o \in Cmds : card'[o] = card[o] \/ (o = k /\ card'[o] = "open")
    BY <1>2, <1>4, <2>2 DEF CardWords
  <2>5. events' \in Seq({"waiting", "expired"} \X Cmds) /\ EventsTrue'
    <3>1. \A o \in Cmds : card'[o] = "expired" => card[o] = "expired"
      BY <2>4
    <3> QED BY <1>1, <3>1, EventsLeft
  <2>6. CardsHold' /\ ConfirmStep
    <3>1. /\ items' \subseteq Cmds /\ disabled' \subseteq Cmds \X BOOLEAN
          /\ fetches' \subseteq [id : 1 .. MaxFetches, ids : SUBSET Cmds] /\ failures' \in 0 .. MaxLost
      BY <1>1 DEF CardsHold, Cards!TypeOK
    <3>2. \A o \in Cmds : card'[o] = card[o] \/ card'[o] \in {"none", "busy", "open", "unavailable"} \/ server[o] = card'[o]
      BY <2>4
    <3> QED BY <1>1, <2>3, <2>4, <2>5, <3>1, <3>2, CardChanges
  <2> QED BY <2>2, <2>4, <2>6 DEF ExpiredStep
<1>7. CASE events[1][1] = "expired"
  <2> DEFINE word == Cards!settleApprovalCard(card[k], "expired")
  <2>1. card' = [card EXCEPT ![k] = word] /\ decisions' = decisions
    BY <1>3, <1>7 DEF Cards!HandleEvent
  <2>2. word \in {card[k], "expired"} /\ (card[k] = "expired" => word = "expired") /\ word \in CardWords
    BY <1>2, <1>4, Settles DEF CardWords, Cards!Outcomes
  <2>3. server[k] = "expired"
    BY <1>3, <1>4, <1>5, <1>7 DEF EventsTrue
  <2> HIDE DEF word, k
  <2>4. card' \in [Cmds -> CardWords] /\ \A o \in Cmds : card'[o] = card[o] \/ (o = k /\ card'[o] = "expired")
    BY <1>2, <1>4, <2>1, <2>2
  <2>5. events' \in Seq({"waiting", "expired"} \X Cmds) /\ EventsTrue'
    <3>1. \A o \in Cmds : card'[o] = "expired" => card[o] = "expired" \/ events[1][2] = o
      BY <1>4, <2>4
    <3> QED BY <1>1, <1>7, <3>1, EventsLeft
  <2>6. CardsHold' /\ ConfirmStep
    <3>1. /\ items' \subseteq Cmds /\ disabled' \subseteq Cmds \X BOOLEAN
          /\ fetches' \subseteq [id : 1 .. MaxFetches, ids : SUBSET Cmds] /\ failures' \in 0 .. MaxLost
      BY <1>1 DEF CardsHold, Cards!TypeOK
    <3>2. \A o \in Cmds : card'[o] = card[o] \/ card'[o] \in {"none", "busy", "open", "unavailable"} \/ server[o] = card'[o]
      BY <2>3, <2>4
    <3> QED BY <1>1, <1>2, <2>1, <2>4, <2>5, <3>1, <3>2, CardChanges
  <2>7. ExpiredStep
    BY <2>4 DEF ExpiredStep
  <2> QED BY <2>6, <2>7
<1> QED BY <1>3, <1>6, <1>7

LEMMA CardClicked ==
  ASSUME CardsHold, NEW k \in Cmds, NEW approve \in BOOLEAN, Cards!clickCard(k, approve)
  PROVE  CardsHold' /\ ExpiredStep /\ ConfirmStep
<1> DEFINE d == [cmd |-> k, approve |-> approve, from |-> "card", answer |-> "unsent"]
<1>1. /\ card[k] = "open" /\ card' = [card EXCEPT ![k] = "busy"] /\ decisions' = decisions \cup {d}
      /\ UNCHANGED <<server, events, items, confirming, disabled, last, fetches, failures>>
  BY DEF Cards!clickCard, Cards!panel
<1>2. d \in Cards!Decision /\ d.answer = "unsent" /\ d.from # "panel"
  BY DEF Cards!Decision
<1>3. card \in [Cmds -> CardWords]
  BY DEF CardsHold, Cards!TypeOK, CardWords
<1> HIDE DEF d
<1>4. card' \in [Cmds -> CardWords] /\ \A o \in Cmds : card'[o] = card[o] \/ (o = k /\ card'[o] = "busy")
  BY <1>1, <1>3 DEF CardWords
<1>5. events' \in Seq({"waiting", "expired"} \X Cmds) /\ EventsTrue'
  <2>1. \A o \in Cmds : card'[o] = "expired" => card[o] = "expired"
    BY <1>4
  <2> QED BY <1>1, <2>1, EventsLeft
<1>6. decisions' \in SUBSET Cards!Decision /\ \A o \in decisions' : o \in decisions \/ (o.answer = "unsent" /\ o.from # "panel")
  BY <1>1, <1>2 DEF CardsHold, Cards!TypeOK
<1>7. CardsHold' /\ ConfirmStep
  <2>1. /\ items' \subseteq Cmds /\ disabled' \subseteq Cmds \X BOOLEAN
        /\ fetches' \subseteq [id : 1 .. MaxFetches, ids : SUBSET Cmds] /\ failures' \in 0 .. MaxLost
    BY <1>1 DEF CardsHold, Cards!TypeOK
  <2>2. \A o \in Cmds : card'[o] = card[o] \/ card'[o] \in {"none", "busy", "open", "unavailable"} \/ server[o] = card'[o]
    BY <1>4
  <2> QED BY <1>1, <1>4, <1>5, <1>6, <2>1, <2>2, CardChanges
<1>8. ExpiredStep
  BY <1>1, <1>4 DEF ExpiredStep
<1> QED BY <1>7, <1>8

LEMMA ChatLeft ==
  ASSUME CardsHold, Cards!leaveChat
  PROVE  CardsHold' /\ ExpiredStep /\ ConfirmStep
<1>1. /\ card' = [k \in Cmds |-> "none"]
      /\ UNCHANGED <<server, events, items, confirming, disabled, last, decisions, fetches, failures>>
  BY DEF Cards!leaveChat, Cards!panel
<1>2. card' \in [Cmds -> CardWords] /\ \A o \in Cmds : card'[o] = "none"
  BY <1>1 DEF CardWords
<1>3. events' \in Seq({"waiting", "expired"} \X Cmds) /\ EventsTrue'
  <2>1. \A o \in Cmds : card'[o] = "expired" => card[o] = "expired"
    BY <1>2
  <2> QED BY <1>1, <2>1, EventsLeft
<1>4. CardsHold' /\ ConfirmStep
  <2>1. /\ items' \subseteq Cmds /\ disabled' \subseteq Cmds \X BOOLEAN /\ decisions' \in SUBSET Cards!Decision
        /\ fetches' \subseteq [id : 1 .. MaxFetches, ids : SUBSET Cmds] /\ failures' \in 0 .. MaxLost
    BY <1>1 DEF CardsHold, Cards!TypeOK
  <2>2. \A o \in Cmds : card'[o] = card[o] \/ card'[o] \in {"none", "busy", "open", "unavailable"} \/ server[o] = card'[o]
    BY <1>2
  <2> QED BY <1>1, <1>2, <1>3, <2>1, <2>2, CardChanges
<1> QED BY <1>2, <1>4 DEF ExpiredStep

LEMMA FetchStarts ==
  ASSUME CardsHold, NEW others, others \subseteq fetches, Cards!StartFetch(others)
  PROVE  fetches' \subseteq [id : 1 .. MaxFetches, ids : SUBSET Cmds]
<1> DEFINE i == CHOOSE i \in Cards!FreeFetch : TRUE
<1>1. i \in 1 .. MaxFetches
  BY DEF Cards!StartFetch, Cards!FreeFetch
<1>2. fetches' = others \cup {[id |-> i, ids |-> Cards!Pending]} /\ Cards!Pending \subseteq Cmds
  BY DEF Cards!StartFetch, Cards!Pending
<1> HIDE DEF i
<1> QED BY <1>1, <1>2 DEF CardsHold, Cards!TypeOK

(* The poll: a card the server no longer lists loses its buttons, and its    *)
(* word only if it had none.                                                *)
LEMMA FetchHolds ==
  ASSUME CardsHold, Cards!fetchApprovals \/ \E f \in fetches : Cards!FetchAnswers(f)
  PROVE  CardsHold' /\ ExpiredStep /\ ConfirmStep
<1>1. card \in [Cmds -> CardWords] /\ fetches \subseteq [id : 1 .. MaxFetches, ids : SUBSET Cmds]
  BY DEF CardsHold, Cards!TypeOK, CardWords
<1>2. UNCHANGED <<server, events, confirming, last, decisions, failures>>
  BY DEF Cards!fetchApprovals, Cards!FetchAnswers, Cards!panel
<1>3. /\ card' \in [Cmds -> CardWords]
      /\ \A o \in Cmds : card'[o] = card[o] \/ (card[o] \in {"open", "busy"} /\ card'[o] = "unavailable")
  <2>1. CASE Cards!fetchApprovals
    BY <1>1, <2>1 DEF Cards!fetchApprovals
  <2>2. ASSUME NEW f \in fetches, Cards!FetchAnswers(f)
        PROVE  <1>3!1 /\ <1>3!2
    BY <1>1, <2>2 DEF Cards!FetchAnswers, Cards!reconcileApprovalCards, Cards!settleApprovalCard, CardWords, Cards!Outcomes
  <2> QED BY <2>1, <2>2
<1>4. /\ items' \subseteq Cmds /\ disabled' \subseteq Cmds \X BOOLEAN
      /\ fetches' \subseteq [id : 1 .. MaxFetches, ids : SUBSET Cmds]
  <2>1. CASE Cards!fetchApprovals
    BY <2>1, FetchStarts DEF Cards!fetchApprovals, Cards!panel, CardsHold, Cards!TypeOK
  <2>2. ASSUME NEW f \in fetches, Cards!FetchAnswers(f)
        PROVE  <1>4
    BY <1>1, <2>2 DEF Cards!FetchAnswers
  <2> QED BY <2>1, <2>2
<1>5. events' \in Seq({"waiting", "expired"} \X Cmds) /\ EventsTrue'
  <2>1. \A o \in Cmds : card'[o] = "expired" => card[o] = "expired"
    BY <1>3
  <2> QED BY <1>2, <2>1, EventsLeft
<1>6. CardsHold' /\ ConfirmStep
  <2>1. decisions' \in SUBSET Cards!Decision /\ failures' \in 0 .. MaxLost
    BY <1>2 DEF CardsHold, Cards!TypeOK
  <2>2. \A o \in Cmds : card'[o] = card[o] \/ card'[o] \in {"none", "busy", "open", "unavailable"} \/ server[o] = card'[o]
    BY <1>3
  <2> QED BY <1>2, <1>3, <1>4, <1>5, <2>1, <2>2, CardChanges
<1>7. ExpiredStep
  BY <1>3 DEF ExpiredStep
<1> QED BY <1>6, <1>7

(* The answer to a decision: a card says approved or rejected only after the *)
(* server said so.                                                          *)
LEMMA DecisionAnswered ==
  ASSUME CardsHold, NEW d \in decisions, Cards!DecisionAnswers(d), MaxLost \in Nat
  PROVE  CardsHold' /\ ExpiredStep /\ ConfirmStep
<1>1. /\ decisions' = decisions \ {d}
      /\ UNCHANGED <<server, events, items, confirming, disabled, last>>
      /\ IF d.from = "panel" THEN Cards!StartFetch(fetches) ELSE fetches' = fetches
  BY DEF Cards!DecisionAnswers, Cards!panel
<1>2. PICK ok \in BOOLEAN :
        /\ ok => d.answer = "ok"
        /\ IF ok \/ d.answer = "refused" THEN UNCHANGED failures ELSE Cards!Fault
        /\ card' = IF d.from # "card" THEN card
                   ELSE [card EXCEPT ![d.cmd] = Cards!settleApprovalCard(card[d.cmd],
                           IF ~ok THEN "unavailable" ELSE Outcome(d.approve))]
  BY DEF Cards!DecisionAnswers, Outcome
<1> DEFINE k == d.cmd
           outcome == IF ~ok THEN "unavailable" ELSE Outcome(d.approve)
           word == Cards!settleApprovalCard(card[k], outcome)
<1>3. card \in [Cmds -> CardWords] /\ k \in Cmds /\ decisions \subseteq Cards!Decision
  BY DEF CardsHold, Cards!TypeOK, CardWords, Cards!Decision
<1>4. outcome \in Cards!Outcomes /\ outcome # "expired" /\ (outcome = "unavailable" \/ server[k] = outcome)
  <2>1. ok => server[k] = Outcome(d.approve)
    BY <1>2 DEF CardsHold, Truthful, AnswersTrue
  <2> QED BY <2>1 DEF Outcome, Cards!Outcomes
<1> HIDE DEF outcome
<1>5. word \in {card[k], outcome} /\ word \in CardWords /\ (card[k] = "expired" => word = "expired")
  <2>1. card[k] \in CardWords /\ outcome \in CardWords
    BY <1>3, <1>4 DEF CardWords
  <2>2. word \in {card[k], outcome} /\ (card[k] = "expired" => word = "expired")
    BY <1>4, <2>1, Settles
  <2> QED BY <2>1, <2>2
<1>6. card' = card \/ card' = [card EXCEPT ![k] = word]
  BY <1>2 DEF outcome
<1> HIDE DEF word, k
<1>7. /\ card' \in [Cmds -> CardWords]
      /\ \A o \in Cmds : \/ card'[o] = card[o]
                         \/ card[o] # "expired" /\ card'[o] # "expired" /\ (card'[o] = "unavailable" \/ server[o] = card'[o])
  <2>1. CASE card' = card
    BY <1>3, <2>1
  <2>2. CASE card' = [card EXCEPT ![k] = word]
    <3>1. card' \in [Cmds -> CardWords] /\ \A o \in Cmds : card'[o] = IF o = k THEN word ELSE card[o]
      BY <1>3, <1>5, <2>2
    <3>2. word = card[k] \/ (card[k] # "expired" /\ word # "expired" /\ (word = "unavailable" \/ server[k] = word))
      BY <1>4, <1>5
    <3> QED BY <3>1, <3>2
  <2> QED BY <1>6, <2>1, <2>2
<1>8. fetches' \subseteq [id : 1 .. MaxFetches, ids : SUBSET Cmds] /\ failures' \in 0 .. MaxLost
  <2>1. fetches' \subseteq [id : 1 .. MaxFetches, ids : SUBSET Cmds]
    BY <1>1, FetchStarts DEF CardsHold, Cards!TypeOK
  <2>2. failures' \in 0 .. MaxLost
    BY <1>2 DEF Cards!Fault, CardsHold, Cards!TypeOK
  <2> QED BY <2>1, <2>2
<1>9. events' \in Seq({"waiting", "expired"} \X Cmds) /\ EventsTrue'
  <2>1. \A o \in Cmds : card'[o] = "expired" => card[o] = "expired"
    BY <1>7
  <2> QED BY <1>1, <2>1, EventsLeft
<1>10. CardsHold' /\ ConfirmStep
  <2>1. items' \subseteq Cmds /\ disabled' \subseteq Cmds \X BOOLEAN
    BY <1>1 DEF CardsHold, Cards!TypeOK
  <2>2. \A o \in Cmds : card'[o] = card[o] \/ card'[o] \in {"none", "busy", "open", "unavailable"} \/ server[o] = card'[o]
    BY <1>7
  <2>3. decisions' \in SUBSET Cards!Decision /\ \A o \in decisions' : o \in decisions
    BY <1>1, <1>3
  <2> QED BY <1>1, <1>7, <1>8, <1>9, <2>1, <2>2, <2>3, CardChanges
<1>11. ExpiredStep
  BY <1>7 DEF ExpiredStep
<1> QED BY <1>10, <1>11

(* The panel's buttons.                                                     *)
LEMMA PanelClicked ==
  ASSUME CardsHold, NEW k \in Cmds, Cards!clickApprove(k) \/ Cards!clickReject(k)
  PROVE  CardsHold' /\ ExpiredStep /\ ConfirmStep
<1>1. /\ UNCHANGED <<server, events, card, items, fetches, failures>>
      /\ disabled \subseteq Cmds \X BOOLEAN /\ decisions \subseteq Cards!Decision /\ confirming \subseteq Cmds
      /\ last \in [Cmds -> {"none", "approve", "sent", "reject"}]
  BY DEF Cards!clickApprove, Cards!clickReject, CardsHold, Cards!TypeOK
<1>2. \A approve \in BOOLEAN : Cards!Decided(k, approve) \in Cards!Decision /\ Cards!Decided(k, approve).answer = "unsent"
  BY DEF Cards!Decided, Cards!Decision
<1>3. /\ disabled' \subseteq Cmds \X BOOLEAN
      /\ decisions' \in {decisions, decisions \cup {Cards!Decided(k, TRUE)}, decisions \cup {Cards!Decided(k, FALSE)}}
  <2>1. ASSUME NEW approve \in BOOLEAN, Cards!Send(k, approve)
        PROVE  /\ disabled' \subseteq Cmds \X BOOLEAN
               /\ decisions' \in {decisions \cup {Cards!Decided(k, TRUE)}, decisions \cup {Cards!Decided(k, FALSE)}}
    <3>1. /\ disabled' = disabled \cup {<<k, approve>>}
          /\ decisions' = decisions \cup {Cards!Decided(k, approve)}
      BY <2>1 DEF Cards!Send
    <3>2. approve = TRUE \/ approve = FALSE
      BY Zenon
    <3>3. decisions' = decisions \cup {Cards!Decided(k, TRUE)} \/ decisions' = decisions \cup {Cards!Decided(k, FALSE)}
      BY <3>1, <3>2, Zenon
    <3>4. disabled' \subseteq Cmds \X BOOLEAN
      BY <1>1, <3>1
    <3> QED BY <3>3, <3>4
  <2>2. CASE Cards!clickApprove(k)
    <3>1. (disabled' = {} /\ decisions' = decisions) \/ Cards!Send(k, TRUE)
      BY <2>2 DEF Cards!clickApprove
    <3> QED BY <2>1, <3>1
  <2>3. CASE Cards!clickReject(k)
    BY <2>1, <2>3 DEF Cards!clickReject
  <2> QED BY <2>2, <2>3
<1>4. \/ confirming' = confirming \cup {k} /\ last' = [last EXCEPT ![k] = "approve"]
      \/ confirming' = confirming \ {k} /\ last' \in {[last EXCEPT ![k] = "sent"], [last EXCEPT ![k] = "reject"]}
  BY DEF Cards!clickApprove, Cards!clickReject
<1>5. Confirmed' /\ confirming' \subseteq Cmds /\ last' \in [Cmds -> {"none", "approve", "sent", "reject"}]
  <2>1. CASE confirming' = confirming \cup {k} /\ last' = [last EXCEPT ![k] = "approve"]
    BY <1>1, <2>1 DEF CardsHold, Confirmed
  <2>2. CASE confirming' = confirming \ {k} /\ last' = [last EXCEPT ![k] = "sent"]
    BY <1>1, <2>2 DEF CardsHold, Confirmed
  <2>3. CASE confirming' = confirming \ {k} /\ last' = [last EXCEPT ![k] = "reject"]
    BY <1>1, <2>3 DEF CardsHold, Confirmed
  <2> QED BY <1>4, <2>1, <2>2, <2>3
<1>6. decisions' \subseteq Cards!Decision /\ \A d \in decisions' : d \in decisions \/ d.answer = "unsent"
  BY <1>1, <1>2, <1>3
<1>7. Cards!TypeOK'
  BY <1>1, <1>3, <1>5, <1>6 DEF CardsHold, Cards!TypeOK
<1>8. Cards!CardTruthful' /\ EventsTrue' /\ AnswersTrue'
  BY <1>1, <1>6 DEF CardsHold, Truthful, Cards!CardTruthful, EventsTrue, AnswersTrue, Outcome
<1>9. ExpiredStep
  BY <1>1 DEF ExpiredStep
<1>10. ConfirmStep
  <2> SUFFICES ASSUME NEW o \in High, Cards!Decided(o, TRUE) \in decisions', Cards!Decided(o, TRUE) \notin decisions
               PROVE  last[o] = "approve"
    BY DEF ConfirmStep
  <2>1. Cards!Decided(o, TRUE) = Cards!Decided(k, TRUE) \/ Cards!Decided(o, TRUE) = Cards!Decided(k, FALSE)
    BY <1>3
  <2>2. o = k /\ decisions' # decisions
    BY <2>1 DEF Cards!Decided
  <2>3. k \in confirming
    <3>1. CASE Cards!clickApprove(k)
      BY <2>2, <3>1 DEF Cards!clickApprove
    <3>2. CASE Cards!clickReject(k)
      <4>1. decisions' = decisions \cup {Cards!Decided(k, FALSE)}
        BY <3>2 DEF Cards!clickReject, Cards!Send
      <4>2. Cards!Decided(o, TRUE) = Cards!Decided(k, FALSE)
        BY <4>1
      <4> QED BY <4>2 DEF Cards!Decided
    <3> QED BY <3>1, <3>2
  <2> QED BY <2>2, <2>3 DEF CardsHold, Confirmed
<1> QED BY <1>5, <1>7, <1>8, <1>9, <1>10 DEF CardsHold, Truthful

LEMMA CardSteps ==
  ASSUME CardsHold, Cards!ApprovalUIAssumption, Cards!Next \/ UNCHANGED cardVars
  PROVE  CardsHold' /\ ExpiredStep /\ ConfirmStep
<1>1. MaxLost \in Nat /\ Trusted \subseteq Cmds
  BY DEF Cards!ApprovalUIAssumption
<1>2. CASE Cards!Next
  BY <1>1, <1>2, ServerSpeaks, PanelClicked, CardClicked, DecideHolds, DecisionAnswered, FetchHolds,
     EventHandled, LoseHolds, ChatLeft
  DEF Cards!Next
<1>3. CASE UNCHANGED cardVars
  <2>1. Cards!TypeOK'
    BY <1>3 DEF cardVars, CardsHold, Cards!TypeOK
  <2>2. Cards!CardTruthful' /\ EventsTrue' /\ AnswersTrue' /\ Confirmed'
    BY <1>3 DEF cardVars, CardsHold, Truthful, Cards!CardTruthful, EventsTrue, AnswersTrue, Confirmed
  <2>3. ExpiredStep /\ ConfirmStep
    BY <1>3 DEF cardVars, ExpiredStep, ConfirmStep
  <2> QED BY <2>1, <2>2, <2>3 DEF CardsHold, Truthful
<1> QED BY <1>2, <1>3

LEMMA CardsStart ==
  ASSUME Cards!Init, Cards!ApprovalUIAssumption
  PROVE  CardsHold
<1>1. MaxLost \in Nat
  BY DEF Cards!ApprovalUIAssumption
<1>2. /\ server = [k \in Cmds |-> "none"] /\ card = [k \in Cmds |-> "none"] /\ last = [k \in Cmds |-> "none"]
      /\ events = <<>> /\ items = {} /\ confirming = {} /\ disabled = {} /\ decisions = {} /\ fetches = {}
      /\ failures = 0
  BY DEF Cards!Init
<1>3. Cards!TypeOK
  BY <1>1, <1>2 DEF Cards!TypeOK, Cards!Status
<1>4. Cards!CardTruthful /\ AnswersTrue /\ Confirmed
  BY <1>2 DEF Cards!CardTruthful, AnswersTrue, Confirmed
<1>5. EventsTrue
  <2>1. 1 .. Len(events) = {}
    BY <1>2
  <2> QED BY <2>1 DEF EventsTrue
<1> QED BY <1>3, <1>4, <1>5 DEF CardsHold, Truthful

---------------------------------------------------------------------------
(* The four together.  Each part holds whatever the behaviour is about; the  *)
(* one banner needs that no banner is closed as it slides out.              *)

Linked ==
  /\ TransportHolds /\ InTurn /\ CardsHold
  /\ part = "patient" => Alone
  /\ Mounts <= 1 => PollsPaced

(* What a step may do, while the notifications, the polls and the approvals  *)
(* are what they are.                                                       *)
LinkStep == (Mounts <= 1 => Polling!NoBurst) /\ ExpiredStep /\ ConfirmStep

LEMMA LinkStarts == Init => Linked
<1> SUFFICES ASSUME Init
             PROVE  Linked
  OBVIOUS
<1> USE Bounds
<1>1. TransportHolds
  BY TransportStarts DEF Init, Bounds
<1>2. Banners!Init
  BY DEF Init, Patient!Init, Banners!Init, Patient!Banners, Banners!Banners
<1>3. InTurn /\ Alone
  BY <1>2, BannersStart DEF Bounds
<1>4. CardsHold
  BY CardsStart DEF Init, Bounds
<1>5. PollsPaced
  BY PollsStart DEF Init, Bounds
<1> QED BY <1>1, <1>3, <1>4, <1>5 DEF Linked

LEMMA LinkSteps == Linked /\ [Next]_vars => Linked' /\ LinkStep
<1> SUFFICES ASSUME Linked, [Next]_vars
             PROVE  Linked' /\ LinkStep
  OBVIOUS
<1>1. /\ Bridge!BridgeClientAssumption /\ Polling!StatusPollingAssumption
      /\ Banners!NotificationsAssumption /\ Cards!ApprovalUIAssumption
  BY Bounds DEF Bounds
<1>2. /\ Bridge!Next \/ UNCHANGED bridgeVars
      /\ Polling!Next \/ UNCHANGED pollingVars
      /\ Cards!Next \/ UNCHANGED cardVars
      /\ Banners!Next \/ UNCHANGED bannerVars
      /\ part = "patient" => Patient!Next \/ UNCHANGED bannerVars
      /\ part' = part
  BY PatientIsABanner DEF Next, vars
<1>3. TransportHolds'
  BY <1>1, <1>2, TransportSteps DEF Linked
<1>4. InTurn'
  BY <1>1, <1>2, BannerSteps DEF Linked
<1>5. part' = "patient" => Alone'
  BY <1>1, <1>2, AloneStays DEF Linked
<1>6. CardsHold' /\ ExpiredStep /\ ConfirmStep
  BY <1>1, <1>2, CardSteps DEF Linked
<1>7. Mounts <= 1 => PollsPaced' /\ Polling!NoBurst
  BY <1>1, <1>2, PollSteps DEF Linked
<1> QED BY <1>3, <1>4, <1>5, <1>6, <1>7 DEF Linked, LinkStep

THEOREM LinkHolds == Spec => []Linked
<1>1. Linked /\ [Next]_vars => Linked'
  BY LinkSteps
<1> QED BY LinkStarts, <1>1, PTL DEF Spec

(* Whatever the server and the timers do, the page holds at most one event   *)
(* stream, refers to it, and holds none after stop() (bridge.ts:420).        *)
THEOREM StreamsHold == Spec => []OneStream
<1>1. Linked => OneStream
  BY HeldIsOneStream DEF Linked, OneStream
<1> QED BY LinkHolds, <1>1, PTL

(* Notifications are shown in turn, however many are raised and however they *)
(* are dismissed, and one at a time when none is closed as it slides out;    *)
(* a dismissed Hermes banner stays away, as the page mounts it once          *)
(* (main.ts:368).                                                           *)
THEOREM BannersStay ==
  ASSUME Mounts <= 1
  PROVE  Spec => []BannersKept
<1>1. Linked => BannersKept
  <2> SUFFICES ASSUME Linked
               PROVE  BannersKept
    OBVIOUS
  <2>1. Banners!TypeOK /\ Banners!ShownInOrder
    BY DEF Linked, InTurn, Banners!ShownInOrder, Counted
  <2>2. Patient!TypeOK /\ Patient!ShownInOrder
    BY <2>1 DEF Banners!TypeOK, Patient!TypeOK, Banners!Banners, Patient!Banners,
       Banners!ShownInOrder, Patient!ShownInOrder
  <2>3. part = "patient" => Patient!OneBanner
    BY AloneIsOneBanner DEF Linked
  <2>4. Polling!TypeOK /\ Polling!DismissedStaysAway
    BY DEF Linked, PollsPaced, OnceMounted, Polling!DismissedStaysAway
  <2> QED BY <2>1, <2>2, <2>3, <2>4 DEF BannersKept
<1> QED BY LinkHolds, <1>1, PTL

(* Of any number of commands, decisions, polls and events in flight, lost or *)
(* late: a card says approved, rejected or expired only of a command the     *)
(* server so decided (ui/approvalCards.ts:1).                               *)
THEOREM CardsSpeakTrue == Spec => []CardTruthful
<1>1. Linked => CardTruthful
  BY DEF Linked, CardsHold, Truthful, CardTruthful
<1> QED BY LinkHolds, <1>1, PTL

(* The approval of a high risk is sent on the second press only, a card      *)
(* keeps saying expired, and a poll waits its interval out, hidden or not.   *)
THEOREM NothingIsRushed ==
  ASSUME Mounts <= 1
  PROVE  Spec => NothingTooSoon
<1>1. Linked /\ [Next]_vars => LinkStep
  BY LinkSteps
<1>2. LinkStep => [part = "polling" => Polling!NoBurst]_vars
  BY DEF LinkStep
<1>3. LinkStep => ConfirmStep /\ ExpiredStep
  BY DEF LinkStep
<1>4. Spec => [][ConfirmStep]_Cards!vars /\ [][ExpiredStep]_Cards!vars
  BY LinkHolds, <1>1, <1>3, PTL DEF Spec
<1>5. Spec => Cards!ConfirmedTwice
  BY <1>4, PTL DEF ConfirmStep, Cards!ConfirmedTwice
<1>6. Spec => Cards!ExpiredStays
  BY <1>4, PTL DEF ExpiredStep, Cards!ExpiredStays
<1>7. Spec => [][part = "polling" => Polling!NoBurst]_vars
  BY LinkHolds, <1>1, <1>2, PTL DEF Spec
<1> QED BY <1>5, <1>6, <1>7 DEF NothingTooSoon
=============================================================================
