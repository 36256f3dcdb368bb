-------------------------- MODULE ExternalAgents ---------------------------
(***************************************************************************)
(* The agents RepoCiv did not start (src/externalAgents.ts) and its own    *)
(* sessions (src/ownSessions.ts) as units of the map.  The bridge announces *)
(* every change once, over a transport that may lose it; the page also     *)
(* fetches a snapshot on connect and on a timer and replays the difference *)
(* through the same handlers (src/bridgeMessageHandlers.ts).  A snapshot is *)
(* what the bridge knew when it answered, and answers overtake each other  *)
(* and the live events.                                                    *)
(***************************************************************************)
EXTENDS Integers, Sequences, FiniteSets

(***************************************************************************)
(* Units on the hex map (src/game.ts): what each operation of GameState    *)
(* does to one unit, as operators on its record.  The map is a row of      *)
(* hexes 0 .. Edge; a unit cannot enter the hexes in Impassable.           *)
(***************************************************************************)
CONSTANTS
  Edge,        \* the last hex of the row
  Impassable,  \* hexes no path crosses or ends on (ocean)
  Cities,      \* the cities of this page's map
  Home         \* the hex of each city: [Cities -> 0 .. Edge]

MapAssumption ==
  /\ Edge \in Nat
  /\ Impassable \subseteq 0 .. Edge
  /\ Home \in [Cities -> (0 .. Edge) \ Impassable]

Hexes == 0 .. Edge
UnitStates == {"idle", "working", "moving"}

(* No unit: the id is not in unitMap. *)
NoUnit == [at |-> -1]
NoHex == -1
NoState == "none"

OnMap(u) == u # NoUnit

(* The steps from a to b, a excluded; <<>> when no path leads there or b = a. *)
aStarPath(a, b) ==
  LET step == IF b > a THEN 1 ELSE -1
      n == IF b > a THEN b - a ELSE a - b
      hops == [i \in 1 .. n |-> a + i * step]
  IN  IF \E i \in 1 .. n : hops[i] \in Impassable THEN <<>> ELSE hops

spawnUnit(u, coord, mission, city) ==
  IF OnMap(u) THEN u
  ELSE [at |-> coord, to |-> NoHex, path |-> <<>>, state |-> "idle",
        arrival |-> NoState, mission |-> mission, city |-> city]

CanWalk(u, target) == OnMap(u) /\ aStarPath(u.at, target) # <<>>

moveUnit(u, target) ==
  IF CanWalk(u, target)
  THEN [u EXCEPT !.path = aStarPath(u.at, target), !.to = target, !.state = "moving"]
  ELSE u

(* A walk that gives the unit its state back on arrival. *)
walkUnitTo(u, target) ==
  LET resume == IF u.state = "moving" THEN u.arrival ELSE u.state
  IN  IF CanWalk(u, target)
      THEN [moveUnit(u, target) EXCEPT !.arrival = IF resume = NoState THEN "idle" ELSE resume]
      ELSE u

setUnitState(u, s) ==
  IF ~OnMap(u) THEN u
  ELSE IF u.state = "moving" /\ u.arrival # NoState
  THEN [u EXCEPT !.arrival = s]
  ELSE [u EXCEPT !.state = s]

setUnitCity(u, city) == IF OnMap(u) THEN [u EXCEPT !.city = city] ELSE u

Walking(u) == OnMap(u) /\ u.state = "moving" /\ u.to # NoHex

(* One hex of the walk: frames between two hexes are left out. *)
updateUnits(u) ==
  IF Len(u.path) > 1
  THEN [u EXCEPT !.at = Head(u.path), !.path = Tail(u.path)]
  ELSE [u EXCEPT !.at = u.to, !.to = NoHex, !.path = <<>>, !.arrival = NoState,
                 !.state = IF u.arrival # NoState THEN u.arrival
                           ELSE IF u.mission THEN "working" ELSE "idle"]

(* What the unit shows once its walk is over. *)
Shown(u) == IF u.state = "moving" THEN u.arrival ELSE u.state

Units == [at : Hexes, to : Hexes \cup {NoHex}, path : UNION {[1 .. n -> Hexes] : n \in 0 .. Edge},
          state : UnitStates, arrival : UnitStates \cup {NoState}, mission : BOOLEAN, city : Cities]

---------------------------------------------------------------------------
CONSTANTS
  ExtIds,      \* sessions of the tracker (ids with the ext- prefix)
  OwnIds,      \* RepoCiv's own sessions
  Capital,     \* the capital city
  Elsewhere,   \* a repo this page's map does not show
  MaxChanges,  \* bound: changes on the bridge's side
  MaxMoves,    \* bound: units sent to a hex by the user
  MaxFlying    \* bound: snapshots under way at once

AgentsAssumption ==
  /\ Capital \in Cities /\ Elsewhere \notin Cities
  /\ MaxChanges \in Nat /\ MaxMoves \in Nat /\ MaxFlying \in Nat

VARIABLES
  rows,      \* the bridge's rows: [Ids -> row or NoRow]
  feed,      \* events sent and not yet received, in order
  answers,   \* snapshots under way
  due,       \* the timer or a connect has asked for a snapshot
  units,     \* the page's units
  changes, moves

vars == <<rows, feed, answers, due, units, changes, moves>>

Ids == ExtIds \cup OwnIds
Refs == Cities \cup {Elsewhere}
NoRow == [city |-> Elsewhere, state |-> "none"]
RowStates == {"working", "idle"}
HasRow(row) == row # NoRow

cityForRef(ref) == IF ref \in Cities THEN ref ELSE Capital

Init ==
  /\ rows = [id \in Ids |-> NoRow]
  /\ feed = <<>>
  /\ answers = {}
  /\ due = TRUE
  /\ units = [id \in Ids |-> NoUnit]
  /\ changes = 0
  /\ moves = 0

(***************************************************************************)
(* The handlers.                                                           *)
(***************************************************************************)

unit_spawn(u, evt) ==
  LET c == cityForRef(evt.city) IN spawnUnit(u, Home[c], TRUE, c)

unit_relocate(u, evt) ==
  LET c == cityForRef(evt.city)
  IN  IF ~OnMap(u) \/ u.city = c THEN u
      ELSE LET moved == IF CanWalk(u, Home[c]) THEN walkUnitTo(u, Home[c])
                        ELSE [u EXCEPT !.at = Home[c]]
           IN  setUnitCity(moved, c)

handleBridgeEvent(u, evt) ==
  CASE evt.type = "unit_spawn"    -> unit_spawn(u, evt)
    [] evt.type = "unit_relocate" -> unit_relocate(u, evt)
    [] evt.type = "unit_state"    -> setUnitState(u, evt.state)
    [] evt.type = "unit_despawn"  -> NoUnit

Spawn(id, row) == [type |-> "unit_spawn", unit |-> id, city |-> row.city]
Relocate(id, row) == [type |-> "unit_relocate", unit |-> id, city |-> row.city]
State(id, row) == [type |-> "unit_state", unit |-> id, state |-> row.state]
Despawn(id) == [type |-> "unit_despawn", unit |-> id]

If(test, evt) == IF test THEN <<evt>> ELSE <<>>

(* The events that bring one unit in line with its row of the snapshot. *)
externalAgentEvents(id, u, row) ==
  IF ~HasRow(row) THEN If(OnMap(u), Despawn(id))
  ELSE If(OnMap(u) /\ cityForRef(row.city) # u.city, Relocate(id, row))
       \o If(~OnMap(u), Spawn(id, row))
       \o If(~OnMap(u) \/ u.state # row.state, State(id, row))

ownSessionEvents(id, u, row) ==
  CASE ~HasRow(row) -> <<>>
    [] row.state = "closed" -> If(OnMap(u), Despawn(id))
    [] OTHER -> If(~OnMap(u), Spawn(id, row))
                \o If(IF OnMap(u) THEN u.state # row.state ELSE row.state # "idle", State(id, row))

SyncEvents(id, u, row) ==
  IF id \in ExtIds THEN externalAgentEvents(id, u, row) ELSE ownSessionEvents(id, u, row)

(* They go through the handlers in order; there are two of them at most.   *)
Replay(u, evts) ==
  LET first == IF evts # <<>> THEN handleBridgeEvent(u, evts[1]) ELSE u
  IN  IF Len(evts) > 1 THEN handleBridgeEvent(first, evts[2]) ELSE first

(***************************************************************************)
(* The bridge.  Each change is announced, or lost on the way.              *)
(***************************************************************************)

Announce(evts) == feed' = feed \o evts \/ feed' = feed

Change(id, row, evts) ==
  /\ changes < MaxChanges
  /\ rows' = [rows EXCEPT ![id] = row]
  /\ Announce(evts)
  /\ changes' = changes + 1
  /\ UNCHANGED <<answers, due, moves>>

(* A session starts; the wizard of RepoCiv itself puts its unit up directly. *)
Start(id) ==
  /\ ~HasRow(rows[id])
  /\ \E ref \in Refs, s \in RowStates :
       LET row == [city |-> ref, state |-> s]
       IN  IF id \in ExtIds
           THEN Change(id, row, <<Spawn(id, row), State(id, row)>>) /\ UNCHANGED units
           ELSE /\ Change(id, row, <<>>)
                /\ units' = [units EXCEPT ![id] =
                               spawnUnit(@, Home[cityForRef(ref)], TRUE, cityForRef(ref))]

Relocates(id) ==
  /\ id \in ExtIds /\ HasRow(rows[id])
  /\ \E ref \in Refs \ {rows[id].city} :
       LET row == [rows[id] EXCEPT !.city = ref]
       IN  Change(id, row, <<Relocate(id, row)>>)
  /\ UNCHANGED units

ChangesState(id) ==
  /\ rows[id].state \in RowStates
  /\ \E s \in RowStates \ {rows[id].state} :
       LET row == [rows[id] EXCEPT !.state = s]
       IN  Change(id, row, <<State(id, row)>>)
  /\ UNCHANGED units

(* The tracker drops a session; RepoCiv's own are closed by the user. *)
Ends(id) ==
  /\ HasRow(rows[id]) /\ rows[id].state # "closed"
  /\ IF id \in ExtIds THEN Change(id, NoRow, <<Despawn(id)>>)
     ELSE Change(id, [rows[id] EXCEPT !.state = "closed"], <<Despawn(id)>>)
  /\ UNCHANGED units

(***************************************************************************)
(* The page.                                                               *)
(***************************************************************************)

Deliver ==
  /\ feed # <<>>
  /\ LET evt == Head(feed)
     IN  units' = [units EXCEPT ![evt.unit] = handleBridgeEvent(@, evt)]
  /\ feed' = Tail(feed)
  /\ UNCHANGED <<rows, answers, due, changes, moves>>

SyncDue ==
  /\ ~due
  /\ due' = TRUE
  /\ UNCHANGED <<rows, feed, answers, units, changes, moves>>

(* The bridge answers the request with what it knows. *)
Fetch ==
  /\ due /\ Cardinality(answers) < MaxFlying
  /\ due' = FALSE
  /\ answers' = answers \cup {rows}
  /\ UNCHANGED <<rows, feed, units, changes, moves>>

(* An answer arrives and its difference is replayed. *)
Sync(answer) ==
  /\ answer \in answers
  /\ answers' = answers \ {answer}
  /\ units' = [id \in Ids |->
                 Replay(units[id], SyncEvents(id, units[id], answer[id]))]
  /\ UNCHANGED <<rows, feed, due, changes, moves>>

Walk(id) ==
  /\ Walking(units[id])
  /\ units' = [units EXCEPT ![id] = updateUnits(@)]
  /\ UNCHANGED <<rows, feed, answers, due, changes, moves>>

(* The user sends a unit to a hex. *)
Move(id) ==
  /\ moves < MaxMoves
  /\ \E hex \in Hexes : CanWalk(units[id], hex) /\ units' = [units EXCEPT ![id] = moveUnit(@, hex)]
  /\ moves' = moves + 1
  /\ UNCHANGED <<rows, feed, answers, due, changes>>

Next ==
  \/ \E id \in Ids : \/ Start(id) \/ Relocates(id) \/ ChangesState(id) \/ Ends(id)
                     \/ Walk(id) \/ Move(id)
  \/ Deliver \/ SyncDue \/ Fetch
  \/ \E answer \in answers : Sync(answer)

Spec == Init /\ [][Next]_vars

(* Frames are drawn, the timer goes on, and some answer keeps coming back: *)
(* which one is not promised.                                              *)
FairSpec ==
  /\ Spec
  /\ WF_vars(Deliver) /\ WF_vars(SyncDue) /\ WF_vars(Fetch)
  /\ \A id \in Ids : WF_vars(Walk(id))
  /\ WF_vars(\E answer \in answers : Sync(answer))

(***************************************************************************)
(* Properties.                                                             *)
(***************************************************************************)

TypeOK ==
  /\ rows \in [Ids -> [city : Refs, state : RowStates \cup {"closed", "none"}]]
  /\ units \in [Ids -> Units \cup {NoUnit}]
  /\ \A i \in 1 .. Len(feed) : feed[i].unit \in Ids
  /\ Cardinality(answers) <= MaxFlying
  /\ due \in BOOLEAN

(* A unit that walks knows where to and by which way: no event leaves it   *)
(* moving without a target, which no frame would ever end.                 *)
WalksSomewhere ==
  \A id \in Ids : units[id] # NoUnit /\ units[id].state = "moving" =>
    /\ units[id].to \in Hexes
    /\ units[id].path # <<>> /\ units[id].path[Len(units[id].path)] = units[id].to

InLine(id) ==
  LET row == rows[id] IN
  IF id \in ExtIds
  THEN IF HasRow(row)
       THEN /\ OnMap(units[id])
            /\ units[id].city = cityForRef(row.city)
            /\ units[id].state = row.state
       ELSE units[id] = NoUnit
  ELSE CASE row.state = "closed" -> units[id] = NoUnit
         [] ~HasRow(row) -> TRUE
         [] OTHER -> OnMap(units[id]) /\ units[id].state = row.state

---------------------------------------------------------------------------
(* What a document, a comment or a test says and this code does not keep    *)
(* (README, "Where the code differs").                                      *)

(* An agent's unit stands in the city it works in once it has stopped      *)
(* (bridgeMessageHandlers.ts:124: it walks into that city, or is put there *)
(* when no path leads).                                                    *)
StandsInItsCity ==
  \A id \in ExtIds : OnMap(units[id]) /\ units[id].state # "moving" =>
    units[id].at = Home[units[id].city]
===========================================================================
