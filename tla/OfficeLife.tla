----------------------------- MODULE OfficeLife -----------------------------
(* The local view of a repository as an office (localWorldManager.ts): the  *)
(* agents inside, the desks they are given, the missions they are sent on,  *)
(* the beds they rest in, and the sub-agents that come and fade away. The   *)
(* office of a repository arrives from the bridge some time after the user  *)
(* enters; nothing moves while the user looks at the map.                   *)
(* The office is one record; the parts of a tick are operators on it.       *)
EXTENDS Integers, FiniteSets, SequencesExt

CONSTANTS
  Repos,       \* repositories with an office
  Desks,       \* desk tiles, the same coordinates in every office
  DesksOf,     \* [Repos -> SUBSET Desks]: where an office has a desk
  Open,        \* [Repos -> SUBSET Desks]: the desks one can walk to
  Beds,        \* beds of the rest area of an office
  Agents,      \* units of the map that may work here
  Subagents,   \* ephemeral ones
  Parent,      \* the agent they all belong to
  Hero,        \* the first unit of the map
  Missions,    \* 1 .. n, in the order they are queued
  FileDesk,    \* [Missions -> Desks \cup {0}]: the desk of the mission's file
  Score,       \* [Missions -> Int]: priorityScore
  Changes, MaxChanges   \* what the user and the bridge do, and how often

OfficeAssumption ==
  /\ Desks \subseteq Nat \ {0} /\ Beds \in Nat /\ Hero \in Agents /\ Parent \in Agents
  /\ \A r \in Repos : Open[r] \subseteq DesksOf[r] /\ DesksOf[r] \subseteq Desks

VARIABLES
  viewMode,
  localWorld,   \* the repository whose office is shown, or None
  pending,      \* offices asked for and not built yet
  wanted,       \* the repository entered last (observed)
  office,       \* deskAssignments, unitsInside, localUnits and missionQueue
  changes

vars == <<viewMode, localWorld, pending, wanted, office, changes>>
None == "none"
Units == Agents \cup Subagents
Door == <<"door", 0>>
Desk(d) == <<"desk", d>>
Bed(b) == <<"bed", b>>
Faded == 2   \* ticks a sub-agent takes to fade

In(o, u) == Contains(o.crew, u)
Set(o, u, r) == [o EXCEPT !.unit[u] = r]
macroUnitId(u) == IF u \in Subagents THEN Parent ELSE u

---------------------------------------------------------------------------
(* Desks. *)

(* A desk nobody has, if there is one. *)
assignDesk(o, u, w) ==
  LET free == {d \in DesksOf[w] : o.owner[d] = None}
      d == CHOOSE x \in free : \A y \in free : x <= y
  IN IF free = {} THEN o ELSE [o EXCEPT !.owner[d] = u, !.unit[u].desk = d]

releaseDesks(o, u) == [o EXCEPT !.owner = [d \in Desks |-> IF @[d] = u THEN None ELSE @[d]]]

(* The unit's own desk, else the nearest one nobody else has, else any. *)
findBestWorkbench(o, u, w) ==
  LET own == o.unit[u].desk
      free == {d \in Open[w] : o.owner[d] \in {None, u}}
      nearest(S) == CHOOSE x \in S : \A y \in S : x <= y
  IN IF own \in Open[w] /\ o.owner[own] \in {None, u} THEN own
     ELSE IF free # {} THEN nearest(free) ELSE IF Open[w] # {} THEN nearest(Open[w]) ELSE 0

(* Where a mission is done: at its file's desk, else at the best one. *)
benchFor(o, m, u, w) == IF FileDesk[m] \in DesksOf[w] THEN FileDesk[m] ELSE findBestWorkbench(o, u, w)

newUnit(u, state) ==
  [at |-> Door, to |-> Door, state |-> state, bench |-> 0, desk |-> 0, tired |-> FALSE,
   restIn |-> None, fade |-> 0, job |-> 0]
join(o, u, state, w) == assignDesk([o EXCEPT !.crew = Append(@, u), !.unit[u] = newUnit(u, state)], u, w)

---------------------------------------------------------------------------
(* Missions. *)

Active == {"walking", "working"}
sendTo(o, u, m, d) ==
  Set(o, u, [o.unit[u] EXCEPT !.bench = d, !.to = Desk(d), !.state = "to desk", !.job = m])
taken(o, u, m) == [o EXCEPT !.mission[m] = [status |-> "walking", unit |-> u]]

(* To the first idle unit. The mission a tick picks by priority is a copy    *)
(* (prioritizeMission), so what is written on it the queue never sees.       *)
assignMissionToUnit(o, m, copied, w) ==
  LET idle == SelectSeq(o.crew, LAMBDA u : o.unit[u].state = "idle")
      u == idle[1]
      d == benchFor(o, m, u, w)
  IN IF idle = <<>> \/ d \notin Open[w] THEN o
     ELSE IF copied THEN sendTo(o, u, m, d) ELSE taken(sendTo(o, u, m, d), u, m)

\* Slip of interrupt: the mission that was on is not ended.
KeepsTheOldMission(o, u) == o

(* To one unit, or to what stands for it; its current mission is given up    *)
(* before a way to the desk is looked for.                                   *)
interrupt(o, u) ==
  [o EXCEPT !.mission = [m \in Missions |->
     IF @[m].unit = u /\ @[m].status \in Active THEN [@[m] EXCEPT !.status = "failed"] ELSE @[m]]]
assignMissionToSpecificUnit(o, m, id, w) ==
  LET found == SelectSeq(o.crew, LAMBDA v : v = id \/ macroUnitId(v) = id)
      u == IF found # <<>> THEN found[1] ELSE id
      there == IF found # <<>> THEN o ELSE join(o, id, "idle", w)
      freed == interrupt(there, u)
      d == benchFor(freed, m, u, w)
  IN IF d \notin Open[w] THEN freed ELSE taken(sendTo(freed, u, m, d), u, m)

\* Slip of completeLocalMission: the mission is not told of its end.
FreesTheUnitOnly(o, u) == Set(o, u, [o.unit[u] EXCEPT !.bench = 0, !.state = "idle", !.job = 0])

completeLocalMission(o, u) ==
  LET mine == {m \in Missions : o.mission[m].unit = u /\ o.mission[m].status \in Active}
      m == CHOOSE x \in mine : \A y \in mine : x <= y
      done == IF mine = {} THEN o ELSE [o EXCEPT !.mission[m].status = "complete"]
  IN Set(done, u, [o.unit[u] EXCEPT !.bench = 0, !.state = "idle", !.job = 0])

queuedIn(o) == {m \in Missions : o.mission[m].status = "queued"}
peekNextMission(o) ==
  CHOOSE m \in queuedIn(o) : \A n \in queuedIn(o) : Score[m] > Score[n] \/ (Score[m] = Score[n] /\ m <= n)
dispatchNextMission(o, w) ==
  IF queuedIn(o) = {} THEN o ELSE assignMissionToUnit(o, peekNextMission(o), TRUE, w)

---------------------------------------------------------------------------
(* One tick. *)

(* Those that arrive sit down to work, to wait or to rest; those that have   *)
(* finished complete their mission.                                          *)
arrive(o, u) ==
  LET r == o.unit[u]
  IN Set(o, u, [r EXCEPT !.at = r.to, !.state = IF r.state = "to bed" THEN "resting"
                                               ELSE IF r.bench # 0 THEN "working" ELSE "idle"])
advance(o, arrived, finished) ==
  FoldLeft(LAMBDA q, u : IF u \in arrived /\ q.unit[u].state \in {"to desk", "to bed"} THEN arrive(q, u)
                         ELSE IF u \in finished /\ q.unit[u].state = "working" THEN completeLocalMission(q, u) ELSE q,
           o, o.crew)

\* Slip of tickDespawnFades: the time of a fade does not pass.
NeverFades(o) == o

tickDespawnFades(o) ==
  LET fading == {u \in Units : In(o, u) /\ o.unit[u].fade > 0}
      gone == {u \in fading : o.unit[u].fade = 1}
      dimmed == [o EXCEPT !.unit = [u \in Units |-> IF u \in fading THEN [@[u] EXCEPT !.fade = @ - 1] ELSE @[u]]]
  IN FoldLeft(LAMBDA q, u : IF u \in gone THEN releaseDesks([q EXCEPT !.crew = SelectSeq(@, LAMBDA v : v # u)], u) ELSE q,
              dimmed, o.crew)

(* The first bed, unless the unit is on the list of the area already. *)
sendUnitToRest(o, u, w) ==
  IF Cardinality(o.inside) >= Beds \/ u \in o.inside THEN o
  ELSE [Set(o, u, [o.unit[u] EXCEPT !.to = Bed(1), !.state = "to bed", !.restIn = w]) EXCEPT !.inside = @ \cup {u}]
exitRest(o, u) ==
  [Set(o, u, [o.unit[u] EXCEPT !.state = "idle", !.restIn = None, !.tired = FALSE]) EXCEPT !.inside = @ \ {u}]
restOne(o, u, w, rested) ==
  LET seeks == o.unit[u].tired /\ o.unit[u].state \notin {"resting", "to bed"}
      q == IF seeks THEN sendUnitToRest(o, u, w) ELSE o
  IN IF q.unit[u].state # "resting" \/ q.unit[u].restIn = None THEN q
     ELSE IF q.unit[u].restIn # w THEN Set(q, u, [q.unit[u] EXCEPT !.state = "idle", !.restIn = None])
     ELSE IF u \in rested THEN exitRest(q, u) ELSE q
tickRestSystem(o, w, tiring, rested) ==
  LET worn == [o EXCEPT !.unit = [u \in Units |->
                 IF u \in tiring /\ @[u].state # "resting" THEN [@[u] EXCEPT !.tired = TRUE] ELSE @[u]]]
  IN FoldLeft(LAMBDA q, u : restOne(q, u, w, rested), worn, o.crew)

(* The parts that run every few ticks run in some order of their own: any    *)
(* tick may be one where missions are dispatched, or units rest. (A set of   *)
(* one element: each part is computed once.)                                 *)
those(states) == {u \in ToSet(office.crew) : office.unit[u].state \in states}
tick ==
  /\ viewMode = "local" /\ localWorld # None /\ office.crew # <<>>
  /\ \E arrived \in SUBSET those({"to desk", "to bed"}), finished \in SUBSET those({"working"}),
        tiring \in SUBSET (IF "tire" \in Changes THEN {u \in ToSet(office.crew) : ~office.unit[u].tired} ELSE {}),
        rested \in SUBSET office.inside, dispatch \in ({"dispatch"} \cap Changes) \cup {None} :
       \E walked \in {tickDespawnFades(advance(office, arrived, finished))} :
       \E sent \in {IF dispatch # None THEN dispatchNextMission(walked, localWorld) ELSE walked} :
         office' \in {tickRestSystem(sent, localWorld, tiring, rested)}
  /\ UNCHANGED <<viewMode, localWorld, pending, wanted, changes>>

---------------------------------------------------------------------------
(* The user and the bridge. *)

Change(kind) == kind \in Changes /\ changes < MaxChanges /\ changes' = changes + 1

(* The office is built when its list of files arrives, however late: it then *)
(* replaces the one that is shown. The agents stay.                          *)
enterLocalView(r) ==
  /\ Change("enter") /\ viewMode' = "local" /\ wanted' = r
  /\ pending' = (IF localWorld = r THEN pending ELSE Append(pending, r))
  /\ UNCHANGED <<localWorld, office>>
generateLocalWorldFromApi(i) ==
  /\ i \in DOMAIN pending
  /\ pending' = RemoveAt(pending, i) /\ localWorld' = pending[i]
  /\ LET fresh == [office EXCEPT !.owner = [d \in Desks |-> None], !.inside = {}]
     IN office' = IF fresh.crew = <<>> THEN join(fresh, Hero, "idle", pending[i]) ELSE fresh
  /\ UNCHANGED <<viewMode, wanted, changes>>
enterMacroView ==
  /\ Change("leave") /\ viewMode = "local" /\ viewMode' = "macro" /\ UNCHANGED <<localWorld, pending, wanted, office>>

queueLocalMission(m, u) ==
  /\ Change("mission") /\ localWorld # None /\ office.mission[m].status = None
  /\ \A n \in Missions : n < m => office.mission[n].status # None
  /\ LET queued == [office EXCEPT !.mission[m] = [status |-> "queued", unit |-> None]]
     IN office' = IF u = None THEN queued ELSE assignMissionToSpecificUnit(queued, m, u, localWorld)
  /\ UNCHANGED <<viewMode, localWorld, pending, wanted>>
dispatchMissionById(m) ==
  /\ Change("byId") /\ localWorld # None /\ office.mission[m].status = "queued"
  /\ office' = assignMissionToUnit(office, m, FALSE, localWorld) /\ UNCHANGED <<viewMode, localWorld, pending, wanted>>

syncSubagentSpawn(u) ==
  /\ Change("subagent") /\ viewMode = "local" /\ localWorld # None /\ ~In(office, u)
  /\ office' = join(office, u, "working", localWorld) /\ UNCHANGED <<viewMode, localWorld, pending, wanted>>
removeSubagentUnit(u) ==
  /\ Change("subagent") /\ In(office, u) /\ office.unit[u].fade = 0
  /\ office' = Set(office, u, [office.unit[u] EXCEPT !.fade = Faded, !.state = "idle"])
  /\ UNCHANGED <<viewMode, localWorld, pending, wanted>>

Init ==
  /\ viewMode = "macro" /\ localWorld = None /\ pending = <<>> /\ wanted = None /\ changes = 0
  /\ office = [owner |-> [d \in Desks |-> None], inside |-> {}, crew |-> <<>>,
               unit |-> [u \in Units |-> newUnit(u, "idle")],
               mission |-> [m \in Missions |-> [status |-> None, unit |-> None]]]
Next ==
  \/ tick \/ enterMacroView
  \/ \E r \in Repos : enterLocalView(r)
  \/ \E i \in 1 .. MaxChanges : generateLocalWorldFromApi(i)
  \/ \E m \in Missions : dispatchMissionById(m) \/ \E u \in Agents \cup {None} : queueLocalMission(m, u)
  \/ \E u \in Subagents : syncSubagentSpawn(u) \/ removeSubagentUnit(u)
Spec == Init /\ [][Next]_vars
FairSpec == Spec /\ WF_vars(tick) /\ \A i \in 1 .. MaxChanges : WF_vars(generateLocalWorldFromApi(i))

---------------------------------------------------------------------------
(* Properties. *)

TypeOK ==
  /\ viewMode \in {"macro", "local"} /\ localWorld \in Repos \cup {None} /\ ToSet(pending) \subseteq Repos
  /\ office.owner \in [Desks -> Units \cup {None}] /\ office.inside \subseteq Units
  /\ \A u \in Units : /\ office.unit[u].state \in {"idle", "to desk", "working", "to bed", "resting"}
                      /\ office.unit[u].bench \in Desks \cup {0} /\ office.unit[u].fade \in 0 .. Faded
  /\ \A m \in Missions : /\ office.mission[m].status \in {None, "queued", "walking", "working", "complete", "failed"}
                         /\ office.mission[m].unit \in Units \cup {None}
Here(u) == In(office, u)

(* localWorldManager.ts, assignDesk and releaseDesks: a desk that is taken   *)
(* is taken by someone in the office, who has no other.                      *)
DesksAreHeld ==
  /\ \A d \in Desks : office.owner[d] # None => Here(office.owner[d]) /\ office.unit[office.owner[d]].desk = d
  /\ \A d, e \in Desks : office.owner[d] = office.owner[e] /\ office.owner[d] # None => d = e

(* localWorldManager.ts, _assignMissionToSpecificUnit: a new mission takes   *)
(* the place of the one a unit is on. (A unit that rested is idle, its       *)
(* mission still walking: dispatchMissionById may then give it another.)     *)
OneMissionEach ==
  \A m, n \in Missions :
    (m # n /\ {office.mission[m].status, office.mission[n].status} \subseteq Active) =>
      office.mission[m].unit # office.mission[n].unit

(* localWorldManager.ts, _sendUnitToRest: no more units go to rest than      *)
(* there are beds, also while a mission calls one of them away.              *)
BedsHold == Cardinality(office.inside) <= Beds

(* localWorldManager.ts, _completeLocalMission: the one mission a unit is on *)
(* comes to an end, if the unit is not sent to bed.                          *)
OnIt(m) ==
  /\ office.mission[m].status = "walking"
  /\ \A n \in Missions \ {m} : office.mission[n].status \in Active => office.mission[n].unit # office.mission[m].unit
Abed(m) == office.unit[office.mission[m].unit].state \in {"to bed", "resting"}
MissionsEnd == \A m \in Missions : OnIt(m) ~> (~OnIt(m) \/ Abed(m))

---------------------------------------------------------------------------
(* What a document, a comment or a test says and this code does not keep    *)
(* (README, "Where the code differs").                                      *)

(* localWorldManager.ts:200, "Dispatch idle unit -> next queued mission": a  *)
(* mission that a unit is on no longer waits in the queue.                   *)
TakenIsNotQueued ==
  \A u \in Units : (Here(u) /\ office.unit[u].job # 0) => office.mission[office.unit[u].job].status # "queued"

(* types.ts:610, status of a LocalMission: of one that is "walking" the unit *)
(* is on its way or at work. One whose unit went to bed stays "walking".     *)
WalkingIsDone ==
  \A m \in Missions : office.mission[m].status = "walking" =>
    office.unit[office.mission[m].unit].state \in {"to desk", "working"}

(* types.ts:264, "unit ids currently resting": whoever is on the list of a   *)
(* rest area rests there, or walks there.                                    *)
ListedRest == \A u \in office.inside : Here(u) /\ office.unit[u].state \in {"to bed", "resting"}

(* localWorldManager.ts:287, "Pick a free bed": two units that rest do not   *)
(* lie in the same bed.                                                      *)
OwnBeds ==
  \A u, v \in Units :
    (u # v /\ Here(u) /\ Here(v) /\ office.unit[u].state = "resting" /\ office.unit[v].state = "resting")
      => office.unit[u].at # office.unit[v].at

(* localPathfinding.test.ts:322, "two units do not share the same desk".     *)
DesksAreOwn ==
  \A u, v \in Units : (u # v /\ Here(u) /\ Here(v) /\ office.unit[u].desk # 0) => office.unit[u].desk # office.unit[v].desk
=============================================================================
