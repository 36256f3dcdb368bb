---------------------------- MODULE Detachments ----------------------------
(***************************************************************************)
(* Missions and sub-agent detachments as the page shows them               *)
(* (src/missionLifecycle.ts, src/subagentManager.ts), fed by the bridge's  *)
(* events (server/subagent_tracker.py, server/agent_runner.py).  The page  *)
(* may be attached over more than one transport at once (BridgeClient):    *)
(* each delivers every event in order, and they drift apart.  A call of    *)
(* the tracker is one step: two calls about one run do not overlap.        *)
(***************************************************************************)
EXTENDS Integers, Sequences

CONSTANTS
  Runs,        \* sub-agent runs
  Missions,    \* missions
  Transports,  \* the connections the page handles events from
  MaxHistory,  \* finished runs kept (50 in the code)
  MaxQueued    \* the bridge rests while a transport has that many events to deliver

DetachmentsAssumption == MaxHistory \in Nat \ {0} /\ MaxQueued \in Nat \ {0} /\ Transports # {}

VARIABLES
  server,      \* stage of each run on the bridge
  quests,      \* stage of each mission on the bridge
  queue,       \* events on their way, per transport
  active,      \* the page's runs: [Runs -> [status, knowsUnit]]
  completed,   \* finished runs, newest first
  onMap,       \* runs whose ephemeral unit is on the map
  highlighted, \* the row selected in the order of battle
  missions,    \* the page's missions
  counted      \* completions counted by the analytics

vars == <<server, quests, queue, active, completed, onMap, highlighted, missions, counted>>
page == <<active, completed, onMap, highlighted, missions, counted>>

None == "none"
Absent == [status |-> None, knowsUnit |-> FALSE]
Ended == {"complete", "failed", "cancelled"}
IsActive(r) == active[r] # Absent

Init ==
  /\ server = [r \in Runs |-> None]
  /\ quests = [q \in Missions |-> None]
  /\ queue = [t \in Transports |-> <<>>]
  /\ active = [r \in Runs |-> Absent]
  /\ completed = <<>>
  /\ onMap = {}
  /\ highlighted = None
  /\ missions = [q \in Missions |-> None]
  /\ counted = [q \in Missions |-> 0]

(***************************************************************************)
(* The bridge: what each of its steps sends, on every transport.           *)
(***************************************************************************)

Evt(type, id) == [type |-> type, id |-> id, ok |-> TRUE]
EvtOk(type, id, ok) == [type |-> type, id |-> id, ok |-> ok]

Send(evts) ==
  /\ \A t \in Transports : Len(queue[t]) < MaxQueued
  /\ queue' = [t \in Transports |-> queue[t] \o evts]

RegisterSpawn(r) ==
  /\ server[r] = None
  /\ server' = [server EXCEPT ![r] = "running"]
  /\ Send(<<Evt("subagent_spawn", r), Evt("subagent_progress", r), Evt("unit_spawn", r)>>)
  /\ UNCHANGED <<quests, page>>

(* A risky run waits for an approval: spawned as proposed, one progress     *)
(* event, then the proposal.                                                *)
Propose(r) ==
  /\ server[r] = None
  /\ server' = [server EXCEPT ![r] = "proposed"]
  /\ Send(<<EvtOk("subagent_spawn", r, FALSE), Evt("subagent_progress", r), Evt("subagent_proposed", r)>>)
  /\ UNCHANGED <<quests, page>>

(* The approval, which looks at no status: also of a run that was recalled  *)
(* while it waited, or that its harness had reported as ended (settled) and *)
(* which now counts as running again (revived).                             *)
ApproveSpawn(r) ==
  /\ server[r] \in {"proposed", "recalled", "settled"}
  /\ server' = [server EXCEPT ![r] = IF @ = "settled" THEN "revived" ELSE "running"]
  /\ Send(<<Evt("subagent_progress", r), Evt("unit_spawn", r)>>)
  /\ UNCHANGED <<quests, page>>

EndEvents(r, ok) ==
  <<Evt("subagent_progress", r), EvtOk("subagent_complete", r, ok), Evt("unit_despawn", r)>>

(* A harness reports the end of a run the tracker knows, whatever its       *)
(* status: one that still waits for its approval, one that was recalled or  *)
(* cancelled, one whose end was reported before.                            *)
RegisterComplete(r) ==
  /\ server[r] # None
  /\ \E ok \in BOOLEAN :
       /\ server' = [server EXCEPT ![r] = IF @ \in {"proposed", "recalled", "settled"} THEN "settled"
                                          ELSE IF ok THEN "complete" ELSE "failed"]
       /\ Send(EndEvents(r, ok))
  /\ UNCHANGED <<quests, page>>

RequestCancel(r) ==
  /\ server[r] \in {"proposed", "running", "revived"}
  /\ server' = [server EXCEPT ![r] = IF @ = "proposed" THEN "recalled" ELSE "cancelled"]
  /\ Send(<<Evt("subagent_cancel", r)>> \o EndEvents(r, FALSE))
  /\ UNCHANGED <<quests, page>>

StartQuest(q) ==
  /\ quests[q] = None
  /\ quests' = [quests EXCEPT ![q] = "running"]
  /\ Send(<<Evt("mission_start", q)>>)
  /\ UNCHANGED <<server, page>>

EndQuest(q) ==
  /\ quests[q] = "running"
  /\ \E ok \in BOOLEAN : /\ quests' = [quests EXCEPT ![q] = IF ok THEN "complete" ELSE "failed"]
                         /\ Send(<<EvtOk("mission_complete", q, ok)>>)
  /\ UNCHANGED <<server, page>>

(***************************************************************************)
(* The page's handlers.                                                    *)
(***************************************************************************)

register(r, status, knowsUnit) ==
  active' = [active EXCEPT ![r] = [status |-> status, knowsUnit |-> knowsUnit]]

subagent_spawn(r, isRunning) ==
  /\ register(r, IF isRunning THEN "running" ELSE "proposed", TRUE)
  /\ onMap' = IF isRunning THEN onMap \cup {r} ELSE onMap
  /\ UNCHANGED <<completed, highlighted, missions, counted>>

subagent_proposed(r) ==
  /\ register(r, "proposed", FALSE)
  /\ UNCHANGED <<completed, onMap, highlighted, missions, counted>>

\* Slip of subagent_progress: progress of a run the page does not list makes it running.
ProgressRevives(r) ==
  /\ active' = [active EXCEPT ![r] = [status |-> "running", knowsUnit |-> TRUE]]
  /\ UNCHANGED <<completed, onMap, highlighted, missions, counted>>

subagent_progress(r) ==
  /\ active' = [active EXCEPT ![r].status = IF @ = "proposed" THEN "running" ELSE @]
  /\ UNCHANGED <<completed, onMap, highlighted, missions, counted>>

(* Completed, failed or cancelled: out of the active runs, its unit (when   *)
(* the run names one) off the map.                                          *)
finish(r, status) ==
  /\ IF IsActive(r)
     THEN /\ active' = [active EXCEPT ![r] = Absent]
          /\ completed' = LET list == <<[run |-> r, status |-> status]>> \o completed
                          IN  SubSeq(list, 1, IF Len(list) > MaxHistory THEN MaxHistory ELSE Len(list))
          /\ onMap' = IF active[r].knowsUnit THEN onMap \ {r} ELSE onMap
          /\ highlighted' = IF highlighted = r THEN None ELSE highlighted
     ELSE UNCHANGED <<active, completed, onMap, highlighted>>
  /\ UNCHANGED <<missions, counted>>

PlaceUnit(r) == onMap' = onMap \cup {r} /\ UNCHANGED <<active, completed, highlighted, missions, counted>>

DropUnit(r) == onMap' = onMap \ {r} /\ UNCHANGED <<active, completed, highlighted, missions, counted>>

startMission(q) ==
  /\ missions' = [missions EXCEPT ![q] = "running"]
  /\ UNCHANGED <<active, completed, onMap, highlighted, counted>>

completeMission(q, ok) ==
  /\ missions' = [missions EXCEPT ![q] = IF @ = None THEN None ELSE IF ok THEN "complete" ELSE "failed"]
  /\ counted' = [counted EXCEPT ![q] = IF ok /\ missions[q] = "running" THEN @ + 1 ELSE @]
  /\ UNCHANGED <<active, completed, onMap, highlighted>>

Handle(evt) ==
  \/ evt.type = "subagent_spawn" /\ subagent_spawn(evt.id, evt.ok)
  \/ evt.type = "subagent_proposed" /\ subagent_proposed(evt.id)
  \/ evt.type = "subagent_progress" /\ subagent_progress(evt.id)
  \/ evt.type = "subagent_complete" /\ finish(evt.id, IF evt.ok THEN "complete" ELSE "failed")
  \/ evt.type = "subagent_cancel" /\ finish(evt.id, "cancelled")
  \/ evt.type = "unit_spawn" /\ PlaceUnit(evt.id)
  \/ evt.type = "unit_despawn" /\ DropUnit(evt.id)
  \/ evt.type = "mission_start" /\ startMission(evt.id)
  \/ evt.type = "mission_complete" /\ completeMission(evt.id, evt.ok)

Deliver(t) ==
  /\ queue[t] # <<>>
  /\ Handle(Head(queue[t]))
  /\ queue' = [queue EXCEPT ![t] = Tail(@)]
  /\ UNCHANGED <<server, quests>>

(* A row of the order of battle is clicked: a running run or a recent one. *)
Select(r) ==
  /\ IsActive(r) \/ \E i \in 1 .. Len(completed) : completed[i].run = r
  /\ highlighted' = r
  /\ UNCHANGED <<server, quests, queue, active, completed, onMap, missions, counted>>

(* The run /subagent opens when it is given none.  The registry holds the   *)
(* highlight as it was when the page was built, none.                       *)
resolveId ==
  LET running == {r \in Runs : active[r].status = "running"}
  IN  IF running # {} THEN running
      ELSE IF completed # <<>> THEN {Head(completed).run}
      ELSE {None}

Next ==
  \/ \E r \in Runs : \/ RegisterSpawn(r) \/ Propose(r) \/ ApproveSpawn(r)
                     \/ RegisterComplete(r) \/ RequestCancel(r) \/ Select(r)
  \/ \E q \in Missions : StartQuest(q) \/ EndQuest(q)
  \/ \E t \in Transports : Deliver(t)

Spec == Init /\ [][Next]_vars

(***************************************************************************)
(* Properties.                                                             *)
(***************************************************************************)

TypeOK ==
  /\ active \in [Runs -> [status : {None, "proposed", "running"}, knowsUnit : BOOLEAN]]
  /\ \A i \in 1 .. Len(completed) : completed[i] \in [run : Runs, status : Ended]
  /\ Len(completed) <= MaxHistory
  /\ onMap \subseteq Runs
  /\ highlighted \in Runs \cup {None}
  /\ missions \in [Missions -> {None, "running", "complete", "failed"}]

CaughtUp == \A t \in Transports : queue[t] = <<>>

(* However the transports drift apart, once they have delivered everything *)
(* the map shows the units of the runs the bridge holds for running and no *)
(* other: a copy of the start that comes after the end leaves no ghost     *)
(* behind (subagentManager.ts:5, cleanup of the ephemeral unit).           *)
NoGhost == CaughtUp => onMap = {r \in Runs : server[r] \in {"running", "revived"}}

(* A finished run is listed as finished, once, and not as active as well.  *)
ListedOnce ==
  /\ \A i, j \in 1 .. Len(completed) : completed[i].run = completed[j].run => i = j
  /\ \A i \in 1 .. Len(completed) : ~IsActive(completed[i].run)

(* What the page lists as complete or failed was reported so, also when an  *)
(* approval answered late has revived it since: a run that was only         *)
(* recalled, whose end the bridge announces as failed, is not.              *)
FinishedWasEnded ==
  \A i \in 1 .. Len(completed) :
    completed[i].status \in {"complete", "failed"} =>
      server[completed[i].run] \in Ended \cup {"settled", "revived"}

---------------------------------------------------------------------------
(* What a document, a comment or a test says and this code does not keep    *)
(* (README, "Where the code differs").                                      *)

(* "Only count a real running -> complete transition, so a replayed/        *)
(* duplicate mission_complete event from the bridge stream doesn't inflate  *)
(* the metric" (game.ts:673).                                               *)
CountedOnce == \A q \in Missions : counted[q] <= 1

(* "Recall: mark cancelled, emit bridge events, despawn ephemeral unit"      *)
(* (subagent_tracker.py:485): what the page lists as over does not run.     *)
FinishedIsOver ==
  \A i \in 1 .. Len(completed) : server[completed[i].run] \notin {"running", "revived"}

(* /subagent opens the run selected in the order of battle                  *)
(* (ui/chat/slashCommands.ts:233).                                          *)
OpensSelected == highlighted # None => resolveId = {highlighted}
=============================================================================
