------------------------------ MODULE MCAgents ------------------------------
(***************************************************************************)
(* What the page keeps of the agents: the transcripts of its own units,    *)
(* the chats with the sessions of others, the directory of all of them,    *)
(* the sub-agent runs and the units of external agents on the map.  None   *)
(* changes the state of another here, so a behaviour is one of them (part) *)
(* while the others rest.                                                  *)
(***************************************************************************)
EXTENDS Integers, Sequences, FiniteSets

CONSTANTS
  Parts,               \* the parts that are checked
  Chat, Chunks,        \* [units, first, messages, chunks, retry]
  Pair, Single,        \* [sessions, versions, loads, flying, reopens]
  Strip, Directory,    \* [own, external, faults]
  Drift, Quests, Runs, \* [runs, missions, transports, history, queued]
  Visitor, Resident    \* [edge, impassable, home, ext, own, capital, elsewhere, changes, moves, flying]

VARIABLES
  part,
  history, stored, buffer, index, bubble, active, bound, dom, badges, chips, closable, lastMsg, sent, unread,
  visible, chat, shown, box, draft, sending, error, resume, polled, pending, loads, sends, plans, version,
  truth, rows, refreshing, answer, listeners, timer, panel, previous, unseen, blocked, faults, ended, observed,
  server, quests, queue, activeRuns, completed, onMap, highlighted, missions, counted,
  sessions, feed, answers, due, units, changes, moves

(* Each part is a component under its own constants c.                      *)
Transcript(c) == INSTANCE ChatTranscript WITH
  Units <- c.units, H <- c.first, MaxMessages <- c.messages, MaxChunks <- c.chunks, Retry <- c.retry

Dialog(c) == INSTANCE AgentChat WITH
  Sessions <- c.sessions, MaxVersion <- c.versions, MaxLoads <- c.loads, MaxFlying <- c.flying,
  Reopens <- c.reopens

Roster(c) == INSTANCE SessionDirectory WITH Own <- c.own, External <- c.external, MaxFaults <- c.faults

Detached(c) == INSTANCE Detachments WITH
  Runs <- c.runs, Missions <- c.missions, Transports <- c.transports, MaxHistory <- c.history,
  MaxQueued <- c.queued,
  active <- activeRuns

Agents(c) == INSTANCE ExternalAgents WITH
  Edge <- c.edge, Impassable <- c.impassable, Cities <- DOMAIN c.home, Home <- c.home,
  ExtIds <- c.ext, OwnIds <- c.own, Capital <- c.capital, Elsewhere <- c.elsewhere,
  MaxChanges <- c.changes, MaxMoves <- c.moves, MaxFlying <- c.flying, rows <- sessions

(* The events of Runs come over one connection.                             *)
ASSUME Bounds ==
  /\ Transcript(Chat)!ChatTranscriptAssumption /\ Transcript(Chunks)!ChatTranscriptAssumption
  /\ Dialog(Pair)!ChatAssumption /\ Dialog(Single)!ChatAssumption
  /\ Roster(Strip)!DirectoryAssumption /\ Roster(Directory)!DirectoryAssumption
  /\ Detached(Drift)!DetachmentsAssumption /\ Detached(Quests)!DetachmentsAssumption
  /\ Detached(Runs)!DetachmentsAssumption /\ \A t, u \in Runs.transports : t = u
  /\ Agents(Visitor)!MapAssumption /\ Agents(Visitor)!AgentsAssumption
  /\ Agents(Resident)!MapAssumption /\ Agents(Resident)!AgentsAssumption

transcriptVars == <<history, stored, buffer, index, bubble, active, bound, dom, badges, chips,
                    closable, lastMsg, sent, unread>>
chatVars == <<visible, chat, shown, box, draft, sending, error, resume, polled, pending, loads,
              sends, plans, version>>
directoryVars == <<truth, rows, refreshing, answer, listeners, timer, panel, previous, unseen,
                   blocked, faults, ended, observed>>
runVars == <<server, quests, queue, activeRuns, completed, onMap, highlighted, missions, counted>>
agentVars == <<sessions, feed, answers, due, units, changes, moves>>

Init ==
  /\ part \in Parts
  /\ IF part = "chunks" THEN Transcript(Chunks)!Init ELSE Transcript(Chat)!Init
  /\ IF part = "pair" THEN Dialog(Pair)!Init ELSE Dialog(Single)!Init
  /\ IF part = "strip" THEN Roster(Strip)!Init ELSE Roster(Directory)!Init
  /\ CASE part = "runs" -> Detached(Runs)!Init [] part = "quests" -> Detached(Quests)!Init [] OTHER -> Detached(Drift)!Init
  /\ IF part = "resident" THEN Agents(Resident)!Init ELSE Agents(Visitor)!Init

Rest(others) == UNCHANGED <<part, others>>

Next ==
  \/ part = "transcript" /\ Transcript(Chat)!Next /\ Rest(<<chatVars, directoryVars, runVars, agentVars>>)
  \/ part = "chunks" /\ Transcript(Chunks)!Next /\ Rest(<<chatVars, directoryVars, runVars, agentVars>>)
  \/ part = "pair" /\ Dialog(Pair)!Next /\ Rest(<<transcriptVars, directoryVars, runVars, agentVars>>)
  \/ part \in {"single", "composer"} /\ Dialog(Single)!Next /\ Rest(<<transcriptVars, directoryVars, runVars, agentVars>>)
  \/ part = "strip" /\ Roster(Strip)!Next /\ Rest(<<transcriptVars, chatVars, runVars, agentVars>>)
  \/ part = "directory" /\ Roster(Directory)!Next /\ Rest(<<transcriptVars, chatVars, runVars, agentVars>>)
  \/ part = "drift" /\ Detached(Drift)!Next /\ Rest(<<transcriptVars, chatVars, directoryVars, agentVars>>)
  \/ part = "quests" /\ Detached(Quests)!Next /\ Rest(<<transcriptVars, chatVars, directoryVars, agentVars>>)
  \/ part = "runs" /\ Detached(Runs)!Next /\ Rest(<<transcriptVars, chatVars, directoryVars, agentVars>>)
  \/ part = "visitor" /\ Agents(Visitor)!Next /\ Rest(<<transcriptVars, chatVars, directoryVars, runVars>>)
  \/ part = "resident" /\ Agents(Resident)!Next /\ Rest(<<transcriptVars, chatVars, directoryVars, runVars>>)

vars == <<part, transcriptVars, chatVars, directoryVars, runVars, agentVars>>

Spec == Init /\ [][Next]_vars

---------------------------------------------------------------------------
(* Timers fire, requests are answered, frames are drawn and events handled; *)
(* some snapshot of the bridge is answered, which one is not promised.      *)
InSingle(A) == part \in {"single", "composer"} /\ A
InDirectory(A) == part = "directory" /\ A
InVisitor(A) == part = "visitor" /\ A
InResident(A) == part = "resident" /\ A

ChatFair ==
  /\ WF_chatVars(InSingle(Dialog(Single)!Poll))
  /\ \A s \in Single.sessions, v \in 1 .. Single.versions :
       SF_chatVars(InSingle(Dialog(Single)!LoadAnswers([of |-> s, since |-> v])))
  /\ \A to \in Single.sessions, text \in Single.sessions :
       WF_chatVars(InSingle(\E ok \in BOOLEAN : Dialog(Single)!SendAnswers([to |-> to, text |-> text], ok)))

DirectoryFair ==
  /\ WF_directoryVars(InDirectory(Roster(Directory)!Tick))
  /\ WF_directoryVars(InDirectory(Roster(Directory)!Reads))
  /\ WF_directoryVars(InDirectory(Roster(Directory)!Answers))

AgentsFair ==
  /\ WF_agentVars(InVisitor(Agents(Visitor)!Deliver) \/ InResident(Agents(Resident)!Deliver))
  /\ WF_agentVars(InVisitor(Agents(Visitor)!SyncDue) \/ InResident(Agents(Resident)!SyncDue))
  /\ WF_agentVars(InVisitor(Agents(Visitor)!Fetch) \/ InResident(Agents(Resident)!Fetch))
  /\ \A id \in Visitor.ext : WF_agentVars(InVisitor(Agents(Visitor)!Walk(id)))
  /\ \A id \in Resident.own : WF_agentVars(InResident(Agents(Resident)!Walk(id)))
  /\ WF_agentVars(\E snapshot \in answers : InVisitor(Agents(Visitor)!Sync(snapshot)) \/ InResident(Agents(Resident)!Sync(snapshot)))

FairSpec == Spec /\ ChatFair /\ DirectoryFair /\ AgentsFair

---------------------------------------------------------------------------
(* The transcripts of two units share one container and one storage slot    *)
(* each: what is on screen is the bound unit's, the answer being streamed   *)
(* holds the chunks that came since the last question whichever chat was on *)
(* screen, what was not shown has a badge, and what a reload restores is    *)
(* the transcript (ui/chat/state.ts, ui/chat/history.ts).                  *)
TranscriptsKept ==
  /\ part = "transcript" =>
       Transcript(Chat)!TypeOK /\ Transcript(Chat)!DomPurity /\ Transcript(Chat)!AnswerComplete /\ Transcript(Chat)!UnreadHasBadge /\ Transcript(Chat)!StoredTranscript
  /\ part = "chunks" => Transcript(Chunks)!AnswerComplete /\ Transcript(Chunks)!StoredTranscript

(* Whatever answers after the user moved on, nothing of another session is  *)
(* shown in the chat that is open: transcript, error or resume plan         *)
(* (agentsPanel.ts:245, 281, 457).                                          *)
ShownIsOurs ==
  /\ part = "pair" => Dialog(Pair)!TypeOK /\ Dialog(Pair)!ShownIsOurs
  /\ part \in {"single", "composer"} => Dialog(Single)!TypeOK /\ Dialog(Single)!ShownIsOurs

(* An agent is said to have stopped only after it stopped working, whatever *)
(* the failed and the late lists showed ("No invented blocked/done state    *)
(* from silence", agentAttention.ts:1); a unit of the page that was seen to *)
(* stop is listed until it is reviewed, works again or leaves; the list is  *)
(* polled exactly while somebody uses it (externalSessionDirectory.ts).     *)
AttentionHonest ==
  /\ part = "strip" =>
       Roster(Strip)!TypeOK /\ Roster(Strip)!PolledWhileUsed /\ Roster(Strip)!NoInvented /\ Roster(Strip)!OwnUnreviewedListed
  /\ part = "directory" => Roster(Directory)!TypeOK /\ Roster(Directory)!PolledWhileUsed /\ Roster(Directory)!NoInvented

(* However the connections drift apart, once they have delivered everything *)
(* the map shows the units of the running sub-agents and no other, and a    *)
(* finished run is listed once, and as complete or failed only when that    *)
(* was reported (subagentManager.ts); a unit that walks knows where to and  *)
(* by which way, for no frame would end its walk otherwise (game.ts).       *)
NoGhost ==
  /\ part = "drift" => Detached(Drift)!TypeOK /\ Detached(Drift)!NoGhost
  /\ part = "quests" => Detached(Quests)!TypeOK
  /\ part = "runs" => Detached(Runs)!TypeOK /\ Detached(Runs)!ListedOnce /\ Detached(Runs)!FinishedWasEnded
  /\ part = "visitor" => Agents(Visitor)!TypeOK /\ Agents(Visitor)!WalksSomewhere
  /\ part = "resident" => Agents(Resident)!TypeOK /\ Agents(Resident)!WalksSomewhere

(* What the page owes is done.  The composer is unlocked after a send, an   *)
(* open chat shows what its session has said, and a walk into a city, once  *)
(* begun, ends although states of the agent come meanwhile.  Whatever was   *)
(* lost, late or overtaken, the map ends in line with the bridge: the same  *)
(* agents, in the same cities, in the same state (externalAgents.ts:33-38,  *)
(* ownSessions.ts:31-35).  Once the sessions rest, the open panel comes to  *)
(* show them (externalSessionDirectory.ts).                                 *)
Relocating(u) == u.at # -1 /\ u.arrival # "none"
Owed ==
  \/ part = "composer" /\ chat # "none" /\ sending
  \/ part = "single" /\ chat # "none" /\ polled /\ shown.version # version[chat]
  \/ part = "visitor" /\ \E id \in Visitor.ext : Relocating(units[id])
  \/ part = "resident" /\ \E id \in Resident.own : Relocating(units[id])
Done == ~Owed
InLine ==
  /\ part = "visitor" => \A id \in Visitor.ext : Agents(Visitor)!InLine(id)
  /\ part = "resident" => \A id \in Resident.own : Agents(Resident)!InLine(id)
Fresh ==
  part = "directory" /\ "panel" \in listeners => \A s \in Directory.external : rows[s] = truth[s] /\ panel[s] = truth[s]
NothingIsStuck ==
  /\ Owed ~> Done
  /\ <>[]InLine
  /\ <>[][truth' = truth /\ listeners' = listeners]_vars => <>[]Fresh

---------------------------------------------------------------------------
(* The constants of the run.  Two units, whose transcripts hold two         *)
(* questions with their answers; one unit whose answers come in two chunks. *)
TwoUnits == [units |-> {"main", "scout"}, first |-> "main", messages |-> 4, chunks |-> 1, retry |-> FALSE]
TwoChunks == [TwoUnits EXCEPT !.units = {"main"}, !.chunks = 2]

(* Two sessions and late answers; one session whose transcript grows, once  *)
(* for what its chat shows and once for its composer.                       *)
TwoSessions == [sessions |-> {"a", "b"}, versions |-> 1, loads |-> 2, flying |-> 1, reopens |-> FALSE]
OneSession == [sessions |-> {"a"}, versions |-> 2, loads |-> 2, flying |-> 2, reopens |-> FALSE]

(* A unit of the page; a session of another program.                        *)
OwnUnit == [own |-> {"u"}, external |-> {}, faults |-> 1]
ExternalSession == [own |-> {}, external |-> {"s"}, faults |-> 2]

(* A run whose events come over two connections, a mission likewise, and    *)
(* two runs over one.                                                       *)
OneRun == [runs |-> {"r1"}, missions |-> {}, transports |-> {"ws", "sse"}, history |-> 1, queued |-> 8]
OneMission == [OneRun EXCEPT !.runs = {}, !.missions = {"q1"}]
TwoRuns == [runs |-> {"r1", "r2"}, missions |-> {}, transports |-> {"ws"}, history |-> 2, queued |-> 2]

(* One agent that works in two cities, two hexes apart: an external one,    *)
(* one of RepoCiv's own, and one the user sends elsewhere meanwhile.        *)
OneVisitor ==
  [edge |-> 2, impassable |-> {}, home |-> [cap |-> 0, near |-> 2], ext |-> {"ext-a"}, own |-> {},
   capital |-> "cap", elsewhere |-> "away", changes |-> 2, moves |-> 1, flying |-> 1]
OneResident == [OneVisitor EXCEPT !.ext = {}, !.own = {"MINA"}, !.changes = 3, !.flying = 2]
=============================================================================
