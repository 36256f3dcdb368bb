---------------------------- MODULE BridgeFiles -----------------------------
(***************************************************************************)
(* The two files that every part of the bridge reads.                      *)
(*                                                                         *)
(* server/event_store.py: the append-only JSONL log.  Only the four event  *)
(* types that has_command_dispatched looks for are kept, as a set per      *)
(* command: every reader asks whether an event is there, never how often.  *)
(*                                                                         *)
(* server/scheduler.py as the delivery protocol sees it: the queue in      *)
(* memory and in scheduler-queue.json.  Order and agent slots are the      *)
(* matter of module Scheduler; here any queued command may be next.        *)
(***************************************************************************)

(***************************************************************************)
(* The commands of the bridge (server/command_schema.py): ids are minted   *)
(* by the server, once per submission, and never reused.                   *)
(***************************************************************************)
CONSTANTS
    Cmds,       \* command ids
    Gated,      \* those whose policy decision is "approve"
    NoCmd,      \* "no command"
    MissionOf   \* payload.parentMissionId: a command, or NoCmd

ASSUME CommandsAssumption ==
    /\ Gated \subseteq Cmds
    /\ NoCmd \notin Cmds
    /\ MissionOf \in [Cmds -> Cmds \cup {NoCmd}]

\* The value of MissionOf when no sub-agent proposes a command.
NoMission == [c \in Cmds |-> NoCmd]

VARIABLE log    \* [Cmds -> SUBSET EventTypes], on disk

EventTypes == {"Started", "Completed", "Failed", "Rejected"}

LogTypeOK == log \in [Cmds -> SUBSET EventTypes]

LogInit == log = [c \in Cmds |-> {}]

\* The log after one event of type e has been appended for each command of C.
Recorded(C, e) == [c \in Cmds |-> IF c \in C THEN log[c] \cup {e} ELSE log[c]]

\* Any of the four types counts: a rejected or failed command is never enqueued.
HasCommandDispatched(c) == log[c] # {}

\* A restart marks as failed what was started and reached no terminal event.
Hung == {c \in Cmds : log[c] = {"Started"}}

-----------------------------------------------------------------------------
VARIABLES
    queue,      \* ids in _queue
    queueDisk   \* ids in scheduler-queue.json (fsynced)

queueVars == <<queue, queueDisk>>

QueueTypeOK ==
    /\ queue \subseteq Cmds
    /\ queueDisk \subseteq Cmds

QueueInit ==
    /\ queue = {}
    /\ queueDisk = {}

\* Slip of HasQueued: the event log is not asked.
QueuedOnly(c) == c \in queue \cup queueDisk

HasQueued(c) ==
    \/ c \in queue
    \/ c \in queueDisk
    \/ HasCommandDispatched(c)

\* enqueue_dict: idempotent by id; the append to memory is not undone when the
\* file cannot be written.
EnqueueDict(c, saved) ==
    IF HasQueued(c)
    THEN UNCHANGED queueVars
    ELSE /\ queue' = queue \cup {c}
         /\ queueDisk' = IF saved THEN queue \cup {c} ELSE queueDisk

\* The locked half of _dispatch_next: pop, then rewrite the file.
PopQueued(c, saved) ==
    /\ c \in queue
    /\ queue' = queue \ {c}
    /\ queueDisk' = IF saved THEN queue \ {c} ELSE queueDisk

\* _init_from_disk: file and memory merged by id.
InitFromDisk ==
    /\ queue' = queueDisk \cup queue
    /\ queueDisk' = queueDisk \cup queue
=============================================================================
