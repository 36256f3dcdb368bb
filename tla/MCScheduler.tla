----------------------------- MODULE MCScheduler -----------------------------
(* A small instance of Scheduler: agents MAIN (one slot) and SCOUT (two).  *)
EXTENDS Scheduler

CONSTANTS c1, c2, c3, h1, h2, MAIN, SCOUT

ThreeCommands == {c1, c2, c3}
TwoHandlers == {h1, h2}
None == {}

TwoBases == {MAIN, SCOUT}
\* c1 and c2 compete for MAIN, c3 is for SCOUT.
Busy == [c \in Cmds |-> IF c = c3 THEN SCOUT ELSE MAIN]
Slots == [b \in Bases |-> IF b = SCOUT THEN 2 ELSE 1]
\* The runs of MAIN may never end.
ScoutOnly == {SCOUT}
=============================================================================
