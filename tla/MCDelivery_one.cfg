SPECIFICATION Spec
CONSTANTS
  NoCmd = NoCmd
  NoThread = NoThread
  Worker = Worker
  Boot = Boot
  Cmds = {c1, refused}
  Gated = {c1}
  MissionOf <- NoMission
  Handlers = {h1, h2}
  Requests = {"approve", "reject", "cancel"}
  MaxFaults = 2
  MaxCrashes = 2
  Blocked = {refused}
  TornDumps = TRUE
INVARIANTS
  RunsOnce
  NothingIsForgotten
PROPERTIES
  RefusedStaysRefused
