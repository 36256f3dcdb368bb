SPECIFICATION Spec
CONSTANTS
  NoCmd = NoCmd
  NoThread = NoThread
  Worker = Worker
  Boot = Boot
  Cmds = {c1}
  Gated = {c1}
  MissionOf <- NoMission
  Handlers = {h1, h2}
  Requests = {"approve"}
  MaxFaults = 0
  MaxCrashes = 1
  Blocked = {}
  TornDumps = FALSE
INVARIANTS
  NeverSilentlyLost
