SPECIFICATION HangingSpec
CONSTANTS
  c1 = c1
  c2 = c2
  c3 = c3
  h1 = h1
  h2 = h2
  MAIN = MAIN
  SCOUT = SCOUT
  NoCmd = NoCmd
  NoThread = NoThread
  Worker = Worker
  Cmds <- ThreeCommands
  Gated <- None
  MissionOf <- NoMission
  Handlers <- TwoHandlers
  Bases <- TwoBases
  BaseOf <- Busy
  Limit <- Slots
  Cancels = TRUE
  MaxFaults = 1
  MaxCrashes = 1
  Prompt <- ScoutOnly
INVARIANTS
  SlotsHold
PROPERTIES
  NoHeadOfLineBlocking
