SPECIFICATION FairSpec
CONSTANTS
  Parts = {"approving", "mission", "posting", "expiring", "recovering"}
  Cmds = {c1, c2}
  First = c1
  Parent <- OfFirst
  Handlers = {h1, h2}
  NoCmd = NoCmd
  NoThread = NoThread
  Worker = Worker
  Boot = Boot
  Crashes = 2
  Faults = 2
INVARIANTS
  WithdrawnNeverRuns
PROPERTIES
  ImplementsContract
  Delivers
