SPECIFICATION FairSpec
CONSTANTS
  Parts = {"transcript", "chunks", "pair", "single", "composer", "strip", "directory", "drift", "quests", "runs", "visitor", "resident"}
  Chat <- TwoUnits
  Chunks <- TwoChunks
  Pair <- TwoSessions
  Single <- OneSession
  Strip <- OwnUnit
  Directory <- ExternalSession
  Drift <- OneRun
  Quests <- OneMission
  Runs <- TwoRuns
  Visitor <- OneVisitor
  Resident <- OneResident
CHECK_DEADLOCK FALSE
INVARIANTS
  TranscriptsKept
  ShownIsOurs
  AttentionHonest
  NoGhost
PROPERTY
  NothingIsStuck
