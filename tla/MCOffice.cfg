SPECIFICATION FairSpec
CONSTANT
  Parts = {"team", "sleepers", "solo", "ephemeral", "plan", "zones", "teams", "crowded", "tight", "ways", "benches"}
CHECK_DEADLOCK FALSE
INVARIANTS
  OfficeHolds
  FloorStands
  PathIsAWay
PROPERTIES
  FloorGrows
  MissionsEnd
