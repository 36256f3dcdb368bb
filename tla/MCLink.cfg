SPECIFICATION FairSpec
CONSTANTS
  MaxFlaps = 1
  MaxFaults = 1
  MaxHealth = 1
  MaxTimers = 2
  Interval <- EveryOtherTick
  MaxInFlight = 2
  MaxChanges = 1
  Mounts = 1
  MaxBanners = 4
  Cmds = {danger}
  High = {danger}
  Trusted = {danger}
  MaxFetches = 1
  MaxLost = 1
  Parts = {"bridge", "polling", "banners", "patient", "cards"}
CHECK_DEADLOCK FALSE
INVARIANTS
  OneStream
  BannersKept
  CardTruthful
PROPERTIES
  NothingTooSoon
  NothingIsStuck
