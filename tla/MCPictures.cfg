SPECIFICATION FairSpec
CONSTANTS
  Parts = {"land", "town", "loading", "alone", "pair", "leaving", "frames", "doors", "painted"}
  capital = capital
  town = town
  worker = worker
CHECK_DEADLOCK FALSE
INVARIANTS
  LandShown
  FiguresFollow
  NamesFit
PROPERTIES
  EachThingOnce
  Catches
