SPECIFICATION FairSpec
CONSTANTS
  Parts = {"paint", "district", "towns", "selection", "history", "wonders", "single", "patient", "hasty"}
  Brushing <- TwoRepos
  Winging <- WithDistrict
  Founding <- WithTowns
  Selecting <- WithChoice
  Crowded <- ThreeWonders
  Alone <- OneRequest
  Steady <- FourWonders
  Hasty <- OneCity
CHECK_DEADLOCK FALSE
INVARIANTS
  EditsAreSaved
  MapFollowsRegistry
  NotBlind
PROPERTIES
  UndoRestores
  EveryWindowShows
