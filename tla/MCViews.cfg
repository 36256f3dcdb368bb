SPECIFICATION FairSpec
CONSTANTS
  none = none
  Parts = {"editor", "orders", "panning", "flat", "three", "hurried", "crossing", "clicks", "panels", "gripped", "windows"}
  Sketching <- EditedLand
  Ordering <- OrderedLand
  Roaming <- EmptyLand
  TwoD <- FlatOffices
  ThreeD <- DeepOffices
  Hurry <- HurriedFloor
  Stray <- LeftFloor
  Steady <- ClickedFloor
  Furnished <- TwoOffices
  Resized <- OneOffice
CHECK_DEADLOCK FALSE
INVARIANTS
  InputHasOneOwner
PROPERTIES
  WindowsFit
  FramesAgree
  ActsOnWhatWasPressed
  Leaves
