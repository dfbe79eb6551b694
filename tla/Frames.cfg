SPECIFICATION FairSpec
CONSTANTS
  Regions = {1, 2}
  Slots = 2
  Extents = 2
  MaxFrames = 6
  MaxChanges = 1
  MaxSwapchains = 2
  MaxTexture = 2
INVARIANTS
  BuffersLeftAlone
  DrawsTheRegions
  NamesWhatExists
PROPERTIES
  WaitsEnd
CHECK_DEADLOCK FALSE
