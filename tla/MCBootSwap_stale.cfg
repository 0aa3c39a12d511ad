CONSTANTS
  small = small
  medium = medium
  large = large
  Images = {small, medium, large}
  Size <- Sizes
  NumSectors = 2
  Initial = large
  Excluded = {"revert"}
SPECIFICATION FairSpec
PROPERTIES InterruptedSwapsComplete
