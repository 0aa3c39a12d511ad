CONSTANTS
  small = small
  medium = medium
  large = large
  Images = {small, medium, large}
  Size <- Sizes
  NumSectors = 2
  Initial = small
  Excluded = {"stale"}
SPECIFICATION FairSpec
PROPERTIES RevertsAreConfirmed
