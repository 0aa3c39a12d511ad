CONSTANTS
  small = small
  medium = medium
  large = large
  Images = {small, medium, large}
  Size <- Sizes
  NumSectors = 3
  Initial = small
  Excluded = {"stale", "revert"}
SPECIFICATION FairSpec
INVARIANTS TypeOK NothingLost NeverFailed
PROPERTIES ImplementsUpgrades EventuallyRuns
