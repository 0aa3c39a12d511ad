SPECIFICATION Spec
CONSTANTS
  Containers = {0, 1, 2}
  Irqs = {1, 2}
  Pri <- TwoLevels
  Systems <- NormalOrSecure
INVARIANTS
  TypeOK
  HandlerInItsContainer
  UnlockEnables
  LockHolds
PROPERTIES
  NormalsKeepToTheirs
