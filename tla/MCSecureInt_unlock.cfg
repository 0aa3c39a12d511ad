SPECIFICATION Spec
CONSTANTS
  Containers = {0, 1}
  Irqs = {1, 2}
  Pri <- TwoLevels
  Systems <- SecureUnlocks
INVARIANTS
  UnlockEnables
