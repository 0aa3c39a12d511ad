SPECIFICATION Spec
CONSTANTS
  Containers = {0, 1, 2}
  Secure = {1}
  Interfaces = {1, 2}
  Irqs = {1, 2, 3}
  Priorities = {0, 1, 2}
  MaxDepth = 8
  Boot <- AnyOwners
  Values = {0, 1}
  MaxLocals = 1
  StackCells = 9
  AllowLoops = TRUE
VIEW LiveState
INVARIANTS
  NoCallLoop
