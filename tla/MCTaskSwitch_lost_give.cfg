SPECIFICATION Spec
CONSTANTS
  idle = idle
  worker = worker
  server = server
  Tasks = {idle, worker, server}
  Idle = idle
  Priority <- ThreePriorities
  Levels = {0, 1}
  KernelLevels = {0, 1}
  MaxValue = 2
  MaxNesting = 2
  Exc = Exc
  Boot = Boot
INVARIANTS
  GivesAreCounted
