SPECIFICATION FairSpec
CONSTANTS
  idle = idle
  worker = worker
  server = server
  Tasks = {idle, worker, server}
  Idle = idle
  Priority <- TwoPriorities
  Levels = {0, 1}
  KernelLevels = {1}
  MaxValue = 1
  MaxNesting = 2
  Exc = Exc
  Boot = Boot
INVARIANTS
  TypeOK
  MostUrgentRuns
  ExceptionStackFree
  InterruptsFollowNesting
  SuspensionHolds
  NotifiedTasksAreReady
  GivesAreCounted
PROPERTIES
  ImplementsMultitasking
  UrgentTaskRuns
