SPECIFICATION FairSpec
CONSTANTS
  RW009_INIT_RETRY = 3
  MaxWaiting = 2
PROPERTIES
  EndsInTime
