SPECIFICATION FairSpec
CONSTANTS
  Containers = {0, 1, 2, 3}
  Secure = {2}
  Regions <- Configured
  Runtime <- RuntimeRegions
  MpuEntries = 6
  Instructions <- SomeInstructions
INVARIANTS
  TypeOK
  EntriesUsable
  FirstRegionsStay
  RetriesBounded
PROPERTIES
  ImplementsProtection
  AllowedIsDone
