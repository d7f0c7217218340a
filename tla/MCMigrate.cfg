SPECIFICATION FairSpec
CONSTANTS
  server = server
  command1 = command1
  command2 = command2
  Processes <- Three
  Last = 8
  MaxFailures = 2
INVARIANTS
  TypeOK
  OpenIsComplete
  VersionCounts
PROPERTIES
  UpgradesInPlace
