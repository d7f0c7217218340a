SPECIFICATION FairSpec
CONSTANTS
  server = server
  command1 = command1
  command2 = command2
  Processes <- Two
  Last = 8
  MaxFailures = 2
PROPERTIES
  EverybodyGetsIn
