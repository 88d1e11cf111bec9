SPECIFICATION FairSpec
CONSTANTS
  Main = main
  Xml = xml
  Calls = 2
  AwakeMax = 1
INVARIANTS
  LoneLineKept
  CalmLogIsExact
PROPERTIES
  LogReturns
  LoneLineShown
CHECK_DEADLOCK FALSE
