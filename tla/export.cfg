SPECIFICATION ExportSpec
CONSTANTS
  Ids = {1, 2, 3}
  Undated = {1}
  CallRank <- MCCallRank
  MaxSlots = 3
INVARIANTS
  MarksHaveCause
PROPERTIES
  WritesWhatIsChecked
  ExportKeepsLog
