SPECIFICATION Spec
CONSTANTS
  Rank <- MCRank
  band_freq <- MCBandFreq
  band_name <- MCBandName
  Requests <- AllCalls
  Kinds <- BothSorts
  InitLog <- TwoLog
  Within <- MCWithin
  Unended = {}
  MayDelete = TRUE
  MaxCalls = 3
  MaxUi = 1
INVARIANTS
  LatestAddApplied
  AddsConserved
  FileCurrent
  BrowserInSync
PROPERTIES
  SlotsStable
  RecentSelectedAfterLoad
  GetRightWhenQuiet
