SPECIFICATION Spec
CONSTANTS
  Rank <- MCRank
  band_freq <- MCBandFreq
  band_name <- MCBandName
  Requests <- AddCalls
  Kinds <- DateSort
  InitLog <- TwoLog
  Within <- MCWithin
  Unended = {}
  MayDelete = FALSE
  MaxCalls = 2
  MaxUi = 0
INVARIANTS
  NoAddLost
