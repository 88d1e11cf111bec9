SPECIFICATION FairSpec
CONSTANTS
  Rank <- MCRank
  band_freq <- MCBandFreq
  band_name <- MCBandName
  Requests <- LiveCalls
  Kinds <- DateSort
  InitLog <- TwoLog
  Within <- MCWithin
  Unended <- CallOnly
  MayDelete = FALSE
  MaxCalls = 2
  MaxUi = 1
PROPERTIES
  AddEventuallyApplied
  CallEventuallyAnswered
