SPECIFICATION Spec
CONSTANTS
  Rank <- MCRank
  band_freq <- MCBandFreq
  band_name <- MCBandName
  Names <- MCNames
  NewName = "newlog"
  FirstName = "logbook"
  InitDisk <- OneEach
  Forms <- MCForms
  Adifs <- MCAdifs
  Kinds <- BothSorts
  Today = 2
  Midnight = 1
  MaxRecs = 3
  MaxOps = 6
INVARIANTS
  BrowserShowsAll CleanMeansSaved RestartShowsLog
