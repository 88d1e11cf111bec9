SPECIFICATION Spec
CONSTANTS
  Letters <- MCLetters
  Values <- MCValues
  Foreign <- MCForeign
  MaxLog = 2
  Record <- MCRecord
  OtherCalls <- MCOtherCalls
INVARIANTS
  ReadsWhatIsWritten
  NoRecordIsLost
  CallSetsItsFields
  CallIsCarried
PROPERTIES
  Ends
