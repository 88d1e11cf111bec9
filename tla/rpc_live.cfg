SPECIFICATION FairSpec
CONSTANTS
  Clients = {c1}
  OldHttp = {}
  MaxCalls = 2
  MaxConns = 3
  BodyLen = 2
  ReplyLen = 1
  Capacity = 3
  MaxCrashes = 1
  MaxTimeouts = 1
INVARIANTS RequestsWhole
PROPERTIES AnswerIsToTheCall CallReturns CallsImplemented
