SPECIFICATION Spec
CONSTANTS
  Clients = {c1, c2}
  OldHttp = {c2}
  MaxCalls = 1
  MaxConns = 2
  BodyLen = 1
  ReplyLen = 1
  Capacity = 2
  MaxCrashes = 1
  MaxTimeouts = 1
INVARIANTS
  EveryConnectionMonitored
PROPERTIES
  NoFailureWithoutCause
