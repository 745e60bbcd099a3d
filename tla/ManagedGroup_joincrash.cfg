\* Three members and one node joining; the leader may crash.
CONSTANTS
  NumNodes = 3
  MaxMembers = 4
  MaxCrashes = 1
  Crashable = {0}
  Leavers = {}
  MaxMsgs = 0
  Senders = {}
  PriorCrash <- NoNode
  NumJoiners = 1
SPECIFICATION Spec
INVARIANT ViewChangeWaitsCanEnd
CHECK_DEADLOCK FALSE
