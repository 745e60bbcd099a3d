\* Two members and one node joining; no crash.
CONSTANTS
  NumNodes = 2
  MaxMembers = 3
  MaxCrashes = 0
  Crashable = {}
  Leavers = {}
  MaxMsgs = 0
  Senders = {}
  PriorCrash <- NoNode
  NumJoiners = 1
SPECIFICATION Spec
INVARIANT ViewAgreement
PROPERTIES JoinCompletes ViewSequenceRefinement
\* Once the join is installed the group idles.
CHECK_DEADLOCK FALSE
