\* Three members, one crash, member 2 multicasts once in the initial view and is the one that may crash.
CONSTANTS
  NumNodes = 3
  MaxMembers = 3
  MaxCrashes = 1
  Crashable = {2}
  Leavers = {}
  MaxMsgs = 1
  Senders = {2}
  PriorCrash <- NoNode
  NumJoiners = 0
SPECIFICATION Spec
INVARIANT RaggedEdgeKeepsSurvivorMessages
\* Once the bounded crashes and messages are spent the group idles.
CHECK_DEADLOCK FALSE
