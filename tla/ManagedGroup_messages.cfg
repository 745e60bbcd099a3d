\* Three members; member 2 multicasts once in the initial view and the
\* leader, member 0, may crash: the view change runs with a message in
\* flight and the new leader computes the ragged edge.
CONSTANTS
  NumNodes = 3
  MaxMembers = 3
  MaxCrashes = 1
  Crashable = {0}
  Leavers = {}
  MaxMsgs = 1
  Senders = {2}
  PriorCrash <- NoNode
  NumJoiners = 0
SPECIFICATION Spec
PROPERTY RaggedCutoffReceived
\* Once the bounded crashes and messages are spent the group idles.
CHECK_DEADLOCK FALSE
