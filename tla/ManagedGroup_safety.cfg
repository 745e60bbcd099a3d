\* Three members, any one of which may crash or leave; no application messages.
CONSTANTS
  NumNodes = 3
  MaxMembers = 3
  MaxCrashes = 1
  Crashable = {0, 1, 2}
  Leavers = {0, 1, 2}
  MaxMsgs = 0
  Senders = {}
  PriorCrash <- NoNode
  NumJoiners = 0
SPECIFICATION Spec
INVARIANTS TypeOK ViewAgreement
PROPERTIES StoppedEventuallyRemoved ViewSequenceRefinement
\* Once the bounded crashes are spent the group idles.
CHECK_DEADLOCK FALSE
