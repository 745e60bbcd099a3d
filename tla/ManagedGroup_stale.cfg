\* Four nodes; the group has removed crashed node 1 and runs view 4 with
\* members 0, 2, 3.  Node 2, now at rank 1, may crash.  No application
\* messages.  last_suspected keeps the ranks of the view it was written in.
CONSTANTS
  NumNodes = 4
  MaxMembers = 4
  MaxCrashes = 2
  Crashable = {2}
  Leavers = {}
  MaxMsgs = 0
  Senders = {}
  PriorCrash = 1
  NumJoiners = 0
SPECIFICATION Spec
PROPERTY StoppedEventuallyRemoved
\* Once the bounded crashes are spent the group idles.
CHECK_DEADLOCK FALSE
