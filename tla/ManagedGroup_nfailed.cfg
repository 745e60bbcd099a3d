\* Three members, one crash, no application messages: a follower whose
\* predicate thread runs leader_committed_next_view before it has handled
\* the suspicion carried by the same proposal.
CONSTANTS
  NumNodes = 3
  MaxMembers = 3
  MaxCrashes = 1
  Crashable = {0, 1, 2}
  Leavers = {}
  MaxMsgs = 0
  Senders = {}
  PriorCrash <- NoNode
  NumJoiners = 0
SPECIFICATION Spec
INVARIANT NFailedCounts
\* Once the bounded crashes are spent the group idles.
CHECK_DEADLOCK FALSE
