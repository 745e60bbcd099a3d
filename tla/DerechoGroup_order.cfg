\* Two members, two messages each, window 1: one sender's second message
\* can arrive before the other sender's first, so receives reach a member
\* out of the total order, and every interleaving of receives, puts and
\* predicate firings is explored.
CONSTANTS
  N <- MCN
  MaxMsgs = 2
  WindowSize = 1
  BufferSize <- MCBufferSize
  MsgSizes <- MCMsgSizes
  NoMsg = NoMsg
  Empty = Empty
SPECIFICATION Spec
INVARIANT TypeOK
INVARIANT SeqNumIsReceivedPrefix
INVARIANT StableMeansReceivedEverywhere
PROPERTY TotalOrderRefinement
INVARIANT DeliveredMeansReceivedEverywhere
\* The bounded workload ends: once every message is delivered the predicate
\* thread and the worker idle, which TLC sees as a state without successors.
CHECK_DEADLOCK FALSE
