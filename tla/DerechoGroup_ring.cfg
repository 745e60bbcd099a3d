\* A single-member view (spec scenario 5): window 2, messages of half the
\* ring; the third reservation comes while the first is undelivered.
CONSTANTS
  N = 1
  MaxMsgs = 3
  WindowSize = 2
  BufferSize <- MCBufferSize
  MsgSizes <- MCMsgSizes
  NoMsg = NoMsg
  Empty = Empty
SPECIFICATION Spec
INVARIANT ReservationsDisjoint
CHECK_DEADLOCK FALSE
