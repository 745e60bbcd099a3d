\* Two members, window 2: a sender can have two messages in flight, so a
\* receiver can hold two of them before delivering the first.
CONSTANTS
  N <- MCN
  MaxMsgs = 2
  WindowSize = 2
  BufferSize <- MCBufferSize
  MsgSizes <- MCMsgSizes
  NoMsg = NoMsg
  Empty = Empty
SPECIFICATION Spec
INVARIANT DeliveredPayloadIntact
CHECK_DEADLOCK FALSE
