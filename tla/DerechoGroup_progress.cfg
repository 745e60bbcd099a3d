\* Two members, two messages each, window 1.
CONSTANTS
  N <- MCN
  MaxMsgs = 2
  WindowSize = 1
  BufferSize <- MCBufferSize
  MsgSizes <- MCMsgSizes
  NoMsg = NoMsg
  Empty = Empty
SPECIFICATION Spec
INVARIANT WindowBound
PROPERTY TotalOrderSpec
\* The bounded workload ends in states without successors.
CHECK_DEADLOCK FALSE
