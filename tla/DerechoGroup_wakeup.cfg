\* Two members, window 1: the second message of a sender waits for the
\* first to be delivered everywhere; no further message follows it.
CONSTANTS
  N <- MCN
  MaxMsgs = 2
  WindowSize = 1
  BufferSize <- MCBufferSize
  MsgSizes <- MCMsgSizes
  NoMsg = NoMsg
  Empty = Empty
SPECIFICATION Spec
PROPERTY CommittedEventuallyTransmitted
CHECK_DEADLOCK FALSE
