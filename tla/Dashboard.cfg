CONSTANTS
  Streams = {s1, s2}
  Publishers = {loop}
  Logger = logger
  Buffer = 1
  Size = 2
  MaxEntries = 3
SPECIFICATION Spec
INVARIANT NoSendOnClosed
INVARIANT LogOrder
INVARIANT RingIsTail
PROPERTY PublishReturns
PROPERTY LockIsTaken
