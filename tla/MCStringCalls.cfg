\* Strings apart from the buffer and overlapping it: the passes against the promise.
SPECIFICATION FromMatched
CONSTANTS
  Addr <- Cells
  Byte <- Bytes
  NUL = 0
  Buf <- Buffer
  Caps <- AllCaps
  Programs <- AllPrograms
  Memories <- AllMemories
  Unset <- Untouched
  MaxCalls = 3
CHECK_DEADLOCK FALSE
INVARIANTS
  RetryConverges OnlyBufferWritten FailureWritesNothing BuiltIsTerminated
PROPERTIES
  Q12 CallsReturn
