CONSTANTS
  Kinds = {"page", "error", "gateway"}
  MaxReplies = 3
  HeadLen = 2
  FileLen = 3
  CrlfLen = 1
  ErrorLen = 2
  ChunkLen = 3
  Window = 2
SPECIFICATION FairSpec
INVARIANTS
  BufferCoversQueue
  FilesSentOnce
  BufferedInOrder
PROPERTIES
  Flushed
CHECK_DEADLOCK FALSE
