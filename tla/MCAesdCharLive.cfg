CONSTANTS
  MAX_WRITE_OPERATIONS = 1
  NULL = NULL
  Free = Free
  a = a
  NL = NL
  Bytes = {a, NL}
  Threads = {t1, t2}
  Files = {f1}
  Blocks = {b1, b2, b3}
  KMALLOC_MAX = 2
  Counts = {1}
  UserBuffers <- MCLiveUserBuffers
  SeekTos <- MCLiveSeekTos
  Seeks <- MCLiveSeeks
SPECIFICATION FairSpec
PROPERTY CallsReturn
