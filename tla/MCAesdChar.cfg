CONSTANTS
  MAX_WRITE_OPERATIONS = 2
  NULL = NULL
  Free = Free
  a = a
  NL = NL
  Bytes = {a, NL}
  Threads = {t1, t2}
  Files = {f1}
  Blocks = {b1, b2, b3, b4, b5}
  KMALLOC_MAX = 4
  Counts = {2}
  UserBuffers <- MCUserBuffers
  SeekTos <- MCSeekTos
  Seeks <- MCSeeks
SYMMETRY Symmetry
SPECIFICATION Spec
INVARIANTS TypeOK LockDiscipline HeapOwned FoundStands LinesAreTerminated ReadsTheStream
PROPERTY ImplementsLineDevice
