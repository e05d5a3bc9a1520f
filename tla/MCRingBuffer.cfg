CONSTANTS
  MAX_WRITE_OPERATIONS = 3
  NULL = NULL
  Ptrs = {p1, p2}
  MAX_SIZE = 2
SPECIFICATION Spec
INVARIANTS TypeOK RingShape FindsTheByte SeekAndFindAgree
PROPERTY ImplementsWriteLog
