CONSTANTS
  Nodes = {c1, c2}
  FDs = {4, 5}
  ADDRESSES = 2
  NULL = NULL
  HEAD = HEAD
  GARBAGE = GARBAGE
SPECIFICATION FairSpec
PROPERTY ShutdownCompletes
