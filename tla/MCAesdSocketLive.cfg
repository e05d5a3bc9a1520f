CONSTANTS
  Nodes = {c1, c2, c3}
  FDs = {4, 5, 6}
  ADDRESSES = 1
  NULL = NULL
  HEAD = HEAD
  GARBAGE = GARBAGE
SPECIFICATION FairSpec
PROPERTIES PacketsAnswered SignalEndsServer
CONSTRAINT Runs
