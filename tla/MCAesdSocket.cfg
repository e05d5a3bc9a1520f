CONSTANTS
  Nodes = {c1, c2, c3}
  FDs = {4, 5, 6}
  ADDRESSES = 2
  NULL = NULL
  HEAD = HEAD
  GARBAGE = GARBAGE
SYMMETRY Symmetry
SPECIFICATION Spec
INVARIANTS TypeOK ListenerIsBound ListIsAllocated ThreadsOwnTheirs MainClosesLeftovers AllReleased
