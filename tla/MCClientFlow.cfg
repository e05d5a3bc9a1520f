CONSTANTS
  Frags = {g1, g2, g3, g4}
  NULL = NULL
  BUFFER_SIZE = 2
  NL = NL
  Bytes = {a, NL}
  MAX_STREAM = 7
SYMMETRY Symmetry
SPECIFICATION Spec
INVARIANTS TypeOK FragmentsOwned PacketsAreLines
