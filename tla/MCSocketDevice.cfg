CONSTANTS
  Clients = {c1, c2}
  NULL = NULL
  a = a
  b = b
  NL = NL
  MAX_WRITE_OPERATIONS = 2
  MAX_PACKETS = 4
  Packets <- MCPackets
  SeekTos <- MCSeekTos
SYMMETRY Symmetry
SPECIFICATION Spec
INVARIANTS TypeOK LinesArePackets ReplyIsSnapshot ExactlyOnce
PROPERTIES ReplyHoldsPacket ReplyIsTheFile
