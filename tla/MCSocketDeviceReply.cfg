CONSTANTS
  Clients = {c1, c2}
  NULL = NULL
  a = a
  b = b
  NL = NL
  MAX_WRITE_OPERATIONS = 2
  MAX_PACKETS = 2
  Packets <- MCPackets
  SeekTos = {}
SPECIFICATION Spec
PROPERTY ReplyIsTheDevice
