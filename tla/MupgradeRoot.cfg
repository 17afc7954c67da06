SPECIFICATION Spec
CONSTANTS
  A = A
  B = B
  NoFw = NoFw
  Devices = {d1, d2}
  Firmware = {A}
  PacketNum <- TwoPackets
  MaxPacket = 2
  QueueCap = 1
  MeshCap = 1
  ToAll = TRUE
  Plans <- Late
INVARIANTS
  TypeOK
  AccountedFor
  SkippedHeld
  TimelyCompletes
PROPERTIES
  OkMeansDone
SYMMETRY Symmetry
