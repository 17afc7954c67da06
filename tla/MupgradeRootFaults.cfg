SPECIFICATION FairSpec
CONSTANTS
  A = A
  B = B
  NoFw = NoFw
  Devices = {d1}
  Firmware = {A}
  PacketNum <- OnePacket
  MaxPacket = 1
  QueueCap = 1
  MeshCap = 1
  ToAll = FALSE
  Plans <- AnyFault
INVARIANTS
  SuccessTrue
PROPERTIES
  SendReturns
