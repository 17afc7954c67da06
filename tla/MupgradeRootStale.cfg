SPECIFICATION Spec
CONSTANTS
  A = A
  B = B
  NoFw = NoFw
  Devices = {d1}
  Firmware = {A, B}
  PacketNum <- OnePacket
  MaxPacket = 1
  QueueCap = 1
  MeshCap = 1
  ToAll = FALSE
  Plans <- Answers
INVARIANTS
  SuccessTrue
