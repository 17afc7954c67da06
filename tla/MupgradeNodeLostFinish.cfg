SPECIFICATION FocusSpec
CONSTANTS
  A = A
  B = B
  NoFw = NoFw
  Devices = {d1}
  RootTypes = {}
  Campaigns <- OneFirmware
  PacketNum <- PacketsOne
  MaxPacket = 3
  SavedNum = 4
  Interval = 50
  Broadcast = FALSE
  UplinkCap = 1
INVARIANTS
  FinishReportHonest
