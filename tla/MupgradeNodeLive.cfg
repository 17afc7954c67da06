SPECIFICATION FocusFairSpec
CONSTANTS
  A = A
  B = B
  NoFw = NoFw
  Devices = {d1}
  RootTypes = {}
  Campaigns <- OneFirmware
  PacketNum <- PacketsOne
  MaxPacket = 3
  SavedNum = 4
  Interval = 33
  Broadcast = FALSE
  UplinkCap = 1
PROPERTIES
  UpgradeFinishes
