SPECIFICATION FocusSpec
CONSTANTS
  A = A
  B = B
  NoFw = NoFw
  Devices = {d1, d2}
  RootTypes = {d2}
  Campaigns <- TwoFirmwares
  PacketNum <- Packets
  MaxPacket = 3
  SavedNum = 4
  Interval = 33
  Broadcast = FALSE
  UplinkCap = 1
INVARIANTS
  TypeOK
  ProgressOnFlash
  WrittenCountsProgress
  FinishReportHonest
  StopHonoured
PROPERTIES
  ImplementsDevice
