SPECIFICATION FairSpec
CONSTANTS
  u = u
  v = v
  x = x
  pipe = pipe
  Readers = {pipe}
  Writers = {u, v}
  Home <- Homes
  Target <- Targets
  Retry = 2
  QueueCap = 2
  Room = 3
  MaxWrites = 3
  Plans <- AllPlans
INVARIANTS
  TypeOK
  Whole
  InOrderOnce
  AckedHeard
  FaultCosts
PROPERTIES
  WritesReturn
CHECK_DEADLOCK FALSE
