SPECIFICATION Spec
CONSTANTS
  hub = hub
  mid = mid
  leaf = leaf
  side = side
  u = u
  v = v
  Nodes = {hub, mid, leaf, side}
  Root = hub
  DS = DS
  Everyone = Everyone
  Others = Others
  Writers = {u, v}
  Home <- Homes
  Tree <- Shape
  MaxWrites = 3
  Plans <- AllPlans
INVARIANTS
  TypeOK
  Whole
  OnceAndAddressed
  AllReached
  FaultCostsTwo
CHECK_DEADLOCK FALSE
