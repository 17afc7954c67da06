SPECIFICATION Spec
CONSTANTS
  root = root  a = a  b = b
  Nodes = {root, a, b}
  First = root
  Hears <- MCHears
  Gens = {1, 2, 3}
  Listed <- MCListed
  Open = {3}
  Keys = {1, 2, 3, 4}
  Retry = 2
  Budgets <- MCBudgets
INVARIANTS
  TypeOK
  Configured
PROPERTIES
  MasterReturns
  EventuallyConfigured
CHECK_DEADLOCK FALSE
