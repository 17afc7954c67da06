SPECIFICATION HeardSpec
CONSTANTS
  r1 = r1  r2 = r2  d1 = d1  d2 = d2
  Requests = {r1, r2}
  NoRequest = NoRequest
  Devices = {d1, d2}
  MaxConnect = 2
  MaxSockets = 2
  QueueLen = 1
  Root = root
  Nodes = {d1, d2}
  NoticeLen = 2
  Batch = 2
  Kinds = {"got", "lost", "dhcp", "table", "mesh", "exception", "reset"}
  Senders = {"event", "timer"}
  Delayed = "timer"
  QueueNum = 3
  Source <- MCSource
  Buffers <- MCBuffers
  Task <- MCTask
  Turns <- MCTurns
  Plans <- MCPlans
INVARIANTS
  TypeOK
  AnswersRight
  AnswersComplete
  SlotsWatched
  QueueThere
  NoticesKept
  ServicesFollow
  OwnData
PROPERTIES
  HandlerReturns
  RequestEnds
CHECK_DEADLOCK FALSE
