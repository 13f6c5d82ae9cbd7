CONSTANTS
  Task = {t1, t2}
  InitTask = t1
  FdMax = 2
  Pipes = {p1}
  Size = 2
  Data = {0, 1}
  Payload <- MCPayload
  MaxRequest = 2
  MaxNodes = 2
  Waits <- MCWaits
  MaxPollers = 1
  NULL = NULL
SPECIFICATION PollSpec
INVARIANTS RefcountsExact SleepersHavePeers
PROPERTIES PipeIsStream PollReturns
