SPECIFICATION Spec
CONSTANTS
  Procs = {a, b}
  Polled = {a}
  NumEvents = 3
  Posted = {b, BROADCAST}
  MaxCalls = 2
  NULL = NULL
  BROADCAST = BROADCAST
INVARIANTS ListedRun BroadcastReachesAll SleepsIdle
PROPERTIES PollServed InOrder
