SPECIFICATION Spec
CONSTANTS
  Timers = {listen, led}
  Led = led
  NULL = NULL
  NumEvents = 2
  MaxPosts = 1
  MaxTime = 2
  MaxLate = 1
  MaxAgain = 1
  Preempt = "between"
INVARIANTS SetIsWaitedFor
PROPERTIES ExpiredIsCalled
