SPECIFICATION Spec
CONSTANTS
  Nodes = {3, 12, 32}
  MaxIds = 2
  Known = {"blink"}
  Unknown = {"typo"}
  MaxSent = 1
INVARIANT RunsWhereSent
CHECK_DEADLOCK FALSE
