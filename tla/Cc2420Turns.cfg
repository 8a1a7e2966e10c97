SPECIFICATION Spec
CONSTANTS
  MaxFrames = 3
  Room = 2
  MaxMet = 1
  Edges = {TRUE, FALSE}
INVARIANTS LockBalanced DeferredDone Honoured HandsOverFrames Noticed
PROPERTIES FrameHandled
