SPECIFICATION Spec
CONSTANTS
  w1 = w1
  w2 = w2
  NoWorker = NoWorker
  Worker = {w1, w2}
  TTL = 15
  Interval = 5
  Timeout <- Timeouts
INVARIANT HeldIsOwned
