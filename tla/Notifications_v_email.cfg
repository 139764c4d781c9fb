SPECIFICATION Spec
CONSTANTS
  None = None  u1 = u1  u2 = u2  d1 = d1  d2 = d2  d3 = d3
  Users = {u1, u2}
  Devices = {d1, d2, d3}
  Owner <- MCOwner
  Ios = {d2}
  OptedOut = {}
  Addressed = {u1}
  Chunk = 1
  MaxAttempts = 2
  MaxRetries = 1
  QueueCap = 1
  Batch = 1
  MaxTriggers = 1
  MaxCrashes = 0
  MaxFaults = 1
INVARIANT PushKeepsMail
CHECK_DEADLOCK FALSE
