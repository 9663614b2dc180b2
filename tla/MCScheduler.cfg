\* The worker with two challenges, a request of the page with one, a shutdown.
SPECIFICATION FairSchedulerSpec
CONSTANTS
  Challenges = {c1, c2, c3}
  Servers = {s1, s2, s3, s4}
  Requests = {q1, q2}
  MaxParallel = 1
  None = None
  Own = {c1, c2}
  baseBackoff = 10
  maxBackoff = 70
  Poll = 5
  MaxAttempts = 3
INVARIANTS
  SchedulerTypeOK
  Answerable
  PortReleased
  SlotsCounted
  RetryDelay
  StoppedQuiet
PROPERTIES
  PortFreed
  NotStuckBusy
  StopCompletes
