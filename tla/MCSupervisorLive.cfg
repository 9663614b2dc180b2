\* One caller under fairness; its contexts end, the endpoint may ignore SIGTERM.
SPECIFICATION FairSpec
CONSTANTS
  Procs = {p1, p2, p3}
  Callers = {c1}
  Revisions = {r1, r2}
  Contexts = {req}
  Cancellable = {req}
  MaxRestarts = 2
  ExecMayFail = FALSE
  None = None
PROPERTIES
  StopReturns
  RecoveredUnlessCancelled
