\* Two callers race with the watch goroutines; execs may fail, contexts end.
SPECIFICATION Spec
CONSTANTS
  Procs = {p1, p2, p3}
  Callers = {c1, c2}
  Revisions = {r1, r2}
  Contexts = {req}
  Cancellable = {req}
  MaxRestarts = 1
  ExecMayFail = TRUE
  None = None
SYMMETRY Symmetry
INVARIANTS
  OneEndpoint
  StatusTruthful
  BreakerBounds
PROPERTY
  StopIsFinal
