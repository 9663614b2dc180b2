\* One caller whose request context ends: is a crash still recovered from?
SPECIFICATION FairSpec
CONSTANTS
  Procs = {p1, p2, p3}
  Callers = {c1}
  Revisions = {r1, r2}
  Contexts = {req}
  Cancellable = {req}
  MaxRestarts = 2
  ExecMayFail = FALSE
  None = None
PROPERTY
  CrashRecovered
