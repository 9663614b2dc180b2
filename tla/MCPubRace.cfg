\* The controller stops and is started again; nothing fails.
SPECIFICATION Spec
CONSTANTS
  Users = {u1, u2}
  Pairs = {t1, t2}
  MaxCred = 2
  Faults = {"stop"}
  MaxFaults = 1
  None = None
SYMMETRY Symmetry
INVARIANTS
  StartupAgrees
