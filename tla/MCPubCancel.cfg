\* The client of a request goes away.
SPECIFICATION Spec
CONSTANTS
  Users = {u1}
  Pairs = {t1, t2}
  MaxCred = 2
  Faults = {"cancel"}
  MaxFaults = 1
  None = None
SYMMETRY Symmetry
INVARIANTS
  RollbackServes
