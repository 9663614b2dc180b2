\* A certificate is renewed; nothing fails.
SPECIFICATION Spec
CONSTANTS
  Users = {u1}
  Pairs = {t1, t2}
  MaxCred = 2
  Faults = {}
  MaxFaults = 0
  None = None
SYMMETRY Symmetry
INVARIANTS
  SharedCertificate
