\* Requests end, SQLite, the files and the endpoint fail, the endpoint exits and the
\* controller stops at any step; requests also arrive while it recovers.
SPECIFICATION Spec
CONSTANTS
  Users = {u1, u2}
  Pairs = {t1, t2}
  MaxCred = 2
  Faults = {"cancel", "db", "endpoint", "exit", "files", "stop"}
  MaxFaults = 2
  None = None
SYMMETRY Symmetry
INVARIANTS
  PublishedAgrees
  ServesDatabase
  KeepsServing
  TLSPairConfirmed
  AdminFollowsMetadata
