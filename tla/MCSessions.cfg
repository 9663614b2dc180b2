\* One account from two addresses, with fewer entries than keys and a window longer
\* than the longest delay; two requests at a time, and a change of the password.
SPECIFICATION FairSpec
CONSTANTS
  Accounts = {a}
  Addresses = {i1, i2}
  AnyAddress = Any
  Window = 3
  MaxShift = 1
  MaxEntries = 2
  Requests = {r1, r2}
  MaxTokens = 2
  MaxChanges = 1
  Admin = a
  None = None
INVARIANTS
  TypeOK
  OnlyUnderWayEscape
PROPERTIES
  FirstAdminKept
  FailureDelays
  NotLockedOut
