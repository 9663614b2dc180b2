\* Every request and fault, under fairness.
SPECIFICATION FairSpec
CONSTANTS
  Hosts = {h1, h2}
  Requests = {"save", "issue", "renew"}
  Faults = {"cancel", "db", "acme", "publish", "stop"}
  MaxFaults = 2
  None = None
INVARIANTS
  ActiveCoversHost
  SettingsAgree
PROPERTIES
  PairKept
  SettingsKept
  InterruptedResolved
  PairObtained
