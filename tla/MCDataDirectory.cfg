SPECIFICATION Spec
CONSTANTS
  Users = {u1}
  LegacyUsers = {u1}
  Pairs = {p1, p2}
  LegacyPair = p1
  MaxChanges = 1
  None = None
INVARIANTS
  VolumeResolves
  ArchiveResolves
  RestoreComplete
  MarkerMeansImported
  ReportedKept
