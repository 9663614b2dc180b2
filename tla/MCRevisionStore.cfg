\* certificate.TLSStore; config.Materializer has the same steps but for the one
\* of a Rollback without a previous revision.
SPECIFICATION Spec
CONSTANTS
  Revisions = {r1, r2, r3}
  None = None
  RollbackClears = TRUE
INVARIANTS
  LinksSurvive
  CurrentValidated
PROPERTY
  Atomic
