CONSTANTS
  Uploads = {u1, u2, u3}
  Long = u3
  Length <- MCLength
  NumChunks = 2
  Names = {n1}
  Contents = {c1, c2}
  Handlers = {h1, h2}
  MaxSessions = 2
  ConcurrentDeletes = FALSE
  MaxCrashes = 1
  Nil = Nil
SPECIFICATION Spec
CONSTRAINT Focus
SYMMETRY MCSymmetry
CHECK_DEADLOCK FALSE
INVARIANTS TypeOK CatalogIntact OneFinalizer ResumePoint ClaimsHaveOwners
