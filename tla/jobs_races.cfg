SPECIFICATION Spec
CONSTANTS
  MaxJobs = 1
  Docs = {d1}
  Workers = {w1, w2}
  Sessions = {s1, s2}
  Postgres = TRUE
  ClaimTries = 2
  MaxAttempts = 2
  MaxCancels = 1
  MaxCrashes = 0
  NoDoc = NoDoc
  NoWorker = NoWorker
SYMMETRY Interchangeable
INVARIANTS
  OutcomesBoundedByAttempts
