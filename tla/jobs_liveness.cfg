SPECIFICATION FairSpec
CONSTANTS
  MaxJobs = 2
  Docs = {d1, d2}
  Workers = {w1}
  Sessions = {s1}
  Postgres = TRUE
  ClaimTries = 2
  MaxAttempts = 1
  MaxCancels = 2
  MaxCrashes = 0
  NoDoc = NoDoc
  NoWorker = NoWorker
PROPERTIES
  JobsSettle
  DocumentsSettle
