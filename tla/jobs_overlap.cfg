SPECIFICATION Spec
CONSTANTS
  MaxJobs = 2
  Docs = {d1}
  Workers = {w1, w2}
  Sessions = {s1}
  Postgres = FALSE
  ClaimTries = 2
  MaxAttempts = 1
  MaxCancels = 2
  MaxCrashes = 1
  NoDoc = NoDoc
  NoWorker = NoWorker
SYMMETRY Interchangeable
INVARIANTS
  TypeOK
  RunningJobIsOwned
  ProcessingDocumentIsWorked
  CompletedDocumentIsReviewable
  TrailExplainsState
  ClaimedOncePerEnqueue
PROPERTIES
  ImplementsQueue
  CancelUndoneOnlyByStaleWrite
