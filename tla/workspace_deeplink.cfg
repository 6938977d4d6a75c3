SPECIFICATION Spec
CONSTANTS
  Jobs = {1, 2}
  Fields = {amount}
  HighConfidence = {amount}
  Pollers = {poll}
  Handlers = {h1}
  RequireReviewCleared = TRUE
  None = None
  InitialStatus = {"none", "completed"}
  MaxEvents = 2
PROPERTY DeepLinkHonoured
