SPECIFICATION Spec
CONSTANTS
  Fields = {f1}
  Values = {"missing", "zero", "given"}
  Confident = {f1}
  Formula <- Quotient
  CalcReview = FALSE
  AllowNull = TRUE
  Flagged = {"division by zero"}
  Sessions = {s1, s2}
  Formats = {json}
  MaxRuns = 2
  MaxReviews = 2
  MaxExports = 1
  MaxSecond = 1
  Null = Null
SYMMETRY Interchangeable
INVARIANTS
  TypeOK
  GuardedExportIsClean
  CalculatedMatchesFields
PROPERTIES
  ApproveAllLeavesOnlyCalculated
  EditsLostOnlyByStaleWrite
