SPECIFICATION Spec
CONSTANTS
  Fields = {f1, f2}
  Values = {"missing", "given"}
  Confident = {f1}
  Formula <- Quotient
  CalcReview = FALSE
  AllowNull = TRUE
  Flagged = {"missing input"}
  Sessions = {s1, s2}
  Formats = {json}
  MaxRuns = 1
  MaxReviews = 2
  MaxExports = 0
  MaxSecond = 0
  Null = Null
SYMMETRY Interchangeable
INVARIANTS
  EditsPersist
