CONSTANTS
  Fields = {"due", "paid", "total", "items", "party", "tags", "qty", "meta"}
  TypeOf <- Type8
  Schema <- PartySchema
  Extracted <- WorkerResults
  Uncertain <- Flags
  Inputs <- TypedTexts
  Columns <- ColumnNames
  MaxEdits = 4
SPECIFICATION Spec
INVARIANTS WrittenIsPlain UntouchedIsNotAnEdit
PROPERTIES  OtherCellsSurvive
CHECK_DEADLOCK FALSE
