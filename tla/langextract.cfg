CONSTANTS
  date = date
  total = total
  value = value
  other = other
  Fields = {total, date}
  Required = {total}
  Foreign = Foreign
  Words = {value, other}
  Blank = Blank
  Detailed = {other}
  Keys = {"list", "lines", "unnamed"}
  SuggestionOf <- ThreeSuggestions
  Configs <- ThreeConfigs
  None = None
  Values <- TypedValues
  MaxEdits = 4
SPECIFICATION Spec
INVARIANTS FocusAlwaysLands PreviewAgreesWithBadges SavedSurvivesReopening GuidanceNamesTheReason
PROPERTY PromotedIsRecognised
CHECK_DEADLOCK FALSE
