SPECIFICATION Spec
CONSTANTS
  Versions = {1, 2, 3}
  TemplateOf <- TwoTemplates
  LangExtract = {2}
  InitialVersions = {1, 2}
  None = None
  Outdated = Outdated
  MaxEvents = 2
INVARIANTS TypeOK VersionBelongsToTemplate DiffIsCurrent PromotedIsMarked
PROPERTIES FeedbackMixesOnlyByHandler
