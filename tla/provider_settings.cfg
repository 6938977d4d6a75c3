CONSTANTS
  p1 = p1
  p2 = p2
  p3 = p3
  Ids = {p1, p2, p3}
  Threads = {t1, t2}
  Texts <- TextsUsed
  Typed <- TypedForms
  Catalog <- CatalogSettings
  StoredAtStart <- Stored
  Failures <- FailedReads
  AllowExternal = FALSE
  None = None
  MaxClicks = 2
SPECIFICATION Spec
INVARIANTS NamesUnique AloneRequestIsExact LoadingLosesOnlyForeignParts ShownIsStored
PROPERTIES UnprobedFreshOnlyByRace
SYMMETRY Symmetry
