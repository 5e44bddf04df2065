SPECIFICATION Spec
CONSTANTS
  Editors = {ada, bob}
  Definitions <- SmallDefinitions
  Publishable <- SmallPublishable
  Absent = absent
  MaxVersion = 4
  MaxRevision = 2
INVARIANTS DraftSurvives
PROPERTIES EditsCompose ImplementsReleases
SYMMETRY EditorSymmetry
CHECK_DEADLOCK FALSE
