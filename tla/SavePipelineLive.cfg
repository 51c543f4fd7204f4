SPECIFICATION LiveSpec
CONSTANTS
  Savers = {s1}
  Editors = {e1}
  Annotators = {}
  Extractors = {x1}
  None = None
  MaxEdits = 2
INVARIANTS
  ArtefactsAreClean
PROPERTIES
  EveryRequestAnswered
