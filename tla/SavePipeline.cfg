SPECIFICATION Spec
CONSTANTS
  Savers = {s1}
  Editors = {e1, a1}
  Annotators = {a1}
  Extractors = {}
  None = None
  MaxEdits = 2
SYMMETRY HandlerSymmetry
INVARIANTS
  TypeOK
  SavesAreFresh
  CacheIsCurrent
  RedlineNotOlder
  LastInLineAsAsked
