SPECIFICATION Spec
CONSTANTS
  Savers = {s1}
  Editors = {e1, e2}
  Annotators = {}
  Extractors = {}
  None = None
  MaxEdits = 1
SYMMETRY HandlerSymmetry
INVARIANTS
  PreviewsSeeAnchors
