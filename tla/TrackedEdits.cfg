SPECIFICATION Spec
CONSTANTS
  Tokens = {"a", "b", "x"}
  Obj = "obj"
  Mk = "mk"
  Open = "open"
  AI = "ai"
  Docs <- TheDocs
  News <- TheNews
  MaxEdits = 3
CHECK_DEADLOCK FALSE
INVARIANTS
  TypeOK
  RejectRestores
  RejectAllIgnoresAI
  AcceptIsTheUntrackedEdit
  ResolvedInAnyOrder
