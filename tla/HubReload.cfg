CONSTANTS
  c1 = c1
  c2 = c2
  c3 = c3
  e1 = e1
  e2 = e2
  e3 = e3
  Conns = {c1}
  Edits = {e1}
  Seed <- SeedNone
  OtherKinds = {}
  RegisterCap = 1
  UnregisterCap = 1
  IncomingCap = 2
  SendCap = 1
  Texts <- MCTexts
  EmptyText = ""
  Size <- MCSize
  LoadMayFail = FALSE
  InsertMayFail = FALSE
  MaxVersions = 9
  Blank = Blank
SYMMETRY Symmetry
SPECIFICATION Spec
CHECK_DEADLOCK FALSE
INVARIANT TextSurvivesReload
