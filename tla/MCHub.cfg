CONSTANTS
  c1 = c1
  c2 = c2
  c3 = c3
  e1 = e1
  e2 = e2
  e3 = e3
  Conns = {c1, c2}
  Edits = {e1, e2}
  Seed <- SeedNone
  OtherKinds = {}
  RegisterCap = 2
  UnregisterCap = 2
  IncomingCap = 2
  SendCap = 2
  Texts <- MCTexts
  EmptyText = ""
  Size <- MCSize
  LoadMayFail = FALSE
  InsertMayFail = FALSE
  MaxVersions = 9
  Blank = Blank
SPECIFICATION Spec
CHECK_DEADLOCK FALSE
SYMMETRY Symmetry
INVARIANTS NothingUnsaved MembersOpen FullMeansComplete CausalLog
PROPERTY ImplementsDurableLog
