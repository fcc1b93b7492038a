CONSTANTS
  Mine = {m1}
  Theirs = {t1}
  Siblings = {}
  Nothing = Nothing
  OtherCursors = {2}
  MarkdownPanel = FALSE
  MaxOpens = 2
SPECIFICATION Spec
CHECK_DEADLOCK FALSE
INVARIANT LiveMeansShared
