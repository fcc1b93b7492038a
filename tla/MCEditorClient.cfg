CONSTANTS
  Mine = {m1}
  Theirs = {t1}
  Siblings = {t1}
  Nothing = Nothing
  OtherCursors = {2}
  MarkdownPanel = TRUE
  MaxOpens = 2
SPECIFICATION FairSpec
CHECK_DEADLOCK FALSE
INVARIANTS EditorTypeOK BadgeFollowsSocket UnsentTextIsScheduled
           CursorIsSaved
PROPERTIES BadgeTurnsLive PreviewFollows FirstSocketDeliversText CursorStays
