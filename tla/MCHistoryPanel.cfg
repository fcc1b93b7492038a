CONSTANTS
  Texts <- MCTexts
  EmptyText = ""
  Size <- MCSize
  LoadMayFail = FALSE
  InsertMayFail = TRUE
  MaxVersions = 3
  LabelIn <- MCLabelIn
  ListLimit = 2
  MaxRequests = 3
  MaxCopies = 1
SPECIFICATION FairHistorySpec
CHECK_DEADLOCK FALSE
INVARIANTS HistoryTypeOK CacheIsNewestRow NoDuplicateRows RowsKeepHalf
           CopyIsShown LabelNamesText ListIsHistory LoadingIsAwaited
PROPERTIES PanelSettles
