----------------------------- MODULE HubVersions -----------------------------
(***************************************************************************)
(* The version history of one document: the text-snapshot fields of the    *)
(* Hub struct, snapshotVersion, and the document_versions table it writes. *)
(*                                                                         *)
(* Browsers push their flattened text over the websocket; the hub keeps    *)
(* the most recent one and writes it as a new row whenever a client        *)
(* leaves.  A text is a member of Texts; only its identity and its length  *)
(* matter to the code.  The table outlives the hub: NewHub forgets the     *)
(* hub's fields and keeps the rows.                                        *)
(***************************************************************************)
EXTENDS Naturals, Sequences

CONSTANTS
  Texts,          \* the flattened texts browsers may push
  EmptyText,      \* the zero value of the Go strings, also "no version yet"
  Size,           \* Size[t]: len(t), in bytes
  LoadMayFail,    \* may the query for the newest row return an error
  InsertMayFail,  \* may the insert of a row return an error
  MaxVersions     \* bound on the rows of the table, in the guard of ReceiveText

ASSUME TextAssumption ==
  /\ EmptyText \in Texts
  /\ Size \in [Texts -> Nat]
  /\ \A t \in Texts : Size[t] = 0 <=> t = EmptyText

ASSUME StoreAssumption == LoadMayFail \in BOOLEAN /\ InsertMayFail \in BOOLEAN

VARIABLES
  latestText,      \* Hub.latestText
  hasText,         \* Hub.hasText
  lastSavedText,   \* Hub.lastSavedText
  lastSavedLoaded, \* Hub.lastSavedLoaded
  versions         \* texts of the document_versions rows, by ascending id

hubText == <<latestText, hasText, lastSavedText, lastSavedLoaded>>
versionVars == <<latestText, hasText, lastSavedText, lastSavedLoaded, versions>>

VersionsTypeOK ==
  /\ latestText \in Texts
  /\ hasText \in BOOLEAN
  /\ lastSavedText \in Texts
  /\ lastSavedLoaded \in BOOLEAN
  /\ versions \in Seq(Texts)

\* A hub's fields when newHub returns.
FreshHub ==
  /\ latestText = EmptyText
  /\ hasText = FALSE
  /\ lastSavedText = EmptyText
  /\ lastSavedLoaded = FALSE

VersionsInit == FreshHub /\ versions = << >>

-----------------------------------------------------------------------------
LatestDocumentVersionText ==
  IF versions = << >> THEN EmptyText ELSE versions[Len(versions)]

\* len(new) < safeSnapshotShrinkRatio * len(old), for a non-empty old.
Suspicious(new, old) == Size[old] > 0 /\ 2 * Size[new] < Size[old]

\* Mutants of Worthy: one of its two tests is missing.
Different(new, saved) == new # saved
LongEnough(new, saved) == ~Suspicious(new, saved)

\* Whether a text is written when the last saved text is known to be saved.
Worthy(new, saved) == new # saved /\ ~Suspicious(new, saved)

\* The outcomes of the lazy load at the head of snapshotVersion, as the pair
\* <<text, known>> the rest of the function works with.
LoadOutcomes ==
  IF lastSavedLoaded
  THEN {<<lastSavedText, TRUE>>}
  ELSE {<<LatestDocumentVersionText, TRUE>>}
         \cup (IF LoadMayFail THEN {<<lastSavedText, FALSE>>} ELSE {})

\* No text-snapshot was received yet.
SkipSnapshot == ~hasText /\ UNCHANGED versionVars

\* The text is already the newest row, or suspiciously short: no row.
RefuseRow(last) ==
  /\ hasText
  /\ last[2] /\ ~Worthy(latestText, last[1])
  /\ lastSavedText' = last[1]
  /\ lastSavedLoaded' = last[2]
  /\ UNCHANGED <<latestText, hasText, versions>>

\* Mutant of FailRow: the cache is updated although no row was inserted.
FailRowCached(last) ==
  /\ hasText /\ InsertMayFail
  /\ last[2] => Worthy(latestText, last[1])
  /\ lastSavedText' = latestText
  /\ lastSavedLoaded' = TRUE
  /\ UNCHANGED <<latestText, hasText, versions>>

\* CreateDocumentVersion fails; what was loaded stays loaded.
FailRow(last) ==
  /\ hasText /\ InsertMayFail
  /\ last[2] => Worthy(latestText, last[1])
  /\ lastSavedText' = last[1]
  /\ lastSavedLoaded' = last[2]
  /\ UNCHANGED <<latestText, hasText, versions>>

\* A row is inserted.  When the load failed neither test is made.
WriteRow(last) ==
  /\ hasText
  /\ last[2] => Worthy(latestText, last[1])
  /\ versions' = Append(versions, latestText)
  /\ lastSavedText' = latestText
  /\ lastSavedLoaded' = TRUE
  /\ UNCHANGED <<latestText, hasText>>

SnapshotVersion ==
  \/ SkipSnapshot
  \/ \E last \in LoadOutcomes : RefuseRow(last) \/ FailRow(last) \/ WriteRow(last)

\* handleFrame on a well-formed text-snapshot frame.
ReceiveText(t) ==
  /\ latestText' = t
  /\ hasText' = TRUE
  /\ UNCHANGED <<lastSavedText, lastSavedLoaded, versions>>

-----------------------------------------------------------------------------
(***************************************************************************)
(* The history on its own: texts arrive, clients leave, and the hub ends   *)
(* (its last client left, or the process stopped) and is made again.       *)
(***************************************************************************)
NewHub ==
  /\ latestText' = EmptyText
  /\ hasText' = FALSE
  /\ lastSavedText' = EmptyText
  /\ lastSavedLoaded' = FALSE
  /\ UNCHANGED versions

VersionsNext ==
  \/ \E t \in Texts : Len(versions) < MaxVersions /\ ReceiveText(t)
  \/ Len(versions) < MaxVersions /\ SnapshotVersion
  \/ NewHub

VersionsSpec == VersionsInit /\ [][VersionsNext]_versionVars

-----------------------------------------------------------------------------
\* While a hub trusts its cached last text, that text is the newest row: no
\* other writer, failed insert or restart separates the two (hub.go:38).
CacheIsNewestRow == lastSavedLoaded => lastSavedText = LatestDocumentVersionText

\* As long as no load of the newest row fails (~LoadMayFail), neighbouring rows never
\* hold the same text, across reconnects and hub restarts too (hub.go:38-39, 270-271).
NoDuplicateRows ==
  \A i \in 1 .. Len(versions) - 1 : versions[i] # versions[i + 1]

\* As long as no load of the newest row fails, no row holds less than half of the row
\* before it (hub.go:61-64).
RowsKeepHalf ==
  \A i \in 1 .. Len(versions) - 1 : ~Suspicious(versions[i + 1], versions[i])
=============================================================================
