-------------------------- MODULE HubVersionsProofs --------------------------
(***************************************************************************)
(* The history of HubVersions, for every set of texts and every length of  *)
(* the table: the type invariant, that a trusted cache is the newest row,  *)
(* and, when the newest row can be read, that no row repeats the one       *)
(* before it or holds less than half of it.                                *)
(***************************************************************************)
EXTENDS HubVersions, TLAPS

\* What one call of snapshotVersion does to the table: nothing, or one row
\* more, which was tested against the newest row when the load succeeded.
LEMMA OneRowAtMost ==
  ASSUME VersionsTypeOK, CacheIsNewestRow, SnapshotVersion
  PROVE  /\ VersionsTypeOK' /\ CacheIsNewestRow'
         /\ \/ UNCHANGED versions
            \/ /\ versions' = Append(versions, latestText)
               /\ ~LoadMayFail => Worthy(latestText, LatestDocumentVersionText)
<1>1. CASE SkipSnapshot
  BY <1>1 DEF SkipSnapshot, versionVars, VersionsTypeOK, CacheIsNewestRow,
              LatestDocumentVersionText
<1>2. ASSUME NEW last \in LoadOutcomes,
             RefuseRow(last) \/ FailRow(last) \/ WriteRow(last)
      PROVE  /\ VersionsTypeOK' /\ CacheIsNewestRow'
             /\ \/ UNCHANGED versions
                \/ /\ versions' = Append(versions, latestText)
                   /\ ~LoadMayFail => Worthy(latestText, LatestDocumentVersionText)
  <2>1. LatestDocumentVersionText \in Texts
    BY TextAssumption DEF VersionsTypeOK, LatestDocumentVersionText
  <2>2. /\ last[1] \in Texts /\ last[2] \in BOOLEAN
        /\ last[2] => last[1] = LatestDocumentVersionText
        /\ ~LoadMayFail => last[2]
        /\ ~last[2] => last[1] = lastSavedText /\ ~lastSavedLoaded
    <3>1. \/ last = <<lastSavedText, TRUE>> /\ lastSavedLoaded
          \/ last = <<LatestDocumentVersionText, TRUE>>
          \/ last = <<lastSavedText, FALSE>> /\ ~lastSavedLoaded /\ LoadMayFail
      BY DEF LoadOutcomes
    <3>2. CASE last = <<lastSavedText, TRUE>> /\ lastSavedLoaded
      BY <3>2 DEF VersionsTypeOK, CacheIsNewestRow
    <3>3. CASE last = <<LatestDocumentVersionText, TRUE>>
      BY <2>1, <3>3
    <3>4. CASE last = <<lastSavedText, FALSE>> /\ ~lastSavedLoaded /\ LoadMayFail
      BY <3>4 DEF VersionsTypeOK
    <3> QED
      BY <3>1, <3>2, <3>3, <3>4
  <2>3. CASE RefuseRow(last)
    BY <2>2, <2>3 DEF RefuseRow, VersionsTypeOK, CacheIsNewestRow,
                      LatestDocumentVersionText
  <2>4. CASE FailRow(last)
    BY <2>2, <2>4 DEF FailRow, VersionsTypeOK, CacheIsNewestRow,
                      LatestDocumentVersionText
  <2>5. CASE WriteRow(last)
    <3>1. VersionsTypeOK'
      BY <2>5 DEF WriteRow, VersionsTypeOK
    <3>2. CacheIsNewestRow'
      BY <2>5 DEF WriteRow, VersionsTypeOK, CacheIsNewestRow,
                  LatestDocumentVersionText
    <3>3. ~LoadMayFail => Worthy(latestText, LatestDocumentVersionText)
      BY <2>2, <2>5 DEF WriteRow
    <3> QED
      BY <2>5, <3>1, <3>2, <3>3 DEF WriteRow
  <2> QED
    BY <1>2, <2>3, <2>4, <2>5
<1> QED
  BY <1>1, <1>2 DEF SnapshotVersion

\* Every other step leaves the table alone, and a step that makes a hub or
\* receives a text cannot separate the cache from it.
LEMMA StepOfHistory ==
  ASSUME VersionsTypeOK, CacheIsNewestRow, [VersionsNext]_versionVars
  PROVE  /\ VersionsTypeOK' /\ CacheIsNewestRow'
         /\ \/ UNCHANGED versions
            \/ /\ versions' = Append(versions, latestText)
               /\ ~LoadMayFail => Worthy(latestText, LatestDocumentVersionText)
<1>1. CASE UNCHANGED versionVars
  BY <1>1 DEF versionVars, VersionsTypeOK, CacheIsNewestRow, LatestDocumentVersionText
<1>2. ASSUME NEW t \in Texts, ReceiveText(t)
      PROVE  /\ VersionsTypeOK' /\ CacheIsNewestRow' /\ UNCHANGED versions
  BY <1>2 DEF ReceiveText, VersionsTypeOK, CacheIsNewestRow, LatestDocumentVersionText
<1>3. CASE SnapshotVersion
  BY <1>3, OneRowAtMost
<1>4. CASE NewHub
  BY <1>4, TextAssumption DEF NewHub, VersionsTypeOK, CacheIsNewestRow,
                              LatestDocumentVersionText
<1> QED
  BY <1>1, <1>2, <1>3, <1>4 DEF VersionsNext

LEMMA EmptyHistory ==
  ASSUME VersionsInit
  PROVE  VersionsTypeOK /\ CacheIsNewestRow /\ NoDuplicateRows /\ RowsKeepHalf
<1>1. versions = << >> /\ 1 .. Len(versions) - 1 = {}
  BY DEF VersionsInit
<1>2. << >> \in Seq(Texts)
  OBVIOUS
<1>3. VersionsTypeOK
  BY <1>1, <1>2, TextAssumption DEF VersionsInit, FreshHub, VersionsTypeOK
<1>4. CacheIsNewestRow
  BY DEF VersionsInit, FreshHub, CacheIsNewestRow
<1> QED
  BY <1>1, <1>3, <1>4 DEF NoDuplicateRows, RowsKeepHalf

LEMMA VersionsInvariant == VersionsSpec => [](VersionsTypeOK /\ CacheIsNewestRow)
<1>1. VersionsInit => VersionsTypeOK /\ CacheIsNewestRow
  BY EmptyHistory
<1>2. VersionsTypeOK /\ CacheIsNewestRow /\ [VersionsNext]_versionVars
        => (VersionsTypeOK /\ CacheIsNewestRow)'
  BY StepOfHistory
<1> QED
  BY <1>1, <1>2, PTL DEF VersionsSpec

\* What the hub keeps and what the table holds are texts, whatever inserts and
\* loads fail (hub.go:34-41, versions.go:30-58).
THEOREM VersionsTypes == VersionsSpec => []VersionsTypeOK
BY VersionsInvariant, PTL

\* Whatever hubs come and go, whatever inserts and loads fail, a cache the hub
\* trusts is the text of the newest row (hub.go:38).
THEOREM CacheCorrect == VersionsSpec => []CacheIsNewestRow
BY VersionsInvariant, PTL

\* Appending a row that is new, and not too short, for the newest row keeps
\* both facts about neighbouring rows.
LEMMA WorthyRow ==
  ASSUME VersionsTypeOK, NoDuplicateRows, RowsKeepHalf,
         versions' = Append(versions, latestText),
         Worthy(latestText, LatestDocumentVersionText)
  PROVE  NoDuplicateRows' /\ RowsKeepHalf'
<1> DEFINE n == Len(versions)
<1>1. n \in Nat /\ Len(versions') = n + 1
  BY DEF VersionsTypeOK
<1>2. \A i \in 1 .. n : versions'[i] = versions[i]
  BY DEF VersionsTypeOK
<1>3. versions'[n + 1] = latestText
  BY DEF VersionsTypeOK
<1>4. ASSUME NEW i \in 1 .. Len(versions') - 1
      PROVE  /\ versions'[i] # versions'[i + 1]
             /\ ~Suspicious(versions'[i + 1], versions'[i])
  <2>1. CASE i = n
    BY <1>1, <1>2, <1>3, <1>4, <2>1 DEF Worthy, LatestDocumentVersionText, VersionsTypeOK
  <2>2. CASE i # n
    <3>1. i \in 1 .. n - 1 /\ i + 1 \in 1 .. n
      BY <1>1, <1>4, <2>2
    <3> QED
      BY <1>2, <3>1 DEF NoDuplicateRows, RowsKeepHalf
  <2> QED
    BY <2>1, <2>2
<1> QED
  BY <1>4 DEF NoDuplicateRows, RowsKeepHalf

\* Both facts about neighbouring rows, by an invariant that also has the cache.
LEMMA RowsInvariant ==
  ASSUME ~LoadMayFail
  PROVE  VersionsSpec => [](NoDuplicateRows /\ RowsKeepHalf)
<1> DEFINE Inv == VersionsTypeOK /\ CacheIsNewestRow /\ NoDuplicateRows /\ RowsKeepHalf
<1>1. VersionsInit => Inv
  BY EmptyHistory
<1>2. Inv /\ [VersionsNext]_versionVars => Inv'
  <2> SUFFICES ASSUME Inv, [VersionsNext]_versionVars
               PROVE  Inv'
    OBVIOUS
  <2>1. VersionsTypeOK' /\ CacheIsNewestRow'
    BY StepOfHistory
  <2>2. CASE UNCHANGED versions
    BY <2>1, <2>2 DEF NoDuplicateRows, RowsKeepHalf
  <2>3. CASE /\ versions' = Append(versions, latestText)
             /\ Worthy(latestText, LatestDocumentVersionText)
    BY <2>1, <2>3, WorthyRow
  <2> QED
    BY <2>2, <2>3, StepOfHistory
<1> QED
  BY <1>1, <1>2, PTL DEF VersionsSpec

\* While the newest row can be read, whatever inserts fail, no two neighbouring
\* rows are equal, for histories of any length and any number of hubs
\* (hub.go:38-39).
THEOREM RowsDiffer ==
  ASSUME ~LoadMayFail
  PROVE  VersionsSpec => []NoDuplicateRows
BY RowsInvariant, PTL

\* While the newest row can be read, no row holds less than half of the one before
\* it, for histories of any length and any number of hubs (hub.go:61-65).
THEOREM RowsAreNotCut ==
  ASSUME ~LoadMayFail
  PROVE  VersionsSpec => []RowsKeepHalf
BY RowsInvariant, PTL
=============================================================================
