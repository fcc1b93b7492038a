---------------------------- MODULE HistoryPanel ----------------------------
(***************************************************************************)
(* The history panel of one page (web/js-src/editor.mjs 243-370), the two  *)
(* requests it makes (internal/server/versions.go), and the table they     *)
(* read, to which the hub of HubVersions goes on adding rows.              *)
(*                                                                         *)
(* A request is answered from the table of one moment; the answer arrives  *)
(* later, in any order with the others, or never: the request fails.  A    *)
(* row is known by its id, its place in the table, and so is its text.     *)
(***************************************************************************)
EXTENDS HubVersions, SequencesExt

CONSTANTS
  LabelIn,      \* pairs of seconds: the label of one is in what is shown for the other
  ListLimit,    \* the most rows a list has
  MaxRequests,  \* bound on the requests made, in the guards of the clicks
  MaxCopies     \* bound on the copies made, in the guard of Copy

ASSUME PanelAssumption ==
  LabelIn \subseteq Nat \X Nat /\ ListLimit \in Nat \ {0} /\ MaxRequests \in Nat /\ MaxCopies \in Nat

VARIABLES
  created,    \* created_at of the rows, in seconds, by id
  requests,   \* the number of requests made so far
  sent,       \* the requests the server has not answered
  answered,   \* those whose answers are on the way
  list,       \* what historyList shows
  listed,     \* the ids of its buttons, from the top
  active,     \* those that are highlighted
  label,      \* the id of the row that historyViewing names, or NoRow
  view,       \* what historyView shows
  viewed,     \* the id of the row whose text that is, or NoRow
  selected,   \* the id of the row that historySelectedText is of, or NoRow
  copyShown,  \* historyCopy can be seen
  hurried,    \* history: the last click came while a text was on its way
  copies,     \* the number of copies made so far
  copying,    \* the ids of the texts on their way to the clipboard
  clipboard,  \* the id of the text in the clipboard, or NoRow
  icon,       \* what historyCopy shows
  iconTimers  \* the number of 1200 ms timers running

requestVars == <<requests, sent, answered>>
listVars == <<list, listed, active>>
viewVars == <<label, view, viewed, selected, copyShown, hurried>>
copyVars == <<copies, copying, clipboard, icon, iconTimers>>
panelVars == <<requestVars, listVars, viewVars, copyVars>>
historyVars == <<versionVars, created, panelVars>>

NoRow == 0   \* ids start at 1
Rows == 1 .. Len(versions)
Requests == [n : 1 .. requests, row : Rows \cup {NoRow}, ids : Seq(Rows)]

PanelTypeOK ==
  /\ created \in Seq(Nat) /\ Len(created) = Len(versions)
  /\ requests \in 0 .. MaxRequests /\ sent \cup answered \subseteq Requests
  /\ list \in {"loading", "rows", "none", "failed"}
  /\ listed \in Seq(Rows) /\ active \subseteq Range(listed)
  /\ {label, viewed, selected, clipboard} \subseteq Rows \cup {NoRow}
  /\ view \in {"blank", "loading", "text", "failed"}
  /\ copyShown \in BOOLEAN /\ hurried \in BOOLEAN
  /\ copies \in 0 .. MaxCopies /\ copying \in Seq(Rows)
  /\ icon \in {"copy", "done", "failed"} /\ iconTimers \in Nat

\* The types of the table, of the hub's text and of the panel.
HistoryTypeOK == VersionsTypeOK /\ PanelTypeOK

\* The panel as document.html has it: nothing is asked for until it is opened.
PanelInit ==
  /\ requests = 0 /\ sent = {} /\ answered = {}
  /\ list = "loading" /\ listed = << >> /\ active = {}
  /\ label = NoRow /\ view = "blank" /\ viewed = NoRow /\ selected = NoRow
  /\ copyShown = FALSE /\ hurried = FALSE
  /\ copies = 0 /\ copying = << >> /\ clipboard = NoRow
  /\ icon = "copy" /\ iconTimers = 0

HistoryInit == VersionsInit /\ created = << >> /\ PanelInit

-----------------------------------------------------------------------------
(***************************************************************************)
(* The hub and the two queries.                                            *)
(***************************************************************************)

\* A step of HubVersions.  A new row has the second it is inserted in, which may be
\* that of the row before.
HubSteps ==
  /\ VersionsNext
  /\ IF Len(versions') = Len(versions) THEN UNCHANGED created
     ELSE LET last == IF created = << >> THEN 0 ELSE Last(created)
          IN  \E now \in {last, last + 1} : created' = Append(created, now)
  /\ UNCHANGED panelVars

\* Mutant of NewestRows: ids are counted from zero.
RowsFromZero ==
  LET n == Len(versions)
  IN  [i \in 1 .. IF n < ListLimit THEN n ELSE ListLimit |-> n - i]

\* ListDocumentVersions: the newest rows, the newest first.
NewestRows ==
  LET n == Len(versions)
  IN  [i \in 1 .. IF n < ListLimit THEN n ELSE ListLimit |-> n + 1 - i]

\* handleVersionsList and handleVersionGet, to the query that is answered
Answer(c) ==
  /\ sent' = sent \ {c}
  /\ answered' = answered \cup
       {[c EXCEPT !.ids = IF c.row = NoRow THEN NewestRows ELSE <<c.row>>]}
  /\ UNCHANGED <<versionVars, created, requests, listVars, viewVars, copyVars>>

-----------------------------------------------------------------------------
(***************************************************************************)
(* The panel.                                                              *)
(***************************************************************************)
\* fetch, of a list (NoRow) or of the text of a row
Ask(id) ==
  /\ requests < MaxRequests /\ requests' = requests + 1
  /\ sent' = sent \cup {[n |-> requests + 1, row |-> id, ids |-> << >>]}
  /\ UNCHANGED answered

OnTheWay == sent \cup answered
TextOnTheWay == \E c \in OnTheWay : c.row # NoRow

\* Mutant of ClearHistorySelection: only what can be seen is cleared.
ClearHistoryView ==
  /\ view' = "blank" /\ viewed' = NoRow /\ label' = NoRow
  /\ UNCHANGED <<selected, copyShown>>

\* clearHistorySelection
ClearHistorySelection ==
  /\ selected' = NoRow /\ copyShown' = FALSE
  /\ view' = "blank" /\ viewed' = NoRow /\ label' = NoRow

\* loadHistoryList up to its await: the panel is opened, or refreshed.
LoadHistoryList ==
  /\ Ask(NoRow)
  /\ ClearHistorySelection /\ hurried' = TextOnTheWay
  /\ list' = "loading" /\ listed' = << >> /\ active' = {}
  /\ UNCHANGED <<versionVars, created, copyVars>>

\* Mutant of LoadHistoryVersion: what was selected stays so until the answer.
KeepSelected(id) ==
  /\ id \in Range(listed) /\ Ask(id)
  /\ view' = "loading" /\ viewed' = NoRow /\ label' = id
  /\ hurried' = TextOnTheWay
  /\ UNCHANGED <<versionVars, created, listVars, selected, copyShown, copyVars>>

\* loadHistoryVersion up to its await: an entry of the list is clicked.
LoadHistoryVersion(id) ==
  /\ id \in Range(listed) /\ Ask(id)
  /\ view' = "loading" /\ viewed' = NoRow /\ label' = id
  /\ selected' = NoRow /\ copyShown' = FALSE /\ hurried' = TextOnTheWay
  /\ UNCHANGED <<versionVars, created, listVars, copyVars>>

\* Mutant of ShowList: the list is cleared when it is asked for, not again when it
\* arrives.
AddToList(ids) ==
  /\ list' = IF ids = << >> THEN "none" ELSE "rows"
  /\ listed' = listed \o ids /\ active' = {}

\* historyList when a list arrives
ShowList(ids) ==
  /\ list' = IF ids = << >> THEN "none" ELSE "rows"
  /\ listed' = ids /\ active' = {}

\* loadHistoryList after its await
ListArrives(c) ==
  /\ c \in answered /\ c.row = NoRow
  /\ answered' = answered \ {c}
  /\ ShowList(c.ids)
  /\ UNCHANGED <<versionVars, created, requests, sent, viewVars, copyVars>>

\* The text of the entry of row i contains the label that fmtTime gives row id: its
\* own does, and so does that of another second with that label, as when the clocks
\* go back, or with a longer one, as 1/2/2025 is in 11/2/2025.
LabelFound(id, i) ==
  created[id] = created[i] \/ <<created[id], created[i]>> \in LabelIn

\* The entries that get the class active: the label is looked for in their texts.
Highlighted(id) == {i \in Range(listed) : LabelFound(id, i)}

\* loadHistoryVersion after its await
TextArrives(c) ==
  /\ c \in answered /\ c.row # NoRow
  /\ answered' = answered \ {c}
  /\ view' = "text" /\ viewed' = c.row
  /\ selected' = c.row /\ copyShown' = TRUE /\ icon' = "copy"
  /\ active' = Highlighted(c.row)
  /\ UNCHANGED <<versionVars, created, requests, sent, list, listed, label, hurried,
                 copies, copying, clipboard, iconTimers>>

\* Mutant of ShowFailure: a text that cannot be loaded is not reported.
FailSilently(c) ==
  IF c.row = NoRow
  THEN list' = "failed" /\ listed' = << >> /\ active' = {} /\ UNCHANGED viewVars
  ELSE UNCHANGED <<listVars, viewVars>>

\* The two catch clauses.
ShowFailure(c) ==
  IF c.row = NoRow
  THEN list' = "failed" /\ listed' = << >> /\ active' = {} /\ UNCHANGED viewVars
  ELSE /\ view' = "failed" /\ viewed' = NoRow
       /\ UNCHANGED <<listVars, label, selected, copyShown, hurried>>

\* No answer, or one that is not ok: access is refused or a query fails.
RequestFails(c) ==
  /\ c \in OnTheWay
  /\ sent' = sent \ {c} /\ answered' = answered \ {c}
  /\ ShowFailure(c)
  /\ UNCHANGED <<versionVars, created, requests, copyVars>>

-----------------------------------------------------------------------------
(***************************************************************************)
(* The copy button.                                                        *)
(***************************************************************************)

\* copySelectedSnapshot up to its await
Copy ==
  /\ copyShown /\ selected # NoRow /\ copies < MaxCopies
  /\ copies' = copies + 1 /\ copying' = Append(copying, selected)
  /\ UNCHANGED <<versionVars, created, requestVars, listVars, viewVars, clipboard,
                 icon, iconTimers>>

\* Mutant of CopyEnds: the icon is reset after a success only.
CopyEndsOneTimer(ok) ==
  /\ copying # << >> /\ copying' = Tail(copying)
  /\ clipboard' = IF ok THEN Head(copying) ELSE clipboard
  /\ icon' = IF ok THEN "done" ELSE "failed"
  /\ iconTimers' = iconTimers + (IF ok THEN 1 ELSE 0)
  /\ UNCHANGED <<versionVars, created, requestVars, listVars, viewVars, copies>>

\* The rest of it: the text was written, or refused.
CopyEnds(ok) ==
  /\ copying # << >> /\ copying' = Tail(copying)
  /\ clipboard' = IF ok THEN Head(copying) ELSE clipboard
  /\ icon' = IF ok THEN "done" ELSE "failed"
  /\ iconTimers' = iconTimers + 1
  /\ UNCHANGED <<versionVars, created, requestVars, listVars, viewVars, copies>>

IconTimerFires ==
  /\ iconTimers > 0 /\ iconTimers' = iconTimers - 1
  /\ icon' = "copy"
  /\ UNCHANGED <<versionVars, created, requestVars, listVars, viewVars, copies,
                 copying, clipboard>>

-----------------------------------------------------------------------------
HistoryNext ==
  \/ HubSteps
  \/ LoadHistoryList \/ (\E id \in Range(listed) : LoadHistoryVersion(id))
  \/ \E c \in sent : Answer(c)
  \/ \E c \in answered : ListArrives(c) \/ TextArrives(c)
  \/ \E c \in OnTheWay : RequestFails(c)
  \/ Copy \/ (\E ok \in BOOLEAN : CopyEnds(ok)) \/ IconTimerFires

HistorySpec == HistoryInit /\ [][HistoryNext]_historyVars

\* Every request ends, answered or not, and timers fire.
Ends(n) == \E c \in OnTheWay : c.n = n /\ (ListArrives(c) \/ TextArrives(c) \/ RequestFails(c))

HistoryFairness ==
  /\ \A n \in 1 .. MaxRequests : WF_historyVars(Ends(n))
  /\ WF_historyVars(IconTimerFires)

FairHistorySpec == HistorySpec /\ HistoryFairness

-----------------------------------------------------------------------------
\* What Copy takes is the text that is shown, in whatever order two requests and
\* their failures end; only a failure may hide it (editor.mjs:312-336).
CopyIsShown ==
  /\ copyShown <=> selected # NoRow
  /\ selected # NoRow => (view = "text" /\ viewed = selected) \/ view = "failed"

\* Who waits for a text before choosing the next sees, and copies, the snapshot that
\* the panel names (editor.mjs:314, 326-327).
LabelNamesText ==
  ~hurried => /\ view = "text" <=> selected # NoRow
              /\ selected # NoRow => selected = label /\ viewed = label

\* However often the panel is refreshed, a list that arrives is the history of one
\* moment: the newest rows, each of them once (editor.mjs:268-301, versions.go:65-67).
ListIsHistory ==
  list = "rows" =>
    \E n \in Rows :
      listed = [i \in 1 .. IF n < ListLimit THEN n ELSE ListLimit |-> n + 1 - i]

\* "Loading..." is shown of something that is still asked for (editor.mjs:271, 313).
LoadingIsAwaited ==
  /\ view = "loading" => \E c \in OnTheWay : c.row = label
  /\ (list = "loading" /\ requests > 0) => \E c \in OnTheWay : c.row = NoRow

\* It ends, and so does what the copy button says of a copy (editor.mjs:334, 362-365).
PanelSettles ==
  /\ view = "loading" ~> view # "loading"
  /\ icon # "copy" ~> icon = "copy"
=============================================================================
