-------------------------- MODULE HistoryPanelProofs --------------------------
(***************************************************************************)
(* The history panel, for any history, any number of requests and copies   *)
(* and every order in which their answers come: what is shown, highlighted *)
(* and copied belongs together, and what HubVersionsProofs says of the     *)
(* table still holds.                                                      *)
(***************************************************************************)
EXTENDS HistoryPanel, HubVersionsProofs, SequenceTheorems

\* The steps of the panel and of the two queries, which leave the table alone.
PanelNext ==
  \/ LoadHistoryList \/ (\E id \in Range(listed) : LoadHistoryVersion(id))
  \/ \E c \in sent : Answer(c)
  \/ \E c \in answered : ListArrives(c) \/ TextArrives(c)
  \/ \E c \in OnTheWay : RequestFails(c)
  \/ Copy \/ (\E ok \in BOOLEAN : CopyEnds(ok)) \/ IconTimerFires

LEMMA PanelReads ==
  ASSUME PanelNext
  PROVE  UNCHANGED <<versionVars, created>>
BY DEF PanelNext, LoadHistoryList, LoadHistoryVersion, Answer, ListArrives, TextArrives,
       RequestFails, Copy, CopyEnds, IconTimerFires

LEMMA StepOfEither ==
  ASSUME [HistoryNext]_historyVars
  PROVE  HubSteps \/ PanelNext \/ UNCHANGED historyVars
BY DEF HistoryNext, PanelNext

\* The panel only reads the history: whatever is true of every history of HubVersions is
\* true while panels are open (versions.go:36-89 writes nothing).
THEOREM PanelOnlyReads == HistorySpec => VersionsSpec
<1>1. HistoryInit => VersionsInit
  BY DEF HistoryInit
<1>2. [HistoryNext]_historyVars => [VersionsNext]_versionVars
  <2> SUFFICES ASSUME [HistoryNext]_historyVars
               PROVE  [VersionsNext]_versionVars
    OBVIOUS
  <2>1. CASE HubSteps
    BY <2>1 DEF HubSteps
  <2>2. CASE PanelNext
    BY <2>2, PanelReads
  <2>3. CASE UNCHANGED historyVars
    BY <2>3 DEF historyVars
  <2> QED
    BY <2>1, <2>2, <2>3, StepOfEither
<1> QED
  BY <1>1, <1>2, PTL DEF HistorySpec, VersionsSpec

-----------------------------------------------------------------------------
(***************************************************************************)
(* Types.                                                                  *)
(***************************************************************************)

\* What a longer table, and one more request, make possible.
LEMMA MoreRequests ==
  ASSUME VersionsTypeOK, VersionsTypeOK', Len(versions) <= Len(versions'),
         requests \in Nat, requests' \in Nat, requests <= requests'
  PROVE  /\ Rows \subseteq Rows' /\ Seq(Rows) \subseteq Seq(Rows')
         /\ Requests \subseteq Requests'
<1>1. Len(versions) \in Nat /\ Len(versions') \in Nat
  BY DEF VersionsTypeOK
<1>2. Rows \subseteq Rows'
  BY <1>1 DEF Rows
<1>3. Seq(Rows) \subseteq Seq(Rows')
  BY <1>2
<1>4. 1 .. requests \subseteq 1 .. requests'
  OBVIOUS
<1> QED
  BY <1>2, <1>3, <1>4 DEF Requests, NoRow

\* A step of the hub adds one row at most.
LEMMA HubStepRows ==
  ASSUME VersionsTypeOK, CacheIsNewestRow, HubSteps
  PROVE  /\ VersionsTypeOK'
         /\ \/ Len(versions') = Len(versions) /\ created' = created
            \/ /\ Len(versions') = Len(versions) + 1
               /\ \E now : /\ created' = Append(created, now)
                           /\ created \in Seq(Nat) => now \in Nat
         /\ UNCHANGED panelVars
<1>1. [VersionsNext]_versionVars /\ UNCHANGED panelVars
  BY DEF HubSteps
<1>2. /\ VersionsTypeOK'
      /\ versions' = versions \/ versions' = Append(versions, latestText)
  BY <1>1, StepOfHistory
<1>3. Len(versions') = Len(versions) \/ Len(versions') = Len(versions) + 1
  BY <1>2 DEF VersionsTypeOK
<1>4. CASE Len(versions') = Len(versions)
  BY <1>1, <1>2, <1>4 DEF HubSteps
<1>5. CASE Len(versions') # Len(versions)
  <2> DEFINE last == IF created = << >> THEN 0 ELSE Last(created)
  <2>1. PICK now \in {last, last + 1} : created' = Append(created, now)
    BY <1>5 DEF HubSteps
  <2>2. created \in Seq(Nat) => last \in Nat
    BY DEF Last
  <2>3. created \in Seq(Nat) => now \in Nat
    BY <2>1, <2>2
  <2> QED
    BY <1>1, <1>2, <1>3, <1>5, <2>1, <2>3
<1> QED
  BY <1>4, <1>5

LEMMA HubStepTypes ==
  ASSUME VersionsTypeOK, CacheIsNewestRow, PanelTypeOK, HubSteps
  PROVE  PanelTypeOK'
<1>1. VersionsTypeOK' /\ UNCHANGED panelVars
  BY HubStepRows
<1>2. requests \in Nat
  BY PanelAssumption DEF PanelTypeOK
<1>3. Len(versions) <= Len(versions') /\ Len(versions) \in Nat
  BY HubStepRows DEF VersionsTypeOK
<1>4. /\ Rows \subseteq Rows' /\ Seq(Rows) \subseteq Seq(Rows') /\ Requests \subseteq Requests'
  BY <1>1, <1>2, <1>3, MoreRequests DEF panelVars, requestVars
<1>5. created' \in Seq(Nat) /\ Len(created') = Len(versions')
  <2>1. CASE Len(versions') = Len(versions) /\ created' = created
    BY <2>1 DEF PanelTypeOK
  <2>2. ASSUME Len(versions') = Len(versions) + 1, NEW now \in Nat,
               created' = Append(created, now)
        PROVE  created' \in Seq(Nat) /\ Len(created') = Len(versions')
    BY <2>2 DEF PanelTypeOK
  <2> QED
    BY <2>1, <2>2, HubStepRows DEF PanelTypeOK
<1> QED
  BY <1>1, <1>4, <1>5
  DEF PanelTypeOK, panelVars, requestVars, listVars, viewVars, copyVars, NoRow

LEMMA NewestRowsAreRows ==
  ASSUME VersionsTypeOK
  PROVE  NewestRows \in Seq(Rows)
<1> DEFINE n == Len(versions)
           k == IF n < ListLimit THEN n ELSE ListLimit
<1>1. n \in Nat /\ k \in Nat /\ k <= n
  BY PanelAssumption DEF VersionsTypeOK
<1>2. \A i \in 1 .. k : n + 1 - i \in Rows
  BY <1>1 DEF Rows
<1>3. NewestRows = [i \in 1 .. k |-> n + 1 - i]
  BY DEF NewestRows
<1> HIDE DEF n, k
<1> QED
  BY <1>1, <1>2, <1>3

\* A click makes a request.
LEMMA AskTypes ==
  ASSUME PanelTypeOK, VersionsTypeOK, UNCHANGED versions, NEW id \in Rows \cup {NoRow}, Ask(id)
  PROVE  /\ requests' \in 0 .. MaxRequests
         /\ sent' \cup answered' \subseteq Requests'
<1> DEFINE new == [n |-> requests + 1, row |-> id, ids |-> << >>]
<1>1. requests \in Nat /\ requests' = requests + 1 /\ requests' \in 0 .. MaxRequests
  BY PanelAssumption DEF PanelTypeOK, Ask
<1>2. Requests \subseteq Requests' /\ Rows' = Rows
  <2>1. Len(versions) \in Nat /\ VersionsTypeOK' => Len(versions') = Len(versions)
    BY DEF VersionsTypeOK
  <2>2. Rows' = Rows
    BY DEF Rows
  <2>3. 1 .. requests \subseteq 1 .. requests'
    BY <1>1
  <2> QED
    BY <2>2, <2>3 DEF Requests
<1>3. new \in Requests'
  BY <1>1, <1>2 DEF Requests, NoRow
<1>4. sent' = sent \cup {new} /\ answered' = answered
  BY DEF Ask
<1> QED
  BY <1>1, <1>2, <1>3, <1>4 DEF PanelTypeOK

LEMMA PanelStepTypes ==
  ASSUME VersionsTypeOK, PanelTypeOK, PanelNext
  PROVE  PanelTypeOK'
<1>a. UNCHANGED <<versions, created>> /\ Rows' = Rows
  BY PanelReads DEF versionVars, Rows
<1>b. requests' = requests => Requests' = Requests
  BY <1>a DEF Requests
<1>c. NoRow \in Rows \cup {NoRow} /\ Range(<< >>) = {}
  BY DEF Range
<1>d. Range(listed) \subseteq Rows
  BY DEF PanelTypeOK, Range
<1>1. CASE LoadHistoryList
  <2>1. requests' \in 0 .. MaxRequests /\ sent' \cup answered' \subseteq Requests'
    BY <1>1, <1>a, <1>c, AskTypes DEF LoadHistoryList
  <2>2. hurried' \in BOOLEAN
    BY <1>1 DEF LoadHistoryList, TextOnTheWay
  <2>3. /\ list' = "loading" /\ listed' = << >> /\ active' = {}
        /\ selected' = NoRow /\ copyShown' = FALSE
        /\ view' = "blank" /\ viewed' = NoRow /\ label' = NoRow
        /\ UNCHANGED <<copies, copying, clipboard, icon, iconTimers>>
    BY <1>1 DEF LoadHistoryList, ClearHistorySelection, copyVars
  <2>4. listed' \in Seq(Rows) /\ active' \subseteq Range(listed')
    BY <2>3
  <2>5. {label', viewed', selected', clipboard'} \subseteq Rows \cup {NoRow}
    BY <1>c, <2>3 DEF PanelTypeOK
  <2> QED
    BY <1>a, <2>1, <2>2, <2>3, <2>4, <2>5 DEF PanelTypeOK, NoRow
<1>2. ASSUME NEW id \in Range(listed), LoadHistoryVersion(id)
      PROVE  PanelTypeOK'
  <2>1. id \in Rows
    BY <1>d
  <2>2. requests' \in 0 .. MaxRequests /\ sent' \cup answered' \subseteq Requests'
    BY <1>2, <1>a, <2>1, AskTypes DEF LoadHistoryVersion
  <2>3. hurried' \in BOOLEAN
    BY <1>2 DEF LoadHistoryVersion, TextOnTheWay
  <2> QED
    BY <1>2, <1>a, <1>c, <2>1, <2>2, <2>3
    DEF LoadHistoryVersion, PanelTypeOK, copyVars, listVars
<1>3. ASSUME NEW c \in sent, Answer(c)
      PROVE  PanelTypeOK'
  <2> DEFINE ids == IF c.row = NoRow THEN NewestRows ELSE <<c.row>>
  <2>1. c \in Requests
    BY DEF PanelTypeOK
  <2>2. ids \in Seq(Rows)
    BY <2>1, NewestRowsAreRows DEF Requests
  <2>3. [c EXCEPT !.ids = ids] \in Requests
    BY <2>1, <2>2 DEF Requests
  <2>4. sent' \cup answered' \subseteq Requests
    BY <1>3, <2>3 DEF Answer, PanelTypeOK
  <2> QED
    BY <1>3, <1>a, <1>b, <2>4 DEF Answer, PanelTypeOK, listVars, viewVars, copyVars
<1>4. ASSUME NEW c \in answered, ListArrives(c)
      PROVE  PanelTypeOK'
  <2>1. c.ids \in Seq(Rows)
    BY DEF PanelTypeOK, Requests
  <2>2. /\ list' \in {"rows", "none"} /\ listed' \in Seq(Rows) /\ active' = {}
        /\ answered' \subseteq answered
    BY <1>4, <2>1 DEF ListArrives, ShowList
  <2> QED
    BY <1>4, <1>a, <1>b, <2>2 DEF ListArrives, PanelTypeOK, viewVars, copyVars
<1>5. ASSUME NEW c \in answered, TextArrives(c)
      PROVE  PanelTypeOK'
  <2>1. c.row \in Rows
    BY <1>5 DEF TextArrives, PanelTypeOK, Requests
  <2>2. Highlighted(c.row) \subseteq Range(listed)
    BY DEF Highlighted
  <2>3. /\ answered' \subseteq answered /\ view' = "text" /\ icon' = "copy"
        /\ viewed' = c.row /\ selected' = c.row /\ copyShown' = TRUE
        /\ active' = Highlighted(c.row)
        /\ UNCHANGED <<requests, sent, list, listed, label, hurried, copies, copying,
                      clipboard, iconTimers>>
    BY <1>5 DEF TextArrives
  <2>4. active' \subseteq Range(listed')
    BY <2>2, <2>3
  <2>5. {label', viewed', selected', clipboard'} \subseteq Rows \cup {NoRow}
    BY <2>1, <2>3 DEF PanelTypeOK
  <2>6. sent' \cup answered' \subseteq Requests'
    BY <1>b, <2>3 DEF PanelTypeOK
  <2> QED
    BY <1>a, <2>3, <2>4, <2>5, <2>6 DEF PanelTypeOK, NoRow
<1>6. ASSUME NEW c \in OnTheWay, RequestFails(c)
      PROVE  PanelTypeOK'
  <2>1. sent' \cup answered' \subseteq Requests
    BY <1>6 DEF RequestFails, PanelTypeOK
  <2>2. CASE c.row = NoRow
    BY <1>6, <1>a, <1>b, <1>c, <2>1, <2>2
    DEF RequestFails, ShowFailure, PanelTypeOK, viewVars, copyVars
  <2>3. CASE c.row # NoRow
    BY <1>6, <1>a, <1>b, <2>1, <2>3
    DEF RequestFails, ShowFailure, PanelTypeOK, listVars, copyVars
  <2> QED
    BY <2>2, <2>3
<1>7. CASE Copy
  <2>1. selected \in Rows /\ copies' \in 0 .. MaxCopies
    BY <1>7, PanelAssumption DEF Copy, PanelTypeOK
  <2>2. copying' \in Seq(Rows)
    BY <1>7, <2>1 DEF Copy, PanelTypeOK
  <2> QED
    BY <1>7, <1>a, <1>b, <2>1, <2>2
    DEF Copy, PanelTypeOK, requestVars, listVars, viewVars
<1>8. ASSUME NEW ok \in BOOLEAN, CopyEnds(ok)
      PROVE  PanelTypeOK'
  <2>1. Head(copying) \in Rows /\ Tail(copying) \in Seq(Rows)
    BY <1>8 DEF CopyEnds, PanelTypeOK
  <2> QED
    BY <1>8, <1>a, <1>b, <2>1
    DEF CopyEnds, PanelTypeOK, requestVars, listVars, viewVars
<1>9. CASE IconTimerFires
  BY <1>9, <1>a, <1>b
  DEF IconTimerFires, PanelTypeOK, requestVars, listVars, viewVars
<1> QED
  BY <1>1, <1>2, <1>3, <1>4, <1>5, <1>6, <1>7, <1>8, <1>9 DEF PanelNext

\* What VersionsSpec implies is at hand in every proof about the panel.
TypesInv == VersionsTypeOK /\ CacheIsNewestRow /\ PanelTypeOK

LEMMA TypesInvariant == HistorySpec => []TypesInv
<1>1. HistoryInit => TypesInv
  <2> SUFFICES ASSUME HistoryInit
               PROVE  TypesInv
    OBVIOUS
  <2>1. VersionsTypeOK /\ CacheIsNewestRow
    BY EmptyHistory DEF HistoryInit
  <2>2. versions = << >> /\ created = << >>
    BY DEF HistoryInit, VersionsInit
  <2>3. << >> \in Seq(Nat) /\ << >> \in Seq(Rows) /\ Len(<< >>) = 0
    OBVIOUS
  <2>4. Range(<< >>) = {}
    BY DEF Range
  <2>5. created \in Seq(Nat) /\ Len(created) = Len(versions)
    BY <2>2, <2>3
  <2>6. 0 \in 0 .. MaxRequests /\ 0 \in 0 .. MaxCopies
    BY PanelAssumption
  <2>7. PanelInit
    BY DEF HistoryInit
  <2>8. PanelTypeOK
    BY <2>3, <2>4, <2>5, <2>6, <2>7 DEF PanelInit, PanelTypeOK
  <2> QED
    BY <2>1, <2>8 DEF TypesInv
<1>2. ASSUME TypesInv, [HistoryNext]_historyVars
      PROVE  TypesInv'
  <2>1. VersionsTypeOK' /\ CacheIsNewestRow'
    <3>1. [VersionsNext]_versionVars
      BY <1>2, StepOfEither, PanelReads DEF HubSteps, historyVars
    <3> QED
      BY <1>2, <3>1, StepOfHistory DEF TypesInv
  <2>2. CASE HubSteps
    BY <1>2, <2>1, <2>2, HubStepTypes DEF TypesInv
  <2>3. CASE PanelNext
    BY <1>2, <2>1, <2>3, PanelStepTypes DEF TypesInv
  <2>4. CASE UNCHANGED historyVars
    <3>1. UNCHANGED <<versions, created, requests, sent, answered, list, listed, active,
                      label, view, viewed, selected, copyShown, hurried, copies, copying,
                      clipboard, icon, iconTimers>>
      BY <2>4 DEF historyVars, versionVars, panelVars, requestVars, listVars, viewVars, copyVars
    <3> QED
      BY <1>2, <2>1, <3>1 DEF TypesInv, PanelTypeOK, Requests, Rows
  <2> QED
    BY <1>2, <2>2, <2>3, <2>4, StepOfEither
<1> QED
  BY <1>1, <1>2, PTL DEF HistorySpec

\* The type invariant: every id the panel names, lists, shows or copies is that of a row
\* of the table (versions.go:50-58, editor.mjs:300).
THEOREM HistoryTypes == HistorySpec => []HistoryTypeOK
<1>1. TypesInv => HistoryTypeOK
  BY DEF TypesInv, HistoryTypeOK
<1> QED
  BY <1>1, TypesInvariant, PTL

-----------------------------------------------------------------------------
(***************************************************************************)
(* What is copied, named and highlighted.                                  *)
(***************************************************************************)

\* What a step of the hub leaves alone.
LEMMA HubLeavesPanel ==
  ASSUME HubSteps
  PROVE  UNCHANGED <<requests, sent, answered, list, listed, active, label, view, viewed,
                     selected, copyShown, hurried>>
BY DEF HubSteps, panelVars, requestVars, listVars, viewVars

\* The text that Copy takes is the one shown, or one in whose place the failure of
\* another request is reported; it is never one of a snapshot that is not shown while
\* a text is (editor.mjs:312-336).
THEOREM CopiesAreShown == HistorySpec => []CopyIsShown
<1>1. HistoryInit => CopyIsShown
  BY DEF HistoryInit, PanelInit, CopyIsShown
<1>2. ASSUME CopyIsShown, [HistoryNext]_historyVars
      PROVE  CopyIsShown'
  <2>1. ASSUME UNCHANGED <<selected, copyShown, view, viewed>>
        PROVE  CopyIsShown'
    BY <1>2, <2>1 DEF CopyIsShown
  <2>2. CASE HubSteps
    BY <2>1, <2>2, HubLeavesPanel
  <2>3. CASE LoadHistoryList
    BY <2>3 DEF LoadHistoryList, ClearHistorySelection, CopyIsShown
  <2>4. ASSUME NEW id \in Range(listed), LoadHistoryVersion(id)
        PROVE  CopyIsShown'
    BY <2>4 DEF LoadHistoryVersion, CopyIsShown
  <2>5. ASSUME NEW c \in answered, TextArrives(c)
        PROVE  CopyIsShown'
    BY <2>5 DEF TextArrives, CopyIsShown
  <2>6. ASSUME NEW c \in OnTheWay, RequestFails(c)
        PROVE  CopyIsShown'
    BY <1>2, <2>6 DEF RequestFails, ShowFailure, CopyIsShown, viewVars
  <2>7. ASSUME NEW c, Answer(c) \/ ListArrives(c)
        PROVE  CopyIsShown'
    BY <2>1, <2>7 DEF Answer, ListArrives, viewVars
  <2>8. ASSUME Copy \/ (\E ok \in BOOLEAN : CopyEnds(ok)) \/ IconTimerFires
        PROVE  CopyIsShown'
    BY <2>1, <2>8 DEF Copy, CopyEnds, IconTimerFires, viewVars
  <2>9. CASE UNCHANGED historyVars
    BY <2>1, <2>9 DEF historyVars, panelVars, viewVars
  <2> QED
    BY <1>2, <2>2, <2>3, <2>4, <2>5, <2>6, <2>7, <2>8, <2>9 DEF HistoryNext
<1> QED
  BY <1>1, <1>2, PTL DEF HistorySpec

\* Requests are told apart by their numbers, and each is at one place.
OnceOnTheWay ==
  /\ requests \in Nat
  /\ \A c \in OnTheWay : c.n \in Nat /\ c.n <= requests
  /\ \A c, d \in OnTheWay : c.n = d.n => c = d
  /\ sent \cap answered = {}

\* While the user does not hurry, the one text on its way is that of the label.
Awaited ==
  ~hurried => \A c \in OnTheWay : c.row # NoRow =>
                /\ c.row = label /\ view = "loading"
                /\ \A d \in OnTheWay : d.row # NoRow => d = c

LabelInv == OnceOnTheWay /\ Awaited /\ LabelNamesText

LEMMA AskOnce ==
  ASSUME OnceOnTheWay, NEW id, Ask(id)
  PROVE  /\ OnceOnTheWay'
         /\ \E new : new.row = id /\ OnTheWay' = OnTheWay \cup {new}
<1> DEFINE new == [n |-> requests + 1, row |-> id, ids |-> << >>]
<1>1. OnTheWay' = OnTheWay \cup {new} /\ requests' = requests + 1
  BY DEF Ask, OnTheWay
<1>2. new.n = requests + 1 /\ new.row = id /\ new \notin answered
  BY DEF OnceOnTheWay, OnTheWay
<1>3. sent' \cap answered' = {}
  BY <1>2 DEF Ask, OnceOnTheWay
<1>4. /\ requests' \in Nat
      /\ \A c \in OnTheWay' : c.n \in Nat /\ c.n <= requests'
      /\ \A c, d \in OnTheWay' : c.n = d.n => c = d
  BY <1>1, <1>2 DEF OnceOnTheWay
<1> QED
  BY <1>1, <1>2, <1>3, <1>4 DEF OnceOnTheWay

\* An answer takes the place of its request.
LEMMA AnswerOnce ==
  ASSUME TypesInv, OnceOnTheWay, NEW c \in sent, Answer(c)
  PROVE  /\ OnceOnTheWay'
         /\ \E a : /\ a.row = c.row /\ OnTheWay' = (OnTheWay \ {c}) \cup {a}
                  /\ answered' = answered \cup {a}
                  /\ a.ids = IF c.row = NoRow THEN NewestRows ELSE <<c.row>>
<1> DEFINE ids == IF c.row = NoRow THEN NewestRows ELSE <<c.row>>
           a == [c EXCEPT !.ids = ids]
<1>1. c \in Requests
  BY DEF TypesInv, PanelTypeOK
<1>2. a.n = c.n /\ a.row = c.row /\ a.ids = ids
  BY <1>1 DEF Requests
<1>3. sent' = sent \ {c} /\ answered' = answered \cup {a} /\ requests' = requests
  BY DEF Answer
<1>4. c \in OnTheWay /\ c \notin answered
  BY DEF OnTheWay, OnceOnTheWay
<1>5. OnTheWay' = (OnTheWay \ {c}) \cup {a}
  BY <1>3, <1>4 DEF OnTheWay
<1>6. a \notin sent'
  BY <1>2, <1>3, <1>4 DEF OnceOnTheWay, OnTheWay
<1> HIDE DEF a
<1>7. /\ \A d \in OnTheWay' : d.n \in Nat /\ d.n <= requests'
      /\ \A d, e \in OnTheWay' : d.n = e.n => d = e
  <2>1. \A d \in OnTheWay' : d = a \/ (d \in OnTheWay /\ d # c)
    BY <1>5
  <2>2. \A d \in OnTheWay : d # c => d.n # c.n
    BY <1>4 DEF OnceOnTheWay
  <2> QED
    BY <1>2, <1>3, <1>4, <2>1, <2>2 DEF OnceOnTheWay
<1>8. sent' \cap answered' = {}
  BY <1>3, <1>6 DEF OnceOnTheWay
<1> QED
  BY <1>2, <1>3, <1>5, <1>7, <1>8 DEF OnceOnTheWay

\* A request that ended is nowhere any more.
LEMMA EndOnce ==
  ASSUME OnceOnTheWay, NEW c \in OnTheWay, requests' = requests,
         sent' = sent \ {c}, answered' = answered \ {c}
  PROVE  OnceOnTheWay' /\ OnTheWay' = OnTheWay \ {c}
BY DEF OnceOnTheWay, OnTheWay

LEMMA LabelStep ==
  ASSUME TypesInv, LabelInv, [HistoryNext]_historyVars
  PROVE  LabelInv'
<1> USE DEF LabelInv
<1>1. ASSUME UNCHANGED <<requests, sent, answered, viewVars>>
      PROVE  LabelInv'
  BY <1>1 DEF viewVars, OnceOnTheWay, Awaited, LabelNamesText, OnTheWay
<1>2. CASE HubSteps
  BY <1>1, <1>2 DEF HubSteps, panelVars, requestVars
<1>3. CASE LoadHistoryList
  <2>1. Ask(NoRow) /\ hurried' = TextOnTheWay
    BY <1>3 DEF LoadHistoryList
  <2>2. LabelNamesText'
    BY <1>3 DEF LoadHistoryList, ClearHistorySelection, LabelNamesText
  <2>3. Awaited'
    BY <2>1, AskOnce DEF Awaited, TextOnTheWay
  <2> QED
    BY <2>1, <2>2, <2>3, AskOnce
<1>4. ASSUME NEW id \in Range(listed), LoadHistoryVersion(id)
      PROVE  LabelInv'
  <2>1. Ask(id) /\ hurried' = TextOnTheWay /\ label' = id /\ view' = "loading" /\ selected' = NoRow
    BY <1>4 DEF LoadHistoryVersion
  <2>2. LabelNamesText'
    BY <2>1 DEF LabelNamesText
  <2>3. Awaited'
    BY <2>1, AskOnce DEF Awaited, TextOnTheWay
  <2> QED
    BY <2>1, <2>2, <2>3, AskOnce
<1>5. ASSUME NEW c \in sent, Answer(c)
      PROVE  LabelInv'
  <2>1. UNCHANGED viewVars
    BY <1>5 DEF Answer
  <2>2. PICK a : a.row = c.row /\ OnTheWay' = (OnTheWay \ {c}) \cup {a}
    BY <1>5, AnswerOnce
  <2>3. c \in OnTheWay
    BY DEF OnTheWay
  <2>4. Awaited'
    BY <2>1, <2>2, <2>3 DEF Awaited, viewVars
  <2>5. LabelNamesText'
    BY <2>1 DEF LabelNamesText, viewVars
  <2> QED
    BY <1>5, <2>4, <2>5, AnswerOnce
<1>6. ASSUME NEW c \in answered, ListArrives(c)
      PROVE  LabelInv'
  <2>1. /\ c \in OnTheWay /\ UNCHANGED viewVars /\ requests' = requests
        /\ sent' = sent \ {c} /\ answered' = answered \ {c}
    BY <1>6 DEF ListArrives, OnTheWay, OnceOnTheWay
  <2>2. OnceOnTheWay' /\ OnTheWay' = OnTheWay \ {c}
    BY <2>1, EndOnce
  <2> QED
    BY <2>1, <2>2 DEF Awaited, LabelNamesText, viewVars
<1>7. ASSUME NEW c \in answered, TextArrives(c)
      PROVE  LabelInv'
  <2>1. /\ c \in OnTheWay /\ c.row # NoRow /\ requests' = requests
        /\ sent' = sent \ {c} /\ answered' = answered \ {c}
        /\ view' = "text" /\ viewed' = c.row /\ selected' = c.row
        /\ label' = label /\ hurried' = hurried
    BY <1>7 DEF TextArrives, OnTheWay, OnceOnTheWay
  <2>2. OnceOnTheWay' /\ OnTheWay' = OnTheWay \ {c}
    BY <2>1, EndOnce
  <2>3. Awaited'
    BY <2>1, <2>2 DEF Awaited
  <2>4. LabelNamesText'
    BY <2>1 DEF Awaited, LabelNamesText
  <2> QED
    BY <2>2, <2>3, <2>4
<1>8. ASSUME NEW c \in OnTheWay, RequestFails(c)
      PROVE  LabelInv'
  <2>1. requests' = requests /\ sent' = sent \ {c} /\ answered' = answered \ {c}
    BY <1>8 DEF RequestFails
  <2>2. OnceOnTheWay' /\ OnTheWay' = OnTheWay \ {c}
    BY <2>1, EndOnce
  <2>3. CASE c.row = NoRow
    BY <1>8, <2>2, <2>3 DEF RequestFails, ShowFailure, Awaited, LabelNamesText, viewVars
  <2>4. CASE c.row # NoRow
    <3>1. /\ view' = "failed" /\ UNCHANGED <<label, selected, hurried>>
      BY <1>8, <2>4 DEF RequestFails, ShowFailure
    <3>2. ~hurried => view = "loading" /\ selected = NoRow
      BY <2>4 DEF Awaited, LabelNamesText
    <3>3. Awaited'
      BY <2>2, <2>4, <3>1 DEF Awaited
    <3> QED
      BY <2>2, <3>1, <3>2, <3>3 DEF LabelNamesText
  <2> QED
    BY <2>3, <2>4
<1>9. CASE Copy \/ (\E ok \in BOOLEAN : CopyEnds(ok)) \/ IconTimerFires
  BY <1>1, <1>9 DEF Copy, CopyEnds, IconTimerFires, requestVars
<1>10. CASE UNCHANGED historyVars
  BY <1>1, <1>10 DEF historyVars, panelVars, requestVars
<1> QED
  BY <1>2, <1>3, <1>4, <1>5, <1>6, <1>7, <1>8, <1>9, <1>10 DEF HistoryNext

\* Who waits for a text before choosing the next sees and copies what the label names,
\* however lists and texts come in turns (editor.mjs:314, 326-327).
THEOREM LabelsAreTrue == HistorySpec => []LabelNamesText
<1>1. HistoryInit => LabelInv
  BY DEF HistoryInit, PanelInit, LabelInv, OnceOnTheWay, Awaited, LabelNamesText, OnTheWay
<1>2. TypesInv /\ LabelInv /\ [HistoryNext]_historyVars => LabelInv'
  BY LabelStep
<1>3. LabelInv => LabelNamesText
  BY DEF LabelInv
<1> QED
  BY <1>1, <1>2, <1>3, TypesInvariant, PTL DEF HistorySpec

\* While there is a text to copy, the entries highlighted are those in which its label
\* is found, or none, when a list came after it.
HighlightInv == selected # NoRow => active \in {{}, Highlighted(selected)}

\* When entries are highlighted and there is a text to copy, they contain its label,
\* and the entry of that text, if it is listed, is one of them.
HighlightIsOfText ==
  (selected # NoRow /\ active # {}) =>
     /\ \A i \in active : LabelFound(selected, i)
     /\ selected \in Range(listed) => selected \in active

\* A highlight left from an earlier list or an earlier text is never seen beside a text
\* that can be copied, whichever lists and failures came between (editor.mjs:327-333).
THEOREM HighlightsAreSelected == HistorySpec => []HighlightIsOfText
<1>1. HistoryInit => HighlightInv
  BY DEF HistoryInit, PanelInit, HighlightInv
<1>2. ASSUME TypesInv, HighlightInv, [HistoryNext]_historyVars
      PROVE  HighlightInv'
  <2>1. ASSUME UNCHANGED <<created, listed, selected, active>>
        PROVE  HighlightInv'
    BY <1>2, <2>1 DEF HighlightInv, Highlighted, LabelFound
  <2>2. CASE HubSteps
    <3>1. UNCHANGED <<listed, selected, active>>
      BY <2>2, HubLeavesPanel
    <3>2. Range(listed) \subseteq Rows /\ selected \in Rows \cup {NoRow}
      BY <1>2 DEF TypesInv, PanelTypeOK, Range
    <3>3. \A i \in Rows : created'[i] = created[i]
      <4>1. created \in Seq(Nat) /\ Rows = 1 .. Len(created)
        BY <1>2 DEF TypesInv, PanelTypeOK, Rows
      <4>2. created' = created \/ \E now : created' = Append(created, now)
        BY <1>2, <2>2, HubStepRows DEF TypesInv
      <4> QED
        BY <4>1, <4>2
    <3>4. selected # NoRow => Highlighted(selected)' = Highlighted(selected)
      BY <3>1, <3>2, <3>3 DEF Highlighted, LabelFound
    <3> QED
      BY <1>2, <3>1, <3>4 DEF HighlightInv
  <2>3. CASE LoadHistoryList
    BY <2>3 DEF LoadHistoryList, HighlightInv
  <2>4. ASSUME NEW id \in Range(listed), LoadHistoryVersion(id)
        PROVE  HighlightInv'
    BY <2>4 DEF LoadHistoryVersion, HighlightInv
  <2>5. ASSUME NEW c \in answered, ListArrives(c)
        PROVE  HighlightInv'
    BY <2>5 DEF ListArrives, ShowList, HighlightInv
  <2>6. ASSUME NEW c \in answered, TextArrives(c)
        PROVE  HighlightInv'
    <3>1. /\ selected' = c.row /\ active' = Highlighted(c.row)
          /\ created' = created /\ listed' = listed
      BY <2>6 DEF TextArrives
    <3>2. Highlighted(selected)' = Highlighted(c.row)
      BY <3>1 DEF Highlighted, LabelFound
    <3> QED
      BY <3>1, <3>2 DEF HighlightInv
  <2>7. ASSUME NEW c \in OnTheWay, RequestFails(c)
        PROVE  HighlightInv'
    <3>1. CASE c.row = NoRow
      BY <2>7, <3>1 DEF RequestFails, ShowFailure, HighlightInv
    <3>2. CASE c.row # NoRow
      BY <2>1, <2>7, <3>2 DEF RequestFails, ShowFailure, listVars
    <3> QED
      BY <3>1, <3>2
  <2>8. ASSUME \/ \E c \in sent : Answer(c)
               \/ Copy \/ (\E ok \in BOOLEAN : CopyEnds(ok)) \/ IconTimerFires
        PROVE  HighlightInv'
    BY <2>1, <2>8 DEF Answer, Copy, CopyEnds, IconTimerFires, listVars, viewVars
  <2>9. CASE UNCHANGED historyVars
    BY <2>1, <2>9 DEF historyVars, panelVars, listVars, viewVars
  <2> QED
    BY <1>2, <2>2, <2>3, <2>4, <2>5, <2>6, <2>7, <2>8, <2>9 DEF HistoryNext
<1>3. HighlightInv => HighlightIsOfText
  BY DEF HighlightInv, HighlightIsOfText, Highlighted, LabelFound
<1> QED
  BY <1>1, <1>2, <1>3, TypesInvariant, PTL DEF HistorySpec

-----------------------------------------------------------------------------
(***************************************************************************)
(* What is listed, and what is waited for.                                 *)
(***************************************************************************)

\* The newest rows of a history of n rows.
NewestOf(n) == [i \in 1 .. IF n < ListLimit THEN n ELSE ListLimit |-> n + 1 - i]

\* A list that is on its way is the history of some moment, and one that is not shown
\* has no entries.
ListInv ==
  /\ \A c \in answered : c.row = NoRow => \E n \in 0 .. Len(versions) : c.ids = NewestOf(n)
  /\ list # "rows" => listed = << >>
  /\ ListIsHistory

LEMMA ListStep ==
  ASSUME TypesInv, OnceOnTheWay, ListInv, [HistoryNext]_historyVars
  PROVE  ListInv'
<1> USE DEF ListInv
<1>a. ListIsHistory <=> (list = "rows" => \E n \in Rows : listed = NewestOf(n))
  BY DEF ListIsHistory, NewestOf
<1>b. ListIsHistory' <=> (list' = "rows" => \E n \in Rows' : listed' = NewestOf(n))
  BY DEF ListIsHistory, NewestOf
<1>c. Len(versions) \in Nat
  BY DEF TypesInv, VersionsTypeOK
<1>1. ASSUME UNCHANGED <<list, listed>>, answered' \subseteq answered,
             Len(versions') \in Nat, Len(versions) <= Len(versions')
      PROVE  ListInv'
  <2>1. Rows \subseteq Rows' /\ 0 .. Len(versions) \subseteq 0 .. Len(versions')
    BY <1>1, <1>c DEF Rows
  <2> QED
    BY <1>1, <1>a, <1>b, <2>1
<1>2. CASE HubSteps
  <2>1. Len(versions') \in Nat /\ Len(versions) <= Len(versions')
    BY <1>2, <1>c, HubStepRows DEF TypesInv
  <2> QED
    BY <1>1, <1>2, <2>1, HubLeavesPanel
<1>3. ASSUME PanelNext
      PROVE  Len(versions') \in Nat /\ Len(versions) <= Len(versions') /\ Rows' = Rows
  BY <1>3, <1>c, PanelReads DEF versionVars, Rows
<1>4. ASSUME PanelNext, UNCHANGED <<list, listed>>, answered' \subseteq answered
      PROVE  ListInv'
  BY <1>1, <1>3, <1>4
<1>5. CASE LoadHistoryList
  <2>1. list' = "loading" /\ listed' = << >> /\ answered' = answered
    BY <1>5 DEF LoadHistoryList, Ask
  <2>2. Len(versions') = Len(versions)
    BY <1>5 DEF LoadHistoryList, versionVars
  <2> QED
    BY <1>b, <2>1, <2>2
<1>6. ASSUME NEW id \in Range(listed), LoadHistoryVersion(id)
      PROVE  ListInv'
  <2>1. PanelNext /\ UNCHANGED <<list, listed>> /\ answered' = answered
    BY <1>6 DEF PanelNext, LoadHistoryVersion, Ask, listVars
  <2> QED
    BY <1>4, <2>1
<1>7. ASSUME NEW c \in sent, Answer(c)
      PROVE  ListInv'
  <2>1. PICK a : /\ a.row = c.row /\ answered' = answered \cup {a}
                 /\ a.ids = IF c.row = NoRow THEN NewestRows ELSE <<c.row>>
    BY <1>7, AnswerOnce
  <2>2. NewestRows = NewestOf(Len(versions))
    BY DEF NewestRows, NewestOf
  <2>3. a.row = NoRow => \E n \in 0 .. Len(versions) : a.ids = NewestOf(n)
    BY <1>c, <2>1, <2>2
  <2>4. UNCHANGED <<list, listed>> /\ Len(versions') = Len(versions) /\ Rows' = Rows
    BY <1>7 DEF Answer, listVars, versionVars, Rows
  <2> QED
    BY <1>a, <1>b, <2>1, <2>3, <2>4
<1>8. ASSUME NEW c \in answered, ListArrives(c)
      PROVE  ListInv'
  <2>1. /\ c.row = NoRow /\ answered' \subseteq answered
        /\ list' = IF c.ids = << >> THEN "none" ELSE "rows"
        /\ listed' = c.ids
    BY <1>8 DEF ListArrives, ShowList
  <2>2. PICK n \in 0 .. Len(versions) : c.ids = NewestOf(n)
    BY <2>1
  <2>3. n = 0 => NewestOf(n) = << >>
    <3>1. ASSUME n = 0
          PROVE  NewestOf(n) = << >>
      <4>1. (IF n < ListLimit THEN n ELSE ListLimit) = 0
        BY <3>1, PanelAssumption
      <4>2. 1 .. 0 = {}
        OBVIOUS
      <4> QED
        BY <4>1, <4>2 DEF NewestOf
    <3> QED
      BY <3>1
  <2>4. list' = "rows" => n \in Rows
    BY <1>c, <2>1, <2>2, <2>3 DEF Rows
  <2>5. Len(versions') = Len(versions) /\ Rows' = Rows
    BY <1>8 DEF ListArrives, versionVars, Rows
  <2> QED
    BY <1>b, <2>1, <2>2, <2>4, <2>5
<1>9. ASSUME NEW c \in answered, TextArrives(c)
      PROVE  ListInv'
  <2>1. PanelNext /\ UNCHANGED <<list, listed>> /\ answered' \subseteq answered
    BY <1>9 DEF PanelNext, TextArrives
  <2> QED
    BY <1>4, <2>1
<1>10. ASSUME NEW c \in OnTheWay, RequestFails(c)
       PROVE  ListInv'
  <2>1. PanelNext /\ answered' \subseteq answered
    BY <1>10 DEF PanelNext, RequestFails
  <2>2. CASE c.row = NoRow
    <3>1. list' = "failed" /\ listed' = << >> /\ Len(versions') = Len(versions)
      BY <1>10, <2>2 DEF RequestFails, ShowFailure, versionVars
    <3> QED
      BY <1>b, <2>1, <3>1
  <2>3. CASE c.row # NoRow
    <3>1. UNCHANGED <<list, listed>>
      BY <1>10, <2>3 DEF RequestFails, ShowFailure, listVars
    <3> QED
      BY <1>4, <2>1, <3>1
  <2> QED
    BY <2>2, <2>3
<1>11. CASE Copy \/ (\E ok \in BOOLEAN : CopyEnds(ok)) \/ IconTimerFires
  <2>1. PanelNext /\ UNCHANGED <<list, listed, answered>>
    BY <1>11 DEF PanelNext, Copy, CopyEnds, IconTimerFires, requestVars, listVars
  <2> QED
    BY <1>4, <2>1
<1>12. CASE UNCHANGED historyVars
  BY <1>1, <1>12, <1>c DEF historyVars, versionVars, panelVars, requestVars, listVars
<1> QED
  BY <1>2, <1>5, <1>6, <1>7, <1>8, <1>9, <1>10, <1>11, <1>12 DEF HistoryNext

\* A list that arrived, in whatever order, is the newest rows of one moment
\* (editor.mjs:268-301, versions.go:65-67).
THEOREM ListsAreHistories == HistorySpec => []ListIsHistory
<1>1. HistoryInit => ListInv /\ LabelInv
  BY DEF HistoryInit, PanelInit, ListInv, ListIsHistory, LabelInv, OnceOnTheWay, Awaited,
         LabelNamesText, OnTheWay
<1>2. TypesInv /\ LabelInv /\ ListInv /\ [HistoryNext]_historyVars => (ListInv /\ LabelInv)'
  BY ListStep, LabelStep DEF LabelInv
<1>3. ListInv => ListIsHistory
  BY DEF ListInv
<1> QED
  BY <1>1, <1>2, <1>3, TypesInvariant, PTL DEF HistorySpec

\* A text that loads has a label, which no answer of a list can be taken for.
LoadingInv == (view = "loading" => label # NoRow) /\ LoadingIsAwaited

LEMMA LoadingStep ==
  ASSUME TypesInv, LabelInv, ListInv, LoadingInv, [HistoryNext]_historyVars
  PROVE  LoadingInv'
<1> USE DEF LoadingInv, LoadingIsAwaited
<1>1. ASSUME UNCHANGED <<requests, sent, answered, list, view, label>>
      PROVE  LoadingInv'
  BY <1>1 DEF OnTheWay
<1>2. CASE HubSteps
  BY <1>1, <1>2, HubLeavesPanel
<1>3. CASE LoadHistoryList
  <2>1. OnceOnTheWay /\ Ask(NoRow) /\ view' = "blank"
    BY <1>3 DEF LoadHistoryList, ClearHistorySelection, LabelInv
  <2> QED
    BY <2>1, AskOnce
<1>4. ASSUME NEW id \in Range(listed), LoadHistoryVersion(id)
      PROVE  LoadingInv'
  <2>1. OnceOnTheWay /\ Ask(id) /\ label' = id /\ list' = list
    BY <1>4 DEF LoadHistoryVersion, LabelInv, listVars
  <2>2. list = "rows" /\ id # NoRow
    <3>1. id \in Rows /\ listed # << >>
      BY DEF TypesInv, PanelTypeOK, Range
    <3> QED
      BY <3>1 DEF ListInv, Rows, NoRow
  <2> QED
    BY <2>1, <2>2, AskOnce
<1>5. ASSUME NEW c \in sent, Answer(c)
      PROVE  LoadingInv'
  <2>1. PICK a : a.row = c.row /\ OnTheWay' = (OnTheWay \ {c}) \cup {a}
    BY <1>5, AnswerOnce DEF LabelInv
  <2>2. UNCHANGED <<requests, list, view, label>>
    BY <1>5 DEF Answer, listVars, viewVars
  <2> QED
    BY <2>1, <2>2
<1>6. ASSUME NEW c \in OnTheWay, ListArrives(c) \/ TextArrives(c) \/ RequestFails(c)
      PROVE  LoadingInv'
  <2>1. OnTheWay \ {c} \subseteq OnTheWay'
    BY <1>6 DEF ListArrives, TextArrives, RequestFails, OnTheWay
  <2>2. requests' = requests
    BY <1>6 DEF ListArrives, TextArrives, RequestFails
  <2>3. CASE c.row = NoRow
    <3>1. list' # "loading" /\ UNCHANGED <<view, label>>
      BY <1>6, <2>3 DEF ListArrives, ShowList, TextArrives, RequestFails, ShowFailure, viewVars
    <3> QED
      BY <2>1, <2>3, <3>1
  <2>4. CASE c.row # NoRow
    <3>1. view' # "loading" /\ UNCHANGED list
      BY <1>6, <2>4 DEF ListArrives, TextArrives, RequestFails, ShowFailure, listVars
    <3> QED
      BY <2>1, <2>2, <2>4, <3>1
  <2> QED
    BY <2>3, <2>4
<1>7. CASE Copy \/ (\E ok \in BOOLEAN : CopyEnds(ok)) \/ IconTimerFires
  BY <1>1, <1>7 DEF Copy, CopyEnds, IconTimerFires, requestVars, listVars, viewVars
<1>8. CASE UNCHANGED historyVars
  BY <1>1, <1>8 DEF historyVars, panelVars, requestVars, listVars, viewVars
<1> QED
  BY <1>2, <1>3, <1>4, <1>5, <1>6, <1>7, <1>8 DEF HistoryNext, OnTheWay

\* "Loading..." is never shown of something nobody asks for any more, in whatever order
\* the answers of several clicks come and fail (editor.mjs:271, 313).
THEOREM LoadingEnds == HistorySpec => []LoadingIsAwaited
<1>1. HistoryInit => ListInv /\ LabelInv /\ LoadingInv
  BY DEF HistoryInit, PanelInit, ListInv, ListIsHistory, LabelInv, OnceOnTheWay, Awaited,
         LabelNamesText, OnTheWay, LoadingInv, LoadingIsAwaited
<1>2. TypesInv /\ LabelInv /\ ListInv /\ LoadingInv /\ [HistoryNext]_historyVars
        => (ListInv /\ LabelInv /\ LoadingInv)'
  BY ListStep, LabelStep, LoadingStep DEF LabelInv
<1>3. LoadingInv => LoadingIsAwaited
  BY DEF LoadingInv
<1> QED
  BY <1>1, <1>2, <1>3, TypesInvariant, PTL DEF HistorySpec
=============================================================================
