-------------------------- MODULE EditorClientProofs --------------------------
(***************************************************************************)
(* The badge, the snapshot timers and the cursor of a page, for any        *)
(* updates, any number of websockets and whatever other pages save.        *)
(***************************************************************************)
EXTENDS EditorClient, FiniteSetTheorems, TLAPS

\* Neither fact about the socket is inductive alone: a message that syncs the page
\* must not be there once the socket is closing, and the timers must be counted.
MessagesNeedSocket == (up # << >> \/ down # << >>) => socket = "open"

SocketInv ==
  openTimers \in Nat /\ MessagesNeedSocket /\ BadgeFollowsSocket
  /\ UnsentTextIsScheduled

\* The cursor is in the text, whatever another page with a longer text saved: the
\* view refuses a selection behind it (editor.mjs:187-193).
CursorInText == cursor <= Cardinality(doc)

CursorInv ==
  /\ IsFiniteSet(doc)
  /\ cursor \in Nat /\ saved \in Nat \cup {Nothing}
  /\ cursorRestored \in BOOLEAN
  /\ CursorInText /\ CursorIsSaved

-----------------------------------------------------------------------------
(***************************************************************************)
(* The socket, the badge and the snapshots.                                *)
(***************************************************************************)

\* A timer that fires leaves no text unsent on an open socket.
LEMMA SnapshotSends ==
  ASSUME SendTextSnapshot
  PROVE  /\ socket = "open" => lastSent' = doc
         /\ socket # "open" => up' = up
BY DEF SendTextSnapshot

LEMMA SocketStep ==
  ASSUME SocketInv, [Next]_vars
  PROVE  SocketInv'
<1> USE DEF SocketInv, ShowStatus, MessagesNeedSocket, BadgeFollowsSocket,
            UnsentTextIsScheduled, socketVars, badgeVars, timerVars, wireVars, hubVars
<1>1. CASE UNCHANGED vars
  BY <1>1 DEF vars
<1>2. CASE Connect
  BY <1>2 DEF Connect
<1>3. CASE ConnectFails
  BY <1>3 DEF ConnectFails
<1>4. CASE Open
  \* the timer of the new socket stands for whatever was not sent
  BY <1>4 DEF Open
<1>5. CASE StartClose \/ Close
  BY <1>5 DEF StartClose, Close
<1>6. ASSUME NEW u \in Mine, Type(u)
      PROVE  SocketInv'
  BY <1>6 DEF Type, Observe
<1>7. CASE Receive
  \* whether or not it syncs the page, the socket is open
  <2>1. BadgeFollowsSocket'
    <3>1. socket = "open" /\ socket' = socket
      BY <1>7 DEF Receive
    <3>2. CASE IsSync(Head(down))
      BY <1>7, <3>1, <3>2 DEF Receive
    <3>3. CASE ~IsSync(Head(down))
      BY <1>7, <3>1, <3>3 DEF Receive
    <3> QED
      BY <3>2, <3>3
  <2>2. (doc' # doc => changeTimer') /\ (changeTimer => changeTimer')
    BY <1>7 DEF Receive, Observe
  <2> QED
    BY <1>7, <2>1, <2>2 DEF Receive
<1>8. CASE ChangeTimerFires
  BY <1>8, SnapshotSends DEF ChangeTimerFires
<1>9. CASE OpenTimerFires
  BY <1>9, SnapshotSends DEF OpenTimerFires
<1>10. CASE MoveCursor \/ SaveCursor \/ SiblingSavesCursor \/ Fallback
  <2>1. UNCHANGED <<socketVars, badgeVars, doc, timerVars, wireVars>>
    BY <1>10 DEF MoveCursor, SaveCursor, SiblingSavesCursor, Fallback
  <2> QED
    BY <2>1
<1>11. CASE HubHandles
  BY <1>11 DEF HubHandles
<1>12. ASSUME NEW u \in Theirs, PeerEdits(u)
       PROVE  SocketInv'
  BY <1>12 DEF PeerEdits
<1>13. CASE HubEnds
  BY <1>13 DEF HubEnds
<1>14. ASSUME NEW us \in SUBSET Siblings, SiblingUpdates(us)
       PROVE  SocketInv'
  BY <1>14 DEF SiblingUpdates, Observe
<1>15. CASE PreviewTimerFires
  BY <1>15 DEF PreviewTimerFires
<1> QED
  BY <1>1, <1>2, <1>3, <1>4, <1>5, <1>6, <1>7, <1>8, <1>9, <1>10, <1>11, <1>12, <1>13,
     <1>14, <1>15
  DEF Next

LEMMA SocketInvariant == Spec => []SocketInv
<1>1. Init => SocketInv
  BY DEF Init, SocketInv, MessagesNeedSocket, BadgeFollowsSocket, UnsentTextIsScheduled
<1> QED
  BY <1>1, SocketStep, PTL DEF Spec

\* From the onopen of a websocket to its onclose, a closing one included, the badge
\* says "syncing", and "live" once the hub has synced the page; it says neither without
\* one, over any number of websockets (editor.mjs:59-82).
THEOREM BadgeIsHonest == Spec => []BadgeFollowsSocket
<1>1. SocketInv => BadgeFollowsSocket
  BY DEF SocketInv
<1> QED
  BY <1>1, SocketInvariant, PTL

\* On an open socket a timer runs for every text not sent yet, whatever timers
\* fired before it was open (editor.mjs:105-128).
THEOREM UnsentTextHasATimer == Spec => []UnsentTextIsScheduled
<1>1. SocketInv => UnsentTextIsScheduled
  BY DEF SocketInv
<1> QED
  BY <1>1, SocketInvariant, PTL

-----------------------------------------------------------------------------
(***************************************************************************)
(* The cursor.                                                             *)
(***************************************************************************)

\* Wherever another page was, the restored cursor is in the text.
LEMMA RestoredIsInText ==
  ASSUME NEW text, IsFiniteSet(text), saved \in Nat \cup {Nothing}
  PROVE  Restored(text) \in 0 .. Cardinality(text)
<1>1. Cardinality(text) \in Nat
  BY FS_CardinalityType
<1>2. CASE saved = Nothing
  BY <1>1, <1>2 DEF Restored
<1>3. CASE saved # Nothing
  <2> DEFINE end == Cardinality(text)
  <2>1. saved \in Nat
    BY <1>3
  <2>2. \E x \in {saved, end} : \A y \in {saved, end} : x <= y
    BY <1>1, <2>1
  <2>3. Min({saved, end}) \in {saved, end} /\ Min({saved, end}) <= end
    BY <2>2 DEF Min
  <2> QED
    BY <1>1, <1>3, <2>1, <2>3 DEF Restored
<1> QED
  BY <1>2, <1>3

\* A new update makes the text one character longer.
LEMMA TextGrows ==
  ASSUME NEW u, IsFiniteSet(doc), u \notin doc
  PROVE  /\ IsFiniteSet(doc \cup {u})
         /\ Cardinality(doc \cup {u}) = Cardinality(doc) + 1
BY FS_AddElement

\* What a received message makes of the text.
LEMMA ReceivedText ==
  ASSUME CursorInv, Receive
  PROVE  /\ IsFiniteSet(doc')
         /\ \/ doc' = doc
            \/ Cardinality(doc') = Cardinality(doc) + 1 /\ saveTimer'
<1> DEFINE u == Head(down).body
<1>1. CASE u \in doc \cup {Nothing}
  <2>1. doc' = doc
    BY <1>1 DEF Receive
  <2> QED
    BY <2>1 DEF CursorInv
<1>2. CASE u \notin doc \cup {Nothing}
  <2>1. doc' = doc \cup {u} /\ saveTimer'
    BY <1>2 DEF Receive, ScheduleSave, SavesCursor
  <2> QED
    BY <1>2, <2>1, TextGrows DEF CursorInv
<1> QED
  BY <1>1, <1>2

\* A received message moves a restored cursor by what it inserts before it.
LEMMA ReceivedCursor ==
  ASSUME Receive, cursorRestored \/ ~cursorRestored'
  PROVE  cursor' = cursor \/ (cursor' = cursor + 1 /\ doc' # doc)
<1> DEFINE new == {Head(down).body} \ (doc \cup {Nothing})
           sync == IsSync(Head(down))
<1>1. PICK here \in IF new = {} \/ cursor = 0 THEN {cursor} ELSE {cursor, cursor + 1} :
        IF sync THEN RestoreCursor(doc', here)
        ELSE cursor' = here /\ UNCHANGED cursorRestored
  BY DEF Receive
<1>2. cursor' = here
  BY <1>1 DEF RestoreCursor
<1>3. new # {} => doc' # doc
  BY DEF Receive
<1> QED
  BY <1>1, <1>2, <1>3

\* What another window sends makes the text longer, and the cursor goes with it.
LEMMA SiblingText ==
  ASSUME CursorInv, NEW us \in SUBSET Siblings, SiblingUpdates(us)
  PROVE  /\ IsFiniteSet(doc')
         /\ cursor' \in cursor .. cursor + (Cardinality(doc') - Cardinality(doc))
<1> DEFINE new == us \ doc
<1>1. IsFiniteSet(doc) /\ IsFiniteSet(new)
  <2>1. IsFiniteSet(us)
    BY EditorAssumption, FS_Subset
  <2> QED
    BY <2>1, FS_Difference DEF CursorInv
<1>2. doc \cap new = {} /\ doc' = doc \cup new
  BY DEF SiblingUpdates
<1>3. /\ IsFiniteSet(doc \cup new)
      /\ Cardinality(doc \cup new) = Cardinality(doc) + Cardinality(new) - Cardinality({})
  BY <1>1, <1>2, FS_Union
<1>4. Cardinality({}) = 0 /\ Cardinality(doc) \in Nat /\ Cardinality(new) \in Nat
  BY <1>1, FS_EmptySet, FS_CardinalityType
<1>5. Cardinality(doc') - Cardinality(doc) = Cardinality(new)
  BY <1>2, <1>3, <1>4
<1>6. cursor' \in cursor .. cursor + Cardinality(new)
  <2>1. CASE cursor = 0
    BY <1>4, <2>1 DEF SiblingUpdates
  <2>2. CASE cursor # 0
    BY <2>2 DEF SiblingUpdates
  <2> QED
    BY <2>1, <2>2
<1> QED
  BY <1>2, <1>3, <1>5, <1>6

LEMMA CursorStep ==
  ASSUME CursorInv, [Next]_vars
  PROVE  CursorInv'
<1>c. Cardinality(doc) \in Nat
  BY FS_CardinalityType DEF CursorInv
<1>1. ASSUME UNCHANGED <<doc, cursorVars>>
      PROVE  CursorInv'
  BY <1>1 DEF CursorInv, CursorInText, CursorIsSaved, cursorVars
<1>2. ASSUME NEW u \in Mine, Type(u)
      PROVE  CursorInv'
  <2>1. IsFiniteSet(doc') /\ Cardinality(doc') = Cardinality(doc) + 1
    BY <1>2, TextGrows DEF Type, CursorInv
  <2>2. /\ cursor' = cursor + 1 /\ saved' = saved /\ saveTimer' /\ ~saveLost'
        /\ cursorRestored' = cursorRestored
    BY <1>2 DEF Type, ScheduleSave, SavesCursor
  <2> QED
    BY <1>c, <2>1, <2>2 DEF CursorInv, CursorInText, CursorIsSaved
<1>3. CASE Receive
  <2>1. saved' = saved
    BY <1>3 DEF Receive
  <2>2. IsFiniteSet(doc') /\ Cardinality(doc) <= Cardinality(doc')
    BY <1>c, <1>3, ReceivedText
  <2>3. CASE cursorRestored' /\ ~cursorRestored
    <3>1. cursor' = Restored(doc') /\ saveTimer'
      BY <1>3, <2>3 DEF Receive, RestoreCursor, ScheduleSave, SavesCursor
    <3> QED
      BY <2>1, <2>2, <2>3, <3>1, RestoredIsInText, FS_CardinalityType
      DEF CursorInv, CursorInText, CursorIsSaved
  <2>4. CASE cursorRestored' = cursorRestored
    <3>1. cursor' = cursor \/ (cursor' = cursor + 1 /\ doc' # doc)
      BY <1>3, <2>4, ReceivedCursor DEF CursorInv
    <3>2. saveTimer \/ saveLost => saveTimer' \/ saveLost'
      BY <1>3 DEF Receive, ScheduleSave
    <3>3. CASE doc' = doc
      BY <2>1, <2>2, <2>4, <3>1, <3>2, <3>3 DEF CursorInv, CursorInText, CursorIsSaved
    <3>4. CASE doc' # doc
      BY <1>c, <1>3, <2>1, <2>4, <3>1, <3>4, ReceivedText
      DEF CursorInv, CursorInText, CursorIsSaved
    <3> QED
      BY <3>3, <3>4
  <2>5. cursorRestored' = cursorRestored \/ (cursorRestored' /\ ~cursorRestored)
    BY <1>3 DEF Receive, RestoreCursor, CursorInv
  <2> QED
    BY <2>3, <2>4, <2>5
<1>4. CASE MoveCursor
  BY <1>c, <1>4 DEF MoveCursor, ScheduleSave, SavesCursor, CursorInv, CursorInText, CursorIsSaved
<1>5. CASE SaveCursor \/ SiblingSavesCursor
  <2>1. saved' \in Nat \cup {Nothing}
    BY <1>5, EditorAssumption DEF SaveCursor, SiblingSavesCursor, CursorInv
  <2> QED
    BY <1>5, <2>1 DEF SaveCursor, SiblingSavesCursor, Lost, CursorInv, CursorInText, CursorIsSaved
<1>6. CASE Fallback
  <2>1. doc' = doc /\ saved' = saved /\ cursorRestored'
    BY <1>6 DEF Fallback, RestoreCursor
  <2>2. CASE cursorRestored
    BY <1>6, <2>1, <2>2
    DEF Fallback, RestoreCursor, ScheduleSave, SavesCursor, CursorInv, CursorInText, CursorIsSaved
  <2>3. CASE ~cursorRestored
    <3>1. cursor' = Restored(doc) /\ saveTimer'
      BY <1>6, <2>3 DEF Fallback, RestoreCursor, ScheduleSave, SavesCursor
    <3> QED
      BY <1>c, <2>1, <3>1, RestoredIsInText DEF CursorInv, CursorInText, CursorIsSaved
  <2> QED
    BY <2>2, <2>3
<1>7. CASE Connect \/ ConnectFails \/ Open \/ StartClose \/ Close
  BY <1>1, <1>7 DEF Connect, ConnectFails, Open, StartClose, Close
<1>8. CASE ChangeTimerFires \/ OpenTimerFires \/ PreviewTimerFires
  BY <1>1, <1>8 DEF ChangeTimerFires, OpenTimerFires, PreviewTimerFires
<1>9. CASE HubHandles \/ HubEnds \/ \E u \in Theirs : PeerEdits(u)
  BY <1>1, <1>9 DEF HubHandles, HubEnds, PeerEdits
<1>10. CASE UNCHANGED vars
  BY <1>1, <1>10 DEF vars
<1>11. ASSUME NEW us \in SUBSET Siblings, SiblingUpdates(us)
       PROVE  CursorInv'
  <2>1. /\ IsFiniteSet(doc')
        /\ cursor' \in cursor .. cursor + (Cardinality(doc') - Cardinality(doc))
    BY <1>11, SiblingText
  <2>2. Cardinality(doc') \in Nat
    BY <2>1, FS_CardinalityType
  <2>3. saveTimer' /\ saved' = saved /\ cursorRestored' = cursorRestored
    BY <1>11 DEF SiblingUpdates, ScheduleSave, SavesCursor
  <2> QED
    BY <1>c, <2>1, <2>2, <2>3 DEF CursorInv, CursorInText, CursorIsSaved
<1> QED
  BY <1>2, <1>3, <1>4, <1>5, <1>6, <1>7, <1>8, <1>9, <1>10, <1>11 DEF Next

LEMMA CursorInvariant == Spec => []CursorInv
<1>1. Init => CursorInv
  <2>1. IsFiniteSet({}) /\ Cardinality({}) = 0
    BY FS_EmptySet
  <2> SUFFICES ASSUME Init
               PROVE  CursorInv
    OBVIOUS
  <2>2. saved \in Nat \cup {Nothing}
    BY EditorAssumption DEF Init
  <2>3. CursorInText
    BY <2>1 DEF Init, CursorInText
  <2> QED
    BY <2>1, <2>2, <2>3 DEF Init, CursorInv, CursorIsSaved
<1> QED
  BY <1>1, CursorStep, PTL DEF Spec

\* The cursor is never behind the text, however long the text was when another page
\* saved it (editor.mjs:187-193).
THEOREM CursorIsInText == Spec => []CursorInText
<1>1. CursorInv => CursorInText
  BY DEF CursorInv
<1> QED
  BY <1>1, CursorInvariant, PTL

\* The place of a restored cursor is saved, or a timer runs that will try to, or the
\* storage refused it or another window's place came after it (editor.mjs:130-162).
THEOREM CursorWillBeSaved == Spec => []CursorIsSaved
<1>1. CursorInv => CursorIsSaved
  BY DEF CursorInv
<1> QED
  BY <1>1, CursorInvariant, PTL

\* Once restored the cursor is moved by the user and by edits before it, never
\* again by a sync or by the timer (editor.mjs:179-203).
THEOREM CursorStaysPut == Spec => CursorStays
<1> DEFINE Stays == cursorRestored
                      => \/ cursor' \in cursor .. cursor + (Cardinality(doc') - Cardinality(doc))
                         \/ MoveCursor
<1>1. ASSUME CursorInv, [Next]_vars
      PROVE  [Stays]_vars
  <2> SUFFICES ASSUME cursorRestored, ~MoveCursor
               PROVE  cursor' \in cursor .. cursor + (Cardinality(doc') - Cardinality(doc))
    OBVIOUS
  <2>c. cursor \in Nat /\ Cardinality(doc) \in Nat
    BY <1>1, FS_CardinalityType DEF CursorInv
  <2>1. ASSUME UNCHANGED <<doc, cursor>>
        PROVE  cursor' \in cursor .. cursor + (Cardinality(doc') - Cardinality(doc))
    BY <2>c, <2>1
  <2>2. ASSUME NEW u \in Mine, Type(u)
        PROVE  cursor' \in cursor .. cursor + (Cardinality(doc') - Cardinality(doc))
    <3>1. Cardinality(doc') = Cardinality(doc) + 1
      BY <1>1, <2>2, TextGrows DEF Type, CursorInv
    <3> QED
      BY <2>c, <2>2, <3>1 DEF Type
  <2>3. CASE Receive
    <3>1. cursor' = cursor \/ (cursor' = cursor + 1 /\ doc' # doc)
      BY <2>3, ReceivedCursor
    <3>2. doc' = doc \/ Cardinality(doc') = Cardinality(doc) + 1
      BY <1>1, <2>3, ReceivedText
    <3>3. CASE doc' = doc
      BY <2>1, <3>1, <3>3
    <3>4. CASE Cardinality(doc') = Cardinality(doc) + 1
      BY <2>c, <3>1, <3>4
    <3> QED
      BY <3>2, <3>3, <3>4
  <2>4. CASE Fallback
    BY <2>1, <2>4 DEF Fallback, RestoreCursor
  <2>5. CASE SaveCursor \/ SiblingSavesCursor \/ Connect \/ ConnectFails
               \/ Open \/ StartClose \/ Close
    BY <2>1, <2>5
    DEF SaveCursor, SiblingSavesCursor, Connect, ConnectFails, Open, StartClose, Close,
        cursorVars
  <2>6. CASE ChangeTimerFires \/ OpenTimerFires \/ PreviewTimerFires
               \/ HubHandles \/ HubEnds \/ \E u \in Theirs : PeerEdits(u)
    BY <2>1, <2>6
    DEF ChangeTimerFires, OpenTimerFires, PreviewTimerFires, HubHandles, HubEnds,
        PeerEdits, cursorVars
  <2>7. CASE UNCHANGED vars
    BY <2>1, <2>7 DEF vars, cursorVars
  <2>8. ASSUME NEW us \in SUBSET Siblings, SiblingUpdates(us)
        PROVE  cursor' \in cursor .. cursor + (Cardinality(doc') - Cardinality(doc))
    BY <1>1, <2>8, SiblingText
  <2> QED
    BY <1>1, <2>2, <2>3, <2>4, <2>5, <2>6, <2>7, <2>8 DEF Next
<1> QED
  BY <1>1, CursorInvariant, PTL DEF Spec, CursorStays

-----------------------------------------------------------------------------
(***************************************************************************)
(* The types.                                                              *)
(***************************************************************************)

UpMessages == [kind : {"step1"}, body : {Nothing}]
                \cup [kind : {"update"}, body : Updates]
                \cup [kind : {"text"}, body : SUBSET Updates]
DownMessages == [kind : {"step2", "update"}, body : Updates \cup {Nothing}]

\* What the cursor's invariant does not already say of the types, the messages apart.
StateTypeOK ==
  /\ socket \in {"connecting", "open", "closing", "waiting"} /\ opens \in 0 .. MaxOpens
  /\ synced \in BOOLEAN /\ syncCompleted \in BOOLEAN
  /\ badge \in {"offline", "connecting", "syncing", "live", "error"}
  /\ doc \in SUBSET Updates
  /\ previewOld \in BOOLEAN /\ previewTimer \in BOOLEAN
  /\ changeTimer \in BOOLEAN /\ openTimers \in Nat
  /\ lastSent \in (SUBSET Updates) \cup {NoText}
  /\ fallback \in BOOLEAN /\ saveTimer \in BOOLEAN /\ saveLost \in BOOLEAN
  /\ hubText \in (SUBSET Updates) \cup {NoText}

MessagesOK ==
  up \in Seq(UpMessages) /\ down \in Seq(DownMessages) /\ log \in Seq(Updates)

\* The hub's answer to a Step1 is made of Step2s and Updates.
LEMMA InitialSyncType ==
  ASSUME log \in Seq(Updates)
  PROVE  InitialSync \in Seq(DownMessages)
<1>1. CASE log = << >>
  BY <1>1 DEF InitialSync, Message, DownMessages
<1>2. CASE log # << >>
  <2> DEFINE answer(i) == Message(IF i = 1 THEN "step2" ELSE "update", log[i])
  <2>1. \A i \in 1 .. Len(log) : answer(i) \in DownMessages
    BY DEF Message, DownMessages
  <2>2. InitialSync = [i \in 1 .. Len(log) |-> answer(i)]
    BY <1>2 DEF InitialSync
  <2> QED
    BY <2>1, <2>2
<1> QED
  BY <1>1, <1>2

LEMMA SnapshotTypes ==
  ASSUME StateTypeOK, MessagesOK, SendTextSnapshot
  PROVE  up' \in Seq(UpMessages) /\ lastSent' \in (SUBSET Updates) \cup {NoText}
<1> DEFINE sent == Message("text", doc)
<1>1. sent \in UpMessages
  BY DEF StateTypeOK, Message, UpMessages
<1>2. up' = Append(up, sent) \/ up' = up
  BY DEF SendTextSnapshot
<1>3. lastSent' \in (SUBSET Updates) \cup {NoText}
  BY DEF SendTextSnapshot, StateTypeOK
<1>4. up' \in Seq(UpMessages)
  <2> HIDE DEF sent
  <2> QED
    BY <1>1, <1>2 DEF MessagesOK
<1> QED
  BY <1>3, <1>4

\* Every step but the handling of a message by the hub keeps the messages' types.
LEMMA MessagesStep ==
  ASSUME StateTypeOK, MessagesOK, [Next]_vars
  PROVE  MessagesOK'
<1> USE DEF MessagesOK
<1>1. ASSUME UNCHANGED <<up, down, log>>
      PROVE  MessagesOK'
  BY <1>1
<1>2. CASE Connect \/ ConnectFails \/ MoveCursor \/ SaveCursor
             \/ SiblingSavesCursor \/ Fallback \/ PreviewTimerFires \/ HubEnds \/ UNCHANGED vars
  BY <1>1, <1>2 DEF Connect, ConnectFails, MoveCursor, SaveCursor,
                    SiblingSavesCursor, Fallback, PreviewTimerFires, HubEnds, vars, wireVars, hubVars
<1>3. CASE Open
  <2> DEFINE first == Message("step1", Nothing)
  <2>1. first \in UpMessages
    BY DEF Message, UpMessages
  <2>2. up' = <<first>> /\ down' = down /\ log' = log
    BY <1>3 DEF Open, hubVars
  <2> HIDE DEF first
  <2> QED
    BY <2>1, <2>2
<1>4. CASE StartClose \/ Close
  <2>1. up' = << >> /\ down' = << >> /\ log' = log
    BY <1>4 DEF StartClose, Close, hubVars
  <2> QED
    BY <2>1
<1>5. ASSUME NEW u \in Mine, Type(u)
      PROVE  MessagesOK'
  <2> DEFINE sent == Message("update", u)
  <2>1. sent \in UpMessages
    BY DEF Message, UpMessages, Updates
  <2>2. (up' = Append(up, sent) \/ up' = up) /\ down' = down /\ log' = log
    BY <1>5 DEF Type, hubVars
  <2> HIDE DEF sent
  <2> QED
    BY <2>1, <2>2
<1>6. CASE Receive
  BY <1>6 DEF Receive, hubVars
<1>7. ASSUME NEW us \in SUBSET Siblings, SiblingUpdates(us)
      PROVE  MessagesOK'
  BY <1>1, <1>7 DEF SiblingUpdates, wireVars, hubVars
<1>8. CASE ChangeTimerFires \/ OpenTimerFires
  BY <1>8, SnapshotTypes DEF ChangeTimerFires, OpenTimerFires, hubVars
<1>9. CASE HubHandles
  <2> DEFINE m == Head(up)
             answer == InitialSync
  <2>1. m \in UpMessages /\ up' \in Seq(UpMessages)
    BY <1>9 DEF HubHandles
  <2>2. answer \in Seq(DownMessages)
    BY InitialSyncType
  <2>3. CASE m.kind = "step1" /\ down' = down \o answer /\ UNCHANGED log
    <3> HIDE DEF answer
    <3> QED
      BY <2>1, <2>2, <2>3
  <2>4. CASE m.kind = "update" /\ log' = Append(log, m.body) /\ UNCHANGED down
    <3>1. m.body \in Updates
      BY <2>1, <2>4 DEF UpMessages
    <3>2. log' \in Seq(Updates)
      BY <2>4, <3>1
    <3> QED
      BY <2>1, <2>4, <3>2
  <2>5. CASE UNCHANGED <<down, log>>
    BY <2>1, <2>5
  <2> QED
    BY <1>9, <2>3, <2>4, <2>5 DEF HubHandles, hubVars
<1>10. ASSUME NEW u \in Theirs, PeerEdits(u)
       PROVE  MessagesOK'
  <2> DEFINE sent == Message("update", u)
  <2>1. sent \in DownMessages /\ u \in Updates
    BY DEF Message, DownMessages, Updates
  <2>2. down' = Append(down, sent) \/ down' = down
    BY <1>10 DEF PeerEdits
  <2>3. log' = Append(log, u) /\ up' = up
    BY <1>10 DEF PeerEdits
  <2>4. down' \in Seq(DownMessages)
    <3> HIDE DEF sent
    <3> QED
      BY <2>1, <2>2
  <2> QED
    BY <2>1, <2>3, <2>4
<1> QED
  BY <1>2, <1>3, <1>4, <1>5, <1>6, <1>7, <1>8, <1>9, <1>10 DEF Next

LEMMA StateStep ==
  ASSUME StateTypeOK, MessagesOK, CursorInv, [Next]_vars
  PROVE  StateTypeOK'
<1> USE DEF StateTypeOK, socketVars, badgeVars, previewVars, timerVars, hubVars
<1>1. CASE UNCHANGED vars
  BY <1>1 DEF vars, cursorVars
<1>2. CASE Connect \/ ConnectFails \/ StartClose \/ Close
  <2>1. CASE Connect \/ ConnectFails
    BY <2>1 DEF Connect, ConnectFails, ShowStatus, cursorVars
  <2>2. CASE StartClose
    BY <2>2 DEF StartClose, cursorVars
  <2>3. CASE Close
    BY <2>3 DEF Close, ShowStatus, cursorVars
  <2> QED
    BY <1>2, <2>1, <2>2, <2>3
<1>3. CASE Open
  <2>1. opens' \in 0 .. MaxOpens
    BY <1>3, EditorAssumption DEF Open
  <2> QED
    BY <1>3, <2>1 DEF Open, ShowStatus, cursorVars
<1>4. ASSUME NEW u \in Mine, Type(u)
      PROVE  StateTypeOK'
  <2>1. doc' \in SUBSET Updates
    BY <1>4 DEF Type, Updates
  <2>2. previewOld' \in BOOLEAN /\ previewTimer' \in BOOLEAN /\ changeTimer' \in BOOLEAN
    BY <1>4, EditorAssumption DEF Type, Observe, SchedulePreview
  <2> QED
    BY <1>4, <2>1, <2>2 DEF Type, ScheduleSave, SavesCursor
<1>5. CASE Receive
  <2>1. Head(down) \in DownMessages
    BY <1>5 DEF Receive, MessagesOK
  <2>2. doc' \in SUBSET Updates
    BY <1>5, <2>1 DEF Receive, DownMessages
  <2>3. previewOld' \in BOOLEAN /\ previewTimer' \in BOOLEAN /\ changeTimer' \in BOOLEAN
    BY <1>5, EditorAssumption DEF Receive, Observe, SchedulePreview
  <2>4. synced' \in BOOLEAN /\ syncCompleted' \in BOOLEAN /\ badge' \in {badge, "live"}
    BY <1>5 DEF Receive, IsSync
  <2>5. saveTimer' \in BOOLEAN /\ saveLost' \in BOOLEAN
    BY <1>5 DEF Receive, IsSync, ScheduleSave, SavesCursor, CursorInv
  <2>6. UNCHANGED <<socket, opens, openTimers, lastSent, fallback, hubText>>
    BY <1>5 DEF Receive
  <2> QED
    BY <2>2, <2>3, <2>4, <2>5, <2>6
<1>6. ASSUME NEW us \in SUBSET Siblings, SiblingUpdates(us)
      PROVE  StateTypeOK'
  <2>1. doc' \in SUBSET Updates
    BY <1>6, EditorAssumption DEF SiblingUpdates, Updates
  <2>2. previewOld' \in BOOLEAN /\ previewTimer' \in BOOLEAN /\ changeTimer' \in BOOLEAN
    BY <1>6, EditorAssumption DEF SiblingUpdates, Observe, SchedulePreview
  <2> QED
    BY <1>6, <2>1, <2>2 DEF SiblingUpdates, ScheduleSave, SavesCursor
<1>7. CASE PreviewTimerFires
  BY <1>7 DEF PreviewTimerFires, cursorVars
<1>8. CASE ChangeTimerFires
  <2>1. changeTimer' \in BOOLEAN /\ lastSent' \in (SUBSET Updates) \cup {NoText}
    BY <1>8, SnapshotTypes DEF ChangeTimerFires
  <2> QED
    BY <1>8, <2>1 DEF ChangeTimerFires, cursorVars
<1>9. CASE OpenTimerFires
  <2>1. openTimers' \in Nat /\ lastSent' \in (SUBSET Updates) \cup {NoText}
    BY <1>9, SnapshotTypes DEF OpenTimerFires
  <2> QED
    BY <1>9, <2>1 DEF OpenTimerFires, cursorVars
<1>10. CASE MoveCursor \/ SaveCursor \/ SiblingSavesCursor
  <2>1. saveTimer' \in BOOLEAN /\ saveLost' \in BOOLEAN
    BY <1>10 DEF MoveCursor, SaveCursor, SiblingSavesCursor, ScheduleSave, SavesCursor, Lost
  <2>2. UNCHANGED <<socket, opens, synced, syncCompleted, badge, doc, previewOld,
                    previewTimer, changeTimer, openTimers, lastSent, fallback, hubText>>
    BY <1>10 DEF MoveCursor, SaveCursor, SiblingSavesCursor
  <2> QED
    BY <2>1, <2>2
<1>11. CASE Fallback
  BY <1>11 DEF Fallback, ScheduleSave, SavesCursor, CursorInv
<1>12. CASE HubHandles
  <2>1. Head(up) \in UpMessages
    BY <1>12 DEF HubHandles, MessagesOK
  <2>2. Head(up).kind = "text" => Head(up).body \in SUBSET Updates
    BY <2>1 DEF UpMessages
  <2>3. hubText' \in (SUBSET Updates) \cup {NoText}
    BY <1>12, <2>2 DEF HubHandles
  <2> QED
    BY <1>12, <2>3 DEF HubHandles, cursorVars
<1>13. ASSUME NEW u \in Theirs, PeerEdits(u)
       PROVE  StateTypeOK'
  BY <1>13 DEF PeerEdits, cursorVars
<1>14. CASE HubEnds
  <2>1. hubText' = NoText
    BY <1>14 DEF HubEnds
  <2>2. UNCHANGED <<socketVars, badgeVars, doc, previewVars, timerVars, fallback, saveTimer,
                    saveLost>>
    BY <1>14 DEF HubEnds, cursorVars
  <2> QED
    BY <2>1, <2>2
<1> QED
  BY <1>1, <1>2, <1>3, <1>4, <1>5, <1>6, <1>7, <1>8, <1>9, <1>10, <1>11, <1>12, <1>13,
     <1>14
  DEF Next

\* The badge shows one of the five labels of the page, and the messages on the socket
\* and the texts sent are made of updates (editor.mjs:59-128).
THEOREM EditorTypes == Spec => []EditorTypeOK
<1>1. Init => StateTypeOK
  <2>1. Init => opens \in 0 .. MaxOpens /\ previewTimer \in BOOLEAN
    BY EditorAssumption DEF Init
  <2> HIDE DEF Init
  <2>2. Init => /\ lastSent = NoText /\ hubText = NoText /\ doc = {}
                /\ socket = "connecting" /\ badge = "offline"
    BY DEF Init
  <2>3. Init => /\ synced \in BOOLEAN /\ syncCompleted \in BOOLEAN
                /\ previewOld \in BOOLEAN /\ changeTimer \in BOOLEAN
                /\ fallback \in BOOLEAN /\ saveTimer \in BOOLEAN /\ saveLost \in BOOLEAN
    BY DEF Init
  <2>4. Init => openTimers \in Nat
    BY DEF Init
  <2> QED
    BY <2>1, <2>2, <2>3, <2>4 DEF StateTypeOK
<1>2. Init => MessagesOK
  BY DEF Init, MessagesOK
<1>3. StateTypeOK /\ MessagesOK /\ CursorInv => EditorTypeOK
  BY FS_CardinalityType DEF CursorInText, StateTypeOK, MessagesOK, CursorInv, EditorTypeOK, UpMessages, DownMessages
<1> QED
  BY <1>1, <1>2, <1>3, StateStep, MessagesStep, CursorInvariant, PTL DEF Spec
=============================================================================
