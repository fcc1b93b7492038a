---------------------------- MODULE EditorClient ----------------------------
(***************************************************************************)
(* One page of the editor (web/js-src/editor.mjs) with its y-websocket     *)
(* provider, from loading on, over several websockets: the connection      *)
(* badge, the text snapshots with their two timers, the preview, and the   *)
(* cursor, which is kept in localStorage and restored by the next page.    *)
(*                                                                         *)
(* The document is the set of updates it was made of, and so is its text:  *)
(* every update inserts a character somewhere.  The selection is empty.    *)
(* The hub is the one of the module Hub at its best: it registers a        *)
(* connection at once, never drops a message and stores every update.      *)
(* Other windows of the same browser reach the page past the server, and   *)
(* save their cursors in the same place.                                   *)
(***************************************************************************)
EXTENDS Naturals, Sequences, SequencesExt, FiniteSets, FiniteSetsExt

CONSTANTS
  Mine,      \* the updates typed in this page
  Theirs,    \* the updates of other pages
  Siblings,  \* those of them other windows of this browser may have
  Nothing,   \* no update, and no cursor
  OtherCursors, \* the cursors earlier pages and other windows may save
  MarkdownPanel, \* does the page show a preview?
  MaxOpens   \* bound on the websockets opened, in the guards of Connect and Open

Updates == Mine \cup Theirs
NoText == {Nothing}   \* the null of the code; the empty text is {}

ASSUME EditorAssumption ==
  /\ Mine \cap Theirs = {} /\ Nothing \notin Updates
  /\ Siblings \subseteq Theirs /\ IsFiniteSet(Siblings)
  /\ MarkdownPanel \in BOOLEAN
  /\ OtherCursors \subseteq Nat /\ Nothing \notin Nat
  /\ MaxOpens \in Nat

VARIABLES
  socket,         \* provider.ws: "connecting", "open", "closing" until onclose,
                  \* or "waiting" to try again
  opens,          \* the number of websockets opened so far
  synced,         \* provider.synced
  syncCompleted,  \* editor.mjs:50
  badge,          \* what connStatus shows
  doc,            \* ydoc
  previewOld,     \* previewEl does not show the text
  previewTimer,   \* previewTimer is running
  changeTimer,    \* snapshotTimer is running
  openTimers,     \* the number of 250 ms timers running
  lastSent,       \* lastSnapshotSent
  cursor,         \* view.state.selection.main.head
  cursorRestored, \* editor.mjs:179
  fallback,       \* the 1500 ms timer is running
  saveTimer,      \* saveCursorTimer is running
  saved,          \* the cursor in localStorage, or Nothing
  saveLost,       \* history: the place was not saved, or is written over
  up, down,       \* the messages on the websocket, to and from the hub
  log,            \* Hub.updates
  hubText         \* Hub.latestText as far as this page sent it, or NoText

socketVars == <<socket, opens>>
badgeVars == <<synced, syncCompleted, badge>>
previewVars == <<previewOld, previewTimer>>
timerVars == <<changeTimer, openTimers, lastSent>>
cursorVars == <<cursor, cursorRestored, fallback, saveTimer, saved,
                saveLost>>
wireVars == <<up, down>>
hubVars == <<log, hubText>>
vars == <<socketVars, badgeVars, doc, previewVars, timerVars, cursorVars, wireVars,
          hubVars>>

Message(k, b) == [kind |-> k, body |-> b]

EditorTypeOK ==
  /\ socket \in {"connecting", "open", "closing", "waiting"} /\ opens \in 0 .. MaxOpens
  /\ synced \in BOOLEAN /\ syncCompleted \in BOOLEAN
  /\ badge \in {"offline", "connecting", "syncing", "live", "error"}
  /\ doc \in SUBSET Updates
  /\ previewOld \in BOOLEAN /\ previewTimer \in BOOLEAN
  /\ changeTimer \in BOOLEAN /\ openTimers \in Nat
  /\ lastSent \in (SUBSET Updates) \cup {NoText}
  /\ cursor \in 0 .. Cardinality(doc) /\ saved \in Nat \cup {Nothing}
  /\ cursorRestored \in BOOLEAN /\ fallback \in BOOLEAN
  /\ saveTimer \in BOOLEAN /\ saveLost \in BOOLEAN
  /\ up \in Seq([kind : {"step1"}, body : {Nothing}]
                  \cup [kind : {"update"}, body : Updates]
                  \cup [kind : {"text"}, body : SUBSET Updates])
  /\ down \in Seq([kind : {"step2", "update"}, body : Updates \cup {Nothing}])
  /\ log \in Seq(Updates)
  /\ hubText \in (SUBSET Updates) \cup {NoText}

\* The script has run once: the provider is connecting, and the event that said
\* so came before anyone listened.
Init ==
  /\ socket = "connecting" /\ opens = 0
  /\ synced = FALSE /\ syncCompleted = FALSE /\ badge = "offline"
  /\ doc = {} /\ previewOld = TRUE /\ previewTimer = MarkdownPanel
  /\ changeTimer = FALSE /\ openTimers = 0 /\ lastSent = NoText
  /\ cursor = 0 /\ cursorRestored = FALSE /\ fallback = TRUE
  /\ saveTimer = FALSE /\ saved \in OtherCursors \cup {Nothing} /\ saveLost = FALSE
  /\ up = << >> /\ down = << >>
  /\ log = << >> /\ hubText = NoText

-----------------------------------------------------------------------------
(***************************************************************************)
(* The websocket.                                                          *)
(***************************************************************************)

\* What the badge makes of a "status" event of the provider.
ShowStatus(status) ==
  badge' = CASE status = "connected"    -> IF syncCompleted THEN "live" ELSE "syncing"
             [] status = "connecting"   -> "connecting"
             [] status = "disconnected" -> "offline"

\* setupWS, again after a while
Connect ==
  /\ socket = "waiting" /\ opens < MaxOpens
  /\ socket' = "connecting" /\ ShowStatus("connecting")
  /\ UNCHANGED <<opens, synced, syncCompleted, doc, previewVars, timerVars,
                 cursorVars, wireVars, hubVars>>

\* An error and a close before the socket was open.
ConnectFails ==
  /\ socket = "connecting"
  /\ socket' = "waiting" /\ badge' = "error"
  /\ UNCHANGED <<opens, synced, syncCompleted, doc, previewVars, timerVars,
                 cursorVars, wireVars, hubVars>>

\* Mutant of Open: no snapshot is due when the socket comes up.
OpenWithoutTimer ==
  /\ socket = "connecting" /\ opens < MaxOpens
  /\ socket' = "open" /\ opens' = opens + 1
  /\ ShowStatus("connected")
  /\ up' = <<Message("step1", Nothing)>>
  /\ UNCHANGED <<synced, syncCompleted, doc, previewVars, timerVars,
                 cursorVars, down, hubVars>>

\* onopen: the two listeners of "status", then Step1.
Open ==
  /\ socket = "connecting" /\ opens < MaxOpens
  /\ socket' = "open" /\ opens' = opens + 1
  /\ ShowStatus("connected")
  /\ openTimers' = openTimers + 1
  /\ up' = <<Message("step1", Nothing)>>
  /\ UNCHANGED <<synced, syncCompleted, doc, previewVars, changeTimer, lastSent,
                 cursorVars, down, hubVars>>

\* ws.close() after 30 s without a message, or a close the server begins.  Until
\* onclose nobody is told; a socket that is closing delivers no message, and what
\* the hub still takes in of the page's it may as well have taken in before.
StartClose ==
  /\ socket = "open"
  /\ socket' = "closing" /\ up' = << >> /\ down' = << >>
  /\ UNCHANGED <<opens, badgeVars, doc, previewVars, timerVars, cursorVars,
                 hubVars>>

\* onclose of a socket that was open, all at once if the connection broke: what is
\* on the way is lost.
Close ==
  /\ socket \in {"open", "closing"}
  /\ socket' = "waiting" /\ synced' = FALSE /\ ShowStatus("disconnected")
  /\ up' = << >> /\ down' = << >>
  /\ UNCHANGED <<opens, syncCompleted, doc, previewVars, timerVars, cursorVars,
                 hubVars>>

-----------------------------------------------------------------------------
(***************************************************************************)
(* The editor.                                                             *)
(***************************************************************************)

\* Mutant of SavesCursor: only a selection is saved, not what an edit makes of it.
SavesSelections(docChanged, selectionSet) == selectionSet

\* After which changes of the view the cursor is to be saved.
SavesCursor(docChanged, selectionSet) == docChanged \/ selectionSet

\* cursorPersistPlugin; saveLost is about the place saved since
ScheduleSave(docChanged, selectionSet) ==
  /\ saveTimer' = (saveTimer \/ SavesCursor(docChanged, selectionSet))
  /\ saveLost' = (saveLost /\ ~SavesCursor(docChanged, selectionSet))

\* Mutant of Restored: a place behind the text is selected.
RestoredAsSaved(text) == IF saved = Nothing THEN Cardinality(text) ELSE saved

\* Where restoreCursor puts the cursor in a text: at the saved place or, if there
\* is none, at the end, but never behind it.
Restored(text) ==
  LET end == Cardinality(text)
  IN  IF saved = Nothing THEN end ELSE Min({saved, end})

\* Mutant of RestoreCursor: every sync restores the cursor.
RestoreAgain(text, here) ==
  /\ cursor' = Restored(text)
  /\ cursorRestored' = TRUE

\* restoreCursor, once for a page; the cursor is here otherwise
RestoreCursor(text, here) ==
  /\ cursor' = IF cursorRestored THEN here ELSE Restored(text)
  /\ cursorRestored' = TRUE

\* Mutant of SchedulePreview: the call at load is taken for enough.
SchedulePreviewAtLoad(changed) == UNCHANGED previewTimer

\* schedulePreview, observing the text
SchedulePreview(changed) ==
  previewTimer' = (previewTimer \/ (MarkdownPanel /\ changed))

\* What a change of the text schedules: the observers of ytext.
Observe(changed) ==
  /\ SchedulePreview(changed)
  /\ changeTimer' = (changeTimer \/ changed)
  /\ previewOld' = (previewOld \/ changed)

PreviewTimerFires ==
  /\ previewTimer /\ previewTimer' = FALSE
  /\ previewOld' = FALSE
  /\ UNCHANGED <<socketVars, badgeVars, doc, timerVars, cursorVars, wireVars,
                 hubVars>>

\* The user types: the provider sends the update if it can, the change is
\* observed and a snapshot scheduled.
Type(u) ==
  /\ u \notin doc
  /\ doc' = doc \cup {u}
  /\ Observe(TRUE)
  /\ cursor' = cursor + 1
  /\ ScheduleSave(TRUE, TRUE)
  /\ up' = IF socket = "open" THEN Append(up, Message("update", u)) ELSE up
  /\ UNCHANGED <<socketVars, badgeVars, openTimers, lastSent, cursorRestored,
                 fallback, saved, down, hubVars>>

MoveCursor ==
  /\ \E place \in 0 .. Cardinality(doc) : place # cursor /\ cursor' = place
  /\ ScheduleSave(FALSE, TRUE)
  /\ UNCHANGED <<socketVars, badgeVars, doc, previewVars, timerVars,
                 cursorRestored, fallback, saved, wireVars, hubVars>>

\* What a restored page notes of the place that is in the storage when its own is
\* refused or written over.
Lost(place) == cursorRestored /\ place # cursor

\* saveCursor.  The storage may refuse, which is ignored.
SaveCursor ==
  /\ saveTimer /\ saveTimer' = FALSE
  /\ \/ saved' = cursor /\ saveLost' = FALSE
     \/ saveLost' = Lost(saved) /\ UNCHANGED saved
  /\ UNCHANGED <<socketVars, badgeVars, doc, previewVars, timerVars, cursor,
                 cursorRestored, fallback, wireVars, hubVars>>

\* saveCursor of another window: the key is the document's, not the window's.
SiblingSavesCursor ==
  /\ saved' \in OtherCursors /\ saveLost' = (~saveTimer /\ Lost(saved'))
  /\ UNCHANGED <<socketVars, badgeVars, doc, previewVars, timerVars, cursor,
                 cursorRestored, fallback, saveTimer, wireVars, hubVars>>

\* The 1500 ms are over.
Fallback ==
  /\ fallback /\ fallback' = FALSE
  /\ RestoreCursor(doc, cursor)
  /\ ScheduleSave(FALSE, ~cursorRestored)
  /\ UNCHANGED <<socketVars, badgeVars, doc, previewVars, timerVars, saved,
                 wireVars, hubVars>>

\* The first Step2 on a socket is what the provider waits for.
IsSync(m) == m.kind = "step2" /\ ~synced

\* A message of the hub: the update is applied and observed if it is new, before
\* or behind the cursor; the provider emits "sync".
Receive ==
  LET m == Head(down)
      new == {m.body} \ (doc \cup {Nothing})
      sync == IsSync(m)
  IN  /\ down # << >>
      /\ down' = Tail(down)
      /\ doc' = doc \cup new
      /\ Observe(new # {})
      /\ synced' = (synced \/ sync)
      /\ syncCompleted' = (syncCompleted \/ sync)
      /\ badge' = IF sync THEN "live" ELSE badge
      /\ \E here \in IF new = {} \/ cursor = 0 THEN {cursor} ELSE {cursor, cursor + 1} :
           IF sync THEN RestoreCursor(doc', here)
           ELSE cursor' = here /\ UNCHANGED cursorRestored
      /\ ScheduleSave(new # {}, sync /\ ~cursorRestored)
      /\ UNCHANGED <<socketVars, openTimers, lastSent, fallback, saved, up,
                     hubVars>>

\* Mutant of SiblingUpdates: another window's Step2 is taken for the hub's.
SiblingSyncs(us) ==
  /\ ~(us \subseteq doc)
  /\ doc' = doc \cup us
  /\ Observe(TRUE)
  /\ synced' = TRUE /\ syncCompleted' = TRUE /\ badge' = "live"
  /\ RestoreCursor(doc', cursor)
  /\ ScheduleSave(TRUE, ~cursorRestored)
  /\ UNCHANGED <<socketVars, openTimers, lastSent, fallback, saved, wireVars,
                 hubVars>>

\* _bcSubscriber: another window answers this one's Step1, or sends an edit.  That
\* is no sync, and as the provider is its origin it is not sent on to the hub.
SiblingUpdates(us) ==
  LET new == us \ doc
  IN  /\ new # {}
      /\ doc' = doc \cup new
      /\ Observe(TRUE)
      /\ cursor' \in IF cursor = 0 THEN {0} ELSE cursor .. cursor + Cardinality(new)
      /\ ScheduleSave(TRUE, FALSE)
      /\ UNCHANGED <<socketVars, badgeVars, openTimers, lastSent, cursorRestored,
                     fallback, saved, wireVars, hubVars>>

\* Mutant of SendTextSnapshot: the text is noted as sent before the socket is
\* looked at.
NoteTextSnapshot ==
  /\ lastSent' = doc
  /\ up' = IF socket = "open" /\ doc # lastSent THEN Append(up, Message("text", doc))
           ELSE up

\* sendTextSnapshot
SendTextSnapshot ==
  \/ /\ socket = "open" /\ doc # lastSent
     /\ up' = Append(up, Message("text", doc))
     /\ lastSent' = doc
  \/ /\ socket # "open" \/ doc = lastSent
     /\ UNCHANGED <<up, lastSent>>

ChangeTimerFires ==
  /\ changeTimer /\ changeTimer' = FALSE
  /\ SendTextSnapshot
  /\ UNCHANGED <<socketVars, badgeVars, doc, previewVars, openTimers,
                 cursorVars, down,
                 hubVars>>

OpenTimerFires ==
  /\ openTimers > 0 /\ openTimers' = openTimers - 1
  /\ SendTextSnapshot
  /\ UNCHANGED <<socketVars, badgeVars, doc, previewVars, changeTimer,
                 cursorVars, down,
                 hubVars>>

-----------------------------------------------------------------------------
(***************************************************************************)
(* The hub.                                                                *)
(***************************************************************************)

\* Mutant of InitialSync: an empty document is answered with nothing.
UpdatesOnly ==
  [i \in 1 .. Len(log) |-> Message(IF i = 1 THEN "step2" ELSE "update", log[i])]

\* sendInitialSync: the first update as the Step2, the others as Updates.
InitialSync ==
  IF log = << >> THEN <<Message("step2", Nothing)>>
  ELSE [i \in 1 .. Len(log) |-> Message(IF i = 1 THEN "step2" ELSE "update", log[i])]

\* handleFrame on the next message of the page
HubHandles ==
  LET m == Head(up)
  IN  /\ up # << >>
      /\ up' = Tail(up)
      /\ \/ /\ m.kind = "step1"
            /\ down' = down \o InitialSync
            /\ UNCHANGED hubVars
         \/ /\ m.kind = "update"
            /\ log' = Append(log, m.body)
            /\ UNCHANGED <<down, hubText>>
         \/ /\ m.kind = "text"
            /\ hubText' = m.body
            /\ UNCHANGED <<down, log>>
      /\ UNCHANGED <<socketVars, badgeVars, doc, previewVars, timerVars,
                     cursorVars>>

\* handleFrame on an update of another browser, which the page is sent if it is
\* connected.
PeerEdits(u) ==
  /\ u \notin Range(log)
  /\ log' = Append(log, u)
  /\ down' = IF socket = "open" THEN Append(down, Message("update", u)) ELSE down
  /\ UNCHANGED <<socketVars, badgeVars, doc, previewVars, timerVars,
                 cursorVars, up, hubText>>

\* The hub's last client left; the next one will find a hub without a text.
HubEnds ==
  /\ socket # "open" /\ hubText # NoText
  /\ hubText' = NoText
  /\ UNCHANGED <<socketVars, badgeVars, doc, previewVars, timerVars,
                 cursorVars, wireVars, log>>

-----------------------------------------------------------------------------
Next ==
  \/ Connect \/ ConnectFails \/ Open \/ StartClose \/ Close
  \/ (\E u \in Mine : Type(u)) \/ Receive
  \/ (\E us \in SUBSET Siblings : SiblingUpdates(us)) \/ PreviewTimerFires
  \/ ChangeTimerFires \/ OpenTimerFires
  \/ MoveCursor \/ SaveCursor \/ SiblingSavesCursor \/ Fallback
  \/ HubHandles \/ (\E u \in Theirs : PeerEdits(u)) \/ HubEnds

Spec == Init /\ [][Next]_vars

\* While messages wait on an open socket or timers of the text are due, one or another of
\* them has its turn: that is less than fairness of each, and as nobody types for ever it
\* is enough.  Sockets need not open, stay open or be closed in the end.
Fairness ==
  WF_vars(Receive \/ HubHandles \/ ChangeTimerFires \/ OpenTimerFires \/ PreviewTimerFires)

FairSpec == Spec /\ Fairness

-----------------------------------------------------------------------------
\* From its onopen to its onclose, and no longer, the badge speaks of a connection: it
\* says "syncing" until the hub's first sync of the page, and "live" from then on,
\* whatever other windows, late messages and errors come between (editor.mjs:59-82).
\* That takes in a socket that is closing, on which edits are already dropped.
BadgeFollowsSocket ==
  /\ socket \in {"open", "closing"}
       => badge = IF syncCompleted THEN "live" ELSE "syncing"
  /\ badge \in {"syncing", "live"} => socket \in {"open", "closing"}

\* A text not yet sent is sent by a timer that runs: the timer that found the
\* socket closed is made up for when it opens (editor.mjs:105-128).
UnsentTextIsScheduled ==
  (socket = "open" /\ doc # lastSent) => (changeTimer \/ openTimers > 0)

\* When nobody edits any more the preview comes to show the text, whoever made the
\* last edit and whether or not a timer ran then (editor.mjs:88-98).
PreviewFollows == MarkdownPanel => <>[]~previewOld

\* A page whose socket stays open becomes "live", for an empty document too, which
\* has no update to send as the Step2 (hub.go:237-241).
BadgeTurnsLive == (<>[](socket = "open")) => <>[](badge = "live")

\* While the first socket stays open, the hub has the text of the page in the end:
\* what a departure then saves is what the page showed (editor.mjs:100-102).
FirstSocketDeliversText ==
  (<>[](socket = "open" /\ opens = 1)) => <>[](hubText = doc)

\* Once restored, by whichever of the sync events and the timer came first, the
\* cursor is where the user left it, shifted by the edits before it: no later
\* sync of a reconnect, and not the timer, takes it away (editor.mjs:179-203).
CursorStays ==
  [][cursorRestored
       => \/ cursor' \in cursor .. cursor + (Cardinality(doc') - Cardinality(doc))
          \/ MoveCursor]_vars

\* From then on its place is saved, or about to be, edits of others included
\* (editor.mjs:157-162), unless the storage refused it or another window, which
\* shares the key (editor.mjs:130), saved its own place after it.
CursorIsSaved == cursorRestored => (saved = cursor \/ saveTimer \/ saveLost)

-----------------------------------------------------------------------------
(***************************************************************************)
(* What the page says, and the code does not do.                           *)
(***************************************************************************)

\* "WebSocket connected and document synced" (editor.mjs:62 and 80): a page that
\* is live, on an open socket and with nothing under way, shows the document
\* everyone else has.
LiveMeansShared ==
  (badge = "live" /\ socket = "open" /\ up = << >> /\ down = << >>)
    => doc = Range(log)
=============================================================================
