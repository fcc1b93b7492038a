# mpnotepad: TLA+ models, checks and proofs

mpnotepad is a shared notepad. A Go server keeps documents in SQLite and relays
Yjs updates between the browsers that have a document open; a browser runs
CodeMirror on a Yjs document and a `y-websocket` provider. This directory models
the part of the program where steps of several goroutines, browsers and requests
meet, checks it with TLC on small instances, and proves the central properties
with TLAPS for every value of the constants.

Paths below are relative to the repository (`src/` in `PROJECT.json`).

## 1. The system

| Component | State | Operations | Talks to |
|---|---|---|---|
| **Hub** (`internal/server/hub.go`, one goroutine per open document) | `clients`, the log `updates`, `dirty`, `latestText`/`hasText`, `lastSavedText`/`lastSavedLoaded`, channels `register`(8), `unregister`(8), `incoming`(64) | the select loop `run`, `handleFrame`, `sendInitialSync`, `broadcastExcept`, `deliver`, `flush`, `snapshotVersion`, `closeAllClients` | connections by channels, store by calls, registry by `onEmpty` |
| **Connection** (`wsClient` in `hub.go`, `ws.go`: two goroutines each) | `send`(256), the websocket | `readPump`, `writePump` | hub, browser |
| **Registry and server** (`server.go`, `ws.go`) | `hubs` (a `sync.Map`), two contexts | `handleWS`, `acquireHub`, the `onEmpty` callback, `Run` | hubs, store |
| **Store** (`internal/store`) | tables `documents`, `document_versions`, `document_sessions` | one SQL statement per call | all |
| **Wire format** (`yjswire.go`) | none | varints, message and stored-state framing | hub |
| **Editor** (`web/js-src/editor.mjs`, and in the bundle the `y-websocket` provider) | badge, cursor state, preview, timers, `syncCompleted`; the provider's socket and `synced` | provider callbacks, text snapshots, preview, cursor | hub by websocket, other windows by `BroadcastChannel` |
| **History panel** (`versions.go`, `editor.mjs` 243-370) | list of versions, label, view, selected text, copy button | list, view, copy | store, by `fetch` |
| **Documents and settings** (`handlers.go`, `documents.go`, `editor.mjs` 205-241 and 372-402) | row of `documents`; title field and form of a page | create, view, settings, password | store |
| **Sessions** (`session.go`) | rows of `document_sessions`, cookies | login, expiry, deletion on a new password | store |
| **Start-up** (`main.go`, `config.go`, `ulidgen.go`, `store.go`) | configuration | read, open, listen | — |

How they interact. A browser opens `/d/{id}/ws`. `handleWS` reads the document's
row, checks access, gets or makes the hub (`acquireHub`), upgrades, puts the
client in `hub.register`, starts `writePump` and becomes `readPump`. The browser
sends Sync.Step1; the hub answers with its whole log, the first stored update as a
Sync.Step2 and each of the others as a Sync.Update. From then on a frame with an update is appended to the log and passed to
the other clients, awareness is only passed on, and a "text snapshot" replaces
`latestText`. Every five seconds a dirty hub writes the whole log to
`documents.yjs_state`. When a client leaves, its send channel is closed and the
latest text may become a row of `document_versions`; when it was the last, the
hub flushes, deletes itself from the map and returns.

### Behaviours that are hard

* Go's `select` takes any ready case, so what one connection put into two
  channels (its registration, its Step1, its edits, its departure) may come out
  in an order the connection never had.
* The initial sync of a client and its entry into `clients` are two events.
* Full channels: `deliver` and `broadcastExcept` drop, `readPump` blocks.
* A hub is looked up in one place, registered with in another, and may end in
  between; the stored state is read earlier still.
* Writes can be refused; the process may be stopped in order or killed.
* In the browser: timers racing syncs, closes and reconnects, edits typed while
  offline, edits that come from another window before the hub's, answers to
  `fetch` out of order or never, a page's captured settings.
* A handler is several SQL statements with no transaction around them: another
  request reads and writes between the check of access, the change of the
  password and the deletion of the sessions.
* Bytes: numbers at the width of an integer, frames and stored blobs cut short.

`PROJECT.json` lists each hazard at its line, with the properties that look at
it, or why none does.

### What makes each component correct

* **Hub**: every update taken in is in the log once, after everything its author
  had seen; the store only ever gets the whole log and a clean hub has stored it;
  a served client lacks nothing; a hub nobody uses ends; nothing is sent on a
  closed channel.
* **Version history**: no row repeats the one before, none loses more than half
  of its text, the text believed saved is the newest row, the last text is kept.
* **Registry**: one hub per document runs at a time, all open tabs share it, and
  what was stored stays stored over hubs, stops and restarts.
* **Wire format**: reading is the inverse of writing; damaged input is refused.
* **Editor**: the badge follows the socket; the hub gets the text the page shows; the
  cursor is restored once, inside the text, and saved; the preview follows the text.
* **Panel**: list, label, highlight, text and what Copy takes belong together;
  nothing is "Loading..." for ever.
* **Settings**: a form changes what its user touched; a page that was told of its own
  choice does not undo it. **Sessions**: a new password ends the old sessions, and nothing but a
  save that chose a password changes it.

## 2. Modules

| Module | Lines of code it models | What it is |
|---|---|---|
| `HubVersions` | `hub.go` 270-307, 142-153; `store/versions.go` | `snapshotVersion`, its cache, text frames, the rows of one document; hubs follow one another |
| `Hub` | `hub.go`, `ws.go` 48-69 | one hub with its connections' goroutines, channels and buffers; contains `HubVersions` by `INSTANCE` |
| `DurableLog` | the promise of `hub.go` and README.md:126 | abstract specification: a log that grows, a durable beginning of it, readers that know a part of it |
| `HubRegistry` | `server.go` 120-168, `ws.go`, the ends of `hub.go` | many hubs of one document, the requests that find or make them, stop and restart |
| `YjsWire` | `yjswire.go`; `hub.go` 155-198 | varints, byte strings, the messages of a sync, the kinds of frames, the stored list of updates |
| `EditorClient` | `editor.mjs` 50-203; the provider, `editor.js` 9403-9541, 9602-9617 and 9640-9645 | one page over several websockets and beside other windows: badge, snapshots, preview, cursor, with a well-behaved hub |
| `HistoryPanel` | `editor.mjs` 243-370, `versions.go`, `store/versions.go` 61-87 | the panel of one page and its requests; extends `HubVersions`, whose table it reads |
| `Settings` | `editor.mjs` 205-241 and 372-402, `handlers.go`, `session.go`, `documents.go` | the row and the sessions of one document, the handlers statement by statement, the pages of several browsers |
| `MCHub`, `MCHubRegistry`, `MCYjsWire`, `MCEditorClient`, `MCHistoryPanel`, `MCSettings` | — | values of the constants for TLC |
| `HubVersionsProofs`, `HubProofs`, `HubLogProofs`, `HubRegistryProofs`, `YjsWireProofs`, `EditorClientProofs`, `HistoryPanelProofs`, `SettingsProofs` | — | theorems and proofs |

`Hub` and `HubRegistry` look at the same goroutine from two distances. `Hub` is
one hub in full detail, from the moment it is in the map; `HubRegistry` keeps of
a hub its phase, log, dirty flag and incoming updates, and adds what `Hub` takes
for granted: where the seed comes from and which hub a request finds. `YjsWire`
says when a frame is one of `Hub`'s kinds (`Kind`) and what peers are sent for it
(`ForPeers`). `EditorClient` is the other end of a connection of `Hub`, which it
reduces to a hub that registers at once and drops nothing, so that what goes wrong
there is the page's own doing. `HistoryPanel` runs beside `HubVersions`: the rows it
lists are those the hubs write. `Settings` meets the others in the row of the
document only, of which the hub writes another column.

### Correspondence

Variables have the names of the fields they model. In `Hub`:

* `pc` is where the hub goroutine is. Inside `select` each `case` body is one
  action, because nobody else touches the hub's fields. There is one exception:
  `sendInitialSync` is a loop of `deliver` calls while `writePump` empties the
  same channel, so each `deliver` is a step (`SyncDeliver`), which decides how
  many updates get through.
* `handler[c]` is the progress of `handleWS`/`readPump` of one connection;
  `writing` are the running `writePump`s; `send`, `closed` the send channels.
* `TakeUnregister` is the whole case: close, snapshot, and for the last client
  flush, `onEmpty` and return. `Shutdown` is the whole `<-ctx.Done()` case.
* An element of `Edits` is one Yjs update; the merging of updates by Yjs is
  outside the server. `relay` is awareness and unknown message types, `ignored`
  whatever `handleFrame` drops, `text` a text snapshot.
* `have`, `basis`, `sync` are history variables: what each browser's document
  holds, what an edit's author had when typing it, and how well a client was
  served. No action of the code reads them.
* A panic (send on a closed channel) ends the process: `pc = "panicked"`.

`HubVersions` keeps the three results of the query for the newest row (no row,
a row, an error) and both results of the insert; `LoadMayFail` and `InsertMayFail`
say which errors an instance has. `Size` stands for `len`, the
size in bytes the guard of line 292 compares.

In `HubRegistry`, `GetDocument` is the read of the row at ws.go:20, `Load`,
`LoadOther` and `StoreNew` the two looks at the `sync.Map`. The departure of a
hub's last client is three steps (`TakeUnregister`, `FinalFlush`, `OnEmpty`),
because other requests run between them. `Restart` can happen in any state: it
is the end of an ordered stop as well as a kill. `stale[h]` is a history variable:
hub `h` was made from a state that was no longer the stored one.

`YjsWire` is operators on byte strings; its only variable is
the list `updates` that TLC grows byte by byte, so that every list of short
strings is looked at, `buf` being the last. The sizes are parameters: 7 bits a
byte and 64-bit integers in the code. What falls off the top of an integer falls
off here (`% Pow(2, Width)`). The length of a string is assumed to fit the integers and the
bytes of a stored length (`MaxLen` in `WireAssumption`), as it does for every update the
hub's read limit of 1 << 20 bytes lets in. What recurses (`VarUint`, `Denoted`, `Number`,
`Updates`, `EncodeStoredState`, `Pow`) is a recursive function, so that it can be proved about.

In `EditorClient` an update inserts one character, so the length of a text is the
number of its updates. `Open`, `Close` and `ConnectFails` are the provider's
`onopen`, `onclose` and `onerror` with the listeners they call. `StartClose` is
`ws.close()` of a socket that was silent for 30 s, or the beginning of a close from the
server: the socket is no longer open, nothing is sent or received on it, and nobody is told until
`Close`. A connection that breaks goes to `Close` at once. What the page had sent before a `StartClose`
is dropped; the behaviours in which the hub still gets it are those in which it got it
before. `synced` is the
provider's, `syncCompleted` the page's. A timer that is restarted is one timer
(`changeTimer`, `saveTimer`), the 250 ms timers of `status` events are not and are
counted. Several listeners of one event are one step, as JavaScript runs them.
`ShowStatus` is the listener of "status", `Observe` what the observers of the text
schedule, `IsSync` the test that makes the provider emit "sync". `SiblingUpdates` is
`_bcSubscriber`: another window answers the Step1 of this one or passes an edit on.
Its origin is the provider, so `_updateHandler` does not send it to the hub, and it
is no sync (`emitSynced` is false). `saved` is the entry of `localStorage`, whose key is
the document's: `SiblingSavesCursor` is another window writing it, at any time and any
place, and `SaveCursor` may be refused by the storage, which the code ignores. The history variable
`saveLost` says that since this page last scheduled a save, its place was refused or
overwritten. `ScheduleSave` is `cursorPersistPlugin`, after every step that changes the
text or sets the selection.

In `HistoryPanel` a function that awaits is two actions, up to its `await` and from
there on: `LoadHistoryList` and `ListArrives`, `LoadHistoryVersion` and `TextArrives`,
`Copy` and `CopyEnds`. `RequestFails` is the `catch`, of a refusal, a failed query or a
lost connection. `Answer` reads the table at a moment of its own between the two, while
`HubSteps` go on. A row is known by its id; `created` is its second, which several
rows may share. The page highlights the entries whose text contains the label of the
chosen row (editor.mjs:330): always those of its second, and others where the label of
one second is that of another or part of it, as `1/2/2025, 3:00:00 PM` is of
`11/2/2025, 3:00:00 PM`. `LabelFound` is this test, and the constant `LabelIn` says for which pairs of seconds it
succeeds, as the locale and the time zone have it. `hurried` is
a history variable: the last click came while a text was on its way.

In `Settings` a request is a record that goes through `sent`, `read` (the row was
read), `granted` (access was checked), `updated` (the row is written, the sessions are
not deleted yet) and an answer; each is one SQL statement, and `Breaks` may end it
before any of them, as a cancelled context or a failing statement does. `seen` is the
row a handler read. The form keeps what was typed when it is closed, as the page
does. `touched`, `basis`, `wrote`, `checked` and `spared` are history: which fields
were changed since the form was filled in and from what, which panel the page was
told it wrote, the password a session was made for, and the sessions that the last
change of the password is not asked to end. A password and its hash are one value;
a title of blanks is the empty one.

Modules carry, next to an action, its mutants ("Mutant of ..."): the same action
with a plausible mistake. No specification uses them; replacing the action by
its mutant breaks the property `PROJECT.json` pairs it with, which shows that the
property depends on the code.

## 3. Runs

Passing runs:

| Run | Instance | Question |
|---|---|---|
| `versions` | 4 texts, 3 rows, lists of 2, 3 requests, 1 copy, inserts may fail, fairness | Is the text believed saved always the newest row; do neighbouring rows differ and keep half of the text, over several hubs? Do the panel's list, label, text and copy belong together in any order of answers, and does every "Loading..." end? |
| `settings` | 2 browsers, 2 titles, 2 passwords, 4 events | Does a new password end the old sessions; is the password what a save chose; does a form change only what was touched; does a page keep a choice it was told is saved? |
| `hub` | 2 connections, 2 edits, channels of 2 | Is the log causal, is the store given only whole logs, is every broadcast to an open channel, does a served client lack nothing; and does the hub implement `DurableLog`? |
| `hub_slow` | 2 connections, 1 edit, texts, relays, ignored frames, channels of 1, any query may fail to read | Types, with full buffers and every kind of frame, of which only updates enter the log; is the last text taken in kept, whatever ends the hub? |
| `hub_live` | 2 connections, 1 edit, fairness | Do updates reach fully synced clients and the store; does an abandoned hub end? |
| `registry` | 2 connections, 2 edits, 2 hubs, fairness | Does one hub run at a time; does a hub made from the stored state keep it; is every update taken in stored? |
| `wire` | all lists of byte strings up to 5 bytes, of 3 bits each | Does reading undo writing; do peers read what the log keeps; is what is cut refused; does a stored state, a damaged one too, survive? |
| `editor` | 1 own and 1 foreign update, which another window may have too, 2 websockets, preview, fairness | Does the badge say "syncing" and "live" from `onopen` to `onclose` only, and does it turn live; does the preview follow; does every text get to the hub; is the cursor restored once, in the text, and saved unless refused or overwritten? |

Deadlock is not checked: a hub that has returned with all its connections gone is
where the system rests, and a stopped or dead process takes no step.

Runs that find a disagreement between the code and what it says of itself (one
property each; the quotes are beside the properties and in `findings`):

| Run | What TLC shows |
|---|---|
| `hub_deliver` | Register, Step1 and departure of a client are queued; the departure is taken before the Step1; the answer goes to a closed channel: panic. A second client keeps the hub running. |
| `hub_reload` | The last edit is still in `incoming` when the departure of its author is taken; the hub returns without it. |
| `registry_stored` | A request reads the row; the old hub flushes and leaves; the request makes a hub from the older state, whose next flush drops what was stored. |
| `editor_offline` | An update typed while the socket is connecting, closing or closed is never sent: the provider sends only on an open socket, and would offer the rest in answer to a Sync.Step1, which the hub never sends. The badge says "live". |

More facts are reachable in the same models and have no run of their own:

* A client whose Step1 is taken before its registration (hub.go:165) gets neither in
  the initial sync nor by a broadcast an update taken between the two, and misses it
  as long as its socket is open, though README.md:3 promises edits "in real time".
  `FullClientsConverge` is stated for clients that were members when synced.
* A departure taken before its registration is ignored and the registration then
  counts for ever (hub.go:109): such a hub never empties. `DepartedClientsEndHub`
  is therefore stated for clients that were registered when they left.
* The initial sync stops at the first update that finds the send buffer full
  (hub.go:246), though hub.go:232 says "full document state". Updates are never
  merged, so a document with more than 256 can arrive in part on every load.
* A hub may return between `acquireHub` and the registration (ws.go:66); that
  connection stays open on a hub nobody runs, and the next tab gets another one.
* When the newest row cannot be read and the insert works, `snapshotVersion`
  may repeat that row, though its comment says it skips identical text;
  `NoDuplicateRows` holds while the newest row can be read.
* The error of the last flush is dropped (hub.go:114): `refused` in `Hub`.
* `lastSnapshotSent` outlives the hub (editor.mjs:109): after a reconnect to a new
  hub an unchanged text is not sent, though editor.mjs:124-125 says every session
  produces a checkpoint. `FirstSocketDeliversText` is stated for the first socket.
* "sync" is emitted after the Step2, which carries the first stored update only:
  the cursor is cut to the length of that update, not put where it was "once the
  Yjs document has finished its initial sync" (editor.mjs:177-178). If the 1500 ms
  are over first it goes to the start of an empty text, and no sync repositions it,
  as editor.mjs:199-200 says one would. Either way the place is then saved.
* After a reconnect the badge says "live" before the new sync (editor.mjs:61), and it says
  "live" on a socket that is closing, between `ws.close()` and `onclose`
  (editor.js:9643 and 9475-9503), while what is typed is not sent. `BadgeFollowsSocket`
  says what it does show: that there was an `onopen` and no `onclose` yet, and whether the
  page was ever synced.
* A text still in `incoming` when its author's departure is taken is not in the snapshot
  of that departure (hub.go:112), and in none if the hub then ends.
* Two windows of a browser on one document save their cursors under one key
  (editor.mjs:130): a page is restored to the place the last of them saved.
* What another window hands over is not sent to the hub by this one, whose socket may
  be open while that window's is not; the update reaches the server when the window
  that typed it sends it, or never.
* A page that is alone hears nothing from the hub, so the provider closes its socket
  after 30 s (editor.js:9642) and its hub ends; the next socket makes another.
* History panel, for a user who does not wait: with two texts on the way the label can
  name another snapshot than the text shown (editor.mjs:314 and 322); a text that
  arrives after a refresh is shown under "Select a snapshot to view"; when the second
  of two requests fails, its error is shown while Copy still copies the first text.
  With the entry of the text shown, all entries whose text contains its label are
  highlighted (editor.mjs:330): those of the same second, and in some locales others. The mark of a
  copy may appear when another snapshot is selected (editor.mjs:360).
* Settings: leaving the title field sends the panel that the page captured, and its
  title, over newer ones of other pages (editor.mjs:217), and over the page's own new
  panel if that is written but its answer not there, or the page is still reloading.
  `PanelIsOwn` is about the pages that were told, and have not begun to reload. An answer to settings.json
  that comes late erases what was typed meanwhile (editor.mjs:233-236). When it fails,
  the form is left blank, and a save writes the blank title and the panel off. A
  password of blanks reloads the page as if it were set (editor.mjs:387), and the
  server ignores it (handlers.go:227).
* Sessions: a login that had read the row before a change of the password makes a
  session that outlives it; one that logs in with the new password before the
  deletion loses its session. When the deletion fails, this is only logged
  (handlers.go:247-249). Two saves of passwords at once each delete the session of
  the other. Who sets a password without a session, as on a document that had none,
  has to log in. A websocket that is open stays so when its session ends, because
  access is checked when it is opened (ws.go:37).

### Bounds

`RegisterCap`, `UnregisterCap`, `IncomingCap`, `SendCap` are the code's channel
capacities (8, 8, 64, 256), made 1 or 2: a case needs a channel that is empty,
partly filled and full, and the guards compare with nothing but the capacity.
Two connections give every pair of author and reader, and a client that stays
while another goes; in `HubRegistry` they give a hub that is left by one while the
other finds, misses or makes the next. Two edits give an order and a dependency between them.
A connection is used once: a browser that reconnects is another connection.
`MaxVersions` and `MaxHubs` bound the rows and the hubs made; `MaxVersions` is above what
`Hub` can write, so it cuts nothing there. Symmetry over connections is used only
in runs without liveness. The four texts of `versions` have 0, 1, 3 and 6
bytes: an empty one, one on each side of one half, and one half itself. Loads of the
newest row work in that run (`LoadMayFail` is FALSE); `CacheCorrect` holds with failing
ones. One copy is made, so that the timers of several never meet. The label of
second 1 is part of that of second 2.

Three requests of the panel give a list, a text of it, and one more of either kind
that overtakes or is overtaken; with three rows and lists of two there is a row
that a list leaves out and one that comes after it. In `settings` two browsers make
every pair of handlers, and a browser has at most one request of each kind under
way. `MaxEvents` counts what users do and what goes wrong; four are enough for a
form that is filled in, edited and saved beside a login, an expiry, a title or a failure of the other
browser. The first state is a new document or one with a password, with forms
opened or not, so that no events are spent on getting there. Symmetry over browsers and passwords is sound:
no property there is about fairness. The proofs need none of these bounds.

`wire` has 2 bits a byte and integers of 5 bits, so that the last byte of a number
is only half used, as the tenth is in the code (70 bits for 64); lengths of stored
updates have two bytes, so the order of bytes counts. Five bytes make frames with
one number too long, too short, cut, and followed by something. `editor` needs one
update of each side: what was typed before, during and after a sync. Two sockets
give a reconnect; when the second is closed the provider tries no third (`MaxOpens`). A cursor that another page or window saved at 2 is behind an
empty text, behind one of one character, and in one of two. The proofs below need none of these bounds, and
`registry`'s hold for any number of requests and hubs.

### Fairness

`Hub!Fairness`: Go's `select` picks uniformly among ready cases, so a case that
is ready again and again is taken: strong fairness of registrations, departures,
incoming frames and the tick. `Tick(TRUE)` says in addition that not every write
is refused for ever, which is an assumption on SQLite, not on this code. The loop
of `sendInitialSync` never blocks and `handleWS` has no wait between `acquireHub`
and registering but the upgrade: weak fairness. `WriteNext` is weakly fair
because a write is given ten seconds and then fails. Nothing is assumed of
browsers: they need not type, answer or leave, and `WriterReturns`, `ReadFails`,
`UpgradeFails` and `Shutdown` may never happen. `HubRegistry!Fairness` asks for
the last flush and `onEmpty` of an emptied hub, and the same of the tick.
`EditorClient!Fairness`: as long as a timer of the text or the preview is due, or a message waits
on a socket that is open, one or another of them has its turn; this is less than fairness of each timer
and of each direction, and enough, because every update is typed once. Sockets need not open, stay open or end their
closing, cursors need not be saved, nobody needs to type;
`BadgeTurnsLive` and `FirstSocketDeliversText` say what follows if one stays open.
`HistoryFairness`: each request ends, with an answer, an error or a lost connection,
as `fetch` does, and the timer of the copy button fires. `Settings` states no
fairness and has no liveness property.

## 4. Proofs

All are for any sets of connections, edits and texts and any capacities; the
assumptions are `HubAssumption`, `TextAssumption`, `StoreAssumption`,
`RegistryAssumption`, `WireAssumption`, `EditorAssumption`, `PanelAssumption` and
`SettingsAssumption` of the modules (capacities positive, the seed a sequence of
updates, `Blank` not an update, only the empty text of size 0, integers of two bits or
more, the longest string within them and within a stored length). TLC evaluates
them in the runs.

* `HubVersionsProofs`. `CacheCorrect`: `CacheIsNewestRow`, whatever fails; it is
  inductive with the types because the cache is only trusted after a successful
  load or insert, and every insert sets it. `RowsDiffer` and `RowsAreNotCut`: with
  `~LoadMayFail`, and whatever inserts fail, neighbours of the history differ and keep half. Their
  invariant adds that a hub that has not loaded yet compares with the newest row
  at its first snapshot; `OneRowAtMost` says a step appends at most one row,
  `WorthyRow` that the row fits the one before, and `StepOfHistory` puts it at the end.
* `HubProofs`. `TypeCorrect`; `NothingIsUnsaved`, from the types and the three
  facts about `flush` (`FlushFacts`); `BroadcastIsSafe`, that no member's channel is
  closed. `MembersOpen` is not inductive: a departed connection might register
  again. The invariant `HubInv` adds that a connection is in the register channel at
  most once and only before it is a member or closed (`RegisterOnce`), and that
  it registers only from `handler = "acquired"`.
  One step per action, in `TypeStep`, `UnsavedStep` and `MembersStep`.
* `HubLogProofs`. `HubImplementsLog`: the hub implements `DurableLog`. `LogIsCausal`:
  its log is causally ordered. Both from `EditsInv`, which follows an update from its author to
  the log: one that waits in `incoming` is known to its author, is there once and not
  in the log, and all it depends on is in the log or before it in `incoming`; a browser has
  nothing but what is in the log or in `incoming`; what is queued for a browser is in
  the log. `StepOfUpdates` sorts the steps into those that type, take in or show an update
  and the quiet ones, so only those four kinds are looked at again.
  Its second part is about who is served. `FullClientsAreComplete`: during an initial sync all updates
  before `next` are had or queued (`SyncProgress`), no update enters the log meanwhile,
  and who was synced in full is a member or closed, so nobody becomes a member
  with a sync that is out of date. The author of an update is skipped by the
  broadcast and has it by `EditsInv`. `TextIsSaved`: every call of `snapshotVersion` leaves
  the text saved, refused or failed, and a hub ends only by a step that calls it.
* `HubRegistryProofs`. `RegistryTypes`, which includes that whoever holds a hub, or waits in
  its channels, has one whose goroutine was started: the hub that lost in `LoadOrStore`
  is used by nobody (server.go:133-136). `OneHubAtATime`: the invariant is that a running hub is the
  one in the map and that hubs above `made` are unborn; `LoadOrStore` makes a
  hub only when the map has none, and only a hub that is in the map can run
  `onEmpty`, so deleting "whatever it holds" deletes its own entry.
  `FreshHubsLoseNothing`: with one hub running, only that hub writes the store,
  so its log stays an extension of what is stored.
* `YjsWireProofs`, the one module about data. The library's induction theorems take an
  operator, which the provers cannot instantiate, so induction is stated with a set:
  `NatSetInduction` says that a set with 0 and with n + 1 for every n in it holds all naturals, from
  the well-foundedness of `<`; `MeasureInduction` is the same along a measure. With
  them `RecursionExists` shows once that a function may be defined by recursion
  along a falling measure, and `RecursionTypes` where its values lie. Each recursive
  definition gets its equation from these (`PowDef`, `VarUintDef`, `DenotedDef`, `NumberDef`,
  `BlocksExist`, `UpdatesDef`), and the rest is induction with that equation.
  `VarUintsAreReadBack`: only the last byte of a written number is below `Base`
  (`IsWritten`), so reading stops there; it denotes the number (`VarUintWrites`) and
  is short enough to be looked at (`VarUintFits`). `CutFramesAreIgnored` follows the cut
  through the three numbers and the payload of a frame; a cut number has no last byte
  (`CutNumberRefused`). `PeersReadWhatIsKept`: what is read out of a frame fits the width
  (`ReadsWithin`), so the frame made of it is parsed back (`ParsesFrame`). It needs
  `Width` of two or more, for the message kinds 0 to 2. `StoredStateIsReadBack`: what is read of any blob
  fits the stored length (`ParsedIsShort`), a length is read as it was written
  (`BigEndianRead`), and a block before a list that is read back is read back (`BlockReadAs`),
  each also cut at any byte. The only invariant needed of the state is `Strings`: no string
  is longer than `MaxLen`, for `Room` counts the bytes of all.
* `EditorClientProofs`. `BadgeIsHonest` and `UnsentTextHasATimer`, from an invariant
  that adds what neither says: there are messages on the way only while the socket
  is open, so no late Step2 turns the badge of a socket that is closing or gone, and timers are counted.
  `CursorIsInText` (which `EditorTypeOK` states too), `CursorWillBeSaved` and the action property `CursorStaysPut`,
  from `CursorInv`; `RestoredIsInText` is about the clamping, `TextGrows` and
  `ReceivedText` count characters, `ReceivedCursor` and `SiblingText` say what a
  message moves. `EditorTypes` takes the cursor from `CursorInv` and the messages
  from `MessagesOK`.
* `HistoryPanelProofs`. `PanelOnlyReads`: `HistorySpec` implements `VersionsSpec`, so
  what is proved of the history holds with panels open. `CopiesAreShown`,
  `LabelsAreTrue`, `ListsAreHistories` and `LoadingEnds` for
  any number of requests answered in any order. `CopiesAreShown` excepts a later failure,
  which is shown in place of the text that Copy still takes. `HighlightsAreSelected` is
  `HighlightIsOfText`, which no run checks: entries highlighted beside a text that can be
  copied contain its label, and its own entry, if it is listed, is one of them, so no
  highlight of an earlier text stays; it holds for any `LabelIn`. `LabelsAreTrue` needs the most: for a
  user who waits, at most one text is on its way, it is the one the label names, and
  while it is nothing is selected. `ListsAreHistories` needs that an answered list is the
  newest rows of some moment, and that rows never go.
* `SettingsProofs`. `OldSessionsAreEnded`: its invariant says of every handler between
  its two statements which sessions it will spare, and that sessions made for another
  password than the row's are of those or still to be deleted.
  `PasswordsAreChosen` and `SavesChangeTouched` need that a form with an untouched
  field has there what its basis has, and that a title is sent with no password;
  `PanelsAreOwn` that an answer a page still waits for is to what that page sent.

Every invariant and action property that a run checks is proved; so is the refinement of
`DurableLog`. Left to TLC are the properties under fairness, because liveness and ENABLED
are out of the provers' reach: `PanelSettles`, `FullClientsConverge`,
`AcceptedBecomesDurable`, `DepartedClientsEndHub`, `AcceptedReachesStore`, `BadgeTurnsLive`,
`PreviewFollows` and `FirstSocketDeliversText`. The modules use no RECURSIVE operator, which
would cost them the SMT backend.

## 5. Not modelled

`Hub.Flush`, which only `FlushAllHubs` (server.go:171-177) calls, and `FlushAllHubs`,
`DeleteSession` and `clearSessionCookie`, which nothing calls. The contents of
updates: Yjs merges them in the browser. Awareness beyond its being forwarded: carets
and names of others are neither stored nor text. The server's `ping`/`pong` deadlines
appear as `ReadFails` and `WriterReturns`. TLS, templates, CSS, configuration and
identifiers are straight-line. A websocket and a session are in different modules, so
that access is not checked again on an open socket is stated, not checked.

`web/static/js/editor.js` is generated: 42735 lines, of which all but the last 350 or so,
which are `editor.mjs` again, are Yjs, CodeMirror, lezer and marked. The models use the
part of it the program's behaviour hangs on, the `y-websocket` provider; the rest is
other projects' code, which the models take at its interface. A share of its lines
would say nothing about the models; of `editor.mjs` itself, all handlers and timers
are modelled, and what is left is imports, element lookups and styling.

## 6. Plan

The order of the work. All but the last is done.

1. `HubVersions`, small and self-contained, with its proofs.
2. `Hub` over `HubVersions`, refining `DurableLog`; types, durability and
   channel safety proved.
3. `HubRegistry` and its proofs.
4. `YjsWire`: varints, messages and the stored blob, one run over all short strings.
5. `EditorClient` and its proofs; then the preview and the other windows.
6. `HistoryPanel` over `HubVersions`, and its proofs.
7. `Settings`, with the sessions, and its proofs.
8. Proofs: `Hub` implements `DurableLog`, its log is causal, who is fully served is
   complete, an ended hub has saved its text.
9. Proofs about data: what the wire and stored formats write is read back.
10. Composition: `HubRegistry` with an abstract hub refined by `Hub`; websockets and
   sessions in one module.
