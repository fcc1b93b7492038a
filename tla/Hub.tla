-------------------------------- MODULE Hub --------------------------------
(***************************************************************************)
(* One hub of internal/server/hub.go, from the moment acquireHub stores it *)
(* in the map until its goroutine returns, with the goroutines that talk   *)
(* to it: for every websocket connection the handler (handleWS, which      *)
(* becomes readPump) and writePump.                                        *)
(*                                                                         *)
(* The hub goroutine is a select loop over the register, unregister and    *)
(* incoming channels, the ticker and the context.  Go picks at random      *)
(* among the ready cases, so what one connection puts in two channels may  *)
(* be taken out in either order: that is the heart of this module.         *)
(*                                                                         *)
(* An edit stands for one Yjs update.  Awareness and every message that is *)
(* only forwarded are one kind, "relay"; a frame handleFrame drops (parse  *)
(* error, empty update, unknown text message) is "ignored".                *)
(***************************************************************************)
EXTENDS Naturals, Sequences, SequencesExt

CONSTANTS
  Conns,          \* websocket connections (one *wsClient each)
  Edits,          \* Yjs updates
  Seed,           \* the updates of the stored blob this hub starts from
  OtherKinds,     \* the kinds of frames browsers send beside step1 and edit
  RegisterCap,    \* capacity of Hub.register   (8 in newHub)
  UnregisterCap,  \* capacity of Hub.unregister (8)
  IncomingCap,    \* capacity of Hub.incoming   (64)
  SendCap,        \* capacity of wsClient.send  (256 in handleWS)
  Texts, EmptyText, Size, LoadMayFail, InsertMayFail, MaxVersions,  \* of HubVersions
  Blank           \* a message to a browser that carries no update

ASSUME HubAssumption ==
  /\ RegisterCap \in Nat \ {0} /\ UnregisterCap \in Nat \ {0}
  /\ IncomingCap \in Nat \ {0} /\ SendCap \in Nat \ {0}
  /\ Seed \in Seq(Edits)
  /\ Blank \notin Edits
  /\ OtherKinds \subseteq {"relay", "ignored", "text"}
  /\ EmptyText \in Texts /\ LoadMayFail \in BOOLEAN /\ InsertMayFail \in BOOLEAN

VARIABLES
  pc,           \* the hub goroutine: in the select loop, inside
                \* sendInitialSync, returned, stopped by its context, or dead
                \* with the whole process
  syncing,      \* sendInitialSync: the client and the next update to deliver
  clients,      \* Hub.clients
  updates,      \* Hub.updates
  dirty,        \* Hub.dirty
  register, unregister, incoming,  \* the three channels, oldest first
  stored,       \* the updates in documents.yjs_state
  refused,      \* the last flush of a dirty hub was refused by the store
  handler,      \* progress of handleWS / readPump, per connection
  writing,      \* connections whose writePump runs
  send,         \* wsClient.send, per connection
  closed,       \* connections whose send channel is closed
  latestText, hasText, lastSavedText, lastSavedLoaded, versions

\* Three history variables the properties are stated with.
VARIABLES
  have,         \* have[c]: edits the browser at c typed or was sent
  basis,        \* basis[e]: what the author of e had when typing e
  sync          \* how well c was served: "no" initial sync yet; "full", in the
                \* client set and sent every update since; "late", synced
                \* before the hub put it in the client set; "short", some
                \* update was dropped because the send channel was full

Versions == INSTANCE HubVersions

docVars == <<updates, dirty, stored, refused>>
chanVars == <<register, unregister, incoming>>
connVars == <<handler, writing, send, closed>>
textVars == <<latestText, hasText, lastSavedText, lastSavedLoaded, versions>>
histVars == <<have, basis, sync>>
vars == <<pc, syncing, clients, docVars, chanVars, connVars, textVars, histVars>>

\* The process runs: no panic, and main has not returned from Run, which waits
\* for the hubs to stop.
Alive == pc \notin {"stopped", "panicked"}
Selecting == pc = "select"

\* What readPump puts in Hub.incoming: the connection, the kind of the frame
\* and the update or text it carries (Blank: nothing that matters).
Frames ==
  [from : Conns, kind : {"step1", "relay", "ignored"}, body : {Blank}]
    \cup [from : Conns, kind : {"edit"}, body : Edits]
    \cup [from : Conns, kind : {"text"}, body : Texts]

Frame(c, k, b) == [from |-> c, kind |-> k, body |-> b]

Written == {e \in Edits : e \in Range(Seed)} \cup
           UNION {have[c] : c \in Conns}

TypeOK ==
  /\ pc \in {"select", "syncing", "returned", "stopped", "panicked"}
  /\ syncing \in [to : Conns, next : Nat \ {0}] \cup {Blank}
  /\ clients \in SUBSET Conns
  /\ updates \in Seq(Edits) /\ stored \in Seq(Edits)
  /\ dirty \in BOOLEAN /\ refused \in BOOLEAN
  /\ register \in Seq(Conns) /\ unregister \in Seq(Conns)
  /\ incoming \in Seq(Frames)
  /\ handler \in [Conns -> {"none", "acquired", "opened", "open", "left"}]
  /\ writing \in SUBSET Conns /\ closed \in SUBSET Conns
  /\ send \in [Conns -> Seq(Edits \cup {Blank})]
  /\ have \in [Conns -> SUBSET Edits]
  /\ basis \in [Edits -> SUBSET Edits]
  /\ sync \in [Conns -> {"no", "full", "late", "short"}]
  /\ Versions!VersionsTypeOK

Init ==
  /\ pc = "select" /\ syncing = Blank
  /\ clients = {}
  /\ updates = Seed /\ stored = Seed
  /\ dirty = FALSE /\ refused = FALSE
  /\ register = << >> /\ unregister = << >> /\ incoming = << >>
  /\ handler = [c \in Conns |-> "none"]
  /\ writing = {} /\ closed = {}
  /\ send = [c \in Conns |-> << >>]
  /\ have = [c \in Conns |-> {}]
  /\ basis = [e \in Edits |-> {}]
  /\ sync = [c \in Conns |-> "no"]
  /\ Versions!VersionsInit

-----------------------------------------------------------------------------
(***************************************************************************)
(* The goroutines of a connection.                                         *)
(***************************************************************************)

\* handleWS gets this hub from acquireHub while the map still holds it.
AcquireHub(c) ==
  /\ pc \in {"select", "syncing"}
  /\ handler[c] = "none"
  /\ handler' = [handler EXCEPT ![c] = "acquired"]
  /\ UNCHANGED <<pc, syncing, clients, docVars, chanVars, writing, send, closed,
                 textVars, histVars>>

\* The upgrade to a websocket fails after the hub was acquired.
UpgradeFails(c) ==
  /\ Alive /\ handler[c] = "acquired"
  /\ handler' = [handler EXCEPT ![c] = "left"]
  /\ UNCHANGED <<pc, syncing, clients, docVars, chanVars, writing, send, closed,
                 textVars, histVars>>

\* The rest of handleWS: register with the hub and start both pumps.  The
\* channel is buffered: the hub need not be listening any more.
Register(c) ==
  /\ Alive /\ handler[c] = "acquired"
  /\ Len(register) < RegisterCap
  /\ register' = Append(register, c)
  /\ handler' = [handler EXCEPT ![c] = "opened"]
  /\ writing' = writing \cup {c}
  /\ UNCHANGED <<pc, syncing, clients, docVars, unregister, incoming, send, closed,
                 textVars, histVars>>

\* readPump hands one frame of the browser to the hub; it blocks while the
\* channel is full.
ReadFrame(c, k, b) ==
  /\ Alive
  /\ Len(incoming) < IncomingCap
  /\ incoming' = Append(incoming, Frame(c, k, b))
  /\ UNCHANGED <<pc, syncing, clients, docVars, register, unregister, writing, send,
                 closed, textVars, sync>>

\* The first frame of a browser is its Sync.Step1.
ReadStep1(c) ==
  /\ handler[c] = "opened"
  /\ handler' = [handler EXCEPT ![c] = "open"]
  /\ UNCHANGED <<have, basis>>
  /\ ReadFrame(c, "step1", Blank)

\* A new update, typed by a browser that has have[c].
ReadEdit(c, e) ==
  /\ handler[c] = "open"
  /\ e \notin Written
  /\ have' = [have EXCEPT ![c] = @ \cup {e}]
  /\ basis' = [basis EXCEPT ![e] = have[c]]
  /\ UNCHANGED handler
  /\ ReadFrame(c, "edit", e)

ReadOther(c) ==
  /\ handler[c] = "open"
  /\ UNCHANGED <<handler, have, basis>>
  /\ \/ \E k \in OtherKinds \ {"text"} : ReadFrame(c, k, Blank)
     \/ "text" \in OtherKinds /\ \E t \in Texts : ReadFrame(c, "text", t)

\* ReadMessage fails (the browser left, the read deadline passed, the hub
\* closed the connection): the deferred function unregisters.
ReadFails(c) ==
  /\ Alive /\ handler[c] \in {"opened", "open"}
  /\ Len(unregister) < UnregisterCap
  /\ unregister' = Append(unregister, c)
  /\ handler' = [handler EXCEPT ![c] = "left"]
  /\ UNCHANGED <<pc, syncing, clients, docVars, register, incoming, writing, send,
                 closed, textVars, histVars>>

\* writePump writes the oldest queued message to the websocket.
WriteNext(c) ==
  /\ Alive /\ c \in writing /\ send[c] # << >>
  /\ handler[c] # "left"
  /\ send' = [send EXCEPT ![c] = Tail(@)]
  /\ have' = [have EXCEPT ![c] = @ \cup ({Head(send[c])} \ {Blank})]
  /\ UNCHANGED <<pc, syncing, clients, docVars, chanVars, handler, writing, closed,
                 textVars, basis, sync>>

\* A write or a ping fails, or the channel is closed and drained: writePump
\* returns.  It does not close the connection.
WriterReturns(c) ==
  /\ Alive /\ c \in writing
  /\ writing' = writing \ {c}
  /\ UNCHANGED <<pc, syncing, clients, docVars, chanVars, handler, send, closed,
                 textVars, histVars>>

-----------------------------------------------------------------------------
(***************************************************************************)
(* The hub goroutine.                                                      *)
(***************************************************************************)

\* Mutant of Flush: dirty is cleared before the write is known to have worked.
FlushForgets(ok) ==
  /\ stored' = IF dirty /\ ok THEN updates ELSE stored
  /\ dirty' = FALSE
  /\ refused' = (dirty /\ ~ok)
  /\ UNCHANGED updates

\* flush: ok is the answer of UpdateYjsState.
Flush(ok) ==
  /\ stored' = IF dirty /\ ok THEN updates ELSE stored
  /\ dirty' = (dirty /\ ~ok)
  /\ refused' = (dirty /\ ~ok)
  /\ UNCHANGED updates

\* case c := <-h.register
TakeRegister ==
  /\ Selecting /\ register # << >>
  /\ clients' = clients \cup {Head(register)}
  /\ register' = Tail(register)
  /\ UNCHANGED <<pc, syncing, docVars, unregister, incoming, connVars, textVars,
                 histVars>>

\* Mutant of IgnoreUnregister: without the test that the client is known, its
\* channel is closed all the same.
CloseUnknown ==
  /\ Selecting /\ unregister # << >>
  /\ Head(unregister) \notin clients
  /\ unregister' = Tail(unregister)
  /\ closed' = closed \cup {Head(unregister)}
  /\ UNCHANGED <<pc, syncing, clients, docVars, register, incoming, handler, writing,
                 send, textVars, histVars>>

\* case c := <-h.unregister, for a client the hub does not (yet) know
IgnoreUnregister ==
  /\ Selecting /\ unregister # << >>
  /\ Head(unregister) \notin clients
  /\ unregister' = Tail(unregister)
  /\ UNCHANGED <<pc, syncing, clients, docVars, register, incoming, connVars, textVars,
                 histVars>>

\* Mutant of EndIfEmpty: the return after onEmpty is missing.
FlushIfEmpty ==
  \/ clients' # {} /\ UNCHANGED <<pc, docVars>>
  \/ clients' = {} /\ UNCHANGED pc /\ \E ok \in BOOLEAN : Flush(ok)

\* When no client is left: flush (its error is dropped), leave the map, return.
EndIfEmpty ==
  \/ clients' # {} /\ UNCHANGED <<pc, docVars>>
  \/ clients' = {} /\ pc' = "returned" /\ \E ok \in BOOLEAN : Flush(ok)

\* case c := <-h.unregister, for a client
TakeUnregister ==
  /\ Selecting /\ unregister # << >>
  /\ Head(unregister) \in clients
  /\ unregister' = Tail(unregister)
  /\ clients' = clients \ {Head(unregister)}
  /\ closed' = closed \cup {Head(unregister)}
  /\ Versions!SnapshotVersion
  /\ EndIfEmpty
  /\ UNCHANGED <<syncing, register, incoming, handler, writing, send, histVars>>

\* case frame := <-h.incoming, down to the kind of the frame
TakeFrame(kind) ==
  /\ Selecting /\ incoming # << >>
  /\ Head(incoming).kind = kind
  /\ incoming' = Tail(incoming)
  /\ UNCHANGED <<clients, register, unregister, handler, writing, closed, stored,
                 refused, have, basis>>

\* deliver on a closed channel: the select statement panics, and with it the
\* process.
HandleStep1Closed ==
  /\ TakeFrame("step1")
  /\ Head(incoming).from \in closed
  /\ pc' = "panicked"
  /\ UNCHANGED <<syncing, updates, dirty, send, textVars, sync>>

\* Mutant of HandleStep1: only the newest update is delivered, as if it were the
\* whole state.
SyncNewestOnly ==
  LET c == Head(incoming).from
      room == Len(send[c]) < SendCap
  IN  /\ TakeFrame("step1")
      /\ c \notin closed
      /\ sync' = [sync EXCEPT ![c] = IF c \in clients THEN "full" ELSE "late"]
      /\ \/ /\ updates # << >>
            /\ pc' = "syncing" /\ syncing' = [to |-> c, next |-> Len(updates)]
            /\ UNCHANGED send
         \/ /\ updates = << >>
            /\ send' = IF room THEN [send EXCEPT ![c] = Append(@, Blank)] ELSE send
            /\ UNCHANGED <<pc, syncing>>
      /\ UNCHANGED <<updates, dirty, textVars>>

\* sendInitialSync begins; with no updates it sends one empty Step2.
HandleStep1 ==
  LET c == Head(incoming).from
      room == Len(send[c]) < SendCap
  IN  /\ TakeFrame("step1")
      /\ c \notin closed
      /\ sync' = [sync EXCEPT ![c] = IF c \in clients THEN "full" ELSE "late"]
      /\ \/ /\ updates # << >>
            /\ pc' = "syncing" /\ syncing' = [to |-> c, next |-> 1]
            /\ UNCHANGED send
         \/ /\ updates = << >>
            /\ send' = IF room THEN [send EXCEPT ![c] = Append(@, Blank)] ELSE send
            /\ UNCHANGED <<pc, syncing>>
      /\ UNCHANGED <<updates, dirty, textVars>>

\* One deliver of sendInitialSync; the first one that finds the channel full
\* ends it.
SyncDeliver ==
  LET c == syncing.to
      i == syncing.next
      room == Len(send[c]) < SendCap
  IN  /\ pc = "syncing"
      /\ \/ /\ room
            /\ send' = [send EXCEPT ![c] = Append(@, updates[i])]
            /\ UNCHANGED sync
         \/ /\ ~room
            /\ sync' = [sync EXCEPT ![c] = "short"]
            /\ UNCHANGED send
      /\ \/ /\ room /\ i < Len(updates)
            /\ syncing' = [syncing EXCEPT !.next = @ + 1]
            /\ UNCHANGED pc
         \/ /\ ~room \/ i = Len(updates)
            /\ syncing' = Blank /\ pc' = "select"
      /\ UNCHANGED <<clients, docVars, chanVars, handler, writing, closed, textVars,
                     have, basis>>

\* broadcastExcept.  The send channel of a member of clients is never closed
\* (MembersOpen), so this send cannot panic.
Broadcast(from, msg) ==
  LET peers == clients \ {from}
      slow == {c \in peers : Len(send[c]) >= SendCap}
  IN  /\ send' = [c \in Conns |-> IF c \in peers \ slow THEN Append(send[c], msg)
                                  ELSE send[c]]
      /\ sync' = [c \in Conns |-> IF c \in slow /\ msg # Blank /\ sync[c] # "no"
                                  THEN "short" ELSE sync[c]]

\* Mutants of HandleUpdate: the update replaces the log; it is passed on and not
\* kept; it is kept and not passed on; it is kept and the hub not marked dirty.
ReplaceUpdates ==
  LET f == Head(incoming)
  IN  /\ TakeFrame("edit")
      /\ updates' = <<f.body>> /\ dirty' = TRUE
      /\ Broadcast(f.from, f.body)
      /\ UNCHANGED <<pc, syncing, textVars>>
ForwardOnly ==
  LET f == Head(incoming)
  IN  /\ TakeFrame("edit")
      /\ Broadcast(f.from, f.body)
      /\ UNCHANGED <<pc, syncing, updates, dirty, textVars>>
AppendOnly ==
  LET f == Head(incoming)
  IN  /\ TakeFrame("edit")
      /\ updates' = Append(updates, f.body) /\ dirty' = TRUE
      /\ UNCHANGED <<pc, syncing, send, sync, textVars>>
AppendClean ==
  LET f == Head(incoming)
  IN  /\ TakeFrame("edit")
      /\ updates' = Append(updates, f.body)
      /\ Broadcast(f.from, f.body)
      /\ UNCHANGED <<pc, syncing, dirty, textVars>>

\* Sync.Step2 and Sync.Update with a non-empty update: keep it and pass it on.
HandleUpdate ==
  LET f == Head(incoming)
  IN  /\ TakeFrame("edit")
      /\ updates' = Append(updates, f.body)
      /\ dirty' = TRUE
      /\ Broadcast(f.from, f.body)
      /\ UNCHANGED <<pc, syncing, textVars>>

\* Mutant of HandleRelay: what is passed on is kept too, as an update is.
KeepRelayed ==
  LET f == Head(incoming)
  IN  /\ TakeFrame("relay")
      /\ updates' = Append(updates, f.body) /\ dirty' = TRUE
      /\ Broadcast(f.from, f.body)
      /\ UNCHANGED <<pc, syncing, textVars>>

\* Awareness and unknown messages are forwarded and not kept.
HandleRelay ==
  /\ TakeFrame("relay")
  /\ Broadcast(Head(incoming).from, Blank)
  /\ UNCHANGED <<pc, syncing, updates, dirty, textVars>>

HandleText ==
  /\ TakeFrame("text")
  /\ Versions!ReceiveText(Head(incoming).body)
  /\ UNCHANGED <<pc, syncing, updates, dirty, send, sync>>

HandleIgnored ==
  /\ TakeFrame("ignored")
  /\ UNCHANGED <<pc, syncing, updates, dirty, send, sync, textVars>>

\* case <-ticker.C
Tick(ok) ==
  /\ Selecting
  /\ Flush(ok)
  /\ UNCHANGED <<pc, syncing, clients, chanVars, connVars, textVars, histVars>>

\* Mutant of Shutdown: no snapshot is taken.
ShutdownWithoutSnapshot ==
  /\ Selecting
  /\ \E ok \in BOOLEAN : Flush(ok)
  /\ closed' = closed \cup clients
  /\ clients' = {}
  /\ pc' = "stopped"
  /\ UNCHANGED <<syncing, chanVars, handler, writing, send, textVars, histVars>>

\* case <-ctx.Done(): the process shuts down.
Shutdown ==
  /\ Selecting
  /\ \E ok \in BOOLEAN : Flush(ok)
  /\ Versions!SnapshotVersion
  /\ closed' = closed \cup clients
  /\ clients' = {}
  /\ pc' = "stopped"
  /\ UNCHANGED <<syncing, chanVars, handler, writing, send, histVars>>

-----------------------------------------------------------------------------
Connection(c) ==
  \/ AcquireHub(c) \/ UpgradeFails(c) \/ Register(c)
  \/ ReadStep1(c) \/ (\E e \in Edits : ReadEdit(c, e)) \/ ReadOther(c) \/ ReadFails(c)
  \/ WriteNext(c) \/ WriterReturns(c)

Goroutine ==
  \/ TakeRegister \/ IgnoreUnregister \/ TakeUnregister
  \/ HandleStep1Closed \/ HandleStep1 \/ SyncDeliver
  \/ HandleUpdate \/ HandleRelay \/ HandleText \/ HandleIgnored
  \/ (\E ok \in BOOLEAN : Tick(ok)) \/ Shutdown

Next == (\E c \in Conns : Connection(c)) \/ Goroutine

Spec == Init /\ [][Next]_vars

TakeIncoming ==
  HandleStep1Closed \/ HandleStep1 \/ HandleUpdate \/ HandleRelay \/ HandleText
    \/ HandleIgnored

(***************************************************************************)
(* Fairness.  Go's select picks uniformly among its ready cases and the    *)
(* ticker fires every five seconds, so a case that is ready again and      *)
(* again is taken; Tick(TRUE) also says the store does not refuse every    *)
(* write.  sendInitialSync never blocks.  handleWS goes on after           *)
(* acquireHub, and a write to a websocket ends within its ten seconds.     *)
(* Nothing is assumed of browsers: they need not type, read or leave.      *)
(***************************************************************************)
Fairness ==
  /\ SF_vars(TakeRegister)
  /\ SF_vars(IgnoreUnregister \/ TakeUnregister)
  /\ SF_vars(TakeIncoming)
  /\ SF_vars(Tick(TRUE))
  /\ WF_vars(SyncDeliver)
  /\ \A c \in Conns : WF_vars(Register(c) \/ UpgradeFails(c)) /\ WF_vars(WriteNext(c))

FairSpec == Spec /\ Fairness

-----------------------------------------------------------------------------
\* Edits that are in c's send channel.
Queued(c) == Range(send[c]) \ {Blank}

\* What is in the store is a beginning of what the hub holds; a clean hub has
\* stored everything; a hub that returned has, unless the store refused the
\* last write.
NothingUnsaved ==
  /\ IsPrefix(stored, updates)
  /\ (~dirty \/ (pc \in {"returned", "stopped"} /\ ~refused)) => stored = updates

\* A send channel the hub may still broadcast to is open.
MembersOpen == clients \cap closed = {}

\* A client in the set whose initial sync was complete and that had no update
\* dropped holds, or is being sent, every update of the hub.
FullMeansComplete ==
  \A c \in clients :
    (sync[c] = "full" /\ ~(pc = "syncing" /\ syncing.to = c))
       => Range(updates) \subseteq have[c] \cup Queued(c)

\* The log is causally ordered: every edit comes after all the edits its
\* author had when typing it, so Y.applyUpdate never has to wait for one that
\* comes later in the log.
CausalLog ==
  \A i \in 1 .. Len(updates) :
    basis[updates[i]] \subseteq {updates[j] : j \in 1 .. i - 1}

\* A hub that ended has put its last text in the history, unless a row as long
\* as twice that text or more was there.
TextSaved ==
  (pc \in {"returned", "stopped"} /\ hasText /\ ~InsertMayFail)
    => LET newest == Versions!LatestDocumentVersionText
       IN  newest = latestText \/ Versions!Suspicious(latestText, newest)

\* The hub implements the log it promises: however its goroutines interleave,
\* each update enters once, no peer is shown one before it is kept, and the
\* store is only ever given the whole log.
Promise == INSTANCE DurableLog
             WITH Browsers <- Conns, Updates <- Edits, Start <- Seed,
                  log <- updates, durable <- stored, known <- have
ImplementsDurableLog == Promise!LogSpec

-----------------------------------------------------------------------------
\* The websocket of c no longer carries messages to its browser.
Gone(c) == handler[c] = "left" \/ c \notin writing \/ ~Alive

\* Real-time delivery: a fully synced client gets every update the hub holds,
\* unless it leaves or is too slow and has an update dropped.
FullClientsConverge ==
  \A c \in Conns, e \in Edits :
    (c \in clients /\ sync[c] = "full" /\ e \in Range(updates))
      ~> (e \in have[c] \/ sync[c] = "short" \/ Gone(c))

\* Whatever the hub took in is stored in the end, however often the ticker's
\* writes are refused, unless the last write of a hub that ends is refused or
\* the process dies.
AcceptedBecomesDurable ==
  \A e \in Edits :
    e \in Range(updates)
      ~> (e \in Range(stored) \/ pc = "panicked"
           \/ (pc \in {"returned", "stopped"} /\ refused))

\* A hub whose clients were all registered before they left returns.
DepartedClientsEndHub ==
  (/\ \A c \in Conns : handler[c] = "left"
   /\ register = << >> /\ clients # {} /\ clients \subseteq Range(unregister))
    ~> pc \notin {"select", "syncing"}

-----------------------------------------------------------------------------
(***************************************************************************)
(* What comments and README.md say of the hub, and its code does not do.   *)
(***************************************************************************)

\* "deliver enqueues one already-encoded message to a single client. Returns
\* false if the client's send buffer is full" (hub.go:252-253): there is no
\* third outcome.
DeliverAnswers == pc # "panicked"

\* "the text must survive a full reload" (README.md:126): once the last tab is
\* gone and no write was refused, the store has what the tabs typed.
TextSurvivesReload ==
  (pc = "returned" /\ ~refused /\ \A c \in Conns : handler[c] \in {"none", "left"})
    => \A c \in Conns : have[c] \subseteq Range(stored)
=============================================================================
