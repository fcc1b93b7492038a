----------------------------- MODULE HubRegistry -----------------------------
(***************************************************************************)
(* The hubs of one document over the life of the server: how handleWS      *)
(* (ws.go) reads the stored document and finds or makes a hub              *)
(* (Server.acquireHub), how a hub ends (its last client left, or the       *)
(* server stops) and takes itself out of Server.hubs, and what becomes of  *)
(* documents.yjs_state when one hub follows another, across crashes too.   *)
(*                                                                         *)
(* Hub models the inside of one hub.  Here the register and unregister     *)
(* channels are sets, whose members are taken out in any order, and what   *)
(* is sent to browsers and the version history are left out.               *)
(***************************************************************************)
EXTENDS Naturals, Sequences, SequencesExt

CONSTANTS
  Conns,        \* websocket connections; a tab that reloads makes a new one
  Edits,        \* Yjs updates
  IncomingCap,  \* capacity of Hub.incoming
  MaxHubs       \* bound on the hubs made, in the guard of LoadOrStore

ASSUME RegistryAssumption == IncomingCap \in Nat \ {0} /\ MaxHubs \in Nat \ {0}

Hubs == 1 .. MaxHubs
NoHub == 0

VARIABLES
  server,        \* "up", "draining" (srv.Shutdown), "cancelled" (hubCancel)
  stored,        \* the updates in documents.yjs_state
  entry,         \* the hub Server.hubs holds for the document, or NoHub
  made,          \* the number of hubs made so far
  phase,         \* phase[h]: "unborn", "select", "emptied" (its last client
                 \* left), "flushed" (about to call onEmpty), "gone"
  updates,       \* updates[h]: Hub.updates
  dirty,         \* dirty[h]: Hub.dirty
  incoming,      \* incoming[h]: Hub.incoming
  state,         \* state[c]: how far handleWS and readPump of c are
  seed,          \* seed[c]: the YjsState handleWS read
  hub,           \* hub[c]: what acquireHub returned
  registering, clients, unregistering,  \* the connections in the register
                 \* channel, in Hub.clients and in the unregister channel of
                 \* their hub
  stale          \* history: stale[h], the hub was made from a state that was
                 \* no longer the stored one

hubVars == <<phase, updates, dirty, incoming, stale>>
connVars == <<state, seed, hub>>
memberVars == <<registering, clients, unregistering>>
vars == <<server, stored, entry, made, hubVars, connVars, memberVars>>

Running == {"select", "emptied", "flushed"}

Members(h) == {c \in clients : hub[c] = h}

\* Updates some browser has typed.
Typed == UNION {Range(updates[h]) \cup Range(incoming[h]) : h \in Hubs}

\* The connections that have a hub: handleWS has got it, or one of its channels or its
\* members are theirs.
Holding ==
  {c \in Conns : state[c] \in {"acquired", "open"}}
    \cup registering \cup clients \cup unregistering

\* The types; and a connection only ever has a hub whose goroutine was started, never
\* one made in vain beside another request's (server.go:120-144).
RegistryTypeOK ==
  /\ server \in {"up", "draining", "cancelled"}
  /\ stored \in Seq(Edits)
  /\ made \in 0 .. MaxHubs /\ entry \in (1 .. made) \cup {NoHub}
  /\ phase \in [Hubs -> Running \cup {"unborn", "gone"}]
  /\ updates \in [Hubs -> Seq(Edits)] /\ incoming \in [Hubs -> Seq(Edits)]
  /\ dirty \in [Hubs -> BOOLEAN] /\ stale \in [Hubs -> BOOLEAN]
  /\ state \in [Conns -> {"idle", "loaded", "missed", "acquired", "open", "left"}]
  /\ seed \in [Conns -> Seq(Edits)]
  /\ hub \in [Conns -> Hubs \cup {NoHub}]
  /\ registering \in SUBSET Conns /\ clients \in SUBSET Conns
  /\ unregistering \in SUBSET Conns
  /\ \A c \in Holding : hub[c] \in 1 .. made

Init ==
  /\ server = "up" /\ stored = << >> /\ entry = NoHub /\ made = 0
  /\ phase = [h \in Hubs |-> "unborn"]
  /\ updates = [h \in Hubs |-> << >>] /\ incoming = [h \in Hubs |-> << >>]
  /\ dirty = [h \in Hubs |-> FALSE] /\ stale = [h \in Hubs |-> FALSE]
  /\ state = [c \in Conns |-> "idle"]
  /\ seed = [c \in Conns |-> << >>]
  /\ hub = [c \in Conns |-> NoHub]
  /\ registering = {} /\ clients = {} /\ unregistering = {}

-----------------------------------------------------------------------------
(***************************************************************************)
(* handleWS and readPump of a connection.                                  *)
(***************************************************************************)

Moves(c, from, to) == state[c] = from /\ state' = [state EXCEPT ![c] = to]

\* GetDocument reads the stored state; access is checked with the same row.
GetDocument(c) ==
  /\ server = "up"
  /\ Moves(c, "idle", "loaded")
  /\ seed' = [seed EXCEPT ![c] = stored]
  /\ UNCHANGED <<server, stored, entry, made, hubVars, hub, memberVars>>

\* acquireHub: s.hubs.Load
Load(c) ==
  /\ \/ /\ entry # NoHub
        /\ Moves(c, "loaded", "acquired")
        /\ hub' = [hub EXCEPT ![c] = entry]
     \/ /\ entry = NoHub
        /\ Moves(c, "loaded", "missed")
        /\ UNCHANGED hub
  /\ UNCHANGED <<server, stored, entry, made, hubVars, seed, memberVars>>

\* Mutant of LoadOther: the request keeps the hub it has made itself, which nobody runs.
KeepOwn(c) ==
  /\ entry # NoHub
  /\ Moves(c, "missed", "acquired")
  /\ hub' = [hub EXCEPT ![c] = made + 1]
  /\ UNCHANGED <<server, stored, entry, made, hubVars, seed, memberVars>>

\* acquireHub: s.hubs.LoadOrStore finds a hub another request stored meanwhile.
LoadOther(c) ==
  /\ entry # NoHub
  /\ Moves(c, "missed", "acquired")
  /\ hub' = [hub EXCEPT ![c] = entry]
  /\ UNCHANGED <<server, stored, entry, made, hubVars, seed, memberVars>>

\* Mutant of StoreNew: Store in place of LoadOrStore.
StoreAlways(c) ==
  LET h == made + 1
  IN  /\ made < MaxHubs
      /\ Moves(c, "missed", "acquired")
      /\ made' = h /\ entry' = h
      /\ hub' = [hub EXCEPT ![c] = h]
      /\ phase' = [phase EXCEPT ![h] = "select"]
      /\ updates' = [updates EXCEPT ![h] = seed[c]]
      /\ stale' = [stale EXCEPT ![h] = seed[c] # stored]
      /\ UNCHANGED <<server, stored, dirty, incoming, seed, memberVars>>

\* acquireHub: s.hubs.LoadOrStore stores the new hub, whose goroutine starts.
StoreNew(c) ==
  LET h == made + 1
  IN  /\ entry = NoHub /\ made < MaxHubs
      /\ Moves(c, "missed", "acquired")
      /\ made' = h /\ entry' = h
      /\ hub' = [hub EXCEPT ![c] = h]
      /\ phase' = [phase EXCEPT ![h] = "select"]
      /\ updates' = [updates EXCEPT ![h] = seed[c]]
      /\ stale' = [stale EXCEPT ![h] = seed[c] # stored]
      /\ UNCHANGED <<server, stored, dirty, incoming, seed, memberVars>>

\* The upgrade to a websocket fails after the hub was acquired.
UpgradeFails(c) ==
  /\ Moves(c, "acquired", "left")
  /\ UNCHANGED <<server, stored, entry, made, hubVars, seed, hub, memberVars>>

Register(c) ==
  /\ Moves(c, "acquired", "open")
  /\ registering' = registering \cup {c}
  /\ UNCHANGED <<server, stored, entry, made, hubVars, seed, hub, clients,
                 unregistering>>

\* readPump hands an update the browser has just typed to the hub.
ReadEdit(c, e) ==
  LET h == hub[c]
  IN  /\ state[c] = "open"
      /\ e \notin Typed \cup Range(stored)
      /\ Len(incoming[h]) < IncomingCap
      /\ incoming' = [incoming EXCEPT ![h] = Append(@, e)]
      /\ UNCHANGED <<server, stored, entry, made, phase, updates, dirty, stale,
                     connVars, memberVars>>

ReadFails(c) ==
  /\ Moves(c, "open", "left")
  /\ unregistering' = unregistering \cup {c}
  /\ UNCHANGED <<server, stored, entry, made, hubVars, seed, hub, registering, clients>>

-----------------------------------------------------------------------------
(***************************************************************************)
(* The goroutine of hub h.                                                 *)
(***************************************************************************)

\* Mutant of Flush: dirty is cleared although the write was refused.
FlushForgets(h, ok) ==
  /\ stored' = IF dirty[h] /\ ok THEN updates[h] ELSE stored
  /\ dirty' = [dirty EXCEPT ![h] = FALSE]

\* flush: ok is the answer of UpdateYjsState.
Flush(h, ok) ==
  /\ stored' = IF dirty[h] /\ ok THEN updates[h] ELSE stored
  /\ dirty' = [dirty EXCEPT ![h] = @ /\ ~ok]

TakeRegister(c) ==
  /\ c \in registering /\ phase[hub[c]] = "select"
  /\ registering' = registering \ {c}
  /\ clients' = clients \cup {c}
  /\ UNCHANGED <<server, stored, entry, made, hubVars, connVars, unregistering>>

\* case c := <-h.unregister, up to the flush of a hub left by its last client
TakeUnregister(c) ==
  LET h == hub[c]
  IN  /\ c \in unregistering /\ phase[h] = "select"
      /\ unregistering' = unregistering \ {c}
      /\ clients' = clients \ {c}
      /\ phase' = IF Members(h) = {c} THEN [phase EXCEPT ![h] = "emptied"] ELSE phase
      /\ UNCHANGED <<server, stored, entry, made, updates, dirty, incoming, stale,
                     connVars, registering>>

FinalFlush(h, ok) ==
  /\ phase[h] = "emptied"
  /\ phase' = [phase EXCEPT ![h] = "flushed"]
  /\ Flush(h, ok)
  /\ UNCHANGED <<server, entry, made, updates, incoming, stale, connVars, memberVars>>

\* onEmpty deletes the document's entry, whatever it holds; the hub returns.
OnEmpty(h) ==
  /\ phase[h] = "flushed"
  /\ phase' = [phase EXCEPT ![h] = "gone"]
  /\ entry' = NoHub
  /\ UNCHANGED <<server, stored, made, updates, dirty, incoming, stale, connVars,
                 memberVars>>

\* Mutant of HandleUpdate: the update replaces the log.
ReplaceUpdates(h) ==
  /\ phase[h] = "select" /\ incoming[h] # << >>
  /\ incoming' = [incoming EXCEPT ![h] = Tail(@)]
  /\ updates' = [updates EXCEPT ![h] = <<Head(incoming[h])>>]
  /\ dirty' = [dirty EXCEPT ![h] = TRUE]
  /\ UNCHANGED <<server, stored, entry, made, phase, stale, connVars, memberVars>>

\* handleFrame on an update
HandleUpdate(h) ==
  /\ phase[h] = "select" /\ incoming[h] # << >>
  /\ incoming' = [incoming EXCEPT ![h] = Tail(@)]
  /\ updates' = [updates EXCEPT ![h] = Append(@, Head(incoming[h]))]
  /\ dirty' = [dirty EXCEPT ![h] = TRUE]
  /\ UNCHANGED <<server, stored, entry, made, phase, stale, connVars, memberVars>>

Tick(h, ok) ==
  /\ phase[h] = "select"
  /\ Flush(h, ok)
  /\ UNCHANGED <<server, entry, made, phase, updates, incoming, stale, connVars,
                 memberVars>>

\* case <-ctx.Done(): the hub stays in the map.
StopHub(h, ok) ==
  /\ server = "cancelled" /\ phase[h] = "select"
  /\ phase' = [phase EXCEPT ![h] = "gone"]
  /\ Flush(h, ok)
  /\ clients' = clients \ Members(h)
  /\ UNCHANGED <<server, entry, made, updates, incoming, stale, connVars, registering,
                 unregistering>>

-----------------------------------------------------------------------------
(***************************************************************************)
(* The process.                                                            *)
(***************************************************************************)

\* Run, told to stop: no more requests are taken, then the hubs are told.
Drain ==
  /\ server = "up" /\ server' = "draining"
  /\ UNCHANGED <<stored, entry, made, hubVars, connVars, memberVars>>

HubCancel ==
  /\ server = "draining" /\ server' = "cancelled"
  /\ UNCHANGED <<stored, entry, made, hubVars, connVars, memberVars>>

\* The process ends, with hubs running when it is killed, and starts again with
\* nothing but the store.
Restart ==
  /\ server' = "up" /\ entry' = NoHub
  /\ phase' = [h \in Hubs |-> IF phase[h] \in Running THEN "gone" ELSE phase[h]]
  /\ incoming' = [h \in Hubs |-> << >>]
  /\ state' = [c \in Conns |-> IF state[c] = "idle" THEN "idle" ELSE "left"]
  /\ registering' = {} /\ clients' = {} /\ unregistering' = {}
  /\ UNCHANGED <<stored, made, updates, dirty, stale, seed, hub>>

-----------------------------------------------------------------------------
Handler(c) ==
  \/ GetDocument(c) \/ Load(c) \/ LoadOther(c) \/ StoreNew(c)
  \/ UpgradeFails(c) \/ Register(c)
  \/ (\E e \in Edits : ReadEdit(c, e)) \/ ReadFails(c)

Goroutine(h) ==
  \/ (\E c \in Conns : hub[c] = h /\ (TakeRegister(c) \/ TakeUnregister(c)))
  \/ HandleUpdate(h) \/ OnEmpty(h)
  \/ \E ok \in BOOLEAN : FinalFlush(h, ok) \/ Tick(h, ok) \/ StopHub(h, ok)

Process == Drain \/ HubCancel \/ Restart

Next == (\E c \in Conns : Handler(c)) \/ (\E h \in Hubs : Goroutine(h)) \/ Process

Spec == Init /\ [][Next]_vars

\* Go's select is fair to a case that stays ready, the ticker to the store, and
\* the store does not refuse every write.
Fairness ==
  \A h \in Hubs : /\ WF_vars(\E ok \in BOOLEAN : FinalFlush(h, ok))
                  /\ WF_vars(OnEmpty(h))
                  /\ SF_vars(Tick(h, TRUE))

FairSpec == Spec /\ Fairness

-----------------------------------------------------------------------------
\* The hub in the map is the one that runs: no two hubs of the document take
\* frames or write the store side by side, and onEmpty deletes no other hub's
\* entry (server.go:120-144).
OneHubRuns == \A h \in Hubs : phase[h] \in Running => entry = h

\* A hub made from the state that was stored keeps everything stored: the store
\* is a beginning of its log, all of it when the hub is clean; what a stop, a
\* refused write or a restart loses is never something that was stored.
FreshHubKeepsStored ==
  \A h \in Hubs :
    (phase[h] \in Running /\ ~stale[h])
      => IsPrefix(stored, updates[h]) /\ (~dirty[h] => stored = updates[h])

\* An update the hub took in is stored, however its flushes and the departure of
\* its clients fall, unless the hub ends with its last write refused or killed.
AcceptedReachesStore ==
  \A h \in Hubs, e \in Edits :
    (phase[h] = "select" /\ ~stale[h] /\ e \in Range(updates[h]))
      ~> (e \in Range(stored) \/ (phase[h] = "gone" /\ dirty[h]))

-----------------------------------------------------------------------------
(***************************************************************************)
(* What README.md says, and the code does not do.                          *)
(***************************************************************************)

\* "the text must survive a full reload (proving Yjs state persistence)"
\* (README.md:126): what is stored stays stored.
StoredStaysStored == [][Range(stored) \subseteq Range(stored')]_vars
=============================================================================
