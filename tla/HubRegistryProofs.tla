-------------------------- MODULE HubRegistryProofs --------------------------
(***************************************************************************)
(* What holds of the hubs of a document, for any number of connections,    *)
(* updates, hubs made and restarts.  OneHubRuns, with the types, is        *)
(* inductive; FreshHubKeepsStored rests on it, because it is what makes    *)
(* the hub that flushes the only one the store has to agree with.          *)
(***************************************************************************)
EXTENDS HubRegistry, TLAPS

LEMMA PrefixReflexive ==
  ASSUME NEW S, NEW s \in Seq(S)
  PROVE  IsPrefix(s, s)
BY DEF IsPrefix

LEMMA PrefixOfAppend ==
  ASSUME NEW S, NEW s \in Seq(S), NEW t \in Seq(S), NEW e \in S, IsPrefix(s, t)
  PROVE  IsPrefix(s, Append(t, e))
<1>1. Len(s) <= Len(t) /\ Len(Append(t, e)) = Len(t) + 1
  BY DEF IsPrefix
<1>2. SubSeq(Append(t, e), 1, Len(s)) = SubSeq(t, 1, Len(s))
  BY <1>1
<1> QED
  BY <1>1, <1>2 DEF IsPrefix

\* A flush by h writes the log of h or nothing.
LEMMA FlushFacts ==
  ASSUME RegistryTypeOK, NEW h \in Hubs, NEW ok \in BOOLEAN, Flush(h, ok)
  PROVE  /\ dirty' \in [Hubs -> BOOLEAN]
         /\ \A g \in Hubs : g # h => dirty'[g] = dirty[g]
         /\ \/ dirty[h] /\ stored' = updates[h]
            \/ stored' = stored /\ dirty'[h] = dirty[h]
<1>1. /\ dirty \in [Hubs -> BOOLEAN]
      /\ dirty' = [dirty EXCEPT ![h] = @ /\ ~ok]
      /\ stored' = IF dirty[h] /\ ok THEN updates[h] ELSE stored
  BY DEF RegistryTypeOK, Flush
<1>2. dirty' \in [Hubs -> BOOLEAN] /\ dirty'[h] = (dirty[h] /\ ~ok)
      /\ \A g \in Hubs : g # h => dirty'[g] = dirty[g]
  BY <1>1
<1>3. CASE dirty[h] /\ ok
  BY <1>1, <1>2, <1>3
<1>4. CASE ~(dirty[h] /\ ok)
  BY <1>1, <1>2, <1>4
<1> QED
  BY <1>2, <1>3, <1>4

-----------------------------------------------------------------------------
LEMMA TypeStep ==
  ASSUME RegistryTypeOK, [Next]_vars
  PROVE  RegistryTypeOK'
<1> USE DEF Holding
<1>1. CASE UNCHANGED vars
  BY <1>1 DEF vars, hubVars, connVars, memberVars, RegistryTypeOK
<1> USE RegistryAssumption DEF RegistryTypeOK, hubVars, connVars, memberVars, Running,
                               Hubs, NoHub, Moves
<1>e. entry # NoHub => entry \in 1 .. made /\ entry \in Hubs
  OBVIOUS
<1>2. ASSUME NEW c \in Conns, Handler(c)
      PROVE  RegistryTypeOK'
  <2>1. CASE GetDocument(c)
    BY <2>1 DEF GetDocument
  <2>2. CASE Load(c)
    <3>1. hub' \in [Conns -> Hubs \cup {NoHub}]
      <4>1. hub' = hub \/ (entry \in Hubs /\ hub' = [hub EXCEPT ![c] = entry])
        BY <1>e, <2>2 DEF Load
      <4> QED
        BY <4>1
    <3>2. state' \in [Conns -> {"idle", "loaded", "missed", "acquired", "open", "left"}]
      BY <2>2 DEF Load
    <3>3. UNCHANGED <<server, stored, entry, made, hubVars, seed, memberVars>>
      BY <2>2 DEF Load
    <3>4. \A d \in Holding' : hub'[d] \in 1 .. made
      BY <1>e, <2>2 DEF Load
    <3> QED
      BY <3>1, <3>2, <3>3, <3>4
  <2>3. CASE LoadOther(c)
    <3>1. hub' = [hub EXCEPT ![c] = entry] /\ entry \in 1 .. made /\ entry \in Hubs
      BY <1>e, <2>3 DEF LoadOther
    <3>2. \A d \in Holding' : hub'[d] \in 1 .. made
      BY <2>3, <3>1 DEF LoadOther
    <3> QED
      BY <2>3, <3>1, <3>2 DEF LoadOther
  <2>4. CASE StoreNew(c)
    <3>1. made + 1 \in Hubs /\ seed[c] \in Seq(Edits) /\ (seed[c] # stored) \in BOOLEAN
      BY <2>4 DEF StoreNew
    <3>2. \A d \in Holding' : hub'[d] \in 1 .. made'
      BY <2>4, <3>1 DEF StoreNew
    <3> QED
      BY <2>4, <3>1, <3>2 DEF StoreNew
  <2>5. CASE UpgradeFails(c)
    BY <2>5 DEF UpgradeFails
  <2>6. CASE Register(c)
    BY <2>6 DEF Register
  <2>7. ASSUME NEW e \in Edits, ReadEdit(c, e)
        PROVE  RegistryTypeOK'
    <3>1. incoming' \in [Hubs -> Seq(Edits)]
      <4>1. CASE hub[c] \in Hubs
        BY <2>7, <4>1 DEF ReadEdit
      <4>2. CASE hub[c] \notin Hubs
        BY <2>7, <4>2 DEF ReadEdit
      <4> QED
        BY <4>1, <4>2
    <3> QED
      BY <2>7, <3>1 DEF ReadEdit
  <2>8. CASE ReadFails(c)
    BY <2>8 DEF ReadFails
  <2> QED
    BY <1>2, <2>1, <2>2, <2>3, <2>4, <2>5, <2>6, <2>7, <2>8 DEF Handler
<1>3. ASSUME NEW h \in Hubs, Goroutine(h)
      PROVE  RegistryTypeOK'
  <2>1. ASSUME NEW c \in Conns, TakeRegister(c)
        PROVE  RegistryTypeOK'
    BY <2>1 DEF TakeRegister
  <2>2. ASSUME NEW c \in Conns, TakeUnregister(c)
        PROVE  RegistryTypeOK'
    BY <2>2 DEF TakeUnregister
  <2>3. CASE HandleUpdate(h)
    BY <2>3 DEF HandleUpdate
  <2>4. CASE OnEmpty(h)
    BY <2>4 DEF OnEmpty
  <2>5. ASSUME NEW ok \in BOOLEAN, FinalFlush(h, ok) \/ Tick(h, ok) \/ StopHub(h, ok)
        PROVE  RegistryTypeOK'
    <3>1. Flush(h, ok)
      BY <2>5 DEF FinalFlush, Tick, StopHub
    <3>2. updates[h] \in Seq(Edits) /\ stored \in Seq(Edits)
      OBVIOUS
    <3>3. dirty' \in [Hubs -> BOOLEAN]
      BY <3>1, FlushFacts
    <3>4. stored' = updates[h] \/ stored' = stored
      BY <3>1, FlushFacts
    <3>5. stored' \in Seq(Edits)
      BY <3>2, <3>4
    <3> QED
      BY <2>5, <3>3, <3>5 DEF FinalFlush, Tick, StopHub
  <2> QED
    BY <1>3, <2>1, <2>2, <2>3, <2>4, <2>5 DEF Goroutine
<1>4. CASE Process
  <2>1. CASE Drain \/ HubCancel
    BY <2>1 DEF Drain, HubCancel
  <2>2. CASE Restart
    <3>1. << >> \in Seq(Edits)
      OBVIOUS
    <3>2. /\ phase' \in [Hubs -> Running \cup {"unborn", "gone"}]
          /\ incoming' \in [Hubs -> Seq(Edits)]
      BY <2>2, <3>1 DEF Restart
    <3>3. state' \in [Conns -> {"idle", "loaded", "missed", "acquired", "open", "left"}]
      BY <2>2 DEF Restart
    <3> QED
      BY <2>2, <3>2, <3>3 DEF Restart
  <2> QED
    BY <1>4, <2>1, <2>2 DEF Process
<1> QED
  BY <1>1, <1>2, <1>3, <1>4 DEF Next

LEMMA OneHubStep ==
  ASSUME RegistryTypeOK, OneHubRuns, [Next]_vars
  PROVE  OneHubRuns'
<1> USE DEF OneHubRuns, hubVars
<1>t. phase \in [Hubs -> Running \cup {"unborn", "gone"}] /\ NoHub \notin Hubs
  BY DEF RegistryTypeOK, Hubs, NoHub
<1>1. CASE UNCHANGED <<phase, entry>>
  BY <1>1
<1>2. ASSUME NEW c \in Conns, StoreNew(c)
      PROVE  OneHubRuns'
  BY <1>t, <1>2 DEF StoreNew
<1>3. ASSUME NEW h \in Hubs, NEW p \in {"emptied", "flushed", "gone"}, phase[h] \in Running,
             phase' = [phase EXCEPT ![h] = p], entry' = entry
      PROVE  OneHubRuns'
  BY <1>t, <1>3
<1>4. ASSUME NEW h \in Hubs, OnEmpty(h)
      PROVE  OneHubRuns'
  BY <1>t, <1>4 DEF OnEmpty, Running
<1>5. CASE Restart
  BY <1>t, <1>5 DEF Restart, Running
<1>6. ASSUME NEW c \in Conns, Handler(c), ~StoreNew(c)
      PROVE  OneHubRuns'
  BY <1>1, <1>6 DEF Handler, GetDocument, Load, LoadOther, UpgradeFails, Register,
                    ReadEdit, ReadFails
<1>7. ASSUME NEW h \in Hubs, Goroutine(h), ~OnEmpty(h)
      PROVE  OneHubRuns'
  <2>1. ASSUME NEW c \in Conns, hub[c] = h, TakeRegister(c) \/ TakeUnregister(c)
        PROVE  OneHubRuns'
    BY <1>1, <1>3, <2>1 DEF TakeRegister, TakeUnregister, Running
  <2>2. CASE HandleUpdate(h)
    BY <1>1, <2>2 DEF HandleUpdate
  <2>3. ASSUME NEW ok \in BOOLEAN, FinalFlush(h, ok) \/ Tick(h, ok) \/ StopHub(h, ok)
        PROVE  OneHubRuns'
    BY <1>1, <1>3, <2>3 DEF FinalFlush, Tick, StopHub, Running
  <2> QED
    BY <1>7, <2>1, <2>2, <2>3 DEF Goroutine
<1>8. CASE Drain \/ HubCancel \/ UNCHANGED vars
  BY <1>1, <1>8 DEF Drain, HubCancel, vars
<1> QED
  BY <1>2, <1>4, <1>5, <1>6, <1>7, <1>8 DEF Next, Process

-----------------------------------------------------------------------------
LEMMA KeepsStep ==
  ASSUME RegistryTypeOK, OneHubRuns, FreshHubKeepsStored, [Next]_vars
  PROVE  FreshHubKeepsStored'
<1> USE DEF hubVars
<1>t. /\ phase \in [Hubs -> Running \cup {"unborn", "gone"}]
      /\ stored \in Seq(Edits) /\ updates \in [Hubs -> Seq(Edits)]
      /\ dirty \in [Hubs -> BOOLEAN] /\ stale \in [Hubs -> BOOLEAN]
  BY DEF RegistryTypeOK
<1>1. ASSUME UNCHANGED <<stored, updates, dirty, stale>>,
             \A h \in Hubs : phase'[h] \in Running => phase[h] \in Running
      PROVE  FreshHubKeepsStored'
  BY <1>1 DEF FreshHubKeepsStored
<1>2. ASSUME NEW c \in Conns, StoreNew(c)
      PROVE  FreshHubKeepsStored'
  <2> DEFINE h == made + 1
  <2>1. /\ h \in Hubs /\ stored' = stored /\ dirty' = dirty
        /\ phase' = [phase EXCEPT ![h] = "select"]
        /\ updates' = [updates EXCEPT ![h] = seed[c]]
        /\ stale' = [stale EXCEPT ![h] = seed[c] # stored]
    BY <1>2, RegistryAssumption DEF StoreNew, RegistryTypeOK, Hubs
  <2> HIDE DEF h
  <2>2. \A g \in Hubs : g # h => /\ phase'[g] = phase[g] /\ updates'[g] = updates[g]
                                /\ stale'[g] = stale[g]
    BY <1>t, <2>1
  <2>3. ~stale'[h] => updates'[h] = stored
    BY <1>t, <2>1
  <2> QED
    BY <1>t, <2>1, <2>2, <2>3, PrefixReflexive DEF FreshHubKeepsStored
<1>3. ASSUME NEW h \in Hubs, HandleUpdate(h)
      PROVE  FreshHubKeepsStored'
  <2> DEFINE e == Head(incoming[h])
  <2>1. /\ e \in Edits /\ stored' = stored /\ phase' = phase /\ stale' = stale
        /\ updates' = [updates EXCEPT ![h] = Append(@, e)]
        /\ dirty' = [dirty EXCEPT ![h] = TRUE]
        /\ phase[h] \in Running
    BY <1>3 DEF HandleUpdate, RegistryTypeOK, Running
  <2> HIDE DEF e
  <2>2. /\ \A g \in Hubs : g # h => updates'[g] = updates[g] /\ dirty'[g] = dirty[g]
        /\ updates'[h] = Append(updates[h], e) /\ dirty'[h]
    BY <1>t, <2>1
  <2>3. ~stale[h] => IsPrefix(stored', updates'[h])
    BY <1>t, <2>1, <2>2, PrefixOfAppend DEF FreshHubKeepsStored
  <2> QED
    BY <2>1, <2>2, <2>3 DEF FreshHubKeepsStored
<1>4. ASSUME NEW h \in Hubs, NEW ok \in BOOLEAN, Flush(h, ok), phase[h] \in Running,
             \A g \in Hubs : phase'[g] \in Running => phase[g] \in Running,
             UNCHANGED <<updates, stale>>
      PROVE  FreshHubKeepsStored'
  <2>1. \A g \in Hubs : phase[g] \in Running => g = h
    BY <1>4 DEF OneHubRuns
  <2>2. \/ stored' = updates[h]
        \/ stored' = stored /\ dirty'[h] = dirty[h]
    BY <1>4, FlushFacts
  <2>3. CASE stored' = updates[h]
    BY <1>t, <1>4, <2>1, <2>3, PrefixReflexive DEF FreshHubKeepsStored
  <2>4. CASE stored' = stored /\ dirty'[h] = dirty[h]
    BY <1>4, <2>1, <2>4 DEF FreshHubKeepsStored
  <2> QED
    BY <2>2, <2>3, <2>4
<1>5. ASSUME NEW c \in Conns, Handler(c), ~StoreNew(c)
      PROVE  FreshHubKeepsStored'
  BY <1>1, <1>5 DEF Handler, GetDocument, Load, LoadOther, UpgradeFails, Register,
                    ReadEdit, ReadFails
<1>6. ASSUME NEW h \in Hubs, NEW c \in Conns, hub[c] = h,
             TakeRegister(c) \/ TakeUnregister(c)
      PROVE  FreshHubKeepsStored'
  BY <1>t, <1>1, <1>6 DEF TakeRegister, TakeUnregister, Running
<1>7. ASSUME NEW h \in Hubs, OnEmpty(h)
      PROVE  FreshHubKeepsStored'
  BY <1>t, <1>1, <1>7 DEF OnEmpty, Running
<1>8. ASSUME NEW h \in Hubs, NEW ok \in BOOLEAN,
             FinalFlush(h, ok) \/ Tick(h, ok) \/ StopHub(h, ok)
      PROVE  FreshHubKeepsStored'
  BY <1>t, <1>4, <1>8 DEF FinalFlush, Tick, StopHub, Running
<1>9. CASE Process \/ UNCHANGED vars
  BY <1>t, <1>1, <1>9 DEF Process, Drain, HubCancel, Restart, Running, vars
<1> QED
  BY <1>2, <1>3, <1>5, <1>6, <1>7, <1>8, <1>9 DEF Next, Goroutine

-----------------------------------------------------------------------------
RegistryInv == RegistryTypeOK /\ OneHubRuns /\ FreshHubKeepsStored

\* RegistryInv is inductive: types, one running hub, and what it has of the store.
LEMMA RegistryInvariant == Spec => []RegistryInv
<1>1. Init => RegistryInv
  <2> SUFFICES ASSUME Init PROVE RegistryInv
    OBVIOUS
  <2>1. << >> \in Seq(Edits)
    OBVIOUS
  <2>2. RegistryTypeOK
    <3>1. Holding = {}
      BY DEF Init, Holding
    <3> QED
      BY <2>1, <3>1, RegistryAssumption DEF Init, RegistryTypeOK, Running
  <2>3. OneHubRuns /\ FreshHubKeepsStored
    BY DEF Init, OneHubRuns, FreshHubKeepsStored, Running
  <2> QED
    BY <2>2, <2>3 DEF RegistryInv
<1>2. RegistryInv /\ [Next]_vars => RegistryInv'
  BY TypeStep, OneHubStep, KeepsStep DEF RegistryInv
<1> QED
  BY <1>1, <1>2, PTL DEF Spec

\* Requests, hubs and the stored state keep their types through stops and restarts, and
\* whoever has a hub has one whose goroutine was started (server.go:45-70, 120-158).
THEOREM RegistryTypes == Spec => []RegistryTypeOK
BY RegistryInvariant, PTL DEF RegistryInv

\* However requests, departures, stops and restarts interleave, at most one hub
\* of a document runs, and it is the one in Server.hubs (server.go:120-144).
THEOREM OneHubAtATime == Spec => []OneHubRuns
BY RegistryInvariant, PTL DEF RegistryInv

\* A hub made from the state that was stored never lets anything stored go
\* (ws.go:26-48, hub.go:78-91 and 214-230): text that was stored is lost only
\* through a hub made from a state read too early.
THEOREM FreshHubsLoseNothing == Spec => []FreshHubKeepsStored
BY RegistryInvariant, PTL DEF RegistryInv
=============================================================================
