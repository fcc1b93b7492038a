--------------------------- MODULE HubLogProofs ---------------------------
(***************************************************************************)
(* That the hub implements DurableLog, that its log is causal, that who is *)
(* fully served lacks nothing, and that an ended hub has saved its text:   *)
(* for any number of connections and updates, any channel capacities and   *)
(* any stored log.                                                         *)
(*                                                                         *)
(* EditsInv follows an update from its author through incoming into the    *)
(* log and on to the send channels.                                        *)
(***************************************************************************)
EXTENDS HubProofs

IsEdit(i) == incoming[i].kind = "edit"

\* The updates in the log or, before place i, on their way to it.
Ahead(i) == Range(updates) \cup
            {incoming[j].body : j \in {k \in 1 .. Len(incoming) : k < i /\ IsEdit(k)}}

\* An update on its way is known to its author, is not in the log, and comes after
\* what it depends on.
PendingOK ==
  \A i \in 1 .. Len(incoming) : IsEdit(i) =>
    /\ incoming[i].body \in have[incoming[i].from]
    /\ incoming[i].body \notin Range(updates)
    /\ basis[incoming[i].body] \subseteq Ahead(i)

\* It is on its way once.
PendingOnce ==
  \A i, j \in 1 .. Len(incoming) :
    (IsEdit(i) /\ IsEdit(j) /\ incoming[i].body = incoming[j].body) => i = j

\* What a browser has is in the log or on its way.
HaveOK == \A c \in Conns : have[c] \subseteq Ahead(Len(incoming) + 1)

QueuedOK == \A c \in Conns : Queued(c) \subseteq Range(updates)

LogWritten == Range(updates) \subseteq Written

EditsInv == PendingOK /\ PendingOnce /\ HaveOK /\ QueuedOK /\ LogWritten /\ CausalLog

-----------------------------------------------------------------------------
\* Steps that move no update: frames of other kinds come and go, and what is put in a
\* send channel is in the log.
QuietStep ==
  /\ UNCHANGED <<updates, have, basis>>
  /\ \A c \in Conns : Queued(c)' \subseteq Queued(c) \cup Range(updates)
  /\ \/ UNCHANGED incoming
     \/ \E f \in Frames : f.kind # "edit" /\ incoming' = Append(incoming, f)
     \/ incoming # << >> /\ Head(incoming).kind # "edit" /\ incoming' = Tail(incoming)

LEMMA RangeOfAppend ==
  ASSUME NEW S, NEW s \in Seq(S), NEW e
  PROVE  Range(Append(s, e)) = Range(s) \cup {e}
<1>1. Len(Append(s, e)) = Len(s) + 1 /\ Len(s) \in Nat
      /\ DOMAIN s = 1 .. Len(s) /\ DOMAIN Append(s, e) = 1 .. Len(s) + 1
  OBVIOUS
<1>2. \A i \in 1 .. Len(s) : Append(s, e)[i] = s[i]
  OBVIOUS
<1>3. Append(s, e)[Len(s) + 1] = e
  OBVIOUS
<1>4. Range(Append(s, e)) \subseteq Range(s) \cup {e}
  BY <1>1, <1>2, <1>3 DEF Range
<1>5. Range(s) \subseteq Range(Append(s, e))
  <2>1. \A i \in DOMAIN s : i \in DOMAIN Append(s, e) /\ Append(s, e)[i] = s[i]
    BY <1>1, <1>2
  <2> QED
    BY <2>1 DEF Range
<1>6. e \in Range(Append(s, e))
  BY <1>1, <1>3 DEF Range
<1> QED
  BY <1>4, <1>5, <1>6

LEMMA RangeOfTail ==
  ASSUME NEW S, NEW s \in Seq(S), s # << >>
  PROVE  Range(s) = Range(Tail(s)) \cup {Head(s)}
<1>1. /\ Len(s) \in Nat /\ Len(s) >= 1 /\ DOMAIN s = 1 .. Len(s)
      /\ DOMAIN Tail(s) = 1 .. Len(s) - 1 /\ Head(s) = s[1]
  OBVIOUS
<1>2. \A i \in 1 .. Len(s) - 1 : Tail(s)[i] = s[i + 1]
  OBVIOUS
<1>3. Range(Tail(s)) \subseteq Range(s)
  BY <1>1, <1>2 DEF Range
<1>4. Head(s) \in Range(s)
  BY <1>1 DEF Range
<1>5. ASSUME NEW i \in 1 .. Len(s)
      PROVE  s[i] \in Range(Tail(s)) \cup {Head(s)}
  <2>1. CASE i = 1
    BY <1>1, <2>1
  <2>2. CASE i # 1
    <3>1. i - 1 \in 1 .. Len(s) - 1 /\ Tail(s)[i - 1] = s[i]
      BY <1>1, <1>2, <2>2
    <3> QED
      BY <1>1, <3>1 DEF Range
  <2> QED
    BY <2>1, <2>2
<1> QED
  BY <1>1, <1>3, <1>4, <1>5 DEF Range

\* A broadcast of msg puts nothing but msg in a send channel.
LEMMA BroadcastQueues ==
  ASSUME TypeOK, NEW from \in Conns, NEW msg, Broadcast(from, msg), NEW c \in Conns
  PROVE  Queued(c)' \subseteq Queued(c) \cup ({msg} \ {Blank})
<1>1. send'[c] = send[c] \/ send'[c] = Append(send[c], msg)
  BY DEF Broadcast
<1>2. Range(Append(send[c], msg)) = Range(send[c]) \cup {msg}
  BY RangeOfAppend DEF TypeOK
<1> QED
  BY <1>1, <1>2 DEF Queued

LEMMA QuietBroadcast ==
  ASSUME TypeOK, HandleRelay
  PROVE  \A c \in Conns : Queued(c)' \subseteq Queued(c)
<1>1. Head(incoming).from \in Conns
  BY TakeFrameFacts DEF HandleRelay
<1> QED
  BY <1>1, BroadcastQueues DEF HandleRelay

\* What sendInitialSync delivers is in the log.
LEMMA SyncQueues ==
  ASSUME TypeOK, SyncingOK, SyncDeliver, NEW c \in Conns
  PROVE  Queued(c)' \subseteq Queued(c) \cup Range(updates)
<1> DEFINE u == updates[syncing.next]
<1>1. /\ syncing.to \in Conns /\ u \in Range(updates)
      /\ send \in [Conns -> Seq(Edits \cup {Blank})]
  BY DEF SyncDeliver, SyncingOK, TypeOK, Range
<1>2. \/ send' = send
      \/ send' = [send EXCEPT ![syncing.to] = Append(@, u)]
  BY DEF SyncDeliver
<1> HIDE DEF u
<1>3. send'[c] = send[c] \/ send'[c] = Append(send[c], u)
  BY <1>1, <1>2
<1>4. Range(Append(send[c], u)) = Range(send[c]) \cup {u}
  BY <1>1, RangeOfAppend
<1>5. Range(send'[c]) \subseteq Range(send[c]) \cup Range(updates)
  BY <1>1, <1>3, <1>4
<1> QED
  BY <1>5 DEF Queued

\* An empty Step2 is no update.
LEMMA Step1Queues ==
  ASSUME TypeOK, HandleStep1, NEW c \in Conns
  PROVE  Queued(c)' \subseteq Queued(c)
<1> DEFINE d == Head(incoming).from
<1>1. d \in Conns /\ send \in [Conns -> Seq(Edits \cup {Blank})]
  BY TakeFrameFacts DEF HandleStep1, TypeOK
<1>2. send' = send \/ send' = [send EXCEPT ![d] = Append(@, Blank)]
  BY DEF HandleStep1
<1> HIDE DEF d
<1>3. send'[c] = send[c] \/ send'[c] = Append(send[c], Blank)
  BY <1>1, <1>2
<1>4. Range(Append(send[c], Blank)) = Range(send[c]) \cup {Blank}
  BY <1>1, RangeOfAppend
<1> QED
  BY <1>3, <1>4 DEF Queued

LEMMA StepOfUpdates ==
  ASSUME TypeOK, SyncingOK, [Next]_vars
  PROVE  \/ QuietStep
         \/ \E c \in Conns : WriteNext(c) \/ \E e \in Edits : ReadEdit(c, e)
         \/ HandleUpdate
<1> USE DEF QuietStep, docVars, chanVars, connVars, histVars, Queued
<1>1. CASE UNCHANGED vars
  BY <1>1 DEF vars
<1>2. ASSUME NEW c \in Conns,
             \/ AcquireHub(c) \/ UpgradeFails(c) \/ Register(c) \/ ReadFails(c)
             \/ WriterReturns(c)
      PROVE  QuietStep
  BY <1>2 DEF AcquireHub, UpgradeFails, Register, ReadFails, WriterReturns
<1>3. ASSUME NEW c \in Conns, ReadStep1(c) \/ ReadOther(c)
      PROVE  QuietStep
  <2>1. ASSUME NEW k, NEW b, ReadFrame(c, k, b), UNCHANGED <<have, basis>>,
               k # "edit", Frame(c, k, b) \in Frames
        PROVE  QuietStep
    <3>1. incoming' = Append(incoming, Frame(c, k, b)) /\ Frame(c, k, b).kind # "edit"
      BY <2>1 DEF ReadFrame, Frame
    <3> QED
      BY <2>1, <3>1 DEF ReadFrame
  <2>2. CASE ReadStep1(c)
    <3>1. Frame(c, "step1", Blank) \in Frames
      BY DEF Frame, Frames
    <3> QED
      BY <2>1, <2>2, <3>1 DEF ReadStep1
  <2>3. CASE ReadOther(c)
    <3>1. \A k \in OtherKinds \ {"text"} : k # "edit" /\ Frame(c, k, Blank) \in Frames
      BY HubAssumption DEF Frame, Frames
    <3>2. \A t \in Texts : Frame(c, "text", t) \in Frames
      BY DEF Frame, Frames
    <3> QED
      BY <2>1, <2>3, <3>1, <3>2 DEF ReadOther
  <2> QED
    BY <1>3, <2>2, <2>3
<1>4. CASE TakeRegister \/ IgnoreUnregister
  BY <1>4 DEF TakeRegister, IgnoreUnregister
<1>5. CASE TakeUnregister
  <2>1. UNCHANGED updates
    BY <1>5 DEF TakeUnregister, EndIfEmpty, Flush
  <2> QED
    BY <1>5, <2>1 DEF TakeUnregister
<1>6. CASE HandleStep1Closed
  BY <1>6 DEF HandleStep1Closed, TakeFrame
<1>7. CASE HandleStep1
  <2>1. \A c \in Conns : Queued(c)' \subseteq Queued(c)
    BY <1>7, Step1Queues
  <2> QED
    BY <1>7, <2>1 DEF HandleStep1, TakeFrame
<1>8. CASE SyncDeliver
  <2>1. \A c \in Conns : Queued(c)' \subseteq Queued(c) \cup Range(updates)
    BY <1>8, SyncQueues
  <2> QED
    BY <1>8, <2>1 DEF SyncDeliver
<1>9. CASE HandleRelay
  <2>1. \A c \in Conns : Queued(c)' \subseteq Queued(c)
    BY <1>9, QuietBroadcast
  <2> QED
    BY <1>9, <2>1 DEF HandleRelay, TakeFrame
<1>10. CASE HandleText \/ HandleIgnored
  BY <1>10 DEF HandleText, HandleIgnored, TakeFrame
<1>11. CASE (\E ok \in BOOLEAN : Tick(ok)) \/ Shutdown
  BY <1>11 DEF Tick, Shutdown, Flush
<1> QED
  BY <1>1, <1>2, <1>3, <1>4, <1>5, <1>6, <1>7, <1>8, <1>9, <1>10, <1>11
  DEF Next, Connection, Goroutine

-----------------------------------------------------------------------------
\* A quiet step moves every update in incoming by the same number of places.
LEMMA QuietPlaces ==
  ASSUME TypeOK, QuietStep
  PROVE  \E s \in {0, 1} :
           /\ \A i \in 1 .. Len(incoming') : IsEdit(i)' =>
                i + s \in 1 .. Len(incoming) /\ incoming'[i] = incoming[i + s]
           /\ \A j \in 1 .. Len(incoming) : IsEdit(j) =>
                j - s \in 1 .. Len(incoming') /\ incoming'[j - s] = incoming[j]
<1>1. incoming \in Seq(Frames)
  BY DEF TypeOK
<1>2. CASE UNCHANGED incoming
  <2>1. /\ \A i \in 1 .. Len(incoming') : i + 0 \in 1 .. Len(incoming)
                                          /\ incoming'[i] = incoming[i + 0]
        /\ \A j \in 1 .. Len(incoming) : j - 0 \in 1 .. Len(incoming')
                                         /\ incoming'[j - 0] = incoming[j]
    BY <1>1, <1>2
  <2> QED
    BY <2>1
<1>3. ASSUME NEW f \in Frames, f.kind # "edit", incoming' = Append(incoming, f)
      PROVE  /\ \A i \in 1 .. Len(incoming') : IsEdit(i)' =>
                  i + 0 \in 1 .. Len(incoming) /\ incoming'[i] = incoming[i + 0]
             /\ \A j \in 1 .. Len(incoming) :
                  j - 0 \in 1 .. Len(incoming') /\ incoming'[j - 0] = incoming[j]
  <2>1. /\ Len(incoming') = Len(incoming) + 1 /\ Len(incoming) \in Nat
        /\ incoming'[Len(incoming) + 1] = f
        /\ \A j \in 1 .. Len(incoming) : incoming'[j] = incoming[j]
    BY <1>1, <1>3
  <2> QED
    BY <1>3, <2>1 DEF IsEdit
<1>4. ASSUME incoming # << >>, Head(incoming).kind # "edit", incoming' = Tail(incoming)
      PROVE  /\ \A i \in 1 .. Len(incoming') :
                  i + 1 \in 1 .. Len(incoming) /\ incoming'[i] = incoming[i + 1]
             /\ \A j \in 1 .. Len(incoming) : IsEdit(j) =>
                  j - 1 \in 1 .. Len(incoming') /\ incoming'[j - 1] = incoming[j]
  <2>1. /\ Len(incoming) \in Nat /\ Len(incoming) >= 1 /\ Head(incoming) = incoming[1]
        /\ Len(incoming') = Len(incoming) - 1
        /\ \A i \in 1 .. Len(incoming) - 1 : incoming'[i] = incoming[i + 1]
    BY <1>1, <1>4
  <2> QED
    BY <1>4, <2>1 DEF IsEdit
<1>5. CASE \E f \in Frames : f.kind # "edit" /\ incoming' = Append(incoming, f)
  BY <1>3, <1>5
<1>6. CASE incoming # << >> /\ Head(incoming).kind # "edit" /\ incoming' = Tail(incoming)
  BY <1>4, <1>6
<1> QED
  BY <1>2, <1>5, <1>6 DEF QuietStep

LEMMA QuietEdits ==
  ASSUME TypeOK, EditsInv, QuietStep
  PROVE  EditsInv'
<1>1. PICK s \in {0, 1} :
        /\ \A i \in 1 .. Len(incoming') : IsEdit(i)' =>
             i + s \in 1 .. Len(incoming) /\ incoming'[i] = incoming[i + s]
        /\ \A j \in 1 .. Len(incoming) : IsEdit(j) =>
             j - s \in 1 .. Len(incoming') /\ incoming'[j - s] = incoming[j]
  BY QuietPlaces
<1>2. UNCHANGED <<updates, have, basis>> /\ Len(incoming) \in Nat /\ Len(incoming') \in Nat
  <2>1. Len(incoming) \in Nat
    BY DEF TypeOK
  <2>2. incoming' \in Seq(Frames)
    <3>1. incoming \in Seq(Frames)
      BY DEF TypeOK
    <3> QED
      BY <3>1 DEF QuietStep
  <2>3. Len(incoming') \in Nat
    BY <2>2
  <2> QED
    BY <2>1, <2>3 DEF QuietStep
<1>3. \A i \in 1 .. Len(incoming') : IsEdit(i)' => IsEdit(i + s)
  BY <1>1 DEF IsEdit
<1>4. ASSUME NEW j \in 1 .. Len(incoming), IsEdit(j)
      PROVE  j - s \in 1 .. Len(incoming') /\ IsEdit(j - s)'
             /\ incoming'[j - s].body = incoming[j].body
  BY <1>1, <1>4 DEF IsEdit
<1>5. ASSUME NEW i \in Nat, NEW k \in Nat, \A j \in 1 .. Len(incoming) : j < k => j - s < i
      PROVE  Ahead(k) \subseteq Ahead(i)'
  <2> SUFFICES ASSUME NEW j \in 1 .. Len(incoming), j < k, IsEdit(j)
               PROVE  incoming[j].body \in Ahead(i)'
    BY <1>2 DEF Ahead
  <2>1. j - s \in 1 .. Len(incoming') /\ IsEdit(j - s)' /\ j - s < i
        /\ incoming'[j - s].body = incoming[j].body
    BY <1>4, <1>5
  <2> QED
    BY <2>1 DEF Ahead
<1>6. PendingOK'
  <2> SUFFICES ASSUME NEW i \in 1 .. Len(incoming'), IsEdit(i)'
               PROVE  /\ incoming'[i].body \in have[incoming'[i].from]
                      /\ incoming'[i].body \notin Range(updates)
                      /\ basis[incoming'[i].body] \subseteq Ahead(i)'
    BY <1>2 DEF PendingOK
  <2>1. i + s \in 1 .. Len(incoming) /\ incoming'[i] = incoming[i + s] /\ IsEdit(i + s)
    BY <1>1, <1>3
  <2>2. \A j \in 1 .. Len(incoming) : j < i + s => j - s < i
    OBVIOUS
  <2>3. Ahead(i + s) \subseteq Ahead(i)'
    BY <1>5, <2>2
  <2> QED
    BY <2>1, <2>3 DEF EditsInv, PendingOK
<1>7. PendingOnce'
  <2> SUFFICES ASSUME NEW i \in 1 .. Len(incoming'), NEW j \in 1 .. Len(incoming'),
                      IsEdit(i)', IsEdit(j)', incoming'[i].body = incoming'[j].body
               PROVE  i = j
    BY DEF PendingOnce
  <2>1. /\ i + s \in 1 .. Len(incoming) /\ incoming'[i] = incoming[i + s] /\ IsEdit(i + s)
        /\ j + s \in 1 .. Len(incoming) /\ incoming'[j] = incoming[j + s] /\ IsEdit(j + s)
    BY <1>1, <1>3
  <2>2. i + s = j + s
    BY <2>1 DEF EditsInv, PendingOnce
  <2> QED
    BY <2>2
<1>8. HaveOK'
  <2>1. \A j \in 1 .. Len(incoming) : IsEdit(j) => j - s < Len(incoming') + 1
    BY <1>2, <1>4
  <2>2. Ahead(Len(incoming) + 1) \subseteq Ahead(Len(incoming) + 1)'
    <3> SUFFICES ASSUME NEW j \in 1 .. Len(incoming), IsEdit(j)
                 PROVE  incoming[j].body \in Ahead(Len(incoming) + 1)'
      BY <1>2 DEF Ahead
    <3>1. j - s \in 1 .. Len(incoming') /\ IsEdit(j - s)' /\ j - s < Len(incoming') + 1
          /\ incoming'[j - s].body = incoming[j].body
      BY <1>4, <2>1
    <3> QED
      BY <3>1 DEF Ahead
  <2> QED
    BY <1>2, <2>2 DEF EditsInv, HaveOK
<1>9. QueuedOK' /\ LogWritten' /\ CausalLog'
  BY <1>2 DEF EditsInv, QueuedOK, LogWritten, CausalLog, Written, QuietStep
<1> QED
  BY <1>6, <1>7, <1>8, <1>9 DEF EditsInv

\* What somebody has was written.
LEMMA HaveWritten ==
  ASSUME NEW c \in Conns
  PROVE  have[c] \subseteq Written
BY DEF Written

\* A browser types an update: it comes behind all it depends on.
LEMMA ReadEditEdits ==
  ASSUME TypeOK, EditsInv, NEW c \in Conns, NEW e \in Edits, ReadEdit(c, e)
  PROVE  EditsInv'
<1> DEFINE f == Frame(c, "edit", e)
<1>n. PICK n \in Nat : n = Len(incoming)
  BY DEF TypeOK
<1>1. /\ incoming' = Append(incoming, f) /\ e \notin Written
      /\ UNCHANGED <<updates, send>>
      /\ have' = [have EXCEPT ![c] = @ \cup {e}]
      /\ basis' = [basis EXCEPT ![e] = have[c]]
  BY DEF ReadEdit, ReadFrame, docVars
<1>2. /\ have \in [Conns -> SUBSET Edits] /\ basis \in [Edits -> SUBSET Edits]
      /\ incoming \in Seq(Frames) /\ updates \in Seq(Edits)
  BY DEF TypeOK
<1>3. /\ n \in Nat /\ Len(incoming') = n + 1 /\ incoming'[n + 1] = f
      /\ \A i \in 1 .. n : incoming'[i] = incoming[i]
  BY <1>n, <1>1, <1>2
<1>4. f.kind = "edit" /\ f.body = e /\ f.from = c
  BY DEF Frame
<1> HIDE DEF f
<1>5. \A d \in Conns : have[d] \subseteq have'[d] /\ have'[d] \subseteq have[d] \cup {e}
  BY <1>1, <1>2
<1>6. e \in have'[c] /\ basis'[e] = have[c] /\ \A b \in Edits : b # e => basis'[b] = basis[b]
  BY <1>1, <1>2
<1>7. ASSUME NEW i \in Nat
      PROVE  Ahead(i) \subseteq Ahead(i)'
  <2> SUFFICES ASSUME NEW j \in 1 .. n, j < i, IsEdit(j)
               PROVE  incoming[j].body \in Ahead(i)'
    BY <1>n, <1>1 DEF Ahead
  <2>1. j \in 1 .. Len(incoming') /\ IsEdit(j)' /\ incoming'[j].body = incoming[j].body
    BY <1>3 DEF IsEdit
  <2> QED
    BY <2>1 DEF Ahead
<1>8. Ahead(n + 1) \cup {e} \subseteq Ahead(Len(incoming) + 1)'
  <2>1. Ahead(n + 1) \subseteq Ahead(Len(incoming) + 1)'
    <3> SUFFICES ASSUME NEW j \in 1 .. n, IsEdit(j)
                 PROVE  incoming[j].body \in Ahead(Len(incoming) + 1)'
      BY <1>n, <1>1 DEF Ahead
    <3>1. /\ j \in 1 .. Len(incoming') /\ j < Len(incoming') + 1 /\ IsEdit(j)'
          /\ incoming'[j].body = incoming[j].body
      BY <1>3 DEF IsEdit
    <3> QED
      BY <3>1 DEF Ahead
  <2>2. /\ n + 1 \in 1 .. Len(incoming') /\ n + 1 < Len(incoming') + 1
        /\ IsEdit(n + 1)' /\ incoming'[n + 1].body = e
    <3>1. incoming'[n + 1].kind = "edit" /\ incoming'[n + 1].body = e
      BY <1>3, <1>4
    <3>2. IsEdit(n + 1)'
      BY <1>3, <3>1 DEF IsEdit
    <3> QED
      BY <1>3, <3>1, <3>2
  <2>3. e \in Ahead(Len(incoming) + 1)'
    BY <2>2 DEF Ahead
  <2> QED
    BY <2>1, <2>3
<1>9. \A i \in 1 .. n : IsEdit(i) =>
        /\ incoming[i].from \in Conns /\ incoming[i].body \in Edits
        /\ incoming[i].body \in have[incoming[i].from] /\ incoming[i].body # e
  BY <1>n, <1>1, <1>2, HaveWritten DEF EditsInv, PendingOK, IsEdit, Frames
<1>10. ASSUME NEW i \in 1 .. Len(incoming'), IsEdit(i)'
       PROVE  \/ i \in 1 .. n /\ IsEdit(i) /\ incoming'[i] = incoming[i]
              \/ i = n + 1 /\ incoming'[i] = f
  BY <1>3, <1>10 DEF IsEdit
<1>11. PendingOK'
  <2> SUFFICES ASSUME NEW i \in 1 .. Len(incoming'), IsEdit(i)'
               PROVE  /\ incoming'[i].body \in have'[incoming'[i].from]
                      /\ incoming'[i].body \notin Range(updates)
                      /\ basis'[incoming'[i].body] \subseteq Ahead(i)'
    BY <1>1 DEF PendingOK
  <2>1. CASE i \in 1 .. n /\ IsEdit(i) /\ incoming'[i] = incoming[i]
    <3>1. Ahead(i) \subseteq Ahead(i)'
      BY <1>7, <2>1
    <3> QED
      BY <1>n, <1>5, <1>6, <1>9, <2>1, <3>1 DEF EditsInv, PendingOK
  <2>2. CASE i = n + 1 /\ incoming'[i] = f
    <3>1. e \notin Range(updates)
      BY <1>1 DEF EditsInv, LogWritten
    <3>2. have[c] \subseteq Ahead(n + 1)
      BY <1>n DEF EditsInv, HaveOK
    <3>3. Ahead(n + 1) \subseteq Ahead(i)'
      BY <1>3, <1>7, <2>2
    <3> QED
      BY <1>4, <1>6, <2>2, <3>1, <3>2, <3>3
  <2> QED
    BY <1>10, <2>1, <2>2
<1>12. PendingOnce'
  <2> SUFFICES ASSUME NEW i \in 1 .. Len(incoming'), NEW j \in 1 .. Len(incoming'),
                      IsEdit(i)', IsEdit(j)', incoming'[i].body = incoming'[j].body
               PROVE  i = j
    BY DEF PendingOnce
  <2>1. i \in 1 .. n /\ j \in 1 .. n => i = j
    BY <1>n, <1>3, <1>10 DEF EditsInv, PendingOnce
  <2> QED
    BY <1>3, <1>4, <1>9, <1>10, <2>1
<1>13. HaveOK'
  <2>1. \A d \in Conns : have[d] \subseteq Ahead(n + 1)
    BY <1>n DEF EditsInv, HaveOK
  <2> QED
    BY <1>5, <1>8, <2>1 DEF HaveOK
<1>14. QueuedOK'
  BY <1>1 DEF EditsInv, QueuedOK, Queued
<1>15. LogWritten'
  <2>1. Written \subseteq Written'
    BY <1>5 DEF Written
  <2> QED
    BY <1>1, <2>1 DEF EditsInv, LogWritten
<1>16. CausalLog'
  <2>1. \A i \in 1 .. Len(updates) : updates[i] \in Edits /\ updates[i] # e
    BY <1>1, <1>2 DEF EditsInv, LogWritten, Range
  <2> SUFFICES ASSUME NEW i \in 1 .. Len(updates)
               PROVE  basis'[updates[i]] \subseteq {updates[j] : j \in 1 .. i - 1}
    BY <1>1 DEF CausalLog
  <2>2. basis'[updates[i]] = basis[updates[i]]
    BY <1>6, <2>1
  <2> QED
    BY <2>2 DEF EditsInv, CausalLog
<1> QED
  BY <1>11, <1>12, <1>13, <1>14, <1>15, <1>16 DEF EditsInv

\* The hub takes an update out of incoming, keeps it and passes it on.
LEMMA HandleUpdateEdits ==
  ASSUME TypeOK, EditsInv, HandleUpdate
  PROVE  EditsInv'
<1>1. PICK n \in Nat : n + 1 = Len(incoming)
  <2>1. Len(incoming) \in Nat /\ Len(incoming) >= 1
    BY DEF HandleUpdate, TakeFrame, TypeOK
  <2>2. Len(incoming) - 1 \in Nat /\ (Len(incoming) - 1) + 1 = Len(incoming)
    BY <2>1
  <2> QED
    BY <2>2
<1>2. PICK h : h = incoming[1]
  OBVIOUS
<1>3. /\ h.kind = "edit" /\ h.from \in Conns /\ h.body \in Edits
      /\ updates' = Append(updates, h.body) /\ Broadcast(h.from, h.body)
      /\ UNCHANGED <<have, basis>> /\ incoming' = Tail(incoming)
  <2>1. Head(incoming) = incoming[1]
    BY <1>1 DEF TypeOK
  <2>2. Head(incoming).from \in Conns /\ Head(incoming).body \in Edits
    BY TakeFrameFacts DEF HandleUpdate
  <2> QED
    BY <1>2, <2>1, <2>2 DEF HandleUpdate, TakeFrame
<1>4. /\ Len(incoming') = n /\ \A i \in 1 .. n : incoming'[i] = incoming[i + 1]
      /\ 1 \in 1 .. Len(incoming) /\ \A i \in 1 .. n : i + 1 \in 1 .. Len(incoming)
  BY <1>1, <1>3 DEF TypeOK
<1>5. updates \in Seq(Edits) /\ Range(updates') = Range(updates) \cup {h.body}
  BY <1>3, RangeOfAppend DEF TypeOK
<1>6. IsEdit(1)
  BY <1>2, <1>3 DEF IsEdit
<1>7. ASSUME NEW i \in 1 .. n, IsEdit(i)'
      PROVE  i + 1 \in 1 .. Len(incoming) /\ IsEdit(i + 1) /\ incoming'[i] = incoming[i + 1]
  BY <1>4, <1>7 DEF IsEdit
<1>8. ASSUME NEW i \in Nat, NEW x \in Ahead(i + 1)
      PROVE  \/ x \in Range(updates')
             \/ \E j \in 1 .. n : j < i /\ IsEdit(j)' /\ x = incoming'[j].body
  <2>1. CASE x \in Range(updates)
    BY <1>5, <2>1
  <2>2. ASSUME NEW j \in 1 .. Len(incoming), j < i + 1, IsEdit(j), x = incoming[j].body
        PROVE  \/ x \in Range(updates')
               \/ \E k \in 1 .. n : k < i /\ IsEdit(k)' /\ x = incoming'[k].body
    <3>1. CASE j = 1
      BY <1>2, <1>5, <2>2, <3>1
    <3>2. CASE j # 1
      <4>1. PICK k \in 1 .. n : k + 1 = j
        <5>1. j - 1 \in 1 .. n /\ (j - 1) + 1 = j
          BY <1>1, <3>2
        <5> QED
          BY <5>1
      <4>2. incoming'[k] = incoming[j] /\ k < i
        BY <1>4, <2>2, <4>1
      <4> QED
        BY <2>2, <4>2 DEF IsEdit
    <3> QED
      BY <3>1, <3>2
  <2> QED
    BY <1>8, <2>1, <2>2 DEF Ahead
<1>9. ASSUME NEW i \in Nat
      PROVE  Ahead(i + 1) \subseteq Ahead(i)'
  <2> SUFFICES ASSUME NEW x \in Ahead(i + 1)
               PROVE  x \in Ahead(i)'
    OBVIOUS
  <2>1. CASE x \in Range(updates')
    BY <2>1 DEF Ahead
  <2>2. ASSUME NEW j \in 1 .. n, j < i, IsEdit(j)', x = incoming'[j].body
        PROVE  x \in Ahead(i)'
    <3>1. j \in 1 .. Len(incoming')
      BY <1>4
    <3> QED
      BY <2>2, <3>1 DEF Ahead
  <2> QED
    BY <1>8, <2>1, <2>2
<1>10. PendingOK'
  <2> SUFFICES ASSUME NEW i \in 1 .. n, IsEdit(i)'
               PROVE  /\ incoming'[i].body \in have[incoming'[i].from]
                      /\ incoming'[i].body \notin Range(updates')
                      /\ basis[incoming'[i].body] \subseteq Ahead(i)'
    BY <1>3, <1>4 DEF PendingOK
  <2>1. /\ incoming[i + 1].body \in have[incoming[i + 1].from]
        /\ incoming[i + 1].body \notin Range(updates)
        /\ basis[incoming[i + 1].body] \subseteq Ahead(i + 1)
    BY <1>7 DEF EditsInv, PendingOK
  <2>2. incoming[i + 1].body # h.body
    <3>1. i + 1 # 1
      OBVIOUS
    <3> QED
      BY <1>2, <1>4, <1>6, <1>7, <3>1 DEF EditsInv, PendingOnce
  <2> QED
    BY <1>5, <1>7, <1>9, <2>1, <2>2
<1>11. PendingOnce'
  <2> SUFFICES ASSUME NEW i \in 1 .. n, NEW j \in 1 .. n,
                      IsEdit(i)', IsEdit(j)', incoming'[i].body = incoming'[j].body
               PROVE  i = j
    BY <1>4 DEF PendingOnce
  <2>1. i + 1 = j + 1
    BY <1>7 DEF EditsInv, PendingOnce
  <2> QED
    BY <2>1
<1>12. HaveOK'
  <2> SUFFICES ASSUME NEW c \in Conns, NEW x \in have[c]
               PROVE  x \in Ahead(Len(incoming) + 1)'
    BY <1>3 DEF HaveOK
  <2>1. x \in Ahead((n + 1) + 1)
    BY <1>1 DEF EditsInv, HaveOK
  <2>2. \/ x \in Range(updates')
        \/ \E j \in 1 .. n : IsEdit(j)' /\ x = incoming'[j].body
    BY <1>8, <2>1
  <2>3. \A j \in 1 .. n : j \in 1 .. Len(incoming') /\ j < Len(incoming') + 1
    BY <1>4
  <2> QED
    BY <2>2, <2>3 DEF Ahead
<1>13. QueuedOK'
  <2> SUFFICES ASSUME NEW c \in Conns
               PROVE  Queued(c)' \subseteq Range(updates')
    BY DEF QueuedOK
  <2>1. Queued(c)' \subseteq Queued(c) \cup {h.body}
    BY <1>3, BroadcastQueues
  <2> QED
    BY <1>5, <2>1 DEF EditsInv, QueuedOK
<1>14. LogWritten'
  <2>1. h.body \in Written
    BY <1>2, <1>3, <1>4, <1>6, HaveWritten DEF EditsInv, PendingOK
  <2>2. Written' = Written
    BY <1>3 DEF Written
  <2> QED
    BY <1>5, <2>1, <2>2 DEF EditsInv, LogWritten
<1>15. CausalLog'
  <2>1. /\ Len(updates') = Len(updates) + 1 /\ updates'[Len(updates) + 1] = h.body
        /\ \A i \in 1 .. Len(updates) : updates'[i] = updates[i]
        /\ Len(updates) \in Nat
    BY <1>3, <1>5
  <2> SUFFICES ASSUME NEW i \in 1 .. Len(updates')
               PROVE  basis[updates'[i]] \subseteq {updates'[j] : j \in 1 .. i - 1}
    BY <1>3 DEF CausalLog
  <2>2. CASE i \in 1 .. Len(updates)
    <3>1. basis[updates[i]] \subseteq {updates[j] : j \in 1 .. i - 1}
      BY <2>2 DEF EditsInv, CausalLog
    <3>2. \A j \in 1 .. i - 1 : updates[j] = updates'[j]
      BY <2>1, <2>2
    <3> QED
      BY <2>1, <2>2, <3>1, <3>2
  <2>3. CASE i = Len(updates) + 1
    <3>1. basis[h.body] \subseteq Ahead(1)
      BY <1>2, <1>4, <1>6 DEF EditsInv, PendingOK
    <3>2. Ahead(1) = Range(updates)
      BY DEF Ahead
    <3>3. Range(updates) = {updates[j] : j \in 1 .. Len(updates)}
      BY <1>5 DEF Range
    <3>4. Range(updates) \subseteq {updates'[j] : j \in 1 .. i - 1}
      BY <2>1, <2>3, <3>3
    <3> QED
      BY <2>1, <2>3, <3>1, <3>2, <3>4
  <2> QED
    BY <2>1, <2>2, <2>3
<1> QED
  BY <1>10, <1>11, <1>12, <1>13, <1>14, <1>15 DEF EditsInv

\* A browser is sent what is in the log.
LEMMA WriteNextEdits ==
  ASSUME TypeOK, EditsInv, NEW c \in Conns, WriteNext(c)
  PROVE  EditsInv'
<1> DEFINE new == {Head(send[c])} \ {Blank}
<1>1. /\ have' = [have EXCEPT ![c] = @ \cup new] /\ send' = [send EXCEPT ![c] = Tail(@)]
      /\ UNCHANGED <<updates, incoming, basis>> /\ send[c] # << >>
  BY DEF WriteNext, docVars, chanVars
<1>2. /\ have \in [Conns -> SUBSET Edits] /\ send \in [Conns -> Seq(Edits \cup {Blank})]
  BY DEF TypeOK
<1>3. Range(send[c]) = Range(Tail(send[c])) \cup {Head(send[c])}
  BY <1>1, <1>2, RangeOfTail
<1>4. new \subseteq Range(updates)
  BY <1>3 DEF EditsInv, QueuedOK, Queued
<1> HIDE DEF new
<1>5. \A d \in Conns : /\ have[d] \subseteq have'[d] /\ have'[d] \subseteq have[d] \cup new
  BY <1>1, <1>2
<1>6. \A d \in Conns : send'[d] = send[d] \/ (d = c /\ send'[d] = Tail(send[c]))
  BY <1>1, <1>2
<1>7. \A i : Ahead(i)' = Ahead(i)
  BY <1>1 DEF Ahead, IsEdit
<1>8. PendingOK'
  <2>1. \A i \in 1 .. Len(incoming) : incoming[i].from \in Conns
    BY DEF TypeOK, Frames
  <2> QED
    BY <1>1, <1>5, <1>7, <2>1 DEF EditsInv, PendingOK, IsEdit
<1>9. PendingOnce'
  BY <1>1 DEF EditsInv, PendingOnce, IsEdit
<1>10. HaveOK'
  <2>1. Ahead(Len(incoming) + 1)' = Ahead(Len(incoming) + 1)
    BY <1>1 DEF Ahead, IsEdit
  <2>2. Range(updates) \subseteq Ahead(Len(incoming) + 1)
    BY DEF Ahead
  <2> QED
    BY <1>4, <1>5, <2>1, <2>2 DEF EditsInv, HaveOK
<1>11. QueuedOK'
  <2>1. \A d \in Conns : Queued(d)' \subseteq Queued(d)
    BY <1>3, <1>6 DEF Queued
  <2> QED
    BY <1>1, <2>1 DEF EditsInv, QueuedOK
<1>12. LogWritten'
  BY <1>1, <1>5 DEF EditsInv, LogWritten, Written
<1>13. CausalLog'
  <2>1. updates' = updates /\ basis' = basis
    BY <1>1
  <2>2. CausalLog
    BY DEF EditsInv
  <2> SUFFICES ASSUME NEW i \in 1 .. Len(updates)
               PROVE  basis[updates[i]] \subseteq {updates[j] : j \in 1 .. i - 1}
    BY <2>1 DEF CausalLog
  <2> QED
    BY <2>2 DEF CausalLog
<1> QED
  BY <1>8, <1>9, <1>10, <1>11, <1>12, <1>13 DEF EditsInv

LEMMA EditsInit == Init => EditsInv
<1> SUFFICES ASSUME Init
             PROVE  EditsInv
  OBVIOUS
<1>1. /\ incoming = << >> /\ updates = Seed /\ Seed \in Seq(Edits)
      /\ have = [c \in Conns |-> {}] /\ basis = [e \in Edits |-> {}]
      /\ send = [c \in Conns |-> << >>]
  BY HubAssumption DEF Init
<1>2. PendingOK /\ PendingOnce /\ HaveOK
  BY <1>1 DEF PendingOK, PendingOnce, HaveOK
<1>3. QueuedOK
  BY <1>1 DEF QueuedOK, Queued, Range
<1>4. LogWritten
  BY <1>1 DEF LogWritten, Written, Range
<1>5. CausalLog
  BY <1>1 DEF CausalLog
<1> QED
  BY <1>2, <1>3, <1>4, <1>5 DEF EditsInv

\* EditsInv is inductive with the types.
LEMMA EditsInvariant == Spec => [](TypeOK /\ SyncingOK /\ EditsInv)
<1>1. Init => TypeOK /\ SyncingOK /\ EditsInv
  BY TypeInit, EditsInit
<1>2. TypeOK /\ SyncingOK /\ EditsInv /\ [Next]_vars => (TypeOK /\ SyncingOK /\ EditsInv)'
  BY TypeStep, StepOfUpdates, QuietEdits, ReadEditEdits, HandleUpdateEdits, WriteNextEdits
<1> QED
  BY <1>1, <1>2, PTL DEF Spec

\* Whatever the order in which the hub takes frames, registrations and ticks, an update
\* is behind all that its author had when typing it (hub.go:122-123, 171-187).
THEOREM LogIsCausal == Spec => []CausalLog
<1>1. EditsInv => CausalLog
  BY DEF EditsInv
<1> QED
  BY <1>1, EditsInvariant, PTL

-----------------------------------------------------------------------------
\* A step that does not change the log stores it whole, if it stores anything.
LEMMA StoresAll ==
  ASSUME TypeOK, [Next]_vars, updates' = updates
  PROVE  stored' = stored \/ stored' = updates
<1>1. CASE UNCHANGED docVars
  BY <1>1 DEF docVars
<1>2. ASSUME NEW e \in Edits, updates' = Append(updates, e)
      PROVE  FALSE
  <2>1. Len(updates') = Len(updates) + 1 /\ Len(updates) \in Nat
    BY <1>2 DEF TypeOK
  <2> QED
    BY <2>1
<1>3. ASSUME NEW ok \in BOOLEAN, Flush(ok)
      PROVE  stored' = stored \/ stored' = updates
  BY <1>3 DEF Flush
<1> QED
  BY <1>1, <1>2, <1>3, LogStep

LEMMA StepOfPromise ==
  ASSUME TypeOK, SyncingOK, EditsInv, [Next]_vars
  PROVE  [Promise!LogNext]_(Promise!logVars)
<1> USE DEF Promise!logVars
<1>1. CASE QuietStep
  <2>1. updates' = updates /\ have' = have
    BY <1>1 DEF QuietStep
  <2>2. stored' = stored \/ stored' = updates
    BY <2>1, StoresAll
  <2> QED
    BY <2>1, <2>2 DEF Promise!LogNext, Promise!Persist
<1>2. ASSUME NEW c \in Conns, NEW e \in Edits, ReadEdit(c, e)
      PROVE  Promise!Type(c, e)
  <2>1. /\ have' = [have EXCEPT ![c] = @ \cup {e}] /\ e \notin Written
        /\ UNCHANGED <<updates, stored>>
    BY <1>2 DEF ReadEdit, ReadFrame, docVars
  <2>2. e \notin Range(updates) /\ \A d \in Conns : e \notin have[d]
    BY <2>1, HaveWritten DEF EditsInv, LogWritten
  <2> QED
    BY <2>1, <2>2 DEF Promise!Type, Range, Promise!Range
<1>3. ASSUME NEW c \in Conns, WriteNext(c)
      PROVE  [Promise!LogNext]_(Promise!logVars)
  <2>1. /\ have' = [have EXCEPT ![c] = @ \cup ({Head(send[c])} \ {Blank})]
        /\ UNCHANGED <<updates, stored>> /\ send[c] # << >>
    BY <1>3 DEF WriteNext, docVars
  <2>2. have \in [Conns -> SUBSET Edits] /\ send[c] \in Seq(Edits \cup {Blank})
    BY DEF TypeOK
  <2>3. Head(send[c]) \in Range(send[c])
    BY <2>1, <2>2, RangeOfTail
  <2>4. CASE Head(send[c]) = Blank
    BY <2>1, <2>2, <2>4
  <2>5. CASE Head(send[c]) # Blank
    <3>0. Head(send[c]) \in Edits \cup {Blank}
      BY <2>1, <2>2
    <3>1. Head(send[c]) \in Range(updates) /\ Head(send[c]) \in Edits
      BY <2>3, <2>5, <3>0 DEF EditsInv, QueuedOK, Queued
    <3>2. have' = [have EXCEPT ![c] = @ \cup {Head(send[c])}]
      BY <2>1, <2>5
    <3>3. Promise!Show(c, Head(send[c]))
      BY <2>1, <3>1, <3>2 DEF Promise!Show, Range, Promise!Range
    <3> QED
      BY <3>1, <3>3 DEF Promise!LogNext
  <2> QED
    BY <2>4, <2>5
<1>4. ASSUME HandleUpdate
      PROVE  \E e \in Edits : Promise!Accept(e)
  <2> DEFINE f == Head(incoming)
  <2>1. /\ f.from \in Conns /\ f.body \in Edits /\ updates' = Append(updates, f.body)
        /\ UNCHANGED <<have, stored>>
    BY <1>4, TakeFrameFacts DEF HandleUpdate, TakeFrame
  <2>2. 1 \in 1 .. Len(incoming) /\ f = incoming[1] /\ IsEdit(1)
    BY <1>4 DEF HandleUpdate, TakeFrame, TypeOK, IsEdit
  <2>3. f.body \in have[f.from] /\ f.body \notin Range(updates)
    BY <2>2 DEF EditsInv, PendingOK
  <2> QED
    BY <2>1, <2>3 DEF Promise!Accept, Range, Promise!Range
<1> QED
  BY <1>1, <1>2, <1>3, <1>4, StepOfUpdates DEF Promise!LogNext

\* The hub implements DurableLog: an update enters the log once and after somebody typed
\* it, nobody is sent one that is not in it, and the store is given the whole of it, in
\* every interleaving (hub.go:97-129, 163-187, 201-264).
THEOREM HubImplementsLog == Spec => ImplementsDurableLog
<1>1. Init => Promise!LogInit
  BY DEF Init, Promise!LogInit
<1>2. TypeOK /\ SyncingOK /\ EditsInv /\ [Next]_vars => [Promise!LogNext]_(Promise!logVars)
  BY StepOfPromise
<1> QED
  BY <1>1, <1>2, EditsInvariant, PTL DEF Spec, ImplementsDurableLog, Promise!LogSpec

-----------------------------------------------------------------------------
(***************************************************************************)
(* A client the hub counts as fully served lacks no update, and a hub that *)
(* ended has its last text in the history.  ServedInv follows what an      *)
(* initial sync has delivered.                                             *)
(***************************************************************************)
\* What c has or will be sent.
Reached(c) == have[c] \cup Queued(c)

\* Only a member was synced in full, and who was one is a member or closed.
FullIsMember == \A c \in Conns : sync[c] = "full" => c \in clients \cup closed

\* What sendInitialSync has passed is delivered.
SyncProgress ==
  pc = "syncing" => \A j \in 1 .. syncing.next - 1 : updates[j] \in Reached(syncing.to)

ServedInv == FullIsMember /\ SyncProgress /\ FullMeansComplete

-----------------------------------------------------------------------------
\* Steps by which nobody lacks more than before.
IdleStep ==
  /\ UNCHANGED <<updates, sync>>
  /\ \A c \in Conns : Reached(c) \subseteq Reached(c)'
  /\ clients \cup closed \subseteq clients' \cup closed'
  /\ \A c \in clients' : c \in clients \/ c \notin closed
  /\ UNCHANGED <<pc, syncing>> \/ (pc # "syncing" /\ pc' # "syncing")

\* What writePump takes out of the send channel the browser has.
LEMMA WriteReaches ==
  ASSUME TypeOK, NEW c \in Conns, WriteNext(c), NEW d \in Conns
  PROVE  Reached(d) \subseteq Reached(d)'
<1>1. /\ have' = [have EXCEPT ![c] = @ \cup ({Head(send[c])} \ {Blank})]
      /\ send' = [send EXCEPT ![c] = Tail(@)] /\ send[c] # << >>
  BY DEF WriteNext
<1>2. /\ have \in [Conns -> SUBSET Edits] /\ send \in [Conns -> Seq(Edits \cup {Blank})]
  BY DEF TypeOK
<1>3. Range(send[c]) = Range(Tail(send[c])) \cup {Head(send[c])}
  BY <1>1, <1>2, RangeOfTail
<1>4. CASE d = c
  <2>1. have'[d] = have[c] \cup ({Head(send[c])} \ {Blank}) /\ send'[d] = Tail(send[c])
    BY <1>1, <1>2, <1>4
  <2> QED
    BY <1>3, <1>4, <2>1 DEF Reached, Queued
<1>5. CASE d # c
  <2>1. have'[d] = have[d] /\ send'[d] = send[d]
    BY <1>1, <1>2, <1>5
  <2> QED
    BY <2>1 DEF Reached, Queued
<1> QED
  BY <1>4, <1>5

\* A broadcast reaches every member but the sender that is not found slow, and takes
\* nothing from anyone.
LEMMA BroadcastReaches ==
  ASSUME TypeOK, NEW from \in Conns, NEW msg \in Edits \cup {Blank}, Broadcast(from, msg),
         UNCHANGED have, NEW c \in Conns
  PROVE  /\ Reached(c) \subseteq Reached(c)'
         /\ \/ sync'[c] = sync[c]
            \/ sync'[c] = "short" /\ msg # Blank
         /\ (c \in clients \ {from} /\ msg # Blank /\ sync'[c] = "full") => msg \in Reached(c)'
<1> DEFINE slow == {d \in clients \ {from} : Len(send[d]) >= SendCap}
<1>1. /\ send'[c] = IF c \in (clients \ {from}) \ slow THEN Append(send[c], msg) ELSE send[c]
      /\ sync'[c] = IF c \in slow /\ msg # Blank /\ sync[c] # "no" THEN "short" ELSE sync[c]
  BY DEF Broadcast
<1> HIDE DEF slow
<1>2. Range(Append(send[c], msg)) = Range(send[c]) \cup {msg}
  BY RangeOfAppend DEF TypeOK
<1>3. Range(send[c]) \subseteq Range(send'[c])
  BY <1>1, <1>2
<1>4. Reached(c) \subseteq Reached(c)'
  BY <1>3 DEF Reached, Queued
<1>5. ASSUME c \in clients \ {from}, msg # Blank, sync'[c] = "full"
      PROVE  msg \in Reached(c)'
  <2>1. c \notin slow
    BY <1>1, <1>5
  <2>2. msg \in Range(send'[c])
    BY <1>1, <1>2, <1>5, <2>1
  <2> QED
    BY <1>5, <2>2 DEF Reached, Queued
<1> QED
  BY <1>1, <1>4, <1>5

LEMMA IdleRelay ==
  ASSUME TypeOK, HandleRelay
  PROVE  IdleStep
<1>1. /\ Head(incoming).from \in Conns /\ Broadcast(Head(incoming).from, Blank)
      /\ UNCHANGED <<have, pc, syncing, updates, clients, closed>>
  BY TakeFrameFacts DEF HandleRelay, TakeFrame
<1>2. \A c \in Conns : Reached(c) \subseteq Reached(c)' /\ sync'[c] = sync[c]
  BY <1>1, BroadcastReaches
<1>3. sync' = sync
  <2>1. sync \in [Conns -> {"no", "full", "late", "short"}]
        /\ sync' \in [Conns -> {"no", "full", "late", "short"}]
    BY <1>1, BroadcastTypes DEF TypeOK
  <2> QED
    BY <1>2, <2>1
<1> QED
  BY <1>1, <1>2, <1>3 DEF IdleStep

LEMMA StepOfService ==
  ASSUME TypeOK, RegisterOnce, MembersOpen, [Next]_vars
  PROVE  IdleStep \/ HandleStep1 \/ SyncDeliver \/ HandleUpdate
<1> USE DEF IdleStep, docVars, chanVars, connVars, histVars
<1>1. ASSUME UNCHANGED <<have, send>>
      PROVE  \A c \in Conns : Reached(c) \subseteq Reached(c)'
  BY <1>1 DEF Reached, Queued
<1>2. clients \cap closed = {}
  BY DEF MembersOpen
<1>3. CASE UNCHANGED vars
  BY <1>1, <1>2, <1>3 DEF vars
<1>4. ASSUME NEW c \in Conns,
             \/ AcquireHub(c) \/ UpgradeFails(c) \/ Register(c) \/ ReadFails(c)
             \/ WriterReturns(c)
      PROVE  IdleStep
  BY <1>1, <1>2, <1>4 DEF AcquireHub, UpgradeFails, Register, ReadFails, WriterReturns
<1>5. ASSUME NEW c \in Conns, ReadStep1(c) \/ ReadOther(c)
      PROVE  IdleStep
  BY <1>1, <1>2, <1>5 DEF ReadStep1, ReadOther, ReadFrame
<1>6. ASSUME NEW c \in Conns, NEW e \in Edits, ReadEdit(c, e)
      PROVE  IdleStep
  <2>1. \A d \in Conns : have[d] \subseteq have'[d] /\ send' = send
    BY <1>6 DEF ReadEdit, ReadFrame, TypeOK
  <2>2. \A d \in Conns : Reached(d) \subseteq Reached(d)'
    BY <2>1 DEF Reached, Queued
  <2> QED
    BY <1>2, <1>6, <2>2 DEF ReadEdit, ReadFrame
<1>7. ASSUME NEW c \in Conns, WriteNext(c)
      PROVE  IdleStep
  <2>1. \A d \in Conns : Reached(d) \subseteq Reached(d)'
    BY <1>7, WriteReaches
  <2> QED
    BY <1>2, <1>7, <2>1 DEF WriteNext
<1>8. CASE TakeRegister
  <2>1. Head(register) \notin closed
    BY <1>8 DEF TakeRegister, RegisterOnce, TypeOK
  <2> QED
    BY <1>1, <1>2, <1>8, <2>1 DEF TakeRegister, Selecting
<1>9. CASE IgnoreUnregister
  BY <1>1, <1>2, <1>9 DEF IgnoreUnregister
<1>10. CASE TakeUnregister
  <2>1. UNCHANGED updates /\ pc # "syncing" /\ pc' # "syncing"
    BY <1>10 DEF TakeUnregister, EndIfEmpty, Flush, Selecting
  <2> QED
    BY <1>1, <1>2, <1>10, <2>1 DEF TakeUnregister
<1>11. CASE HandleStep1Closed
  BY <1>1, <1>2, <1>11 DEF HandleStep1Closed, TakeFrame, Selecting
<1>12. CASE HandleRelay
  BY <1>12, IdleRelay
<1>13. CASE HandleText \/ HandleIgnored
  BY <1>1, <1>2, <1>13 DEF HandleText, HandleIgnored, TakeFrame
<1>14. CASE \E ok \in BOOLEAN : Tick(ok)
  BY <1>1, <1>2, <1>14 DEF Tick, Flush
<1>15. CASE Shutdown
  BY <1>1, <1>2, <1>15 DEF Shutdown, Flush, Selecting
<1> QED
  BY <1>3, <1>4, <1>5, <1>6, <1>7, <1>8, <1>9, <1>10, <1>11, <1>12, <1>13, <1>14, <1>15
  DEF Next, Connection, Goroutine

LEMMA IdleServed ==
  ASSUME TypeOK, TypeOK', SyncingOK, ServedInv, IdleStep
  PROVE  ServedInv'
<1> USE DEF IdleStep
<1>1. FullIsMember'
  BY DEF ServedInv, FullIsMember
<1>2. SyncProgress'
  <2> SUFFICES ASSUME pc' = "syncing", NEW j \in 1 .. syncing'.next - 1
               PROVE  updates'[j] \in Reached(syncing.to)'
    BY DEF SyncProgress
  <2>1. pc = "syncing" /\ syncing' = syncing /\ updates' = updates
    OBVIOUS
  <2>2. updates[j] \in Reached(syncing.to)
    BY <2>1 DEF ServedInv, SyncProgress
  <2>3. PICK to : to = syncing.to
    OBVIOUS
  <2>4. to \in Conns
    BY <2>1, <2>3 DEF SyncingOK
  <2> QED
    BY <2>1, <2>2, <2>3, <2>4
<1>3. FullMeansComplete'
  <2> SUFFICES ASSUME NEW c \in clients', sync'[c] = "full",
                      ~(pc' = "syncing" /\ syncing'.to = c)
               PROVE  Range(updates') \subseteq Reached(c)'
    BY DEF FullMeansComplete, Reached
  <2>1. c \in Conns /\ sync[c] = "full"
    BY DEF TypeOK
  <2>2. c \in clients
    BY <2>1 DEF ServedInv, FullIsMember
  <2>3. Range(updates) \subseteq Reached(c)
    BY <2>1, <2>2 DEF ServedInv, FullMeansComplete, Reached
  <2> QED
    BY <2>1, <2>3
<1> QED
  BY <1>1, <1>2, <1>3 DEF ServedInv

\* The initial sync begins, or is over at once when there is nothing to send.
LEMMA Step1Served ==
  ASSUME TypeOK, ServedInv, HandleStep1
  PROVE  ServedInv'
<1> DEFINE d == Head(incoming).from
<1>1. /\ d \in Conns /\ pc = "select" /\ UNCHANGED <<updates, clients, closed, have>>
      /\ sync' = [sync EXCEPT ![d] = IF d \in clients THEN "full" ELSE "late"]
      /\ \/ pc' = "syncing" /\ syncing' = [to |-> d, next |-> 1]
         \/ updates = << >> /\ pc' = "select"
  BY TakeFrameFacts DEF HandleStep1, TakeFrame, Selecting
<1>2. \A c \in Conns : send'[c] = send[c] \/ send'[c] = Append(send[c], Blank)
  <2>1. send' = send \/ send' = [send EXCEPT ![d] = Append(@, Blank)]
    BY DEF HandleStep1
  <2> HIDE DEF d
  <2> QED
    BY <1>1, <2>1 DEF TypeOK
<1>3. ASSUME NEW c \in Conns
      PROVE  Reached(c) \subseteq Reached(c)'
  <2>1. Range(Append(send[c], Blank)) = Range(send[c]) \cup {Blank}
    BY RangeOfAppend DEF TypeOK
  <2>2. Range(send[c]) \subseteq Range(send'[c])
    BY <1>2, <2>1
  <2> QED
    BY <1>1, <2>2 DEF Reached, Queued
<1> HIDE DEF d
<1>4. sync \in [Conns -> {"no", "full", "late", "short"}] /\ clients \subseteq Conns
  BY DEF TypeOK
<1>5. FullIsMember'
  BY <1>1, <1>4 DEF ServedInv, FullIsMember
<1>6. SyncProgress'
  BY <1>1 DEF SyncProgress
<1>7. FullMeansComplete'
  <2> SUFFICES ASSUME NEW c \in clients, sync'[c] = "full",
                      ~(pc' = "syncing" /\ syncing'.to = c)
               PROVE  Range(updates) \subseteq Reached(c)'
    BY <1>1 DEF FullMeansComplete, Reached
  <2>1. CASE c = d
    <3>1. updates = << >>
      BY <1>1, <2>1
    <3> QED
      BY <3>1 DEF Range
  <2>2. CASE c # d
    <3>1. Range(updates) \subseteq Reached(c)
      BY <1>1, <1>4, <2>2 DEF ServedInv, FullMeansComplete, Reached
    <3> QED
      BY <1>3, <1>4, <3>1
  <2> QED
    BY <2>1, <2>2
<1> QED
  BY <1>5, <1>6, <1>7 DEF ServedInv

\* One more update of the initial sync is delivered, or the client is given up.
LEMMA SyncServed ==
  ASSUME TypeOK, SyncingOK, ServedInv, SyncDeliver
  PROVE  ServedInv'
<1>1. PICK d \in Conns, n \in 1 .. Len(updates) : syncing = [to |-> d, next |-> n]
  BY DEF SyncDeliver, SyncingOK
<1>2. /\ pc = "syncing" /\ UNCHANGED <<updates, clients, closed, have>>
      /\ \/ /\ send' = [send EXCEPT ![d] = Append(@, updates[n])] /\ sync' = sync
            /\ \/ n < Len(updates) /\ syncing' = [syncing EXCEPT !.next = n + 1] /\ pc' = pc
               \/ n = Len(updates) /\ pc' = "select"
         \/ send' = send /\ sync' = [sync EXCEPT ![d] = "short"] /\ pc' = "select"
  BY <1>1 DEF SyncDeliver, docVars
<1>3. /\ send \in [Conns -> Seq(Edits \cup {Blank})] /\ clients \subseteq Conns
      /\ sync \in [Conns -> {"no", "full", "late", "short"}]
      /\ updates \in Seq(Edits) /\ updates[n] \in Edits /\ updates[n] # Blank
  BY HubAssumption DEF TypeOK
<1>4. ASSUME NEW c \in Conns
      PROVE  Reached(c) \subseteq Reached(c)'
  <2>1. send'[c] = send[c] \/ send'[c] = Append(send[c], updates[n])
    BY <1>2, <1>3
  <2>2. Range(Append(send[c], updates[n])) = Range(send[c]) \cup {updates[n]}
    BY <1>3, RangeOfAppend
  <2>3. Range(send[c]) \subseteq Range(send'[c])
    BY <2>1, <2>2
  <2> QED
    BY <1>2, <2>3 DEF Reached, Queued
<1>5. ASSUME sync' = sync, send' = [send EXCEPT ![d] = Append(@, updates[n])]
      PROVE  \A j \in 1 .. n : updates[j] \in Reached(d)'
  <2>1. \A j \in 1 .. n - 1 : updates[j] \in Reached(d)
    BY <1>1, <1>2 DEF ServedInv, SyncProgress
  <2>2. Range(Append(send[d], updates[n])) = Range(send[d]) \cup {updates[n]}
    BY <1>3, RangeOfAppend
  <2>3. updates[n] \in Range(send'[d])
    BY <1>3, <1>5, <2>2
  <2>4. updates[n] \in Reached(d)'
    BY <1>3, <2>3 DEF Reached, Queued
  <2>5. \A j \in 1 .. n : j \in 1 .. n - 1 \/ j = n
    OBVIOUS
  <2> QED
    BY <1>4, <2>1, <2>4, <2>5
<1>6. \A c \in Conns : sync'[c] = "full" => sync[c] = "full" /\ (sync' = sync \/ c # d)
  BY <1>2, <1>3
<1>7. FullIsMember'
  BY <1>2, <1>6 DEF ServedInv, FullIsMember
<1>8. SyncProgress'
  <2>1. CASE pc' = "syncing"
    <3>1. /\ sync' = sync /\ send' = [send EXCEPT ![d] = Append(@, updates[n])]
          /\ syncing' = [to |-> d, next |-> n + 1]
      BY <1>1, <1>2, <2>1
    <3>2. \A j \in 1 .. n : updates[j] \in Reached(d)'
      BY <1>5, <3>1
    <3>3. syncing'.to = d /\ syncing'.next - 1 = n
      BY <3>1
    <3> QED
      BY <1>2, <3>2, <3>3 DEF SyncProgress
  <2> QED
    BY <2>1 DEF SyncProgress
<1>9. FullMeansComplete'
  <2> SUFFICES ASSUME NEW c \in clients, sync'[c] = "full",
                      ~(pc' = "syncing" /\ syncing'.to = c)
               PROVE  Range(updates) \subseteq Reached(c)'
    BY <1>2 DEF FullMeansComplete, Reached
  <2>1. CASE c = d
    <3>1. /\ sync' = sync /\ send' = [send EXCEPT ![d] = Append(@, updates[n])]
          /\ n = Len(updates)
      BY <1>1, <1>2, <1>3, <1>6, <2>1
    <3>2. \A j \in 1 .. Len(updates) : updates[j] \in Reached(c)'
      BY <1>5, <2>1, <3>1
    <3> QED
      BY <1>3, <3>2 DEF Range
  <2>2. CASE c # d
    <3>1. Range(updates) \subseteq Reached(c)
      BY <1>1, <1>3, <1>6, <2>2 DEF ServedInv, FullMeansComplete, Reached
    <3> QED
      BY <1>3, <1>4, <3>1
  <2> QED
    BY <2>1, <2>2
<1> QED
  BY <1>7, <1>8, <1>9 DEF ServedInv

\* A new update is known to its author, and goes to everyone else who was complete.
LEMMA UpdateServed ==
  ASSUME TypeOK, EditsInv, ServedInv, HandleUpdate
  PROVE  ServedInv'
<1>1. PICK d \in Conns, e \in Edits :
        /\ updates' = Append(updates, e) /\ Broadcast(d, e) /\ e \in have[d]
        /\ UNCHANGED <<have, clients, closed, pc, syncing>> /\ pc = "select"
  <2> DEFINE f == Head(incoming)
  <2>1. /\ f.from \in Conns /\ f.body \in Edits /\ updates' = Append(updates, f.body)
        /\ Broadcast(f.from, f.body) /\ UNCHANGED <<have, clients, closed, pc, syncing>>
        /\ pc = "select"
    BY TakeFrameFacts DEF HandleUpdate, TakeFrame
  <2>2. 1 \in 1 .. Len(incoming) /\ f = incoming[1] /\ IsEdit(1)
    BY DEF HandleUpdate, TakeFrame, TypeOK, IsEdit
  <2>3. f.body \in have[f.from]
    BY <2>2 DEF EditsInv, PendingOK
  <2> QED
    BY <2>1, <2>3
<1>2. e # Blank /\ clients \subseteq Conns
  BY HubAssumption DEF TypeOK
<1>3. ASSUME NEW c \in Conns
      PROVE  /\ Reached(c) \subseteq Reached(c)'
             /\ sync'[c] = "full" => sync[c] = "full"
             /\ (c \in clients \ {d} /\ sync'[c] = "full") => e \in Reached(c)'
  BY <1>1, <1>2, BroadcastReaches
<1>4. FullIsMember'
  BY <1>1, <1>3 DEF ServedInv, FullIsMember
<1>5. SyncProgress'
  BY <1>1 DEF SyncProgress
<1>6. FullMeansComplete'
  <2> SUFFICES ASSUME NEW c \in clients, sync'[c] = "full"
               PROVE  Range(updates') \subseteq Reached(c)'
    BY <1>1 DEF FullMeansComplete, Reached
  <2>1. Range(updates') = Range(updates) \cup {e}
    BY <1>1, RangeOfAppend DEF TypeOK
  <2>2. Range(updates) \subseteq Reached(c)
    BY <1>1, <1>2, <1>3 DEF ServedInv, FullMeansComplete, Reached
  <2>3. e \in Reached(c)'
    <3>1. CASE c = d
      BY <1>1, <3>1 DEF Reached
    <3>2. CASE c # d
      BY <1>2, <1>3, <3>2
    <3> QED
      BY <3>1, <3>2
  <2> QED
    BY <1>2, <1>3, <2>1, <2>2, <2>3
<1> QED
  BY <1>4, <1>5, <1>6 DEF ServedInv

\* Who is in the set and was synced in full holds or is being sent every update of the
\* hub, however syncs, broadcasts, slow readers and departures interleave
\* (hub.go:163-187, 201-264).
THEOREM FullClientsAreComplete == Spec => []FullMeansComplete
<1>1. Init => ServedInv
  BY DEF Init, ServedInv, FullIsMember, SyncProgress, FullMeansComplete
<1> DEFINE Inv == TypeOK /\ SyncingOK /\ EditsInv /\ HubInv
<1>2. Inv /\ Inv' /\ ServedInv /\ [Next]_vars => ServedInv'
  BY StepOfService, IdleServed, Step1Served, SyncServed, UpdateServed DEF HubInv
<1>3. ServedInv => FullMeansComplete
  BY DEF ServedInv
<1>4. Spec => []Inv
  BY EditsInvariant, HubInvariant, PTL
<1> QED
  BY <1>1, <1>2, <1>3, <1>4, PTL DEF Spec

-----------------------------------------------------------------------------
(***************************************************************************)
(* The text of a hub that ended.                                           *)
(***************************************************************************)

\* The newest row is the last text taken in, or was as long as twice it or more.
Saved ==
  (hasText /\ ~InsertMayFail)
    => \/ Versions!LatestDocumentVersionText = latestText
       \/ Versions!Suspicious(latestText, Versions!LatestDocumentVersionText)

\* One call of snapshotVersion saves the text.
LEMMA SnapshotSaves ==
  ASSUME Versions!VersionsTypeOK, Versions!CacheIsNewestRow, Versions!SnapshotVersion
  PROVE  Versions!CacheIsNewestRow' /\ Saved'
<1> USE DEF Saved, Versions!CacheIsNewestRow, Versions!LatestDocumentVersionText
<1>1. CASE Versions!SkipSnapshot
  BY <1>1 DEF Versions!SkipSnapshot, Versions!versionVars
<1>2. ASSUME NEW last \in Versions!LoadOutcomes,
             \/ Versions!RefuseRow(last) \/ Versions!FailRow(last)
             \/ Versions!WriteRow(last)
      PROVE  Versions!CacheIsNewestRow' /\ Saved'
  <2>1. /\ last[2] => last[1] = Versions!LatestDocumentVersionText
        /\ ~last[2] => ~lastSavedLoaded
    <3>1. \/ last = <<lastSavedText, TRUE>> /\ lastSavedLoaded
          \/ last = <<Versions!LatestDocumentVersionText, TRUE>>
          \/ last = <<lastSavedText, FALSE>> /\ ~lastSavedLoaded
      BY DEF Versions!LoadOutcomes
    <3>2. CASE last = <<lastSavedText, TRUE>> /\ lastSavedLoaded
      BY <3>2
    <3>3. CASE last = <<Versions!LatestDocumentVersionText, TRUE>>
      <4> HIDE DEF Versions!LatestDocumentVersionText
      <4> QED
        BY <3>3
    <3>4. CASE last = <<lastSavedText, FALSE>> /\ ~lastSavedLoaded
      BY <3>4
    <3> QED
      BY <3>1, <3>2, <3>3, <3>4
  <2>2. CASE Versions!RefuseRow(last)
    <3>1. /\ UNCHANGED <<latestText, hasText, versions>>
          /\ lastSavedText' = last[1] /\ lastSavedLoaded' = last[2]
          /\ \/ latestText = last[1]
             \/ Versions!Suspicious(latestText, last[1])
          /\ last[2]
      BY <2>2 DEF Versions!RefuseRow, Versions!Worthy
    <3>2. \/ Versions!LatestDocumentVersionText = latestText
          \/ Versions!Suspicious(latestText, Versions!LatestDocumentVersionText)
      BY <2>1, <3>1
    <3> QED
      BY <2>1, <3>1, <3>2 DEF Versions!Suspicious
  <2>3. CASE Versions!FailRow(last)
    BY <2>1, <2>3 DEF Versions!FailRow
  <2>4. CASE Versions!WriteRow(last)
    <3>1. /\ versions' = Append(versions, latestText) /\ latestText' = latestText
          /\ lastSavedText' = latestText /\ versions \in Seq(Texts) /\ latestText \in Texts
      BY <2>4 DEF Versions!WriteRow, Versions!VersionsTypeOK
    <3>2. versions' # << >> /\ versions'[Len(versions')] = latestText
      BY <3>1
    <3> QED
      BY <3>1, <3>2
  <2> QED
    BY <1>2, <2>2, <2>3, <2>4
<1> QED
  BY <1>1, <1>2 DEF Versions!SnapshotVersion

\* A step leaves the texts and does not end the hub, takes in a text while the hub
\* selects, or calls snapshotVersion.
LEMMA TextStep ==
  ASSUME [Next]_vars
  PROVE  \/ /\ UNCHANGED textVars
            /\ pc' = pc \/ pc' \notin {"returned", "stopped"}
         \/ /\ \E t : Versions!ReceiveText(t)
            /\ pc' \notin {"returned", "stopped"}
         \/ Versions!SnapshotVersion
<1>1. CASE UNCHANGED vars
  BY <1>1 DEF vars
<1>2. ASSUME NEW c \in Conns, Connection(c)
      PROVE  UNCHANGED textVars /\ pc' = pc
  BY <1>2 DEF Connection, AcquireHub, UpgradeFails, Register, ReadStep1, ReadEdit,
              ReadOther, ReadFails, ReadFrame, WriteNext, WriterReturns
<1>3. CASE HandleText
  BY <1>3 DEF HandleText, TakeFrame, Selecting
<1>4. CASE TakeRegister \/ IgnoreUnregister
  BY <1>4 DEF TakeRegister, IgnoreUnregister
<1>5. CASE TakeUnregister \/ Shutdown
  BY <1>5 DEF TakeUnregister, Shutdown
<1>6. CASE HandleStep1Closed \/ HandleStep1
  BY <1>6 DEF HandleStep1Closed, HandleStep1, TakeFrame, Selecting
<1>7. CASE SyncDeliver
  BY <1>7 DEF SyncDeliver
<1>8. CASE HandleUpdate \/ HandleRelay \/ HandleIgnored
  BY <1>8 DEF HandleUpdate, HandleRelay, HandleIgnored
<1>9. CASE \E ok \in BOOLEAN : Tick(ok)
  BY <1>9 DEF Tick
<1> QED
  BY <1>1, <1>2, <1>3, <1>4, <1>5, <1>6, <1>7, <1>8, <1>9 DEF Next, Goroutine

LEMMA TextSavedStep ==
  ASSUME TypeOK, Versions!CacheIsNewestRow, TextSaved, [Next]_vars
  PROVE  Versions!CacheIsNewestRow' /\ TextSaved'
<1>1. CASE /\ UNCHANGED textVars
           /\ pc' = pc \/ pc' \notin {"returned", "stopped"}
  BY <1>1 DEF textVars, Versions!CacheIsNewestRow, TextSaved,
              Versions!LatestDocumentVersionText, Versions!Suspicious
<1>2. ASSUME NEW t, Versions!ReceiveText(t), pc' \notin {"returned", "stopped"}
      PROVE  Versions!CacheIsNewestRow' /\ TextSaved'
  BY <1>2 DEF Versions!ReceiveText, Versions!CacheIsNewestRow, TextSaved,
              Versions!LatestDocumentVersionText
<1>3. CASE Versions!SnapshotVersion
  BY <1>3, SnapshotSaves DEF TypeOK, Saved, TextSaved
<1> QED
  BY <1>1, <1>2, <1>3, TextStep

\* A hub that ended, with its last client or by its context, has put the last text it
\* took in in the history, whether its cache was loaded or not, unless an insert failed or
\* the text was suspiciously short (hub.go:98-120, 273-305).
THEOREM TextIsSaved == Spec => []TextSaved
<1>1. Init => Versions!CacheIsNewestRow /\ TextSaved
  BY DEF Init, Versions!VersionsInit, Versions!FreshHub, Versions!CacheIsNewestRow, TextSaved
<1>2. TypeOK /\ Versions!CacheIsNewestRow /\ TextSaved /\ [Next]_vars
        => (Versions!CacheIsNewestRow /\ TextSaved)'
  BY TextSavedStep
<1> QED
  BY <1>1, <1>2, TypeCorrect, PTL DEF Spec
=============================================================================
