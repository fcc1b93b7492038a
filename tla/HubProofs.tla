------------------------------ MODULE HubProofs ------------------------------
(***************************************************************************)
(* What holds of a hub for any number of connections and updates, any      *)
(* channel capacities and any stored log.                                  *)
(*                                                                         *)
(* HubInv is the inductive invariant: the types, the place sendInitialSync *)
(* stands at, where a connection can be on its way through the register    *)
(* channel, and what the store has of the log.                             *)
(***************************************************************************)
EXTENDS Hub, TLAPS

\* While sendInitialSync runs it stands at an update the hub holds.
SyncingOK == pc = "syncing" => syncing \in [to : Conns, next : 1 .. Len(updates)]

-----------------------------------------------------------------------------
(***************************************************************************)
(* Lemmas about the operators several actions share.                       *)
(***************************************************************************)

\* snapshotVersion keeps the types of the hub's text fields and of the table.
LEMMA SnapshotTypes ==
  ASSUME Versions!VersionsTypeOK, Versions!SnapshotVersion
  PROVE  Versions!VersionsTypeOK'
<1>1. Versions!LatestDocumentVersionText \in Texts
  BY HubAssumption DEF Versions!VersionsTypeOK, Versions!LatestDocumentVersionText
<1>2. CASE Versions!SkipSnapshot
  BY <1>2 DEF Versions!SkipSnapshot, Versions!versionVars, Versions!VersionsTypeOK
<1>3. ASSUME NEW last \in Versions!LoadOutcomes,
             \/ Versions!RefuseRow(last) \/ Versions!FailRow(last)
             \/ Versions!WriteRow(last)
      PROVE  Versions!VersionsTypeOK'
  <2>1. last \in {<<lastSavedText, TRUE>>, <<lastSavedText, FALSE>>,
                  <<Versions!LatestDocumentVersionText, TRUE>>}
    BY DEF Versions!LoadOutcomes
  <2>2. last[1] \in Texts /\ last[2] \in BOOLEAN
    <3>1. CASE last = <<lastSavedText, TRUE>>
      BY <3>1 DEF Versions!VersionsTypeOK
    <3>2. CASE last = <<lastSavedText, FALSE>>
      BY <3>2 DEF Versions!VersionsTypeOK
    <3>3. CASE last = <<Versions!LatestDocumentVersionText, TRUE>>
      BY <1>1, <3>3
    <3> QED
      BY <2>1, <3>1, <3>2, <3>3
  <2>3. CASE Versions!RefuseRow(last)
    BY <2>2, <2>3 DEF Versions!RefuseRow, Versions!VersionsTypeOK
  <2>4. CASE Versions!FailRow(last)
    BY <2>2, <2>4 DEF Versions!FailRow, Versions!VersionsTypeOK
  <2>5. CASE Versions!WriteRow(last)
    BY <2>5 DEF Versions!WriteRow, Versions!VersionsTypeOK
  <2> QED
    BY <1>3, <2>3, <2>4, <2>5
<1> QED
  BY <1>2, <1>3 DEF Versions!SnapshotVersion

\* A flush leaves the log alone; it writes all of it or nothing, and a hub that
\* is clean after it was clean before or has just written.
LEMMA FlushFacts ==
  ASSUME TypeOK, NEW ok \in BOOLEAN, Flush(ok)
  PROVE  /\ updates' = updates /\ stored' \in Seq(Edits)
         /\ dirty' \in BOOLEAN /\ refused' \in BOOLEAN
         /\ \/ stored' = updates
            \/ stored' = stored /\ (~dirty \/ (dirty' /\ refused'))
BY DEF TypeOK, Flush

\* The frame the hub takes out of incoming, and what is left of the channel.
LEMMA TakeFrameFacts ==
  ASSUME TypeOK, NEW kind, TakeFrame(kind)
  PROVE  /\ pc = "select"
         /\ Head(incoming) \in Frames /\ Head(incoming).from \in Conns
         /\ kind = "edit" => Head(incoming).body \in Edits
         /\ kind = "text" => Head(incoming).body \in Texts
         /\ incoming' \in Seq(Frames)
<1>1. incoming \in Seq(Frames) /\ incoming # << >>
  BY DEF TypeOK, TakeFrame
<1>2. Head(incoming) \in Frames /\ Tail(incoming) \in Seq(Frames)
  BY <1>1
<1>3. Head(incoming).kind = kind /\ incoming' = Tail(incoming) /\ pc = "select"
  BY DEF TakeFrame, Selecting
<1> QED
  BY <1>2, <1>3 DEF Frames

\* A broadcast keeps the types of the send channels and of sync.
LEMMA BroadcastTypes ==
  ASSUME TypeOK, NEW from \in Conns, NEW msg \in Edits \cup {Blank},
         Broadcast(from, msg)
  PROVE  /\ send' \in [Conns -> Seq(Edits \cup {Blank})]
         /\ sync' \in [Conns -> {"no", "full", "late", "short"}]
BY DEF TypeOK, Broadcast

-----------------------------------------------------------------------------
LEMMA TypeInit == Init => TypeOK /\ SyncingOK
<1> SUFFICES ASSUME Init PROVE TypeOK /\ SyncingOK
  OBVIOUS
<1>1. << >> \in Seq(Conns) /\ << >> \in Seq(Frames) /\ << >> \in Seq(Texts)
      /\ << >> \in Seq(Edits \cup {Blank})
  OBVIOUS
<1>2. Versions!VersionsTypeOK
  BY <1>1, HubAssumption DEF Init, Versions!VersionsInit, Versions!FreshHub,
                             Versions!VersionsTypeOK
<1> QED
  BY <1>1, <1>2, HubAssumption DEF Init, TypeOK, SyncingOK

LEMMA TypeStep ==
  ASSUME TypeOK, SyncingOK, [Next]_vars
  PROVE  TypeOK' /\ SyncingOK'
<1> USE HubAssumption DEF TypeOK, SyncingOK, docVars, chanVars, connVars, histVars
<1>0. UNCHANGED textVars => Versions!VersionsTypeOK'
  BY DEF textVars, Versions!VersionsTypeOK
<1>1. CASE UNCHANGED vars
  BY <1>0, <1>1 DEF vars
<1>2. ASSUME NEW c \in Conns, AcquireHub(c)
      PROVE  TypeOK' /\ SyncingOK'
  BY <1>0, <1>2 DEF AcquireHub
<1>3. ASSUME NEW c \in Conns, UpgradeFails(c)
      PROVE  TypeOK' /\ SyncingOK'
  BY <1>0, <1>3 DEF UpgradeFails
<1>4. ASSUME NEW c \in Conns, Register(c)
      PROVE  TypeOK' /\ SyncingOK'
  BY <1>0, <1>4 DEF Register
<1>5. ASSUME NEW c \in Conns, ReadStep1(c)
      PROVE  TypeOK' /\ SyncingOK'
  BY <1>0, <1>5 DEF ReadStep1, ReadFrame, Frame, Frames
<1>6. ASSUME NEW c \in Conns, NEW e \in Edits, ReadEdit(c, e)
      PROVE  TypeOK' /\ SyncingOK'
  BY <1>0, <1>6 DEF ReadEdit, ReadFrame, Frame, Frames
<1>7. ASSUME NEW c \in Conns, ReadOther(c)
      PROVE  TypeOK' /\ SyncingOK'
  <2>1. ASSUME NEW k \in OtherKinds \ {"text"}, ReadFrame(c, k, Blank)
        PROVE  TypeOK' /\ SyncingOK'
    <3>1. Frame(c, k, Blank) \in Frames
      BY DEF Frame, Frames
    <3> QED
      BY <1>0, <1>7, <2>1, <3>1 DEF ReadOther, ReadFrame
  <2>2. ASSUME NEW t \in Texts, ReadFrame(c, "text", t)
        PROVE  TypeOK' /\ SyncingOK'
    <3>1. Frame(c, "text", t) \in Frames
      BY DEF Frame, Frames
    <3> QED
      BY <1>0, <1>7, <2>2, <3>1 DEF ReadOther, ReadFrame
  <2> QED
    BY <1>7, <2>1, <2>2 DEF ReadOther
<1>8. ASSUME NEW c \in Conns, ReadFails(c)
      PROVE  TypeOK' /\ SyncingOK'
  BY <1>0, <1>8 DEF ReadFails
<1>9. ASSUME NEW c \in Conns, WriteNext(c)
      PROVE  TypeOK' /\ SyncingOK'
  <2>1. /\ send[c] \in Seq(Edits \cup {Blank}) /\ send[c] # << >>
        /\ Head(send[c]) \in Edits \cup {Blank}
        /\ Tail(send[c]) \in Seq(Edits \cup {Blank})
    BY <1>9 DEF WriteNext
  <2> QED
    BY <1>0, <1>9, <2>1 DEF WriteNext
<1>10. ASSUME NEW c \in Conns, WriterReturns(c)
       PROVE  TypeOK' /\ SyncingOK'
  BY <1>0, <1>10 DEF WriterReturns
<1>11. CASE TakeRegister
  BY <1>0, <1>11 DEF TakeRegister, Selecting
<1>12. CASE IgnoreUnregister
  BY <1>0, <1>12 DEF IgnoreUnregister, Selecting
<1>13. CASE TakeUnregister
  <2>1. Versions!VersionsTypeOK'
    BY <1>13, SnapshotTypes DEF TakeUnregister
  <2>2. /\ updates' = updates /\ stored' \in Seq(Edits)
        /\ dirty' \in BOOLEAN /\ refused' \in BOOLEAN
        /\ pc' \in {"select", "returned"}
    <3>1. CASE UNCHANGED <<pc, docVars>>
      BY <1>13, <3>1 DEF TakeUnregister, Selecting
    <3>2. ASSUME pc' = "returned", NEW ok \in BOOLEAN, Flush(ok)
          PROVE  /\ updates' = updates /\ stored' \in Seq(Edits)
                 /\ dirty' \in BOOLEAN /\ refused' \in BOOLEAN
                 /\ pc' \in {"select", "returned"}
      BY <3>2, FlushFacts
    <3> QED
      BY <1>13, <3>1, <3>2 DEF TakeUnregister, EndIfEmpty
  <2> QED
    BY <1>13, <2>1, <2>2 DEF TakeUnregister
<1>14. CASE HandleStep1Closed
  BY <1>0, <1>14, TakeFrameFacts DEF HandleStep1Closed, TakeFrame
<1>15. CASE HandleStep1
  <2>1. Head(incoming).from \in Conns /\ incoming' \in Seq(Frames) /\ pc = "select"
    BY <1>15, TakeFrameFacts DEF HandleStep1
  <2> DEFINE c == Head(incoming).from
  <2>2. sync' \in [Conns -> {"no", "full", "late", "short"}]
    BY <1>15, <2>1 DEF HandleStep1
  <2>3. CASE updates # << >> /\ pc' = "syncing"
    <3>1. syncing' = [to |-> c, next |-> 1] /\ 1 \in 1 .. Len(updates)
      BY <1>15, <2>3 DEF HandleStep1
    <3> HIDE DEF c
    <3> QED
      BY <1>0, <1>15, <2>1, <2>2, <2>3, <3>1 DEF HandleStep1, TakeFrame, c
  <2>4. CASE updates = << >> /\ UNCHANGED pc
    <3>1. send' \in [Conns -> Seq(Edits \cup {Blank})]
      <4>1. \/ send' = send
            \/ send' = [send EXCEPT ![c] = Append(@, Blank)]
        BY <1>15, <2>4 DEF HandleStep1
      <4> HIDE DEF c
      <4>2. c \in Conns
        BY <2>1 DEF c
      <4>3. Append(send[c], Blank) \in Seq(Edits \cup {Blank})
        BY <4>2
      <4> QED
        BY <4>1, <4>3
    <3> HIDE DEF c
    <3> QED
      BY <1>0, <1>15, <2>1, <2>2, <2>4, <3>1 DEF HandleStep1, TakeFrame
  <2> QED
    BY <1>15, <2>3, <2>4 DEF HandleStep1
<1>16. CASE SyncDeliver
  <2>1. /\ syncing \in [to : Conns, next : 1 .. Len(updates)]
        /\ updates[syncing.next] \in Edits
    BY <1>16 DEF SyncDeliver
  <2> DEFINE c == syncing.to
             i == syncing.next
  <2>2. c \in Conns /\ i \in 1 .. Len(updates) /\ syncing = [to |-> c, next |-> i]
    BY <2>1
  <2>3. /\ \/ send' = send
           \/ send' = [send EXCEPT ![c] = Append(@, updates[i])]
        /\ \/ sync' = sync
           \/ sync' = [sync EXCEPT ![c] = "short"]
        /\ \/ i < Len(updates) /\ syncing' = [syncing EXCEPT !.next = i + 1] /\ pc' = pc
           \/ syncing' = Blank /\ pc' = "select"
    BY <1>16 DEF SyncDeliver
  <2>4. pc = "syncing" /\ updates' = updates
    BY <1>16 DEF SyncDeliver
  <2> HIDE DEF c, i
  <2>5. send' \in [Conns -> Seq(Edits \cup {Blank})]
    <3>1. updates[i] \in Edits \cup {Blank}
      BY <2>1 DEF i
    <3>2. Append(send[c], updates[i]) \in Seq(Edits \cup {Blank})
      BY <2>2, <3>1
    <3>3. send \in [Conns -> Seq(Edits \cup {Blank})] /\ c \in Conns
      BY <2>2
    <3> HIDE DEF TypeOK, SyncingOK
    <3>4. CASE send' = send
      BY <3>3, <3>4
    <3>5. CASE send' = [send EXCEPT ![c] = Append(@, updates[i])]
      BY <3>2, <3>3, <3>5
    <3> QED
      BY <2>3, <3>4, <3>5
  <2>6. sync' \in [Conns -> {"no", "full", "late", "short"}]
    BY <2>2, <2>3
  <2>7. CASE i < Len(updates) /\ syncing' = [syncing EXCEPT !.next = i + 1] /\ pc' = pc
    <3>1. syncing' = [to |-> c, next |-> i + 1] /\ i + 1 \in 1 .. Len(updates)
      BY <2>2, <2>7
    <3>2. /\ syncing' \in [to : Conns, next : 1 .. Len(updates)]
          /\ syncing' \in [to : Conns, next : Nat \ {0}]
      BY <2>2, <3>1
    <3> QED
      BY <1>0, <1>16, <2>4, <2>5, <2>6, <2>7, <3>1, <3>2 DEF SyncDeliver
  <2>8. CASE syncing' = Blank /\ pc' = "select"
    BY <1>0, <1>16, <2>4, <2>5, <2>6, <2>8 DEF SyncDeliver
  <2> QED
    BY <2>3, <2>7, <2>8
<1>17. CASE HandleUpdate
  <2>1. /\ Head(incoming).from \in Conns /\ Head(incoming).body \in Edits
        /\ incoming' \in Seq(Frames) /\ pc = "select"
    BY <1>17, TakeFrameFacts DEF HandleUpdate
  <2>2. /\ send' \in [Conns -> Seq(Edits \cup {Blank})]
        /\ sync' \in [Conns -> {"no", "full", "late", "short"}]
    BY <1>17, <2>1, BroadcastTypes DEF HandleUpdate
  <2>3. updates' \in Seq(Edits) /\ dirty' = TRUE
    BY <1>17, <2>1 DEF HandleUpdate
  <2>4. /\ pc' = pc /\ UNCHANGED <<syncing, textVars>>
        /\ UNCHANGED <<clients, register, unregister, handler, writing, closed,
                       stored, refused, have, basis>>
    BY <1>17 DEF HandleUpdate, TakeFrame
  <2> QED
    BY <1>0, <2>1, <2>2, <2>3, <2>4
<1>18. CASE HandleRelay
  <2>1. Head(incoming).from \in Conns /\ incoming' \in Seq(Frames)
    BY <1>18, TakeFrameFacts DEF HandleRelay
  <2>2. /\ send' \in [Conns -> Seq(Edits \cup {Blank})]
        /\ sync' \in [Conns -> {"no", "full", "late", "short"}]
    BY <1>18, <2>1, BroadcastTypes DEF HandleRelay
  <2> QED
    BY <1>0, <1>18, <2>1, <2>2 DEF HandleRelay, TakeFrame
<1>19. CASE HandleText
  <2>1. /\ Head(incoming).body \in Texts /\ incoming' \in Seq(Frames)
    BY <1>19, TakeFrameFacts DEF HandleText
  <2>2. Versions!VersionsTypeOK'
    BY <1>19, <2>1 DEF HandleText, Versions!ReceiveText, Versions!VersionsTypeOK
  <2> QED
    BY <1>19, <2>1, <2>2 DEF HandleText, TakeFrame
<1>20. CASE HandleIgnored
  BY <1>0, <1>20, TakeFrameFacts DEF HandleIgnored, TakeFrame
<1>21. ASSUME NEW ok \in BOOLEAN, Tick(ok)
       PROVE  TypeOK' /\ SyncingOK'
  BY <1>0, <1>21, FlushFacts DEF Tick
<1>22. CASE Shutdown
  <2>1. Versions!VersionsTypeOK'
    BY <1>22, SnapshotTypes DEF Shutdown
  <2>2. /\ updates' = updates /\ stored' \in Seq(Edits)
        /\ dirty' \in BOOLEAN /\ refused' \in BOOLEAN
    BY <1>22, FlushFacts DEF Shutdown
  <2> QED
    BY <1>22, <2>1, <2>2 DEF Shutdown
<1> QED
  BY <1>1, <1>2, <1>3, <1>4, <1>5, <1>6, <1>7, <1>8, <1>9, <1>10, <1>11, <1>12, <1>13,
     <1>14, <1>15, <1>16, <1>17, <1>18, <1>19, <1>20, <1>21, <1>22
  DEF Next, Connection, Goroutine

-----------------------------------------------------------------------------
(***************************************************************************)
(* What the store has of the log.                                          *)
(***************************************************************************)

\* What a step may do to the log and its stored copy: nothing; append to the
\* log, which makes the hub dirty; or flush.
LEMMA LogStep ==
  ASSUME TypeOK, [Next]_vars
  PROVE  \/ /\ UNCHANGED docVars
            /\ pc' = pc \/ pc' \in {"select", "syncing", "panicked"}
         \/ /\ \E e \in Edits : updates' = Append(updates, e)
            /\ dirty' /\ pc' = "select" /\ stored' = stored
         \/ \E ok \in BOOLEAN : Flush(ok)
<1> USE DEF docVars
<1>1. CASE UNCHANGED vars
  BY <1>1 DEF vars
<1>2. ASSUME NEW c \in Conns, Connection(c)
      PROVE  UNCHANGED docVars /\ pc' = pc
  BY <1>2 DEF Connection, AcquireHub, UpgradeFails, Register, ReadStep1, ReadEdit,
              ReadOther, ReadFails, ReadFrame, WriteNext, WriterReturns
<1>3. CASE TakeRegister \/ IgnoreUnregister
  BY <1>3 DEF TakeRegister, IgnoreUnregister
<1>4. CASE TakeUnregister
  BY <1>4 DEF TakeUnregister, EndIfEmpty
<1>5. CASE HandleStep1Closed
  BY <1>5 DEF HandleStep1Closed, TakeFrame
<1>6. CASE HandleStep1
  BY <1>6 DEF HandleStep1, TakeFrame
<1>7. CASE SyncDeliver
  BY <1>7 DEF SyncDeliver
<1>8. CASE HandleUpdate
  <2>1. Head(incoming).body \in Edits /\ pc = "select"
    BY <1>8, TakeFrameFacts DEF HandleUpdate
  <2> QED
    BY <1>8, <2>1 DEF HandleUpdate, TakeFrame
<1>9. CASE HandleRelay \/ HandleText \/ HandleIgnored
  BY <1>9 DEF HandleRelay, HandleText, HandleIgnored, TakeFrame
<1>10. CASE (\E ok \in BOOLEAN : Tick(ok)) \/ Shutdown
  BY <1>10 DEF Tick, Shutdown
<1> QED
  BY <1>1, <1>2, <1>3, <1>4, <1>5, <1>6, <1>7, <1>8, <1>9, <1>10 DEF Next, Goroutine

LEMMA PrefixReflexive ==
  ASSUME NEW S, NEW s \in Seq(S)
  PROVE  IsPrefix(s, s)
BY DEF IsPrefix

LEMMA PrefixOfAppend ==
  ASSUME NEW S, NEW s \in Seq(S), NEW t \in Seq(S), NEW e \in S, IsPrefix(s, t)
  PROVE  IsPrefix(s, Append(t, e))
<1>1. Len(s) <= Len(t) /\ Len(Append(t, e)) = Len(t) + 1
  BY DEF IsPrefix
<1>2. SubSeq(Append(t, e), 1, Len(s)) = SubSeq(t, 1, Len(s))
  BY <1>1
<1> QED
  BY <1>1, <1>2 DEF IsPrefix

LEMMA UnsavedStep ==
  ASSUME TypeOK, NothingUnsaved, [Next]_vars
  PROVE  NothingUnsaved'
<1> USE DEF NothingUnsaved
<1>1. CASE /\ UNCHANGED docVars
           /\ pc' = pc \/ pc' \in {"select", "syncing", "panicked"}
  BY <1>1 DEF docVars
<1>2. ASSUME NEW e \in Edits, updates' = Append(updates, e),
             dirty', pc' = "select", stored' = stored
      PROVE  NothingUnsaved'
  <2>1. updates \in Seq(Edits) /\ stored \in Seq(Edits)
    BY DEF TypeOK
  <2> QED
    BY <1>2, <2>1, PrefixOfAppend
<1>3. ASSUME NEW ok \in BOOLEAN, Flush(ok)
      PROVE  NothingUnsaved'
  <2>1. /\ updates' = updates
        /\ \/ stored' = updates
           \/ stored' = stored /\ (~dirty \/ (dirty' /\ refused'))
    BY <1>3, FlushFacts
  <2>2. updates \in Seq(Edits)
    BY DEF TypeOK
  <2>3. CASE stored' = updates
    BY <2>1, <2>2, <2>3, PrefixReflexive
  <2>4. CASE stored' = stored /\ ~dirty
    BY <2>1, <2>4
  <2>5. CASE stored' = stored /\ dirty' /\ refused'
    BY <2>1, <2>5
  <2> QED
    BY <2>1, <2>3, <2>4, <2>5
<1> QED
  BY <1>1, <1>2, <1>3, LogStep

-----------------------------------------------------------------------------
(***************************************************************************)
(* Connections on their way through the register channel.  MembersOpen is  *)
(* not inductive by itself: were a connection in the register channel when *)
(* its send channel is closed, TakeRegister would break it.                *)
(***************************************************************************)

Registered == {"opened", "open", "left"}

\* A connection is put in the register channel once, and there it is neither a
\* member nor closed.
RegisterOnce ==
  /\ \A i \in 1 .. Len(register) :
        register[i] \notin clients \cup closed /\ handler[register[i]] \in Registered
  /\ \A i, j \in 1 .. Len(register) : register[i] = register[j] => i = j
  /\ \A c \in clients \cup closed : handler[c] \in Registered

LEMMA MembersStep ==
  ASSUME TypeOK, RegisterOnce, MembersOpen, [Next]_vars
  PROVE  RegisterOnce' /\ MembersOpen'
<1> USE DEF RegisterOnce, MembersOpen, Registered
<1>t. /\ register \in Seq(Conns) /\ clients \subseteq Conns /\ closed \subseteq Conns
      /\ handler \in [Conns -> {"none", "acquired", "opened", "open", "left"}]
  BY DEF TypeOK
<1>1. CASE UNCHANGED <<register, clients, closed, handler>>
  BY <1>1
<1>2. ASSUME NEW c \in Conns, NEW s \in {"acquired", "open", "left"},
             handler[c] = "none" => s = "acquired",
             handler[c] \in Registered => s \in Registered,
             handler' = [handler EXCEPT ![c] = s],
             UNCHANGED <<register, clients, closed>>
      PROVE  RegisterOnce' /\ MembersOpen'
  BY <1>t, <1>2
<1>3. ASSUME NEW c \in Conns, Register(c)
      PROVE  RegisterOnce' /\ MembersOpen'
  <2>1. /\ register' = Append(register, c) /\ handler[c] = "acquired"
        /\ handler' = [handler EXCEPT ![c] = "opened"]
        /\ UNCHANGED <<clients, closed>>
    BY <1>3 DEF Register
  <2>2. /\ Len(register') = Len(register) + 1
        /\ \A i \in 1 .. Len(register) : register'[i] = register[i] /\ register[i] # c
        /\ register'[Len(register) + 1] = c
        /\ c \notin clients \cup closed
    BY <1>t, <2>1
  <2> QED
    BY <1>t, <2>1, <2>2
<1>4. CASE TakeRegister
  <2>1. /\ clients' = clients \cup {register[1]} /\ register' = Tail(register)
        /\ register # << >> /\ UNCHANGED <<closed, handler>>
    BY <1>4 DEF TakeRegister, connVars
  <2>2. /\ Len(register) \in Nat /\ Len(register) >= 1
        /\ Len(register') = Len(register) - 1
        /\ \A i \in 1 .. Len(register') :
              i + 1 \in 1 .. Len(register) /\ register'[i] = register[i + 1]
    BY <1>t, <2>1
  <2>3. \A i \in 1 .. Len(register') : register'[i] # register[1]
    BY <2>2
  <2> QED
    BY <1>t, <2>1, <2>2, <2>3
<1>5. CASE TakeUnregister
  BY <1>t, <1>5 DEF TakeUnregister
<1>6. CASE Shutdown
  BY <1>t, <1>6 DEF Shutdown, chanVars
<1>7. ASSUME NEW c \in Conns, Connection(c), ~Register(c)
      PROVE  RegisterOnce' /\ MembersOpen'
  <2>1. CASE AcquireHub(c)
    BY <1>2, <2>1 DEF AcquireHub, chanVars
  <2>2. CASE UpgradeFails(c)
    BY <1>2, <2>2 DEF UpgradeFails, chanVars
  <2>3. CASE ReadStep1(c)
    BY <1>2, <2>3 DEF ReadStep1, ReadFrame
  <2>4. CASE ReadFails(c)
    BY <1>2, <2>4 DEF ReadFails
  <2>5. CASE (\E e \in Edits : ReadEdit(c, e)) \/ ReadOther(c)
    BY <1>1, <2>5 DEF ReadEdit, ReadOther, ReadFrame
  <2>6. CASE WriteNext(c) \/ WriterReturns(c)
    BY <1>1, <2>6 DEF WriteNext, WriterReturns, chanVars
  <2> QED
    BY <1>7, <2>1, <2>2, <2>3, <2>4, <2>5, <2>6 DEF Connection
<1>8. CASE IgnoreUnregister
  BY <1>1, <1>8 DEF IgnoreUnregister, connVars
<1>9. CASE TakeIncoming
  BY <1>1, <1>9 DEF TakeIncoming, HandleStep1Closed, HandleStep1, HandleUpdate,
                    HandleRelay, HandleText, HandleIgnored, TakeFrame
<1>10. CASE SyncDeliver \/ \E ok \in BOOLEAN : Tick(ok)
  BY <1>1, <1>10 DEF SyncDeliver, Tick, chanVars, connVars
<1>11. CASE UNCHANGED vars
  BY <1>1, <1>11 DEF vars, chanVars, connVars
<1> QED
  BY <1>3, <1>4, <1>5, <1>6, <1>7, <1>8, <1>9, <1>10, <1>11
  DEF Next, Goroutine, TakeIncoming

-----------------------------------------------------------------------------
(***************************************************************************)
(* The theorems.                                                           *)
(***************************************************************************)

HubInv ==
  /\ TypeOK /\ SyncingOK
  /\ NothingUnsaved
  /\ RegisterOnce /\ MembersOpen

\* HubInv is inductive: it holds in every reachable state of a hub, for any
\* number of connections, updates and queue slots.
THEOREM HubInvariant == Spec => []HubInv
<1>1. Init => HubInv
  <2> SUFFICES ASSUME Init PROVE HubInv
    OBVIOUS
  <2>1. TypeOK /\ SyncingOK
    BY TypeInit
  <2>2. NothingUnsaved
    BY HubAssumption, PrefixReflexive DEF Init, NothingUnsaved
  <2>3. RegisterOnce /\ MembersOpen
    BY DEF Init, RegisterOnce, MembersOpen
  <2> QED
    BY <2>1, <2>2, <2>3 DEF HubInv
<1>2. HubInv /\ [Next]_vars => HubInv'
  BY TypeStep, UnsavedStep, MembersStep DEF HubInv
<1> QED
  BY <1>1, <1>2, PTL DEF Spec

\* Every variable of the hub and of its connections keeps its type.
THEOREM TypeCorrect == Spec => []TypeOK
BY HubInvariant, PTL DEF HubInv

\* However connections, ticks and refused writes interleave, the store holds a
\* beginning of the hub's log, and all of it when the hub is clean or ended with
\* a write that was not refused (hub.go:108-120, 214-230).
THEOREM NothingIsUnsaved == Spec => []NothingUnsaved
BY HubInvariant, PTL DEF HubInv

\* The channels a broadcast may send to are open: no order in which register and
\* unregister are taken makes broadcastExcept panic (hub.go:105-111, 201-212).
THEOREM BroadcastIsSafe == Spec => []MembersOpen
BY HubInvariant, PTL DEF HubInv
=============================================================================
