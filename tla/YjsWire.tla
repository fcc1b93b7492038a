------------------------------- MODULE YjsWire -------------------------------
(***************************************************************************)
(* The byte formats of internal/server/yjswire.go: the variable-length     *)
(* integers and byte strings of a websocket frame, what handleFrame makes  *)
(* of a frame and passes on, and the framing of documents.yjs_state.       *)
(*                                                                         *)
(* The sizes are parameters: a varuint carries GroupBits bits a byte (7)   *)
(* into an integer of Width bits (64), a stored update has a length of     *)
(* LenBytes bytes (4) before it.  An error of the code, whatever its text, *)
(* is Refused.  An offset is the number of bytes before it.                *)
(***************************************************************************)
EXTENDS Naturals, Sequences, FiniteSets, SequencesExt, FiniteSetsExt

CONSTANTS GroupBits, Width, LenBytes,
          Magic,    \* stateMagicV1
          MaxLen    \* bound on the byte strings looked at

\* The power of a number, as a function of the exponent that proofs can unfold.
Pow(b, n) == LET Upto[i \in Nat] == IF i = 0 THEN 1 ELSE b * Upto[i - 1] IN Upto[n]

Base == Pow(2, GroupBits)      \* the continuation bit of a byte
ByteBase == 2 * Base
Byte == 0 .. ByteBase - 1

\* A number of the protocol fits in the width, and the length of a string in the
\* width and in the stored length: a frame has at most 1 << 20 bytes (hub.go:315).
ASSUME WireAssumption ==
  /\ GroupBits \in Nat \ {0} /\ Width \in Nat \ {0, 1} /\ LenBytes \in Nat \ {0}
  /\ Magic \in Seq(Byte) /\ Magic # << >>
  /\ MaxLen \in Nat /\ MaxLen < Pow(2, Width) /\ MaxLen < Pow(ByteBase, LenBytes)

\* The code's constants.
msgSync == 0
syncStep1 == 0
syncStep2 == 1
syncUpdate == 2

Refused == [ok |-> FALSE]

-----------------------------------------------------------------------------
\* Mutant of VarUint: the loop ends one value late.
VarUintLate(v) ==
  LET From[w \in Nat] == IF w <= Base THEN <<w>>
                         ELSE <<(w % Base) + Base>> \o From[w \div Base]
  IN  From[v]

\* appendVarUint to an empty buffer: the low group first.
VarUint(v) ==
  LET From[w \in Nat] == IF w < Base THEN <<w>>
                         ELSE <<(w % Base) + Base>> \o From[w \div Base]
  IN  From[v]

VarBytes(data) == VarUint(Len(data)) \o data

\* The most bytes readVarUint looks at: the shift stays below Width.
Groups == Min({g \in 1 .. Width : g * GroupBits >= Width})

\* The number the groups of s denote.
Denoted(s) ==
  LET From[t \in Seq(Byte)] ==
        IF t = << >> THEN 0 ELSE From[Tail(t)] * Base + (Head(t) % Base)
  IN  From[s]

\* Bits shifted beyond the width fall off; a number that goes on beyond Groups
\* bytes, or beyond the data, is refused.
ReadVarUint(data, off) ==
  LET ends == {n \in 1 .. Groups : off + n <= Len(data) /\ data[off + n] < Base}
  IN  IF ends = {} THEN Refused
      ELSE [ok |-> TRUE, n |-> Min(ends),
            val |-> Denoted(SubSeq(data, off + 1, off + Min(ends))) % Pow(2, Width)]

\* Mutant of ReadVarBytes: a length beyond the data takes what there is.
ReadAvailable(data, off) ==
  LET l == ReadVarUint(data, off)
  IN  IF ~l.ok THEN Refused
      ELSE [ok |-> TRUE,
            payload |-> SubSeq(data, off + l.n + 1, Min({Len(data), off + l.n + l.val}))]

ReadVarBytes(data, off) ==
  LET l == ReadVarUint(data, off)
  IN  IF ~l.ok \/ l.val > Len(data) - (off + l.n) THEN Refused
      ELSE [ok |-> TRUE, payload |-> SubSeq(data, off + l.n + 1, off + l.n + l.val)]

-----------------------------------------------------------------------------
EncodeSyncStep2(state) == VarUint(msgSync) \o VarUint(syncStep2) \o VarBytes(state)
EncodeSyncUpdate(update) == VarUint(msgSync) \o VarUint(syncUpdate) \o VarBytes(update)

\* parseYjsWire.  step and inner are what a sync message has: an update for
\* Step2 and Update, whatever follows it; nothing the server uses for others.
ParseYjsWire(msg) ==
  LET top == ReadVarUint(msg, 0)
      step == ReadVarUint(msg, top.n)
      inner == ReadVarBytes(msg, top.n + step.n)
  IN  IF ~top.ok THEN Refused
      ELSE IF top.val # msgSync THEN [ok |-> TRUE, top |-> top.val, inner |-> << >>]
      ELSE IF ~step.ok THEN Refused
      ELSE IF step.val \notin {syncStep2, syncUpdate}
           THEN [ok |-> TRUE, top |-> msgSync, step |-> step.val, inner |-> << >>]
      ELSE IF ~inner.ok THEN Refused
      ELSE [ok |-> TRUE, top |-> msgSync, step |-> step.val, inner |-> inner.payload]

\* What handleFrame does with a binary frame: the kinds of the module Hub.
Kind(msg) ==
  LET p == ParseYjsWire(msg)
  IN  IF ~p.ok THEN "ignored"
      ELSE IF p.top # msgSync THEN "relay"
      ELSE IF p.step = syncStep1 THEN "step1"
      ELSE IF p.step \notin {syncStep2, syncUpdate} THEN "relay"
      ELSE IF p.inner = << >> THEN "ignored" ELSE "edit"

\* Mutant of ForPeers: an answer is passed on as an answer.
ForPeersAsIs(msg) == msg

\* What the peers are sent for a frame with an update: an answer to Step1 goes
\* on as an Update, an Update as it came.
ForPeers(msg) ==
  LET p == ParseYjsWire(msg)
  IN  IF p.step = syncStep2 THEN EncodeSyncUpdate(p.inner) ELSE msg

-----------------------------------------------------------------------------
BigEndian(n) == [i \in 1 .. LenBytes |-> (n \div Pow(ByteBase, LenBytes - i)) % ByteBase]

\* The number that the bytes of s are, the highest first.
Number(s) ==
  LET Upto[t \in Seq(Byte)] ==
        IF t = << >> THEN 0 ELSE Upto[Front(t)] * ByteBase + Last(t)
  IN  Upto[s]

\* encodeStoredState
EncodeStoredState(us) ==
  LET From[l \in Seq(Seq(Byte))] ==
        IF l = << >> THEN << >>
        ELSE BigEndian(Len(Head(l))) \o Head(l) \o From[Tail(l)]
  IN  Magic \o From[us]

\* Mutant of Updates: an update that is cut is taken as far as it goes.
UpdatesAndRest(body) ==
  LET From[rest \in Seq(Byte)] ==
        LET end == Min({Len(rest), LenBytes + Number(SubSeq(rest, 1, LenBytes))})
        IN  IF Len(rest) < LenBytes THEN << >>
            ELSE <<SubSeq(rest, LenBytes + 1, end)>> \o From[SubSeq(rest, end + 1, Len(rest))]
  IN  From[body]

\* The updates of body, up to the first that is cut.
Updates(body) ==
  LET From[rest \in Seq(Byte)] ==
        LET end == LenBytes + Number(SubSeq(rest, 1, LenBytes))
        IN  IF Len(rest) < LenBytes \/ Len(rest) < end THEN << >>
            ELSE <<SubSeq(rest, LenBytes + 1, end)>> \o From[SubSeq(rest, end + 1, Len(rest))]
  IN  From[body]

\* parseStoredState: nothing, a legacy blob that is one update, or the list.
ParseStoredState(b) ==
  IF b = << >> THEN << >>
  ELSE IF ~IsPrefix(Magic, b) THEN <<b>>
  ELSE Updates(SubSeq(b, Len(Magic) + 1, Len(b)))

-----------------------------------------------------------------------------
(***************************************************************************)
(* Every list of byte strings, within MaxLen, is reached byte by byte.     *)
(***************************************************************************)
VARIABLE updates   \* the strings before the last are complete

buf == Last(updates)

Init == updates = << << >> >>

Room == Len(FlattenSeq(updates)) + Len(updates) <= MaxLen

AddByte(b) == Room /\ updates' = Front(updates) \o <<Append(buf, b)>>

Complete == Room /\ updates' = Append(updates, << >>)

Next == (\E b \in Byte : AddByte(b)) \/ Complete

Spec == Init /\ [][Next]_updates

-----------------------------------------------------------------------------
\* What appendVarUint writes, readVarUint reads, wherever it stands and
\* whatever follows it (yjswire.go:23-50).
VarUintRoundTrip ==
  \A v \in 0 .. Pow(2, Width) - 1 :
    LET r == ReadVarUint(buf \o VarUint(v) \o buf, Len(buf))
    IN  r.ok /\ r.val = v /\ r.n = Len(VarUint(v))

\* The update the hub keeps of a received frame, however its numbers were
\* written and whatever follows, is the update every peer reads in the frame it
\* is sent, and reads in an Update: only the direct answer to a Step1 is a Step2
\* (hub.go:172-187).
PeersReadTheUpdate ==
  LET sent == ParseYjsWire(ForPeers(buf))
  IN  Kind(buf) = "edit"
        => /\ Kind(ForPeers(buf)) = "edit"
           /\ sent.step = syncUpdate /\ sent.inner = ParseYjsWire(buf).inner

\* A frame that was cut short is never taken for an update, nor for one that is
\* only forwarded.
CutFramesAreNoUpdates ==
  \A msg \in {EncodeSyncUpdate(buf), EncodeSyncStep2(buf)} :
    \A n \in 0 .. Len(msg) - 1 : Kind(SubSeq(msg, 1, n)) = "ignored"

\* Whatever blob a hub found, legacy and damaged ones too, the hub after it reads back
\* what was read of that and what came later; and of its own blob cut anywhere behind
\* the magic the updates that are whole (yjswire.go:135-171).
StoredStateSurvives ==
  LET known == ParseStoredState(buf) \o updates
      blob == EncodeStoredState(known)
  IN  /\ ParseStoredState(blob) = known
      /\ \A n \in Len(Magic) .. Len(blob) :
           IsPrefix(ParseStoredState(SubSeq(blob, 1, n)), known)
=============================================================================
