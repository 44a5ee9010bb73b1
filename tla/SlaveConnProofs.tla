--------------------------- MODULE SlaveConnProofs ---------------------------
(***************************************************************************)
(* The safety properties of SlaveConn, for any number of packets, any      *)
(* modulus of the sequence numbers, with and without read timeouts and     *)
(* errors of the parser.                                                   *)
(*                                                                         *)
(* The invariant says, of every packet the master has sent, where it is:   *)
(* handled, in the pump's hand or on the wire, in this order; and, as long *)
(* as no goroutine closes the connection, that mc.sequence is the number   *)
(* of the packet that is read next.                                        *)
(***************************************************************************)
EXTENDS SlaveConn, Integers, TLAPS

-----------------------------------------------------------------------------
(* Sequence numbers.                                                       *)

LEMMA Division ==
    ASSUME NEW m \in Nat \ {0}, NEW r \in Nat
    PROVE  /\ r = m * (r \div m) + (r % m)
           /\ r \div m \in Nat /\ r % m \in 0 .. m - 1
OBVIOUS

LEMMA NextMultiple ==
    ASSUME NEW m \in Nat, NEW a \in Nat, NEW b \in Nat, a < b
    PROVE  m * a + m <= m * b
<1>1. b >= a + 1 OBVIOUS
<1>2. m * b >= m * (a + 1) BY <1>1
<1> QED BY <1>2

(* Quotient and remainder are unique.                                      *)
LEMMA Remainder ==
    ASSUME NEW m \in Nat \ {0}, NEW q \in Nat, NEW s \in 0 .. m - 1
    PROVE  (m * q + s) % m = s
<1> DEFINE n == m * q + s
           Q == n \div m
           S == n % m
<1>1. m * q \in Nat /\ n \in Nat OBVIOUS
<1>2. n = m * Q + S /\ Q \in Nat /\ S \in 0 .. m - 1 BY <1>1, Division
<1>3. m * Q \in Nat BY <1>2
<1>4. ~(q < Q) BY <1>1, <1>2, <1>3, NextMultiple
<1>5. ~(Q < q) BY <1>1, <1>2, <1>3, NextMultiple
<1>6. Q = q BY <1>2, <1>4, <1>5
<1> HIDE DEF Q, S, n
<1>7. n = m * q + S BY <1>2, <1>6
<1> QED BY <1>1, <1>2, <1>7 DEF n, S

(* Counting one packet modulo SeqMod is counting it and reducing then.     *)
LEMMA NextSequenceCounts ==
    ASSUME NEW r \in Nat
    PROVE  NextSequence(r % SeqMod) = (r + 1) % SeqMod
<1> DEFINE q == r \div SeqMod
           s == r % SeqMod
<1>0. SeqMod \in Nat \ {0} BY SeqModAssumption
<1>1. r = SeqMod * q + s /\ q \in Nat /\ s \in 0 .. SeqMod - 1 BY <1>0, Division
<1>2. SUFFICES (s + 1) % SeqMod = (r + 1) % SeqMod BY DEF NextSequence
<1> HIDE DEF q, s
<1>3. SeqMod * q \in Nat BY <1>0, <1>1
<1>4. CASE s + 1 < SeqMod
  <2>1. s + 1 \in 0 .. SeqMod - 1 BY <1>0, <1>1, <1>4
  <2>2. (SeqMod * q + (s + 1)) % SeqMod = s + 1 BY <1>0, <1>1, <2>1, Remainder
  <2>3. (SeqMod * 0 + (s + 1)) % SeqMod = s + 1 BY <1>0, <2>1, Remainder
  <2>4. SeqMod * q + (s + 1) = r + 1 BY <1>1, <1>3
  <2>5. SeqMod * 0 + (s + 1) = s + 1 BY <1>0, <1>1
  <2> QED BY <2>2, <2>3, <2>4, <2>5
<1>5. CASE s + 1 = SeqMod
  <2>1. (SeqMod * (q + 1) + 0) % SeqMod = 0 BY <1>0, <1>1, Remainder
  <2>2. (SeqMod * 1 + 0) % SeqMod = 0 BY <1>0, Remainder
  <2>3. SeqMod * (q + 1) + 0 = r + 1 BY <1>0, <1>1, <1>3, <1>5
  <2>4. SeqMod * 1 + 0 = s + 1 BY <1>0, <1>5
  <2> QED BY <2>1, <2>2, <2>3, <2>4
<1> QED BY <1>0, <1>1, <1>4, <1>5

LEMMA SequenceType ==
    ASSUME NEW n \in Nat
    PROVE  NextSequence(n) \in 0 .. SeqMod - 1 /\ n % SeqMod \in 0 .. SeqMod - 1
BY SeqModAssumption DEF NextSequence

LEMMA ZeroType == 0 \in 0 .. SeqMod - 1
BY SeqModAssumption

-----------------------------------------------------------------------------
(* Types.                                                                  *)

(* When the pump holds a packet ...                                        *)
Reading == pump \in {"arm", "read"} /\ part = "header"
Holding ==
    \/ pump \in {"check", "send", "disarm", "sync"}
    \/ pump \in {"arm", "read"} /\ part = "body"

(* ... buf has it.                                                         *)
HandFull == Holding => Len(buf) = 1

LEMMA PacketInHand ==
    ASSUME TypeOK, HandFull, Holding
    PROVE  buf[1] \in Packet
<1>1. buf \in Seq(Packet) /\ Len(buf) = 1 BY DEF TypeOK, HandFull
<1> QED BY <1>1

LEMMA RemoteType ==
    ASSUME TypeOK,
           (\E kind \in PacketKinds : MasterSends(kind)) \/ LinkFails \/ Cancel
    PROVE  TypeOK'
<1> USE DEF TypeOK, conn, remote, pumpVars
<1>1. ASSUME NEW kind \in PacketKinds, MasterSends(kind) PROVE TypeOK'
  <2>1. lastSent' \in Nat BY <1>1 DEF MasterSends
  <2>2. lastSent' % SeqMod \in 0 .. SeqMod - 1 BY <2>1, SequenceType
  <2>3. [kind |-> kind, no |-> lastSent', seq |-> lastSent' % SeqMod] \in Packet
        BY <2>1, <2>2 DEF Packet
  <2>4. wire' \in Seq(Packet) BY <1>1, <2>3 DEF MasterSends
  <2> QED BY <1>1, <2>1, <2>4 DEF MasterSends
<1>2. CASE LinkFails BY <1>2 DEF LinkFails
<1>3. CASE Cancel
  <2>1. cancelled' \in BOOLEAN BY <1>3 DEF Cancel
  <2> QED BY <1>3, <2>1 DEF Cancel
<1> QED BY <1>1, <1>2, <1>3

LEMMA CloseType ==
    ASSUME TypeOK, NEW g \in Goroutines, Close(g)
    PROVE  TypeOK'
<1> USE DEF TypeOK, conn, remote, pumpVars, Elsewhere, CloseTo, CloseStates, Panic
<1>1. CASE CloseCheck(g) BY <1>1 DEF CloseCheck
<1>2. CASE CloseReset(g) BY <1>2, ZeroType DEF CloseReset
<1>3. CASE CloseWrite(g)
  <2>0. sequence \in Nat BY SeqModAssumption
  <2>a. NextSequence(sequence) \in 0 .. SeqMod - 1 BY <2>0, SequenceType
  <2>1. sequence' \in 0 .. SeqMod - 1 BY <1>3, <2>a DEF CloseWrite
  <2>2. panicked' \in BOOLEAN BY <1>3 DEF CloseWrite
  <2>3. netConn' \in BOOLEAN /\ open' \in BOOLEAN BY <1>3 DEF CloseWrite
  <2>4. closing' \in [Goroutines -> CloseStates] BY <1>3 DEF CloseWrite
  <2> QED BY <1>3, <2>1, <2>2, <2>3, <2>4 DEF CloseWrite
<1>4. CASE CleanupCheck(g) BY <1>4 DEF CleanupCheck
<1>5. CASE CleanupSocket(g)
  <2>1. panicked' \in BOOLEAN BY <1>5 DEF CleanupSocket
  <2>2. netConn' \in BOOLEAN /\ open' \in BOOLEAN BY <1>5 DEF CleanupSocket
  <2>3. closing' \in [Goroutines -> CloseStates] BY <1>5 DEF CleanupSocket
  <2>4. sequence' = sequence BY <1>5 DEF CleanupSocket
  <2> QED BY <1>5, <2>1, <2>2, <2>3, <2>4 DEF CleanupSocket
<1>6. CASE CleanupNil(g)
  <2>1. netConn' \in BOOLEAN BY <1>6 DEF CleanupNil
  <2> QED BY <1>6, <2>1 DEF CleanupNil
<1> QED BY <1>1, <1>2, <1>3, <1>4, <1>5, <1>6 DEF Close

(* What SetDeadline leaves the pump, when it goes on to next.              *)
LEMMA SetDeadlineType ==
    ASSUME TypeOK, NEW next \in PumpStates, SetDeadline(next)
    PROVE  /\ pump' \in PumpStates /\ why' \in Reasons
           /\ UNCHANGED <<part, buf>>
           /\ panicked' \in BOOLEAN
<1> USE DEF TypeOK, PumpStates, Reasons, SetDeadline, PumpEnds, PumpGoes, pumpVars, Panic
<1>1. panicked' \in BOOLEAN OBVIOUS
<1>2. pump' \in PumpStates /\ why' \in Reasons /\ UNCHANGED <<part, buf>> OBVIOUS
<1> QED BY <1>1, <1>2

LEMMA PumpType ==
    ASSUME TypeOK, HandFull, PumpStep \/ Rendezvous
    PROVE  TypeOK'
<1> USE DEF TypeOK, conn, remote, pumpVars, PumpOnly, PumpEnds, PumpGoes, PumpStates, Reasons
<1>1. CASE PumpArm
  <2>1. "read" \in PumpStates OBVIOUS
  <2> QED BY <1>1, <2>1, SetDeadlineType DEF PumpArm
<1>2. CASE PumpRead
  <2>1. buf' \in Seq(Packet) /\ Len(buf') <= 1 /\ wire' \in Seq(Packet)
    <3>1. CASE part = "header"
      <4>1. wire # <<>> /\ buf' = <<Head(wire)>> /\ wire' = Tail(wire)
            BY <1>2, <3>1 DEF PumpRead
      <4>2. Head(wire) \in Packet /\ Tail(wire) \in Seq(Packet) BY <4>1
      <4> QED BY <4>1, <4>2
    <3>2. CASE part # "header" BY <1>2, <3>2 DEF PumpRead
    <3> QED BY <3>1, <3>2
  <2>2. UNCHANGED <<stream, result, part, why, closing, conn, cancelled, panicked, handled, lastSent, link, readTimeout>>
        /\ pump' = "disarm"
        BY <1>2 DEF PumpRead
  <2> QED BY <2>1, <2>2
<1>3. CASE PumpReadFails
  <2>1. closing' \in [Goroutines -> CloseStates]
        BY <1>3 DEF PumpReadFails, CloseTo, CloseStates, Goroutines
  <2> QED BY <1>3, <2>1 DEF PumpReadFails
<1>4. CASE PumpClosed BY <1>4 DEF PumpClosed
<1>5. CASE PumpDisarm
  <2>1. (IF part = "header" THEN "sync" ELSE "check") \in PumpStates OBVIOUS
  <2> QED BY <1>5, <2>1, SetDeadlineType DEF PumpDisarm
<1>6. CASE PumpSync
  <2>1. sequence \in Nat BY SeqModAssumption
  <2>2. NextSequence(sequence) \in 0 .. SeqMod - 1 BY <2>1, SequenceType
  <2>3. sequence' \in 0 .. SeqMod - 1 BY <1>6, <2>2 DEF PumpSync
  <2>4. pump' \in PumpStates /\ part' \in {"header", "body"} /\ why' \in Reasons /\ buf' = buf
        BY <1>6 DEF PumpSync
  <2> QED BY <1>6, <2>3, <2>4 DEF PumpSync
<1>7. CASE PumpCheck
  <2>1. pump' \in PumpStates /\ UNCHANGED <<part, buf>> BY <1>7 DEF PumpCheck
  <2>2. buf[1].kind \in PacketKinds BY <1>7, PacketInHand DEF PumpCheck, Holding, Packet
  <2>3. why' \in Reasons BY <1>7, <2>2 DEF PumpCheck, PacketKinds, CarriesEvent
  <2> QED BY <1>7, <2>1, <2>3 DEF PumpCheck
<1>8. CASE PumpContextDone BY <1>8 DEF PumpContextDone
<1>9. CASE Rendezvous
  <2>1. buf[1] \in Packet BY <1>9, PacketInHand DEF Rendezvous, Holding
  <2>2. handled' \in Seq(Packet) BY <1>9, <2>1 DEF Rendezvous
  <2> QED BY <1>9, <2>2 DEF Rendezvous, StreamStates
<1>10. CASE Close("pump") BY <1>10, CloseType DEF Goroutines
<1> QED BY <1>1, <1>2, <1>3, <1>4, <1>5, <1>6, <1>7, <1>8, <1>9, <1>10 DEF PumpStep

LEMMA StreamType ==
    ASSUME TypeOK, StreamStep
    PROVE  TypeOK'
<1> USE DEF TypeOK, conn, remote, pumpVars, StreamOnly, StreamEnds, CloseTo,
            StreamStates, CloseStates, Goroutines
<1>1. CASE PrepareForReplication BY <1>1 DEF PrepareForReplication
<1>2. CASE NoticeDump
  <2>1. NextSequence(0) \in 0 .. SeqMod - 1 BY SequenceType
  <2>2. sequence' \in 0 .. SeqMod - 1 BY <1>2, <2>1, ZeroType DEF NoticeDump
  <2>3. stream' \in StreamStates /\ closing' \in [Goroutines -> CloseStates]
        BY <1>2 DEF NoticeDump
  <2>4. link' \in {"none", "dumping", "ended", "lost"} BY <1>2 DEF NoticeDump
  <2>5. result' \in {"none", "startError", "eof", "cancelled", "error"} BY <1>2 DEF NoticeDump
  <2> QED BY <1>2, <2>2, <2>3, <2>4, <2>5 DEF NoticeDump
<1>3. CASE FirstPacket
  <2>1. sequence \in Nat BY SeqModAssumption
  <2>2. NextSequence(sequence) \in 0 .. SeqMod - 1 BY <2>1, SequenceType
  <2>3. Head(wire) \in Packet /\ Tail(wire) \in Seq(Packet) BY <1>3 DEF FirstPacket
  <2>4. buf' \in Seq(Packet) /\ Len(buf') <= 1 BY <1>3, <2>3 DEF FirstPacket
  <2> QED BY <1>3, <2>2, <2>3, <2>4 DEF FirstPacket, PumpStates
<1>4. CASE FirstPacketFails BY <1>4 DEF FirstPacketFails
<1>5. CASE StreamHandles BY <1>5 DEF StreamHandles
<1>6. CASE StreamChannelClosed BY <1>6 DEF StreamChannelClosed
<1>7. CASE StreamContextDone BY <1>7 DEF StreamContextDone
<1>8. CASE StreamClosed BY <1>8 DEF StreamClosed
<1>9. CASE Close("stream") BY <1>9, CloseType
<1> QED BY <1>1, <1>2, <1>3, <1>4, <1>5, <1>6, <1>7, <1>8, <1>9 DEF StreamStep

-----------------------------------------------------------------------------
(* The invariant.                                                          *)

ReadSoFar == lastSent - Len(wire)
MasterEnded == link \notin {"none", "dumping"}

(* The wire holds the last packets sent, in order; nothing follows an EOF  *)
(* or an error packet.                                                     *)
WireInOrder ==
    /\ Len(wire) <= lastSent
    /\ \A i \in 1 .. Len(wire) :
          /\ wire[i].no = ReadSoFar + i
          /\ wire[i].seq = wire[i].no % SeqMod
          /\ wire[i].kind # "event" => i = Len(wire) /\ MasterEnded

(* The pump has read the packet behind those the parser has handled.       *)
InHand ==
    /\ Reading => Len(handled) = ReadSoFar
    /\ Holding =>
          /\ Len(handled) + 1 = ReadSoFar
          /\ buf[1].no = ReadSoFar
          /\ buf[1].seq = buf[1].no % SeqMod
          /\ buf[1].kind # "event" => wire = <<>> /\ MasterEnded
    /\ pump = "send" => buf[1].kind = "event"

(* What the end of the pump says of the packets.                           *)
Ended ==
    /\ why \in {"eof", "err"} => Len(handled) + 1 = lastSent /\ MasterEnded
    /\ why # "none" => pump = "done"

(* The pump runs when the stream waits for its events, and not before.     *)
Stages ==
    /\ pump = "none" => ReadSoFar = 0 /\ handled = <<>>
    /\ stream \in {"prepare", "notice", "first"} => pump = "none"
    /\ stream \in {"select", "handle"} => pump # "none"

(* Until the stream closes the connection, mc.sequence is the number of    *)
(* the packet to be read next, or of the one being compared with it.       *)
Comparing == pump \in {"disarm", "sync"} /\ part = "header"

InSync ==
    /\ pump = "sync" => part = "header"
    /\ stream = "first" => sequence = 1 % SeqMod
    /\ stream \in {"select", "handle"} =>
          /\ Comparing => sequence = ReadSoFar % SeqMod
          /\ Reading \/ (Holding /\ ~Comparing) => sequence = (ReadSoFar + 1) % SeqMod

(* How far each goroutine has got in closing the connection.               *)
Closes ==
    /\ ~netConn => ~open
    /\ \A g \in Goroutines : closing[g] = "nil" => ~open
    /\ closing["stream"] # "out" => stream = "close"
    /\ closing["pump"] # "out" => pump = "close"
    /\ stream = "close" /\ closing["stream"] = "out" => ~netConn
    /\ stream = "returned" => ~netConn

IInv ==
    /\ TypeOK /\ HandFull
    /\ WireInOrder /\ InHand /\ Ended /\ Stages /\ InSync /\ Closes
    /\ EventsInOrder /\ SyncErrorOnlyWhileClosing

LEMMA InitIInv == Init => IInv
<1> SUFFICES ASSUME Init PROVE IInv OBVIOUS
<1> USE DEF Init
<1>1. TypeOK
  <2>1. netConn \in BOOLEAN /\ open \in BOOLEAN OBVIOUS
  <2>2. cancelled \in BOOLEAN /\ panicked \in BOOLEAN OBVIOUS
  <2>3. closing \in [Goroutines -> CloseStates] BY DEF CloseStates
  <2>4. sequence \in 0 .. SeqMod - 1 BY ZeroType
  <2>5. buf \in Seq(Packet) /\ Len(buf) <= 1 /\ handled \in Seq(Packet) /\ wire \in Seq(Packet)
        OBVIOUS
  <2> QED BY <2>1, <2>2, <2>3, <2>4, <2>5 DEF TypeOK, StreamStates, PumpStates, Reasons
<1>2. HandFull /\ WireInOrder
      BY DEF HandFull, WireInOrder, Holding
<1>5. InHand BY DEF InHand, Reading, Holding
<1>6. Ended BY DEF Ended
<1>7. Stages
  <2>1. Len(wire) = 0 /\ lastSent = 0 OBVIOUS
  <2>2. ReadSoFar = 0 - 0 BY <2>1 DEF ReadSoFar
  <2>3. 0 - 0 = 0 OBVIOUS
  <2> QED BY <2>2, <2>3 DEF Stages
<1>3. InSync /\ Closes BY DEF InSync, Closes, Goroutines
<1>4. EventsInOrder /\ SyncErrorOnlyWhileClosing BY DEF EventsInOrder, SyncErrorOnlyWhileClosing
<1> QED BY <1>1, <1>2, <1>3, <1>4, <1>5, <1>6, <1>7 DEF IInv

LEMMA TypeKept == IInv /\ [Next]_vars => TypeOK'
<1> SUFFICES ASSUME IInv, [Next]_vars PROVE TypeOK' OBVIOUS
<1>1. TypeOK /\ HandFull BY DEF IInv
<1>2. CASE UNCHANGED vars BY <1>1, <1>2 DEF TypeOK, vars, pumpVars, conn, remote
<1>3. CASE Terminated BY <1>1, <1>3 DEF Terminated, TypeOK, vars, pumpVars, conn, remote
<1> QED BY <1>1, <1>2, <1>3, RemoteType, PumpType, StreamType DEF Next

-----------------------------------------------------------------------------
(* The wire.                                                               *)

(* A read takes the first packet of the wire.                              *)
Takes == wire # <<>> /\ wire' = Tail(wire) /\ UNCHANGED <<lastSent, link>>

Quiet ==
    /\ UNCHANGED <<wire, lastSent>>
    /\ MasterEnded => MasterEnded'

LEMMA PumpRemote == PumpStep \/ Rendezvous => Quiet \/ Takes
<1> USE DEF Quiet, Takes, MasterEnded, remote
<1>1. CASE PumpRead BY <1>1 DEF PumpRead
<1>2. CASE Rendezvous BY <1>2 DEF Rendezvous
<1>3. CASE Close("pump")
      BY <1>3 DEF Close, CloseCheck, CloseReset, CloseWrite, CleanupCheck, CleanupSocket, CleanupNil, Elsewhere
<1>4. CASE PumpArm \/ PumpReadFails \/ PumpClosed \/ PumpDisarm
      BY <1>4 DEF PumpArm, PumpReadFails, PumpClosed, PumpDisarm
<1>5. CASE PumpSync \/ PumpCheck \/ PumpContextDone
      BY <1>5 DEF PumpSync, PumpCheck, PumpContextDone
<1> QED BY <1>1, <1>2, <1>3, <1>4, <1>5 DEF PumpStep

LEMMA StreamRemote == TypeOK /\ StreamStep => Quiet \/ Takes
<1> USE DEF Quiet, Takes, MasterEnded, remote
<1>1. CASE FirstPacket BY <1>1 DEF FirstPacket
<1>2. CASE NoticeDump BY <1>2 DEF NoticeDump, StreamEnds
<1>3. CASE Close("stream")
      BY <1>3 DEF Close, CloseCheck, CloseReset, CloseWrite, CleanupCheck, CleanupSocket, CleanupNil, Elsewhere
<1>4. CASE PrepareForReplication \/ FirstPacketFails \/ StreamHandles
      BY <1>4 DEF PrepareForReplication, FirstPacketFails, StreamHandles
<1>5. CASE StreamChannelClosed \/ StreamContextDone \/ StreamClosed
      BY <1>5 DEF StreamChannelClosed, StreamContextDone, StreamClosed
<1> QED BY <1>1, <1>2, <1>3, <1>4, <1>5 DEF StreamStep

LEMMA RemoteEffect ==
    TypeOK /\ [Next]_vars => Quiet \/ Takes \/ \E kind \in PacketKinds : MasterSends(kind)
<1> SUFFICES ASSUME TypeOK, [Next]_vars
    PROVE  Quiet \/ Takes \/ \E kind \in PacketKinds : MasterSends(kind)
    OBVIOUS
<1>1. CASE LinkFails BY <1>1 DEF LinkFails, Quiet, MasterEnded
<1>2. CASE Cancel BY <1>2 DEF Cancel, Quiet, MasterEnded, remote
<1>3. CASE Terminated \/ UNCHANGED vars
      BY <1>3 DEF Terminated, vars, remote, Quiet, MasterEnded
<1> QED BY <1>1, <1>2, <1>3, PumpRemote, StreamRemote DEF Next

LEMMA TakenInOrder ==
    ASSUME TypeOK, WireInOrder, Takes
    PROVE  /\ WireInOrder'
           /\ ReadSoFar' = ReadSoFar + 1
           /\ Head(wire).no = ReadSoFar'
           /\ Head(wire).seq = Head(wire).no % SeqMod
           /\ Head(wire).kind # "event" => wire' = <<>> /\ MasterEnded
<1>1. wire \in Seq(Packet) /\ wire # <<>> /\ Len(wire) \in Nat /\ lastSent \in Nat
      BY DEF TypeOK, Takes
<1>2. Head(wire) = wire[1] /\ Len(wire') = Len(wire) - 1 /\ Len(wire) >= 1
      BY <1>1 DEF Takes
<1>3. \A i \in 1 .. Len(wire') : wire'[i] = wire[i + 1] BY <1>1, <1>2 DEF Takes
<1>4. ReadSoFar' = ReadSoFar + 1 BY <1>1, <1>2 DEF Takes, ReadSoFar
<1>5. 1 \in 1 .. Len(wire) BY <1>1, <1>2
<1>6. WireInOrder'
  <2>0. Len(wire) <= lastSent /\ lastSent' = lastSent BY DEF WireInOrder, Takes
  <2>1. Len(wire') <= lastSent' BY <1>1, <1>2, <2>0
  <2>2. ASSUME NEW i \in 1 .. Len(wire')
        PROVE  /\ wire'[i].no = ReadSoFar' + i
               /\ wire'[i].seq = wire'[i].no % SeqMod
               /\ wire'[i].kind # "event" => i = Len(wire') /\ MasterEnded'
    <3>1. i + 1 \in 1 .. Len(wire) /\ wire'[i] = wire[i + 1] BY <1>1, <1>2, <1>3
    <3>2. /\ wire[i + 1].no = ReadSoFar + (i + 1)
          /\ wire[i + 1].seq = wire[i + 1].no % SeqMod
          /\ wire[i + 1].kind # "event" => i + 1 = Len(wire) /\ MasterEnded
          BY <3>1 DEF WireInOrder
    <3>3. ReadSoFar + (i + 1) = ReadSoFar' + i BY <1>1, <1>4 DEF ReadSoFar
    <3>4. MasterEnded => MasterEnded' BY DEF MasterEnded, Takes
    <3>5. i + 1 = Len(wire) => i = Len(wire') BY <1>1, <1>2
    <3> QED BY <3>1, <3>2, <3>3, <3>4, <3>5
  <2> QED BY <2>1, <2>2 DEF WireInOrder
<1>7. /\ wire[1].no = ReadSoFar + 1 /\ wire[1].seq = wire[1].no % SeqMod
      /\ wire[1].kind # "event" => 1 = Len(wire) /\ MasterEnded
      BY <1>5 DEF WireInOrder
<1>8. 1 = Len(wire) => wire' = <<>> BY <1>1 DEF Takes
<1> QED BY <1>2, <1>4, <1>6, <1>7, <1>8

LEMMA WireKept == IInv /\ [Next]_vars => WireInOrder'
<1> SUFFICES ASSUME IInv, [Next]_vars PROVE WireInOrder' OBVIOUS
<1>0. TypeOK /\ WireInOrder BY DEF IInv
<1>1. CASE Quiet BY <1>0, <1>1 DEF Quiet, WireInOrder, ReadSoFar
<1>2. CASE Takes BY <1>0, <1>2, TakenInOrder
<1>3. ASSUME NEW kind \in PacketKinds, MasterSends(kind) PROVE WireInOrder'
  <2> DEFINE packet == [kind |-> kind, no |-> lastSent', seq |-> lastSent' % SeqMod]
  <2>1. /\ lastSent' = lastSent + 1 /\ wire' = Append(wire, packet)
        /\ link = "dumping" /\ (kind # "event" => link' = "ended")
        BY <1>3 DEF MasterSends
  <2>2. wire \in Seq(Packet) /\ lastSent \in Nat BY <1>0 DEF TypeOK
  <2>3. Len(wire') = Len(wire) + 1 /\ wire'[Len(wire) + 1] = packet BY <2>1, <2>2
  <2>4. \A i \in 1 .. Len(wire) : wire'[i] = wire[i] BY <2>1, <2>2
  <2>5. ReadSoFar' = ReadSoFar BY <2>1, <2>2, <2>3 DEF ReadSoFar
  <2>6. ASSUME NEW i \in 1 .. Len(wire)
        PROVE  /\ wire'[i].no = ReadSoFar' + i
               /\ wire'[i].seq = wire'[i].no % SeqMod
               /\ wire'[i].kind = "event"
        BY <1>0, <2>1, <2>4, <2>5 DEF WireInOrder, MasterEnded
  <2>7. packet.no = ReadSoFar' + Len(wire') BY <2>1, <2>2, <2>3 DEF ReadSoFar
  <2>8. Len(wire') <= lastSent' BY <1>0, <2>1, <2>2, <2>3 DEF WireInOrder
  <2>9. \A i \in 1 .. Len(wire') : i \in 1 .. Len(wire) \/ i = Len(wire) + 1 BY <2>2, <2>3
  <2>10. packet.seq = packet.no % SeqMod /\ packet.kind = kind OBVIOUS
  <2> HIDE DEF packet
  <2> QED BY <2>1, <2>3, <2>6, <2>7, <2>8, <2>9, <2>10 DEF WireInOrder, MasterEnded
<1> QED BY <1>0, <1>1, <1>2, <1>3, RemoteEffect

-----------------------------------------------------------------------------
(* The pump's packet.                                                      *)

(* What a step that does not concern the packets leaves alone.             *)
Aside == UNCHANGED <<pumpVars, handled, wire, lastSent, link>>

LEMMA CloseEffect ==
    ASSUME NEW g \in Goroutines, Close(g)
    PROVE  Aside /\ UNCHANGED <<stream, result, cancelled>>
BY DEF Close, CloseCheck, CloseReset, CloseWrite, CleanupCheck, CleanupSocket, CleanupNil,
       Elsewhere, Aside, remote

PacketInv == HandFull /\ InHand /\ Ended /\ Stages

LEMMA AsideKeepsPackets ==
    ASSUME PacketInv, Aside,
           stream' = stream \/ stream' \in {"close", "returned"}
             \/ (stream = "prepare" /\ stream' = "notice") \/ (stream = "handle" /\ stream' = "select")
    PROVE  PacketInv'
BY DEF PacketInv, HandFull, InHand, Ended, Stages, Aside, pumpVars, Reading, Holding,
       ReadSoFar, MasterEnded

LEMMA PumpEndKeepsPackets ==
    ASSUME PacketInv, NEW reason \in Reasons, PumpEnds(reason), pump # "none",
           UNCHANGED <<stream, handled, wire, lastSent, link>>,
           reason \in {"eof", "err"} => Len(handled) + 1 = lastSent /\ MasterEnded
    PROVE  PacketInv'
BY DEF PacketInv, HandFull, InHand, Ended, Stages, PumpEnds, Reading, Holding,
       ReadSoFar, MasterEnded

(* The pump moves on with, or without, a packet.                           *)
LEMMA PumpMoveKeepsPackets ==
    ASSUME PacketInv, UNCHANGED <<stream, why, buf, handled, wire, lastSent, link>>,
           pump \notin {"none", "done"}, pump' \notin {"none", "done"},
           Reading' => Reading, Holding' => Holding,
           pump' = "send" => buf[1].kind = "event"
    PROVE  PacketInv'
BY DEF PacketInv, HandFull, InHand, Ended, Stages, Reading, Holding, ReadSoFar, MasterEnded

LEMMA SetDeadlineKeepsPackets ==
    ASSUME PacketInv, NEW next, SetDeadline(next),
           UNCHANGED <<stream, handled, wire, lastSent, link>>,
           \/ pump = "arm" /\ next = "read"
           \/ pump = "disarm" /\ next \in {"sync", "check"}
    PROVE  PacketInv'
<1>1. CASE PumpEnds("deadline")
      BY <1>1, PumpEndKeepsPackets DEF Reasons
<1>2. CASE PumpGoes(next)
  <2>1. /\ pump' = next /\ UNCHANGED <<part, why, buf>> BY <1>2 DEF PumpGoes
  <2>2. Reading' => Reading BY <2>1 DEF Reading
  <2>3. Holding' => Holding BY <2>1 DEF Holding
  <2> QED BY <2>1, <2>2, <2>3, PumpMoveKeepsPackets
<1>3. CASE UNCHANGED pumpVars
      BY <1>3, AsideKeepsPackets DEF Aside
<1> QED BY <1>1, <1>2, <1>3 DEF SetDeadline

LEMMA PumpPackets ==
    ASSUME TypeOK, WireInOrder, PacketInv, PumpStep \/ Rendezvous
    PROVE  PacketInv'
<1>1. CASE PumpArm
      BY <1>1, SetDeadlineKeepsPackets DEF PumpArm, PumpOnly, remote
<1>2. CASE PumpRead
  <2>1. CASE part = "header"
    <3>1. Takes BY <1>2, <2>1 DEF PumpRead, Takes
    <3>2. buf' = <<Head(wire)>> /\ pump = "read" /\ pump' = "disarm" /\ UNCHANGED <<stream, part, why, handled>>
          BY <1>2, <2>1 DEF PumpRead, PumpOnly
    <3>3. Len(handled) = ReadSoFar BY <2>1, <3>2 DEF PacketInv, InHand, Reading
    <3>4. Len(buf') = 1 /\ buf'[1] = Head(wire) BY <3>2
    <3>5. /\ ReadSoFar' = ReadSoFar + 1 /\ Head(wire).no = ReadSoFar'
          /\ Head(wire).seq = Head(wire).no % SeqMod
          /\ Head(wire).kind # "event" => wire' = <<>> /\ MasterEnded
          BY <3>1, TakenInOrder
    <3>6. MasterEnded' = MasterEnded BY <3>1 DEF Takes, MasterEnded
    <3>7. HandFull' /\ InHand'
          BY <3>2, <3>3, <3>4, <3>5, <3>6 DEF HandFull, InHand, Reading
    <3>8. Ended' /\ Stages' BY <3>2 DEF PacketInv, Ended, Stages
    <3> QED BY <3>7, <3>8 DEF PacketInv
  <2>2. CASE part # "header"
    <3>1. /\ pump = "read" /\ pump' = "disarm"
          /\ UNCHANGED <<stream, part, why, buf, handled, wire, lastSent, link>>
          BY <1>2, <2>2 DEF PumpRead, PumpOnly
    <3>2. part = "body" BY <2>2 DEF TypeOK
    <3> QED BY <3>1, <3>2, PumpMoveKeepsPackets DEF Reading, Holding
  <2> QED BY <2>1, <2>2
<1>3. CASE PumpReadFails
  <2>1. /\ pump = "read" /\ pump' = "close"
        /\ UNCHANGED <<stream, part, why, buf, handled, wire, lastSent, link>>
        BY <1>3 DEF PumpReadFails, PumpGoes, PumpOnly, remote
  <2> QED BY <2>1, PumpMoveKeepsPackets DEF Reading, Holding
<1>4. CASE PumpClosed
      BY <1>4, PumpEndKeepsPackets DEF PumpClosed, PumpOnly, remote, Reasons
<1>5. CASE PumpDisarm
      BY <1>5, SetDeadlineKeepsPackets DEF PumpDisarm, PumpOnly, remote
<1>6. CASE PumpSync
  <2>1. CASE PumpEnds("sync")
        BY <1>6, <2>1, PumpEndKeepsPackets DEF PumpSync, PumpOnly, remote, Reasons
  <2>2. CASE pump' = "arm" /\ part' = "body" /\ UNCHANGED <<why, buf>>
    <3>1. pump = "sync" /\ UNCHANGED <<stream, why, buf, handled, wire, lastSent, link>>
          BY <1>6, <2>2 DEF PumpSync, PumpOnly, remote
    <3> QED BY <2>2, <3>1, PumpMoveKeepsPackets DEF Reading, Holding
  <2> QED BY <1>6, <2>1, <2>2 DEF PumpSync
<1>7. CASE PumpCheck
  <2>1. pump = "check" /\ UNCHANGED <<stream, handled, wire, lastSent, link>>
        BY <1>7 DEF PumpCheck, PumpOnly, remote
  <2>2. CASE CarriesEvent(buf[1])
    <3>1. pump' = "send" /\ UNCHANGED <<part, why, buf>> BY <1>7, <2>2 DEF PumpCheck, PumpGoes
    <3> QED BY <2>1, <2>2, <3>1, PumpMoveKeepsPackets DEF Reading, Holding, CarriesEvent
  <2>3. CASE ~CarriesEvent(buf[1])
    <3>1. PumpEnds(buf[1].kind) BY <1>7, <2>3 DEF PumpCheck
    <3>2. buf[1].kind \in Reasons
          BY <2>1, <2>3, PacketInHand DEF PacketInv, Holding, Packet, PacketKinds, Reasons, CarriesEvent
    <3>3. wire = <<>> /\ MasterEnded /\ Len(handled) + 1 = ReadSoFar
          BY <2>1, <2>3 DEF PacketInv, InHand, Holding, CarriesEvent
    <3>4. Len(handled) + 1 = lastSent
          BY <3>3 DEF ReadSoFar, TypeOK
    <3> QED BY <2>1, <3>1, <3>2, <3>3, <3>4, PumpEndKeepsPackets
  <2> QED BY <2>2, <2>3
<1>8. CASE PumpContextDone
      BY <1>8, PumpEndKeepsPackets DEF PumpContextDone, PumpOnly, remote, Reasons
<1>9. CASE Rendezvous
  <2>1. /\ pump = "send" /\ stream = "select" /\ stream' = "handle"
        /\ pump' = "arm" /\ part' = "header"
        /\ handled' = Append(handled, buf[1])
        /\ UNCHANGED <<why, buf, wire, lastSent, link>>
        BY <1>9 DEF Rendezvous, remote
  <2>2. Len(handled') = Len(handled) + 1 BY <2>1 DEF TypeOK
  <2>3. Len(handled) + 1 = ReadSoFar BY <2>1 DEF PacketInv, InHand, Holding
  <2>4. InHand' /\ HandFull'
        BY <2>1, <2>2, <2>3 DEF InHand, HandFull, Reading, Holding, ReadSoFar
  <2>5. why = "none" BY <2>1 DEF PacketInv, Ended
  <2>6. Ended' /\ Stages' BY <2>1, <2>5 DEF Ended, Stages
  <2> QED BY <2>4, <2>6 DEF PacketInv
<1>10. CASE Close("pump")
      BY <1>10, CloseEffect, AsideKeepsPackets DEF Goroutines
<1> QED BY <1>1, <1>2, <1>3, <1>4, <1>5, <1>6, <1>7, <1>8, <1>9, <1>10 DEF PumpStep

LEMMA StreamPackets ==
    ASSUME TypeOK, WireInOrder, PacketInv, StreamStep
    PROVE  PacketInv'
<1> USE DEF StreamOnly, StreamEnds, Aside, remote
<1>1. CASE PrepareForReplication
      BY <1>1, AsideKeepsPackets DEF PrepareForReplication
<1>2. CASE NoticeDump
  <2>1. /\ stream = "notice" /\ stream' \in {"first", "close"}
        /\ UNCHANGED <<pumpVars, handled, wire, lastSent>>
        /\ MasterEnded => MasterEnded'
        BY <1>2 DEF NoticeDump, MasterEnded
  <2> QED BY <2>1 DEF PacketInv, HandFull, InHand, Ended, Stages, pumpVars, Reading, Holding,
                      ReadSoFar
<1>3. CASE FirstPacket
  <2>1. Takes BY <1>3 DEF FirstPacket, Takes
  <2>2. /\ stream = "first" /\ stream' = "select" /\ pump' = "check"
        /\ buf' = <<Head(wire)>> /\ UNCHANGED <<part, why, handled>>
        BY <1>3 DEF FirstPacket
  <2>3. ReadSoFar = 0 /\ handled = <<>> /\ pump = "none" /\ why = "none"
        BY <2>2 DEF PacketInv, Stages, Ended
  <2>4. Len(buf') = 1 /\ buf'[1] = Head(wire) BY <2>2
  <2>5. /\ ReadSoFar' = 1 /\ Head(wire).no = ReadSoFar'
        /\ Head(wire).seq = Head(wire).no % SeqMod
        /\ Head(wire).kind # "event" => wire' = <<>> /\ MasterEnded
        BY <2>1, <2>3, TakenInOrder
  <2>6. MasterEnded' = MasterEnded BY <2>1 DEF Takes, MasterEnded
  <2>7. Len(handled) = 0 BY <2>3
  <2>8. InHand' /\ HandFull'
        BY <2>2, <2>4, <2>5, <2>6, <2>7 DEF InHand, HandFull, Reading
  <2>9. Ended' /\ Stages' BY <2>2, <2>3 DEF Ended, Stages
  <2> QED BY <2>8, <2>9 DEF PacketInv
<1>4. CASE FirstPacketFails BY <1>4, AsideKeepsPackets DEF FirstPacketFails
<1>5. CASE StreamHandles BY <1>5, AsideKeepsPackets DEF StreamHandles
<1>6. CASE StreamChannelClosed BY <1>6, AsideKeepsPackets DEF StreamChannelClosed
<1>7. CASE StreamContextDone BY <1>7, AsideKeepsPackets DEF StreamContextDone
<1>8. CASE StreamClosed BY <1>8, AsideKeepsPackets DEF StreamClosed
<1>9. CASE Close("stream")
      BY <1>9, CloseEffect, AsideKeepsPackets DEF Goroutines
<1> QED BY <1>1, <1>2, <1>3, <1>4, <1>5, <1>6, <1>7, <1>8, <1>9 DEF StreamStep

LEMMA PacketsKept == IInv /\ [Next]_vars => PacketInv'
<1> SUFFICES ASSUME IInv, [Next]_vars PROVE PacketInv' OBVIOUS
<1>0. TypeOK /\ WireInOrder /\ PacketInv BY DEF IInv, PacketInv
<1>1. ASSUME NEW kind \in PacketKinds, MasterSends(kind) PROVE PacketInv'
  <2>1. /\ link = "dumping" /\ lastSent' = lastSent + 1
        /\ UNCHANGED <<stream, pumpVars, handled>>
        /\ Len(wire') = Len(wire) + 1
        BY <1>0, <1>1 DEF MasterSends, TypeOK
  <2>2. ReadSoFar' = ReadSoFar BY <1>0, <2>1 DEF ReadSoFar, TypeOK
  <2>3. ~MasterEnded BY <2>1 DEF MasterEnded
  <2>4. why \notin {"eof", "err"} /\ (Holding => buf[1].kind = "event")
        BY <1>0, <2>3 DEF PacketInv, InHand, Ended
  <2> QED BY <1>0, <2>1, <2>2, <2>4
          DEF PacketInv, HandFull, InHand, Ended, Stages, pumpVars, Reading, Holding
<1>2. CASE LinkFails
  <2>1. MasterEnded => MasterEnded' BY <1>2 DEF LinkFails, MasterEnded
  <2>2. UNCHANGED <<stream, pumpVars, handled, wire, lastSent>> BY <1>2 DEF LinkFails
  <2> QED BY <1>0, <2>1, <2>2
          DEF PacketInv, HandFull, InHand, Ended, Stages, pumpVars, Reading, Holding, ReadSoFar
<1>3. CASE Cancel BY <1>0, <1>3, AsideKeepsPackets DEF Cancel, Aside, remote
<1>4. CASE Terminated \/ UNCHANGED vars
      BY <1>0, <1>4, AsideKeepsPackets DEF Terminated, vars, Aside, remote
<1> QED BY <1>0, <1>1, <1>2, <1>3, <1>4, PumpPackets, StreamPackets DEF Next

-----------------------------------------------------------------------------
(* The sequence number.                                                    *)

SequenceInv == InSync /\ SyncErrorOnlyWhileClosing

(* The stream goes on, or ends.                                            *)
StreamMoves ==
    \/ stream' = stream
    \/ stream' = "close" \/ (stream = "close" /\ stream' = "returned")
    \/ stream \in {"select", "handle"} /\ stream' \in {"select", "handle"}

LEMMA MoveKeepsSequence ==
    ASSUME SequenceInv, StreamMoves, UNCHANGED <<sequence, wire, lastSent>>,
           why' = "sync" => why = "sync",
           Comparing' => Comparing,
           Reading' \/ (Holding' /\ ~Comparing') => Reading \/ (Holding /\ ~Comparing),
           pump' = "sync" => part' = "header"
    PROVE  SequenceInv'
BY DEF SequenceInv, InSync, SyncErrorOnlyWhileClosing, StreamMoves, ReadSoFar

LEMMA AsideKeepsSequence ==
    ASSUME SequenceInv, StreamMoves, Aside, UNCHANGED sequence
    PROVE  SequenceInv'
BY MoveKeepsSequence DEF Aside, pumpVars, Reading, Holding, Comparing, SequenceInv, InSync

LEMMA CloseKeepsSequence ==
    ASSUME SequenceInv, Stages, Closes, NEW g \in Goroutines, Close(g)
    PROVE  SequenceInv'
<1>1. Aside /\ UNCHANGED stream BY CloseEffect
<1>2. closing[g] # "out"
      BY DEF Close, CloseCheck, CloseReset, CloseWrite, CleanupCheck, CleanupSocket, CleanupNil
<1>3. stream = "close" \/ pump = "close"
      BY <1>2 DEF Goroutines, Closes
<1>4. stream # "first" /\ (stream \in {"select", "handle"} => ~Reading /\ ~Holding)
      BY <1>3 DEF Stages, Reading, Holding
<1> QED BY <1>1, <1>4
    DEF Aside, pumpVars, SequenceInv, InSync, SyncErrorOnlyWhileClosing, Reading, Holding, Comparing

LEMMA SetDeadlineKeepsSequence ==
    ASSUME SequenceInv, NEW next, SetDeadline(next),
           UNCHANGED <<stream, wire, lastSent, sequence>>,
           \/ pump = "arm" /\ next = "read"
           \/ pump = "disarm" /\ next = (IF part = "header" THEN "sync" ELSE "check")
    PROVE  SequenceInv'
<1>1. CASE PumpEnds("deadline")
      BY <1>1, MoveKeepsSequence DEF PumpEnds, StreamMoves, Reading, Holding, Comparing
<1>2. CASE PumpGoes(next)
      BY <1>2, MoveKeepsSequence DEF PumpGoes, StreamMoves, Reading, Holding, Comparing
<1>3. CASE UNCHANGED pumpVars
  <2>1. UNCHANGED <<pump, part, why>> BY <1>3 DEF pumpVars
  <2> QED BY <2>1, MoveKeepsSequence
          DEF StreamMoves, Reading, Holding, Comparing, SequenceInv, InSync
<1> QED BY <1>1, <1>2, <1>3 DEF SetDeadline

LEMMA PumpSequence ==
    ASSUME TypeOK, WireInOrder, PacketInv, Closes, SequenceInv, PumpStep \/ Rendezvous
    PROVE  SequenceInv'
<1>0. ReadSoFar \in Nat BY DEF TypeOK, WireInOrder, ReadSoFar
<1>1. CASE PumpArm
      BY <1>1, SetDeadlineKeepsSequence DEF PumpArm, PumpOnly, remote, conn
<1>2. CASE PumpRead
  <2>1. /\ pump = "read" /\ pump' = "disarm"
        /\ UNCHANGED <<stream, part, why, sequence>>
        BY <1>2 DEF PumpRead, PumpOnly, conn
  <2>2. CASE part = "header"
    <3>1. Takes BY <1>2, <2>2 DEF PumpRead, Takes
    <3>2. ReadSoFar' = ReadSoFar + 1 BY <3>1, TakenInOrder
    <3> QED BY <2>1, <2>2, <3>2
        DEF SequenceInv, InSync, SyncErrorOnlyWhileClosing, Reading, Holding, Comparing,
            PacketInv, Stages
  <2>3. CASE part # "header"
    <3>1. part = "body" /\ UNCHANGED <<wire, lastSent>> BY <1>2, <2>3 DEF TypeOK, PumpRead
    <3> QED BY <2>1, <3>1, MoveKeepsSequence DEF StreamMoves, Reading, Holding, Comparing
  <2> QED BY <2>2, <2>3
<1>3. CASE PumpReadFails
      BY <1>3, MoveKeepsSequence
      DEF PumpReadFails, PumpGoes, PumpOnly, remote, conn, StreamMoves, Reading, Holding, Comparing
<1>4. CASE PumpClosed
      BY <1>4, MoveKeepsSequence
      DEF PumpClosed, PumpEnds, PumpOnly, remote, conn, StreamMoves, Reading, Holding, Comparing
<1>5. CASE PumpDisarm
      BY <1>5, SetDeadlineKeepsSequence DEF PumpDisarm, PumpOnly, remote, conn
<1>6. CASE PumpSync
  <2>1. pump = "sync" /\ part = "header" /\ UNCHANGED <<stream, wire, lastSent>>
        BY <1>6 DEF PumpSync, PumpOnly, remote, SequenceInv, InSync
  <2>2. buf[1].seq = ReadSoFar % SeqMod
        BY <2>1 DEF PacketInv, InHand, Holding
  <2>3. stream \in {"select", "handle", "close", "returned"}
        BY <2>1 DEF TypeOK, StreamStates, PacketInv, Stages
  <2>4. CASE stream \in {"select", "handle"}
    <3>1. sequence = ReadSoFar % SeqMod BY <2>1, <2>4 DEF SequenceInv, InSync, Comparing
    <3>2. sequence' = (ReadSoFar + 1) % SeqMod
          BY <1>0, <1>6, <2>2, <3>1, NextSequenceCounts DEF PumpSync
    <3>3. pump' = "arm" /\ part' = "body" /\ why' = why
          BY <1>6, <2>2, <3>1 DEF PumpSync
    <3> QED BY <2>1, <2>4, <3>2, <3>3
        DEF SequenceInv, InSync, SyncErrorOnlyWhileClosing, Comparing, ReadSoFar
  <2>5. CASE stream \in {"close", "returned"}
    <3>1. pump' \in {"arm", "done"} BY <1>6 DEF PumpSync, PumpEnds
    <3> QED BY <2>1, <2>5, <3>1 DEF SequenceInv, InSync, SyncErrorOnlyWhileClosing
  <2> QED BY <2>3, <2>4, <2>5
<1>7. CASE PumpCheck
  <2>1. pump = "check" /\ UNCHANGED <<stream, wire, lastSent, sequence>>
        BY <1>7 DEF PumpCheck, PumpOnly, remote, conn
  <2>2. CASE CarriesEvent(buf[1])
        BY <1>7, <2>1, <2>2, MoveKeepsSequence
        DEF PumpCheck, PumpGoes, StreamMoves, Reading, Holding, Comparing
  <2>3. CASE ~CarriesEvent(buf[1])
    <3>1. buf[1] \in Packet BY <2>1, PacketInHand DEF PacketInv, Holding
    <3>2. buf[1].kind # "sync" BY <3>1 DEF Packet, PacketKinds
    <3>3. PumpEnds(buf[1].kind) BY <1>7, <2>3 DEF PumpCheck
    <3>4. pump' = "done" /\ why' # "sync" BY <3>2, <3>3 DEF PumpEnds
    <3> QED BY <2>1, <3>4, MoveKeepsSequence DEF StreamMoves, Reading, Holding, Comparing
  <2> QED BY <2>2, <2>3
<1>8. CASE PumpContextDone
      BY <1>8, MoveKeepsSequence
      DEF PumpContextDone, PumpEnds, PumpOnly, remote, conn, StreamMoves, Reading, Holding, Comparing
<1>9. CASE Rendezvous
  <2>1. pump = "send" /\ stream = "select" /\ stream' = "handle" /\ pump' = "arm"
        /\ part' = "header" /\ UNCHANGED <<why, wire, lastSent, sequence>>
        BY <1>9 DEF Rendezvous, remote, conn
  <2> QED BY <2>1, MoveKeepsSequence DEF StreamMoves, Reading, Holding, Comparing
<1>10. CASE Close("pump")
      BY <1>10, CloseKeepsSequence DEF PacketInv, Goroutines
<1> QED BY <1>1, <1>2, <1>3, <1>4, <1>5, <1>6, <1>7, <1>8, <1>9, <1>10 DEF PumpStep

LEMMA StreamSequence ==
    ASSUME TypeOK, WireInOrder, PacketInv, Closes, SequenceInv, StreamStep
    PROVE  SequenceInv'
<1> USE DEF StreamOnly, StreamEnds, Aside, remote, conn
<1>1. CASE PrepareForReplication
      BY <1>1 DEF PrepareForReplication, pumpVars, SequenceInv, InSync, SyncErrorOnlyWhileClosing,
                  PacketInv, Stages
<1>2. CASE NoticeDump
  <2>1. stream = "notice" /\ pump = "none" /\ UNCHANGED <<pump, part, why>>
        BY <1>2 DEF NoticeDump, pumpVars, PacketInv, Stages
  <2>2. why # "sync" BY <2>1 DEF SequenceInv, SyncErrorOnlyWhileClosing
  <2>3. \/ stream' = "first" /\ sequence' = NextSequence(0)
        \/ stream' = "close"
        BY <1>2 DEF NoticeDump
  <2>4. NextSequence(0) = 1 % SeqMod BY DEF NextSequence
  <2> QED BY <2>1, <2>2, <2>3, <2>4 DEF SequenceInv, InSync, SyncErrorOnlyWhileClosing
<1>3. CASE FirstPacket
  <2>1. Takes BY <1>3 DEF FirstPacket, Takes
  <2>2. stream = "first" /\ stream' = "select" /\ pump' = "check"
        /\ sequence' = NextSequence(sequence) /\ UNCHANGED why
        BY <1>3 DEF FirstPacket
  <2>3. ReadSoFar = 0 BY <2>2 DEF PacketInv, Stages
  <2>4. ReadSoFar' = 1 BY <2>1, <2>3, TakenInOrder
  <2>5. sequence = 1 % SeqMod /\ why # "sync"
        BY <2>2 DEF SequenceInv, InSync, SyncErrorOnlyWhileClosing
  <2>6. NextSequence(1 % SeqMod) = (1 + 1) % SeqMod BY NextSequenceCounts
  <2>7. sequence' = (ReadSoFar' + 1) % SeqMod BY <2>2, <2>4, <2>5, <2>6
  <2> QED BY <2>2, <2>5, <2>7 DEF SequenceInv, InSync, SyncErrorOnlyWhileClosing, Comparing
<1>4. CASE FirstPacketFails BY <1>4, AsideKeepsSequence DEF FirstPacketFails, StreamMoves
<1>5. CASE StreamHandles BY <1>5, AsideKeepsSequence DEF StreamHandles, StreamMoves
<1>6. CASE StreamChannelClosed BY <1>6, AsideKeepsSequence DEF StreamChannelClosed, StreamMoves
<1>7. CASE StreamContextDone BY <1>7, AsideKeepsSequence DEF StreamContextDone, StreamMoves
<1>8. CASE StreamClosed BY <1>8, AsideKeepsSequence DEF StreamClosed, StreamMoves
<1>9. CASE Close("stream")
      BY <1>9, CloseKeepsSequence DEF PacketInv, Goroutines
<1> QED BY <1>1, <1>2, <1>3, <1>4, <1>5, <1>6, <1>7, <1>8, <1>9 DEF StreamStep

LEMMA SequenceKept == IInv /\ [Next]_vars => SequenceInv'
<1> SUFFICES ASSUME IInv, [Next]_vars PROVE SequenceInv' OBVIOUS
<1>0. TypeOK /\ WireInOrder /\ PacketInv /\ Closes /\ SequenceInv
      BY DEF IInv, PacketInv, SequenceInv
<1>1. ASSUME NEW kind \in PacketKinds, MasterSends(kind) PROVE SequenceInv'
  <2>1. /\ lastSent' = lastSent + 1 /\ Len(wire') = Len(wire) + 1
        /\ UNCHANGED <<stream, pumpVars, conn>>
        BY <1>0, <1>1 DEF MasterSends, TypeOK
  <2>2. ReadSoFar' = ReadSoFar BY <1>0, <2>1 DEF ReadSoFar, TypeOK
  <2> QED BY <1>0, <2>1, <2>2
      DEF SequenceInv, InSync, SyncErrorOnlyWhileClosing, pumpVars, conn, Reading, Holding, Comparing
<1>2. CASE LinkFails
      BY <1>0, <1>2 DEF LinkFails, SequenceInv, InSync, SyncErrorOnlyWhileClosing, pumpVars, conn,
                        Reading, Holding, Comparing, ReadSoFar
<1>3. CASE Cancel
      BY <1>0, <1>3, AsideKeepsSequence DEF Cancel, Aside, StreamMoves, remote, conn
<1>4. CASE Terminated \/ UNCHANGED vars
      BY <1>0, <1>4, AsideKeepsSequence DEF Terminated, vars, Aside, StreamMoves, remote, conn
<1> QED BY <1>0, <1>1, <1>2, <1>3, <1>4, PumpSequence, StreamSequence DEF Next

-----------------------------------------------------------------------------
(* Closing.                                                                *)

LEMMA CloseKeepsCloses ==
    ASSUME TypeOK, Closes, NEW g \in Goroutines, Close(g)
    PROVE  Closes'
<1> USE DEF Closes, CloseTo
<1>1. UNCHANGED <<stream, pump>> BY CloseEffect DEF Aside, pumpVars
<1>2. closing \in [Goroutines -> CloseStates] BY DEF TypeOK
<1>3. ASSUME NEW state \in CloseStates \ {"out"}, closing[g] # "out", CloseTo(g, state),
             netConn' = netConn, open' => open, state = "nil" => ~open'
      PROVE  Closes'
      BY <1>1, <1>2, <1>3 DEF Goroutines
<1>4. ASSUME closing[g] # "out", CloseTo(g, "out"), ~netConn', open' = open, ~open
      PROVE  Closes'
      BY <1>1, <1>2, <1>4 DEF Goroutines
<1>5. ASSUME UNCHANGED <<closing, netConn, open>> PROVE Closes'
      BY <1>1, <1>5
<1>6. CASE CloseCheck(g) BY <1>3, <1>6 DEF CloseCheck, CloseStates, conn
<1>7. CASE CloseReset(g) BY <1>3, <1>7 DEF CloseReset, CloseStates
<1>8. CASE CloseWrite(g)
  <2>1. CASE netConn BY <1>3, <1>8, <2>1 DEF CloseWrite, CloseStates
  <2>2. CASE ~netConn BY <1>5, <1>8, <2>2 DEF CloseWrite, conn
  <2> QED BY <2>1, <2>2
<1>9. CASE CleanupCheck(g)
  <2>1. CASE netConn BY <1>3, <1>9, <2>1 DEF CleanupCheck, CloseStates, conn
  <2>2. CASE ~netConn BY <1>4, <1>9, <2>2 DEF CleanupCheck, conn
  <2> QED BY <2>1, <2>2
<1>10. CASE CleanupSocket(g)
  <2>1. CASE netConn BY <1>3, <1>10, <2>1 DEF CleanupSocket, CloseStates
  <2>2. CASE ~netConn BY <1>5, <1>10, <2>2 DEF CleanupSocket, conn
  <2> QED BY <2>1, <2>2
<1>11. CASE CleanupNil(g)
      BY <1>4, <1>11 DEF CleanupNil
<1> QED BY <1>6, <1>7, <1>8, <1>9, <1>10, <1>11 DEF Close

(* Each goroutine enters Close when it has to, and otherwise stays out.    *)
LEMMA OutsideKeepsCloses ==
    ASSUME TypeOK, Closes, UNCHANGED <<netConn, open>>,
           \/ UNCHANGED <<closing, stream, pump>>
           \/ UNCHANGED <<closing, stream>> /\ pump # "close"
           \/ UNCHANGED <<closing, stream>> /\ closing["pump"] = "out"
           \/ UNCHANGED stream /\ pump' = "close" /\ CloseTo("pump", "check")
           \/ UNCHANGED <<closing, pump>> /\ stream \notin {"close", "returned"}
              /\ stream' \notin {"close", "returned"}
           \/ UNCHANGED pump /\ stream' = "close" /\ CloseTo("stream", "check")
           \/ UNCHANGED <<closing, pump>> /\ stream = "close" /\ closing["stream"] = "out"
              /\ stream' = "returned"
    PROVE  Closes'
BY DEF TypeOK, Closes, CloseTo, Goroutines

LEMMA PumpCloses ==
    ASSUME TypeOK, Closes, PumpStep \/ Rendezvous
    PROVE  Closes'
<1> USE OutsideKeepsCloses DEF PumpOnly, PumpGoes, PumpEnds, conn, pumpVars
<1>1. CASE PumpArm BY <1>1 DEF PumpArm
<1>2. CASE PumpRead BY <1>2 DEF PumpRead
<1>3. CASE PumpReadFails BY <1>3 DEF PumpReadFails
<1>4. CASE PumpClosed BY <1>4 DEF PumpClosed
<1>5. CASE PumpDisarm BY <1>5 DEF PumpDisarm
<1>6. CASE PumpSync BY <1>6 DEF PumpSync
<1>7. CASE PumpCheck BY <1>7 DEF PumpCheck
<1>8. CASE PumpContextDone BY <1>8 DEF PumpContextDone
<1>9. CASE Rendezvous
      BY <1>9 DEF Rendezvous, Closes, Goroutines
<1>10. CASE Close("pump") BY <1>10, CloseKeepsCloses DEF Goroutines
<1> QED BY <1>1, <1>2, <1>3, <1>4, <1>5, <1>6, <1>7, <1>8, <1>9, <1>10 DEF PumpStep

LEMMA StreamCloses ==
    ASSUME TypeOK, Closes, Stages, StreamStep
    PROVE  Closes'
<1> USE OutsideKeepsCloses DEF StreamOnly, StreamEnds, conn, pumpVars
<1>1. CASE PrepareForReplication BY <1>1 DEF PrepareForReplication
<1>2. CASE NoticeDump
  <2>1. UNCHANGED <<netConn, open, pump>> BY <1>2 DEF NoticeDump
  <2>2. \/ stream = "notice" /\ stream' = "first" /\ UNCHANGED closing
        \/ stream' = "close" /\ CloseTo("stream", "check")
        BY <1>2 DEF NoticeDump
  <2> QED BY <2>1, <2>2
<1>3. CASE FirstPacket
  <2>1. stream = "first" /\ stream' = "select" /\ UNCHANGED <<closing, netConn, open>>
        BY <1>3 DEF FirstPacket
  <2>2. pump = "none" BY <2>1 DEF Stages
  <2> QED BY <2>1, <2>2 DEF Closes, Goroutines
<1>4. CASE FirstPacketFails BY <1>4 DEF FirstPacketFails
<1>5. CASE StreamHandles BY <1>5 DEF StreamHandles
<1>6. CASE StreamChannelClosed BY <1>6 DEF StreamChannelClosed
<1>7. CASE StreamContextDone BY <1>7 DEF StreamContextDone
<1>8. CASE StreamClosed BY <1>8 DEF StreamClosed
<1>9. CASE Close("stream") BY <1>9, CloseKeepsCloses DEF Goroutines
<1> QED BY <1>1, <1>2, <1>3, <1>4, <1>5, <1>6, <1>7, <1>8, <1>9 DEF StreamStep

LEMMA ClosesKept == IInv /\ [Next]_vars => Closes'
<1> SUFFICES ASSUME IInv, [Next]_vars PROVE Closes' OBVIOUS
<1>0. TypeOK /\ Closes /\ Stages BY DEF IInv
<1>1. ASSUME NEW kind \in PacketKinds, MasterSends(kind) PROVE Closes'
      BY <1>0, <1>1 DEF MasterSends, Closes, conn, pumpVars
<1>2. CASE LinkFails \/ Cancel
      BY <1>0, <1>2 DEF LinkFails, Cancel, Closes, conn, pumpVars
<1>3. CASE Terminated \/ UNCHANGED vars
      BY <1>0, <1>3 DEF Terminated, vars, Closes, conn, pumpVars
<1> QED BY <1>0, <1>1, <1>2, <1>3, PumpCloses, StreamCloses DEF Next

-----------------------------------------------------------------------------
(* The parser's events.                                                    *)

LEMMA EventsKept == IInv /\ [Next]_vars => EventsInOrder'
<1> SUFFICES ASSUME IInv, [Next]_vars PROVE EventsInOrder' OBVIOUS
<1>0. TypeOK /\ EventsInOrder /\ HandFull /\ InHand BY DEF IInv
<1>1. CASE UNCHANGED handled BY <1>0, <1>1 DEF EventsInOrder
<1>2. CASE Rendezvous
  <2>1. pump = "send" /\ handled' = Append(handled, buf[1]) BY <1>2 DEF Rendezvous
  <2>2. handled \in Seq(Packet) BY <1>0 DEF TypeOK
  <2>3. buf[1].kind = "event" /\ buf[1].no = Len(handled) + 1
        BY <1>0, <2>1, <2>2 DEF InHand, Holding
  <2>4. \A n \in DOMAIN handled' : n \in DOMAIN handled \/ n = Len(handled) + 1
        BY <2>1, <2>2
  <2>5. /\ \A n \in DOMAIN handled : handled'[n] = handled[n]
        /\ handled'[Len(handled) + 1] = buf[1]
        BY <2>1, <2>2
  <2> QED BY <1>0, <2>3, <2>4, <2>5 DEF EventsInOrder
<1>3. CASE PumpStep
  <2>1. ASSUME NEW g \in Goroutines, Close(g) PROVE UNCHANGED handled
        BY <2>1, CloseEffect DEF Aside
  <2> QED BY <1>1, <1>3, <2>1
      DEF PumpStep, PumpArm, PumpRead, PumpReadFails, PumpClosed, PumpDisarm, PumpSync,
          PumpCheck, PumpContextDone, PumpOnly, Goroutines
<1>4. CASE StreamStep
  <2>1. ASSUME NEW g \in Goroutines, Close(g) PROVE UNCHANGED handled
        BY <2>1, CloseEffect DEF Aside
  <2> QED BY <1>1, <1>4, <2>1
      DEF StreamStep, PrepareForReplication, NoticeDump, FirstPacket, FirstPacketFails,
          StreamHandles, StreamChannelClosed, StreamContextDone, StreamClosed, StreamOnly, Goroutines
<1>5. CASE LinkFails \/ Cancel \/ \E kind \in PacketKinds : MasterSends(kind)
      BY <1>1, <1>5 DEF LinkFails, Cancel, MasterSends
<1>6. CASE Terminated \/ UNCHANGED vars BY <1>1, <1>6 DEF Terminated, vars
<1> QED BY <1>2, <1>3, <1>4, <1>5, <1>6 DEF Next

-----------------------------------------------------------------------------
(* The theorems.                                                           *)

LEMMA IInvHolds == SafeSpec => []IInv
<1>1. Init => IInv BY InitIInv
<1>2. IInv /\ [Next]_vars => IInv'
      BY TypeKept, WireKept, PacketsKept, SequenceKept, ClosesKept, EventsKept
      DEF IInv, PacketInv, SequenceInv
<1> QED BY <1>1, <1>2, PTL DEF SafeSpec

(* The two goroutines keep the types of what they share, at any moment.    *)
THEOREM TypeCorrect == SafeSpec => []TypeOK
<1>1. IInv => TypeOK BY DEF IInv
<1> QED BY <1>1, IInvHolds, PTL

(* The parser takes the master's events in order, each once and none left  *)
(* out, however many there are.                                            *)
THEOREM EventsInOrderHolds == SafeSpec => []EventsInOrder
<1>1. IInv => EventsInOrder BY DEF IInv
<1> QED BY <1>1, IInvHolds, PTL

(* A stream that the master ended has lost no event.                       *)
THEOREM NothingLostAtEofHolds == SafeSpec => []NothingLostAtEof
<1>1. IInv => NothingLostAtEof
  <2>1. IInv => Len(handled) \in Nat /\ lastSent \in Nat BY DEF IInv, TypeOK
  <2> QED BY <2>1 DEF IInv, Ended, NothingLostAtEof
<1> QED BY <1>1, IInvHolds, PTL

(* Sequence numbers go wrong only while the stream closes the connection.  *)
THEOREM SyncErrorOnlyWhileClosingHolds == SafeSpec => []SyncErrorOnlyWhileClosing
<1>1. IInv => SyncErrorOnlyWhileClosing BY DEF IInv
<1> QED BY <1>1, IInvHolds, PTL

(* Stream returns with its socket closed.                                  *)
THEOREM ConnectionClosedHolds == SafeSpec => []ConnectionClosed
<1>1. IInv => ConnectionClosed BY DEF IInv, Closes, ConnectionClosed
<1> QED BY <1>1, IInvHolds, PTL

=============================================================================
