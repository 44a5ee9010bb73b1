---------------------------- MODULE PacketFraming ---------------------------
(***************************************************************************)
(* Payloads cut into packets and joined again: writePacket on one end of a *)
(* link and readPacket on the other (dump/packets.go). The length of a     *)
(* packet has three bytes, so that a payload that is longer than the       *)
(* largest of them goes on in the next packet, and one that fills its last *)
(* packet is followed by an empty one. The link carries bytes: the reader  *)
(* takes four for a header and then as many as the header says.            *)
(*                                                                         *)
(* The two ends are the library and the master, in either direction; the   *)
(* master frames as the library does. A write may fail with a part of the  *)
(* packet sent, the link may end with what is under way lost, and with a   *)
(* read timeout the reader may give up while bytes are missing.            *)
(***************************************************************************)
EXTENDS Integers, Sequences

CONSTANTS
    Base,               \* the values of a byte: 256 in the program
    Payloads,           \* what may be handed to writePacket, without the header's room
    maxAllowedPacket,   \* the limit of writePacket
    Window,             \* bound: bytes under way when a packet is written
    Breaks,             \* bound: bytes that still arrive when a write or the link breaks
    MaxPayloads         \* bound: payloads given

ASSUME FramingAssumption ==
    /\ Base \in Nat \ {0, 1}
    /\ Payloads \subseteq Seq(Nat)
    /\ Breaks \subseteq Nat
    /\ maxAllowedPacket \in Nat /\ Window \in Nat /\ MaxPayloads \in Nat

VARIABLES
    given,        \* the payloads of which writePacket has begun to write packets
    writing,      \* writePacket is running
    written,      \* the bytes of the last payload that are in packets
    writeError,   \* what writePacket has returned last
    writeSeq,     \* mc.sequence of the writer
    stream,       \* the bytes that were sent and are not lost
    link,         \* "up", or "ended": nothing is sent any more
    at,           \* how many bytes the reader has taken
    stage,        \* where readPacket is
    pktLen, prevData,   \* its locals
    readSeq,      \* mc.sequence of the reader
    readError,    \* what readPacket has returned last
    got,          \* the payloads readPacket has returned
    readTimeout   \* the reader's DSN has a read timeout

writerVars == <<given, writing, written, writeError, writeSeq>>
readerVars == <<at, stage, pktLen, prevData, readSeq, readError, got, readTimeout>>
framing == <<writerVars, stream, link, readerVars>>

maxPacketSize == Base * Base * Base - 1

-----------------------------------------------------------------------------
(* The header: the length, least significant byte first, and the number.   *)

(* Mutant: a number does not wrap.                                         *)
LowByteUnwrapped(n) == n

LowByte(n) == n % Base

Shifted(n) == n \div Base

packetSize(remaining) == IF remaining >= maxPacketSize THEN maxPacketSize ELSE remaining

Header(size, sequence) ==
    <<LowByte(size), LowByte(Shifted(size)), LowByte(Shifted(Shifted(size))), sequence>>

HeaderLength(header) == header[1] + Base * header[2] + Base * Base * header[3]

-----------------------------------------------------------------------------
Init ==
    /\ given = <<>> /\ writing = FALSE /\ written = 0 /\ writeError = "nil"
    /\ writeSeq = 0
    /\ stream = <<>> /\ link = "up" /\ at = 0
    /\ stage = "idle" /\ pktLen = 0 /\ prevData = <<>> /\ readSeq = 0
    /\ readError = "nil" /\ got = <<>>
    /\ readTimeout \in BOOLEAN

-----------------------------------------------------------------------------
(* writePacket.                                                            *)

payload == given[Len(given)]
remaining == Len(payload) - written
size == packetSize(remaining)
packet == Header(size, writeSeq) \o SubSeq(payload, written + 1, written + size)

(* The call: a payload above the limit is refused before anything is sent. *)
WriteCall(p) ==
    /\ ~writing /\ link = "up" /\ Len(given) < MaxPayloads
    /\ IF Len(p) > maxAllowedPacket
       THEN writeError' = "tooLarge" /\ UNCHANGED <<given, writing, written>>
       ELSE /\ given' = Append(given, p)
            /\ writing' = TRUE /\ written' = 0
            /\ UNCHANGED writeError
    /\ UNCHANGED <<writeSeq, stream, link, readerVars>>

(* Mutant: the loop ends when nothing remains, without an empty packet.    *)
WritePacketNoEmpty ==
    /\ writing /\ link = "up" /\ Len(stream) - at <= Window
    /\ stream' = stream \o packet
    /\ writeSeq' = LowByte(writeSeq + 1)
    /\ IF size = remaining
       THEN writing' = FALSE /\ writeError' = "nil" /\ UNCHANGED written
       ELSE written' = written + size /\ UNCHANGED <<writing, writeError>>
    /\ UNCHANGED <<given, link, readerVars>>

(* Mutant: payloads are numbered, not packets.                             *)
WritePacketNumbersPayloads ==
    /\ writing /\ link = "up" /\ Len(stream) - at <= Window
    /\ stream' = stream \o packet
    /\ IF size # maxPacketSize
       THEN /\ writing' = FALSE /\ writeError' = "nil" /\ UNCHANGED written
            /\ writeSeq' = LowByte(writeSeq + 1)
       ELSE written' = written + size /\ UNCHANGED <<writing, writeError, writeSeq>>
    /\ UNCHANGED <<given, link, readerVars>>

(* One turn of the loop. It is the last one unless the packet is full.     *)
WritePacket ==
    /\ writing /\ link = "up" /\ Len(stream) - at <= Window
    /\ stream' = stream \o packet
    /\ writeSeq' = LowByte(writeSeq + 1)
    /\ IF size # maxPacketSize
       THEN writing' = FALSE /\ writeError' = "nil" /\ UNCHANGED written
       ELSE written' = written + size /\ UNCHANGED <<writing, writeError>>
    /\ UNCHANGED <<given, link, readerVars>>

(* netConn.Write fails, maybe after a part of the packet. The caller gives *)
(* the connection up.                                                      *)
WriteFails ==
    /\ writing
    /\ \E n \in Breaks \cap (0 .. Len(packet) - 1) :
        /\ link = "ended" => n = 0
        /\ stream' = stream \o SubSeq(packet, 1, n)
    /\ writing' = FALSE /\ writeError' = "badConn" /\ link' = "ended"
    /\ UNCHANGED <<given, written, writeSeq, readerVars>>

(* The link ends, and what has not arrived is lost.                        *)
Lose ==
    /\ link = "up" /\ link' = "ended"
    /\ \E n \in Breaks : at + n <= Len(stream) /\ stream' = SubSeq(stream, 1, at + n)
    /\ UNCHANGED <<writerVars, readerVars>>

-----------------------------------------------------------------------------
(* readPacket.                                                             *)

Arrived(n) == Len(stream) - at >= n
Taken(n) == SubSeq(stream, at + 1, at + n)

Returns(data) ==
    /\ got' = Append(got, data)
    /\ stage' = "idle" /\ prevData' = <<>>
    /\ UNCHANGED readError

FailsWith(error) ==
    /\ stage' = "failed" /\ readError' = error
    /\ UNCHANGED <<got, prevData>>

ReadCall ==
    /\ stage = "idle" /\ stage' = "header"
    /\ UNCHANGED <<writerVars, stream, link, at, pktLen, prevData, readSeq, readError, got,
                   readTimeout>>

(* Mutant: the empty packet behind a full one is left in the link.         *)
ReadBodyEndsFull ==
    /\ stage = "body" /\ Arrived(pktLen)
    /\ at' = at + pktLen
    /\ Returns(prevData \o Taken(pktLen))
    /\ UNCHANGED <<writerVars, stream, link, pktLen, readSeq, readTimeout>>

(* An empty packet ends a payload that filled its last one; where nothing  *)
(* precedes it, it is malformed. A wrong number does not close the         *)
(* connection, but no caller reads on after an error.                      *)
ReadHeader ==
    /\ stage = "header" /\ Arrived(4)
    /\ at' = at + 4
    /\ LET header == Taken(4)
           length == HeaderLength(header)
       IN  IF header[4] # readSeq
           THEN /\ FailsWith(IF header[4] > readSeq THEN "syncMul" ELSE "sync")
                /\ UNCHANGED <<readSeq, pktLen>>
           ELSE /\ readSeq' = LowByte(readSeq + 1)
                /\ IF length > 0
                   THEN /\ pktLen' = length /\ stage' = "body"
                        /\ UNCHANGED <<prevData, got, readError>>
                   ELSE /\ IF prevData = <<>> THEN FailsWith("badConn") ELSE Returns(prevData)
                        /\ UNCHANGED pktLen
    /\ UNCHANGED <<writerVars, stream, link, readTimeout>>

ReadBody ==
    /\ stage = "body" /\ Arrived(pktLen)
    /\ at' = at + pktLen
    /\ IF pktLen < maxPacketSize
       THEN Returns(prevData \o Taken(pktLen))
       ELSE /\ prevData' = prevData \o Taken(pktLen) /\ stage' = "header"
            /\ UNCHANGED <<got, readError>>
    /\ UNCHANGED <<writerVars, stream, link, pktLen, readSeq, readTimeout>>

(* io.ReadFull fails: bytes are missing, and no more come or the deadline  *)
(* has passed. What was read of the payload is dropped.                    *)
ReadFails ==
    /\ \/ stage = "header" /\ ~Arrived(4)
       \/ stage = "body" /\ ~Arrived(pktLen)
    /\ link = "ended" \/ readTimeout
    /\ FailsWith("badConn")
    /\ UNCHANGED <<writerVars, stream, link, at, pktLen, readSeq, readTimeout>>

-----------------------------------------------------------------------------
Writer == WritePacket \/ WriteFails
Reader == ReadCall \/ ReadHeader \/ ReadBody \/ ReadFails

Next == (\E p \in Payloads : WriteCall(p)) \/ Writer \/ Lose \/ Reader

Spec == Init /\ [][Next]_framing

-----------------------------------------------------------------------------
FramingTypeOK ==
    /\ given \in Seq(Seq(Nat)) /\ got \in Seq(Seq(Nat)) /\ stream \in Seq(Nat)
    /\ writing \in BOOLEAN /\ (writing => given # <<>> /\ written \in 0 .. Len(payload))
    /\ written \in Nat
    /\ writeSeq \in 0 .. Base - 1 /\ readSeq \in 0 .. Base - 1
    /\ writeError \in {"nil", "tooLarge", "badConn"}
    /\ link \in {"up", "ended"} /\ at \in 0 .. Len(stream)
    /\ stage \in {"idle", "header", "body", "failed"}
    /\ pktLen \in Nat /\ prevData \in Seq(Nat)
    /\ readError \in {"nil", "badConn", "sync", "syncMul"}
    /\ readTimeout \in BOOLEAN

(* Whatever is lost and wherever a write breaks off, the reader returns    *)
(* the payloads that were written, whole and in order: never a part of     *)
(* one, never two as one (packets.go:69, 91 and 134).                      *)
PayloadsInOrder ==
    /\ Len(got) <= Len(given)
    /\ \A n \in 1 .. Len(got) : got[n] = given[n]

(* Packets are numbered alike on both ends over all payloads and wraps of  *)
(* the number, so that the reader never finds it wrong (packets.go:56).    *)
NumbersAgree == readError \notin {"sync", "syncMul"}

(* When the reader has returned all that was given, no byte is left behind *)
(* for its next call: the empty packet of a full payload is taken too.     *)
NothingBehind ==
    stage = "idle" /\ ~writing /\ Len(got) = Len(given) => at = Len(stream)

(* Reader and writer are a queue of payloads.                              *)
Queue == INSTANCE PayloadQueue WITH taken <- got, ended <- stage = "failed"
=============================================================================
