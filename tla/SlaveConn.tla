----------------------------- MODULE SlaveConn -----------------------------
(***************************************************************************)
(* One call of RowStreamer.Stream seen from its connection: slaveConn      *)
(* (slave_conn.go) over dump.MysqlConn (dump/connection.go, packets.go).   *)
(*                                                                         *)
(* Two goroutines share a MysqlConn without a lock.  The pump, started by  *)
(* startDumpFromBinlogPosition, reads packets and offers the event in each *)
(* on an unbuffered channel.  The stream, which called Stream, takes       *)
(* events from the channel and parses them (RowStreamer), and closes the   *)
(* connection when it is through.  A step is an access to what they share: *)
(* the field netConn, the socket behind it, the packet sequence number and *)
(* the channel.                                                            *)
(***************************************************************************)
EXTENDS Naturals, Sequences

CONSTANTS
    SeqMod,        \* packet sequence numbers are modulo this (256)
    MaxPackets     \* bound: packets the master sends

ASSUME SeqModAssumption == SeqMod \in Nat \ {0}
ASSUME MaxPacketsAssumption == MaxPackets \in Nat

Goroutines == {"stream", "pump"}
PacketKinds == {"event", "eof", "err"}
Packet == [kind : PacketKinds, no : Nat, seq : 0 .. SeqMod - 1]

VARIABLES
    stream,     \* where the stream goroutine is
    result,     \* what Stream returns, "none" before
    pump,       \* where the pump is
    part,       \* what of a packet the pump reads: "header" or "body"
    why,        \* why the pump ended, "none" before
    buf,        \* the packet the pump reads or has read, if any
    closing,    \* where each goroutine is in MysqlConn.Close
    netConn,    \* mc.netConn is not nil
    open,       \* the socket is open
    sequence,   \* mc.sequence
    cancelled,  \* the context of Stream is done
    panicked,   \* a goroutine has dereferenced a nil netConn
    handled,    \* history: the packets whose events the parser took
    wire,       \* packets sent and not yet read
    lastSent,   \* how many packets the master has sent
    link,       \* the master's end: "none", "dumping", "ended" or "lost"
    readTimeout \* the DSN sets a read timeout

conn == <<netConn, open, sequence>>
remote == <<wire, lastSent, link, readTimeout>>
pumpVars == <<pump, part, why, buf>>
vars == <<stream, result, pumpVars, closing, conn, cancelled, panicked, handled, remote>>

StreamStates == {"prepare", "notice", "first", "select", "handle", "close", "returned"}
PumpStates == {"none", "check", "send", "arm", "read", "disarm", "sync", "close", "done"}
CloseStates == {"out", "check", "reset", "write", "cleanup", "socket", "nil"}
Reasons == {"none", "eof", "err", "context", "badConn", "sync", "deadline"}

TypeOK ==
    /\ stream \in StreamStates
    /\ result \in {"none", "startError", "eof", "cancelled", "error"}
    /\ pump \in PumpStates /\ part \in {"header", "body"} /\ why \in Reasons
    /\ buf \in Seq(Packet) /\ Len(buf) <= 1
    /\ closing \in [Goroutines -> CloseStates]
    /\ netConn \in BOOLEAN /\ open \in BOOLEAN
    /\ sequence \in 0 .. SeqMod - 1
    /\ cancelled \in BOOLEAN /\ panicked \in BOOLEAN
    /\ handled \in Seq(Packet) /\ wire \in Seq(Packet)
    /\ lastSent \in Nat
    /\ link \in {"none", "dumping", "ended", "lost"}
    /\ readTimeout \in BOOLEAN

(* NewMysqlConn has succeeded.                                             *)
Init ==
    /\ stream = "prepare" /\ result = "none"
    /\ pump = "none" /\ part = "header" /\ why = "none" /\ buf = <<>>
    /\ closing = [g \in Goroutines |-> "out"]
    /\ netConn = TRUE /\ open = TRUE /\ sequence = 0
    /\ cancelled = FALSE /\ panicked = FALSE
    /\ handled = <<>> /\ wire = <<>> /\ lastSent = 0 /\ link = "none"
    /\ readTimeout \in BOOLEAN

(* Mutant: the number does not wrap.                                       *)
NextSequenceUnwrapped(n) == n + 1

(* mc.sequence is a uint8.                                                 *)
NextSequence(n) == (n + 1) % SeqMod

Alive == ~panicked
Panic == panicked' = TRUE

-----------------------------------------------------------------------------
(* The master and the network.                                             *)

MasterSends(kind) ==
    /\ link = "dumping" /\ lastSent < MaxPackets
    /\ lastSent' = lastSent + 1
    /\ wire' = Append(wire, [kind |-> kind, no |-> lastSent', seq |-> lastSent' % SeqMod])
    /\ link' = IF kind = "event" THEN link ELSE "ended"
    /\ UNCHANGED <<stream, result, pumpVars, closing, conn, cancelled, panicked, handled, readTimeout>>

(* The connection breaks; the next read may fail, whatever is under way.   *)
LinkFails ==
    /\ link \in {"none", "dumping"}
    /\ link' = "lost"
    /\ UNCHANGED <<stream, result, pumpVars, closing, conn, cancelled, panicked, handled, wire, lastSent, readTimeout>>

(* The caller cancels the context; the one that startDump derives from it  *)
(* is done at the same time.                                               *)
Cancel ==
    /\ Alive /\ ~cancelled
    /\ cancelled' = TRUE
    /\ UNCHANGED <<stream, result, pumpVars, closing, conn, panicked, handled, remote>>

-----------------------------------------------------------------------------
(* MysqlConn.Close, called by either goroutine.                            *)

CloseTo(g, state) == closing' = [closing EXCEPT ![g] = state]
Elsewhere == UNCHANGED <<stream, result, pumpVars, cancelled, handled, remote>>

CloseCheck(g) ==
    /\ Alive /\ closing[g] = "check"
    /\ CloseTo(g, IF netConn THEN "reset" ELSE "cleanup")
    /\ UNCHANGED <<conn, panicked>> /\ Elsewhere

(* writeCommandPacket(comQuit) resets the sequence number ...              *)
CloseReset(g) ==
    /\ Alive /\ closing[g] = "reset"
    /\ sequence' = 0
    /\ CloseTo(g, "write")
    /\ UNCHANGED <<netConn, open, panicked>> /\ Elsewhere

(* ... and writes through netConn; a successful write counts.              *)
CloseWrite(g) ==
    /\ Alive /\ closing[g] = "write"
    /\ IF netConn
       THEN /\ CloseTo(g, "cleanup")
            /\ \/ open /\ sequence' = NextSequence(sequence)
               \/ (~open \/ link = "lost") /\ UNCHANGED sequence
            /\ UNCHANGED <<netConn, open, panicked>>
       ELSE Panic /\ UNCHANGED <<closing, conn>>
    /\ Elsewhere

CleanupCheck(g) ==
    /\ Alive /\ closing[g] = "cleanup"
    /\ CloseTo(g, IF netConn THEN "socket" ELSE "out")
    /\ UNCHANGED <<conn, panicked>> /\ Elsewhere

CleanupSocket(g) ==
    /\ Alive /\ closing[g] = "socket"
    /\ IF netConn
       THEN /\ open' = FALSE
            /\ CloseTo(g, "nil")
            /\ UNCHANGED <<netConn, sequence, panicked>>
       ELSE Panic /\ UNCHANGED <<closing, conn>>
    /\ Elsewhere

CleanupNil(g) ==
    /\ Alive /\ closing[g] = "nil"
    /\ netConn' = FALSE
    /\ CloseTo(g, "out")
    /\ UNCHANGED <<open, sequence, panicked>> /\ Elsewhere

Close(g) ==
    \/ CloseCheck(g) \/ CloseReset(g) \/ CloseWrite(g)
    \/ CleanupCheck(g) \/ CleanupSocket(g) \/ CleanupNil(g)

-----------------------------------------------------------------------------
(* The pump: ReadPacket in steps, and the channel.                         *)

PumpOnly == UNCHANGED <<stream, result, cancelled, handled>>

(* The pump's goroutine ends, and closes the channel.                      *)
PumpEnds(reason) == pump' = "done" /\ why' = reason /\ UNCHANGED <<part, buf>>
PumpGoes(state) == pump' = state /\ UNCHANGED <<part, why, buf>>

(* setReadTimeout and cleanReadTimeout use netConn if there is a timeout,  *)
(* and fail on a closed socket.                                            *)
SetDeadline(next) ==
    IF readTimeout /\ ~netConn
    THEN Panic /\ UNCHANGED pumpVars
    ELSE /\ IF readTimeout /\ ~open THEN PumpEnds("deadline") ELSE PumpGoes(next)
         /\ UNCHANGED panicked

PumpArm ==
    /\ Alive /\ pump = "arm"
    /\ SetDeadline("read")
    /\ UNCHANGED <<closing, conn, remote>> /\ PumpOnly

(* A packet's header, and later its body.  A closed socket may still leave *)
(* packets in the reader's buffer.                                         *)
PumpRead ==
    /\ Alive /\ pump = "read"
    /\ pump' = "disarm"
    /\ IF part = "header"
       THEN wire # <<>> /\ buf' = <<Head(wire)>> /\ wire' = Tail(wire)
       ELSE UNCHANGED <<buf, wire>>
    /\ UNCHANGED <<part, why, lastSent, link, readTimeout, closing, conn, panicked>> /\ PumpOnly

(* Mutant: a broken connection goes unnoticed.                             *)
ReadFailsOnlyIfClosed == ~open \/ readTimeout

ReadFails == ~open \/ readTimeout \/ link = "lost" \/ (link = "ended" /\ wire = <<>>)

(* readPacket closes the connection itself when a read fails.              *)
PumpReadFails ==
    /\ Alive /\ pump = "read" /\ ReadFails
    /\ PumpGoes("close") /\ CloseTo("pump", "check")
    /\ UNCHANGED <<conn, panicked, remote>> /\ PumpOnly

PumpClosed ==
    /\ Alive /\ pump = "close" /\ closing["pump"] = "out"
    /\ PumpEnds("badConn")
    /\ UNCHANGED <<closing, conn, panicked, remote>> /\ PumpOnly

PumpDisarm ==
    /\ Alive /\ pump = "disarm"
    /\ SetDeadline(IF part = "header" THEN "sync" ELSE "check")
    /\ UNCHANGED <<closing, conn, remote>> /\ PumpOnly

PumpSync ==
    /\ Alive /\ pump = "sync"
    /\ IF buf[1].seq = sequence
       THEN /\ pump' = "arm" /\ part' = "body"
            /\ sequence' = NextSequence(sequence)
            /\ UNCHANGED <<why, buf>>
       ELSE PumpEnds("sync") /\ UNCHANGED sequence
    /\ UNCHANGED <<closing, netConn, open, panicked, remote>> /\ PumpOnly

(* Mutant: the error packet is taken for an event.                         *)
CarriesEventOrError(packet) == packet.kind # "eof"

CarriesEvent(packet) == packet.kind = "event"

(* An EOF packet and an error packet end the pump alike.                   *)
PumpCheck ==
    /\ Alive /\ pump = "check"
    /\ IF CarriesEvent(buf[1]) THEN PumpGoes("send") ELSE PumpEnds(buf[1].kind)
    /\ UNCHANGED <<closing, conn, panicked, remote>> /\ PumpOnly

(* Mutant: the pump does not look at the context.                          *)
PumpIgnoresContext == FALSE /\ UNCHANGED vars

PumpContextDone ==
    /\ Alive /\ pump = "send" /\ cancelled
    /\ PumpEnds("context")
    /\ UNCHANGED <<closing, conn, panicked, remote>> /\ PumpOnly

(* The unbuffered channel: both goroutines move on.                        *)
Rendezvous ==
    /\ Alive /\ pump = "send" /\ stream = "select"
    /\ handled' = Append(handled, buf[1])
    /\ stream' = "handle"
    /\ pump' = "arm" /\ part' = "header"
    /\ UNCHANGED <<result, why, buf, closing, conn, cancelled, panicked, remote>>

PumpStep ==
    \/ PumpArm \/ PumpRead \/ PumpReadFails \/ PumpClosed \/ PumpDisarm
    \/ PumpSync \/ PumpCheck \/ PumpContextDone \/ Close("pump")

-----------------------------------------------------------------------------
(* The stream.                                                             *)

StreamOnly == UNCHANGED <<pumpVars, cancelled, panicked, handled>>

(* Mutant: the connection is left open.                                    *)
StreamEndsOpen(reason) == stream' = "close" /\ result' = reason /\ UNCHANGED closing

(* Stream returns through conn.close(), which closes the MysqlConn.        *)
StreamEnds(reason) ==
    /\ stream' = "close" /\ result' = reason
    /\ CloseTo("stream", "check")

(* SET @master_binlog_checksum, answered or not.                           *)
PrepareForReplication ==
    /\ Alive /\ stream = "prepare"
    /\ \/ stream' = "notice" /\ UNCHANGED <<result, closing>>
       \/ StreamEnds("startError")
    /\ UNCHANGED <<conn, remote>> /\ StreamOnly

NoticeDump ==
    /\ Alive /\ stream = "notice"
    /\ \/ /\ stream' = "first" /\ sequence' = NextSequence(0)
          /\ link' = IF link = "none" THEN "dumping" ELSE link
          /\ UNCHANGED <<result, closing>>
       \/ /\ link = "lost" /\ StreamEnds("startError")
          /\ sequence' = 0 /\ UNCHANGED link
    /\ UNCHANGED <<netConn, open, wire, lastSent, readTimeout>> /\ StreamOnly

(* Mutant: the pump begins by reading, and the first event is lost.        *)
FirstPacketDropped ==
    /\ Alive /\ stream = "first" /\ wire # <<>>
    /\ Head(wire).seq = sequence /\ sequence' = NextSequence(sequence)
    /\ buf' = <<Head(wire)>> /\ wire' = Tail(wire)
    /\ stream' = "select" /\ pump' = "arm"
    /\ UNCHANGED <<result, part, why, closing, netConn, open, cancelled, panicked, handled, lastSent, link, readTimeout>>

(* The first packet is read before the pump starts, and without regard to  *)
(* the context.                                                            *)
FirstPacket ==
    /\ Alive /\ stream = "first" /\ wire # <<>>
    /\ Head(wire).seq = sequence /\ sequence' = NextSequence(sequence)
    /\ buf' = <<Head(wire)>> /\ wire' = Tail(wire)
    /\ stream' = "select" /\ pump' = "check"
    /\ UNCHANGED <<result, part, why, closing, netConn, open, cancelled, panicked, handled, lastSent, link, readTimeout>>

FirstPacketFails ==
    /\ Alive /\ stream = "first" /\ ReadFails
    /\ StreamEnds("startError")
    /\ UNCHANGED <<conn, remote>> /\ StreamOnly

StreamHandles ==
    /\ Alive /\ stream = "handle"
    /\ \/ stream' = "select" /\ UNCHANGED <<result, closing>>
       \/ StreamEnds("error")
    /\ UNCHANGED <<conn, remote>> /\ StreamOnly

StreamChannelClosed ==
    /\ Alive /\ stream = "select" /\ pump = "done"
    /\ StreamEnds("eof")
    /\ UNCHANGED <<conn, remote>> /\ StreamOnly

StreamContextDone ==
    /\ Alive /\ stream = "select" /\ cancelled
    /\ StreamEnds("cancelled")
    /\ UNCHANGED <<conn, remote>> /\ StreamOnly

StreamClosed ==
    /\ Alive /\ stream = "close" /\ closing["stream"] = "out"
    /\ stream' = "returned"
    /\ UNCHANGED <<result, closing, conn, remote>> /\ StreamOnly

StreamStep ==
    \/ PrepareForReplication \/ NoticeDump \/ FirstPacket \/ FirstPacketFails
    \/ StreamHandles \/ StreamChannelClosed \/ StreamContextDone \/ StreamClosed
    \/ Close("stream")

-----------------------------------------------------------------------------
PumpGone == pump \in {"none", "done"}

Terminated == (panicked \/ (stream = "returned" /\ PumpGone)) /\ UNCHANGED vars

Next ==
    \/ \E kind \in PacketKinds : MasterSends(kind)
    \/ LinkFails \/ Cancel
    \/ PumpStep \/ Rendezvous \/ StreamStep
    \/ Terminated

SafeSpec == Init /\ [][Next]_vars

(* Both goroutines are scheduled; the master, the network and the caller   *)
(* are free to do nothing.                                                 *)
Spec == SafeSpec /\ WF_vars(PumpStep) /\ WF_vars(Rendezvous) /\ WF_vars(StreamStep)

-----------------------------------------------------------------------------
(* Properties.                                                             *)

(* The parser takes the master's events in order, each once and none left  *)
(* out; never an EOF or error packet.                                      *)
EventsInOrder ==
    \A n \in DOMAIN handled : handled[n].kind = "event" /\ handled[n].no = n

(* When the stream ended because the master ended it, no event was lost.   *)
NothingLostAtEof ==
    result = "eof" /\ why \in {"eof", "err"} => Len(handled) = lastSent - 1

(* The sequence numbers go wrong for the pump only while the connection is *)
(* being closed by the other goroutine, which resets them.                 *)
SyncErrorOnlyWhileClosing ==
    why = "sync" => stream \in {"close", "returned"}

(* Whatever way Stream returns, its socket is closed.                      *)
ConnectionClosed == stream = "returned" => ~open /\ ~netConn

(* A cancelled stream returns, even if its pump is waiting for the master, *)
(* and then so does the pump.                                              *)
CancelStops ==
    cancelled /\ stream \in {"select", "handle"} ~>
        panicked \/ (stream = "returned" /\ PumpGone)

(* A lost connection ends the stream.                                      *)
LostLinkStops == link = "lost" ~> stream = "returned" \/ panicked

(* A pump that Stream has left behind ends when the caller cancels the     *)
(* context, be it before Stream returns or long after: at the channel it   *)
(* sees the context, in a read it meets the closed socket.                 *)
LeftPumpEnds == stream = "returned" /\ cancelled ~> PumpGone \/ panicked

(* Once Stream has returned, for whatever reason, the pump ends too, and   *)
(* without a further call of anybody.                                      *)
PumpTerminates == stream = "returned" ~> PumpGone \/ panicked

(* Stream closes the socket to unblock the reads of the pump: neither a    *)
(* read under way or about to begin, nor a second Close, dereferences a    *)
(* nil netConn.                                                            *)
NoPanic == ~panicked

=============================================================================
