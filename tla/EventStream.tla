----------------------------- MODULE EventStream ----------------------------
(***************************************************************************)
(* Binlog events on their way from a master to the fields that the parser  *)
(* takes from them: the master makes the bytes of each event, the packet   *)
(* protocol (PacketFraming) carries them, the pump takes the first byte of *)
(* a payload for its kind and the rest for an event (slave_conn.go:80),    *)
(* and parseEvents (row_streamer.go:125) reads it with the format that the *)
(* last format description has left. What becomes of the fields is         *)
(* RowStreamer's.                                                          *)
(*                                                                         *)
(* A script is what a master sends in answer to a dump: for each payload   *)
(* its bytes, and what the parser is to read from them.                    *)
(***************************************************************************)
EXTENDS PacketFraming, BinlogEvents

CONSTANT Scripts     \* what the master may send

ASSUME ScriptAssumption ==
    \A s \in Scripts : Len(s) \in Nat /\ \A n \in 1 .. Len(s) : s[n].payload \in Payloads

VARIABLES
    script,     \* what it sends
    format,     \* of parseEvents: the format of the events to come
    parsed,     \* what was read of each payload
    outcome     \* "running", or how parseEvents has ended

parser == <<format, parsed, outcome>>
vars == <<framing, script, parser>>

PacketOK == 0
PacketEOF == 254
PacketERR == 255

Ended == [ends |-> "stream"]
Skipped == [type |-> RotateEvent, skipped |-> TRUE]

-----------------------------------------------------------------------------
(* What is read of an event that has lost its checksum. Of some events     *)
(* nothing but the header is read, and some are refused.                   *)
Body(ev, f) ==
    CASE Type(ev) = RotateEvent -> Rotate(ev, f)
      [] Type(ev) = QueryEvent -> Query(ev, f)
      [] Type(ev) = TableMapEvent -> TableMap(ev, f)
      [] Type(ev) \in RowsEvents -> Rows(ev, f)
      [] Type(ev) \in {IntVarEvent, RandEvent, RowsQueryEvent} -> Failure
      [] OTHER -> [header |-> "only"]

Fields(ev, f, body) ==
    [type |-> Type(ev), next |-> NextPosition(ev), time |-> Timestamp(ev),
     table |-> IF Type(ev) \in RowsEvents \cup {TableMapEvent} THEN TableID(ev, f) ELSE 0,
     body |-> body]

-----------------------------------------------------------------------------
EventInit ==
    /\ Init
    /\ script \in Scripts
    /\ format = NoFormat /\ parsed = <<>> /\ outcome = "running"

(* The master writes the next payload of its script.                       *)
Send ==
    /\ Len(given) < Len(script)
    /\ WriteCall(script[Len(given) + 1].payload)
    /\ UNCHANGED <<script, parser>>

WriteOn == Writer /\ UNCHANGED <<script, parser>>
LoseLink == Lose /\ UNCHANGED <<script, parser>>

(* The pump reads the next packet when the parser has taken the event.     *)
Pump ==
    /\ outcome = "running" /\ Len(parsed) = Len(got)
    /\ Reader
    /\ UNCHANGED <<script, parser>>

(* The payload that was read last.                                         *)
buf == got[Len(got)]
event == Tail(buf)
Arrives == outcome = "running" /\ Len(parsed) < Len(got)
ArrivesEvent == Arrives /\ buf[1] \notin {PacketEOF, PacketERR} /\ IsValid(event)

Takes(fields) == parsed' = Append(parsed, fields) /\ UNCHANGED <<framing, script, outcome>>
Stops(how) == outcome' = how /\ UNCHANGED <<framing, script, format, parsed>>

EndOfStream == Arrives /\ buf[1] \in {PacketEOF, PacketERR} /\ Stops("eof")

InvalidEvent ==
    /\ Arrives /\ buf[1] \notin {PacketEOF, PacketERR} /\ ~IsValid(event)
    /\ Stops("error")

(* Mutant: only the first format description counts.                       *)
FirstFormatKept ==
    /\ ArrivesEvent /\ Type(event) = FormatDescriptionEvent
    /\ LET f == Format(event)
       IN  IF Succeeds(f)
           THEN Takes([body |-> f]) /\ format' = IF IsZero(format) THEN f ELSE format
           ELSE Stops(f.fails)

(* A format description is read in the first place, with its checksum.     *)
FormatDescription ==
    /\ ArrivesEvent /\ Type(event) = FormatDescriptionEvent
    /\ LET f == Format(event)
       IN  IF Succeeds(f)
           THEN format' = f /\ Takes([body |-> f])
           ELSE Stops(f.fails)

(* Mutant: before it nothing is understood at all.                         *)
EarlyEventRefused ==
    /\ ArrivesEvent /\ Type(event) # FormatDescriptionEvent /\ IsZero(format)
    /\ Stops("error")

(* Before it nothing is understood but that the master names a file.       *)
EarlyEvent ==
    /\ ArrivesEvent /\ Type(event) # FormatDescriptionEvent /\ IsZero(format)
    /\ IF Type(event) = RotateEvent
       THEN Takes(Skipped) /\ UNCHANGED format
       ELSE Stops("error")

ParseEvent ==
    /\ ArrivesEvent /\ Type(event) # FormatDescriptionEvent /\ ~IsZero(format)
    /\ LET stripped == StripChecksum(event, format)
           body == Body(stripped.event, format)
       IN  IF ~Succeeds(stripped) THEN Stops("error")
           ELSE IF ~Succeeds(body) THEN Stops(body.fails)
           ELSE Takes(Fields(stripped.event, format, body)) /\ UNCHANGED format

Parse == EndOfStream \/ InvalidEvent \/ FormatDescription \/ EarlyEvent \/ ParseEvent

(* The master has nothing more to send, or nobody reads it.                *)
Idle ==
    /\ outcome # "running" \/ stage = "failed" \/ Len(given) = Len(script) \/ link = "ended"
    /\ UNCHANGED vars

EventNext == Send \/ WriteOn \/ LoseLink \/ Pump \/ Parse \/ Idle

SafeSpec == EventInit /\ [][EventNext]_vars

(* What has arrived is parsed. This is weak fairness of Parse, which can   *)
(* always take the payload that has arrived.                               *)
Parses == []<>~Arrives

EventSpec ==
    /\ SafeSpec
    /\ WF_vars(WritePacket /\ UNCHANGED <<script, parser>>)
    /\ WF_vars(Pump) /\ Parses

-----------------------------------------------------------------------------
TypeOK ==
    /\ FramingTypeOK
    /\ script \in Scripts /\ Len(parsed) \in {Len(got) - 1, Len(got)}
    /\ outcome \in {"running", "eof", "error", "panic"}

(* What a payload is read as by itself, with the format that the payloads  *)
(* before it have left. After Ended, Failure and Overrun nothing is read.  *)
Reading(p, f) ==
    LET ev == Tail(p)
        described == Format(ev)
        stripped == StripChecksum(ev, f)
        body == Body(stripped.event, f)
    IN  CASE p[1] \in {PacketEOF, PacketERR} -> Ended
          [] p[1] \notin {PacketEOF, PacketERR} /\ ~IsValid(ev) -> Failure
          [] p[1] \notin {PacketEOF, PacketERR} /\ IsValid(ev) ->
                 IF Type(ev) = FormatDescriptionEvent
                 THEN IF Succeeds(described) THEN [body |-> described] ELSE described
                 ELSE IF IsZero(f) THEN IF Type(ev) = RotateEvent THEN Skipped ELSE Failure
                 ELSE IF ~Succeeds(stripped) THEN Failure
                 ELSE IF ~Succeeds(body) THEN body
                 ELSE Fields(stripped.event, f, body)

Describes(p) ==
    /\ p # <<>> /\ p[1] \notin {PacketEOF, PacketERR} /\ IsValid(Tail(p))
    /\ Type(Tail(p)) = FormatDescriptionEvent /\ Succeeds(Format(Tail(p)))

(* The format of the n-th payload: that of the last description before it. *)
FormatBefore(s, n) ==
    LET described == {k \in 1 .. n - 1 : Describes(s[k].payload)}
        last == CHOOSE k \in described : \A m \in described : m <= k
    IN  IF described = {} THEN NoFormat ELSE Format(Tail(s[last].payload))

(* Each payload that may be read at all holds what it is read as by itself *)
(* (replication/binlog_event_*.go): this is about the codec alone, without *)
(* packets, faults and the order of steps. An empty payload is not read,   *)
(* and one that is too large is not written.                               *)
Understood ==
    \A s \in Scripts : \A n \in 1 .. Len(s) :
        Len(s[n].payload) \in 1 .. maxAllowedPacket =>
            Reading(s[n].payload, FormatBefore(s, n)) = s[n].holds

(* Every field that the parser reads is the one the master has put into    *)
(* the event, whatever format the file has, whatever variables, lengths    *)
(* and extra data come before the field, and however the event is cut into *)
(* packets; a format description changes how all later events are read and *)
(* no earlier one (row_streamer.go:138, replication/binlog_event_*.go).    *)
FieldsAsWritten == \A n \in 1 .. Len(parsed) : parsed[n] = script[n].holds

(* The stream is over only where the master ends it; it fails at no event  *)
(* but one that is invalid, malformed or of a kind that is not supported   *)
(* (row_streamer.go:131, 141, 160 and 166); and it panics at no event but  *)
(* one that is cut inside its fixed fields, or inside what a length in it  *)
(* announces. Such events pass IsValid, and Rotate, Query, TableMap and    *)
(* Rows check few of their lengths.                                        *)
Cause == [eof |-> Ended, error |-> Failure, panic |-> Overrun]
StopsForCause ==
    outcome # "running" => script[Len(parsed) + 1].holds = Cause[outcome]

(* The parser is fed by a queue of payloads, which goes on until the link  *)
(* fails or the parser ends (PayloadQueue, with its Progress).             *)
Delivery ==
    INSTANCE PayloadQueue WITH taken <- got, ended <- stage = "failed" \/ outcome # "running"
EventsDelivered == Delivery!Spec
=============================================================================
