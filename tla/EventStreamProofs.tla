-------------------------- MODULE EventStreamProofs --------------------------
(***************************************************************************)
(* Events are carried by the packet protocol of PacketFraming, for any     *)
(* scripts, payloads and faults: what is proved of it holds here, and the  *)
(* parser is fed by a queue of payloads and keeps pace with it.            *)
(***************************************************************************)
EXTENDS EventStream, PacketFramingProofs

-----------------------------------------------------------------------------
(* A step of the parser moves no byte.                                     *)
LEMMA ParseFrames == Parse => UNCHANGED framing
BY DEF Parse, EndOfStream, InvalidEvent, FormatDescription, EarlyEvent, ParseEvent, Takes, Stops

(* Each step is a step of the protocol, or changes nothing of it.          *)
LEMMA StepFrames ==
    ASSUME script \in Scripts, FramingTypeOK, [EventNext]_vars
    PROVE  [Next]_framing /\ script' = script
<1>1. CASE Send
  <2>1. /\ Len(given) < Len(script) /\ WriteCall(script[Len(given) + 1].payload)
        /\ script' = script
    BY <1>1 DEF Send
  <2>2. Len(given) + 1 \in 1 .. Len(script) BY <2>1, ScriptAssumption, TypesHere
  <2>3. script[Len(given) + 1].payload \in Payloads BY <2>2, ScriptAssumption
  <2> QED BY <2>1, <2>3 DEF Next
<1>2. CASE WriteOn BY <1>2 DEF WriteOn, Next
<1>3. CASE LoseLink BY <1>3 DEF LoseLink, Next
<1>4. CASE Pump BY <1>4 DEF Pump, Next
<1>5. CASE Parse
  <2>1. script' = script
    BY <1>5 DEF Parse, EndOfStream, InvalidEvent, FormatDescription, EarlyEvent, ParseEvent,
      Takes, Stops
  <2> QED BY <1>5, <2>1, ParseFrames
<1>6. CASE Idle \/ UNCHANGED vars BY <1>6 DEF Idle, vars
<1> QED BY <1>1, <1>2, <1>3, <1>4, <1>5, <1>6 DEF EventNext

-----------------------------------------------------------------------------
(* What a method returns is what it has read, an error or a panic.         *)
LEMMA MetadataReads ==
    ASSUME NEW data, NEW start, NEW types
    PROVE  Succeeds(Metadata(data, start, types))
           \/ Metadata(data, start, types) \in {Failure, Overrun}
<1>1. \E refused, values, end, which :
          Metadata(data, start, types)
            = IF refused # {} THEN IF which THEN Overrun ELSE Failure
              ELSE [values |-> values, end |-> end]
  BY Zenon DEF Metadata
<1> QED BY <1>1 DEF Succeeds

LEMMA TableMapReads ==
    ASSUME NEW ev, NEW f
    PROVE  Succeeds(TableMap(ev, f)) \/ TableMap(ev, f) \in {Failure, Overrun}
<1> DEFINE data == Behind(ev, f.headerLength)
           flags == TableIDLength(ev, f)
           dbPos == flags + 3
           namePos == dbPos + Byte(data, dbPos - 1) + 2
           nameEnd == namePos + Byte(data, namePos - 1)
           count == readLenEncInt(data, nameEnd + 1)
           typesEnd == count.next + count.value
           types == [c \in 1 .. count.value |-> NumberType(Byte(data, count.next + c - 1))]
           block == readLenEncInt(data, typesEnd)
           metadata == Metadata(data, block.next, types)
           nulls == (count.value + 7) \div 8
           short == ~Sized(f, TableMapEvent) \/ nameEnd > Len(data)
           cut == count.value > Len(data) - count.next
           unequal == metadata.end - block.next # block.value
           nullsCut == metadata.end + nulls > Len(data)
           fields == [flags |-> Unsigned(data, flags, 2),
                      database |-> Slice(data, dbPos, Byte(data, dbPos - 1)),
                      name |-> Slice(data, namePos, Byte(data, namePos - 1)),
                      types |-> types, metadata |-> metadata.values,
                      canBeNull |-> Slice(data, metadata.end, nulls)]
           reading == IF short THEN Overrun
                      ELSE IF count = Failure THEN Failure
                      ELSE IF cut THEN Overrun
                      ELSE IF block = Failure THEN Failure
                      ELSE IF ~Succeeds(metadata) THEN metadata
                      ELSE IF unequal THEN Failure
                      ELSE IF nullsCut THEN Overrun
                      ELSE fields
<1>1. TableMap(ev, f) = reading BY Zenon DEF TableMap
<1>2. Succeeds(metadata) \/ metadata \in {Failure, Overrun} BY MetadataReads
<1>3. Succeeds(fields) BY DEF Succeeds
<1> HIDE DEF metadata, fields, short, cut, unequal, nullsCut, count, block
<1>4. Succeeds(reading) \/ reading \in {Failure, Overrun} BY <1>2, <1>3
<1> HIDE DEF reading
<1> QED BY <1>1, <1>4

LEMMA MethodReads ==
    ASSUME NEW ev, NEW f
    PROVE  /\ Succeeds(Format(ev)) \/ Format(ev) \in {Failure, Overrun}
           /\ Succeeds(Rotate(ev, f)) \/ Rotate(ev, f) \in {Failure, Overrun}
           /\ Succeeds(Query(ev, f)) \/ Query(ev, f) \in {Failure, Overrun}
           /\ Succeeds(TableMap(ev, f)) \/ TableMap(ev, f) \in {Failure, Overrun}
           /\ Succeeds(Rows(ev, f)) \/ Rows(ev, f) \in {Failure, Overrun}
<1>1. Succeeds(Format(ev)) \/ Format(ev) \in {Failure, Overrun} BY Zenon DEF Format, Succeeds
<1>2. Succeeds(Rotate(ev, f)) \/ Rotate(ev, f) \in {Failure, Overrun} BY DEF Rotate, Succeeds
<1>3. Succeeds(Query(ev, f)) \/ Query(ev, f) \in {Failure, Overrun} BY DEF Query, Succeeds
<1>4. Succeeds(TableMap(ev, f)) \/ TableMap(ev, f) \in {Failure, Overrun}
  BY TableMapReads
<1>5. Succeeds(Rows(ev, f)) \/ Rows(ev, f) \in {Failure, Overrun} BY DEF Rows, Succeeds
<1> QED BY <1>1, <1>2, <1>3, <1>4, <1>5

LEMMA BodyReading ==
    ASSUME NEW ev, NEW f
    PROVE  Succeeds(Body(ev, f)) \/ Body(ev, f).fails \in {"error", "panic"}
BY MethodReads DEF Body, Failure, Overrun, Succeeds

-----------------------------------------------------------------------------
(* The parser has taken all that the reader has returned, but the last.    *)
Paced ==
    /\ \E S : parsed \in Seq(S)
    /\ Len(parsed) \in {Len(got) - 1, Len(got)}
    /\ outcome \in {"running", "eof", "error", "panic"}

EventInv == Inv /\ script \in Scripts /\ Paced

LEMMA TakesOne ==
    ASSUME NEW fields, \E S : parsed \in Seq(S), parsed' = Append(parsed, fields)
    PROVE  (\E S : parsed' \in Seq(S)) /\ Len(parsed') = Len(parsed) + 1
<1>1. PICK S : parsed \in Seq(S) OBVIOUS
<1>2. parsed \in Seq(S \cup {fields}) BY <1>1
<1>3. parsed' \in Seq(S \cup {fields}) /\ Len(parsed') = Len(parsed) + 1 BY <1>2
<1> QED BY <1>3

(* A step of the parser takes one event or ends it.                        *)
LEMMA ParseStep ==
    ASSUME Parse
    PROVE  /\ Arrives
           /\ \/ outcome' = outcome /\ \E fields : parsed' = Append(parsed, fields)
              \/ parsed' = parsed /\ outcome' \in {"eof", "error", "panic"}
<1>1. CASE EndOfStream BY <1>1 DEF EndOfStream, Stops
<1>2. CASE InvalidEvent BY <1>2 DEF InvalidEvent, Stops
<1>3. CASE FormatDescription
  <2>1. Format(event).fails \in {"error", "panic"} \/ Succeeds(Format(event))
    BY MethodReads DEF Failure, Overrun
  <2> QED BY <1>3, <2>1 DEF FormatDescription, ArrivesEvent, Takes, Stops
<1>4. CASE EarlyEvent BY <1>4 DEF EarlyEvent, ArrivesEvent, Takes, Stops
<1>5. CASE ParseEvent
  <2> DEFINE ev == StripChecksum(event, format).event
  <2>1. Body(ev, format).fails \in {"error", "panic"} \/ Succeeds(Body(ev, format))
    BY BodyReading
  <2>2. /\ Arrives
        /\ \/ Stops("error")
           \/ ~Succeeds(Body(ev, format)) /\ Stops(Body(ev, format).fails)
           \/ Takes(Fields(ev, format, Body(ev, format)))
    BY <1>5 DEF ParseEvent, ArrivesEvent
  <2> HIDE DEF ev
  <2> QED BY <2>1, <2>2 DEF Takes, Stops
<1> QED BY <1>1, <1>2, <1>3, <1>4, <1>5 DEF Parse

(* A reader returns at most one payload at a time.                         *)
LEMMA GotStep ==
    ASSUME Inv, [Next]_framing
    PROVE  Len(got') \in {Len(got), Len(got) + 1} /\ Len(got) \in Nat
<1>0. FramingTypeOK BY DEF Inv
<1>1. Yields BY YieldsStep
<1>2. CASE got' = got BY <1>0, <1>2, TypesHere
<1>3. CASE Len(got) < Len(given) /\ got' = Append(got, given[Len(got) + 1])
  <2>1. Len(got) + 1 \in 1 .. Len(given) BY <1>0, <1>3, TypesHere
  <2>2. given[Len(got) + 1] \in Payload BY <1>0, <2>1, TypesHere
  <2> QED BY <1>0, <1>3, <2>2, TypesHere, Appended
<1> QED BY <1>1, <1>2, <1>3 DEF Yields

(* Only the parser ends, and only once; only the pump reads, before that.  *)
LEMMA OutcomeStep ==
    ASSUME [EventNext]_vars
    PROVE  /\ outcome # "running" => outcome' # "running"
           /\ got' # got => outcome = "running" /\ outcome' = "running"
           /\ given' # given => outcome' = outcome
<1>1. CASE Parse
  <2>1. given' = given /\ got' = got
    BY <1>1, ParseFrames DEF framing, readerVars, writerVars
  <2>2. outcome = "running" BY <1>1, ParseStep DEF Arrives
  <2> QED BY <2>1, <2>2
<1>2. CASE Pump BY <1>2 DEF Pump, parser
<1>3. CASE Send \/ WriteOn \/ LoseLink \/ Idle \/ UNCHANGED vars
  BY <1>3 DEF Send, WriteOn, LoseLink, Idle, vars, parser, framing, readerVars, WriteCall,
    Writer, WritePacket, WriteFails, Lose
<1> QED BY <1>1, <1>2, <1>3 DEF EventNext

LEMMA EventInvInit == EventInit => EventInv
<1> SUFFICES ASSUME EventInit PROVE EventInv OBVIOUS
<1>1. Inv /\ script \in Scripts BY InitInv DEF EventInit
<1>2. parsed = <<>> /\ got = <<>> /\ outcome = "running" BY DEF EventInit, Init
<1>3. <<>> \in Seq({}) OBVIOUS
<1> QED BY <1>1, <1>2, <1>3 DEF EventInv, Paced

LEMMA EventInvStep == EventInv /\ [EventNext]_vars => EventInv'
<1> SUFFICES ASSUME EventInv, [EventNext]_vars PROVE EventInv' OBVIOUS
<1>0. Inv /\ script \in Scripts /\ FramingTypeOK /\ Paced BY DEF EventInv, Inv
<1>1. [Next]_framing /\ script' = script BY <1>0, StepFrames
<1>2. Inv' /\ script' \in Scripts BY <1>0, <1>1, InvStep
<1>3. Len(got') \in {Len(got), Len(got) + 1} /\ Len(got) \in Nat BY <1>0, <1>1, GotStep
<1>4. CASE Parse
  <2>1. got' = got BY <1>4, ParseFrames DEF framing, readerVars
  <2>2. Len(parsed) < Len(got) /\ outcome = "running" BY <1>4, ParseStep DEF Arrives
  <2>3. CASE parsed' = parsed /\ outcome' \in {"eof", "error", "panic"}
    BY <1>0, <1>2, <2>1, <2>3 DEF EventInv, Paced
  <2>4. CASE outcome' = outcome /\ \E fields : parsed' = Append(parsed, fields)
    <3>1. (\E S : parsed' \in Seq(S)) /\ Len(parsed') = Len(parsed) + 1
      BY <1>0, <2>4, TakesOne DEF Paced
    <3> QED BY <1>0, <1>2, <1>3, <2>1, <2>2, <2>4, <3>1 DEF EventInv, Paced
  <2> QED BY <1>4, <2>3, <2>4, ParseStep
<1>5. CASE Pump
  <2>1. Len(parsed) = Len(got) /\ UNCHANGED parser BY <1>5 DEF Pump
  <2> QED BY <1>0, <1>2, <1>3, <2>1 DEF EventInv, Paced, parser
<1>6. CASE Send \/ WriteOn \/ LoseLink \/ Idle \/ UNCHANGED vars
  <2>1. got' = got /\ UNCHANGED parser
    BY <1>6 DEF Send, WriteOn, LoseLink, Idle, vars, framing, readerVars, WriteCall, Writer,
      WritePacket, WriteFails, Lose
  <2> QED BY <1>0, <1>2, <2>1 DEF EventInv, Paced, parser
<1> QED BY <1>4, <1>5, <1>6 DEF EventNext

LEMMA EventInvariant == SafeSpec => []EventInv
<1> QED BY EventInvInit, EventInvStep, PTL DEF SafeSpec

-----------------------------------------------------------------------------
(* The variables have their types, and the parser keeps pace: the pump     *)
(* reads no payload before the one it has handed over is parsed.           *)
THEOREM EventTypes == SafeSpec => []TypeOK
<1>1. EventInv => TypeOK BY DEF EventInv, Inv, Paced, TypeOK
<1> QED BY <1>1, EventInvariant, PTL

(* The stream of events is an instance of the packet protocol.             *)
THEOREM EventsAreFramed == SafeSpec => Spec
<1>1. EventInit => Init BY DEF EventInit
<1>2. EventInv /\ [EventNext]_vars => [Next]_framing BY StepFrames DEF EventInv, Inv
<1> QED BY <1>1, <1>2, EventInvariant, PTL DEF SafeSpec, Spec

(* Events arrive whole and in order: none is lost or cut that was followed *)
(* by another one.                                                         *)
THEOREM EventsArriveInOrder == SafeSpec => []PayloadsInOrder
BY EventsAreFramed, PayloadsArriveInOrder, PTL

(* The pump never takes a packet for a wrong one.                          *)
THEOREM EventNumbersAgree == SafeSpec => []NumbersAgree
BY EventsAreFramed, NumbersAlwaysAgree, PTL

(* The pump leaves no byte of an event for the next.                       *)
THEOREM EventsLeaveNothing == SafeSpec => []NothingBehind
BY EventsAreFramed, NothingIsLeftBehind, PTL

(* The parser is fed by a queue of payloads, which ends with it or with    *)
(* the reader: the safety part of EventsDelivered.                         *)
THEOREM EventsAreAQueue == SafeSpec => Delivery!SafeSpec
<1>1. EventInit => Delivery!Init BY DEF EventInit, Init, Delivery!Init
<1>2. EventInv /\ [EventNext]_vars => [Delivery!Next]_Delivery!queue
  <2> SUFFICES ASSUME EventInv, [EventNext]_vars PROVE [Delivery!Next]_Delivery!queue OBVIOUS
  <2>0. Inv /\ FramingTypeOK /\ [Next]_framing BY StepFrames DEF EventInv, Inv
  <2>1. Yields BY <2>0, YieldsStep
  <2>2. CASE Gives /\ outcome' = outcome
    <3>1. PICK d \in Payload : given' = Append(given, d) BY <2>2 DEF Gives
    <3>2. given' \in Seq(Payload) /\ Len(given') = Len(given) + 1
            /\ \A k \in 1 .. Len(given) : given'[k] = given[k]
      BY <2>0, <3>1, TypesHere, Appended
    <3>3. SubSeq(given', 1, Len(given)) = given BY <2>0, <3>2, TypesHere
    <3> QED BY <2>2, <3>2, <3>3 DEF Delivery!Next, Delivery!Give, Gives
  <2>3. CASE given' = given /\ got' = got
    <3>1. stage = "failed" => stage' = "failed"
      BY <2>0, <2>3 DEF Next, Writer, Reader, WriteCall, WritePacket, WriteFails, Lose, ReadCall,
        ReadHeader, ReadBody, ReadFails, framing, readerVars
    <3>2. outcome # "running" => outcome' # "running" BY OutcomeStep
    <3> QED BY <2>3, <3>1, <3>2 DEF Delivery!Next, Delivery!End, Delivery!queue
  <2>4. CASE given' = given /\ got' # got
    <3>1. Len(got) < Len(given) /\ got' = Append(got, given[Len(got) + 1]) BY <2>1, <2>4 DEF Yields
    <3>2. stage # "failed" /\ stage' # "failed"
      BY <2>0, <2>4 DEF Next, Writer, Reader, WriteCall, WritePacket, WriteFails, Lose, ReadCall,
        ReadHeader, ReadBody, ReadFails, FailsWith, Returns, framing, readerVars
    <3>3. outcome = "running" /\ outcome' = "running" BY <2>4, OutcomeStep
    <3> QED BY <2>4, <3>1, <3>2, <3>3 DEF Delivery!Next, Delivery!Take
  <2>5. given' = given \/ (Gives /\ outcome' = outcome) BY <2>0, GivenStep, OutcomeStep DEF Gives
  <2> QED BY <2>2, <2>3, <2>4, <2>5
<1> QED BY <1>1, <1>2, EventInvariant, PTL DEF SafeSpec, Delivery!SafeSpec
-----------------------------------------------------------------------------
(* What is parsed. The parser reads each payload as it would by itself,    *)
(* with the last format that a payload before it describes.                *)

LEMMA FormatsGoOn ==
    ASSUME NEW s, NEW n \in Nat \ {0}
    PROVE  /\ FormatBefore(s, 1) = NoFormat
           /\ FormatBefore(s, n + 1) = IF Describes(s[n].payload) THEN Format(Tail(s[n].payload))
                                       ELSE FormatBefore(s, n)
<1> DEFINE described(m) == {k \in 1 .. m - 1 : Describes(s[k].payload)}
           last(m) == CHOOSE k \in described(m) : \A j \in described(m) : j <= k
<1>0. ASSUME NEW m
      PROVE  FormatBefore(s, m) = IF described(m) = {} THEN NoFormat
                                  ELSE Format(Tail(s[last(m)].payload))
  BY DEF FormatBefore
<1>1. described(1) = {} OBVIOUS
<1>2. FormatBefore(s, 1) = NoFormat BY <1>0, <1>1
<1>3. CASE Describes(s[n].payload)
  <2>1. n \in described(n + 1) /\ \A j \in described(n + 1) : j <= n BY <1>3
  <2>2. \A k \in described(n + 1) : (\A j \in described(n + 1) : j <= k) => k = n BY <2>1
  <2>3. last(n + 1) = n BY <2>1, <2>2
  <2>4. described(n + 1) # {} BY <2>1
  <2> QED BY <1>0, <1>2, <1>3, <2>3, <2>4
<1>4. CASE ~Describes(s[n].payload)
  <2>1. described(n + 1) = described(n) BY <1>4
  <2>2. last(n + 1) = last(n) BY <2>1
  <2> HIDE DEF described, last
  <2> QED BY <1>0, <1>2, <1>4, <2>1, <2>2
<1> QED BY <1>3, <1>4

(* No payload that the reader returns is empty.                            *)
LEMMA GotSome ==
    ASSUME Inv, [Next]_framing, got' # got
    PROVE  got'[Len(got')] # <<>>
<1>0. FramingTypeOK /\ Placed BY DEF Inv
<1>1. Reader
  BY DEF Next, WriteCall, Writer, WritePacket, WriteFails, Lose, framing, readerVars
<1>2. CASE ReadHeader
  <2>1. prevData # <<>> /\ got' = Append(got, prevData)
    BY <1>2 DEF ReadHeader, FailsWith, Returns
  <2> QED BY <1>0, <2>1, TypesHere, Appended
<1>3. CASE ReadBody
  <2>1. got' = Append(got, prevData \o Taken(pktLen)) /\ stage = "body" /\ Arrived(pktLen)
    BY <1>3 DEF ReadBody, Returns
  <2>2. pktLen > 0 BY <1>0, <2>1 DEF Placed, ReaderAt
  <2>3. Taken(pktLen) \in Payload /\ Len(Taken(pktLen)) = pktLen
    <3>1. /\ at \in Nat /\ pktLen \in Nat /\ stream \in Payload /\ Len(stream) \in Nat
          /\ at + pktLen <= Len(stream)
      BY <1>0, <2>1, TypesHere DEF Arrived
    <3> QED BY <3>1, Part DEF Taken
  <2>4. prevData \o Taken(pktLen) \in Payload /\ Len(prevData \o Taken(pktLen)) # 0
    BY <1>0, <2>2, <2>3, TypesHere, Joined DEF Payload
  <2>5. prevData \o Taken(pktLen) # <<>> BY <2>4
  <2> QED BY <1>0, <2>1, <2>4, <2>5, TypesHere, Appended
<1>4. CASE ReadCall \/ ReadFails BY <1>4 DEF ReadCall, ReadFails, FailsWith
<1> QED BY <1>1, <1>2, <1>3, <1>4 DEF Reader

Ending(how) == CASE how = "eof" -> Ended [] how = "error" -> Failure [] how = "panic" -> Overrun

(* The ways in which a step of the parser treats the payload p.            *)
TakesAs(p, f) ==
    /\ parsed' = Append(parsed, Reading(p, f)) /\ outcome' = outcome
    /\ format' = IF Describes(p) THEN Format(Tail(p)) ELSE f
EndsAs(p, f) ==
    /\ parsed' = parsed /\ format' = f /\ outcome' \in {"eof", "error", "panic"}
    /\ Reading(p, f) = Ending(outcome')

LEMMA Endings ==
    Ending("eof") = Ended /\ Ending("error") = Failure /\ Ending("panic") = Overrun
BY DEF Ending

LEMMA ReadingOfKind ==
    ASSUME NEW p, NEW f
    PROVE  /\ p[1] \in {PacketEOF, PacketERR} => Reading(p, f) = Ended
           /\ p[1] \notin {PacketEOF, PacketERR} /\ ~IsValid(Tail(p)) => Reading(p, f) = Failure
           /\ p[1] \notin {PacketEOF, PacketERR} /\ IsValid(Tail(p)) =>
                Reading(p, f) =
                    LET ev == Tail(p)
                        stripped == StripChecksum(ev, f)
                        body == Body(stripped.event, f)
                    IN  IF Type(ev) = FormatDescriptionEvent
                        THEN IF Succeeds(Format(ev)) THEN [body |-> Format(ev)] ELSE Format(ev)
                        ELSE IF IsZero(f) THEN IF Type(ev) = RotateEvent THEN Skipped ELSE Failure
                        ELSE IF ~Succeeds(stripped) THEN Failure
                        ELSE IF ~Succeeds(body) THEN body
                        ELSE Fields(stripped.event, f, body)
BY Zenon DEF Reading

LEMMA FailsWithIt ==
    ASSUME NEW r, ~Succeeds(r), r \in {Failure, Overrun}
    PROVE  r.fails \in {"error", "panic"} /\ r = Ending(r.fails)
BY Endings DEF Failure, Overrun

LEMMA BodyFails ==
    ASSUME NEW ev, NEW f
    PROVE  Succeeds(Body(ev, f)) \/ Body(ev, f) \in {Failure, Overrun}
BY MethodReads DEF Body, Succeeds

LEMMA ParseReads ==
    ASSUME Parse, buf # <<>>
    PROVE  TakesAs(buf, format) \/ EndsAs(buf, format)
<1> DEFINE ev == Tail(buf)
<1>0. event = ev BY DEF event
<1>1. CASE EndOfStream
  BY <1>1, ReadingOfKind, Endings DEF EndOfStream, Stops, EndsAs
<1>2. CASE InvalidEvent
  BY <1>0, <1>2, ReadingOfKind, Endings DEF InvalidEvent, Stops, EndsAs
<1>3. CASE FormatDescription
  <2>1. /\ buf[1] \notin {PacketEOF, PacketERR} /\ IsValid(ev)
        /\ Type(ev) = FormatDescriptionEvent
    BY <1>0, <1>3 DEF FormatDescription, ArrivesEvent
  <2>2. CASE Succeeds(Format(ev))
    <3>1. Reading(buf, format) = [body |-> Format(ev)] BY <2>1, <2>2, ReadingOfKind
    <3>2. Describes(buf) BY <2>1, <2>2 DEF Describes
    <3>3. format' = Format(ev) /\ Takes([body |-> Format(ev)])
      BY <1>0, <1>3, <2>2 DEF FormatDescription
    <3> QED BY <3>1, <3>2, <3>3 DEF Takes, TakesAs
  <2>3. CASE ~Succeeds(Format(ev))
    <3>1. Reading(buf, format) = Format(ev) BY <2>1, <2>3, ReadingOfKind
    <3>2. Stops(Format(ev).fails) BY <1>0, <1>3, <2>3 DEF FormatDescription
    <3>3. Format(ev) \in {Failure, Overrun} BY <2>3, MethodReads
    <3> QED BY <2>3, <3>1, <3>2, <3>3, FailsWithIt DEF Stops, EndsAs
  <2> QED BY <2>2, <2>3
<1>4. CASE EarlyEvent
  <2>1. /\ buf[1] \notin {PacketEOF, PacketERR} /\ IsValid(ev)
        /\ Type(ev) # FormatDescriptionEvent /\ IsZero(format)
    BY <1>0, <1>4 DEF EarlyEvent, ArrivesEvent
  <2>2. ~Describes(buf) BY <2>1 DEF Describes
  <2>3. Reading(buf, format) = IF Type(ev) = RotateEvent THEN Skipped ELSE Failure
    BY <2>1, ReadingOfKind
  <2>4. IF Type(ev) = RotateEvent THEN Takes(Skipped) /\ UNCHANGED format ELSE Stops("error")
    BY <1>0, <1>4 DEF EarlyEvent
  <2> HIDE DEF ev
  <2> QED BY <2>2, <2>3, <2>4, Endings DEF Takes, Stops, TakesAs, EndsAs
<1>5. CASE ParseEvent
  <2> DEFINE stripped == StripChecksum(ev, format)
             body == Body(stripped.event, format)
  <2>1. /\ buf[1] \notin {PacketEOF, PacketERR} /\ IsValid(ev)
        /\ Type(ev) # FormatDescriptionEvent /\ ~IsZero(format)
    BY <1>0, <1>5 DEF ParseEvent, ArrivesEvent
  <2>2. ~Describes(buf) BY <2>1 DEF Describes
  <2>3. Reading(buf, format) = IF ~Succeeds(stripped) THEN Failure
                               ELSE IF ~Succeeds(body) THEN body
                               ELSE Fields(stripped.event, format, body)
    BY <2>1, ReadingOfKind
  <2>4. IF ~Succeeds(stripped) THEN Stops("error")
        ELSE IF ~Succeeds(body) THEN Stops(body.fails)
        ELSE Takes(Fields(stripped.event, format, body)) /\ UNCHANGED format
    BY <1>0, <1>5 DEF ParseEvent
  <2>5. Succeeds(body) \/ body \in {Failure, Overrun} BY BodyFails
  <2> HIDE DEF stripped, body
  <2>6. CASE Succeeds(stripped) /\ ~Succeeds(body)
    BY <2>3, <2>4, <2>5, <2>6, FailsWithIt DEF Stops, EndsAs
  <2>7. CASE ~Succeeds(stripped) BY <2>3, <2>4, <2>7, Endings DEF Stops, EndsAs
  <2>8. CASE Succeeds(stripped) /\ Succeeds(body)
    BY <2>2, <2>3, <2>4, <2>8 DEF Takes, TakesAs
  <2> QED BY <2>6, <2>7, <2>8
<1> QED BY <1>1, <1>2, <1>3, <1>4, <1>5 DEF Parse

-----------------------------------------------------------------------------
(* What the n-th payload of the script is read as.                         *)
ReadOf(n) == Reading(script[n].payload, FormatBefore(script, n))

GivenFromScript ==
    /\ Len(given) <= Len(script)
    /\ \A n \in 1 .. Len(given) :
           given[n] = script[n].payload /\ Len(given[n]) <= maxAllowedPacket

ReadInOrder ==
    /\ \A n \in 1 .. Len(got) : got[n] # <<>>
    /\ \A n \in 1 .. Len(parsed) : parsed[n] = ReadOf(n)
    /\ outcome # "running" =>
           /\ Len(parsed) < Len(got)
           /\ ReadOf(Len(parsed) + 1) = Ending(outcome)

ReadInv ==
    EventInv /\ GivenFromScript /\ ReadInOrder /\ format = FormatBefore(script, Len(parsed) + 1)

LEMMA ReadInit == EventInit => ReadInv
<1> SUFFICES ASSUME EventInit PROVE ReadInv OBVIOUS
<1>1. given = <<>> /\ got = <<>> /\ parsed = <<>> /\ outcome = "running" /\ format = NoFormat
  BY DEF EventInit, Init
<1>2. EventInv BY EventInvInit
<1>3. Len(script) \in Nat BY <1>2, ScriptAssumption DEF EventInv
<1>4. FormatBefore(script, 1) = NoFormat BY FormatsGoOn
<1> QED BY <1>1, <1>2, <1>3, <1>4 DEF ReadInv, GivenFromScript, ReadInOrder

LEMMA GivenGoOn ==
    ASSUME EventInv, GivenFromScript, [EventNext]_vars
    PROVE  GivenFromScript'
<1>0. FramingTypeOK /\ script \in Scripts /\ script' = script
  BY StepFrames DEF EventInv, Inv
<1>1. CASE Send /\ given' # given
  <2> DEFINE p == script[Len(given) + 1].payload
  <2>1. Len(given) < Len(script) /\ WriteCall(p) BY <1>1 DEF Send
  <2>2. Len(given) + 1 \in 1 .. Len(script) BY <1>0, <2>1, ScriptAssumption, TypesHere
  <2>3. p \in Payload BY <1>0, <2>2, ScriptAssumption, FramingAssumption DEF Payload
  <2>4. Len(given) < Len(script) /\ given' = Append(given, p) /\ Len(p) <= maxAllowedPacket
    BY <1>1, <2>1, <2>3, FramingAssumption DEF WriteCall, Payload
  <2> HIDE DEF p
  <2>5. /\ Len(given') = Len(given) + 1 /\ given'[Len(given) + 1] = p
        /\ \A k \in 1 .. Len(given) : given'[k] = given[k]
    BY <1>0, <2>4, <2>3, TypesHere, Appended
  <2>6. ASSUME NEW n \in 1 .. Len(given')
        PROVE  given'[n] = script[n].payload /\ Len(given'[n]) <= maxAllowedPacket
    <3>1. n = Len(given) + 1 \/ n \in 1 .. Len(given) BY <1>0, <2>5, TypesHere
    <3> QED BY <2>4, <2>5, <3>1 DEF GivenFromScript, p
  <2>7. Len(given') <= Len(script) BY <1>0, <2>2, <2>5, TypesHere
  <2> QED BY <1>0, <2>6, <2>7 DEF GivenFromScript
<1>2. CASE given' = given BY <1>0, <1>2 DEF GivenFromScript
<1>3. CASE Parse BY <1>2, <1>3, ParseFrames DEF framing, writerVars
<1>4. CASE WriteOn \/ LoseLink \/ Pump \/ Idle \/ UNCHANGED vars
  BY <1>2, <1>4 DEF WriteOn, Writer, WritePacket, WriteFails, LoseLink, Lose, Pump, Reader,
    ReadCall, ReadHeader, ReadBody, ReadFails, Idle, vars, framing, writerVars
<1> QED BY <1>1, <1>2, <1>3, <1>4 DEF EventNext

LEMMA GotGoOn ==
    ASSUME EventInv, [EventNext]_vars, \A n \in 1 .. Len(got) : got[n] # <<>>
    PROVE  \A n \in 1 .. Len(got') : got'[n] # <<>>
<1>0. Inv /\ FramingTypeOK /\ [Next]_framing BY StepFrames DEF EventInv, Inv
<1>1. CASE got' = got BY <1>1
<1>2. CASE got' # got
  <2>1. Len(got) < Len(given) /\ got' = Append(got, given[Len(got) + 1])
    BY <1>0, <1>2, YieldsStep DEF Yields
  <2>2. given[Len(got) + 1] \in Payload BY <1>0, <2>1, TypesHere
  <2>3. Len(got') = Len(got) + 1 /\ \A k \in 1 .. Len(got) : got'[k] = got[k]
    BY <1>0, <2>1, <2>2, TypesHere, Appended
  <2>4. got'[Len(got')] # <<>> BY <1>0, <1>2, GotSome
  <2>5. \A n \in 1 .. Len(got') : n = Len(got') \/ n \in 1 .. Len(got)
    BY <1>0, <2>3, TypesHere
  <2> QED BY <2>3, <2>4, <2>5
<1> QED BY <1>1, <1>2

(* The payload that is parsed next, and its format.                        *)
LEMMA InHand ==
    ASSUME ReadInv, Arrives
    PROVE  /\ Len(parsed) \in Nat /\ Len(got) = Len(parsed) + 1 /\ buf # <<>>
           /\ Len(got) \in 1 .. Len(got) /\ Len(got) \in 1 .. Len(given)
           /\ buf = script[Len(got)].payload /\ Reading(buf, format) = ReadOf(Len(got))
<1>1. FramingTypeOK /\ Paced /\ PayloadsInOrder /\ GivenFromScript
  BY DEF ReadInv, EventInv, Inv
<1>2. Len(parsed) < Len(got) /\ Len(parsed) \in Nat BY <1>1 DEF Arrives, Paced
<1>3. Len(got) = Len(parsed) + 1 /\ Len(got) \in Nat BY <1>1, <1>2, TypesHere DEF Paced
<1>4. Len(got) \in 1 .. Len(got) BY <1>2, <1>3
<1>5. Len(got) \in 1 .. Len(given) /\ buf = given[Len(got)]
  BY <1>1, <1>4, TypesHere DEF PayloadsInOrder, buf
<1>6. buf # <<>> BY <1>4 DEF ReadInv, ReadInOrder, buf
<1>7. buf = script[Len(got)].payload BY <1>1, <1>5 DEF GivenFromScript
<1>8. format = FormatBefore(script, Len(got)) BY <1>3 DEF ReadInv
<1> QED BY <1>2, <1>3, <1>4, <1>5, <1>6, <1>7, <1>8 DEF ReadOf

LEMMA ReadStep == ReadInv /\ [EventNext]_vars => ReadInv'
<1> SUFFICES ASSUME ReadInv, [EventNext]_vars PROVE ReadInv' OBVIOUS
<1>0. EventInv /\ GivenFromScript /\ ReadInOrder BY DEF ReadInv
<1>1. EventInv' BY <1>0, EventInvStep
<1>2. GivenFromScript' BY <1>0, GivenGoOn
<1>3. \A n \in 1 .. Len(got') : got'[n] # <<>> BY <1>0, GotGoOn DEF ReadInOrder
<1>4. script' = script BY <1>0, StepFrames DEF EventInv, Inv
<1>5. CASE Parse
  <2>1. got' = got BY <1>5, ParseFrames DEF framing, readerVars
  <2>2. Arrives BY <1>5, ParseStep
  <2>3. /\ Len(parsed) \in Nat /\ Len(got) = Len(parsed) + 1 /\ buf # <<>>
        /\ buf = script[Len(got)].payload /\ Reading(buf, format) = ReadOf(Len(got))
    BY <2>2, InHand
  <2>4. outcome = "running" BY <2>2 DEF Arrives
  <2>5. CASE TakesAs(buf, format)
    <3>1. parsed' = Append(parsed, ReadOf(Len(got))) /\ outcome' = "running"
      BY <2>3, <2>4, <2>5 DEF TakesAs
    <3>2. PICK S : parsed \in Seq(S) BY <1>0 DEF EventInv, Paced
    <3>3. parsed \in Seq(S \cup {ReadOf(Len(got))}) BY <3>2
    <3>4. /\ Len(parsed') = Len(parsed) + 1 /\ parsed'[Len(parsed) + 1] = ReadOf(Len(got))
          /\ \A k \in 1 .. Len(parsed) : parsed'[k] = parsed[k]
      BY <3>1, <3>3, Appended
    <3>5. ASSUME NEW n \in 1 .. Len(parsed') PROVE parsed'[n] = ReadOf(n)
      <4>1. n = Len(parsed) + 1 \/ n \in 1 .. Len(parsed) BY <2>3, <3>4
      <4> QED BY <1>0, <2>3, <3>4, <4>1 DEF ReadInOrder
    <3>6. ReadInOrder' BY <1>3, <1>4, <3>1, <3>5 DEF ReadInOrder, ReadOf
    <3>7. format' = FormatBefore(script, Len(parsed') + 1)
      <4>1. Len(got) \in Nat \ {0} BY <2>3
      <4>2. FormatBefore(script, Len(got) + 1)
              = IF Describes(buf) THEN Format(Tail(buf)) ELSE FormatBefore(script, Len(got))
        BY <2>3, <4>1, FormatsGoOn
      <4>3. format = FormatBefore(script, Len(got)) BY <2>3 DEF ReadInv
      <4> QED BY <2>3, <2>5, <3>4, <4>2, <4>3 DEF TakesAs
    <3> QED BY <1>1, <1>2, <1>4, <3>6, <3>7 DEF ReadInv
  <2>6. CASE EndsAs(buf, format)
    <3>1. parsed' = parsed /\ format' = format /\ ReadOf(Len(got)) = Ending(outcome')
      BY <2>3, <2>6 DEF EndsAs
    <3>2. ReadInOrder' BY <1>0, <1>3, <1>4, <2>1, <2>3, <3>1 DEF ReadInOrder, ReadOf
    <3> QED BY <1>1, <1>2, <1>4, <3>1, <3>2 DEF ReadInv
  <2> QED BY <1>5, <2>3, <2>5, <2>6, ParseReads
<1>6. CASE UNCHANGED parser
  <2>1. parsed' = parsed /\ format' = format /\ outcome' = outcome BY <1>6 DEF parser
  <2>2. outcome # "running" => got' = got BY <2>1, OutcomeStep
  <2>3. ReadInOrder' BY <1>0, <1>3, <1>4, <2>1, <2>2 DEF ReadInOrder, ReadOf
  <2> QED BY <1>1, <1>2, <1>4, <2>1, <2>3 DEF ReadInv
<1> QED BY <1>5, <1>6 DEF EventNext, Send, WriteOn, LoseLink, Pump, Idle, vars

LEMMA ReadInvariant == SafeSpec => []ReadInv
<1> QED BY ReadInit, ReadStep, PTL DEF SafeSpec

(* However an event is cut into packets, wherever the link fails, and in   *)
(* whatever order master, link, pump and parser take their steps: what     *)
(* parseEvents reads of a payload is what it would read of it alone, with  *)
(* the last format described before (row_streamer.go:125).                 *)
THEOREM EventsReadInOrder == SafeSpec => []ReadInOrder
<1>1. ReadInv => ReadInOrder BY DEF ReadInv
<1> QED BY <1>1, ReadInvariant, PTL

LEMMA AsUnderstood ==
    ASSUME Understood, ReadInv, NEW n \in 1 .. Len(got)
    PROVE  ReadOf(n) = script[n].holds
<1>0. FramingTypeOK /\ PayloadsInOrder /\ GivenFromScript /\ script \in Scripts
  BY DEF ReadInv, EventInv, Inv
<1>1. n \in 1 .. Len(given) /\ n \in 1 .. Len(script)
  BY <1>0, TypesHere, ScriptAssumption DEF PayloadsInOrder, GivenFromScript
<1>2. got[n] = script[n].payload /\ Len(script[n].payload) <= maxAllowedPacket /\ got[n] # <<>>
  BY <1>0, <1>1 DEF PayloadsInOrder, GivenFromScript, ReadInv, ReadInOrder
<1>3. got[n] \in Payload BY <1>0, TypesHere
<1>4. Len(got[n]) \in Nat /\ Len(got[n]) # 0 BY <1>2, <1>3 DEF Payload
<1>5. Len(script[n].payload) \in 1 .. maxAllowedPacket BY <1>2, <1>4, FramingAssumption
<1> QED BY <1>0, <1>1, <1>5 DEF Understood, ReadOf

(* If every event of a script can be read by itself, then whatever happens *)
(* to it on its way the parser reads from it what the master has put in.   *)
THEOREM FieldsAreAsWritten ==
    ASSUME Understood
    PROVE  SafeSpec => []FieldsAsWritten
<1>1. ReadInv => FieldsAsWritten
  <2> SUFFICES ASSUME ReadInv, NEW n \in 1 .. Len(parsed) PROVE parsed[n] = script[n].holds
    BY DEF FieldsAsWritten
  <2>1. FramingTypeOK /\ Paced BY DEF ReadInv, EventInv, Inv
  <2>2. n \in 1 .. Len(got) BY <2>1, TypesHere DEF Paced
  <2> QED BY <2>2, AsUnderstood DEF ReadInv, ReadInOrder
<1> QED BY <1>1, ReadInvariant, PTL

(* And it ends, fails and panics at no other payload than those which, by  *)
(* themselves, are the end, are refused or are cut short.                  *)
THEOREM ParserStopsForCause ==
    ASSUME Understood
    PROVE  SafeSpec => []StopsForCause
<1>1. ReadInv => StopsForCause
  <2> SUFFICES ASSUME ReadInv, outcome # "running"
               PROVE  script[Len(parsed) + 1].holds = Cause[outcome]
    BY DEF StopsForCause
  <2>1. FramingTypeOK /\ Paced BY DEF ReadInv, EventInv, Inv
  <2>2. Len(parsed) < Len(got) /\ ReadOf(Len(parsed) + 1) = Ending(outcome)
    BY DEF ReadInv, ReadInOrder
  <2>3. Len(parsed) + 1 \in 1 .. Len(got) BY <2>1, <2>2, TypesHere DEF Paced
  <2>4. Ending(outcome) = script[Len(parsed) + 1].holds BY <2>2, <2>3, AsUnderstood
  <2>5. outcome \in {"eof", "error", "panic"} BY <2>1 DEF Paced
  <2>6. Ending(outcome) = Cause[outcome] BY <2>5, Endings DEF Cause
  <2> QED BY <2>4, <2>6
<1> QED BY <1>1, ReadInvariant, PTL
=============================================================================
