-------------------------- MODULE MysqlConnProofs --------------------------
(***************************************************************************)
(* Proofs of what MysqlConn promises, for all DSNs, every number of        *)
(* statements, and all answers, failures and orders of them: the socket is *)
(* closed when connecting fails, answers and requests stay together, and a *)
(* connection that is returned has its parameters. What relies on packet   *)
(* numbers assumes that they count to three without coming round.          *)
(***************************************************************************)
EXTENDS MysqlConn, TLAPS

(* A step may open a connection again only while none has failed.          *)
IInv == result = "error" => task = "ended" /\ ~netConn /\ ~open

(* A goroutine that holds a connection has not failed.                     *)
LEMMA Unfailed ==
    ASSUME IInv, netConn
    PROVE  result # "error"
  BY DEF IInv

(* The four ways a call ends or goes on.                                   *)
LEMMA FailsKeeps ==
    ASSUME result # "error", NEW closing, NEW error, Fails(closing, error)
    PROVE  IInv'
  BY DEF Fails, Closes, IInv

LEMMA SucceedsKeeps ==
    ASSUME result # "error", Succeeds
    PROVE  IInv'
  BY DEF Succeeds, IInv

LEMMA GoesKeeps ==
    ASSUME result # "error", NEW read, Goes(read)
    PROVE  IInv'
  BY DEF Goes, IInv

LEMMA CallsKeeps ==
    ASSUME result # "error", NEW newTask, NEW read, Calls(newTask, read)
    PROVE  IInv'
  BY DEF Calls, IInv

(* What they are used for.                                                 *)
LEMMA StaysKeeps ==
    ASSUME IInv, UNCHANGED outcome
    PROVE  IInv'
  BY DEF outcome, socket, IInv

LEMMA WritesKeeps ==
    ASSUME IInv, NEW kind, NEW statement, NEW number, NEW newTask, NEW read,
           Writes(kind, statement, number, newTask, read)
    PROVE  IInv'
  <1>1. CASE ~netConn
    BY <1>1, StaysKeeps DEF Writes
  <1>2. CASE netConn
    BY <1>2, Unfailed, FailsKeeps, CallsKeeps DEF Writes
  <1> QED
    BY <1>1, <1>2

LEMMA DiscardsKeeps ==
    ASSUME result # "error", NEW follows, NEW warnings, Discards(follows, warnings)
    PROVE  IInv'
  BY GoesKeeps, FailsKeeps, SucceedsKeeps DEF Discards

LEMMA ReceivesUnfailed ==
    ASSUME IInv, NEW reads, Receives(reads)
    PROVE  result # "error"
  BY Unfailed DEF Receives, Waits

(* The reads.                                                              *)
LEMMA ReadsKeep ==
    ASSUME IInv,
           \/ ReadFails \/ OutOfSync \/ ReadInitPacket \/ ReadResultOK \/ ReadResultSetHeader
           \/ ReadUntilEOF \/ ReadValue \/ ReadWarnings
    PROVE  IInv'
  <1>1. CASE ReadFails
    BY <1>1, Unfailed, FailsKeeps DEF ReadFails, Waits
  <1>2. CASE OutOfSync
    BY <1>2, Unfailed, FailsKeeps DEF OutOfSync, Waits
  <1>3. CASE ReadInitPacket
    BY <1>3, ReceivesUnfailed, FailsKeeps, CallsKeeps DEF ReadInitPacket
  <1>4. CASE ReadResultOK
    BY <1>4, ReceivesUnfailed, FailsKeeps, CallsKeeps, DiscardsKeeps
       DEF ReadResultOK, HandleOkPacket
  <1>5. CASE ReadResultSetHeader
    BY <1>5, ReceivesUnfailed, FailsKeeps, GoesKeeps, DiscardsKeeps
       DEF ReadResultSetHeader, HandleOkPacket
  <1>6. CASE ReadUntilEOF
    BY <1>6, ReceivesUnfailed, FailsKeeps, GoesKeeps, SucceedsKeeps, DiscardsKeeps, StaysKeeps
       DEF ReadUntilEOF
  <1>7. CASE ReadValue
    BY <1>7, ReceivesUnfailed, FailsKeeps, GoesKeeps DEF ReadValue
  <1>8. CASE ReadWarnings
    BY <1>8, ReceivesUnfailed, FailsKeeps, GoesKeeps, DiscardsKeeps, StaysKeeps DEF ReadWarnings
  <1> QED
    BY <1>1, <1>2, <1>3, <1>4, <1>5, <1>6, <1>7, <1>8

LEMMA NextIInv == IInv /\ [Next]_vars => IInv'
  <1> SUFFICES ASSUME IInv, [Next]_vars PROVE IInv'
    OBVIOUS
  <1>1. CASE \/ ReadFails \/ OutOfSync \/ ReadInitPacket \/ ReadResultOK \/ ReadResultSetHeader
             \/ ReadUntilEOF \/ ReadValue \/ ReadWarnings
    BY <1>1, ReadsKeep
  <1>2. CASE Dial
    BY <1>2 DEF Dial, Closes, IInv
  <1>3. CASE UnknownCollation \/ SwitchToTLS
    BY <1>3, StaysKeeps, FailsKeeps DEF UnknownCollation, SwitchToTLS, IInv
  <1>4. CASE WriteAuthPacket \/ WriteOtherAuthPacket \/ ShowWarnings
    BY <1>4, WritesKeeps DEF WriteAuthPacket, WriteOtherAuthPacket, ShowWarnings
  <1>5. CASE GetSystemVar \/ ExecParam \/ Exec
    BY <1>5, WritesKeeps DEF GetSystemVar, ExecParam, Exec, Commands
  <1>6. CASE NextParam \/ Connected \/ Close
    BY <1>6 DEF NextParam, Connected, Close, Closes, IInv, socket
  <1>7. CASE Reply \/ LinkFails \/ Finished \/ UNCHANGED vars
    BY <1>7, StaysKeeps DEF Reply, LinkFails, Finished, vars
  <1> QED
    BY <1>1, <1>2, <1>3, <1>4, <1>5, <1>6, <1>7 DEF Next, Goroutine

(* NewMysqlConn closes the socket before it returns an error, whatever the *)
(* server answers, at whichever packet the connection breaks, and with all *)
(* parameters; nothing opens it again.                                     *)
THEOREM ClosedOnErrorHolds == SafeSpec => []ClosedOnError
  <1>1. Init => IInv
    BY DEF Init, IInv
  <1>2. IInv => ClosedOnError
    BY DEF IInv, ClosedOnError
  <1> QED
    BY <1>1, <1>2, NextIInv, PTL DEF SafeSpec

-----------------------------------------------------------------------------
(* Types. TypeOK leaves open what a request, a packet on the wire and the  *)
(* statements still to try are.                                            *)

Numbers == 0 .. SeqMod - 1

Values == STRING \cup {"given"}

Settings(dsn) == [var : dsn.vars \cup {"charset"}, value : Values]

Greetings == [kind : {"connect"}, seq : Numbers]

Questions ==
    [kind : {"auth", "switch", "var", "warnings", "exec"}, seq : Numbers, var : {""}, value : {""}]

Assignments(dsn) ==
    [kind : {"set"}, seq : Numbers, var : dsn.vars \cup {"charset"}, value : Values]

Asked(dsn) == {NoRequest} \cup Greetings \cup Questions \cup Assignments(dsn)

Whats == {"", "ssl", "plain"} \cup Plugins

BarePackets == [kind : Kinds, what : Whats, more : BOOLEAN, warned : BOOLEAN]

Packets ==
    [kind : Kinds, what : Whats, more : BOOLEAN, warned : BOOLEAN, seq : Numbers, to : Nat,
     layer : Layers]

OutcomeTyped ==
    /\ task \in Tasks /\ await \in Reads
    /\ todo \subseteq config.vars \cup {"charset"} /\ trying \in Seq(Settings(config))
    /\ result \in {"none", "connected", "error"}
    /\ netConn \in BOOLEAN /\ open \in BOOLEAN

StatusTyped == more \in BOOLEAN /\ warned \in {"no", "yes", "shown"}

LinkTyped ==
    /\ link \in {"up", "lost"} /\ request \in Asked(config) /\ wire \in Seq(Packets)
    /\ layer \in Layers /\ security \in Layers /\ assigned \subseteq config.vars
    /\ wrapped \in BOOLEAN

CountsTyped ==
    sequence \in Numbers /\ execs \in 0 .. MaxExecs /\ commands \in Nat

FlagsTyped == panicked \in BOOLEAN /\ mixed \in BOOLEAN

Typed ==
    config \in Configs /\ OutcomeTyped /\ StatusTyped /\ LinkTyped /\ CountsTyped /\ FlagsTyped

LEMMA NextSequenceTyped ==
    ASSUME NEW n \in Nat
    PROVE  NextSequence(n) \in Numbers
  BY SeqModAssumption DEF NextSequence, Numbers

(* What a request that waits for its answer is.                            *)
LEMMA AskedFields ==
    ASSUME NEW dsn, NEW asked \in Asked(dsn)
    PROVE  /\ asked.kind \in Requests
           /\ asked = NoRequest <=> asked.kind = "none"
           /\ asked # NoRequest => asked.seq \in Numbers
           /\ asked.kind = "set"
                  => asked.var \in dsn.vars \cup {"charset"} /\ asked.value \in Values
  <1>1. CASE asked = NoRequest
    BY <1>1 DEF NoRequest, Requests
  <1>2. CASE asked \in Greetings
    BY <1>2 DEF NoRequest, Requests, Greetings
  <1>3. CASE asked \in Questions
    <2>1. asked.kind \in {"auth", "switch", "var", "warnings", "exec"} /\ asked.seq \in Numbers
      BY <1>3 DEF Questions
    <2>2. asked # NoRequest
      BY <2>1 DEF NoRequest
    <2> QED
      BY <2>1, <2>2 DEF Requests
  <1>4. CASE asked \in Assignments(dsn)
    BY <1>4 DEF NoRequest, Requests, Assignments
  <1> QED
    BY <1>1, <1>2, <1>3, <1>4 DEF Asked

LEMMA TypedImpliesTypeOK == Typed => TypeOK
  <1> SUFFICES ASSUME Typed PROVE TypeOK
    OBVIOUS
  <1>1. trying \in Seq(Settings(config)) /\ wire \in Seq(Packets) /\ request \in Asked(config)
    BY DEF Typed, OutcomeTyped, LinkTyped
  <1>2. ASSUME NEW n \in 1 .. Len(trying) PROVE trying[n].var \in config.vars \cup {"charset"}
    <2>1. trying[n] \in Settings(config)
      BY <1>1
    <2> QED
      BY <2>1 DEF Settings
  <1>3. request.kind \in Requests
    BY <1>1, AskedFields
  <1>4. ASSUME NEW n \in 1 .. Len(wire)
        PROVE  wire[n].kind \in Kinds /\ wire[n].seq \in 0 .. SeqMod - 1
    <2>1. wire[n] \in Packets
      BY <1>1
    <2> QED
      BY <2>1 DEF Packets, Numbers
  <1>5. /\ config \in Configs /\ task \in Tasks /\ await \in Reads
        /\ todo \subseteq config.vars \cup {"charset"}
        /\ result \in {"none", "connected", "error"} /\ netConn \in BOOLEAN /\ open \in BOOLEAN
    BY DEF Typed, OutcomeTyped
  <1>6. /\ more \in BOOLEAN /\ warned \in {"no", "yes", "shown"} /\ link \in {"up", "lost"}
        /\ layer \in Layers /\ security \in Layers /\ assigned \subseteq config.vars
        /\ wrapped \in BOOLEAN
    BY DEF Typed, StatusTyped, LinkTyped
  <1>7. sequence \in 0 .. SeqMod - 1 /\ execs \in 0 .. MaxExecs /\ commands \in Nat
    BY DEF Typed, CountsTyped, Numbers
  <1>8. panicked \in BOOLEAN /\ mixed \in BOOLEAN
    BY DEF Typed, FlagsTyped
  <1> QED
    BY <1>2, <1>3, <1>4, <1>5, <1>6, <1>7, <1>8 DEF TypeOK

LEMMA InitTyped == Init => Typed
  <1> SUFFICES ASSUME Init PROVE Typed
    OBVIOUS
  <1>1. todo \subseteq config.vars \cup {"charset"}
    BY DEF Init, Parameters
  <1>2. 0 \in Numbers
    BY SeqModAssumption DEF Numbers
  <1>3. trying \in Seq(Settings(config)) /\ wire \in Seq(Packets)
    BY DEF Init
  <1>4. OutcomeTyped
    BY <1>1, <1>3 DEF Init, OutcomeTyped, Tasks, Reads
  <1>5. StatusTyped
    BY DEF Init, StatusTyped
  <1>6. LinkTyped
    BY <1>3 DEF Init, LinkTyped, Layers, Asked
  <1>7. CountsTyped
    <2>1. sequence = 0 /\ execs = 0 /\ commands = 0
      BY DEF Init
    <2> QED
      BY <2>1, SeqModAssumption, MaxExecsAssumption DEF CountsTyped, Numbers
  <1>8. FlagsTyped
    BY DEF Init, FlagsTyped
  <1> QED
    BY <1>4, <1>5, <1>6, <1>7, <1>8 DEF Init, Typed

(* The four ways a call ends or goes on.                                   *)
LEMMA FailsTyped ==
    ASSUME OutcomeTyped, config' = config, NEW closing, NEW error, Fails(closing, error)
    PROVE  OutcomeTyped'
  <1>1. /\ trying \in Seq(Settings(config))
        /\ Len(trying) > 1 => Tail(trying) \in Seq(Settings(config))
    BY DEF OutcomeTyped
  <1> QED
    BY <1>1 DEF Fails, Closes, OutcomeTyped, Tasks, Reads, socket, params

LEMMA SucceedsTyped ==
    ASSUME OutcomeTyped, config' = config, Succeeds,
           task \in {"auth", "retry", "var", "params", "exec"}
    PROVE  OutcomeTyped'
  BY DEF Succeeds, OutcomeTyped, Tasks, Reads, socket

LEMMA GoesTyped ==
    ASSUME OutcomeTyped, config' = config, NEW read \in Reads, Goes(read)
    PROVE  OutcomeTyped'
  BY DEF Goes, OutcomeTyped, socket, params

LEMMA CallsTyped ==
    ASSUME OutcomeTyped, config' = config, NEW newTask \in Tasks, NEW read \in Reads,
           Calls(newTask, read)
    PROVE  OutcomeTyped'
  BY DEF Calls, OutcomeTyped, socket, params

LEMMA DiscardsTyped ==
    ASSUME OutcomeTyped, config' = config, NEW follows \in BOOLEAN,
           NEW warnings \in {"no", "yes", "shown"}, Discards(follows, warnings),
           task \in {"auth", "retry", "var", "params", "exec"}
    PROVE  OutcomeTyped' /\ StatusTyped'
  <1>1. StatusTyped'
    BY DEF Discards, StatusTyped
  <1>2. CASE Goes("moreHeader") \/ Goes("showWarnings") \/ Goes("value")
    BY <1>1, <1>2, GoesTyped DEF Reads
  <1>3. CASE Fails(FALSE, "warnings")
    BY <1>1, <1>3, FailsTyped
  <1>4. CASE Succeeds
    BY <1>1, <1>4, SucceedsTyped
  <1> QED
    BY <1>2, <1>3, <1>4 DEF Discards

LEMMA StaysTyped ==
    /\ OutcomeTyped /\ config' = config /\ UNCHANGED outcome => OutcomeTyped'
    /\ StatusTyped /\ UNCHANGED status => StatusTyped'
    /\ LinkTyped /\ UNCHANGED <<config, link, request, wire, layer, server>> => LinkTyped'
    /\ CountsTyped /\ UNCHANGED <<sequence, execs, commands>> => CountsTyped'
    /\ FlagsTyped /\ UNCHANGED <<panicked, mixed>> => FlagsTyped'
  <1>1. OutcomeTyped /\ config' = config /\ UNCHANGED outcome => OutcomeTyped'
    BY DEF outcome, params, socket, OutcomeTyped
  <1>2. StatusTyped /\ UNCHANGED status => StatusTyped'
    BY DEF status, StatusTyped
  <1>3. LinkTyped /\ UNCHANGED <<config, link, request, wire, layer, server>> => LinkTyped'
    BY DEF server, LinkTyped
  <1>4. CountsTyped /\ UNCHANGED <<sequence, execs, commands>> => CountsTyped'
    BY DEF CountsTyped
  <1>5. FlagsTyped /\ UNCHANGED <<panicked, mixed>> => FlagsTyped'
    BY DEF FlagsTyped
  <1> QED
    BY <1>1, <1>2, <1>3, <1>4, <1>5

LEMMA WritesTyped ==
    ASSUME Typed, UNCHANGED config,
           NEW kind, NEW statement, NEW number \in Numbers, NEW newTask \in Tasks,
           NEW read \in Reads, Writes(kind, statement, number, newTask, read),
           [kind |-> kind, seq |-> number, var |-> statement.var, value |-> statement.value]
               \in Asked(config)
    PROVE  /\ OutcomeTyped' /\ LinkTyped' /\ FlagsTyped'
           /\ sequence' \in Numbers /\ commands' \in Nat
  <1>1. /\ OutcomeTyped /\ LinkTyped /\ sequence \in Numbers /\ commands \in Nat /\ FlagsTyped
    BY DEF Typed, CountsTyped
  <1>2. UNCHANGED <<layer, mixed, link, wire, server>>
    BY DEF Writes
  <1>3. CASE UNCHANGED <<outcome, sequence, commands, request>> /\ panicked' = TRUE
    BY <1>1, <1>2, <1>3, StaysTyped DEF FlagsTyped
  <1>4. CASE /\ Calls(newTask, read) /\ UNCHANGED panicked
             /\ sequence' = NextSequence(number) /\ commands' = commands + 1
             /\ request' = IF link = "lost" THEN NoRequest
                           ELSE [kind |-> kind, seq |-> number,
                                 var |-> statement.var, value |-> statement.value]
    <2>1. OutcomeTyped'
      BY <1>1, <1>4, CallsTyped
    <2>2. request' \in Asked(config')
      BY <1>4 DEF Asked
    <2>3. LinkTyped'
      BY <1>1, <1>2, <2>2 DEF LinkTyped, server
    <2>4. number \in Nat
      BY SeqModAssumption DEF Numbers
    <2>5. sequence' \in Numbers /\ commands' \in Nat
      BY <1>1, <1>4, <2>4, NextSequenceTyped
    <2> QED
      BY <1>1, <1>2, <1>4, <2>1, <2>3, <2>5, StaysTyped
  <1>5. CASE /\ Fails(FALSE, "badConn") /\ UNCHANGED panicked
             /\ sequence' = number /\ UNCHANGED <<commands, request>>
    BY <1>1, <1>2, <1>5, FailsTyped, StaysTyped
  <1> QED
    BY <1>3, <1>4, <1>5 DEF Writes

LEMMA ReceivesTyped ==
    ASSUME Typed, NEW reads, Receives(reads)
    PROVE  /\ config' = config /\ LinkTyped' /\ CountsTyped' /\ FlagsTyped'
           /\ await \in reads /\ Head(wire) \in Packets
  <1>1. wire \in Seq(Packets) /\ wire # <<>> /\ Tail(wire) \in Seq(Packets)
        /\ Head(wire) \in Packets
    BY DEF Typed, LinkTyped, Receives
  <1>2. LinkTyped'
    BY <1>1 DEF Typed, LinkTyped, Receives, local, server
  <1>3. sequence' \in Numbers
    <2>1. sequence \in Nat
      BY SeqModAssumption DEF Typed, CountsTyped, Numbers
    <2> QED
      BY <2>1, NextSequenceTyped DEF Receives
  <1>4. CountsTyped'
    BY <1>3 DEF Typed, CountsTyped, Receives, local
  <1>5. FlagsTyped'
    BY DEF Typed, FlagsTyped, Receives
  <1> QED
    BY <1>1, <1>2, <1>4, <1>5 DEF Receives, local

LEMMA HandleOkTyped ==
    ASSUME OutcomeTyped, StatusTyped, config' = config, Head(wire) \in Packets, HandleOkPacket,
           task \in {"auth", "retry", "var", "params", "exec"}
    PROVE  OutcomeTyped' /\ StatusTyped'
  <1>1. packet.more \in BOOLEAN
    BY DEF packet, Packets
  <1>2. (IF packet.warned /\ warned = "no" THEN "yes" ELSE warned) \in {"no", "yes", "shown"}
    BY DEF StatusTyped
  <1> QED
    BY <1>1, <1>2, DiscardsTyped DEF HandleOkPacket

(* Only a task that asks something waits for an answer.                    *)
Asking == {"auth", "retry", "var", "params", "exec"}
Working == await \notin {"nothing", "handshake"} => task \in Asking

LEMMA StepsWork ==
    ASSUME Working
    PROVE  /\ \A closing, error : Fails(closing, error) => Working'
           /\ Succeeds => Working'
           /\ \A read : Goes(read) /\ task \in Asking => Working'
           /\ \A newTask, read : Calls(newTask, read) /\ (newTask \in Asking \/ read = "nothing")
                                     => Working'
           /\ UNCHANGED outcome => Working'
           /\ \A follows, warnings : Discards(follows, warnings) /\ task \in Asking => Working'
           /\ \A kind, statement, number, newTask, read :
                  Writes(kind, statement, number, newTask, read) /\ newTask \in Asking => Working'
  <1>1. \A closing, error : Fails(closing, error) => Working'
    BY DEF Fails, Working
  <1>2. Succeeds => Working'
    BY DEF Succeeds, Working
  <1>3. \A read : Goes(read) /\ task \in Asking => Working'
    BY DEF Goes, Working
  <1>4. \A newTask, read : Calls(newTask, read) /\ (newTask \in Asking \/ read = "nothing")
                               => Working'
    BY DEF Calls, Working
  <1>5. UNCHANGED outcome => Working'
    BY DEF outcome, Working
  <1>6. \A follows, warnings : Discards(follows, warnings) /\ task \in Asking => Working'
    BY <1>1, <1>2, <1>3 DEF Discards
  <1>7. \A kind, statement, number, newTask, read :
            Writes(kind, statement, number, newTask, read) /\ newTask \in Asking => Working'
    BY <1>1, <1>4, <1>5 DEF Writes
  <1> QED
    BY <1>1, <1>2, <1>3, <1>4, <1>5, <1>6, <1>7

(* The reads.                                                              *)
LEMMA ReadsTyped ==
    ASSUME Typed, Working,
           \/ ReadInitPacket \/ ReadResultOK \/ ReadResultSetHeader
           \/ ReadUntilEOF \/ ReadValue \/ ReadWarnings
    PROVE  Typed' /\ Working'
  <1> DEFINE Frame == config' = config /\ LinkTyped' /\ CountsTyped' /\ FlagsTyped'
  <1>1. OutcomeTyped /\ StatusTyped /\ config \in Configs
    BY DEF Typed
  <1>2. ASSUME OutcomeTyped', StatusTyped', Frame PROVE Typed'
    BY <1>1, <1>2 DEF Typed
  <1>3. UNCHANGED status => StatusTyped'
    BY <1>1, StaysTyped
  <1>4. CASE ReadInitPacket
    <2>1. Frame /\ StatusTyped'
      BY <1>3, <1>4, ReceivesTyped DEF ReadInitPacket
    <2>2. CASE Calls("auth", "nothing")
      BY <1>1, <1>2, <2>1, <2>2, CallsTyped, StepsWork DEF Tasks, Reads
    <2>3. ASSUME NEW error, Fails(FALSE, error) PROVE Typed' /\ Working'
      BY <1>1, <1>2, <2>1, <2>3, FailsTyped, StepsWork
    <2> QED
      BY <1>4, <2>2, <2>3 DEF ReadInitPacket
  <1>5. ASSUME NEW reads, Receives(reads), "nothing" \notin reads, "handshake" \notin reads
        PROVE  Frame /\ task \in Asking /\ Head(wire) \in Packets
    BY <1>5, ReceivesTyped DEF Working
  <1>6. ASSUME Frame, NEW error, Fails(FALSE, error), UNCHANGED status PROVE Typed' /\ Working'
    BY <1>1, <1>2, <1>3, <1>6, FailsTyped, StepsWork
  <1>7. ASSUME Frame, task \in Asking, NEW read \in Reads, Goes(read), StatusTyped'
        PROVE  Typed' /\ Working'
    BY <1>1, <1>2, <1>7, GoesTyped, StepsWork
  <1>8. ASSUME Frame, task \in Asking, Succeeds, StatusTyped' PROVE Typed' /\ Working'
    BY <1>1, <1>2, <1>8, SucceedsTyped, StepsWork DEF Asking
  <1>9. ASSUME Frame, task \in Asking, NEW follows \in BOOLEAN,
               NEW warnings \in {"no", "yes", "shown"}, Discards(follows, warnings)
        PROVE  Typed' /\ Working'
    BY <1>1, <1>2, <1>9, DiscardsTyped, StepsWork DEF Asking
  <1>10. ASSUME Frame, task \in Asking, Head(wire) \in Packets, HandleOkPacket
         PROVE  Typed' /\ Working'
    BY <1>1, <1>2, <1>10, HandleOkTyped, StepsWork DEF Asking, HandleOkPacket
  <1>11. ASSUME Frame, UNCHANGED <<outcome, status>> PROVE Typed' /\ Working'
    BY <1>1, <1>2, <1>11, StaysTyped, StepsWork
  <1> HIDE DEF Frame
  <1>12. CASE ReadResultOK
    <2>1. Frame /\ task \in Asking /\ Head(wire) \in Packets
      BY <1>5, <1>12 DEF ReadResultOK
    <2>2. CASE Calls("retry", "nothing") /\ UNCHANGED status
      BY <1>1, <1>2, <1>3, <2>1, <2>2, CallsTyped, StepsWork DEF Tasks, Reads, Frame
    <2> QED
      BY <1>6, <1>10, <1>12, <2>1, <2>2 DEF ReadResultOK
  <1>13. CASE ReadResultSetHeader
    <2>1. Frame /\ task \in Asking /\ Head(wire) \in Packets
      BY <1>5, <1>13 DEF ReadResultSetHeader
    <2>2. (IF await = "header" THEN "columns" ELSE "moreColumns") \in Reads
      BY DEF Reads
    <2> QED
      BY <1>3, <1>6, <1>7, <1>10, <1>13, <2>1, <2>2 DEF ReadResultSetHeader
  <1>14. CASE ReadUntilEOF
    <2>1. Frame /\ task \in Asking /\ Head(wire) \in Packets
      BY <1>5, <1>14 DEF ReadUntilEOF
    <2>2. packet.more \in BOOLEAN /\ warned \in {"no", "yes", "shown"}
      BY <1>1, <2>1 DEF packet, Packets, StatusTyped
    <2>3. CASE await = "moreRows" /\ Discards(packet.more, warned)
      BY <1>9, <2>1, <2>2, <2>3
    <2>4. CASE /\ more' = packet.more /\ UNCHANGED warned
               /\ IF await \in DOMAIN AfterEOF THEN Goes(AfterEOF[await]) ELSE Succeeds
      <3>1. StatusTyped'
        BY <2>2, <2>4 DEF StatusTyped
      <3>2. await \in DOMAIN AfterEOF => AfterEOF[await] \in Reads
        BY DEF AfterEOF, Reads
      <3> QED
        BY <1>7, <1>8, <2>1, <2>4, <3>1, <3>2
    <2> QED
      BY <1>6, <1>11, <1>14, <2>1, <2>3, <2>4 DEF ReadUntilEOF
  <1>15. CASE ReadValue
    <2>1. Frame /\ task \in Asking /\ UNCHANGED status
      BY <1>5, <1>15 DEF ReadValue
    <2>2. "rest" \in Reads
      BY DEF Reads
    <2> QED
      BY <1>3, <1>6, <1>7, <1>15, <2>1, <2>2 DEF ReadValue
  <1>16. CASE ReadWarnings
    <2>1. Frame /\ task \in Asking /\ Head(wire) \in Packets
      BY <1>5, <1>16 DEF ReadWarnings
    <2>2. packet.more \in BOOLEAN /\ "warnColumns" \in Reads /\ "warnRows" \in Reads
      BY <2>1 DEF packet, Packets, Reads
    <2> QED
      BY <1>3, <1>6, <1>7, <1>9, <1>11, <1>16, <2>1, <2>2 DEF ReadWarnings
  <1> QED
    BY <1>4, <1>12, <1>13, <1>14, <1>15, <1>16

-----------------------------------------------------------------------------
(* The answers of the server.                                              *)

LEMMA Bare ==
    /\ \A kind \in Kinds : Packet(kind) \in BarePackets
    /\ \A bare \in BarePackets : More(bare) \in BarePackets
    /\ \A bare \in BarePackets, what \in Whats : [bare EXCEPT !.what = what] \in BarePackets
    /\ Ok \in BarePackets /\ [Ok EXCEPT !.warned = TRUE] \in BarePackets
  <1>1. \A kind \in Kinds : Packet(kind) \in BarePackets
    BY DEF Packet, BarePackets, Whats
  <1>2. \A bare \in BarePackets : More(bare) \in BarePackets
    BY DEF More, BarePackets
  <1>3. \A bare \in BarePackets, what \in Whats : [bare EXCEPT !.what = what] \in BarePackets
    BY DEF BarePackets
  <1>4. \A bare \in BarePackets : [bare EXCEPT !.warned = TRUE] \in BarePackets
    BY DEF BarePackets
  <1>5. Ok \in BarePackets
    BY <1>1 DEF Ok, Kinds
  <1> QED
    BY <1>1, <1>2, <1>3, <1>4, <1>5

LEMMA Joined ==
    ASSUME NEW S, NEW s \in Seq(S), NEW t \in Seq(S)
    PROVE  s \o t \in Seq(S) /\ Len(s \o t) = Len(s) + Len(t)
  OBVIOUS

LEMMA JoinedFront ==
    ASSUME NEW S, NEW s \in Seq(S), NEW t \in Seq(S)
    PROVE  \A n \in 1 .. Len(s) : (s \o t)[n] = s[n]
  OBVIOUS

LEMMA JoinedBack ==
    ASSUME NEW S, NEW s \in Seq(S), NEW t \in Seq(S)
    PROVE  \A n \in 1 .. Len(t) : (s \o t)[Len(s) + n] = t[n]
  OBVIOUS

(* The packets of a result.                                                *)
LEMMA TableBare ==
    ASSUME NEW rows \in Nat, NEW last \in BarePackets
    PROVE  /\ Table(rows, last) \in Seq(BarePackets) /\ Len(Table(rows, last)) = rows + 4
           /\ Table(rows, last)[1] = Packet("header") /\ Table(rows, last)[2] = Packet("column")
           /\ Table(rows, last)[3] = last /\ Table(rows, last)[rows + 4] = last
           /\ \A n \in 1 .. rows : Table(rows, last)[3 + n] = Packet("row")
  <1> DEFINE head == <<Packet("header"), Packet("column"), last>>
             body == [n \in 1 .. rows |-> Packet("row")]
             tail == <<last>>
  <1>1. Packet("header") \in BarePackets /\ Packet("column") \in BarePackets
        /\ Packet("row") \in BarePackets
    BY Bare DEF Kinds
  <1>2. /\ head \in Seq(BarePackets) /\ Len(head) = 3
        /\ head[1] = Packet("header") /\ head[2] = Packet("column") /\ head[3] = last
    BY <1>1
  <1>3. /\ body \in Seq(BarePackets) /\ Len(body) = rows
        /\ \A n \in 1 .. rows : body[n] = Packet("row")
    BY <1>1
  <1>4. tail \in Seq(BarePackets) /\ Len(tail) = 1 /\ tail[1] = last
    OBVIOUS
  <1>5. Table(rows, last) = head \o body \o tail
    BY DEF Table
  <1> HIDE DEF head, body, tail
  <1> DEFINE both == head \o body
  <1>6. /\ both \in Seq(BarePackets) /\ Len(both) = 3 + rows
        /\ \A n \in 1 .. 3 : both[n] = head[n]
        /\ \A n \in 1 .. rows : both[3 + n] = body[n]
    <2>1. both \in Seq(BarePackets) /\ Len(both) = Len(head) + Len(body)
      BY <1>2, <1>3, Joined, Zenon
    <2>2. \A n \in 1 .. Len(head) : both[n] = head[n]
      BY <1>2, <1>3, JoinedFront, Zenon
    <2>3. \A n \in 1 .. Len(body) : both[Len(head) + n] = body[n]
      <3>1. head \in Seq(BarePackets) /\ body \in Seq(BarePackets)
        BY <1>2, <1>3
      <3> QED
        BY <3>1, JoinedBack
    <2> QED
      BY <1>2, <1>3, <2>1, <2>2, <2>3, Zenon
  <1> HIDE DEF both
  <1>7. /\ both \o tail \in Seq(BarePackets) /\ Len(both \o tail) = 3 + rows + 1
        /\ \A n \in 1 .. 3 + rows : (both \o tail)[n] = both[n]
        /\ \A n \in 1 .. 1 : (both \o tail)[3 + rows + n] = tail[n]
    <2>1. both \o tail \in Seq(BarePackets) /\ Len(both \o tail) = Len(both) + Len(tail)
      BY <1>4, <1>6, Joined, Zenon
    <2>2. \A n \in 1 .. Len(both) : (both \o tail)[n] = both[n]
      BY <1>4, <1>6, JoinedFront, Zenon
    <2>3. \A n \in 1 .. Len(tail) : (both \o tail)[Len(both) + n] = tail[n]
      BY <1>4, <1>6, JoinedBack
    <2> QED
      BY <1>4, <1>6, <2>1, <2>2, <2>3, Zenon
  <1>8. Table(rows, last) = both \o tail
    BY <1>5 DEF both
  <1>9. /\ 3 + rows + 1 = rows + 4 /\ 1 \in 1 .. 3 + rows /\ 2 \in 1 .. 3 + rows
        /\ 3 \in 1 .. 3 + rows
    OBVIOUS
  <1>10. \A n \in 1 .. rows : 3 + n \in 1 .. 3 + rows
    OBVIOUS
  <1>11. \A n \in 1 .. rows : Table(rows, last)[3 + n] = Packet("row")
    BY <1>3, <1>6, <1>7, <1>8, <1>10
  <1> QED
    BY <1>2, <1>4, <1>6, <1>7, <1>8, <1>9, <1>11

(* An answer has a packet.                                                 *)
Fine(ps) == ps \in Seq(BarePackets) /\ Len(ps) \in Nat \ {0}

LEMMA FineSequences ==
    /\ \A b \in BarePackets : Fine(<<b>>)
    /\ \A b1, b2 \in BarePackets : Fine(<<b1, b2>>)
    /\ \A ps, qs : Fine(ps) /\ Fine(qs) => Fine(ps \o qs)
    /\ \A rows \in Nat, b \in BarePackets : Fine(Table(rows, b))
  <1>1. \A b1, b2 \in BarePackets : Fine(<<b1>>) /\ Fine(<<b1, b2>>)
    BY DEF Fine
  <1>2. ASSUME NEW ps, NEW qs, Fine(ps), Fine(qs) PROVE Fine(ps \o qs)
    <2>1. /\ ps \o qs \in Seq(BarePackets) /\ Len(ps \o qs) = Len(ps) + Len(qs)
          /\ Len(ps) \in Nat \ {0} /\ Len(qs) \in Nat \ {0}
      BY <1>2, Joined DEF Fine
    <2>2. Len(ps \o qs) \in Nat \ {0}
      BY <2>1
    <2> QED
      BY <2>1, <2>2 DEF Fine
  <1>3. ASSUME NEW rows \in Nat, NEW b \in BarePackets PROVE Fine(Table(rows, b))
    <2>1. Table(rows, b) \in Seq(BarePackets) /\ Len(Table(rows, b)) = rows + 4
      BY TableBare
    <2>2. rows + 4 \in Nat \ {0}
      OBVIOUS
    <2> QED
      BY <2>1, <2>2 DEF Fine
  <1> QED
    BY <1>1, <1>2, <1>3

LEMMA TablesFine ==
    ASSUME NEW table \in Tables \cup FirstTables
    PROVE  Fine(table)
  <1>1. Packet("eof") \in BarePackets /\ More(Packet("eof")) \in BarePackets
    BY Bare DEF Kinds
  <1>2. \A rows \in RowCounts : rows \in Nat
    BY RowCountsAssumption
  <1> QED
    BY <1>1, <1>2, FineSequences DEF Tables, FirstTables

LEMMA AnswersFine ==
    ASSUME NEW kind \in Requests \ {"none"}, NEW answer \in Answers(kind)
    PROVE  Fine(answer)
  <1>1. /\ Packet("err") \in BarePackets /\ Packet("eof") \in BarePackets
        /\ Packet("oldProtocol") \in BarePackets /\ Packet("handshake") \in BarePackets
        /\ Packet("switch") \in BarePackets
    BY Bare DEF Kinds
  <1>2. /\ More(Ok) \in BarePackets /\ Ok \in BarePackets
        /\ [Ok EXCEPT !.warned = TRUE] \in BarePackets
    BY Bare
  <1>3. \A ps \in Statement : Fine(ps)
    BY <1>1, <1>2, FineSequences DEF Statement
  <1>4. CASE kind = "connect"
    <2>1. \A ssl \in {"ssl", "plain"} : [Packet("handshake") EXCEPT !.what = ssl] \in BarePackets
      BY <1>1, Bare DEF Whats
    <2>2. Answers(kind) =
              {<<Packet("oldProtocol")>>, <<Packet("err")>>}
              \cup {<<[Packet("handshake") EXCEPT !.what = ssl]>> : ssl \in {"ssl", "plain"}}
      BY <1>4 DEF Answers
    <2> QED
      BY <1>1, <2>1, <2>2, FineSequences
  <1>5. CASE kind \in {"auth", "switch"}
    <2>1. \A plugin \in Plugins : [Packet("switch") EXCEPT !.what = plugin] \in BarePackets
      BY <1>1, Bare DEF Whats
    <2>2. Answers(kind) = {<<Ok>>, <<Packet("err")>>}
                          \cup {<<[Packet("switch") EXCEPT !.what = plugin]>> : plugin \in Plugins}
      BY <1>5 DEF Answers
    <2> QED
      BY <1>1, <1>2, <2>1, <2>2, FineSequences
  <1>6. CASE kind \in {"var", "warnings"}
    <2>1. answer \in Tables \cup {Table(1, Packet("eof")), <<Packet("err")>>}
      BY <1>6 DEF Answers
    <2> QED
      BY <1>1, <2>1, FineSequences, TablesFine
  <1>7. CASE kind = "set"
    <2>1. Answers(kind) = Statement
      BY <1>7 DEF Answers
    <2> QED
      BY <1>3, <2>1
  <1>8. CASE kind = "exec"
    <2>1. Answers(kind) = Statement \cup Several \cup Tables
      BY <1>8 DEF Answers
    <2>2. Fine(<<Ok>>) /\ Fine(<<More(Ok)>>)
      BY <1>2, FineSequences
    <2>3. ASSUME NEW table \in Tables PROVE Fine(<<More(Ok)>> \o table)
      BY <2>2, FineSequences, TablesFine
    <2>4. ASSUME NEW table \in FirstTables
          PROVE  Fine(table \o <<Ok>>) /\ Fine(<<More(Ok)>> \o table \o <<Ok>>)
      BY <2>2, FineSequences, TablesFine
    <2>5. \A ps \in Several : Fine(ps)
      BY <1>1, <1>2, <2>3, <2>4, FineSequences DEF Several
    <2> QED
      BY <1>3, <2>1, <2>5, TablesFine
  <1> QED
    BY <1>4, <1>5, <1>6, <1>7, <1>8 DEF Requests

LEMMA SentTyped ==
    ASSUME Typed, request # NoRequest, NEW answer \in Answers(request.kind)
    PROVE  /\ Fine(answer) /\ Sent(answer) \in Seq(Packets) /\ Len(Sent(answer)) = Len(answer)
           /\ \A n \in 1 .. Len(answer) :
                  /\ Sent(answer)[n].kind = answer[n].kind
                  /\ Sent(answer)[n].more = answer[n].more
                  /\ Sent(answer)[n].warned = answer[n].warned
                  /\ Sent(answer)[n].seq = (request.seq + n) % SeqMod
                  /\ Sent(answer)[n].to = commands /\ Sent(answer)[n].layer = security
  <1>1. request.kind \in Requests \ {"none"} /\ request.seq \in Numbers
    BY AskedFields DEF Typed, LinkTyped
  <1>2. Fine(answer)
    BY <1>1, AnswersFine
  <1>3. Len(answer) \in Nat /\ Sent(answer) = [n \in 1 .. Len(answer) |-> Sent(answer)[n]]
    BY <1>2 DEF Fine, Sent
  <1>4. ASSUME NEW n \in 1 .. Len(answer)
        PROVE  /\ Sent(answer)[n] \in Packets
               /\ Sent(answer)[n].kind = answer[n].kind
               /\ Sent(answer)[n].more = answer[n].more
               /\ Sent(answer)[n].warned = answer[n].warned
               /\ Sent(answer)[n].seq = (request.seq + n) % SeqMod
               /\ Sent(answer)[n].to = commands /\ Sent(answer)[n].layer = security
    <2>1. answer[n] \in BarePackets
      BY <1>2 DEF Fine
    <2>2. (request.seq + n) % SeqMod \in Numbers
      BY <1>1, <1>3, SeqModAssumption DEF Numbers
    <2>3. commands \in Nat /\ security \in Layers
      BY DEF Typed, CountsTyped, LinkTyped
    <2>4. Sent(answer)[n] =
              [kind |-> answer[n].kind, what |-> answer[n].what, more |-> answer[n].more,
               warned |-> answer[n].warned, seq |-> (request.seq + n) % SeqMod,
               to |-> commands, layer |-> security]
      BY DEF Sent
    <2>5. /\ answer[n].kind \in Kinds /\ answer[n].what \in Whats /\ answer[n].more \in BOOLEAN
          /\ answer[n].warned \in BOOLEAN
      BY <2>1 DEF BarePackets
    <2>6. Sent(answer)[n] \in Packets
      BY <2>2, <2>3, <2>4, <2>5 DEF Packets
    <2> QED
      BY <2>4, <2>6
  <1>5. Sent(answer) \in Seq(Packets) /\ Len(Sent(answer)) = Len(answer)
    BY <1>3, <1>4
  <1> QED
    BY <1>2, <1>4, <1>5

LEMMA ReplyTyped ==
    ASSUME Typed, Working, Reply
    PROVE  Typed' /\ Working'
  <1>1. /\ OutcomeTyped' /\ StatusTyped' /\ CountsTyped' /\ FlagsTyped' /\ config' \in Configs
        /\ config' = config /\ Working'
    BY StaysTyped, StepsWork DEF Typed, Reply
  <1>2. PICK answer \in Answers(request.kind) :
            /\ wire' = wire \o Sent(answer)
            /\ wrapped' = (wrapped \/ (request.kind = "exec" /\ Len(answer) > SeqMod))
            /\ \/ UNCHANGED assigned
               \/ /\ request.kind = "set" /\ request.var # "charset"
                  /\ assigned' = assigned \cup {request.var}
    BY DEF Reply
  <1>3. wire' \in Seq(Packets)
    <2>1. wire \in Seq(Packets) /\ Sent(answer) \in Seq(Packets)
      BY SentTyped DEF Typed, LinkTyped, Reply
    <2> QED
      BY <1>2, <2>1, Joined
  <1>4. assigned' \subseteq config'.vars
    <2>1. request.kind = "set" => request.var \in config.vars \cup {"charset"}
      BY AskedFields DEF Typed, LinkTyped
    <2> QED
      BY <1>1, <1>2, <2>1 DEF Typed, LinkTyped
  <1>5. LinkTyped'
    BY <1>1, <1>2, <1>3, <1>4 DEF Typed, LinkTyped, Reply, Asked
  <1> QED
    BY <1>1, <1>5 DEF Typed

LEMMA StatementsTyped ==
    ASSUME config \in Configs, NEW param \in config.vars \cup {"charset"}
    PROVE  Statements(param) \in Seq(Settings(config))
  <1> DEFINE values == IF param = "charset" THEN config.charsets ELSE <<"given">>
  <1>1. config.charsets \in Seq(STRING)
    BY ConfigsAssumption, Zenon
  <1>2. values \in Seq(Values)
    <2>1. CASE param = "charset"
      BY <1>1, <2>1 DEF Values
    <2>2. CASE param # "charset"
      <3>1. \A text \in Values : <<text>> \in Seq(Values)
        OBVIOUS
      <3> QED
        BY <2>2, <3>1 DEF Values
    <2> QED
      BY <2>1, <2>2
  <1> HIDE DEF values
  <1>3. Len(values) \in Nat
    BY <1>2
  <1>4. ASSUME NEW n \in 1 .. Len(values)
        PROVE  [var |-> param, value |-> values[n]] \in Settings(config)
    BY <1>2 DEF Settings
  <1>5. [n \in 1 .. Len(values) |-> [var |-> param, value |-> values[n]]] \in Seq(Settings(config))
    BY <1>3, <1>4
  <1> QED
    BY <1>5 DEF Statements, values

LEMMA NextTyped == Typed /\ Working /\ [Next]_vars => Typed' /\ Working'
  <1> SUFFICES ASSUME Typed, Working, [Next]_vars PROVE Typed' /\ Working'
    OBVIOUS
  <1>1. /\ config \in Configs /\ OutcomeTyped /\ StatusTyped /\ LinkTyped /\ CountsTyped
        /\ FlagsTyped
    BY DEF Typed
  <1>2. ASSUME UNCHANGED <<config, status, link, request, wire, layer, server, sequence, execs,
                           commands, panicked, mixed>>,
               OutcomeTyped'
        PROVE  Typed'
    BY <1>1, <1>2, StaysTyped DEF Typed
  <1>3. ASSUME UNCHANGED local, UNCHANGED status \/ (warned' = "no" /\ UNCHANGED more),
               NEW kind, NEW statement, NEW number \in Numbers,
               NEW newTask \in Asking, NEW read \in Reads,
               Writes(kind, statement, number, newTask, read),
               [kind |-> kind, seq |-> number, var |-> statement.var, value |-> statement.value]
                   \in Asked(config)
        PROVE  Typed' /\ Working'
    <2>1. newTask \in Tasks
      BY DEF Asking, Tasks
    <2>2. OutcomeTyped' /\ LinkTyped' /\ FlagsTyped' /\ sequence' \in Numbers /\ commands' \in Nat
      BY <1>3, <2>1, WritesTyped DEF local
    <2>3. CountsTyped' /\ config' \in Configs
      BY <1>1, <1>3, <2>2 DEF CountsTyped, local
    <2>4. StatusTyped'
      BY <1>1, <1>3 DEF StatusTyped, status
    <2> QED
      BY <1>3, <2>2, <2>3, <2>4, StepsWork DEF Typed
  <1>4. \A kind \in {"auth", "switch", "var", "warnings", "exec"}, number \in Numbers :
            [kind |-> kind, seq |-> number, var |-> NoStatement.var, value |-> NoStatement.value]
                \in Asked(config)
    BY DEF Asked, Questions, NoStatement
  <1>5. sequence \in Numbers /\ 0 \in Numbers
    BY <1>1, SeqModAssumption DEF CountsTyped, Numbers
  <1>6. CASE ReadFails \/ OutOfSync \/ UnknownCollation
    BY <1>1, <1>2, <1>6, FailsTyped, StepsWork DEF ReadFails, OutOfSync, UnknownCollation, local
  <1>7. CASE \/ ReadInitPacket \/ ReadResultOK \/ ReadResultSetHeader
             \/ ReadUntilEOF \/ ReadValue \/ ReadWarnings
    BY <1>7, ReadsTyped
  <1>8. CASE Dial
    <2>1. OutcomeTyped'
      BY <1>1, <1>8 DEF Dial, OutcomeTyped, Tasks, Reads, Closes, local, params
    <2>2. SeqMod - 1 \in Numbers
      BY SeqModAssumption DEF Numbers
    <2>3. request' \in Asked(config)
      BY <1>1, <1>8, <2>2 DEF Dial, LinkTyped, Asked, Greetings
    <2>4. LinkTyped'
      BY <1>1, <1>8, <2>3 DEF Dial, LinkTyped, local, server
    <2>5. StatusTyped' /\ CountsTyped' /\ FlagsTyped' /\ config' \in Configs
      BY <1>1, <1>8, StaysTyped DEF Dial, local
    <2>6. Working'
      BY <1>8 DEF Dial, Working, Asking
    <2> QED
      BY <2>1, <2>4, <2>5, <2>6 DEF Typed
  <1>9. CASE SwitchToTLS
    <2>1. OutcomeTyped' /\ Working'
      BY <1>1, <1>9, FailsTyped, StaysTyped, StepsWork DEF SwitchToTLS, local
    <2>2. LinkTyped'
      BY <1>1, <1>9 DEF SwitchToTLS, LinkTyped, local, server, Layers
    <2>3. StatusTyped' /\ FlagsTyped'
      BY <1>1, <1>9, StaysTyped DEF SwitchToTLS
    <2>4. sequence \in Nat
      BY <1>5, SeqModAssumption DEF Numbers
    <2>5. sequence' \in Numbers
      BY <1>5, <1>9, <2>4, NextSequenceTyped DEF SwitchToTLS
    <2>6. CountsTyped' /\ config' \in Configs
      BY <1>1, <1>9, <2>5 DEF SwitchToTLS, CountsTyped, local
    <2> QED
      BY <2>1, <2>2, <2>3, <2>6 DEF Typed
  <1>10. CASE WriteAuthPacket \/ WriteOtherAuthPacket \/ ShowWarnings
    <2>1. CASE WriteAuthPacket
      <3>1. "auth" \in Asking /\ "authResult" \in Reads
        BY DEF Asking, Reads
      <3>2. /\ UNCHANGED local /\ UNCHANGED status
            /\ Writes("auth", NoStatement, sequence, "auth", "authResult")
        BY <2>1 DEF WriteAuthPacket
      <3> QED
        BY <1>3, <1>4, <1>5, <3>1, <3>2
    <2>2. CASE WriteOtherAuthPacket
      <3>1. "retry" \in Asking /\ "authResult" \in Reads
        BY DEF Asking, Reads
      <3>2. /\ UNCHANGED local /\ UNCHANGED status
            /\ Writes("switch", NoStatement, sequence, "retry", "authResult")
        BY <2>2 DEF WriteOtherAuthPacket
      <3> QED
        BY <1>3, <1>4, <1>5, <3>1, <3>2
    <2>3. CASE ShowWarnings
      <3>1. task \in Asking /\ "warnHeader" \in Reads
        BY <2>3 DEF ShowWarnings, Working, Reads
      <3>2. /\ UNCHANGED local /\ UNCHANGED status
            /\ Writes("warnings", NoStatement, 0, task, "warnHeader")
        BY <2>3 DEF ShowWarnings
      <3> QED
        BY <1>3, <1>4, <1>5, <3>1, <3>2
    <2> QED
      BY <1>10, <2>1, <2>2, <2>3
  <1>11. CASE GetSystemVar
    BY <1>3, <1>4, <1>5, <1>11 DEF GetSystemVar, Commands, Asking, Reads
  <1>12. CASE ExecParam
    <2>1. Head(trying) \in Settings(config)
      BY <1>1, <1>12 DEF OutcomeTyped, ExecParam
    <2>2. [kind |-> "set", seq |-> 0, var |-> Head(trying).var, value |-> Head(trying).value]
              \in Asked(config)
      BY <1>5, <2>1 DEF Settings, Asked, Assignments
    <2> QED
      BY <1>3, <1>5, <1>12, <2>2 DEF ExecParam, Commands, Asking, Reads
  <1>13. CASE Exec
    <2>1. /\ UNCHANGED config /\ Writes("exec", NoStatement, 0, "exec", "header")
          /\ warned' = "no" /\ UNCHANGED more
          /\ execs < MaxExecs /\ execs' = execs + 1
      BY <1>13 DEF Exec, Commands
    <2>2. "exec" \in Tasks /\ "header" \in Reads /\ "exec" \in Asking
      BY DEF Tasks, Reads, Asking
    <2>3. OutcomeTyped' /\ LinkTyped' /\ FlagsTyped' /\ sequence' \in Numbers /\ commands' \in Nat
      BY <1>4, <1>5, <2>1, <2>2, WritesTyped
    <2>4. CountsTyped' /\ config' \in Configs
      BY <1>1, <2>1, <2>3, MaxExecsAssumption DEF CountsTyped
    <2>5. StatusTyped'
      BY <1>1, <2>1 DEF StatusTyped
    <2> QED
      BY <2>1, <2>2, <2>3, <2>4, <2>5, StepsWork DEF Typed
  <1>14. CASE NextParam
    <2>1. PICK param \in todo : todo' = todo \ {param} /\ trying' = Statements(param)
      BY <1>14 DEF NextParam
    <2>2. trying' \in Seq(Settings(config)) /\ todo' \subseteq config.vars \cup {"charset"}
      BY <1>1, <2>1, StatementsTyped DEF OutcomeTyped
    <2>3. OutcomeTyped' /\ Working'
      BY <1>1, <1>14, <2>2 DEF NextParam, OutcomeTyped, Working, local, socket
    <2> QED
      BY <1>2, <1>14, <2>3 DEF NextParam, local
  <1>15. CASE Connected \/ Close
    <2>1. OutcomeTyped'
      BY <1>1, <1>15 DEF Connected, Close, Closes, OutcomeTyped, Tasks, params, socket, local
    <2>2. Working'
      BY <1>15 DEF Connected, Close, Working, Asking
    <2> QED
      BY <1>2, <1>15, <2>1, <2>2 DEF Connected, Close, local
  <1>16. CASE Reply
    BY <1>16, ReplyTyped
  <1>17. CASE LinkFails
    <2>1. OutcomeTyped' /\ StatusTyped' /\ CountsTyped' /\ FlagsTyped' /\ Working'
          /\ config' \in Configs
      BY <1>1, <1>17, StaysTyped, StepsWork DEF LinkFails
    <2>2. LinkTyped'
      BY <1>1, <1>17 DEF LinkFails, LinkTyped, server
    <2> QED
      BY <2>1, <2>2 DEF Typed
  <1>18. CASE Finished \/ UNCHANGED vars
    BY <1>1, <1>2, <1>18, StaysTyped, StepsWork DEF Finished, vars
  <1> QED
    BY <1>6, <1>7, <1>8, <1>9, <1>10, <1>11, <1>12, <1>13, <1>14, <1>15, <1>16, <1>17, <1>18
       DEF Next, Goroutine

(* The variables of the connection, the packets on the wire, the request   *)
(* that the server has not answered and the statements still to try keep   *)
(* their types.                                                            *)
THEOREM TypeOKHolds == SafeSpec => []TypeOK
  <1>1. Init => Working
    BY DEF Init, Working
  <1> QED
    BY <1>1, InitTyped, NextTyped, TypedImpliesTypeOK, PTL DEF SafeSpec

-----------------------------------------------------------------------------
(* The conversation.                                                       *)

(* The numbers up to three, which the packets of the authentication have,  *)
(* are different. In the code the modulus is 256.                          *)
Wide == SeqMod > 3

(* What job and result, the pending statements and the socket have to do   *)
(* with each other.                                                        *)
Flow ==
    /\ task \in {"dial", "handshake", "auth", "retry", "var", "params"} => result = "none"
    /\ task \in {"ready", "exec"} => result = "connected"
    /\ task \notin {"params", "ended"} => trying = <<>>
    /\ task = "params" /\ await # "nothing" => trying # <<>>
    /\ task \in {"dial", "ended"} => ~netConn
    /\ task \notin {"dial", "ended"} /\ ~netConn
           => task = "params" /\ await = "nothing" /\ trying # <<>>
    /\ open => netConn
    /\ await = "handshake" <=> task = "handshake"
    /\ task = "exec" => execs > 0

(* The server may send this packet when this read waits for it in this     *)
(* task, and the code comes to the next read.                              *)
Follows(job, read, sent, next) ==
    \/ read = "handshake" /\ next = "nothing"
    \/ /\ read = "authResult" /\ next = "nothing"
       /\ sent.kind = "ok" => ~sent.more /\ ~sent.warned
    \/ read \in {"header", "moreHeader", "warnHeader"} /\ sent.kind = "err" /\ next = "nothing"
    \/ /\ read \in {"header", "moreHeader"} /\ sent.kind = "ok" /\ job \in {"params", "exec"}
       /\ IF sent.more THEN job = "exec" /\ next = "moreHeader" ELSE next = "nothing"
    \/ read = "header" /\ sent.kind = "header" /\ job # "params" /\ next = "columns"
    \/ read = "moreHeader" /\ sent.kind = "header" /\ next = "moreColumns"
    \/ read = "warnHeader" /\ sent.kind = "header" /\ next = "warnColumns"
    \/ read \in {"columns", "moreColumns", "warnColumns"} /\ sent.kind = "column" /\ next = read
    \/ read = "columns" /\ sent.kind = "eof" /\ next = IF job = "var" THEN "value" ELSE "rows"
    \/ read = "moreColumns" /\ sent.kind = "eof" /\ next = "moreRows"
    \/ read = "warnColumns" /\ sent.kind = "eof" /\ next = "warnRows"
    \/ read = "value" /\ sent.kind = "row" /\ next = "rest"
    \/ read \in {"rows", "moreRows", "warnRows"} /\ sent.kind = "row" /\ next = read
    \/ /\ read = "rows" /\ sent.kind = "eof" /\ job = "exec"
       /\ next = IF sent.more THEN "left" ELSE "nothing"
    \/ /\ read = "moreRows" /\ sent.kind = "eof"
       /\ next = IF sent.more THEN "moreHeader" ELSE "nothing"
    \/ read \in {"rest", "warnRows"} /\ sent.kind = "eof" /\ ~sent.more /\ next = "nothing"
    \/ read = "left" /\ sent.kind = "ok" /\ next = "nothing"

(* These packets are what the read and those after it wait for, and the    *)
(* answer ends with them.                                                  *)
Answered(job, read, packets) ==
    \E reads \in Seq(Reads \cup {"left"}) :
        /\ Len(reads) = Len(packets) + 1
        /\ reads[1] = read /\ reads[Len(packets) + 1] = "nothing"
        /\ \A n \in 1 .. Len(packets) :
               reads[n] # "nothing" /\ Follows(job, reads[n], packets[n], reads[n + 1])

(* Those of a statement's first result.                                    *)
FirstReads == {"header", "columns", "rows"}

(* The packets are numbered in a row, the first with this number; while    *)
(* exec reads the first result, the numbers do not come round.             *)
Numbered(job, read, number, packets) ==
    \E base \in Nat :
        /\ number = (base + 1) % SeqMod
        /\ \A n \in 1 .. Len(packets) : packets[n].seq = (base + n) % SeqMod
        /\ job = "exec" /\ read \in FirstReads => base + Len(packets) <= SeqMod

(* The read that waits for the answer to a request.                        *)
AsksFor(kind) ==
    /\ kind = "connect" => await = "handshake"
    /\ kind \in {"auth", "switch"} => await = "authResult"
    /\ kind = "var" => task = "var" /\ await = "header"
    /\ kind = "set" => task = "params" /\ await = "header"
    /\ kind = "exec" => task = "exec" /\ await = "header"
    /\ kind = "warnings" => await = "warnHeader"

Quiet == wire = <<>> /\ request = NoRequest

Pending ==
    /\ request # NoRequest /\ wire = <<>> /\ AsksFor(request.kind)
    /\ sequence = (request.seq + 1) % SeqMod
    /\ task = "exec" => request.seq = 0

Arriving ==
    /\ request = NoRequest /\ wire # <<>>
    /\ Answered(task, await, wire) /\ Numbered(task, await, sequence, wire)
    /\ \A n \in 1 .. Len(wire) : wire[n].to = commands /\ wire[n].layer = "raw"

(* The further results of a procedure, between two statements and when the *)
(* next one has been written.                                              *)
LeftOver ==
    /\ task = "ready" /\ execs > 0
    /\ request = NoRequest /\ wire # <<>> /\ Number(Head(wire)) # 1 % SeqMod

Stuck == task = "exec" /\ await = "header" /\ wire # <<>> /\ Number(Head(wire)) # sequence

(* Under TLS, the one answer that is waited for cannot be read.            *)
Veiled ==
    /\ task = "auth" /\ config.tls
    /\ \/ await = "nothing" /\ Quiet /\ sequence = 2
       \/ /\ await = "authResult" /\ sequence = 3 /\ request.kind # "exec"
          /\ \A n \in 1 .. Len(wire) : wire[n].layer = "tls"

Conversation ==
    /\ layer = security
    /\ task \in {"dial", "handshake"} => layer = "raw"
    /\ task \in {"dial", "handshake"} => sequence = 0
    /\ task = "auth" /\ await = "nothing" /\ layer = "raw" => sequence = 1
    /\ netConn => IF layer = "tls" THEN Veiled
                  ELSE Quiet \/ Pending \/ Arriving \/ LeftOver \/ Stuck
    /\ task = "dial" => Quiet

InSyncUnlessTLS == why = "sync" => config.tls \/ result = "connected"

(* The invariant of ReadsOwnAnswer, NothingLeft and ConnectsInSync.        *)
Talk == Typed /\ Working /\ Flow /\ Conversation /\ ~mixed /\ InSyncUnlessTLS

-----------------------------------------------------------------------------
(* Reading the next packet of an answer.                                   *)

LEMMA Division ==
    ASSUME NEW m \in Nat \ {0}, NEW r \in Nat
    PROVE  /\ r = m * (r \div m) + (r % m)
           /\ r \div m \in Nat /\ r % m \in 0 .. m - 1
  OBVIOUS

LEMMA NextMultiple ==
    ASSUME NEW m \in Nat, NEW a \in Nat, NEW b \in Nat, a < b
    PROVE  m * a + m <= m * b
  <1>1. b >= a + 1
    OBVIOUS
  <1>2. m * b >= m * (a + 1)
    BY <1>1
  <1> QED
    BY <1>2

LEMMA Remainder ==
    ASSUME NEW m \in Nat \ {0}, NEW q \in Nat, NEW s \in 0 .. m - 1
    PROVE  (m * q + s) % m = s
  <1> DEFINE n == m * q + s
             Q == n \div m
             S == n % m
  <1>1. m * q \in Nat /\ n \in Nat
    OBVIOUS
  <1>2. n = m * Q + S /\ Q \in Nat /\ S \in 0 .. m - 1
    BY <1>1, Division
  <1>3. m * Q \in Nat
    BY <1>2
  <1>4. ~(q < Q) /\ ~(Q < q)
    BY <1>1, <1>2, <1>3, NextMultiple
  <1>5. Q = q
    BY <1>2, <1>4
  <1> HIDE DEF Q, S, n
  <1>6. n = m * q + S
    BY <1>2, <1>5
  <1> QED
    BY <1>1, <1>2, <1>6 DEF n, S

(* Counting one packet modulo SeqMod is counting it and reducing then.     *)
LEMMA NextNumber ==
    ASSUME NEW n \in Nat
    PROVE  NextSequence(n % SeqMod) = (n + 1) % SeqMod
  <1> DEFINE q == n \div SeqMod
             s == n % SeqMod
  <1>0. SeqMod \in Nat \ {0}
    BY SeqModAssumption
  <1>1. n = SeqMod * q + s /\ q \in Nat /\ s \in 0 .. SeqMod - 1
    BY <1>0, Division
  <1>2. SUFFICES (s + 1) % SeqMod = (n + 1) % SeqMod
    BY DEF NextSequence
  <1> HIDE DEF q, s
  <1>3. SeqMod * q \in Nat
    BY <1>0, <1>1
  <1>4. CASE s + 1 < SeqMod
    <2>1. s + 1 \in 0 .. SeqMod - 1
      BY <1>0, <1>1, <1>4
    <2>2. (SeqMod * q + (s + 1)) % SeqMod = s + 1
      BY <1>0, <1>1, <2>1, Remainder
    <2>3. (SeqMod * 0 + (s + 1)) % SeqMod = s + 1
      BY <1>0, <2>1, Remainder
    <2>4. SeqMod * q + (s + 1) = n + 1 /\ SeqMod * 0 + (s + 1) = s + 1
      BY <1>0, <1>1, <1>3
    <2> QED
      BY <2>2, <2>3, <2>4
  <1>5. CASE s + 1 = SeqMod
    <2>1. (SeqMod * (q + 1) + 0) % SeqMod = 0
      BY <1>0, <1>1, Remainder
    <2>2. (SeqMod * 1 + 0) % SeqMod = 0
      BY <1>0, Remainder
    <2>3. SeqMod * (q + 1) + 0 = n + 1 /\ SeqMod * 1 + 0 = s + 1
      BY <1>0, <1>1, <1>3, <1>5
    <2> QED
      BY <2>1, <2>2, <2>3
  <1> QED
    BY <1>0, <1>1, <1>4, <1>5

LEMMA Small ==
    ASSUME Wide, NEW n \in 0 .. 3
    PROVE  n % SeqMod = n
  BY SeqModAssumption DEF Wide

LEMMA FurtherNumber ==
    ASSUME Wide, NEW n \in 2 .. SeqMod
    PROVE  n % SeqMod # 1
  BY SeqModAssumption DEF Wide

LEMMA FollowsRead ==
    ASSUME NEW job, NEW read, NEW sent, NEW next, Follows(job, read, sent, next)
    PROVE  read # "showWarnings" /\ next # "handshake"
  BY DEF Follows

(* What a packet of an answer leaves to be read.                           *)
LEMMA TakesOne ==
    ASSUME Typed, Wide, Arriving, wire' = Tail(wire), sequence' = NextSequence(sequence),
           UNCHANGED <<request, commands>>
    PROVE  /\ Head(wire).to = commands
           /\ \E next \in Reads \cup {"left"} :
                  /\ Follows(task, await, Head(wire), next)
                  /\ next = "nothing" => Quiet'
                  /\ task' = task /\ await' = next /\ next # "nothing" => Arriving'
                  /\ next = "left" /\ task = "exec"
                         => /\ wire' # <<>> /\ request' = NoRequest
                            /\ Number(Head(wire')) # 1 % SeqMod
  <1>1. PICK reads \in Seq(Reads \cup {"left"}) :
            /\ Len(reads) = Len(wire) + 1
            /\ reads[1] = await /\ reads[Len(wire) + 1] = "nothing"
            /\ \A n \in 1 .. Len(wire) :
                   reads[n] # "nothing" /\ Follows(task, reads[n], wire[n], reads[n + 1])
    BY DEF Arriving, Answered
  <1>2. PICK base \in Nat :
            /\ sequence = (base + 1) % SeqMod
            /\ \A n \in 1 .. Len(wire) : wire[n].seq = (base + n) % SeqMod
            /\ task = "exec" /\ await \in FirstReads => base + Len(wire) <= SeqMod
    BY DEF Arriving, Numbered
  <1>3. wire \in Seq(Packets) /\ wire # <<>> /\ request = NoRequest
    BY DEF Typed, LinkTyped, Arriving
  <1>4. /\ Len(wire) \in Nat \ {0} /\ Head(wire) = wire[1] /\ Tail(wire) \in Seq(Packets)
        /\ Len(Tail(wire)) = Len(wire) - 1
        /\ \A n \in 1 .. Len(Tail(wire)) : Tail(wire)[n] = wire[n + 1]
    BY <1>3
  <1>5. /\ Tail(reads) \in Seq(Reads \cup {"left"}) /\ Len(Tail(reads)) = Len(wire)
        /\ \A n \in 1 .. Len(wire) : Tail(reads)[n] = reads[n + 1]
        /\ reads[2] \in Reads \cup {"left"}
    BY <1>1, <1>4
  <1> DEFINE next == reads[2]
  <1>6. Head(wire).to = commands /\ Follows(task, await, Head(wire), next)
    BY <1>1, <1>4 DEF Arriving
  <1>7. ASSUME next = "nothing" PROVE Quiet'
    <2>1. Len(wire) = 1
      BY <1>1, <1>4, <1>7
    <2>2. Tail(wire) = <<>>
      BY <1>3, <2>1
    <2> QED
      BY <1>3, <2>2 DEF Quiet
  <1>8. ASSUME next # "nothing" PROVE Len(wire) > 1 /\ Tail(wire) # <<>>
    <2>1. Len(wire) # 1
      <3>1. SUFFICES ASSUME Len(wire) = 1 PROVE FALSE
        OBVIOUS
      <3>2. reads[Len(wire) + 1] = reads[2]
        BY <3>1
      <3> QED
        BY <1>1, <1>8, <3>2
    <2>2. Len(wire) > 1 /\ Len(Tail(wire)) # 0
      BY <1>4, <2>1
    <2> QED
      BY <2>2
  <1>9. sequence' = (base + 1 + 1) % SeqMod
    BY <1>2, NextNumber
  <1>10. ASSUME task' = task, await' = next, next # "nothing" PROVE Arriving'
    <2>1. Answered(task', await', wire')
      <3>1. /\ Len(Tail(reads)) = Len(wire') + 1
            /\ Tail(reads)[1] = await' /\ Tail(reads)[Len(wire') + 1] = "nothing"
        BY <1>1, <1>4, <1>5, <1>10
      <3>2. ASSUME NEW n \in 1 .. Len(wire')
            PROVE  /\ Tail(reads)[n] # "nothing"
                   /\ Follows(task', Tail(reads)[n], wire'[n], Tail(reads)[n + 1])
        BY <1>1, <1>4, <1>5, <1>10
      <3> QED
        BY <1>5, <3>1, <3>2 DEF Answered
    <2>2. Numbered(task', await', sequence', wire')
      <3>1. \A n \in 1 .. Len(wire') : wire'[n].seq = (base + 1 + n) % SeqMod
        <4>1. SUFFICES ASSUME NEW n \in 1 .. Len(wire')
                       PROVE  wire'[n].seq = (base + 1 + n) % SeqMod
          OBVIOUS
        <4>2. n + 1 \in 1 .. Len(wire) /\ base + (n + 1) = base + 1 + n
          BY <1>4
        <4> QED
          BY <1>2, <1>4, <4>2
      <3>2. task' = "exec" /\ await' \in FirstReads => base + 1 + Len(wire') <= SeqMod
        <4>1. await' \in FirstReads => await \in FirstReads
          BY <1>6, <1>10 DEF Follows, FirstReads
        <4> QED
          BY <1>2, <1>4, <1>10, <4>1, SeqModAssumption
      <3>3. PICK following \in Nat : following = base + 1
        OBVIOUS
      <3>4. sequence' = (following + 1) % SeqMod
        BY <1>9, <3>3
      <3>5. \A n \in 1 .. Len(wire') : wire'[n].seq = (following + n) % SeqMod
        BY <3>1, <3>3
      <3>6. task' = "exec" /\ await' \in FirstReads => following + Len(wire') <= SeqMod
        BY <3>2, <3>3
      <3> QED
        BY <3>4, <3>5, <3>6 DEF Numbered
    <2>3. \A n \in 1 .. Len(wire') : wire'[n].to = commands' /\ wire'[n].layer = "raw"
      BY <1>4 DEF Arriving
    <2>4. request' = NoRequest /\ wire' # <<>>
      BY <1>3, <1>8, <1>10
    <2> QED
      BY <2>1, <2>2, <2>3, <2>4 DEF Arriving
  <1>11. ASSUME next = "left", task = "exec"
         PROVE  wire' # <<>> /\ request' = NoRequest /\ Number(Head(wire')) # 1 % SeqMod
    <2>1. Len(wire) > 1 /\ Tail(wire) # <<>>
      BY <1>8, <1>11
    <2>2. Head(wire') = wire[2] /\ wire[2].seq = (base + 2) % SeqMod /\ wire[2].layer = "raw"
      BY <1>2, <1>4, <2>1 DEF Arriving
    <2>3. base + 2 \in 2 .. SeqMod
      <3>1. await \in FirstReads
        BY <1>6, <1>11 DEF Follows, FirstReads
      <3> QED
        BY <1>2, <1>4, <1>11, <2>1, <3>1, SeqModAssumption
    <2>4. 1 % SeqMod = 1
      BY Small
    <2> QED
      BY <1>3, <2>1, <2>2, <2>3, <2>4, FurtherNumber DEF Number
  <1> QED
    BY <1>5, <1>6, <1>7, <1>10, <1>11

(* A packet that is read is one of the answer that is waited for.          *)
LEMMA Received ==
    ASSUME Talk, Wide, NEW reads, Receives(reads)
    PROVE  /\ netConn /\ layer = "raw" /\ await \in reads
           /\ await = "handshake" \/ task \in Asking
           /\ await \notin {"nothing", "showWarnings"}
           /\ Arriving /\ ~mixed'
           /\ UNCHANGED <<config, execs, layer, security>>
           /\ wire' = Tail(wire) /\ sequence' = NextSequence(sequence)
           /\ UNCHANGED <<request, commands>>
  <1>1. /\ netConn /\ await \in reads /\ await \notin {"nothing", "showWarnings"} /\ wire # <<>>
        /\ Number(Head(wire)) = sequence
    BY DEF Receives, Waits, InSync
  <1>2. await = "handshake" \/ task \in Asking
    BY <1>1 DEF Talk, Working
  <1>3. layer = "raw"
    <2>1. SUFFICES ASSUME layer # "raw" PROVE FALSE
      OBVIOUS
    <2>2. layer = "tls"
      BY <2>1 DEF Talk, Typed, LinkTyped, Layers
    <2>3. sequence = 3 /\ \A n \in 1 .. Len(wire) : wire[n].layer = "tls"
      BY <1>1, <2>2 DEF Talk, Conversation, Veiled
    <2>4. 1 \in 1 .. Len(wire) /\ Head(wire) = wire[1]
      BY <1>1 DEF Talk, Typed, LinkTyped
    <2> QED
      BY <1>1, <2>3, <2>4 DEF Number
  <1>4. task # "ready"
    BY <1>2 DEF Talk, Flow, Asking
  <1>5. Arriving
    BY <1>1, <1>3, <1>4 DEF Talk, Conversation, Quiet, Pending, LeftOver, Stuck
  <1>6. Head(wire).to = commands
    BY <1>5, TakesOne DEF Talk, Receives
  <1>7. ~mixed'
    BY <1>6 DEF Receives, Talk
  <1> QED
    BY <1>1, <1>2, <1>3, <1>5, <1>7 DEF Receives, local, server

LEMMA Rest ==
    ASSUME NEW S, NEW s \in Seq(S), Len(s) > 1
    PROVE  Len(Tail(s)) # 0 /\ Tail(s) # <<>>
  <1> DEFINE n == Len(s)
             m == Len(Tail(s))
  <1>1. n \in Nat /\ n > 1 /\ m = n - 1
    OBVIOUS
  <1> HIDE DEF n, m
  <1>2. m # 0
    BY <1>1
  <1>3. Len(<<>>) = 0
    OBVIOUS
  <1>4. Tail(s) # <<>>
    BY <1>2, <1>3, Zenon DEF m
  <1> QED
    BY <1>2, <1>4 DEF m

(* How a call that holds the connection may end or go on.                  *)
LEMMA FailsTalks ==
    ASSUME Talk, netConn, UNCHANGED <<config, layer, security>>, NEW closing, NEW error,
           Fails(closing, error),
           Len(trying) > 1 /\ ~closing => Quiet',
           error = "sync" => config.tls \/ result = "connected"
    PROVE  Flow' /\ Conversation' /\ InSyncUnlessTLS'
  <1>1. task \notin {"dial", "ended"}
    BY DEF Talk, Flow
  <1>2. CASE Len(trying) > 1
    <2>1. /\ task = "params" /\ task' = task /\ result' = result /\ await' = "nothing"
          /\ UNCHANGED why
      <3>1. trying # <<>>
        BY <1>2
      <3> QED
        BY <1>1, <1>2, <3>1 DEF Talk, Flow, Fails
    <2>2. trying' # <<>>
      <3>1. trying \in Seq(Settings(config))
        BY DEF Talk, Typed, OutcomeTyped
      <3>2. Len(Tail(trying)) # 0
        BY <1>2, <3>1, Rest
      <3> QED
        BY <1>2, <3>2 DEF Fails
    <2>3. open' => netConn'
      BY <1>2 DEF Fails, Closes, socket, Talk, Flow
    <2>4. Flow'
      BY <2>1, <2>2, <2>3 DEF Talk, Flow
    <2>5. layer # "tls"
      BY <2>1 DEF Talk, Conversation, Veiled
    <2>6. netConn' => ~closing
      BY <1>2 DEF Fails, Closes
    <2>7. Conversation'
      BY <1>2, <2>1, <2>5, <2>6 DEF Talk, Conversation
    <2> QED
      BY <2>1, <2>4, <2>7 DEF Talk, InSyncUnlessTLS
  <1>3. CASE ~(Len(trying) > 1)
    <2>1. /\ task' = "ended" /\ await' = "nothing" /\ why' = error /\ ~netConn' /\ ~open'
          /\ result' = IF result = "none" THEN "error" ELSE result
      BY <1>3 DEF Fails, Closes
    <2>2. Flow'
      BY <2>1 DEF Flow
    <2>3. Conversation'
      BY <2>1 DEF Talk, Conversation
    <2>4. InSyncUnlessTLS'
      BY <2>1 DEF InSyncUnlessTLS
    <2> QED
      BY <2>2, <2>3, <2>4
  <1> QED
    BY <1>2, <1>3

LEMMA GoesTalks ==
    ASSUME Talk, netConn, task \in Asking, await # "nothing", layer = "raw",
           UNCHANGED <<config, execs, layer, security>>,
           NEW read, read \notin {"nothing", "handshake"}, Goes(read),
           Quiet' \/ Pending' \/ Arriving'
    PROVE  Flow' /\ Conversation' /\ InSyncUnlessTLS'
  <1>1. UNCHANGED <<task, result, why, trying, netConn, open>> /\ await' = read
    BY DEF Goes, params, socket
  <1>2. Flow'
    BY <1>1 DEF Talk, Flow, Asking
  <1>3. Conversation'
    BY <1>1 DEF Talk, Conversation, Asking
  <1>4. InSyncUnlessTLS'
    BY <1>1 DEF Talk, InSyncUnlessTLS
  <1> QED
    BY <1>2, <1>3, <1>4

LEMMA SucceedsTalks ==
    ASSUME Talk, netConn, task \in Asking, layer = "raw",
           UNCHANGED <<config, execs, layer, security>>, Succeeds,
           \/ Quiet'
           \/ /\ task = "exec" /\ wire' # <<>> /\ request' = NoRequest
              /\ Number(Head(wire')) # 1 % SeqMod
    PROVE  Flow' /\ Conversation' /\ InSyncUnlessTLS'
  <1>1. UNCHANGED <<result, why, todo, netConn, open>> /\ await' = "nothing" /\ trying' = <<>>
    BY DEF Succeeds, socket
  <1>2. /\ task \in {"auth", "retry", "var", "params"} => task' \in {"params", "var"}
        /\ task = "exec" => task' = "ready"
    BY DEF Succeeds
  <1>3. Flow'
    BY <1>1, <1>2 DEF Talk, Flow, Asking
  <1>4. task = "exec" /\ ~Quiet' => LeftOver'
    BY <1>2 DEF LeftOver, Number, Talk, Flow
  <1>5. Conversation'
    BY <1>1, <1>2, <1>4 DEF Talk, Conversation, Asking
  <1>6. InSyncUnlessTLS'
    BY <1>1 DEF Talk, InSyncUnlessTLS
  <1> QED
    BY <1>3, <1>5, <1>6

LEMMA DiscardsTalks ==
    ASSUME Talk, netConn, task \in Asking, await # "nothing", layer = "raw",
           UNCHANGED <<config, execs, layer, security>>,
           NEW follows \in BOOLEAN, NEW warnings, Discards(follows, warnings),
           ~follows => Quiet',
           follows /\ task' = task /\ await' = "moreHeader" => Arriving'
    PROVE  Flow' /\ Conversation' /\ InSyncUnlessTLS'
  <1>1. CASE follows
    <2>1. Goes("moreHeader")
      BY <1>1 DEF Discards
    <2>2. Arriving'
      BY <1>1, <2>1 DEF Goes
    <2> QED
      BY <2>1, <2>2, GoesTalks
  <1>2. CASE ~follows
    <2>1. Quiet'
      BY <1>2
    <2>2. CASE Fails(FALSE, "warnings")
      BY <2>1, <2>2, FailsTalks
    <2>3. CASE Goes("showWarnings")
      BY <2>1, <2>3, GoesTalks
    <2>4. CASE Succeeds
      BY <2>1, <2>4, SucceedsTalks
    <2>5. CASE Goes("value")
      BY <2>1, <2>5, GoesTalks
    <2> QED
      BY <1>2, <2>2, <2>3, <2>4, <2>5 DEF Discards
  <1> QED
    BY <1>1, <1>2

(* The reads.                                                              *)
LEMMA ReadsTalk ==
    ASSUME Talk, Wide,
           \/ ReadInitPacket \/ ReadResultOK \/ ReadResultSetHeader
           \/ ReadUntilEOF \/ ReadValue \/ ReadWarnings
    PROVE  Flow' /\ Conversation' /\ InSyncUnlessTLS' /\ ~mixed'
  <1> DEFINE Kept == Flow' /\ Conversation' /\ InSyncUnlessTLS' /\ ~mixed'
             Leaves(next) ==
                 /\ Follows(task, await, packet, next)
                 /\ next = "nothing" => Quiet'
                 /\ task' = task /\ await' = next /\ next # "nothing" => Arriving'
                 /\ next = "left" /\ task = "exec"
                        => /\ wire' # <<>> /\ request' = NoRequest
                           /\ Number(Head(wire')) # 1 % SeqMod
             Frame ==
                 /\ netConn /\ layer = "raw" /\ ~mixed'
                 /\ await = "handshake" \/ task \in Asking
                 /\ await \notin {"nothing", "showWarnings"}
                 /\ UNCHANGED <<config, execs, layer, security>>
                 /\ sequence' = NextSequence(sequence)
                 /\ packet \in Packets
  <1>1. ASSUME NEW reads, Receives(reads)
        PROVE  Frame /\ await \in reads /\ \E next \in Reads \cup {"left"} : Leaves(next)
    BY <1>1, Received, TakesOne, ReceivesTyped DEF Talk, packet
  <1>2. ASSUME Frame, NEW error, Fails(FALSE, error), error # "sync",
               task = "params" => Quiet'
        PROVE  Kept
    <2>1. Len(trying) > 1 => task = "params"
      <3>1. trying # <<>> => task \in {"params", "ended"}
        BY DEF Talk, Flow
      <3> QED
        BY <1>2, <3>1 DEF Talk, Flow
    <2> QED
      BY <1>2, <2>1, FailsTalks
  <1>3. ASSUME Frame, task \in Asking, NEW next, Leaves(next), next \notin {"nothing", "left"},
               Goes(next)
        PROVE  Kept
    <2>1. Arriving'
      BY <1>3 DEF Goes
    <2>2. next # "handshake"
      BY <1>3, FollowsRead
    <2> QED
      BY <1>3, <2>1, <2>2, GoesTalks
  <1>4. ASSUME Frame, task \in Asking, NEW next, Leaves(next),
               next = "nothing" \/ (next = "left" /\ task = "exec"), Succeeds
        PROVE  Kept
    BY <1>4, SucceedsTalks
  <1>5. ASSUME Frame, task \in Asking, NEW next, Leaves(next), NEW warnings,
               next = IF packet.more THEN "moreHeader" ELSE "nothing",
               Discards(packet.more, warnings)
        PROVE  Kept
    <2>1. packet.more \in BOOLEAN
      BY <1>5 DEF Packets
    <2> QED
      BY <1>5, <2>1, DiscardsTalks
  <1>6. ASSUME Frame, task \in Asking, NEW next, Leaves(next), next = await, UNCHANGED outcome
        PROVE  Kept
    <2>1. Goes(next)
      BY <1>6 DEF Goes, outcome
    <2> QED
      BY <1>3, <1>6, <2>1 DEF Follows
  <1>7. CASE ReadInitPacket
    <2>1. Frame /\ await = "handshake" /\ \E next : Leaves(next)
      BY <1>1, <1>7 DEF ReadInitPacket
    <2>2. Quiet' /\ task = "handshake"
      BY <2>1 DEF Follows, Talk, Flow
    <2>3. CASE Calls("auth", "nothing")
      <3>1. sequence' = 1
        <4>1. sequence = 0
          BY <2>2 DEF Talk, Conversation
        <4>2. (0 + 1) % SeqMod = 1
          BY Small
        <4> QED
          BY <2>1, <4>1, <4>2 DEF NextSequence
      <3>2. /\ task' = "auth" /\ await' = "nothing"
            /\ UNCHANGED <<result, why, trying, netConn, open>>
        BY <2>3 DEF Calls, params, socket
      <3>3. Flow'
        BY <2>1, <2>2, <3>2 DEF Talk, Flow
      <3>4. Conversation'
        BY <2>1, <2>2, <3>1, <3>2 DEF Talk, Conversation
      <3>5. InSyncUnlessTLS'
        BY <2>1, <3>2 DEF Talk, InSyncUnlessTLS
      <3> QED
        BY <2>1, <3>3, <3>4, <3>5
    <2> QED
      BY <1>2, <1>7, <2>1, <2>2, <2>3 DEF ReadInitPacket
  <1>8. CASE ReadResultOK
    <2>1. Frame /\ await = "authResult" /\ \E next : Leaves(next)
      BY <1>1, <1>8 DEF ReadResultOK
    <2>2. Leaves("nothing") /\ Quiet' /\ (packet.kind = "ok" => ~packet.more)
      BY <2>1 DEF Follows
    <2>3. task \in Asking
      BY <2>1
    <2>4. CASE packet.kind = "ok" /\ HandleOkPacket
      <3>1. "nothing" = IF packet.more THEN "moreHeader" ELSE "nothing"
        BY <2>2, <2>4
      <3> QED
        BY <1>5, <2>1, <2>2, <2>3, <2>4, <3>1 DEF HandleOkPacket
    <2>5. CASE Calls("retry", "nothing") /\ task = "auth"
      <3>1. /\ task' = "retry" /\ await' = "nothing"
            /\ UNCHANGED <<result, why, trying, netConn, open>>
        BY <2>5 DEF Calls, params, socket
      <3>2. Flow'
        BY <2>1, <2>5, <3>1 DEF Talk, Flow
      <3>3. Conversation'
        BY <2>1, <2>2, <3>1 DEF Talk, Conversation
      <3>4. InSyncUnlessTLS'
        BY <2>1, <3>1 DEF Talk, InSyncUnlessTLS
      <3> QED
        BY <2>1, <3>2, <3>3, <3>4
    <2>6. ASSUME NEW error, Fails(FALSE, error), error # "sync" PROVE Kept
      BY <1>2, <2>1, <2>2, <2>6
    <2> QED
      BY <1>8, <2>4, <2>5, <2>6 DEF ReadResultOK
  <1>9. CASE ReadResultSetHeader
    <2>1. /\ Frame /\ await \in {"header", "moreHeader"} /\ task \in Asking
      BY <1>1, <1>9 DEF ReadResultSetHeader
    <2>2. PICK next : Leaves(next)
      BY <1>1, <1>9 DEF ReadResultSetHeader
    <2>3. CASE packet.kind = "ok" /\ HandleOkPacket
      <3>1. next = IF packet.more THEN "moreHeader" ELSE "nothing"
        BY <2>1, <2>2, <2>3 DEF Follows
      <3> QED
        BY <1>5, <2>1, <2>2, <2>3, <3>1 DEF HandleOkPacket
    <2>4. CASE /\ packet.kind = "header"
               /\ Goes(IF await = "header" THEN "columns" ELSE "moreColumns")
      <3>1. next = IF await = "header" THEN "columns" ELSE "moreColumns"
        BY <2>1, <2>2, <2>4 DEF Follows
      <3> QED
        BY <1>3, <2>1, <2>2, <2>4, <3>1
    <2>5. CASE packet.kind \notin {"ok", "header"} /\ Fails(FALSE, "err")
      <3>1. next = "nothing"
        BY <2>1, <2>2, <2>5 DEF Follows
      <3> QED
        BY <1>2, <2>1, <2>2, <2>5, <3>1
    <2> QED
      BY <1>9, <2>3, <2>4, <2>5 DEF ReadResultSetHeader
  <1>10. CASE ReadUntilEOF
    <2>1. Frame /\ await \in {"columns", "rows", "rest", "moreColumns", "moreRows"}
          /\ task \in Asking
      BY <1>1, <1>10 DEF ReadUntilEOF
    <2>2. PICK next : Leaves(next)
      BY <1>1, <1>10 DEF ReadUntilEOF
    <2>3. packet.kind # "err"
      BY <2>1, <2>2 DEF Follows
    <2>4. CASE packet.kind = "eof" /\ await = "moreRows" /\ Discards(packet.more, warned)
      <3>1. next = IF packet.more THEN "moreHeader" ELSE "nothing"
        BY <2>2, <2>4 DEF Follows
      <3> QED
        BY <1>5, <2>1, <2>2, <2>4, <3>1
    <2>5. CASE packet.kind = "eof" /\ await \in DOMAIN AfterEOF /\ Goes(AfterEOF[await])
      <3>1. next = AfterEOF[await] /\ next \notin {"nothing", "left"}
        BY <2>2, <2>5 DEF Follows, AfterEOF
      <3> QED
        BY <1>3, <2>1, <2>2, <2>5, <3>1
    <2>6. CASE packet.kind = "eof" /\ await \in {"rows", "rest"} /\ Succeeds
      <3>1. next = "nothing" \/ (next = "left" /\ task = "exec")
        BY <2>2, <2>6 DEF Follows
      <3> QED
        BY <1>4, <2>1, <2>2, <2>6, <3>1
    <2>7. CASE packet.kind # "eof" /\ UNCHANGED outcome
      <3>1. next = await
        BY <2>1, <2>2, <2>3, <2>7 DEF Follows
      <3> QED
        BY <1>6, <2>1, <2>2, <2>7, <3>1
    <2>8. \/ packet.kind = "eof" /\ await = "moreRows" /\ Discards(packet.more, warned)
          \/ packet.kind = "eof" /\ await \in DOMAIN AfterEOF /\ Goes(AfterEOF[await])
          \/ packet.kind = "eof" /\ await \in {"rows", "rest"} /\ Succeeds
          \/ packet.kind # "eof" /\ UNCHANGED outcome
      BY <1>10, <2>1, <2>3 DEF ReadUntilEOF, AfterEOF
    <2> QED
      BY <2>4, <2>5, <2>6, <2>7, <2>8
  <1>11. CASE ReadValue
    <2>1. Frame /\ await = "value" /\ task \in Asking
      BY <1>1, <1>11 DEF ReadValue
    <2>2. PICK next : Leaves(next)
      BY <1>1, <1>11 DEF ReadValue
    <2>3. packet.kind = "row" /\ next = "rest"
      BY <2>1, <2>2 DEF Follows
    <2>4. Goes("rest")
      BY <1>11, <2>3 DEF ReadValue
    <2> QED
      BY <1>3, <2>1, <2>2, <2>3, <2>4
  <1>12. CASE ReadWarnings
    <2>1. Frame /\ await \in {"warnHeader", "warnColumns", "warnRows"} /\ task \in Asking
      BY <1>1, <1>12 DEF ReadWarnings
    <2>2. PICK next : Leaves(next)
      BY <1>1, <1>12 DEF ReadWarnings
    <2>3. CASE packet.kind = "err" /\ Fails(FALSE, "err")
      <3>1. next = "nothing"
        BY <2>1, <2>2, <2>3 DEF Follows
      <3> QED
        BY <1>2, <2>1, <2>2, <2>3, <3>1
    <2>4. CASE packet.kind = "header" /\ Goes("warnColumns")
      <3>1. next = "warnColumns"
        BY <2>1, <2>2, <2>4 DEF Follows
      <3> QED
        BY <1>3, <2>1, <2>2, <2>4, <3>1
    <2>5. CASE packet.kind = "eof" /\ await = "warnColumns" /\ Goes("warnRows")
      <3>1. next = "warnRows"
        BY <2>1, <2>2, <2>5 DEF Follows
      <3> QED
        BY <1>3, <2>1, <2>2, <2>5, <3>1
    <2>6. CASE /\ packet.kind = "ok" \/ (packet.kind = "eof" /\ await = "warnRows")
               /\ Discards(packet.more, "shown")
      <3>1. ~packet.more /\ next = "nothing"
        BY <2>1, <2>2, <2>6 DEF Follows
      <3>2. next = IF packet.more THEN "moreHeader" ELSE "nothing"
        BY <3>1
      <3> QED
        BY <1>5, <2>1, <2>2, <2>6, <3>2
    <2>7. CASE /\ packet.kind \notin {"err", "header", "ok"}
               /\ ~(packet.kind = "eof" /\ await \in {"warnColumns", "warnRows"})
               /\ UNCHANGED outcome
      <3>1. next = await
        BY <2>1, <2>2, <2>7 DEF Follows
      <3> QED
        BY <1>6, <2>1, <2>2, <2>7, <3>1
    <2>8. \/ packet.kind = "err" /\ Fails(FALSE, "err")
          \/ packet.kind = "header" /\ Goes("warnColumns")
          \/ packet.kind = "eof" /\ await = "warnColumns" /\ Goes("warnRows")
          \/ /\ packet.kind = "ok" \/ (packet.kind = "eof" /\ await = "warnRows")
             /\ Discards(packet.more, "shown")
          \/ /\ packet.kind \notin {"err", "header", "ok"}
             /\ ~(packet.kind = "eof" /\ await \in {"warnColumns", "warnRows"})
             /\ UNCHANGED outcome
      BY <1>12 DEF ReadWarnings
    <2> QED
      BY <2>3, <2>4, <2>5, <2>6, <2>7, <2>8
  <1> QED
    BY <1>7, <1>8, <1>9, <1>10, <1>11, <1>12

-----------------------------------------------------------------------------
(* An answer of the server is what the reads of its request wait for.      *)

LEMMA PacketFields ==
    /\ \A kind : /\ Packet(kind).kind = kind
                 /\ ~Packet(kind).more /\ ~Packet(kind).warned
    /\ Ok.kind = "ok" /\ ~Ok.more /\ ~Ok.warned
    /\ More(Ok).kind = "ok" /\ More(Ok).more
    /\ More(Packet("eof")).kind = "eof" /\ More(Packet("eof")).more
    /\ [Ok EXCEPT !.warned = TRUE].kind = "ok" /\ ~[Ok EXCEPT !.warned = TRUE].more
    /\ \A kind, what : [Packet(kind) EXCEPT !.what = what].kind = kind
  BY DEF Packet, Ok, More

(* The answers that are single packets.                                    *)
LEMMA AnsweredByOne ==
    ASSUME NEW job, NEW read \in (Reads \cup {"left"}) \ {"nothing"}, NEW sent,
           Follows(job, read, sent, "nothing")
    PROVE  Answered(job, read, <<sent>>)
  <1> DEFINE reads == <<read, "nothing">>
  <1>1. reads \in Seq(Reads \cup {"left"}) /\ Len(reads) = 2 /\ reads[1] = read
        /\ reads[2] = "nothing"
    BY DEF Reads
  <1> HIDE DEF reads
  <1> QED
    BY <1>1 DEF Answered

(* A packet, and then what follows it.                                     *)
LEMMA AnsweredFurther ==
    ASSUME NEW job, NEW read \in Reads \ {"nothing"}, NEW sent \in BarePackets, NEW next,
           NEW packets \in Seq(BarePackets),
           Follows(job, read, sent, next), Answered(job, next, packets)
    PROVE  Answered(job, read, <<sent>> \o packets)
  <1>1. PICK reads \in Seq(Reads \cup {"left"}) :
            /\ Len(reads) = Len(packets) + 1
            /\ reads[1] = next /\ reads[Len(packets) + 1] = "nothing"
            /\ \A n \in 1 .. Len(packets) :
                   reads[n] # "nothing" /\ Follows(job, reads[n], packets[n], reads[n + 1])
    BY DEF Answered
  <1> DEFINE whole == <<sent>> \o packets
             from == <<read>> \o reads
  <1>2. /\ <<sent>> \in Seq(BarePackets) /\ Len(<<sent>>) = 1 /\ <<sent>>[1] = sent
        /\ <<read>> \in Seq(Reads \cup {"left"}) /\ Len(<<read>>) = 1 /\ <<read>>[1] = read
    OBVIOUS
  <1>3. /\ Len(whole) = 1 + Len(packets) /\ whole[1] = sent
        /\ \A n \in 1 .. Len(packets) : whole[1 + n] = packets[n]
    BY <1>2, Joined, JoinedFront, JoinedBack
  <1>4. /\ from \in Seq(Reads \cup {"left"}) /\ Len(from) = 1 + Len(reads) /\ from[1] = read
        /\ \A n \in 1 .. Len(reads) : from[1 + n] = reads[n]
    BY <1>2, Joined, JoinedFront, JoinedBack
  <1> HIDE DEF whole, from
  <1>5. Len(packets) \in Nat /\ from[2] = next
    BY <1>1, <1>4
  <1>6. Len(from) = Len(whole) + 1 /\ from[Len(whole) + 1] = "nothing"
    BY <1>1, <1>3, <1>4, <1>5
  <1>7. ASSUME NEW n \in 1 .. Len(whole)
        PROVE  from[n] # "nothing" /\ Follows(job, from[n], whole[n], from[n + 1])
    <2>1. CASE n = 1
      BY <1>3, <1>4, <1>5, <2>1
    <2>2. CASE n # 1
      <3>1. PICK m \in 1 .. Len(packets) : n = 1 + m /\ n + 1 = 1 + (m + 1)
        BY <1>3, <1>5, <2>2
      <3>2. from[n] = reads[m] /\ whole[n] = packets[m] /\ from[n + 1] = reads[m + 1]
        BY <1>1, <1>3, <1>4, <1>5, <3>1
      <3> QED
        BY <1>1, <3>2
    <2> QED
      BY <2>1, <2>2
  <1>8. Answered(job, read, whole)
    BY <1>4, <1>6, <1>7 DEF Answered
  <1> QED
    BY <1>8 DEF whole

(* A result, of which getSystemVar reads one row, and the others all rows; *)
(* what follows it is read by next.                                        *)
LEMMA AnsweredByFive ==
    ASSUME NEW job, NEW ps \in Seq(BarePackets), Len(ps) = 5,
           NEW r1 \in Reads \ {"nothing"}, NEW r2 \in Reads \ {"nothing"},
           NEW r3 \in Reads \ {"nothing"}, NEW r4 \in Reads \ {"nothing"},
           NEW r5 \in Reads \ {"nothing"},
           Follows(job, r1, ps[1], r2), Follows(job, r2, ps[2], r3), Follows(job, r3, ps[3], r4),
           Follows(job, r4, ps[4], r5), Follows(job, r5, ps[5], "nothing")
    PROVE  Answered(job, r1, ps)
  <1> DEFINE reads == <<r1, r2, r3, r4, r5, "nothing">>
  <1>1. /\ reads \in Seq(Reads \cup {"left"}) /\ Len(reads) = 6
        /\ reads[1] = r1 /\ reads[2] = r2 /\ reads[3] = r3 /\ reads[4] = r4 /\ reads[5] = r5
        /\ reads[6] = "nothing"
    BY DEF Reads
  <1> HIDE DEF reads
  <1>2. ASSUME NEW n \in 1 .. 5
        PROVE  reads[n] # "nothing" /\ Follows(job, reads[n], ps[n], reads[n + 1])
    <2>1. n = 1 \/ n = 2 \/ n = 3 \/ n = 4 \/ n = 5
      OBVIOUS
    <2> QED
      BY <1>1, <2>1
  <1> QED
    BY <1>1, <1>2 DEF Answered

LEMMA AnsweredToVar ==
    Answered("var", "header", Table(1, Packet("eof")))
  <1> DEFINE eof == Packet("eof")
  <1>1. eof \in BarePackets /\ eof.kind = "eof" /\ ~eof.more
    BY Bare, PacketFields DEF Kinds
  <1>2. Packet("header").kind = "header" /\ Packet("column").kind = "column"
        /\ Packet("row").kind = "row"
    BY PacketFields
  <1> HIDE DEF eof
  <1>3. /\ Table(1, eof) \in Seq(BarePackets) /\ Len(Table(1, eof)) = 5
        /\ Table(1, eof)[1] = Packet("header") /\ Table(1, eof)[2] = Packet("column")
        /\ Table(1, eof)[3] = eof /\ Table(1, eof)[4] = Packet("row") /\ Table(1, eof)[5] = eof
    <2>1. /\ 1 \in Nat /\ 1 + 4 = 5 /\ 3 + 1 = 4 /\ 1 \in 1 .. 1
      OBVIOUS
    <2>2. /\ Table(1, eof) \in Seq(BarePackets) /\ Len(Table(1, eof)) = 1 + 4
          /\ Table(1, eof)[1] = Packet("header") /\ Table(1, eof)[2] = Packet("column")
          /\ Table(1, eof)[3] = eof /\ Table(1, eof)[3 + 1] = Packet("row")
          /\ Table(1, eof)[1 + 4] = eof
      BY <1>1, <2>1, TableBare, Zenon
    <2> QED
      BY <2>1, <2>2, Zenon
  <1>4. /\ Follows("var", "header", Table(1, eof)[1], "columns")
        /\ Follows("var", "columns", Table(1, eof)[2], "columns")
        /\ Follows("var", "columns", Table(1, eof)[3], "value")
        /\ Follows("var", "value", Table(1, eof)[4], "rest")
        /\ Follows("var", "rest", Table(1, eof)[5], "nothing")
    BY <1>1, <1>2, <1>3 DEF Follows
  <1>5. {"header", "columns", "value", "rest"} \subseteq Reads \ {"nothing"}
    BY DEF Reads
  <1>6. Answered("var", "header", Table(1, eof))
    BY <1>3, <1>4, <1>5, AnsweredByFive
  <1> QED
    BY <1>6 DEF eof

(* The reads of the packets of a result, and then these.                   *)
TableReads(rows, first, second, third, reads) ==
    [n \in 1 .. rows + 4 + Len(reads) |->
        IF n = 1 THEN first ELSE IF n < 4 THEN second ELSE IF n < rows + 5 THEN third
        ELSE reads[n - (rows + 4)]]

ReadsInTurn(all, rows, first, second, third, reads) ==
    /\ Len(all) = rows + 4 + Len(reads)
    /\ all[1] = first /\ all[2] = second /\ all[3] = second
    /\ \A n \in 4 .. rows + 4 : all[n] = third
    /\ \A n \in 1 .. Len(reads) : all[rows + 4 + n] = reads[n]

LEMMA TableReadsAt ==
    ASSUME NEW R, NEW rows \in Nat, NEW first \in R, NEW second \in R, NEW third \in R,
           NEW reads \in Seq(R)
    PROVE  /\ TableReads(rows, first, second, third, reads) \in Seq(R)
           /\ ReadsInTurn(TableReads(rows, first, second, third, reads), rows, first, second, third,
                          reads)
  <1> DEFINE all == TableReads(rows, first, second, third, reads)
             whole == rows + 4 + Len(reads)
  <1>1. Len(reads) \in Nat /\ whole \in Nat
    OBVIOUS
  <1>2. all = [n \in 1 .. whole |->
                  IF n = 1 THEN first ELSE IF n < 4 THEN second ELSE IF n < rows + 5 THEN third
                  ELSE reads[n - (rows + 4)]]
    BY DEF TableReads
  <1>3. ASSUME NEW n \in 1 .. Len(reads)
        PROVE  /\ rows + 4 + n \in 1 .. whole /\ ~(rows + 4 + n < rows + 5)
               /\ rows + 4 + n # 1 /\ ~(rows + 4 + n < 4) /\ rows + 4 + n - (rows + 4) = n
    BY <1>1
  <1>4. ASSUME NEW n \in 1 .. whole, n # 1, ~(n < 4), ~(n < rows + 5)
        PROVE  reads[n - (rows + 4)] \in R
    <2>1. n - (rows + 4) \in 1 .. Len(reads)
      BY <1>1, <1>4
    <2> QED
      BY <2>1
  <1>5. all \in [1 .. whole -> R]
    BY <1>2, <1>4
  <1>6. all \in Seq(R) /\ Len(all) = whole
    BY <1>1, <1>5
  <1>7. 1 \in 1 .. whole /\ 2 \in 1 .. whole /\ 3 \in 1 .. whole
    BY <1>1
  <1>8. \A n \in 4 .. rows + 4 : n \in 1 .. whole /\ n # 1 /\ ~(n < 4) /\ n < rows + 5
    BY <1>1
  <1>9. all[1] = first /\ all[2] = second /\ all[3] = second
    BY <1>2, <1>7
  <1> HIDE DEF whole
  <1>10. \A n \in 4 .. rows + 4 : all[n] = third
    BY <1>2, <1>8
  <1>11. \A n \in 1 .. Len(reads) : all[rows + 4 + n] = reads[n]
    BY <1>2, <1>3
  <1> HIDE DEF all
  <1> QED
    BY <1>6, <1>9, <1>10, <1>11 DEF whole, all, ReadsInTurn

LEMMA AnsweredByTable ==
    ASSUME NEW job, NEW rows \in Nat, NEW last \in BarePackets, NEW packets \in Seq(BarePackets),
           NEW first \in Reads \ {"nothing"}, NEW second \in Reads \ {"nothing"},
           NEW third \in Reads \ {"nothing"}, NEW next,
           Follows(job, first, Packet("header"), second),
           Follows(job, second, Packet("column"), second), Follows(job, second, last, third),
           Follows(job, third, Packet("row"), third), Follows(job, third, last, next),
           Answered(job, next, packets)
    PROVE  Answered(job, first, Table(rows, last) \o packets)
  <1> DEFINE R == Reads \cup {"left"}
             table == Table(rows, last)
             whole == table \o packets
  <1>1. PICK reads \in Seq(R) :
            /\ Len(reads) = Len(packets) + 1
            /\ reads[1] = next /\ reads[Len(packets) + 1] = "nothing"
            /\ \A n \in 1 .. Len(packets) :
                   reads[n] # "nothing" /\ Follows(job, reads[n], packets[n], reads[n + 1])
    BY DEF Answered
  <1> DEFINE all == TableReads(rows, first, second, third, reads)
  <1>2. /\ table \in Seq(BarePackets) /\ Len(table) = rows + 4
        /\ table[1] = Packet("header") /\ table[2] = Packet("column")
        /\ table[3] = last /\ table[rows + 4] = last
        /\ \A n \in 1 .. rows : table[3 + n] = Packet("row")
    BY TableBare
  <1> HIDE DEF table
  <1>3. /\ Len(whole) = rows + 4 + Len(packets)
        /\ \A n \in 1 .. rows + 4 : whole[n] = table[n]
        /\ \A n \in 1 .. Len(packets) : whole[rows + 4 + n] = packets[n]
    <2>1. Len(whole) = Len(table) + Len(packets)
      BY <1>2, Joined, Zenon
    <2>2. \A n \in 1 .. Len(table) : whole[n] = table[n]
      BY <1>2, JoinedFront, Zenon
    <2>3. \A n \in 1 .. Len(packets) : whole[Len(table) + n] = packets[n]
      BY <1>2, JoinedBack
    <2> QED
      BY <1>2, <2>1, <2>2, <2>3, Zenon
  <1>4. first \in R /\ second \in R /\ third \in R
    OBVIOUS
  <1> HIDE DEF whole, R
  <1>5. /\ all \in Seq(R) /\ Len(all) = rows + 4 + Len(reads)
        /\ all[1] = first /\ all[2] = second /\ all[3] = second
        /\ \A n \in 4 .. rows + 4 : all[n] = third
        /\ \A n \in 1 .. Len(reads) : all[rows + 4 + n] = reads[n]
    <2>1. all \in Seq(R) /\ ReadsInTurn(all, rows, first, second, third, reads)
      BY <1>1, <1>4, TableReadsAt, Zenon
    <2> QED
      BY <2>1 DEF ReadsInTurn
  <1> HIDE DEF all
  <1>6. Len(packets) \in Nat
    OBVIOUS
  <1>7. Len(all) = Len(whole) + 1 /\ all[Len(whole) + 1] = "nothing"
    <2>1. Len(reads) \in 1 .. Len(reads) /\ rows + 4 + Len(reads) = Len(whole) + 1
      BY <1>1, <1>3, <1>6
    <2> QED
      BY <1>1, <1>5, <2>1
  <1>8. ASSUME NEW n \in 1 .. Len(whole)
        PROVE  all[n] # "nothing" /\ Follows(job, all[n], whole[n], all[n + 1])
    <2>1. CASE n \in 1 .. 2
      <3>1. n = 1 \/ n = 2
        BY <2>1
      <3>2. 1 \in 1 .. rows + 4 /\ 2 \in 1 .. rows + 4
        OBVIOUS
      <3> QED
        BY <1>2, <1>3, <1>5, <3>1, <3>2
    <2>2. CASE n = 3
      <3>1. 3 \in 1 .. rows + 4 /\ 4 \in 4 .. rows + 4
        OBVIOUS
      <3> QED
        BY <1>2, <1>3, <1>5, <2>2, <3>1
    <2>3. CASE n \in 4 .. rows + 3
      <3>1. PICK m \in 1 .. rows : n = 3 + m
        BY <2>3
      <3>2. n \in 1 .. rows + 4 /\ n \in 4 .. rows + 4 /\ n + 1 \in 4 .. rows + 4
        BY <2>3
      <3> QED
        BY <1>2, <1>3, <1>5, <3>1, <3>2
    <2>4. CASE n = rows + 4
      <3>1. n \in 1 .. rows + 4 /\ n \in 4 .. rows + 4
        BY <2>4
      <3>2. whole[n] = last /\ all[n] = third
        BY <1>2, <1>3, <1>5, <2>4, <3>1
      <3>3. 1 \in 1 .. Len(reads) /\ n + 1 = rows + 4 + 1
        BY <1>1, <1>6, <2>4
      <3>4. all[n + 1] = next
        BY <1>1, <1>5, <3>3
      <3> QED
        BY <3>2, <3>4
    <2>5. CASE n > rows + 4
      <3>1. PICK m \in 1 .. Len(packets) : n = rows + 4 + m
        BY <1>3, <1>6, <2>5
      <3>2. m \in 1 .. Len(reads) /\ m + 1 \in 1 .. Len(reads) /\ n + 1 = rows + 4 + (m + 1)
        BY <1>1, <1>6, <3>1
      <3>3. /\ all[n] = reads[m] /\ whole[n] = packets[m] /\ all[n + 1] = reads[m + 1]
        BY <1>3, <1>5, <3>1, <3>2
      <3> QED
        BY <1>1, <3>3
    <2>6. \/ n \in 1 .. 2 \/ n = 3 \/ n \in 4 .. rows + 3 \/ n = rows + 4 \/ n > rows + 4
      OBVIOUS
    <2> QED
      BY <2>1, <2>2, <2>3, <2>4, <2>5, <2>6
  <1>9. Answered(job, first, whole)
    BY <1>5, <1>7, <1>8 DEF Answered, R
  <1> QED
    BY <1>9 DEF whole, table

LEMMA AnsweredByNone ==
    ASSUME NEW job
    PROVE  Answered(job, "nothing", <<>>)
  <1> DEFINE reads == <<"nothing">>
  <1>1. reads \in Seq(Reads \cup {"left"}) /\ Len(reads) = 1 /\ reads[1] = "nothing"
    BY DEF Reads
  <1>2. Len(<<>>) = 0
    OBVIOUS
  <1> HIDE DEF reads
  <1> QED
    BY <1>1, <1>2 DEF Answered

LEMMA Unfollowed ==
    \A s \in Seq(BarePackets) : s \o <<>> = s
  OBVIOUS

(* A result by itself, and one that an OK packet follows, which exec       *)
(* leaves.                                                                 *)
LEMMA AnsweredByTables ==
    ASSUME NEW table \in Tables
    PROVE  /\ Answered("exec", "header", table) /\ Answered("exec", "moreHeader", table)
           /\ \A job : Answered(job, "warnHeader", table)
           /\ table \in Seq(BarePackets)
  <1> DEFINE eof == Packet("eof")
  <1>1. PICK rows \in Nat : table = Table(rows, eof)
    BY RowCountsAssumption DEF Tables
  <1>2. eof \in BarePackets /\ eof.kind = "eof" /\ ~eof.more
    BY Bare, PacketFields DEF Kinds
  <1>3. Packet("header").kind = "header" /\ Packet("column").kind = "column"
        /\ Packet("row").kind = "row"
    BY PacketFields
  <1> HIDE DEF eof
  <1>4. table \in Seq(BarePackets) /\ <<>> \in Seq(BarePackets)
    <2>1. table \in Seq(BarePackets)
      BY <1>1, <1>2, TableBare, Zenon
    <2>2. <<>> \in Seq(BarePackets)
      OBVIOUS
    <2> QED
      BY <2>1, <2>2
  <1>5. Table(rows, eof) \o <<>> = table
    BY <1>1, <1>4, Unfollowed
  <1>6. {"header", "columns", "rows", "moreHeader", "moreColumns", "moreRows",
         "warnHeader", "warnColumns", "warnRows"} \subseteq Reads \ {"nothing"}
    BY DEF Reads
  <1>7. Answered("exec", "header", table)
    <2>1. /\ Follows("exec", "header", Packet("header"), "columns")
          /\ Follows("exec", "columns", Packet("column"), "columns")
          /\ Follows("exec", "columns", eof, "rows")
          /\ Follows("exec", "rows", Packet("row"), "rows")
          /\ Follows("exec", "rows", eof, "nothing")
      BY <1>2, <1>3 DEF Follows
    <2>2. Answered("exec", "header", Table(rows, eof) \o <<>>)
      BY <1>2, <1>4, <1>6, <2>1, AnsweredByNone, AnsweredByTable
    <2> QED
      BY <1>5, <2>2
  <1>8. Answered("exec", "moreHeader", table)
    <2>1. /\ Follows("exec", "moreHeader", Packet("header"), "moreColumns")
          /\ Follows("exec", "moreColumns", Packet("column"), "moreColumns")
          /\ Follows("exec", "moreColumns", eof, "moreRows")
          /\ Follows("exec", "moreRows", Packet("row"), "moreRows")
          /\ Follows("exec", "moreRows", eof, "nothing")
      BY <1>2, <1>3 DEF Follows
    <2>2. Answered("exec", "moreHeader", Table(rows, eof) \o <<>>)
      BY <1>2, <1>4, <1>6, <2>1, AnsweredByNone, AnsweredByTable
    <2> QED
      BY <1>5, <2>2
  <1>9. ASSUME NEW job PROVE Answered(job, "warnHeader", table)
    <2>1. /\ Follows(job, "warnHeader", Packet("header"), "warnColumns")
          /\ Follows(job, "warnColumns", Packet("column"), "warnColumns")
          /\ Follows(job, "warnColumns", eof, "warnRows")
          /\ Follows(job, "warnRows", Packet("row"), "warnRows")
          /\ Follows(job, "warnRows", eof, "nothing")
      BY <1>2, <1>3 DEF Follows
    <2>2. Answered(job, "warnHeader", Table(rows, eof) \o <<>>)
      BY <1>2, <1>4, <1>6, <2>1, AnsweredByNone, AnsweredByTable
    <2> QED
      BY <1>5, <2>2
  <1> QED
    BY <1>4, <1>7, <1>8, <1>9

LEMMA AnsweredByTableAndOk ==
    ASSUME NEW table \in FirstTables
    PROVE  /\ Answered("exec", "header", table \o <<Ok>>)
           /\ Answered("exec", "moreHeader", table \o <<Ok>>)
           /\ table \in Seq(BarePackets)
  <1> DEFINE eof == More(Packet("eof"))
  <1>1. PICK rows \in Nat : table = Table(rows, eof)
    BY RowCountsAssumption DEF FirstTables
  <1>2. eof \in BarePackets /\ eof.kind = "eof" /\ eof.more
    BY Bare, PacketFields DEF Kinds
  <1>3. Packet("header").kind = "header" /\ Packet("column").kind = "column"
        /\ Packet("row").kind = "row" /\ Ok.kind = "ok" /\ ~Ok.more
    BY PacketFields
  <1> HIDE DEF eof
  <1>4. table \in Seq(BarePackets) /\ <<Ok>> \in Seq(BarePackets)
    <2>1. table \in Seq(BarePackets)
      BY <1>1, <1>2, TableBare, Zenon
    <2>2. <<Ok>> \in Seq(BarePackets)
      BY Bare
    <2> QED
      BY <2>1, <2>2
  <1>5. {"header", "columns", "rows", "moreHeader", "moreColumns", "moreRows"}
            \subseteq Reads \ {"nothing"}
    BY DEF Reads
  <1>6. Answered("exec", "left", <<Ok>>) /\ Answered("exec", "moreHeader", <<Ok>>)
    <2>1. Follows("exec", "left", Ok, "nothing") /\ Follows("exec", "moreHeader", Ok, "nothing")
      BY <1>3 DEF Follows
    <2> QED
      BY <1>5, <2>1, AnsweredByOne
  <1>7. Answered("exec", "header", table \o <<Ok>>)
    <2>1. /\ Follows("exec", "header", Packet("header"), "columns")
          /\ Follows("exec", "columns", Packet("column"), "columns")
          /\ Follows("exec", "columns", eof, "rows")
          /\ Follows("exec", "rows", Packet("row"), "rows")
          /\ Follows("exec", "rows", eof, "left")
      BY <1>2, <1>3 DEF Follows
    <2>2. Answered("exec", "header", Table(rows, eof) \o <<Ok>>)
      BY <1>2, <1>4, <1>5, <1>6, <2>1, AnsweredByTable
    <2> QED
      BY <1>1, <2>2
  <1>8. Answered("exec", "moreHeader", table \o <<Ok>>)
    <2>1. /\ Follows("exec", "moreHeader", Packet("header"), "moreColumns")
          /\ Follows("exec", "moreColumns", Packet("column"), "moreColumns")
          /\ Follows("exec", "moreColumns", eof, "moreRows")
          /\ Follows("exec", "moreRows", Packet("row"), "moreRows")
          /\ Follows("exec", "moreRows", eof, "moreHeader")
      BY <1>2, <1>3 DEF Follows
    <2>2. Answered("exec", "moreHeader", Table(rows, eof) \o <<Ok>>)
      BY <1>2, <1>4, <1>5, <1>6, <2>1, AnsweredByTable
    <2> QED
      BY <1>1, <2>2
  <1> QED
    BY <1>4, <1>7, <1>8

LEMMA Regrouped ==
    \A s, t, u \in Seq(BarePackets) : (s \o t) \o u = s \o (t \o u)
  OBVIOUS

(* Two packets.                                                            *)
LEMMA AnsweredByTwo ==
    ASSUME NEW job, NEW read \in Reads \ {"nothing"}, NEW next \in Reads \ {"nothing"},
           NEW first, NEW second,
           Follows(job, read, first, next), Follows(job, next, second, "nothing")
    PROVE  Answered(job, read, <<first, second>>)
  <1> DEFINE reads == <<read, next, "nothing">>
             packets == <<first, second>>
  <1>1. /\ reads \in Seq(Reads \cup {"left"}) /\ Len(reads) = 3
        /\ reads[1] = read /\ reads[2] = next /\ reads[3] = "nothing"
    BY DEF Reads
  <1>2. Len(packets) = 2 /\ packets[1] = first /\ packets[2] = second
    OBVIOUS
  <1> HIDE DEF reads, packets
  <1>3. ASSUME NEW n \in 1 .. 2
        PROVE  reads[n] # "nothing" /\ Follows(job, reads[n], packets[n], reads[n + 1])
    <2>1. n = 1 \/ n = 2
      OBVIOUS
    <2> QED
      BY <1>1, <1>2, <2>1
  <1>4. Answered(job, read, packets)
    BY <1>1, <1>2, <1>3 DEF Answered
  <1> QED
    BY <1>4 DEF packets

(* The answers to a statement that exec sends.                             *)
LEMMA AnsweredToStatement ==
    ASSUME NEW job \in {"params", "exec"}, NEW read \in {"header", "moreHeader"},
           NEW sent \in BarePackets, sent.kind = "err" \/ (sent.kind = "ok" /\ ~sent.more)
    PROVE  Answered(job, read, <<sent>>)
  <1>1. Follows(job, read, sent, "nothing")
    BY DEF Follows
  <1>2. read \in Reads \ {"nothing"}
    BY DEF Reads
  <1> QED
    BY <1>1, <1>2, AnsweredByOne

LEMMA AnsweredToExec ==
    ASSUME NEW answer \in Statement \cup Several \cup Tables
    PROVE  Answered("exec", "header", answer)
  <1> DEFINE err == Packet("err")
             warning == [Ok EXCEPT !.warned = TRUE]
             ok == More(Ok)
  <1>1. /\ err \in BarePackets /\ Ok \in BarePackets
        /\ warning \in BarePackets /\ ok \in BarePackets
    BY Bare DEF Kinds
  <1>2. /\ err.kind = "err" /\ Ok.kind = "ok" /\ warning.kind = "ok" /\ ok.kind = "ok"
        /\ ~Ok.more /\ ~warning.more /\ ok.more
    BY PacketFields
  <1> HIDE DEF err, warning, ok
  <1>3. <<ok>> \in Seq(BarePackets) /\ <<Ok>> \in Seq(BarePackets)
    BY <1>1
  <1>4. ASSUME NEW sent \in {Ok, warning, err}
        PROVE  Answered("exec", "header", <<sent>>)
    <2>1. sent \in BarePackets /\ (sent.kind = "err" \/ (sent.kind = "ok" /\ ~sent.more))
      BY <1>1, <1>2
    <2> QED
      BY <2>1, AnsweredToStatement
  <1>5. ASSUME NEW further \in Seq(BarePackets), Answered("exec", "moreHeader", further)
        PROVE  Answered("exec", "header", <<ok>> \o further)
    <2>1. Follows("exec", "header", ok, "moreHeader")
      BY <1>2 DEF Follows
    <2>2. "header" \in Reads \ {"nothing"}
      BY DEF Reads
    <2> QED
      BY <1>1, <1>5, <2>1, <2>2, AnsweredFurther
  <1>6. ASSUME NEW sent \in {Ok, warning, err}
        PROVE  Answered("exec", "header", <<ok, sent>>)
    <2>1. /\ Follows("exec", "header", ok, "moreHeader")
          /\ Follows("exec", "moreHeader", sent, "nothing")
      BY <1>2 DEF Follows
    <2>2. "header" \in Reads \ {"nothing"} /\ "moreHeader" \in Reads \ {"nothing"}
      BY DEF Reads
    <2> QED
      BY <2>1, <2>2, AnsweredByTwo
  <1>7. ASSUME NEW table \in Tables
        PROVE  Answered("exec", "header", table) /\ Answered("exec", "header", <<ok>> \o table)
    BY <1>5, AnsweredByTables
  <1>8. ASSUME NEW table \in FirstTables
        PROVE  /\ Answered("exec", "header", table \o <<Ok>>)
               /\ Answered("exec", "header", <<ok>> \o table \o <<Ok>>)
    <2>1. /\ Answered("exec", "header", table \o <<Ok>>)
          /\ Answered("exec", "moreHeader", table \o <<Ok>>)
          /\ table \in Seq(BarePackets)
      BY AnsweredByTableAndOk
    <2>2. table \o <<Ok>> \in Seq(BarePackets)
      BY <1>3, <2>1, Joined
    <2>3. Answered("exec", "header", <<ok>> \o (table \o <<Ok>>))
      BY <1>5, <2>1, <2>2
    <2>4. <<ok>> \o table \o <<Ok>> = <<ok>> \o (table \o <<Ok>>)
      <3> DEFINE first == <<ok>>
                 last == <<Ok>>
      <3>1. first \in Seq(BarePackets) /\ last \in Seq(BarePackets)
        BY <1>3
      <3> HIDE DEF first, last
      <3>2. first \o table \o last = first \o (table \o last)
        BY <2>1, <3>1, Regrouped
      <3> QED
        BY <3>2 DEF first, last
    <2> QED
      BY <2>1, <2>3, <2>4
  <1>9. \/ answer \in {<<Ok>>, <<warning>>, <<err>>}
        \/ answer \in {<<ok, Ok>>, <<ok, warning>>, <<ok, err>>}
        \/ answer \in Tables
        \/ \E table \in Tables : answer = <<ok>> \o table
        \/ \E table \in FirstTables : answer = table \o <<Ok>> \/ answer = <<ok>> \o table \o <<Ok>>
    BY DEF Statement, Several, err, warning, ok
  <1>10. CASE answer \in {<<Ok>>, <<warning>>, <<err>>}
    BY <1>4, <1>10
  <1>11. CASE answer \in {<<ok, Ok>>, <<ok, warning>>, <<ok, err>>}
    BY <1>6, <1>11
  <1> QED
    BY <1>7, <1>8, <1>9, <1>10, <1>11

LEMMA AnswersAnswered ==
    ASSUME NEW kind \in Requests \ {"none"}, AsksFor(kind), NEW answer \in Answers(kind)
    PROVE  Answered(task, await, answer)
  <1>1. CASE kind = "connect"
    <2>1. await = "handshake" /\ "handshake" \in Reads \ {"nothing"}
      BY <1>1 DEF AsksFor, Reads
    <2>2. \A sent : Follows(task, "handshake", sent, "nothing")
      BY DEF Follows
    <2>3. \E sent : answer = <<sent>>
      BY <1>1 DEF Answers
    <2> QED
      BY <2>1, <2>2, <2>3, AnsweredByOne
  <1>2. CASE kind \in {"auth", "switch"}
    <2>1. await = "authResult" /\ "authResult" \in Reads \ {"nothing"}
      BY <1>2 DEF AsksFor, Reads
    <2>2. PICK sent : /\ answer = <<sent>>
                      /\ \/ sent = Ok \/ sent = Packet("err")
                         \/ \E plugin \in Plugins : sent = [Packet("switch") EXCEPT !.what = plugin]
      BY <1>2 DEF Answers
    <2>3. sent.kind = "ok" => ~sent.more /\ ~sent.warned
      <3>1. CASE sent = Ok
        BY <3>1, PacketFields
      <3>2. CASE sent = Packet("err")
        <4>1. sent.kind = "err"
          BY <3>2, PacketFields
        <4> QED
          BY <4>1
      <3>3. ASSUME NEW plugin \in Plugins, sent = [Packet("switch") EXCEPT !.what = plugin]
            PROVE  sent.kind # "ok"
        BY <3>3 DEF Packet
      <3> QED
        BY <2>2, <3>1, <3>2, <3>3
    <2>4. Follows(task, "authResult", sent, "nothing")
      BY <2>3 DEF Follows
    <2> QED
      BY <2>1, <2>2, <2>4, AnsweredByOne
  <1>3. CASE kind = "var"
    <2>1. task = "var" /\ await = "header"
      BY <1>3 DEF AsksFor
    <2>2. Follows("var", "header", Packet("err"), "nothing")
      BY PacketFields DEF Follows
    <2>3. "header" \in Reads \ {"nothing"}
      BY DEF Reads
    <2>4. Answered("var", "header", <<Packet("err")>>)
      BY <2>2, <2>3, AnsweredByOne
    <2>5. answer = Table(1, Packet("eof")) \/ answer = <<Packet("err")>>
      BY <1>3 DEF Answers
    <2> QED
      BY <2>1, <2>4, <2>5, AnsweredToVar
  <1>4. CASE kind = "warnings"
    <2>1. await = "warnHeader"
      BY <1>4 DEF AsksFor
    <2>2. Follows(task, "warnHeader", Packet("err"), "nothing")
      BY PacketFields DEF Follows
    <2>3. "warnHeader" \in Reads \ {"nothing"}
      BY DEF Reads
    <2>4. Answered(task, "warnHeader", <<Packet("err")>>)
      BY <2>2, <2>3, AnsweredByOne
    <2>5. answer \in Tables \/ answer = <<Packet("err")>>
      BY <1>4 DEF Answers
    <2> QED
      BY <2>1, <2>4, <2>5, AnsweredByTables
  <1>5. CASE kind = "set"
    <2>1. task = "params" /\ await = "header"
      BY <1>5 DEF AsksFor
    <2>2. PICK sent \in {Ok, [Ok EXCEPT !.warned = TRUE], Packet("err")} : answer = <<sent>>
      BY <1>5 DEF Answers, Statement
    <2>3. sent \in BarePackets
      BY <2>2, Bare DEF Kinds
    <2>4. sent.kind = "err" \/ (sent.kind = "ok" /\ ~sent.more)
      BY <2>2, PacketFields
    <2> QED
      BY <2>1, <2>2, <2>3, <2>4, AnsweredToStatement
  <1>6. CASE kind = "exec"
    <2>1. task = "exec" /\ await = "header"
      BY <1>6 DEF AsksFor
    <2>2. answer \in Statement \cup Several \cup Tables
      BY <1>6 DEF Answers
    <2> QED
      BY <2>1, <2>2, AnsweredToExec
  <1> QED
    BY <1>1, <1>2, <1>3, <1>4, <1>5, <1>6 DEF Requests

(* Numbering the packets and naming who they are for changes nothing.      *)
LEMMA AnsweredAlike ==
    ASSUME NEW job, NEW read, NEW packets, NEW others,
           Answered(job, read, packets), Len(others) = Len(packets),
           \A n \in 1 .. Len(packets) :
               /\ others[n].kind = packets[n].kind /\ others[n].more = packets[n].more
               /\ others[n].warned = packets[n].warned
    PROVE  Answered(job, read, others)
  <1>1. PICK reads \in Seq(Reads \cup {"left"}) :
            /\ Len(reads) = Len(packets) + 1
            /\ reads[1] = read /\ reads[Len(packets) + 1] = "nothing"
            /\ \A n \in 1 .. Len(packets) :
                   reads[n] # "nothing" /\ Follows(job, reads[n], packets[n], reads[n + 1])
    BY DEF Answered
  <1>2. ASSUME NEW n \in 1 .. Len(packets)
        PROVE  reads[n] # "nothing" /\ Follows(job, reads[n], others[n], reads[n + 1])
    <2>1. reads[n] # "nothing" /\ Follows(job, reads[n], packets[n], reads[n + 1])
      BY <1>1
    <2>2. /\ others[n].kind = packets[n].kind /\ others[n].more = packets[n].more
          /\ others[n].warned = packets[n].warned
      OBVIOUS
    <2>3. ASSUME NEW a, NEW b, NEW one, NEW other, Follows(job, a, one, b),
                 other.kind = one.kind, other.more = one.more, other.warned = one.warned
          PROVE  Follows(job, a, other, b)
      BY <2>3 DEF Follows
    <2> QED
      BY <2>1, <2>2, <2>3
  <1> QED
    BY <1>1, <1>2 DEF Answered

LEMMA ReplyTalks ==
    ASSUME Talk, Reply, ~wrapped'
    PROVE  Flow' /\ Conversation' /\ InSyncUnlessTLS' /\ ~mixed'
  <1>1. /\ UNCHANGED <<config, task, await, result, why, trying, netConn, open, layer, sequence,
                       execs, commands, mixed, security>>
        /\ request # NoRequest /\ open /\ request' = NoRequest
    BY DEF Reply, outcome, params, socket
  <1>2. PICK answer \in Answers(request.kind) :
            /\ wire' = wire \o Sent(answer)
            /\ request.kind = "exec" => ~(Len(answer) > SeqMod)
    BY DEF Reply
  <1>3. /\ Fine(answer) /\ Sent(answer) \in Seq(Packets) /\ Len(Sent(answer)) = Len(answer)
        /\ \A n \in 1 .. Len(answer) :
               /\ Sent(answer)[n].kind = answer[n].kind
               /\ Sent(answer)[n].more = answer[n].more
               /\ Sent(answer)[n].warned = answer[n].warned
               /\ Sent(answer)[n].seq = (request.seq + n) % SeqMod
               /\ Sent(answer)[n].to = commands /\ Sent(answer)[n].layer = security
    BY <1>1, SentTyped DEF Talk
  <1>4. Len(answer) \in Nat \ {0} /\ Sent(answer) # <<>>
    BY <1>3 DEF Fine
  <1>5. Flow' /\ InSyncUnlessTLS' /\ ~mixed'
    BY <1>1 DEF Talk, Flow, InSyncUnlessTLS
  <1>6. netConn /\ task \notin {"dial", "ended"}
    BY <1>1 DEF Talk, Flow
  <1>7. CASE layer = "tls"
    <2>1. /\ task = "auth" /\ config.tls /\ await = "authResult" /\ sequence = 3
          /\ \A n \in 1 .. Len(wire) : wire[n].layer = "tls"
      BY <1>1, <1>6, <1>7 DEF Talk, Conversation, Veiled, Quiet
    <2>2. security = "tls" /\ wire \in Seq(Packets)
      BY <1>7 DEF Talk, Conversation, Typed, LinkTyped
    <2>3. \A n \in 1 .. Len(Sent(answer)) : Sent(answer)[n].layer = "tls"
      BY <1>3, <2>2
    <2>4. ASSUME NEW n \in 1 .. Len(wire') PROVE wire'[n].layer = "tls"
      BY <1>2, <1>3, <2>1, <2>2, <2>3
    <2>5. Veiled'
      <3>1. request'.kind = "none"
        BY <1>1 DEF NoRequest
      <3> QED
        BY <1>1, <2>1, <2>4, <3>1 DEF Veiled
    <2> QED
      BY <1>1, <1>5, <1>7, <2>1, <2>5 DEF Talk, Conversation
  <1>8. CASE layer # "tls" /\ Pending
    <2>1. security = "raw" /\ request.kind \in Requests \ {"none"} /\ request.seq \in Nat
      BY <1>1, <1>8, AskedFields, SeqModAssumption
      DEF Talk, Conversation, Typed, LinkTyped, Layers, Numbers
    <2>2. wire' = Sent(answer)
      BY <1>2, <1>3, <1>8 DEF Pending
    <2>3. Answered(task', await', wire')
      <3>1. Answered(task, await, answer)
        BY <1>8, <2>1, AnswersAnswered DEF Pending
      <3>2. Answered(task, await, Sent(answer))
        BY <1>3, <3>1, AnsweredAlike
      <3> QED
        BY <1>1, <2>2, <3>2
    <2>4. Numbered(task', await', sequence', wire')
      <3>1. sequence' = (request.seq + 1) % SeqMod
        BY <1>1, <1>8 DEF Pending
      <3>2. task' = "exec" /\ await' \in FirstReads => request.seq + Len(wire') <= SeqMod
        <4>1. Len(wire') = Len(answer)
          BY <1>3, <2>2
        <4>2. SUFFICES ASSUME task' = "exec", await' \in FirstReads
                       PROVE  request.seq + Len(answer) <= SeqMod
          BY <4>1
        <4>3. request.seq = 0 /\ request.kind = "exec"
          BY <1>1, <1>8, <2>1, <4>2 DEF Pending, AsksFor, FirstReads, Requests
        <4>4. ~(Len(answer) > SeqMod)
          BY <1>2, <4>3
        <4> QED
          BY <1>4, <4>3, <4>4, SeqModAssumption
      <3>3. \A n \in 1 .. Len(wire') : wire'[n].seq = (request.seq + n) % SeqMod
        BY <1>3, <2>2
      <3> QED
        BY <2>1, <3>1, <3>2, <3>3 DEF Numbered
    <2>5. \A n \in 1 .. Len(wire') : wire'[n].to = commands' /\ wire'[n].layer = "raw"
      BY <1>1, <1>3, <2>1, <2>2
    <2>6. Arriving'
      BY <1>1, <1>4, <2>2, <2>3, <2>4, <2>5 DEF Arriving
    <2> QED
      BY <1>1, <1>5, <1>6, <1>8, <2>6 DEF Talk, Conversation
  <1>9. CASE layer # "tls" /\ Stuck
    <2>1. wire \in Seq(Packets) /\ wire # <<>> /\ Sent(answer) \in Seq(Packets)
      BY <1>3, <1>9 DEF Talk, Typed, LinkTyped, Stuck
    <2>2. Head(wire') = Head(wire) /\ wire' # <<>>
      BY <1>2, <2>1
    <2>3. Stuck'
      BY <1>1, <1>9, <2>2 DEF Stuck, Number
    <2> QED
      BY <1>1, <1>5, <1>6, <1>9, <2>3 DEF Talk, Conversation
  <1> QED
    BY <1>1, <1>5, <1>6, <1>7, <1>8, <1>9
    DEF Talk, Conversation, Quiet, Arriving, LeftOver


LEMMA IdleQuiet ==
    ASSUME Talk, netConn, layer = "raw", await \in {"nothing", "showWarnings"}
    PROVE  Quiet \/ LeftOver
  <1>1. ~Pending
    <2>1. request # NoRequest => request.kind \in Requests \ {"none"}
      BY AskedFields DEF Talk, Typed, LinkTyped
    <2> QED
      BY <2>1 DEF Pending, AsksFor, Requests
  <1>2. ~Arriving
    <2>1. SUFFICES ASSUME Arriving PROVE FALSE
      OBVIOUS
    <2>2. Len(wire) \in Nat \ {0}
      BY <2>1 DEF Arriving, Talk, Typed, LinkTyped
    <2>3. PICK reads : /\ reads[1] = await
                       /\ \A n \in 1 .. Len(wire) :
                              /\ reads[n] # "nothing"
                              /\ Follows(task, reads[n], wire[n], reads[n + 1])
      BY <2>1 DEF Arriving, Answered
    <2>4. await # "nothing" /\ Follows(task, await, wire[1], reads[1 + 1])
      BY <2>2, <2>3
    <2> QED
      BY <2>4, FollowsRead
  <1> QED
    BY <1>1, <1>2 DEF Talk, Conversation, Stuck

LEMMA WritesTalks ==
    ASSUME Talk, Wide, UNCHANGED config, await \in {"nothing", "showWarnings"},
           NEW kind \in {"auth", "switch", "var", "set", "warnings", "exec"},
           NEW statement, NEW number \in Numbers, NEW read, NEW newTask,
           Writes(kind, statement, number, newTask, read),
           \/ kind = "auth" /\ task = "auth" /\ newTask = "auth" /\ read = "authResult"
           \/ kind = "switch" /\ task = "retry" /\ newTask = "retry" /\ read = "authResult"
           \/ kind = "var" /\ task = "var" /\ newTask = "var" /\ read = "header"
           \/ kind = "set" /\ task = "params" /\ newTask = "params" /\ read = "header"
           \/ kind = "exec" /\ task = "ready" /\ newTask = "exec" /\ read = "header"
           \/ kind = "warnings" /\ task \in Asking /\ newTask = task /\ read = "warnHeader"
              /\ await = "showWarnings",
           kind = "auth" => number = sequence,
           kind = "set" => trying # <<>>,
           kind \in {"exec", "warnings"} => number = 0,
           kind = "exec" => execs' > 0,
           task = "exec" => execs' = execs
    PROVE  Flow' /\ Conversation' /\ InSyncUnlessTLS' /\ ~mixed'
  <1>1. /\ UNCHANGED <<layer, mixed, link, wire, security>>
        /\ ~mixed' /\ task \notin {"dial", "handshake", "ended"}
    BY DEF Writes, server, Talk, Asking
  <1>2. CASE ~netConn
    <2>1. /\ UNCHANGED <<task, await, result, why, trying, netConn, open, sequence, commands,
                         request>>
          /\ task = "params"
      BY <1>1, <1>2 DEF Writes, outcome, params, socket, Talk, Flow
    <2>2. Flow'
      BY <2>1 DEF Talk, Flow
    <2>3. Conversation'
      BY <1>1, <1>2, <2>1 DEF Talk, Conversation
    <2> QED
      BY <1>1, <2>1, <2>2, <2>3 DEF Talk, InSyncUnlessTLS
  <1>3. ASSUME netConn, Fails(FALSE, "badConn"), UNCHANGED request
        PROVE  Flow' /\ Conversation' /\ InSyncUnlessTLS'
    <2>1. ASSUME Len(trying) > 1 PROVE Quiet'
      <3>1. task = "params"
        <4>1. trying # <<>>
          BY <2>1
        <4> QED
          BY <1>1, <4>1 DEF Talk, Flow
      <3>2. layer = "raw"
        BY <1>3, <3>1 DEF Talk, Conversation, Veiled, Typed, LinkTyped, Layers
      <3>3. Quiet
        BY <1>3, <3>1, <3>2, IdleQuiet DEF LeftOver
      <3> QED
        BY <1>1, <1>3, <3>3 DEF Quiet
    <2> QED
      BY <1>1, <1>3, <2>1, FailsTalks
  <1>4. ASSUME netConn, Calls(newTask, read), sequence' = NextSequence(number),
               request' = IF link = "lost" THEN NoRequest
                          ELSE [kind |-> kind, seq |-> number,
                                var |-> statement.var, value |-> statement.value]
        PROVE  Flow' /\ Conversation' /\ InSyncUnlessTLS'
    <2>1. /\ task' = newTask /\ await' = read
          /\ UNCHANGED <<result, why, trying, netConn, open>>
      BY <1>4 DEF Calls, params, socket
    <2>2. /\ read \notin {"nothing", "handshake"}
          /\ newTask \notin {"dial", "handshake", "ended", "ready"}
          /\ newTask # task => task = "ready" /\ newTask = "exec" /\ kind = "exec"
          /\ newTask = "params" => trying # <<>>
      BY <1>1 DEF Asking, Talk, Flow
    <2>3. task \in Asking \cup {"ready"}
      BY DEF Asking
    <2>4. Flow'
      <3>1. newTask = task => Flow'
        BY <1>4, <2>1, <2>2 DEF Talk, Flow
      <3>2. newTask # task => Flow'
        BY <1>4, <2>1, <2>2 DEF Talk, Flow
      <3> QED
        BY <3>1, <3>2
    <2>5. InSyncUnlessTLS'
      BY <2>1 DEF Talk, InSyncUnlessTLS
    <2>6. CASE layer = "tls"
      <3>1. task = "auth" /\ config.tls /\ kind \in {"auth", "warnings"}
        BY <1>4, <2>6 DEF Talk, Conversation, Veiled
      <3>2. await = "nothing" /\ Quiet /\ sequence = 2 /\ kind = "auth"
        BY <1>4, <2>6, <3>1 DEF Talk, Conversation, Veiled
      <3>3. sequence' = 3
        BY <1>4, <3>2, Small DEF NextSequence
      <3>4. wire' = <<>>
        BY <1>1, <3>2 DEF Quiet
      <3>5. \A n \in 1 .. Len(wire') : wire'[n].layer = "tls"
        BY <3>4
      <3>6. request'.kind # "exec"
        BY <1>4, <3>2 DEF NoRequest
      <3>7. Veiled'
        BY <2>1, <3>1, <3>2, <3>3, <3>5, <3>6 DEF Veiled
      <3> QED
        BY <1>1, <2>1, <2>2, <2>4, <2>5, <2>6, <3>7 DEF Talk, Conversation
    <2>7. CASE layer # "tls"
      <3>1. layer = "raw"
        BY <2>7 DEF Talk, Typed, LinkTyped, Layers
      <3>2. CASE Quiet /\ link = "lost"
        <4>1. Quiet'
          BY <1>1, <1>4, <3>2 DEF Quiet
        <4> QED
          BY <1>1, <2>1, <2>2, <2>4, <2>5, <2>7, <4>1 DEF Talk, Conversation
      <3>3. CASE Quiet /\ link # "lost"
        <4>1. /\ request'.kind = kind /\ request'.seq = number /\ request' # NoRequest
              /\ wire' = <<>>
          BY <1>1, <1>4, <3>3 DEF Quiet, NoRequest
        <4>2. /\ kind # "connect"
              /\ kind \in {"auth", "switch"} => await' = "authResult"
              /\ kind = "var" => task' = "var" /\ await' = "header"
              /\ kind = "set" => task' = "params" /\ await' = "header"
              /\ kind = "exec" => task' = "exec" /\ await' = "header"
              /\ kind = "warnings" => await' = "warnHeader"
          BY <2>1
        <4>3. sequence' = (number + 1) % SeqMod
          BY <1>4 DEF NextSequence
        <4>4. task' = "exec" => number = 0
          BY <2>1
        <4>5. Pending'
          BY <4>1, <4>2, <4>3, <4>4 DEF Pending, AsksFor
        <4> QED
          BY <1>1, <2>1, <2>2, <2>4, <2>5, <2>7, <4>5 DEF Talk, Conversation
      <3>4. CASE LeftOver
        <4>1. /\ kind = "exec" /\ newTask = "exec" /\ read = "header"
          BY <3>4 DEF LeftOver, Asking
        <4>2. sequence' = 1 % SeqMod
          BY <1>4, <4>1 DEF NextSequence
        <4>3. Number(Head(wire')) # 1 % SeqMod /\ wire' # <<>>
          BY <1>1, <3>4 DEF LeftOver, Number
        <4>4. Stuck'
          BY <2>1, <4>1, <4>2, <4>3 DEF Stuck, Number
        <4> QED
          BY <1>1, <2>1, <2>2, <2>4, <2>5, <2>7, <4>4 DEF Talk, Conversation
      <3> QED
        BY <1>4, <3>1, <3>2, <3>3, <3>4, IdleQuiet
    <2> QED
      BY <2>6, <2>7
  <1> QED
    BY <1>1, <1>2, <1>3, <1>4 DEF Writes


LEMMA InitTalks ==
    ASSUME Init
    PROVE  Talk
  <1>1. Flow
    BY DEF Init, Flow
  <1>2. Conversation
    BY DEF Init, Conversation, Quiet
  <1>3. Working
    BY DEF Init, Working
  <1>4. InSyncUnlessTLS /\ ~mixed
    BY DEF Init, InSyncUnlessTLS
  <1> QED
    BY <1>1, <1>2, <1>3, <1>4, InitTyped DEF Talk

LEMMA DialTalks ==
    ASSUME Talk, Dial
    PROVE  Flow' /\ Conversation' /\ InSyncUnlessTLS' /\ ~mixed'
  <1>1. /\ task = "dial" /\ ~mixed' /\ result = "none" /\ ~netConn /\ trying = <<>>
        /\ layer = "raw" /\ Quiet /\ sequence = 0 /\ layer = security
        /\ UNCHANGED <<config, trying, layer, sequence, execs, wire, security>>
    BY DEF Dial, Talk, Flow, Conversation, local, params, server
  <1>2. await \notin {"handshake"}
    BY <1>1 DEF Talk, Flow
  <1>3. CASE /\ task' = "handshake" /\ await' = "handshake" /\ netConn' = TRUE /\ open' = TRUE
             /\ request' = [kind |-> "connect", seq |-> SeqMod - 1]
             /\ UNCHANGED <<result, why>>
    <2>1. Flow'
      BY <1>1, <1>3 DEF Talk, Flow
    <2>2. /\ request'.kind = "connect" /\ request'.seq = SeqMod - 1 /\ request' # NoRequest
          /\ wire' = <<>>
      BY <1>1, <1>3 DEF NoRequest, Quiet
    <2>3. sequence' = (request'.seq + 1) % SeqMod
      BY <1>1, <2>2, SeqModAssumption
    <2>4. Pending'
      BY <1>3, <2>2, <2>3 DEF Pending, AsksFor
    <2>5. Conversation'
      BY <1>1, <1>3, <2>4 DEF Conversation
    <2>6. InSyncUnlessTLS'
      BY <1>1, <1>3 DEF Talk, InSyncUnlessTLS
    <2> QED
      BY <1>1, <2>1, <2>5, <2>6
  <1>4. CASE /\ task' = "ended" /\ result' = "error" /\ why' = "dial"
             /\ Closes /\ UNCHANGED <<await, request>>
    <2>1. Flow'
      BY <1>1, <1>2, <1>4 DEF Flow, Closes
    <2>2. Conversation'
      BY <1>1, <1>4 DEF Conversation, Closes
    <2>3. InSyncUnlessTLS'
      BY <1>4 DEF InSyncUnlessTLS
    <2> QED
      BY <1>1, <2>1, <2>2, <2>3
  <1> QED
    BY <1>3, <1>4 DEF Dial

(* A packet that cannot be read, and one that is not the next.             *)
LEMMA ReadFailsTalks ==
    ASSUME Talk, ReadFails
    PROVE  Flow' /\ Conversation' /\ InSyncUnlessTLS' /\ ~mixed'
  <1>1. /\ netConn /\ Fails(TRUE, "badConn") /\ ~mixed'
        /\ UNCHANGED <<config, layer, security>>
    BY DEF ReadFails, Waits, local, server, Talk
  <1> QED
    BY <1>1, FailsTalks

LEMMA OutOfSyncTalks ==
    ASSUME Talk, OutOfSync
    PROVE  Flow' /\ Conversation' /\ InSyncUnlessTLS' /\ ~mixed'
  <1>1. /\ netConn /\ Fails(FALSE, "sync") /\ ~mixed' /\ wire # <<>>
        /\ Number(Head(wire)) # sequence /\ await # "nothing"
        /\ UNCHANGED <<config, layer, security>>
    BY DEF OutOfSync, Waits, InSync, local, server, Talk
  <1>2. CASE layer = "tls"
    <2>1. task = "auth" /\ config.tls
      BY <1>1, <1>2 DEF Talk, Conversation, Veiled
    <2>2. trying = <<>>
      BY <2>1 DEF Talk, Flow
    <2>3. ~(Len(trying) > 1)
      BY <2>2
    <2> QED
      BY <1>1, <2>1, <2>3, FailsTalks
  <1>3. CASE layer # "tls"
    <2>1. task # "ready"
      BY <1>1 DEF Talk, Working, Flow, Asking
    <2>2. ~Arriving
      <3>1. SUFFICES ASSUME Arriving PROVE FALSE
        OBVIOUS
      <3>2. PICK base \in Nat :
                /\ sequence = (base + 1) % SeqMod
                /\ \A n \in 1 .. Len(wire) : wire[n].seq = (base + n) % SeqMod
        BY <3>1 DEF Arriving, Numbered
      <3>3. 1 \in 1 .. Len(wire) /\ Head(wire) = wire[1]
        BY <1>1 DEF Talk, Typed, LinkTyped
      <3>4. wire[1].layer = "raw"
        BY <3>1, <3>3 DEF Arriving
      <3> QED
        BY <1>1, <3>2, <3>3, <3>4 DEF Number
    <2>3. task = "exec"
      BY <1>1, <1>3, <2>1, <2>2 DEF Talk, Conversation, Quiet, Pending, LeftOver, Stuck
    <2>4. trying = <<>> /\ result = "connected"
      BY <2>3 DEF Talk, Flow
    <2>5. ~(Len(trying) > 1)
      BY <2>4
    <2> QED
      BY <1>1, <2>4, <2>5, FailsTalks
  <1> QED
    BY <1>2, <1>3

(* Before the authentication is written.                                   *)
LEMMA UnknownCollationTalks ==
    ASSUME Talk, UnknownCollation
    PROVE  Flow' /\ Conversation' /\ InSyncUnlessTLS' /\ ~mixed'
  <1>1. /\ task = "auth" /\ Fails(FALSE, "collation") /\ ~mixed'
        /\ UNCHANGED <<config, layer, security>>
    BY DEF UnknownCollation, local, server, Talk
  <1>2. netConn /\ trying = <<>>
    BY <1>1 DEF Talk, Flow
  <1>3. ~(Len(trying) > 1)
    BY <1>2
  <1> QED
    BY <1>1, <1>2, <1>3, FailsTalks

LEMMA SwitchToTLSTalks ==
    ASSUME Talk, Wide, SwitchToTLS
    PROVE  Flow' /\ Conversation' /\ InSyncUnlessTLS' /\ ~mixed'
  <1>1. /\ task = "auth" /\ await = "nothing" /\ config.tls /\ layer = "raw" /\ ~mixed'
        /\ UNCHANGED <<config, execs, request, wire>>
    BY DEF SwitchToTLS, local, Talk
  <1>2. netConn /\ trying = <<>> /\ sequence = 1
    BY <1>1 DEF Talk, Flow, Conversation
  <1>3. CASE Fails(FALSE, "handshake") /\ UNCHANGED <<layer, security>>
    <2>1. ~(Len(trying) > 1)
      BY <1>2
    <2> QED
      BY <1>1, <1>2, <1>3, <2>1, FailsTalks
  <1>4. CASE /\ layer' = "tls" /\ security' = "tls" /\ sequence' = NextSequence(sequence)
             /\ UNCHANGED outcome
    <2>1. UNCHANGED <<task, await, result, why, trying, netConn, open>>
      BY <1>4 DEF outcome, params, socket
    <2>2. Quiet
      BY <1>1, <1>2, IdleQuiet DEF LeftOver
    <2>3. sequence' = 2
      BY <1>2, <1>4, Small DEF NextSequence
    <2>4. Veiled'
      BY <1>1, <2>1, <2>2, <2>3 DEF Veiled, Quiet
    <2>5. Conversation'
      BY <1>1, <1>4, <2>1, <2>4 DEF Conversation
    <2>6. Flow' /\ InSyncUnlessTLS'
      BY <1>1, <2>1 DEF Talk, Flow, InSyncUnlessTLS
    <2> QED
      BY <1>1, <2>5, <2>6
  <1> QED
    BY <1>3, <1>4 DEF SwitchToTLS

(* The actions that write.                                                 *)
LEMMA CallersTalk ==
    ASSUME Talk, Wide,
           \/ WriteAuthPacket \/ WriteOtherAuthPacket \/ ShowWarnings
           \/ GetSystemVar \/ ExecParam \/ Exec
    PROVE  Flow' /\ Conversation' /\ InSyncUnlessTLS' /\ ~mixed'
  <1>1. 0 \in Numbers /\ sequence \in Numbers
    BY SeqModAssumption DEF Talk, Typed, CountsTyped, Numbers
  <1>2. CASE WriteAuthPacket
    BY <1>1, <1>2, WritesTalks DEF WriteAuthPacket, local
  <1>3. CASE WriteOtherAuthPacket
    BY <1>1, <1>3, WritesTalks DEF WriteOtherAuthPacket, local
  <1>4. CASE ShowWarnings
    <2>1. task \in Asking
      BY <1>4 DEF ShowWarnings, Talk, Working
    <2> QED
      BY <1>1, <1>4, <2>1, WritesTalks DEF ShowWarnings, local
  <1>5. CASE GetSystemVar
    BY <1>1, <1>5, WritesTalks DEF GetSystemVar, Commands, local
  <1>6. CASE ExecParam
    BY <1>1, <1>6, WritesTalks DEF ExecParam, Commands, local
  <1>7. CASE Exec
    <2>1. await = "nothing"
      BY <1>7 DEF Exec, Talk, Working, Flow, Asking
    <2>2. execs' > 0
      BY <1>7 DEF Exec, Talk, Typed, CountsTyped
    <2> QED
      BY <1>1, <1>7, <2>1, <2>2, WritesTalks DEF Exec, Commands
  <1> QED
    BY <1>2, <1>3, <1>4, <1>5, <1>6, <1>7

(* The rest changes neither the wire nor the socket, but for Close.        *)
LEMMA OthersTalk ==
    ASSUME Talk, \/ NextParam \/ Connected \/ Close \/ LinkFails \/ UNCHANGED vars
    PROVE  Flow' /\ Conversation' /\ InSyncUnlessTLS' /\ ~mixed'
  <1>1. CASE NextParam
    <2>1. /\ UNCHANGED <<config, task, await, result, why, netConn, open, layer, sequence,
                         execs, commands, mixed, request, wire, security>>
          /\ task = "params" /\ await = "nothing" /\ trying = <<>>
      BY <1>1 DEF NextParam, local, socket, server
    <2>2. netConn
      BY <2>1 DEF Talk, Flow
    <2>3. layer # "tls"
      BY <2>1, <2>2 DEF Talk, Conversation, Veiled
    <2>4. Quiet
      BY <2>1, <2>2, <2>3, IdleQuiet DEF LeftOver, Talk, Typed, LinkTyped, Layers
    <2>5. Flow' /\ InSyncUnlessTLS' /\ ~mixed'
      BY <2>1, <2>2 DEF Talk, Flow, InSyncUnlessTLS
    <2>6. Conversation'
      BY <2>1, <2>3, <2>4 DEF Talk, Conversation, Quiet
    <2> QED
      BY <2>5, <2>6
  <1>2. CASE Connected
    <2>1. /\ UNCHANGED <<config, await, why, trying, netConn, open, layer, sequence,
                         execs, commands, mixed, request, wire, security>>
          /\ task = "params" /\ await = "nothing" /\ trying = <<>>
          /\ task' = "ready" /\ result' = "connected"
      BY <1>2 DEF Connected, local, params, socket, server
    <2>2. netConn
      BY <2>1 DEF Talk, Flow
    <2>3. layer # "tls"
      BY <2>1, <2>2 DEF Talk, Conversation, Veiled
    <2>4. Quiet
      BY <2>1, <2>2, <2>3, IdleQuiet DEF LeftOver, Talk, Typed, LinkTyped, Layers
    <2>5. Flow' /\ InSyncUnlessTLS' /\ ~mixed'
      BY <2>1, <2>2 DEF Talk, Flow, InSyncUnlessTLS
    <2>6. Conversation'
      BY <2>1, <2>3, <2>4 DEF Talk, Conversation, Quiet
    <2> QED
      BY <2>5, <2>6
  <1>3. CASE Close
    <2>1. /\ UNCHANGED <<config, await, result, why, layer, mixed, security>>
          /\ task = "ready" /\ task' = "ended" /\ ~netConn' /\ ~open'
      BY <1>3 DEF Close, Closes, local, server
    <2> QED
      BY <2>1 DEF Talk, Flow, Conversation, InSyncUnlessTLS
  <1>4. CASE LinkFails \/ UNCHANGED vars
    <2>1. UNCHANGED <<config, task, await, result, why, trying, netConn, open, layer, sequence,
                      execs, commands, mixed, request, wire, security>>
      BY <1>4 DEF LinkFails, vars, outcome, params, socket, server
    <2>2. Flow' /\ InSyncUnlessTLS' /\ ~mixed'
      BY <2>1 DEF Talk, Flow, InSyncUnlessTLS
    <2>3. Veiled => Veiled'
      BY <2>1 DEF Veiled, Quiet
    <2>4. Quiet \/ Pending \/ Stuck \/ LeftOver => (Quiet \/ Pending \/ Stuck \/ LeftOver)'
      BY <2>1 DEF Quiet, Pending, AsksFor, LeftOver, Stuck, Number
    <2>5. Arriving => Arriving'
      BY <2>1 DEF Arriving
    <2> QED
      BY <2>1, <2>2, <2>3, <2>4, <2>5 DEF Talk, Conversation, Quiet
  <1> QED
    BY <1>1, <1>2, <1>3, <1>4

LEMMA NextTalk ==
    ASSUME Talk, Wide, ~wrapped', [Next]_vars
    PROVE  Talk'
  <1>1. Typed' /\ Working'
    BY NextTyped DEF Talk
  <1>2. \/ Dial \/ ReadFails \/ OutOfSync
        \/ ReadInitPacket \/ UnknownCollation \/ SwitchToTLS
        \/ WriteAuthPacket \/ WriteOtherAuthPacket
        \/ ReadResultOK \/ ReadResultSetHeader \/ ReadUntilEOF \/ ReadValue
        \/ ShowWarnings \/ ReadWarnings
        \/ GetSystemVar \/ NextParam \/ ExecParam \/ Connected
        \/ Exec \/ Close \/ Reply \/ LinkFails \/ UNCHANGED vars
    BY DEF Next, Goroutine, Finished
  <1>3. Flow' /\ Conversation' /\ InSyncUnlessTLS' /\ ~mixed'
    BY <1>2, DialTalks, ReadFailsTalks, OutOfSyncTalks, UnknownCollationTalks, SwitchToTLSTalks,
       ReadsTalk, CallersTalk, ReplyTalks, OthersTalk
  <1> QED
    BY <1>1, <1>3 DEF Talk

(* When an answer to a statement of the caller is so long that its numbers *)
(* come round, NewMysqlConn has returned the connection long before.       *)
Late ==
    /\ wrapped /\ execs > 0 /\ result = "connected"
    /\ task \in {"ready", "exec", "ended"}
    /\ task # "ended" => trying = <<>>
    /\ task = "ended" => ~netConn
    /\ request.kind # "set" /\ await # "handshake"

LEMMA LateBegins ==
    ASSUME Talk, ~wrapped, wrapped', [Next]_vars
    PROVE  Late' /\ request.kind # "set" /\ result = "connected"
  <1>1. Reply
    <2>1. ~(Dial \/ ReadFails \/ OutOfSync \/ UnknownCollation \/ SwitchToTLS)
      BY DEF Dial, ReadFails, OutOfSync, UnknownCollation, SwitchToTLS, server
    <2>2. ~(ReadInitPacket \/ ReadResultOK \/ ReadResultSetHeader \/ ReadUntilEOF \/ ReadValue
             \/ ReadWarnings)
      BY DEF ReadInitPacket, ReadResultOK, ReadResultSetHeader, ReadUntilEOF, ReadValue,
             ReadWarnings, Receives, server
    <2>3. ~(WriteAuthPacket \/ WriteOtherAuthPacket \/ ShowWarnings \/ GetSystemVar \/ ExecParam
             \/ Exec)
      BY DEF WriteAuthPacket, WriteOtherAuthPacket, ShowWarnings, GetSystemVar, ExecParam, Exec,
             Commands, Writes, server
    <2>4. ~(NextParam \/ Connected \/ Close \/ LinkFails \/ Finished \/ UNCHANGED vars)
      BY DEF NextParam, Connected, Close, LinkFails, Finished, vars, server
    <2> QED
      BY <2>1, <2>2, <2>3, <2>4 DEF Next, Goroutine
  <1>2. /\ request.kind = "exec" /\ request # NoRequest /\ open /\ request' = NoRequest
        /\ UNCHANGED <<task, await, result, trying, netConn, execs>>
    BY <1>1 DEF Reply, outcome, params, socket
  <1>3. netConn
    BY <1>2 DEF Talk, Flow
  <1>4. layer # "tls"
    BY <1>2, <1>3 DEF Talk, Conversation, Veiled, Quiet
  <1>5. task = "exec"
    BY <1>2, <1>3, <1>4
    DEF Talk, Conversation, Quiet, Pending, AsksFor, Arriving, LeftOver, Stuck
  <1>6. /\ execs > 0 /\ result = "connected" /\ trying = <<>> /\ await # "handshake"
    BY <1>5 DEF Talk, Flow
  <1> QED
    BY <1>2, <1>5, <1>6 DEF Late, NoRequest

LEMMA FailsLate ==
    ASSUME Late, netConn, UNCHANGED <<wrapped, execs>>, request'.kind # "set",
           NEW closing, NEW error, Fails(closing, error)
    PROVE  Late'
  <1>1. ~(Len(trying) > 1)
    BY DEF Late
  <1> QED
    BY <1>1 DEF Late, Fails, Closes

LEMMA SucceedsLate ==
    ASSUME Late, UNCHANGED <<wrapped, execs, request>>, task = "exec", Succeeds
    PROVE  Late'
  <1>1. /\ task' = CASE task \in {"auth", "retry"} ->
                        IF config.maxAllowedPacket THEN "params" ELSE "var"
                     [] task \in {"var", "params"} -> "params"
                     [] task = "exec" -> "ready"
        /\ await' = "nothing" /\ trying' = <<>> /\ UNCHANGED result
    BY DEF Succeeds
  <1>2. task' = "ready"
    BY <1>1, Zenon
  <1> QED
    BY <1>1, <1>2 DEF Late

LEMMA GoesLate ==
    ASSUME Late, UNCHANGED <<wrapped, execs, request>>, NEW read, read # "handshake",
           Goes(read)
    PROVE  Late'
  BY DEF Late, Goes, params, socket

LEMMA WritesLate ==
    ASSUME Late, UNCHANGED execs, NEW kind, kind # "set", NEW statement, NEW number, NEW read,
           read # "handshake", Writes(kind, statement, number, task, read)
    PROVE  Late'
  <1>1. UNCHANGED wrapped
    BY DEF Writes, server
  <1>2. CASE ~netConn
    BY <1>1, <1>2 DEF Writes, Late, outcome, params, socket
  <1>3. CASE netConn /\ link = "lost" /\ Fails(FALSE, "badConn") /\ UNCHANGED request
    BY <1>1, <1>3, FailsLate DEF Late
  <1>4. CASE /\ netConn /\ Calls(task, read)
             /\ request' = IF link = "lost" THEN NoRequest
                           ELSE [kind |-> kind, seq |-> number,
                                 var |-> statement.var, value |-> statement.value]
    <2>1. request'.kind # "set"
      BY <1>4 DEF NoRequest
    <2> QED
      BY <1>1, <1>4, <2>1 DEF Late, Calls, params, socket
  <1> QED
    BY <1>2, <1>3, <1>4 DEF Writes

LEMMA DiscardsLate ==
    ASSUME Late, UNCHANGED <<wrapped, execs, request>>, netConn, task = "exec",
           NEW follows, NEW warnings, Discards(follows, warnings)
    PROVE  Late'
  <1>1. request'.kind # "set"
    BY DEF Late
  <1> QED
    BY <1>1, FailsLate, SucceedsLate, GoesLate DEF Discards

LEMMA ReadsLate ==
    ASSUME Late, Working,
           \/ ReadInitPacket \/ ReadResultOK \/ ReadResultSetHeader
           \/ ReadUntilEOF \/ ReadValue \/ ReadWarnings
    PROVE  Late'
  <1> DEFINE Frame ==
                 netConn /\ task = "exec" /\ UNCHANGED <<wrapped, execs, request>>
  <1>1. ASSUME NEW reads, Receives(reads) PROVE Frame /\ await \in reads
    <2>1. /\ netConn /\ await \in reads /\ await \notin {"nothing", "handshake"}
          /\ UNCHANGED <<wrapped, execs, request>>
      BY <1>1 DEF Receives, Waits, Late, local, server
    <2>2. task = "exec"
      BY <2>1 DEF Working, Asking, Late
    <2> QED
      BY <2>1, <2>2
  <1>2. ASSUME Frame, NEW error, Fails(FALSE, error) PROVE Late'
    <2>1. request'.kind # "set"
      BY <1>2 DEF Late
    <2> QED
      BY <1>2, <2>1, FailsLate
  <1>3. ASSUME Frame, NEW read, read # "handshake", Goes(read) PROVE Late'
    BY <1>3, GoesLate
  <1>4. ASSUME Frame, NEW follows, NEW warnings, Discards(follows, warnings) PROVE Late'
    BY <1>4, DiscardsLate
  <1>5. ASSUME Frame, UNCHANGED outcome PROVE Late'
    BY <1>5 DEF Late, outcome, params, socket
  <1> HIDE DEF Frame
  <1>6. CASE ReadInitPacket
    BY <1>1, <1>6 DEF ReadInitPacket, Late
  <1>7. CASE ReadResultOK
    <2>1. Frame /\ task # "auth"
      BY <1>1, <1>7 DEF ReadResultOK, Frame
    <2> QED
      BY <1>2, <1>4, <1>7, <2>1 DEF ReadResultOK, HandleOkPacket
  <1>8. CASE ReadResultSetHeader
    <2>1. Frame
      BY <1>1, <1>8 DEF ReadResultSetHeader
    <2> QED
      BY <1>2, <1>3, <1>4, <1>8, <2>1 DEF ReadResultSetHeader, HandleOkPacket
  <1>9. CASE ReadUntilEOF
    <2>1. Frame
      BY <1>1, <1>9 DEF ReadUntilEOF
    <2>2. await \in DOMAIN AfterEOF => AfterEOF[await] # "handshake"
      BY DEF AfterEOF
    <2>3. Succeeds => Late'
      BY <2>1, SucceedsLate DEF Frame
    <2> QED
      BY <1>2, <1>3, <1>4, <1>5, <1>9, <2>1, <2>2, <2>3 DEF ReadUntilEOF
  <1>10. CASE ReadValue
    <2>1. Frame
      BY <1>1, <1>10 DEF ReadValue
    <2> QED
      BY <1>2, <1>3, <1>10, <2>1 DEF ReadValue
  <1>11. CASE ReadWarnings
    <2>1. Frame
      BY <1>1, <1>11 DEF ReadWarnings
    <2> QED
      BY <1>2, <1>3, <1>4, <1>5, <1>11, <2>1 DEF ReadWarnings
  <1> QED
    BY <1>6, <1>7, <1>8, <1>9, <1>10, <1>11

LEMMA NextLate ==
    ASSUME Typed, Working, Late, [Next]_vars
    PROVE  Late'
  <1>1. CASE \/ ReadInitPacket \/ ReadResultOK \/ ReadResultSetHeader
             \/ ReadUntilEOF \/ ReadValue \/ ReadWarnings
    BY <1>1, ReadsLate
  <1>2. CASE ReadFails \/ OutOfSync
    <2>1. netConn /\ UNCHANGED <<wrapped, execs, request>>
      BY <1>2 DEF ReadFails, OutOfSync, Waits, local, server
    <2>2. request'.kind # "set"
      BY <2>1 DEF Late
    <2> QED
      BY <1>2, <2>1, <2>2, FailsLate DEF ReadFails, OutOfSync
  <1>3. ~(\/ Dial \/ UnknownCollation \/ SwitchToTLS \/ WriteAuthPacket \/ WriteOtherAuthPacket
          \/ GetSystemVar \/ NextParam \/ ExecParam \/ Connected)
    BY DEF Dial, UnknownCollation, SwitchToTLS, WriteAuthPacket, WriteOtherAuthPacket,
           GetSystemVar, NextParam, ExecParam, Connected, Late
  <1>4. CASE ShowWarnings
    <2>1. task = "exec"
      BY <1>4 DEF ShowWarnings, Working, Asking, Late
    <2>2. Writes("warnings", NoStatement, 0, task, "warnHeader") /\ UNCHANGED execs
      BY <1>4 DEF ShowWarnings, local
    <2> QED
      BY <2>2, WritesLate
  <1>5. CASE Exec
    <2>1. /\ task = "ready" /\ execs < MaxExecs /\ execs' = execs + 1
          /\ Writes("exec", NoStatement, 0, "exec", "header")
      BY <1>5 DEF Exec, Commands
    <2>2. execs' > 0
      BY <2>1, MaxExecsAssumption DEF Late, Typed, CountsTyped
    <2>3. UNCHANGED wrapped
      BY <2>1 DEF Writes, server
    <2>4. CASE ~netConn
      BY <2>1, <2>2, <2>3, <2>4 DEF Writes, Late, outcome, params, socket
    <2>5. CASE netConn /\ Fails(FALSE, "badConn") /\ UNCHANGED request
      <3>1. ~(Len(trying) > 1)
        BY <2>1 DEF Late
      <3> QED
        BY <2>2, <2>3, <2>5, <3>1 DEF Late, Fails, Closes
    <2>6. CASE /\ netConn /\ Calls("exec", "header")
               /\ request' = IF link = "lost" THEN NoRequest
                             ELSE [kind |-> "exec", seq |-> 0, var |-> NoStatement.var,
                                   value |-> NoStatement.value]
      <3>1. request'.kind # "set"
        BY <2>6 DEF NoRequest
      <3> QED
        BY <2>1, <2>2, <2>3, <2>6, <3>1 DEF Late, Calls, params, socket
    <2> QED
      BY <2>1, <2>4, <2>5, <2>6 DEF Writes
  <1>6. CASE Close
    BY <1>6 DEF Close, Closes, Late, local, params, server
  <1>7. CASE Reply
    <2>1. wrapped'
      BY <1>7, Zenon DEF Reply, Late
    <2>2. /\ UNCHANGED <<execs, result, task, trying, netConn, await>>
          /\ request'.kind = "none"
      BY <1>7 DEF Reply, NoRequest, outcome, params, socket
    <2>3. /\ execs > 0 /\ result = "connected" /\ task \in {"ready", "exec", "ended"}
          /\ task # "ended" => trying = <<>>
          /\ task = "ended" => ~netConn
          /\ await # "handshake"
      BY DEF Late
    <2>4. request'.kind # "set"
      BY <2>2
    <2> QED
      BY <2>1, <2>2, <2>3, <2>4 DEF Late
  <1>8. CASE LinkFails \/ Finished \/ UNCHANGED vars
    <2>1. UNCHANGED <<wrapped, execs, result, task, trying, netConn, request, await>>
      BY <1>8 DEF LinkFails, Finished, vars, outcome, params, socket, server
    <2> QED
      BY <2>1 DEF Late
  <1> QED
    BY <1>1, <1>2, <1>3, <1>4, <1>5, <1>6, <1>7, <1>8 DEF Next, Goroutine

(* The invariant of ReadsOwnAnswer, NothingLeft and ConnectsInSync.        *)
Kept == Typed /\ Working /\ IF wrapped THEN Late ELSE Talk

LEMMA NextKept ==
    ASSUME Kept, Wide, [Next]_vars
    PROVE  Kept'
  <1>1. Typed' /\ Working'
    BY NextTyped DEF Kept
  <1>2. CASE wrapped
    <2>1. Late'
      BY <1>2, NextLate DEF Kept
    <2> QED
      BY <1>1, <2>1 DEF Kept, Late
  <1>3. CASE ~wrapped /\ wrapped'
    BY <1>1, <1>3, LateBegins DEF Kept
  <1>4. CASE ~wrapped /\ ~wrapped'
    BY <1>1, <1>4, NextTalk DEF Kept
  <1> QED
    BY <1>2, <1>3, <1>4

LEMMA InitKept == Init => Kept
  BY InitTalks DEF Kept, Talk, Init

(* No packet is taken for the answer to another request, also when exec    *)
(* has left the further results of a procedure on the wire, for results of *)
(* any number of rows: their numbers do not fit the next request, unless   *)
(* the answer they end has more packets than there are numbers.            *)
THEOREM ReadsOwnAnswerHolds ==
    ASSUME Wide
    PROVE  SafeSpec => []ReadsOwnAnswer
  <1>1. Kept => ReadsOwnAnswer
    BY DEF Kept, Talk, ReadsOwnAnswer
  <1> QED
    BY <1>1, InitKept, NextKept, PTL DEF SafeSpec

(* When NewMysqlConn returns, the answers to all that it asked have been   *)
(* read to their end, whatever they were and however long.                 *)
THEOREM NothingLeftHolds ==
    ASSUME Wide
    PROVE  SafeSpec => []NothingLeft
  <1>1. Talk => NothingLeft
    <2>1. SUFFICES ASSUME Talk, task = "ready", execs = 0 PROVE Quiet
      BY DEF NothingLeft, Quiet
    <2>2. netConn /\ await = "nothing"
      BY <2>1 DEF Talk, Flow, Working, Asking
    <2>3. layer = "raw"
      BY <2>1, <2>2 DEF Talk, Conversation, Veiled, Typed, LinkTyped, Layers
    <2> QED
      BY <2>1, <2>2, <2>3, IdleQuiet DEF LeftOver
  <1>2. Late => NothingLeft
    BY DEF Late, NothingLeft
  <1>3. Kept => NothingLeft
    BY <1>1, <1>2 DEF Kept
  <1> QED
    BY <1>3, InitKept, NextKept, PTL DEF SafeSpec

(* NewMysqlConn never finds a packet out of sequence, unless it has        *)
(* switched to TLS and reads the records themselves.                       *)
THEOREM ConnectsInSyncHolds ==
    ASSUME Wide
    PROVE  SafeSpec => []ConnectsInSync
  <1>1. Kept => ConnectsInSync
    BY DEF Kept, Late, Talk, InSyncUnlessTLS, ConnectsInSync
  <1> QED
    BY <1>1, InitKept, NextKept, PTL DEF SafeSpec

-----------------------------------------------------------------------------
(* The parameters. A parameter whose turn is over is in force: of the one  *)
(* whose turn it is, the server has what the OK that is on its way says.   *)

IsGiven(dsn, charset) == \E n \in 1 .. Len(dsn.charsets) : charset = dsn.charsets[n]

InForce(dsn, set, charset, param) ==
    IF param = "charset" THEN IsGiven(dsn, charset) ELSE param \in set

Tried ==
    \A n \in 1 .. Len(trying) :
        /\ trying[n].var = trying[1].var
        /\ trying[n].var = "charset" => IsGiven(config, trying[n].value)

Turns ==
    /\ todo \subseteq Parameters
    /\ trying # <<>> => trying[1].var \in Parameters \ todo
    /\ \A param \in Parameters \ todo :
           trying = <<>> \/ param # trying[1].var => InForce(config, assigned, names, param)

AllTurnsOver == result = "connected" => todo = {} /\ trying = <<>>

AsksForCurrent ==
    request.kind = "set" /\ netConn
        => trying # <<>> /\ request.var = trying[1].var /\ request.value = trying[1].value

Acknowledged ==
    netConn /\ task = "params" /\ await = "header" /\ wire # <<>> /\ wire[1].kind = "ok"
        => IF trying[1].var = "charset" THEN names = trying[1].value
           ELSE trying[1].var \in assigned

ParamReads ==
    task = "params"
        => await \in {"nothing", "header", "showWarnings", "warnHeader", "warnColumns", "warnRows"}

Setting == Tried /\ Turns /\ AllTurnsOver /\ AsksForCurrent /\ Acknowledged /\ ParamReads

(* The pending statements, and what is set, stay.                          *)
LEMMA StaysSet ==
    ASSUME Setting, UNCHANGED <<config, todo, trying, result, assigned, names>>,
           AsksForCurrent', Acknowledged', ParamReads'
    PROVE  Setting'
  <1>1. Tried'
    BY DEF Setting, Tried
  <1>2. Turns'
    BY DEF Setting, Turns, Parameters
  <1>3. AllTurnsOver'
    BY DEF Setting, AllTurnsOver
  <1> QED
    BY <1>1, <1>2, <1>3 DEF Setting

LEMMA FailsSet ==
    ASSUME Talk, Setting, UNCHANGED <<config, assigned, names>>, NEW closing, NEW error,
           Fails(closing, error), ~closing /\ Len(trying) > 1 => request' = NoRequest
    PROVE  Setting'
  <1>1. CASE ~(Len(trying) > 1)
    <2>1. /\ task' = "ended" /\ ~netConn' /\ UNCHANGED <<todo, trying>>
          /\ result' = IF result = "none" THEN "error" ELSE result
      BY <1>1 DEF Fails, Closes, params
    <2>2. Tried'
      BY <2>1 DEF Setting, Tried
    <2>3. Turns'
      BY <2>1 DEF Setting, Turns, Parameters
    <2>4. AllTurnsOver'
      BY <2>1 DEF Setting, AllTurnsOver
    <2>5. AsksForCurrent' /\ Acknowledged' /\ ParamReads'
      BY <2>1 DEF AsksForCurrent, Acknowledged, ParamReads
    <2> QED
      BY <2>2, <2>3, <2>4, <2>5 DEF Setting
  <1>2. CASE Len(trying) > 1
    <2>1. /\ await' = "nothing" /\ trying' = Tail(trying) /\ UNCHANGED <<task, result, todo>>
          /\ closing => ~netConn'
      BY <1>2 DEF Fails, Closes
    <2>2. trying \in Seq(Settings(config))
      BY DEF Talk, Typed, OutcomeTyped
    <2>3. /\ Len(trying') = Len(trying) - 1 /\ Len(trying) \in Nat
          /\ \A n \in 1 .. Len(trying') : trying'[n] = trying[n + 1]
      BY <1>2, <2>1, <2>2
    <2>4. trying # <<>> /\ trying' # <<>>
      BY <1>2, <2>1, <2>2, Rest
    <2>5. \A n \in 1 .. Len(trying') : n + 1 \in 1 .. Len(trying)
      BY <2>3
    <2>6. 1 \in 1 .. Len(trying')
      BY <1>2, <2>3
    <2>7. trying'[1].var = trying[1].var
      BY <2>3, <2>5, <2>6 DEF Setting, Tried
    <2>8. Tried'
      BY <2>3, <2>5, <2>7 DEF Setting, Tried
    <2>9. Turns'
      BY <2>1, <2>4, <2>7 DEF Setting, Turns, Parameters
    <2>10. AllTurnsOver'
      BY <2>1, <2>4 DEF Setting, AllTurnsOver
    <2>11. AsksForCurrent'
      BY <1>2, <2>1 DEF AsksForCurrent, NoRequest
    <2>12. Acknowledged' /\ ParamReads'
      BY <2>1 DEF Acknowledged, ParamReads
    <2> QED
      BY <2>8, <2>9, <2>10, <2>11, <2>12 DEF Setting
  <1> QED
    BY <1>1, <1>2

LEMMA SucceedsSet ==
    ASSUME Talk, Setting, UNCHANGED <<config, assigned, names>>, Succeeds, request' = NoRequest,
           netConn,
           task = "params" => await = "header" /\ wire # <<>> /\ wire[1].kind = "ok"
    PROVE  Setting'
  <1>1. /\ await' = "nothing" /\ trying' = <<>> /\ UNCHANGED <<result, todo>>
    BY DEF Succeeds
  <1>2. trying # <<>> => task = "params"
    BY DEF Talk, Flow
  <1>3. ASSUME trying # <<>> PROVE InForce(config, assigned, names, trying[1].var)
    <2>1. IF trying[1].var = "charset" THEN names = trying[1].value ELSE trying[1].var \in assigned
      BY <1>2, <1>3 DEF Setting, Acknowledged
    <2>2. 1 \in 1 .. Len(trying)
      BY <1>3 DEF Talk, Typed, OutcomeTyped
    <2> QED
      BY <2>1, <2>2 DEF Setting, Tried, InForce
  <1>4. Tried'
    BY <1>1 DEF Tried
  <1>5. Turns'
    BY <1>1, <1>3 DEF Setting, Turns, Parameters
  <1>6. AllTurnsOver'
    BY <1>1 DEF Setting, AllTurnsOver
  <1>7. AsksForCurrent' /\ Acknowledged' /\ ParamReads'
    BY <1>1 DEF AsksForCurrent, Acknowledged, ParamReads, NoRequest
  <1> QED
    BY <1>4, <1>5, <1>6, <1>7 DEF Setting

LEMMA GoesSet ==
    ASSUME Talk, Setting, UNCHANGED <<config, assigned, names>>, request' = NoRequest,
           NEW read, Goes(read), read # "header",
           task = "params" => read \in {"showWarnings", "warnHeader", "warnColumns", "warnRows"}
    PROVE  Setting'
  <1>1. await' = read /\ UNCHANGED <<task, result, todo, trying>>
    BY DEF Goes, params
  <1>2. AsksForCurrent' /\ Acknowledged' /\ ParamReads'
    BY <1>1 DEF AsksForCurrent, Acknowledged, ParamReads, NoRequest
  <1> QED
    BY <1>1, <1>2, StaysSet

LEMMA DiscardsSet ==
    ASSUME Talk, Setting, UNCHANGED <<config, assigned, names>>, request' = NoRequest, netConn,
           NEW follows, NEW warnings, Discards(follows, warnings),
           task = "params" =>
               /\ ~follows
               /\ warnings # "shown" => await = "header" /\ wire # <<>> /\ wire[1].kind = "ok"
    PROVE  Setting'
  <1>1. CASE Fails(FALSE, "warnings")
    BY <1>1, FailsSet
  <1>2. CASE follows /\ Goes("moreHeader")
    BY <1>2, GoesSet
  <1>3. CASE Goes("showWarnings")
    BY <1>3, GoesSet
  <1>4. CASE task = "var" /\ Goes("value")
    BY <1>4, GoesSet
  <1>5. CASE warnings # "shown" /\ Succeeds
    BY <1>5, SucceedsSet
  <1> QED
    BY <1>1, <1>2, <1>3, <1>4, <1>5 DEF Discards

LEMMA ReadsSet ==
    ASSUME Talk, Wide, Setting,
           \/ ReadInitPacket \/ ReadResultOK \/ ReadResultSetHeader
           \/ ReadUntilEOF \/ ReadValue \/ ReadWarnings
    PROVE  Setting'
  <1> DEFINE Frame ==
                 /\ netConn /\ wire # <<>> /\ packet = wire[1] /\ request' = NoRequest
                 /\ UNCHANGED <<config, assigned, names>>
                 /\ \E next \in Reads \cup {"left"} : Follows(task, await, packet, next)
  <1>1. ASSUME NEW reads, Receives(reads) PROVE Frame /\ await \in reads
    <2>1. netConn /\ Arriving /\ await \in reads /\ UNCHANGED request
      BY <1>1, Received
    <2>2. /\ wire' = Tail(wire) /\ sequence' = NextSequence(sequence)
          /\ UNCHANGED <<request, commands>>
      BY <1>1, Received
    <2>3. \E next \in Reads \cup {"left"} : Follows(task, await, packet, next)
      BY <2>1, <2>2, TakesOne DEF Talk, packet
    <2>4. wire # <<>> /\ packet = wire[1] /\ request' = NoRequest
      BY <2>1 DEF Arriving, packet, Talk, Typed, LinkTyped
    <2>5. UNCHANGED <<config, assigned, names>>
      BY <1>1 DEF Receives, local, server
    <2> QED
      BY <2>1, <2>3, <2>4, <2>5
  <1>2. ASSUME Frame, NEW error, Fails(FALSE, error) PROVE Setting'
    BY <1>2, FailsSet
  <1>3. ASSUME Frame, task # "params", NEW read, Goes(read), read # "header" PROVE Setting'
    BY <1>3, GoesSet
  <1>4. ASSUME Frame, HandleOkPacket, packet.kind = "ok",
               task = "params" => await = "header"
        PROVE  Setting'
    <2>1. task = "params" => ~packet.more
      BY <1>4 DEF Follows
    <2>2. Discards(packet.more, IF packet.warned /\ warned = "no" THEN "yes" ELSE warned)
      BY <1>4 DEF HandleOkPacket
    <2> QED
      BY <1>4, <2>1, <2>2, DiscardsSet
  <1>5. CASE ReadInitPacket
    <2>1. Frame /\ await = "handshake"
      BY <1>1, <1>5 DEF ReadInitPacket
    <2>2. CASE Calls("auth", "nothing")
      <3>1. task' = "auth" /\ UNCHANGED <<result, todo, trying>>
        BY <2>2 DEF Calls, params
      <3>2. AsksForCurrent' /\ Acknowledged' /\ ParamReads'
        BY <2>1, <3>1 DEF AsksForCurrent, Acknowledged, ParamReads, NoRequest
      <3> QED
        BY <2>1, <3>1, <3>2, StaysSet
    <2> QED
      BY <1>2, <1>5, <2>1, <2>2 DEF ReadInitPacket
  <1>6. CASE ReadResultOK
    <2>1. Frame /\ await = "authResult"
      BY <1>1, <1>6 DEF ReadResultOK
    <2>2. task # "params"
      BY <2>1 DEF Setting, ParamReads
    <2>3. CASE Calls("retry", "nothing")
      <3>1. task' = "retry" /\ UNCHANGED <<result, todo, trying>>
        BY <2>3 DEF Calls, params
      <3>2. AsksForCurrent' /\ Acknowledged' /\ ParamReads'
        BY <2>1, <3>1 DEF AsksForCurrent, Acknowledged, ParamReads, NoRequest
      <3> QED
        BY <2>1, <3>1, <3>2, StaysSet
    <2> QED
      BY <1>2, <1>4, <1>6, <2>1, <2>2, <2>3 DEF ReadResultOK
  <1>7. CASE ReadResultSetHeader
    <2>1. Frame /\ await \in {"header", "moreHeader"}
      BY <1>1, <1>7 DEF ReadResultSetHeader
    <2>2. task = "params" => await = "header" /\ packet.kind # "header"
      BY <2>1 DEF Setting, ParamReads, Follows
    <2>3. CASE packet.kind = "ok" /\ HandleOkPacket
      BY <1>4, <2>1, <2>2, <2>3
    <2>4. CASE /\ packet.kind = "header"
               /\ Goes(IF await = "header" THEN "columns" ELSE "moreColumns")
      BY <1>3, <2>1, <2>2, <2>4
    <2>5. CASE Fails(FALSE, "err")
      BY <1>2, <2>1, <2>5
    <2> QED
      BY <1>7, <2>3, <2>4, <2>5 DEF ReadResultSetHeader
  <1>8. CASE ReadUntilEOF
    <2>1. Frame /\ await \in {"columns", "rows", "rest", "moreColumns", "moreRows"}
      BY <1>1, <1>8 DEF ReadUntilEOF
    <2>2. task # "params"
      BY <2>1 DEF Setting, ParamReads
    <2>3. CASE Discards(packet.more, warned)
      BY <2>1, <2>2, <2>3, DiscardsSet
    <2>4. CASE await \in DOMAIN AfterEOF /\ Goes(AfterEOF[await])
      <3>1. AfterEOF[await] # "header"
        BY <2>4 DEF AfterEOF
      <3> QED
        BY <1>3, <2>1, <2>2, <2>4, <3>1
    <2>5. CASE Succeeds
      BY <2>1, <2>2, <2>5, SucceedsSet
    <2>6. CASE UNCHANGED outcome
      <3>1. Goes(await)
        BY <2>6 DEF Goes, outcome
      <3> QED
        BY <1>3, <2>1, <2>2, <3>1
    <2> QED
      BY <1>2, <1>8, <2>1, <2>3, <2>4, <2>5, <2>6 DEF ReadUntilEOF
  <1>9. CASE ReadValue
    <2>1. Frame /\ await = "value"
      BY <1>1, <1>9 DEF ReadValue
    <2>2. task # "params"
      BY <2>1 DEF Setting, ParamReads
    <2> QED
      BY <1>2, <1>3, <1>9, <2>1, <2>2 DEF ReadValue
  <1>10. CASE ReadWarnings
    <2>1. Frame /\ await \in {"warnHeader", "warnColumns", "warnRows"}
      BY <1>1, <1>10 DEF ReadWarnings
    <2>2. ASSUME NEW read \in {"warnHeader", "warnColumns", "warnRows"}, Goes(read)
          PROVE  Setting'
      BY <2>1, <2>2, GoesSet
    <2>3. CASE UNCHANGED outcome
      <3>1. Goes(await)
        BY <2>3 DEF Goes, outcome
      <3> QED
        BY <2>1, <2>2, <3>1
    <2>4. CASE /\ packet.kind = "ok" \/ (packet.kind = "eof" /\ await = "warnRows")
               /\ Discards(packet.more, "shown")
      <3>1. ~packet.more
        BY <2>1, <2>4 DEF Follows
      <3> QED
        BY <2>1, <2>4, <3>1, DiscardsSet
    <2> QED
      BY <1>2, <1>10, <2>1, <2>2, <2>3, <2>4 DEF ReadWarnings
  <1> QED
    BY <1>5, <1>6, <1>7, <1>8, <1>9, <1>10

LEMMA InitSet ==
    ASSUME Init
    PROVE  Setting
  <1>1. todo = Parameters /\ trying = <<>> /\ task = "dial" /\ result = "none" /\ ~netConn
    BY DEF Init
  <1>2. Tried
    BY <1>1 DEF Tried
  <1> QED
    BY <1>1, <1>2
    DEF Setting, Turns, AllTurnsOver, AsksForCurrent, Acknowledged, ParamReads

LEMMA WritesSet ==
    ASSUME Talk, Setting, UNCHANGED config, await \in {"nothing", "showWarnings"},
           NEW kind \in {"auth", "switch", "var", "set", "warnings", "exec"},
           NEW statement, NEW number, NEW read, NEW newTask,
           Writes(kind, statement, number, newTask, read),
           newTask = "params" => read \in {"header", "warnHeader"},
           newTask = task \/ newTask = "exec",
           kind = "set" => trying # <<>> /\ statement = trying[1]
    PROVE  Setting'
  <1>1. UNCHANGED <<wire, assigned, names>>
    BY DEF Writes, server
  <1>2. CASE ~netConn
    <2>1. UNCHANGED <<task, await, result, todo, trying, netConn, request>>
      BY <1>2 DEF Writes, outcome, params, socket
    <2>2. AsksForCurrent' /\ Acknowledged' /\ ParamReads'
      BY <1>1, <1>2, <2>1 DEF Setting, AsksForCurrent, Acknowledged, ParamReads
    <2> QED
      BY <1>1, <2>1, <2>2, StaysSet
  <1>3. CASE netConn
    <2>1. task = "params" => Quiet
      <3>1. SUFFICES ASSUME task = "params" PROVE Quiet
        OBVIOUS
      <3>2. layer = "raw"
        BY <1>3, <3>1 DEF Talk, Conversation, Veiled, Typed, LinkTyped, Layers
      <3> QED
        BY <1>3, <3>1, <3>2, IdleQuiet DEF LeftOver
    <2>2. CASE Calls(newTask, read) /\ request' = IF link = "lost" THEN NoRequest
                              ELSE [kind |-> kind, seq |-> number,
                                    var |-> statement.var, value |-> statement.value]
      <3>1. /\ task' = newTask /\ await' = read
            /\ UNCHANGED <<result, todo, trying, netConn>>
        BY <2>2 DEF Calls, params, socket
      <3>2. AsksForCurrent'
        BY <2>2, <3>1 DEF AsksForCurrent, NoRequest
      <3>3. ParamReads'
        BY <3>1 DEF ParamReads
      <3>4. Acknowledged'
        <4>1. SUFFICES ASSUME task' = "params", wire' # <<>> PROVE FALSE
          BY DEF Acknowledged
        <4>2. task # "params"
          BY <1>1, <2>1, <4>1 DEF Quiet
        <4> QED
          BY <3>1, <4>1, <4>2
      <3> QED
        BY <1>1, <3>1, <3>2, <3>3, <3>4, StaysSet
    <2>3. CASE Fails(FALSE, "badConn") /\ UNCHANGED request
      <3>1. ASSUME Len(trying) > 1 PROVE request' = NoRequest
        <4>1. trying # <<>>
          BY <3>1
        <4>2. task = "params"
          BY <1>3, <4>1 DEF Talk, Flow
        <4> QED
          BY <2>1, <2>3, <4>2 DEF Quiet
      <3> QED
        BY <1>1, <2>3, <3>1, FailsSet
    <2> QED
      BY <1>3, <2>2, <2>3 DEF Writes
  <1> QED
    BY <1>2, <1>3

LEMMA CallersSet ==
    ASSUME Talk, Wide, Setting,
           \/ WriteAuthPacket \/ WriteOtherAuthPacket \/ ShowWarnings
           \/ GetSystemVar \/ ExecParam \/ Exec
    PROVE  Setting'
  <1>1. CASE WriteAuthPacket
    BY <1>1, WritesSet DEF WriteAuthPacket, local
  <1>2. CASE WriteOtherAuthPacket
    BY <1>2, WritesSet DEF WriteOtherAuthPacket, local
  <1>3. CASE ShowWarnings
    BY <1>3, WritesSet DEF ShowWarnings, local
  <1>4. CASE GetSystemVar
    BY <1>4, WritesSet DEF GetSystemVar, Commands, local
  <1>5. CASE ExecParam
    <2>1. trying # <<>> /\ Head(trying) = trying[1]
      BY <1>5 DEF ExecParam, Talk, Typed, OutcomeTyped
    <2> QED
      BY <1>5, <2>1, WritesSet DEF ExecParam, Commands, local
  <1>6. CASE Exec
    <2>1. await = "nothing"
      BY <1>6 DEF Exec, Talk, Working, Flow, Asking
    <2> QED
      BY <1>6, <2>1, WritesSet DEF Exec, Commands
  <1> QED
    BY <1>1, <1>2, <1>3, <1>4, <1>5, <1>6

(* The server sets what it acknowledges.                                   *)
LEMMA ReplySets ==
    ASSUME Talk, Wide, Setting, Reply
    PROVE  Setting'
  <1>1. /\ UNCHANGED <<config, task, await, result, todo, trying, netConn, security>>
        /\ request # NoRequest /\ request' = NoRequest
    BY DEF Reply, outcome, params, socket
  <1>2. netConn
    BY DEF Reply, Talk, Flow
  <1>3. PICK answer \in Answers(request.kind) :
            /\ wire' = wire \o Sent(answer)
            /\ IF request.kind = "set" /\ answer[1].kind = "ok"
               THEN IF request.var = "charset"
                    THEN names' = request.value /\ UNCHANGED assigned
                    ELSE assigned' = assigned \cup {request.var} /\ UNCHANGED names
               ELSE UNCHANGED <<assigned, names>>
    BY DEF Reply
  <1>4. request.kind = "set" =>
            trying # <<>> /\ request.var = trying[1].var /\ request.value = trying[1].value
    BY <1>2 DEF Setting, AsksForCurrent
  <1>5. \A param : InForce(config, assigned, names, param)
                       => InForce(config, assigned', names', param)
    <2>1. ASSUME trying # <<>>, trying[1].var = "charset" PROVE IsGiven(config, trying[1].value)
      <3>1. 1 \in 1 .. Len(trying)
        BY <2>1 DEF Talk, Typed, OutcomeTyped
      <3> QED
        BY <2>1, <3>1 DEF Setting, Tried
    <2>2. assigned \subseteq assigned'
      BY <1>3
    <2>3. names' = names \/ IsGiven(config, names')
      BY <1>3, <1>4, <2>1
    <2> QED
      BY <2>2, <2>3 DEF InForce
  <1>6. Tried'
    BY <1>1 DEF Setting, Tried
  <1>7. Turns'
    BY <1>1, <1>5 DEF Setting, Turns, Parameters
  <1>8. AllTurnsOver'
    BY <1>1 DEF Setting, AllTurnsOver
  <1>9. AsksForCurrent'
    BY <1>1 DEF AsksForCurrent, NoRequest
  <1>10. ParamReads'
    BY <1>1 DEF Setting, ParamReads
  <1>11. Acknowledged'
    <2>1. SUFFICES ASSUME task = "params", await = "header", wire'[1].kind = "ok"
                   PROVE  IF trying[1].var = "charset" THEN names' = trying[1].value
                          ELSE trying[1].var \in assigned'
      BY <1>1 DEF Acknowledged
    <2>2. layer = "raw"
      BY <1>2, <2>1 DEF Talk, Conversation, Veiled, Typed, LinkTyped, Layers
    <2>3. Pending
      BY <1>1, <1>2, <2>1, <2>2
      DEF Talk, Conversation, Quiet, Arriving, LeftOver, Stuck
    <2>4. request.kind = "set"
      <3>1. request.kind \in Requests \ {"none"}
        BY <1>1, AskedFields DEF Talk, Typed, LinkTyped
      <3> QED
        BY <2>1, <2>3, <3>1 DEF Pending, AsksFor, Requests
    <2>5. answer[1].kind = "ok"
      <3>1. /\ Fine(answer) /\ Sent(answer) \in Seq(Packets)
            /\ \A n \in 1 .. Len(answer) : Sent(answer)[n].kind = answer[n].kind
        BY <1>1, SentTyped DEF Talk
      <3>2. 1 \in 1 .. Len(answer)
        <4>1. Len(answer) \in Nat \ {0}
          BY <3>1 DEF Fine
        <4> QED
          BY <4>1
      <3>3. wire' = Sent(answer)
        BY <1>3, <2>3, <3>1 DEF Pending
      <3> QED
        BY <2>1, <3>1, <3>2, <3>3
    <2> QED
      BY <1>3, <1>4, <2>4, <2>5
  <1> QED
    BY <1>6, <1>7, <1>8, <1>9, <1>10, <1>11 DEF Setting

(* A parameter's turn begins; if there are several charsets, there are as  *)
(* many statements.                                                        *)
LEMMA StatementsOf ==
    ASSUME config \in Configs, NEW param \in Parameters
    PROVE  /\ Statements(param) # <<>> /\ Statements(param)[1].var = param
           /\ \A n \in 1 .. Len(Statements(param)) :
                  /\ Statements(param)[n].var = param
                  /\ param = "charset" => IsGiven(config, Statements(param)[n].value)
  <1> DEFINE values == IF param = "charset" THEN config.charsets ELSE <<"given">>
             statement(n) == [var |-> param, value |-> values[n]]
  <1>1. config.charsets \in Seq(STRING) /\ "charset" \notin config.vars
    BY ConfigsAssumption, Zenon
  <1>2. Len(values) \in Nat \ {0}
    <2>1. CASE param = "charset"
      <3>1. config.charsets # <<>>
        BY <1>1, <2>1 DEF Parameters
      <3> QED
        BY <1>1, <2>1, <3>1
    <2>2. CASE param # "charset"
      BY <2>2
    <2> QED
      BY <2>1, <2>2
  <1>3. ASSUME NEW n \in 1 .. Len(values), param = "charset" PROVE IsGiven(config, values[n])
    BY <1>3 DEF IsGiven
  <1>4. Statements(param) = [n \in 1 .. Len(values) |-> statement(n)]
    BY DEF Statements
  <1> HIDE DEF values
  <1>5. Len(Statements(param)) = Len(values)
    BY <1>2, <1>4
  <1>6. ASSUME NEW n \in 1 .. Len(values)
        PROVE  Statements(param)[n].var = param /\ Statements(param)[n].value = values[n]
    BY <1>4
  <1>7. Statements(param) # <<>>
    BY <1>2, <1>5
  <1>8. 1 \in 1 .. Len(values)
    BY <1>2
  <1> QED
    BY <1>3, <1>5, <1>6, <1>7, <1>8

LEMMA NextParamSets ==
    ASSUME Talk, Setting, NextParam
    PROVE  Setting'
  <1>1. /\ UNCHANGED <<config, task, await, result, netConn, request, wire, assigned, names>>
        /\ task = "params" /\ await = "nothing" /\ trying = <<>>
    BY DEF NextParam, local, socket, server
  <1>2. PICK param \in todo : todo' = todo \ {param} /\ trying' = Statements(param)
    BY DEF NextParam
  <1>3. param \in Parameters /\ config \in Configs
    BY <1>2 DEF Setting, Turns, Talk, Typed
  <1>4. /\ trying' # <<>> /\ trying'[1].var = param
        /\ \A n \in 1 .. Len(trying') :
               /\ trying'[n].var = param
               /\ param = "charset" => IsGiven(config, trying'[n].value)
    BY <1>2, <1>3, StatementsOf
  <1>5. Tried'
    BY <1>1, <1>4 DEF Tried
  <1>6. Turns'
    BY <1>1, <1>2, <1>3, <1>4 DEF Setting, Turns, Parameters
  <1>7. AllTurnsOver'
    BY <1>1 DEF AllTurnsOver, Talk, Flow
  <1>8. netConn /\ request' = NoRequest
    <2>1. netConn
      BY <1>1 DEF Talk, Flow
    <2>2. layer = "raw"
      BY <1>1, <2>1 DEF Talk, Conversation, Veiled, Typed, LinkTyped, Layers
    <2> QED
      BY <1>1, <2>1, <2>2, IdleQuiet DEF Quiet, LeftOver
  <1>9. AsksForCurrent' /\ Acknowledged' /\ ParamReads'
    BY <1>1, <1>8 DEF AsksForCurrent, Acknowledged, ParamReads, NoRequest
  <1> QED
    BY <1>5, <1>6, <1>7, <1>9 DEF Setting

LEMMA NextSets ==
    ASSUME Talk, Wide, Setting, [Next]_vars
    PROVE  Setting'
  <1>1. CASE Dial
    <2>1. UNCHANGED <<config, todo, trying, assigned, names>> /\ task' # "params"
      BY <1>1 DEF Dial, local, params, server
    <2>2. result' = "connected" => result = "connected"
      BY <1>1 DEF Dial
    <2>3. Tried'
      BY <2>1 DEF Setting, Tried
    <2>4. Turns'
      BY <2>1 DEF Setting, Turns, Parameters
    <2>5. AllTurnsOver'
      BY <2>1, <2>2 DEF Setting, AllTurnsOver
    <2>6. AsksForCurrent'
      BY <1>1 DEF Dial, Closes, AsksForCurrent
    <2>7. Acknowledged' /\ ParamReads'
      BY <2>1 DEF Acknowledged, ParamReads
    <2> QED
      BY <2>3, <2>4, <2>5, <2>6, <2>7 DEF Setting
  <1>2. CASE ReadFails
    BY <1>2, FailsSet DEF ReadFails, local, server
  <1>3. CASE OutOfSync
    <2>1. /\ Fails(FALSE, "sync") /\ UNCHANGED <<config, request, assigned, names>> /\ netConn
          /\ wire # <<>> /\ Number(Head(wire)) # sequence
      BY <1>3 DEF OutOfSync, Waits, InSync, local, server
    <2>2. CASE Len(trying) > 1
      <3>1. trying # <<>>
        BY <2>2
      <3>2. task = "params"
        BY <2>1, <3>1 DEF Talk, Flow
      <3>3. layer = "raw"
        BY <2>1, <3>2 DEF Talk, Conversation, Veiled, Typed, LinkTyped, Layers
      <3>4. request = NoRequest
        BY <2>1, <3>2, <3>3
        DEF Talk, Conversation, Quiet, Pending, Arriving, LeftOver, Stuck
      <3> QED
        BY <2>1, <3>4, FailsSet
    <2>3. CASE ~(Len(trying) > 1)
      BY <2>1, <2>3, FailsSet
    <2> QED
      BY <2>2, <2>3
  <1>4. CASE UnknownCollation \/ SwitchToTLS
    <2>1. task = "auth" /\ UNCHANGED <<config, request, wire, assigned, names>>
      BY <1>4 DEF UnknownCollation, SwitchToTLS, local, server
    <2>2. trying = <<>>
      BY <2>1 DEF Talk, Flow
    <2>3. ~(Len(trying) > 1)
      BY <2>2
    <2>4. ASSUME NEW error, Fails(FALSE, error) PROVE Setting'
      BY <2>1, <2>3, <2>4, FailsSet
    <2>5. CASE UNCHANGED outcome
      <3>1. UNCHANGED <<task, await, result, todo, trying, netConn>>
        BY <2>5 DEF outcome, params, socket
      <3>2. AsksForCurrent' /\ Acknowledged' /\ ParamReads'
        BY <2>1, <3>1 DEF Setting, AsksForCurrent, Acknowledged, ParamReads
      <3> QED
        BY <2>1, <3>1, <3>2, StaysSet
    <2> QED
      BY <1>4, <2>4, <2>5 DEF UnknownCollation, SwitchToTLS
  <1>5. CASE Connected
    <2>1. /\ UNCHANGED <<config, todo, trying, netConn, request, assigned, names>>
          /\ task' = "ready" /\ todo = {} /\ trying = <<>>
      BY <1>5 DEF Connected, local, params, socket, server
    <2>2. Tried' /\ Turns'
      BY <2>1 DEF Setting, Tried, Turns, Parameters
    <2>3. AllTurnsOver' /\ AsksForCurrent' /\ Acknowledged' /\ ParamReads'
      BY <2>1 DEF Setting, AllTurnsOver, AsksForCurrent, Acknowledged, ParamReads
    <2> QED
      BY <2>2, <2>3 DEF Setting
  <1>6. CASE Close
    <2>1. /\ UNCHANGED <<config, todo, trying, result, assigned, names>>
          /\ task' = "ended" /\ ~netConn'
      BY <1>6 DEF Close, Closes, local, params, server
    <2>2. AsksForCurrent' /\ Acknowledged' /\ ParamReads'
      BY <2>1 DEF AsksForCurrent, Acknowledged, ParamReads
    <2> QED
      BY <2>1, <2>2, StaysSet
  <1>7. CASE LinkFails \/ UNCHANGED vars
    <2>1. UNCHANGED <<config, task, await, result, todo, trying, netConn, request, wire,
                      assigned, names>>
      BY <1>7 DEF LinkFails, vars, outcome, params, socket, server
    <2>2. AsksForCurrent' /\ Acknowledged' /\ ParamReads'
      BY <2>1 DEF Setting, AsksForCurrent, Acknowledged, ParamReads
    <2> QED
      BY <2>1, <2>2, StaysSet
  <1>8. \/ Dial \/ ReadFails \/ OutOfSync
        \/ ReadInitPacket \/ UnknownCollation \/ SwitchToTLS
        \/ WriteAuthPacket \/ WriteOtherAuthPacket
        \/ ReadResultOK \/ ReadResultSetHeader \/ ReadUntilEOF \/ ReadValue
        \/ ShowWarnings \/ ReadWarnings
        \/ GetSystemVar \/ NextParam \/ ExecParam \/ Connected
        \/ Exec \/ Close \/ Reply \/ LinkFails \/ UNCHANGED vars
    BY DEF Next, Goroutine, Finished
  <1> QED
    BY <1>1, <1>2, <1>3, <1>4, <1>5, <1>6, <1>7, <1>8, ReadsSet, CallersSet, ReplySets,
       NextParamSets

LEMMA TalkInForce ==
    ASSUME Talk, Setting
    PROVE  ParamsInForce
  <1>1. SUFFICES ASSUME Talk, Setting, result = "connected"
                 PROVE  /\ assigned = config.vars
                        /\ config.charsets # <<>> => IsGiven(config, names)
    BY DEF ParamsInForce, IsGiven
  <1>2. \A param \in Parameters : InForce(config, assigned, names, param)
    BY <1>1 DEF Setting, Turns, AllTurnsOver
  <1>3. "charset" \notin config.vars /\ assigned \subseteq config.vars
    BY <1>1, ConfigsAssumption, Zenon DEF Talk, Typed, LinkTyped
  <1> QED
    BY <1>2, <1>3 DEF InForce, Parameters

(* Nothing sets anything when no parameter is asked for.                   *)
LEMMA SetsNothing ==
    ASSUME request.kind # "set", [Next]_vars
    PROVE  UNCHANGED <<config, assigned, names>>
  <1>1. CASE Dial \/ ReadFails \/ OutOfSync \/ UnknownCollation \/ SwitchToTLS
    BY <1>1 DEF Dial, ReadFails, OutOfSync, UnknownCollation, SwitchToTLS, local, server
  <1>2. CASE \/ ReadInitPacket \/ ReadResultOK \/ ReadResultSetHeader
             \/ ReadUntilEOF \/ ReadValue \/ ReadWarnings
    BY <1>2 DEF ReadInitPacket, ReadResultOK, ReadResultSetHeader, ReadUntilEOF, ReadValue,
                ReadWarnings, Receives, local, server
  <1>3. CASE \/ WriteAuthPacket \/ WriteOtherAuthPacket \/ ShowWarnings \/ GetSystemVar
             \/ ExecParam \/ Exec
    BY <1>3 DEF WriteAuthPacket, WriteOtherAuthPacket, ShowWarnings, GetSystemVar, ExecParam,
                Exec, Commands, Writes, local, server
  <1>4. CASE \/ NextParam \/ Connected \/ Close \/ LinkFails \/ Finished \/ UNCHANGED vars
             \/ Reply
    BY <1>4 DEF NextParam, Connected, Close, LinkFails, Finished, Reply, vars, local, server
  <1> QED
    BY <1>1, <1>2, <1>3, <1>4 DEF Next, Goroutine

(* A connection is returned only when the server has acknowledged every    *)
(* variable of the DSN and one of its charsets.                            *)
THEOREM ParamsInForceHolds ==
    ASSUME Wide
    PROVE  SafeSpec => []ParamsInForce
  <1> DEFINE Inv == Kept /\ IF wrapped THEN ParamsInForce ELSE Setting
  <1>1. Init => Inv
    BY InitKept, InitSet DEF Init
  <1>2. Inv /\ [Next]_vars => Inv'
    <2>1. SUFFICES ASSUME Inv, [Next]_vars PROVE Inv'
      OBVIOUS
    <2>2. Kept'
      BY <2>1, NextKept
    <2>3. CASE wrapped
      <3>1. Late /\ Late'
        BY <2>1, <2>3, NextLate DEF Kept
      <3>2. UNCHANGED <<config, assigned, names, result>> /\ wrapped'
        BY <2>1, <3>1, SetsNothing DEF Late
      <3>3. ParamsInForce'
        BY <2>1, <2>3, <3>2 DEF ParamsInForce
      <3> QED
        BY <2>2, <3>2, <3>3
    <2>4. CASE ~wrapped /\ wrapped'
      <3>1. Talk /\ Late' /\ request.kind # "set"
        BY <2>1, <2>4, LateBegins DEF Kept
      <3>2. ParamsInForce
        BY <2>1, <2>4, <3>1, TalkInForce
      <3>3. UNCHANGED <<config, assigned, names>>
        BY <2>1, <3>1, SetsNothing
      <3>4. result = "connected"
        BY <2>1, <2>4, LateBegins DEF Kept
      <3>5. ParamsInForce'
        BY <3>2, <3>3, <3>4 DEF ParamsInForce
      <3> QED
        BY <2>2, <2>4, <3>5
    <2>5. CASE ~wrapped /\ ~wrapped'
      <3>1. Setting'
        BY <2>1, <2>5, NextSets DEF Kept
      <3> QED
        BY <2>2, <2>5, <3>1
    <2> QED
      BY <2>3, <2>4, <2>5
  <1>3. Inv => ParamsInForce
    BY TalkInForce DEF Kept
  <1> QED
    BY <1>1, <1>2, <1>3, PTL DEF SafeSpec
=============================================================================
