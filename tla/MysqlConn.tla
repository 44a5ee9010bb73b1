----------------------------- MODULE MysqlConn -----------------------------
(***************************************************************************)
(* dump.MysqlConn (dump/connection.go, packets.go, errors.go): connecting  *)
(* to a server with NewMysqlConn, and the statements executed over the     *)
(* connection before the dump begins.                                      *)
(*                                                                         *)
(* One goroutine asks and reads, packet by packet.  The functions that     *)
(* wait for a packet call each other and themselves; await is the one that *)
(* waits, task what it was called for.  What happens to a connection that  *)
(* two goroutines use is the matter of SlaveConn.                          *)
(***************************************************************************)
EXTENDS Naturals, Sequences, FiniteSets

CONSTANTS
    Configs,       \* what ParseDSN may return
    SeqMod,        \* packet sequence numbers are modulo this (256)
    RowCounts,     \* how many rows a result may have
    MaxExecs       \* bound: statements that the caller executes

ASSUME SeqModAssumption == SeqMod \in Nat \ {0}
ASSUME RowCountsAssumption == RowCounts \subseteq Nat
ASSUME MaxExecsAssumption == MaxExecs \in Nat

Plugins == {"old", "clear", "native", "unknown"}
Layers == {"raw", "tls"}

(* maxAllowedPacket, readTimeout: the DSN gives one. collation: the client *)
(* knows it. vars: the parameters other than charset.                      *)
ASSUME ConfigsAssumption ==
    \A config \in Configs :
        /\ {config.tls, config.strict, config.maxAllowedPacket, config.readTimeout,
            config.collation} \subseteq BOOLEAN
        /\ config.allowed \subseteq Plugins \ {"unknown"}
        /\ IsFiniteSet(config.vars) /\ "charset" \notin config.vars
        /\ config.charsets \in Seq(STRING)

VARIABLES
    config,     \* mc.cfg as parsed, strict and the timeout included
    task,       \* what NewMysqlConn or its caller is at
    await,      \* which read waits for a packet, "nothing" between two calls
    todo,       \* parameters that handleParams has not come to
    trying,     \* statements for the current parameter, the current one first
    more,       \* statusMoreResultsExists in mc.status
    warned,     \* an OK packet has counted warnings: "no", "yes", or "shown"
    netConn,    \* mc.netConn is not nil
    open,       \* the socket is open
    layer,      \* what mc.netConn writes to: the socket or TLS over it
    sequence,   \* mc.sequence
    result,     \* what NewMysqlConn returns, "none" before
    why,        \* the error that ended the connection, "none" before
    panicked,   \* netConn was nil when it was written to
    execs,      \* statements the caller has executed
    commands,   \* history: requests written
    mixed,      \* history: a packet was read as an answer to another request
    link,       \* the network between the two
    request,    \* the request that the server has not answered
    wire,       \* packets sent and not yet read
    security,   \* the layer the server writes to
    assigned,   \* system variables that the server has set
    names,      \* the charset that the server has set
    wrapped     \* history: numbers came round within one answer to the caller

params == <<todo, trying>>
status == <<more, warned>>
socket == <<netConn, open>>
outcome == <<task, await, result, why, params, socket>>
server == <<security, assigned, names, wrapped>>
vars == <<config, outcome, status, layer, sequence, panicked, execs, commands, mixed,
          link, request, wire, server>>

Tasks == {"dial", "handshake", "auth", "retry", "var", "params", "ready", "exec", "ended"}
Reads == {"nothing", "handshake", "authResult", "header", "columns", "rows", "value", "rest",
          "moreHeader", "moreColumns", "moreRows",
          "showWarnings", "warnHeader", "warnColumns", "warnRows"}
Kinds == {"handshake", "oldProtocol", "ok", "err", "switch", "header", "column", "eof", "row"}
Requests == {"none", "connect", "auth", "switch", "var", "set", "warnings", "exec"}

TypeOK ==
    /\ config \in Configs /\ task \in Tasks /\ await \in Reads
    /\ todo \subseteq config.vars \cup {"charset"}
    /\ \A n \in 1 .. Len(trying) : trying[n].var \in config.vars \cup {"charset"}
    /\ more \in BOOLEAN /\ warned \in {"no", "yes", "shown"}
    /\ netConn \in BOOLEAN /\ open \in BOOLEAN /\ layer \in Layers
    /\ sequence \in 0 .. SeqMod - 1
    /\ result \in {"none", "connected", "error"}
    /\ panicked \in BOOLEAN /\ mixed \in BOOLEAN
    /\ execs \in 0 .. MaxExecs /\ commands \in Nat
    /\ link \in {"up", "lost"} /\ request.kind \in Requests
    /\ \A n \in 1 .. Len(wire) : wire[n].kind \in Kinds /\ wire[n].seq \in 0 .. SeqMod - 1
    /\ security \in Layers /\ assigned \subseteq config.vars /\ wrapped \in BOOLEAN

NoRequest == [kind |-> "none"]

(* cfg.Params, a map, so in no order. A charset is a list of charsets.     *)
Parameters == config.vars \cup (IF config.charsets = <<>> THEN {} ELSE {"charset"})
Statements(param) ==
    LET values == IF param = "charset" THEN config.charsets ELSE <<"given">>
    IN  [n \in 1 .. Len(values) |-> [var |-> param, value |-> values[n]]]

Init ==
    /\ config \in Configs
    /\ task = "dial" /\ await = "nothing" /\ todo = Parameters /\ trying = <<>>
    /\ more = FALSE /\ warned = "no"
    /\ netConn = FALSE /\ open = FALSE /\ layer = "raw" /\ sequence = 0
    /\ result = "none" /\ why = "none" /\ panicked = FALSE /\ execs = 0
    /\ commands = 0 /\ mixed = FALSE
    /\ link = "up" /\ request = NoRequest /\ wire = <<>>
    /\ security = "raw" /\ assigned = {} /\ names = "none" /\ wrapped = FALSE

(* Mutant: the number does not wrap.                                       *)
NextSequenceUnwrapped(n) == n + 1

(* mc.sequence is a uint8.                                                 *)
NextSequence(n) == (n + 1) % SeqMod

-----------------------------------------------------------------------------
(* The server (external) and the network.                                  *)

Packet(kind) == [kind |-> kind, what |-> "", more |-> FALSE, warned |-> FALSE]
Ok == Packet("ok")
More(packet) == [packet EXCEPT !.more = TRUE]
Table(rows, last) ==
    <<Packet("header"), Packet("column"), last>> \o [n \in 1 .. rows |-> Packet("row")] \o <<last>>
Tables == {Table(rows, Packet("eof")) : rows \in RowCounts}
FirstTables == {Table(rows, More(Packet("eof"))) : rows \in RowCounts}
Statement == {<<Ok>>, <<[Ok EXCEPT !.warned = TRUE]>>, <<Packet("err")>>}

(* Of several statements, or a procedure, the answers follow each other.   *)
Several ==
    {<<More(Ok), Ok>>, <<More(Ok), [Ok EXCEPT !.warned = TRUE]>>, <<More(Ok), Packet("err")>>}
    \cup {<<More(Ok)>> \o table : table \in Tables}
    \cup {table \o <<Ok>> : table \in FirstTables}
    \cup {<<More(Ok)>> \o table \o <<Ok>> : table \in FirstTables}

Answers(kind) ==
    CASE kind = "connect" ->
             {<<Packet("oldProtocol")>>, <<Packet("err")>>}
             \cup {<<[Packet("handshake") EXCEPT !.what = ssl]>> : ssl \in {"ssl", "plain"}}
      [] kind \in {"auth", "switch"} ->
             {<<Ok>>, <<Packet("err")>>}
             \cup {<<[Packet("switch") EXCEPT !.what = plugin]>> : plugin \in Plugins}
      [] kind = "var" -> {Table(1, Packet("eof")), <<Packet("err")>>}
      [] kind = "warnings" -> Tables \cup {<<Packet("err")>>}
      [] kind = "set" -> Statement
      [] kind = "exec" -> Statement \cup Several \cup Tables

Sent(answer) ==
    [n \in 1 .. Len(answer) |->
        [kind |-> answer[n].kind, what |-> answer[n].what, more |-> answer[n].more,
         warned |-> answer[n].warned, seq |-> (request.seq + n) % SeqMod,
         to |-> commands, layer |-> security]]

Reply ==
    /\ link = "up" /\ open /\ request # NoRequest
    /\ \E answer \in Answers(request.kind) :
           /\ wire' = wire \o Sent(answer)
           /\ wrapped' = (wrapped \/ (request.kind = "exec" /\ Len(answer) > SeqMod))
           /\ IF request.kind = "set" /\ answer[1].kind = "ok"
              THEN IF request.var = "charset"
                   THEN names' = request.value /\ UNCHANGED assigned
                   ELSE assigned' = assigned \cup {request.var} /\ UNCHANGED names
              ELSE UNCHANGED <<assigned, names>>
    /\ request' = NoRequest
    /\ UNCHANGED <<config, outcome, status, layer, sequence, panicked, execs, commands, mixed,
                   link, security>>

LinkFails ==
    /\ link = "up" /\ task \notin {"dial", "ended"}
    /\ link' = "lost"
    /\ UNCHANGED <<config, outcome, status, layer, sequence, panicked, execs, commands, mixed,
                   request, wire, server>>

-----------------------------------------------------------------------------
(* How a call ends.                                                        *)

local == <<config, execs>>

(* Close and cleanup. The packet sequence number, which Close resets, is   *)
(* not used again: nothing reads or writes then.                           *)
Closes == netConn' = FALSE /\ open' = FALSE

Calls(newTask, read) ==
    /\ task' = newTask /\ await' = read
    /\ UNCHANGED <<result, why, params, socket>>

(* Mutant: the socket of a connection that is refused stays open.          *)
FailsOpen(closing, error) ==
    IF Len(trying) > 1
    THEN /\ await' = "nothing" /\ trying' = Tail(trying)
         /\ IF closing THEN Closes ELSE UNCHANGED socket
         /\ UNCHANGED <<task, result, why, todo>>
    ELSE /\ task' = "ended" /\ await' = "nothing" /\ why' = error
         /\ IF closing \/ task \notin {"auth", "retry"} THEN Closes ELSE UNCHANGED socket
         /\ result' = IF result = "none" THEN "error" ELSE result
         /\ UNCHANGED params

(* Mutant: the error of the last charset is ignored as well.               *)
FailsForgiving(closing, error) ==
    IF Len(trying) > 0
    THEN /\ await' = "nothing" /\ trying' = Tail(trying)
         /\ IF closing THEN Closes ELSE UNCHANGED socket
         /\ UNCHANGED <<task, result, why, todo>>
    ELSE /\ task' = "ended" /\ await' = "nothing" /\ why' = error
         /\ Closes
         /\ result' = IF result = "none" THEN "error" ELSE result
         /\ UNCHANGED params

(* An error, after readPacket has closed the connection or not, ends       *)
(* NewMysqlConn, which closes it, unless there is another charset to try.  *)
(* The caller closes the connection if a statement fails, as newSlaveConn. *)
Fails(closing, error) ==
    IF Len(trying) > 1
    THEN /\ await' = "nothing" /\ trying' = Tail(trying)
         /\ IF closing THEN Closes ELSE UNCHANGED socket
         /\ UNCHANGED <<task, result, why, todo>>
    ELSE /\ task' = "ended" /\ await' = "nothing" /\ why' = error
         /\ Closes
         /\ result' = IF result = "none" THEN "error" ELSE result
         /\ UNCHANGED params

Succeeds ==
    /\ task' = CASE task \in {"auth", "retry"} ->
                        IF config.maxAllowedPacket THEN "params" ELSE "var"
                 [] task \in {"var", "params"} -> "params"
                 [] task = "exec" -> "ready"
    /\ await' = "nothing" /\ trying' = <<>>
    /\ UNCHANGED <<result, why, todo, socket>>

(* writePacket with this sequence number. It dereferences netConn.         *)
Writes(kind, statement, number, newTask, read) ==
    /\ IF ~netConn
       THEN panicked' = TRUE /\ UNCHANGED <<outcome, sequence, commands, request>>
       ELSE /\ \/ /\ Calls(newTask, read)
                  /\ sequence' = NextSequence(number) /\ commands' = commands + 1
                  /\ request' = IF link = "lost" THEN NoRequest
                                ELSE [kind |-> kind, seq |-> number,
                                      var |-> statement.var, value |-> statement.value]
               \/ /\ link = "lost" /\ Fails(FALSE, "badConn")
                  /\ sequence' = number /\ UNCHANGED <<commands, request>>
            /\ UNCHANGED panicked
    /\ UNCHANGED <<layer, mixed, link, wire, server>>

NoStatement == [var |-> "", value |-> ""]

(* writeCommandPacket and writeCommandPacketStr.                           *)
Commands(kind, statement, newTask, read) ==
    /\ Writes(kind, statement, 0, newTask, read)
    /\ UNCHANGED more /\ warned' = "no"

-----------------------------------------------------------------------------
(* readPacket.                                                             *)

(* The number in the header. mc.reader stays on the socket when netConn    *)
(* is replaced: of a packet under TLS it reads the head of the TLS record, *)
(* whose fourth byte is the upper byte of its length, 0 if it is short.    *)
Number(packet) == IF packet.layer = "raw" THEN packet.seq ELSE 0

Waits == ~panicked /\ await # "nothing" /\ await # "showWarnings" /\ netConn

(* Mutant: no check of the sequence number.                                *)
InSyncUnchecked(packet) == TRUE

InSync(packet) == Number(packet) = sequence

(* A read waits for this packet and gets it.                               *)
Receives(reads) ==
    /\ Waits /\ await \in reads
    /\ wire # <<>> /\ InSync(Head(wire))
    /\ wire' = Tail(wire) /\ sequence' = NextSequence(sequence)
    /\ mixed' = (mixed \/ Head(wire).to # commands)
    /\ UNCHANGED <<local, layer, panicked, commands, link, request, server>>

(* The connection is lost, or the deadline passes.                         *)
ReadFails ==
    /\ Waits /\ (link = "lost" \/ (config.readTimeout /\ wire = <<>>))
    /\ Fails(TRUE, "badConn")
    /\ UNCHANGED <<local, status, layer, sequence, panicked, commands, mixed, link, request,
                   wire, server>>

OutOfSync ==
    /\ Waits /\ wire # <<>> /\ ~InSync(Head(wire))
    /\ Fails(FALSE, "sync")
    /\ UNCHANGED <<local, status, layer, sequence, panicked, commands, mixed, link, request,
                   wire, server>>

packet == Head(wire)

-----------------------------------------------------------------------------
(* Connecting: NewMysqlConn up to the answer to its authentication.        *)

(* If keepalives cannot be enabled, the new connection is closed again.    *)
Dial ==
    /\ task = "dial"
    /\ \/ /\ task' = "handshake" /\ await' = "handshake"
          /\ netConn' = TRUE /\ open' = TRUE
          /\ request' = [kind |-> "connect", seq |-> SeqMod - 1]
          /\ UNCHANGED <<result, why>>
       \/ /\ task' = "ended" /\ result' = "error" /\ why' = "dial"
          /\ Closes /\ UNCHANGED <<await, request>>
    /\ UNCHANGED <<local, params, status, layer, sequence, panicked, commands, mixed, link, wire,
                   server>>

ReadInitPacket ==
    /\ Receives({"handshake"})
    /\ CASE packet.kind = "err" -> Fails(FALSE, "err")
         [] packet.kind = "oldProtocol" -> Fails(FALSE, "protocol")
         [] OTHER ->
                IF packet.what = "plain" /\ config.tls THEN Fails(FALSE, "noTLS")
                ELSE Calls("auth", "nothing")
    /\ UNCHANGED status

(* writeAuthPacket looks up the collation before it writes anything.       *)
UnknownCollation ==
    /\ ~panicked /\ task = "auth" /\ await = "nothing" /\ ~config.collation
    /\ Fails(FALSE, "collation")
    /\ UNCHANGED <<local, status, layer, sequence, panicked, commands, mixed, link, request,
                   wire, server>>

(* The SSL request and the handshake of TLS, over netConn.                 *)
SwitchToTLS ==
    /\ ~panicked /\ task = "auth" /\ await = "nothing" /\ config.collation
    /\ config.tls /\ layer = "raw"
    /\ \/ /\ link = "up"
          /\ layer' = "tls" /\ security' = "tls"
          /\ sequence' = NextSequence(sequence)
          /\ UNCHANGED outcome
       \/ /\ Fails(FALSE, "handshake")
          /\ UNCHANGED <<layer, security, sequence>>
    /\ UNCHANGED <<local, status, panicked, commands, mixed, link, request, wire, assigned, names,
                   wrapped>>

WriteAuthPacket ==
    /\ ~panicked /\ task = "auth" /\ await = "nothing" /\ config.collation
    /\ config.tls => layer = "tls"
    /\ Writes("auth", NoStatement, sequence, "auth", "authResult")
    /\ UNCHANGED <<local, status>>

(* writeOldAuthPacket, writeClearAuthPacket and writeNativeAuthPacket.     *)
WriteOtherAuthPacket ==
    /\ ~panicked /\ task = "retry" /\ await = "nothing"
    /\ Writes("switch", NoStatement, sequence, "retry", "authResult")
    /\ UNCHANGED <<local, status>>

-----------------------------------------------------------------------------
(* Answers. handleOkPacket and discardResults call each other, until the   *)
(* server has no more results; then every handleOkPacket that counted      *)
(* warnings has its turn in strict mode, but the first returns an error.   *)

Goes(read) ==
    /\ await' = read
    /\ UNCHANGED <<task, result, why, params, socket>>

Discards(follows, warnings) ==
    /\ more' = follows /\ warned' = warnings
    /\ IF follows THEN Goes("moreHeader")
       ELSE IF warnings = "shown" THEN Fails(FALSE, "warnings")
       ELSE IF warnings = "yes" /\ config.strict THEN Goes("showWarnings")
       ELSE IF task = "var" THEN Goes("value")
       ELSE Succeeds

HandleOkPacket ==
    Discards(packet.more, IF packet.warned /\ warned = "no" THEN "yes" ELSE warned)

(* readResultOK and handleAuthResult.                                      *)
ReadResultOK ==
    /\ Receives({"authResult"})
    /\ CASE packet.kind = "ok" -> HandleOkPacket
         [] packet.kind = "switch" ->
                /\ IF task = "auth" /\ packet.what \in config.allowed
                   THEN Calls("retry", "nothing")
                   ELSE Fails(FALSE, "plugin")
                /\ UNCHANGED status
         [] OTHER -> Fails(FALSE, "err") /\ UNCHANGED status

(* readResultSetHeaderPacket, called for a command or by discardResults.   *)
ReadResultSetHeader ==
    /\ Receives({"header", "moreHeader"})
    /\ CASE packet.kind = "ok" -> HandleOkPacket
         [] packet.kind = "header" ->
                /\ Goes(IF await = "header" THEN "columns" ELSE "moreColumns")
                /\ UNCHANGED status
         [] OTHER -> Fails(FALSE, "err") /\ UNCHANGED status

AfterEOF ==
    [read \in {"columns", "moreColumns"} |->
        IF read = "moreColumns" THEN "moreRows" ELSE IF task = "var" THEN "value" ELSE "rows"]

(* readUntilEOF, over column descriptions or rows, which exec throws away. *)
ReadUntilEOF ==
    /\ Receives({"columns", "rows", "rest", "moreColumns", "moreRows"})
    /\ CASE packet.kind = "err" -> Fails(FALSE, "err") /\ UNCHANGED status
         [] packet.kind = "eof" ->
                IF await = "moreRows" THEN Discards(packet.more, warned)
                ELSE /\ more' = packet.more /\ UNCHANGED warned
                     /\ IF await \in DOMAIN AfterEOF THEN Goes(AfterEOF[await]) ELSE Succeeds
         [] OTHER -> UNCHANGED <<outcome, status>>

(* Mutant: the end of the result stays unread.                             *)
ReadValueAlone ==
    /\ Receives({"value"})
    /\ IF packet.kind = "row" THEN Succeeds ELSE Fails(FALSE, "noRow")
    /\ UNCHANGED status

(* Mutant: two ends of a result are expected.                              *)
ReadValueTwice ==
    /\ Receives({"value"})
    /\ IF packet.kind = "row" THEN Goes("columns") ELSE Fails(FALSE, "noRow")
    /\ UNCHANGED status

(* The one row that getSystemVar reads; the rest is read until its end.    *)
ReadValue ==
    /\ Receives({"value"})
    /\ IF packet.kind = "row" THEN Goes("rest") ELSE Fails(FALSE, "noRow")
    /\ UNCHANGED status

(* getWarnings. The warnings are an error, even if there are none; SHOW    *)
(* WARNINGS has a single result.                                           *)
ShowWarnings ==
    /\ ~panicked /\ await = "showWarnings"
    /\ Writes("warnings", NoStatement, 0, task, "warnHeader")
    /\ UNCHANGED <<local, status>>

(* Mutant: the end of the column descriptions is taken for that of rows.   *)
ReadWarningsShort ==
    /\ Receives({"warnHeader", "warnColumns", "warnRows"})
    /\ CASE packet.kind = "err" -> Fails(FALSE, "err") /\ UNCHANGED status
         [] packet.kind = "header" -> Goes("warnRows") /\ UNCHANGED status
         [] packet.kind \in {"ok", "eof"} -> Discards(packet.more, "shown")
         [] OTHER -> UNCHANGED <<outcome, status>>

ReadWarnings ==
    /\ Receives({"warnHeader", "warnColumns", "warnRows"})
    /\ CASE packet.kind = "err" -> Fails(FALSE, "err") /\ UNCHANGED status
         [] packet.kind = "header" -> Goes("warnColumns") /\ UNCHANGED status
         [] packet.kind = "eof" /\ await = "warnColumns" ->
                Goes("warnRows") /\ UNCHANGED status
         [] packet.kind = "ok" \/ (packet.kind = "eof" /\ await = "warnRows") ->
                Discards(packet.more, "shown")
         [] OTHER -> UNCHANGED <<outcome, status>>

-----------------------------------------------------------------------------
(* Commands: getSystemVar, handleParams, and exec for the caller.          *)

GetSystemVar ==
    /\ ~panicked /\ task = "var" /\ await = "nothing"
    /\ Commands("var", NoStatement, "var", "header")
    /\ UNCHANGED local

NextParam ==
    /\ task = "params" /\ await = "nothing" /\ trying = <<>> /\ todo # {}
    /\ \E param \in todo :
           todo' = todo \ {param} /\ trying' = Statements(param)
    /\ UNCHANGED <<local, task, await, result, why, socket, status, layer, sequence, panicked,
                   commands, mixed, link, request, wire, server>>

ExecParam ==
    /\ ~panicked /\ task = "params" /\ await = "nothing" /\ trying # <<>>
    /\ Commands("set", Head(trying), "params", "header")
    /\ UNCHANGED local

(* NewMysqlConn returns the connection.                                    *)
Connected ==
    /\ task = "params" /\ await = "nothing" /\ trying = <<>> /\ todo = {}
    /\ task' = "ready" /\ result' = "connected"
    /\ UNCHANGED <<local, await, why, params, socket, status, layer, sequence, panicked, commands,
                   mixed, link, request, wire, server>>

(* A bound: a caller who has got the answer to another statement executes  *)
(* no more.                                                                *)
Exec ==
    /\ task = "ready" /\ execs < MaxExecs /\ ~mixed
    /\ execs' = execs + 1
    /\ Commands("exec", NoStatement, "exec", "header")
    /\ UNCHANGED config

Close ==
    /\ task = "ready"
    /\ Closes /\ task' = "ended"
    /\ UNCHANGED <<local, await, result, why, params, status, layer, sequence, panicked, commands,
                   mixed, link, request, wire, server>>

Finished == (task = "ended" \/ panicked) /\ UNCHANGED vars

-----------------------------------------------------------------------------
Goroutine ==
    \/ Dial \/ ReadFails \/ OutOfSync
    \/ ReadInitPacket \/ UnknownCollation \/ SwitchToTLS
    \/ WriteAuthPacket \/ WriteOtherAuthPacket
    \/ ReadResultOK \/ ReadResultSetHeader \/ ReadUntilEOF \/ ReadValue
    \/ ShowWarnings \/ ReadWarnings
    \/ GetSystemVar \/ NextParam \/ ExecParam \/ Connected

Next == Goroutine \/ Exec \/ Close \/ Reply \/ LinkFails \/ Finished

SafeSpec == Init /\ [][Next]_vars

(* The goroutine runs when it can, and the server answers unless the link  *)
(* is lost, which the reader is told of.                                   *)
Spec == SafeSpec /\ WF_vars(Goroutine) /\ WF_vars(Reply)

-----------------------------------------------------------------------------
(* A packet is not taken for the answer to another request than the last   *)
(* one, although exec leaves the further results of a procedure unread,    *)
(* but when the numbers have come round within the answer it belongs to.   *)
ReadsOwnAnswer == mixed => wrapped

(* When NewMysqlConn returns a connection, every answer has been read to   *)
(* its end, so that the dump request and its answer follow on a clean one. *)
NothingLeft ==
    result = "connected" /\ execs = 0 /\ task = "ready" => wire = <<>> /\ request = NoRequest

(* The packets of connecting are never out of sync, but over TLS, where    *)
(* the reader gets what it cannot read.                                    *)
ConnectsInSync == ~config.tls /\ result # "connected" => why # "sync"

(* No path of NewMysqlConn that returns an error leaves the socket open.   *)
ClosedOnError == result = "error" => ~open /\ ~netConn

(* A connection that is returned has all its parameters set: each variable *)
(* on the server, and one of the charsets given, if any.                   *)
ParamsInForce ==
    result = "connected" =>
        /\ assigned = config.vars
        /\ config.charsets # <<>> => \E n \in 1 .. Len(config.charsets) : names = config.charsets[n]

(* NewMysqlConn and Exec return: no read waits for a packet that the       *)
(* server does not send.                                                   *)
Returns ==
    /\ <>(result # "none" \/ panicked)
    /\ [](task = "exec" => <>(task # "exec" \/ panicked))

(* handleParams ignores the error of a charset, as it "may not exist", and *)
(* tries the next one: the connection is still there to be written to.     *)
ConnWhenNeeded == ~panicked
=============================================================================
