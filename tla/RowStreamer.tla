---------------------------- MODULE RowStreamer ----------------------------
(***************************************************************************)
(* RowStreamer.Stream and its parser, parseEvents (row_streamer.go).       *)
(*                                                                         *)
(* One goroutine takes binlog events from a channel, groups row events     *)
(* into transactions and hands every transaction to the application's      *)
(* sendTransaction callback.  Here the events are arbitrary: the module    *)
(* says what the parser does whatever a master sends.  Replication         *)
(* composes it with a master that sends the events of a real binlog.       *)
(*                                                                         *)
(* One action is one iteration of the parser's loop, so it includes the    *)
(* callback the iteration makes.  An offset stands for a position between  *)
(* two events of a file, a row event for the row images it carries.        *)
(***************************************************************************)
EXTENDS Naturals, Sequences

CONSTANTS
    Files,       \* binlog file names
    Offsets,     \* offsets in a file; 0 is before its first event
    TableIds,    \* the numbers a master gives the tables it has open
    TableNames,  \* the tables themselves
    ColumnCounts,\* how many columns a table may have
    Versions,    \* a table has other columns after each ALTER TABLE
    Statements,  \* the SQL texts of query events, each a sequence of words
    MaxRows,     \* bound: rows events read, over all calls of Stream
    MaxSent,     \* bound: transactions handed to the application
    NoTable      \* the entry of an id that tablesMaps does not hold

Position == [file: Files, off: Offsets]

(* The columns of a table, their names and types, between two ALTERs: the  *)
(* code compares nothing of them but how many there are.                   *)
Layout == [count: ColumnCounts, version: Versions]
TableDef == [name: TableNames, cols: Layout]

(* What tablesMaps holds of an id: the last TABLE_MAP event of that id,    *)
(* which has the columns' types, and the MysqlTable that the application's *)
(* mapper gave for the first one, which has their names.                   *)
TableCache == [tableMap: TableDef, table: TableDef]

ASSUME StatementsAssumption == \A sql \in Statements : sql \in Seq(STRING) /\ sql # <<>>
ASSUME BoundsAssumption == MaxRows \in Nat /\ MaxSent \in Nat
ASSUME NoTableAssumption == NoTable \notin TableCache

Operations == {"insert", "update", "delete"}

(* A StreamEvent: the columns' names come from table, their types from     *)
(* decodedAs, and row identifies the row event it was made from.           *)
StreamEvent == [op: Operations, table: TableDef, decodedAs: TableDef, row: Nat]
Transaction == [now: Position, next: Position, events: Seq(StreamEvent), accepted: BOOLEAN]

VARIABLES
    startPos,    \* RowStreamer.startPos, an atomic.Value
    phase,       \* where Stream is: "idle", "dumping" or "parsing"
    result,      \* why the last Stream returned, "none" while one runs
    cancelled,   \* the context of the running Stream is done
    dumpPos,     \* the position the dump of the running Stream was asked for
    pos, format, tranEvents, autocommit, tablesMaps,  \* parseEvents' locals
    sent,        \* history: transactions handed to sendTransaction
    rowEvents    \* how many rows events the master has written

locals == <<pos, format, tranEvents, autocommit, tablesMaps>>
vars == <<startPos, phase, result, cancelled, dumpPos, locals, sent>>

Results == {"none", "startError", "eof", "cancelled", "error", "sendError", "panic"}
Formats == {"zero", "off", "crc32", "other"}

(* The first word of a statement decides what the parser does with it.     *)
GetStatementCategory(sql) ==
    IF sql[1] \in {"begin", "commit", "rollback"} THEN sql[1] ELSE "other"

TypeOK ==
    /\ startPos \in Position
    /\ phase \in {"idle", "dumping", "parsing"}
    /\ result \in Results
    /\ cancelled \in BOOLEAN
    /\ dumpPos \in Position
    /\ pos \in Position
    /\ format \in Formats
    /\ tranEvents \in Seq(StreamEvent)
    /\ autocommit \in BOOLEAN
    /\ tablesMaps \in [TableIds -> TableCache \cup {NoTable}]
    /\ sent \in Seq(Transaction)
    /\ rowEvents \in Nat

NoTables == [id \in TableIds |-> NoTable]

(* The application has set a start position: Stream panics without one.    *)
Init ==
    /\ startPos \in Position
    /\ phase = "idle" /\ result = "none" /\ cancelled = FALSE
    /\ dumpPos = startPos /\ pos = startPos
    /\ format = "zero" /\ tranEvents = <<>> /\ autocommit = TRUE
    /\ tablesMaps = NoTables
    /\ sent = <<>> /\ rowEvents = 0

(* Mutants: the pending rows, the known tables outlive the call.           *)
FreshLocalsButTables(p) ==
    /\ pos' = p
    /\ format' = "zero" /\ tranEvents' = <<>> /\ autocommit' = TRUE
    /\ UNCHANGED tablesMaps

FreshLocalsButRows(p) ==
    /\ pos' = p
    /\ format' = "zero" /\ autocommit' = TRUE /\ tablesMaps' = NoTables
    /\ UNCHANGED tranEvents

(* parseEvents' locals as a call makes them.  Between two calls of Stream  *)
(* they do not exist; they then have these values.                         *)
FreshLocals(p) ==
    /\ pos' = p
    /\ format' = "zero" /\ tranEvents' = <<>> /\ autocommit' = TRUE
    /\ tablesMaps' = NoTables

-----------------------------------------------------------------------------
(* The caller of Stream, in any goroutine.                                 *)

SetStartBinlogPosition(p) ==
    /\ startPos' = p
    /\ UNCHANGED <<phase, result, cancelled, dumpPos, locals, sent>>

Cancel ==
    /\ phase # "idle" /\ ~cancelled
    /\ cancelled' = TRUE
    /\ UNCHANGED <<startPos, phase, result, dumpPos, locals, sent>>

(* Stream connects and asks for a dump from startPos ...                   *)
Stream ==
    /\ phase = "idle"
    /\ phase' = "dumping" /\ result' = "none" /\ cancelled' = FALSE
    /\ dumpPos' = startPos
    /\ UNCHANGED <<startPos, locals, sent>>

Return(why) ==
    /\ phase' = "idle" /\ result' = why
    /\ FreshLocals(dumpPos)

StreamFails ==
    /\ phase = "dumping"
    /\ UNCHANGED <<startPos, cancelled, dumpPos, sent>>
    /\ Return("startError")

(* ... and parseEvents reads startPos again for the position it reports.   *)
ParseEvents ==
    /\ phase = "dumping"
    /\ phase' = "parsing"
    /\ UNCHANGED <<startPos, result, cancelled, dumpPos, sent>>
    /\ FreshLocals(startPos)

-----------------------------------------------------------------------------
(* The parser's loop.  A closed channel and a done context end it, and     *)
(* when both an event and ctx.Done are ready the select takes either.      *)

EndOfStream ==
    /\ phase = "parsing"
    /\ UNCHANGED <<startPos, cancelled, dumpPos, sent>>
    /\ Return("eof")

ContextDone ==
    /\ phase = "parsing" /\ cancelled
    /\ UNCHANGED <<startPos, cancelled, dumpPos, sent>>
    /\ Return("cancelled")

Receive ==
    /\ phase = "parsing"
    /\ UNCHANGED <<startPos, cancelled, dumpPos>>

Running == UNCHANGED <<phase, result>>
Reject == Return("error") /\ UNCHANGED sent

(* An event that IsValid refuses.                                          *)
InvalidEvent == Receive /\ Reject

FormatDescription(alg) ==
    /\ Receive /\ Running
    /\ format' = alg
    /\ UNCHANGED <<pos, tranEvents, autocommit, tablesMaps, sent>>

(* Mutant: the master's fake ROTATE is not expected so early.              *)
EarlyRotateRejected == format = "zero" /\ Receive /\ Reject

(* Before the first format description the master's fake ROTATE is         *)
(* skipped, and anything else ends the stream.                             *)
EarlyRotate ==
    /\ Receive /\ Running
    /\ format = "zero"
    /\ UNCHANGED <<locals, sent>>

EarlyEvent == format = "zero" /\ Receive /\ Reject

(* StripChecksum knows no checksum and CRC32 only.                         *)
UnsupportedChecksum == format = "other" /\ Receive /\ Reject

Parse == format \in {"off", "crc32"} /\ Receive

(* Format, Rotate, Query, TableMap or Rows finds its event malformed; or   *)
(* the event is a RAND, an INTVAR or a ROWS_QUERY, refused in row mode.    *)
Unparsable == Parse /\ Reject

(* GTID events, and every type the switch does not name.                   *)
Ignored == Parse /\ Running /\ UNCHANGED <<locals, sent>>

Rotate(p) ==
    /\ Parse /\ Running
    /\ pos' = p
    /\ UNCHANGED <<format, tranEvents, autocommit, tablesMaps, sent>>

-----------------------------------------------------------------------------
(* Transactions.                                                           *)

(* Mutants: the position behind the event is off by one; is not taken.     *)
PositionAfterPlusOne(next) == [pos EXCEPT !.off = next + 1]
PositionNotAdvanced(next) == pos

(* The position behind the event that ends a transaction.                  *)
PositionAfter(next) == [pos EXCEPT !.off = next]

Send(next, events, ok) ==
    sent' = Append(sent, [now |-> pos, next |-> PositionAfter(next),
                          events |-> events, accepted |-> ok])

(* Mutant: the rows handed over stay pending.                              *)
CommitKeepsRows(next, events) ==
    \/ /\ Send(next, events, TRUE) /\ Running
       /\ pos' = PositionAfter(next)
       /\ tranEvents' = events /\ autocommit' = TRUE
       /\ UNCHANGED <<format, tablesMaps>>
    \/ Send(next, events, FALSE) /\ Return("sendError")

(* Mutant: the callback's error is dropped.                                *)
CommitIgnoresRefusal(next, events) ==
    /\ \E ok \in BOOLEAN : Send(next, events, ok)
    /\ Running
    /\ pos' = PositionAfter(next)
    /\ tranEvents' = <<>> /\ autocommit' = TRUE
    /\ UNCHANGED <<format, tablesMaps>>

(* The commit closure: a refused transaction ends the stream.              *)
Commit(next, events) ==
    \/ /\ Send(next, events, TRUE) /\ Running
       /\ pos' = PositionAfter(next)
       /\ tranEvents' = <<>> /\ autocommit' = TRUE
       /\ UNCHANGED <<format, tablesMaps>>
    \/ Send(next, events, FALSE) /\ Return("sendError")

Begin ==
    /\ Parse /\ Running
    /\ tranEvents' = <<>> /\ autocommit' = FALSE
    /\ UNCHANGED <<pos, format, tablesMaps, sent>>

XID(next) == Parse /\ Commit(next, tranEvents)

Query(sql, next) ==
    LET category == GetStatementCategory(sql) IN
    \/ category = "begin" /\ Begin
    \/ category = "rollback" /\ Parse /\ Commit(next, <<>>)
    \/ category = "commit" /\ Parse /\ Commit(next, tranEvents)
    \/ category = "other" /\ Ignored

(* Mutant: one cache entry for all ids.                                    *)
CachedForAll(id, entry) == [other \in TableIds |-> entry]

Cached(id, entry) == [tablesMaps EXCEPT ![id] = entry]

(* A TABLE_MAP event.  A known id keeps the table it was first mapped to:  *)
(* only the description of its columns is replaced, and nothing is         *)
(* compared.  The mapper is asked once per id, for the table of that name, *)
(* and describes it as it is now: refused unless it has as many columns.   *)
TableMap(id, def, now) ==
    /\ Parse /\ Running
    /\ \/ /\ tablesMaps[id] # NoTable
          /\ tablesMaps' = Cached(id, [tableMap |-> def, table |-> tablesMaps[id].table])
       \/ /\ tablesMaps[id] = NoTable /\ now.count = def.cols.count
          /\ tablesMaps' = Cached(id, [tableMap |-> def,
                                       table |-> [name |-> def.name, cols |-> now]])
    /\ UNCHANGED <<pos, format, tranEvents, autocommit, sent>>

TableMapRefused(id) == tablesMaps[id] = NoTable /\ Parse /\ Reject

(* A rows event has a number of columns of its own, count, and may have no *)
(* row.  For each row getValuesFromRow and getIdentifiesFromRow compare    *)
(* count with the number of names, and then take count types, unchecked.   *)
NamesMatch(tc, count, filled) == filled => count = tc.table.cols.count
TypesSuffice(tc, count, filled) == filled => count <= tc.tableMap.cols.count

(* The StreamEvent of a rows event.                                        *)
RowEvent(op, tc, row) ==
    [op |-> op, table |-> tc.table, decodedAs |-> tc.tableMap, row |-> row]

(* A rows event of a known table joins the open transaction, or is one by  *)
(* itself.                                                                 *)
Rows(op, id, count, filled, next, row) ==
    /\ Parse
    /\ tablesMaps[id] # NoTable
    /\ LET tc == tablesMaps[id]
           events == Append(tranEvents, RowEvent(op, tc, row))
       IN  /\ NamesMatch(tc, count, filled) /\ TypesSuffice(tc, count, filled)
           /\ IF autocommit
              THEN Commit(next, events)
              ELSE /\ tranEvents' = events /\ Running
                   /\ UNCHANGED <<pos, format, autocommit, tablesMaps, sent>>

RowsRefused(id, count, filled) ==
    /\ tablesMaps[id] # NoTable => ~NamesMatch(tablesMaps[id], count, filled)
    /\ Parse /\ Reject

(* The index of a type is out of range, in Rows or in getValuesFromRow.    *)
RowsPanic(id, count, filled) ==
    /\ tablesMaps[id] # NoTable /\ ~TypesSuffice(tablesMaps[id], count, filled)
    /\ Parse /\ Return("panic") /\ UNCHANGED sent

-----------------------------------------------------------------------------
(* The component alone: any event may come, and rows events are numbered   *)
(* as they are read.                                                       *)

RowsEvent ==
    /\ rowEvents < MaxRows
    /\ rowEvents' = rowEvents + 1
    /\ \E op \in Operations, id \in TableIds, count \in ColumnCounts, filled \in BOOLEAN,
          next \in Offsets : Rows(op, id, count, filled, next, rowEvents')

OtherEvent ==
    \/ InvalidEvent \/ EarlyRotate \/ EarlyEvent \/ UnsupportedChecksum
    \/ Unparsable \/ Ignored
    \/ \E alg \in Formats \ {"zero"} : FormatDescription(alg)
    \/ \E p \in Position : Rotate(p)
    \/ \E next \in Offsets : XID(next)
    \/ \E sql \in Statements, next \in Offsets : Query(sql, next)
    \/ \E id \in TableIds, def \in TableDef, now \in Layout : TableMap(id, def, now)
    \/ \E id \in TableIds : TableMapRefused(id)
    \/ \E id \in TableIds, count \in ColumnCounts, filled \in BOOLEAN :
          RowsRefused(id, count, filled) \/ RowsPanic(id, count, filled)

Caller ==
    \/ \E p \in Position : SetStartBinlogPosition(p)
    \/ Cancel \/ Stream \/ StreamFails \/ ParseEvents

Next ==
    \/ Len(sent) < MaxSent /\ RowsEvent
    \/ Len(sent) < MaxSent /\ OtherEvent /\ UNCHANGED rowEvents
    \/ (Caller \/ EndOfStream \/ ContextDone) /\ UNCHANGED rowEvents

Spec == Init /\ [][Next]_<<vars, rowEvents>>

-----------------------------------------------------------------------------
(* Properties.                                                             *)

(* While the parser is in autocommit mode no row is pending: rows left     *)
(* over from one transaction would be delivered with the next one.         *)
NoOrphanEvents == autocommit => tranEvents = <<>>

(* Rows are delivered in the order they were read, none twice, whatever    *)
(* begins, commits, rollbacks, refusals and restarts come between them:    *)
(* within one transaction ...                                              *)
Ascending(events) ==
    \A i, j \in DOMAIN events : i < j => events[i].row < events[j].row

(* ... and from one transaction to a later one.                            *)
Precedes(events1, events2) ==
    \A i \in DOMAIN events1, j \in DOMAIN events2 : events1[i].row < events2[j].row

RowsInOrderOnce ==
    \A k \in DOMAIN sent :
        /\ Ascending(sent[k].events)
        /\ \A m \in DOMAIN sent : k < m => Precedes(sent[k].events, sent[m].events)

=============================================================================
