---------------------------- MODULE Replication ----------------------------
(***************************************************************************)
(* RowStreamer fed by a master, and used by an application that restarts   *)
(* the stream, after each end of it, from the NextPosition of the last     *)
(* transaction it accepted.                                                *)
(*                                                                         *)
(* The master is modelled from what the parser expects of it and from the  *)
(* events replication/ names: it appends groups of events to the last of   *)
(* its binlog files.  The dump of a position sends, for its file and each  *)
(* later one, a fake ROTATE event, the file's format description and the   *)
(* file's events from the position on.  The connection carries them in     *)
(* order, and may end at any time; what it then still held is lost.        *)
(* SlaveConn details the connection.                                       *)
(***************************************************************************)
EXTENDS RowStreamer

CONSTANTS
    Changes,      \* the row changes of one transaction: sequences of Change
    Features,     \* what this master does besides committing transactions
    MaxGroups,    \* bound: groups of events in the binlog
    MaxTroubles   \* bound: lost connections, refusals, cancellations

Change == [op: Operations, table: TableNames]
AllFeatures == {"rollback", "ddl", "alter", "flush", "restart", "reuseIds", "savepoint", "xa"}

ASSUME ChangesAssumption == Changes \subseteq Seq(Change) \ {<<>>}
ASSUME FeaturesAssumption == Features \subseteq AllFeatures
ASSUME ColumnsAssumption == ColumnCounts # {}
ASSUME VersionsAssumption == Versions \subseteq Nat /\ Versions # {}

VARIABLES
    binlog,    \* the files, in order, each a sequence of events
    log,       \* the transactions committed, with where they are in binlog
    ids,       \* the id of each table the master has open, or 0
    nextId,    \* the id of the next table it opens
    cols,      \* the columns of each table, now
    prepared,  \* the row changes of a prepared XA transaction, or <<>>
    groups,    \* how many groups of events were written
    cursor,    \* what the dump sends next
    connected, \* the connection of the running Stream is up
    accepted,  \* the transactions that the application has accepted
    troubles   \* how much went wrong so far

master == <<binlog, log, ids, nextId, cols, rowEvents, prepared, groups>>
dump == <<cursor, connected>>
application == <<accepted, troubles>>
allVars == <<vars, master, dump, application>>

LastFile == Len(binlog)
EndOfBinlog == [file |-> LastFile, off |-> Len(binlog[LastFile])]

-----------------------------------------------------------------------------
(* The master writes.                                                      *)

query(sql) == [kind |-> "query", sql |-> sql]

(* Each change is a table map and a rows event; changes are numbered from  *)
(* rowEvents + 1 on.  Of def the parser reads the name, the types and how  *)
(* many they are; of a rows event's of, the table it was written to, it    *)
(* reads how many columns there are.                                       *)
ChangeEvents(changes) ==
    [i \in 1 .. 2 * Len(changes) |->
        LET n == (i + 1) \div 2
            change == changes[n]
            id == ids[change.table]
            def == [name |-> change.table, cols |-> cols[change.table]]
        IN  IF i % 2 = 1
            THEN [kind |-> "tablemap", id |-> id, def |-> def]
            ELSE [kind |-> "rows", op |-> change.op, id |-> id, row |-> rowEvents + n, of |-> def]]

RowChanges(changes) ==
    [n \in DOMAIN changes |->
        [op |-> changes[n].op, table |-> changes[n].table, row |-> rowEvents + n]]

Writable(changes) ==
    /\ groups < MaxGroups
    /\ \A n \in DOMAIN changes : ids[changes[n].table] # 0

Write(events, changes) ==
    /\ binlog' = [binlog EXCEPT ![LastFile] = @ \o events]
    /\ rowEvents' = rowEvents + Len(changes)
    /\ groups' = groups + 1

(* The transaction of the group being written, with its first and last     *)
(* position.                                                               *)
LogTransaction(rows) ==
    log' = Append(log, [rows |-> rows, begin |-> EndOfBinlog,
                        end |-> [file |-> LastFile, off |-> Len(binlog'[LastFile])]])

(* A table gets its id when it is opened.                                  *)
OpenTable(t) ==
    /\ ids[t] = 0 /\ nextId \in TableIds
    /\ ids' = [ids EXCEPT ![t] = nextId]
    /\ nextId' = nextId + 1
    /\ UNCHANGED <<binlog, log, cols, rowEvents, prepared, groups>>

(* A transaction ends with an XID event or with the query COMMIT, as its   *)
(* tables are transactional or not.                                        *)
CommitGroup(changes, last) ==
    /\ Writable(changes)
    /\ Write(<<query(<<"begin">>)>> \o ChangeEvents(changes) \o <<last>>, changes)
    /\ LogTransaction(RowChanges(changes))
    /\ UNCHANGED <<ids, nextId, cols, prepared>>

(* A rolled back transaction that is in the binlog all the same.           *)
RollbackGroup(changes) ==
    /\ "rollback" \in Features
    /\ Writable(changes)
    /\ Write(<<query(<<"begin">>)>> \o ChangeEvents(changes) \o <<query(<<"rollback">>)>>, changes)
    /\ LogTransaction(<<>>)
    /\ UNCHANGED <<ids, nextId, cols, prepared>>

(* A transaction whose first change alone survives ROLLBACK TO SAVEPOINT.  *)
SavepointGroup(changes) ==
    /\ "savepoint" \in Features
    /\ Writable(changes) /\ Len(changes) > 1
    /\ LET events == ChangeEvents(changes) IN
       Write(<<query(<<"begin">>)>> \o SubSeq(events, 1, 2) \o <<query(<<"savepoint", "s">>)>>
               \o SubSeq(events, 3, Len(events))
               \o <<query(<<"rollback", "to", "s">>), [kind |-> "xid"]>>,
             changes)
    /\ LogTransaction(SubSeq(RowChanges(changes), 1, 1))
    /\ UNCHANGED <<ids, nextId, cols, prepared>>

(* An XA transaction is written when it is prepared, and decided later.    *)
XAPrepareGroup(changes) ==
    /\ "xa" \in Features
    /\ Writable(changes) /\ prepared = <<>>
    /\ Write(<<query(<<"xa", "start">>)>> \o ChangeEvents(changes)
               \o <<query(<<"xa", "end">>), [kind |-> "ignored"]>>, changes)
    /\ prepared' = RowChanges(changes)
    /\ UNCHANGED <<log, ids, nextId, cols>>

XADecideGroup(decision) ==
    /\ prepared # <<>> /\ groups < MaxGroups
    /\ Write(<<query(<<"xa", decision>>)>>, <<>>)
    /\ prepared' = <<>>
    /\ IF decision = "commit" THEN LogTransaction(prepared) ELSE UNCHANGED log
    /\ UNCHANGED <<ids, nextId, cols>>

(* A statement that is logged as text and changes no table that is open.   *)
DDLGroup ==
    /\ "ddl" \in Features
    /\ groups < MaxGroups
    /\ Write(<<[kind |-> "ignored"], query(<<"create">>)>>, <<>>)
    /\ UNCHANGED <<log, ids, nextId, cols, prepared>>

(* ALTER TABLE changes the columns, with or without their number, and      *)
(* closes the table.                                                       *)
AlterGroup(t, n) ==
    /\ "alter" \in Features
    /\ groups < MaxGroups /\ cols[t].version + 1 \in Versions
    /\ Write(<<query(<<"alter">>)>>, <<>>)
    /\ cols' = [cols EXCEPT ![t] = [count |-> n, version |-> @.version + 1]]
    /\ ids' = [ids EXCEPT ![t] = 0]
    /\ UNCHANGED <<log, nextId, prepared>>

(* FLUSH LOGS ends the file with a ROTATE event.                           *)
FlushLogs ==
    /\ "flush" \in Features
    /\ LastFile + 1 \in Files
    /\ binlog' = Append([binlog EXCEPT ![LastFile] =
                            Append(@, [kind |-> "rotate", to |-> [file |-> LastFile + 1, off |-> 0]])],
                        <<>>)
    /\ UNCHANGED <<log, ids, nextId, cols, rowEvents, prepared, groups>>

(* A restarted master begins a new file and has no table open; connections *)
(* to it are lost.  With feature "reuseIds" it numbers tables from 1 again.*)
MasterRestart ==
    /\ "restart" \in Features
    /\ LastFile + 1 \in Files
    /\ binlog' = Append(binlog, <<>>)
    /\ ids' = [t \in TableNames |-> 0]
    /\ nextId' = IF "reuseIds" \in Features THEN 1 ELSE nextId
    /\ connected' = FALSE
    /\ UNCHANGED <<log, cols, rowEvents, prepared, groups, cursor>>

-----------------------------------------------------------------------------
(* The dump of the running Stream.                                         *)

Events == binlog[cursor.file]

NoCursor == [file |-> 1, off |-> 0, stage |-> "rotate"]

(* Stream closes its connection when it returns.                           *)
Close == cursor' = NoCursor /\ connected' = FALSE

Trouble == troubles < MaxTroubles /\ troubles' = troubles + 1

(* The fake ROTATE event that names the file ...                           *)
SendFakeRotate ==
    /\ connected /\ cursor.stage = "rotate"
    /\ EarlyRotate \/ Rotate([file |-> cursor.file, off |-> cursor.off])
    /\ cursor' = [cursor EXCEPT !.stage = "format"]
    /\ UNCHANGED <<master, connected, application>>

(* ... its format description ...                                          *)
SendFormat ==
    /\ connected /\ cursor.stage = "format"
    /\ FormatDescription("crc32")
    /\ cursor' = [cursor EXCEPT !.stage = "events"]
    /\ UNCHANGED <<master, connected, application>>

(* The mapper describes the table as the master has it now.                *)
MappedTableMap(id, def) ==
    IF tablesMaps[id] # NoTable \/ def.cols.count = cols[def.name].count
    THEN TableMap(id, def, cols[def.name])
    ELSE TableMapRefused(id)

(* All columns of the table are in the rows event, and some row.           *)
WrittenRows(event, next) ==
    LET count == event.of.cols.count IN
    \/ Rows(event.op, event.id, count, TRUE, next, event.row)
    \/ RowsRefused(event.id, count, TRUE)
    \/ RowsPanic(event.id, count, TRUE)

Receives(event, next) ==
    \/ event.kind = "query" /\ Query(event.sql, next)
    \/ event.kind = "xid" /\ XID(next)
    \/ event.kind = "tablemap" /\ MappedTableMap(event.id, event.def)
    \/ event.kind = "rows" /\ WrittenRows(event, next)
    \/ event.kind = "rotate" /\ Rotate(event.to)
    \/ event.kind = "ignored" /\ Ignored

(* The transaction that is handed to the application in this step.         *)
Handed == sent'[Len(sent')]

(* ... and its events, each with the offset behind it.  Refusing a         *)
(* transaction is one of the troubles.                                     *)
SendEvent ==
    /\ connected /\ cursor.stage = "events" /\ cursor.off < Len(Events)
    /\ Receives(Events[cursor.off + 1], cursor.off + 1)
    /\ IF result' = "sendError" THEN Trouble ELSE UNCHANGED troubles
    /\ IF sent' # sent /\ Handed.accepted THEN accepted' = Append(accepted, Handed)
       ELSE UNCHANGED accepted
    /\ IF phase' = "parsing"
       THEN cursor' = [cursor EXCEPT !.off = @ + 1] /\ UNCHANGED connected
       ELSE Close
    /\ UNCHANGED master

(* The end of a file that is not the last: the next one is sent.           *)
NextFile ==
    /\ phase = "parsing" /\ connected
    /\ cursor.stage = "events" /\ cursor.off = Len(Events) /\ cursor.file < LastFile
    /\ cursor' = [file |-> cursor.file + 1, off |-> 0, stage |-> "rotate"]
    /\ UNCHANGED <<vars, master, connected, application>>

Dump == SendFakeRotate \/ SendFormat \/ SendEvent \/ NextFile

(* The network, or the master, ends the connection.                        *)
LoseConnection ==
    /\ phase = "parsing" /\ connected /\ Trouble
    /\ connected' = FALSE
    /\ UNCHANGED <<vars, master, cursor, accepted>>

(* A closed channel reaches the parser after the connection was lost, or   *)
(* after slaveConn's own goroutine has seen the context done.              *)
StreamEnds ==
    /\ \/ EndOfStream /\ (~connected \/ cancelled)
       \/ ContextDone
    /\ Close
    /\ UNCHANGED <<master, application>>

-----------------------------------------------------------------------------
(* The application.                                                        *)

Start == [file |-> 1, off |-> 0]
Saved == IF accepted = <<>> THEN Start ELSE accepted[Len(accepted)].next

Resume ==
    /\ phase = "idle" /\ startPos # Saved
    /\ SetStartBinlogPosition(Saved)
    /\ UNCHANGED <<master, dump, application>>

CallStream ==
    /\ startPos = Saved /\ Stream
    /\ UNCHANGED <<master, dump, application>>

(* NoticeDump and the first ReadPacket, or a failure of either.            *)
StartDump ==
    \/ /\ ParseEvents
       /\ cursor' = [file |-> dumpPos.file, off |-> dumpPos.off, stage |-> "rotate"]
       /\ connected' = TRUE
       /\ UNCHANGED <<master, application>>
    \/ StreamFails /\ Trouble /\ UNCHANGED <<master, dump, accepted>>

CallCancel == Cancel /\ Trouble /\ UNCHANGED <<master, dump, accepted>>

Application == Resume \/ CallStream \/ StartDump \/ CallCancel

-----------------------------------------------------------------------------
ReplicationInit ==
    /\ Init /\ startPos = Start
    /\ binlog = <<<<>>>> /\ log = <<>>
    /\ ids = [t \in TableNames |-> 0] /\ nextId = 1
    /\ cols \in [TableNames -> [count : {CHOOSE n \in ColumnCounts : TRUE}, version : Versions]]
    /\ prepared = <<>> /\ groups = 0
    /\ cursor = NoCursor /\ connected = FALSE
    /\ accepted = <<>> /\ troubles = 0

Master ==
    /\ \/ \E t \in TableNames : OpenTable(t)
       \/ \E changes \in Changes :
             \/ CommitGroup(changes, [kind |-> "xid"])
             \/ CommitGroup(changes, query(<<"commit">>))
             \/ RollbackGroup(changes) \/ SavepointGroup(changes)
             \/ XAPrepareGroup(changes)
       \/ \E decision \in {"commit", "rollback"} : XADecideGroup(decision)
       \/ DDLGroup \/ FlushLogs
       \/ \E t \in TableNames, n \in ColumnCounts : AlterGroup(t, n)
    /\ UNCHANGED <<vars, dump, application>>

Restart == MasterRestart /\ UNCHANGED <<vars, application>>

(* At the end of the binlog the dump waits for the master.                 *)
Wait ==
    /\ phase = "parsing" /\ connected /\ cursor.stage = "events"
    /\ [file |-> cursor.file, off |-> cursor.off] = EndOfBinlog
    /\ UNCHANGED allVars

ReplicationNext ==
    Master \/ Restart \/ Dump \/ LoseConnection \/ StreamEnds \/ Application \/ Wait

ReplicationSafeSpec == ReplicationInit /\ [][ReplicationNext]_allVars

(* The goroutine of Stream, the connection and an application that always  *)
(* calls Stream again keep going; nothing obliges the master to write, a   *)
(* connection to break or a callback to refuse.                            *)
ReplicationSpec ==
    /\ ReplicationSafeSpec
    /\ WF_allVars(Dump) /\ WF_allVars(StreamEnds)
    /\ WF_allVars(Resume) /\ WF_allVars(CallStream) /\ WF_allVars(StartDump)

-----------------------------------------------------------------------------
(* Properties.                                                             *)

ChangesIn(events) ==
    [i \in DOMAIN events |->
        [op |-> events[i].op, table |-> events[i].table.name, row |-> events[i].row]]

Delivered == [k \in DOMAIN accepted |-> ChangesIn(accepted[k].events)]
Committed == [k \in DOMAIN log |-> log[k].rows]

Feed == INSTANCE TransactionFeed WITH
            MaxTransactions <- MaxGroups, committed <- Committed, delivered <- Delivered

(* The application that restarts from the NextPosition of the transaction  *)
(* it accepted last accepts every committed transaction once, in order and *)
(* with its rows, whatever lost connections, refusals, cancellations, new  *)
(* binlog files and restarts of the master come between.                   *)
ExactlyOnceInOrder == Feed!SafeSpec

(* ... and every transaction in the end.                                   *)
EventuallyDelivered == Feed!Progress

AtOrBefore(p, q) == p.file < q.file \/ (p.file = q.file /\ p.off <= q.off)

(* Each transaction handed to sendTransaction, accepted or refused, is one *)
(* that was committed, complete; and its NowPosition and NextPosition      *)
(* enclose that transaction and no other.                                  *)
WholeTransactions ==
    \A n \in DOMAIN sent :
        \E k \in DOMAIN log :
            /\ ChangesIn(sent[n].events) = log[k].rows
            /\ sent[n].next = log[k].end
            /\ AtOrBefore(sent[n].now, log[k].begin)
            /\ k > 1 => AtOrBefore(log[k - 1].end, sent[n].now)

(* Event i of file f is behind the position that the current dump was      *)
(* asked from; and before event j of file g.                               *)
Dumped(f, i) == dumpPos.file < f \/ (dumpPos.file = f /\ dumpPos.off < i)
Before(f, i, g, j) == f < g \/ (f = g /\ i < j)

(* In this dump the id of the rows event, event j of file g, has stood for *)
(* no other table; for no other columns of its table.                      *)
OneTable(g, j) ==
    \A f \in DOMAIN binlog : \A i \in DOMAIN binlog[f] :
        /\ binlog[f][i].kind = "tablemap" /\ binlog[f][i].id = binlog[g][j].id
        /\ Dumped(f, i) /\ Before(f, i, g, j)
        => binlog[f][i].def.name = binlog[g][j].of.name

OneLayout(g, j) ==
    \A f \in DOMAIN binlog : \A i \in DOMAIN binlog[f] :
        /\ binlog[f][i].kind = "tablemap" /\ binlog[f][i].id = binlog[g][j].id
        /\ Dumped(f, i) /\ Before(f, i, g, j)
        => binlog[f][i].def = binlog[g][j].of

(* The change e of a transaction is that of event j of file g.             *)
IsRow(e, g, j) == binlog[g][j].kind = "rows" /\ binlog[g][j].row = e.row /\ Dumped(g, j)

(* A row is handed over under the name of the table it was written to,     *)
(* unless its id has stood for another table since the position that the   *)
(* current Stream started from: a cache by ids, never compared, is safe    *)
(* within one dump of a master that does not give ids again, and only      *)
(* because it is forgotten between two dumps.                              *)
TableOfRow ==
    [][sent' # sent =>
         \A n \in DOMAIN Handed.events : LET e == Handed.events[n] IN
            \E g \in DOMAIN binlog : \E j \in DOMAIN binlog[g] :
                IsRow(e, g, j) /\ (OneTable(g, j) => e.table.name = binlog[g][j].of.name)]_allVars

(* The names of its columns, asked of the mapper when the id was first     *)
(* seen, may be others than the row was written with, as ALTER TABLE can   *)
(* have come between.  But under the same condition they are as many as    *)
(* the row has, and never those of before an ALTER that the row came       *)
(* after.                                                                  *)
NamesOfRow ==
    [][sent' # sent =>
         \A n \in DOMAIN Handed.events : LET e == Handed.events[n] IN
            \E g \in DOMAIN binlog : \E j \in DOMAIN binlog[g] :
                /\ IsRow(e, g, j)
                /\ OneLayout(g, j) =>
                     /\ e.table.cols.count = binlog[g][j].of.cols.count
                     /\ e.table.cols.version >= binlog[g][j].of.cols.version]_allVars

(* No row is accepted twice or out of order, even from groups that the     *)
(* parser does not recognise as one transaction.                           *)
RowsAcceptedOnce ==
    \A n \in DOMAIN accepted :
        /\ Ascending(accepted[n].events)
        /\ \A m \in DOMAIN accepted :
               n < m => Precedes(accepted[n].events, accepted[m].events)

=============================================================================
