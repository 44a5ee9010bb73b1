# A TLA+ verification of binlog

`binlog` is a Go library that poses as a MySQL replica: it connects to a master,
asks for a binlog dump from a position and hands the row changes it receives,
grouped into transactions, to a callback. This directory holds TLA+ modules of
the library, TLC configurations that check them on small instances and proofs
that TLAPS checks. Line numbers are those of the repository's files.

## The system

| component | source | state | operations | models |
|---|---|---|---|---|
| RowStreamer | `row_streamer.go` | `startPos`; in `parseEvents` the position, the format, the pending rows, the autocommit flag, the tables by id | `SetStartBinlogPosition`, `Stream`, one iteration of the parser's loop per event | `RowStreamer`, `Replication` |
| slaveConn | `slave_conn.go` | the connection, the derived context, the channel | `newSlaveConn`, `startDumpFromBinlogPosition`, the pump goroutine, `close` | `SlaveConn` |
| MysqlConn | `dump/connection.go` | `netConn`, reader, configuration, sequence number | connect, authenticate, `Exec`, `NoticeDump`, `ReadPacket`, `Close` | `MysqlConn` (connecting, `Exec`), `SlaveConn` (dump and close), `DSN` (the configuration) |
| packet protocol | `dump/packets.go`, `rows.go`, `errors.go` | the sequence number | `readPacket`, `writePacket`, handshake, command and result packets | `PacketFraming` (payloads in packets, byte by byte), `MysqlConn` (handshake, commands, results), `SlaveConn` (`readPacket` of two goroutines) |
| binlog events | `replication/binlog_event*.go` | the format of the file | header fields, `Format`, `Query`, `Rotate`, `TableMap`, `Rows`, `StripChecksum`, `CellBytes` | `BinlogEvents` and `EventStream` (headers and fixed parts), `Cells` and `RowImage` (metadata, bitmaps, rows and cells), `RowStreamer` (what becomes of them) |
| event makers | `replication/binlog_event_make.go` | none | `NewQueryEvent`, `NewTableMapEvent`, ... | `BinlogMakers` |
| DSN, TLS register | `dump/dsn.go`, `dump/utils.go` | the registered TLS configurations, the names of servers in them | `ParseDSN`, `FormatDSN`, `RegisterTLSConfig`, `DeregisterTLSConfig` | `DSN` |
| application | `tests/binlogStream` | the last accepted `NextPosition` | mapper, callback, cancellation | `Replication` |
| data types | `mysql_types.go`, `mysql_table.go`, `position.go`, `transaction.go` | none | `GetStatementCategory`, constructors, JSON | `RowStreamer` |
| collations, other utilities, logger, MariaDB events | `dump/collations.go`, `dump/utils.go`, `logger.go`, `replication/binlog_event_mariadb.go` | none | tables, formatting, test helpers | not modelled |

How they interact. The application calls `Stream`, which opens a `slaveConn`
over a `MysqlConn`. `startDumpFromBinlogPosition` sends the dump command, reads
the first packet and starts the *pump*, a goroutine that turns each packet into
an event and offers it on an unbuffered channel. The goroutine of `Stream`
takes events from the channel; for a table it has not met it calls the
application's `MysqlTableMapper`, for each finished transaction its
`SendTransactionFunc`. Both goroutines use the `MysqlConn`, without a lock: the
pump reads from it and closes it when a read fails, `Stream` closes it when it
returns.

What is hard here:

* *grouping*: BEGIN, COMMIT, ROLLBACK, XID, rotations and rows events make
  transactions out of a stream that may start, stop and start again anywhere;
* *positions*: the position of a transaction is computed from a file name that
  was seen earlier and an offset in the event at hand, and is the only thing
  that lets an application go on after a failure;
* *caches*: the table of an id is asked for once, the description of its
  columns replaced with each TABLE_MAP event;
* *two goroutines on one connection*: cancellation, timeouts, lost links,
  errors of the callback and the close of the connection meet in any order;
* *answers*: how many packets an answer has depends on status flags, warnings and
  modes, and each must be read by the command it answers, to its end;
* *bytes*: a payload may be cut into packets of which the last is empty; the
  fields of an event begin where the format of its file, the status variables
  or the extra data before them say; rows are found with one length function and
  cut with another; decimals, dates and bit fields have formats with corner cases;
* *text*: the parts of a DSN are told apart by characters that may also be in
  them, and a DSN may change a TLS configuration that others use.

`PROJECT.json` lists the hazards line by line, with the properties that cover
each, or why none does.

## The modules

| module | what it is |
|---|---|
| `RowStreamer` | `Stream` and `parseEvents`, for arbitrary events |
| `RowStreamerProofs` | theorems about `RowStreamer` |
| `ReplicationProofs` | theorems about `Replication`: the refinement among them |
| `TransactionFeed` | the abstract promise: each committed transaction accepted once, in order, complete |
| `Replication` | `RowStreamer` with a master, its binlog files, a dump that can fail and an application that resumes; refines `TransactionFeed` |
| `SlaveConn` | one `Stream` at the granularity of the shared accesses of its two goroutines |
| `SlaveConnProofs` | theorems about `SlaveConn` |
| `MysqlConn` | connecting to a server and executing statements, packet by packet |
| `MysqlConnProofs` | theorems about `MysqlConn` |
| `Cells` | the bytes of a value of each type: `cellLength`, `CellBytes`, `metadataRead` |
| `ServerRows` | what a master packs into TABLE_MAP metadata and rows events (external) |
| `RowImage` | a rows event from its bytes to the columns of a `StreamEvent` |
| `RowImageProofs` | theorems about `Cells`, `ServerRows` and `RowImage` |
| `PayloadQueue` | the abstract promise of the packet protocol: payloads taken whole, once and in order, until the taker gives up |
| `PacketFraming` | `writePacket` and `readPacket` over a link of bytes that may break; refines `PayloadQueue` |
| `PacketFramingProofs` | theorems about `PacketFraming` |
| `BinlogEvents` | the fields of an event as the methods of `BinlogEvent` read them |
| `BinlogMakers` | the bytes of events as the repository's makers and a master write them |
| `EventStream` | `PacketFraming` with a master that sends events and a parser that reads them; refines `PayloadQueue` |
| `EventStreamProofs` | theorems about `EventStream` |
| `DSN` | `ParseDSN` and `FormatDSN`, and the register of TLS configurations |
| `DSNProofs` | theorems about `DSN` |
| `MCRowStreamer`, `MCReplication`, `MCSlaveConn`, `MCMysqlConn`, `MCRowImage`, `MCEventStream`, `MCDSN` | instances for TLC |

### RowStreamer

The variables are `startPos` of the struct, the locals of `parseEvents` under
their own names, the stage of the running `Stream` (`phase`, `result`,
`cancelled`, `dumpPos`), and as history `sent`, all transactions handed to the
callback with its answer. The locals exist during a call only; between calls
they hold the values with which the next call makes them, so that their values
between calls mean nothing.

`Stream` and `ParseEvents` are two actions because `startPos` is read at line
77 for the dump and again at line 94 for the parser, and
`SetStartBinlogPosition` may come between. Each other action is one iteration
of the loop: `Commit` is the closure of line 107 with the callback in it (its
two disjuncts are acceptance and refusal), `TableMap` and `TableMapRefused` are
lines 210-243, `Rows` and `RowsRefused` lines 245-325, where the cases of
write, update and delete do the same to the state. `EarlyRotate`, `EarlyEvent`,
`UnsupportedChecksum` and `Unparsable` are the error paths, which return and
forget the locals. The assignment `SetStartBinlogPosition(pos)` of line 86 is
never reached, because every return of `parseEvents` has a non-nil error: a
stream that ends leaves `startPos` alone.

Abstractions: a position is a file and an offset *between* events; a statement
is the sequence of its words, of which `GetStatementCategory` looks at the
first; a table is a name and the `Layout` of its columns, that is, how many they are and
how many ALTERs have made them (`Versions`; the code compares the number alone); a rows
event carries one number in the place of its row images, a column count of its
own and whether there is any row in it, because the counts are compared for each
row (lines 393 and 439), and so for none in an event without rows. Where the count
is more than the types of the last TABLE_MAP, Go indexes them out of range: the
result "panic" (`RowsPanic`). A refused transaction stays in `sent` with
`accepted = FALSE`. The application has set a start position before it calls `Stream`,
which would panic at line 62 without one.

### Replication

`EXTENDS RowStreamer`, so the parser's actions are the same ones. The master is
outside the repository: it is modelled from what the parser expects and the
event types that `replication/` names, and its definitions are marked external in
`PROJECT.json`. It opens tables (each gets the next table id), commits groups
BEGIN, TABLE_MAP, rows, ..., XID or COMMIT, and, as the constant `Features`
says, writes rolled back groups, DDL, ALTER TABLE, savepoints, XA transactions,
ends a file (FLUSH LOGS writes a ROTATE event at its end; a restart does not).
With the feature `reuseIds` a restarted master numbers its tables from 1 again.
The dump sends for each file a fake ROTATE, the format description and the
events; it may lose the connection between any two. The application accepts or
refuses each transaction, cancels, and after each end of `Stream` sets the
position to `NextPosition` of the transaction it accepted last. The mapper is
the example's: it answers with the table as it is *now*, however old the event.

`TransactionFeed` has two variables, the committed and the accepted
transactions. The refinement maps them to `log` without its positions and to
`accepted`, the transactions of `sent` that the application did not refuse (a
history variable: `SendEvent` appends what it has just handed over), with each event
reduced to its row change.

### SlaveConn

Each variable is a thing the goroutines share or the place where one of them
is. `readPacket` takes the steps arm (`SetReadDeadline`), read header, disarm,
compare the sequence number, arm, read body, disarm; `Close` the steps test
`netConn`, reset the sequence, write, test `netConn`, close the socket, set
`netConn` to nil. `mc.cfg = nil` at the end of `cleanup` is left out: nothing
reads it after the connection was made. A method call on a nil `netConn` sets
`panicked` and nothing moves after it, as a panic in a goroutine ends the
program. The pump may find packets in the reader's buffer after the socket was
closed, which is why `PumpRead` does not look at `open`. What parsing an event
does is left to `RowStreamer`: here it may fail or not. Whether the DSN has a read
timeout is chosen at the start (`readTimeout`).
The read of the shared `netConn` without a lock is a data race; the model takes
its outcomes to be the old and the new value.

### MysqlConn

What happens before `SlaveConn` begins, in one goroutine. `task` is what
`NewMysqlConn` (or the caller, in `Exec`) is at, `await` the read that waits for a
packet; `more` and `warned` stand for the status flag and the warnings of the OK
packets that `handleOkPacket` is not through with. `handleOkPacket`,
`discardResults` and `readResultSetHeaderPacket` call each other; because the
inner ones return only when the server has no more results, and the first
warning met ends them all with an error, no stack is needed (`Discards`).
`Fails` is every error: it ends `NewMysqlConn` and closes the connection, or goes
on with the next charset of `handleParams`. `netConn` may then be nil, and `Writes`
panics.

A packet is its kind, its sequence number and the flags that are looked at; `to` is
history, the request that the server answered with it. The server is external: it
answers each request in every way the code distinguishes, results of several
statements included, and the link may be lost at every step, after which what has
arrived may still be read or not. Over TLS the reader, which stays on the socket,
sees the number of the TLS record instead: `OutOfSync` follows, so that in the model,
as in the code (packets.go:323), no connection over TLS comes about. Passwords,
capability flags and the cells of result rows are left out. A result has as many rows as
`RowCounts` says, and `wrapped` is history: whether an answer to the caller had more
packets than there are sequence numbers. The limit of
`writePacket` is in `PacketFraming`. The reset of the sequence number by `Close` is
left out too, as nothing reads it afterwards here. The configurations
(`Configs`) are some of those that `DSN` shows `ParseDSN` to return.

### RowImage, Cells and ServerRows

`RowStreamer` takes a rows event as one number; these modules look inside. A
behaviour of `RowImage` is one TABLE_MAP and one rows event. `ReadMetadata` is
the loop of `TableMap` (`binlog_event_rbr.go:82`), `ReadPresence`, `ReadNulls`
and `SkipColumn` the loops of `Rows` (line 348), which walks over each image
with `cellLength` to find its end, and `CutColumn` the loops of
`getValuesFromRow` and `getIdentifiesFromRow` (`row_streamer.go:388`), which cut
the image with `CellBytes`. The two loops of each kind, for the identifying and
for the data image, are the same code twice, and one action with the index of
the image. Slices are kept as positions. A read behind the end of the bytes, for
which Go panics or takes the bytes that follow, ends in the state `overrun`.

`Cells` holds the two functions that know the format of each type, separately,
as the code has them. A printed value is a record of the numbers that are
printed. Left out is the layout of the text of times; floats and the digits of a
DATETIME of before MySQL 5.6 stay bytes. For decimals the text matters and is
kept as the groups that are printed, whether blanks precede them, and whether
anything is printed at all: an empty buffer has the bytes nil, which is NULL.

`ServerRows` is the other side: the metadata and the payload that a master
writes for given columns, images and values. It shares no table with `Cells`
(its own prefix rule, its own group sizes, complements computed from numbers
instead of bytes), so that an error in a length or a mask on one side does not
cancel out. It is marked external.

### PacketFraming and PayloadQueue

The two ends of a link, each with its `mc.sequence`. `WriteCall` is the check of
`maxAllowedPacket`, `WritePacket` one turn of the loop of `writePacket` (line 112),
which takes the next part of the payload, at most `maxPacketSize` bytes of it, and
ends unless the packet is full. `ReadHeader` and `ReadBody` are the two
`ReadFull` of `readPacket`: they wait until as many bytes have arrived. Header and
body are bytes, and `Base` is the number of values a byte has, so that a small
`Base` makes small packets. `WriteFails` leaves a part of a packet on the link and
`Lose` takes bytes away that were under way; after either nothing more is sent.
With a read timeout the reader may give up at any time it waits. A reader that has
failed is at its end: its callers close the connection.

`PayloadQueue` is what the two together promise. Its `Give` allows any payload,
its `End` may come at any time, and `Progress` says that the queue is empty again
and again unless it has ended.

### EventStream, BinlogEvents and BinlogMakers

`BinlogEvents` has one operator for each method, on the sequence of the event's
bytes; what the method returns is a record, `Failure` for an error, or `Overrun` for the
panic with which Go reads behind the end of a slice: `Sized` and `fixedLength` say how many
bytes a method reads before it asks whether they are there, and a length that the
event names is followed without asking in some places and not in others. `TableMap` and `Rows` go as far as the metadata
and the rows, where `RowImage` begins. `Type` and the lengths of `Cells` are those
of `RowImage`.

`BinlogMakers` is the other side, and shares nothing with the first but the
numbers of `const.go`. The repository has makers of its own, for its tests; a
master writes more status variables, extra data, table ids of four bytes and
wider tables, and these are marked external.

`EventStream` composes them. A *script* is what a master answers to a dump:
payloads, and for each what the parser is to read (`holds`), or that it is to refuse it
or panics on it: a master's events cut inside their fixed fields, and with lengths that
point behind their end, are among them. `Pump` takes
a payload, its first byte for its kind, and hands the rest over as an event;
`EndOfStream`, `InvalidEvent`, `FormatDescription`, `EarlyEvent` and `ParseEvent` are
the ways in which an iteration of `parseEvents` treats it: they keep `format`, and
note the fields in `parsed`. What `parseEvents` does with the fields is
`RowStreamer`'s. A panic of a method is an outcome of its own. `IsValid` compares the
length of an event with the one in its header, and the comments at
`replication/binlog_event.go:51` and `replication/binlog_event_common.go:49` say that then
nothing can be read out of bounds. For the body that is not so: `Rotate`, `Query`, `TableMap`
and `Rows` panic on a valid header with a body that is too short. `StopsForCause` says
which events these are.

### DSN

A text is a sequence of words and of the characters that separate them, one token
for each such character and one for its escaped form. `ParseDSN` follows the code's
loops by their effect: the last slash (`Slash`), the last `@` before it, the first `:`
before that (`ReadLogin`), the first `(` behind it and the `)` before the slash
(`ReadAddress`, `Terminated`), the first `?` behind it. `parseDSNParams` is a fold over the
parameters; it carries the TLS configurations along, since `tls=name` sets the
`ServerName` of the registered `tls.Config` (line 502), which happens also when a later
parameter is refused. The order in which `FormatDSN` writes `Params` is the order of a
map, and therefore any.

The actions are those of an application: register and deregister (also reserved names,
which are refused), write a DSN, have it parsed, formatted and parsed again. Each is
a whole call, so the data race of two of them on the register, a map without a lock,
is not in the model. `Written` gives each DSN with its meaning, put together from its
parts and not by parsing it.

What the model shows beside the properties: a second host for which a `tls.Config`
without a name is used is verified by the name of the first (`ServerNameKept` is the good
half of it); `/?tls=custom` gets its default address after its parameters were read,
and so no name; of `tls=true&tls=false` the first stays in force (line 490). Two
documents are not of this program: `dump/doc.go` names `utf8mb4_general_ci` as the default
collation where `collations.go:3` has `utf8_general_ci`, and 4194304 as the default
of `maxAllowedPacket` where the code asks the server. `ReadAsWritten` therefore says
nothing of a collation or a limit that a DSN leaves out.

## What the runs check

| run | configuration | checks | bounds |
|---|---|---|---|
| `parser` | `MCRowStreamer` | `TypeOK`, `NoOrphanEvents`, `RowsInOrderOnce` | one file, id and table, 1 or 2 columns, 3 rows events, 2 transactions |
| `replication` | `MCReplication` | `WholeTransactions`, `ExactlyOnceInOrder`, `EventuallyDelivered` | 3 files, 2 groups, 2 troubles; transactions of two changes; rollback, FLUSH LOGS, restart |
| `replication_awkward` | `MCReplicationAwkward` | `RowsAcceptedOnce`, `TableOfRow`, `NamesOfRow` | 2 tables, 1 or 2 columns, one ALTER of each, 2 files, 2 groups; DDL, restart with reused table ids, savepoints, XA |
| `connection` | `MCSlaveConn` | `TypeOK`, `EventsInOrder`, `NothingLostAtEof`, `SyncErrorOnlyWhileClosing`, `ConnectionClosed`, `CancelStops`, `LostLinkStops`, `LeftPumpEnds` | 4 packets, sequence numbers modulo 3, with and without a read timeout |
| `connecting` | `MCMysqlConn` | `TypeOK`, `ReadsOwnAnswer`, `NothingLeft`, `ConnectsInSync`, `ClosedOnError`, `ParamsInForce`, `Returns` | every DSN with up to 2 charsets and 2 variables, 2 statements of the caller, results of 1 or 2 rows, sequence numbers modulo 6, so that an answer may be longer |
| `row_images` | `MCRowImage` | `TypeOK`, `RowsDelivered`, `CutMeetsWalk`, `SupportedAreRead` | every type at its limits; every choice of present and NULL columns among 3 (1 row) and 2 (2 rows); 9 columns |
| `event_stream` | `MCEventStream` | `TypeOK`, `PayloadsInOrder`, `NumbersAgree`, `NothingBehind`, `FieldsAsWritten`, `StopsForCause`, `EventsDelivered` | packets of at most 63 bytes, every kind of event in 3 formats, whole and cut, scripts of up to 15 payloads |
| `dsn` | `MCDSN` | `TypeOK`, `ServerNamed`, `ReadAsWritten`, `Reformatted`, `ServerNameKept` | every part with and without separators in it, every option with each form of its value, 3 `tls.Config`s under 2 names |

and four runs whose property is violated, as the code and a document disagree:

| run | property | what it shows |
|---|---|---|
| `pump_leak` | `PumpTerminates` | after an error of the parser or the callback the pump waits for ever on its channel, because `s.cancel` is never called |
| `close_race` | `NoPanic` | `Stream` closes the connection while the pump is about to read; the pump arms its deadline through a `netConn` that is nil by then |
| `charset_after_loss` | `ConnWhenNeeded` | when the connection breaks while the first of two charsets is set, the second is written through a nil `netConn`: a panic |
| `decimal_zero` | `RowsDelivered` | the value 0 of a DECIMAL without digits behind the point is handed over as NULL |

Three things that masters do are left out of `replication`. Two of them break its
properties, as adding them to `Features` shows:

* `xa`: the statements of an XA transaction fall into the default branch of
  `row_streamer.go:204`, so that its rows, read in autocommit mode, are delivered one by
  one before the transaction is decided, even if it is rolled back later
  (`WholeTransactions`), while README.md:15 speaks of complete transactions;
* `savepoint`: ROLLBACK TO is taken for ROLLBACK by its first word, so that the
  rows before it are dropped (`WholeTransactions`);
* `reuseIds`, which `replication_awkward` has: a master that numbers tables anew after
  a restart, read across it in one stream (one that begins in the old file), has rows
  delivered under another table's name, because a known id keeps its table. That is what
  `TableOfRow` excepts: an id that has stood for another table in the same dump. It does
  not except what an earlier dump knew, and so fails if the cache survives a `Stream`.

Why the bounds are enough. In `parser` one transaction can follow another (2
transactions) with a row in each and one over (3 rows): a row leaking from one
into the other, in one call or over two, fits. Offsets and files are one each,
because positions are not what that run asks about; `replication` has up to 3
files and all offsets. There, 2 groups are a transaction and the one after it,
3 files are a rotation, a restart and both in either order, and 2 troubles are
a failure and a failure while recovering from it. A file of 2 groups has at
most 12 events, and `Offsets` holds more than that. In `connection`, 4 packets with sequence
numbers modulo 3 make the number wrap while the pump is at every step.
In `connecting` an answer has up to 8 packets (an OK, a result of two rows and another
OK, of a procedure), so that numbers modulo 6 come round within it, and up to 6 fit: both
cases of `ReadsOwnAnswer` occur, the leftover that is told from the next answer by its
number and the one that is not.
In `row_images` each type stands before a TINYINT, whose value comes out wrong if
a length is off, in an update, so that it is read twice in each of two images;
the values are the limits of the type, -1, and numbers whose bytes differ. All
fractions of a second have all seven precisions, with none, one unit and all
nines. Three columns give every position of an absent and of a NULL column to
either side of another; 9 columns give a bitmap a second byte, and the bits that
stand for nothing are zeros or ones. TLC's numbers have 32 bits, so that BIGINT
and unsigned INT stay below 2^31; their upper bytes are zeros or, in negative
numbers, ones. Three kinds of values are left out, as the parser does not hand
them over well: an integer DECIMAL of value 0 (`decimal_zero`); a DECIMAL whose
first printed group is a full one of less than nine digits, e.g. 5 in a
DECIMAL(10,0), which is printed behind blanks (line 818); and an old TIME between
-00:59:59 and 0, which loses its sign (line 564).

In `event_stream` a byte has 4 values for the packet protocol, so that the largest
packet has 63 bytes, the sequence number wraps after 4 packets, and events of 40
to 200 bytes have payloads of one to four packets. Names of three lengths let a
payload end one byte before the end of its second packet, at it, which takes an
empty third, and behind it. `maxAllowedPacket` (450) is above every payload but one.
When a write or the link breaks, 0, 3 or 30 bytes still arrive: none, a part of a
header, a header and a part of a body; as packets begin anywhere behind the
reader, this cuts them everywhere that matters. `Window` (67, a packet with its
header) bounds how far the writer is ahead. Each kind of event that is read stands
with all its forms in one script, each that is refused ends one of its own, and a
rotation joins each two of the formats. In `dsn` each text has at most one
awkward thing in each part; several options at once are tried for those that
influence each other.

`MaxRows` and `MaxSent` bound `Next` of `RowStreamer` and play no part in
`Replication`, whose `MaxGroups` and `MaxTroubles` bound the run.
Deadlock is checked in every run: at its end a model takes an explicit step,
`Wait` in `Replication` (the dump waits for the master), `Terminated` in
`SlaveConn`, `Finished` in `RowImage` and `MysqlConn` and `Idle` in `EventStream`; the
application of `DSN` never stops.

Fairness. `ReplicationSpec` assumes that the goroutine of `Stream` and the dump
go on when they can (Go's scheduler and TCP) and that the application calls
`Stream` again after each end; the master need not write and nothing need fail.
Each is weak fairness: no step of the parser that is enabled is disabled by
another goroutine except by the end of the stream. `Spec` of `SlaveConn`
assumes that each goroutine that is not blocked runs, and that two goroutines
that meet at the channel exchange the event; nothing is assumed of master,
network and caller. `EventuallyDelivered` is not claimed for masters that alter
tables: then `parseEvents` refuses the old TABLE_MAP for ever. `Spec` of `MysqlConn`
assumes that its goroutine runs and that the server answers each request unless the
link is lost, of which the reader is told; the caller need not do anything.
`EventSpec` assumes that a `writePacket` that is under way goes on while the link
is up, that the pump goes on, and that what has arrived is parsed (`Parses`, which
is weak fairness of `Parse` written without ENABLED, as `Parse` can always take the
payload that has arrived: TLC would otherwise read each event several times in
every state). No fairness is assumed of the master's next event or of the link.

Mutants. Beside a definition stands a mutated form that a plausible bug would
give it (`CommitKeepsRows`: the pending rows are not reset; `PositionNotAdvanced`;
`EarlyRotateRejected`; `FirstPacketDropped`; ...), and `PROJECT.json` says which
property of which run it violates. They show that the properties depend on the
code and are used for nothing else.

## What is proved

`RowStreamerProofs` proves for all values of the constants, under the three
assumptions of `RowStreamer` (statements are non-empty sequences of words, the
bounds are numbers, `NoTable` is no table):

* `TypeCorrect`: `Spec => []TypeOK`;
* `NoOrphanEventsHolds`: in autocommit mode no row is pending. This needs only
  `NextAutocommitEffect`, what a step does to the flag and the pending rows;
* `RowsInOrderOnceHolds`: rows are handed over in the order they were read and
  none twice, over any number of calls of `Stream`.

`RowsInOrderOnce` speaks of `sent` alone and is not inductive: a step adds the
pending rows to it. The invariant `IInv` adds what holds of the pending rows:
they are ascending, come after every row already sent, and carry numbers no
larger than `rowEvents`, as do the sent ones.

The argument has two levels. Every action does one of four things to `sent`,
`tranEvents` and `rowEvents`: nothing, drop the pending rows, append a row, or
send some of the pending rows (`CommitEffect`, `RowsEffect`, `OtherEffect`,
`CallerEffect`, joined in `NextEffect`). `EffectKeepsIInv` shows once that each
of these keeps the invariant, from two facts about sequences: `EmptyFit`, that
no rows always fit, and `GrownFit`, that the pending rows fit when a new row is
appended. Types are proved action by action with one lemma for each shape of
step.

`SlaveConnProofs` proves for any number of packets and any modulus of the
sequence number, with and without a read timeout:

* `TypeCorrect`: `SafeSpec => []TypeOK`. It is not inductive alone: `readPacket`
  takes the packet out of its buffer, so `TypeOK` needs `HandFull`, that there is
  a packet in the buffer while it is checked and offered;
* `EventsInOrderHolds` and `NothingLostAtEofHolds`: what the stream has handled is
  what the master has sent, in order, and all of it when the end was seen;
* `SyncErrorOnlyWhileClosingHolds`: the reset of the sequence number by `Close`
  is the only way to a sequence error;
* `ConnectionClosedHolds`: a stream that has returned has closed its socket.

The invariant says where every packet is: handled, in somebody's hand, or on the
wire, and that the three, in this order, are the packets sent (`WireInOrder`,
`InHand`, `Ended`, `Stages`). `InSync` adds that the sequence number is the number
of the packet to be read next as long as the stream does not close; the lemmas
`Division` to `NextSequenceCounts` are the arithmetic of `%` it needs. `Closes`
relates how far each goroutine has got in closing to the state of `netConn` and
of the socket. The proof has the same two levels as the other: what a step may
do to the wire (`RemoteEffect`), then one lemma for each part of the invariant
(`PacketsKept`, `SequenceKept`, `ClosesKept`, `EventsKept`). All theorems hold of
`SafeSpec`, without fairness, and so of `Spec`.

`MysqlConnProofs` proves, for any DSNs, any number of statements and whatever the server
answers and wherever the link is lost,

* `TypeOKHolds`: `SafeSpec => []TypeOK`;
* `ClosedOnErrorHolds`: the socket is closed on every path that returns an error. The
  invariant adds that a connection that has failed is at its end; every action is one
  of the four ways in which a call ends or goes on (`Fails`, `Succeeds`, `Goes`,
  `Calls`), each with its lemma;
* `ReadsOwnAnswerHolds`, `NothingLeftHolds` and `ConnectsInSyncHolds`: answers and
  requests stay together;
* `ParamsInForceHolds`: a connection that is returned has all its variables and one of
  its charsets.

The last four assume `Wide`, that sequence numbers are modulo 4 or more (the protocol has
256), so that those of a single answer's first packets differ; results have any number
of rows. What `exec` leaves unread has a number that the next command does not expect, unless
the numbers have come round within the answer it is the end of: an answer of more
than 256 packets. Then it can be taken for the next answer, in the program as in the model,
where TLC reaches it (`mixed` with `wrapped`). `ReadsOwnAnswer` says that it comes about in
no other way.

The invariant `Talk` says what is between client and server (`Conversation`): nothing
(`Quiet`), a request that waits for its answer (`Pending`), an answer (`Arriving`), the
further results of a procedure that were left, with a number that is not the next
(`LeftOver`), the same after the next command was written, so that nothing can be read
any more (`Stuck`), or, under TLS, packets that cannot be read (`Veiled`). From the first
answer that wraps on, nothing is said of the packets any more (`Late`), but by then the
connection has long been returned. `Arriving` is
the part that is not obvious: the packets on the wire are `Answered`, that is, there is
a sequence of reads, beginning with the one the code is at and ending with none, of
which each waits for its packet and comes to the next (`Follows`), and they are
`Numbered` in a row. Reading the first packet drops the first read (`Received`,
`ReadsTalk`); that every answer of the server is `Answered` and `Numbered` when it is
sent is a lemma for each form of an answer (`AnsweredByOne` to `AnswersAnswered`), and
`Division` to `NextNumber` are the arithmetic of `%`. `Setting` adds that a parameter
whose turn is over is in force, and that the OK on its way is for the one whose turn it
is. Both were checked by TLC, on the instance of `connecting`, before they were proved.

The assumption about the DSNs (`ConfigsAssumption`) says of them what `ParseDSN` makes:
flags, known plugins, a finite set of variables, of which `charset` is none because it
is parsed into a field of its own, and a sequence of charsets.

`RowImageProofs` proves that the code's two readers of a row never drift apart. `Rows` walks over the columns with `cellLength` to find where an
image ends; `getValuesFromRow` later cuts the same bytes with `CellBytes`.

* `LengthsAgree`: for every type, all metadata and all bytes, if `CellBytes` returns
  a value then `cellLength` is the length of it. It needs `Precise`, that a
  TIMESTAMP2 or DATETIME2 has at most six decimals, as in every MySQL server;
* `CutMeetsWalkHolds`: `Spec /\ []AllPrecise => []CutMeetsWalk`, for any events and
  any bytes, also bytes no master writes. `AllPrecise` says of the metadata that was
  read what `Precise` says of one column.

That positions agree at the end of an image is not inductive. `IInv` says that there
is a path: for each column the position and the index among the values, such that
neighbours are one step of the walk apart (`Path`, `Moves`). The walk extends the
path of its image (`OnWalk`), a finished image keeps it (`Walked`), and the cut is on
it at every column (`OnCut`), which `LengthsAgree` preserves. The assumption
`EventsAssumption` of `RowImage` (a kind, and a number of columns) is the only one
about the events.

The module goes on to what is delivered. For any columns, presence and NULL bitmaps,
images and rows,

* `RowsDeliveredHolds`: every column of every image of every row comes out as it was
  written, absent ones as empty, NULLs as NULL;
* `SupportedAreReadHolds`: an event without JSON columns, which the application knows with
  all its columns, causes no error and no read behind the end of its bytes;
* `TypeOKHolds`.

The hypothesis is `Understood` (at the end of `RowImage`): the parts of an event fit
together, some image has a column, and each *single* value is read as it was
written when its bytes and the metadata of its column stand alone (`ReadAlone`). Nothing is
assumed of two values next to each other. What the theorems add is therefore all of what
goes wrong between values: each bitmap is read bit by bit as it was packed
(`BitmapBytesAre`, `BitsRead`), the count of the bits is the number of cells
(`PresenceCount`, `BeforeIs`, `NullBits`), each part of the payload stands at its place
(`Flattened`, `Places`, `PayloadIs` to `RowPlaces`), and a value read at its place is the
value read alone (`CellLocal`, `MetadataLocal`). The invariant (`RowsInv`) then says of
each loop what it has collected so far and at which place it is (`InMetadata` ... `InCut`);
the loops hand over to each other, so that no part is inductive without the others.

That single values are read alone is proved for the types whose content is simple
enough to say in general, for all values and both kinds of sign:

* `IntegersAreReadAlone`: TINYINT to BIGINT and TIMESTAMP, any number that fits
  (`HasBytes`), also those beyond TLC's 32 bits. The bytes are the quotients of the number
  by 256 (`LeastFirstIs`), and reading adds them up from the last (`LittleEndianReads`);
* `TextsAreReadAlone`: VARCHAR, CHAR, BLOB and GEOMETRY of any content, on both sides of
  the length 255 at which the prefix grows, with the metadata in which a CHAR hides two
  bits of its length (`CharReads`).

`IntegersAndTextsAreDelivered` puts the two halves together: for events whose columns are
integers and texts (`Ordinary`: declared as a master declares them, with values that fit)
the three properties hold with nothing assumed of the reader.

For the other types it is TLC that evaluates `Understands` on the events of `row_images`
(`EventsAreUnderstood`). An integer DECIMAL of value 0 does not satisfy it: `decimal_zero`.

`PacketFramingProofs` proves for any size of a byte, any payloads, any limit and wherever
a write or the link breaks off:

* `PayloadsArriveInOrder`, `NumbersAlwaysAgree` and `NothingIsLeftBehind`, the
  three safety properties, and `FramingTypes`;
* `FramingIsAQueue`: `Spec => Queue!SafeSpec`, every step of the packets is a step of
  `PayloadQueue` or a stutter.

The invariant (`Placed`) says that there are *points* in the stream of bytes, at which
packets begin: each says which payload its packet continues, at which offset, and with
which number, the bytes behind it are those of that packet (`Sent`), and the next point
follows from it (`After`). The writer is at the last point (`WriterAt`); the reader is
at one of them, or behind its header (`ReaderAt`). Writing adds a point
(`PointsWrite`), losing bytes keeps the points that are left (`PointsCut`), and since
the header says the size of its packet (`HeaderSays`, the arithmetic of the three
bytes) the reader goes from point to point. The only assumption is
`FramingAssumption`, of which what matters is that a byte has at least two values.

`EventStreamProofs` shows that the stream of events is an instance of it
(`EventsAreFramed`), whatever the scripts and the parser, and so takes over the three
properties. `EventTypes` needs that the parser is never more than one payload behind
the reader (`Paced`), and `EventsAreAQueue` is the safety part of `EventsDelivered`.
Three theorems say what the parser has made of the payloads:

* `EventsReadInOrder`, for any script: what it has noted of the `n`-th payload is the
  reading of this payload alone, with the last format before it (`Reading`,
  `FormatBefore`), so that no packet boundary, loss or earlier event has a part in it;
* `FieldsAreAsWritten` and `ParserStopsForCause`: these readings are what the script
  says was written, and the parser ends, fails or panics on a payload only if that is what
  its reading alone does.
  Both assume `Understood`: every payload of every script, taken alone with the format
  before it, is read as what it was made of. This is the codec's part of the claim: a
  fact about finitely many sequences of bytes, which `MCEventStream` has TLC evaluate for
  its scripts (`ScriptsAreUnderstood`); the theorems add everything else, for every
  size of a packet, every cut, every loss and every interleaving. A master whose
  events the code cannot read is outside of `Understood`, and of the property.

The invariant relates `parsed` to a prefix of the payloads taken (`PayloadsArriveInOrder`)
and `format` to the last format description in it; `MethodReads` is the lemma that a
turn of the parser's loop reads what `Reading` says.

`DSNProofs` proves for any texts that an application writes, any TLS configurations and
any names for them:

* `TypeOKHolds`: what `ParseDSN` returns has a network and an address, and a zone, options
  and a TLS configuration that exist, and no reserved name is ever registered;
* `ServerNamedHolds`: with a registered TLS configuration there is a name to verify or
  none is to be verified, but for addresses without a port and the default one;
* `ServerNameKeptHolds`: once it has a name, no parsing changes it.

The assumptions are that a DSN is a sequence of words (`WrittenAssumption`) and that a
registered pointer is none of the three that `ParseDSN` makes (`RegisteredAssumption`).
The invariant (`IInv`) says that the text at hand is one of those words and of the
literals of the package, and that a configuration is `Complete`. The middle of the
proof is `Readings`, the invariant of `parseDSNParams`: at each parameter what was read so far
is typed, names a registered `tls.Config` only if that has a name for this address or
needs none, and has left every `tls.Config` with a name as it was. That it is kept is one
lemma for each kind of parameter (`FlagRead`, `LocRead`, `TLSRead`, ...). The folds are reasoned
about by `FoldExists` and `Induct`: the former shows by induction over the number of
steps (a set of numbers, not an operator) that the function exists which the definition of
`FoldLeft` chooses, and `SplitType`, `FlattenType` and `ParamsRead` carry a set of values
along it.

`ReplicationProofs` proves what the library is for, end to end: for any transactions,
tables, numbers of columns, binlog files, lost connections, refusals, cancellations
and resumptions, and for a master that also rolls back, executes DDL, alters tables,
flushes its logs and restarts,

* `ExactlyOnceInOrderHolds`: `Replication` refines the safety part of
  `TransactionFeed`;
* `WholeTransactionsHolds`: each transaction handed over is a committed one, complete,
  and its positions enclose it and no other;
* `RowsAcceptedOnceHolds`: no row is accepted twice or out of order;
* `TableOfRowHolds` and `NamesOfRowHolds`, for *every* master: the names under which a row
  is handed over are those of its table, and as many as its columns, as long as its table
  id has kept its meaning within the current dump.

The hypothesis of the first three is `Plain`: the features `savepoint`, `xa` and `reuseIds`
of the master are off. It is needed for the first two: with `savepoint` and `xa` the
parser takes groups apart or drops rows (see the hazard of `mysql_types.go:81`).
`RowsAcceptedOnce` holds of more than is proved: `replication_awkward` checks it with all
three. The last two need no hypothesis; their invariant (`DInv`) is about the cache alone: an
entry was made by a TABLE_MAP event of its id behind `dumpPos` and before the cursor, and so
was the table of each pending row (`CacheOfDump`, `RowsOfDump`), while the binlog only grows
behind the cursor and no table goes back to older columns (`MasterOld`).
`ColumnsAssumption` (there is a number of columns) lets the master begin.

The invariant `RInv` has two halves, joined by a ghost: a function `N` from table ids to
names, which exists because no id is given twice. `MasterInv(N)` says that the binlog is the
log: each transaction of the log is a group BEGIN, TABLE_MAP and rows in turn, and XID,
COMMIT or ROLLBACK between its two positions (`IsGroup`), the groups are in order, and
every other event is neutral (`LogInv`); rows are numbered as they are written
(`Numbered`). `ParserInv(N)` says where the parser is: the application has accepted
the first `done` transactions (`AcceptedInv`), and the parser is `Outside`, at a
position behind these and before the rest (`Between`), or `Inside(n)` the next group,
behind `n` of its changes, with exactly these pending and the cache holding the table of
the last TABLE_MAP. `StageInv` says it too of the fake ROTATE and the format
description, where the position of the parser may still be in the file before.
A step of the master only adds groups or neutral events (`Grown`), which leaves the
parser where it is (`MasterKept`); a step of the parser reads the event that `NextEvent`
(outside) or `InsideNext` (inside) says is next, with one lemma for each kind of event
(`CommitReceived`, `CommitKept`, ...); and a new `Stream` begins at `NextPosition` of the
last accepted transaction, which is `Between` by `EndBetween`.

Only model-checked: the hypothesis `Understood` of two theorems about `EventStream` (every
kind of event has its own layout, and its bytes are sums over sequences); that a DSN is
read as it was written and survives `FormatDSN` (`ReadAsWritten`, `Reformatted`: what the
searches and the folds compute of a text, not only which kind of value it is); the
hypothesis `Understood` of three theorems about `RowImage` for values that are neither
integers nor texts: dates, times, decimals, bits and enumerations; `NoPanic`, which does not hold; and every liveness property, because the proof
system does neither ENABLED nor fairness. The library's induction theorems take an
operator as a parameter, which the provers cannot instantiate: where a proof here
goes by induction, it is over a set of numbers (`Induct`, from the well-foundedness of <).
A module with RECURSIVE operators has no SMT backend; none of the modules has one.

## What is not modelled

* MariaDB events (`binlog_event_mariadb.go`, the makers of a MariaDB stream): the
  library never creates them, `slaveConn` always makes events of MySQL 5.6.
* The methods `IntVar`, `Rand`, `NextLogFile`, `PreviousGTIDs` and `GTID`, called by
  tests only; `parseEvents` refuses or ignores these events, which is modelled.
* Rows of prepared statements (`binaryRows`, the conversions of `utils.go` and
  the `driver.Value` of dates): used by nothing in the repository.
* Password scrambling, which is cryptography, and the collation tables, of which only
  the default and the unsafe ones matter to a decision.
* JSON, log output and the layout of printed dates, times and floats, which are
  formatting.
* The layout of handshake and command packets and the cells of text results.

How the project grew: `RowStreamer`, `TransactionFeed`, `Replication` and
`SlaveConn` with their theorems came first; then the bytes of rows (`Cells`,
`ServerRows`, `RowImage`) and connecting (`MysqlConn`); then the packet protocol, the
events and the composition of the two (`PacketFraming`, `BinlogEvents`,
`BinlogMakers`, `EventStream`), and `DSN`; then the proof that `Replication` refines
`TransactionFeed`; and last the theorems about answers and requests of `MysqlConn`, about
the fields of events, about `DSN`, and about the rows that are delivered. What could be
added: that dates, times and decimals are read alone, for all their values.
