---------------------------- MODULE BinlogMakers ----------------------------
(***************************************************************************)
(* The bytes of binlog events, from what they are to say. The repository   *)
(* makes events itself (replication/binlog_event_make.go), as a master     *)
(* does for a plain table; what a master writes beyond that, other status  *)
(* variables, long numbers, extra data, older versions, is external. The   *)
(* makers share nothing with the readers of BinlogEvents but the numbers   *)
(* of events and types.                                                    *)
(***************************************************************************)
EXTENDS BinlogEvents, ServerRows
LOCAL INSTANCE SequencesExt
LOCAL INSTANCE FiniteSets

Zeros(n) == [i \in 1 .. n |-> 0]
CString(bytes) == Append(bytes, 0)
Prefixed(bytes) == <<Len(bytes)>> \o bytes

-----------------------------------------------------------------------------
(* Packetize: the header, and four bytes for the checksum, which nobody    *)
(* verifies.                                                               *)
Packetize(f, s, typ, flags, data) ==
    LET sum == IF typ = FormatDescriptionEvent \/ f.checksumAlgorithm = ChecksumCRC32
               THEN 4 ELSE 0
    IN  LeastFirst(s.timestamp, 4) \o <<typ>> \o LeastFirst(s.serverID, 4)
            \o LeastFirst(f.headerLength + Len(data) + sum, 4)
            \o LeastFirst(s.logPosition, 4) \o LeastFirst(flags, 2)
            \o Zeros(f.headerLength - 19) \o data \o Zeros(sum)

NewFormatDescriptionEvent(f, s) ==
    Packetize(f, s, FormatDescriptionEvent, 0,
        LeastFirst(f.formatVersion, 2) \o f.serverVersion \o Zeros(50 - Len(f.serverVersion))
            \o LeastFirst(s.timestamp, 4) \o <<f.headerLength>> \o f.headerSizes
            \o <<f.checksumAlgorithm>>)

NewInvalidFormatDescriptionEvent(f, s) ==
    Packetize(f, s, FormatDescriptionEvent, 0, <<3>> \o Zeros(74))

(* The timestamp of a rotation is zero.                                    *)
NewRotateEvent(f, s, position, filename) ==
    Packetize(f, [s EXCEPT !.timestamp = 0], RotateEvent, 0, LeastFirst(position, 8) \o filename)

(* The body of a query event, whatever its status variables are.           *)
QueryBody(q, vars) ==
    Zeros(8) \o <<Len(q.database)>> \o Zeros(2) \o LeastFirst(Len(vars), 2) \o vars
        \o CString(q.database) \o q.sql

CharsetVar(c) ==
    IF c = NoCharset THEN <<>>
    ELSE <<QCharsetCode>> \o LeastFirst(c.client, 2) \o LeastFirst(c.conn, 2)
             \o LeastFirst(c.server, 2)

NewQueryEvent(f, s, q) == Packetize(f, s, QueryEvent, 0, QueryBody(q, CharsetVar(q.charset)))

NewInvalidQueryEvent(f, s) == Packetize(f, s, QueryEvent, 0, Zeros(8) \o <<200>> \o Zeros(91))
NewInvalidEvent == <<0>>

NewXIDEvent(f, s) == Packetize(f, s, XIDEvent, 0, Zeros(8))

NewIntVarEvent(f, s, typ, value) ==
    Packetize(f, s, IntVarEvent, 0, <<typ>> \o LeastFirst(value, 8))

-----------------------------------------------------------------------------
(* Tables and rows.                                                        *)

(* The metadata of a column: none, one byte, or two.                       *)
metadataLength(typ) ==
    CASE typ \in {"TypeFloat", "TypeDouble", "TypeTimestamp2", "TypeDateTime2", "TypeTime2",
                  "TypeJSON", "TypeTinyBlob", "TypeMediumBlob", "TypeLongBlob", "TypeBlob",
                  "TypeGeometry"} -> 1
      [] typ \in {"TypeNewDecimal", "TypeEnum", "TypeSet", "TypeString", "TypeVarchar",
                  "TypeBit", "TypeVarString"} -> 2
      [] OTHER -> 0

metadataTotalLength(types) ==
    LET columns(width) == Cardinality({c \in DOMAIN types : metadataLength(types[c]) = width})
    IN  columns(1) + 2 * columns(2)

metadataWrite(typ, value) ==
    IF typ \in {"TypeNewDecimal", "TypeEnum", "TypeSet", "TypeString"}
    THEN MostFirst(value, 2)
    ELSE LeastFirst(value, metadataLength(typ))

(* A number as one byte, which the makers write for every count.           *)
OneByte(n) == <<n % 256>>

(* The body of a TABLE_MAP event, whatever the width of the table id and   *)
(* the form of the two counts are.                                         *)
TableMapBody(idWidth, tableID, tm, columns, total) ==
    LET n == Len(tm.types)
        metadata == [c \in 1 .. n |-> metadataWrite(tm.types[c], tm.metadata[c])]
    IN  LeastFirst(tableID, idWidth) \o LeastFirst(tm.flags, 2)
            \o CString(Prefixed(tm.database)) \o CString(Prefixed(tm.name))
            \o columns \o [c \in 1 .. n |-> TypeNumber[tm.types[c]]]
            \o total
            \o FlattenSeq(SelectSeq(metadata, LAMBDA bytes : bytes # <<>>))
            \o tm.canBeNull

NewTableMapEvent(f, s, tableID, tm) ==
    Packetize(f, s, TableMapEvent, 0,
              TableMapBody(6, tableID, tm, OneByte(Len(tm.types)),
                           OneByte(metadataTotalLength(tm.types))))

(* The body of a rows event. The bytes of its rows, with their bitmaps of  *)
(* NULL columns, are one sequence here.                                    *)
RowsBody(idWidth, tableID, extra, columns, rows) ==
    LeastFirst(tableID, idWidth) \o LeastFirst(rows.flags, 2) \o extra \o columns
        \o rows.identify \o rows.present \o rows.rows

NoExtraData == <<2, 0>>

newRowsEvent(f, s, typ, tableID, rows) ==
    Packetize(f, s, typ, 0, RowsBody(6, tableID, NoExtraData, OneByte(rows.count), rows))

-----------------------------------------------------------------------------
(* What a master writes and the makers cannot.                             *)

LenEnc(n) ==
    IF n < 251 THEN <<n>>
    ELSE IF n < 65536 THEN <<252>> \o LeastFirst(n, 2)
    ELSE <<253>> \o LeastFirst(n, 3)

IdWidth(f, typ) == IF f.headerSizes[typ] = 6 THEN 4 ELSE 6

(* Flags, SQL mode, catalog, auto increment, charset and time zone, in the *)
(* order in which a master writes them.                                    *)
MasterVars(charset, catalog) ==
    <<QFlags2Code, 1, 2, 3, 4>> \o <<QSQLModeCode, 4, 4, 4, 4, 4, 4, 4, 4>>
        \o catalog \o <<QAutoIncrement, 2, 0, 4, 0>> \o CharsetVar(charset) \o <<5, 4, 4, 4, 4, 4>>

Catalog(name) == <<QCatalogNZCode, Len(name)>> \o name
OldCatalog(name) == <<QCatalog, Len(name)>> \o CString(name)

MasterQuery(f, s, q, catalog) ==
    Packetize(f, s, QueryEvent, 0, QueryBody(q, MasterVars(q.charset, catalog)))

MasterTableMap(f, s, tableID, tm) ==
    Packetize(f, s, TableMapEvent, 0,
              TableMapBody(IdWidth(f, TableMapEvent), tableID, tm, LenEnc(Len(tm.types)),
                           LenEnc(metadataTotalLength(tm.types))))

(* Extra data are written in version 2 only.                               *)
ExtraData(bytes) == LeastFirst(Len(bytes) + 2, 2) \o bytes

MasterRows(f, s, typ, tableID, extra, rows) ==
    Packetize(f, s, typ, 0,
              RowsBody(IdWidth(f, typ), tableID, IF typ \in RowsV2 THEN ExtraData(extra) ELSE <<>>,
                       LenEnc(rows.count), rows))

Master(f, s, typ, body) == Packetize(f, s, typ, 0, body)
=============================================================================
