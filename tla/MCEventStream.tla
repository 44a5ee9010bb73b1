--------------------------- MODULE MCEventStream ----------------------------
(* Scripts for TLC: every event in every format, between two files whose   *)
(* formats differ, with payloads that end before, at and behind the end of *)
(* a packet.                                                               *)
EXTENDS EventStream, BinlogMakers
LOCAL INSTANCE FiniteSetsExt

(* Header lengths of the events of MySQL 5.6; the ids of tables have four  *)
(* bytes where the length is 6.                                            *)
Sizes(rows1, rows2) ==
    <<56, 13, 0, 8, 0, 18, 0, 4, 4, 4, 4, 18, 0, 0, 92, 0, 4, 26, rows1, 0, 0, 0, rows1, rows1,
      rows1, 2, 0, 0, 0, rows2, rows2, rows2, 25, 25, 0>>
FormatOf(checksum, sizes) ==
    [formatVersion |-> 4, serverVersion |-> <<53, 46, 54>>, headerLength |-> 19,
     checksumAlgorithm |-> checksum, headerSizes |-> sizes]

Plain == FormatOf(ChecksumOff, Sizes(8, 10))
Checked == FormatOf(ChecksumCRC32, Sizes(8, 10))
ShortIds == FormatOf(ChecksumUndef, Sizes(6, 6))
Unknown == FormatOf(2, Sizes(8, 10))
Formats == {Plain, Checked, ShortIds}

Source == [serverID |-> 258, timestamp |-> 1407805592, logPosition |-> 70000]

-----------------------------------------------------------------------------
Message(ev, holds) == [payload |-> <<PacketOK>> \o ev, holds |-> holds]
EOF == [payload |-> <<PacketEOF, 0, 0, 2, 0>>, holds |-> Ended]
ERR == [payload |-> <<PacketERR, 1, 2>>, holds |-> Ended]

Reads(typ, table, body) ==
    [type |-> typ, next |-> Source.logPosition, time |-> Source.timestamp, table |-> table,
     body |-> body]
HeaderOnly == [header |-> "only"]

Letters(n) == [i \in 1 .. n |-> 96 + (i % 26)]

RotateTo(f, position, n) ==
    Message(NewRotateEvent(f, Source, position, Letters(n)),
            [Reads(RotateEvent, 0, [position |-> position, filename |-> Letters(n)])
                EXCEPT !.time = 0])
Early(f) == [RotateTo(f, 4, 6) EXCEPT !.holds = Skipped]
Describe(f) == Message(NewFormatDescriptionEvent(f, Source), [body |-> f])

Charsets == {NoCharset, [client |-> 8, conn |-> 300, server |-> 33]}
Statement(charset, n) == [database |-> Letters(n), charset |-> charset, sql |-> Letters(5 + n)]
Catalogs == {<<>>, Catalog(Letters(3)), OldCatalog(Letters(3)), Catalog(<<>>)}

Queries(f) ==
    {Message(NewQueryEvent(f, Source, q), Reads(QueryEvent, 0, q)) :
        q \in {Statement(c, n) : c \in Charsets, n \in {0, 3}}}
    \cup {Message(MasterQuery(f, Source, q, catalog), Reads(QueryEvent, 0, q)) :
            q \in {Statement(c, 2) : c \in Charsets}, catalog \in Catalogs}
    \cup {Message(NewInvalidQueryEvent(f, Source), Failure)}

-----------------------------------------------------------------------------
Table(types, metadata) ==
    [flags |-> 1, database |-> Letters(2), name |-> Letters(3), types |-> types,
     metadata |-> metadata, canBeNull |-> [i \in 1 .. (Len(types) + 7) \div 8 |-> 170]]
Bytewise(n) == Table([i \in 1 .. n |-> "TypeTiny"], [i \in 1 .. n |-> 0])
Tables ==
    {Table(<<"TypeLong", "TypeVarchar", "TypeNewDecimal", "TypeBlob", "TypeString">>,
           <<0, 300, 2562, 2, 65034>>),
     Table(<<"TypeBit", "TypeEnum", "TypeTimestamp2">>, <<257, 2, 6>>), Bytewise(9)}
(* As many columns as one byte can count, and one more.                    *)
WideTables == {Bytewise(n) : n \in {250, 251}}

TableIds == {7, 16909060}

Maps(f) ==
    {Message(MasterTableMap(f, Source, id, tm),
             Reads(TableMapEvent, id, tm)) : id \in TableIds, tm \in Tables}
    \cup {Message(MasterTableMap(f, Source, 7, tm), Reads(TableMapEvent, 7, tm)) :
            tm \in WideTables}
    \cup {Message(MasterTableMap(f, Source, 7, Table(<<"TypeTiny", "TypeJSON">>, <<0, 4>>)),
                  Failure)}

RowsOf(typ, n, rows) ==
    LET bitmap(b) == [i \in 1 .. (n + 7) \div 8 |-> b]
    IN  [flags |-> 1, count |-> n, rows |-> rows,
         identify |-> IF HasIdentify(typ) THEN bitmap(255) ELSE <<>>,
         present |-> IF HasData(typ) THEN bitmap(127) ELSE <<>>]

Changes(f, typ) ==
    {Message(MasterRows(f, Source, typ, id, extra, rows), Reads(typ, id, rows)) :
        id \in TableIds, extra \in {<<>>, <<1, 2, 3>>},
        rows \in {RowsOf(typ, n, <<9, 8>>) : n \in {1, 9}}}
    \cup {Message(MasterRows(f, Source, typ, 7, <<>>, rows), Reads(typ, 7, rows)) :
            rows \in {RowsOf(typ, n, <<>>) : n \in {250, 251}}}

(* What the repository's own makers write: six bytes for a table's id.     *)
Made(f) ==
    {Message(NewTableMapEvent(f, Source, id, tm), Reads(TableMapEvent, id, tm)) :
        id \in TableIds, tm \in Tables}
    \cup {Message(newRowsEvent(f, Source, typ, id, RowsOf(typ, 3, <<5>>)),
                  Reads(typ, id, RowsOf(typ, 3, <<5>>))) : typ \in RowsV2, id \in TableIds}

Others(f) ==
    {RotateTo(f, position, n) : position \in {4, 70000}, n \in {1, 6}}
    \cup {Message(NewXIDEvent(f, Source), Reads(XIDEvent, 0, HeaderOnly)),
          Message(Master(f, Source, 33, Letters(25)), Reads(33, 0, HeaderOnly)),
          Message(NewIntVarEvent(f, Source, 2, 300), Failure),
          Message(Master(f, Source, RandEvent, Letters(16)), Failure),
          Message(Master(f, Source, RowsQueryEvent, Letters(9)), Failure),
          Message(NewInvalidEvent, Failure),
          Message(NewInvalidFormatDescriptionEvent(f, Source), Failure),
          ERR}

-----------------------------------------------------------------------------
(* Every event in each format: those that are read one after the other,    *)
(* and each that ends the stream in a script of its own.                   *)
Begin(f) == <<Early(f), Describe(f)>>
Ends(e) == e.holds \in {Failure, Ended}
InOrder(events) == FoldSet(LAMBDA e, s : Append(s, e), <<>>, events)

Kinds(f) ==
    {Queries(f), Maps(f), Others(f)} \cup {Changes(f, typ) : typ \in RowsEvents}
        \cup (IF f = ShortIds THEN {} ELSE {Made(f)})
EveryEvent ==
    UNION {UNION {{Begin(f) \o InOrder({e \in events : ~Ends(e)}) \o <<EOF>>}
                     \cup {Begin(f) \o <<e>> : e \in {e \in events : Ends(e)}} :
                  events \in Kinds(f)} : f \in Formats}

(* From one file into the next, which has another format. The rotation at  *)
(* the end of the file and the one that names the next are still in the    *)
(* format of the first. Names of three lengths end a payload before, at    *)
(* and behind the end of its second packet.                                *)
Begins(f) == Message(NewQueryEvent(f, Source, Statement(NoCharset, 2)),
                     Reads(QueryEvent, 0, Statement(NoCharset, 2)))
(* A payload of two full packets.                                          *)
Fits(f) == 2 * maxPacketSize - (IF f = Checked THEN 32 ELSE 28)
Rotating ==
    {Begin(f) \o <<RotateTo(f, 4, Fits(f) + n), RotateTo(f, 4, 6), Describe(g), Begins(g), EOF>> :
        f \in Formats, g \in Formats, n \in {-1, 0, 1}}

(* An event before the format, an algorithm that is not known, a payload   *)
(* that is too large to be sent, and one that is empty.                    *)
Odd ==
    {<<[Begins(Plain) EXCEPT !.holds = Failure]>>,
     <<Describe(Unknown), [Begins(Unknown) EXCEPT !.holds = Failure]>>,
     <<RotateTo(Plain, 4, 500)>>,
     <<Early(Plain), [payload |-> <<>>, holds |-> Failure]>>}

-----------------------------------------------------------------------------
(* Valid headers before bodies that are cut. Nothing of a body is left out *)
(* silently: it is an error where a count is missing, and a panic at any   *)
(* other place. A file name and a statement may have any length.           *)
CutAt(f, typ, body, n, whys) ==
    Message(Master(f, Source, typ, SubSeq(body, 1, n)), IF n \in whys THEN Failure ELSE Overrun)
Cuts(f, typ, body, end, errors) == {CutAt(f, typ, body, n, errors) : n \in 0 .. end - 1}

CutRotates(f) == Cuts(f, RotateEvent, Zeros(8), 8, 0 .. 7)

(* Up to the end of the statement before: of the fixed fields, 13 bytes,   *)
(* and then of the variables and the name.                                 *)
CutQueries(f) ==
    LET q == Statement([client |-> 8, conn |-> 300, server |-> 33], 0)
        body == QueryBody(q, MasterVars(q.charset, <<>>))
    IN  Cuts(f, QueryEvent, body, Len(body) - Len(q.sql), 13 .. Len(body))

CutMaps(f) ==
    LET tm == Table(<<"TypeVarchar", "TypeBlob", "TypeTiny">>, <<300, 2, 0>>)
        id == IdWidth(f, TableMapEvent)
        names == id + 2 + 2 + Len(tm.database) + 1 + Len(tm.name)
        body == TableMapBody(id, 7, tm, LenEnc(3), LenEnc(3))
    IN  Cuts(f, TableMapEvent, body, Len(body), {names, names + 1, names + 5})

CutRows(f) ==
    UNION {LET id == IdWidth(f, typ)
               extra == IF typ \in RowsV2 THEN ExtraData(<<1>>) ELSE <<>>
               body == RowsBody(id, 7, extra, LenEnc(9), RowsOf(typ, 9, <<>>))
               fixed == id + IF typ \in RowsV2 THEN 4 ELSE 2
           IN  Cuts(f, typ, body, Len(body), fixed .. id + 2 + Len(extra)) :
           typ \in RowsEvents}

(* Columns and metadata in numbers that no event holds: above the limit of *)
(* the code, and below.                                                    *)
Eight(n, high) == <<254>> \o LeastFirst(n, 4) \o <<high, 0, 0, 0>>
TooMany == {<<254, 0, 0, 0, 128, 0, 0, 0, 0>>, Eight(3, 1), <<254, 3, 0, 0, 0, 0, 0, 0, 1>>}
Miscounted(f) ==
    LET tm == Table(<<"TypeTiny">>, <<0>>)
        id == IdWidth(f, TableMapEvent)
        map(columns, total) ==
            Master(f, Source, TableMapEvent, TableMapBody(id, 7, tm, columns, total))
        rows(columns) == Master(f, Source, WriteRowsEventV1,
                                RowsBody(id, 7, <<>>, columns, RowsOf(WriteRowsEventV1, 1, <<>>)))
    IN  {Message(map(n, <<0>>), Failure) : n \in TooMany}
        \cup {Message(map(<<1>>, n), Failure) : n \in TooMany \cup {<<1>>, Eight(1000000, 0)}}
        \cup {Message(rows(n), Failure) : n \in TooMany}
        \cup {Message(map(Eight(1000000, 0), <<0>>), Overrun),
              Message(rows(Eight(1000000, 0)), Overrun),
              Message(map(Eight(1, 0), Eight(0, 0)), Reads(TableMapEvent, 7, tm))}

(* Where the checksum was cut off, a rotation may have lost its header.    *)
Headless == Message(Packetize(Plain, Source, RotateEvent, 0, Zeros(3)), Overrun)

Malformed(f) == CutRotates(f) \cup CutQueries(f) \cup CutMaps(f) \cup CutRows(f) \cup Miscounted(f)

(* TLC reads all of them, and follows some.                                *)
ASSUME MalformedAreRefused ==
    \A f \in {Plain, ShortIds} : \A e \in Malformed(f) : Reading(e.payload, f) = e.holds

Broken ==
    {Begin(Plain) \o <<e>> :
        e \in Miscounted(Plain)
                \cup {CutAt(Plain, typ, Zeros(12), n, {}) :
                         typ \in RowsEvents \cup {QueryEvent, TableMapEvent}, n \in {0, 7}}}
    \cup {Begin(Checked) \o <<Headless>>,
          <<Describe(FormatOf(ChecksumOff, <<56, 13>>)),
            Message(MasterTableMap(Plain, Source, 7, Bytewise(9)), Overrun)>>}

MCScripts == EveryEvent \cup Rotating \cup Odd \cup Broken
(* What TLC is to find at the start: the scripts are understood.           *)
ASSUME ScriptsAreUnderstood == Understood

MCPayloads == UNION {{s[n].payload : n \in DOMAIN s} : s \in MCScripts}
=============================================================================
