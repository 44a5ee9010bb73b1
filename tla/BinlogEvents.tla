---------------------------- MODULE BinlogEvents ----------------------------
(***************************************************************************)
(* The fields of a binlog event, as the methods of BinlogEvent read them   *)
(* from its bytes (replication/binlog_event_common.go, _mysql56.go and the *)
(* heads of TableMap and Rows in _rbr.go). An event is the sequence of its *)
(* bytes, and so is a name or a statement. What a method returns is a      *)
(* record of the fields it fills, or Failure for an error, or Overrun for  *)
(* a read behind the end of the bytes: Go panics there, unless the read is *)
(* of a slice that ends within a checksum that was cut off, which it gets. *)
(***************************************************************************)
EXTENDS Cells
LOCAL INSTANCE FiniteSetsExt

Failure == [fails |-> "error"]
Overrun == [fails |-> "panic"]
Succeeds(reading) == "fails" \notin DOMAIN reading

-----------------------------------------------------------------------------
(* Numbers of replication/const.go.                                        *)

QueryEvent == 2
RotateEvent == 4
IntVarEvent == 5
RandEvent == 13
FormatDescriptionEvent == 15
XIDEvent == 16
TableMapEvent == 19
WriteRowsEventV1 == 23
UpdateRowsEventV1 == 24
DeleteRowsEventV1 == 25
RowsQueryEvent == 29
WriteRowsEventV2 == 30
UpdateRowsEventV2 == 31
DeleteRowsEventV2 == 32

WriteRows == {WriteRowsEventV1, WriteRowsEventV2}
UpdateRows == {UpdateRowsEventV1, UpdateRowsEventV2}
DeleteRows == {DeleteRowsEventV1, DeleteRowsEventV2}
RowsV2 == {WriteRowsEventV2, UpdateRowsEventV2, DeleteRowsEventV2}
RowsEvents == WriteRows \cup UpdateRows \cup DeleteRows

HasIdentify(typ) == typ \in UpdateRows \cup DeleteRows
HasData(typ) == typ \in WriteRows \cup UpdateRows

ChecksumOff == 0
ChecksumCRC32 == 1
ChecksumUndef == 255

(* Codes of status variables in a query event.                             *)
QFlags2Code == 0
QSQLModeCode == 1
QCatalog == 2
QAutoIncrement == 3
QCharsetCode == 4
QCatalogNZCode == 6

TypeNumber ==
    [TypeDecimal |-> 0, TypeTiny |-> 1, TypeShort |-> 2, TypeLong |-> 3, TypeFloat |-> 4,
     TypeDouble |-> 5, TypeNull |-> 6, TypeTimestamp |-> 7, TypeLongLong |-> 8,
     TypeInt24 |-> 9, TypeDate |-> 10, TypeTime |-> 11, TypeDateTime |-> 12, TypeYear |-> 13,
     TypeNewDate |-> 14, TypeVarchar |-> 15, TypeBit |-> 16, TypeTimestamp2 |-> 17,
     TypeDateTime2 |-> 18, TypeTime2 |-> 19, TypeJSON |-> 245, TypeNewDecimal |-> 246,
     TypeEnum |-> 247, TypeSet |-> 248, TypeTinyBlob |-> 249, TypeMediumBlob |-> 250,
     TypeLongBlob |-> 251, TypeBlob |-> 252, TypeVarString |-> 253, TypeString |-> 254,
     TypeGeometry |-> 255]

TypeOfNumber == [n \in {TypeNumber[t] : t \in DOMAIN TypeNumber} |->
                    CHOOSE t \in DOMAIN TypeNumber : TypeNumber[t] = n]

-----------------------------------------------------------------------------
(* The header, of 19 bytes.                                                *)

Timestamp(ev) == Unsigned(ev, 0, 4)
Type(ev) == Byte(ev, 4)
Length(ev) == Unsigned(ev, 9, 4)
NextPosition(ev) == Unsigned(ev, 13, 4)

IsValid(ev) == Len(ev) >= 19 /\ Length(ev) >= 19 /\ Length(ev) = Len(ev)

Behind(data, pos) == SubSeq(data, pos + 1, Len(data))

IsZero(f) == f.formatVersion = 0 /\ f.headerLength = 0
NoFormat == [formatVersion |-> 0, serverVersion |-> <<>>, headerLength |-> 0,
             checksumAlgorithm |-> ChecksumOff, headerSizes |-> <<>>]

(* The format need not have a size for each type of event.                 *)
Sized(f, typ) == typ \in DOMAIN f.headerSizes
HeaderSize(f, typ) == f.headerSizes[typ]

(* The version of the server is padded with zeros.                         *)
TrimRight(bytes) == SubSeq(bytes, 1, Max({0} \cup {i \in DOMAIN bytes : bytes[i] # 0}))

(* Format: the checksum of this event is always there, and the algorithm   *)
(* of all others is the byte before it.                                    *)
Format(ev) ==
    LET data == Behind(ev, 19)
    IN  IF \/ Len(data) >= 2 /\ Unsigned(data, 0, 2) # 4
           \/ Len(data) >= 57 /\ Byte(data, 56) < 19
        THEN Failure
        ELSE IF Len(data) < 62 THEN Overrun
        ELSE [formatVersion |-> Unsigned(data, 0, 2),
              serverVersion |-> TrimRight(Slice(data, 2, 50)),
              headerLength |-> Byte(data, 56),
              checksumAlgorithm |-> Byte(data, Len(data) - 5),
              headerSizes |-> Slice(data, 57, Len(data) - 62)]

(* StripChecksum returns the event without its checksum.                   *)
StripChecksum(ev, f) ==
    CASE f.checksumAlgorithm \in {ChecksumOff, ChecksumUndef} -> [event |-> ev]
      [] f.checksumAlgorithm = ChecksumCRC32 -> [event |-> SubSeq(ev, 1, Len(ev) - 4)]
      [] OTHER -> Failure

-----------------------------------------------------------------------------
(* The bodies.                                                             *)

Rotate(ev, f) ==
    LET data == Behind(ev, f.headerLength)
    IN  IF Len(ev) < f.headerLength THEN Overrun
        ELSE IF Len(data) < 8 THEN Failure
        ELSE [position |-> Unsigned(data, 0, 8), filename |-> Behind(data, 8)]

NoCharset == [charset |-> "nil"]

(* How long the status variable at pos is, with its code; 0 for a code at  *)
(* which the scan stops. Catalogs carry their length, the older kind ends  *)
(* with a zero as well.                                                    *)
StatusVar(vars, pos) ==
    CASE Byte(vars, pos) \in {QFlags2Code, QAutoIncrement} -> 5
      [] Byte(vars, pos) = QSQLModeCode -> 9
      [] Byte(vars, pos) = QCatalog -> 3 + Byte(vars, pos + 1)
      [] Byte(vars, pos) = QCatalogNZCode -> 2 + Byte(vars, pos + 1)
      [] Byte(vars, pos) = QCharsetCode -> 7
      [] OTHER -> 0

(* Failure when a variable whose bytes are read does not fit.              *)
Truncated(vars, pos) ==
    \/ Byte(vars, pos) \in {QCatalog, QCatalogNZCode} /\ pos + 2 > Len(vars)
    \/ Byte(vars, pos) = QCharsetCode /\ pos + 7 > Len(vars)

(* The loop of Query over the status variables: it stops at a code that it *)
(* does not know, and the last charset is kept.                            *)
StatusVars(vars) ==
    LET from[pos \in 0 .. Len(vars)] ==
            IF pos = Len(vars) THEN {}
            ELSE {pos} \cup IF \/ StatusVar(vars, pos) = 0
                              \/ pos + StatusVar(vars, pos) > Len(vars)
                           THEN {}
                           ELSE from[pos + StatusVar(vars, pos)]
        charsets == {pos \in from[0] : Byte(vars, pos) = QCharsetCode}
        last == Max(charsets)
    IN  IF \E pos \in from[0] : Truncated(vars, pos) THEN Failure
        ELSE IF charsets = {} THEN NoCharset
        ELSE [client |-> Unsigned(vars, last + 1, 2), conn |-> Unsigned(vars, last + 3, 2),
              server |-> Unsigned(vars, last + 5, 2)]

Query(ev, f) ==
    LET data == Behind(ev, f.headerLength)
        dbPos == 13 + Unsigned(data, 11, 2)
        sqlPos == dbPos + Byte(data, 8) + 1
        charset == StatusVars(Slice(data, 13, dbPos - 13))
    IN  IF Len(data) < 13 THEN Overrun
        ELSE IF sqlPos > Len(data) \/ charset = Failure THEN Failure
        ELSE [database |-> Slice(data, dbPos, Byte(data, 8)), charset |-> charset,
              sql |-> Behind(data, sqlPos)]

(* Table ids had four bytes in the first versions.                         *)
TableIDLength(ev, f) == IF HeaderSize(f, Type(ev)) = 6 THEN 4 ELSE 6
TableID(ev, f) == Unsigned(ev, f.headerLength, TableIDLength(ev, f))

(* A number that says how many bytes it has. Both callers refuse one above *)
(* math.MaxInt32.                                                          *)
readLenEncInt(data, pos) ==
    LET first == Byte(data, pos)
        width == IF first = 252 THEN 2 ELSE IF first = 253 THEN 3 ELSE IF first = 254 THEN 8 ELSE 0
        large == /\ width = 8
                 /\ Byte(data, pos + 4) > 127 \/ \E i \in 5 .. 8 : Byte(data, pos + i) # 0
    IN  IF pos + width >= Len(data) \/ large THEN Failure
        ELSE [value |-> IF width = 0 THEN first ELSE Unsigned(data, pos + 1, width),
              next |-> pos + 1 + width]

NumberType(n) == IF n \in DOMAIN TypeOfNumber THEN TypeOfNumber[n] ELSE "unknown"

(* The columns' metadata, from start on: a column has none, one byte or    *)
(* two. The first that is of an unknown type, or not there, ends the loop. *)
Metadata(data, start, types) ==
    LET columns == DOMAIN types
        wide(width, before) ==
            Cardinality({c \in columns : c < before /\ MetadataWidth(types[c]) = width})
        at(c) == start + wide(1, c) + 2 * wide(2, c)
        known(c) == MetadataWidth(types[c]) # Unsupported
        refused == {c \in columns : ~known(c) \/ at(c) + MetadataWidth(types[c]) > Len(data)}
    IN  IF refused # {} THEN IF known(Min(refused)) THEN Overrun ELSE Failure
        ELSE [values |-> [c \in columns |-> metadataRead(data, at(c), types[c])],
              end |-> at(Len(types) + 1)]

(* TableMap: names behind their lengths and before a zero, then the types, *)
(* the metadata behind its length, and the bitmap of the columns that can  *)
(* be NULL.                                                                *)
TableMap(ev, f) ==
    LET data == Behind(ev, f.headerLength)
        flags == TableIDLength(ev, f)
        dbPos == flags + 3
        namePos == dbPos + Byte(data, dbPos - 1) + 2
        nameEnd == namePos + Byte(data, namePos - 1)
        count == readLenEncInt(data, nameEnd + 1)
        typesEnd == count.next + count.value
        types == [c \in 1 .. count.value |-> NumberType(Byte(data, count.next + c - 1))]
        block == readLenEncInt(data, typesEnd)
        metadata == Metadata(data, block.next, types)
        nulls == (count.value + 7) \div 8
    IN  IF ~Sized(f, TableMapEvent) \/ nameEnd > Len(data) THEN Overrun
        ELSE IF count = Failure THEN Failure
        ELSE IF count.value > Len(data) - count.next THEN Overrun
        ELSE IF block = Failure THEN Failure
        ELSE IF ~Succeeds(metadata) THEN metadata
        ELSE IF metadata.end - block.next # block.value THEN Failure
        ELSE IF metadata.end + nulls > Len(data) THEN Overrun
        ELSE [flags |-> Unsigned(data, flags, 2),
              database |-> Slice(data, dbPos, Byte(data, dbPos - 1)),
              name |-> Slice(data, namePos, Byte(data, namePos - 1)),
              types |-> types, metadata |-> metadata.values,
              canBeNull |-> Slice(data, metadata.end, nulls)]

(* Extra data precede the columns in version 2; their length counts its    *)
(* own two bytes.                                                          *)
extraDataLength(data, pos, typ) == IF typ \in RowsV2 THEN Unsigned(data, pos, 2) ELSE 0
fixedLength(flags, typ) == IF typ \in RowsV2 THEN flags + 4 ELSE flags + 2

(* Rows up to the bitmaps of the columns, and the bytes of the rows, which *)
(* module RowImage reads.                                                  *)
Rows(ev, f) ==
    LET data == Behind(ev, f.headerLength)
        typ == Type(ev)
        flags == TableIDLength(ev, f)
        count == readLenEncInt(data, flags + 2 + extraDataLength(data, flags + 2, typ))
        width == (count.value + 7) \div 8
        identify == count.next
        present == IF HasIdentify(typ) THEN identify + width ELSE identify
        rows == IF HasData(typ) THEN present + width ELSE present
    IN  IF ~Sized(f, typ) \/ fixedLength(flags, typ) > Len(data) THEN Overrun
        ELSE IF count = Failure THEN Failure
        ELSE IF rows > Len(data) THEN Overrun
        ELSE [flags |-> Unsigned(data, flags, 2), count |-> count.value,
              identify |-> Slice(data, identify, present - identify),
              present |-> Slice(data, present, rows - present),
              rows |-> Behind(data, rows)]
=============================================================================
