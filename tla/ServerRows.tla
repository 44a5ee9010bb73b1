---------------------------- MODULE ServerRows -----------------------------
(***************************************************************************)
(* What the master writes: the metadata of a TABLE_MAP event and the       *)
(* payload of a rows event behind the column count. The master is not part *)
(* of the repository; the formats are the ones that cellLength, CellBytes, *)
(* Rows and metadataRead expect, written from their side and without their *)
(* tables.                                                                 *)
(*                                                                         *)
(* A column is a record of its type, its metadata, the maximal length of   *)
(* its values in bytes where they have one, and whether the application    *)
(* knows it as unsigned. An event is a record of                           *)
(*   columns    the columns of the table                                   *)
(*   kind       insert, update or delete                                   *)
(*   present    for each image of a row the columns it contains            *)
(*   rows       for each row and image the cells of these columns          *)
(*   spare      the value of the bits of a bitmap that stand for nothing   *)
(*   described  how many columns the application believes the table has    *)
(***************************************************************************)
EXTENDS Cells, SequencesExt

(* The images of a row, in the order in which they are written.            *)
Images(kind) ==
    CASE kind = "insert" -> <<"data">>
      [] kind = "delete" -> <<"identify">>
      [] kind = "update" -> <<"identify", "data">>

Null == [is |-> "null"]
Empty == [is |-> "empty"]
Value(v) == [is |-> "value", value |-> v]

-----------------------------------------------------------------------------
(* Bytes of a number, the least or the most significant one first; the     *)
(* division rounds down, so that negative numbers become two's complement. *)
Quotients(v, n) == LET q[i \in 1 .. n] == IF i = 1 THEN v ELSE q[i - 1] \div 256 IN q
LeastFirst(v, n) == LET q == Quotients(v, n) IN [i \in 1 .. n |-> q[i] % 256]

(* A number fits into so many bytes if the last quotient is a byte.        *)
HasBytes(v, n, signed) ==
    v \in Int /\ Quotients(v, n)[n] \in IF signed THEN -128 .. 127 ELSE 0 .. 255

MostFirst(v, n) == Reverse(LeastFirst(v, n))

ClockBits(h, m, s) == h * 4096 + m * 64 + s

(* The stored fraction has an even number of digits, two in a byte.        *)
HalfOf(digits) == IF digits % 2 = 1 THEN digits \div 2 + 1 ELSE digits \div 2
Even(fraction, metadata) == IF metadata % 2 = 1 THEN fraction * 10 ELSE fraction
FractionBytes(v, at, metadata) ==
    IF metadata = 0 THEN <<>>
    ELSE MostFirst(Even(v[at], metadata), HalfOf(metadata))

TimeBytes(v) ==
    LET n == v[2] * 10000 + v[3] * 100 + v[4] IN LeastFirst(IF v[1] = 1 THEN -n ELSE n, 3)

DateTime2Bytes(v, metadata) ==
    LET ymd == (v[1] * 13 + v[2]) * 32 + v[3] + 4194304
        hms == ClockBits(v[4], v[5], v[6])
    IN  MostFirst(ymd * 2 + hms \div 65536, 3) \o MostFirst(hms % 65536, 2)
            \o FractionBytes(v, 7, metadata)

(* Whole seconds and fraction are one number; a negative one is stored as  *)
(* its complement.                                                         *)
Time2Bytes(v, metadata) ==
    LET l == HalfOf(metadata)
        hms == ClockBits(v[2], v[3], v[4])
        fraction == IF metadata = 0 THEN 0 ELSE Even(v[5], metadata)
        borrow == fraction > 0
    IN  IF v[1] = 0
        THEN MostFirst(8388608 + hms, 3) \o MostFirst(fraction, l)
        ELSE MostFirst(8388608 - hms - (IF borrow THEN 1 ELSE 0), 3)
                \o MostFirst(IF borrow THEN 256 ^ l - fraction ELSE 0, l)

(* A decimal is its sign, its groups before the point from the first that  *)
(* is not zero, and its groups behind the point.                           *)
GroupBytes == <<1, 1, 2, 2, 3, 3, 4, 4>>
DecimalBytes(v, metadata) ==
    LET scale == metadata % 256
        whole == metadata \div 256 - scale
        zeros == [i \in 1 .. 1 + whole \div 9 - Len(v.whole) |-> 0]
        ints == zeros \o v.whole
        Group(g) == MostFirst(g, 4)
        Part(g, digits) == IF digits = 0 THEN <<>> ELSE MostFirst(g, GroupBytes[digits])
        head == Part(ints[1], whole % 9)
        full == scale \div 9
        tail == IF scale % 9 = 0 THEN <<>> ELSE Part(v.behind[full + 1], scale % 9)
        d == head \o FlattenSeq([i \in 1 .. whole \div 9 |-> Group(ints[i + 1])])
                  \o FlattenSeq([i \in 1 .. full |-> Group(v.behind[i])]) \o tail
        Mask(b) == IF v.negative THEN 255 - b ELSE b
    IN  [i \in 1 .. Len(d) |-> IF i = 1 THEN (Mask(d[i]) + 128) % 256 ELSE Mask(d[i])]

IntegerBytes == [TypeTiny |-> 1, TypeShort |-> 2, TypeInt24 |-> 3, TypeLong |-> 4,
                 TypeTimestamp |-> 4, TypeLongLong |-> 8]

(* A length and so many bytes; the length has two bytes if 255 is not the  *)
(* maximum. The maximum of a CHAR is part of its metadata, with bits 8 and *)
(* 9 inverted inside the number of the type, 254.                          *)
Prefix(bytes, n) == LeastFirst(Len(bytes), n) \o bytes
Text(bytes, max) == Prefix(bytes, IF max <= 255 THEN 1 ELSE 2)
CharMetadata(max) == 256 * (254 - 16 * (max \div 256)) + (max % 256)

CellOf(column, v) ==
    LET typ == column.type
        metadata == column.metadata
    IN  CASE typ \in DOMAIN IntegerBytes -> LeastFirst(v.number, IntegerBytes[typ])
          [] typ = "TypeYear" -> <<IF v.number = 0 THEN 0 ELSE v.number - 1900>>
          [] typ \in {"TypeFloat", "TypeDouble", "TypeDateTime", "TypeBit"} -> v.bytes
          [] typ = "TypeDate" -> LeastFirst(v.clock[1] * 512 + v.clock[2] * 32 + v.clock[3], 3)
          [] typ = "TypeTime" -> TimeBytes(v.clock)
          [] typ = "TypeTimestamp2" -> MostFirst(v.clock[1], 4) \o FractionBytes(v.clock, 2, metadata)
          [] typ = "TypeDateTime2" -> DateTime2Bytes(v.clock, metadata)
          [] typ = "TypeTime2" -> Time2Bytes(v.clock, metadata)
          [] typ = "TypeNewDecimal" -> DecimalBytes(v, metadata)
          [] typ \in {"TypeVarchar", "TypeVarString"} -> Text(v.bytes, column.max)
          [] typ \in {"TypeBlob", "TypeGeometry", "TypeJSON"} -> Prefix(v.bytes, metadata)
          [] typ = "TypeString" ->
                IF column.max = 0 THEN LeastFirst(v.number, metadata % 256)
                ELSE Text(v.bytes, column.max)

-----------------------------------------------------------------------------
(* Events.                                                                 *)

MetadataOf(column) ==
    CASE column.type \in {"TypeNewDecimal", "TypeString"} -> MostFirst(column.metadata, 2)
      [] column.type \in {"TypeVarchar", "TypeBit", "TypeVarString"} ->
            LeastFirst(column.metadata, 2)
      [] column.type \in {"TypeFloat", "TypeDouble", "TypeTimestamp2", "TypeDateTime2",
                         "TypeTime2", "TypeBlob", "TypeGeometry", "TypeJSON"} ->
            <<column.metadata>>
      [] OTHER -> <<>>

MetadataBlock(columns) == FlattenSeq([c \in 1 .. Len(columns) |-> MetadataOf(columns[c])])

(* Bit i of a bitmap is bit i % 8 of byte i \div 8. The first n stand for  *)
(* something.                                                              *)
IsOn(set, n, spare, i) == IF i < n THEN i \in set ELSE spare
BitmapByte(set, n, spare, k) ==
    LET w[i \in 0 .. 8] ==
            IF i = 0 THEN 0
            ELSE w[i - 1] + (IF IsOn(set, n, spare, 8 * k + i - 1) THEN 2 ^ (i - 1) ELSE 0)
    IN w[8]
BitmapBytes(set, n, spare) ==
    [k \in 1 .. (n + 7) \div 8 |-> BitmapByte(set, n, spare, k - 1)]

(* The bitmap of the cells that are NULL, counted among those that are     *)
(* present, and the others.                                                *)
Before(present, c) == Cardinality({k \in present : k < c})
CellAt(event, image, cells, c) ==
    IF c \notin event.present[image] \/ cells[c] = Null THEN <<>>
    ELSE CellOf(event.columns[c], cells[c].value)
ImageBytes(event, image, cells) ==
    LET present == event.present[image]
        nulls == {Before(present, c) : c \in {k \in present : cells[k] = Null}}
    IN  BitmapBytes(nulls, Cardinality(present), event.spare)
            \o FlattenSeq([c \in 1 .. Len(event.columns) |-> CellAt(event, image, cells, c)])

Presence(event, image) ==
    BitmapBytes({c - 1 : c \in event.present[image]}, Len(event.columns), event.spare)
RowBytes(event, row) ==
    LET images == Images(event.kind)
    IN  FlattenSeq([k \in 1 .. Len(images) |-> ImageBytes(event, images[k], row[images[k]])])
Payload(event) ==
    LET images == Images(event.kind)
    IN  FlattenSeq([k \in 1 .. Len(images) |-> Presence(event, images[k])])
            \o FlattenSeq([n \in 1 .. Len(event.rows) |-> RowBytes(event, event.rows[n])])
=============================================================================
