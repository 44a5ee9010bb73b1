------------------------------- MODULE Cells -------------------------------
(***************************************************************************)
(* The bytes of a column's value in a row event, as                        *)
(* replication/binlog_event_rbr.go reads them. Two functions know the      *)
(* format of every type: cellLength, with which Rows finds the end of a    *)
(* row, and CellBytes, with which the parser cuts the row and prints each  *)
(* value. A type has the name of its constant in replication/const.go, a   *)
(* byte is a number below 256, and a position is an index from 0 as in Go. *)
(* A printed value is a record of the numbers that are printed; the layout *)
(* of the text is left out, except for decimals, where it is at stake.     *)
(***************************************************************************)
EXTENDS Integers, Sequences

(* What a function returns in place of a length when it returns an error.  *)
Unsupported == -1

(* The two types whose numbers appear inside the metadata of TypeString.   *)
TypeEnum == 247
TypeSet == 248

Blobs == {"TypeTinyBlob", "TypeMediumBlob", "TypeLongBlob", "TypeBlob"}

-----------------------------------------------------------------------------
(* Numbers in consecutive bytes.                                           *)

(* A position behind the end has no byte: its value stands for nothing and *)
(* is never used, as the reader stops there.                               *)
Byte(data, pos) == IF pos \in 0 .. Len(data) - 1 THEN data[pos + 1] ELSE 0

Slice(data, pos, n) == SubSeq(data, pos + 1, pos + n)

BigEndian(data, pos, n) ==
    LET v[i \in 0 .. n] == IF i = 0 THEN 0 ELSE 256 * v[i - 1] + Byte(data, pos + i - 1)
    IN v[n]

(* Least significant byte first; a signed number is two's complement.      *)
LittleEndian(data, pos, n, signed) ==
    LET top == Byte(data, pos + n - 1)
        v[i \in 0 .. n - 1] ==
            IF i < n - 1 THEN Byte(data, pos + i) + 256 * v[i + 1]
            ELSE IF signed /\ top >= 128 THEN top - 256 ELSE top
    IN v[0]

Unsigned(data, pos, n) == LittleEndian(data, pos, n, FALSE)

(* Division and remainder of Go, which round towards zero.                 *)
GoDiv(a, b) == IF a < 0 THEN -((-a) \div b) ELSE a \div b
GoMod(a, b) == a - b * GoDiv(a, b)

-----------------------------------------------------------------------------
(* Lengths, from the type, the metadata and sometimes the first bytes.     *)

FixedLength ==
    [TypeNull |-> 0, TypeTiny |-> 1, TypeYear |-> 1, TypeShort |-> 2, TypeInt24 |-> 3,
     TypeLong |-> 4, TypeFloat |-> 4, TypeTimestamp |-> 4, TypeLongLong |-> 8,
     TypeDouble |-> 8, TypeDate |-> 3, TypeTime |-> 3, TypeNewDate |-> 3, TypeDateTime |-> 8]

(* Mutant: a byte more for TIME.                                           *)
WholeLengthLong == [TypeTimestamp2 |-> 4, TypeDateTime2 |-> 5, TypeTime2 |-> 4]

(* The whole part of a time; its fraction has two digits in a byte.        *)
WholeLength == [TypeTimestamp2 |-> 4, TypeDateTime2 |-> 5, TypeTime2 |-> 3]
FractionLength(metadata) == (metadata + 1) \div 2

(* A string is preceded by its length, in one byte if 255 is its maximum.  *)
PrefixLength(max) == IF max > 255 THEN 2 ELSE 1

(* The maximum of a CHAR: bits 8 and 9 are inverted in bits 12 and 13.     *)
StringMax(metadata) == 256 * (3 - ((metadata \div 4096) % 4)) + (metadata % 256)

BitLength(metadata) == ((metadata \div 256) * 8 + (metadata % 256) + 7) \div 8

(* Decimals have groups of nine digits in four bytes, outwards from the    *)
(* point, and a shorter group at either end.                               *)
dig2bytes == [digits \in 0 .. 9 |-> IF digits = 9 THEN 4 ELSE (digits + 1) \div 2]
Scale(metadata) == metadata % 256
WholeDigits(metadata) == metadata \div 256 - Scale(metadata)

DecimalLength(metadata) ==
    LET Bytes(digits) == (digits \div 9) * 4 + dig2bytes[digits % 9]
    IN Bytes(WholeDigits(metadata)) + Bytes(Scale(metadata))

(* Data behind its own length.                                             *)
PrefixedLength(data, pos, n) == n + Unsigned(data, pos, n)

cellLength(data, pos, typ, metadata) ==
    CASE typ \in DOMAIN FixedLength -> FixedLength[typ]
      [] typ \in {"TypeVarchar", "TypeVarString"} ->
            PrefixedLength(data, pos, PrefixLength(metadata))
      [] typ = "TypeBit" -> BitLength(metadata)
      [] typ \in DOMAIN WholeLength -> WholeLength[typ] + FractionLength(metadata)
      [] typ = "TypeNewDecimal" -> DecimalLength(metadata)
      [] typ \in {"TypeEnum", "TypeSet"} -> metadata % 256
      [] typ \in Blobs \cup {"TypeGeometry"} ->
            IF metadata \in 1 .. 4 THEN PrefixedLength(data, pos, metadata) ELSE Unsupported
      [] typ = "TypeString" ->
            IF metadata \div 256 \in {TypeEnum, TypeSet} THEN metadata % 256
            ELSE PrefixedLength(data, pos, PrefixLength(StringMax(metadata)))
      [] OTHER -> Unsupported

-----------------------------------------------------------------------------
(* Values. A cell is what is printed and how many bytes it took.           *)

Cell(value, length) == [value |-> value, length |-> length]
(* What is printed: a number, bytes as they are, or the parts of a time.   *)
Number(n) == [number |-> n]
Bytes(b) == [bytes |-> b]
Clock(parts) == [clock |-> parts]

(* A slice that is nil, which MarshalJSON and the callers take for NULL.   *)
Nil == [nil |-> TRUE]

Failed == Cell(Nil, Unsupported)

RawCell(data, pos, n) == Cell(Bytes(Slice(data, pos, n)), n)

PrefixedCell(data, pos, n) ==
    LET l == Unsigned(data, pos, n) IN Cell(Bytes(Slice(data, pos + n, l)), n + l)

IntegerCell(data, pos, n, isUnSignedInt) ==
    Cell(Number(LittleEndian(data, pos, n, ~isUnSignedInt)), n)

YearCell(data, pos) ==
    LET val == Byte(data, pos) IN Cell(Number(IF val = 0 THEN 0 ELSE val + 1900), 1)

DateCell(data, pos) ==
    LET val == Unsigned(data, pos, 3)
    IN Cell(Clock(<<val \div 512, (val \div 32) % 16, val % 32>>), 3)

(* The sign that is printed is the one of the hours.                       *)
TimeCell(data, pos) ==
    LET val == LittleEndian(data, pos, 3, TRUE)
        hour == GoDiv(val, 10000)
        minute == GoDiv(GoMod(val, 10000), 100)
        second == GoMod(val, 100)
        Positive(n) == IF val < 0 THEN -n ELSE n
    IN Cell(Clock(<<IF hour < 0 THEN 1 ELSE 0, Positive(hour), Positive(minute),
                    Positive(second)>>), 3)

(* Digits of a second: an odd number of them is stored as one more.        *)
Fraction(stored, metadata) == IF metadata % 2 = 1 THEN stored \div 10 ELSE stored

(* Without a precision from 1 to 6 nothing is read behind the whole part.  *)
WithFraction(data, pos, whole, n, metadata) ==
    IF metadata \in 1 .. 6
    THEN LET l == FractionLength(metadata)
         IN Cell(Clock(Append(whole, Fraction(BigEndian(data, pos + n, l), metadata))), n + l)
    ELSE Cell(Clock(whole), n)

Timestamp2Cell(data, pos, metadata) ==
    WithFraction(data, pos, <<BigEndian(data, pos, 4)>>, 4, metadata)

(* From the top: a bit that is set, 17 for year and month, 5 for the day,  *)
(* 5 for the hour, 6 for the minute and 6 for the second.                  *)
DateTime2Cell(data, pos, metadata) ==
    LET ymd == BigEndian(data, pos, 3) \div 2 - 4194304
        hms == (Byte(data, pos + 2) % 2) * 65536 + BigEndian(data, pos + 3, 2)
        ym == ymd \div 32
    IN WithFraction(data, pos,
                    <<ym \div 13, ym % 13, ymd % 32, hms \div 4096, (hms \div 64) % 64, hms % 64>>,
                    5, metadata)

(* The complement of a negative time with a fraction borrows a second.     *)
Borrows(negative, stored) == negative /\ stored # 0

Time2Cell(data, pos, metadata) ==
    LET l == FractionLength(metadata)
        whole == BigEndian(data, pos, 3) - 8388608
        stored == IF metadata \in 1 .. 6 THEN BigEndian(data, pos + 3, l) ELSE 0
        negative == whole < 0
        borrow == Borrows(negative, stored)
        hms == (IF negative THEN -whole ELSE whole) - (IF borrow THEN 1 ELSE 0)
        frac == IF borrow THEN 256 ^ l - stored ELSE stored
        sign == IF negative THEN 1 ELSE 0
        clock == <<sign, (hms \div 4096) % 1024, (hms \div 64) % 64, hms % 64>>
        printed == IF metadata \in 1 .. 6 THEN Append(clock, Fraction(frac, metadata)) ELSE clock
    IN Cell(Clock(printed), 3 + l)

(* The text of a decimal is the sign, the printed groups before the point, *)
(* whether blanks precede them, and the groups behind it. Zero groups at   *)
(* the head are left out; the first full group after them is printed with  *)
(* a width of nine and blanks, the others with zeros. An integer zero      *)
(* prints nothing: the buffer stays empty, and its Bytes are nil.          *)
Decimal(negative, whole, behind) == [negative |-> negative, whole |-> whole, behind |-> behind]

DecimalText(negative, ints, fracs, scale) ==
    LET nonzero == {i \in 1 .. Len(ints) : ints[i] > 0}
        first == CHOOSE i \in nonzero : \A j \in nonzero : i <= j
        printed == IF nonzero = {} THEN <<>> ELSE SubSeq(ints, first, Len(ints))
        blanks == nonzero # {} /\ first > 1 /\ ints[first] < 100000000
    IN  IF nonzero = {} /\ scale = 0 /\ ~negative THEN Nil
        ELSE [decimal |-> Decimal(negative, printed, fracs), blanks |-> blanks]

(* The first bit of a decimal is inverted, and all bits of a negative one. *)
WithoutSign(data, pos, n) ==
    [i \in 1 .. n |->
        LET b == IF i = 1 THEN (Byte(data, pos) + 128) % 256 ELSE Byte(data, pos + i - 1)
        IN  IF Byte(data, pos) < 128 THEN 255 - b ELSE b]

DecimalValue(negative, d, metadata) ==
    LET scale == Scale(metadata)
        head == dig2bytes[WholeDigits(metadata) % 9]
        intg0 == WholeDigits(metadata) \div 9
        frac0 == scale \div 9
        Groups(from, n0) == [i \in 1 .. n0 |-> BigEndian(d, from + 4 * (i - 1), 4)]
        Short(from, digits) == IF digits = 0 THEN <<>> ELSE <<BigEndian(d, from, dig2bytes[digits])>>
        ints == <<BigEndian(d, 0, head)>> \o Groups(head, intg0)
        point == head + 4 * intg0
        fracs == Groups(point, frac0) \o Short(point + 4 * frac0, scale % 9)
    IN DecimalText(negative, ints, fracs, scale)

DecimalCell(data, pos, metadata) ==
    LET n == DecimalLength(metadata)
    IN Cell(DecimalValue(Byte(data, pos) < 128, WithoutSign(data, pos, n), metadata), n)

EnumCell(data, pos, metadata) ==
    IF metadata % 256 \in {1, 2}
    THEN Cell(Number(Unsigned(data, pos, metadata % 256)), metadata % 256)
    ELSE Failed

(* CHAR, and the numbers of the members of an ENUM or a SET.               *)
StringCell(data, pos, metadata) ==
    CASE metadata \div 256 = TypeEnum -> EnumCell(data, pos, metadata)
      [] metadata \div 256 = TypeSet ->
            Cell(Number(IF metadata % 256 = 0 THEN 0
                        ELSE Unsigned(data, pos, metadata % 256)), metadata % 256)
      [] OTHER -> PrefixedCell(data, pos, PrefixLength(StringMax(metadata)))

(* Floats, and the decimal digits of a DATETIME of before MySQL 5.6, are   *)
(* handed on as their bytes: their text is not modelled.                   *)
CellBytes(data, pos, typ, metadata, isUnSignedInt) ==
    CASE typ = "TypeTiny" -> IntegerCell(data, pos, 1, isUnSignedInt)
      [] typ = "TypeShort" -> IntegerCell(data, pos, 2, isUnSignedInt)
      [] typ = "TypeInt24" -> IntegerCell(data, pos, 3, isUnSignedInt)
      [] typ = "TypeLong" -> IntegerCell(data, pos, 4, isUnSignedInt)
      [] typ = "TypeLongLong" -> IntegerCell(data, pos, 8, isUnSignedInt)
      [] typ = "TypeYear" -> YearCell(data, pos)
      [] typ = "TypeFloat" -> RawCell(data, pos, 4)
      [] typ \in {"TypeDouble", "TypeDateTime"} -> RawCell(data, pos, 8)
      [] typ = "TypeTimestamp" -> Cell(Number(Unsigned(data, pos, 4)), 4)
      [] typ \in {"TypeDate", "TypeNewDate"} -> DateCell(data, pos)
      [] typ = "TypeTime" -> TimeCell(data, pos)
      [] typ \in {"TypeVarchar", "TypeVarString"} ->
            PrefixedCell(data, pos, PrefixLength(metadata))
      [] typ = "TypeBit" -> RawCell(data, pos, BitLength(metadata))
      [] typ = "TypeTimestamp2" -> Timestamp2Cell(data, pos, metadata)
      [] typ = "TypeDateTime2" -> DateTime2Cell(data, pos, metadata)
      [] typ = "TypeTime2" -> Time2Cell(data, pos, metadata)
      [] typ = "TypeNewDecimal" -> DecimalCell(data, pos, metadata)
      [] typ = "TypeEnum" -> EnumCell(data, pos, metadata)
      [] typ = "TypeSet" -> RawCell(data, pos, metadata % 256)
      [] typ \in Blobs \cup {"TypeGeometry"} ->
            IF metadata \in 1 .. 4 THEN PrefixedCell(data, pos, metadata) ELSE Failed
      [] typ = "TypeString" -> StringCell(data, pos, metadata)
      [] OTHER -> Failed

-----------------------------------------------------------------------------
(* Metadata of a column in a TABLE_MAP event.                              *)

MetadataWidth(typ) ==
    CASE typ \in {"TypeDecimal", "TypeTiny", "TypeShort", "TypeLong", "TypeNull",
                  "TypeTimestamp", "TypeLongLong", "TypeInt24", "TypeDate", "TypeTime",
                  "TypeDateTime", "TypeYear", "TypeNewDate"} -> 0
      [] typ \in {"TypeFloat", "TypeDouble", "TypeTimestamp2", "TypeDateTime2", "TypeTime2",
                  "TypeGeometry"} \cup Blobs -> 1
      [] typ \in {"TypeNewDecimal", "TypeEnum", "TypeSet", "TypeString",
                  "TypeVarchar", "TypeBit", "TypeVarString"} -> 2
      [] OTHER -> Unsupported

(* The first types of two bytes have the more significant one first.       *)
metadataRead(data, pos, typ) ==
    LET n == MetadataWidth(typ)
    IN  IF typ \in {"TypeNewDecimal", "TypeEnum", "TypeSet", "TypeString"}
        THEN BigEndian(data, pos, n)
        ELSE IF n > 0 THEN Unsigned(data, pos, n) ELSE 0
=============================================================================
