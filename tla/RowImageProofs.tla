--------------------------- MODULE RowImageProofs --------------------------
(***************************************************************************)
(* Proofs about the rows events. First, for any event and any bytes: the   *)
(* two functions that know how long a value is agree, and the walk of Rows *)
(* and the cut of getValuesFromRow come to the same end of every image.    *)
(* Then, for the events of which each single value is read from its own    *)
(* bytes as it was written (Understood): whatever columns, bitmaps, images *)
(* and rows are put together, every column of every row is delivered with  *)
(* what the master wrote, without an error. Last, that integers and texts  *)
(* are read from their own bytes, whatever they are.                       *)
(***************************************************************************)
EXTENDS RowImage, SequenceTheorems, FiniteSetTheorems, TLAPS

-----------------------------------------------------------------------------
(* The lengths of cells.                                                   *)

(* The types of the cases of CellBytes, by the form of the value.          *)
IntegerTypes == {"TypeTiny", "TypeShort", "TypeInt24", "TypeLong", "TypeLongLong"}
OtherFixedTypes == {"TypeYear", "TypeFloat", "TypeDouble", "TypeDateTime", "TypeTimestamp",
               "TypeDate", "TypeNewDate", "TypeTime"}
FractionalTypes == {"TypeTimestamp2", "TypeDateTime2", "TypeTime2"}
PrefixedTypes == {"TypeVarchar", "TypeVarString"} \cup Blobs \cup {"TypeGeometry"}
PackedTypes == {"TypeBit", "TypeNewDecimal", "TypeEnum", "TypeSet"}
CellTypes == IntegerTypes \cup OtherFixedTypes \cup FractionalTypes \cup PrefixedTypes
                \cup PackedTypes \cup {"TypeString"}

(* What the two functions are for each type.                               *)
LEMMA CellBytesOfType ==
    ASSUME NEW bytes, NEW from, NEW meta, NEW isUnSignedInt
    PROVE  LET Of(type) == CellBytes(bytes, from, type, meta, isUnSignedInt)
           IN  /\ Of("TypeTiny") = IntegerCell(bytes, from, 1, isUnSignedInt)
               /\ Of("TypeShort") = IntegerCell(bytes, from, 2, isUnSignedInt)
               /\ Of("TypeInt24") = IntegerCell(bytes, from, 3, isUnSignedInt)
               /\ Of("TypeLong") = IntegerCell(bytes, from, 4, isUnSignedInt)
               /\ Of("TypeLongLong") = IntegerCell(bytes, from, 8, isUnSignedInt)
               /\ Of("TypeYear") = YearCell(bytes, from)
               /\ Of("TypeFloat") = RawCell(bytes, from, 4)
               /\ Of("TypeDouble") = RawCell(bytes, from, 8)
               /\ Of("TypeDateTime") = RawCell(bytes, from, 8)
               /\ Of("TypeTimestamp") = Cell(Number(Unsigned(bytes, from, 4)), 4)
               /\ Of("TypeDate") = DateCell(bytes, from)
               /\ Of("TypeNewDate") = DateCell(bytes, from)
               /\ Of("TypeTime") = TimeCell(bytes, from)
               /\ Of("TypeVarchar") = PrefixedCell(bytes, from, PrefixLength(meta))
               /\ Of("TypeVarString") = PrefixedCell(bytes, from, PrefixLength(meta))
               /\ Of("TypeBit") = RawCell(bytes, from, BitLength(meta))
               /\ Of("TypeTimestamp2") = Timestamp2Cell(bytes, from, meta)
               /\ Of("TypeDateTime2") = DateTime2Cell(bytes, from, meta)
               /\ Of("TypeTime2") = Time2Cell(bytes, from, meta)
               /\ Of("TypeNewDecimal") = DecimalCell(bytes, from, meta)
               /\ Of("TypeEnum") = EnumCell(bytes, from, meta)
               /\ Of("TypeSet") = RawCell(bytes, from, meta % 256)
               /\ Of("TypeString") = StringCell(bytes, from, meta)
BY ZenonT(120) DEF CellBytes, Blobs

LEMMA CellBytesOfBlob ==
    ASSUME NEW bytes, NEW from, NEW meta, NEW isUnSignedInt,
           NEW type \in Blobs \cup {"TypeGeometry"}
    PROVE  CellBytes(bytes, from, type, meta, isUnSignedInt)
              = IF meta \in 1 .. 4 THEN PrefixedCell(bytes, from, meta) ELSE Failed
BY ZenonT(60) DEF CellBytes, Blobs

LEMMA Domains ==
    /\ DOMAIN FixedLength = {"TypeNull"} \cup IntegerTypes \cup OtherFixedTypes
    /\ DOMAIN WholeLength = FractionalTypes
BY DEF FixedLength, IntegerTypes, OtherFixedTypes, WholeLength, FractionalTypes

LEMMA cellLengthOfFixed ==
    ASSUME NEW bytes, NEW from, NEW meta, NEW type \in IntegerTypes \cup OtherFixedTypes
    PROVE  cellLength(bytes, from, type, meta) = FixedLength[type]
BY Domains, ZenonT(60) DEF cellLength, IntegerTypes, OtherFixedTypes, FractionalTypes, Blobs

LEMMA cellLengthOfFractional ==
    ASSUME NEW bytes, NEW from, NEW meta, NEW type \in FractionalTypes
    PROVE  cellLength(bytes, from, type, meta) = WholeLength[type] + FractionLength(meta)
BY Domains, ZenonT(60) DEF cellLength, IntegerTypes, OtherFixedTypes, FractionalTypes, Blobs

LEMMA cellLengthOfBlob ==
    ASSUME NEW bytes, NEW from, NEW meta, NEW type \in Blobs \cup {"TypeGeometry"}
    PROVE  cellLength(bytes, from, type, meta)
              = IF meta \in 1 .. 4 THEN PrefixedLength(bytes, from, meta) ELSE Unsupported
BY Domains, ZenonT(60) DEF cellLength, IntegerTypes, OtherFixedTypes, FractionalTypes, Blobs

LEMMA cellLengthOfType ==
    ASSUME NEW bytes, NEW from, NEW meta
    PROVE  LET Of(type) == cellLength(bytes, from, type, meta)
               string == PrefixedLength(bytes, from, PrefixLength(StringMax(meta)))
           IN  /\ Of("TypeVarchar") = PrefixedLength(bytes, from, PrefixLength(meta))
               /\ Of("TypeVarString") = PrefixedLength(bytes, from, PrefixLength(meta))
               /\ Of("TypeBit") = BitLength(meta)
               /\ Of("TypeNewDecimal") = DecimalLength(meta)
               /\ Of("TypeEnum") = meta % 256
               /\ Of("TypeSet") = meta % 256
               /\ Of("TypeString") = IF meta \div 256 \in {TypeEnum, TypeSet}
                                     THEN meta % 256 ELSE string
BY Domains, ZenonT(120) DEF cellLength, IntegerTypes, OtherFixedTypes, FractionalTypes, Blobs

LEMMA FixedLengthsAgree ==
    ASSUME NEW bytes, NEW from, NEW type \in IntegerTypes \cup OtherFixedTypes, NEW meta,
           NEW isUnSignedInt
    PROVE  CellBytes(bytes, from, type, meta, isUnSignedInt).length
              = cellLength(bytes, from, type, meta)
<1>1. cellLength(bytes, from, type, meta) = FixedLength[type]
  BY cellLengthOfFixed
<1>2. CASE type \in IntegerTypes
  <2>1. \A n : IntegerCell(bytes, from, n, isUnSignedInt).length = n
    BY DEF IntegerCell, Cell
  <2> QED
    BY <1>1, <1>2, <2>1, CellBytesOfType DEF IntegerTypes, FixedLength
<1>3. CASE type \in OtherFixedTypes
  <2>1. /\ \A n : RawCell(bytes, from, n).length = n
        /\ \A v, n : Cell(v, n).length = n
        /\ YearCell(bytes, from).length = 1
        /\ DateCell(bytes, from).length = 3
        /\ TimeCell(bytes, from).length = 3
    BY DEF RawCell, YearCell, DateCell, TimeCell, Cell
  <2> QED
    BY <1>1, <1>3, <2>1, CellBytesOfType DEF OtherFixedTypes, FixedLength
<1> QED
  BY <1>2, <1>3

LEMMA WithFractionLength ==
    ASSUME NEW bytes, NEW from, NEW whole, NEW n \in Nat, NEW meta \in 0 .. 6
    PROVE  WithFraction(bytes, from, whole, n, meta).length = n + FractionLength(meta)
<1>1. CASE meta = 0
  BY <1>1 DEF WithFraction, Cell, FractionLength
<1>2. CASE meta \in 1 .. 6
  BY <1>2 DEF WithFraction, Cell
<1> QED
  BY <1>1, <1>2

LEMMA FractionalLengthsAgree ==
    ASSUME NEW bytes, NEW from, NEW type \in FractionalTypes, NEW meta, NEW isUnSignedInt,
           Precise(type, meta)
    PROVE  CellBytes(bytes, from, type, meta, isUnSignedInt).length
              = cellLength(bytes, from, type, meta)
<1>1. cellLength(bytes, from, type, meta) = WholeLength[type] + FractionLength(meta)
  BY cellLengthOfFractional
<1>2. CASE type = "TypeTimestamp2"
  <2>1. Timestamp2Cell(bytes, from, meta).length = 4 + FractionLength(meta)
    BY <1>2, WithFractionLength DEF Timestamp2Cell, Precise
  <2>2. CellBytes(bytes, from, type, meta, isUnSignedInt) = Timestamp2Cell(bytes, from, meta)
    BY <1>2, CellBytesOfType
  <2> QED
    BY <1>1, <1>2, <2>1, <2>2 DEF WholeLength
<1>3. CASE type = "TypeDateTime2"
  <2>1. DateTime2Cell(bytes, from, meta).length = 5 + FractionLength(meta)
    BY <1>3, WithFractionLength DEF DateTime2Cell, Precise
  <2>2. CellBytes(bytes, from, type, meta, isUnSignedInt) = DateTime2Cell(bytes, from, meta)
    BY <1>3, CellBytesOfType
  <2> QED
    BY <1>1, <1>3, <2>1, <2>2 DEF WholeLength
<1>4. CASE type = "TypeTime2"
  <2>1. Time2Cell(bytes, from, meta).length = 3 + FractionLength(meta)
    BY DEF Time2Cell, Cell
  <2>2. CellBytes(bytes, from, type, meta, isUnSignedInt) = Time2Cell(bytes, from, meta)
    BY <1>4, CellBytesOfType
  <2> QED
    BY <1>1, <1>4, <2>1, <2>2 DEF WholeLength
<1> QED
  BY <1>2, <1>3, <1>4 DEF FractionalTypes

LEMMA PrefixedLengthsAgree ==
    ASSUME NEW bytes, NEW from, NEW type \in PrefixedTypes, NEW meta, NEW isUnSignedInt
    PROVE  CellBytes(bytes, from, type, meta, isUnSignedInt).length
              = cellLength(bytes, from, type, meta)
<1>1. \A n : PrefixedCell(bytes, from, n).length = PrefixedLength(bytes, from, n)
  BY DEF PrefixedCell, PrefixedLength, Cell
<1>2. CASE type \in {"TypeVarchar", "TypeVarString"}
  BY <1>1, <1>2, CellBytesOfType, cellLengthOfType
<1>3. CASE type \in Blobs \cup {"TypeGeometry"}
  BY <1>1, <1>3, CellBytesOfBlob, cellLengthOfBlob DEF Failed, Cell
<1> QED
  BY <1>2, <1>3 DEF PrefixedTypes

LEMMA EnumLength ==
    ASSUME NEW bytes, NEW from, NEW meta, EnumCell(bytes, from, meta).length # Unsupported
    PROVE  EnumCell(bytes, from, meta).length = meta % 256
BY DEF EnumCell, Cell, Failed

LEMMA PackedLengthsAgree ==
    ASSUME NEW bytes, NEW from, NEW type \in PackedTypes, NEW meta, NEW isUnSignedInt,
           CellBytes(bytes, from, type, meta, isUnSignedInt).length # Unsupported
    PROVE  CellBytes(bytes, from, type, meta, isUnSignedInt).length
              = cellLength(bytes, from, type, meta)
<1>1. CASE type \in {"TypeBit", "TypeSet"}
  <2>1. \A n : RawCell(bytes, from, n).length = n
    BY DEF RawCell, Cell
  <2> QED
    BY <1>1, <2>1, CellBytesOfType, cellLengthOfType
<1>2. CASE type = "TypeNewDecimal"
  <2>1. DecimalCell(bytes, from, meta).length = DecimalLength(meta)
    BY DEF DecimalCell, Cell
  <2> QED
    BY <1>2, <2>1, CellBytesOfType, cellLengthOfType
<1>3. CASE type = "TypeEnum"
  BY <1>3, CellBytesOfType, cellLengthOfType, EnumLength
<1> QED
  BY <1>1, <1>2, <1>3 DEF PackedTypes

LEMMA StringLengthsAgree ==
    ASSUME NEW bytes, NEW from, NEW meta,
           StringCell(bytes, from, meta).length # Unsupported
    PROVE  StringCell(bytes, from, meta).length = cellLength(bytes, from, "TypeString", meta)
<1> DEFINE length == cellLength(bytes, from, "TypeString", meta)
<1>1. length = IF meta \div 256 \in {TypeEnum, TypeSet} THEN meta % 256
               ELSE PrefixedLength(bytes, from, PrefixLength(StringMax(meta)))
  BY cellLengthOfType
<1>2. CASE meta \div 256 = TypeEnum
  <2>1. StringCell(bytes, from, meta) = EnumCell(bytes, from, meta)
    BY <1>2 DEF StringCell, TypeEnum, TypeSet
  <2> QED
    BY <1>1, <1>2, <2>1, EnumLength
<1>3. CASE meta \div 256 = TypeSet
  BY <1>1, <1>3 DEF StringCell, Cell, TypeEnum, TypeSet
<1>4. CASE meta \div 256 \notin {TypeEnum, TypeSet}
  BY <1>1, <1>4 DEF StringCell, PrefixedCell, PrefixedLength, Cell
<1> QED
  BY <1>2, <1>3, <1>4

(* Whenever CellBytes can cut a value out of some bytes, cellLength skips  *)
(* exactly as many bytes when Rows looks for the end of the row, for every *)
(* type and content. The precision is needed: with more than six decimals  *)
(* a TIMESTAMP or DATETIME is cut shorter than it is skipped.              *)
THEOREM LengthsAgree ==
    ASSUME NEW bytes, NEW from, NEW type, NEW meta, NEW isUnSignedInt,
           Precise(type, meta),
           CellBytes(bytes, from, type, meta, isUnSignedInt).length # Unsupported
    PROVE  CellBytes(bytes, from, type, meta, isUnSignedInt).length
              = cellLength(bytes, from, type, meta)
<1>1. CASE type \in IntegerTypes \cup OtherFixedTypes
  BY <1>1, FixedLengthsAgree
<1>2. CASE type \in FractionalTypes
  BY <1>2, FractionalLengthsAgree
<1>3. CASE type \in PrefixedTypes
  BY <1>3, PrefixedLengthsAgree
<1>4. CASE type \in PackedTypes
  BY <1>4, PackedLengthsAgree
<1>5. CASE type = "TypeString"
  BY <1>5, CellBytesOfType, StringLengthsAgree
<1>6. CASE type \notin CellTypes
  <2>1. CellBytes(bytes, from, type, meta, isUnSignedInt) = Failed
    BY <1>6, Zenon DEF CellBytes, CellTypes, IntegerTypes, OtherFixedTypes, FractionalTypes,
                       PrefixedTypes, PackedTypes, Blobs
  <2> QED
    BY <2>1 DEF Failed, Cell
<1> QED
  BY <1>1, <1>2, <1>3, <1>4, <1>5, <1>6 DEF CellTypes

-----------------------------------------------------------------------------
(* The walk and the cut.                                                   *)

(* What is assumed of the master: once TableMap has read the metadata, no  *)
(* column has more than six decimals of a second.                          *)
AllPrecise ==
    pc # "metadata" => \A k \in 1 .. columnCount : Precise(event.columns[k].type, metadata[k])

-----------------------------------------------------------------------------
(* Paths. A place is a position in data and an index among the values that *)
(* are present; both loops, over the columns of image i with these null    *)
(* bits, go from place to place.                                           *)

Moves(i, nulls, k, a, b) ==
    LET found == Bit(present[i], k - 1)
        skipped == ~found \/ Bit(nulls, a.index)
    IN  /\ b.index = IF found THEN a.index + 1 ELSE a.index
        /\ b.pos = a.pos + (IF skipped THEN 0
                            ELSE cellLength(data, a.pos, event.columns[k].type, metadata[k]))

Path(p, i, slice, n) ==
    /\ p[1] = [pos |-> slice.from, index |-> 0]
    /\ \A k \in 1 .. n - 1 : Moves(i, slice.nulls, k, p[k], p[k + 1])

Here == [pos |-> pos, index |-> valueIndex]

(* Image i has been walked from slice.from to slice.to.                    *)
Walked(i, slice) ==
    \E p : Path(p, i, slice, columnCount + 1) /\ p[columnCount + 1].pos = slice.to

-----------------------------------------------------------------------------
(* The invariant.                                                          *)

IsSequence(s) == s \in Seq({s[i] : i \in DOMAIN s})
IsSlice(s) == s = [nulls |-> s.nulls, from |-> s.from, to |-> s.to]

Counted ==
    /\ columnCount \in Nat /\ Len(images) \in Nat \ {0}
    /\ c \in Nat \ {0} /\ image \in Nat \ {0} /\ r \in Nat \ {0}
    /\ pc \in {"skip", "cut"} => c <= columnCount + 1
    /\ pc \in {"nulls", "skip", "deliver", "cut"} => image <= Len(images)

Unread == pc \in {"metadata", "presence"} => rows = <<>>

(* Every image of every row that Rows has finished.                        *)
RowsWalked ==
    /\ IsSequence(rows)
    /\ \A n \in 1 .. Len(rows) :
           /\ Len(rows[n]) = Len(images)
           /\ \A i \in 1 .. Len(images) : Walked(i, rows[n][i])

(* The images of the current row: those before the current one.            *)
RowWalked ==
    /\ IsSequence(row)
    /\ pc = "nulls" => Len(row) = image - 1
    /\ pc = "skip" => Len(row) = image
    /\ pc \in {"nulls", "skip"} => \A i \in 1 .. image - 1 : Walked(i, row[i])

OnWalk ==
    pc = "skip" =>
        /\ IsSlice(row[image])
        /\ \E p : Path(p, image, row[image], c) /\ p[c] = Here

(* The cut is somewhere on the path of the walk.                           *)
OnCut ==
    pc = "cut" =>
        /\ r <= Len(rows)
        /\ \E p : /\ Path(p, image, rows[r][image], columnCount + 1)
                  /\ p[columnCount + 1].pos = rows[r][image].to
                  /\ p[c].pos = pos /\ p[c].index = valueIndex

IInv == Counted /\ Unread /\ RowsWalked /\ RowWalked /\ OnWalk /\ OnCut

-----------------------------------------------------------------------------
(* Sequences of anything.                                                  *)

LEMMA EmptyIsSequence == IsSequence(<<>>) /\ Len(<<>>) = 0
BY DEF IsSequence

LEMMA ElementsOf ==
    ASSUME NEW S, NEW t \in Seq(S)
    PROVE  IsSequence(t)
<1> DEFINE T == {t[i] : i \in DOMAIN t}
<1>1. DOMAIN t = 1 .. Len(t) /\ Len(t) \in Nat /\ t = [i \in 1 .. Len(t) |-> t[i]]
  OBVIOUS
<1>2. t \in Seq(T)
  BY <1>1
<1> QED
  BY <1>2 DEF IsSequence

LEMMA AppendIsSequence ==
    ASSUME NEW s, IsSequence(s), NEW e
    PROVE  /\ IsSequence(Append(s, e))
           /\ Len(s) \in Nat /\ Len(Append(s, e)) = Len(s) + 1
           /\ \A i \in 1 .. Len(s) : Append(s, e)[i] = s[i]
           /\ Append(s, e)[Len(s) + 1] = e
<1> DEFINE S == {s[i] : i \in DOMAIN s} \cup {e}
           t == Append(s, e)
<1>1. s \in Seq(S) /\ e \in S
  BY DEF IsSequence
<1>2. /\ t \in Seq(S)
      /\ Len(s) \in Nat /\ Len(t) = Len(s) + 1
      /\ \A i \in 1 .. Len(s) : t[i] = s[i]
      /\ t[Len(s) + 1] = e
  <2> HIDE DEF S
  <2> QED
    BY <1>1
<1> QED
  BY <1>2, ElementsOf

(* A row whose image i ends at v.                                          *)
EndsAt(s, i, v) == [s EXCEPT ![i].to = v]

LEMMA EndsAtIsSequence ==
    ASSUME NEW s, IsSequence(s), NEW i \in 1 .. Len(s), IsSlice(s[i]), NEW v,
           NEW t, t = EndsAt(s, i, v)
    PROVE  /\ IsSequence(t) /\ Len(t) = Len(s)
           /\ \A j \in 1 .. Len(s) : j # i => t[j] = s[j]
           /\ t[i] = [nulls |-> s[i].nulls, from |-> s[i].from, to |-> v]
<1> DEFINE e == [nulls |-> s[i].nulls, from |-> s[i].from, to |-> v]
           S == {s[j] : j \in DOMAIN s} \cup {e}
<1>1. s \in Seq(S) /\ e \in S
  BY DEF IsSequence
<1>2. [s[i] EXCEPT !.to = v] = e
  BY DEF IsSlice
<1>3. t = [s EXCEPT ![i] = e]
  BY <1>2 DEF EndsAt
<1>4. /\ t \in Seq(S) /\ Len(t) = Len(s)
      /\ \A j \in 1 .. Len(s) : t[j] = IF j = i THEN e ELSE s[j]
  <2> HIDE DEF S, e
  <2> QED
    BY <1>1, <1>3, ExceptSeq
<1> QED
  BY <1>4, ElementsOf

-----------------------------------------------------------------------------
(* Paths grow, and stay what they are once the presence bitmaps are read.  *)

LEMMA PathGrows ==
    ASSUME NEW p, NEW i, NEW slice, NEW n \in Nat \ {0}, Path(p, i, slice, n),
           NEW b, Moves(i, slice.nulls, n, p[n], b)
    PROVE  \E q : Path(q, i, slice, n + 1) /\ q[n + 1] = b
<1> DEFINE q == [k \in 1 .. n + 1 |-> IF k <= n THEN p[k] ELSE b]
<1>1. /\ \A k \in 1 .. n : q[k] = p[k]
      /\ q[n + 1] = b
  OBVIOUS
<1> HIDE DEF q
<1>2. q[1] = [pos |-> slice.from, index |-> 0]
  BY <1>1 DEF Path
<1>3. ASSUME NEW k \in 1 .. n
      PROVE  Moves(i, slice.nulls, k, q[k], q[k + 1])
  <2>1. CASE k = n
    BY <1>1, <2>1
  <2>2. CASE k \in 1 .. n - 1
    <3>1. Moves(i, slice.nulls, k, p[k], p[k + 1])
      BY <2>2 DEF Path
    <3>2. q[k] = p[k] /\ q[k + 1] = p[k + 1]
      BY <1>1, <2>2
    <3> QED
      BY <3>1, <3>2
  <2> QED
    BY <2>1, <2>2
<1> QED
  BY <1>1, <1>2, <1>3 DEF Path

Read == <<event, data, metadata, present>>

LEMMA MovesKept ==
    ASSUME UNCHANGED Read, NEW i, NEW nulls, NEW k, NEW a, NEW b, Moves(i, nulls, k, a, b)
    PROVE  Moves(i, nulls, k, a, b)'
BY DEF Read, Moves, Bit

LEMMA PathKept ==
    ASSUME UNCHANGED Read, NEW p, NEW i, NEW slice, NEW n, Path(p, i, slice, n)
    PROVE  Path(p, i, slice, n)'
BY MovesKept DEF Path

LEMMA WalkedKept ==
    ASSUME UNCHANGED Read, NEW i, NEW slice, Walked(i, slice)
    PROVE  Walked(i, slice)'
<1>1. PICK p : Path(p, i, slice, columnCount + 1) /\ p[columnCount + 1].pos = slice.to
  BY DEF Walked
<1>2. columnCount' = columnCount
  BY DEF Read, columnCount
<1>3. Path(p, i, slice, columnCount + 1)'
  BY <1>1, <1>2, PathKept
<1> QED
  BY <1>1, <1>2, <1>3 DEF Walked

LEMMA RowsKept ==
    ASSUME RowsWalked, UNCHANGED Read, UNCHANGED rows
    PROVE  RowsWalked'
<1>1. Len(images') = Len(images)
  BY DEF Read, images
<1> QED
  BY <1>1, WalkedKept DEF RowsWalked

-----------------------------------------------------------------------------
(* Each step keeps the invariant.                                          *)

LEMMA InitIInv == Init => IInv
<1> SUFFICES ASSUME Init PROVE IInv
  OBVIOUS
<1>1. Counted
  BY EventsAssumption DEF Init, Counted, columnCount, images, Images
<1>2. RowsWalked /\ RowWalked
  BY EmptyIsSequence DEF Init, RowsWalked, RowWalked
<1> QED
  BY <1>1, <1>2 DEF Init, IInv, Unread, OnWalk, OnCut

LEMMA CountsKept ==
    ASSUME Counted, UNCHANGED event
    PROVE  /\ columnCount' = columnCount /\ columnCount' \in Nat
           /\ Len(images)' = Len(images) /\ Len(images)' \in Nat \ {0}
BY DEF Counted, columnCount, images

LEMMA EndKeeps ==
    ASSUME IInv, NEW how \in Ends, End(how)
    PROVE  IInv'
<1>1. UNCHANGED Read /\ UNCHANGED <<c, image, r, row, rows>> /\ pc' \in Ends
  BY DEF End, written, Read
<1>2. RowsWalked'
  BY <1>1, RowsKept DEF IInv
<1>3. Counted'
  BY <1>1, CountsKept DEF IInv, Counted, Read, Ends
<1> QED
  BY <1>1, <1>2, <1>3 DEF IInv, Ends, Unread, RowWalked, OnWalk, OnCut

LEMMA ReadingKeeps ==
    ASSUME IInv, ReadMetadata \/ EndMetadata \/ ReadPresence \/ EndPresence
    PROVE  IInv'
<1>1. ASSUME NEW how \in Ends, End(how) PROVE IInv'
  BY <1>1, EndKeeps
<1>2. ASSUME UNCHANGED <<event, row, rows, r>>, pc' \in {"metadata", "presence", "rows"},
             c' \in {c, c + 1}, image' \in {image, image + 1}, rows = <<>>
      PROVE  IInv'
  <2>1. Counted'
    BY <1>2, CountsKept DEF IInv, Counted
  <2>2. RowsWalked' /\ Unread'
    BY <1>2, EmptyIsSequence DEF RowsWalked, Unread
  <2>3. RowWalked'
    BY <1>2 DEF IInv, RowWalked
  <2> QED
    BY <1>2, <2>1, <2>2, <2>3 DEF IInv, OnWalk, OnCut
<1>3. rows = <<>>
  BY DEF IInv, Unread, ReadMetadata, EndMetadata, ReadPresence, EndPresence
<1>4. CASE ReadMetadata
  BY <1>1, <1>2, <1>3, <1>4 DEF ReadMetadata, written, Ends
<1>5. CASE EndMetadata
  BY <1>1, <1>2, <1>3, <1>5 DEF EndMetadata, written, Ends
<1>6. CASE ReadPresence
  BY <1>1, <1>2, <1>3, <1>6 DEF ReadPresence, written, Ends
<1>7. CASE EndPresence
  BY <1>1, <1>2, <1>3, <1>7 DEF EndPresence, written, Ends
<1> QED
  BY <1>4, <1>5, <1>6, <1>7

LEMMA NextRowKeeps ==
    ASSUME IInv, NextRow
    PROVE  IInv'
<1>1. UNCHANGED Read /\ UNCHANGED <<c, r, rows>> /\ pc' = "nulls" /\ image' = 1 /\ row' = <<>>
  BY DEF NextRow, written, Read
<1>2. RowsWalked'
  BY <1>1, RowsKept DEF IInv
<1>3. Counted'
  BY <1>1, CountsKept DEF IInv, Counted, Read
<1>4. RowWalked'
  BY <1>1, EmptyIsSequence DEF RowWalked
<1> QED
  BY <1>1, <1>2, <1>3, <1>4 DEF IInv, Unread, OnWalk, OnCut

LEMMA EndRowsKeeps ==
    ASSUME IInv, EndRows
    PROVE  IInv'
<1>1. UNCHANGED Read /\ UNCHANGED <<c, r, rows, row>> /\ pc' = "deliver" /\ image' = 1
  BY DEF EndRows, written, Read
<1>2. RowsWalked'
  BY <1>1, RowsKept DEF IInv
<1>3. Counted'
  BY <1>1, CountsKept DEF IInv, Counted, Read
<1> QED
  BY <1>1, <1>2, <1>3 DEF IInv, Unread, RowWalked, OnWalk, OnCut

LEMMA ReadNullsKeeps ==
    ASSUME IInv, ReadNulls
    PROVE  IInv'
<1> DEFINE count == BitCount(present[image])
           start == pos + byteSize(count)
           read == [nulls |-> newBitmap(pos, count), from |-> start, to |-> start]
<1>1. CASE start > Len(data)
  BY <1>1, EndKeeps DEF ReadNulls, Ends
<1>2. CASE ~(start > Len(data))
  <2>s. PICK slice : slice = read
    OBVIOUS
  <2>f. IsSlice(slice) /\ slice.from = start
    BY <2>s DEF IsSlice
  <2>1. /\ UNCHANGED Read /\ UNCHANGED <<r, rows, image>>
        /\ pc = "nulls" /\ pc' = "skip"
        /\ row' = Append(row, slice) /\ pos' = slice.from /\ c' = 1 /\ valueIndex' = 0
    BY <1>2, <2>s, <2>f DEF ReadNulls, written, Read
  <2>2. RowsWalked'
    BY <2>1, RowsKept DEF IInv
  <2>3. Counted'
    BY <2>1, CountsKept DEF IInv, Counted, Read
  <2>4. /\ IsSequence(row') /\ Len(row') = image /\ row'[image] = slice
        /\ \A i \in 1 .. image - 1 : row'[i] = row[i]
    BY <2>1, AppendIsSequence DEF IInv, RowWalked, Counted
  <2>5. RowWalked'
    BY <2>1, <2>4, WalkedKept DEF IInv, RowWalked
  <2>6. OnWalk'
    <3> DEFINE p == [k \in {1} |-> [pos |-> slice.from, index |-> 0]]
    <3>1. p[1] = [pos |-> slice.from, index |-> 0] /\ p[1] = Here'
      BY <2>1 DEF Here
    <3>2. row'[image'] = slice /\ c' = 1
      BY <2>1, <2>4
    <3>3. Path(p, image, row[image], c)'
      BY <3>1, <3>2 DEF Path
    <3> QED
      BY <2>f, <3>1, <3>2, <3>3 DEF OnWalk
  <2> QED
    BY <2>1, <2>2, <2>3, <2>5, <2>6 DEF IInv, Unread, OnCut
<1> QED
  BY <1>1, <1>2

LEMMA SkipColumnKeeps ==
    ASSUME IInv, SkipColumn
    PROVE  IInv'
<1> DEFINE found == Bit(present[image], c - 1)
           skipped == ~found \/ Bit(row[image].nulls, valueIndex)
           length == cellLength(data, pos, typ, metadata[c])
<1>1. \/ \E how \in Ends : End(how)
      \/ skipped /\ NextColumn(found, 0)
      \/ ~skipped /\ NextColumn(TRUE, length)
  BY DEF SkipColumn, Ends
<1>2. CASE \E how \in Ends : End(how)
  BY <1>2, EndKeeps
<1>3. ASSUME NextColumn(found, IF skipped THEN 0 ELSE length)
      PROVE  IInv'
  <2>1. /\ UNCHANGED Read /\ UNCHANGED <<pc, image, r, row, rows>>
        /\ pc = "skip" /\ c <= columnCount /\ c' = c + 1
        /\ valueIndex' = (IF found THEN valueIndex + 1 ELSE valueIndex)
        /\ pos' = pos + (IF skipped THEN 0 ELSE length)
    BY <1>3 DEF SkipColumn, NextColumn, written, Read
  <2>2. RowsWalked'
    BY <2>1, RowsKept DEF IInv
  <2>3. Counted'
    BY <2>1, CountsKept DEF IInv, Counted, Read
  <2>4. RowWalked'
    BY <2>1, WalkedKept DEF IInv, RowWalked
  <2>5. OnWalk'
    <3>1. PICK p : Path(p, image, row[image], c) /\ p[c] = Here
      BY <2>1 DEF IInv, OnWalk
    <3>2. Moves(image, row[image].nulls, c, p[c], Here')
      BY <2>1, <3>1 DEF Moves, Here, typ
    <3>3. PICK q : Path(q, image, row[image], c + 1) /\ q[c + 1] = Here'
      BY <3>1, <3>2, PathGrows DEF IInv, Counted
    <3>4. Path(q, image, row[image], c)'
      BY <2>1, <3>3, PathKept
    <3> QED
      BY <2>1, <3>3, <3>4 DEF IInv, OnWalk
  <2> QED
    BY <2>1, <2>2, <2>3, <2>4, <2>5 DEF IInv, Unread, OnCut
<1> QED
  BY <1>1, <1>2, <1>3 DEF NextColumn

LEMMA EndSkipKeeps ==
    ASSUME IInv, EndSkip
    PROVE  IInv'
<1>0. PICK walked : walked = EndsAt(row, image, pos)
  OBVIOUS
<1>1. /\ UNCHANGED Read /\ UNCHANGED <<c, r>>
      /\ pc = "skip" /\ c = columnCount + 1
  BY DEF EndSkip, written, Read, IInv, Counted
<1>2. /\ IsSequence(walked) /\ Len(walked) = image
      /\ \A i \in 1 .. image - 1 : walked[i] = row[i]
      /\ walked[image] = [nulls |-> row[image].nulls, from |-> row[image].from, to |-> pos]
  <2>1. IsSequence(row) /\ Len(row) = image /\ IsSlice(row[image]) /\ image \in 1 .. Len(row)
    BY <1>1 DEF IInv, RowWalked, OnWalk, Counted
  <2> QED
    <3>1. /\ IsSequence(walked) /\ Len(walked) = Len(row)
          /\ \A j \in 1 .. Len(row) : j # image => walked[j] = row[j]
          /\ walked[image]
                 = [nulls |-> row[image].nulls, from |-> row[image].from, to |-> pos]
      BY <1>0, <2>1, EndsAtIsSequence
    <3> QED
      BY <2>1, <3>1
<1>3. \A i \in 1 .. image : Walked(i, walked[i])'
  <2>1. PICK p : Path(p, image, row[image], c) /\ p[c] = Here
    BY <1>1 DEF IInv, OnWalk
  <2>2. Path(p, image, walked[image], columnCount + 1)
    BY <1>1, <1>2, <2>1 DEF Path
  <2>3. p[columnCount + 1].pos = walked[image].to
    BY <1>1, <1>2, <2>1 DEF Here
  <2>4. Walked(image, walked[image])
    BY <2>2, <2>3 DEF Walked
  <2>5. \A i \in 1 .. image - 1 : Walked(i, walked[i])
    BY <1>1, <1>2 DEF IInv, RowWalked
  <2>6. \A i \in 1 .. image : Walked(i, walked[i])
    BY <2>4, <2>5 DEF IInv, Counted
  <2> QED
    BY <1>1, <2>6, WalkedKept
<1>4. CASE image < Len(images)
  <2>1. row' = walked /\ image' = image + 1 /\ pc' = "nulls" /\ UNCHANGED rows
    BY <1>4, <1>0 DEF EndSkip, EndsAt
  <2>2. RowsWalked'
    BY <1>1, <2>1, RowsKept DEF IInv
  <2>3. Counted'
    BY <1>1, <1>4, <2>1, CountsKept DEF IInv, Counted, Read
  <2>4. RowWalked'
    BY <1>2, <1>3, <2>1 DEF RowWalked, IInv, Counted
  <2> QED
    BY <2>1, <2>2, <2>3, <2>4 DEF IInv, Unread, OnWalk, OnCut
<1>5. CASE ~(image < Len(images))
  <2>1. rows' = Append(rows, walked) /\ row' = <<>> /\ pc' = "rows" /\ UNCHANGED image
    BY <1>5, <1>0 DEF EndSkip, EndsAt
  <2>2. image = Len(images)
    BY <1>1, <1>5 DEF IInv, Counted
  <2>3. RowsWalked'
    <3>1. /\ IsSequence(rows') /\ Len(rows) \in Nat /\ Len(rows') = Len(rows) + 1
          /\ \A n \in 1 .. Len(rows) : rows'[n] = rows[n]
          /\ rows'[Len(rows) + 1] = walked
      BY <2>1, AppendIsSequence DEF IInv, RowsWalked
    <3>2. Len(images)' = Len(images)
      BY <1>1 DEF Read, images
    <3>3. ASSUME NEW n \in 1 .. Len(rows')
          PROVE  /\ Len(rows'[n]) = Len(images)
                 /\ \A i \in 1 .. Len(images) : Walked(i, rows[n][i])'
      <4>1. CASE n \in 1 .. Len(rows)
        BY <1>1, <3>1, <4>1, WalkedKept DEF IInv, RowsWalked
      <4>2. CASE n = Len(rows) + 1
        BY <1>2, <1>3, <2>2, <3>1, <4>2
      <4> QED
        BY <3>1, <4>1, <4>2
    <3> QED
      BY <3>1, <3>2, <3>3 DEF RowsWalked
  <2>4. Counted'
    BY <1>1, <2>1, CountsKept DEF IInv, Counted, Read
  <2>5. RowWalked'
    BY <2>1, EmptyIsSequence DEF RowWalked
  <2> QED
    BY <2>1, <2>3, <2>4, <2>5 DEF IInv, Unread, OnWalk, OnCut
<1> QED
  BY <1>4, <1>5

LEMMA StartImageKeeps ==
    ASSUME IInv, StartImage
    PROVE  IInv'
<1>1. CASE event.described # columnCount
  BY <1>1, EndKeeps DEF StartImage, Ends
<1>2. CASE event.described = columnCount
  <2>1. /\ UNCHANGED Read /\ UNCHANGED <<r, row, rows, image>>
        /\ pc = "deliver" /\ r <= Len(rows) /\ pc' = "cut"
        /\ pos' = rows[r][image].from /\ c' = 1 /\ valueIndex' = 0
    BY <1>2 DEF StartImage, written, Read
  <2>2. RowsWalked'
    BY <2>1, RowsKept DEF IInv
  <2>3. Counted'
    BY <2>1, CountsKept DEF IInv, Counted, Read
  <2>4. OnCut'
    <3>1. Walked(image, rows[r][image])
      BY <2>1 DEF IInv, RowsWalked, Counted
    <3>2. PICK p : /\ Path(p, image, rows[r][image], columnCount + 1)
                   /\ p[columnCount + 1].pos = rows[r][image].to
      BY <3>1 DEF Walked
    <3>3. p[1].pos = pos' /\ p[1].index = valueIndex'
      BY <2>1, <3>2 DEF Path
    <3>4. columnCount' = columnCount
      BY <2>1, CountsKept DEF IInv, Read
    <3>5. Path(p, image, rows[r][image], columnCount + 1)'
      BY <2>1, <3>2, <3>4, PathKept
    <3> QED
      BY <2>1, <3>2, <3>3, <3>4, <3>5 DEF OnCut
  <2> QED
    BY <2>1, <2>2, <2>3, <2>4 DEF IInv, Unread, RowWalked, OnWalk
<1> QED
  BY <1>1, <1>2

LEMMA CutColumnKeeps ==
    ASSUME IInv, AllPrecise, CutColumn
    PROVE  IInv'
<1> DEFINE found == Bit(present[image], c - 1)
           skipped == ~found \/ Bit(rows[r][image].nulls, valueIndex)
           length == cellLength(data, pos, typ, metadata[c])
           cell == CellBytes(data, pos, typ, metadata[c], event.columns[c].unsigned)
<1>1. \/ \E how \in Ends : End(how)
      \/ skipped /\ NextColumn(found, 0)
      \/ ~skipped /\ cell.length # Unsupported /\ NextColumn(TRUE, cell.length)
  <2>1. CASE ~found
    <3>1. found = FALSE
      BY <2>1 DEF Bit
    <3>2. NextColumn(FALSE, 0)
      BY <2>1 DEF CutColumn
    <3> QED
      BY <2>1, <3>1, <3>2
  <2>2. CASE found /\ Bit(rows[r][image].nulls, valueIndex)
    <3>1. found = TRUE
      BY <2>2 DEF Bit
    <3>2. NextColumn(TRUE, 0)
      BY <2>2 DEF CutColumn
    <3> QED
      BY <2>2, <3>1, <3>2
  <2>3. CASE ~skipped
    <3> HIDE DEF cell
    <3>1. \/ cell.length = Unsupported /\ End("error")
          \/ cell.length # Unsupported /\ End("overrun")
          \/ cell.length # Unsupported /\ NextColumn(TRUE, cell.length)
      BY <2>3 DEF CutColumn, cell
    <3>2. "error" \in Ends /\ "overrun" \in Ends
      BY DEF Ends
    <3> QED
      BY <2>3, <3>1, <3>2
  <2> QED
    BY <2>1, <2>2, <2>3
<1>2. CASE \E how \in Ends : End(how)
  BY <1>2, EndKeeps
<1>3. ASSUME cell.length # Unsupported
      PROVE  cell.length = length
  <2>1. pc = "cut" /\ c \in 1 .. columnCount
    BY DEF CutColumn, IInv, Counted
  <2>2. Precise(typ, metadata[c])
    BY <2>1 DEF AllPrecise, typ
  <2> QED
    BY <1>3, <2>2, LengthsAgree
<1>4. ASSUME NextColumn(found, IF skipped THEN 0 ELSE length)
      PROVE  IInv'
  <2>1. /\ UNCHANGED Read /\ UNCHANGED <<pc, image, r, row, rows>>
        /\ pc = "cut" /\ c <= columnCount /\ c' = c + 1
        /\ valueIndex' = (IF found THEN valueIndex + 1 ELSE valueIndex)
        /\ pos' = pos + (IF skipped THEN 0 ELSE length)
    BY <1>4 DEF CutColumn, NextColumn, written, Read
  <2>2. RowsWalked'
    BY <2>1, RowsKept DEF IInv
  <2>3. Counted'
    BY <2>1, CountsKept DEF IInv, Counted, Read
  <2>4. OnCut'
    <3>1. PICK p : /\ Path(p, image, rows[r][image], columnCount + 1)
                   /\ p[columnCount + 1].pos = rows[r][image].to
                   /\ p[c].pos = pos /\ p[c].index = valueIndex
      BY <2>1 DEF IInv, OnCut
    <3>2. Moves(image, rows[r][image].nulls, c, p[c], p[c + 1])
      <4>1. c \in 1 .. (columnCount + 1) - 1
        BY <2>1 DEF IInv, Counted
      <4> QED
        BY <3>1, <4>1 DEF Path
    <3>3. p[c + 1].pos = pos' /\ p[c + 1].index = valueIndex'
      BY <2>1, <3>1, <3>2 DEF Moves, typ
    <3>4. columnCount' = columnCount
      BY <2>1, CountsKept DEF IInv, Read
    <3>5. Path(p, image, rows[r][image], columnCount + 1)'
      BY <2>1, <3>1, <3>4, PathKept
    <3> QED
      BY <2>1, <3>1, <3>3, <3>4, <3>5 DEF IInv, OnCut
  <2> QED
    BY <2>1, <2>2, <2>3, <2>4 DEF IInv, Unread, RowWalked, OnWalk
<1> QED
  BY <1>1, <1>2, <1>3, <1>4 DEF NextColumn

LEMMA EndImageKeeps ==
    ASSUME IInv, EndImage
    PROVE  IInv'
<1>1. /\ UNCHANGED Read /\ UNCHANGED <<c, row, rows>>
      /\ pc = "cut" /\ pc' = "deliver"
      /\ \/ image < Len(images) /\ image' = image + 1 /\ r' = r
         \/ image' = 1 /\ r' = r + 1
  BY DEF EndImage, written, Read
<1>2. RowsWalked'
  BY <1>1, RowsKept DEF IInv
<1>3. Counted'
  BY <1>1, CountsKept DEF IInv, Counted, Read
<1> QED
  BY <1>1, <1>2, <1>3 DEF IInv, Unread, RowWalked, OnWalk, OnCut

LEMMA StutterKeeps ==
    ASSUME IInv, UNCHANGED vars
    PROVE  IInv'
<1>1. UNCHANGED Read /\ UNCHANGED <<pc, c, image, r, row, rows, pos, valueIndex>>
  BY DEF vars, Read
<1>2. RowsWalked'
  BY <1>1, RowsKept DEF IInv
<1>3. columnCount' = columnCount /\ Counted'
  BY <1>1, CountsKept DEF IInv, Counted, Read
<1>4. RowWalked'
  BY <1>1, WalkedKept DEF IInv, RowWalked
<1>5. OnWalk'
  BY <1>1, PathKept DEF IInv, OnWalk, Here
<1>6. OnCut'
  BY <1>1, <1>3, PathKept DEF IInv, OnCut
<1> QED
  BY <1>1, <1>2, <1>3, <1>4, <1>5, <1>6 DEF IInv, Unread

LEMMA NextIInv == IInv /\ AllPrecise /\ [Next]_vars => IInv'
<1> SUFFICES ASSUME IInv, AllPrecise, [Next]_vars PROVE IInv'
  OBVIOUS
<1>1. CASE ReadMetadata \/ EndMetadata \/ ReadPresence \/ EndPresence
  BY <1>1, ReadingKeeps
<1>2. CASE NextRow
  BY <1>2, NextRowKeeps
<1>3. CASE EndRows
  BY <1>3, EndRowsKeeps
<1>4. CASE ReadNulls
  BY <1>4, ReadNullsKeeps
<1>5. CASE SkipColumn
  BY <1>5, SkipColumnKeeps
<1>6. CASE EndSkip
  BY <1>6, EndSkipKeeps
<1>7. CASE StartImage
  BY <1>7, StartImageKeeps
<1>8. CASE EndDeliver
  BY <1>8, EndKeeps DEF EndDeliver, Ends
<1>9. CASE CutColumn
  BY <1>9, CutColumnKeeps
<1>10. CASE EndImage
  BY <1>10, EndImageKeeps
<1>11. CASE Finished \/ UNCHANGED vars
  BY <1>11, StutterKeeps DEF Finished
<1> QED
  BY <1>1, <1>2, <1>3, <1>4, <1>5, <1>6, <1>7, <1>8, <1>9, <1>10, <1>11 DEF Next

(* The cut of an image ends where the walk has found its end, whatever the *)
(* types, the values and the bitmaps of an event are, if no column has     *)
(* more than six decimals of a second: a row never starts in the middle of *)
(* another.                                                                *)
THEOREM CutMeetsWalkHolds == Spec /\ []AllPrecise => []CutMeetsWalk
<1>1. IInv => CutMeetsWalk
  <2> SUFFICES ASSUME IInv, pc = "cut", c > columnCount PROVE pos = rows[r][image].to
    BY DEF CutMeetsWalk
  <2>1. c = columnCount + 1
    BY DEF IInv, Counted
  <2> QED
    BY <2>1 DEF IInv, OnCut
<1> QED
  BY <1>1, InitIInv, NextIInv, PTL DEF Spec

-----------------------------------------------------------------------------
(* Induction over the natural numbers, for a set rather than for an        *)
(* operator: what follows unfolds recursive functions, and each has an     *)
(* induction of its own.                                                   *)

LEMMA Least ==
    ASSUME NEW T, T \subseteq Nat, T # {}
    PROVE  \E n \in T : \A m \in T : n <= m
<1>1. IsWellFoundedOn(OpToRel(<, Nat), Nat) BY NatLessThanWellFounded
<1>2. PICK n \in T : \A m \in T : ~(<<m, n>> \in OpToRel(<, Nat)) BY <1>1, WFMin
<1>3. \A m \in T : ~(m < n) BY <1>2 DEF OpToRel
<1> QED BY <1>3

LEMMA Induct ==
    ASSUME NEW T, 0 \in T, \A n \in Nat : n \in T => n + 1 \in T
    PROVE  Nat \subseteq T
<1> SUFFICES ASSUME ~(Nat \subseteq T) PROVE FALSE OBVIOUS
<1>1. Nat \ T \subseteq Nat /\ Nat \ T # {} OBVIOUS
<1>2. PICK n \in Nat \ T : \A m \in Nat \ T : n <= m BY <1>1, Least
<1>3. n # 0 /\ n - 1 \in Nat /\ n - 1 < n /\ (n - 1) + 1 = n BY <1>2
<1>4. n - 1 \in T BY <1>2, <1>3
<1> QED BY <1>3, <1>4

LEMMA LenZero ==
    ASSUME NEW S, NEW s \in Seq(S), Len(s) = 0
    PROVE  s = <<>>
OBVIOUS

-----------------------------------------------------------------------------
(* Sequences of bytes that are put together.                               *)

(* These bytes stand at this position of others.                           *)
Stands(bytes, at, others) ==
    /\ at \in Nat /\ Len(bytes) \in Nat /\ Len(others) \in Nat
    /\ at + Len(bytes) <= Len(others)
    /\ \A i \in 1 .. Len(bytes) : others[at + i] = bytes[i]

LEMMA StandingByte ==
    ASSUME NEW bytes, NEW at, NEW others, Stands(bytes, at, others),
           NEW i \in 0 .. Len(bytes) - 1
    PROVE  Byte(others, at + i) = bytes[i + 1]
BY DEF Stands, Byte

LEMMA StandsWithin ==
    ASSUME NEW a, NEW b, NEW d, NEW at, NEW from, Stands(a, at, b), Stands(b, from, d)
    PROVE  Stands(a, from + at, d)
<1>1. \A i \in 1 .. Len(a) : at + i \in 1 .. Len(b) /\ from + (at + i) = from + at + i
  BY DEF Stands
<1>2. \A i \in 1 .. Len(a) : d[from + at + i] = a[i] BY <1>1 DEF Stands
<1> QED BY <1>2 DEF Stands

LEMMA StandsOfConcat ==
    ASSUME NEW S, NEW a \in Seq(S), NEW b \in Seq(S)
    PROVE  /\ a \o b \in Seq(S) /\ Len(a \o b) = Len(a) + Len(b)
           /\ Stands(a, 0, a \o b) /\ Stands(b, Len(a), a \o b)
<1>1. /\ a \o b \in Seq(S)
      /\ Len(a \o b) = Len(a) + Len(b) /\ Len(a) \in Nat /\ Len(b) \in Nat
      /\ \A i \in 1 .. Len(a) : (a \o b)[i] = a[i]
      /\ \A i \in 1 .. Len(b) : (a \o b)[Len(a) + i] = b[i]
  OBVIOUS
<1> QED BY <1>1 DEF Stands

(* The end of each part, and 0 in front of the first.                      *)
AreEnds(e, n, parts) ==
    e \in [0 .. n -> Nat] /\ e[0] = 0 /\ \A k \in 1 .. n : e[k] = e[k - 1] + Len(parts[k])

(* The ends of the parts of a sequence that is put together.               *)
EndsOf(parts) == CHOOSE e : AreEnds(e, Len(parts), parts)

LEMMA EndsAre ==
    ASSUME NEW S, NEW parts \in Seq(Seq(S))
    PROVE  AreEnds(EndsOf(parts), Len(parts), parts)
<1>1. PICK n \in Nat : n = Len(parts) OBVIOUS
<1>2. \A k \in 1 .. n : Len(parts[k]) \in Nat BY <1>1
<1> DEFINE T == {m \in Nat : m <= n => \E e : AreEnds(e, m, parts)}
<1>3. 0 \in T
  <2> DEFINE e == [k \in 0 .. 0 |-> 0]
  <2>1. AreEnds(e, 0, parts) BY DEF AreEnds
  <2> QED BY <2>1
<1>4. ASSUME NEW m \in Nat, m \in T PROVE m + 1 \in T
  <2> SUFFICES ASSUME m + 1 <= n PROVE \E e : AreEnds(e, m + 1, parts) OBVIOUS
  <2>1. PICK e : AreEnds(e, m, parts) BY <1>4
  <2>2. PICK last \in Nat : last = e[m] + Len(parts[m + 1]) BY <1>2, <2>1 DEF AreEnds
  <2> DEFINE g == [k \in 0 .. m + 1 |-> IF k <= m THEN e[k] ELSE last]
  <2>3. g \in [0 .. m + 1 -> Nat] /\ (\A k \in 0 .. m : g[k] = e[k]) /\ g[m + 1] = last
    BY <2>1, <2>2 DEF AreEnds
  <2> HIDE DEF g
  <2>4. ASSUME NEW k \in 1 .. m + 1 PROVE g[k] = g[k - 1] + Len(parts[k])
    <3>1. CASE k = m + 1
      <4>1. k - 1 = m /\ m \in 0 .. m BY <3>1
      <4> QED BY <2>2, <2>3, <3>1, <4>1
    <3>2. CASE k \in 1 .. m
      <4>1. k \in 0 .. m /\ k - 1 \in 0 .. m BY <3>2
      <4> QED BY <2>1, <2>3, <3>2, <4>1 DEF AreEnds
    <3> QED BY <3>1, <3>2
  <2>5. g[0] = 0 BY <2>1, <2>3 DEF AreEnds
  <2> QED BY <2>3, <2>4, <2>5 DEF AreEnds
<1> HIDE DEF T
<1>5. n \in T BY <1>3, <1>4, Induct
<1>6. \E e : AreEnds(e, n, parts) BY <1>5 DEF T
<1> QED BY <1>1, <1>6 DEF EndsOf

(* What the first parts are together, for each number of them.             *)
Chains(f, S, n, parts) ==
    /\ f \in [1 .. n -> Seq(S)]
    /\ \A k \in 1 .. n : f[k] = IF k = 1 THEN parts[k] ELSE f[k - 1] \o parts[k]

LEMMA ChainExists ==
    ASSUME NEW S, NEW parts \in Seq(Seq(S)), NEW n \in Nat, n <= Len(parts)
    PROVE  \E f : Chains(f, S, n, parts)
<1>1. \A k \in 1 .. n : parts[k] \in Seq(S) OBVIOUS
<1> DEFINE T == {m \in Nat : m <= n => \E f : Chains(f, S, m, parts)}
<1>2. 0 \in T
  <2> DEFINE f == [k \in 1 .. 0 |-> parts[k]]
  <2>1. Chains(f, S, 0, parts) BY DEF Chains
  <2> QED BY <2>1
<1>3. ASSUME NEW m \in Nat, m \in T PROVE m + 1 \in T
  <2> SUFFICES ASSUME m + 1 <= n PROVE \E f : Chains(f, S, m + 1, parts) OBVIOUS
  <2>1. PICK f : Chains(f, S, m, parts) BY <1>3
  <2>2. PICK p \in Seq(S) : p = parts[m + 1] BY <1>1
  <2>3. PICK last \in Seq(S) : last = IF m + 1 = 1 THEN p ELSE f[m] \o p
    <3>1. CASE m = 0 BY <2>2, <3>1
    <3>2. CASE m # 0
      <4>1. f[m] \in Seq(S) BY <2>1, <3>2 DEF Chains
      <4>2. f[m] \o p \in Seq(S) BY <4>1
      <4> QED BY <3>2, <4>2
    <3> QED BY <3>1, <3>2
  <2> DEFINE g == [k \in 1 .. m + 1 |-> IF k <= m THEN f[k] ELSE last]
  <2>4. g \in [1 .. m + 1 -> Seq(S)] /\ (\A k \in 1 .. m : g[k] = f[k]) /\ g[m + 1] = last
    BY <2>1 DEF Chains
  <2> HIDE DEF g
  <2>5. ASSUME NEW k \in 1 .. m + 1
        PROVE  g[k] = IF k = 1 THEN parts[k] ELSE g[k - 1] \o parts[k]
    <3>1. CASE k = m + 1
      <4>1. k - 1 = m /\ (k # 1 => m \in 1 .. m) BY <3>1
      <4> QED BY <2>2, <2>3, <2>4, <3>1, <4>1
    <3>2. CASE k \in 1 .. m
      <4>1. k # 1 => k - 1 \in 1 .. m BY <3>2
      <4> QED BY <2>1, <2>4, <3>2, <4>1 DEF Chains
    <3> QED BY <3>1, <3>2
  <2>6. Chains(g, S, m + 1, parts) BY <2>4, <2>5 DEF Chains
  <2> QED BY <2>6
<1> HIDE DEF T
<1>4. n \in T BY <1>2, <1>3, Induct
<1> QED BY <1>4 DEF T

(* Each part stands between the ends of the parts.                         *)
LEMMA Flattened ==
    ASSUME NEW S, NEW parts \in Seq(Seq(S))
    PROVE  /\ FlattenSeq(parts) \in Seq(S)
           /\ Len(FlattenSeq(parts)) = EndsOf(parts)[Len(parts)]
           /\ \A k \in 1 .. Len(parts) :
                  Stands(parts[k], EndsOf(parts)[k - 1], FlattenSeq(parts))
<1>1. PICK n \in Nat : n = Len(parts) OBVIOUS
<1>2. PICK u : u = EndsOf(parts) /\ AreEnds(u, n, parts) BY <1>1, EndsAre
<1>3. CASE n = 0
  <2>1. Len(parts) = 0 BY <1>1, <1>3
  <2>2. parts = <<>> BY <2>1, LenZero
  <2>3. FlattenSeq(parts) = <<>> BY <2>1, <2>2, Zenon DEF FlattenSeq
  <2> QED BY <1>1, <1>2, <1>3, <2>3 DEF AreEnds
<1>4. CASE n # 0
  <2> DEFINE f == CHOOSE f : f = [k \in 1 .. Len(parts) |->
                                      IF k = 1 THEN parts[k] ELSE f[k - 1] \o parts[k]]
  <2>1. FlattenSeq(parts) = f[n]
    <3>1. Len(parts) # 0 BY <1>1, <1>4
    <3>2. f[n] = f[Len(parts)] BY <1>1
    <3> QED BY <3>1, <3>2, Zenon DEF FlattenSeq
  <2>2. PICK h : Chains(h, S, n, parts)
    <3>1. n <= Len(parts) BY <1>1
    <3> QED BY <3>1, ChainExists
  <2>3. h = [k \in 1 .. Len(parts) |-> IF k = 1 THEN parts[k] ELSE h[k - 1] \o parts[k]]
    BY <1>1, <2>2 DEF Chains
  <2>4. f = [k \in 1 .. Len(parts) |-> IF k = 1 THEN parts[k] ELSE f[k - 1] \o parts[k]]
    BY <2>3, Zenon
  <2> HIDE DEF f
  <2>5. \A k \in 1 .. n : f[k] = IF k = 1 THEN parts[k] ELSE f[k - 1] \o parts[k]
    BY <1>1, <2>4
  <2>6. \A k \in 1 .. n : parts[k] \in Seq(S) BY <1>1
  <2> DEFINE Fits(m) == /\ f[m] \in Seq(S) /\ Len(f[m]) = u[m]
                        /\ \A k \in 1 .. m : Stands(parts[k], u[k - 1], f[m])
             T == {m \in Nat : m + 1 <= n => Fits(m + 1)}
  <2>7. 0 \in T
    <3>1. PICK one \in 1 .. n : one = 1 BY <1>4
    <3>2. f[1] = parts[1] /\ parts[1] \in Seq(S) BY <2>5, <2>6, <3>1
    <3>3. u[1] = Len(parts[1]) /\ u[0] = 0
      <4>1. u[one] = u[one - 1] + Len(parts[one]) /\ u[0] = 0 BY <1>2 DEF AreEnds
      <4>2. one - 1 = 0 /\ Len(parts[1]) \in Nat BY <3>1, <3>2
      <4> QED BY <3>1, <4>1, <4>2
    <3>4. Stands(parts[1], 0, f[1]) BY <3>2 DEF Stands
    <3>5. \A k \in 1 .. 1 : k = 1 /\ k - 1 = 0 OBVIOUS
    <3>6. Fits(1) BY <3>2, <3>3, <3>4, <3>5
    <3>7. 0 + 1 = 1 OBVIOUS
    <3> HIDE DEF Fits
    <3> QED BY <3>6, <3>7
  <2>8. ASSUME NEW m \in Nat, m \in T PROVE m + 1 \in T
    <3> SUFFICES ASSUME m + 1 + 1 <= n PROVE Fits(m + 1 + 1) OBVIOUS
    <3>0. PICK k \in 1 .. n : k = m + 1 + 1 OBVIOUS
    <3>1. Fits(m + 1) BY <2>8
    <3>2. f[k] = f[m + 1] \o parts[k] /\ parts[k] \in Seq(S)
      <4>1. k # 1 /\ k - 1 = m + 1 BY <3>0
      <4> QED BY <2>5, <2>6, <4>1
    <3>3. u[k] = u[m + 1] + Len(parts[k])
      <4>1. k - 1 = m + 1 BY <3>0
      <4>2. u[k] = u[k - 1] + Len(parts[k]) BY <1>2 DEF AreEnds
      <4> QED BY <4>1, <4>2
    <3>4. PICK a \in Seq(S) : a = f[m + 1] /\ Len(a) = u[m + 1] BY <3>1
    <3>5. PICK b \in Seq(S) : b = parts[k] BY <3>2
    <3>6. f[k] = a \o b BY <3>2, <3>4, <3>5
    <3>7. f[k] \in Seq(S) /\ Len(f[k]) = u[k]
      <4>1. a \o b \in Seq(S) /\ Len(a \o b) = Len(a) + Len(b) BY StandsOfConcat
      <4>2. Len(a) + Len(b) = u[k] BY <3>3, <3>4, <3>5
      <4> QED BY <3>6, <4>1, <4>2
    <3>8. Stands(a, 0, f[k]) /\ Stands(b, u[m + 1], f[k])
      BY <3>4, <3>6, StandsOfConcat
    <3>9. ASSUME NEW j \in 1 .. k PROVE Stands(parts[j], u[j - 1], f[k])
      <4>1. CASE j = k
        <5>1. j - 1 = m + 1 BY <3>0, <4>1
        <5> QED BY <3>5, <3>8, <4>1, <5>1
      <4>2. CASE j # k
        <5>1. j \in 1 .. m + 1 BY <3>0, <4>2
        <5>2. Stands(parts[j], u[j - 1], a) BY <3>1, <3>4, <5>1
        <5>3. Stands(parts[j], 0 + u[j - 1], f[k]) BY <3>8, <5>2, StandsWithin
        <5>4. u[j - 1] \in Nat BY <5>2 DEF Stands
        <5>5. 0 + u[j - 1] = u[j - 1] BY <5>4
        <5> QED BY <5>3, <5>5
      <4> QED BY <4>1, <4>2
    <3> HIDE DEF T
    <3> QED BY <3>0, <3>7, <3>9
  <2> HIDE DEF T
  <2>9. n - 1 \in T
    <3>1. n - 1 \in Nat BY <1>4
    <3> QED BY <2>7, <2>8, <3>1, Induct
  <2>10. Fits(n)
    <3>1. n - 1 + 1 = n OBVIOUS
    <3> QED BY <2>9, <3>1 DEF T
  <2> QED BY <1>1, <1>2, <2>1, <2>10
<1> QED BY <1>3, <1>4

-----------------------------------------------------------------------------
(* Numbers in bytes.                                                       *)

(* A function on 0 .. n is defined by its first value and what it makes of *)
(* each value.                                                             *)
Recurs(g, S, n, first, F) ==
    g \in [0 .. n -> S] /\ g[0] = first /\ \A i \in 1 .. n : g[i] = F[i][g[i - 1]]

LEMMA Recursion ==
    ASSUME NEW S, NEW first \in S, NEW n \in Nat, NEW F \in [1 .. n -> [S -> S]]
    PROVE  \E g : Recurs(g, S, n, first, F)
<1> DEFINE T == {m \in Nat : m <= n => \E g : Recurs(g, S, m, first, F)}
<1>1. 0 \in T
  <2> DEFINE g == [i \in 0 .. 0 |-> first]
  <2>1. Recurs(g, S, 0, first, F)
    BY DEF Recurs
  <2> QED
    BY <2>1
<1>2. ASSUME NEW m \in Nat, m \in T
      PROVE  m + 1 \in T
  <2> SUFFICES ASSUME m + 1 <= n
               PROVE  \E g : Recurs(g, S, m + 1, first, F)
    OBVIOUS
  <2>1. PICK g : Recurs(g, S, m, first, F)
    BY <1>2
  <2>2. PICK next : next = F[m + 1][g[m]]
    OBVIOUS
  <2> DEFINE h == [i \in 0 .. m + 1 |-> IF i <= m THEN g[i] ELSE next]
  <2>3. next \in S
    BY <2>1, <2>2 DEF Recurs
  <2>4. h \in [0 .. m + 1 -> S] /\ (\A i \in 0 .. m : h[i] = g[i]) /\ h[m + 1] = next
    BY <2>1, <2>3 DEF Recurs
  <2> HIDE DEF h
  <2>5. \A i \in 1 .. m + 1 : h[i] = F[i][h[i - 1]]
    <3> TAKE i \in 1 .. m + 1
    <3>1. CASE i = m + 1
      BY <2>2, <2>4, <3>1
    <3>2. CASE i \in 1 .. m
      <4>1. h[i] = g[i] /\ h[i - 1] = g[i - 1]
        BY <2>4, <3>2
      <4> QED
        BY <2>1, <3>2, <4>1 DEF Recurs
    <3> QED
      BY <3>1, <3>2
  <2>6. h[0] = first
    BY <2>1, <2>4 DEF Recurs
  <2> QED
    BY <2>4, <2>5, <2>6 DEF Recurs
<1> HIDE DEF T
<1>3. n \in T
  BY <1>1, <1>2, Induct
<1> QED
  BY <1>3 DEF T

(* What the recursive definitions of bytes are.                            *)
Divides(q, v, n) ==
    /\ q \in [1 .. n -> Int] /\ (n > 0 => q[1] = v)
    /\ \A i \in 2 .. n : q[i] = q[i - 1] \div 256

SumsUp(w, bytes, from, n, signed) ==
    /\ w \in [0 .. n - 1 -> Int]
    /\ LET top == Byte(bytes, from + n - 1)
       IN  w[n - 1] = IF signed /\ top >= 128 THEN top - 256 ELSE top
    /\ \A i \in 0 .. n - 2 : w[i] = Byte(bytes, from + i) + 256 * w[i + 1]

SumsDown(w, bytes, from, n) ==
    /\ w \in [0 .. n -> Int] /\ w[0] = 0
    /\ \A i \in 1 .. n : w[i] = 256 * w[i - 1] + Byte(bytes, from + i - 1)

LEMMA QuotientsDivide ==
    ASSUME NEW v \in Int, NEW n \in Nat
    PROVE  Divides(Quotients(v, n), v, n)
<1> DEFINE F == [i \in 1 .. n |-> [x \in Int |-> x \div 256]]
           q == Quotients(v, n)
<1>1. F \in [1 .. n -> [Int -> Int]] /\ \A i \in 1 .. n, x \in Int : F[i][x] = x \div 256
  OBVIOUS
<1> HIDE DEF F
<1>2. PICK g : Recurs(g, Int, n, v, F)
  BY <1>1, Recursion
<1> DEFINE h == [i \in 1 .. n |-> g[i - 1]]
<1>3. /\ h \in [1 .. n -> Int]
      /\ n > 0 => h[1] = v
      /\ \A i \in 2 .. n : h[i] = h[i - 1] \div 256
  <2>1. \A i \in 0 .. n : g[i] \in Int
    BY <1>2 DEF Recurs
  <2>2. \A i \in 1 .. n : g[i] = g[i - 1] \div 256
    <3> TAKE i \in 1 .. n
    <3>1. g[i - 1] \in Int /\ g[i] = F[i][g[i - 1]]
      BY <1>2, <2>1 DEF Recurs
    <3> QED
      BY <1>1, <3>1, ZenonT(60)
  <2> QED
    BY <1>2, <2>1, <2>2 DEF Recurs
<1> HIDE DEF h
<1>4. h = [i \in 1 .. n |-> IF i = 1 THEN v ELSE h[i - 1] \div 256]
  BY <1>3
<1>5. q = [i \in 1 .. n |-> IF i = 1 THEN v ELSE q[i - 1] \div 256]
  BY <1>4, ZenonT(30) DEF Quotients
<1> HIDE DEF q
<1>6. (n > 0 => q[1] = v) /\ \A i \in 2 .. n : q[i] = q[i - 1] \div 256
  BY <1>5
<1> DEFINE T == {m \in Nat : m + 1 <= n => q[m + 1] \in Int}
<1>7. 0 \in T
  BY <1>6
<1>8. ASSUME NEW m \in Nat, m \in T
      PROVE  m + 1 \in T
  BY <1>6, <1>8
<1> HIDE DEF T
<1>9. \A i \in 1 .. n : i - 1 \in T /\ i = (i - 1) + 1
  BY <1>7, <1>8, Induct
<1>10. \A i \in 1 .. n : q[i] \in Int
  BY <1>9 DEF T
<1> QED
  BY <1>5, <1>6, <1>10 DEF q, Divides

LEMMA LittleEndianIs ==
    ASSUME NEW bytes, NEW from \in Nat, NEW n \in Nat \ {0}, NEW signed \in BOOLEAN,
           \A i \in 0 .. n - 1 : Byte(bytes, from + i) \in Int
    PROVE  \E v : SumsUp(v, bytes, from, n, signed) /\ LittleEndian(bytes, from, n, signed) = v[0]
<1> DEFINE top == Byte(bytes, from + n - 1)
           last == IF signed /\ top >= 128 THEN top - 256 ELSE top
           F == [i \in 1 .. n - 1 |-> [x \in Int |-> Byte(bytes, from + n - 1 - i) + 256 * x]]
<1>0. last \in Int
  BY from + n - 1 = from + (n - 1) 
<1>1. /\ F \in [1 .. n - 1 -> [Int -> Int]]
      /\ \A i \in 1 .. n - 1, x \in Int : F[i][x] = Byte(bytes, from + n - 1 - i) + 256 * x
  <2>1. \A i \in 1 .. n - 1 : Byte(bytes, from + n - 1 - i) \in Int
    <3> TAKE i \in 1 .. n - 1
    <3>1. n - 1 - i \in 0 .. n - 1 /\ from + n - 1 - i = from + (n - 1 - i)
      OBVIOUS
    <3> QED
      BY <3>1
  <2> QED
    BY <2>1
<1> HIDE DEF F
<1>2. PICK g : Recurs(g, Int, n - 1, last, F)
  <2>1. n - 1 \in Nat
    OBVIOUS
  <2> HIDE DEF last
  <2> QED
    BY <1>0, <1>1, <2>1, Recursion
<1> DEFINE h == [i \in 0 .. n - 1 |-> g[n - 1 - i]]
<1>3. \A i \in 0 .. n - 1 : g[i] \in Int
  BY <1>2 DEF Recurs
<1>4. \A i \in 1 .. n - 1 : g[i] = Byte(bytes, from + n - 1 - i) + 256 * g[i - 1]
  <2> TAKE i \in 1 .. n - 1
  <2>1. g[i - 1] \in Int /\ g[i] = F[i][g[i - 1]]
    BY <1>2, <1>3 DEF Recurs
  <2> QED
    BY <1>1, <2>1, ZenonT(60)
<1>5. h \in [0 .. n - 1 -> Int]
  BY <1>3
<1>6. h[n - 1] = last
  BY <1>2 DEF Recurs
<1>7. \A i \in 0 .. n - 2 : h[i] = Byte(bytes, from + i) + 256 * h[i + 1]
  <2> TAKE i \in 0 .. n - 2
  <2>1. /\ n - 1 - i \in 1 .. n - 1 /\ from + n - 1 - (n - 1 - i) = from + i
        /\ n - 1 - i - 1 = n - 1 - (i + 1)
    OBVIOUS
  <2>2. g[n - 1 - i] = Byte(bytes, from + i) + 256 * g[n - 1 - (i + 1)]
    BY <1>4, <2>1
  <2> QED
    BY <2>2
<1> HIDE DEF h
<1> DEFINE v == CHOOSE v : v = [i \in 0 .. n - 1 |->
                    IF i < n - 1 THEN Byte(bytes, from + i) + 256 * v[i + 1] ELSE last]
<1>8. h = [i \in 0 .. n - 1 |-> IF i < n - 1 THEN Byte(bytes, from + i) + 256 * h[i + 1] ELSE last]
  <2> HIDE DEF last
  <2>1. ASSUME NEW i \in 0 .. n - 1
        PROVE  h[i] = IF i < n - 1 THEN Byte(bytes, from + i) + 256 * h[i + 1] ELSE last
    <3>1. CASE i < n - 1
      <4>1. i \in 0 .. n - 2 BY <3>1
      <4> QED BY <1>7, <3>1, <4>1
    <3>2. CASE ~(i < n - 1)
      <4>1. i = n - 1 BY <3>2
      <4> QED BY <1>6, <3>2, <4>1
    <3> QED BY <3>1, <3>2
  <2> QED BY <1>5, <2>1
<1>9. v = [i \in 0 .. n - 1 |-> IF i < n - 1 THEN Byte(bytes, from + i) + 256 * v[i + 1] ELSE last]
  BY <1>8, ZenonT(30)
<1>10. LittleEndian(bytes, from, n, signed) = v[0]
  BY DEF LittleEndian
<1> HIDE DEF v
<1>11. /\ v[n - 1] = last
       /\ \A i \in 0 .. n - 2 : v[i] = Byte(bytes, from + i) + 256 * v[i + 1]
  BY <1>9
<1> DEFINE T == {m \in Nat : m <= n - 1 => v[n - 1 - m] \in Int}
<1>12. 0 \in T
  BY <1>0, <1>11
<1>13. ASSUME NEW m \in Nat, m \in T
       PROVE  m + 1 \in T
  <2> SUFFICES ASSUME m + 1 <= n - 1 PROVE v[n - 1 - (m + 1)] \in Int
    OBVIOUS
  <2>1. /\ n - 1 - (m + 1) \in 0 .. n - 2 /\ n - 1 - (m + 1) + 1 = n - 1 - m
        /\ n - 1 - (m + 1) \in 0 .. n - 1
    OBVIOUS
  <2>2. v[n - 1 - m] \in Int
    BY <1>13
  <2>3. v[n - 1 - (m + 1)] = Byte(bytes, from + (n - 1 - (m + 1))) + 256 * v[n - 1 - m]
    BY <1>11, <2>1
  <2>4. Byte(bytes, from + (n - 1 - (m + 1))) \in Int
    BY <2>1
  <2> QED
    BY <2>2, <2>3, <2>4
<1> HIDE DEF T
<1>14. \A i \in 0 .. n - 1 : n - 1 - i \in T /\ n - 1 - (n - 1 - i) = i
  BY <1>12, <1>13, Induct
<1>15. \A i \in 0 .. n - 1 : v[i] \in Int
  BY <1>14 DEF T
<1> QED
  BY <1>9, <1>10, <1>11, <1>15, ZenonT(60) DEF SumsUp
LEMMA BigEndianIs ==
  ASSUME NEW bytes, NEW from \in Nat, NEW n \in Nat,
         \A i \in 0 .. n - 1 : Byte(bytes, from + i) \in Int
  PROVE  \E v : SumsDown(v, bytes, from, n) /\ BigEndian(bytes, from, n) = v[n]
<1> DEFINE F == [i \in 1 .. n |-> [x \in Int |-> 256 * x + Byte(bytes, from + i - 1)]]
<1>1. \A i \in 1 .. n : Byte(bytes, from + i - 1) \in Int
  <2> TAKE i \in 1 .. n
  <2>1. i - 1 \in 0 .. n - 1 /\ from + i - 1 = from + (i - 1)
    OBVIOUS
  <2> QED
    BY <2>1
<1>2. \A i \in 1 .. n, x \in Int : F[i][x] = 256 * x + Byte(bytes, from + i - 1)
  OBVIOUS
<1>3. PICK h : Recurs(h, Int, n, 0, F)
  <2>1. \A b \in Int : [x \in Int |-> 256 * x + b] \in [Int -> Int]
    OBVIOUS
  <2>2. F \in [1 .. n -> [Int -> Int]]
    BY <1>1, <2>1
  <2>3. PICK zero \in Int : zero = 0
    OBVIOUS
  <2> HIDE DEF F
  <2>4. \E h : Recurs(h, Int, n, zero, F)
    BY <2>2, Recursion
  <2> QED
    BY <2>3, <2>4
<1> HIDE DEF F
<1>4. /\ h \in [0 .. n -> Int] /\ h[0] = 0
      /\ \A i \in 1 .. n : h[i] = 256 * h[i - 1] + Byte(bytes, from + i - 1)
  <2>1. h \in [0 .. n -> Int] /\ h[0] = 0 /\ \A i \in 1 .. n : h[i] = F[i][h[i - 1]]
    BY <1>3 DEF Recurs
  <2>2. \A i \in 1 .. n : h[i - 1] \in Int
    BY <2>1
  <2> QED
    BY <1>2, <2>1, <2>2, ZenonT(60)
<1> DEFINE v == CHOOSE v : v = [i \in 0 .. n |->
                    IF i = 0 THEN 0 ELSE 256 * v[i - 1] + Byte(bytes, from + i - 1)]
<1>5. h = [i \in 0 .. n |-> IF i = 0 THEN 0 ELSE 256 * h[i - 1] + Byte(bytes, from + i - 1)]
  BY <1>4
<1>6. v = [i \in 0 .. n |-> IF i = 0 THEN 0 ELSE 256 * v[i - 1] + Byte(bytes, from + i - 1)]
  BY <1>5, ZenonT(30)
<1>7. BigEndian(bytes, from, n) = v[n]
  BY DEF BigEndian
<1> HIDE DEF v
<1>8. v[0] = 0 /\ \A i \in 1 .. n : v[i] = 256 * v[i - 1] + Byte(bytes, from + i - 1)
  BY <1>6
<1> DEFINE T == {m \in Nat : m <= n => v[m] \in Int}
<1>9. 0 \in T
  BY <1>8
<1>10. ASSUME NEW m \in Nat, m \in T
       PROVE  m + 1 \in T
  <2> SUFFICES ASSUME m + 1 <= n PROVE v[m + 1] \in Int
    OBVIOUS
  <2>1. m + 1 \in 1 .. n /\ v[m + 1 - 1] = v[m] /\ v[m] \in Int
    BY <1>10
  <2> QED
    BY <1>1, <1>8, <2>1
<1> HIDE DEF T
<1>11. \A i \in 0 .. n : v[i] \in Int
  <2>1. \A i \in 0 .. n : i \in T
    BY <1>9, <1>10, Induct
  <2> QED
    BY <2>1 DEF T
<1> QED
  BY <1>6, <1>7, <1>8, <1>11, SMTT(30) DEF SumsDown

LEMMA LeastFirstIs ==
    ASSUME NEW v \in Int, NEW n \in Nat
    PROVE  /\ LeastFirst(v, n) \in Seq(0 .. 255) /\ Len(LeastFirst(v, n)) = n
           /\ MostFirst(v, n) \in Seq(0 .. 255) /\ Len(MostFirst(v, n)) = n
           /\ \A i \in 1 .. n : LeastFirst(v, n)[i] = Quotients(v, n)[i] % 256
           /\ \A i \in 1 .. n : MostFirst(v, n)[i] = Quotients(v, n)[n - i + 1] % 256
<1> DEFINE l == LeastFirst(v, n)
           m == MostFirst(v, n)
<1>1. PICK q \in [1 .. n -> Int] : q = Quotients(v, n)
  BY QuotientsDivide DEF Divides
<1>2. l = [i \in 1 .. n |-> q[i] % 256]
  BY <1>1 DEF LeastFirst
<1>3. \A i \in 1 .. n : q[i] % 256 \in 0 .. 255
  <2>1. \A x \in Int : x % 256 \in 0 .. 255
    OBVIOUS
  <2> QED
    BY <2>1
<1>4. l \in Seq(0 .. 255) /\ Len(l) = n /\ \A i \in 1 .. n : l[i] = q[i] % 256
  BY <1>2, <1>3
<1>5. m = [i \in 1 .. n |-> l[n - i + 1]]
  BY <1>4 DEF MostFirst, Reverse
<1> HIDE DEF l, m
<1>6. \A i \in 1 .. n : n - i + 1 \in 1 .. n /\ m[i] = q[n - i + 1] % 256
  BY <1>4, <1>5
<1>7. m \in Seq(0 .. 255) /\ Len(m) = n
  BY <1>3, <1>5, <1>6
<1> QED
  BY <1>1, <1>4, <1>6, <1>7 DEF l, m
LEMMA Remainder ==
  \A x \in Int : /\ x % 256 \in 0 .. 255
                /\ 256 * (x \div 256) + (x % 256) = x
                /\ (x % 256) + 256 * (x \div 256) = x
  OBVIOUS

(* What is read are the quotients, and at last the number.                 *)
LEMMA LittleEndianReads ==
    ASSUME NEW bytes, NEW at, NEW n \in Nat \ {0}, NEW signed \in BOOLEAN, NEW v,
           HasBytes(v, n, signed), Stands(LeastFirst(v, n), at, bytes)
    PROVE  LittleEndian(bytes, at, n, signed) = v
<1>0. v \in Int /\ at \in Nat
  BY DEF HasBytes, Stands
<1>1. PICK q : q = Quotients(v, n) /\ Divides(q, v, n)
  BY <1>0, QuotientsDivide
<1>2. q \in [1 .. n -> Int] /\ q[1] = v /\ \A i \in 2 .. n : q[i] = q[i - 1] \div 256
  BY <1>1 DEF Divides
<1>3. \A i \in 0 .. n - 1 : Byte(bytes, at + i) = q[i + 1] % 256
  <2> TAKE i \in 0 .. n - 1
  <2>0. Len(LeastFirst(v, n)) = n /\ i + 1 \in 1 .. n
    BY <1>0, LeastFirstIs
  <2>1. Byte(bytes, at + i) = LeastFirst(v, n)[i + 1]
    BY <2>0, StandingByte
  <2>2. LeastFirst(v, n)[i + 1] = Quotients(v, n)[i + 1] % 256
    BY <1>0, <2>0, LeastFirstIs, SMTT(30)
  <2> QED
    BY <1>1, <2>1, <2>2
<1>5. \A i \in 0 .. n - 1 : Byte(bytes, at + i) \in Int
  <2> TAKE i \in 0 .. n - 1
  <2>1. q[i + 1] \in Int /\ Byte(bytes, at + i) = q[i + 1] % 256
    BY <1>2, <1>3
  <2> QED
    BY <2>1
<1> DEFINE top == Byte(bytes, at + n - 1)
<1>6. PICK w : SumsUp(w, bytes, at, n, signed) /\ LittleEndian(bytes, at, n, signed) = w[0]
  BY <1>0, <1>5, LittleEndianIs
<1>7. top = q[n] % 256
  <2>1. at + n - 1 = at + (n - 1) /\ n - 1 \in 0 .. n - 1 /\ n - 1 + 1 = n
    BY <1>0
  <2> QED
    BY <1>3, <2>1
<1>8. w[n - 1] = q[n]
  <2>1. q[n] \in IF signed THEN -128 .. 127 ELSE 0 .. 255
    BY <1>1 DEF HasBytes
  <2>2. \A x \in 0 .. 255 : x % 256 = x
    OBVIOUS
  <2>3. \A x \in -128 .. -1 : x % 256 = x + 256
    OBVIOUS
  <2> HIDE DEF top
  <2>4. w[n - 1] = IF signed /\ top >= 128 THEN top - 256 ELSE top
    BY <1>6 DEF SumsUp, top
  <2>5. CASE signed
    <3>1. q[n] \in -128 .. -1 \/ q[n] \in 0 .. 127
      BY <2>1, <2>5
    <3>2. CASE q[n] \in -128 .. -1
      BY <1>7, <2>3, <2>4, <2>5, <3>2
    <3>3. CASE q[n] \in 0 .. 127
      BY <1>7, <2>2, <2>4, <2>5, <3>3
    <3> QED
      BY <3>1, <3>2, <3>3
  <2>6. CASE ~signed
    BY <1>7, <2>1, <2>2, <2>4, <2>6
  <2> QED
    BY <2>5, <2>6
<1> HIDE DEF top
<1> DEFINE T == {m \in Nat : m <= n - 1 => w[n - 1 - m] = q[n - m]}
<1>9. 0 \in T
  BY <1>8
<1>10. ASSUME NEW m \in Nat, m \in T
       PROVE  m + 1 \in T
  <2> SUFFICES ASSUME m + 1 <= n - 1 PROVE w[n - 1 - (m + 1)] = q[n - (m + 1)]
    OBVIOUS
  <2>1. PICK i \in 0 .. n - 2 : i = n - 1 - (m + 1)
    OBVIOUS
  <2>2. i + 1 = n - 1 - m /\ i + 1 = n - (m + 1) /\ i + 2 = n - m /\ i + 2 \in 2 .. n
        /\ i + 2 - 1 = i + 1 /\ i + 1 \in 1 .. n
    BY <2>1
  <2>3. w[i + 1] = q[i + 2]
    BY <1>10, <2>2
  <2>4. w[i] = (q[i + 1] % 256) + 256 * (q[i + 1] \div 256)
    BY <1>2, <1>3, <1>6, <2>2, <2>3 DEF SumsUp
  <2>5. w[i] = q[i + 1]
    BY <1>2, <2>2, <2>4, Remainder
  <2> QED
    BY <2>1, <2>2, <2>5
<1> HIDE DEF T
<1>11. n - 1 \in T
  <2>1. n - 1 \in Nat
    OBVIOUS
  <2> QED
    BY <1>9, <1>10, <2>1, Induct
<1>12. w[0] = q[1]
  BY <1>11 DEF T
<1> QED
  BY <1>2, <1>6, <1>12

LEMMA BigEndianReads ==
    ASSUME NEW bytes, NEW at, NEW n \in Nat \ {0}, NEW v,
           HasBytes(v, n, FALSE), Stands(MostFirst(v, n), at, bytes)
    PROVE  BigEndian(bytes, at, n) = v
<1>0. v \in Int /\ at \in Nat
  BY DEF HasBytes, Stands
<1>1. PICK q : q = Quotients(v, n) /\ Divides(q, v, n)
  BY <1>0, QuotientsDivide
<1>2. q \in [1 .. n -> Int] /\ q[1] = v /\ \A i \in 2 .. n : q[i] = q[i - 1] \div 256
  BY <1>1 DEF Divides
<1>3. \A i \in 1 .. n : Byte(bytes, at + i - 1) = q[n - i + 1] % 256
  <2> TAKE i \in 1 .. n
  <2>1. i - 1 \in 0 .. n - 1 /\ at + (i - 1) = at + i - 1 /\ i - 1 + 1 = i
    BY <1>0
  <2>2. Len(MostFirst(v, n)) = n
    BY <1>0, LeastFirstIs
  <2>3. Byte(bytes, at + (i - 1)) = MostFirst(v, n)[i - 1 + 1]
    BY <2>1, <2>2, StandingByte
  <2>4. MostFirst(v, n)[i] = Quotients(v, n)[n - i + 1] % 256
    BY <1>0, LeastFirstIs
  <2> QED
    BY <1>1, <2>1, <2>3, <2>4
<1>5. \A i \in 0 .. n - 1 : Byte(bytes, at + i) \in Int
  <2> TAKE i \in 0 .. n - 1
  <2>1. i + 1 \in 1 .. n /\ at + (i + 1) - 1 = at + i /\ n - (i + 1) + 1 \in 1 .. n
    BY <1>0
  <2>2. Byte(bytes, at + i) = q[n - (i + 1) + 1] % 256
    BY <1>3, <2>1
  <2>3. q[n - (i + 1) + 1] \in Int
    BY <1>2, <2>1
  <2> QED
    BY <2>2, <2>3
<1>6. PICK w : SumsDown(w, bytes, at, n) /\ BigEndian(bytes, at, n) = w[n]
  BY <1>0, <1>5, BigEndianIs
<1>7. q[n] \in 0 .. 255
  BY <1>1 DEF HasBytes
<1> DEFINE T == {m \in Nat : m + 1 <= n => w[m + 1] = q[n - m]}
<1>8. 0 \in T
  <2>0. 1 \in 1 .. n /\ 1 - 1 = 0 /\ n - 1 + 1 = n
    OBVIOUS
  <2>1. Byte(bytes, at + 1 - 1) = q[n] % 256 /\ w[0] = 0
    BY <1>3, <1>6, <2>0 DEF SumsDown
  <2>2. w[1] = 256 * w[1 - 1] + Byte(bytes, at + 1 - 1)
    BY <1>6, <2>0 DEF SumsDown
  <2>3. w[1] = 256 * 0 + (q[n] % 256)
    BY <2>0, <2>1, <2>2
  <2> QED
    BY <1>7, <2>3
<1>9. ASSUME NEW m \in Nat, m \in T
      PROVE  m + 1 \in T
  <2> SUFFICES ASSUME m + 1 + 1 <= n PROVE w[m + 1 + 1] = q[n - (m + 1)]
    OBVIOUS
  <2>1. PICK i \in 2 .. n : i = m + 2
    OBVIOUS
  <2>2. i - 1 = m + 1 /\ n - i + 1 = n - (m + 1) /\ n - m = n - i + 2 /\ n - i + 2 \in 2 .. n
        /\ n - i + 2 - 1 = n - i + 1 /\ n - i + 1 \in 1 .. n
    BY <2>1
  <2>3. w[i - 1] = q[n - i + 2]
    BY <1>9, <2>2
  <2>4. w[i] = 256 * (q[n - i + 1] \div 256) + (q[n - i + 1] % 256)
    BY <1>2, <1>3, <1>6, <2>2, <2>3 DEF SumsDown
  <2>5. q[n - i + 1] \in Int
    BY <1>2, <2>2
  <2>6. w[i] = q[n - i + 1]
    BY <2>4, <2>5, Remainder
  <2> QED
    BY <2>1, <2>2, <2>6
<1> HIDE DEF T
<1>10. n - 1 \in T
  <2>1. n - 1 \in Nat
    OBVIOUS
  <2> QED
    BY <1>8, <1>9, <2>1, Induct
<1>11. w[n] = q[1]
  BY <1>10 DEF T
<1> QED
  BY <1>2, <1>6, <1>11

-----------------------------------------------------------------------------
(* Bitmaps.                                                                *)

LEMMA BitmapByteIs ==
    ASSUME NEW set, NEW n \in Nat, NEW spare \in BOOLEAN, NEW k \in Nat
    PROVE  /\ BitmapByte(set, n, spare, k) \in 0 .. 255
           /\ \A j \in 0 .. 7 :
                  (BitmapByte(set, n, spare, k) \div 2 ^ j) % 2 = 1
                     <=> IsOn(set, n, spare, 8 * k + j)
<1> DEFINE On(i) == IsOn(set, n, spare, 8 * k + i - 1)
           add == [i \in 1 .. 8 |-> IF On(i) THEN 2 ^ (i - 1) ELSE 0]
           F == [i \in 1 .. 8 |-> [x \in Int |-> x + add[i]]]
<1>1. /\ add[1] = IF On(1) THEN 1 ELSE 0
      /\ add[2] = IF On(2) THEN 2 ELSE 0
      /\ add[3] = IF On(3) THEN 4 ELSE 0
      /\ add[4] = IF On(4) THEN 8 ELSE 0
      /\ add[5] = IF On(5) THEN 16 ELSE 0
      /\ add[6] = IF On(6) THEN 32 ELSE 0
      /\ add[7] = IF On(7) THEN 64 ELSE 0
      /\ add[8] = IF On(8) THEN 128 ELSE 0
  <2> HIDE DEF On
  <2> QED OBVIOUS
<1>2. \A i \in 1 .. 8 : add[i] = IF On(i) THEN 2 ^ (i - 1) ELSE 0
  <2> HIDE DEF On
  <2> QED OBVIOUS
<1> HIDE DEF On, add
<1>3. \A i \in 1 .. 8 : add[i] \in Int
  BY <1>1
<1>4. PICK g : Recurs(g, Int, 8, 0, F)
  <2>1. F \in [1 .. 8 -> [Int -> Int]] BY <1>3
  <2>2. PICK zero \in Int, eight \in Nat : zero = 0 /\ eight = 8 OBVIOUS
  <2> HIDE DEF F
  <2>3. F \in [1 .. eight -> [Int -> Int]] BY <2>1, <2>2
  <2>4. \E g : Recurs(g, Int, eight, zero, F) BY <2>3, Recursion
  <2> QED BY <2>2, <2>4
<1>5. \A i \in 1 .. 8, x \in Int : F[i][x] = x + add[i] BY <1>3
<1> HIDE DEF F
<1>6. g \in [0 .. 8 -> Int] /\ g[0] = 0 /\ \A i \in 1 .. 8 : g[i] = g[i - 1] + add[i]
  BY <1>4, <1>5 DEF Recurs
<1> DEFINE w == CHOOSE w : w = [i \in 0 .. 8 |->
                  IF i = 0 THEN 0 ELSE w[i - 1] + (IF On(i) THEN 2 ^ (i - 1) ELSE 0)]
<1>7. g = [i \in 0 .. 8 |->
             IF i = 0 THEN 0 ELSE g[i - 1] + (IF On(i) THEN 2 ^ (i - 1) ELSE 0)]
  BY <1>2, <1>6
<1>8. w = [i \in 0 .. 8 |->
             IF i = 0 THEN 0 ELSE w[i - 1] + (IF On(i) THEN 2 ^ (i - 1) ELSE 0)]
  BY <1>7, Zenon
<1>9. BitmapByte(set, n, spare, k) = w[8] BY DEF BitmapByte, On
<1> HIDE DEF w
<1>10. w[0] = 0 /\ \A i \in 1 .. 8 : w[i] = w[i - 1] + add[i] BY <1>2, <1>8
<1>11. w[8] = 0 + add[1] + add[2] + add[3] + add[4] + add[5] + add[6] + add[7] + add[8]
  BY <1>1, <1>10
<1>12. \A j \in 0 .. 7 : (w[8] \div 2 ^ j) % 2 = 1 <=> On(j + 1)
  <2>1. PICK b1 \in {0, 1}, b2 \in {0, 1}, b3 \in {0, 1}, b4 \in {0, 1},
             b5 \in {0, 1}, b6 \in {0, 1}, b7 \in {0, 1}, b8 \in {0, 1} :
             /\ add[1] = 1 * b1 /\ (b1 = 1 <=> On(1))
             /\ add[2] = 2 * b2 /\ (b2 = 1 <=> On(2))
             /\ add[3] = 4 * b3 /\ (b3 = 1 <=> On(3))
             /\ add[4] = 8 * b4 /\ (b4 = 1 <=> On(4))
             /\ add[5] = 16 * b5 /\ (b5 = 1 <=> On(5))
             /\ add[6] = 32 * b6 /\ (b6 = 1 <=> On(6))
             /\ add[7] = 64 * b7 /\ (b7 = 1 <=> On(7))
             /\ add[8] = 128 * b8 /\ (b8 = 1 <=> On(8))
    <3>1. \A m \in Int : m * 1 = m /\ m * 0 = 0 OBVIOUS
    <3> DEFINE b(i) == IF On(i) THEN 1 ELSE 0
    <3>2. /\ b(1) \in {0, 1} /\ b(2) \in {0, 1} /\ b(3) \in {0, 1} /\ b(4) \in {0, 1}
          /\ b(5) \in {0, 1} /\ b(6) \in {0, 1} /\ b(7) \in {0, 1} /\ b(8) \in {0, 1}
      OBVIOUS
    <3>3. /\ add[1] = 1 * b(1) /\ (b(1) = 1 <=> On(1))
          /\ add[2] = 2 * b(2) /\ (b(2) = 1 <=> On(2))
          /\ add[3] = 4 * b(3) /\ (b(3) = 1 <=> On(3))
          /\ add[4] = 8 * b(4) /\ (b(4) = 1 <=> On(4))
          /\ add[5] = 16 * b(5) /\ (b(5) = 1 <=> On(5))
          /\ add[6] = 32 * b(6) /\ (b(6) = 1 <=> On(6))
          /\ add[7] = 64 * b(7) /\ (b(7) = 1 <=> On(7))
          /\ add[8] = 128 * b(8) /\ (b(8) = 1 <=> On(8))
      BY <1>1, <3>1
    <3> HIDE DEF b
    <3> QED BY <3>2, <3>3
  <2>a. (w[8] \div 1) % 2 = 1 <=> On(1)
    <3>1. w[8] = 0 + 1 * b1 + 2 * (b2 + 2 * b3 + 4 * b4 + 8 * b5 + 16 * b6 + 32 * b7 + 64 * b8)
      BY <1>11, <2>1
    <3>2. 0 \in 0 .. 0 /\ (b2 + 2 * b3 + 4 * b4 + 8 * b5 + 16 * b6 + 32 * b7 + 64 * b8) \in Nat
      BY <2>1
    <3>3. ASSUME NEW lo \in 0 .. 0, NEW b \in {0, 1}, NEW hi \in Nat
          PROVE  ((lo + 1 * b + 2 * hi) \div 1) % 2 = b
      <4>1. PICK x \in Nat : x = b + 2 * hi OBVIOUS
      <4>2. x % 2 = b BY <4>1
      <4>3. lo + 1 * b + 2 * hi = lo + 1 * x BY <4>1
      <4>4. (lo + 1 * x) \div 1 = x OBVIOUS
      <4> QED BY <4>2, <4>3, <4>4
    <3>4. (w[8] \div 1) % 2 = b1 BY <2>1, <3>1, <3>2, <3>3
    <3> QED BY <2>1, <3>4
  <2>b. (w[8] \div 2) % 2 = 1 <=> On(2)
    <3>1. w[8] = b1 + 2 * b2 + 4 * (b3 + 2 * b4 + 4 * b5 + 8 * b6 + 16 * b7 + 32 * b8)
      BY <1>11, <2>1
    <3>2. b1 \in 0 .. 1 /\ (b3 + 2 * b4 + 4 * b5 + 8 * b6 + 16 * b7 + 32 * b8) \in Nat BY <2>1
    <3>3. ASSUME NEW lo \in 0 .. 1, NEW b \in {0, 1}, NEW hi \in Nat
          PROVE  ((lo + 2 * b + 4 * hi) \div 2) % 2 = b
      <4>1. PICK x \in Nat : x = b + 2 * hi OBVIOUS
      <4>2. x % 2 = b BY <4>1
      <4>3. lo + 2 * b + 4 * hi = lo + 2 * x BY <4>1
      <4>4. (lo + 2 * x) \div 2 = x OBVIOUS
      <4> QED BY <4>2, <4>3, <4>4
    <3>4. (w[8] \div 2) % 2 = b2 BY <2>1, <3>1, <3>2, <3>3
    <3> QED BY <2>1, <3>4
  <2>c. (w[8] \div 4) % 2 = 1 <=> On(3)
    <3>1. w[8] = (b1 + 2 * b2) + 4 * b3 + 8 * (b4 + 2 * b5 + 4 * b6 + 8 * b7 + 16 * b8)
      BY <1>11, <2>1
    <3>2. (b1 + 2 * b2) \in 0 .. 3 /\ (b4 + 2 * b5 + 4 * b6 + 8 * b7 + 16 * b8) \in Nat BY <2>1
    <3>3. ASSUME NEW lo \in 0 .. 3, NEW b \in {0, 1}, NEW hi \in Nat
          PROVE  ((lo + 4 * b + 8 * hi) \div 4) % 2 = b
      <4>1. PICK x \in Nat : x = b + 2 * hi OBVIOUS
      <4>2. x % 2 = b BY <4>1
      <4>3. lo + 4 * b + 8 * hi = lo + 4 * x BY <4>1
      <4>4. (lo + 4 * x) \div 4 = x OBVIOUS
      <4> QED BY <4>2, <4>3, <4>4
    <3>4. (w[8] \div 4) % 2 = b3 BY <2>1, <3>1, <3>2, <3>3
    <3> QED BY <2>1, <3>4
  <2>d. (w[8] \div 8) % 2 = 1 <=> On(4)
    <3>1. w[8] = (b1 + 2 * b2 + 4 * b3) + 8 * b4 + 16 * (b5 + 2 * b6 + 4 * b7 + 8 * b8)
      BY <1>11, <2>1
    <3>2. (b1 + 2 * b2 + 4 * b3) \in 0 .. 7 /\ (b5 + 2 * b6 + 4 * b7 + 8 * b8) \in Nat BY <2>1
    <3>3. ASSUME NEW lo \in 0 .. 7, NEW b \in {0, 1}, NEW hi \in Nat
          PROVE  ((lo + 8 * b + 16 * hi) \div 8) % 2 = b
      <4>1. PICK x \in Nat : x = b + 2 * hi OBVIOUS
      <4>2. x % 2 = b BY <4>1
      <4>3. lo + 8 * b + 16 * hi = lo + 8 * x BY <4>1
      <4>4. (lo + 8 * x) \div 8 = x OBVIOUS
      <4> QED BY <4>2, <4>3, <4>4
    <3>4. (w[8] \div 8) % 2 = b4 BY <2>1, <3>1, <3>2, <3>3
    <3> QED BY <2>1, <3>4
  <2>e. (w[8] \div 16) % 2 = 1 <=> On(5)
    <3>1. w[8] = (b1 + 2 * b2 + 4 * b3 + 8 * b4) + 16 * b5 + 32 * (b6 + 2 * b7 + 4 * b8)
      BY <1>11, <2>1
    <3>2. (b1 + 2 * b2 + 4 * b3 + 8 * b4) \in 0 .. 15 /\ (b6 + 2 * b7 + 4 * b8) \in Nat BY <2>1
    <3>3. ASSUME NEW lo \in 0 .. 15, NEW b \in {0, 1}, NEW hi \in Nat
          PROVE  ((lo + 16 * b + 32 * hi) \div 16) % 2 = b
      <4>1. PICK x \in Nat : x = b + 2 * hi OBVIOUS
      <4>2. x % 2 = b BY <4>1
      <4>3. lo + 16 * b + 32 * hi = lo + 16 * x BY <4>1
      <4>4. (lo + 16 * x) \div 16 = x OBVIOUS
      <4> QED BY <4>2, <4>3, <4>4
    <3>4. (w[8] \div 16) % 2 = b5 BY <2>1, <3>1, <3>2, <3>3
    <3> QED BY <2>1, <3>4
  <2>f. (w[8] \div 32) % 2 = 1 <=> On(6)
    <3>1. w[8] = (b1 + 2 * b2 + 4 * b3 + 8 * b4 + 16 * b5) + 32 * b6 + 64 * (b7 + 2 * b8)
      BY <1>11, <2>1
    <3>2. (b1 + 2 * b2 + 4 * b3 + 8 * b4 + 16 * b5) \in 0 .. 31 /\ (b7 + 2 * b8) \in Nat BY <2>1
    <3>3. ASSUME NEW lo \in 0 .. 31, NEW b \in {0, 1}, NEW hi \in Nat
          PROVE  ((lo + 32 * b + 64 * hi) \div 32) % 2 = b
      <4>1. PICK x \in Nat : x = b + 2 * hi OBVIOUS
      <4>2. x % 2 = b BY <4>1
      <4>3. lo + 32 * b + 64 * hi = lo + 32 * x BY <4>1
      <4>4. (lo + 32 * x) \div 32 = x OBVIOUS
      <4> QED BY <4>2, <4>3, <4>4
    <3>4. (w[8] \div 32) % 2 = b6 BY <2>1, <3>1, <3>2, <3>3
    <3> QED BY <2>1, <3>4
  <2>g. (w[8] \div 64) % 2 = 1 <=> On(7)
    <3>1. w[8] = (b1 + 2 * b2 + 4 * b3 + 8 * b4 + 16 * b5 + 32 * b6) + 64 * b7 + 128 * b8
      BY <1>11, <2>1
    <3>2. (b1 + 2 * b2 + 4 * b3 + 8 * b4 + 16 * b5 + 32 * b6) \in 0 .. 63 /\ b8 \in Nat BY <2>1
    <3>3. ASSUME NEW lo \in 0 .. 63, NEW b \in {0, 1}, NEW hi \in Nat
          PROVE  ((lo + 64 * b + 128 * hi) \div 64) % 2 = b
      <4>1. PICK x \in Nat : x = b + 2 * hi OBVIOUS
      <4>2. x % 2 = b BY <4>1
      <4>3. lo + 64 * b + 128 * hi = lo + 64 * x BY <4>1
      <4>4. (lo + 64 * x) \div 64 = x OBVIOUS
      <4> QED BY <4>2, <4>3, <4>4
    <3>4. (w[8] \div 64) % 2 = b7 BY <2>1, <3>1, <3>2, <3>3
    <3> QED BY <2>1, <3>4
  <2>h. (w[8] \div 128) % 2 = 1 <=> On(8)
    <3>1. w[8] = (b1 + 2 * b2 + 4 * b3 + 8 * b4 + 16 * b5 + 32 * b6 + 64 * b7) + 128 * b8 + 256 * 0
      BY <1>11, <2>1
    <3>2. (b1 + 2 * b2 + 4 * b3 + 8 * b4 + 16 * b5 + 32 * b6 + 64 * b7) \in 0 .. 127 /\ 0 \in Nat
      BY <2>1
    <3>3. ASSUME NEW lo \in 0 .. 127, NEW b \in {0, 1}, NEW hi \in Nat
          PROVE  ((lo + 128 * b + 256 * hi) \div 128) % 2 = b
      <4>1. PICK x \in Nat : x = b + 2 * hi OBVIOUS
      <4>2. x % 2 = b BY <4>1
      <4>3. lo + 128 * b + 256 * hi = lo + 128 * x BY <4>1
      <4>4. (lo + 128 * x) \div 128 = x OBVIOUS
      <4> QED BY <4>2, <4>3, <4>4
    <3>4. (w[8] \div 128) % 2 = b8 BY <2>1, <3>1, <3>2, <3>3
    <3> QED BY <2>1, <3>4
  <2> DEFINE Agrees(j) == (w[8] \div 2 ^ j) % 2 = 1 <=> On(j + 1)
  <2>3. /\ 2 ^ 0 = 1 /\ 2 ^ 1 = 2 /\ 2 ^ 2 = 4 /\ 2 ^ 3 = 8 /\ 2 ^ 4 = 16 /\ 2 ^ 5 = 32
        /\ 2 ^ 6 = 64 /\ 2 ^ 7 = 128
    OBVIOUS
  <2>4. Agrees(0) BY <2>a, <2>3
  <2>5. Agrees(1) BY <2>b, <2>3
  <2>6. Agrees(2) BY <2>c, <2>3
  <2>7. Agrees(3) BY <2>d, <2>3
  <2>8. Agrees(4) BY <2>e, <2>3
  <2>9. Agrees(5) BY <2>f, <2>3
  <2>10. Agrees(6) BY <2>g, <2>3
  <2>11. Agrees(7) BY <2>h, <2>3
  <2> HIDE DEF Agrees
  <2>12. \A j \in 0 .. 7 : Agrees(j) BY <2>4, <2>5, <2>6, <2>7, <2>8, <2>9, <2>10, <2>11
  <2> QED BY <2>12 DEF Agrees
<1>13. \A j \in 0 .. 7 : On(j + 1) <=> IsOn(set, n, spare, 8 * k + j)
  <2> TAKE j \in 0 .. 7
  <2>1. 8 * k + (j + 1) - 1 = 8 * k + j OBVIOUS
  <2> QED BY <2>1 DEF On
<1>14. w[8] \in 0 .. 255 BY <1>1, <1>11
<1> QED BY <1>9, <1>12, <1>13, <1>14

LEMMA BitmapBytesAre ==
    ASSUME NEW set, NEW n \in Nat, NEW spare \in BOOLEAN
    PROVE  /\ BitmapBytes(set, n, spare) \in Seq(0 .. 255)
           /\ Len(BitmapBytes(set, n, spare)) = byteSize(n) /\ byteSize(n) \in Nat
<1>1. (n + 7) \div 8 \in Nat OBVIOUS
<1>2. \A k \in 1 .. (n + 7) \div 8 : BitmapByte(set, n, spare, k - 1) \in 0 .. 255
  <2> TAKE k \in 1 .. (n + 7) \div 8
  <2>1. k - 1 \in Nat OBVIOUS
  <2> QED BY <2>1, BitmapByteIs
<1> QED BY <1>1, <1>2 DEF BitmapBytes, byteSize

(* A bit that is read is the bit that was written.                         *)
LEMMA BitsRead ==
    ASSUME NEW set, NEW n \in Nat, NEW spare \in BOOLEAN, NEW from,
           Stands(BitmapBytes(set, n, spare), from, data), NEW i \in 0 .. n - 1
    PROVE  Bit(newBitmap(from, n), i) <=> i \in set
<1> DEFINE b == BitmapBytes(set, n, spare)
<1>1. i \div 8 \in 0 .. byteSize(n) - 1 /\ i \div 8 \in Nat /\ i % 8 \in 0 .. 7
      /\ 8 * (i \div 8) + (i % 8) = i
  BY DEF byteSize
<1>2. Len(b) = byteSize(n) BY BitmapBytesAre
<1>3. Byte(data, from + i \div 8) = b[i \div 8 + 1]
  <2> HIDE DEF b
  <2> QED BY <1>1, <1>2, StandingByte DEF b
<1>4. b[i \div 8 + 1] = BitmapByte(set, n, spare, i \div 8)
  <2>1. i \div 8 + 1 \in 1 .. (n + 7) \div 8 /\ i \div 8 + 1 - 1 = i \div 8
    BY <1>1 DEF byteSize
  <2> QED BY <2>1 DEF BitmapBytes
<1>5. (BitmapByte(set, n, spare, i \div 8) \div 2 ^ (i % 8)) % 2 = 1
       <=> IsOn(set, n, spare, 8 * (i \div 8) + (i % 8))
  BY <1>1, BitmapByteIs, ZenonT(60)
<1>6. IsOn(set, n, spare, i) <=> i \in set BY DEF IsOn
<1>7. Bit(newBitmap(from, n), i)
       <=> (Byte(data, from + i \div 8) \div 2 ^ (i % 8)) % 2 = 1
  BY DEF Bit, newBitmap
<1> QED BY <1>1, <1>3, <1>4, <1>5, <1>6, <1>7

(* Counting the columns of an image.                                       *)

LEMMA BeforeIs ==
    ASSUME NEW n \in Nat, NEW here, here \subseteq 1 .. n
    PROVE  /\ IsFiniteSet(here) /\ Cardinality(here) \in 0 .. n
           /\ Before(here, 1) = 0 /\ Before(here, n + 1) = Cardinality(here)
           /\ \A k \in 1 .. n + 1 : Before(here, k) \in 0 .. Cardinality(here)
           /\ \A k \in 1 .. n : Before(here, k + 1)
                                  = IF k \in here THEN Before(here, k) + 1 ELSE Before(here, k)
           /\ \A k \in 1 .. n + 1, l \in here :
                  l < k => Before(here, l) < Before(here, k)
<1> DEFINE B(k) == {l \in here : l < k}
<1>0. \A l \in here : l \in 1 .. n /\ l \in Int OBVIOUS
<1>1. IsFiniteSet(here) /\ Cardinality(here) \in 0 .. n
  <2>1. IsFiniteSet(1 .. n) /\ Cardinality(1 .. n) = n BY FS_Interval
  <2>2. IsFiniteSet(here) /\ Cardinality(here) <= Cardinality(1 .. n) BY <2>1, FS_Subset
  <2>3. Cardinality(here) \in Nat BY <2>2, FS_CardinalityType
  <2> QED BY <2>1, <2>2, <2>3
<1>2. \A k : IsFiniteSet(B(k)) /\ Cardinality(B(k)) \in 0 .. Cardinality(here)
  <2> TAKE k
  <2>1. B(k) \in SUBSET here OBVIOUS
  <2>2. IsFiniteSet(B(k)) /\ Cardinality(B(k)) <= Cardinality(here) BY <1>1, <2>1, FS_Subset
  <2>3. Cardinality(B(k)) \in Nat BY <2>2, FS_CardinalityType
  <2> QED BY <1>1, <2>2, <2>3
<1>3. Before(here, 1) = 0
  <2>0. \A l \in here : ~(l < 1) BY <1>0
  <2>1. B(1) = {} BY <2>0
  <2> QED BY <2>1, FS_EmptySet DEF Before
<1>4. Before(here, n + 1) = Cardinality(here)
  <2>0. \A l \in here : l < n + 1 BY <1>0
  <2>1. B(n + 1) = here BY <2>0
  <2> QED BY <2>1 DEF Before
<1>5. \A k : Before(here, k) = Cardinality(B(k)) BY DEF Before
<1>6. ASSUME NEW k \in 1 .. n
      PROVE  Before(here, k + 1)
                = IF k \in here THEN Before(here, k) + 1 ELSE Before(here, k)
  <2>1. CASE k \in here
    <3>0. \A l \in here : l < k + 1 <=> l < k \/ l = k BY <1>0
    <3>3. ~(k < k) OBVIOUS
    <3>1. B(k + 1) = B(k) \cup {k} /\ k \notin B(k) BY <3>3, <2>1, <3>0
    <3>2. Cardinality(B(k) \cup {k}) = Cardinality(B(k)) + 1
      BY <1>2, <3>1, FS_AddElement
    <3> QED BY <1>5, <2>1, <3>1, <3>2
  <2>2. CASE k \notin here
    <3>0. \A l \in here : l < k + 1 <=> l < k \/ l = k BY <1>0
    <3>1. B(k + 1) = B(k) BY <2>2, <3>0
    <3> QED BY <1>5, <2>2, <3>1
  <2> QED BY <2>1, <2>2
<1>7. ASSUME NEW k \in 1 .. n + 1, NEW l \in here, l < k
      PROVE  Before(here, l) < Before(here, k)
  <2>0. l \in Int /\ k \in Int /\ ~(l < l) /\ \A j \in here : j < l => j < k BY <1>0, <1>7
  <2>1. B(l) \in SUBSET B(k) /\ l \in B(k) /\ l \notin B(l) BY <1>7, <2>0
  <2>2. Cardinality(B(l)) <= Cardinality(B(k))
        /\ (Cardinality(B(l)) = Cardinality(B(k)) => B(k) = B(l))
    <3> HIDE DEF B
    <3> QED BY <1>2, <2>1, FS_Subset
  <2>3. Cardinality(B(l)) # Cardinality(B(k)) BY <2>1, <2>2
  <2>4. Cardinality(B(l)) \in Nat /\ Cardinality(B(k)) \in Nat BY <1>1, <1>2
  <2> HIDE DEF B
  <2> QED BY <1>5, <2>2, <2>3, <2>4
<1>8. \A k \in 1 .. n + 1 : Before(here, k) \in 0 .. Cardinality(here) BY <1>2, <1>5
<1> HIDE DEF B
<1> QED BY <1>1, <1>3, <1>4, <1>6, <1>7, <1>8

(* The bits of the null bitmap are those of the columns that are NULL.     *)
LEMMA NullBits ==
    ASSUME NEW n \in Nat, NEW here, here \subseteq 1 .. n, NEW nulls \in SUBSET here,
           NEW k \in here
    PROVE  /\ Before(here, k) \in 0 .. Cardinality(here) - 1
           /\ Before(here, k) \in {Before(here, l) : l \in nulls} <=> k \in nulls
<1>1. \A l \in here : l \in 1 .. n /\ l \in 1 .. n + 1 OBVIOUS
<1>2. n + 1 \in 1 .. n + 1 /\ k < n + 1 BY <1>1
<1>3. Before(here, k) < Before(here, n + 1) /\ Before(here, n + 1) = Cardinality(here)
  BY <1>2, BeforeIs, ZenonT(60)
<1>4. Before(here, k) \in 0 .. Cardinality(here) /\ Cardinality(here) \in Nat
  <2>1. k \in 1 .. n + 1 BY <1>1
  <2>2. \A j \in 1 .. n + 1 : Before(here, j) \in 0 .. Cardinality(here) BY BeforeIs
  <2>3. Cardinality(here) \in 0 .. n BY BeforeIs
  <2> QED BY <2>1, <2>2, <2>3
<1>5. ASSUME NEW l \in nulls, Before(here, k) = Before(here, l) PROVE k = l
  <2>1. l \in here /\ l \in 1 .. n + 1 /\ k \in 1 .. n + 1 BY <1>1
  <2>2. ~(l < k) /\ ~(k < l)
    <3>1. l < k => Before(here, l) < Before(here, k) BY <2>1, BeforeIs
    <3>2. k < l => Before(here, k) < Before(here, l) BY <2>1, BeforeIs
    <3> QED BY <1>4, <1>5, <3>1, <3>2
  <2> QED BY <2>1, <2>2
<1> QED BY <1>3, <1>4, <1>5

(* The presence bitmap has as many bits as there are columns in the image. *)
LEMMA PresenceCount ==
    ASSUME NEW n \in Nat, NEW here, here \subseteq 1 .. n
    PROVE  Cardinality({i \in 0 .. n - 1 : i + 1 \in here}) = Cardinality(here)
<1> DEFINE T == {i \in 0 .. n - 1 : i + 1 \in here}
           f == [k \in here |-> k - 1]
<1>1. \A k \in here : k \in Int /\ k - 1 \in T OBVIOUS
<1>2. f \in Bijection(here, T)
  <2>1. f \in Injection(here, T)
    <3>1. f \in [here -> T] BY <1>1
    <3>2. \A k, l \in here : f[k] = f[l] => k = l BY <1>1
    <3> HIDE DEF f, T
    <3> QED BY <3>1, <3>2 DEF Injection, IsInjective
  <2>2. \A i \in T : i + 1 \in here /\ f[i + 1] = i OBVIOUS
  <2>3. f \in Surjection(here, T)
    <3>1. f \in [here -> T] BY <1>1
    <3> HIDE DEF f, T
    <3> QED BY <2>2, <3>1 DEF Surjection
  <2> QED BY <2>1, <2>3 DEF Bijection
<1>3. ExistsBijection(here, T) BY <1>2 DEF ExistsBijection
<1>4. IsFiniteSet(here) BY BeforeIs
<1>5. Cardinality(T) = Cardinality(here)
  <2> HIDE DEF T
  <2> QED BY <1>3, <1>4, FS_Bijection
<1> QED BY <1>5

-----------------------------------------------------------------------------
(* A value is read from the bytes that it stands in, wherever they are.    *)

LEMMA ByteLocal ==
    ASSUME NEW s, IsBytes(s), NEW at, NEW d, Stands(s, at, d)
    PROVE  /\ at \in Nat /\ Len(s) \in Nat
           /\ \A i \in 0 .. Len(s) - 1 : Byte(d, at + i) = Byte(s, i)
           /\ \A i \in Nat : Byte(s, i) \in 0 .. 255 /\ Byte(s, i) \in Int
<1>1. Len(s) \in Nat /\ \A i \in 1 .. Len(s) : s[i] \in 0 .. 255 BY LenProperties, ZenonT(60) DEF IsBytes
<1>2. ASSUME NEW i \in 0 .. Len(s) - 1 PROVE Byte(d, at + i) = Byte(s, i)
  <2>1. Byte(d, at + i) = s[i + 1] BY StandingByte
  <2>2. Byte(s, i) = s[i + 1] BY DEF Byte
  <2> QED BY <2>1, <2>2
<1>3. ASSUME NEW i \in Nat PROVE Byte(s, i) \in 0 .. 255
  <2>1. CASE i \in 0 .. Len(s) - 1
    <3>1. i + 1 \in 1 .. Len(s) BY <1>1, <2>1
    <3> QED BY <1>1, <2>1, <3>1 DEF Byte
  <2>2. CASE i \notin 0 .. Len(s) - 1 BY <2>2 DEF Byte
  <2> QED BY <2>1, <2>2
<1>4. ASSUME NEW i \in Nat PROVE Byte(s, i) \in Int
  <2>1. \A b \in 0 .. 255 : b \in Int OBVIOUS
  <2> QED BY <1>3, <2>1
<1> QED BY <1>1, <1>2, <1>3, <1>4 DEF Stands

LEMMA BigEndianLocal ==
    ASSUME NEW s, IsBytes(s), NEW at, NEW d, Stands(s, at, d),
           NEW m \in Nat, NEW n \in Nat, m + n <= Len(s)
    PROVE  BigEndian(d, at + m, n) = BigEndian(s, m, n)
<1>1. /\ at \in Nat /\ at + m \in Nat
      /\ \A i \in 0 .. n - 1 : Byte(d, (at + m) + i) = Byte(s, m + i) /\ Byte(s, m + i) \in Int
  <2>1. at \in Nat /\ Len(s) \in Nat BY ByteLocal
  <2>2. ASSUME NEW i \in 0 .. n - 1
        PROVE  Byte(d, (at + m) + i) = Byte(s, m + i) /\ Byte(s, m + i) \in Int
    <3>1. PICK j \in 0 .. Len(s) - 1 : j = m + i /\ at + j = (at + m) + i BY <2>1
    <3>2. Byte(d, at + j) = Byte(s, j) BY ByteLocal
    <3>3. Byte(s, j) \in Int BY ByteLocal
    <3>4. Byte(d, at + m + i) = Byte(s, j) BY <3>1, <3>2
    <3> QED BY <3>1, <3>3, <3>4
  <2> QED BY <2>1, <2>2
<1>2. PICK v : SumsDown(v, s, m, n) /\ BigEndian(s, m, n) = v[n]
  BY <1>1, BigEndianIs
<1>3. PICK w : SumsDown(w, d, at + m, n) /\ BigEndian(d, at + m, n) = w[n]
  BY <1>1, BigEndianIs
<1>4. v[0] = 0 /\ w[0] = 0 BY <1>2, <1>3 DEF SumsDown
<1>5. ASSUME NEW i \in 1 .. n, v[i - 1] = w[i - 1] PROVE v[i] = w[i]
  <2>1. Byte(d, (at + m) + i - 1) = Byte(s, m + i - 1)
    <3>1. i - 1 \in 0 .. n - 1 /\ (at + m) + (i - 1) = (at + m) + i - 1 /\ m + (i - 1) = m + i - 1
      BY <1>1
    <3> QED BY <1>1, <3>1
  <2> QED BY <1>2, <1>3, <1>5, <2>1 DEF SumsDown
<1> DEFINE T == {i \in Nat : i <= n => v[i] = w[i]}
<1>6. 0 \in T BY <1>4
<1>7. ASSUME NEW i \in Nat, i \in T PROVE i + 1 \in T
  <2> SUFFICES ASSUME i + 1 <= n PROVE v[i + 1] = w[i + 1] OBVIOUS
  <2>1. PICK j \in 1 .. n : j = i + 1 OBVIOUS
  <2>2. v[j - 1] = w[j - 1] BY <1>7, <2>1
  <2> QED BY <1>5, <2>1, <2>2
<1> HIDE DEF T
<1>8. n \in T BY <1>6, <1>7, Induct
<1>9. v[n] = w[n] BY <1>8 DEF T
<1> QED BY <1>2, <1>3, <1>9

LEMMA LittleEndianLocal ==
    ASSUME NEW s, IsBytes(s), NEW at, NEW d, Stands(s, at, d),
           NEW m \in Nat, NEW n \in Nat \ {0}, m + n <= Len(s), NEW signed \in BOOLEAN
    PROVE  LittleEndian(d, at + m, n, signed) = LittleEndian(s, m, n, signed)
<1>1. /\ at \in Nat /\ at + m \in Nat
      /\ \A i \in 0 .. n - 1 : Byte(d, (at + m) + i) = Byte(s, m + i) /\ Byte(s, m + i) \in Int
  <2>1. at \in Nat /\ Len(s) \in Nat BY ByteLocal
  <2>2. ASSUME NEW i \in 0 .. n - 1
        PROVE  Byte(d, (at + m) + i) = Byte(s, m + i) /\ Byte(s, m + i) \in Int
    <3>1. PICK j \in 0 .. Len(s) - 1 : j = m + i /\ at + j = (at + m) + i BY <2>1
    <3>2. Byte(d, at + j) = Byte(s, j) BY ByteLocal
    <3>3. Byte(s, j) \in Int BY ByteLocal
    <3>4. Byte(d, at + m + i) = Byte(s, j) BY <3>1, <3>2
    <3> QED BY <3>1, <3>3, <3>4
  <2> QED BY <2>1, <2>2
<1>2. PICK v : SumsUp(v, s, m, n, signed) /\ LittleEndian(s, m, n, signed) = v[0]
  BY <1>1, LittleEndianIs
<1>3. PICK w : SumsUp(w, d, at + m, n, signed) /\ LittleEndian(d, at + m, n, signed) = w[0]
  BY <1>1, LittleEndianIs
<1>4. v[n - 1] = w[n - 1]
  <2>1. n - 1 \in 0 .. n - 1 /\ (at + m) + (n - 1) = (at + m) + n - 1 /\ m + (n - 1) = m + n - 1
    BY <1>1
  <2>2. Byte(d, (at + m) + n - 1) = Byte(s, m + n - 1) BY <1>1, <2>1
  <2> QED BY <1>2, <1>3, <2>2 DEF SumsUp
<1>5. ASSUME NEW i \in 0 .. n - 2, v[i + 1] = w[i + 1] PROVE v[i] = w[i]
  <2>1. Byte(d, (at + m) + i) = Byte(s, m + i)
    <3>1. i \in 0 .. n - 1 OBVIOUS
    <3> QED BY <1>1, <3>1
  <2> QED BY <1>2, <1>3, <1>5, <2>1 DEF SumsUp
<1> DEFINE T == {i \in Nat : i <= n - 1 => v[n - 1 - i] = w[n - 1 - i]}
<1>6. 0 \in T BY <1>4
<1>7. ASSUME NEW i \in Nat, i \in T PROVE i + 1 \in T
  <2> SUFFICES ASSUME i + 1 <= n - 1 PROVE v[n - 1 - (i + 1)] = w[n - 1 - (i + 1)] OBVIOUS
  <2>1. PICK j \in 0 .. n - 2 : j = n - 1 - (i + 1) OBVIOUS
  <2>2. j + 1 = n - 1 - i BY <2>1
  <2>3. v[j + 1] = w[j + 1] BY <1>7, <2>2
  <2> QED BY <1>5, <2>1, <2>3
<1> HIDE DEF T
<1>8. n - 1 \in T
  <2>1. n - 1 \in Nat OBVIOUS
  <2> QED BY <1>6, <1>7, <2>1, Induct
<1>9. v[0] = w[0] BY <1>8 DEF T
<1> QED BY <1>2, <1>3, <1>9

LEMMA UnsignedIsNat ==
    ASSUME NEW s, IsBytes(s), NEW m \in Nat, NEW n \in Nat \ {0}
    PROVE  Unsigned(s, m, n) \in Nat
<1>1. \A i \in Nat : Byte(s, i) \in 0 .. 255
  <2>1. Stands(s, 0, s) BY DEF Stands, IsBytes
  <2> QED BY <2>1, ByteLocal
<1>2. ASSUME NEW i \in 0 .. n - 1 PROVE Byte(s, m + i) \in Nat
  <2>1. PICK j \in Nat : j = m + i OBVIOUS
  <2>2. Byte(s, j) \in 0 .. 255 BY <1>1
  <2> QED BY <2>1, <2>2
<1>3. PICK v : SumsUp(v, s, m, n, FALSE) /\ LittleEndian(s, m, n, FALSE) = v[0]
  <2>1. \A i \in 0 .. n - 1 : Byte(s, m + i) \in Int BY <1>2
  <2>2. FALSE \in BOOLEAN OBVIOUS
  <2> QED BY <2>1, <2>2, LittleEndianIs
<1>4. v[n - 1] \in Nat
  <2>1. n - 1 \in 0 .. n - 1 /\ m + (n - 1) = m + n - 1 OBVIOUS
  <2>2. Byte(s, m + n - 1) \in Nat BY <1>2, <2>1
  <2> QED BY <1>3, <2>2 DEF SumsUp
<1>5. ASSUME NEW i \in 0 .. n - 2, v[i + 1] \in Nat PROVE v[i] \in Nat
  <2>0. i \in 0 .. n - 1 OBVIOUS
  <2>1. Byte(s, m + i) \in Nat BY <1>2, <2>0
  <2>2. v[i] = Byte(s, m + i) + 256 * v[i + 1] BY <1>3 DEF SumsUp
  <2> QED BY <1>5, <2>1, <2>2
<1> DEFINE T == {i \in Nat : i <= n - 1 => v[n - 1 - i] \in Nat}
<1>6. 0 \in T BY <1>4
<1>7. ASSUME NEW i \in Nat, i \in T PROVE i + 1 \in T
  <2> SUFFICES ASSUME i + 1 <= n - 1 PROVE v[n - 1 - (i + 1)] \in Nat OBVIOUS
  <2>1. PICK j \in 0 .. n - 2 : j = n - 1 - (i + 1) OBVIOUS
  <2>2. j + 1 = n - 1 - i BY <2>1
  <2>3. v[j + 1] \in Nat BY <1>7, <2>2
  <2> QED BY <1>5, <2>1, <2>3
<1> HIDE DEF T
<1>8. n - 1 \in T
  <2>1. n - 1 \in Nat OBVIOUS
  <2> QED BY <1>6, <1>7, <2>1, Induct
<1>9. v[0] \in Nat BY <1>8 DEF T
<1> QED BY <1>3, <1>9 DEF Unsigned

LEMMA SliceLocal ==
    ASSUME NEW s, IsBytes(s), NEW at, NEW d, Stands(s, at, d),
           NEW m \in Nat, NEW n \in Nat, m + n <= Len(s)
    PROVE  Slice(d, at + m, n) = Slice(s, m, n)
<1>1. at \in Nat /\ Len(s) \in Nat /\ \A i \in 1 .. Len(s) : d[at + i] = s[i]
  BY DEF Stands
<1>2. Slice(d, at + m, n) = [i \in 1 .. n |-> d[at + (m + i)]]
  <2>1. (at + m + n) - (at + m + 1) + 1 = n BY <1>1
  <2>2. \A i \in 1 .. n : (at + m + 1) + i - 1 = at + (m + i) BY <1>1
  <2> QED BY <1>1, <2>1, <2>2 DEF Slice
<1>3. Slice(s, m, n) = [i \in 1 .. n |-> s[m + i]]
  <2>1. 1 + (m + n) - (m + 1) = n OBVIOUS
  <2>2. \A i \in 1 .. n : i + (m + 1) - 1 = m + i OBVIOUS
  <2> QED BY <2>1, <2>2 DEF Slice
<1>4. \A i \in 1 .. n : d[at + (m + i)] = s[m + i]
  <2>1. \A i \in 1 .. n : m + i \in 1 .. Len(s) BY <1>1
  <2> QED BY <1>1, <2>1
<1> QED BY <1>2, <1>3, <1>4

(* These bytes, and no others, are the cell when it is read alone.         *)
LEMMA LocalAtStart ==
    ASSUME NEW s, IsBytes(s), NEW at, NEW d, Stands(s, at, d)
    PROVE  /\ at \in Nat /\ Len(s) \in Nat
           /\ Len(s) > 0 => Byte(d, at) = Byte(s, 0)
           /\ \A n \in Nat : n <= Len(s) => BigEndian(d, at, n) = BigEndian(s, 0, n)
           /\ \A n \in Nat \ {0}, signed \in BOOLEAN :
                  n <= Len(s) => LittleEndian(d, at, n, signed) = LittleEndian(s, 0, n, signed)
           /\ \A n \in Nat \ {0} : n <= Len(s) => Unsigned(d, at, n) = Unsigned(s, 0, n)
           /\ \A n \in Nat : n <= Len(s) => Slice(d, at, n) = Slice(s, 0, n)
<1>1. at \in Nat /\ Len(s) \in Nat BY ByteLocal
<1>2. PICK zero \in Nat : zero = 0 /\ at + zero = at /\ \A n \in Nat : zero + n = n
  BY <1>1
<1>3. Len(s) > 0 => Byte(d, at) = Byte(s, 0)
  <2> SUFFICES ASSUME Len(s) > 0 PROVE Byte(d, at) = Byte(s, 0) OBVIOUS
  <2>1. zero \in 0 .. Len(s) - 1 BY <1>1, <1>2
  <2>2. Byte(d, at + zero) = Byte(s, zero) BY <2>1, ByteLocal
  <2> QED BY <1>2, <2>2
<1>4. ASSUME NEW n \in Nat, n <= Len(s)
    PROVE  BigEndian(d, at, n) = BigEndian(s, 0, n) /\ Slice(d, at, n) = Slice(s, 0, n)
  <2>1. zero + n <= Len(s) BY <1>2, <1>4
  <2>2. BigEndian(d, at + zero, n) = BigEndian(s, zero, n) BY <2>1, BigEndianLocal
  <2>3. Slice(d, at + zero, n) = Slice(s, zero, n) BY <2>1, SliceLocal
  <2> QED BY <1>2, <2>2, <2>3
<1>5. ASSUME NEW n \in Nat \ {0}, NEW signed \in BOOLEAN, n <= Len(s)
    PROVE  LittleEndian(d, at, n, signed) = LittleEndian(s, 0, n, signed)
  <2>1. zero + n <= Len(s) BY <1>2, <1>5
  <2>2. LittleEndian(d, at + zero, n, signed) = LittleEndian(s, zero, n, signed)
    BY <2>1, LittleEndianLocal
  <2> QED BY <1>2, <2>2
<1>6. ASSUME NEW n \in Nat \ {0}, n <= Len(s) PROVE Unsigned(d, at, n) = Unsigned(s, 0, n)
  <2>1. FALSE \in BOOLEAN OBVIOUS
  <2> QED BY <1>5, <1>6, <2>1 DEF Unsigned
<1> QED BY <1>1, <1>3, <1>4, <1>5, <1>6

LEMMA IntegerLocal ==
    ASSUME NEW s, IsBytes(s), NEW at, NEW d, Stands(s, at, d), NEW n \in Nat \ {0},
           n <= Len(s), NEW isUnSignedInt
    PROVE  IntegerCell(d, at, n, isUnSignedInt) = IntegerCell(s, 0, n, isUnSignedInt)
<1>1. (~isUnSignedInt) \in BOOLEAN OBVIOUS
<1>3. \A signed \in BOOLEAN : LittleEndian(d, at, n, signed) = LittleEndian(s, 0, n, signed)
  BY LocalAtStart
<1>2. LittleEndian(d, at, n, ~isUnSignedInt) = LittleEndian(s, 0, n, ~isUnSignedInt)
  BY <1>1, <1>3, Zenon
<1> QED BY <1>2 DEF IntegerCell

LEMMA RawLocal ==
    ASSUME NEW s, IsBytes(s), NEW at, NEW d, Stands(s, at, d), NEW n \in Nat, n <= Len(s)
    PROVE  RawCell(d, at, n) = RawCell(s, 0, n)
BY LocalAtStart DEF RawCell

LEMMA SmallLocal ==
    ASSUME NEW s, IsBytes(s), NEW at, NEW d, Stands(s, at, d)
    PROVE  /\ Len(s) >= 1 => YearCell(d, at) = YearCell(s, 0)
           /\ Len(s) >= 3 => DateCell(d, at) = DateCell(s, 0) /\ TimeCell(d, at) = TimeCell(s, 0)
           /\ Len(s) >= 4 => Unsigned(d, at, 4) = Unsigned(s, 0, 4)
<1>0. Len(s) \in Nat BY LocalAtStart
<1>1. ASSUME Len(s) >= 1 PROVE YearCell(d, at) = YearCell(s, 0)
  <2>1. Byte(d, at) = Byte(s, 0) BY <1>0, <1>1, LocalAtStart
  <2> QED BY <2>1 DEF YearCell
<1>2. ASSUME Len(s) >= 3 PROVE DateCell(d, at) = DateCell(s, 0) /\ TimeCell(d, at) = TimeCell(s, 0)
  <2>1. PICK n \in Nat \ {0} : n = 3 OBVIOUS
  <2>2. n <= Len(s) /\ TRUE \in BOOLEAN BY <1>0, <1>2, <2>1
  <2>3. Unsigned(d, at, n) = Unsigned(s, 0, n) BY <2>2, LocalAtStart
  <2>a. \A signed \in BOOLEAN : LittleEndian(d, at, n, signed) = LittleEndian(s, 0, n, signed)
    BY <2>2, LocalAtStart
  <2>4. LittleEndian(d, at, n, TRUE) = LittleEndian(s, 0, n, TRUE) BY <2>a, Zenon
  <2>5. DateCell(d, at) = DateCell(s, 0) BY <2>1, <2>3, SMT DEF DateCell
  <2> DEFINE Of(val) ==
          LET hour == GoDiv(val, 10000)
              minute == GoDiv(GoMod(val, 10000), 100)
              second == GoMod(val, 100)
              Positive(m) == IF val < 0 THEN -m ELSE m
          IN Cell(Clock(<<IF hour < 0 THEN 1 ELSE 0, Positive(hour), Positive(minute),
                          Positive(second)>>), 3)
  <2>6. TimeCell(d, at) = Of(LittleEndian(d, at, 3, TRUE)) BY SMT DEF TimeCell
  <2>9. TimeCell(s, 0) = Of(LittleEndian(s, 0, 3, TRUE)) BY SMT DEF TimeCell
  <2> HIDE DEF Of
  <2>7. LittleEndian(d, at, 3, TRUE) = LittleEndian(s, 0, 3, TRUE) BY <2>1, <2>4, Zenon
  <2>8. TimeCell(d, at) = TimeCell(s, 0) BY <2>6, <2>7, <2>9, Zenon
  <2> QED BY <2>5, <2>8
<1>3. ASSUME Len(s) >= 4 PROVE Unsigned(d, at, 4) = Unsigned(s, 0, 4)
  <2>1. PICK n \in Nat \ {0} : n = 4 OBVIOUS
  <2>2. n <= Len(s) BY <1>0, <1>3, <2>1
  <2>3. Unsigned(d, at, n) = Unsigned(s, 0, n) BY <2>2, LocalAtStart
  <2> QED BY <2>1, <2>3
<1> QED BY <1>1, <1>2, <1>3

LEMMA PrefixedLocal ==
    ASSUME NEW s, IsBytes(s), NEW at, NEW d, Stands(s, at, d), NEW n \in Nat \ {0},
           PrefixedCell(s, 0, n).length = Len(s)
    PROVE  PrefixedCell(d, at, n) = PrefixedCell(s, 0, n)
<1>0. Len(s) \in Nat /\ at \in Nat BY LocalAtStart
<1>1. PICK l \in Nat : l = Unsigned(s, 0, n) BY UnsignedIsNat
<1>2. n + l = Len(s) BY <1>1 DEF PrefixedCell, Cell
<1>3. Unsigned(d, at, n) = l
  <2>1. n <= Len(s) BY <1>0, <1>2
  <2> QED BY <1>1, <2>1, LocalAtStart
<1>4. Slice(d, at + n, l) = Slice(s, n, l)
  <2>1. n \in Nat /\ n + l <= Len(s) BY <1>0, <1>2
  <2> QED BY <2>1, SliceLocal
<1>5. 0 + n = n OBVIOUS
<1> QED BY <1>1, <1>3, <1>4, <1>5 DEF PrefixedCell

LEMMA FractionLocal ==
    ASSUME NEW s, IsBytes(s), NEW at, NEW d, Stands(s, at, d), NEW meta \in 1 .. 6,
           NEW n \in Nat, n + FractionLength(meta) <= Len(s)
    PROVE  /\ FractionLength(meta) \in Nat
           /\ BigEndian(d, at + n, FractionLength(meta)) = BigEndian(s, n, FractionLength(meta))
<1>1. FractionLength(meta) \in Nat BY DEF FractionLength
<1> QED BY <1>1, BigEndianLocal

LEMMA WithFractionLocal ==
    ASSUME NEW s, IsBytes(s), NEW at, NEW d, Stands(s, at, d), NEW meta \in Nat,
           NEW n \in Nat, NEW whole, WithFraction(s, 0, whole, n, meta).length = Len(s)
    PROVE  WithFraction(d, at, whole, n, meta) = WithFraction(s, 0, whole, n, meta)
<1>1. CASE meta \in 1 .. 6
  <2>1. n + FractionLength(meta) = Len(s) BY <1>1 DEF WithFraction, Cell
  <2>2. Len(s) \in Nat /\ 0 + n = n BY LocalAtStart
  <2>3. n + FractionLength(meta) <= Len(s) BY <2>1, <2>2
  <2>4. BigEndian(d, at + n, FractionLength(meta)) = BigEndian(s, n, FractionLength(meta))
    BY <1>1, <2>3, FractionLocal
  <2> QED BY <1>1, <2>2, <2>4 DEF WithFraction
<1>2. CASE meta \notin 1 .. 6 BY <1>2 DEF WithFraction
<1> QED BY <1>1, <1>2

LEMMA WithFractionAtLeast ==
    ASSUME NEW s, NEW meta \in Nat, NEW n \in Nat, NEW whole
    PROVE  WithFraction(s, 0, whole, n, meta).length >= n
<1>1. CASE meta \in 1 .. 6
  <2>1. FractionLength(meta) \in Nat BY DEF FractionLength
  <2> QED BY <1>1, <2>1 DEF WithFraction, Cell
<1>2. CASE meta \notin 1 .. 6 BY <1>2 DEF WithFraction, Cell
<1> QED BY <1>1, <1>2

LEMMA Timestamp2Local ==
    ASSUME NEW s, IsBytes(s), NEW at, NEW d, Stands(s, at, d), NEW meta \in Nat,
           Timestamp2Cell(s, 0, meta).length = Len(s)
    PROVE  Timestamp2Cell(d, at, meta) = Timestamp2Cell(s, 0, meta)
<1>1. PICK n \in Nat : n = 4 OBVIOUS
<1>2. PICK whole : whole = <<BigEndian(s, 0, n)>> OBVIOUS
<1>3. Timestamp2Cell(s, 0, meta) = WithFraction(s, 0, whole, n, meta)
  BY <1>1, <1>2 DEF Timestamp2Cell
<1>4. n <= Len(s) BY <1>3, WithFractionAtLeast
<1>5. BigEndian(d, at, n) = BigEndian(s, 0, n) BY <1>4, LocalAtStart
<1>6. Timestamp2Cell(d, at, meta) = WithFraction(d, at, whole, n, meta)
  BY <1>1, <1>2, <1>5 DEF Timestamp2Cell
<1> QED BY <1>3, <1>6, WithFractionLocal

LEMMA DateTime2Local ==
    ASSUME NEW s, IsBytes(s), NEW at, NEW d, Stands(s, at, d), NEW meta \in Nat,
           DateTime2Cell(s, 0, meta).length = Len(s)
    PROVE  DateTime2Cell(d, at, meta) = DateTime2Cell(s, 0, meta)
<1>1. PICK n \in Nat, two \in Nat, three \in Nat : n = 5 /\ two = 2 /\ three = 3 OBVIOUS
<1> DEFINE Whole(top, odd, low) ==
               LET ymd == top \div 2 - 4194304
                   hms == odd * 65536 + low
                   ym == ymd \div 32
               IN  <<ym \div 13, ym % 13, ymd % 32, hms \div 4096, (hms \div 64) % 64, hms % 64>>
           s1 == BigEndian(s, 0, three)
           s2 == Byte(s, two) % 2
           s3 == BigEndian(s, three, two)
<1>2. DateTime2Cell(s, 0, meta) = WithFraction(s, 0, Whole(s1, s2, s3), n, meta)
  <2>1. 0 + three = 3 /\ 0 + two = 2 /\ 0 + 2 = 2 /\ 0 + 3 = 3 BY <1>1
  <2> QED BY <1>1, <2>1 DEF DateTime2Cell
<1>3. DateTime2Cell(d, at, meta)
         = WithFraction(d, at, Whole(BigEndian(d, at, three), Byte(d, at + two) % 2,
                                     BigEndian(d, at + three, two)), n, meta)
  BY <1>1 DEF DateTime2Cell
<1> HIDE DEF Whole
<1>4. n <= Len(s) /\ Len(s) \in Nat
  <2> HIDE DEF s1, s2, s3
  <2> QED BY <1>2, WithFractionAtLeast, LocalAtStart
<1>5. BigEndian(d, at, three) = s1
  <2>1. three <= Len(s) BY <1>1, <1>4
  <2> QED BY <2>1, LocalAtStart
<1>6. Byte(d, at + two) = Byte(s, two)
  <2>1. two \in 0 .. Len(s) - 1 BY <1>1, <1>4
  <2> QED BY <2>1, ByteLocal
<1>7. BigEndian(d, at + three, two) = s3
  <2>1. three + two <= Len(s) BY <1>1, <1>4
  <2> QED BY <2>1, BigEndianLocal
<1> HIDE DEF s1, s3
<1>8. DateTime2Cell(d, at, meta) = WithFraction(d, at, Whole(s1, s2, s3), n, meta)
  BY <1>3, <1>5, <1>6, <1>7
<1> HIDE DEF s2
<1> QED BY <1>2, <1>8, WithFractionLocal

LEMMA Time2Local ==
    ASSUME NEW s, IsBytes(s), NEW at, NEW d, Stands(s, at, d), NEW meta \in Nat,
           Time2Cell(s, 0, meta).length = Len(s)
    PROVE  Time2Cell(d, at, meta) = Time2Cell(s, 0, meta)
<1>1. PICK n \in Nat : n = 3 OBVIOUS
<1>2. FractionLength(meta) \in Nat BY DEF FractionLength
<1>3. n + FractionLength(meta) = Len(s) BY <1>1 DEF Time2Cell, Cell
<1>4. n <= Len(s) /\ n + FractionLength(meta) <= Len(s) /\ Len(s) \in Nat
  BY <1>2, <1>3, LocalAtStart
<1>5. BigEndian(d, at, n) = BigEndian(s, 0, n) BY <1>4, LocalAtStart
<1>6. meta \in 1 .. 6 => BigEndian(d, at + n, FractionLength(meta))
                          = BigEndian(s, n, FractionLength(meta))
  BY <1>4, FractionLocal
<1>7. 0 + n = n OBVIOUS
<1>8. (IF meta \in 1 .. 6 THEN BigEndian(d, at + n, FractionLength(meta)) ELSE 0)
       = (IF meta \in 1 .. 6 THEN BigEndian(s, 0 + n, FractionLength(meta)) ELSE 0)
  BY <1>6, <1>7
<1> QED BY <1>1, <1>5, <1>8, SMT DEF Time2Cell

LEMMA DecimalLocal ==
    ASSUME NEW s, IsBytes(s), NEW at, NEW d, Stands(s, at, d), NEW meta,
           DecimalCell(s, 0, meta).length = Len(s), Len(s) > 0
    PROVE  DecimalCell(d, at, meta) = DecimalCell(s, 0, meta)
<1>1. PICK n \in Nat : n = Len(s) /\ n > 0 BY LocalAtStart
<1>2. DecimalLength(meta) = n BY <1>1 DEF DecimalCell, Cell
<1>3. Byte(d, at) = Byte(s, 0) /\ at \in Nat BY <1>1, LocalAtStart
<1>4. \A i \in 1 .. n : Byte(d, at + i - 1) = Byte(s, 0 + i - 1)
  <2> TAKE i \in 1 .. n
  <2>1. PICK j \in 0 .. Len(s) - 1 : j = i - 1 /\ at + i - 1 = at + j /\ 0 + i - 1 = j
    BY <1>1, <1>3
  <2>2. Byte(d, at + j) = Byte(s, j) BY ByteLocal
  <2> QED BY <2>1, <2>2
<1>5. WithoutSign(d, at, n) = WithoutSign(s, 0, n) BY <1>3, <1>4, ZenonT(60) DEF WithoutSign
<1> QED BY <1>2, <1>3, <1>5 DEF DecimalCell

LEMMA EnumLocal ==
    ASSUME NEW s, IsBytes(s), NEW at, NEW d, Stands(s, at, d), NEW meta \in Nat,
           EnumCell(s, 0, meta).length = Len(s)
    PROVE  EnumCell(d, at, meta) = EnumCell(s, 0, meta)
<1>1. CASE meta % 256 \in {1, 2}
  <2>1. PICK n \in Nat \ {0} : n = meta % 256 BY <1>1
  <2>2. n <= Len(s)
    <3>1. n = Len(s) BY <1>1, <2>1 DEF EnumCell, Cell
    <3> QED BY <3>1
  <2>3. Unsigned(d, at, n) = Unsigned(s, 0, n) BY <2>2, LocalAtStart
  <2> QED BY <2>1, <2>3 DEF EnumCell
<1>2. CASE meta % 256 \notin {1, 2} BY <1>2 DEF EnumCell
<1> QED BY <1>1, <1>2

LEMMA PrefixLengthIs == \A max : PrefixLength(max) \in Nat \ {0}
BY DEF PrefixLength

LEMMA StringLocal ==
    ASSUME NEW s, IsBytes(s), NEW at, NEW d, Stands(s, at, d), NEW meta \in Nat,
           StringCell(s, 0, meta).length = Len(s)
    PROVE  StringCell(d, at, meta) = StringCell(s, 0, meta)
<1>1. CASE meta \div 256 = TypeEnum
  <2>1. \A b, p : StringCell(b, p, meta) = EnumCell(b, p, meta)
    BY <1>1 DEF StringCell, TypeEnum, TypeSet
  <2> QED BY <2>1, EnumLocal
<1>2. CASE meta \div 256 = TypeSet
  <2>1. \A b, p : StringCell(b, p, meta)
                     = Cell(Number(IF meta % 256 = 0 THEN 0 ELSE Unsigned(b, p, meta % 256)),
                            meta % 256)
    BY <1>2 DEF StringCell, TypeEnum, TypeSet
  <2>2. CASE meta % 256 = 0 BY <2>1, <2>2
  <2>3. CASE meta % 256 # 0
    <3>1. PICK n \in Nat \ {0} : n = meta % 256 BY <2>3
    <3>2. StringCell(s, 0, meta).length = n BY <2>1, <3>1 DEF Cell
    <3>3. n <= Len(s) BY <3>2
    <3>4. Unsigned(d, at, n) = Unsigned(s, 0, n) BY <3>3, LocalAtStart
    <3> QED BY <2>1, <3>1, <3>4
  <2> QED BY <2>2, <2>3
<1>3. CASE meta \div 256 \notin {TypeEnum, TypeSet}
  <2>1. PICK n \in Nat \ {0} : n = PrefixLength(StringMax(meta)) BY PrefixLengthIs
  <2>2. \A b, p : StringCell(b, p, meta) = PrefixedCell(b, p, n)
    BY <1>3, <2>1 DEF StringCell
  <2> QED BY <2>2, PrefixedLocal
<1> QED BY <1>1, <1>2, <1>3

(* A cell that is read from all bytes of s alone is read in the same way   *)
(* where s stands among others.                                            *)
LEMMA CellLocal ==
    ASSUME NEW s, IsBytes(s), NEW at, NEW d, Stands(s, at, d), Len(s) > 0,
           NEW type, NEW meta \in Nat, NEW isUnSignedInt,
           CellBytes(s, 0, type, meta, isUnSignedInt).length = Len(s)
    PROVE  CellBytes(d, at, type, meta, isUnSignedInt)
              = CellBytes(s, 0, type, meta, isUnSignedInt)
<1>0. Len(s) \in Nat BY LocalAtStart
<1> DEFINE Of(b, p) == CellBytes(b, p, type, meta, isUnSignedInt)
<1>1. CASE type \in IntegerTypes
  <2>1. PICK n \in Nat \ {0} : \A b, p : Of(b, p) = IntegerCell(b, p, n, isUnSignedInt)
    <3>1. CASE type = "TypeTiny" BY <3>1, CellBytesOfType
    <3>2. CASE type = "TypeShort" BY <3>2, CellBytesOfType
    <3>3. CASE type = "TypeInt24" BY <3>3, CellBytesOfType
    <3>4. CASE type = "TypeLong" BY <3>4, CellBytesOfType
    <3>5. CASE type = "TypeLongLong" BY <3>5, CellBytesOfType
    <3> QED BY <1>1, <3>1, <3>2, <3>3, <3>4, <3>5 DEF IntegerTypes
  <2>2. IntegerCell(s, 0, n, isUnSignedInt).length = n BY DEF IntegerCell, Cell
  <2>3. n <= Len(s) BY <2>1, <2>2
  <2>4. IntegerCell(d, at, n, isUnSignedInt) = IntegerCell(s, 0, n, isUnSignedInt)
    BY <2>3, IntegerLocal
  <2> QED BY <2>1, <2>4
<1>2. ASSUME NEW n \in Nat, \A b, p : Of(b, p) = RawCell(b, p, n)
      PROVE  Of(d, at) = Of(s, 0)
  <2>1. RawCell(s, 0, n).length = n BY DEF RawCell, Cell
  <2>2. n <= Len(s) BY <1>2, <2>1
  <2>3. RawCell(d, at, n) = RawCell(s, 0, n) BY <2>2, RawLocal
  <2> QED BY <1>2, <2>3
<1>3. CASE type \in {"TypeFloat", "TypeDouble", "TypeDateTime"}
  <2>1. PICK n \in Nat : \A b, p : Of(b, p) = RawCell(b, p, n)
    <3>1. CASE type = "TypeFloat" BY <3>1, CellBytesOfType
    <3>2. CASE type = "TypeDouble" BY <3>2, CellBytesOfType
    <3>3. CASE type = "TypeDateTime" BY <3>3, CellBytesOfType
    <3> QED BY <1>3, <3>1, <3>2, <3>3
  <2> HIDE DEF Of
  <2>9. Of(d, at) = Of(s, 0) BY <1>2, <2>1
  <2> QED BY <2>9 DEF Of
<1>4. CASE type = "TypeBit"
  <2>1. BitLength(meta) \in Nat BY DEF BitLength
  <2>2. \A b, p : Of(b, p) = RawCell(b, p, BitLength(meta)) BY <1>4, CellBytesOfType
  <2> HIDE DEF Of
  <2>9. Of(d, at) = Of(s, 0) BY <1>2, <2>1, <2>2
  <2> QED BY <2>9 DEF Of
<1>5. CASE type = "TypeSet"
  <2>1. meta % 256 \in Nat OBVIOUS
  <2>2. \A b, p : Of(b, p) = RawCell(b, p, meta % 256) BY <1>5, CellBytesOfType
  <2> HIDE DEF Of
  <2>9. Of(d, at) = Of(s, 0) BY <1>2, <2>1, <2>2
  <2> QED BY <2>9 DEF Of
<1>6. CASE type = "TypeYear"
  <2>1. \A b, p : Of(b, p) = YearCell(b, p) BY <1>6, CellBytesOfType
  <2>2. Len(s) >= 1 BY <1>0
  <2> QED BY <2>1, <2>2, SmallLocal
<1>7. CASE type \in {"TypeDate", "TypeNewDate"}
  <2>1. \A b, p : Of(b, p) = DateCell(b, p) BY <1>7, CellBytesOfType
  <2>2. DateCell(s, 0).length = 3 BY DEF DateCell, Cell
  <2>3. Len(s) >= 3 BY <1>0, <2>1, <2>2
  <2> QED BY <2>1, <2>3, SmallLocal
<1>8. CASE type = "TypeTime"
  <2>1. \A b, p : Of(b, p) = TimeCell(b, p) BY <1>8, CellBytesOfType
  <2>2. TimeCell(s, 0).length = 3 BY DEF TimeCell, Cell
  <2>3. Len(s) >= 3 BY <1>0, <2>1, <2>2
  <2> QED BY <2>1, <2>3, SmallLocal
<1>9. CASE type = "TypeTimestamp"
  <2>1. \A b, p : Of(b, p) = Cell(Number(Unsigned(b, p, 4)), 4) BY <1>9, CellBytesOfType
  <2>2. Len(s) >= 4 BY <1>0, <2>1 DEF Cell
  <2> QED BY <2>1, <2>2, SmallLocal
<1>10. CASE type \in {"TypeVarchar", "TypeVarString"}
  <2>1. PICK n \in Nat \ {0} : n = PrefixLength(meta) BY PrefixLengthIs
  <2>2. \A b, p : Of(b, p) = PrefixedCell(b, p, n) BY <1>10, <2>1, CellBytesOfType
  <2> QED BY <2>2, PrefixedLocal
<1>11. CASE type \in Blobs \cup {"TypeGeometry"}
  <2>1. \A b, p : Of(b, p) = IF meta \in 1 .. 4 THEN PrefixedCell(b, p, meta) ELSE Failed
    BY <1>11, CellBytesOfBlob
  <2>2. CASE meta \in 1 .. 4
    <3>1. meta \in Nat \ {0} BY <2>2
    <3>2. \A b, p : Of(b, p) = PrefixedCell(b, p, meta) BY <2>1, <2>2
    <3> QED BY <3>1, <3>2, PrefixedLocal
  <2>3. CASE meta \notin 1 .. 4 BY <2>1, <2>3
  <2> QED BY <2>2, <2>3
<1>12. CASE type = "TypeTimestamp2"
  <2>1. \A b, p : Of(b, p) = Timestamp2Cell(b, p, meta) BY <1>12, CellBytesOfType
  <2> QED BY <2>1, Timestamp2Local
<1>13. CASE type = "TypeDateTime2"
  <2>1. \A b, p : Of(b, p) = DateTime2Cell(b, p, meta) BY <1>13, CellBytesOfType
  <2> QED BY <2>1, DateTime2Local
<1>14. CASE type = "TypeTime2"
  <2>1. \A b, p : Of(b, p) = Time2Cell(b, p, meta) BY <1>14, CellBytesOfType
  <2> QED BY <2>1, Time2Local
<1>15. CASE type = "TypeNewDecimal"
  <2>1. \A b, p : Of(b, p) = DecimalCell(b, p, meta) BY <1>15, CellBytesOfType
  <2> QED BY <2>1, DecimalLocal
<1>16. CASE type = "TypeEnum"
  <2>1. \A b, p : Of(b, p) = EnumCell(b, p, meta) BY <1>16, CellBytesOfType
  <2> QED BY <2>1, EnumLocal
<1>17. CASE type = "TypeString"
  <2>1. \A b, p : Of(b, p) = StringCell(b, p, meta) BY <1>17, CellBytesOfType
  <2> QED BY <2>1, StringLocal
<1>18. CASE type \notin CellTypes
  <2>1. \A b, p : Of(b, p) = Failed
    BY <1>18, Zenon DEF CellBytes, CellTypes, IntegerTypes, OtherFixedTypes, FractionalTypes,
                        PrefixedTypes, PackedTypes, Blobs
  <2> QED BY <2>1
<1> QED
  BY <1>1, <1>3, <1>4, <1>5, <1>6, <1>7, <1>8, <1>9, <1>10, <1>11, <1>12, <1>13, <1>14, <1>15,
<1>16, <1>17, <1>18
DEF CellTypes, OtherFixedTypes, FractionalTypes, PrefixedTypes, PackedTypes

(* The same for the metadata of a column.                                  *)
LEMMA MetadataLocal ==
    ASSUME NEW s, IsBytes(s), NEW at, NEW d, Stands(s, at, d), NEW type,
           MetadataWidth(type) = Len(s)
    PROVE  metadataRead(d, at, type) = metadataRead(s, 0, type)
<1>1. PICK n \in Nat : n = MetadataWidth(type) /\ n <= Len(s) BY LocalAtStart
<1>2. BigEndian(d, at, n) = BigEndian(s, 0, n) BY <1>1, LocalAtStart
<1>3. n > 0 => Unsigned(d, at, n) = Unsigned(s, 0, n) BY <1>1, LocalAtStart
<1> QED BY <1>1, <1>2, <1>3 DEF metadataRead

-----------------------------------------------------------------------------
(* Where the parts of an event stand.                                      *)

(* Part k of what starts at this position; the place behind the last part  *)
(* is its end.                                                             *)
Place(at, parts, k) == at + EndsOf(parts)[k - 1]

LEMMA Places ==
    ASSUME NEW S, NEW parts \in Seq(Seq(S)), NEW at \in Nat
    PROVE  /\ FlattenSeq(parts) \in Seq(S) /\ Len(FlattenSeq(parts)) \in Nat
           /\ \A k \in 1 .. Len(parts) + 1 :
                  Place(at, parts, k) \in Nat /\ Place(at, parts, k) >= at
           /\ Place(at, parts, 1) = at
           /\ Place(at, parts, Len(parts) + 1) = at + Len(FlattenSeq(parts))
           /\ \A k \in 1 .. Len(parts) :
                  /\ Len(parts[k]) \in Nat
                  /\ Place(at, parts, k + 1) = Place(at, parts, k) + Len(parts[k])
                  /\ Place(at, parts, k + 1) <= at + Len(FlattenSeq(parts))
           /\ \A bytes : Stands(FlattenSeq(parts), at, bytes) =>
                  \A k \in 1 .. Len(parts) : Stands(parts[k], Place(at, parts, k), bytes)
<1>1. PICK n \in Nat : n = Len(parts) OBVIOUS
<1>2. PICK u : u = EndsOf(parts) /\ AreEnds(u, n, parts) BY <1>1, EndsAre
<1>3. /\ FlattenSeq(parts) \in Seq(S) /\ Len(FlattenSeq(parts)) = u[n]
      /\ \A k \in 1 .. n : Stands(parts[k], u[k - 1], FlattenSeq(parts))
  BY <1>1, <1>2, Flattened
<1>4. \A k \in 0 .. n : u[k] \in Nat BY <1>2 DEF AreEnds
<1>5. u[0] = 0 /\ \A k \in 1 .. n : u[k] = u[k - 1] + Len(parts[k]) BY <1>2 DEF AreEnds
<1>6. \A k : Place(at, parts, k) = at + u[k - 1] BY <1>2 DEF Place
<1>7. \A k \in 1 .. n + 1 : k - 1 \in 0 .. n OBVIOUS
<1>8. \A k \in 1 .. n + 1 : Place(at, parts, k) \in Nat /\ Place(at, parts, k) >= at
  <2> TAKE k \in 1 .. n + 1
  <2>1. PICK v \in Nat : v = u[k - 1] BY <1>4, <1>7
  <2>2. Place(at, parts, k) = at + v BY <1>6, <2>1
  <2> QED BY <2>2
<1>9. Place(at, parts, 1) = at
  <2>1. 1 - 1 = 0 OBVIOUS
  <2> QED BY <1>5, <1>6, <2>1
<1>10. Place(at, parts, n + 1) = at + Len(FlattenSeq(parts))
  <2>1. n + 1 - 1 = n OBVIOUS
  <2> QED BY <1>3, <1>6, <2>1
<1>11. ASSUME NEW k \in 1 .. n
     PROVE  Len(parts[k]) \in Nat /\ Place(at, parts, k + 1) = Place(at, parts, k) + Len(parts[k])
  <2>1. k + 1 - 1 = k /\ k \in 0 .. n /\ k - 1 \in 0 .. n OBVIOUS
  <2>2. Len(parts[k]) \in Nat
    <3>1. PICK p \in Seq(S) : p = parts[k] BY <1>1
    <3>2. Len(p) \in Nat OBVIOUS
    <3> QED BY <3>1, <3>2
  <2>3. Place(at, parts, k + 1) = at + u[k] BY <1>6, <2>1
  <2>4. PICK a \in Nat, b \in Nat : a = u[k - 1] /\ b = Len(parts[k]) BY <1>4, <2>1, <2>2
  <2>5. u[k] = a + b BY <1>5, <2>4
  <2>6. Place(at, parts, k) = at + a BY <1>6, <2>4
  <2>7. at + (a + b) = (at + a) + b OBVIOUS
  <2> QED BY <2>3, <2>4, <2>5, <2>6, <2>7
<1>12. ASSUME NEW bytes, Stands(FlattenSeq(parts), at, bytes), NEW k \in 1 .. n
     PROVE  Stands(parts[k], Place(at, parts, k), bytes)
  BY <1>3, <1>6, <1>12, StandsWithin
<1>13. Len(FlattenSeq(parts)) \in Nat BY <1>3
<1>14. ASSUME NEW k \in 1 .. n PROVE Place(at, parts, k + 1) <= at + Len(FlattenSeq(parts))
  <2>1. Stands(parts[k], u[k - 1], FlattenSeq(parts)) BY <1>3
  <2>2. k - 1 \in 0 .. n OBVIOUS
  <2>3. PICK a \in Nat : a = u[k - 1] BY <1>4, <2>2
  <2>4. a + Len(parts[k]) <= Len(FlattenSeq(parts)) /\ Len(parts[k]) \in Nat
    BY <2>1, <2>3 DEF Stands
  <2>5. PICK b \in Nat, w \in Nat : b = Len(parts[k]) /\ w = Len(FlattenSeq(parts))
    BY <1>13, <2>4
  <2>6. Place(at, parts, k + 1) = (at + a) + b BY <1>6, <1>11, <2>3, <2>5
  <2>8. a + b <= w BY <2>4, <2>5
  <2>7. (at + a) + b <= at + w BY <2>8
  <2> QED BY <2>5, <2>6, <2>7
<1> QED BY <1>1, <1>3, <1>8, <1>9, <1>10, <1>11, <1>12, <1>13, <1>14

MetadataParts(e) == [k \in 1 .. Len(e.columns) |-> MetadataOf(e.columns[k])]
MetadataAt(e, k) == Place(0, MetadataParts(e), k)

ImagesOf(e) == 1 .. Len(Images(e.kind))
Held(e, k) == e.present[Images(e.kind)[k]]
CellsOf(e, n, k) == e.rows[n][Images(e.kind)[k]]
NullsOf(e, n, k) ==
    {Before(Held(e, k), j) : j \in {i \in Held(e, k) : CellsOf(e, n, k)[i] = Null}}

PresenceParts(e) == [k \in ImagesOf(e) |-> Presence(e, Images(e.kind)[k])]
RowParts(e) == [n \in 1 .. Len(e.rows) |-> RowBytes(e, e.rows[n])]
ImageParts(e, n) ==
    [k \in ImagesOf(e) |-> ImageBytes(e, Images(e.kind)[k], CellsOf(e, n, k))]
CellParts(e, n, k) ==
    [j \in 1 .. Len(e.columns) |-> CellAt(e, Images(e.kind)[k], CellsOf(e, n, k), j)]

PresenceAt(e, k) == Place(0, PresenceParts(e), k)
RowAt(e, n) == Place(Len(FlattenSeq(PresenceParts(e))), RowParts(e), n)
ImageAt(e, n, k) == Place(RowAt(e, n), ImageParts(e, n), k)
CellsAt(e, n, k) == ImageAt(e, n, k) + byteSize(Cardinality(Held(e, k)))
ColumnAt(e, n, k, j) == Place(CellsAt(e, n, k), CellParts(e, n, k), j)

(* Events that are read to the end: they have no JSON column.              *)
Readable(e) ==
    /\ e.kind \in {"insert", "update", "delete"}
    /\ Len(e.columns) \in Nat
    /\ Understands(e)
    /\ \A k \in 1 .. Len(e.columns) : e.columns[k].type # "TypeJSON"

LEMMA ImageCount == \A e : Readable(e) => Len(Images(e.kind)) \in 1 .. 2
<1> SUFFICES ASSUME NEW e, Readable(e) PROVE Len(Images(e.kind)) \in 1 .. 2 OBVIOUS
<1>1. CASE e.kind = "insert" BY <1>1 DEF Images
<1>2. CASE e.kind = "update" BY <1>2 DEF Images
<1>3. CASE e.kind = "delete" BY <1>3 DEF Images
<1> QED BY <1>1, <1>2, <1>3 DEF Readable

LEMMA ImagesAre ==
    ASSUME NEW e, e.kind \in {"insert", "update", "delete"}
    PROVE  /\ Len(Images(e.kind)) \in 1 .. 2
           /\ \A k \in ImagesOf(e) : Images(e.kind)[k] \in ImageNames
           /\ \A k, l \in ImagesOf(e) : Images(e.kind)[k] = Images(e.kind)[l] => k = l
<1>1. CASE e.kind = "insert" BY <1>1 DEF Images, ImagesOf, ImageNames
<1>2. CASE e.kind = "update" BY <1>2 DEF Images, ImagesOf, ImageNames
<1>3. CASE e.kind = "delete" BY <1>3 DEF Images, ImagesOf, ImageNames
<1> QED BY <1>1, <1>2, <1>3

LEMMA ShapeOf ==
    ASSUME NEW e, Readable(e)
    PROVE  /\ e.spare \in BOOLEAN /\ Len(e.rows) \in Nat /\ Len(e.columns) \in Nat
           /\ \A k \in ImagesOf(e) : Held(e, k) \subseteq 1 .. Len(e.columns)
           /\ \E k \in ImagesOf(e) : Held(e, k) # {}
           /\ \A j \in 1 .. Len(e.columns) :
                  /\ IsBytes(MetadataOf(e.columns[j]))
                  /\ Len(MetadataOf(e.columns[j])) = MetadataWidth(e.columns[j].type)
           /\ \A n \in 1 .. Len(e.rows), k \in ImagesOf(e) : \A j \in Held(e, k) :
                  CellsOf(e, n, k)[j] = Null \/ ReadAlone(e.columns[j], CellsOf(e, n, k)[j].value)
BY DEF Readable, Understands, ImagesOf, Held, CellsOf

LEMMA CellPartsAre ==
    ASSUME NEW e, Readable(e), NEW n \in 1 .. Len(e.rows), NEW k \in ImagesOf(e)
    PROVE  /\ CellParts(e, n, k) \in Seq(Seq(0 .. 255))
           /\ Len(CellParts(e, n, k)) = Len(e.columns)
           /\ \A j \in 1 .. Len(e.columns) :
                  /\ CellParts(e, n, k)[j]
                        = IF j \notin Held(e, k) \/ CellsOf(e, n, k)[j] = Null THEN <<>>
                          ELSE CellOf(e.columns[j], CellsOf(e, n, k)[j].value)
                  /\ IsBytes(CellParts(e, n, k)[j])
<1>1. PICK m \in Nat : m = Len(e.columns) BY ShapeOf
<1> DEFINE p == CellParts(e, n, k)
<1>2. \A j \in 1 .. m : p[j] = IF j \notin Held(e, k) \/ CellsOf(e, n, k)[j] = Null THEN <<>>
                               ELSE CellOf(e.columns[j], CellsOf(e, n, k)[j].value)
  BY <1>1 DEF CellParts, CellAt, Held
<1>3. \A j \in 1 .. m : p[j] \in Seq(0 .. 255)
  <2> TAKE j \in 1 .. m
  <2>1. CASE j \notin Held(e, k) \/ CellsOf(e, n, k)[j] = Null
    <3>1. p[j] = <<>> BY <1>2, <2>1
    <3> QED BY <3>1
  <2>2. CASE ~(j \notin Held(e, k) \/ CellsOf(e, n, k)[j] = Null)
    <3>1. ReadAlone(e.columns[j], CellsOf(e, n, k)[j].value) BY <2>2, ShapeOf
    <3>2. CellOf(e.columns[j], CellsOf(e, n, k)[j].value) \in Seq(0 .. 255)
      BY <3>1 DEF ReadAlone, IsBytes
    <3> QED BY <1>2, <2>2, <3>2
  <2> QED BY <2>1, <2>2
<1>4. p = [j \in 1 .. m |-> p[j]] BY <1>1 DEF CellParts
<1> HIDE DEF p
<1>5. p \in Seq(Seq(0 .. 255)) /\ Len(p) = m
  <2>1. p \in [1 .. m -> Seq(0 .. 255)] BY <1>3, <1>4
  <2> QED BY <2>1
<1> QED BY <1>1, <1>2, <1>3, <1>5 DEF p, IsBytes

(* The bytes of an image are its bitmap of NULL and its cells.             *)
LEMMA ImageIs ==
    ASSUME NEW e, Readable(e), NEW n \in 1 .. Len(e.rows), NEW k \in ImagesOf(e)
    PROVE  LET count == Cardinality(Held(e, k))
               nulls == BitmapBytes(NullsOf(e, n, k), count, e.spare)
           IN  /\ count \in Nat /\ byteSize(count) \in Nat /\ Len(nulls) = byteSize(count)
               /\ nulls \in Seq(0 .. 255)
               /\ ImageParts(e, n)[k] = nulls \o FlattenSeq(CellParts(e, n, k))
               /\ ImageParts(e, n)[k] \in Seq(0 .. 255)
<1> DEFINE count == Cardinality(Held(e, k))
           nulls == BitmapBytes(NullsOf(e, n, k), count, e.spare)
<1>1. count \in Nat /\ e.spare \in BOOLEAN BY ShapeOf, BeforeIs
<1>2. nulls \in Seq(0 .. 255) /\ Len(nulls) = byteSize(count) /\ byteSize(count) \in Nat
  BY <1>1, BitmapBytesAre
<1>3. ImageParts(e, n)[k] = nulls \o FlattenSeq(CellParts(e, n, k))
  BY DEF ImageParts, ImageBytes, NullsOf, CellParts, Held
<1>4. FlattenSeq(CellParts(e, n, k)) \in Seq(0 .. 255)
  <2>1. CellParts(e, n, k) \in Seq(Seq(0 .. 255)) BY CellPartsAre
  <2>2. 0 \in Nat OBVIOUS
  <2> QED BY <2>1, <2>2, Places
<1>5. ImageParts(e, n)[k] \in Seq(0 .. 255) BY <1>2, <1>3, <1>4, StandsOfConcat
<1> QED BY <1>1, <1>2, <1>3, <1>5

LEMMA PresencePartsAre ==
    ASSUME NEW e, Readable(e)
    PROVE  /\ PresenceParts(e) \in Seq(Seq(0 .. 255))
           /\ Len(PresenceParts(e)) = Len(Images(e.kind)) /\ Len(Images(e.kind)) \in 1 .. 2
           /\ byteSize(Len(e.columns)) \in Nat
           /\ \A k \in ImagesOf(e) :
                  /\ PresenceParts(e)[k]
                        = BitmapBytes({j - 1 : j \in Held(e, k)}, Len(e.columns), e.spare)
                  /\ Len(PresenceParts(e)[k]) = byteSize(Len(e.columns))
<1> DEFINE Of(k) == BitmapBytes({j - 1 : j \in Held(e, k)}, Len(e.columns), e.spare)
           p == PresenceParts(e)
<1>1. PICK m \in 1 .. 2 : m = Len(Images(e.kind)) BY ImageCount
<1>2. Len(e.columns) \in Nat /\ e.spare \in BOOLEAN BY ShapeOf
<1>3. \A k \in 1 .. m : p[k] = Of(k)
  BY <1>1 DEF PresenceParts, Presence, Held, ImagesOf
<1>4. \A k : Of(k) \in Seq(0 .. 255) /\ Len(Of(k)) = byteSize(Len(e.columns))
           /\ byteSize(Len(e.columns)) \in Nat
  BY <1>2, BitmapBytesAre
<1>5. p = [k \in 1 .. m |-> p[k]] BY <1>1 DEF PresenceParts, ImagesOf
<1> HIDE DEF p, Of
<1>6. p \in [1 .. m -> Seq(0 .. 255)] BY <1>3, <1>4, <1>5
<1>7. p \in Seq(Seq(0 .. 255)) /\ Len(p) = m BY <1>6
<1> QED BY <1>1, <1>3, <1>4, <1>7 DEF p, Of, ImagesOf

LEMMA ImagePartsAre ==
    ASSUME NEW e, Readable(e), NEW n \in 1 .. Len(e.rows)
    PROVE  /\ ImageParts(e, n) \in Seq(Seq(0 .. 255))
           /\ Len(ImageParts(e, n)) = Len(Images(e.kind))
           /\ RowParts(e)[n] = FlattenSeq(ImageParts(e, n))
<1> DEFINE p == ImageParts(e, n)
<1>1. PICK m \in 1 .. 2 : m = Len(Images(e.kind)) BY ImageCount
<1>2. \A k \in 1 .. m : p[k] \in Seq(0 .. 255) BY <1>1, ImageIs DEF ImagesOf
<1>3. p = [k \in 1 .. m |-> p[k]] BY <1>1 DEF ImageParts, ImagesOf
<1>4. RowParts(e)[n] = FlattenSeq(p) BY DEF RowParts, RowBytes, ImageParts, ImagesOf, CellsOf
<1> HIDE DEF p
<1>5. p \in [1 .. m -> Seq(0 .. 255)] BY <1>2, <1>3
<1>6. p \in Seq(Seq(0 .. 255)) /\ Len(p) = m BY <1>5
<1> QED BY <1>1, <1>4, <1>6 DEF p

LEMMA RowPartsAre ==
    ASSUME NEW e, Readable(e)
    PROVE  RowParts(e) \in Seq(Seq(0 .. 255)) /\ Len(RowParts(e)) = Len(e.rows)
<1> DEFINE p == RowParts(e)
<1>1. PICK m \in Nat : m = Len(e.rows) BY ShapeOf
<1>2. ASSUME NEW n \in 1 .. m PROVE p[n] \in Seq(0 .. 255)
  <2>1. ImageParts(e, n) \in Seq(Seq(0 .. 255)) /\ p[n] = FlattenSeq(ImageParts(e, n))
    BY <1>1, ImagePartsAre
  <2>2. 0 \in Nat OBVIOUS
  <2>3. FlattenSeq(ImageParts(e, n)) \in Seq(0 .. 255) BY <2>1, <2>2, Places
  <2> QED BY <2>1, <2>3
<1>3. p = [n \in 1 .. m |-> p[n]] BY <1>1 DEF RowParts
<1> HIDE DEF p
<1>4. p \in [1 .. m -> Seq(0 .. 255)] BY <1>2, <1>3
<1>5. p \in Seq(Seq(0 .. 255)) /\ Len(p) = m BY <1>4
<1> QED BY <1>1, <1>5 DEF p

LEMMA PayloadIs ==
    ASSUME NEW e, Readable(e)
    PROVE  LET bitmaps == FlattenSeq(PresenceParts(e))
               rest == FlattenSeq(RowParts(e))
           IN  /\ bitmaps \in Seq(0 .. 255) /\ rest \in Seq(0 .. 255)
               /\ Payload(e) = bitmaps \o rest
               /\ Len(Payload(e)) \in Nat /\ Len(Payload(e)) = Len(bitmaps) + Len(rest)
               /\ Stands(bitmaps, 0, Payload(e)) /\ Stands(rest, Len(bitmaps), Payload(e))
<1> DEFINE bitmaps == FlattenSeq(PresenceParts(e))
           rest == FlattenSeq(RowParts(e))
<1>1. Payload(e) = bitmaps \o rest BY DEF Payload, PresenceParts, RowParts, ImagesOf
<1>2. bitmaps \in Seq(0 .. 255) /\ rest \in Seq(0 .. 255)
  <2>1. 0 \in Nat OBVIOUS
  <2>2. PresenceParts(e) \in Seq(Seq(0 .. 255)) BY PresencePartsAre
  <2>3. RowParts(e) \in Seq(Seq(0 .. 255)) BY RowPartsAre
  <2> QED BY <2>1, <2>2, <2>3, Places
<1> HIDE DEF bitmaps, rest
<1>3. /\ Len(bitmaps \o rest) = Len(bitmaps) + Len(rest)
      /\ Stands(bitmaps, 0, bitmaps \o rest) /\ Stands(rest, Len(bitmaps), bitmaps \o rest)
  BY <1>2, StandsOfConcat
<1>4. Len(bitmaps) + Len(rest) \in Nat BY <1>2
<1> QED BY <1>1, <1>2, <1>3, <1>4 DEF bitmaps, rest

LEMMA PresencePlaces ==
    ASSUME NEW e, Readable(e)
    PROVE  /\ PresenceAt(e, 1) = 0
           /\ PresenceAt(e, Len(Images(e.kind)) + 1) = RowAt(e, 1)
           /\ \A k \in 1 .. Len(Images(e.kind)) + 1 : PresenceAt(e, k) \in Nat
           /\ \A k \in ImagesOf(e) :
                  /\ PresenceAt(e, k + 1) = PresenceAt(e, k) + byteSize(Len(e.columns))
                  /\ PresenceAt(e, k + 1) <= Len(Payload(e))
                  /\ Stands(BitmapBytes({j - 1 : j \in Held(e, k)}, Len(e.columns), e.spare),
                            PresenceAt(e, k), Payload(e))
<1> DEFINE parts == PresenceParts(e)
<1>1. parts \in Seq(Seq(0 .. 255)) /\ 0 \in Nat BY PresencePartsAre
<1>2. PICK m \in Nat : m = Len(Images(e.kind)) /\ m = Len(parts) BY PresencePartsAre
<1>3. /\ Len(FlattenSeq(parts)) \in Nat
      /\ \A k \in 1 .. m + 1 : Place(0, parts, k) \in Nat
      /\ Place(0, parts, 1) = 0 /\ Place(0, parts, m + 1) = 0 + Len(FlattenSeq(parts))
      /\ \A k \in 1 .. m : Place(0, parts, k + 1) = Place(0, parts, k) + Len(parts[k])
      /\ \A k \in 1 .. m : Stands(parts[k], Place(0, parts, k), Payload(e))
  <2>1. Stands(FlattenSeq(parts), 0, Payload(e)) BY PayloadIs
  <2> HIDE DEF parts
  <2>2. /\ Len(FlattenSeq(parts)) \in Nat
        /\ \A k \in 1 .. Len(parts) + 1 : Place(0, parts, k) \in Nat
        /\ Place(0, parts, 1) = 0
        /\ Place(0, parts, Len(parts) + 1) = 0 + Len(FlattenSeq(parts))
    BY <1>1, Places, SMTT(30)
  <2>3. \A k \in 1 .. Len(parts) : Place(0, parts, k + 1) = Place(0, parts, k) + Len(parts[k])
    BY <1>1, Places
  <2>4. \A k \in 1 .. Len(parts) : Stands(parts[k], Place(0, parts, k), Payload(e))
    BY <1>1, <2>1, Places
  <2> QED BY <1>2, <2>2, <2>3, <2>4
<1>4. RowAt(e, 1) = Len(FlattenSeq(parts))
  BY <1>3, RowPartsAre, Places DEF RowAt
<1>5. \A k \in 1 .. m : Place(0, parts, k + 1) <= Len(Payload(e)) BY <1>3 DEF Stands
<1>6. \A k \in 1 .. m : Len(parts[k]) = byteSize(Len(e.columns))
                      /\ parts[k] = BitmapBytes({j - 1 : j \in Held(e, k)}, Len(e.columns), e.spare)
  BY <1>2, PresencePartsAre DEF ImagesOf
<1> HIDE DEF parts
<1>7. \A k : PresenceAt(e, k) = Place(0, parts, k) BY DEF PresenceAt, parts
<1>8. ImagesOf(e) = 1 .. m BY <1>2 DEF ImagesOf
<1>9. Place(0, parts, m + 1) = Len(FlattenSeq(parts)) BY <1>3
<1> QED BY <1>2, <1>3, <1>4, <1>5, <1>6, <1>7, <1>8, <1>9

LEMMA ImagePlaces ==
    ASSUME NEW e, Readable(e), NEW n \in 1 .. Len(e.rows), NEW k \in ImagesOf(e)
    PROVE  /\ ImageAt(e, n, k) \in Nat /\ ImageAt(e, n, k) >= RowAt(e, n)
           /\ CellsAt(e, n, k) \in Nat /\ CellsAt(e, n, k) <= Len(Payload(e))
           /\ Stands(BitmapBytes(NullsOf(e, n, k), Cardinality(Held(e, k)), e.spare),
                     ImageAt(e, n, k), Payload(e))
           /\ ColumnAt(e, n, k, 1) = CellsAt(e, n, k)
           /\ ColumnAt(e, n, k, Len(e.columns) + 1) = ImageAt(e, n, k + 1)
           /\ \A j \in 1 .. Len(e.columns) + 1 : ColumnAt(e, n, k, j) \in Nat
           /\ \A j \in 1 .. Len(e.columns) :
                  /\ ColumnAt(e, n, k, j + 1)
                        = ColumnAt(e, n, k, j) + Len(CellParts(e, n, k)[j])
                  /\ ColumnAt(e, n, k, j + 1) <= ImageAt(e, n, k + 1)
                  /\ Stands(CellParts(e, n, k)[j], ColumnAt(e, n, k, j), Payload(e))
<1>1. PICK p0 \in Nat : p0 = RowAt(e, n) /\ Stands(RowParts(e)[n], p0, Payload(e))
  <2>1. PICK base \in Nat : base = Len(FlattenSeq(PresenceParts(e)))
    <3>1. PresenceParts(e) \in Seq(Seq(0 .. 255)) /\ 0 \in Nat BY PresencePartsAre
    <3> QED BY <3>1, Places
  <2>2. Stands(FlattenSeq(RowParts(e)), base, Payload(e)) BY <2>1, PayloadIs
  <2>3. RowParts(e) \in Seq(Seq(0 .. 255)) /\ Len(RowParts(e)) = Len(e.rows)
        /\ Len(e.rows) \in Nat
    BY RowPartsAre, ShapeOf
  <2>4. n \in 1 .. Len(RowParts(e)) /\ n \in 1 .. Len(RowParts(e)) + 1 BY <2>3
  <2>5. Place(base, RowParts(e), n) \in Nat BY <2>3, <2>4, Places
  <2>6. Stands(RowParts(e)[n], Place(base, RowParts(e), n), Payload(e))
    BY <2>2, <2>3, <2>4, Places
  <2> QED BY <2>1, <2>5, <2>6 DEF RowAt
<1>2. PICK m \in Nat : m = Len(Images(e.kind)) /\ ImagesOf(e) = 1 .. m
  BY PresencePartsAre DEF ImagesOf
<1>3. ImageParts(e, n) \in Seq(Seq(0 .. 255)) /\ Len(ImageParts(e, n)) = m
    /\ RowParts(e)[n] = FlattenSeq(ImageParts(e, n))
  BY <1>2, ImagePartsAre
<1>4. /\ \A l \in 1 .. m + 1 : Place(p0, ImageParts(e, n), l) \in Nat
                               /\ Place(p0, ImageParts(e, n), l) >= p0
      /\ Place(p0, ImageParts(e, n), k + 1)
            = Place(p0, ImageParts(e, n), k) + Len(ImageParts(e, n)[k])
      /\ Stands(ImageParts(e, n)[k], Place(p0, ImageParts(e, n), k), Payload(e))
  BY <1>1, <1>2, <1>3, Places, ZenonT(60)
<1>5. PICK p1 \in Nat : p1 = ImageAt(e, n, k) /\ p1 >= p0
  BY <1>1, <1>2, <1>4 DEF ImageAt
<1>6. /\ Stands(ImageParts(e, n)[k], p1, Payload(e))
      /\ ImageAt(e, n, k + 1) = p1 + Len(ImageParts(e, n)[k])
  BY <1>1, <1>4, <1>5 DEF ImageAt
<1> DEFINE count == Cardinality(Held(e, k))
         nulls == BitmapBytes(NullsOf(e, n, k), count, e.spare)
         cells == FlattenSeq(CellParts(e, n, k))
<1>7. /\ nulls \in Seq(0 .. 255) /\ Len(nulls) = byteSize(count) /\ byteSize(count) \in Nat
      /\ ImageParts(e, n)[k] = nulls \o cells
  BY ImageIs
<1>8. CellParts(e, n, k) \in Seq(Seq(0 .. 255)) /\ Len(CellParts(e, n, k)) = Len(e.columns)
    /\ Len(e.columns) \in Nat
  BY CellPartsAre, ShapeOf
<1>9. PICK p2 \in Nat : p2 = CellsAt(e, n, k) /\ p2 = p1 + byteSize(count)
  BY <1>5, <1>7 DEF CellsAt
<1>10. /\ cells \in Seq(0 .. 255)
       /\ Place(p2, CellParts(e, n, k), 1) = p2
       /\ Place(p2, CellParts(e, n, k), Len(e.columns) + 1) = p2 + Len(cells)
       /\ \A j \in 1 .. Len(e.columns) + 1 : Place(p2, CellParts(e, n, k), j) \in Nat
       /\ \A j \in 1 .. Len(e.columns) :
              Place(p2, CellParts(e, n, k), j + 1)
                 = Place(p2, CellParts(e, n, k), j) + Len(CellParts(e, n, k)[j])
       /\ \A j \in 1 .. Len(e.columns) : Place(p2, CellParts(e, n, k), j + 1) <= p2 + Len(cells)
       /\ Stands(cells, p2, Payload(e)) =>
              \A j \in 1 .. Len(e.columns) :
                  Stands(CellParts(e, n, k)[j], Place(p2, CellParts(e, n, k), j), Payload(e))
  <2> DEFINE parts == CellParts(e, n, k)
  <2>1. PICK w \in Nat : w = Len(e.columns) /\ w = Len(parts) BY <1>8
  <2>2. parts \in Seq(Seq(0 .. 255)) BY <1>8
  <2> HIDE DEF parts
  <2>3. /\ FlattenSeq(parts) \in Seq(0 .. 255)
        /\ \A j \in 1 .. Len(parts) + 1 : Place(p2, parts, j) \in Nat
        /\ Place(p2, parts, 1) = p2
        /\ Place(p2, parts, Len(parts) + 1) = p2 + Len(FlattenSeq(parts))
    BY <2>2, Places, ZenonT(60)
  <2>4. \A j \in 1 .. Len(parts) : Place(p2, parts, j + 1) = Place(p2, parts, j) + Len(parts[j])
    BY <2>2, Places
  <2>6. \A j \in 1 .. Len(parts) : Place(p2, parts, j + 1) <= p2 + Len(FlattenSeq(parts))
    BY <2>2, Places
  <2>5. \A bytes : Stands(FlattenSeq(parts), p2, bytes) =>
               \A j \in 1 .. Len(parts) : Stands(parts[j], Place(p2, parts, j), bytes)
    BY <2>2, Places
  <2> QED BY <2>1, <2>3, <2>4, <2>5, <2>6 DEF parts
<1> HIDE DEF nulls, cells, count
<1>11. Stands(nulls, 0, nulls \o cells) /\ Stands(cells, Len(nulls), nulls \o cells)
     /\ Len(nulls \o cells) = Len(nulls) + Len(cells)
  BY <1>7, <1>10, StandsOfConcat, ZenonT(60)
<1>12. Stands(nulls, p1 + 0, Payload(e)) /\ Stands(cells, p1 + Len(nulls), Payload(e))
  BY <1>6, <1>7, <1>11, StandsWithin
<1>13. p1 + 0 = p1 OBVIOUS
<1>14. p2 <= Len(Payload(e))
  BY <1>7, <1>9, <1>12, <1>13 DEF Stands
<1>15. ImageAt(e, n, k + 1) = p2 + Len(cells)
  <2>1. PICK a \in Nat, b \in Nat : a = byteSize(count) /\ b = Len(cells) BY <1>7, <1>10
  <2>2. ImageAt(e, n, k + 1) = p1 + (a + b) BY <1>6, <1>7, <1>11, <2>1
  <2>3. p1 + (a + b) = (p1 + a) + b OBVIOUS
  <2> QED BY <1>9, <2>1, <2>2, <2>3
<1>16. \A i : ColumnAt(e, n, k, i) = Place(p2, CellParts(e, n, k), i) BY <1>9 DEF ColumnAt
<1>17. Stands(cells, p2, Payload(e)) BY <1>7, <1>9, <1>12
<1>18. Stands(nulls, ImageAt(e, n, k), Payload(e)) BY <1>5, <1>12, <1>13
<1>19. /\ ColumnAt(e, n, k, 1) = CellsAt(e, n, k)
       /\ ColumnAt(e, n, k, Len(e.columns) + 1) = ImageAt(e, n, k + 1)
       /\ \A j \in 1 .. Len(e.columns) + 1 : ColumnAt(e, n, k, j) \in Nat
  BY <1>9, <1>10, <1>15, <1>16
<1>20. \A j \in 1 .. Len(e.columns) :
        /\ ColumnAt(e, n, k, j + 1) = ColumnAt(e, n, k, j) + Len(CellParts(e, n, k)[j])
        /\ ColumnAt(e, n, k, j + 1) <= ImageAt(e, n, k + 1)
        /\ Stands(CellParts(e, n, k)[j], ColumnAt(e, n, k, j), Payload(e))
  <2> TAKE i \in 1 .. Len(e.columns)
  <2>1. ColumnAt(e, n, k, i) = Place(p2, CellParts(e, n, k), i)
        /\ ColumnAt(e, n, k, i + 1) = Place(p2, CellParts(e, n, k), i + 1)
    BY <1>16
  <2>2. Stands(CellParts(e, n, k)[i], Place(p2, CellParts(e, n, k), i), Payload(e))
    BY <1>10, <1>17
  <2>3. Place(p2, CellParts(e, n, k), i + 1)
           = Place(p2, CellParts(e, n, k), i) + Len(CellParts(e, n, k)[i])
    BY <1>10
  <2>4. Place(p2, CellParts(e, n, k), i + 1) <= p2 + Len(cells) BY <1>10
  <2> QED BY <1>15, <2>1, <2>2, <2>3, <2>4
<1>21. ImageAt(e, n, k) \in Nat /\ ImageAt(e, n, k) >= RowAt(e, n) BY <1>1, <1>5
<1>22. CellsAt(e, n, k) \in Nat /\ CellsAt(e, n, k) <= Len(Payload(e)) BY <1>9, <1>14
<1> QED BY <1>18, <1>19, <1>20, <1>21, <1>22 DEF nulls, count

LEMMA RowPlaces ==
    ASSUME NEW e, Readable(e)
    PROVE  /\ \A n \in 1 .. Len(e.rows) + 1 : RowAt(e, n) \in Nat
           /\ RowAt(e, Len(e.rows) + 1) = Len(Payload(e))
           /\ \A n \in 1 .. Len(e.rows) :
                  /\ ImageAt(e, n, 1) = RowAt(e, n)
                  /\ ImageAt(e, n, Len(Images(e.kind)) + 1) = RowAt(e, n + 1)
                  /\ RowAt(e, n) < Len(Payload(e))
<1>1. PICK base \in Nat : base = Len(FlattenSeq(PresenceParts(e)))
  <2>1. PresenceParts(e) \in Seq(Seq(0 .. 255)) /\ 0 \in Nat BY PresencePartsAre
  <2> QED BY <2>1, Places
<1>2. RowParts(e) \in Seq(Seq(0 .. 255)) /\ Len(RowParts(e)) = Len(e.rows) /\ Len(e.rows) \in Nat
  BY RowPartsAre, ShapeOf
<1>3. /\ \A n \in 1 .. Len(e.rows) + 1 : Place(base, RowParts(e), n) \in Nat
      /\ Place(base, RowParts(e), Len(e.rows) + 1) = base + Len(FlattenSeq(RowParts(e)))
      /\ \A n \in 1 .. Len(e.rows) :
             Place(base, RowParts(e), n + 1) = Place(base, RowParts(e), n) + Len(RowParts(e)[n])
  BY <1>2, Places, ZenonT(60)
<1>4. \A n : RowAt(e, n) = Place(base, RowParts(e), n) BY <1>1 DEF RowAt
<1>5. Len(Payload(e)) = base + Len(FlattenSeq(RowParts(e))) BY <1>1, PayloadIs
<1>6. ASSUME NEW n \in 1 .. Len(e.rows)
    PROVE  /\ ImageAt(e, n, 1) = RowAt(e, n)
           /\ ImageAt(e, n, Len(Images(e.kind)) + 1) = RowAt(e, n + 1)
           /\ RowAt(e, n) < Len(Payload(e))
  <2>1. PICK p0 \in Nat : p0 = RowAt(e, n)
    <3>1. n \in 1 .. Len(e.rows) + 1 BY <1>2
    <3> QED BY <1>3, <1>4, <3>1
  <2>2. ImageParts(e, n) \in Seq(Seq(0 .. 255)) /\ Len(ImageParts(e, n)) = Len(Images(e.kind))
        /\ RowParts(e)[n] = FlattenSeq(ImageParts(e, n))
    BY ImagePartsAre
  <2>3. Place(p0, ImageParts(e, n), 1) = p0
        /\ Place(p0, ImageParts(e, n), Len(Images(e.kind)) + 1) = p0 + Len(RowParts(e)[n])
    BY <2>2, Places, ZenonT(60)
  <2>4. \A k : ImageAt(e, n, k) = Place(p0, ImageParts(e, n), k) BY <2>1 DEF ImageAt
  <2>5. PICK k \in ImagesOf(e) : Held(e, k) # {} BY ShapeOf
  <2>6. byteSize(Cardinality(Held(e, k))) \in Nat \ {0}
    <3>1. PICK j \in Held(e, k) : TRUE BY <2>5
    <3>2. PICK m \in Nat : m = Len(e.columns) /\ Held(e, k) \subseteq 1 .. m BY ShapeOf
    <3>3. Before(Held(e, k), j) < Before(Held(e, k), m + 1)
      <4>1. j \in 1 .. m /\ j < m + 1 /\ m + 1 \in 1 .. m + 1 BY <3>1, <3>2
      <4>2. \A i \in 1 .. m + 1, l \in Held(e, k) :
                l < i => Before(Held(e, k), l) < Before(Held(e, k), i)
        BY <3>2, BeforeIs, ZenonT(60)
      <4> QED BY <3>1, <4>1, <4>2
    <3>4. Before(Held(e, k), j) \in Nat /\ Before(Held(e, k), m + 1) = Cardinality(Held(e, k))
          /\ Cardinality(Held(e, k)) \in Nat
      <4>1. j \in 1 .. m + 1 BY <3>1, <3>2
      <4> QED BY <3>2, <4>1, BeforeIs
    <3>5. Cardinality(Held(e, k)) \in Nat \ {0} BY <3>3, <3>4
    <3>6. \A i \in Nat \ {0} : (i + 7) \div 8 \in Nat \ {0} OBVIOUS
    <3> QED BY <3>5, <3>6 DEF byteSize
  <2>7. PICK p1 \in Nat : p1 = ImageAt(e, n, k) /\ p1 >= p0 BY <2>1, ImagePlaces
  <2>8. /\ CellsAt(e, n, k) <= Len(Payload(e))
        /\ CellsAt(e, n, k) = p1 + byteSize(Cardinality(Held(e, k)))
    BY <2>7, ImagePlaces DEF CellsAt
  <2>9. Len(Payload(e)) \in Nat BY PayloadIs
  <2>10. p0 < Len(Payload(e)) BY <2>6, <2>7, <2>8, <2>9
  <2> QED BY <1>3, <1>4, <2>1, <2>3, <2>4, <2>10
<1> QED BY <1>3, <1>4, <1>5, <1>6

-----------------------------------------------------------------------------
(* What is read at these places: metadata, bitmaps and cells.              *)

(* Numbers of at most two bytes.                                           *)
LEMMA WordsAre ==
    ASSUME NEW a \in 0 .. 255, NEW b \in 0 .. 255
    PROVE  256 * a + b \in Words /\ b + 256 * a \in Words
<1>1. PICK n \in Nat : n = 256 * a + b /\ n = b + 256 * a BY SMT
<1>2. PICK top \in Nat : top = 65535 BY SMT
<1>3. Words = 0 .. top BY <1>2, SMT DEF Words
<1>4. n <= top BY <1>1, <1>2, SMT
<1>5. n \in 0 .. top BY <1>4, SMT
<1> QED BY <1>1, <1>3, <1>5, SMT

LEMMA WordsAreNat == Words \subseteq Nat
BY SMT DEF Words

LEMMA BytesAreWords == \A b \in 0 .. 255 : b \in Words
<1> TAKE b \in 0 .. 255
<1>1. 0 \in 0 .. 255 /\ 256 * 0 + b = b OBVIOUS
<1>2. 256 * 0 + b \in Words BY <1>1, WordsAre, ZenonT(60)
<1> QED BY <1>1, <1>2

LEMMA SmallNumbers ==
    ASSUME NEW s, IsBytes(s), NEW n \in 0 .. 2
    PROVE  BigEndian(s, 0, n) \in Words /\ (n > 0 => Unsigned(s, 0, n) \in Words)
<1>1. \A i \in Nat : Byte(s, i) \in 0 .. 255 /\ Byte(s, i) \in Int
  <2>1. Stands(s, 0, s) BY DEF Stands, IsBytes
  <2> QED BY <2>1, ByteLocal
<1>2. \A i \in 0 .. n - 1 : 0 + i \in Nat OBVIOUS
<1>3. \A i \in 0 .. n - 1 : Byte(s, 0 + i) \in Int BY <1>1, <1>2
<1>4. PICK v : SumsDown(v, s, 0, n) /\ BigEndian(s, 0, n) = v[n] BY <1>3, BigEndianIs
<1>5. PICK b0 \in 0 .. 255 : b0 = Byte(s, 0) BY <1>1
<1>8. PICK b1 \in 0 .. 255 : b1 = Byte(s, 1) BY <1>1
<1>6. BigEndian(s, 0, n) \in Words
  <2>1. v[0] = 0 /\ \A i \in 1 .. n : v[i] = 256 * v[i - 1] + Byte(s, 0 + i - 1)
    BY <1>4 DEF SumsDown
  <2>2. n >= 1 => v[1] = b0
    <3>1. 0 + 1 - 1 = 0 /\ 1 - 1 = 0 OBVIOUS
    <3> QED BY <1>5, <2>1, <3>1
  <2>3. n = 2 => v[2] = 256 * b0 + b1
    <3>1. 0 + 2 - 1 = 1 /\ 2 - 1 = 1 OBVIOUS
    <3> QED BY <1>5, <1>8, <2>1, <2>2, <3>1
  <2>4. CASE n = 0
    <3>1. BigEndian(s, 0, n) = 0 /\ 0 \in 0 .. 255 BY <1>4, <2>1, <2>4
    <3> QED BY <3>1, BytesAreWords
  <2>5. CASE n = 1
    <3>1. BigEndian(s, 0, n) = b0 BY <1>4, <2>2, <2>5
    <3> QED BY <3>1, BytesAreWords
  <2>6. CASE n = 2
    <3>1. BigEndian(s, 0, n) = 256 * b0 + b1 BY <1>4, <2>3, <2>6
    <3>2. 256 * b0 + b1 \in Words BY WordsAre
    <3> QED BY <3>1, <3>2
  <2> QED BY <2>4, <2>5, <2>6
<1>7. ASSUME n > 0 PROVE Unsigned(s, 0, n) \in Words
  <2>1. n \in Nat \ {0} /\ FALSE \in BOOLEAN BY <1>7
  <2>2. \A signed \in BOOLEAN : \E w : SumsUp(w, s, 0, n, signed)
                                       /\ LittleEndian(s, 0, n, signed) = w[0]
    BY <1>3, <2>1, LittleEndianIs
  <2>3. PICK w : SumsUp(w, s, 0, n, FALSE) /\ LittleEndian(s, 0, n, FALSE) = w[0] BY <2>2
  <2>4. w[n - 1] = Byte(s, 0 + n - 1)
        /\ \A i \in 0 .. n - 2 : w[i] = Byte(s, 0 + i) + 256 * w[i + 1]
    BY <2>3 DEF SumsUp
  <2>5. CASE n = 1
    <3>1. n - 1 = 0 /\ 0 + n - 1 = 0 BY <2>5
    <3>2. w[0] = b0 BY <1>5, <2>4, <3>1
    <3>3. Unsigned(s, 0, n) = b0 BY <2>3, <3>2 DEF Unsigned
    <3> QED BY <3>3, BytesAreWords
  <2>6. CASE n = 2
    <3>1. n - 1 = 1 /\ 0 + n - 1 = 1 /\ 0 \in 0 .. n - 2 /\ 0 + 0 = 0 /\ 0 + 1 = 1 BY <2>6
    <3>2. w[1] = b1 BY <1>8, <2>4, <3>1
    <3>3. w[0] = Byte(s, 0 + 0) + 256 * w[0 + 1] BY <2>4, <3>1
    <3>4. w[0] = b0 + 256 * b1 BY <1>5, <3>1, <3>2, <3>3
    <3>5. Unsigned(s, 0, n) = b0 + 256 * b1 BY <2>3, <3>4 DEF Unsigned
    <3>6. b0 + 256 * b1 \in Words BY WordsAre
    <3> QED BY <3>5, <3>6
  <2> QED BY <1>7, <2>5, <2>6
<1> QED BY <1>6, <1>7

LEMMA OwnMetadataIs ==
    ASSUME NEW column, IsBytes(MetadataOf(column)),
           Len(MetadataOf(column)) = MetadataWidth(column.type)
    PROVE  OwnMetadata(column) \in Words /\ MetadataWidth(column.type) \in 0 .. 2
<1> DEFINE s == MetadataOf(column)
           w == MetadataWidth(column.type)
<1>1. w \in {-1, 0, 1, 2} BY DEF MetadataWidth, Unsupported
<1>2. Len(s) \in Nat BY DEF IsBytes
<1>3. PICK n \in 0 .. 2 : n = w BY <1>1, <1>2
<1>4. BigEndian(s, 0, n) \in Words /\ (n > 0 => Unsigned(s, 0, n) \in Words)
  BY SmallNumbers
<1> HIDE DEF s
<1>5. n = 0 => OwnMetadata(column) \in Words
  <2>1. 0 \in 0 .. 255 OBVIOUS
  <2> QED BY <1>3, <1>4, <2>1, BytesAreWords DEF OwnMetadata, metadataRead, s
<1>6. n > 0 => OwnMetadata(column) \in Words
  BY <1>3, <1>4 DEF OwnMetadata, metadataRead, s
<1> QED BY <1>3, <1>5, <1>6

(* What ReadMetadata finds.                                                *)
LEMMA MetadataPlaces ==
    ASSUME Len(event.columns) \in Nat, Understands(event), block = MetadataBlock(event.columns)
    PROVE  /\ MetadataAt(event, 1) = 0
           /\ MetadataAt(event, columnCount + 1) = Len(block)
           /\ \A k \in 1 .. columnCount + 1 : MetadataAt(event, k) \in Nat
           /\ \A k \in 1 .. columnCount : event.columns[k].type # "TypeJSON" =>
                  LET width == MetadataWidth(event.columns[k].type)
                  IN  /\ width # Unsupported
                      /\ MetadataAt(event, k + 1) = MetadataAt(event, k) + width
                      /\ metadataRead(block, MetadataAt(event, k), event.columns[k].type)
                            = OwnMetadata(event.columns[k])
                      /\ OwnMetadata(event.columns[k]) \in Words
<1> DEFINE parts == MetadataParts(event)
<1>1. PICK n \in Nat : n = columnCount /\ n = Len(event.columns) BY DEF columnCount
<1>2. \A k \in 1 .. n : IsBytes(MetadataOf(event.columns[k]))
        /\ (event.columns[k].type # "TypeJSON" =>
               Len(MetadataOf(event.columns[k])) = MetadataWidth(event.columns[k].type))
  BY <1>1 DEF Understands
<1>3. parts = [k \in 1 .. n |-> MetadataOf(event.columns[k])] BY <1>1 DEF MetadataParts
<1>4. block = FlattenSeq(parts) BY DEF MetadataBlock, MetadataParts
<1> HIDE DEF parts
<1>5. parts \in [1 .. n -> Seq(0 .. 255)] BY <1>2, <1>3 DEF IsBytes
<1>6. parts \in Seq(Seq(0 .. 255)) /\ Len(parts) = n /\ 0 \in Nat BY <1>5
<1>7. /\ \A k \in 1 .. Len(parts) + 1 : Place(0, parts, k) \in Nat
      /\ Place(0, parts, 1) = 0 /\ Place(0, parts, Len(parts) + 1) = 0 + Len(FlattenSeq(parts))
      /\ Len(FlattenSeq(parts)) \in Nat /\ FlattenSeq(parts) \in Seq(0 .. 255)
      /\ \A k \in 1 .. Len(parts) : Place(0, parts, k + 1) = Place(0, parts, k) + Len(parts[k])
  <2>1. /\ FlattenSeq(parts) \in Seq(0 .. 255) /\ Len(FlattenSeq(parts)) \in Nat
        /\ \A k \in 1 .. Len(parts) + 1 :
               Place(0, parts, k) \in Nat /\ Place(0, parts, k) >= 0
        /\ Place(0, parts, 1) = 0
        /\ Place(0, parts, Len(parts) + 1) = 0 + Len(FlattenSeq(parts))
        /\ \A k \in 1 .. Len(parts) :
               /\ Len(parts[k]) \in Nat
               /\ Place(0, parts, k + 1) = Place(0, parts, k) + Len(parts[k])
               /\ Place(0, parts, k + 1) <= 0 + Len(FlattenSeq(parts))
    BY <1>6, Places, ZenonT(30)
  <2> QED BY <2>1, Zenon
<1>8. \A k \in 1 .. Len(parts) : Stands(parts[k], Place(0, parts, k), block)
  <2>1. Stands(block, 0, block) BY <1>4, <1>7 DEF Stands
  <2> QED BY <1>4, <1>6, <2>1, Places
<1>9. \A k : MetadataAt(event, k) = Place(0, parts, k) BY DEF MetadataAt, parts
<1>10. MetadataAt(event, n + 1) = Len(block) BY <1>4, <1>6, <1>7, <1>9
<1>11. ASSUME NEW k \in 1 .. n, event.columns[k].type # "TypeJSON"
     PROVE  LET width == MetadataWidth(event.columns[k].type)
            IN  /\ width # Unsupported
                /\ MetadataAt(event, k + 1) = MetadataAt(event, k) + width
                /\ metadataRead(block, MetadataAt(event, k), event.columns[k].type)
                      = OwnMetadata(event.columns[k])
                /\ OwnMetadata(event.columns[k]) \in Words
  <2> DEFINE s == MetadataOf(event.columns[k])
             type == event.columns[k].type
  <2>1. IsBytes(s) /\ Len(s) = MetadataWidth(type) /\ parts[k] = s
    BY <1>2, <1>3, <1>11
  <2>2. Stands(s, MetadataAt(event, k), block) BY <1>6, <1>8, <1>9, <2>1
  <2>3. metadataRead(block, MetadataAt(event, k), type) = metadataRead(s, 0, type)
    BY <2>1, <2>2, MetadataLocal
  <2>4. OwnMetadata(event.columns[k]) \in Words /\ MetadataWidth(type) \in 0 .. 2
    BY <2>1, OwnMetadataIs
  <2>5. MetadataAt(event, k + 1) = MetadataAt(event, k) + MetadataWidth(type)
    BY <1>6, <1>7, <1>9, <2>1
  <2>6. MetadataWidth(type) # Unsupported BY <2>4 DEF Unsupported
  <2> QED BY <2>3, <2>4, <2>5, <2>6 DEF OwnMetadata
<1>12. MetadataAt(event, 1) = 0 /\ \A k \in 1 .. n + 1 : MetadataAt(event, k) \in Nat
  BY <1>6, <1>7, <1>9
<1> QED BY <1>1, <1>10, <1>11, <1>12

(* The bits of the columns that are present, and of those that are NULL.   *)
LEMMA PresenceRead ==
    ASSUME Readable(event), data = Payload(event), NEW k \in ImagesOf(event)
    PROVE  LET bitmap == newBitmap(PresenceAt(event, k), columnCount)
           IN  /\ \A j \in 1 .. columnCount : Bit(bitmap, j - 1) <=> j \in Held(event, k)
               /\ BitCount(bitmap) = Cardinality(Held(event, k))
<1> DEFINE bitmap == newBitmap(PresenceAt(event, k), columnCount)
           set == {j - 1 : j \in Held(event, k)}
<1>1. PICK n \in Nat : n = columnCount /\ Len(event.columns) = n /\ event.spare \in BOOLEAN
                       /\ Held(event, k) \subseteq 1 .. n
  BY ShapeOf DEF columnCount
<1>2. Stands(BitmapBytes(set, n, event.spare), PresenceAt(event, k), data)
  BY <1>1, PresencePlaces
<1>3. ASSUME NEW i \in 0 .. n - 1 PROVE Bit(bitmap, i) <=> i + 1 \in Held(event, k)
  <2>1. Bit(bitmap, i) <=> i \in set BY <1>1, <1>2, BitsRead
  <2>2. \A j \in Held(event, k) : j - 1 = i <=> j = i + 1 BY <1>1
  <2>3. i \in set <=> i + 1 \in Held(event, k) BY <2>2
  <2> QED BY <2>1, <2>3
<1>4. \A j \in 1 .. n : Bit(bitmap, j - 1) <=> j \in Held(event, k)
  <2> TAKE j \in 1 .. n
  <2>1. j - 1 \in 0 .. n - 1 /\ j - 1 + 1 = j OBVIOUS
  <2> QED BY <1>3, <2>1
<1>5. {i \in 0 .. n - 1 : Bit(bitmap, i)} = {i \in 0 .. n - 1 : i + 1 \in Held(event, k)}
  BY <1>3
<1>6. BitCount(bitmap) = Cardinality({i \in 0 .. n - 1 : Bit(bitmap, i)})
  BY <1>1 DEF BitCount, newBitmap
<1>7. Cardinality({i \in 0 .. n - 1 : i + 1 \in Held(event, k)}) = Cardinality(Held(event, k))
  BY <1>1, PresenceCount
<1> QED BY <1>1, <1>4, <1>5, <1>6, <1>7

LEMMA NullsRead ==
    ASSUME Readable(event), data = Payload(event), NEW n \in 1 .. Len(event.rows),
           NEW k \in ImagesOf(event), NEW j \in Held(event, k)
    PROVE  Bit(newBitmap(ImageAt(event, n, k), Cardinality(Held(event, k))),
               Before(Held(event, k), j))
              <=> CellsOf(event, n, k)[j] = Null
<1> DEFINE count == Cardinality(Held(event, k))
           nulls == {i \in Held(event, k) : CellsOf(event, n, k)[i] = Null}
<1>1. PICK w \in Nat : w = Len(event.columns) /\ event.spare \in BOOLEAN
                       /\ Held(event, k) \subseteq 1 .. w
  BY ShapeOf
<1>2. Stands(BitmapBytes(NullsOf(event, n, k), count, event.spare), ImageAt(event, n, k), data)
  BY ImagePlaces
<1>3. count \in Nat BY <1>1, BeforeIs
<1>4. nulls \in SUBSET Held(event, k) OBVIOUS
<1>5. Before(Held(event, k), j) \in 0 .. count - 1
    /\ (Before(Held(event, k), j) \in {Before(Held(event, k), l) : l \in nulls} <=> j \in nulls)
  BY <1>1, <1>4, NullBits
<1>6. NullsOf(event, n, k) = {Before(Held(event, k), l) : l \in nulls} BY DEF NullsOf
<1>7. Bit(newBitmap(ImageAt(event, n, k), count), Before(Held(event, k), j))
       <=> Before(Held(event, k), j) \in NullsOf(event, n, k)
  BY <1>1, <1>2, <1>3, <1>5, BitsRead
<1> QED BY <1>5, <1>6, <1>7

(* What is read of a value that stands alone.                              *)
OwnCell(column, v) ==
    CellBytes(CellOf(column, v), 0, column.type, OwnMetadata(column), column.unsigned)

LEMMA CellRead ==
    ASSUME Readable(event), data = Payload(event), NEW n \in 1 .. Len(event.rows),
           NEW k \in ImagesOf(event), NEW j \in Held(event, k), CellsOf(event, n, k)[j] # Null
    PROVE  LET column == event.columns[j]
               at == ColumnAt(event, n, k, j)
               v == CellsOf(event, n, k)[j].value
               length == Len(CellParts(event, n, k)[j])
           IN  /\ CellBytes(data, at, column.type, OwnMetadata(column), column.unsigned)
                     = OwnCell(column, v)
               /\ cellLength(data, at, column.type, OwnMetadata(column)) = length
               /\ OwnCell(column, v).length = length
               /\ length \in Nat /\ length # Unsupported /\ at + length <= Len(data)
               /\ OwnCell(column, v).value # Nil
               /\ Reads(column, Value(OwnCell(column, v).value), v)
<1> DEFINE column == event.columns[j]
           at == ColumnAt(event, n, k, j)
           v == CellsOf(event, n, k)[j].value
           s == CellOf(column, v)
           meta == OwnMetadata(column)
<1>1. j \in 1 .. Len(event.columns) BY ShapeOf
<1>2. ReadAlone(column, v) BY ShapeOf
<1>3. IsBytes(s) /\ Len(s) > 0 /\ Precise(column.type, meta)
      /\ OwnCell(column, v).length = Len(s) /\ OwnCell(column, v).value # Nil
      /\ Reads(column, Value(OwnCell(column, v).value), v)
  BY <1>2 DEF ReadAlone, OwnCell
<1>4. CellParts(event, n, k)[j] = s BY <1>1, CellPartsAre
<1>5. Stands(s, at, data) BY <1>1, <1>4, ImagePlaces
<1>6. meta \in Nat
  <2>1. IsBytes(MetadataOf(column)) /\ Len(MetadataOf(column)) = MetadataWidth(column.type)
    BY <1>1, ShapeOf
  <2>2. meta \in Words BY <2>1, OwnMetadataIs
  <2> QED BY <2>2, WordsAreNat
<1>7. CellBytes(data, at, column.type, meta, column.unsigned) = OwnCell(column, v)
  BY <1>3, <1>5, <1>6, CellLocal DEF OwnCell
<1>8. Len(s) \in Nat /\ Len(s) # Unsupported /\ at + Len(s) <= Len(data)
  BY <1>3, <1>5 DEF Stands, Unsupported
<1>9. cellLength(data, at, column.type, meta) = Len(s)
  BY <1>3, <1>6, <1>7, <1>8, LengthsAgree
<1> QED BY <1>3, <1>4, <1>7, <1>8, <1>9

-----------------------------------------------------------------------------
(* What the parser has made of an event so far.                            *)

(* The first n items.                                                      *)
First(f, n) == [i \in 1 .. n |-> f[i]]

LEMMA FirstIs ==
    ASSUME NEW f, NEW n \in Nat
    PROVE  /\ Len(First(f, n)) = n /\ First(f, 0) = <<>>
           /\ \A i \in 1 .. n : First(f, n)[i] = f[i]
           /\ Append(First(f, n), f[n + 1]) = First(f, n + 1)
<1>1. First(f, n) \in Seq({f[i] : i \in 1 .. n}) /\ Len(First(f, n)) = n BY DEF First
<1>2. First(f, 0) = <<>> BY DEF First
<1>3. Append(First(f, n), f[n + 1]) = First(f, n + 1)
  <2> DEFINE s == First(f, n)
             t == Append(s, f[n + 1])
  <2>1. /\ t = [i \in 1 .. n + 1 |-> t[i]]
        /\ t[n + 1] = f[n + 1] /\ \A i \in 1 .. n : t[i] = s[i]
    <3> HIDE DEF s
    <3>1. PICK S : s \in Seq(S) /\ Len(s) = n /\ f[n + 1] \in S
      <4>1. s \in Seq({f[i] : i \in 1 .. n} \cup {f[n + 1]}) BY DEF s, First
      <4> QED BY <1>1, <4>1 DEF s
    <3> QED BY <3>1
  <2>2. \A i \in 1 .. n + 1 : t[i] = f[i]
    <3> TAKE i \in 1 .. n + 1
    <3>0. \A l \in 1 .. n : t[l] = s[l] /\ s[l] = f[l] BY <2>1 DEF First
    <3> HIDE DEF t, s
    <3>1. CASE i \in 1 .. n BY <3>0, <3>1
    <3>2. CASE i = n + 1 BY <2>1, <3>2 DEF t, s
    <3> QED BY <3>1, <3>2
  <2> HIDE DEF t
  <2> QED BY <2>1, <2>2 DEF First, t
<1> QED BY <1>1, <1>2, <1>3 DEF First

LEMMA FirstInSeq ==
    ASSUME NEW S, NEW f, NEW n \in Nat, \A i \in 1 .. n : f[i] \in S
    PROVE  First(f, n) \in Seq(S)
BY DEF First

(* What TableMap reads, and the bitmaps of the images.                     *)
Metas(e) == [k \in 1 .. Len(e.columns) |-> OwnMetadata(e.columns[k])]
Bitmaps(e) == [k \in ImagesOf(e) |-> newBitmap(PresenceAt(e, k), Len(e.columns))]

(* The part of a row that an image is, when its walk has come this far.    *)
SliceOf(e, n, k, upto) ==
    [nulls |-> newBitmap(ImageAt(e, n, k), Cardinality(Held(e, k))),
     from |-> CellsAt(e, n, k), to |-> upto]
RowOf(e, n) == [k \in ImagesOf(e) |-> SliceOf(e, n, k, ImageAt(e, n, k + 1))]
RowsOf(e) == [n \in 1 .. Len(e.rows) |-> RowOf(e, n)]

(* What must be delivered of an image.                                     *)
CutOf(e, n, k, j) ==
    IF j \notin Held(e, k) THEN Empty
    ELSE IF CellsOf(e, n, k)[j] = Null THEN Null
    ELSE Value(OwnCell(e.columns[j], CellsOf(e, n, k)[j].value).value)
LineOf(e, n, k) == [j \in 1 .. Len(e.columns) |-> CutOf(e, n, k, j)]
LinesOf(e, k) == [n \in 1 .. Len(e.rows) |-> LineOf(e, n, k)]

(* Row n is delivered up to an image.                                      *)
Given(e, d, im, n) ==
    /\ DOMAIN d = ImageNames
    /\ \A k \in ImagesOf(e) :
           d[Images(e.kind)[k]] = First(LinesOf(e, k), IF k < im THEN n ELSE n - 1)
    /\ \A name \in ImageNames :
           (\A k \in ImagesOf(e) : Images(e.kind)[k] # name) => d[name] = <<>>

(* The invariant. The event stays what it is, and an event that is past    *)
(* its metadata has no JSON column.                                        *)
Written ==
    /\ event \in Events
    /\ block = MetadataBlock(event.columns) /\ data = Payload(event)

Known ==
    pc \notin {"metadata", "error"} => Readable(event) /\ metadata = Metas(event)

NothingGiven ==
    pc \in {"metadata", "presence", "rows", "nulls", "skip"} =>
        r = 1 /\ delivered = [name \in ImageNames |-> <<>>]

(* Each loop has made so much of the event, and stands where the rest of   *)
(* it starts: the loop over the metadata and the one over the images,      *)
InMetadata ==
    pc = "metadata" =>
        /\ metadata = First(Metas(event), c - 1) /\ pos = MetadataAt(event, c)
        /\ \A k \in 1 .. c - 1 : event.columns[k].type # "TypeJSON"
        /\ image = 1 /\ present = <<>> /\ row = <<>> /\ rows = <<>>

InPresence ==
    pc = "presence" =>
        /\ present = First(Bitmaps(event), image - 1) /\ pos = PresenceAt(event, image)
        /\ row = <<>> /\ rows = <<>>

BitmapsRead ==
    pc \in {"rows", "nulls", "skip", "deliver", "cut"} => present = Bitmaps(event)

(* the walk over rows, images and columns; valueIndex counts the columns   *)
(* of the image in front of this one,                                      *)
InRows ==
    pc = "rows" =>
        /\ Len(rows) <= Len(event.rows) /\ rows = First(RowsOf(event), Len(rows))
        /\ row = <<>> /\ pos = RowAt(event, Len(rows) + 1)

InImage ==
    pc \in {"nulls", "skip"} =>
        /\ Len(rows) < Len(event.rows) /\ rows = First(RowsOf(event), Len(rows))
        /\ image \in ImagesOf(event)

InNulls ==
    pc = "nulls" =>
        /\ row = First(RowOf(event, Len(rows) + 1), image - 1)
        /\ pos = ImageAt(event, Len(rows) + 1, image)

InSkip ==
    pc = "skip" =>
        LET n == Len(rows) + 1
        IN  /\ row = Append(First(RowOf(event, n), image - 1),
                            SliceOf(event, n, image, CellsAt(event, n, image)))
            /\ pos = ColumnAt(event, n, image, c)
            /\ valueIndex = Before(Held(event, image), c)

(* and the cut, which finds the same places again.                         *)
InDelivery ==
    pc \in {"deliver", "cut"} =>
        /\ rows = RowsOf(event) /\ image \in ImagesOf(event)
        /\ (r > Len(event.rows) => image = 1 /\ pc = "deliver")
        /\ Given(event, delivered, image, r)

InCut ==
    pc = "cut" =>
        /\ pos = ColumnAt(event, r, image, c)
        /\ valueIndex = Before(Held(event, image), c)
        /\ line = First(LineOf(event, r, image), c - 1)

(* Everything is delivered in the end, an error has a reason, and the      *)
(* parser never looks behind the end.                                      *)
AtEnd ==
    /\ pc = "done" => Given(event, delivered, 1, Len(event.rows) + 1)
    /\ pc = "error" => ~Supported
    /\ pc # "overrun"

(* All parts: each loop needs what the loops before it have found, so that *)
(* none of them is inductive without the others.                           *)
RowsInv ==
    /\ TypeOK /\ Written /\ Known /\ NothingGiven /\ InMetadata /\ InPresence /\ BitmapsRead
    /\ InRows /\ InImage /\ InNulls /\ InSkip /\ InDelivery /\ InCut /\ AtEnd

-----------------------------------------------------------------------------
(* Each step keeps the invariant.                                          *)

LEMMA EventIs ==
    ASSUME Understood, event \in Events
    PROVE  /\ event.kind \in {"insert", "update", "delete"} /\ Understands(event)
           /\ Len(event.columns) \in Nat /\ columnCount = Len(event.columns) /\ columnCount \in Nat
           /\ Len(images) \in 1 .. 2 /\ ImagesOf(event) = 1 .. Len(images)
           /\ (\A k \in 1 .. columnCount : event.columns[k].type # "TypeJSON") => Readable(event)
<1>1. event.kind \in {"insert", "update", "delete"} /\ Understands(event)
      /\ Len(event.columns) \in Nat
  BY EventsAssumption DEF Understood
<1>2. Len(Images(event.kind)) \in 1 .. 2
  <2>1. CASE event.kind = "insert" BY <2>1 DEF Images
  <2>2. CASE event.kind = "update" BY <2>2 DEF Images
  <2>3. CASE event.kind = "delete" BY <2>3 DEF Images
  <2> QED BY <1>1, <2>1, <2>2, <2>3
<1> QED BY <1>1, <1>2 DEF columnCount, images, ImagesOf, Readable

LEMMA InitRowsInv == Understood /\ Init => RowsInv
<1> SUFFICES ASSUME Understood, Init PROVE RowsInv OBVIOUS
<1>1. event \in Events /\ block = MetadataBlock(event.columns) /\ data = Payload(event)
  BY DEF Init
<1>2. Understands(event) /\ Len(event.columns) \in Nat /\ columnCount \in Nat
    /\ Len(images) \in 1 .. 2
  BY <1>1, EventIs
<1>3. /\ pc = "metadata" /\ metadata = <<>> /\ image = 1 /\ c = 1 /\ valueIndex = 0 /\ pos = 0
      /\ present = <<>> /\ row = <<>> /\ rows = <<>> /\ r = 1
      /\ delivered = [name \in ImageNames |-> <<>>]
  BY DEF Init
<1>4. TypeOK
  <2>1. pc \in Loops \cup Ends BY <1>3 DEF Loops
  <2>2. c \in 1 .. columnCount + 1 /\ valueIndex \in 0 .. columnCount
        /\ image \in 1 .. Len(images) + 1
    BY <1>2, <1>3
  <2>3. /\ metadata \in Seq(Words) /\ present \in Seq([from : Nat, count : {columnCount}])
        /\ row \in Seq(Slices) /\ rows \in Seq(Seq(Slices))
    BY <1>3
  <2>4. r \in 1 .. Len(rows) + 1
    <3>1. Len(rows) = 0 BY <1>3
    <3> QED BY <1>3, <3>1
  <2>5. pos \in Nat /\ DOMAIN delivered = ImageNames BY <1>3
  <2> QED BY <2>1, <2>2, <2>3, <2>4, <2>5 DEF TypeOK
<1>5. InMetadata
  <2>1. MetadataAt(event, 1) = 0 BY <1>1, <1>2, MetadataPlaces
  <2>2. c - 1 = 0 BY <1>3
  <2>3. metadata = First(Metas(event), c - 1)
    <3>1. First(Metas(event), 0) = <<>> BY FirstIs
    <3> QED BY <1>3, <2>2, <3>1
  <2>4. \A k \in 1 .. c - 1 : FALSE BY <2>2
  <2> QED BY <1>3, <2>1, <2>3, <2>4 DEF InMetadata
<1> QED
  BY <1>1, <1>3, <1>4, <1>5
     DEF RowsInv, Written, Known, NothingGiven, InPresence, BitmapsRead, InRows, InImage, InNulls,
         InSkip, InDelivery, InCut, AtEnd

(* An error is no surprise.                                                *)
LEMMA ErrorKeepsRows ==
    ASSUME RowsInv, End("error"), ~Supported
    PROVE  RowsInv'
<1>1. /\ event' = event /\ block' = block /\ data' = data /\ pc' = "error"
      /\ metadata' = metadata /\ image' = image /\ c' = c /\ valueIndex' = valueIndex
      /\ pos' = pos /\ present' = present /\ row' = row /\ rows' = rows /\ r' = r
      /\ delivered' = delivered
  BY DEF End, written
<1>2. columnCount' = columnCount /\ images' = images /\ Supported' = Supported
  BY <1>1 DEF columnCount, images, Supported
<1>3. TypeOK' BY <1>1, <1>2 DEF RowsInv, TypeOK, Ends
<1> QED
  BY <1>1, <1>2, <1>3
     DEF RowsInv, Written, Known, NothingGiven, InMetadata, InPresence, BitmapsRead, InRows,
         InImage, InNulls, InSkip, InDelivery, InCut, AtEnd

LEMMA ReadMetadataKeepsRows ==
    ASSUME Understood, RowsInv, ReadMetadata
    PROVE  RowsInv'
<1>1. event \in Events /\ block = MetadataBlock(event.columns) BY DEF RowsInv, Written
<1>2. Understands(event) /\ Len(event.columns) \in Nat /\ columnCount \in Nat
      /\ columnCount = Len(event.columns)
  BY <1>1, EventIs
<1>3. pc = "metadata" /\ c \in 1 .. columnCount BY <1>2 DEF ReadMetadata, RowsInv, TypeOK
<1>4. CASE MetadataWidth(typ) = Unsupported
  <2>1. typ = "TypeJSON" BY <1>1, <1>2, <1>3, <1>4, MetadataPlaces DEF typ
  <2>2. ~Supported BY <1>3, <2>1 DEF Supported, typ
  <2> QED BY <1>4, <2>2, ErrorKeepsRows DEF ReadMetadata
<1>5. CASE MetadataWidth(typ) # Unsupported
  <2>1. /\ event' = event /\ block' = block /\ data' = data /\ pc' = pc
        /\ image' = image /\ c' = c + 1 /\ valueIndex' = valueIndex
        /\ present' = present /\ row' = row /\ rows' = rows /\ r' = r
        /\ delivered' = delivered
    BY <1>5 DEF ReadMetadata, written
  <2>2. metadata' = Append(metadata, metadataRead(block, pos, typ))
        /\ pos' = pos + MetadataWidth(typ)
    BY <1>5 DEF ReadMetadata
  <2>3. columnCount' = columnCount /\ images' = images BY <2>1 DEF columnCount, images
  <2>4. typ # "TypeJSON" BY <1>5 DEF MetadataWidth, Blobs, Unsupported
  <2>5. pos = MetadataAt(event, c) /\ metadata = First(Metas(event), c - 1)
        /\ image = 1 /\ present = <<>> /\ row = <<>> /\ rows = <<>>
        /\ \A k \in 1 .. c - 1 : event.columns[k].type # "TypeJSON"
    BY <1>3 DEF RowsInv, InMetadata
  <2>6. /\ MetadataAt(event, c + 1) = MetadataAt(event, c) + MetadataWidth(typ)
        /\ metadataRead(block, MetadataAt(event, c), typ) = OwnMetadata(event.columns[c])
        /\ OwnMetadata(event.columns[c]) \in Words
        /\ MetadataAt(event, c + 1) \in Nat
    BY <1>1, <1>2, <1>3, <2>4, MetadataPlaces DEF typ
  <2>7. Metas(event)[c] = OwnMetadata(event.columns[c]) BY <1>2, <1>3 DEF Metas
  <2>8. metadata' = First(Metas(event), c)
    <3>1. PICK n \in Nat : n = c - 1 /\ n + 1 = c BY <1>3
    <3>2. Append(First(Metas(event), n), Metas(event)[n + 1]) = First(Metas(event), n + 1)
      BY FirstIs
    <3> QED BY <2>2, <2>5, <2>6, <2>7, <3>1, <3>2
  <2>9. metadata' \in Seq(Words) BY <2>2, <2>5, <2>6 DEF RowsInv, TypeOK
  <2>10. TypeOK'
    <3>1. c' \in 1 .. columnCount' + 1 BY <1>2, <1>3, <2>1, <2>3
    <3>2. pos' \in Nat BY <2>2, <2>5, <2>6
    <3> QED BY <2>1, <2>3, <2>9, <3>1, <3>2 DEF RowsInv, TypeOK
  <2>11. InMetadata'
    <3>1. c' - 1 = c BY <1>3, <2>1
    <3>2. \A k \in 1 .. c : event.columns[k].type # "TypeJSON"
      <4>1. \A k \in 1 .. c : k \in 1 .. c - 1 \/ k = c BY <1>3
      <4> QED BY <2>4, <2>5, <4>1 DEF typ
    <3>3. metadata' = First(Metas(event'), c' - 1) /\ pos' = MetadataAt(event', c')
      BY <2>1, <2>2, <2>5, <2>6, <2>8, <3>1
    <3> QED BY <2>1, <2>5, <3>1, <3>2, <3>3 DEF InMetadata
  <2> QED
    BY <1>3, <2>1, <2>10, <2>11
       DEF RowsInv, Written, Known, NothingGiven, InPresence, BitmapsRead, InRows,
           InImage, InNulls, InSkip, InDelivery, InCut, AtEnd
<1> QED BY <1>4, <1>5

LEMMA EndMetadataKeepsRows ==
    ASSUME Understood, RowsInv, EndMetadata
    PROVE  RowsInv'
<1>1. event \in Events /\ block = MetadataBlock(event.columns) BY DEF RowsInv, Written
<1>2. Understands(event) /\ Len(event.columns) \in Nat /\ columnCount \in Nat
      /\ columnCount = Len(event.columns)
  BY <1>1, EventIs
<1>3. pc = "metadata" /\ c = columnCount + 1
  <2>1. pc = "metadata" /\ c > columnCount BY DEF EndMetadata
  <2>2. c \in 1 .. columnCount + 1 BY DEF RowsInv, TypeOK
  <2> QED BY <1>2, <2>1, <2>2
<1>4. /\ pos = MetadataAt(event, c) /\ metadata = First(Metas(event), c - 1)
      /\ image = 1 /\ present = <<>> /\ row = <<>> /\ rows = <<>>
      /\ \A k \in 1 .. c - 1 : event.columns[k].type # "TypeJSON"
  BY <1>3 DEF RowsInv, InMetadata
<1>5. pos = Len(block) BY <1>1, <1>2, <1>3, <1>4, MetadataPlaces
<1>6. c - 1 = columnCount BY <1>2, <1>3
<1>7. Readable(event) BY <1>1, <1>4, <1>6, EventIs
<1>8. metadata = Metas(event) BY <1>2, <1>4, <1>6 DEF First, Metas
<1>9. /\ event' = event /\ block' = block /\ data' = data /\ pc' = "presence" /\ pos' = 0
      /\ image' = image /\ c' = c /\ valueIndex' = valueIndex /\ metadata' = metadata
      /\ present' = present /\ row' = row /\ rows' = rows /\ r' = r
      /\ delivered' = delivered
  BY <1>5 DEF EndMetadata, written
<1>10. columnCount' = columnCount /\ images' = images BY <1>9 DEF columnCount, images
<1>11. TypeOK' BY <1>9, <1>10 DEF RowsInv, TypeOK, Loops
<1>12. InPresence'
  <2>1. PresenceAt(event, 1) = 0 BY <1>7, PresencePlaces
  <2>2. First(Bitmaps(event), 0) = <<>> BY FirstIs
  <2>3. image' - 1 = 0 BY <1>4, <1>9
  <2>4. present' = First(Bitmaps(event'), image' - 1) BY <1>4, <1>9, <2>2, <2>3
  <2> QED BY <1>4, <1>9, <2>1, <2>4 DEF InPresence
<1>13. Known' BY <1>7, <1>8, <1>9 DEF Known
<1> QED
  BY <1>3, <1>9, <1>11, <1>12, <1>13
     DEF RowsInv, Written, NothingGiven, InMetadata, BitmapsRead, InRows,
         InImage, InNulls, InSkip, InDelivery, InCut, AtEnd

LEMMA ReadPresenceKeepsRows ==
    ASSUME Understood, RowsInv, ReadPresence
    PROVE  RowsInv'
<1>1. event \in Events /\ data = Payload(event) BY DEF RowsInv, Written
<1>2. /\ Len(event.columns) \in Nat /\ columnCount \in Nat /\ columnCount = Len(event.columns)
      /\ Len(images) \in 1 .. 2 /\ ImagesOf(event) = 1 .. Len(images)
  BY <1>1, EventIs
<1>3. pc = "presence" /\ image \in 1 .. Len(images) BY <1>2 DEF ReadPresence, RowsInv, TypeOK
<1>4. Readable(event) /\ metadata = Metas(event) BY <1>3 DEF RowsInv, Known
<1>5. present = First(Bitmaps(event), image - 1) /\ pos = PresenceAt(event, image)
    /\ row = <<>> /\ rows = <<>>
  BY <1>3 DEF RowsInv, InPresence
<1>6. /\ PresenceAt(event, image + 1) = PresenceAt(event, image) + byteSize(columnCount)
      /\ PresenceAt(event, image + 1) <= Len(data)
      /\ PresenceAt(event, image + 1) \in Nat /\ PresenceAt(event, image) \in Nat
      /\ Len(data) \in Nat
  <2>1. image \in ImagesOf(event) /\ image + 1 \in 1 .. Len(images) + 1
        /\ image \in 1 .. Len(images) + 1
    BY <1>2, <1>3
  <2>2. Len(data) \in Nat BY <1>1, <1>4, PayloadIs
  <2> QED BY <1>1, <1>2, <1>4, <2>1, <2>2, PresencePlaces DEF images
<1>7. ~(pos + byteSize(columnCount) > Len(data)) BY <1>5, <1>6
<1>8. /\ event' = event /\ block' = block /\ data' = data /\ pc' = pc
      /\ present' = Append(present, newBitmap(pos, columnCount))
      /\ pos' = pos + byteSize(columnCount) /\ image' = image + 1
      /\ metadata' = metadata /\ c' = c /\ valueIndex' = valueIndex
      /\ row' = row /\ rows' = rows /\ r' = r /\ delivered' = delivered
  BY <1>7 DEF ReadPresence, written
<1>9. columnCount' = columnCount /\ images' = images BY <1>8 DEF columnCount, images
<1>10. present' = First(Bitmaps(event), image)
  <2>1. Bitmaps(event)[image] = newBitmap(pos, columnCount) BY <1>2, <1>3, <1>5 DEF Bitmaps
  <2>2. PICK n \in Nat : n = image - 1 /\ n + 1 = image BY <1>3
  <2>3. Append(First(Bitmaps(event), n), Bitmaps(event)[n + 1]) = First(Bitmaps(event), n + 1)
    BY FirstIs
  <2> QED BY <1>5, <1>8, <2>1, <2>2, <2>3
<1>11. present' \in Seq([from : Nat, count : {columnCount}])
  <2>1. newBitmap(pos, columnCount) \in [from : Nat, count : {columnCount}]
    BY <1>5, <1>6 DEF newBitmap
  <2> QED BY <1>8, <2>1 DEF RowsInv, TypeOK
<1>12. TypeOK'
  <2>1. image' \in 1 .. Len(images') + 1 BY <1>2, <1>3, <1>8, <1>9
  <2>2. pos' \in Nat BY <1>5, <1>6, <1>8
  <2> QED BY <1>8, <1>9, <1>11, <2>1, <2>2 DEF RowsInv, TypeOK
<1>13. InPresence'
  <2>1. image' - 1 = image BY <1>3, <1>8
  <2> QED BY <1>5, <1>6, <1>8, <1>10, <2>1 DEF InPresence
<1>14. Known' BY <1>4, <1>8 DEF Known
<1> QED
  BY <1>3, <1>8, <1>12, <1>13, <1>14
     DEF RowsInv, Written, NothingGiven, InMetadata, BitmapsRead, InRows,
         InImage, InNulls, InSkip, InDelivery, InCut, AtEnd

LEMMA EndPresenceKeepsRows ==
    ASSUME Understood, RowsInv, EndPresence
    PROVE  RowsInv'
<1>1. event \in Events /\ data = Payload(event) BY DEF RowsInv, Written
<1>2. Len(images) \in 1 .. 2 /\ ImagesOf(event) = 1 .. Len(images)
      /\ Len(event.columns) \in Nat
  BY <1>1, EventIs
<1>3. pc = "presence" /\ image = Len(images) + 1
  <2>1. pc = "presence" /\ image > Len(images) BY DEF EndPresence
  <2>2. image \in 1 .. Len(images) + 1 BY DEF RowsInv, TypeOK
  <2> QED BY <1>2, <2>1, <2>2
<1>4. Readable(event) /\ metadata = Metas(event) BY <1>3 DEF RowsInv, Known
<1>5. present = First(Bitmaps(event), image - 1) /\ pos = PresenceAt(event, image)
    /\ row = <<>> /\ rows = <<>>
  BY <1>3 DEF RowsInv, InPresence
<1>6. /\ event' = event /\ block' = block /\ data' = data /\ pc' = "rows"
      /\ present' = present /\ pos' = pos /\ image' = image
      /\ metadata' = metadata /\ c' = c /\ valueIndex' = valueIndex
      /\ row' = row /\ rows' = rows /\ r' = r /\ delivered' = delivered
  BY DEF EndPresence, written
<1>7. columnCount' = columnCount /\ images' = images BY <1>6 DEF columnCount, images
<1>8. TypeOK' BY <1>6, <1>7 DEF RowsInv, TypeOK, Loops
<1>9. present = Bitmaps(event)
  <2>1. image - 1 = Len(images) BY <1>2, <1>3
  <2> QED BY <1>2, <1>5, <2>1 DEF First, Bitmaps
<1>10. InRows'
  <2>1. Len(rows) = 0 /\ Len(rows) + 1 = 1 BY <1>5
  <2>2. pos = RowAt(event, 1) BY <1>3, <1>4, <1>5, PresencePlaces DEF images
  <2>3. rows = First(RowsOf(event), 0) BY <1>5, FirstIs
  <2>4. Len(event.rows) \in Nat BY <1>4, ShapeOf
  <2> QED BY <1>5, <1>6, <2>1, <2>2, <2>3, <2>4 DEF InRows
<1>11. Known' BY <1>4, <1>6 DEF Known
<1>12. BitmapsRead' BY <1>6, <1>9 DEF BitmapsRead
<1> QED
  BY <1>3, <1>6, <1>8, <1>10, <1>11, <1>12
     DEF RowsInv, Written, NothingGiven, InMetadata, InPresence,
         InImage, InNulls, InSkip, InDelivery, InCut, AtEnd

(* Facts about the content that steps share.                               *)
LEMMA Counts ==
    ASSUME NEW e, Readable(e), NEW k \in ImagesOf(e)
    PROVE  /\ Held(e, k) \subseteq 1 .. Len(e.columns) /\ Cardinality(Held(e, k)) \in Nat
           /\ Before(Held(e, k), 1) = 0
           /\ \A j \in 1 .. Len(e.columns) + 1 : Before(Held(e, k), j) \in 0 .. Len(e.columns)
           /\ \A j \in 1 .. Len(e.columns) :
                  Before(Held(e, k), j + 1)
                     = IF j \in Held(e, k) THEN Before(Held(e, k), j) + 1
                       ELSE Before(Held(e, k), j)
<1>1. PICK n \in Nat : n = Len(e.columns) /\ Held(e, k) \subseteq 1 .. n BY ShapeOf
<1>2. Cardinality(Held(e, k)) \in 0 .. n /\ Before(Held(e, k), 1) = 0 BY <1>1, BeforeIs
<1>3. \A j \in 1 .. n + 1 : Before(Held(e, k), j) \in 0 .. Cardinality(Held(e, k))
  BY <1>1, BeforeIs
<1>4. \A j \in 1 .. n : Before(Held(e, k), j + 1)
                         = IF j \in Held(e, k) THEN Before(Held(e, k), j) + 1
                           ELSE Before(Held(e, k), j)
  <2> TAKE j \in 1 .. n
  <2> DEFINE here == Held(e, k)
  <2>1. here \subseteq 1 .. n BY <1>1
  <2> HIDE DEF here
  <2>3. \A i \in 1 .. n :
            Before(here, i + 1) = IF i \in here THEN Before(here, i) + 1 ELSE Before(here, i)
    BY <2>1, BeforeIs, Zenon
  <2> QED BY <2>3 DEF here
<1>5. \A j \in 1 .. n + 1 : Before(Held(e, k), j) \in 0 .. n BY <1>2, <1>3
<1> QED BY <1>1, <1>2, <1>4, <1>5

LEMMA SliceTyped ==
    ASSUME NEW e, Readable(e), NEW n \in 1 .. Len(e.rows), NEW k \in ImagesOf(e), NEW upto \in Nat
    PROVE  SliceOf(e, n, k, upto) \in Slices
<1>1. ImageAt(e, n, k) \in Nat /\ CellsAt(e, n, k) \in Nat BY ImagePlaces
<1>2. Cardinality(Held(e, k)) \in Nat BY Counts
<1> QED BY <1>1, <1>2 DEF SliceOf, Slices, newBitmap

LEMMA NextRowKeepsRows ==
    ASSUME Understood, RowsInv, NextRow
    PROVE  RowsInv'
<1>1. event \in Events /\ data = Payload(event) BY DEF RowsInv, Written
<1>2. Len(images) \in 1 .. 2 /\ ImagesOf(event) = 1 .. Len(images) BY <1>1, EventIs
<1>3. pc = "rows" /\ pos < Len(data) BY DEF NextRow
<1>4. Readable(event) /\ metadata = Metas(event) BY <1>3 DEF RowsInv, Known
<1>5. PICK w \in Nat : w = Len(event.rows) BY <1>4, ShapeOf
<1>6. PICK n \in Nat : n = Len(rows) /\ n <= w /\ rows = First(RowsOf(event), n)
                       /\ pos = RowAt(event, n + 1)
  <2>1. Len(rows) \in Nat BY DEF RowsInv, TypeOK
  <2> QED BY <1>3, <1>5, <2>1 DEF RowsInv, InRows
<1>7. Len(data) \in Nat BY <1>1, <1>4, PayloadIs
<1>8. n < w
  <2>1. RowAt(event, w + 1) = Len(data) BY <1>1, <1>4, <1>5, RowPlaces
  <2>2. ASSUME n = w PROVE FALSE
    <3>1. pos = Len(data) BY <1>6, <2>1, <2>2
    <3> QED BY <1>3, <1>7, <3>1
  <2> QED BY <1>6, <2>2
<1>9. /\ event' = event /\ block' = block /\ data' = data /\ pc' = "nulls"
      /\ image' = 1 /\ row' = <<>>
      /\ metadata' = metadata /\ c' = c /\ valueIndex' = valueIndex /\ pos' = pos
      /\ present' = present /\ rows' = rows /\ r' = r /\ delivered' = delivered
  BY DEF NextRow, written
<1>10. columnCount' = columnCount /\ images' = images BY <1>9 DEF columnCount, images
<1>11. TypeOK'
  <2>1. image' \in 1 .. Len(images') + 1 BY <1>2, <1>9, <1>10
  <2>2. row' \in Seq(Slices) BY <1>9
  <2> QED BY <1>9, <1>10, <2>1, <2>2 DEF RowsInv, TypeOK, Loops
<1>12. InImage'
  <2>1. 1 \in ImagesOf(event) BY <1>2
  <2>2. Len(rows) < Len(event.rows) /\ rows = First(RowsOf(event), Len(rows))
    BY <1>5, <1>6, <1>8
  <2> QED BY <1>9, <2>1, <2>2 DEF InImage
<1>13. InNulls'
  <2>1. n + 1 \in 1 .. w BY <1>8
  <2>2. ImageAt(event, n + 1, 1) = RowAt(event, n + 1) BY <1>4, <1>5, <2>1, RowPlaces
  <2>3. First(RowOf(event, n + 1), 0) = <<>> /\ 1 - 1 = 0 BY FirstIs
  <2> QED BY <1>6, <1>9, <2>2, <2>3 DEF InNulls
<1>14. Known' /\ BitmapsRead' BY <1>3, <1>4, <1>9 DEF Known, RowsInv, BitmapsRead
<1> QED
  BY <1>3, <1>9, <1>11, <1>12, <1>13, <1>14
     DEF RowsInv, Written, NothingGiven, InMetadata, InPresence, InRows, InSkip, InDelivery,
         InCut, AtEnd

LEMMA EndRowsKeepsRows ==
    ASSUME Understood, RowsInv, EndRows
    PROVE  RowsInv'
<1>1. event \in Events /\ data = Payload(event) BY DEF RowsInv, Written
<1>2. Len(images) \in 1 .. 2 /\ ImagesOf(event) = 1 .. Len(images)
      /\ event.kind \in {"insert", "update", "delete"}
  BY <1>1, EventIs
<1>3. pc = "rows" /\ pos >= Len(data) BY DEF EndRows
<1>4. Readable(event) /\ metadata = Metas(event) BY <1>3 DEF RowsInv, Known
<1>5. PICK w \in Nat : w = Len(event.rows) BY <1>4, ShapeOf
<1>6. PICK n \in Nat : n = Len(rows) /\ n <= w /\ rows = First(RowsOf(event), n)
                     /\ pos = RowAt(event, n + 1)
  <2>1. Len(rows) \in Nat BY DEF RowsInv, TypeOK
  <2> QED BY <1>3, <1>5, <2>1 DEF RowsInv, InRows
<1>7. n = w
  <2> SUFFICES ASSUME n # w PROVE FALSE OBVIOUS
  <2>1. n + 1 \in 1 .. w BY <1>6
  <2>2. RowAt(event, n + 1) < Len(data) BY <1>1, <1>4, <1>5, <2>1, RowPlaces
  <2>3. RowAt(event, n + 1) \in Nat /\ Len(data) \in Nat
    <3>1. n + 1 \in 1 .. w + 1 BY <2>1
    <3> QED BY <1>1, <1>4, <1>5, <3>1, RowPlaces, PayloadIs
  <2>4. PICK a \in Nat, b \in Nat : a = RowAt(event, n + 1) /\ b = Len(data) BY <2>3
  <2>5. a < b BY <2>2, <2>4
  <2>6. a >= b BY <1>3, <1>6, <2>4
  <2> QED BY <2>5, <2>6
<1>8. /\ event' = event /\ block' = block /\ data' = data /\ pc' = "deliver"
      /\ image' = 1 /\ row' = row
      /\ metadata' = metadata /\ c' = c /\ valueIndex' = valueIndex /\ pos' = pos
      /\ present' = present /\ rows' = rows /\ r' = r /\ delivered' = delivered
  BY DEF EndRows, written
<1>9. columnCount' = columnCount /\ images' = images BY <1>8 DEF columnCount, images
<1>10. TypeOK'
  <2>1. image' \in 1 .. Len(images') + 1 BY <1>2, <1>8, <1>9
  <2> QED BY <1>8, <1>9, <2>1 DEF RowsInv, TypeOK, Loops
<1>11. rows = RowsOf(event) BY <1>5, <1>6, <1>7 DEF First, RowsOf
<1>12. r = 1 /\ delivered = [name \in ImageNames |-> <<>>] BY <1>3 DEF RowsInv, NothingGiven
<1>13. Given(event, delivered, 1, 1)
  <2>1. \A k \in ImagesOf(event) : (IF k < 1 THEN 1 ELSE 1 - 1) = 0
    <3>1. \A k \in 1 .. Len(images) : (IF k < 1 THEN 1 ELSE 1 - 1) = 0
      <4>1. \A k \in Nat : k >= 1 => (IF k < 1 THEN 1 ELSE 1 - 1) = 0 OBVIOUS
      <4>2. PICK m \in Nat : m = Len(images) BY <1>2
      <4>3. \A k \in 1 .. m : k \in Nat /\ k >= 1 OBVIOUS
      <4> QED BY <4>1, <4>2, <4>3
    <3> QED BY <1>2, <3>1
  <2>2. \A k \in ImagesOf(event) : First(LinesOf(event, k), 0) = <<>> BY FirstIs
  <2>3. \A k \in ImagesOf(event) : Images(event.kind)[k] \in ImageNames 
    <3>1. event.kind \in {"insert", "update", "delete"} BY <1>2
    <3> QED BY <3>1, ImagesAre
  <2> QED BY <1>12, <2>1, <2>2, <2>3 DEF Given
<1>14. InDelivery'
  <2>1. 1 \in ImagesOf(event) BY <1>2
  <2>2. r > Len(event.rows) => image' = 1 /\ pc' = "deliver" BY <1>8
  <2> QED BY <1>8, <1>11, <1>12, <1>13, <2>1, <2>2 DEF InDelivery
<1>15. Known' /\ BitmapsRead' BY <1>3, <1>4, <1>8 DEF Known, RowsInv, BitmapsRead
<1> QED
  BY <1>3, <1>8, <1>10, <1>14, <1>15
     DEF RowsInv, Written, NothingGiven, InMetadata, InPresence, InRows, InImage, InNulls,
         InSkip, InCut, AtEnd

LEMMA ReadNullsKeepsRows ==
    ASSUME Understood, RowsInv, ReadNulls
    PROVE  RowsInv'
<1>1. event \in Events /\ data = Payload(event) BY DEF RowsInv, Written
<1>2. /\ Len(images) \in 1 .. 2 /\ ImagesOf(event) = 1 .. Len(images)
      /\ columnCount \in Nat /\ columnCount = Len(event.columns)
  BY <1>1, EventIs
<1>3. pc = "nulls" BY DEF ReadNulls
<1>4. Readable(event) /\ metadata = Metas(event) BY <1>3 DEF RowsInv, Known
<1>5. PICK n \in 1 .. Len(event.rows) : n = Len(rows) + 1
  <2>1. Len(rows) \in Nat BY DEF RowsInv, TypeOK
  <2>2. Len(rows) < Len(event.rows) /\ Len(event.rows) \in Nat
    BY <1>3, <1>4, ShapeOf DEF RowsInv, InImage
  <2> QED BY <2>1, <2>2
<1>6. image \in ImagesOf(event) /\ row = First(RowOf(event, n), image - 1)
    /\ pos = ImageAt(event, n, image)
  BY <1>3, <1>5 DEF RowsInv, InImage, InNulls
<1>7. present[image] = newBitmap(PresenceAt(event, image), columnCount)
  BY <1>2, <1>3, <1>6 DEF RowsInv, BitmapsRead, Bitmaps
<1>8. BitCount(present[image]) = Cardinality(Held(event, image))
  BY <1>1, <1>4, <1>6, <1>7, PresenceRead
<1>9. pos + byteSize(BitCount(present[image])) = CellsAt(event, n, image)
  BY <1>6, <1>8 DEF CellsAt
<1>10. CellsAt(event, n, image) \in Nat /\ CellsAt(event, n, image) <= Len(data)
     /\ CellsAt(event, n, image) = ColumnAt(event, n, image, 1) /\ Len(data) \in Nat
  BY <1>1, <1>4, <1>6, ImagePlaces, PayloadIs
<1>11. ~(pos + byteSize(BitCount(present[image])) > Len(data)) BY <1>9, <1>10
<1>12. /\ event' = event /\ block' = block /\ data' = data /\ pc' = "skip"
       /\ row' = Append(row, SliceOf(event, n, image, CellsAt(event, n, image)))
       /\ pos' = CellsAt(event, n, image) /\ c' = 1 /\ valueIndex' = 0
       /\ metadata' = metadata /\ image' = image
       /\ present' = present /\ rows' = rows /\ r' = r /\ delivered' = delivered
  BY <1>6, <1>8, <1>9, <1>11 DEF ReadNulls, written, SliceOf
<1>13. columnCount' = columnCount /\ images' = images BY <1>12 DEF columnCount, images
<1>14. TypeOK'
  <2>1. SliceOf(event, n, image, CellsAt(event, n, image)) \in Slices
    BY <1>4, <1>6, <1>10, SliceTyped
  <2>2. row' \in Seq(Slices) BY <1>12, <2>1 DEF RowsInv, TypeOK
  <2>3. c' \in 1 .. columnCount' + 1 /\ valueIndex' \in 0 .. columnCount'
    BY <1>2, <1>12, <1>13
  <2>4. pos' \in Nat BY <1>10, <1>12
  <2> QED BY <1>12, <1>13, <2>2, <2>3, <2>4 DEF RowsInv, TypeOK, Loops
<1>15. InSkip'
  <2>1. Before(Held(event, image), 1) = 0 BY <1>4, <1>6, Counts
  <2> QED BY <1>5, <1>6, <1>10, <1>12, <2>1 DEF InSkip
<1>16. Known' /\ BitmapsRead' /\ InImage'
  BY <1>3, <1>4, <1>12 DEF Known, RowsInv, BitmapsRead, InImage
<1> QED
  BY <1>3, <1>12, <1>14, <1>15, <1>16
     DEF RowsInv, Written, NothingGiven, InMetadata, InPresence, InRows, InNulls, InDelivery,
         InCut, AtEnd

(* What the two loops over the columns of an image find in one column.     *)
LEMMA ColumnHere ==
    ASSUME Readable(event), data = Payload(event), metadata = Metas(event),
           present = Bitmaps(event), NEW n \in 1 .. Len(event.rows), image \in ImagesOf(event),
           c \in 1 .. columnCount, pos = ColumnAt(event, n, image, c),
           valueIndex = Before(Held(event, image), c)
    PROVE  LET found == c \in Held(event, image)
               null == CellsOf(event, n, image)[c] = Null
               own == OwnCell(event.columns[c], CellsOf(event, n, image)[c].value)
               nulls == newBitmap(ImageAt(event, n, image), Cardinality(Held(event, image)))
               next == ColumnAt(event, n, image, c + 1)
           IN  /\ Bit(present[image], c - 1) <=> found
               /\ found => (Bit(nulls, valueIndex) <=> null)
               /\ Before(Held(event, image), c + 1)
                     = IF found THEN valueIndex + 1 ELSE valueIndex
               /\ Before(Held(event, image), c + 1) \in 0 .. columnCount
               /\ next \in Nat
               /\ ~found \/ null => next = pos + 0
               /\ found /\ ~null =>
                      /\ cellLength(data, pos, typ, metadata[c]) = own.length
                      /\ CellBytes(data, pos, typ, metadata[c], event.columns[c].unsigned) = own
                      /\ own.length # Unsupported /\ own.value # Nil
                      /\ next = pos + own.length
                      /\ ~(pos + own.length > Len(data))
                      /\ ~(pos + own.length > ImageAt(event, n, image + 1))
<1> DEFINE found == c \in Held(event, image)
           null == CellsOf(event, n, image)[c] = Null
           own == OwnCell(event.columns[c], CellsOf(event, n, image)[c].value)
           nulls == newBitmap(ImageAt(event, n, image), Cardinality(Held(event, image)))
           part == CellParts(event, n, image)[c]
<1>1. PICK m \in Nat : m = Len(event.columns) /\ m = columnCount BY ShapeOf DEF columnCount
<1>2. c \in 1 .. m /\ c + 1 \in 1 .. m + 1 BY <1>1
<1>3. Bit(present[image], c - 1) <=> found
  <2>1. present[image] = newBitmap(PresenceAt(event, image), columnCount)
    BY <1>1 DEF Bitmaps
  <2> QED BY <2>1, PresenceRead
<1>4. found => (Bit(nulls, valueIndex) <=> null) BY NullsRead
<1>5. /\ Before(Held(event, image), c + 1) = IF found THEN valueIndex + 1 ELSE valueIndex
      /\ Before(Held(event, image), c + 1) \in 0 .. columnCount
  BY <1>1, <1>2, Counts, ZenonT(60)
<1>6. /\ ColumnAt(event, n, image, c + 1) \in Nat /\ ColumnAt(event, n, image, c) \in Nat
      /\ ColumnAt(event, n, image, c + 1) = pos + Len(part)
      /\ ColumnAt(event, n, image, c + 1) <= ImageAt(event, n, image + 1)
  <2>1. c \in 1 .. m + 1 BY <1>2
  <2> QED BY <1>1, <1>2, <2>1, ImagePlaces
<1>7. ASSUME ~found \/ null PROVE ColumnAt(event, n, image, c + 1) = pos + 0
  <2>1. part = <<>> BY <1>1, <1>2, <1>7, CellPartsAre
  <2>2. Len(part) = 0 BY <2>1
  <2> QED BY <1>6, <2>2
<1>8. metadata[c] = OwnMetadata(event.columns[c]) BY <1>1 DEF Metas
<1>9. ASSUME found, ~null
    PROVE  /\ cellLength(data, pos, typ, metadata[c]) = own.length
           /\ CellBytes(data, pos, typ, metadata[c], event.columns[c].unsigned) = own
           /\ own.length # Unsupported /\ own.value # Nil
           /\ ColumnAt(event, n, image, c + 1) = pos + own.length
           /\ ~(pos + own.length > Len(data))
           /\ ~(pos + own.length > ImageAt(event, n, image + 1))
  <2>1. /\ CellBytes(data, pos, typ, metadata[c], event.columns[c].unsigned) = own
        /\ cellLength(data, pos, typ, metadata[c]) = Len(part)
        /\ own.length = Len(part) /\ Len(part) \in Nat /\ Len(part) # Unsupported
        /\ pos + Len(part) <= Len(data) /\ own.value # Nil
    BY <1>8, <1>9, CellRead DEF typ
  <2>2. Len(data) \in Nat BY PayloadIs
  <2>3. ImageAt(event, n, image + 1) \in Nat
    <3>1. m + 1 \in 1 .. m + 1 BY <1>1
    <3>2. ColumnAt(event, n, image, m + 1) \in Nat BY <1>1, <3>1, ImagePlaces
    <3>3. ColumnAt(event, n, image, m + 1) = ImageAt(event, n, image + 1) BY <1>1, ImagePlaces
    <3> QED BY <3>2, <3>3
  <2>4. PICK b \in Nat, w \in Nat : b = pos + Len(part) /\ w = Len(data) BY <1>6, <2>2
  <2>5. PICK x \in Nat : x = ImageAt(event, n, image + 1) BY <2>3
  <2>6. b <= w /\ b <= x BY <1>6, <2>1, <2>4, <2>5
  <2>7. ~(b > w) /\ ~(b > x) BY <2>6
  <2> QED BY <1>6, <2>1, <2>4, <2>5, <2>7
<1> QED BY <1>3, <1>4, <1>5, <1>6, <1>7, <1>9

LEMMA SkipColumnKeepsRows ==
    ASSUME Understood, RowsInv, SkipColumn
    PROVE  RowsInv'
<1>1. event \in Events /\ data = Payload(event) BY DEF RowsInv, Written
<1>2. /\ Len(images) \in 1 .. 2 /\ ImagesOf(event) = 1 .. Len(images)
      /\ columnCount \in Nat /\ columnCount = Len(event.columns)
  BY <1>1, EventIs
<1>3. pc = "skip" /\ c \in 1 .. columnCount BY <1>2 DEF SkipColumn, RowsInv, TypeOK
<1>4. Readable(event) /\ metadata = Metas(event) /\ present = Bitmaps(event)
  BY <1>3 DEF RowsInv, Known, BitmapsRead
<1>5. PICK n \in 1 .. Len(event.rows) : n = Len(rows) + 1
  <2>1. Len(rows) \in Nat BY DEF RowsInv, TypeOK
  <2>2. Len(rows) < Len(event.rows) /\ Len(event.rows) \in Nat
    BY <1>3, <1>4, ShapeOf DEF RowsInv, InImage
  <2> QED BY <2>1, <2>2
<1>6. /\ image \in ImagesOf(event)
      /\ row = Append(First(RowOf(event, n), image - 1),
                      SliceOf(event, n, image, CellsAt(event, n, image)))
      /\ pos = ColumnAt(event, n, image, c) /\ valueIndex = Before(Held(event, image), c)
  BY <1>3, <1>5 DEF RowsInv, InImage, InSkip
<1> DEFINE found == c \in Held(event, image)
         null == CellsOf(event, n, image)[c] = Null
         own == OwnCell(event.columns[c], CellsOf(event, n, image)[c].value)
         nulls == newBitmap(ImageAt(event, n, image), Cardinality(Held(event, image)))
         next == ColumnAt(event, n, image, c + 1)
<1>7. /\ Bit(present[image], c - 1) <=> found
      /\ found => (Bit(nulls, valueIndex) <=> null)
      /\ Before(Held(event, image), c + 1) = IF found THEN valueIndex + 1 ELSE valueIndex
      /\ Before(Held(event, image), c + 1) \in 0 .. columnCount
      /\ next \in Nat
      /\ ~found \/ null => next = pos + 0
  BY <1>1, <1>3, <1>4, <1>6, ColumnHere
<1>8. found /\ ~null =>
        /\ cellLength(data, pos, typ, metadata[c]) = own.length
        /\ own.length # Unsupported
        /\ next = pos + own.length
        /\ ~(pos + own.length > Len(data))
  BY <1>1, <1>3, <1>4, <1>6, ColumnHere
<1>9. row[image].nulls = nulls
  <2>1. PICK i \in Nat : i = image - 1 /\ i + 1 = image BY <1>2, <1>6
  <2> DEFINE s == First(RowOf(event, n), i)
             a == SliceOf(event, n, image, CellsAt(event, n, image))
  <2>2. Len(s) = i /\ s \in Seq({RowOf(event, n)[l] : l \in 1 .. i})
    <3>1. Len(s) = i BY FirstIs
    <3>2. \A l \in 1 .. i : RowOf(event, n)[l] \in {RowOf(event, n)[j] : j \in 1 .. i} OBVIOUS
    <3> HIDE DEF s
    <3> QED BY <3>1, <3>2, FirstInSeq DEF s
  <2>3. a.nulls = nulls BY DEF SliceOf
  <2>4. row = Append(s, a) BY <1>6, <2>1
  <2> HIDE DEF s, a
  <2>5. Append(s, a)[i + 1] = a BY <2>2
  <2> QED BY <2>1, <2>3, <2>4, <2>5
<1> HIDE DEF found, null, own, nulls, next
<1>10. /\ c' = c + 1 /\ valueIndex' = Before(Held(event, image), c + 1) /\ pos' = next
       /\ UNCHANGED <<event, block, data, pc, metadata, image, present, row, rows, r, delivered>>
  <2>1. CASE ~found
    <3>1. NextColumn(Bit(present[image], c - 1), 0) BY <1>7, <2>1 DEF SkipColumn
    <3> QED BY <1>7, <2>1, <3>1 DEF NextColumn, written
  <2>2. CASE found /\ null
    <3>1. NextColumn(Bit(present[image], c - 1), 0) BY <1>7, <1>9, <2>2 DEF SkipColumn
    <3> QED BY <1>7, <2>2, <3>1 DEF NextColumn, written
  <2>3. CASE found /\ ~null
    <3>1. NextColumn(TRUE, own.length) BY <1>7, <1>8, <1>9, <2>3 DEF SkipColumn
    <3> QED BY <1>7, <1>8, <2>3, <3>1 DEF NextColumn, written
  <2> QED BY <2>1, <2>2, <2>3
<1>11. columnCount' = columnCount /\ images' = images BY <1>10 DEF columnCount, images
<1>12. TypeOK'
  <2>1. c' \in 1 .. columnCount' + 1 /\ valueIndex' \in 0 .. columnCount' /\ pos' \in Nat
    BY <1>2, <1>3, <1>7, <1>10, <1>11
  <2> QED BY <1>10, <1>11, <2>1 DEF RowsInv, TypeOK
<1>13. InSkip' BY <1>5, <1>6, <1>10 DEF InSkip, next
<1>14. Known' /\ BitmapsRead' /\ InImage'
  BY <1>3, <1>4, <1>10 DEF Known, RowsInv, BitmapsRead, InImage
<1> QED
  BY <1>3, <1>10, <1>12, <1>13, <1>14
     DEF RowsInv, Written, NothingGiven, InMetadata, InPresence, InRows, InNulls, InDelivery,
         InCut, AtEnd

(* The walk of an image ends where the next image starts.                  *)
LEMMA Appended ==
    ASSUME NEW S, NEW s \in Seq(S), NEW a \in S, NEW i \in Nat, Len(s) = i
    PROVE  /\ Append(s, a) = [l \in 1 .. i + 1 |-> Append(s, a)[l]]
           /\ Append(s, a)[i + 1] = a
           /\ \A l \in 1 .. i : Append(s, a)[l] = s[l]
<1> DEFINE t == Append(s, a)
<1>1. t \in Seq(S) /\ Len(t) = i + 1 OBVIOUS
<1>2. t[i + 1] = a OBVIOUS
<1>3. \A l \in 1 .. i : t[l] = s[l] OBVIOUS
<1>4. t = [l \in 1 .. i + 1 |-> t[l]]
  <2> HIDE DEF t
  <2> QED BY <1>1
<1> QED BY <1>2, <1>3, <1>4

Ending(part, upto) == [part EXCEPT !.to = upto]
EndingAt(walk, i, upto) == [walk EXCEPT ![i].to = upto]

LEMMA LastItem ==
    ASSUME NEW S, NEW s \in Seq(S), NEW a \in S, NEW i \in Nat, Len(s) = i,
           NEW upto, NEW b \in S, b = Ending(a, upto)
    PROVE  EndingAt(Append(s, a), i + 1, upto) = Append(s, b)
<1> DEFINE t == Append(s, a)
           u == Append(s, b)
           w == EndingAt(t, i + 1, upto)
<1>1. /\ t = [l \in 1 .. i + 1 |-> t[l]] /\ t[i + 1] = a
      /\ \A l \in 1 .. i : t[l] = s[l]
  BY Appended
<1>2. /\ u = [l \in 1 .. i + 1 |-> u[l]] /\ u[i + 1] = b
      /\ \A l \in 1 .. i : u[l] = s[l]
  BY Appended
<1> HIDE DEF t, u
<1>3. w = [l \in 1 .. i + 1 |-> w[l]] BY <1>1 DEF EndingAt
<1>4. w[i + 1] = b
  <2>1. i + 1 \in 1 .. i + 1 OBVIOUS
  <2>2. w[i + 1] = [t[i + 1] EXCEPT !.to = upto] BY <1>1, <2>1 DEF EndingAt
  <2> QED BY <1>1, <2>2 DEF Ending
<1>5. \A l \in 1 .. i : w[l] = t[l]
  <2> TAKE l \in 1 .. i
  <2>1. l \in 1 .. i + 1 /\ l # i + 1 OBVIOUS
  <2> QED BY <1>1, <2>1 DEF EndingAt
<1> HIDE DEF w
<1>6. \A l \in 1 .. i + 1 : w[l] = u[l]
  <2> TAKE l \in 1 .. i + 1
  <2>1. l \in 1 .. i \/ l = i + 1 OBVIOUS
  <2> QED BY <1>1, <1>2, <1>4, <1>5, <2>1
<1>7. w = u BY <1>2, <1>3, <1>6
<1> QED BY <1>1, <1>7 DEF t, u, w

LEMMA EndSkipKeepsRows ==
    ASSUME Understood, RowsInv, EndSkip
    PROVE  RowsInv'
<1>1. event \in Events /\ data = Payload(event) BY DEF RowsInv, Written
<1>2. /\ Len(images) \in 1 .. 2 /\ ImagesOf(event) = 1 .. Len(images)
      /\ columnCount \in Nat /\ columnCount = Len(event.columns)
  BY <1>1, EventIs
<1>3. pc = "skip" /\ c = columnCount + 1
  <2>1. pc = "skip" /\ c > columnCount BY DEF EndSkip
  <2>2. c \in 1 .. columnCount + 1 BY DEF RowsInv, TypeOK
  <2> QED BY <1>2, <2>1, <2>2
<1>4. Readable(event) /\ metadata = Metas(event) /\ present = Bitmaps(event)
  BY <1>3 DEF RowsInv, Known, BitmapsRead
<1>5. PICK n \in 1 .. Len(event.rows) : n = Len(rows) + 1
  <2>1. Len(rows) \in Nat BY DEF RowsInv, TypeOK
  <2>2. Len(rows) < Len(event.rows) /\ Len(event.rows) \in Nat
    BY <1>3, <1>4, ShapeOf DEF RowsInv, InImage
  <2> QED BY <2>1, <2>2
<1>6. /\ image \in ImagesOf(event)
      /\ row = Append(First(RowOf(event, n), image - 1),
                      SliceOf(event, n, image, CellsAt(event, n, image)))
      /\ pos = ColumnAt(event, n, image, c)
      /\ rows = First(RowsOf(event), Len(rows))
  BY <1>3, <1>5 DEF RowsInv, InImage, InSkip
<1>7. pos = ImageAt(event, n, image + 1) /\ pos \in Nat
  <2>1. pos = ImageAt(event, n, image + 1)
    BY <1>2, <1>3, <1>4, <1>6, ImagePlaces
  <2> QED BY <2>1 DEF RowsInv, TypeOK
<1> DEFINE walked == [row EXCEPT ![image].to = pos]
<1>8. walked = First(RowOf(event, n), image) /\ walked \in Seq(Slices)
  <2>1. PICK i \in Nat : i = image - 1 /\ i + 1 = image BY <1>2, <1>6
  <2> DEFINE f == RowOf(event, n)
             s == First(f, i)
             a == SliceOf(event, n, image, CellsAt(event, n, image))
             b == SliceOf(event, n, image, pos)
  <2>2. \A l \in ImagesOf(event) : ImageAt(event, n, l + 1) \in Nat
    <3> TAKE l \in ImagesOf(event)
    <3>1. columnCount + 1 \in 1 .. columnCount + 1 BY <1>2
    <3>2. ColumnAt(event, n, l, columnCount + 1) \in Nat
      BY <1>2, <1>4, <3>1, ImagePlaces
    <3>3. ColumnAt(event, n, l, columnCount + 1) = ImageAt(event, n, l + 1)
      BY <1>2, <1>4, ImagePlaces
    <3> QED BY <3>2, <3>3
  <2>3. \A l \in 1 .. i : f[l] \in Slices
    <3> TAKE l \in 1 .. i
    <3>1. l \in ImagesOf(event) BY <1>2, <1>6, <2>1
    <3>2. f[l] = SliceOf(event, n, l, ImageAt(event, n, l + 1)) BY <3>1 DEF RowOf
    <3> QED BY <1>4, <2>2, <3>1, <3>2, SliceTyped
  <2>4. s \in Seq(Slices) /\ Len(s) = i BY <2>3, FirstIs, FirstInSeq
  <2>5. CellsAt(event, n, image) \in Nat BY <1>4, <1>6, ImagePlaces
  <2>6. a \in Slices /\ b \in Slices BY <1>4, <1>6, <1>7, <2>5, SliceTyped
  <2>7. b = Ending(a, pos) BY DEF SliceOf, Ending
  <2>8. f[image] = b BY <1>6, <1>7 DEF RowOf
  <2>9. row = Append(s, a) BY <1>6, <2>1
  <2> HIDE DEF s, a, b, f
  <2>10. walked = Append(s, b)
    <3>1. EndingAt(Append(s, a), i + 1, pos) = Append(s, b) BY <2>4, <2>6, <2>7, LastItem
    <3> QED BY <2>1, <2>9, <3>1 DEF EndingAt
  <2>11. Append(s, f[i + 1]) = First(f, i + 1) BY FirstIs DEF s
  <2>12. Append(s, b) \in Seq(Slices) BY <2>4, <2>6
  <2> HIDE DEF walked
  <2> QED BY <2>1, <2>8, <2>10, <2>11, <2>12 DEF f
<1>9. /\ UNCHANGED <<event, block, data, metadata, c, valueIndex, pos, present, r, delivered>>
      /\ IF image < Len(images)
         THEN /\ row' = walked /\ image' = image + 1
              /\ pc' = "nulls" /\ UNCHANGED rows
         ELSE /\ rows' = Append(rows, walked) /\ row' = <<>>
              /\ pc' = "rows" /\ UNCHANGED image
  BY DEF EndSkip, written
<1> HIDE DEF walked
<1>10. columnCount' = columnCount /\ images' = images BY <1>9 DEF columnCount, images
<1>11. r = 1 /\ delivered = [name \in ImageNames |-> <<>>] BY <1>3 DEF RowsInv, NothingGiven
<1>12. CASE image < Len(images)
  <2>1. /\ row' = walked /\ image' = image + 1 /\ pc' = "nulls" /\ rows' = rows
    BY <1>9, <1>12
  <2>2. image' \in ImagesOf(event) /\ image' \in 1 .. Len(images) + 1 /\ image' - 1 = image
    BY <1>2, <1>6, <1>12, <2>1
  <2>3. TypeOK' BY <1>8, <1>9, <1>10, <2>1, <2>2 DEF RowsInv, TypeOK, Loops
  <2>4. InNulls' BY <1>5, <1>7, <1>8, <1>9, <2>1, <2>2 DEF InNulls
  <2>5. Known' /\ BitmapsRead' BY <1>4, <1>9 DEF Known, BitmapsRead
  <2>6. InImage' BY <1>3, <1>9, <2>1, <2>2 DEF RowsInv, InImage
  <2> QED
    BY <1>3, <1>9, <2>1, <2>3, <2>4, <2>5, <2>6
       DEF RowsInv, Written, NothingGiven, InMetadata, InPresence, InRows, InSkip, InDelivery,
           InCut, AtEnd
<1>13. CASE ~(image < Len(images))
  <2>1. rows' = Append(rows, walked) /\ row' = <<>> /\ pc' = "rows" /\ image' = image
    BY <1>9, <1>13
  <2>2. image = Len(images) BY <1>2, <1>6, <1>13
  <2>3. walked = RowOf(event, n) BY <1>2, <1>8, <2>2 DEF First, RowOf
  <2>4. PICK i \in Nat : i = Len(rows) /\ n = i + 1
    <3>1. Len(rows) \in Nat BY DEF RowsInv, TypeOK
    <3> QED BY <1>5, <3>1
  <2>5. rows' = First(RowsOf(event), n)
    <3>1. RowsOf(event)[n] = RowOf(event, n) BY DEF RowsOf
    <3>2. Append(First(RowsOf(event), i), RowsOf(event)[i + 1]) = First(RowsOf(event), i + 1)
      BY FirstIs
    <3> QED BY <1>6, <2>1, <2>3, <2>4, <3>1, <3>2
  <2>6. rows' \in Seq(Seq(Slices)) /\ Len(rows') = n
    <3>1. rows \in Seq(Seq(Slices)) BY DEF RowsInv, TypeOK
    <3> QED BY <1>8, <2>1, <2>4, <3>1
  <2>7. TypeOK'
    <3>1. r' \in 1 .. Len(rows') + 1 BY <1>9, <1>11, <2>4, <2>6
    <3>2. row' \in Seq(Slices) BY <2>1
    <3> QED BY <1>9, <1>10, <2>1, <2>6, <3>1, <3>2 DEF RowsInv, TypeOK, Loops
  <2>8. InRows'
    <3>1. pos = RowAt(event, n + 1)
      BY <1>4, <1>7, <2>2, RowPlaces DEF images
    <3>2. n <= Len(event.rows) BY <1>4, ShapeOf
    <3> QED BY <1>9, <2>1, <2>5, <2>6, <3>1, <3>2 DEF InRows
  <2>9. Known' /\ BitmapsRead' BY <1>4, <1>9 DEF Known, BitmapsRead
  <2> QED
    BY <1>3, <1>9, <2>1, <2>7, <2>8, <2>9
       DEF RowsInv, Written, NothingGiven, InMetadata, InPresence, InImage, InNulls, InSkip,
           InDelivery, InCut, AtEnd
<1> QED BY <1>12, <1>13

(* The rows that the walk has found, image by image.                       *)
LEMMA RowsFound ==
    ASSUME Readable(event), rows = RowsOf(event), NEW n \in 1 .. Len(event.rows),
           NEW k \in ImagesOf(event)
    PROVE  /\ Len(rows) = Len(event.rows)
           /\ rows[n][k].nulls = newBitmap(ImageAt(event, n, k), Cardinality(Held(event, k)))
           /\ rows[n][k].from = CellsAt(event, n, k)
           /\ rows[n][k].to = ImageAt(event, n, k + 1)
<1>1. PICK w \in Nat : w = Len(event.rows) BY ShapeOf
<1>2. rows = [l \in 1 .. w |-> RowOf(event, l)] BY <1>1 DEF RowsOf
<1>3. Len(rows) = w BY <1>2
<1>4. rows[n] = RowOf(event, n) BY <1>1, <1>2
<1>5. rows[n][k] = SliceOf(event, n, k, ImageAt(event, n, k + 1)) BY <1>4 DEF RowOf
<1> QED BY <1>1, <1>3, <1>5 DEF SliceOf

LEMMA StartImageKeepsRows ==
    ASSUME Understood, RowsInv, StartImage
    PROVE  RowsInv'
<1>1. event \in Events /\ data = Payload(event) BY DEF RowsInv, Written
<1>2. /\ Len(images) \in 1 .. 2 /\ ImagesOf(event) = 1 .. Len(images)
      /\ columnCount \in Nat /\ columnCount = Len(event.columns)
  BY <1>1, EventIs
<1>3. pc = "deliver" /\ r <= Len(rows) BY DEF StartImage
<1>4. Readable(event) /\ metadata = Metas(event) /\ present = Bitmaps(event)
  BY <1>3 DEF RowsInv, Known, BitmapsRead
<1>5. rows = RowsOf(event) /\ image \in ImagesOf(event) /\ Given(event, delivered, image, r)
  BY <1>3 DEF RowsInv, InDelivery
<1>6. PICK w \in Nat : w = Len(event.rows) /\ w = Len(rows)
  <2>1. Len(event.rows) \in Nat BY <1>4, ShapeOf
  <2>2. Len(rows) = Len(event.rows) BY <1>5, <2>1 DEF RowsOf
  <2> QED BY <2>1, <2>2
<1>7. r \in 1 .. w BY <1>3, <1>6 DEF RowsInv, TypeOK
<1>8. CASE event.described # columnCount
  <2>1. End("error") /\ ~Supported BY <1>8 DEF StartImage, Supported
  <2> QED BY <2>1, ErrorKeepsRows
<1>9. CASE event.described = columnCount
  <2>1. /\ event' = event /\ block' = block /\ data' = data /\ pc' = "cut"
        /\ pos' = rows[r][image].from /\ c' = 1 /\ valueIndex' = 0 /\ line' = <<>>
        /\ metadata' = metadata /\ image' = image /\ present' = present
        /\ row' = row /\ rows' = rows /\ r' = r /\ delivered' = delivered
    BY <1>9 DEF StartImage, written
  <2>2. columnCount' = columnCount /\ images' = images BY <2>1 DEF columnCount, images
  <2>3. pos' = ColumnAt(event, r, image, 1) /\ pos' \in Nat
    <3>1. pos' = CellsAt(event, r, image) BY <1>4, <1>5, <1>6, <1>7, <2>1, RowsFound
    <3>2. CellsAt(event, r, image) \in Nat
          /\ ColumnAt(event, r, image, 1) = CellsAt(event, r, image)
      BY <1>4, <1>5, <1>6, <1>7, ImagePlaces
    <3> QED BY <3>1, <3>2
  <2>4. TypeOK'
    <3>1. c' \in 1 .. columnCount' + 1 /\ valueIndex' \in 0 .. columnCount'
      BY <1>2, <2>1, <2>2
    <3> QED BY <2>1, <2>2, <2>3, <3>1 DEF RowsInv, TypeOK, Loops
  <2>5. InCut'
    <3>1. Before(Held(event, image), 1) = 0 BY <1>4, <1>5, Counts
    <3>2. First(LineOf(event, r, image), 0) = <<>> /\ 1 - 1 = 0 BY FirstIs
    <3> QED BY <2>1, <2>3, <3>1, <3>2 DEF InCut
  <2>6. InDelivery'
    <3>1. ~(r > Len(event.rows)) BY <1>6, <1>7
    <3> QED BY <1>5, <2>1, <3>1 DEF InDelivery
  <2>7. Known' /\ BitmapsRead' BY <1>4, <2>1 DEF Known, BitmapsRead
  <2> QED
    BY <1>3, <2>1, <2>4, <2>5, <2>6, <2>7
       DEF RowsInv, Written, NothingGiven, InMetadata, InPresence, InRows, InImage, InNulls,
           InSkip, AtEnd
<1> QED BY <1>8, <1>9

LEMMA EndDeliverKeepsRows ==
    ASSUME Understood, RowsInv, EndDeliver
    PROVE  RowsInv'
<1>1. event \in Events BY DEF RowsInv, Written
<1>2. pc = "deliver" /\ r > Len(rows) BY DEF EndDeliver
<1>3. Readable(event) /\ metadata = Metas(event) BY <1>2 DEF RowsInv, Known
<1>4. rows = RowsOf(event) /\ image \in ImagesOf(event) /\ Given(event, delivered, image, r)
  BY <1>2 DEF RowsInv, InDelivery
<1>5. PICK w \in Nat : w = Len(event.rows) /\ w = Len(rows)
  <2>1. Len(event.rows) \in Nat BY <1>3, ShapeOf
  <2>2. Len(rows) = Len(event.rows) BY <1>4, <2>1 DEF RowsOf
  <2> QED BY <2>1, <2>2
<1>6. r = w + 1 BY <1>2, <1>5 DEF RowsInv, TypeOK
<1>7. image = 1
  <2>1. r > Len(event.rows) BY <1>2, <1>5
  <2> QED BY <1>2, <2>1 DEF RowsInv, InDelivery
<1>8. /\ event' = event /\ block' = block /\ data' = data /\ pc' = "done"
      /\ metadata' = metadata /\ image' = image /\ c' = c /\ valueIndex' = valueIndex
      /\ pos' = pos /\ present' = present /\ row' = row /\ rows' = rows /\ r' = r
      /\ delivered' = delivered
  BY DEF EndDeliver, End, written
<1>9. columnCount' = columnCount /\ images' = images BY <1>8 DEF columnCount, images
<1>10. TypeOK' BY <1>8, <1>9 DEF RowsInv, TypeOK, Ends
<1>11. AtEnd'
  <2>1. Given(event, delivered, 1, Len(event.rows) + 1) BY <1>4, <1>5, <1>6, <1>7
  <2> QED BY <1>8, <2>1 DEF AtEnd
<1> QED
  BY <1>3, <1>8, <1>10, <1>11
     DEF RowsInv, Written, Known, NothingGiven, InMetadata, InPresence, BitmapsRead, InRows,
         InImage, InNulls, InSkip, InDelivery, InCut

LEMMA CutColumnKeepsRows ==
    ASSUME Understood, RowsInv, CutColumn
    PROVE  RowsInv'
<1>1. event \in Events /\ data = Payload(event) BY DEF RowsInv, Written
<1>2. /\ Len(images) \in 1 .. 2 /\ ImagesOf(event) = 1 .. Len(images)
      /\ columnCount \in Nat /\ columnCount = Len(event.columns)
  BY <1>1, EventIs
<1>3. pc = "cut" /\ c \in 1 .. columnCount BY <1>2 DEF CutColumn, RowsInv, TypeOK
<1>4. Readable(event) /\ metadata = Metas(event) /\ present = Bitmaps(event)
  BY <1>3 DEF RowsInv, Known, BitmapsRead
<1>5. rows = RowsOf(event) /\ image \in ImagesOf(event) BY <1>3 DEF RowsInv, InDelivery
<1>6. r \in 1 .. Len(event.rows)
  <2>1. Len(event.rows) \in Nat BY <1>4, ShapeOf
  <2>2. ~(r > Len(event.rows)) BY <1>3 DEF RowsInv, InDelivery
  <2>3. r \in Nat /\ r >= 1 BY DEF RowsInv, TypeOK
  <2> QED BY <2>1, <2>2, <2>3
<1>7. /\ pos = ColumnAt(event, r, image, c) /\ valueIndex = Before(Held(event, image), c)
      /\ line = First(LineOf(event, r, image), c - 1)
  BY <1>3 DEF RowsInv, InCut
<1> DEFINE found == c \in Held(event, image)
         null == CellsOf(event, r, image)[c] = Null
         own == OwnCell(event.columns[c], CellsOf(event, r, image)[c].value)
         nulls == newBitmap(ImageAt(event, r, image), Cardinality(Held(event, image)))
         next == ColumnAt(event, r, image, c + 1)
         cell == CellBytes(data, pos, typ, metadata[c], event.columns[c].unsigned)
<1>8. /\ Bit(present[image], c - 1) <=> found
      /\ found => (Bit(nulls, valueIndex) <=> null)
      /\ Before(Held(event, image), c + 1) = IF found THEN valueIndex + 1 ELSE valueIndex
      /\ Before(Held(event, image), c + 1) \in 0 .. columnCount
      /\ next \in Nat
      /\ ~found \/ null => next = pos + 0
  BY <1>1, <1>3, <1>4, <1>5, <1>6, <1>7, ColumnHere
<1>9. found /\ ~null =>
        /\ cell = own /\ own.length # Unsupported /\ own.value # Nil
        /\ next = pos + own.length
        /\ ~(pos + own.length > ImageAt(event, r, image + 1))
  BY <1>1, <1>3, <1>4, <1>5, <1>6, <1>7, ColumnHere
<1>10. rows[r][image].nulls = nulls /\ rows[r][image].to = ImageAt(event, r, image + 1)
  BY <1>4, <1>5, <1>6, RowsFound
<1>11. CutOf(event, r, image, c) = IF ~found THEN Empty ELSE IF null THEN Null
                                 ELSE Value(own.value)
  BY DEF CutOf
<1> HIDE DEF found, null, own, nulls, next
<1>12. /\ c' = c + 1 /\ valueIndex' = Before(Held(event, image), c + 1) /\ pos' = next
       /\ line' = Append(line, CutOf(event, r, image, c))
       /\ UNCHANGED <<event, block, data, pc, metadata, image, present, row, rows, r, delivered>>
  <2>1. CASE ~found
    <3>1. NextColumn(FALSE, 0) /\ line' = Append(line, Empty) BY <1>8, <2>1 DEF CutColumn
    <3> QED BY <1>8, <1>11, <2>1, <3>1 DEF NextColumn, written
  <2>2. CASE found /\ null
    <3>1. NextColumn(TRUE, 0) /\ line' = Append(line, Null)
      BY <1>8, <1>10, <2>2 DEF CutColumn
    <3> QED BY <1>8, <1>11, <2>2, <3>1 DEF NextColumn, written
  <2>3. CASE found /\ ~null
    <3>1. cell = own /\ ~(cell.length = Unsupported)
          /\ ~(pos + cell.length > rows[r][image].to) /\ ~(cell.value = Nil)
      BY <1>9, <1>10, <2>3
    <3>2. NextColumn(TRUE, cell.length)
          /\ line' = Append(line, IF cell.value = Nil THEN Null ELSE Value(cell.value))
      <4> HIDE DEF cell
      <4> QED BY <1>8, <1>10, <2>3, <3>1 DEF CutColumn, cell
    <3>3. NextColumn(TRUE, own.length) /\ line' = Append(line, Value(own.value))
      <4> HIDE DEF cell
      <4> QED BY <3>1, <3>2
    <3> QED BY <1>8, <1>9, <1>11, <2>3, <3>3 DEF NextColumn, written
  <2> QED BY <2>1, <2>2, <2>3
<1>13. columnCount' = columnCount /\ images' = images BY <1>12 DEF columnCount, images
<1>14. TypeOK'
  <2>1. c' \in 1 .. columnCount' + 1 /\ valueIndex' \in 0 .. columnCount' /\ pos' \in Nat
    BY <1>2, <1>3, <1>8, <1>12, <1>13
  <2> QED BY <1>12, <1>13, <2>1 DEF RowsInv, TypeOK
<1>15. InCut'
  <2>1. LineOf(event, r, image)[c] = CutOf(event, r, image, c) BY <1>2, <1>3 DEF LineOf
  <2>2. PICK i \in Nat : i = c - 1 /\ c = i + 1 BY <1>3
  <2>3. Append(First(LineOf(event, r, image), i), LineOf(event, r, image)[i + 1])
           = First(LineOf(event, r, image), i + 1)
    BY FirstIs
  <2>4. line' = First(LineOf(event, r, image), c) BY <1>7, <1>12, <2>1, <2>2, <2>3
  <2>5. c' - 1 = c BY <1>3, <1>12
  <2> QED BY <1>12, <2>4, <2>5 DEF InCut, next
<1>16. Known' /\ BitmapsRead' BY <1>3, <1>4, <1>12 DEF Known, RowsInv, BitmapsRead
<1>17. InDelivery' BY <1>3, <1>12 DEF RowsInv, InDelivery
<1> QED
  BY <1>3, <1>12, <1>14, <1>15, <1>16, <1>17
     DEF RowsInv, Written, NothingGiven, InMetadata, InPresence, InRows, InImage, InNulls,
         InSkip, AtEnd

LEMMA GivenStep ==
    ASSUME NEW e, Readable(e), NEW n \in 1 .. Len(e.rows), NEW im \in ImagesOf(e),
           NEW d, Given(e, d, im, n)
    PROVE  LET after == [d EXCEPT ![Images(e.kind)[im]] = Append(@, LineOf(e, n, im))]
           IN  /\ DOMAIN after = ImageNames
               /\ Given(e, after, im + 1, n)
               /\ im = Len(Images(e.kind)) => Given(e, after, 1, n + 1)
<1> DEFINE name == Images(e.kind)[im]
           after == [d EXCEPT ![name] = Append(@, LineOf(e, n, im))]
<1>1. PICK m \in 1 .. 2 : m = Len(Images(e.kind)) /\ ImagesOf(e) = 1 .. m
  BY ImageCount DEF ImagesOf
<1>2. /\ \A k \in ImagesOf(e) : Images(e.kind)[k] \in ImageNames
      /\ \A k, l \in ImagesOf(e) : Images(e.kind)[k] = Images(e.kind)[l] => k = l
  <2>1. e.kind \in {"insert", "update", "delete"} BY DEF Readable
  <2> QED BY <2>1, ImagesAre
<1>3. /\ DOMAIN d = ImageNames
      /\ \A k \in ImagesOf(e) :
             d[Images(e.kind)[k]] = First(LinesOf(e, k), IF k < im THEN n ELSE n - 1)
      /\ \A other \in ImageNames :
             (\A k \in ImagesOf(e) : Images(e.kind)[k] # other) => d[other] = <<>>
  BY DEF Given
<1>4. /\ DOMAIN after = ImageNames /\ after[name] = Append(d[name], LineOf(e, n, im))
      /\ \A other \in ImageNames : other # name => after[other] = d[other]
  BY <1>2, <1>3
<1> HIDE DEF after
<1>5. after[name] = First(LinesOf(e, im), n)
  <2>1. PICK i \in Nat : i = n - 1 /\ n = i + 1
    <3>1. Len(e.rows) \in Nat BY ShapeOf
    <3> QED BY <3>1
  <2>2. im < im <=> FALSE BY <1>1
  <2>3. d[name] = First(LinesOf(e, im), i) BY <1>3, <2>1, <2>2
  <2>4. LinesOf(e, im)[n] = LineOf(e, n, im) BY DEF LinesOf
  <2>5. Append(First(LinesOf(e, im), i), LinesOf(e, im)[i + 1]) = First(LinesOf(e, im), i + 1)
    BY FirstIs
  <2> QED BY <1>4, <2>1, <2>3, <2>4, <2>5
<1>6. ASSUME NEW k \in ImagesOf(e)
    PROVE  after[Images(e.kind)[k]] = First(LinesOf(e, k), IF k < im + 1 THEN n ELSE n - 1)
  <2>1. CASE k = im
    <3>1. k < im + 1 BY <1>1, <2>1
    <3> QED BY <1>5, <2>1, <3>1
  <2>2. CASE k # im
    <3>1. k < im + 1 <=> k < im BY <1>1, <2>2
    <3>2. Images(e.kind)[k] # name /\ Images(e.kind)[k] \in ImageNames BY <1>2, <2>2
    <3>3. after[Images(e.kind)[k]] = d[Images(e.kind)[k]] BY <1>4, <3>2
    <3> QED BY <1>3, <3>1, <3>3
  <2> QED BY <2>1, <2>2
<1>7. \A other \in ImageNames :
        (\A k \in ImagesOf(e) : Images(e.kind)[k] # other) => after[other] = <<>>
  BY <1>3, <1>4
<1>8. Given(e, after, im + 1, n) BY <1>4, <1>6, <1>7 DEF Given
<1>9. ASSUME im = Len(Images(e.kind)) PROVE Given(e, after, 1, n + 1)
  <2>1. \A k \in ImagesOf(e) : k < im + 1 /\ ~(k < 1) BY <1>1, <1>9
  <2>2. n + 1 - 1 = n
    <3>1. Len(e.rows) \in Nat BY ShapeOf
    <3> QED BY <3>1
  <2>3. \A k \in ImagesOf(e) :
            after[Images(e.kind)[k]] = First(LinesOf(e, k), IF k < 1 THEN n + 1 ELSE n + 1 - 1)
    BY <1>6, <2>1, <2>2
  <2> QED BY <1>4, <1>7, <2>3 DEF Given
<1> QED BY <1>4, <1>8, <1>9 DEF after

LEMMA EndImageKeepsRows ==
    ASSUME Understood, RowsInv, EndImage
    PROVE  RowsInv'
<1>1. event \in Events /\ data = Payload(event) BY DEF RowsInv, Written
<1>2. /\ Len(images) \in 1 .. 2 /\ ImagesOf(event) = 1 .. Len(images)
      /\ columnCount \in Nat /\ columnCount = Len(event.columns)
  BY <1>1, EventIs
<1>3. pc = "cut" /\ c = columnCount + 1
  <2>1. pc = "cut" /\ c > columnCount BY DEF EndImage
  <2>2. c \in 1 .. columnCount + 1 BY DEF RowsInv, TypeOK
  <2> QED BY <1>2, <2>1, <2>2
<1>4. Readable(event) /\ metadata = Metas(event) /\ present = Bitmaps(event)
  BY <1>3 DEF RowsInv, Known, BitmapsRead
<1>5. rows = RowsOf(event) /\ image \in ImagesOf(event) /\ Given(event, delivered, image, r)
  BY <1>3 DEF RowsInv, InDelivery
<1>6. PICK w \in Nat : w = Len(event.rows) /\ w = Len(rows)
  <2>1. Len(event.rows) \in Nat BY <1>4, ShapeOf
  <2>2. Len(rows) = Len(event.rows) BY <1>5, <2>1 DEF RowsOf
  <2> QED BY <2>1, <2>2
<1>7. r \in 1 .. w
  <2>1. ~(r > Len(event.rows)) BY <1>3 DEF RowsInv, InDelivery
  <2>2. r \in Nat /\ r >= 1 BY DEF RowsInv, TypeOK
  <2> QED BY <1>6, <2>1, <2>2
<1>8. line = LineOf(event, r, image)
  <2>1. line = First(LineOf(event, r, image), c - 1) BY <1>3 DEF RowsInv, InCut
  <2>2. c - 1 = columnCount BY <1>2, <1>3
  <2> QED BY <1>2, <2>1, <2>2 DEF First, LineOf
<1> DEFINE after == [delivered EXCEPT ![Images(event.kind)[image]]
                                        = Append(@, LineOf(event, r, image))]
<1>9. /\ DOMAIN after = ImageNames /\ Given(event, after, image + 1, r)
      /\ image = Len(Images(event.kind)) => Given(event, after, 1, r + 1)
  BY <1>4, <1>5, <1>6, <1>7, GivenStep
<1>10. /\ UNCHANGED <<event, block, data, metadata, c, valueIndex, pos, present, row, rows>>
       /\ pc' = "deliver" /\ delivered' = after
       /\ IF image < Len(images)
          THEN image' = image + 1 /\ UNCHANGED r
          ELSE image' = 1 /\ r' = r + 1
  BY <1>8 DEF EndImage, written, images
<1> HIDE DEF after
<1>11. columnCount' = columnCount /\ images' = images BY <1>10 DEF columnCount, images
<1>12. /\ image' \in ImagesOf(event) /\ r' \in 1 .. w + 1 /\ Given(event, after, image', r')
       /\ (r' > w => image' = 1)
  <2>1. CASE image < Len(images)
    <3>1. image' = image + 1 /\ r' = r BY <1>10, <2>1
    <3>2. image + 1 \in ImagesOf(event) BY <1>2, <1>5, <2>1
    <3>3. r \in 1 .. w + 1 /\ ~(r > w) BY <1>7
    <3>4. Given(event, after, image', r') BY <1>9, <3>1
    <3> QED BY <3>1, <3>2, <3>3, <3>4
  <2>2. CASE ~(image < Len(images))
    <3>1. image = Len(Images(event.kind)) BY <1>2, <1>5, <2>2 DEF images
    <3>2. image' = 1 /\ r' = r + 1 BY <1>10, <2>2
    <3>3. 1 \in ImagesOf(event) BY <1>2
    <3>4. r + 1 \in 1 .. w + 1 BY <1>7
    <3>5. Given(event, after, image', r') BY <1>9, <3>1, <3>2
    <3> QED BY <3>2, <3>3, <3>4, <3>5
  <2> QED BY <2>1, <2>2
<1>13. TypeOK'
  <2>1. image' \in 1 .. Len(images') + 1 BY <1>2, <1>11, <1>12
  <2>2. r' \in 1 .. Len(rows') + 1 BY <1>6, <1>10, <1>12
  <2> QED BY <1>9, <1>10, <1>11, <2>1, <2>2 DEF RowsInv, TypeOK, Loops
<1>14. InDelivery' BY <1>5, <1>6, <1>10, <1>12 DEF InDelivery
<1>15. Known' /\ BitmapsRead' BY <1>4, <1>10 DEF Known, BitmapsRead
<1> QED
  BY <1>3, <1>10, <1>13, <1>14, <1>15
     DEF RowsInv, Written, NothingGiven, InMetadata, InPresence, InRows, InImage, InNulls,
         InSkip, InCut, AtEnd

LEMMA NextRowsInv ==
    ASSUME Understood, RowsInv, [Next]_vars
    PROVE  RowsInv'
<1>1. ASSUME UNCHANGED vars PROVE RowsInv'
  <2>1. /\ UNCHANGED <<event, block, data, pc, metadata, image, c, valueIndex, pos, present>>
        /\ UNCHANGED <<row, rows, r, line, delivered>>
    BY <1>1 DEF vars
  <2>2. columnCount' = columnCount /\ images' = images /\ Supported' = Supported
    BY <2>1 DEF columnCount, images, Supported
  <2> QED
    BY <2>1, <2>2
       DEF RowsInv, TypeOK, Written, Known, NothingGiven, InMetadata, InPresence, BitmapsRead,
           InRows, InImage, InNulls, InSkip, InDelivery, InCut, AtEnd
<1>2. CASE ReadMetadata BY <1>2, ReadMetadataKeepsRows
<1>3. CASE EndMetadata BY <1>3, EndMetadataKeepsRows
<1>4. CASE ReadPresence BY <1>4, ReadPresenceKeepsRows
<1>5. CASE EndPresence BY <1>5, EndPresenceKeepsRows
<1>6. CASE NextRow BY <1>6, NextRowKeepsRows
<1>7. CASE EndRows BY <1>7, EndRowsKeepsRows
<1>8. CASE ReadNulls BY <1>8, ReadNullsKeepsRows
<1>9. CASE SkipColumn BY <1>9, SkipColumnKeepsRows
<1>10. CASE EndSkip BY <1>10, EndSkipKeepsRows
<1>11. CASE StartImage BY <1>11, StartImageKeepsRows
<1>12. CASE EndDeliver BY <1>12, EndDeliverKeepsRows
<1>13. CASE CutColumn BY <1>13, CutColumnKeepsRows
<1>14. CASE EndImage BY <1>14, EndImageKeepsRows
<1>15. CASE Finished BY <1>1, <1>15 DEF Finished
<1> QED
  BY <1>1, <1>2, <1>3, <1>4, <1>5, <1>6, <1>7, <1>8, <1>9, <1>10, <1>11, <1>12, <1>13, <1>14,
<1>15 DEF Next

(* The invariant holds of all behaviours.                                  *)
LEMMA RowsInvariant == Understood => (Spec => []RowsInv)
<1> SUFFICES ASSUME Understood PROVE Spec => []RowsInv OBVIOUS
<1>1. Init => RowsInv BY InitRowsInv
<1>2. RowsInv /\ [Next]_vars => RowsInv' BY NextRowsInv
<1> QED BY <1>1, <1>2, PTL DEF Spec

-----------------------------------------------------------------------------
(* The theorems.                                                           *)

(* Every variable keeps its type while a rows event is read: the metadata  *)
(* are numbers of two bytes, and no index of a column, a value, an image   *)
(* or a row leaves its range.                                              *)
THEOREM TypeOKHolds ==
    ASSUME Understood
    PROVE  Spec => []TypeOK
<1>1. RowsInv => TypeOK BY DEF RowsInv
<1> QED BY <1>1, RowsInvariant, PTL

(* An event of a table without JSON columns that the application knows     *)
(* with all its columns is read to its end: TableMap, Rows and the cut     *)
(* return no error, and none of them reads behind the end of the event,    *)
(* however many columns, images and rows there are and whichever of them   *)
(* are missing or NULL.                                                    *)
THEOREM SupportedAreReadHolds ==
    ASSUME Understood
    PROVE  Spec => []SupportedAreRead
<1>1. RowsInv => SupportedAreRead BY DEF RowsInv, AtEnd, SupportedAreRead
<1> QED BY <1>1, RowsInvariant, PTL

(* What is delivered, cell by cell.                                        *)
LEMMA LinesAreDelivered ==
    ASSUME RowsInv, Understood, pc = "done", NEW k \in ImagesOf(event)
    PROVE  LET got == delivered[Images(event.kind)[k]]
           IN  /\ Len(got) = Len(event.rows)
               /\ \A n \in 1 .. Len(event.rows), j \in 1 .. columnCount :
                      got[n][j] = CutOf(event, n, k, j)
<1> DEFINE got == delivered[Images(event.kind)[k]]
<1>1. Readable(event) BY DEF RowsInv, Known
<1>2. PICK w \in Nat : w = Len(event.rows) BY <1>1, ShapeOf
<1>3. Given(event, delivered, 1, w + 1) BY <1>2 DEF RowsInv, AtEnd
<1>4. ImagesOf(event) \subseteq Nat \ {0}
  <2>1. Len(Images(event.kind)) \in 1 .. 2 BY <1>1, ImageCount
  <2> QED BY <2>1 DEF ImagesOf
<1>5. got = First(LinesOf(event, k), w)
  <2>1. ~(k < 1) /\ w + 1 - 1 = w BY <1>4
  <2> QED BY <1>3, <2>1 DEF Given
<1>6. got = [n \in 1 .. w |-> LineOf(event, n, k)] BY <1>2, <1>5 DEF First, LinesOf
<1> HIDE DEF got
<1>7. Len(got) = w BY <1>6
<1>8. ASSUME NEW n \in 1 .. w, NEW j \in 1 .. columnCount PROVE got[n][j] = CutOf(event, n, k, j)
  <2>1. got[n] = LineOf(event, n, k) BY <1>6
  <2> QED BY <2>1 DEF LineOf, columnCount
<1> QED BY <1>2, <1>7, <1>8 DEF got

(* Every column of every image of every row is handed over as the master   *)
(* wrote it: no bitmap, index, length or position is off by anything, so   *)
(* that no value moves to another column, image or row. For all numbers of *)
(* columns and rows, for all sets of columns in the images, for all        *)
(* patterns of NULL, and for both values of the spare bits of a bitmap.    *)
THEOREM RowsDeliveredHolds ==
    ASSUME Understood
    PROVE  Spec => []RowsDelivered
<1>1. ASSUME RowsInv, pc = "done", NEW name \in ImageNames
      PROVE  IF \E k \in 1 .. Len(images) : images[k] = name
             THEN /\ Len(delivered[name]) = Len(event.rows)
                  /\ \A n \in 1 .. Len(event.rows), j \in 1 .. columnCount : Delivers(name, n, j)
             ELSE delivered[name] = <<>>
  <2>1. Readable(event) /\ data = Payload(event) BY <1>1 DEF RowsInv, Known, Written
  <2>2. CASE \E k \in 1 .. Len(images) : images[k] = name
    <3>1. PICK k \in ImagesOf(event) : Images(event.kind)[k] = name
      BY <2>2 DEF ImagesOf, images
    <3>2. /\ Len(delivered[name]) = Len(event.rows)
          /\ \A n \in 1 .. Len(event.rows), j \in 1 .. columnCount :
                 delivered[name][n][j] = CutOf(event, n, k, j)
      BY <1>1, <3>1, LinesAreDelivered
    <3>3. ASSUME NEW n \in 1 .. Len(event.rows), NEW j \in 1 .. columnCount
          PROVE  Delivers(name, n, j)
      <4> DEFINE v == CellsOf(event, n, k)[j].value
      <4>1. delivered[name][n][j] = CutOf(event, n, k, j) BY <3>2
      <4>2. /\ Held(event, k) = event.present[name]
            /\ CellsOf(event, n, k) = event.rows[n][name]
        BY <3>1 DEF Held, CellsOf
      <4>3. CASE j \notin Held(event, k) BY <4>1, <4>2, <4>3 DEF Delivers, CutOf
      <4>4. CASE j \in Held(event, k) /\ CellsOf(event, n, k)[j] = Null
        BY <4>1, <4>2, <4>4 DEF Delivers, CutOf
      <4>5. CASE j \in Held(event, k) /\ CellsOf(event, n, k)[j] # Null
        <5>1. CutOf(event, n, k, j) = Value(OwnCell(event.columns[j], v).value)
          BY <4>5 DEF CutOf
        <5>2. Reads(event.columns[j], Value(OwnCell(event.columns[j], v).value), v)
          BY <2>1, <4>5, CellRead
        <5>3. Reads(event.columns[j], delivered[name][n][j], v) BY <4>1, <5>1, <5>2
        <5> QED BY <4>2, <4>5, <5>3 DEF Delivers
      <4> QED BY <4>3, <4>4, <4>5
    <3> QED BY <2>2, <3>2, <3>3
  <2>3. CASE ~\E k \in 1 .. Len(images) : images[k] = name
    <3>1. Given(event, delivered, 1, Len(event.rows) + 1) BY <1>1 DEF RowsInv, AtEnd
    <3>2. \A k \in ImagesOf(event) : Images(event.kind)[k] # name BY <2>3 DEF ImagesOf, images
    <3>3. delivered[name] = <<>> BY <3>1, <3>2 DEF Given
    <3> QED BY <2>3, <3>3
  <2> QED BY <2>2, <2>3
<1>2. RowsInv => RowsDelivered BY <1>1 DEF RowsDelivered
<1> QED BY <1>2, RowsInvariant, PTL

-----------------------------------------------------------------------------
(* Values that are read from their own bytes, as the theorems above        *)
(* assume.                                                                 *)

LEMMA CellOfInteger ==
    ASSUME NEW column, column.type \in DOMAIN IntegerBytes, NEW v
    PROVE  CellOf(column, v) = LeastFirst(v.number, IntegerBytes[column.type])
<1>1. DOMAIN IntegerBytes = {"TypeTiny", "TypeShort", "TypeInt24", "TypeLong", "TypeTimestamp",
                             "TypeLongLong"}
  BY DEF IntegerBytes
<1> QED BY <1>1, ZenonT(60) DEF CellOf

LEMMA CellOfText ==
    ASSUME NEW column, NEW v
    PROVE  /\ column.type \in {"TypeVarchar", "TypeVarString"} =>
                  CellOf(column, v) = Text(v.bytes, column.max)
           /\ column.type \in {"TypeBlob", "TypeGeometry"} =>
                  CellOf(column, v) = Prefix(v.bytes, column.metadata)
           /\ column.type = "TypeString" /\ column.max # 0 =>
                  CellOf(column, v) = Text(v.bytes, column.max)
<1>1. DOMAIN IntegerBytes = {"TypeTiny", "TypeShort", "TypeInt24", "TypeLong", "TypeTimestamp",
                             "TypeLongLong"}
  BY DEF IntegerBytes
<1>2. CASE column.type \in {"TypeVarchar", "TypeVarString"}
  BY <1>1, <1>2, ZenonT(60) DEF CellOf
<1>3. CASE column.type \in {"TypeBlob", "TypeGeometry"} BY <1>1, <1>3, ZenonT(60) DEF CellOf
<1>4. CASE column.type = "TypeString" /\ column.max # 0
  BY <1>1, <1>4, ZenonT(60) DEF CellOf
<1> QED BY <1>2, <1>3, <1>4

LEMMA MetadataOfText ==
    ASSUME NEW column
    PROVE  /\ column.type \in {"TypeVarchar", "TypeVarString"} =>
                  MetadataOf(column) = LeastFirst(column.metadata, 2)
           /\ column.type \in {"TypeBlob", "TypeGeometry"} =>
                  MetadataOf(column) = <<column.metadata>>
           /\ column.type = "TypeString" =>
                  MetadataOf(column) = MostFirst(column.metadata, 2)
<1>2. CASE column.type \in {"TypeVarchar", "TypeVarString"}
  BY <1>2, ZenonT(60) DEF MetadataOf
<1>3. CASE column.type \in {"TypeBlob", "TypeGeometry"} BY <1>3, ZenonT(60) DEF MetadataOf
<1>4. CASE column.type = "TypeString" BY <1>4, ZenonT(60) DEF MetadataOf
<1> QED BY <1>2, <1>3, <1>4

LEMMA WidthOfText ==
    /\ \A type \in {"TypeVarchar", "TypeVarString", "TypeString"} : MetadataWidth(type) = 2
    /\ \A type \in {"TypeBlob", "TypeGeometry"} : MetadataWidth(type) = 1
<1>1. \A type \in {"TypeVarchar", "TypeVarString", "TypeString"} : MetadataWidth(type) = 2
  BY ZenonT(60) DEF MetadataWidth, Blobs
<1>2. \A type \in {"TypeBlob", "TypeGeometry"} : MetadataWidth(type) = 1
  BY ZenonT(60) DEF MetadataWidth, Blobs
<1> QED BY <1>1, <1>2

(* The metadata of a CHAR hold its maximum, and the parser takes it out    *)
(* again.                                                                  *)
LEMMA CharReads ==
    ASSUME NEW max \in 1 .. 1023
    PROVE  /\ CharMetadata(max) \in Nat /\ CharMetadata(max) \div 256 \notin {TypeEnum, TypeSet}
           /\ StringMax(CharMetadata(max)) = max /\ HasBytes(CharMetadata(max), 2, FALSE)
<1>1. PICK h \in 0 .. 3, l \in 0 .. 255 : max = 256 * h + l /\ max \div 256 = h /\ max % 256 = l
  <2>1. max \div 256 \in 0 .. 3 /\ max % 256 \in 0 .. 255
        /\ max = 256 * (max \div 256) + (max % 256)
    BY SMT
  <2> QED BY <2>1, SMTT(30)
<1>2. PICK m \in Nat : m = CharMetadata(max) /\ m = 256 * (254 - 16 * h) + l
  <2>1. CharMetadata(max) = 256 * (254 - 16 * h) + l BY <1>1 DEF CharMetadata
  <2>2. 256 * (254 - 16 * h) + l \in Nat BY SMT
  <2> QED BY <2>1, <2>2
<1>3. m \div 256 = 254 - 16 * h /\ m % 256 = l BY <1>2, SMT
<1>4. m \div 256 \notin {TypeEnum, TypeSet} BY <1>3, SMT DEF TypeEnum, TypeSet
<1>5. (m \div 4096) % 4 = 3 - h
  <2>1. CASE h = 0 BY <1>2, <2>1, SMT
  <2>2. CASE h = 1 BY <1>2, <2>2, SMT
  <2>3. CASE h = 2 BY <1>2, <2>3, SMT
  <2>4. CASE h = 3 BY <1>2, <2>4, SMT
  <2> QED BY <2>1, <2>2, <2>3, <2>4
<1>6. StringMax(m) = max
  <2>1. StringMax(m) = 256 * (3 - (3 - h)) + l BY <1>3, <1>5 DEF StringMax
  <2> QED BY <1>1, <2>1, SMT
<1>7. HasBytes(m, 2, FALSE)
  <2>1. Divides(Quotients(m, 2), m, 2) BY QuotientsDivide
  <2>2. Quotients(m, 2)[2] = m \div 256 BY <2>1 DEF Divides
  <2>3. m \div 256 \in 0 .. 255 BY <1>3, SMT
  <2> QED BY <2>2, <2>3 DEF HasBytes
<1>8. CharMetadata(max) \in Nat /\ CharMetadata(max) \div 256 \notin {TypeEnum, TypeSet}
  BY <1>2, <1>4
<1>9. StringMax(CharMetadata(max)) = max BY <1>2, <1>6
<1>10. HasBytes(CharMetadata(max), 2, FALSE) BY <1>2, <1>7
<1> QED BY <1>8, <1>9, <1>10

(* A value that is read is never the nil of Go.                            *)
LEMMA NeverNil ==
    /\ \A n : Number(n) # Nil
    /\ \A b : Bytes(b) # Nil
<1>1. "number" # "nil" /\ "bytes" # "nil" OBVIOUS
<1>2. ASSUME NEW n PROVE Number(n) # Nil BY <1>1 DEF Number, Nil
<1>3. ASSUME NEW b PROVE Bytes(b) # Nil BY <1>1 DEF Bytes, Nil
<1> QED BY <1>2, <1>3

(* Every integer that fits into its type is read from its own bytes as it  *)
(* was written, signed and unsigned, from TINYINT to BIGINT, and so are    *)
(* the seconds of a TIMESTAMP.                                             *)
THEOREM IntegersAreReadAlone ==
    ASSUME NEW column, column.type \in DOMAIN IntegerBytes, column.unsigned \in BOOLEAN, NEW x,
           HasBytes(x, IntegerBytes[column.type],
                    ~column.unsigned /\ column.type # "TypeTimestamp")
    PROVE  ReadAlone(column, Number(x))
<1>1. PICK n \in Nat \ {0}, signed \in BOOLEAN :
          /\ n = IntegerBytes[column.type] /\ HasBytes(x, n, signed)
          /\ \A s : CellBytes(s, 0, column.type, OwnMetadata(column), column.unsigned)
                       = Cell(Number(LittleEndian(s, 0, n, signed)), n)
  <2> DEFINE negative == ~column.unsigned /\ column.type # "TypeTimestamp"
             meta == OwnMetadata(column)
  <2>1. PICK type : type = column.type OBVIOUS
  <2>2. PICK n \in Nat \ {0} :
            /\ n = IntegerBytes[type]
            /\ type # "TypeTimestamp" =>
                   \A s : CellBytes(s, 0, type, meta, column.unsigned)
                             = IntegerCell(s, 0, n, column.unsigned)
            /\ type = "TypeTimestamp" =>
                   \A s : CellBytes(s, 0, type, meta, column.unsigned)
                             = Cell(Number(Unsigned(s, 0, n)), n)
    <3> HIDE DEF meta
    <3>1. CASE type = "TypeTiny" BY <3>1, CellBytesOfType DEF IntegerBytes
    <3>2. CASE type = "TypeShort" BY <3>2, CellBytesOfType DEF IntegerBytes
    <3>3. CASE type = "TypeInt24" BY <3>3, CellBytesOfType DEF IntegerBytes
    <3>4. CASE type = "TypeLong" BY <3>4, CellBytesOfType DEF IntegerBytes
    <3>5. CASE type = "TypeLongLong" BY <3>5, CellBytesOfType DEF IntegerBytes
    <3>6. CASE type = "TypeTimestamp" BY <3>6, CellBytesOfType DEF IntegerBytes
    <3> QED BY <2>1, <3>1, <3>2, <3>3, <3>4, <3>5, <3>6 DEF IntegerBytes
  <2> HIDE DEF meta
  <2>3. negative \in BOOLEAN /\ n = IntegerBytes[column.type] BY <2>1, <2>2
  <2>4. HasBytes(x, n, negative) BY <2>3, Zenon
  <2>5. \A s : CellBytes(s, 0, column.type, meta, column.unsigned)
                  = Cell(Number(LittleEndian(s, 0, n, negative)), n)
    <3>1. CASE type = "TypeTimestamp"
      <4>1. negative = FALSE BY <2>1, <3>1
      <4> HIDE DEF negative
      <4> QED BY <2>1, <2>2, <3>1, <4>1 DEF Unsigned
    <3>2. CASE type # "TypeTimestamp"
      <4>1. negative = ~column.unsigned BY <2>1, <3>2
      <4> HIDE DEF negative
      <4> QED BY <2>1, <2>2, <3>2, <4>1 DEF IntegerCell
    <3> QED BY <3>1, <3>2
  <2> HIDE DEF negative
  <2> QED BY <2>2, <2>3, <2>4, <2>5 DEF meta
<1>2. PICK s : s = LeastFirst(x, n) OBVIOUS
<1>3. x \in Int BY <1>1 DEF HasBytes
<1>4. s \in Seq(0 .. 255) /\ Len(s) = n BY <1>1, <1>2, <1>3, LeastFirstIs
<1>5. CellOf(column, Number(x)) = s
  <2>1. Number(x).number = x BY DEF Number
  <2> QED BY <1>1, <1>2, <2>1, CellOfInteger
<1>6. LittleEndian(s, 0, n, signed) = x
  <2>1. Stands(LeastFirst(x, n), 0, s) BY <1>1, <1>2, <1>4 DEF Stands
  <2> QED BY <1>1, <2>1, LittleEndianReads
<1>7. Precise(column.type, OwnMetadata(column)) BY DEF Precise, IntegerBytes
<1>8. Reads(column, Value(Number(x)), Number(x)) BY DEF Reads, Value, IntegerBytes
<1>9. /\ CellBytes(s, 0, column.type, OwnMetadata(column), column.unsigned).length = n
      /\ CellBytes(s, 0, column.type, OwnMetadata(column), column.unsigned).value = Number(x)
  <2>1. CellBytes(s, 0, column.type, OwnMetadata(column), column.unsigned)
           = Cell(Number(LittleEndian(s, 0, n, signed)), n)
    BY <1>1
  <2>2. CellBytes(s, 0, column.type, OwnMetadata(column), column.unsigned) = Cell(Number(x), n)
    BY <1>6, <2>1
  <2>3. Cell(Number(x), n).length = n /\ Cell(Number(x), n).value = Number(x) BY DEF Cell
  <2> QED BY <2>2, <2>3
<1> QED BY <1>1, <1>4, <1>5, <1>7, <1>8, <1>9, NeverNil DEF ReadAlone, IsBytes

(* Bytes behind their own length.                                          *)
LEMMA PrefixedReads ==
    ASSUME NEW b, IsBytes(b), NEW n \in Nat \ {0}, HasBytes(Len(b), n, FALSE)
    PROVE  /\ IsBytes(Prefix(b, n)) /\ Len(Prefix(b, n)) = n + Len(b) /\ n + Len(b) > 0
           /\ PrefixedCell(Prefix(b, n), 0, n) = Cell(Bytes(b), n + Len(b))
<1> DEFINE a == LeastFirst(Len(b), n)
           s == Prefix(b, n)
<1>1. PICK l \in Nat : l = Len(b) BY DEF IsBytes
<1>2. a \in Seq(0 .. 255) /\ Len(a) = n
  <2>1. l \in Int /\ n \in Nat BY <1>1
  <2>2. LeastFirst(l, n) \in Seq(0 .. 255) /\ Len(LeastFirst(l, n)) = n BY <2>1, LeastFirstIs
  <2> QED BY <1>1, <2>2
<1>3. b \in Seq(0 .. 255) BY DEF IsBytes
<1>4. s = a \o b BY DEF Prefix
<1> HIDE DEF a, s
<1>5. s \in Seq(0 .. 255) /\ Len(s) = Len(a) + Len(b) /\ Stands(a, 0, s) /\ Stands(b, Len(a), s)
  BY <1>2, <1>3, <1>4, StandsOfConcat, ZenonT(60)
<1>6. Unsigned(s, 0, n) = l
  <2>1. FALSE \in BOOLEAN OBVIOUS
  <2>2. HasBytes(l, n, FALSE) /\ Stands(LeastFirst(l, n), 0, s) BY <1>1, <1>5 DEF a
  <2>3. \A signed \in BOOLEAN : HasBytes(l, n, signed) => LittleEndian(s, 0, n, signed) = l
    BY <2>2, LittleEndianReads
  <2> QED BY <2>1, <2>2, <2>3 DEF Unsigned
<1>7. Slice(s, 0 + n, l) = b
  <2>1. Slice(s, n + 0, l) = Slice(b, 0, l)
    <3>1. 0 \in Nat /\ l \in Nat /\ 0 + l <= Len(b) BY <1>1
    <3>2. Stands(b, n, s) BY <1>2, <1>5
    <3> QED BY <3>1, <3>2, SliceLocal
  <2>2. Slice(b, 0, l) = b BY <1>1, <1>3 DEF Slice
  <2>3. n + 0 = 0 + n OBVIOUS
  <2> QED BY <2>1, <2>2, <2>3
<1>8. PrefixedCell(s, 0, n) = Cell(Bytes(b), n + l) BY <1>6, <1>7 DEF PrefixedCell
<1> QED BY <1>1, <1>2, <1>5, <1>8 DEF s, IsBytes

(* Columns of texts and blobs: the number of bytes of the length, and the  *)
(* metadata that the master declares for a maximum.                        *)
Texts == {"TypeVarchar", "TypeVarString", "TypeString", "TypeBlob", "TypeGeometry"}

PrefixOf(column) ==
    IF column.type \in {"TypeBlob", "TypeGeometry"} THEN column.metadata
    ELSE PrefixLength(column.max)

DeclaredAs(column) ==
    /\ column.type \in {"TypeVarchar", "TypeVarString"} =>
           column.max \in Nat /\ column.metadata = column.max /\ HasBytes(column.max, 2, FALSE)
    /\ column.type = "TypeString" =>
           column.max \in 1 .. 1023 /\ column.metadata = CharMetadata(column.max)
    /\ column.type \in {"TypeBlob", "TypeGeometry"} => column.metadata \in 1 .. 4

(* The length of a text has one byte if 255 is its maximum, for the master *)
(* and for the parser.                                                     *)
LEMMA TextIs ==
    ASSUME NEW b, NEW max \in Nat
    PROVE  Text(b, max) = Prefix(b, PrefixLength(max)) /\ PrefixLength(max) \in Nat \ {0}
<1>1. CASE max <= 255
  <2>1. ~(max > 255) BY <1>1
  <2>2. PrefixLength(max) = 1 BY <2>1 DEF PrefixLength
  <2> QED BY <1>1, <2>2 DEF Text
<1>2. CASE ~(max <= 255)
  <2>1. max > 255 BY <1>2
  <2>2. PrefixLength(max) = 2 BY <2>1 DEF PrefixLength
  <2> QED BY <1>2, <2>2 DEF Text
<1> QED BY <1>1, <1>2

(* How such a column is written and read.                                  *)
LEMMA TextColumn ==
    ASSUME NEW column, column.type \in Texts, DeclaredAs(column), NEW b
    PROVE  /\ PrefixOf(column) \in Nat \ {0}
           /\ CellOf(column, Bytes(b)) = Prefix(b, PrefixOf(column))
           /\ \A s : CellBytes(s, 0, column.type, OwnMetadata(column), column.unsigned)
                        = PrefixedCell(s, 0, PrefixOf(column))
<1> DEFINE meta == OwnMetadata(column)
<1>0. Bytes(b).bytes = b BY DEF Bytes
<1>1. PICK type : type = column.type OBVIOUS
<1>2. CASE type \in {"TypeVarchar", "TypeVarString"}
  <2>1. PICK m \in Nat : m = column.max /\ m = column.metadata /\ HasBytes(m, 2, FALSE)
    BY <1>1, <1>2, ZenonT(60) DEF DeclaredAs
  <2>2. PrefixOf(column) = PrefixLength(m)
    <3>1. column.type \notin {"TypeBlob", "TypeGeometry"} BY <1>1, <1>2
    <3> QED BY <2>1, <3>1 DEF PrefixOf
  <2>3. CellOf(column, Bytes(b)) = Prefix(b, PrefixOf(column))
    <3>1. CellOf(column, Bytes(b)) = Text(b, m) BY <1>0, <1>1, <1>2, <2>1, CellOfText
    <3> QED BY <2>2, <3>1, TextIs
  <2>4. meta = m
    <3>1. MetadataOf(column) = LeastFirst(m, 2) BY <1>1, <1>2, <2>1, MetadataOfText
    <3>2. m \in Int /\ 2 \in Nat \ {0} /\ FALSE \in BOOLEAN OBVIOUS
    <3>3. LeastFirst(m, 2) \in Seq(0 .. 255) /\ Len(LeastFirst(m, 2)) = 2
      <4>1. \A w \in Nat : LeastFirst(m, w) \in Seq(0 .. 255) /\ Len(LeastFirst(m, w)) = w
        BY <3>2, LeastFirstIs
      <4> QED BY <4>1
    <3>4. PICK t : t = LeastFirst(m, 2) OBVIOUS
    <3>5. Stands(t, 0, t) BY <3>3, <3>4 DEF Stands
    <3>6. \A signed \in BOOLEAN :
              HasBytes(m, 2, signed) => LittleEndian(t, 0, 2, signed) = m
      BY <3>2, <3>4, <3>5, LittleEndianReads
    <3>7. Unsigned(t, 0, 2) = m BY <2>1, <3>2, <3>6 DEF Unsigned
    <3>8. MetadataWidth(type) = 2 BY <1>2, WidthOfText
    <3>9. type \notin {"TypeNewDecimal", "TypeEnum", "TypeSet", "TypeString"} BY <1>2
    <3> QED BY <1>1, <3>1, <3>4, <3>7, <3>8, <3>9 DEF OwnMetadata, metadataRead
  <2> HIDE DEF meta
  <2>5. \A s : CellBytes(s, 0, type, meta, column.unsigned)
                  = PrefixedCell(s, 0, PrefixLength(meta))
    <3>1. CASE type = "TypeVarchar" BY <3>1, CellBytesOfType
    <3>2. CASE type = "TypeVarString" BY <3>2, CellBytesOfType
    <3> QED BY <1>2, <3>1, <3>2
  <2>6. PrefixOf(column) \in Nat \ {0} BY <2>2, TextIs
  <2> QED BY <1>1, <2>2, <2>3, <2>4, <2>5, <2>6 DEF meta
<1>3. CASE type = "TypeString"
  <2>1. PICK x \in 1 .. 1023 : x = column.max /\ column.metadata = CharMetadata(x)
    BY <1>1, <1>3 DEF DeclaredAs
  <2>2. PrefixOf(column) = PrefixLength(x)
    <3>1. column.type \notin {"TypeBlob", "TypeGeometry"} BY <1>1, <1>3
    <3> QED BY <2>1, <3>1 DEF PrefixOf
  <2>3. x \in Nat /\ x # 0 BY <2>1
  <2>4. CellOf(column, Bytes(b)) = Prefix(b, PrefixOf(column))
    <3>1. CellOf(column, Bytes(b)) = Text(b, x) BY <1>0, <1>1, <1>3, <2>1, <2>3, CellOfText, ZenonT(60)
    <3> QED BY <2>2, <2>3, <3>1, TextIs
  <2>5. PICK m \in Nat : /\ m = CharMetadata(x) /\ m \div 256 \notin {TypeEnum, TypeSet}
                         /\ StringMax(m) = x /\ HasBytes(m, 2, FALSE)
    BY CharReads, ZenonT(60)
  <2>6. meta = m
    <3>1. MetadataOf(column) = MostFirst(m, 2) BY <1>1, <1>3, <2>1, <2>5, MetadataOfText, ZenonT(60)
    <3>2. m \in Int /\ 2 \in Nat \ {0} OBVIOUS
    <3>3. MostFirst(m, 2) \in Seq(0 .. 255) /\ Len(MostFirst(m, 2)) = 2
      <4>1. \A w \in Nat : MostFirst(m, w) \in Seq(0 .. 255) /\ Len(MostFirst(m, w)) = w
        BY <3>2, LeastFirstIs
      <4> QED BY <4>1
    <3>4. PICK t : t = MostFirst(m, 2) OBVIOUS
    <3>5. Stands(t, 0, t) BY <3>3, <3>4 DEF Stands
    <3>6. BigEndian(t, 0, 2) = m BY <2>5, <3>2, <3>4, <3>5, BigEndianReads
    <3>7. MetadataWidth(type) = 2 BY <1>3, WidthOfText
    <3> QED BY <1>1, <1>3, <3>1, <3>4, <3>6, <3>7 DEF OwnMetadata, metadataRead
  <2> HIDE DEF meta
  <2>7. \A s : CellBytes(s, 0, type, meta, column.unsigned) = StringCell(s, 0, meta)
    BY <1>3, CellBytesOfType
  <2>8. \A s : StringCell(s, 0, meta) = PrefixedCell(s, 0, PrefixLength(x))
    BY <2>5, <2>6 DEF StringCell
  <2>9. PrefixOf(column) \in Nat \ {0} BY <2>2, <2>3, TextIs
  <2> QED BY <1>1, <2>2, <2>4, <2>7, <2>8, <2>9 DEF meta
<1>4. CASE type \in {"TypeBlob", "TypeGeometry"}
  <2>1. PICK k \in 1 .. 4 : k = column.metadata /\ PrefixOf(column) = k
    BY <1>1, <1>4 DEF DeclaredAs, PrefixOf
  <2>2. CellOf(column, Bytes(b)) = Prefix(b, PrefixOf(column))
    BY <1>0, <1>1, <1>4, <2>1, CellOfText
  <2>3. meta = k
    <3>1. MetadataOf(column) = <<k>> BY <1>1, <1>4, <2>1, MetadataOfText
    <3>2. PICK t : t = <<k>> OBVIOUS
    <3>3. Byte(t, 0) = k BY <3>2 DEF Byte
    <3>4. \A i \in 0 .. 1 - 1 : Byte(t, 0 + i) \in Int BY <3>3
    <3>5. 1 \in Nat \ {0} /\ 0 \in Nat /\ FALSE \in BOOLEAN OBVIOUS
    <3>6. \A signed \in BOOLEAN : \E w : SumsUp(w, t, 0, 1, signed)
                                         /\ LittleEndian(t, 0, 1, signed) = w[0]
      BY <3>4, <3>5, LittleEndianIs
    <3>7. PICK w : SumsUp(w, t, 0, 1, FALSE) /\ LittleEndian(t, 0, 1, FALSE) = w[0]
      BY <3>5, <3>6
    <3>8. w[1 - 1] = Byte(t, 0 + 1 - 1) BY <3>7 DEF SumsUp
    <3>9. w[0] = k
      <4>1. 1 - 1 = 0 /\ 0 + 1 - 1 = 0 OBVIOUS
      <4> QED BY <3>3, <3>8, <4>1
    <3>10. Unsigned(t, 0, 1) = k BY <3>7, <3>9 DEF Unsigned
    <3>11. MetadataWidth(type) = 1 BY <1>4, WidthOfText
    <3>12. type \notin {"TypeNewDecimal", "TypeEnum", "TypeSet", "TypeString"} BY <1>4
    <3> QED BY <1>1, <3>1, <3>2, <3>10, <3>11, <3>12 DEF OwnMetadata, metadataRead
  <2> HIDE DEF meta
  <2>4. \A s : CellBytes(s, 0, type, meta, column.unsigned) = PrefixedCell(s, 0, k)
    <3>1. type \in Blobs \cup {"TypeGeometry"} BY <1>4 DEF Blobs
    <3> QED BY <2>3, <3>1, CellBytesOfBlob
  <2> QED BY <1>1, <2>1, <2>2, <2>4 DEF meta
<1> QED BY <1>1, <1>2, <1>3, <1>4 DEF Texts

(* Every text that is no longer than its length can say is read from its   *)
(* own bytes as it was written: VARCHAR, CHAR up to 1023 bytes, BLOB and   *)
(* GEOMETRY, on both sides of the maximum of 255 bytes at which the length *)
(* gets its second byte.                                                   *)
THEOREM TextsAreReadAlone ==
    ASSUME NEW column, column.type \in Texts, DeclaredAs(column), NEW b, IsBytes(b),
           HasBytes(Len(b), PrefixOf(column), FALSE)
    PROVE  ReadAlone(column, Bytes(b))
<1>1. PICK n \in Nat \ {0} :
          /\ n = PrefixOf(column) /\ HasBytes(Len(b), n, FALSE)
          /\ CellOf(column, Bytes(b)) = Prefix(b, n)
          /\ \A s : CellBytes(s, 0, column.type, OwnMetadata(column), column.unsigned)
                       = PrefixedCell(s, 0, n)
  BY TextColumn, Zenon
<1>2. PICK s : s = Prefix(b, n) OBVIOUS
<1>3. /\ IsBytes(s) /\ Len(s) = n + Len(b) /\ Len(s) > 0
      /\ PrefixedCell(s, 0, n) = Cell(Bytes(b), Len(s))
  BY <1>1, <1>2, PrefixedReads
<1>4. Precise(column.type, OwnMetadata(column)) BY DEF Precise, Texts
<1>5. Reads(column, Value(Bytes(b)), Bytes(b)) BY DEF Reads, Value, Texts
<1>6. /\ CellBytes(s, 0, column.type, OwnMetadata(column), column.unsigned).length = Len(s)
      /\ CellBytes(s, 0, column.type, OwnMetadata(column), column.unsigned).value = Bytes(b)
  BY <1>1, <1>3 DEF Cell
<1> QED BY <1>1, <1>2, <1>3, <1>4, <1>5, <1>6, NeverNil DEF ReadAlone

-----------------------------------------------------------------------------
(* Tables of integers and texts.                                           *)

LEMMA MetadataOfInteger ==
    ASSUME NEW column, column.type \in DOMAIN IntegerBytes
    PROVE  MetadataOf(column) = <<>> /\ MetadataWidth(column.type) = 0
<1>1. DOMAIN IntegerBytes = {"TypeTiny", "TypeShort", "TypeInt24", "TypeLong", "TypeTimestamp",
                             "TypeLongLong"}
  BY DEF IntegerBytes
<1>2. MetadataOf(column) = <<>> BY <1>1, ZenonT(60) DEF MetadataOf
<1>3. /\ MetadataWidth("TypeTiny") = 0 /\ MetadataWidth("TypeShort") = 0
      /\ MetadataWidth("TypeInt24") = 0 /\ MetadataWidth("TypeLong") = 0
      /\ MetadataWidth("TypeTimestamp") = 0 /\ MetadataWidth("TypeLongLong") = 0
  BY ZenonT(60) DEF MetadataWidth, Blobs
<1> QED BY <1>1, <1>2, <1>3

(* A column of such a table, and a value that fits into it.                *)
Declared(column) ==
    \/ column.type \in DOMAIN IntegerBytes /\ column.unsigned \in BOOLEAN
    \/ column.type \in Texts /\ DeclaredAs(column)

Fits(column, v) ==
    \/ /\ column.type \in DOMAIN IntegerBytes
       /\ \E x : /\ v = Number(x)
                 /\ HasBytes(x, IntegerBytes[column.type],
                             ~column.unsigned /\ column.type # "TypeTimestamp")
    \/ /\ column.type \in Texts
       /\ \E b : v = Bytes(b) /\ IsBytes(b) /\ HasBytes(Len(b), PrefixOf(column), FALSE)

LEMMA DeclaredMetadata ==
    ASSUME NEW column, Declared(column)
    PROVE  /\ IsBytes(MetadataOf(column))
           /\ Len(MetadataOf(column)) = MetadataWidth(column.type)
<1>1. CASE column.type \in DOMAIN IntegerBytes
  <2>1. MetadataOf(column) = <<>> /\ MetadataWidth(column.type) = 0 BY <1>1, MetadataOfInteger
  <2>2. <<>> \in Seq(0 .. 255) /\ Len(<<>>) = 0 OBVIOUS
  <2> QED BY <2>1, <2>2 DEF IsBytes
<1>2. CASE column.type \in Texts /\ DeclaredAs(column)
  <2>1. \A v \in Int, n \in Nat : /\ LeastFirst(v, n) \in Seq(0 .. 255) /\ Len(LeastFirst(v, n)) = n
                                  /\ MostFirst(v, n) \in Seq(0 .. 255) /\ Len(MostFirst(v, n)) = n
    BY LeastFirstIs
  <2>2. CASE column.type \in {"TypeVarchar", "TypeVarString"}
    <3>1. PICK m \in Nat : m = column.metadata BY <1>2, <2>2 DEF DeclaredAs
    <3>2. MetadataOf(column) = LeastFirst(m, 2) BY <2>2, <3>1, MetadataOfText
    <3>3. MetadataWidth(column.type) = 2 BY <2>2, WidthOfText
    <3>4. m \in Int /\ 2 \in Nat OBVIOUS
    <3>5. LeastFirst(m, 2) \in Seq(0 .. 255) /\ Len(LeastFirst(m, 2)) = 2 BY <2>1, <3>4
    <3> QED BY <3>2, <3>3, <3>5 DEF IsBytes
  <2>3. CASE column.type = "TypeString"
    <3>0. column.max \in 1 .. 1023 /\ column.metadata = CharMetadata(column.max)
      BY <1>2, <2>3, Zenon DEF DeclaredAs
    <3>1. PICK x \in 1 .. 1023 : column.metadata = CharMetadata(x) BY <3>0
    <3>2. PICK m \in Nat : m = CharMetadata(x)
      <4>1. CharMetadata(x) \in Nat BY CharReads, ZenonT(30)
      <4> QED BY <4>1
    <3>3. MetadataOf(column) = MostFirst(m, 2) BY <2>3, <3>1, <3>2, MetadataOfText
    <3>4. MetadataWidth(column.type) = 2 BY <2>3, WidthOfText
    <3>5. m \in Int /\ 2 \in Nat OBVIOUS
    <3>6. MostFirst(m, 2) \in Seq(0 .. 255) /\ Len(MostFirst(m, 2)) = 2 BY <2>1, <3>5, ZenonT(60)
    <3> QED BY <3>3, <3>4, <3>6 DEF IsBytes
  <2>4. CASE column.type \in {"TypeBlob", "TypeGeometry"}
    <3>1. PICK m \in 1 .. 4 : m = column.metadata BY <1>2, <2>4 DEF DeclaredAs
    <3>2. MetadataOf(column) = <<m>> BY <2>4, <3>1, MetadataOfText
    <3>3. MetadataWidth(column.type) = 1 BY <2>4, WidthOfText
    <3>4. m \in 0 .. 255 BY <3>1
    <3> QED BY <3>2, <3>3, <3>4 DEF IsBytes
  <2> QED BY <1>2, <2>2, <2>3, <2>4 DEF Texts
<1> QED BY <1>1, <1>2 DEF Declared

LEMMA DeclaredReads ==
    ASSUME NEW column, Declared(column), NEW v, Fits(column, v)
    PROVE  ReadAlone(column, v)
<1>0. DOMAIN IntegerBytes \cap Texts = {} BY DEF IntegerBytes, Texts
<1>1. CASE column.type \in DOMAIN IntegerBytes
  <2>1. column.unsigned \in BOOLEAN BY <1>0, <1>1 DEF Declared
  <2>2. PICK x : /\ v = Number(x)
                 /\ HasBytes(x, IntegerBytes[column.type],
                             ~column.unsigned /\ column.type # "TypeTimestamp")
    BY <1>0, <1>1 DEF Fits
  <2> QED BY <1>1, <2>1, <2>2, IntegersAreReadAlone
<1>2. CASE column.type \in Texts
  <2>1. DeclaredAs(column) BY <1>0, <1>2 DEF Declared
  <2>2. PICK b : v = Bytes(b) /\ IsBytes(b) /\ HasBytes(Len(b), PrefixOf(column), FALSE)
    BY <1>0, <1>2 DEF Fits
  <2> QED BY <1>2, <2>1, <2>2, TextsAreReadAlone
<1> QED BY <1>1, <1>2 DEF Declared

(* An event of such a table: any columns, images, patterns of NULL, rows   *)
(* and values.                                                             *)
Ordinary(e) ==
    LET names == {Images(e.kind)[k] : k \in 1 .. Len(Images(e.kind))}
    IN  /\ e.spare \in BOOLEAN /\ Len(e.rows) \in Nat
        /\ \A k \in 1 .. Len(e.columns) : Declared(e.columns[k])
        /\ \A name \in names : e.present[name] \subseteq 1 .. Len(e.columns)
        /\ \E name \in names : e.present[name] # {}
        /\ \A n \in 1 .. Len(e.rows), name \in names : \A k \in e.present[name] :
               LET cell == e.rows[n][name][k]
               IN  cell = Null \/ Fits(e.columns[k], cell.value)

LEMMA OrdinaryAreUnderstood ==
    ASSUME NEW e, Ordinary(e)
    PROVE  Understands(e)
<1> DEFINE names == {Images(e.kind)[k] : k \in 1 .. Len(Images(e.kind))}
<1>1. \A name \in names : e.present[name] \subseteq 1 .. Len(e.columns) BY DEF Ordinary
<1>2. ASSUME NEW k \in 1 .. Len(e.columns)
      PROVE  /\ IsBytes(MetadataOf(e.columns[k]))
             /\ Len(MetadataOf(e.columns[k])) = MetadataWidth(e.columns[k].type)
  BY DeclaredMetadata DEF Ordinary
<1>3. ASSUME NEW n \in 1 .. Len(e.rows), NEW name \in names, NEW k \in e.present[name]
      PROVE  LET cell == e.rows[n][name][k]
             IN  cell = Null \/ ReadAlone(e.columns[k], cell.value)
  <2> DEFINE cell == e.rows[n][name][k]
  <2>1. k \in 1 .. Len(e.columns) BY <1>1
  <2>2. Declared(e.columns[k]) BY <2>1 DEF Ordinary
  <2>3. cell = Null \/ Fits(e.columns[k], cell.value) BY DEF Ordinary
  <2> QED BY <2>2, <2>3, DeclaredReads
<1>4. e.spare \in BOOLEAN /\ Len(e.rows) \in Nat /\ \E name \in names : e.present[name] # {}
  BY DEF Ordinary
<1> QED BY <1>1, <1>2, <1>3, <1>4 DEF Understands

(* For tables of integers and texts nothing is assumed of the reader:      *)
(* whatever their columns, rows and values, every column of every row is   *)
(* delivered as it was written, without an error.                          *)
THEOREM IntegersAndTextsAreDelivered ==
    ASSUME \A e \in Events : Ordinary(e)
    PROVE  /\ Spec => []RowsDelivered
           /\ Spec => []SupportedAreRead
           /\ Spec => []TypeOK
<1>1. Understood BY OrdinaryAreUnderstood DEF Understood
<1> QED BY <1>1, RowsDeliveredHolds, SupportedAreReadHolds, TypeOKHolds
=============================================================================
