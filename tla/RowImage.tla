------------------------------ MODULE RowImage -----------------------------
(***************************************************************************)
(* How a rows event becomes the rows of a StreamEvent. TableMap reads the  *)
(* metadata of the columns; Rows (replication/binlog_event_rbr.go) reads   *)
(* the bitmaps of the columns that are present and walks over every row    *)
(* with cellLength to find where its images end; then getIdentifiesFromRow *)
(* and getValuesFromRow (row_streamer.go) cut each image into cells with   *)
(* CellBytes. One step for each column of each loop, and one for each      *)
(* bitmap. Slices of the event are kept as positions, as in Go.            *)
(***************************************************************************)
EXTENDS ServerRows

CONSTANT Events     \* what the master may write

ASSUME EventsAssumption ==
    \A event \in Events :
        /\ event.kind \in {"insert", "update", "delete"}
        /\ Len(event.columns) \in Nat

VARIABLES
    event,          \* what the master has written
    block, data,    \* the bytes of the metadata and of the rows event
    pc,             \* the loop, or how the event ended
    metadata,       \* result.Metadata of TableMap
    image,          \* the image that is read, as an index of Images
    c, valueIndex,  \* column, and index among the columns that are present
    pos,            \* position in block or data
    present,        \* Rows.DataColumns and Rows.IdentifyColumns
    row, rows,      \* the row that is walked, and Rows.Rows
    r,              \* the row that is cut
    line,           \* the columns cut from the current image
    delivered       \* RowIdentifies and RowValues of the StreamEvent

vars == <<event, block, data, pc, metadata, image, c, valueIndex, pos, present,
          row, rows, r, line, delivered>>

written == <<event, block, data>>

ImageNames == {"identify", "data"}
Loops == {"metadata", "presence", "rows", "nulls", "skip", "deliver", "cut"}
Ends == {"done", "error", "overrun"}

columnCount == Len(event.columns)
images == Images(event.kind)
typ == event.columns[c].type

-----------------------------------------------------------------------------
(* Bitmaps.                                                                *)

newBitmap(from, count) == [from |-> from, count |-> count]
(* Mutant: one byte too many when the bits fill the bytes.                 *)
byteSizeRoundedUp(count) == count \div 8 + 1

byteSize(count) == (count + 7) \div 8
Bit(bitmap, i) == (Byte(data, bitmap.from + i \div 8) \div 2 ^ (i % 8)) % 2 = 1
BitCount(bitmap) == Cardinality({i \in 0 .. bitmap.count - 1 : Bit(bitmap, i)})

(* The event ends for the parser with a result, an error or a read behind  *)
(* the end of the slice, where Go panics or takes the bytes that follow.   *)
End(how) ==
    /\ pc' = how
    /\ UNCHANGED <<written, metadata, image, c, valueIndex, pos, present, row, rows, r,
                   line, delivered>>

-----------------------------------------------------------------------------
Init ==
    /\ event \in Events
    /\ block = MetadataBlock(event.columns)
    /\ data = Payload(event)
    /\ pc = "metadata" /\ metadata = <<>>
    /\ image = 1 /\ c = 1 /\ valueIndex = 0 /\ pos = 0
    /\ present = <<>> /\ row = <<>> /\ rows = <<>>
    /\ r = 1 /\ line = <<>>
    /\ delivered = [name \in ImageNames |-> <<>>]

ReadMetadata ==
    /\ pc = "metadata" /\ c <= columnCount
    /\ IF MetadataWidth(typ) = Unsupported
       THEN End("error")
       ELSE /\ metadata' = Append(metadata, metadataRead(block, pos, typ))
            /\ pos' = pos + MetadataWidth(typ)
            /\ c' = c + 1
            /\ UNCHANGED <<written, pc, image, valueIndex, present, row, rows, r, line, delivered>>

EndMetadata ==
    /\ pc = "metadata" /\ c > columnCount
    /\ IF pos # Len(block)
       THEN End("error")
       ELSE /\ pc' = "presence" /\ pos' = 0
            /\ UNCHANGED <<written, metadata, image, c, valueIndex, present, row, rows, r,
                           line, delivered>>

ReadPresence ==
    /\ pc = "presence" /\ image <= Len(images)
    /\ IF pos + byteSize(columnCount) > Len(data)
       THEN End("overrun")
       ELSE /\ present' = Append(present, newBitmap(pos, columnCount))
            /\ pos' = pos + byteSize(columnCount)
            /\ image' = image + 1
            /\ UNCHANGED <<written, pc, metadata, c, valueIndex, row, rows, r, line, delivered>>

EndPresence ==
    /\ pc = "presence" /\ image > Len(images)
    /\ pc' = "rows"
    /\ UNCHANGED <<written, metadata, image, c, valueIndex, pos, present, row, rows, r,
                   line, delivered>>

-----------------------------------------------------------------------------
(* Rows: the walk.                                                         *)

NextRow ==
    /\ pc = "rows" /\ pos < Len(data)
    /\ pc' = "nulls" /\ image' = 1 /\ row' = <<>>
    /\ UNCHANGED <<written, metadata, c, valueIndex, pos, present, rows, r, line, delivered>>

EndRows ==
    /\ pc = "rows" /\ pos >= Len(data)
    /\ pc' = "deliver" /\ image' = 1
    /\ UNCHANGED <<written, metadata, c, valueIndex, pos, present, row, rows, r, line, delivered>>

(* Mutant: valueIndex is not reset for the next image.                     *)
ReadNullsKeepsIndex ==
    /\ pc = "nulls"
    /\ LET count == BitCount(present[image])
           start == pos + byteSize(count)
       IN  IF start > Len(data)
           THEN End("overrun")
           ELSE /\ row' = Append(row, [nulls |-> newBitmap(pos, count), from |-> start, to |-> start])
                /\ pos' = start /\ pc' = "skip"
                /\ c' = 1
                /\ UNCHANGED <<written, metadata, valueIndex, image, present, rows, r, line, delivered>>

ReadNulls ==
    /\ pc = "nulls"
    /\ LET count == BitCount(present[image])
           start == pos + byteSize(count)
       IN  IF start > Len(data)
           THEN End("overrun")
           ELSE /\ row' = Append(row, [nulls |-> newBitmap(pos, count), from |-> start, to |-> start])
                /\ pos' = start /\ pc' = "skip"
                /\ c' = 1 /\ valueIndex' = 0
                /\ UNCHANGED <<written, metadata, image, present, rows, r, line, delivered>>

(* What the loops over columns share: one column further, and one value    *)
(* further if the column is present.                                       *)
NextColumn(found, length) ==
    /\ c' = c + 1
    /\ valueIndex' = IF found THEN valueIndex + 1 ELSE valueIndex
    /\ pos' = pos + length
    /\ UNCHANGED <<written, pc, metadata, image, present, row, rows, r, delivered>>

SkipColumn ==
    /\ pc = "skip" /\ c <= columnCount
    /\ LET found == Bit(present[image], c - 1)
           length == cellLength(data, pos, typ, metadata[c])
       IN  IF ~found \/ Bit(row[image].nulls, valueIndex)
           THEN NextColumn(found, 0) /\ UNCHANGED line
           ELSE IF length = Unsupported THEN End("error")
           ELSE IF pos + length > Len(data) THEN End("overrun")
           ELSE NextColumn(TRUE, length) /\ UNCHANGED line

EndSkip ==
    /\ pc = "skip" /\ c > columnCount
    /\ LET walked == [row EXCEPT ![image].to = pos]
       IN  IF image < Len(images)
           THEN /\ row' = walked /\ image' = image + 1
                /\ pc' = "nulls" /\ UNCHANGED rows
           ELSE /\ rows' = Append(rows, walked) /\ row' = <<>>
                /\ pc' = "rows" /\ UNCHANGED image
    /\ UNCHANGED <<written, metadata, c, valueIndex, pos, present, r, line, delivered>>

-----------------------------------------------------------------------------
(* getIdentifiesFromRow and getValuesFromRow: the cut.                     *)

(* appendUpdateEventFromRows and its two kin, and the number of columns.   *)
StartImage ==
    /\ pc = "deliver" /\ r <= Len(rows)
    /\ IF event.described # columnCount
       THEN End("error")
       ELSE /\ pc' = "cut" /\ pos' = rows[r][image].from
            /\ c' = 1 /\ valueIndex' = 0 /\ line' = <<>>
            /\ UNCHANGED <<written, metadata, image, present, row, rows, r, delivered>>

EndDeliver ==
    /\ pc = "deliver" /\ r > Len(rows)
    /\ End("done")

CutColumn ==
    /\ pc = "cut" /\ c <= columnCount
    /\ LET found == Bit(present[image], c - 1)
           cell == CellBytes(data, pos, typ, metadata[c], event.columns[c].unsigned)
       IN  IF ~found
           THEN NextColumn(FALSE, 0) /\ line' = Append(line, Empty)
           ELSE IF Bit(rows[r][image].nulls, valueIndex)
           THEN NextColumn(TRUE, 0) /\ line' = Append(line, Null)
           ELSE IF cell.length = Unsupported THEN End("error")
           ELSE IF pos + cell.length > rows[r][image].to THEN End("overrun")
           ELSE /\ NextColumn(TRUE, cell.length)
                /\ line' = Append(line, IF cell.value = Nil THEN Null ELSE Value(cell.value))

(* Mutant: the values of an update are put to its identifies.              *)
EndImageIdentifies ==
    /\ pc = "cut" /\ c > columnCount
    /\ pc' = "deliver"
    /\ delivered' = [delivered EXCEPT ![images[1]] = Append(@, line)]
    /\ IF image < Len(images)
       THEN image' = image + 1 /\ UNCHANGED r
       ELSE image' = 1 /\ r' = r + 1
    /\ UNCHANGED <<written, metadata, c, valueIndex, pos, present, row, rows, line>>

EndImage ==
    /\ pc = "cut" /\ c > columnCount
    /\ pc' = "deliver"
    /\ delivered' = [delivered EXCEPT ![images[image]] = Append(@, line)]
    /\ IF image < Len(images)
       THEN image' = image + 1 /\ UNCHANGED r
       ELSE image' = 1 /\ r' = r + 1
    /\ UNCHANGED <<written, metadata, c, valueIndex, pos, present, row, rows, line>>

Finished == pc \in Ends /\ UNCHANGED vars

Next ==
    \/ ReadMetadata \/ EndMetadata \/ ReadPresence \/ EndPresence
    \/ NextRow \/ EndRows \/ ReadNulls \/ SkipColumn \/ EndSkip
    \/ StartImage \/ EndDeliver \/ CutColumn \/ EndImage
    \/ Finished

Spec == Init /\ [][Next]_vars

-----------------------------------------------------------------------------
Words == 0 .. 65535
Slices == [nulls : [from : Nat, count : Nat], from : Nat, to : Nat]

TypeOK ==
    /\ pc \in Loops \cup Ends
    /\ metadata \in Seq(Words)
    /\ c \in 1 .. columnCount + 1 /\ valueIndex \in 0 .. columnCount
    /\ image \in 1 .. Len(images) + 1 /\ r \in 1 .. Len(rows) + 1
    /\ pos \in Nat
    /\ present \in Seq([from : Nat, count : {columnCount}])
    /\ row \in Seq(Slices) /\ rows \in Seq(Seq(Slices))
    /\ DOMAIN delivered = ImageNames

(* Every column of every image that the master wrote is handed over: as    *)
(* empty if the image does not contain it, as NULL if it is NULL, and      *)
(* otherwise with its value, so that no bitmap, index or length is off by  *)
(* anything. The text of a decimal must be a number that a reader gets the *)
(* value from: something is printed, and no blanks precede it.             *)
Reads(column, got, v) ==
    /\ got.is = "value"
    /\ IF column.type = "TypeNewDecimal"
       THEN got.value.decimal = v /\ ~got.value.blanks
       ELSE got.value = v

Delivers(name, n, k) ==
    LET got == delivered[name][n][k]
        cells == event.rows[n][name]
    IN  CASE k \notin event.present[name] -> got = Empty
          [] k \in event.present[name] /\ cells[k] = Null -> got = Null
          [] OTHER -> Reads(event.columns[k], got, cells[k].value)

RowsDelivered ==
    pc = "done" =>
        \A name \in ImageNames :
            IF \E k \in 1 .. Len(images) : images[k] = name
            THEN /\ Len(delivered[name]) = Len(event.rows)
                 /\ \A n \in 1 .. Len(event.rows), k \in 1 .. columnCount : Delivers(name, n, k)
            ELSE delivered[name] = <<>>

(* cellLength and CellBytes, written separately, agree: when the last cell *)
(* of an image is cut, the cut has come to where the walk has found the    *)
(* end of the image. Otherwise the walk has split the event into rows at   *)
(* other places than the cells end.                                        *)
CutMeetsWalk == pc = "cut" /\ c > columnCount => pos = rows[r][image].to

(* An event of a table without JSON columns, which the application knows   *)
(* with all its columns, is read without an error and never behind the end *)
(* of its bytes, where Go would panic.                                     *)
Supported ==
    /\ event.described = columnCount
    /\ \A k \in 1 .. columnCount : event.columns[k].type # "TypeJSON"

SupportedAreRead == Supported => pc \notin {"error", "overrun"}

-----------------------------------------------------------------------------
(* What the proofs assume of an event. The columns, rows and bitmaps fit   *)
(* together, and a row has at least one column in one of its images, as    *)
(* otherwise it would have no bytes. Each value alone is read as it was    *)
(* written, from its own bytes and the metadata of its column. Nothing is  *)
(* assumed about several values, bitmaps, images or rows behind each       *)
(* other, nor about what the metadata of one column does to the next.      *)

(* A second has at most six decimals. Only the values of these two types   *)
(* depend on it: cellLength trusts the metadata, CellBytes lists it.       *)
Precise(type, meta) == type \in {"TypeTimestamp2", "TypeDateTime2"} => meta \in 0 .. 6

IsBytes(s) == s \in Seq(0 .. 255)

(* What TableMap reads from the metadata of this column alone.             *)
OwnMetadata(column) == metadataRead(MetadataOf(column), 0, column.type)

ReadAlone(column, v) ==
    LET s == CellOf(column, v)
        meta == OwnMetadata(column)
        cell == CellBytes(s, 0, column.type, meta, column.unsigned)
    IN  /\ IsBytes(s) /\ Len(s) > 0 /\ Precise(column.type, meta)
        /\ cell.length = Len(s) /\ cell.value # Nil
        /\ Reads(column, Value(cell.value), v)

Understands(e) ==
    LET names == {Images(e.kind)[k] : k \in 1 .. Len(Images(e.kind))}
        numbers == 1 .. Len(e.columns)
    IN  /\ e.spare \in BOOLEAN /\ Len(e.rows) \in Nat
        /\ \A name \in names : e.present[name] \subseteq numbers
        /\ \E name \in names : e.present[name] # {}
        /\ \A k \in numbers :
                LET column == e.columns[k]
                IN  /\ IsBytes(MetadataOf(column))
                    /\ column.type # "TypeJSON" =>
                           Len(MetadataOf(column)) = MetadataWidth(column.type)
        /\ (\A k \in numbers : e.columns[k].type # "TypeJSON") =>
               \A n \in 1 .. Len(e.rows), name \in names : \A k \in e.present[name] :
                   LET cell == e.rows[n][name][k]
                   IN  cell = Null \/ ReadAlone(e.columns[k], cell.value)

Understood == \A e \in Events : Understands(e)
=============================================================================
