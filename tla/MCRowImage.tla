----------------------------- MODULE MCRowImage ----------------------------
(* Events for TLC: every type beside a number that shows a wrong length,   *)
(* every combination of present and NULL columns in small tables, and      *)
(* bitmaps of more than one byte.                                          *)
EXTENDS RowImage

Column(type, meta, unsigned) ==
    [type |-> type, metadata |-> meta, max |-> 0, unsigned |-> unsigned]
Varchar(type, max) == [Column(type, max, FALSE) EXCEPT !.max = max]
Char(max) == [Column("TypeString", CharMetadata(max), FALSE) EXCEPT !.max = max]
Tiny == Column("TypeTiny", 0, FALSE)

Event(columns, kind, holds, rs, spare) ==
    [columns |-> columns, kind |-> kind, present |-> holds, rows |-> rs,
     spare |-> spare, described |-> Len(columns)]

-----------------------------------------------------------------------------
(* Every type with values at its limits.                                   *)

Precisions == 0 .. 6
(* A clock with a fraction of so many digits: none, one unit or all nines. *)
Fractions(clock, digits) ==
    IF digits = 0 THEN {clock} ELSE {Append(clock, f) : f \in {0, 1, 10 ^ digits - 1}}

Moments == {<<0, 0, 0, 0, 0, 0>>, <<2017, 12, 31, 23, 59, 59>>, <<9999, 12, 1, 0, 0, 1>>}
Clocks == {<<0, 0, 0, 0>>, <<0, 838, 59, 59>>, <<1, 838, 59, 59>>, <<1, 0, 0, 1>>}

Numbers(set) == {Number(n) : n \in set}
Times(set) == {Clock(parts) : parts \in set}

Integer(type, signed, unsigned) ==
    {<<Column(type, 0, FALSE), Numbers(signed)>>, <<Column(type, 0, TRUE), Numbers(unsigned)>>}

Texts == {Bytes(<<>>), Bytes(<<7>>), Bytes(<<1, 200>>)}

(* The parser prints some decimals with blanks, and zero not at all; those *)
(* are in Zeros.                                                           *)
Decimals ==
    {<<Column("TypeNewDecimal", 256 * 10, FALSE),
       {Decimal(FALSE, <<3, 0>>, <<>>), Decimal(TRUE, <<9, 999999999>>, <<>>), Decimal(FALSE, <<100000000>>, <<>>)}>>,
     <<Column("TypeNewDecimal", 256 * 14 + 4, FALSE),
       {Decimal(FALSE, <<1, 234567890>>, <<1234>>), Decimal(TRUE, <<1, 234567890>>, <<1234>>), Decimal(FALSE, <<>>, <<1>>)}>>,
     <<Column("TypeNewDecimal", 256 * 23 + 21, FALSE),
       {Decimal(TRUE, <<42>>, <<5, 0, 17>>), Decimal(FALSE, <<>>, <<0, 999999999, 999>>)}>>,
     <<Column("TypeNewDecimal", 256 * 8 + 8, FALSE), {Decimal(TRUE, <<>>, <<1>>), Decimal(FALSE, <<>>, <<99999999>>)}>>}

Typed ==
    Integer("TypeTiny", {-128, -1, 0, 127}, {0, 255})
    \cup Integer("TypeShort", {-32768, -1, 258}, {0, 65535})
    \cup Integer("TypeInt24", {-8388608, -1, 65536}, {8388608, 16777215})
    \cup Integer("TypeLong", {-2147483647 - 1, -1, 16777216}, {0, 2147483647})
    \cup Integer("TypeLongLong", {-70000, -1, 2147483647}, {0, 70000})
    \cup {<<Column("TypeYear", 0, TRUE), Numbers({0, 1901, 2155})>>,
          <<Column("TypeFloat", 4, FALSE), {Bytes(<<1, 2, 3, 200>>)}>>,
          <<Column("TypeDouble", 8, FALSE), {Bytes(<<1, 2, 3, 4, 5, 6, 7, 200>>)}>>,
          <<Column("TypeDateTime", 0, FALSE), {Bytes(<<1, 2, 3, 4, 5, 6, 7, 0>>)}>>,
          <<Column("TypeTimestamp", 0, FALSE), Numbers({0, 2147483647})>>,
          <<Column("TypeDate", 0, FALSE), Times({<<0, 0, 0>>, <<2017, 12, 31>>, <<9999, 1, 1>>})>>,
          <<Column("TypeTime", 0, FALSE),
            Times({<<0, 838, 59, 59>>, <<1, 838, 59, 59>>, <<0, 0, 0, 1>>, <<1, 1, 0, 0>>})>>,
          <<Column("TypeBit", 1, FALSE), {Bytes(<<1>>)}>>,
          <<Column("TypeBit", 256 + 1, FALSE), {Bytes(<<1, 255>>)}>>,
          <<Column("TypeBit", 512, FALSE), {Bytes(<<128, 1>>)}>>,
          <<Column("TypeString", 256 * TypeEnum + 1, FALSE), Numbers({0, 255})>>,
          <<Column("TypeString", 256 * TypeEnum + 2, FALSE), Numbers({256})>>,
          <<Column("TypeString", 256 * TypeSet + 1, FALSE), Numbers({0, 255})>>,
          <<Column("TypeString", 256 * TypeSet + 3, FALSE), Numbers({65536})>>}
    \cup {<<Column("TypeTimestamp2", p, FALSE),
            Times(UNION {Fractions(<<s>>, p) : s \in {0, 2147483647}})>> : p \in Precisions}
    \cup {<<Column("TypeDateTime2", p, FALSE),
            Times(UNION {Fractions(m, p) : m \in Moments})>> : p \in Precisions}
    \cup {<<Column("TypeTime2", p, FALSE),
            Times(UNION {Fractions(k, p) : k \in Clocks})>> : p \in Precisions}
    \cup {<<Column("TypeTime2", p, FALSE),
            Times({<<1, 0, 0, 0, 1>>, <<1, 0, 0, 0, 10 ^ p - 1>>})>> : p \in Precisions \ {0}}
    \cup {<<column, Texts>> : column \in
            {Varchar("TypeVarchar", 255), Varchar("TypeVarString", 256),
             Char(255), Char(256), Char(765), Char(1020)}
            \cup {Column("TypeBlob", n, FALSE) : n \in 1 .. 4}
            \cup {Column("TypeGeometry", 4, FALSE)}}

Beside(column, v) ==
    LET cells == [k \in {1, 2} |-> IF k = 1 THEN Value(v) ELSE Value(Number(-86))]
    IN  Event(<<column, Tiny>>, "update", [name \in ImageNames |-> {1, 2}],
              << [name \in ImageNames |-> cells] >>, TRUE)

Of(typed) == UNION {{Beside(t[1], v) : v \in t[2]} : t \in typed}

Zeros ==
    Of({<<Column("TypeNewDecimal", 256 * 10, FALSE), {Decimal(FALSE, <<>>, <<>>)}>>}
       \cup Decimals)

-----------------------------------------------------------------------------
(* Every choice of columns for the images of an event, and of their cells. *)

Named(kind) == {Images(kind)[k] : k \in 1 .. Len(Images(kind))}
Chosen(n) == (SUBSET (1 .. n)) \ {{}}
Cells(set, nulls, Full(_)) == [k \in set |-> IF k \in nulls THEN Null ELSE Full(k)]

Shaped(columns, Full(_), kind, length, spares) ==
    LET n == Len(columns)
        Within(holds) == {nulls \in [Named(kind) -> SUBSET (1 .. n)] :
                              \A name \in Named(kind) : nulls[name] \subseteq holds[name]}
        RowsOf(holds) == {[name \in Named(kind) |-> Cells(holds[name], nulls[name], Full)] :
                              nulls \in Within(holds)}
    IN  UNION {{Event(columns, kind, holds, rs, spare) :
                    rs \in [1 .. length -> RowsOf(holds)], spare \in spares}
                  : holds \in [Named(kind) -> Chosen(n)]}

Kinds == {"insert", "update", "delete"}
Three == <<Varchar("TypeVarchar", 300), Tiny, Column("TypeNewDecimal", 256 * 14 + 4, FALSE)>>
FullOfThree(k) == CASE k = 1 -> Value(Bytes(<<1, 2>>))
                    [] k = 2 -> Value(Number(-1))
                    [] k = 3 -> Value(Decimal(TRUE, <<1, 234567890>>, <<1234>>))
OneRow == UNION {Shaped(Three, FullOfThree, kind, 1, BOOLEAN) : kind \in Kinds}

Two == <<Tiny, Column("TypeBlob", 1, FALSE)>>
FullOfTwo(k) == IF k = 1 THEN Value(Number(5)) ELSE Value(Bytes(<<3>>))
TwoRows == UNION {Shaped(Two, FullOfTwo, kind, 2, {FALSE}) : kind \in Kinds}

(* Bitmaps of two bytes.                                                   *)
Nine == [k \in 1 .. 9 |-> Tiny]
FullOfWide(k) == Value(Number(k))
Wide ==
    UNION {{Event(Nine, "insert", [name \in {"data"} |-> here],
                  << [name \in {"data"} |-> Cells(here, nulls, FullOfWide)] >>,
                  spare)
              : nulls \in {{}, {1}, {8}, {9}, {8, 9}, 1 .. 9}, spare \in BOOLEAN}
          : here \in {1 .. 9, 1 .. 8, 2 .. 9, {9}, {1, 9}}}

(* What the parser must refuse: a JSON column, and a table with a column   *)
(* that the application does not know of.                                  *)
Refused ==
    {[Event(<<Tiny>>, "insert", [name \in {"data"} |-> {1}],
            << [name \in {"data"} |-> <<Value(Number(1))>>] >>, TRUE) EXCEPT !.described = 2],
     Event(<<Tiny, Column("TypeJSON", 4, FALSE)>>, "insert", [name \in {"data"} |-> {1}],
           << [name \in {"data"} |-> [k \in {1} |-> Value(Number(1))]] >>, TRUE)}

MCEvents == Of(Typed \cup Decimals) \cup OneRow \cup TwoRows \cup Wide \cup Refused

(* What the proofs assume of events holds for these.                       *)
ASSUME EventsAreUnderstood == \A e \in MCEvents : Understands(e)
=============================================================================
