------------------------- MODULE ReplicationProofs --------------------------
(***************************************************************************)
(* The parser and an application that resumes implement TransactionFeed,   *)
(* for any transactions, tables, files, faults and restarts of a master    *)
(* without the features that Plain names.  For every master, rows are      *)
(* handed over under the names that their dump gave them.                  *)
(***************************************************************************)
EXTENDS Replication, SequenceTheorems, TLAPS

-----------------------------------------------------------------------------
(* What is in the binlog and in the log.                                   *)

Plain == Features \cap {"savepoint", "xa", "reuseIds"} = {}

Place == [file : Nat, off : Nat]
TableMapEvents == [kind : {"tablemap"}, id : TableIds, def : TableDef]
RowsEvents ==
    [kind : {"rows"}, op : Operations, id : TableIds, row : Nat, of : TableDef]
QueryEvents == [kind : {"query"},
                sql : {<<"begin">>, <<"commit">>, <<"rollback">>, <<"create">>, <<"alter">>}]
OtherEvents == [kind : {"xid", "ignored"}] \cup [kind : {"rotate"}, to : Place]
BinlogEvent == TableMapEvents \cup RowsEvents \cup QueryEvents \cup OtherEvents

LoggedRow == [op : Operations, table : TableNames, row : Nat]
Logged == [rows : Seq(LoggedRow), begin : Place, end : Place]
Given == [now : Place, next : Place, events : Seq(StreamEvent), accepted : BOOLEAN]

MasterTypes ==
    /\ binlog \in Seq(Seq(BinlogEvent)) /\ Len(binlog) >= 1
    /\ log \in Seq(Logged)
    /\ ids \in [TableNames -> TableIds \cup {0}] /\ nextId \in Nat
    /\ cols \in [TableNames -> Layout]
    /\ rowEvents \in Nat /\ prepared = <<>>

ParserTypes ==
    /\ startPos \in Place /\ dumpPos \in Place /\ pos \in Place
    /\ phase \in {"idle", "dumping", "parsing"} /\ format \in Formats
    /\ tranEvents \in Seq(StreamEvent) /\ autocommit \in BOOLEAN
    /\ tablesMaps \in [TableIds -> TableCache \cup {NoTable}]
    /\ sent \in Seq(Given) /\ accepted \in Seq(Given)
    /\ cursor \in [file : Nat, off : Nat, stage : {"rotate", "format", "events"}]
    /\ connected \in BOOLEAN

(* Row i of a group that begins at offset b.                               *)
RowAt(ev, b, i) ==
    [op |-> ev[b + 2 * i + 1].op, table |-> ev[b + 2 * i].def.name, row |-> ev[b + 2 * i + 1].row]

(* The events behind offset b are a group of n changes, rows its outcome.  *)
GroupAt(ev, b, n, rows) ==
    /\ b + 2 * n + 2 <= Len(ev)
    /\ ev[b + 1] = query(<<"begin">>)
    /\ \A i \in 1 .. n : /\ ev[b + 2 * i].kind = "tablemap" /\ ev[b + 2 * i + 1].kind = "rows"
                         /\ ev[b + 2 * i + 1].id = ev[b + 2 * i].id
    /\ \/ /\ ev[b + 2 * n + 2] \in {[kind |-> "xid"], query(<<"commit">>)}
          /\ Len(rows) = n /\ \A i \in 1 .. n : rows[i] = RowAt(ev, b, i)
       \/ ev[b + 2 * n + 2] = query(<<"rollback">>) /\ rows = <<>>

(* A transaction of the log with n changes, and its group.                 *)
IsGroup(bl, tx, n) ==
    /\ tx.begin.file \in 1 .. Len(bl)
    /\ tx.end = [file |-> tx.begin.file, off |-> tx.begin.off + 2 * n + 2]
    /\ GroupAt(bl[tx.begin.file], tx.begin.off, n, tx.rows)

(* Event i of file f is one of the group of tx.                            *)
Contains(tx, f, i) == tx.begin.file = f /\ tx.begin.off < i /\ i <= tx.end.off

(* An event of no transaction: DDL, one the parser ignores, or the last    *)
(* of a file that the master has left.                                     *)
Neutral(bl, f, i) ==
    \/ bl[f][i] \in {[kind |-> "ignored"], query(<<"create">>), query(<<"alter">>)}
    \/ /\ bl[f][i] = [kind |-> "rotate", to |-> [file |-> f + 1, off |-> 0]]
       /\ i = Len(bl[f]) /\ f < Len(bl)

(* The log is what the binlog holds: its groups, in order, and neutral     *)
(* events between them.                                                    *)
LogInv(bl, lg) ==
    /\ \A k \in 1 .. Len(lg) : \E n \in Nat : IsGroup(bl, lg[k], n)
    /\ \A j, k \in 1 .. Len(lg) : j < k => AtOrBefore(lg[j].end, lg[k].begin)
    /\ \A f \in 1 .. Len(bl) : \A i \in 1 .. Len(bl[f]) :
           Neutral(bl, f, i) \/ \E k \in 1 .. Len(lg) : Contains(lg[k], f, i)

(* The rows of the log are numbered in order.                              *)
Numbered(lg, last) ==
    /\ \A k \in 1 .. Len(lg) : \A i \in 1 .. Len(lg[k].rows) : lg[k].rows[i].row <= last
    /\ \A k \in 1 .. Len(lg) : \A i, j \in 1 .. Len(lg[k].rows) :
           i < j => lg[k].rows[i].row < lg[k].rows[j].row
    /\ \A k, m \in 1 .. Len(lg) :
           k < m => \A i \in 1 .. Len(lg[k].rows), j \in 1 .. Len(lg[m].rows) :
                        lg[k].rows[i].row < lg[m].rows[j].row

(* An id stands for one table, for ever.                                   *)
Names == [TableIds -> TableNames \cup {"none"}]
(* Every id given so far has the name N says: in the binlog, in the        *)
(* master's open tables and in the cache of the parser.                    *)
BinlogNames(N, bl, last) ==
    \A f \in 1 .. Len(bl) : \A i \in 1 .. Len(bl[f]) :
        bl[f][i].kind = "tablemap" => bl[f][i].id \in 1 .. last
            /\ N[bl[f][i].id] = bl[f][i].def.name
MasterNames(N) ==
    /\ BinlogNames(N, binlog, nextId - 1)
    /\ \A t \in TableNames :
           ids[t] # 0 => ids[t] \in TableIds /\ ids[t] \in 1 .. nextId - 1 /\ N[ids[t]] = t
CacheNames(N) ==
    \A id \in TableIds :
        tablesMaps[id] # NoTable => id \in 1 .. nextId - 1 /\ tablesMaps[id].table.name = N[id]

-----------------------------------------------------------------------------
(* Where the application and the parser are.                               *)

done == Len(accepted)
here == [file |-> cursor.file, off |-> cursor.off]

EndOf(bl) == [file |-> Len(bl), off |-> Len(bl[Len(bl)])]

(* A position behind the first m transactions and before all others.       *)
Between(bl, lg, m, p) ==
    /\ \A k \in 1 .. m : AtOrBefore(lg[k].end, p)
    /\ \A k \in m + 1 .. Len(lg) : AtOrBefore(p, lg[k].begin)
    /\ AtOrBefore(p, EndOf(bl))

(* The application has accepted the first transactions of the log, and     *)
(* asks for what comes behind the last of them.                            *)
AcceptedInv ==
    /\ done <= Len(log)
    /\ \A n \in 1 .. done : ChangesIn(accepted[n].events) = log[n].rows
    /\ done > 0 => accepted[done].next = log[done].end
    /\ phase = "dumping" => dumpPos = Saved /\ startPos = Saved

(* The parser has seen no part of a transaction; or its begin event and    *)
(* n of its changes, and perhaps the table map event of one more.          *)
Outside ==
    /\ autocommit /\ tranEvents = <<>>
    /\ Between(binlog, log, done, here)
    /\ \/ pos.file = cursor.file
       \/ cursor.off = Len(binlog[cursor.file]) /\ cursor.file < Len(binlog)

(* The cache knows the table of the event e under its name.                *)
Mapped(tables, e) == tables[e.id] # NoTable /\ tables[e.id].table.name = e.def.name

InsideAt(bl, tx, n, f, o, changes, tables) ==
    /\ tx.begin.file = f /\ o \in {tx.begin.off + 2 * n + 1, tx.begin.off + 2 * n + 2}
    /\ o < tx.end.off
    /\ Len(changes) = n /\ \A i \in 1 .. n : changes[i] = RowAt(bl[f], tx.begin.off, i)
    /\ o = tx.begin.off + 2 * n + 2 => Mapped(tables, bl[f][o])

Inside(n) ==
    /\ ~autocommit /\ done < Len(log) /\ pos.file = cursor.file
    /\ InsideAt(binlog, log[done + 1], n, cursor.file, cursor.off, ChangesIn(tranEvents),
          tablesMaps)

(* While a dump is read: from the fake ROTATE to the format description    *)
(* nothing is pending; then the parser is outside a transaction or inside  *)
(* the next one to be accepted.                                            *)
StageInv ==
    phase = "parsing" =>
        /\ cursor.file \in 1 .. Len(binlog) /\ cursor.off <= Len(binlog[cursor.file])
        /\ Between(binlog, log, done, pos)
        /\ cursor.stage # "events" =>
               autocommit /\ tranEvents = <<>> /\ Between(binlog, log, done, here)
        /\ cursor.stage = "format" \/ (cursor.stage = "rotate" /\ format = "zero") => pos = here
        /\ cursor.stage = "events" => format = "crc32" /\ (Outside \/ \E n \in Nat : Inside(n))

MasterInv(N) == MasterTypes /\ LogInv(binlog, log) /\ Numbered(log, rowEvents) /\ MasterNames(N)
ParserInv(N) == ParserTypes /\ CacheNames(N) /\ AcceptedInv /\ StageInv /\ WholeTransactions

(* The inductive invariant.                                                *)
RInv == Plain /\ \E N \in Names : MasterInv(N) /\ ParserInv(N)

-----------------------------------------------------------------------------
(* Sequences and positions.                                                *)

LEMMA Joined ==
    ASSUME NEW S, NEW s \in Seq(S), NEW t \in Seq(S)
    PROVE  /\ s \o t \in Seq(S) /\ Len(s \o t) = Len(s) + Len(t)
           /\ \A i \in 1 .. Len(s) : (s \o t)[i] = s[i]
           /\ \A i \in 1 .. Len(t) : (s \o t)[Len(s) + i] = t[i]
OBVIOUS

LEMMA Listed ==
    ASSUME NEW S, NEW n \in Nat, NEW s \in [1 .. n -> S]
    PROVE  s \in Seq(S) /\ Len(s) = n
OBVIOUS

LEMMA Appended ==
    ASSUME NEW S, NEW s \in Seq(S), NEW x \in S
    PROVE  /\ Append(s, x) \in Seq(S) /\ Len(Append(s, x)) = Len(s) + 1
           /\ \A i \in 1 .. Len(s) : Append(s, x)[i] = s[i]
           /\ Append(s, x)[Len(s) + 1] = x
OBVIOUS

LEMMA InOrder ==
    ASSUME NEW p \in Place, NEW q \in Place, NEW r \in Place,
           AtOrBefore(p, q), AtOrBefore(q, r)
    PROVE  AtOrBefore(p, r)
BY DEF Place, AtOrBefore

-----------------------------------------------------------------------------
(* The master only adds to its binlog and to its log.                      *)

Typed(bl, lg) == bl \in Seq(Seq(BinlogEvent)) /\ Len(bl) >= 1 /\ lg \in Seq(Logged)

Extends(bl, bl2) ==
    /\ bl2 \in Seq(Seq(BinlogEvent)) /\ Len(bl) <= Len(bl2)
    /\ \A f \in 1 .. Len(bl) :
        /\ Len(bl[f]) <= Len(bl2[f])
        /\ \A i \in 1 .. Len(bl[f]) : bl2[f][i] = bl[f][i]
        /\ f < Len(bl) => bl2[f] = bl[f]

LEMMA TypedFacts ==
    ASSUME NEW bl, NEW lg, Typed(bl, lg)
    PROVE  /\ Len(bl) \in Nat \ {0} /\ Len(lg) \in Nat
           /\ \A f \in 1 .. Len(bl) : bl[f] \in Seq(BinlogEvent) /\ Len(bl[f]) \in Nat
           /\ \A k \in 1 .. Len(lg) : lg[k] \in Logged /\ lg[k].begin \in Place
                 /\ lg[k].end \in Place
           /\ EndOf(bl) \in Place
<1>1. Len(bl) \in Nat \ {0} /\ Len(lg) \in Nat BY DEF Typed
<1>2. \A f \in 1 .. Len(bl) : bl[f] \in Seq(BinlogEvent) BY DEF Typed
<1>3. \A f \in 1 .. Len(bl) : Len(bl[f]) \in Nat BY <1>2
<1>4. \A k \in 1 .. Len(lg) : lg[k] \in Logged BY DEF Typed
<1>5. Len(bl) \in 1 .. Len(bl) BY <1>1
<1>6. EndOf(bl) \in Place BY <1>1, <1>3, <1>5 DEF EndOf, Place
<1> QED BY <1>1, <1>2, <1>3, <1>4, <1>6 DEF Logged

LEMMA ExtendsFacts ==
    ASSUME NEW bl, NEW lg, Typed(bl, lg), NEW bl2, Extends(bl, bl2), NEW f \in 1 .. Len(bl)
    PROVE  /\ Len(bl) \in Nat /\ Len(bl2) \in Nat /\ Len(bl) <= Len(bl2) /\ f \in 1 .. Len(bl2)
           /\ bl2[f] \in Seq(BinlogEvent)
           /\ Len(bl[f]) \in Nat /\ Len(bl2[f]) \in Nat /\ Len(bl[f]) <= Len(bl2[f])
           /\ \A i \in 1 .. Len(bl[f]) : bl2[f][i] = bl[f][i]
           /\ f < Len(bl) => bl2[f] = bl[f]
<1>1. Len(bl) \in Nat /\ Len(bl2) \in Nat /\ Len(bl) <= Len(bl2) BY TypedFacts DEF Extends
<1>2. f \in 1 .. Len(bl2) /\ Len(bl[f]) \in Nat BY <1>1, TypedFacts
<1>3. bl2[f] \in Seq(BinlogEvent) BY <1>2 DEF Extends
<1>4. Len(bl2[f]) \in Nat BY <1>3
<1> QED BY <1>1, <1>2, <1>3, <1>4 DEF Extends

LEMMA GroupFacts ==
    ASSUME NEW bl, NEW lg, Typed(bl, lg), NEW tx \in Logged, NEW n \in Nat, IsGroup(bl, tx, n)
    PROVE  /\ tx.begin.file \in 1 .. Len(bl) /\ tx.end.file = tx.begin.file
           /\ tx.begin.off \in Nat /\ tx.end.off = tx.begin.off + 2 * n + 2
           /\ tx.end.off <= Len(bl[tx.begin.file])
           /\ AtOrBefore(tx.end, EndOf(bl)) /\ AtOrBefore(tx.begin, tx.end)
<1>1. tx.begin \in Place /\ tx.begin.off \in Nat
  BY DEF Logged, Place
<1>2. /\ tx.begin.file \in 1 .. Len(bl)
      /\ tx.end = [file |-> tx.begin.file, off |-> tx.begin.off + 2 * n + 2]
      /\ tx.end.off <= Len(bl[tx.begin.file])
  <2>1. /\ tx.begin.file \in 1 .. Len(bl)
        /\ tx.end = [file |-> tx.begin.file, off |-> tx.begin.off + 2 * n + 2]
        /\ GroupAt(bl[tx.begin.file], tx.begin.off, n, tx.rows)
    BY DEF IsGroup
  <2>2. tx.begin.off + 2 * n + 2 <= Len(bl[tx.begin.file]) BY <2>1 DEF GroupAt
  <2>3. tx.end.off = tx.begin.off + 2 * n + 2 BY <2>1
  <2> QED BY <2>1, <2>2, <2>3
<1>3. Len(bl) \in Nat /\ Len(bl[tx.begin.file]) \in Nat
  BY <1>2, TypedFacts
<1> QED
  BY <1>1, <1>2, <1>3 DEF AtOrBefore, EndOf

LEMMA GroupAtKept ==
    ASSUME NEW ev \in Seq(BinlogEvent), NEW ev2 \in Seq(BinlogEvent), Len(ev) <= Len(ev2),
           \A i \in 1 .. Len(ev) : ev2[i] = ev[i],
           NEW b \in Nat, NEW n \in Nat, NEW rows, GroupAt(ev, b, n, rows)
    PROVE  GroupAt(ev2, b, n, rows)
<1>1. b + 2 * n + 2 <= Len(ev) /\ b + 2 * n + 2 <= Len(ev2)
  BY DEF GroupAt
<1>2. b + 1 \in 1 .. Len(ev) /\ b + 2 * n + 2 \in 1 .. Len(ev)
  BY <1>1
<1>3. \A i \in 1 .. n : b + 2 * i \in 1 .. Len(ev) /\ b + 2 * i + 1 \in 1 .. Len(ev)
  BY <1>1
<1>4. ev2[b + 1] = ev[b + 1] /\ ev2[b + 2 * n + 2] = ev[b + 2 * n + 2]
  BY <1>2
<1>5. \A i \in 1 .. n : ev2[b + 2 * i] = ev[b + 2 * i] /\ ev2[b + 2 * i + 1] = ev[b + 2 * i + 1]
  BY <1>3
<1> QED
  BY <1>1, <1>4, <1>5 DEF GroupAt, RowAt

LEMMA GroupKept ==
    ASSUME NEW bl, NEW lg, Typed(bl, lg), NEW bl2, Extends(bl, bl2), NEW tx \in Logged,
           NEW n \in Nat, IsGroup(bl, tx, n)
    PROVE  IsGroup(bl2, tx, n)
<1>1. PICK f, b : f = tx.begin.file /\ b = tx.begin.off
  OBVIOUS
<1>2. f \in 1 .. Len(bl) /\ b \in Nat
  BY <1>1, GroupFacts
<1>3. f \in 1 .. Len(bl2) /\ bl[f] \in Seq(BinlogEvent) /\ bl2[f] \in Seq(BinlogEvent)
      /\ Len(bl[f]) <= Len(bl2[f]) /\ \A i \in 1 .. Len(bl[f]) : bl2[f][i] = bl[f][i]
  BY <1>2, ExtendsFacts, TypedFacts
<1>4. GroupAt(bl2[f], b, n, tx.rows)
  <2>1. GroupAt(bl[f], b, n, tx.rows) BY <1>1 DEF IsGroup
  <2> QED BY <1>2, <1>3, <2>1, GroupAtKept
<1> QED
  BY <1>1, <1>3, <1>4 DEF IsGroup

LEMMA NeutralKept ==
    ASSUME NEW bl, NEW lg, Typed(bl, lg), NEW bl2, Extends(bl, bl2), NEW f \in 1 .. Len(bl),
           NEW i \in 1 .. Len(bl[f]), Neutral(bl, f, i)
    PROVE  Neutral(bl2, f, i)
<1>1. Len(bl) \in Nat /\ Len(bl2) \in Nat /\ Len(bl) <= Len(bl2) BY TypedFacts DEF Extends
<1>2. bl2[f][i] = bl[f][i] /\ (f < Len(bl) => bl2[f] = bl[f]) BY DEF Extends
<1> QED BY <1>1, <1>2 DEF Neutral

(* Events that belong to no transaction.                                   *)
LEMMA NeutralWritten ==
    ASSUME NEW bl, NEW lg, Typed(bl, lg), LogInv(bl, lg), NEW bl2, Extends(bl, bl2),
           \A f \in 1 .. Len(bl2) : \A i \in 1 .. Len(bl2[f]) :
               Neutral(bl2, f, i) \/ (f \in 1 .. Len(bl) /\ i \in 1 .. Len(bl[f]))
    PROVE  LogInv(bl2, lg)
<1>1. ASSUME NEW k \in 1 .. Len(lg) PROVE \E n \in Nat : IsGroup(bl2, lg[k], n)
  BY GroupKept, TypedFacts DEF LogInv
<1>2. ASSUME NEW f \in 1 .. Len(bl2), NEW i \in 1 .. Len(bl2[f])
      PROVE  Neutral(bl2, f, i) \/ \E k \in 1 .. Len(lg) : Contains(lg[k], f, i)
  BY NeutralKept DEF LogInv
<1> QED BY <1>1, <1>2 DEF LogInv

(* The group of a transaction at the end of the last file.                 *)
LEMMA GroupWritten ==
    ASSUME NEW bl, NEW lg, Typed(bl, lg), LogInv(bl, lg), NEW bl2, Extends(bl, bl2),
           Len(bl2) = Len(bl), NEW tx \in Logged, NEW n \in Nat, IsGroup(bl2, tx, n),
           tx.begin = EndOf(bl), tx.end = EndOf(bl2)
    PROVE  LogInv(bl2, Append(lg, tx))
<1> DEFINE lg2 == Append(lg, tx)
           l == Len(lg)
<1>1. l \in Nat /\ Len(lg2) = l + 1 /\ lg2[l + 1] = tx /\ \A k \in 1 .. l : lg2[k] = lg[k]
  BY Appended DEF Typed
<1> HIDE DEF lg2
<1>2. ASSUME NEW k \in 1 .. Len(lg2) PROVE \E m \in Nat : IsGroup(bl2, lg2[k], m)
  <2>1. CASE k = l + 1 BY <1>1, <2>1
  <2>2. CASE k \in 1 .. l
    <3>1. PICK m \in Nat : IsGroup(bl, lg[k], m) BY <2>2 DEF LogInv
    <3> QED BY <1>1, <2>2, <3>1, GroupKept, TypedFacts
  <2> QED BY <1>1, <2>1, <2>2
<1>3. ASSUME NEW j \in 1 .. Len(lg2), NEW k \in 1 .. Len(lg2), j < k
      PROVE  AtOrBefore(lg2[j].end, lg2[k].begin)
  <2>1. CASE k \in 1 .. l BY <1>1, <1>3, <2>1 DEF LogInv
  <2>2. CASE k = l + 1
    <3>1. j \in 1 .. l BY <1>1, <1>3, <2>2
    <3>2. PICK m \in Nat : IsGroup(bl, lg[j], m) BY <3>1 DEF LogInv
    <3>3. AtOrBefore(lg[j].end, EndOf(bl)) BY <3>1, <3>2, GroupFacts, TypedFacts
    <3> QED BY <1>1, <2>2, <3>1, <3>3
  <2> QED BY <1>1, <2>1, <2>2
<1>4. ASSUME NEW f \in 1 .. Len(bl2), NEW i \in 1 .. Len(bl2[f])
      PROVE  Neutral(bl2, f, i) \/ \E k \in 1 .. Len(lg2) : Contains(lg2[k], f, i)
  <2>1. f \in 1 .. Len(bl) /\ Len(bl[f]) \in Nat /\ Len(bl2[f]) \in Nat /\ Len(bl) \in Nat
    BY ExtendsFacts
  <2>2. CASE i \in 1 .. Len(bl[f])
    <3>1. CASE Neutral(bl, f, i) BY <2>1, <2>2, <3>1, NeutralKept
    <3>2. CASE \E k \in 1 .. l : Contains(lg[k], f, i) BY <1>1, <3>2
    <3> QED BY <2>1, <2>2, <3>1, <3>2 DEF LogInv
  <2>3. CASE i > Len(bl[f])
    <3>1. f = Len(bl) BY <2>1, <2>3, ExtendsFacts
    <3>2. Contains(tx, f, i) BY <2>1, <2>3, <3>1 DEF Contains, EndOf
    <3> QED BY <1>1, <3>2
  <2> QED BY <2>1, <2>2, <2>3
<1>5. LogInv(bl2, lg2) BY <1>2, <1>3, <1>4 DEF LogInv
<1> QED BY <1>5 DEF lg2

-----------------------------------------------------------------------------
(* What the master writes.                                                 *)

(* Events are added behind the b events of the last file, l.               *)
Longer(bl, l, b, s, bl2) ==
    /\ l = Len(bl) /\ b = Len(bl[l])
    /\ s \in Seq(BinlogEvent) /\ b <= Len(s) /\ \A i \in 1 .. b : s[i] = bl[l][i]
    /\ bl2 = [bl EXCEPT ![l] = s]

LEMMA LastFileWritten ==
    ASSUME NEW bl, NEW lg, Typed(bl, lg), NEW l, NEW b, NEW s, NEW bl2, Longer(bl, l, b, s, bl2)
    PROVE  /\ Extends(bl, bl2) /\ Len(bl2) = l /\ bl2[l] = s
           /\ \A f \in 1 .. l : \A i \in 1 .. Len(bl2[f]) :
                  \/ i \in 1 .. Len(bl[f]) /\ bl2[f][i] = bl[f][i]
                  \/ f = l /\ i \in b + 1 .. Len(s) /\ bl2[f][i] = s[i]
<1>0. /\ l = Len(bl) /\ b = Len(bl[l]) /\ s \in Seq(BinlogEvent) /\ b <= Len(s)
      /\ \A i \in 1 .. b : s[i] = bl[l][i]
      /\ bl2 = [bl EXCEPT ![l] = s]
  BY DEF Longer
<1>1. l \in Nat \ {0} /\ bl \in Seq(Seq(BinlogEvent)) BY <1>0, TypedFacts DEF Typed
<1>2. /\ bl2 \in Seq(Seq(BinlogEvent)) /\ Len(bl2) = l /\ bl2[l] = s
      /\ \A f \in 1 .. l : f # l => bl2[f] = bl[f]
  BY <1>0, <1>1
<1>3. \A f \in 1 .. l : Len(bl[f]) \in Nat BY <1>0, TypedFacts
<1>4. Len(s) \in Nat BY <1>0
<1>5. ASSUME NEW f \in 1 .. l
      PROVE  /\ Len(bl[f]) <= Len(bl2[f])
             /\ \A i \in 1 .. Len(bl[f]) : bl2[f][i] = bl[f][i]
             /\ f < l => bl2[f] = bl[f]
  <2>1. CASE f = l BY <1>0, <1>1, <1>2, <2>1
  <2>2. CASE f # l BY <1>1, <1>2, <1>3, <2>2
  <2> QED BY <2>1, <2>2
<1>6. Extends(bl, bl2)
  BY <1>0, <1>1, <1>2, <1>5 DEF Extends
<1>7. ASSUME NEW f \in 1 .. l, NEW i \in 1 .. Len(bl2[f])
      PROVE  \/ i \in 1 .. Len(bl[f]) /\ bl2[f][i] = bl[f][i]
             \/ f = l /\ i \in b + 1 .. Len(s) /\ bl2[f][i] = s[i]
  <2>1. CASE f # l BY <1>2, <2>1
  <2>2. CASE f = l /\ i \in 1 .. Len(bl[f]) BY <1>5, <2>2
  <2>3. CASE f = l /\ i \notin 1 .. Len(bl[f])
    <3>1. i \in 1 .. Len(s) /\ bl2[f][i] = s[i] BY <1>2, <2>3
    <3>2. i \in b + 1 .. Len(s) BY <1>0, <1>1, <1>3, <1>4, <2>3, <3>1
    <3> QED BY <2>3, <3>1, <3>2
  <2> QED BY <2>1, <2>2, <2>3
<1> QED BY <1>2, <1>6, <1>7

LEMMA FileBegun ==
    ASSUME NEW bl, NEW lg, Typed(bl, lg), NEW bl2, bl2 = Append(bl, <<>>)
    PROVE  /\ Extends(bl, bl2) /\ Len(bl2) = Len(bl) + 1 /\ bl2[Len(bl2)] = <<>>
           /\ \A f \in 1 .. Len(bl) : bl2[f] = bl[f]
<1>1. bl \in Seq(Seq(BinlogEvent)) /\ <<>> \in Seq(BinlogEvent) /\ Len(bl) \in Nat
  BY TypedFacts DEF Typed
<1>2. /\ bl2 \in Seq(Seq(BinlogEvent)) /\ Len(bl2) = Len(bl) + 1 /\ bl2[Len(bl) + 1] = <<>>
      /\ \A f \in 1 .. Len(bl) : bl2[f] = bl[f]
  BY <1>1, Appended
<1>3. \A f \in 1 .. Len(bl) : Len(bl[f]) \in Nat BY TypedFacts
<1> QED BY <1>1, <1>2, <1>3 DEF Extends

(* A group of m changes, s2 the events of its file from now on; the tables *)
(* it names, by the ids they have; and what of it is committed.            *)
NewEvents(s2, b, m, changes, open, cs, last, r) ==
    /\ s2 \in Seq(BinlogEvent) /\ b \in Nat /\ m \in Nat /\ Len(s2) = b + 2 * m + 2
    /\ last \in {[kind |-> "xid"], query(<<"commit">>), query(<<"rollback">>)}
    /\ s2[b + 1] = query(<<"begin">>) /\ s2[b + 2 * m + 2] = last
    /\ \A i \in 1 .. m :
        /\ s2[b + 2 * i] = [kind |-> "tablemap", id |-> open[changes[i].table],
                            def |-> [name |-> changes[i].table, cols |-> cs[changes[i].table]]]
        /\ s2[b + 2 * i + 1] = [kind |-> "rows", op |-> changes[i].op,
                                id |-> open[changes[i].table], row |-> r + i,
                                of |-> [name |-> changes[i].table, cols |-> cs[changes[i].table]]]

OpenTables(m, changes, open, N, top) ==
    \A k \in 1 .. m : open[changes[k].table] \in 1 .. top
        /\ N[open[changes[k].table]] = changes[k].table

Outcome(rows, last, m, changes, r) ==
    /\ rows \in Seq(LoggedRow)
    /\ IF last = query(<<"rollback">>) THEN rows = <<>>
       ELSE /\ Len(rows) = m
            /\ \A i \in 1 .. m : rows[i] = [op |-> changes[i].op, table |-> changes[i].table,
                  row |-> r + i]

Enclosing(tx, rows, l, b, bl2) ==
    tx = [rows |-> rows, begin |-> [file |-> l, off |-> b],
        end |-> [file |-> l, off |-> Len(bl2[l])]]

Written(s, s2, changes, last) ==
    s2 = s \o (<<query(<<"begin">>)>> \o ChangeEvents(changes) \o <<last>>)

LEMMA GroupEvents ==
    ASSUME MasterTypes, NEW changes \in Seq(Change), Writable(changes),
           NEW last \in {[kind |-> "xid"], query(<<"commit">>), query(<<"rollback">>)},
           NEW s \in Seq(BinlogEvent), NEW s2, Written(s, s2, changes, last)
    PROVE  /\ NewEvents(s2, Len(s), Len(changes), changes, ids, cols, last, rowEvents)
           /\ \A i \in 1 .. Len(s) : s2[i] = s[i]
<1> DEFINE m == Len(changes)
           ce == ChangeEvents(changes)
           tm(n) == [kind |-> "tablemap", id |-> ids[changes[n].table],
                     def |-> [name |-> changes[n].table, cols |-> cols[changes[n].table]]]
           rw(n) == [kind |-> "rows", op |-> changes[n].op, id |-> ids[changes[n].table],
                     row |-> rowEvents + n,
                     of |-> [name |-> changes[n].table, cols |-> cols[changes[n].table]]]
           first == query(<<"begin">>)
           g1 == <<first>> \o ce
           g == g1 \o <<last>>
<1>1. m \in Nat /\ DOMAIN changes = 1 .. m OBVIOUS
<1>2. ASSUME NEW n \in 1 .. m
      PROVE  /\ changes[n].op \in Operations /\ changes[n].table \in TableNames
             /\ ids[changes[n].table] \in TableIds /\ cols[changes[n].table] \in Layout
             /\ rowEvents + n \in Nat
  <2>1. changes[n] \in Change /\ n \in DOMAIN changes /\ n \in Nat BY <1>1
  <2>2. changes[n].op \in Operations /\ changes[n].table \in TableNames BY <2>1 DEF Change
  <2> QED BY <2>1, <2>2 DEF MasterTypes, Writable
<1>3. ce = [i \in 1 .. 2 * m |-> IF i % 2 = 1 THEN tm((i + 1) \div 2) ELSE rw((i + 1) \div 2)]
  BY DEF ChangeEvents
<1>4. ASSUME NEW i \in 1 .. m PROVE tm(i) \in BinlogEvent /\ rw(i) \in BinlogEvent
  <2>1. tm(i) \in TableMapEvents BY <1>2 DEF TableMapEvents, TableDef
  <2>2. rw(i) \in RowsEvents BY <1>2 DEF RowsEvents, TableDef
  <2> QED BY <2>1, <2>2 DEF BinlogEvent
<1> HIDE DEF m, ce, tm, rw
<1>5. ASSUME NEW i \in 1 .. m PROVE ce[2 * i - 1] = tm(i) /\ ce[2 * i] = rw(i)
  <2>1. 2 * i - 1 \in 1 .. 2 * m /\ 2 * i \in 1 .. 2 * m BY <1>1
  <2>2. (2 * i - 1 + 1) \div 2 = i /\ (2 * i + 1) \div 2 = i /\ (2 * i - 1) % 2 = 1
            /\ (2 * i) % 2 = 0
    BY <1>1
  <2>3. ce[2 * i - 1] = tm((2 * i - 1 + 1) \div 2) BY <1>3, <2>1, <2>2
  <2>4. ce[2 * i] = rw((2 * i + 1) \div 2) BY <1>3, <2>1, <2>2
  <2> QED BY <2>2, <2>3, <2>4
<1>6. ASSUME NEW i \in 1 .. 2 * m PROVE ce[i] \in BinlogEvent
  <2>1. i \in Nat /\ (i + 1) \div 2 \in Nat /\ 2 * ((i + 1) \div 2) \in {i, i + 1} BY <1>1
  <2>2. (i + 1) \div 2 \in 1 .. m BY <1>1, <2>1
  <2>3. ce[i] \in {tm((i + 1) \div 2), rw((i + 1) \div 2)} BY <1>3
  <2> QED BY <1>4, <2>2, <2>3
<1>7. ce \in Seq(BinlogEvent) /\ Len(ce) = 2 * m
  <2>1. ce \in [1 .. 2 * m -> BinlogEvent] BY <1>3, <1>6
  <2>2. 2 * m \in Nat BY <1>1
  <2> QED BY <2>1, <2>2, Listed
<1>8. first \in BinlogEvent /\ <<first>> \in Seq(BinlogEvent) /\ Len(<<first>>) = 1
          /\ <<first>>[1] = first
  BY DEF query, BinlogEvent, QueryEvents
<1>9. last \in BinlogEvent /\ <<last>> \in Seq(BinlogEvent) /\ Len(<<last>>) = 1
          /\ <<last>>[1] = last
  <2>1. last \in BinlogEvent BY DEF query, BinlogEvent, OtherEvents, QueryEvents
  <2> QED BY <2>1
<1> HIDE DEF first
<1>10. /\ g1 \in Seq(BinlogEvent) /\ Len(g1) = 2 * m + 1 /\ g1[1] = first
       /\ \A i \in 1 .. 2 * m : g1[i + 1] = ce[i]
  <2>1. /\ g1 \in Seq(BinlogEvent) /\ Len(g1) = Len(<<first>>) + Len(ce)
        /\ \A i \in 1 .. Len(<<first>>) : g1[i] = <<first>>[i]
        /\ \A i \in 1 .. Len(ce) : g1[Len(<<first>>) + i] = ce[i]
    BY <1>7, <1>8, Joined
  <2>2. \A i \in 1 .. 2 * m : 1 + i = i + 1 OBVIOUS
  <2> HIDE DEF g1
  <2> QED BY <1>1, <1>7, <1>8, <2>1, <2>2
<1> HIDE DEF g1
<1>11. /\ g \in Seq(BinlogEvent) /\ Len(g) = 2 * m + 2 /\ g[2 * m + 2] = last
       /\ \A i \in 1 .. 2 * m + 1 : g[i] = g1[i]
  <2>1. /\ g \in Seq(BinlogEvent) /\ Len(g) = Len(g1) + Len(<<last>>)
        /\ \A i \in 1 .. Len(g1) : g[i] = g1[i]
        /\ \A i \in 1 .. Len(<<last>>) : g[Len(g1) + i] = <<last>>[i]
    BY <1>9, <1>10, Joined
  <2> HIDE DEF g
  <2>2. g[Len(g1) + 1] = last /\ Len(g1) + 1 = 2 * m + 2 BY <1>1, <1>9, <1>10, <2>1
  <2> QED BY <1>1, <1>9, <1>10, <2>1, <2>2
<1>12. s2 = s \o g BY DEF g, g1, ce, first, Written
<1> HIDE DEF g
<1>13. /\ s2 \in Seq(BinlogEvent) /\ Len(s2) = Len(s) + (2 * m + 2)
       /\ \A i \in 1 .. Len(s) : s2[i] = s[i]
       /\ \A i \in 1 .. 2 * m + 2 : s2[Len(s) + i] = g[i]
  <2>1. /\ s2 \in Seq(BinlogEvent) /\ Len(s2) = Len(s) + Len(g)
        /\ \A i \in 1 .. Len(s) : s2[i] = s[i]
        /\ \A i \in 1 .. Len(g) : s2[Len(s) + i] = g[i]
    <3>1. g \in Seq(BinlogEvent) BY <1>11
    <3>2. PICK h \in Seq(BinlogEvent) : h = g BY <3>1
    <3>3. /\ s \o h \in Seq(BinlogEvent) /\ Len(s \o h) = Len(s) + Len(h)
          /\ \A i \in 1 .. Len(s) : (s \o h)[i] = s[i]
          /\ \A i \in 1 .. Len(h) : (s \o h)[Len(s) + i] = h[i]
      BY Joined
    <3> QED BY <1>12, <3>2, <3>3, Zenon
  <2> QED BY <1>11, <2>1
<1>14. Len(s) \in Nat OBVIOUS
<1>15. g[1] = first BY <1>1, <1>10, <1>11
<1>16. \A i \in 1 .. m : g[2 * i] = ce[2 * i - 1] /\ g[2 * i + 1] = ce[2 * i]
  <2> TAKE i \in 1 .. m
  <2>1. 2 * i \in 1 .. 2 * m + 1 /\ 2 * i + 1 \in 1 .. 2 * m + 1 /\ 2 * i - 1 \in 1 .. 2 * m
        /\ 2 * i \in 1 .. 2 * m /\ (2 * i - 1) + 1 = 2 * i
    BY <1>1
  <2> QED BY <1>10, <1>11, <2>1
<1>17. s2[Len(s) + 1] = first /\ s2[Len(s) + (2 * m + 2)] = last
  <2>1. 1 \in 1 .. 2 * m + 2 /\ 2 * m + 2 \in 1 .. 2 * m + 2 BY <1>1
  <2> QED BY <1>11, <1>13, <1>15, <2>1
<1>18. \A i \in 1 .. m : s2[Len(s) + 2 * i] = ce[2 * i - 1] /\ s2[Len(s) + (2 * i + 1)] = ce[2 * i]
  <2> TAKE i \in 1 .. m
  <2>1. 2 * i \in 1 .. 2 * m + 2 /\ 2 * i + 1 \in 1 .. 2 * m + 2 BY <1>1
  <2> QED BY <1>13, <1>16, <2>1
<1>19. /\ Len(s) + (2 * m + 2) = Len(s) + 2 * m + 2
       /\ \A i \in 1 .. m : Len(s) + (2 * i + 1) = Len(s) + 2 * i + 1
  BY <1>1, <1>14
<1>20. /\ s2[Len(s) + 2 * m + 2] = last /\ Len(s2) = Len(s) + 2 * m + 2
       /\ \A i \in 1 .. m : s2[Len(s) + 2 * i + 1] = ce[2 * i]
  BY <1>13, <1>17, <1>18, <1>19
<1>21. NewEvents(s2, Len(s), m, changes, ids, cols, last, rowEvents)
  BY <1>1, <1>5, <1>13, <1>14, <1>17, <1>18, <1>20 DEF NewEvents, first, tm, rw
<1> QED BY <1>13, <1>21 DEF m

LEMMA NumberedMore ==
    ASSUME NEW lg \in Seq(Logged), NEW tx \in Logged, NEW last \in Nat, NEW last2 \in Nat,
           last <= last2, Numbered(lg, last),
           \A i \in 1 .. Len(tx.rows) : last < tx.rows[i].row /\ tx.rows[i].row <= last2,
           \A i, j \in 1 .. Len(tx.rows) : i < j => tx.rows[i].row < tx.rows[j].row
    PROVE  Numbered(Append(lg, tx), last2)
<1> DEFINE lg2 == Append(lg, tx)
           l == Len(lg)
<1>1. l \in Nat /\ Len(lg2) = l + 1 /\ lg2[l + 1] = tx /\ \A k \in 1 .. l : lg2[k] = lg[k]
  BY Appended
<1>2. ASSUME NEW k \in 1 .. l, NEW i \in 1 .. Len(lg[k].rows) PROVE lg[k].rows[i].row \in Nat
  <2>1. lg[k] \in Logged OBVIOUS
  <2>2. lg[k].rows \in Seq(LoggedRow) BY <2>1 DEF Logged
  <2>3. lg[k].rows[i] \in LoggedRow BY <2>2
  <2> QED BY <2>3 DEF LoggedRow
<1>3. ASSUME NEW i \in 1 .. Len(tx.rows) PROVE tx.rows[i].row \in Nat
  <2>1. tx.rows \in Seq(LoggedRow) BY DEF Logged
  <2>2. tx.rows[i] \in LoggedRow BY <2>1
  <2> QED BY <2>2 DEF LoggedRow
<1> HIDE DEF lg2
<1>4. ASSUME NEW k \in 1 .. l + 1, NEW i \in 1 .. Len(lg2[k].rows) PROVE lg2[k].rows[i].row <= last2
  <2>1. CASE k = l + 1 BY <1>1, <2>1
  <2>2. CASE k \in 1 .. l
    <3>1. lg[k].rows[i].row <= last /\ lg[k].rows[i].row \in Nat BY <1>1, <1>2, <2>2 DEF Numbered
    <3> QED BY <1>1, <2>2, <3>1
  <2> QED BY <1>1, <2>1, <2>2
<1>5. ASSUME NEW k \in 1 .. l + 1, NEW i \in 1 .. Len(lg2[k].rows),
             NEW j \in 1 .. Len(lg2[k].rows), i < j
      PROVE  lg2[k].rows[i].row < lg2[k].rows[j].row
  <2>1. CASE k = l + 1 BY <1>1, <1>5, <2>1
  <2>2. CASE k \in 1 .. l BY <1>1, <1>5, <2>2 DEF Numbered
  <2> QED BY <1>1, <2>1, <2>2
<1>6. ASSUME NEW k \in 1 .. l + 1, NEW m \in 1 .. l + 1, k < m,
             NEW i \in 1 .. Len(lg2[k].rows), NEW j \in 1 .. Len(lg2[m].rows)
      PROVE  lg2[k].rows[i].row < lg2[m].rows[j].row
  <2>1. k \in 1 .. l BY <1>1, <1>6
  <2>2. CASE m = l + 1
    <3>1. lg[k].rows[i].row <= last /\ lg[k].rows[i].row \in Nat BY <1>1, <1>2, <2>1 DEF Numbered
    <3>2. last < tx.rows[j].row /\ tx.rows[j].row \in Nat BY <1>1, <1>3, <2>2
    <3>3. lg2[k] = lg[k] /\ lg2[m] = tx BY <1>1, <2>1, <2>2
    <3>4. \A x, y \in Nat : x <= last /\ last < y => x < y OBVIOUS
    <3>5. lg[k].rows[i].row < tx.rows[j].row BY <3>1, <3>2, <3>4
    <3> QED BY <3>3, <3>5
  <2>3. CASE m \in 1 .. l
    <3>1. i \in 1 .. Len(lg[k].rows) /\ j \in 1 .. Len(lg[m].rows) BY <1>1, <1>6, <2>1, <2>3
    <3>2. lg[k].rows[i].row < lg[m].rows[j].row BY <1>6, <2>1, <2>3, <3>1 DEF Numbered
    <3> QED BY <1>1, <2>1, <2>3, <3>2
  <2> QED BY <1>1, <2>2, <2>3
<1>7. Numbered(lg2, last2) BY <1>1, <1>4, <1>5, <1>6 DEF Numbered
<1> QED BY <1>7 DEF lg2

(* What a step of the master keeps, and what it adds.                      *)
Grown(N) ==
    /\ MasterTypes' /\ LogInv(binlog', log') /\ Numbered(log', rowEvents') /\ MasterNames(N)'
    /\ Extends(binlog, binlog') /\ nextId <= nextId'
    /\ log' = log \/ \E tx \in Logged : log' = Append(log, tx) /\ tx.begin = EndOf(binlog)

LEMMA NewGroup ==
    ASSUME NEW s2, NEW b, NEW m, NEW changes, NEW open, NEW cs, NEW last, NEW r, NEW rows,
           NewEvents(s2, b, m, changes, open, cs, last, r), Outcome(rows, last, m, changes, r)
    PROVE  GroupAt(s2, b, m, rows)
<1>1. ASSUME NEW i \in 1 .. m
      PROVE  /\ s2[b + 2 * i].kind = "tablemap" /\ s2[b + 2 * i + 1].kind = "rows"
             /\ s2[b + 2 * i + 1].id = s2[b + 2 * i].id
             /\ RowAt(s2, b, i) = [op |-> changes[i].op, table |-> changes[i].table, row |-> r + i]
  <2>1. s2[b + 2 * i] = [kind |-> "tablemap", id |-> open[changes[i].table],
                         def |-> [name |-> changes[i].table, cols |-> cs[changes[i].table]]]
    BY DEF NewEvents
  <2>2. s2[b + 2 * i + 1] = [kind |-> "rows", op |-> changes[i].op,
                             id |-> open[changes[i].table], row |-> r + i,
                             of |-> [name |-> changes[i].table, cols |-> cs[changes[i].table]]]
    BY DEF NewEvents
  <2> QED BY <2>1, <2>2 DEF RowAt
<1>2. b + 2 * m + 2 <= Len(s2) BY DEF NewEvents
<1>3. s2[b + 1] = query(<<"begin">>) /\ s2[b + 2 * m + 2] = last BY DEF NewEvents
<1>4. CASE last = query(<<"rollback">>)
  BY <1>1, <1>2, <1>3, <1>4 DEF GroupAt, Outcome
<1>5. CASE last # query(<<"rollback">>)
  <2>1. Len(rows) = m /\ \A i \in 1 .. m : rows[i] = RowAt(s2, b, i) BY <1>1, <1>5 DEF Outcome
  <2>2. last \in {[kind |-> "xid"], query(<<"commit">>)} BY <1>5 DEF NewEvents
  <2> QED BY <1>1, <1>2, <1>3, <2>1, <2>2 DEF GroupAt
<1> QED BY <1>4, <1>5

LEMMA NewNames ==
    ASSUME NEW s2, NEW b, NEW m, NEW changes, NEW open, NEW cs, NEW last, NEW r, NEW N, NEW top,
           NewEvents(s2, b, m, changes, open, cs, last, r), OpenTables(m, changes, open, N, top),
           NEW i \in b + 1 .. Len(s2)
    PROVE  s2[i].kind # "tablemap" \/ (s2[i].id \in 1 .. top /\ N[s2[i].id] = s2[i].def.name)
<1>1. b \in Nat /\ m \in Nat /\ Len(s2) = b + 2 * m + 2 BY DEF NewEvents
<1>2. PICK j \in 1 .. 2 * m + 2 : i = b + j
  <2>1. i - b \in 1 .. 2 * m + 2 /\ i = b + (i - b) BY <1>1
  <2> QED BY <2>1
<1>3. PICK k \in Nat : j = 2 * k \/ j = 2 * k + 1
  <2>1. j \in Nat BY <1>1
  <2>2. j \div 2 \in Nat /\ (j = 2 * (j \div 2) \/ j = 2 * (j \div 2) + 1) BY <2>1
  <2> QED BY <2>2
<1>4. CASE k = 0
  <2>1. i = b + 1 BY <1>1, <1>2, <1>3, <1>4
  <2>2. s2[i] = query(<<"begin">>) BY <2>1 DEF NewEvents
  <2> QED BY <2>2 DEF query
<1>5. CASE j = 2 * m + 2
  <2>1. i = b + 2 * m + 2 BY <1>1, <1>2, <1>5
  <2>2. s2[i] \in {[kind |-> "xid"], query(<<"commit">>), query(<<"rollback">>)}
    BY <2>1 DEF NewEvents
  <2> QED BY <2>2 DEF query
<1>6. CASE k \in 1 .. m /\ j = 2 * k
  <2>1. i = b + 2 * k BY <1>1, <1>2, <1>6
  <2>2. s2[i] = [kind |-> "tablemap", id |-> open[changes[k].table],
                 def |-> [name |-> changes[k].table, cols |-> cs[changes[k].table]]]
    BY <1>6, <2>1 DEF NewEvents
  <2> QED BY <1>6, <2>2 DEF OpenTables
<1>7. CASE k \in 1 .. m /\ j = 2 * k + 1
  <2>1. i = b + 2 * k + 1 BY <1>1, <1>2, <1>7
  <2>2. s2[i] = [kind |-> "rows", op |-> changes[k].op, id |-> open[changes[k].table],
            row |-> r + k, of |-> [name |-> changes[k].table, cols |-> cs[changes[k].table]]]
    BY <1>7, <2>1 DEF NewEvents
  <2> QED BY <2>2
<1>8. k = 0 \/ k \in 1 .. m \/ j = 2 * m + 2 BY <1>1, <1>3
<1> QED BY <1>3, <1>4, <1>5, <1>6, <1>7, <1>8

LEMMA NewNumbers ==
    ASSUME NEW lg \in Seq(Logged), NEW tx \in Logged, NEW last, NEW m \in Nat, NEW changes,
           NEW r \in Nat,
           Numbered(lg, r), Outcome(tx.rows, last, m, changes, r)
    PROVE  Numbered(Append(lg, tx), r + m)
<1>1. PICK rows : rows = tx.rows OBVIOUS
<1>2. rows \in Seq(LoggedRow) BY <1>1 DEF Logged
<1>3. ASSUME NEW i \in 1 .. Len(rows) PROVE rows[i].row = r + i /\ i \in 1 .. m /\ i \in Nat
  <2>1. rows # <<>> BY <1>2
  <2>2. last # query(<<"rollback">>) BY <1>1, <2>1 DEF Outcome
  <2>3. i \in 1 .. m BY <1>1, <2>2 DEF Outcome
  <2>4. rows[i] = [op |-> changes[i].op, table |-> changes[i].table, row |-> r + i]
    BY <1>1, <2>2, <2>3 DEF Outcome
  <2> QED BY <2>3, <2>4
<1>4. \A i \in 1 .. Len(rows) : r < rows[i].row /\ rows[i].row <= r + m BY <1>3
<1>5. \A i, j \in 1 .. Len(rows) : i < j => rows[i].row < rows[j].row BY <1>3
<1>6. r + m \in Nat /\ r <= r + m OBVIOUS
<1> QED BY <1>1, <1>4, <1>5, <1>6, NumberedMore

(* What a group with its transaction adds to a binlog and to its log.      *)
LEMMA GroupAdded ==
    ASSUME NEW bl, NEW lg, Typed(bl, lg), LogInv(bl, lg), NEW r \in Nat, Numbered(lg, r),
           NEW N, NEW top \in Nat, BinlogNames(N, bl, top - 1),
           NEW l, NEW b, NEW m, NEW s2, NEW bl2, Longer(bl, l, b, s2, bl2),
           NEW changes, NEW open, NEW cs, NEW last, NewEvents(s2, b, m, changes, open, cs, last, r),
           OpenTables(m, changes, open, N, top - 1),
           NEW rows, Outcome(rows, last, m, changes, r), NEW tx, Enclosing(tx, rows, l, b, bl2)
    PROVE  /\ Extends(bl, bl2) /\ tx \in Logged /\ tx.begin = EndOf(bl)
           /\ Typed(bl2, Append(lg, tx))
           /\ LogInv(bl2, Append(lg, tx)) /\ Numbered(Append(lg, tx), r + m)
           /\ BinlogNames(N, bl2, top - 1)
<1>1. l = Len(bl) /\ b = Len(bl[l]) BY DEF Longer
<1>2. /\ l \in Nat \ {0} /\ bl[l] \in Seq(BinlogEvent) /\ b \in Nat /\ lg \in Seq(Logged)
      /\ l \in 1 .. l
      /\ m \in Nat /\ s2 \in Seq(BinlogEvent) /\ Len(s2) = b + 2 * m + 2
  BY <1>1, TypedFacts DEF Typed, NewEvents
<1>3. /\ Extends(bl, bl2) /\ Len(bl2) = l /\ bl2[l] = s2
      /\ \A f \in 1 .. l : \A i \in 1 .. Len(bl2[f]) :
            \/ i \in 1 .. Len(bl[f]) /\ bl2[f][i] = bl[f][i]
            \/ f = l /\ i \in b + 1 .. Len(s2) /\ bl2[f][i] = s2[i]
  BY LastFileWritten
<1>4. BinlogNames(N, bl2, top - 1)
  <2>1. \A i \in b + 1 .. Len(s2) :
            s2[i].kind # "tablemap" \/ (s2[i].id \in 1 .. top - 1 /\ N[s2[i].id] = s2[i].def.name)
    BY NewNames
  <2>2. ASSUME NEW f \in 1 .. Len(bl2), NEW i \in 1 .. Len(bl2[f]), bl2[f][i].kind = "tablemap"
        PROVE  bl2[f][i].id \in 1 .. top - 1 /\ N[bl2[f][i].id] = bl2[f][i].def.name
    <3>1. CASE i \in 1 .. Len(bl[f]) /\ bl2[f][i] = bl[f][i]
      BY <1>1, <1>3, <2>2, <3>1 DEF BinlogNames
    <3>2. CASE f = l /\ i \in b + 1 .. Len(s2) /\ bl2[f][i] = s2[i]
      BY <2>1, <2>2, <3>2
    <3> QED BY <1>3, <3>1, <3>2
  <2> QED BY <2>2 DEF BinlogNames
<1>5. Len(bl2[l]) = b + 2 * m + 2 /\ Len(bl2[l]) \in Nat BY <1>2, <1>3
<1>6. rows \in Seq(LoggedRow) BY DEF Outcome
<1>7. /\ tx \in Logged /\ tx.rows = rows /\ tx.begin = EndOf(bl) /\ tx.end = EndOf(bl2)
      /\ tx.begin.file = l /\ tx.begin.off = b /\ tx.end = [file |-> l, off |-> b + 2 * m + 2]
  <2>1. tx = [rows |-> rows, begin |-> [file |-> l, off |-> b],
            end |-> [file |-> l, off |-> Len(bl2[l])]]
    BY DEF Enclosing
  <2> QED BY <1>1, <1>2, <1>3, <1>5, <1>6, <2>1 DEF Logged, Place, EndOf
<1>8. GroupAt(s2, b, m, rows) BY NewGroup
<1>9. IsGroup(bl2, tx, m)
  BY <1>2, <1>3, <1>7, <1>8 DEF IsGroup
<1>10. LogInv(bl2, Append(lg, tx))
  BY <1>1, <1>2, <1>3, <1>7, <1>9, GroupWritten
<1>11. Numbered(Append(lg, tx), r + m)
  BY <1>2, <1>7, NewNumbers
<1>12. bl2 \in Seq(Seq(BinlogEvent)) /\ Len(bl2) >= 1 BY <1>2, <1>3 DEF Extends
<1>13. Append(lg, tx) \in Seq(Logged) BY <1>2, <1>7
<1> QED BY <1>3, <1>4, <1>7, <1>10, <1>11, <1>12, <1>13 DEF Typed

LEMMA GroupStep ==
    ASSUME NEW N \in Names, MasterInv(N), NEW changes \in Changes, Writable(changes),
           NEW last \in {[kind |-> "xid"], query(<<"commit">>), query(<<"rollback">>)},
           Write(<<query(<<"begin">>)>> \o ChangeEvents(changes) \o <<last>>, changes),
           NEW rows, rows = IF last = query(<<"rollback">>) THEN <<>> ELSE RowChanges(changes),
           LogTransaction(rows), UNCHANGED <<ids, nextId, cols, prepared>>
    PROVE  Grown(N)
<1>1. PICK l, s, m, b : l = Len(binlog) /\ s = binlog[l] /\ m = Len(changes) /\ b = Len(s)
  OBVIOUS
<1>2. /\ Typed(binlog, log) /\ l \in Nat \ {0} /\ s \in Seq(BinlogEvent) /\ b \in Nat
      /\ l \in 1 .. l /\ nextId \in Nat /\ rowEvents \in Nat
  BY <1>1, TypedFacts DEF MasterInv, MasterTypes, Typed
<1>3. changes \in Seq(Change) /\ m \in Nat /\ DOMAIN changes = 1 .. m
  BY <1>1, ChangesAssumption
<1>5. \A k \in 1 .. m : changes[k] \in Change
  BY <1>1, <1>3
<1>6. ASSUME NEW k \in 1 .. m
      PROVE  /\ changes[k].op \in Operations /\ changes[k].table \in TableNames
             /\ ids[changes[k].table] # 0
  BY <1>3, <1>5 DEF Change, Writable
<1>7. PICK s2 : Written(s, s2, changes, last)
  BY DEF Written
<1>8. /\ b <= Len(s2) /\ \A i \in 1 .. b : s2[i] = s[i]
      /\ s2 \in Seq(BinlogEvent)
      /\ NewEvents(s2, b, m, changes, ids, cols, last, rowEvents)
  <2>1. MasterTypes BY DEF MasterInv
  <2>2. /\ NewEvents(s2, Len(s), Len(changes), changes, ids, cols, last, rowEvents)
        /\ \A i \in 1 .. Len(s) : s2[i] = s[i]
    BY <1>2, <1>3, <1>7, <2>1, GroupEvents
  <2>3. NewEvents(s2, b, m, changes, ids, cols, last, rowEvents) /\ \A i \in 1 .. b : s2[i] = s[i]
    BY <1>1, <2>2
  <2>4. s2 \in Seq(BinlogEvent) /\ Len(s2) = b + 2 * m + 2 BY <2>3 DEF NewEvents
  <2> QED BY <1>2, <1>3, <2>3, <2>4
<1>9. binlog' = [binlog EXCEPT ![l] = s2] /\ rowEvents' = rowEvents + m
  BY <1>1, <1>7 DEF Write, LastFile, Written
<1>10. Outcome(rows, last, m, changes, rowEvents)
  <2>1. CASE last = query(<<"rollback">>) BY <2>1 DEF Outcome
  <2>2. CASE last # query(<<"rollback">>)
    <3>1. rows = [n \in 1 .. m |-> [op |-> changes[n].op, table |-> changes[n].table,
              row |-> rowEvents + n]]
      BY <1>3, <2>2 DEF RowChanges
    <3>2. \A n \in 1 .. m : [op |-> changes[n].op, table |-> changes[n].table,
              row |-> rowEvents + n] \in LoggedRow
      BY <1>2, <1>6 DEF LoggedRow
    <3>3. rows \in [1 .. m -> LoggedRow] BY <3>1, <3>2
    <3>4. rows \in Seq(LoggedRow) /\ Len(rows) = m BY <1>3, <3>3, Listed
    <3> QED BY <2>2, <3>1, <3>4 DEF Outcome
  <2> QED BY <2>1, <2>2
<1>11. PICK tx : Enclosing(tx, rows, l, b, binlog')
  BY DEF Enclosing
<1>12. log' = Append(log, tx)
  BY <1>1, <1>11 DEF LogTransaction, LastFile, EndOfBinlog, Enclosing
<1>13. OpenTables(m, changes, ids, N, nextId - 1)
  BY <1>6 DEF MasterInv, MasterNames, OpenTables
<1>14. LogInv(binlog, log) /\ Numbered(log, rowEvents) /\ BinlogNames(N, binlog, nextId - 1)
  BY DEF MasterInv, MasterNames
<1>15. /\ Extends(binlog, binlog') /\ tx \in Logged /\ tx.begin = EndOf(binlog)
       /\ Typed(binlog', Append(log, tx))
       /\ LogInv(binlog', Append(log, tx)) /\ Numbered(Append(log, tx), rowEvents + m)
       /\ BinlogNames(N, binlog', nextId - 1)
  <2>1. Longer(binlog, l, b, s2, binlog') BY <1>1, <1>8, <1>9 DEF Longer
  <2> QED BY <1>2, <1>8, <1>10, <1>11, <1>13, <1>14, <2>1, GroupAdded
<1>16. rowEvents' \in Nat BY <1>2, <1>3, <1>9
<1>17. MasterNames(N)' BY <1>15 DEF MasterInv, MasterNames
<1>18. MasterTypes' BY <1>12, <1>15, <1>16 DEF MasterTypes, MasterInv, Typed
<1> QED BY <1>2, <1>9, <1>12, <1>15, <1>17, <1>18 DEF Grown

LEMMA NeutralAdded ==
    ASSUME NEW bl, NEW lg, Typed(bl, lg), LogInv(bl, lg), NEW N, NEW top, BinlogNames(N, bl, top),
           NEW l, NEW b, NEW s, NEW bl2, Longer(bl, l, b, s, bl2),
           \A i \in b + 1 .. Len(s) : s[i] \in {[kind |-> "ignored"], query(<<"create">>),
               query(<<"alter">>)}
    PROVE  Extends(bl, bl2) /\ LogInv(bl2, lg) /\ Typed(bl2, lg) /\ BinlogNames(N, bl2, top)
<1>1. l = Len(bl) BY DEF Longer
<1>2. /\ Extends(bl, bl2) /\ Len(bl2) = l
      /\ \A f \in 1 .. l : \A i \in 1 .. Len(bl2[f]) :
            \/ i \in 1 .. Len(bl[f]) /\ bl2[f][i] = bl[f][i]
            \/ f = l /\ i \in b + 1 .. Len(s) /\ bl2[f][i] = s[i]
  BY LastFileWritten
<1>3. ASSUME NEW f \in 1 .. Len(bl2), NEW i \in 1 .. Len(bl2[f])
      PROVE  \/ i \in 1 .. Len(bl[f]) /\ bl2[f][i] = bl[f][i]
             \/ bl2[f][i] \in {[kind |-> "ignored"], query(<<"create">>), query(<<"alter">>)}
  BY <1>2
<1>4. LogInv(bl2, lg)
  <2>1. \A f \in 1 .. Len(bl2) : \A i \in 1 .. Len(bl2[f]) :
            Neutral(bl2, f, i) \/ (f \in 1 .. Len(bl) /\ i \in 1 .. Len(bl[f]))
    BY <1>1, <1>2, <1>3 DEF Neutral
  <2> QED BY <1>2, <2>1, NeutralWritten
<1>5. BinlogNames(N, bl2, top)
  <2>1. ASSUME NEW f \in 1 .. Len(bl2), NEW i \in 1 .. Len(bl2[f]), bl2[f][i].kind = "tablemap"
        PROVE  bl2[f][i].id \in 1 .. top /\ N[bl2[f][i].id] = bl2[f][i].def.name
    <3>1. bl2[f][i] \notin {[kind |-> "ignored"], query(<<"create">>), query(<<"alter">>)}
      BY <2>1 DEF query
    <3>2. i \in 1 .. Len(bl[f]) /\ bl2[f][i] = bl[f][i] BY <1>3, <3>1
    <3> QED BY <1>1, <1>2, <2>1, <3>2 DEF BinlogNames
  <2> QED BY <2>1 DEF BinlogNames
<1>6. Typed(bl2, lg)
  BY <1>1, <1>2, TypedFacts DEF Typed, Extends
<1> QED BY <1>2, <1>4, <1>5, <1>6

LEMMA ExtendsTwice ==
    ASSUME NEW bl, NEW lg, Typed(bl, lg), NEW bl2, Extends(bl, bl2), NEW bl3, Extends(bl2, bl3)
    PROVE  Extends(bl, bl3)
<1>1. Typed(bl2, lg) BY TypedFacts DEF Typed, Extends
<1>2. Len(bl) \in Nat /\ Len(bl2) \in Nat /\ Len(bl3) \in Nat /\ Len(bl) <= Len(bl3)
      /\ bl3 \in Seq(Seq(BinlogEvent))
  BY <1>1, TypedFacts DEF Extends
<1>3. ASSUME NEW f \in 1 .. Len(bl)
      PROVE  /\ Len(bl[f]) <= Len(bl3[f])
             /\ \A i \in 1 .. Len(bl[f]) : bl3[f][i] = bl[f][i]
             /\ f < Len(bl) => bl3[f] = bl[f]
  <2>1. /\ Len(bl) <= Len(bl2) /\ f \in 1 .. Len(bl2)
        /\ Len(bl[f]) \in Nat /\ Len(bl2[f]) \in Nat /\ Len(bl[f]) <= Len(bl2[f])
        /\ \A i \in 1 .. Len(bl[f]) : bl2[f][i] = bl[f][i]
        /\ f < Len(bl) => bl2[f] = bl[f]
    BY ExtendsFacts
  <2>2. /\ Len(bl3[f]) \in Nat /\ Len(bl2[f]) <= Len(bl3[f])
        /\ \A i \in 1 .. Len(bl2[f]) : bl3[f][i] = bl2[f][i]
        /\ f < Len(bl2) => bl3[f] = bl2[f]
    BY <1>1, <2>1, ExtendsFacts
  <2> QED BY <1>2, <2>1, <2>2
<1> QED BY <1>2, <1>3 DEF Extends

LEMMA FlushAdded ==
    ASSUME NEW bl, NEW lg, Typed(bl, lg), LogInv(bl, lg), NEW N, NEW top, BinlogNames(N, bl, top),
           NEW l, NEW b, NEW s, NEW mid, Longer(bl, l, b, s, mid), Len(s) = b + 1,
           s[b + 1] = [kind |-> "rotate", to |-> [file |-> l + 1, off |-> 0]],
           NEW bl2, bl2 = Append(mid, <<>>)
    PROVE  Extends(bl, bl2) /\ LogInv(bl2, lg) /\ Typed(bl2, lg) /\ BinlogNames(N, bl2, top)
<1>1. l = Len(bl) /\ b = Len(bl[l]) BY DEF Longer
<1>2. /\ Extends(bl, mid) /\ Len(mid) = l /\ mid[l] = s
      /\ \A f \in 1 .. l : \A i \in 1 .. Len(mid[f]) :
            \/ i \in 1 .. Len(bl[f]) /\ mid[f][i] = bl[f][i]
            \/ f = l /\ i \in b + 1 .. Len(s) /\ mid[f][i] = s[i]
  BY LastFileWritten
<1>3. Typed(mid, lg) BY <1>1, <1>2, TypedFacts DEF Typed, Extends
<1>4. /\ Extends(mid, bl2) /\ Len(bl2) = l + 1 /\ bl2[l + 1] = <<>>
      /\ \A f \in 1 .. l : bl2[f] = mid[f]
  <2>1. /\ Extends(mid, bl2) /\ Len(bl2) = Len(mid) + 1 /\ bl2[Len(bl2)] = <<>>
        /\ \A f \in 1 .. Len(mid) : bl2[f] = mid[f]
    BY <1>3, FileBegun
  <2> QED BY <1>2, <2>1
<1>5. Extends(bl, bl2) BY <1>2, <1>4, ExtendsTwice
<1>6. l \in Nat \ {0} /\ b \in Nat BY <1>1, TypedFacts
<1>7. ASSUME NEW f \in 1 .. Len(bl2), NEW i \in 1 .. Len(bl2[f])
      PROVE  \/ f \in 1 .. l /\ i \in 1 .. Len(bl[f]) /\ bl2[f][i] = bl[f][i]
             \/ /\ f = l /\ i = Len(bl2[f])
                /\ bl2[f][i] = [kind |-> "rotate", to |-> [file |-> l + 1, off |-> 0]]
  <2>1. f \in 1 .. l
    <3>1. f # l + 1 BY <1>4, <1>6
    <3> QED BY <1>4, <1>6, <3>1
  <2>2. bl2[f] = mid[f] BY <1>4, <2>1
  <2>3. CASE f = l /\ i \in b + 1 .. Len(s)
    BY <1>2, <1>4, <1>6, <2>2, <2>3
  <2> QED BY <1>2, <2>1, <2>2, <2>3
<1>8. LogInv(bl2, lg)
  <2>1. \A f \in 1 .. Len(bl2) : \A i \in 1 .. Len(bl2[f]) :
            Neutral(bl2, f, i) \/ (f \in 1 .. Len(bl) /\ i \in 1 .. Len(bl[f]))
    BY <1>1, <1>4, <1>6, <1>7 DEF Neutral
  <2> QED BY <1>5, <2>1, NeutralWritten
<1>9. BinlogNames(N, bl2, top)
  <2>1. ASSUME NEW f \in 1 .. Len(bl2), NEW i \in 1 .. Len(bl2[f]), bl2[f][i].kind = "tablemap"
        PROVE  bl2[f][i].id \in 1 .. top /\ N[bl2[f][i].id] = bl2[f][i].def.name
    <3>1. f \in 1 .. l /\ i \in 1 .. Len(bl[f]) /\ bl2[f][i] = bl[f][i]
      BY <1>7, <2>1
    <3> QED BY <1>1, <2>1, <3>1 DEF BinlogNames
  <2> QED BY <2>1 DEF BinlogNames
<1>10. Typed(bl2, lg)
  BY <1>4, <1>5, <1>6 DEF Typed, Extends
<1> QED BY <1>5, <1>8, <1>9, <1>10

LEMMA FileAdded ==
    ASSUME NEW bl, NEW lg, Typed(bl, lg), LogInv(bl, lg), NEW N, NEW top, BinlogNames(N, bl, top),
           NEW bl2, bl2 = Append(bl, <<>>)
    PROVE  Extends(bl, bl2) /\ LogInv(bl2, lg) /\ Typed(bl2, lg) /\ BinlogNames(N, bl2, top)
<1>1. /\ Extends(bl, bl2) /\ Len(bl2) = Len(bl) + 1 /\ bl2[Len(bl2)] = <<>>
      /\ \A f \in 1 .. Len(bl) : bl2[f] = bl[f]
  BY FileBegun
<1>2. Len(bl) \in Nat BY TypedFacts
<1>3. ASSUME NEW f \in 1 .. Len(bl2), NEW i \in 1 .. Len(bl2[f])
      PROVE  f \in 1 .. Len(bl) /\ bl2[f] = bl[f]
  <2>1. f # Len(bl2) BY <1>1
  <2> QED BY <1>1, <1>2, <2>1
<1>4. LogInv(bl2, lg)
  <2>1. \A f \in 1 .. Len(bl2) : \A i \in 1 .. Len(bl2[f]) :
            Neutral(bl2, f, i) \/ (f \in 1 .. Len(bl) /\ i \in 1 .. Len(bl[f]))
    BY <1>3
  <2> QED BY <1>1, <2>1, NeutralWritten
<1>5. BinlogNames(N, bl2, top) BY <1>3 DEF BinlogNames
<1> QED BY <1>1, <1>2, <1>4, <1>5 DEF Typed, Extends

(* The events of a binlog by their kinds.                                  *)
LEMMA Kinds ==
    ASSUME NEW e \in BinlogEvent
    PROVE  /\ e.kind = "tablemap" => e.id \in TableIds /\ e.def \in TableDef
           /\ e.kind = "rows" => e.op \in Operations /\ e.id \in TableIds /\ e.row \in Nat
                 /\ e.of \in TableDef
BY DEF BinlogEvent, TableMapEvents, RowsEvents, QueryEvents, OtherEvents

KnownNames(N, N2) == \A id \in TableIds : id \in 1 .. nextId - 1 => N2[id] = N[id]

LEMMA OpenStep ==
    ASSUME NEW N \in Names, MasterInv(N), NEW t \in TableNames, OpenTable(t)
    PROVE  \E N2 \in Names : Grown(N2) /\ KnownNames(N, N2)
<1>0. PICK N2 : N2 = [N EXCEPT ![nextId] = t] OBVIOUS
<1>1. /\ nextId \in TableIds /\ nextId \in Nat /\ ids' = [ids EXCEPT ![t] = nextId]
      /\ nextId' = nextId + 1
      /\ ids \in [TableNames -> TableIds \cup {0}]
      /\ UNCHANGED <<binlog, log, cols, rowEvents, prepared, groups>>
  BY DEF OpenTable, MasterInv, MasterTypes
<1>2. N2 \in Names BY <1>0, <1>1 DEF Names
<1>3. \A id \in TableIds : id # nextId => N2[id] = N[id]
  BY <1>0 DEF Names
<1>4. N2[nextId] = t BY <1>0, <1>1 DEF Names
<1>5. KnownNames(N, N2) BY <1>1, <1>3 DEF KnownNames
<1>6. BinlogNames(N2, binlog, nextId)
  <2>1. ASSUME NEW f \in 1 .. Len(binlog), NEW i \in 1 .. Len(binlog[f]),
               binlog[f][i].kind = "tablemap"
        PROVE  binlog[f][i].id \in 1 .. nextId /\ N2[binlog[f][i].id] = binlog[f][i].def.name
    <3>1. PICK e : e = binlog[f][i] OBVIOUS
    <3>2. e \in BinlogEvent
      <4>1. binlog[f] \in Seq(BinlogEvent) BY DEF MasterInv, MasterTypes
      <4> QED BY <3>1, <4>1
    <3>3. e.id \in TableIds BY <2>1, <3>1, <3>2, Kinds
    <3>4. e.id \in 1 .. nextId - 1 /\ N[e.id] = e.def.name
      BY <2>1, <3>1 DEF MasterInv, MasterNames, BinlogNames
    <3>5. e.id # nextId /\ e.id \in 1 .. nextId BY <1>1, <3>4
    <3> QED BY <1>3, <3>1, <3>3, <3>4, <3>5
  <2> QED BY <2>1 DEF BinlogNames
<1>7. ASSUME NEW u \in TableNames, ids'[u] # 0
      PROVE  ids'[u] \in TableIds /\ ids'[u] \in 1 .. nextId /\ N2[ids'[u]] = u
  <2>1. CASE u = t
    <3>1. ids'[u] = nextId BY <1>1, <2>1
    <3>2. nextId \in 1 .. nextId
      BY <1>1, <1>7, <3>1
    <3> QED BY <1>1, <1>4, <2>1, <3>1, <3>2
  <2>2. CASE u # t
    <3>1. ids'[u] = ids[u] BY <1>1, <2>2
    <3>2. ids[u] \in TableIds /\ ids[u] \in 1 .. nextId - 1 /\ N[ids[u]] = u
      BY <1>7, <3>1 DEF MasterInv, MasterNames
    <3>3. ids[u] # nextId /\ ids[u] \in 1 .. nextId BY <1>1, <3>2
    <3> QED BY <1>3, <3>1, <3>2, <3>3
  <2> QED BY <2>1, <2>2
<1>8. MasterNames(N2)'
  <2>1. nextId' - 1 = nextId BY <1>1
  <2>2. BinlogNames(N2, binlog', nextId' - 1) BY <1>1, <1>6, <2>1
  <2>3. \A u \in TableNames :
            ids'[u] # 0 => ids'[u] \in TableIds /\ ids'[u] \in 1 .. nextId' - 1 /\ N2[ids'[u]] = u
    BY <1>7, <2>1
  <2> QED BY <2>2, <2>3 DEF MasterNames
<1>9. MasterTypes'
  BY <1>1 DEF MasterTypes, MasterInv
<1>10. Extends(binlog, binlog)
  <2>1. binlog \in Seq(Seq(BinlogEvent)) BY DEF MasterInv, MasterTypes
  <2>2. \A f \in 1 .. Len(binlog) : Len(binlog[f]) \in Nat
    BY TypedFacts DEF MasterInv, MasterTypes, Typed
  <2> QED BY <2>1, <2>2 DEF Extends
<1>11. Grown(N2)
  BY <1>1, <1>8, <1>9, <1>10 DEF Grown, MasterInv
<1> QED BY <1>2, <1>5, <1>11

(* A step that writes no transaction.                                      *)
LEMMA QuietStep ==
    ASSUME NEW N, MasterInv(N), Extends(binlog, binlog'), LogInv(binlog', log), Typed(binlog', log),
           BinlogNames(N, binlog', nextId - 1),
           ids' \in [TableNames -> TableIds \cup {0}],
           \A t \in TableNames : ids'[t] \in {0, ids[t]},
           cols' \in [TableNames -> Layout], UNCHANGED <<log, nextId, rowEvents, prepared>>
    PROVE  Grown(N)
<1>1. MasterTypes' BY DEF MasterTypes, MasterInv, Typed
<1>2. \A t \in TableNames :
          ids'[t] # 0 => ids'[t] \in TableIds /\ ids'[t] \in 1 .. nextId - 1 /\ N[ids'[t]] = t
  BY DEF MasterInv, MasterNames
<1>3. MasterNames(N)' BY <1>2 DEF MasterNames
<1>4. nextId <= nextId' BY DEF MasterInv, MasterTypes
<1> QED BY <1>1, <1>3, <1>4 DEF Grown, MasterInv

LEMMA TextStep ==
    ASSUME NEW N, MasterInv(N), NEW events \in Seq(BinlogEvent), Write(events, <<>>),
           \A i \in 1 .. Len(events) :
               events[i] \in {[kind |-> "ignored"], query(<<"create">>), query(<<"alter">>)},
           ids' \in [TableNames -> TableIds \cup {0}],
           \A t \in TableNames : ids'[t] \in {0, ids[t]},
           cols' \in [TableNames -> Layout], UNCHANGED <<log, nextId, prepared>>
    PROVE  Grown(N)
<1>1. PICK l, s, b, s2 : l = Len(binlog) /\ s = binlog[l] /\ b = Len(s) /\ s2 = s \o events
  OBVIOUS
<1>2. Typed(binlog, log) /\ l \in 1 .. l /\ s \in Seq(BinlogEvent) /\ b \in Nat /\ rowEvents \in Nat
  BY <1>1, TypedFacts DEF MasterInv, MasterTypes, Typed
<1>3. /\ s2 \in Seq(BinlogEvent) /\ Len(s2) = b + Len(events)
      /\ \A i \in 1 .. b : s2[i] = s[i]
      /\ \A i \in 1 .. Len(events) : s2[b + i] = events[i]
  <2>1. /\ s \o events \in Seq(BinlogEvent) /\ Len(s \o events) = Len(s) + Len(events)
        /\ \A i \in 1 .. Len(s) : (s \o events)[i] = s[i]
        /\ \A i \in 1 .. Len(events) : (s \o events)[Len(s) + i] = events[i]
    BY <1>2, Joined
  <2> QED BY <1>1, <2>1, Zenon
<1>4. Len(events) \in Nat OBVIOUS
<1>5. b <= Len(s2) BY <1>2, <1>3, <1>4
<1>6. binlog' = [binlog EXCEPT ![l] = s2] BY <1>1 DEF Write, LastFile
<1>7. Longer(binlog, l, b, s2, binlog') BY <1>1, <1>3, <1>5, <1>6 DEF Longer
<1>8. \A i \in b + 1 .. Len(s2) :
          s2[i] \in {[kind |-> "ignored"], query(<<"create">>), query(<<"alter">>)}
  <2> TAKE i \in b + 1 .. Len(s2)
  <2>1. i - b \in 1 .. Len(events) /\ b + (i - b) = i BY <1>2, <1>3, <1>4
  <2>2. s2[i] = events[i - b] BY <1>3, <2>1
  <2> QED BY <2>1, <2>2
<1>9. LogInv(binlog, log) /\ BinlogNames(N, binlog, nextId - 1) BY DEF MasterInv, MasterNames
<1>10. /\ Extends(binlog, binlog') /\ LogInv(binlog', log) /\ Typed(binlog', log)
       /\ BinlogNames(N, binlog', nextId - 1)
  BY <1>2, <1>7, <1>8, <1>9, NeutralAdded
<1>11. rowEvents' = rowEvents BY <1>2 DEF Write
<1> QED BY <1>10, <1>11, QuietStep

LEMMA FlushStep ==
    ASSUME NEW N, MasterInv(N), FlushLogs
    PROVE  Grown(N)
<1>1. PICK l, s, b, e : /\ l = Len(binlog) /\ s = binlog[l] /\ b = Len(s)
                        /\ e = [kind |-> "rotate", to |-> [file |-> l + 1, off |-> 0]]
  OBVIOUS
<1>2. /\ Typed(binlog, log) /\ l \in Nat /\ l \in 1 .. l /\ s \in Seq(BinlogEvent) /\ b \in Nat
      /\ ids \in [TableNames -> TableIds \cup {0}] /\ cols \in [TableNames -> Layout]
  BY <1>1, TypedFacts DEF MasterInv, MasterTypes, Typed
<1>3. e \in BinlogEvent
  <2>1. [file |-> l + 1, off |-> 0] \in Place BY <1>2 DEF Place
  <2> QED BY <1>1, <2>1 DEF BinlogEvent, OtherEvents
<1>4. PICK s2 : s2 = Append(s, e) OBVIOUS
<1>5. s2 \in Seq(BinlogEvent) /\ Len(s2) = b + 1 /\ s2[b + 1] = e /\ \A i \in 1 .. b : s2[i] = s[i]
  BY <1>1, <1>2, <1>3, <1>4, Appended
<1>6. PICK mid : mid = [binlog EXCEPT ![l] = s2] OBVIOUS
<1>7. Longer(binlog, l, b, s2, mid) BY <1>1, <1>2, <1>5, <1>6 DEF Longer
<1>8. binlog' = Append(mid, <<>>) /\ UNCHANGED <<log, ids, nextId, cols, rowEvents, prepared,
          groups>>
  BY <1>1, <1>4, <1>6 DEF FlushLogs, LastFile
<1>9. LogInv(binlog, log) /\ BinlogNames(N, binlog, nextId - 1) BY DEF MasterInv, MasterNames
<1>10. s2[b + 1] = [kind |-> "rotate", to |-> [file |-> l + 1, off |-> 0]] BY <1>1, <1>5
<1>11. /\ Extends(binlog, binlog') /\ LogInv(binlog', log) /\ Typed(binlog', log)
       /\ BinlogNames(N, binlog', nextId - 1)
  BY <1>2, <1>5, <1>7, <1>8, <1>9, <1>10, FlushAdded
<1> QED BY <1>2, <1>8, <1>11, QuietStep

LEMMA RestartStep ==
    ASSUME Plain, NEW N, MasterInv(N), MasterRestart
    PROVE  Grown(N)
<1>1. /\ binlog' = Append(binlog, <<>>) /\ ids' = [t \in TableNames |-> 0] /\ nextId' = nextId
      /\ UNCHANGED <<log, cols, rowEvents, prepared, groups>>
  BY DEF MasterRestart, Plain
<1>2. Typed(binlog, log) /\ cols \in [TableNames -> Layout]
  BY DEF MasterInv, MasterTypes, Typed
<1>3. LogInv(binlog, log) /\ BinlogNames(N, binlog, nextId - 1) BY DEF MasterInv, MasterNames
<1>4. /\ Extends(binlog, binlog') /\ LogInv(binlog', log) /\ Typed(binlog', log)
      /\ BinlogNames(N, binlog', nextId - 1)
  BY <1>1, <1>2, <1>3, FileAdded
<1>5. ids' \in [TableNames -> TableIds \cup {0}] /\ \A t \in TableNames : ids'[t] \in {0, ids[t]}
  BY <1>1
<1> QED BY <1>1, <1>2, <1>4, <1>5, QuietStep

LEMMA MasterStep ==
    ASSUME Plain, NEW N \in Names, MasterInv(N), Master \/ Restart
    PROVE  \E N2 \in Names : Grown(N2) /\ KnownNames(N, N2)
<1>1. KnownNames(N, N) BY DEF KnownNames
<1>2. /\ ids \in [TableNames -> TableIds \cup {0}] /\ cols \in [TableNames -> Layout]
      /\ prepared = <<>>
  BY DEF MasterInv, MasterTypes
<1>3. /\ [kind |-> "ignored"] \in BinlogEvent /\ query(<<"create">>) \in BinlogEvent
      /\ query(<<"alter">>) \in BinlogEvent
  BY DEF query, BinlogEvent, OtherEvents, QueryEvents
<1>4. ASSUME NEW t \in TableNames, OpenTable(t)
      PROVE  \E N2 \in Names : Grown(N2) /\ KnownNames(N, N2)
  BY <1>4, OpenStep
<1>5. ASSUME NEW changes \in Changes,
             CommitGroup(changes, [kind |-> "xid"]) \/ CommitGroup(changes, query(<<"commit">>))
      PROVE  Grown(N)
  <2>1. PICK last \in {[kind |-> "xid"], query(<<"commit">>)} : CommitGroup(changes, last) BY <1>5
  <2>2. last # query(<<"rollback">>) BY DEF query
  <2>3. PICK rows : rows = IF last = query(<<"rollback">>) THEN <<>> ELSE RowChanges(changes)
    OBVIOUS
  <2>4. /\ Writable(changes) /\ LogTransaction(rows) /\ UNCHANGED <<ids, nextId, cols, prepared>>
        /\ Write(<<query(<<"begin">>)>> \o ChangeEvents(changes) \o <<last>>, changes)
    BY <2>1, <2>2, <2>3 DEF CommitGroup
  <2> QED BY <2>3, <2>4, GroupStep
<1>6. ASSUME NEW changes \in Changes, RollbackGroup(changes) PROVE Grown(N)
  <2>1. PICK last, rows : /\ last = query(<<"rollback">>)
                          /\ rows = IF last = query(<<"rollback">>) THEN <<>>
                                ELSE RowChanges(changes)
    OBVIOUS
  <2>2. /\ Writable(changes) /\ LogTransaction(rows) /\ UNCHANGED <<ids, nextId, cols, prepared>>
        /\ Write(<<query(<<"begin">>)>> \o ChangeEvents(changes) \o <<last>>, changes)
    BY <1>6, <2>1 DEF RollbackGroup
  <2> QED BY <2>1, <2>2, GroupStep
<1>7. CASE DDLGroup
  <2>1. PICK events : events = <<[kind |-> "ignored"], query(<<"create">>)>> OBVIOUS
  <2>2. /\ events \in Seq(BinlogEvent) /\ Len(events) = 2
        /\ events[1] = [kind |-> "ignored"] /\ events[2] = query(<<"create">>)
    BY <1>3, <2>1
  <2>3. \A i \in 1 .. Len(events) :
            events[i] \in {[kind |-> "ignored"], query(<<"create">>), query(<<"alter">>)}
    BY <2>2
  <2>4. Write(events, <<>>) /\ UNCHANGED <<log, ids, nextId, cols, prepared>>
    BY <1>7, <2>1 DEF DDLGroup
  <2>5. Grown(N) BY <1>2, <2>2, <2>3, <2>4, TextStep
  <2> QED BY <1>1, <2>5
<1>8. ASSUME NEW t \in TableNames, NEW n \in ColumnCounts, AlterGroup(t, n) PROVE Grown(N)
  <2>1. PICK events : events = <<query(<<"alter">>)>> OBVIOUS
  <2>2. events \in Seq(BinlogEvent) /\ Len(events) = 1 /\ events[1] = query(<<"alter">>)
    BY <1>3, <2>1
  <2>3. \A i \in 1 .. Len(events) :
            events[i] \in {[kind |-> "ignored"], query(<<"create">>), query(<<"alter">>)}
    BY <2>2
  <2>4. /\ Write(events, <<>>) /\ UNCHANGED <<log, nextId, prepared>>
        /\ cols' = [cols EXCEPT ![t] = [count |-> n, version |-> cols[t].version + 1]]
        /\ cols[t].version + 1 \in Versions /\ ids' = [ids EXCEPT ![t] = 0]
    BY <1>8, <2>1 DEF AlterGroup
  <2>5. /\ ids' \in [TableNames -> TableIds \cup {0}]
        /\ \A u \in TableNames : ids'[u] \in {0, ids[u]}
        /\ cols' \in [TableNames -> Layout]
    BY <1>2, <2>4 DEF Layout
  <2> QED BY <2>2, <2>3, <2>4, <2>5, TextStep
<1>9. CASE Restart BY <1>1, <1>9, RestartStep DEF Restart
<1>10. ASSUME Master, ~Restart PROVE \E N2 \in Names : Grown(N2) /\ KnownNames(N, N2)
  <2>1. \A changes \in Changes : ~SavepointGroup(changes) /\ ~XAPrepareGroup(changes)
    BY DEF Plain, SavepointGroup, XAPrepareGroup
  <2>2. \A decision \in {"commit", "rollback"} : ~XADecideGroup(decision)
    BY <1>2 DEF XADecideGroup
  <2>3. FlushLogs => Grown(N) BY FlushStep
  <2> QED BY <1>1, <1>4, <1>5, <1>6, <1>7, <1>8, <1>10, <2>1, <2>2, <2>3 DEF Master
<1> QED BY <1>9, <1>10

-----------------------------------------------------------------------------
(* Positions between the transactions of a binlog.                         *)

LEMMA LogFacts ==
    ASSUME NEW bl, NEW lg, Typed(bl, lg), LogInv(bl, lg), NEW k \in 1 .. Len(lg)
    PROVE  \E f \in 1 .. Len(bl), b \in Nat, n \in Nat :
              /\ lg[k].begin = [file |-> f, off |-> b]
              /\ lg[k].end = [file |-> f, off |-> b + 2 * n + 2]
              /\ b + 2 * n + 2 <= Len(bl[f]) /\ GroupAt(bl[f], b, n, lg[k].rows)
<1>1. PICK n \in Nat : IsGroup(bl, lg[k], n) BY DEF LogInv
<1>2. lg[k].begin \in Place BY TypedFacts
<1>3. PICK f, b : f = lg[k].begin.file /\ b = lg[k].begin.off
               /\ lg[k].begin = [file |-> f, off |-> b]
                 /\ b \in Nat
  BY <1>2 DEF Place
<1>4. /\ f \in 1 .. Len(bl) /\ lg[k].end = [file |-> f, off |-> b + 2 * n + 2]
      /\ GroupAt(bl[f], b, n, lg[k].rows)
  BY <1>1, <1>3 DEF IsGroup
<1>5. b + 2 * n + 2 <= Len(bl[f]) BY <1>4 DEF GroupAt
<1> QED BY <1>3, <1>4, <1>5

LEMMA NextEvent ==
    ASSUME NEW bl, NEW lg, Typed(bl, lg), LogInv(bl, lg), NEW m \in 0 .. Len(lg),
           NEW p \in Place, Between(bl, lg, m, p), p.file \in 1 .. Len(bl), p.off < Len(bl[p.file])
    PROVE  \/ Neutral(bl, p.file, p.off + 1)
           \/ m < Len(lg) /\ lg[m + 1].begin = p /\ bl[p.file][p.off + 1] = query(<<"begin">>)
<1>1. PICK f, o : f = p.file /\ o = p.off /\ p = [file |-> f, off |-> o] /\ f \in Nat /\ o \in Nat
  BY DEF Place
<1>2. Len(bl[f]) \in Nat /\ o + 1 \in 1 .. Len(bl[f]) /\ f \in 1 .. Len(bl) /\ Len(lg) \in Nat
  BY <1>1, TypedFacts
<1>3. CASE ~Neutral(bl, f, o + 1)
  <2>1. PICK k \in 1 .. Len(lg) : Contains(lg[k], f, o + 1) BY <1>2, <1>3 DEF LogInv
  <2>2. PICK g \in 1 .. Len(bl), b \in Nat, n \in Nat :
              /\ lg[k].begin = [file |-> g, off |-> b]
              /\ lg[k].end = [file |-> g, off |-> b + 2 * n + 2]
              /\ b + 2 * n + 2 <= Len(bl[g]) /\ GroupAt(bl[g], b, n, lg[k].rows)
    BY LogFacts
  <2>4. g = f /\ b < o + 1 /\ o + 1 <= b + 2 * n + 2
    BY <2>1, <2>2 DEF Contains
  <2>5. k > m
    <3>1. ASSUME k <= m PROVE FALSE
      <4>1. AtOrBefore(lg[k].end, p) BY <3>1 DEF Between
      <4> QED BY <1>1, <2>2, <2>4, <4>1 DEF AtOrBefore
    <3> QED BY <3>1
  <2>6. lg[k].begin = p
    <3>1. AtOrBefore(p, lg[k].begin) BY <2>5 DEF Between
    <3>2. b = o BY <1>1, <2>2, <2>4, <3>1 DEF AtOrBefore
    <3> QED BY <1>1, <2>2, <2>4, <3>2
  <2>7. k = m + 1
    <3>1. ASSUME k # m + 1 PROVE FALSE
      <4>1. PICK j \in 1 .. Len(lg) : j = m + 1 /\ j < k BY <1>2, <2>5, <3>1
      <4>2. PICK g1 \in 1 .. Len(bl), b1 \in Nat, n1 \in Nat :
                  /\ lg[j].begin = [file |-> g1, off |-> b1]
                  /\ lg[j].end = [file |-> g1, off |-> b1 + 2 * n1 + 2]
                  /\ b1 + 2 * n1 + 2 <= Len(bl[g1]) /\ GroupAt(bl[g1], b1, n1, lg[j].rows)
        BY <4>1, LogFacts
      <4>3. AtOrBefore(p, lg[j].begin) BY <1>2, <4>1 DEF Between
      <4>4. AtOrBefore(lg[j].end, lg[k].begin) BY <4>1 DEF LogInv
      <4>5. f < g1 \/ (f = g1 /\ o <= b1) BY <1>1, <4>2, <4>3 DEF AtOrBefore
      <4>6. g1 < f \/ (g1 = f /\ b1 + 2 * n1 + 2 <= o) BY <1>1, <2>6, <4>2, <4>4 DEF AtOrBefore
      <4>7. f \in Nat /\ o \in Nat /\ g1 \in Nat BY <1>1, <1>2, <4>2
      <4> QED BY <4>2, <4>5, <4>6, <4>7
    <3> QED BY <3>1
  <2>8. bl[f][o + 1] = query(<<"begin">>)
    <3>1. GroupAt(bl[f], o, n, lg[k].rows) BY <1>1, <2>2, <2>4, <2>6
    <3> QED BY <3>1 DEF GroupAt
  <2> QED BY <1>1, <1>2, <2>5, <2>6, <2>7, <2>8
<1> QED BY <1>1, <1>3

LEMMA BehindNeutral ==
    ASSUME NEW bl, NEW lg, Typed(bl, lg), LogInv(bl, lg), NEW m \in 0 .. Len(lg),
           NEW p \in Place, Between(bl, lg, m, p), p.file \in 1 .. Len(bl), p.off < Len(bl[p.file]),
           Neutral(bl, p.file, p.off + 1)
    PROVE  Between(bl, lg, m, [file |-> p.file, off |-> p.off + 1])
<1>1. PICK f, o : f = p.file /\ o = p.off /\ p = [file |-> f, off |-> o] /\ f \in Nat /\ o \in Nat
  BY DEF Place
<1>2. PICK q : q = [file |-> f, off |-> o + 1] OBVIOUS
<1>3. Len(bl[f]) \in Nat /\ f \in 1 .. Len(bl) /\ Len(lg) \in Nat /\ Len(bl) \in Nat
          /\ o + 1 <= Len(bl[f])
  BY <1>1, TypedFacts
<1>4. q.file = f /\ q.off = o + 1 /\ AtOrBefore(p, q) /\ q \in Place
  BY <1>1, <1>2 DEF AtOrBefore, Place
<1>5. ASSUME NEW k \in 1 .. m PROVE AtOrBefore(lg[k].end, q)
  <2>1. lg[k].end \in Place /\ AtOrBefore(lg[k].end, p) BY <1>3, TypedFacts DEF Between
  <2> QED BY <1>4, <2>1, InOrder
<1>6. ASSUME NEW k \in m + 1 .. Len(lg) PROVE AtOrBefore(q, lg[k].begin)
  <2>1. AtOrBefore(p, lg[k].begin) BY DEF Between
  <2>2. k \in 1 .. Len(lg) BY <1>3
  <2>3. lg[k] \in Logged /\ lg[k].begin \in Place BY <2>2, TypedFacts
  <2>4. PICK n \in Nat : IsGroup(bl, lg[k], n) BY <2>2 DEF LogInv
  <2>5. lg[k].begin # p
    <3>1. ASSUME lg[k].begin = p PROVE FALSE
      <4>1. GroupAt(bl[f], o, n, lg[k].rows) BY <1>1, <2>4, <3>1 DEF IsGroup
      <4>2. PICK e : e = bl[f][o + 1] OBVIOUS
      <4>3. e = query(<<"begin">>) BY <4>1, <4>2 DEF GroupAt
      <4>4. e # query(<<"begin">>)
        <5>1. \/ e \in {[kind |-> "ignored"], query(<<"create">>), query(<<"alter">>)}
              \/ e = [kind |-> "rotate", to |-> [file |-> f + 1, off |-> 0]]
          BY <1>1, <4>2 DEF Neutral
        <5>2. \A x : query(x).kind = "query" /\ query(x).sql = x BY DEF query
        <5>3. <<"begin">> # <<"create">> /\ <<"begin">> # <<"alter">> OBVIOUS
        <5>4. CASE e = query(<<"create">>) \/ e = query(<<"alter">>) BY <5>2, <5>3, <5>4
        <5>5. CASE e = [kind |-> "ignored"] BY <5>2, <5>5
        <5>6. CASE e = [kind |-> "rotate", to |-> [file |-> f + 1, off |-> 0]] BY <5>2, <5>6
        <5> QED BY <5>1, <5>4, <5>5, <5>6
      <4> QED BY <4>3, <4>4
    <3> QED BY <3>1
  <2>6. PICK g, h : g = lg[k].begin.file /\ h = lg[k].begin.off
                 /\ lg[k].begin = [file |-> g, off |-> h]
                    /\ g \in Nat /\ h \in Nat
    BY <2>3 DEF Place
  <2>7. f < g \/ (f = g /\ o + 1 <= h)
    <3>1. f < g \/ (f = g /\ o <= h) BY <1>1, <2>1, <2>6 DEF AtOrBefore
    <3>2. ~(f = g /\ o = h) BY <1>1, <2>5, <2>6
    <3> QED BY <1>1, <2>6, <3>1, <3>2
  <2> QED BY <1>4, <2>6, <2>7 DEF AtOrBefore
<1>7. AtOrBefore(q, EndOf(bl))
  BY <1>3, <1>4 DEF AtOrBefore, EndOf
<1>8. Between(bl, lg, m, q)
  BY <1>5, <1>6, <1>7 DEF Between
<1> QED BY <1>1, <1>2, <1>8

LEMMA NextFileBetween ==
    ASSUME NEW bl, NEW lg, Typed(bl, lg), LogInv(bl, lg), NEW m \in 0 .. Len(lg),
           NEW f \in 1 .. Len(bl), f < Len(bl), Between(bl, lg, m, [file |-> f, off |-> Len(bl[f])])
    PROVE  Between(bl, lg, m, [file |-> f + 1, off |-> 0])
<1>1. PICK p, q : p = [file |-> f, off |-> Len(bl[f])] /\ q = [file |-> f + 1, off |-> 0] OBVIOUS
<1>2. Len(bl[f]) \in Nat /\ Len(lg) \in Nat /\ Len(bl) \in Nat /\ f \in Nat
          /\ Len(bl[Len(bl)]) \in Nat
  BY TypedFacts
<1>3. /\ p.file = f /\ p.off = Len(bl[f]) /\ q.file = f + 1 /\ q.off = 0
      /\ p \in Place /\ q \in Place /\ AtOrBefore(p, q) /\ Between(bl, lg, m, p)
  BY <1>1, <1>2 DEF AtOrBefore, Place
<1>4. ASSUME NEW k \in 1 .. m PROVE AtOrBefore(lg[k].end, q)
  <2>1. lg[k].end \in Place /\ AtOrBefore(lg[k].end, p) BY <1>2, <1>3, TypedFacts DEF Between
  <2> QED BY <1>3, <2>1, InOrder
<1>5. ASSUME NEW k \in m + 1 .. Len(lg) PROVE AtOrBefore(q, lg[k].begin)
  <2>1. k \in 1 .. Len(lg) /\ AtOrBefore(p, lg[k].begin) BY <1>2, <1>3 DEF Between
  <2>2. PICK g \in 1 .. Len(bl), b \in Nat, n \in Nat :
              lg[k].begin = [file |-> g, off |-> b] /\ b + 2 * n + 2 <= Len(bl[g])
    <3>1. \E g \in 1 .. Len(bl), b \in Nat, n \in Nat :
              /\ lg[k].begin = [file |-> g, off |-> b]
              /\ lg[k].end = [file |-> g, off |-> b + 2 * n + 2]
              /\ b + 2 * n + 2 <= Len(bl[g]) /\ GroupAt(bl[g], b, n, lg[k].rows)
      BY <2>1, LogFacts
    <3> QED BY <3>1
  <2>3. f < g BY <1>2, <1>3, <2>1, <2>2 DEF AtOrBefore
  <2> QED BY <1>2, <1>3, <2>2, <2>3 DEF AtOrBefore
<1>6. AtOrBefore(q, EndOf(bl)) BY <1>2, <1>3 DEF AtOrBefore, EndOf
<1>7. Between(bl, lg, m, q) BY <1>4, <1>5, <1>6 DEF Between
<1> QED BY <1>1, <1>7

LEMMA EndBetween ==
    ASSUME NEW bl, NEW lg, Typed(bl, lg), LogInv(bl, lg), NEW m \in 1 .. Len(lg)
    PROVE  /\ Between(bl, lg, m, lg[m].end)
           /\ lg[m].end.file \in 1 .. Len(bl) /\ lg[m].end.off <= Len(bl[lg[m].end.file])
<1>1. Len(lg) \in Nat /\ \A k \in 1 .. Len(lg) : lg[k] \in Logged /\ lg[k].begin \in Place
          /\ lg[k].end \in Place
  BY TypedFacts
<1>2. PICK n \in Nat : IsGroup(bl, lg[m], n) BY DEF LogInv
<1>3. /\ AtOrBefore(lg[m].begin, lg[m].end) /\ AtOrBefore(lg[m].end, EndOf(bl))
      /\ lg[m].end.file \in 1 .. Len(bl) /\ lg[m].end.off <= Len(bl[lg[m].end.file])
  BY <1>1, <1>2, GroupFacts
<1>4. ASSUME NEW k \in 1 .. m PROVE AtOrBefore(lg[k].end, lg[m].end)
  <2>1. CASE k = m BY <1>1, <2>1 DEF AtOrBefore, Place
  <2>2. CASE k < m
    <3>1. k \in 1 .. Len(lg) BY <1>1
    <3>2. AtOrBefore(lg[k].end, lg[m].begin) BY <2>2, <3>1 DEF LogInv
    <3> QED BY <1>1, <1>3, <3>1, <3>2, InOrder
  <2> QED BY <2>1, <2>2
<1>5. ASSUME NEW k \in m + 1 .. Len(lg) PROVE AtOrBefore(lg[m].end, lg[k].begin)
  BY <1>1 DEF LogInv
<1> QED BY <1>3, <1>4, <1>5 DEF Between

LEMMA StartBetween ==
    ASSUME NEW bl, NEW lg, Typed(bl, lg), LogInv(bl, lg)
    PROVE  Between(bl, lg, 0, Start)
<1>1. Len(bl) \in Nat \ {0} /\ EndOf(bl) \in Place BY TypedFacts
<1>2. AtOrBefore(Start, EndOf(bl)) BY <1>1 DEF AtOrBefore, EndOf, Start, Place
<1>3. ASSUME NEW k \in 1 .. Len(lg) PROVE AtOrBefore(Start, lg[k].begin)
  <2>1. PICK n \in Nat : IsGroup(bl, lg[k], n) BY DEF LogInv
  <2>2. lg[k] \in Logged BY TypedFacts
  <2>3. lg[k].begin.file \in 1 .. Len(bl) /\ lg[k].begin.off \in Nat BY <2>1, <2>2, GroupFacts
  <2> QED BY <1>1, <2>3 DEF AtOrBefore, Start
<1> QED BY <1>2, <1>3 DEF Between

LEMMA BetweenKept ==
    ASSUME NEW bl, NEW lg, Typed(bl, lg), NEW bl2, Extends(bl, bl2), NEW lg2,
           lg2 = lg \/ \E tx \in Logged : lg2 = Append(lg, tx) /\ tx.begin = EndOf(bl),
           NEW m \in 0 .. Len(lg), NEW p \in Place, Between(bl, lg, m, p)
    PROVE  Between(bl2, lg2, m, p)
<1>1. EndOf(bl) \in Place /\ Len(lg) \in Nat /\ Len(bl) \in Nat \ {0} /\ lg \in Seq(Logged)
  BY TypedFacts DEF Typed
<1>2. EndOf(bl2) \in Place /\ AtOrBefore(EndOf(bl), EndOf(bl2))
  <2>1. Typed(bl2, lg) BY <1>1 DEF Extends, Typed
  <2>2. EndOf(bl2) \in Place /\ Len(bl2) \in Nat BY <2>1, TypedFacts
  <2>3. Len(bl) \in 1 .. Len(bl) BY <1>1
  <2>4. Len(bl) <= Len(bl2) /\ Len(bl[Len(bl)]) <= Len(bl2[Len(bl)]) BY <2>3 DEF Extends
  <2> QED BY <1>1, <2>2, <2>4 DEF AtOrBefore, EndOf
<1>3. AtOrBefore(p, EndOf(bl2))
  BY <1>1, <1>2, InOrder DEF Between
<1>4. CASE lg2 = lg BY <1>3, <1>4 DEF Between
<1>5. ASSUME NEW tx \in Logged, lg2 = Append(lg, tx), tx.begin = EndOf(bl)
      PROVE  Between(bl2, lg2, m, p)
  <2>1. Len(lg2) = Len(lg) + 1 /\ lg2[Len(lg) + 1] = tx /\ \A k \in 1 .. Len(lg) : lg2[k] = lg[k]
    BY <1>1, <1>5, Appended
  <2>2. \A k \in 1 .. m : AtOrBefore(lg2[k].end, p) BY <1>1, <2>1 DEF Between
  <2>3. \A k \in m + 1 .. Len(lg2) : AtOrBefore(p, lg2[k].begin)
    <3> TAKE k \in m + 1 .. Len(lg2)
    <3>1. CASE k = Len(lg) + 1 BY <1>5, <2>1, <3>1 DEF Between
    <3>2. CASE k # Len(lg) + 1
      <4>1. k \in m + 1 .. Len(lg) /\ k \in 1 .. Len(lg) BY <1>1, <2>1, <3>2
      <4> QED BY <2>1, <4>1 DEF Between
    <3> QED BY <3>1, <3>2
  <2> QED BY <1>3, <2>2, <2>3 DEF Between
<1> QED BY <1>4, <1>5

-----------------------------------------------------------------------------
(* The parser inside a transaction.                                        *)

LEMMA ChangesOf ==
    ASSUME NEW s \in Seq(StreamEvent)
    PROVE  /\ ChangesIn(s) \in Seq(LoggedRow) /\ Len(ChangesIn(s)) = Len(s)
           /\ \A i \in 1 .. Len(s) : ChangesIn(s)[i] = [op |-> s[i].op, table |-> s[i].table.name,
                 row |-> s[i].row]
<1>1. PICK n \in Nat : n = Len(s) /\ DOMAIN s = 1 .. n OBVIOUS
<1>2. ASSUME NEW i \in 1 .. n
      PROVE  [op |-> s[i].op, table |-> s[i].table.name, row |-> s[i].row] \in LoggedRow
  <2>1. s[i] \in StreamEvent BY <1>1
  <2>2. s[i].op \in Operations /\ s[i].table \in TableDef /\ s[i].row \in Nat
    BY <2>1 DEF StreamEvent
  <2> QED BY <2>2 DEF TableDef, LoggedRow
<1>3. ChangesIn(s) = [i \in 1 .. n |-> [op |-> s[i].op, table |-> s[i].table.name,
          row |-> s[i].row]]
  BY <1>1 DEF ChangesIn
<1>4. ChangesIn(s) \in [1 .. n -> LoggedRow] BY <1>2, <1>3
<1> QED BY <1>1, <1>3, <1>4, Listed

LEMMA NoChanges == ChangesIn(<<>>) = <<>>
<1>1. PICK e : e = <<>> OBVIOUS
<1>2. e \in Seq(StreamEvent) /\ Len(e) = 0 BY <1>1
<1>3. ChangesIn(e) \in Seq(LoggedRow) /\ Len(ChangesIn(e)) = 0 BY <1>2, ChangesOf
<1>4. ChangesIn(e) = <<>> BY <1>3
<1> QED BY <1>1, <1>4

LEMMA OneMoreChange ==
    ASSUME NEW s \in Seq(StreamEvent), NEW e \in StreamEvent
    PROVE  /\ Append(s, e) \in Seq(StreamEvent)
           /\ ChangesIn(Append(s, e)) =
                  Append(ChangesIn(s), [op |-> e.op, table |-> e.table.name, row |-> e.row])
<1>1. PICK t, x : t = Append(s, e) /\ x = [op |-> e.op, table |-> e.table.name, row |-> e.row]
  OBVIOUS
<1>2. t \in Seq(StreamEvent) /\ Len(t) = Len(s) + 1 /\ t[Len(s) + 1] = e
      /\ \A i \in 1 .. Len(s) : t[i] = s[i]
  BY <1>1, Appended
<1>3. /\ ChangesIn(t) \in Seq(LoggedRow) /\ Len(ChangesIn(t)) = Len(t)
      /\ \A i \in 1 .. Len(t) : ChangesIn(t)[i] = [op |-> t[i].op, table |-> t[i].table.name,
            row |-> t[i].row]
  BY <1>2, ChangesOf
<1>4. /\ ChangesIn(s) \in Seq(LoggedRow) /\ Len(ChangesIn(s)) = Len(s)
      /\ \A i \in 1 .. Len(s) : ChangesIn(s)[i] = [op |-> s[i].op, table |-> s[i].table.name,
            row |-> s[i].row]
  BY ChangesOf
<1>5. Len(s) \in Nat /\ Len(s) + 1 \in 1 .. Len(t) BY <1>2
<1>6. x \in LoggedRow
  <2>1. ChangesIn(t)[Len(s) + 1] = x BY <1>1, <1>2, <1>3, <1>5
  <2> QED BY <1>3, <1>5, <2>1
<1>7. PICK u : u = Append(ChangesIn(s), x) OBVIOUS
<1>8. u \in Seq(LoggedRow) /\ Len(u) = Len(s) + 1 /\ u[Len(s) + 1] = x
      /\ \A i \in 1 .. Len(s) : u[i] = ChangesIn(s)[i]
  BY <1>4, <1>6, <1>7, Appended
<1>9. ASSUME NEW i \in 1 .. Len(s) + 1 PROVE ChangesIn(t)[i] = u[i]
  <2>1. CASE i = Len(s) + 1 BY <1>1, <1>2, <1>3, <1>5, <1>8, <2>1
  <2>2. CASE i \in 1 .. Len(s) BY <1>2, <1>3, <1>4, <1>5, <1>8, <2>2
  <2> QED BY <1>5, <2>1, <2>2
<1>10. ChangesIn(t) = u BY <1>2, <1>3, <1>8, <1>9
<1> QED BY <1>1, <1>2, <1>7, <1>10

LEMMA InsideKept ==
    ASSUME NEW bl, NEW lg, Typed(bl, lg), LogInv(bl, lg), NEW bl2, Extends(bl, bl2),
           NEW k \in 1 .. Len(lg),
           NEW n \in Nat, NEW f, NEW o, NEW changes,
           NEW tables, InsideAt(bl, lg[k], n, f, o, changes, tables)
    PROVE  InsideAt(bl2, lg[k], n, f, o, changes, tables)
<1>1. PICK g \in 1 .. Len(bl), b \in Nat, h \in Nat :
          /\ lg[k].begin = [file |-> g, off |-> b]
          /\ lg[k].end = [file |-> g, off |-> b + 2 * h + 2]
          /\ b + 2 * h + 2 <= Len(bl[g]) /\ GroupAt(bl[g], b, h, lg[k].rows)
  BY LogFacts
<1>2. /\ f = g /\ o \in {b + 2 * n + 1, b + 2 * n + 2} /\ o < b + 2 * h + 2
      /\ Len(changes) = n /\ \A i \in 1 .. n : changes[i] = RowAt(bl[f], b, i)
      /\ o = b + 2 * n + 2 => Mapped(tables, bl[f][o])
  BY <1>1 DEF InsideAt
<1>3. Len(bl[f]) \in Nat /\ \A i \in 1 .. Len(bl[f]) : bl2[f][i] = bl[f][i]
  BY <1>1, <1>2, ExtendsFacts
<1>4. \A i \in 1 .. o : bl2[f][i] = bl[f][i]
  <2>1. b + 2 * h + 2 <= Len(bl[f]) /\ f = g BY <1>1, <1>2
  <2>2. o = b + 2 * n + 1 \/ o = b + 2 * n + 2 BY <1>2
  <2>3. o < b + 2 * h + 2 BY <1>2
  <2>4. o \in Nat BY <2>2
  <2>5. o <= Len(bl[f]) BY <1>3, <2>1, <2>3, <2>4
  <2>6. \A i \in 1 .. o : i \in 1 .. Len(bl[f]) BY <1>3, <2>4, <2>5
  <2> QED BY <1>3, <2>6
<1>5. \A i \in 1 .. n : RowAt(bl2[f], b, i) = RowAt(bl[f], b, i)
  <2> TAKE i \in 1 .. n
  <2>1. b + 2 * i \in 1 .. o /\ b + 2 * i + 1 \in 1 .. o BY <1>1, <1>2
  <2>2. bl2[f][b + 2 * i] = bl[f][b + 2 * i] /\ bl2[f][b + 2 * i + 1] = bl[f][b + 2 * i + 1]
    BY <1>4, <2>1
  <2> QED BY <2>2 DEF RowAt
<1>6. o \in 1 .. o
  <2>1. o = b + 2 * n + 1 \/ o = b + 2 * n + 2 BY <1>2
  <2> QED BY <2>1
<1>7. bl2[f][o] = bl[f][o] BY <1>4, <1>6
<1> QED BY <1>1, <1>2, <1>5, <1>7 DEF InsideAt

LEMMA InsideBegins ==
    ASSUME NEW bl, NEW lg, Typed(bl, lg), LogInv(bl, lg), NEW k \in 1 .. Len(lg), NEW p \in Place,
           lg[k].begin = p, NEW tables
    PROVE  InsideAt(bl, lg[k], 0, p.file, p.off + 1, <<>>, tables)
<1>1. PICK g \in 1 .. Len(bl), b \in Nat, h \in Nat :
          /\ lg[k].begin = [file |-> g, off |-> b]
          /\ lg[k].end = [file |-> g, off |-> b + 2 * h + 2]
          /\ b + 2 * h + 2 <= Len(bl[g]) /\ GroupAt(bl[g], b, h, lg[k].rows)
  BY LogFacts
<1>2. p.file = g /\ p.off = b BY <1>1
<1> QED BY <1>1, <1>2 DEF InsideAt

(* What the next event of the transaction is, and what is read with it.    *)
Follows(bl, tx, n, f, o, changes, tables) ==
    LET e == bl[f][o + 1]
        map == bl[f][o]
    IN  \/ /\ e.kind = "tablemap"
           /\ \A later : Mapped(later, e) => InsideAt(bl, tx, n, f, o + 1, changes, later)
        \/ /\ e.kind = "rows" /\ e.id = map.id /\ Mapped(tables, map)
           /\ \A x : x = [op |-> e.op, table |-> map.def.name, row |-> e.row] /\ x \in LoggedRow =>
                  InsideAt(bl, tx, n + 1, f, o + 1, Append(changes, x), tables)
        \/ /\ tx.end = [file |-> f, off |-> o + 1]
           /\ \/ e \in {[kind |-> "xid"], query(<<"commit">>)} /\ changes = tx.rows
              \/ e = query(<<"rollback">>) /\ tx.rows = <<>>

LEMMA InsideNext ==
    ASSUME NEW bl, NEW lg, Typed(bl, lg), LogInv(bl, lg), NEW k \in 1 .. Len(lg), NEW n \in Nat,
           NEW f, NEW o,
           NEW changes \in Seq(LoggedRow), NEW tables, InsideAt(bl, lg[k], n, f, o, changes, tables)
    PROVE  /\ f \in 1 .. Len(bl) /\ o \in Nat /\ o < Len(bl[f])
           /\ Follows(bl, lg[k], n, f, o, changes, tables)
<1>1. PICK g \in 1 .. Len(bl), b \in Nat, h \in Nat :
          /\ lg[k].begin = [file |-> g, off |-> b]
          /\ lg[k].end = [file |-> g, off |-> b + 2 * h + 2]
          /\ b + 2 * h + 2 <= Len(bl[g]) /\ GroupAt(bl[g], b, h, lg[k].rows)
  BY LogFacts
<1>2. /\ f = g /\ o \in {b + 2 * n + 1, b + 2 * n + 2} /\ o < b + 2 * h + 2
      /\ Len(changes) = n /\ \A i \in 1 .. n : changes[i] = RowAt(bl[f], b, i)
      /\ o = b + 2 * n + 2 => Mapped(tables, bl[f][o])
  BY <1>1 DEF InsideAt
<1>3. Len(bl[f]) \in Nat /\ f \in 1 .. Len(bl) /\ o \in Nat /\ o < Len(bl[f])
  BY <1>1, <1>2, TypedFacts
<1>4. PICK ev, e : ev = bl[f] /\ e = ev[o + 1] OBVIOUS
<1>5. /\ \A i \in 1 .. h : /\ ev[b + 2 * i].kind = "tablemap" /\ ev[b + 2 * i + 1].kind = "rows"
                           /\ ev[b + 2 * i + 1].id = ev[b + 2 * i].id
      /\ \/ /\ ev[b + 2 * h + 2] \in {[kind |-> "xid"], query(<<"commit">>)}
            /\ Len(lg[k].rows) = h /\ \A i \in 1 .. h : lg[k].rows[i] = RowAt(ev, b, i)
         \/ ev[b + 2 * h + 2] = query(<<"rollback">>) /\ lg[k].rows = <<>>
  BY <1>1, <1>2, <1>4 DEF GroupAt
<1>6. CASE o = b + 2 * n + 1 /\ n < h
  <2>0. b \in Nat /\ n \in Nat /\ h \in Nat BY <1>1
  <2>1. n + 1 \in 1 .. h /\ o + 1 = b + 2 * (n + 1) /\ o + 1 = b + 2 * n + 2
    <3>1. n + 1 \in 1 .. h BY <2>0, <1>6
    <3>2. o + 1 = b + 2 * (n + 1) BY <2>0, <1>6
    <3>3. o + 1 = b + 2 * n + 2 BY <2>0, <1>6
    <3> QED BY <3>1, <3>2, <3>3
  <2>2. e.kind = "tablemap" BY <1>4, <1>5, <2>1
  <2>3. ASSUME NEW later, Mapped(later, e) PROVE InsideAt(bl, lg[k], n, f, o + 1, changes, later)
    BY <1>1, <1>2, <1>4, <1>6, <2>1, <2>3 DEF InsideAt
  <2> QED BY <1>3, <1>4, <2>2, <2>3 DEF Follows
<1>7. CASE o = b + 2 * n + 1 /\ n = h
  <2>1. o + 1 = b + 2 * h + 2 BY <1>1, <1>7
  <2>2. lg[k].end = [file |-> f, off |-> o + 1] BY <1>1, <1>2, <2>1
  <2>3. CASE e = query(<<"rollback">>) /\ lg[k].rows = <<>> BY <1>3, <1>4, <2>2, <2>3 DEF Follows
  <2>4. CASE e \in {[kind |-> "xid"], query(<<"commit">>)}
             /\ Len(lg[k].rows) = h /\ \A i \in 1 .. h : lg[k].rows[i] = RowAt(ev, b, i)
    <3>1. lg[k].rows \in Seq(LoggedRow)
      <4>1. lg[k] \in Logged BY TypedFacts
      <4> QED BY <4>1 DEF Logged
    <3>2. changes = lg[k].rows BY <1>2, <1>4, <1>7, <2>4, <3>1
    <3> QED BY <1>3, <1>4, <2>2, <2>4, <3>2 DEF Follows
  <2> QED BY <1>4, <1>5, <2>1, <2>3, <2>4
<1>8. CASE o = b + 2 * n + 2
  <2>0. b \in Nat /\ n \in Nat /\ h \in Nat /\ b + 2 * n + 2 < b + 2 * h + 2 BY <1>1, <1>2, <1>8
  <2>1. n + 1 \in 1 .. h /\ o = b + 2 * (n + 1) /\ o + 1 = b + 2 * (n + 1) + 1
    <3>1. n + 1 \in 1 .. h BY <2>0
    <3>2. o = b + 2 * (n + 1) BY <2>0, <1>8
    <3>3. o + 1 = b + 2 * (n + 1) + 1 BY <2>0, <1>8
    <3> QED BY <3>1, <3>2, <3>3
  <2>2. e.kind = "rows" /\ e.id = ev[o].id BY <1>4, <1>5, <2>1
  <2>3. RowAt(ev, b, n + 1) = [op |-> e.op, table |-> ev[o].def.name, row |-> e.row]
    BY <1>4, <2>1 DEF RowAt
  <2>4. ASSUME NEW x \in LoggedRow, x = RowAt(ev, b, n + 1)
        PROVE  InsideAt(bl, lg[k], n + 1, f, o + 1, Append(changes, x), tables)
    <3>1. PICK c : c = Append(changes, x) OBVIOUS
    <3>2. Len(c) = n + 1 /\ c[n + 1] = x /\ \A i \in 1 .. n : c[i] = changes[i]
      <4>1. Len(changes) = n /\ changes \in Seq(LoggedRow) BY <1>2
      <4> QED BY <3>1, <4>1, Appended
    <3>3. \A i \in 1 .. n + 1 : c[i] = RowAt(ev, b, i)
      <4> TAKE i \in 1 .. n + 1
      <4>1. CASE i = n + 1 BY <2>4, <3>2, <4>1
      <4>2. CASE i \in 1 .. n BY <1>2, <1>4, <3>2, <4>2
      <4> QED BY <4>1, <4>2
    <3>4. o + 1 = b + 2 * (n + 1) + 1 /\ o + 1 < b + 2 * h + 2 /\ o + 1 # b + 2 * (n + 1) + 2
      <4>1. n + 1 <= h /\ b + 2 * (n + 1) \in Nat BY <2>0, <2>1
      <4>2. o + 1 = b + 2 * (n + 1) + 1 BY <2>1
      <4>3. b + 2 * (n + 1) + 1 < b + 2 * h + 2 BY <2>0, <4>1
      <4> QED BY <4>1, <4>2, <4>3
    <3>5. lg[k].begin.file = f /\ lg[k].begin.off = b /\ lg[k].end.off = b + 2 * h + 2
      BY <1>1, <1>2
    <3>6. \A i \in 1 .. n + 1 : c[i] = RowAt(bl[f], b, i) BY <1>4, <3>3
    <3>7. InsideAt(bl, lg[k], n + 1, f, o + 1, c, tables)
      BY <3>2, <3>4, <3>5, <3>6 DEF InsideAt
    <3> QED BY <3>1, <3>7
  <2>5. Mapped(tables, ev[o]) BY <1>2, <1>4, <1>8
  <2> QED BY <1>3, <1>4, <2>2, <2>3, <2>4, <2>5 DEF Follows
<1>9. n <= h BY <1>1, <1>2
<1> QED BY <1>1, <1>2, <1>6, <1>7, <1>8, <1>9

-----------------------------------------------------------------------------
(* A step of the master leaves the parser where it is.                     *)

LEMMA MasterKept ==
    ASSUME NEW N, NEW N2, MasterInv(N), ParserInv(N), Grown(N2), KnownNames(N, N2),
           UNCHANGED <<vars, cursor, accepted>>, connected' \in BOOLEAN
    PROVE  MasterInv(N2)' /\ ParserInv(N2)'
<1>0. UNCHANGED <<startPos, phase, result, cancelled, dumpPos, pos, format, tranEvents, autocommit,
                  tablesMaps, sent, cursor, accepted>>
  BY DEF vars, locals
<1>1. /\ Typed(binlog, log) /\ LogInv(binlog, log) /\ log \in Seq(Logged) /\ Len(log) \in Nat
      /\ nextId \in Nat /\ ParserTypes /\ CacheNames(N) /\ AcceptedInv /\ StageInv
      /\ WholeTransactions
  BY TypedFacts DEF MasterInv, MasterTypes, Typed, ParserInv
<1>2. /\ MasterTypes' /\ LogInv(binlog', log') /\ Numbered(log', rowEvents') /\ MasterNames(N2)'
      /\ Extends(binlog, binlog') /\ nextId <= nextId' /\ nextId' \in Nat
      /\ log' = log \/ \E tx \in Logged : log' = Append(log, tx) /\ tx.begin = EndOf(binlog)
  BY DEF Grown, MasterTypes
<1>3. /\ log' \in Seq(Logged) /\ Len(log') \in Nat /\ Len(log) <= Len(log')
      /\ \A k \in 1 .. Len(log) : log'[k] = log[k]
  <2>1. CASE log' = log BY <1>1, <2>1
  <2>2. ASSUME NEW tx \in Logged, log' = Append(log, tx)
        PROVE  /\ log' \in Seq(Logged) /\ Len(log') \in Nat /\ Len(log) <= Len(log')
               /\ \A k \in 1 .. Len(log) : log'[k] = log[k]
    BY <1>1, <2>2, Appended
  <2> QED BY <1>2, <2>1, <2>2
<1>4. PICK d : d = done OBVIOUS
<1>5. d \in Nat /\ d <= Len(log) /\ d \in 0 .. Len(log) /\ done' = d /\ here' = here
      /\ done = d
  <2>1. accepted \in Seq(Given) BY <1>1 DEF ParserTypes
  <2>2. d \in Nat BY <1>4, <2>1 DEF done
  <2>3. done' = done /\ here' = here BY <1>0 DEF done, here
  <2> QED BY <1>1, <1>4, <2>2, <2>3 DEF AcceptedInv
<1>6. ASSUME NEW p \in Place, Between(binlog, log, d, p) PROVE Between(binlog', log', d, p)
  BY <1>1, <1>2, <1>5, <1>6, BetweenKept
<1>7. pos \in Place /\ here \in Place /\ pos' = pos /\ cursor' = cursor
  BY <1>0, <1>1 DEF ParserTypes, here, Place
<1>8. ParserTypes' BY <1>0, <1>1 DEF ParserTypes
<1>9. CacheNames(N2)'
  <2> SUFFICES ASSUME NEW id \in TableIds, tablesMaps[id] # NoTable
               PROVE  id \in 1 .. nextId' - 1 /\ tablesMaps[id].table.name = N2[id]
    BY <1>0 DEF CacheNames
  <2>1. id \in 1 .. nextId - 1 /\ tablesMaps[id].table.name = N[id] BY <1>1 DEF CacheNames
  <2> QED BY <1>1, <1>2, <2>1 DEF KnownNames
<1>10. AcceptedInv'
  <2>1. \A n \in 1 .. d : log'[n] = log[n] BY <1>1, <1>3, <1>5
  <2>2. d > 0 => d \in 1 .. d BY <1>5
  <2>3. Saved' = Saved BY <1>0 DEF Saved, Start
  <2>4. /\ \A n \in 1 .. d : ChangesIn(accepted[n].events) = log[n].rows
        /\ d > 0 => accepted[d].next = log[d].end
        /\ phase = "dumping" => dumpPos = Saved /\ startPos = Saved
    BY <1>1, <1>5 DEF AcceptedInv
  <2>5. d <= Len(log') BY <1>1, <1>3, <1>5
  <2>6. /\ \A n \in 1 .. d : ChangesIn(accepted'[n].events) = log'[n].rows
        /\ d > 0 => accepted'[d].next = log'[d].end
        /\ phase' = "dumping" => dumpPos' = Saved' /\ startPos' = Saved'
    BY <1>0, <2>1, <2>2, <2>3, <2>4
  <2> QED BY <1>5, <2>5, <2>6 DEF AcceptedInv
<1>11. StageInv'
  <2> SUFFICES ASSUME phase = "parsing"
               PROVE  /\ cursor.file \in 1 .. Len(binlog')
                      /\ cursor.off <= Len(binlog'[cursor.file])
                      /\ Between(binlog', log', d, pos)
                      /\ cursor.stage # "events" =>
                             autocommit /\ tranEvents = <<>> /\ Between(binlog', log', d, here)
                      /\ cursor.stage = "format" \/ (cursor.stage = "rotate" /\ format = "zero")
                            => pos = here
                      /\ cursor.stage = "events"
                            => format = "crc32" /\ (Outside' \/ \E n \in Nat : Inside(n)')
    BY <1>0, <1>5 DEF StageInv
  <2>1. /\ cursor.file \in 1 .. Len(binlog) /\ cursor.off <= Len(binlog[cursor.file])
        /\ Between(binlog, log, d, pos)
        /\ cursor.stage # "events" =>
               autocommit /\ tranEvents = <<>> /\ Between(binlog, log, d, here)
        /\ cursor.stage = "format" \/ (cursor.stage = "rotate" /\ format = "zero") => pos = here
        /\ cursor.stage = "events" => format = "crc32" /\ (Outside \/ \E n \in Nat : Inside(n))
    BY <1>1, <1>5 DEF StageInv
  <2>2. /\ cursor.file \in 1 .. Len(binlog') /\ Len(binlog[cursor.file]) \in Nat
        /\ Len(binlog) \in Nat /\ Len(binlog') \in Nat /\ Len(binlog) <= Len(binlog')
        /\ Len(binlog'[cursor.file]) \in Nat
        /\ Len(binlog[cursor.file]) <= Len(binlog'[cursor.file])
        /\ cursor.file < Len(binlog) => binlog'[cursor.file] = binlog[cursor.file]
    BY <1>1, <1>2, <2>1, ExtendsFacts
  <2>3. cursor.file \in Nat /\ cursor.off \in Nat BY <1>1 DEF ParserTypes
  <2>4. cursor.off <= Len(binlog'[cursor.file]) BY <2>1, <2>2, <2>3
  <2>5. ASSUME Outside PROVE Outside'
    <3>1. /\ autocommit /\ tranEvents = <<>> /\ Between(binlog, log, d, here)
          /\ pos.file = cursor.file
             \/ (cursor.off = Len(binlog[cursor.file]) /\ cursor.file < Len(binlog))
      BY <1>5, <2>5 DEF Outside
    <3>2. pos.file = cursor.file
             \/ (cursor.off = Len(binlog'[cursor.file]) /\ cursor.file < Len(binlog'))
      BY <2>2, <2>3, <3>1
    <3>3. Between(binlog', log', d, here) BY <1>6, <1>7, <3>1
    <3> QED BY <1>0, <1>5, <3>1, <3>2, <3>3 DEF Outside
  <2>6. ASSUME NEW n \in Nat, Inside(n) PROVE Inside(n)'
    <3>1. /\ ~autocommit /\ d < Len(log) /\ pos.file = cursor.file
          /\ InsideAt(binlog, log[d + 1], n, cursor.file, cursor.off, ChangesIn(tranEvents),
                tablesMaps)
      BY <1>5, <2>6 DEF Inside
    <3>2. d + 1 \in 1 .. Len(log) /\ d < Len(log') BY <1>1, <1>3, <1>5, <3>1
    <3>3. InsideAt(binlog', log[d + 1], n, cursor.file, cursor.off, ChangesIn(tranEvents),
              tablesMaps)
      BY <1>1, <1>2, <3>1, <3>2, InsideKept
    <3>4. log'[d + 1] = log[d + 1] BY <1>3, <3>2
    <3>5. /\ ~autocommit' /\ d < Len(log') /\ pos'.file = cursor'.file
          /\ InsideAt(binlog', log'[d + 1], n, cursor'.file, cursor'.off, ChangesIn(tranEvents'),
                tablesMaps')
      BY <1>0, <3>1, <3>2, <3>3, <3>4
    <3> QED BY <1>5, <3>5 DEF Inside
  <2>7. /\ Between(binlog', log', d, pos)
        /\ cursor.stage # "events" => Between(binlog', log', d, here)
    BY <1>6, <1>7, <2>1
  <2> QED BY <2>1, <2>2, <2>4, <2>5, <2>6, <2>7
<1>12. WholeTransactions'
  <2> SUFFICES ASSUME NEW n \in DOMAIN sent
               PROVE  \E k \in DOMAIN log' :
                         /\ ChangesIn(sent[n].events) = log'[k].rows
                         /\ sent[n].next = log'[k].end
                         /\ AtOrBefore(sent[n].now, log'[k].begin)
                         /\ k > 1 => AtOrBefore(log'[k - 1].end, sent[n].now)
    BY <1>0 DEF WholeTransactions
  <2>1. PICK k \in DOMAIN log :
            /\ ChangesIn(sent[n].events) = log[k].rows
            /\ sent[n].next = log[k].end
            /\ AtOrBefore(sent[n].now, log[k].begin)
            /\ k > 1 => AtOrBefore(log[k - 1].end, sent[n].now)
    BY <1>1 DEF WholeTransactions
  <2>2. k \in 1 .. Len(log) /\ k \in DOMAIN log' BY <1>1, <1>3
  <2>3. log'[k] = log[k] /\ (k > 1 => log'[k - 1] = log[k - 1])
    <3>1. k > 1 => k - 1 \in 1 .. Len(log) BY <1>1, <2>2
    <3> QED BY <1>3, <2>2, <3>1
  <2> QED BY <2>1, <2>2, <2>3
<1>13. MasterInv(N2)' BY <1>2 DEF MasterInv
<1> QED BY <1>8, <1>9, <1>10, <1>11, <1>12, <1>13 DEF ParserInv

-----------------------------------------------------------------------------
(* Steps of the parser, which leave the master as it is.                   *)

LEMMA MasterSame ==
    ASSUME NEW N, MasterInv(N), UNCHANGED master
    PROVE  MasterInv(N)' /\ binlog' = binlog /\ log' = log /\ nextId' = nextId
<1>1. UNCHANGED <<binlog, log, ids, nextId, cols, rowEvents, prepared>> BY DEF master
<1>2. MasterTypes' BY <1>1 DEF MasterInv, MasterTypes
<1>3. MasterNames(N)' BY <1>1 DEF MasterInv, MasterNames
<1>4. LogInv(binlog', log') /\ Numbered(log', rowEvents') BY <1>1 DEF MasterInv
<1> QED BY <1>1, <1>2, <1>3, <1>4 DEF MasterInv

LEMMA WholeKept ==
    ASSUME WholeTransactions, log' = log, sent' = sent
    PROVE  WholeTransactions'
BY DEF WholeTransactions

(* A transaction that is handed over.                                      *)
Whole(g, k) ==
    /\ ChangesIn(g.events) = log[k].rows
    /\ g.next = log[k].end
    /\ AtOrBefore(g.now, log[k].begin)
    /\ k > 1 => AtOrBefore(log[k - 1].end, g.now)

LEMMA WholeSent ==
    ASSUME WholeTransactions, sent \in Seq(Given), log' = log,
           NEW g \in Given, sent' = Append(sent, g),
           NEW k \in DOMAIN log, Whole(g, k)
    PROVE  WholeTransactions' /\ sent' \in Seq(Given)
<1>1. /\ sent' \in Seq(Given) /\ Len(sent') = Len(sent) + 1 /\ sent'[Len(sent) + 1] = g
      /\ \A n \in 1 .. Len(sent) : sent'[n] = sent[n]
  BY Appended
<1>2. ASSUME NEW n \in DOMAIN sent'
      PROVE  \E j \in DOMAIN log : Whole(sent'[n], j)
  <2>1. n \in 1 .. Len(sent) \/ n = Len(sent) + 1 BY <1>1
  <2>2. CASE n = Len(sent) + 1 BY <1>1, <2>2
  <2>3. CASE n \in 1 .. Len(sent)
    <3>1. n \in DOMAIN sent /\ sent'[n] = sent[n] BY <1>1, <2>3
    <3>2. \E j \in DOMAIN log : Whole(sent[n], j) BY <3>1 DEF WholeTransactions, Whole
    <3> QED BY <3>1, <3>2
  <2> QED BY <2>1, <2>2, <2>3
<1>3. WholeTransactions' BY <1>2 DEF WholeTransactions, Whole
<1> QED BY <1>1, <1>3

LEMMA StoppedKept ==
    ASSUME NEW N, MasterInv(N), ParserInv(N), UNCHANGED master, phase' = "idle",
           FreshLocals(dumpPos),
           UNCHANGED <<startPos, dumpPos, accepted>>, cursor' \in {cursor, NoCursor},
               connected' \in BOOLEAN,
           WholeTransactions', sent' \in Seq(Given)
    PROVE  ParserInv(N)'
<1>1. log' = log BY MasterSame
<1>2. /\ pos' = dumpPos /\ format' = "zero" /\ tranEvents' = <<>> /\ autocommit' = TRUE
      /\ tablesMaps' = [id \in TableIds |-> NoTable]
  BY DEF FreshLocals, NoTables
<1>3. ParserTypes /\ AcceptedInv BY DEF ParserInv
<1>4. NoCursor \in [file : Nat, off : Nat, stage : {"rotate", "format", "events"}] BY DEF NoCursor
<1>5. cursor' \in [file : Nat, off : Nat, stage : {"rotate", "format", "events"}]
  BY <1>3, <1>4 DEF ParserTypes
<1>6. tranEvents' \in Seq(StreamEvent) BY <1>2
<1>7. ParserTypes' BY <1>2, <1>3, <1>5, <1>6 DEF ParserTypes, Formats
<1>8. CacheNames(N)' BY <1>2 DEF CacheNames
<1>9. done' = done BY DEF done
<1>10. AcceptedInv' BY <1>1, <1>3, <1>9 DEF AcceptedInv
<1>11. StageInv' BY DEF StageInv
<1> QED BY <1>7, <1>8, <1>10, <1>11 DEF ParserInv

(* A step on which nothing is handed over.                                 *)
Quiet == /\ phase = "parsing" /\ UNCHANGED <<phase, startPos, dumpPos, sent, accepted, connected>>
         /\ UNCHANGED master

LEMMA QuietKept ==
    ASSUME NEW N, MasterInv(N), ParserInv(N), Quiet,
           pos' \in Place, format' \in Formats, tranEvents' \in Seq(StreamEvent),
           autocommit' \in BOOLEAN,
           tablesMaps' \in [TableIds -> TableCache \cup {NoTable}],
           cursor' \in [file : Nat, off : Nat, stage : {"rotate", "format", "events"}],
           CacheNames(N)', StageInv'
    PROVE  ParserInv(N)'
<1>1. log' = log BY MasterSame DEF Quiet
<1>2. ParserTypes /\ AcceptedInv /\ WholeTransactions BY DEF ParserInv
<1>3. ParserTypes' BY <1>2 DEF ParserTypes, Quiet
<1>4. done' = done BY DEF done, Quiet
<1>5. AcceptedInv' BY <1>1, <1>2, <1>4 DEF AcceptedInv, Quiet
<1>6. WholeTransactions' BY <1>1, <1>2, WholeKept DEF Quiet
<1> QED BY <1>3, <1>5, <1>6 DEF ParserInv

LEMMA CacheKept ==
    ASSUME NEW N, CacheNames(N), tablesMaps' = tablesMaps, nextId' = nextId
    PROVE  CacheNames(N)'
BY DEF CacheNames

-----------------------------------------------------------------------------
(* What the parser makes of each event of the binlog.                      *)

LEMMA AnyReceived ==
    ASSUME NEW e, NEW next, Receives(e, next)
    PROVE  Parse /\ phase = "parsing" /\ UNCHANGED <<startPos, cancelled, dumpPos>>
<1>1. Parse
  BY DEF Receives, Query, Begin, Ignored, XID, MappedTableMap, TableMap, TableMapRefused,
       WrittenRows, Rows, RowsRefused, RowsPanic, Rotate
<1> QED BY <1>1 DEF Parse, Receive

LEMMA TextReceived ==
    ASSUME NEW e \in {[kind |-> "ignored"], query(<<"create">>), query(<<"alter">>)},
           NEW next, Receives(e, next)
    PROVE  Ignored
<1>1. CASE e = [kind |-> "ignored"] BY <1>1 DEF Receives
<1>2. ASSUME NEW w \in {"create", "alter"}, e = query(<<w>>) PROVE Ignored
  <2>1. e.kind = "query" /\ e.sql = <<w>> BY <1>2 DEF query
  <2>2. Query(<<w>>, next) BY <2>1 DEF Receives
  <2>3. GetStatementCategory(<<w>>) = "other" BY DEF GetStatementCategory
  <2> QED BY <2>2, <2>3 DEF Query
<1> QED BY <1>1, <1>2

LEMMA BeginReceived ==
    ASSUME NEW e, e = query(<<"begin">>), NEW next, Receives(e, next)
    PROVE  Begin
<1>1. e.kind = "query" /\ e.sql = <<"begin">> BY DEF query
<1>2. Query(<<"begin">>, next) BY <1>1 DEF Receives
<1>3. GetStatementCategory(<<"begin">>) = "begin" BY DEF GetStatementCategory
<1> QED BY <1>2, <1>3 DEF Query

LEMMA RotateReceived ==
    ASSUME NEW to, NEW e, e = [kind |-> "rotate", to |-> to], NEW next, Receives(e, next)
    PROVE  Rotate(to)
BY DEF Receives

LEMMA TableMapReceived ==
    ASSUME NEW e, e.kind = "tablemap", NEW next, Receives(e, next)
    PROVE  MappedTableMap(e.id, e.def)
BY DEF Receives

LEMMA RowsReceived ==
    ASSUME NEW e, e.kind = "rows", NEW next, Receives(e, next)
    PROVE  \E count : \/ Rows(e.op, e.id, count, TRUE, next, e.row)
                      \/ RowsRefused(e.id, count, TRUE) \/ RowsPanic(e.id, count, TRUE)
BY DEF Receives, WrittenRows

LEMMA CommitReceived ==
    ASSUME NEW e \in {[kind |-> "xid"], query(<<"commit">>)}, NEW next, Receives(e, next)
    PROVE  Commit(next, tranEvents)
<1>1. CASE e = [kind |-> "xid"] BY <1>1 DEF Receives, XID
<1>2. CASE e = query(<<"commit">>)
  <2>1. e.kind = "query" /\ e.sql = <<"commit">> BY <1>2 DEF query
  <2>2. Query(<<"commit">>, next) BY <2>1 DEF Receives
  <2>3. GetStatementCategory(<<"commit">>) = "commit" BY DEF GetStatementCategory
  <2> QED BY <2>2, <2>3 DEF Query
<1> QED BY <1>1, <1>2

LEMMA RollbackReceived ==
    ASSUME NEW e, e = query(<<"rollback">>), NEW next, Receives(e, next)
    PROVE  Commit(next, <<>>)
<1>1. e.kind = "query" /\ e.sql = <<"rollback">> BY DEF query
<1>2. Query(<<"rollback">>, next) BY <1>1 DEF Receives
<1>3. GetStatementCategory(<<"rollback">>) = "rollback" BY DEF GetStatementCategory
<1> QED BY <1>2, <1>3 DEF Query

-----------------------------------------------------------------------------
(* One event of the binlog.                                                *)

(* What follows the parser's own step in SendEvent.                        *)
Handing ==
    /\ IF sent' # sent /\ Handed.accepted THEN accepted' = Append(accepted, Handed)
       ELSE UNCHANGED accepted
    /\ IF phase' = "parsing" THEN cursor' = [cursor EXCEPT !.off = @ + 1] /\ UNCHANGED connected
       ELSE Close
    /\ UNCHANGED master

LEMMA RunningFacts ==
    ASSUME NEW N, ParserInv(N), Handing, phase = "parsing", UNCHANGED <<startPos, dumpPos>>,
           Running, UNCHANGED sent
    PROVE  /\ Quiet
           /\ cursor' \in [file : Nat, off : Nat, stage : {"rotate", "format", "events"}]
           /\ cursor'.file = cursor.file /\ cursor'.off = cursor.off + 1
           /\ cursor'.stage = cursor.stage
           /\ here' = [file |-> cursor.file, off |-> cursor.off + 1] /\ done' = done
<1>1. phase' = "parsing" /\ accepted' = accepted /\ connected' = connected /\ UNCHANGED master
      /\ cursor' = [cursor EXCEPT !.off = @ + 1]
  BY DEF Handing, Running
<1>2. cursor \in [file : Nat, off : Nat, stage : {"rotate", "format", "events"}]
  BY DEF ParserInv, ParserTypes
<1>3. /\ cursor' \in [file : Nat, off : Nat, stage : {"rotate", "format", "events"}]
      /\ cursor'.file = cursor.file /\ cursor'.off = cursor.off + 1 /\ cursor'.stage = cursor.stage
  BY <1>1, <1>2
<1>4. done' = done BY <1>1 DEF done
<1>5. Quiet BY <1>1 DEF Quiet
<1> QED BY <1>3, <1>4, <1>5 DEF here

LEMMA RejectKept ==
    ASSUME NEW N, MasterInv(N), ParserInv(N), Handing, UNCHANGED <<startPos, dumpPos>>,
           NEW why, Return(why), UNCHANGED sent
    PROVE  ParserInv(N)'
<1>1. phase' = "idle" /\ FreshLocals(dumpPos) /\ sent' = sent BY DEF Return
<1>2. accepted' = accepted /\ cursor' = NoCursor /\ connected' = FALSE /\ UNCHANGED master
  BY <1>1 DEF Handing, Close
<1>3. WholeTransactions /\ sent \in Seq(Given) BY DEF ParserInv, ParserTypes
<1>4. log' = log BY <1>2, MasterSame
<1>5. WholeTransactions' BY <1>1, <1>3, <1>4, WholeKept
<1> QED BY <1>1, <1>2, <1>3, <1>5, StoppedKept

LEMMA EventsKept ==
    ASSUME NEW N, MasterInv(N), ParserInv(N), Quiet,
           pos' \in Place, tranEvents' \in Seq(StreamEvent), autocommit' \in BOOLEAN,
           tablesMaps' \in [TableIds -> TableCache \cup {NoTable}], CacheNames(N)',
           cursor' \in [file : Nat, off : Nat, stage : {"rotate", "format", "events"}],
           cursor'.stage = "events", format' = "crc32",
           cursor'.file \in 1 .. Len(binlog), cursor'.off <= Len(binlog[cursor'.file]),
           Between(binlog, log, done, pos'), Outside' \/ \E n \in Nat : Inside(n)'
    PROVE  ParserInv(N)'
<1>1. binlog' = binlog /\ log' = log BY MasterSame DEF Quiet
<1>2. done' = done BY DEF done, Quiet
<1>3. StageInv' BY <1>1, <1>2 DEF StageInv
<1>4. format' \in Formats BY DEF Formats
<1> QED BY <1>3, <1>4, QuietKept

LEMMA CommitKept ==
    ASSUME NEW N, MasterInv(N), ParserInv(N), Handing, phase = "parsing",
           UNCHANGED <<startPos, dumpPos>>,
           cursor.stage = "events", cursor.file = pos.file, NEW next, next = cursor.off + 1,
           NEW events \in Seq(StreamEvent), Commit(next, events), done < Len(log),
           ChangesIn(events) = log[done + 1].rows,
           log[done + 1].end = [file |-> pos.file, off |-> next]
    PROVE  ParserInv(N)'
<1>1. UNCHANGED master /\ binlog' = binlog /\ log' = log /\ nextId' = nextId
  BY MasterSame DEF Handing
<1>2. /\ Typed(binlog, log) /\ LogInv(binlog, log) /\ Len(log) \in Nat
      /\ ParserTypes /\ CacheNames(N) /\ AcceptedInv /\ StageInv /\ WholeTransactions
  BY TypedFacts DEF MasterInv, MasterTypes, Typed, ParserInv
<1>3. PICK k : k = done + 1 OBVIOUS
<1>4. done \in Nat /\ k \in 1 .. Len(log) /\ k \in DOMAIN log
  <2>1. done \in Nat BY <1>2 DEF ParserTypes, done
  <2> QED BY <1>2, <1>3, <2>1 DEF Typed
<1>5. PICK q : q = log[k].end OBVIOUS
<1>6. /\ q \in Place /\ [pos EXCEPT !.off = next] = q /\ q.file = cursor.file
      /\ q.off = cursor.off + 1
      /\ format = "crc32"
  <2>1. q = [file |-> pos.file, off |-> next] BY <1>3, <1>5
  <2>2. pos \in Place /\ cursor \in [file : Nat, off : Nat, stage : {"rotate", "format", "events"}]
    BY <1>2 DEF ParserTypes
  <2>3. q \in Place /\ [pos EXCEPT !.off = next] = q BY <2>1, <2>2 DEF Place
  <2> QED BY <1>2, <2>1, <2>3 DEF StageInv
<1>7. ASSUME NEW g, NEW ok \in BOOLEAN, g = [now |-> pos, next |-> q, events |-> events,
             accepted |-> ok],
             sent' = Append(sent, g)
      PROVE  /\ g \in Given /\ WholeTransactions' /\ sent' \in Seq(Given) /\ sent' # sent
             /\ Handed = g
  <2>1. g \in Given BY <1>2, <1>6, <1>7 DEF Given, ParserTypes
  <2>2. Between(binlog, log, done, pos) BY <1>2 DEF StageInv
  <2>3. AtOrBefore(pos, log[k].begin) BY <1>2, <1>3, <1>4, <2>2 DEF Between
  <2>4. k > 1 => AtOrBefore(log[k - 1].end, pos)
    <3>1. k > 1 => k - 1 \in 1 .. done BY <1>3, <1>4
    <3> QED BY <2>2, <3>1 DEF Between
  <2>5. Whole(g, k) BY <1>3, <1>5, <1>7, <2>3, <2>4 DEF Whole
  <2>6. sent \in Seq(Given) BY <1>2 DEF ParserTypes
  <2>7. WholeTransactions' /\ sent' \in Seq(Given)
    BY <1>1, <1>2, <1>4, <1>7, <2>1, <2>5, <2>6, WholeSent
  <2>8. Len(sent) \in Nat /\ Len(sent') = Len(sent) + 1 /\ sent'[Len(sent) + 1] = g
    BY <1>7, <2>1, <2>6, Appended
  <2>9. sent' # sent BY <2>8
  <2>10. Handed = g BY <2>8 DEF Handed
  <2> QED BY <2>1, <2>7, <2>9, <2>10
<1>8. CASE Send(next, events, FALSE) /\ Return("sendError")
  <2>1. PICK g : g = [now |-> pos, next |-> q, events |-> events, accepted |-> FALSE] OBVIOUS
  <2>2. sent' = Append(sent, g) BY <1>6, <1>8, <2>1 DEF Send, PositionAfter
  <2>3. WholeTransactions' /\ sent' \in Seq(Given) /\ Handed = g BY <1>7, <2>1, <2>2
  <2>4. phase' = "idle" /\ FreshLocals(dumpPos) BY <1>8 DEF Return
  <2>5. Handed.accepted = FALSE BY <2>1, <2>3
  <2>6. accepted' = accepted /\ cursor' = NoCursor /\ connected' = FALSE
    BY <2>4, <2>5 DEF Handing, Close
  <2> QED BY <1>1, <2>3, <2>4, <2>6, StoppedKept
<1>9. CASE /\ Send(next, events, TRUE) /\ Running
           /\ pos' = PositionAfter(next)
           /\ tranEvents' = <<>> /\ autocommit' = TRUE
           /\ UNCHANGED <<format, tablesMaps>>
  <2>1. PICK g : g = [now |-> pos, next |-> q, events |-> events, accepted |-> TRUE] OBVIOUS
  <2>2. sent' = Append(sent, g) /\ pos' = q BY <1>6, <1>9, <2>1 DEF Send, PositionAfter
  <2>3. g \in Given /\ WholeTransactions' /\ sent' \in Seq(Given) /\ sent' # sent /\ Handed = g
    BY <1>7, <2>1, <2>2
  <2>4. g.accepted = TRUE /\ g.events = events /\ g.next = q BY <2>1
  <2>5. phase' = "parsing" /\ accepted' = Append(accepted, g) /\ connected' = connected
        /\ cursor' = [cursor EXCEPT !.off = @ + 1]
    BY <1>9, <2>3, <2>4 DEF Handing, Running
  <2>6. /\ cursor' \in [file : Nat, off : Nat, stage : {"rotate", "format", "events"}]
        /\ cursor'.file = q.file /\ cursor'.off = q.off /\ cursor'.stage = "events"
    <3>1. cursor \in [file : Nat, off : Nat, stage : {"rotate", "format", "events"}]
      BY <1>2 DEF ParserTypes
    <3>2. /\ cursor' \in [file : Nat, off : Nat, stage : {"rotate", "format", "events"}]
          /\ cursor'.file = cursor.file /\ cursor'.off = cursor.off + 1
          /\ cursor'.stage = cursor.stage
      BY <2>5, <3>1
    <3> QED BY <1>6, <3>2
  <2>7. /\ accepted' \in Seq(Given) /\ Len(accepted') = k /\ accepted'[k] = g
        /\ \A n \in 1 .. done : accepted'[n] = accepted[n]
    <3>1. accepted \in Seq(Given) /\ done = Len(accepted) BY <1>2 DEF ParserTypes, done
    <3> QED BY <1>3, <2>3, <2>5, <3>1, Appended
  <2>8. done' = k /\ here' = q
    <3>1. done' = k BY <2>7 DEF done
    <3>2. here' = [file |-> q.file, off |-> q.off] BY <2>6 DEF here
    <3> QED BY <1>6, <3>1, <3>2 DEF Place
  <2>9. <<>> \in Seq(StreamEvent) OBVIOUS
  <2>10. ParserTypes' BY <1>2, <1>6, <1>9, <2>2, <2>3, <2>5, <2>6, <2>7, <2>9 DEF ParserTypes
  <2>11. CacheNames(N)' BY <1>1, <1>2, <1>9, CacheKept
  <2>12. AcceptedInv'
    <3>1. \A n \in 1 .. k : ChangesIn(accepted'[n].events) = log[n].rows
      <4> TAKE n \in 1 .. k
      <4>1. CASE n = k BY <1>3, <2>4, <2>7, <4>1
      <4>2. CASE n \in 1 .. done BY <1>2, <2>7, <4>2 DEF AcceptedInv
      <4> QED BY <1>3, <1>4, <4>1, <4>2
    <3>2. accepted'[k].next = log[k].end BY <1>5, <2>4, <2>7
    <3>3. k <= Len(log) BY <1>4
    <3> QED BY <1>1, <2>5, <2>8, <3>1, <3>2, <3>3 DEF AcceptedInv
  <2>13. StageInv'
    <3>1. Between(binlog, log, k, q) /\ q.file \in 1 .. Len(binlog) /\ q.off <= Len(binlog[q.file])
      BY <1>2, <1>4, <1>5, EndBetween
    <3>2. Outside' BY <1>1, <1>9, <2>2, <2>6, <2>8, <3>1 DEF Outside
    <3> QED BY <1>1, <1>6, <1>9, <2>2, <2>6, <2>8, <3>1, <3>2 DEF StageInv
  <2> QED BY <2>3, <2>10, <2>11, <2>12, <2>13 DEF ParserInv
<1> QED BY <1>8, <1>9 DEF Commit

(* What is known before an event is received.                              *)
Receiving(N, e) ==
    /\ MasterInv(N) /\ ParserInv(N) /\ Handing
    /\ phase = "parsing" /\ UNCHANGED <<startPos, dumpPos>>
    /\ cursor.stage = "events" /\ cursor.off < Len(Events) /\ e = Events[cursor.off + 1]
    /\ Receives(e, cursor.off + 1)

LEMMA ReceivingFacts ==
    ASSUME NEW N, NEW e, Receiving(N, e)
    PROVE  /\ Typed(binlog, log) /\ LogInv(binlog, log) /\ Len(log) \in Nat
           /\ done \in 0 .. Len(log)
           /\ ParserTypes /\ CacheNames(N) /\ pos \in Place /\ format = "crc32"
           /\ tranEvents \in Seq(StreamEvent)
           /\ UNCHANGED master /\ nextId' = nextId
           /\ cursor.file \in 1 .. Len(binlog) /\ cursor.file \in Nat /\ cursor.off \in Nat
           /\ cursor.off < Len(binlog[cursor.file]) /\ cursor.off + 1 <= Len(binlog[cursor.file])
           /\ e = binlog[cursor.file][cursor.off + 1]
           /\ here \in Place /\ here.file = cursor.file /\ here.off = cursor.off
           /\ Between(binlog, log, done, pos) /\ (Outside \/ \E n \in Nat : Inside(n))
<1>1. /\ Typed(binlog, log) /\ LogInv(binlog, log) /\ Len(log) \in Nat
      /\ ParserTypes /\ CacheNames(N) /\ AcceptedInv /\ StageInv
  BY TypedFacts DEF Receiving, MasterInv, MasterTypes, Typed, ParserInv
<1>2. done \in 0 .. Len(log)
  <2>1. done \in Nat BY <1>1 DEF ParserTypes, done
  <2> QED BY <1>1, <2>1 DEF AcceptedInv
<1>3. UNCHANGED master /\ nextId' = nextId BY MasterSame DEF Receiving, Handing
<1>4. pos \in Place /\ tranEvents \in Seq(StreamEvent) /\ cursor.file \in Nat /\ cursor.off \in Nat
  BY <1>1 DEF ParserTypes
<1>5. here \in Place /\ here.file = cursor.file /\ here.off = cursor.off BY <1>4 DEF here, Place
<1>6. cursor.off < Len(binlog[cursor.file]) /\ e = binlog[cursor.file][cursor.off + 1]
  BY DEF Receiving, Events
<1>7. /\ cursor.file \in 1 .. Len(binlog) /\ Between(binlog, log, done, pos) /\ format = "crc32"
      /\ Outside \/ \E n \in Nat : Inside(n)
  BY <1>1 DEF StageInv, Receiving
<1>8. cursor.off + 1 <= Len(binlog[cursor.file])
  <2>1. Len(binlog[cursor.file]) \in Nat BY <1>1, <1>7, TypedFacts
  <2> QED BY <1>4, <1>6, <2>1
<1> QED BY <1>1, <1>2, <1>3, <1>4, <1>5, <1>6, <1>7, <1>8

LEMMA OutsideText ==
    ASSUME NEW N, NEW e, Receiving(N, e), Outside,
           e \in {[kind |-> "ignored"], query(<<"create">>), query(<<"alter">>)}
    PROVE  ParserInv(N)'
<1>1. Ignored BY TextReceived DEF Receiving
<1>2. Running /\ UNCHANGED <<pos, format, tranEvents, autocommit, tablesMaps, sent>>
  BY <1>1 DEF Ignored, locals
<1>3. /\ Typed(binlog, log) /\ LogInv(binlog, log) /\ done \in 0 .. Len(log)
      /\ ParserTypes /\ CacheNames(N) /\ pos \in Place /\ format = "crc32"
      /\ tranEvents \in Seq(StreamEvent)
      /\ UNCHANGED master /\ nextId' = nextId
      /\ cursor.file \in 1 .. Len(binlog) /\ cursor.off < Len(binlog[cursor.file])
      /\ cursor.off + 1 <= Len(binlog[cursor.file])
      /\ e = binlog[cursor.file][cursor.off + 1]
      /\ here \in Place /\ here.file = cursor.file /\ here.off = cursor.off
      /\ Between(binlog, log, done, pos)
  BY ReceivingFacts
<1>4. /\ Quiet /\ cursor' \in [file : Nat, off : Nat, stage : {"rotate", "format", "events"}]
      /\ cursor'.file = cursor.file /\ cursor'.off = cursor.off + 1 /\ cursor'.stage = "events"
      /\ here' = [file |-> cursor.file, off |-> cursor.off + 1] /\ done' = done
  BY <1>2, RunningFacts DEF Receiving
<1>5. Neutral(binlog, here.file, here.off + 1) BY <1>3 DEF Neutral
<1>6. autocommit /\ tranEvents = <<>> /\ Between(binlog, log, done, here)
      /\ (pos.file = cursor.file \/ cursor.off = Len(binlog[cursor.file]))
  BY DEF Outside
<1>7. pos.file = cursor.file
  <2>1. Len(binlog[cursor.file]) \in Nat BY <1>3, TypedFacts
  <2> QED BY <1>3, <1>6, <2>1
<1>8. Between(binlog, log, done, here') BY <1>3, <1>4, <1>5, <1>6, BehindNeutral
<1>9. binlog' = binlog /\ log' = log BY <1>3, MasterSame DEF Receiving
<1>10. Outside' BY <1>2, <1>4, <1>6, <1>7, <1>8, <1>9 DEF Outside
<1>11. CacheNames(N)' BY <1>2, <1>3, CacheKept
<1>12. /\ pos' \in Place /\ tranEvents' \in Seq(StreamEvent) /\ autocommit' \in BOOLEAN
       /\ tablesMaps' \in [TableIds -> TableCache \cup {NoTable}] /\ format' = "crc32"
  BY <1>2, <1>3 DEF ParserTypes
<1>13. /\ cursor'.file \in 1 .. Len(binlog) /\ cursor'.off <= Len(binlog[cursor'.file])
       /\ Between(binlog, log, done, pos')
  BY <1>2, <1>3, <1>4
<1> QED BY <1>4, <1>10, <1>11, <1>12, <1>13, EventsKept DEF Receiving

LEMMA OutsideRotate ==
    ASSUME NEW N, NEW e, Receiving(N, e), Outside,
           e = [kind |-> "rotate", to |-> [file |-> cursor.file + 1, off |-> 0]],
           cursor.off + 1 = Len(binlog[cursor.file]), cursor.file < Len(binlog)
    PROVE  ParserInv(N)'
<1>1. Rotate([file |-> cursor.file + 1, off |-> 0]) BY RotateReceived DEF Receiving
<1>2. /\ Running /\ pos' = [file |-> cursor.file + 1, off |-> 0]
      /\ UNCHANGED <<format, tranEvents, autocommit, tablesMaps, sent>>
  BY <1>1 DEF Rotate
<1>3. /\ Typed(binlog, log) /\ LogInv(binlog, log) /\ done \in 0 .. Len(log)
      /\ ParserTypes /\ CacheNames(N) /\ pos \in Place /\ format = "crc32"
      /\ tranEvents \in Seq(StreamEvent)
      /\ UNCHANGED master /\ nextId' = nextId
      /\ cursor.file \in 1 .. Len(binlog) /\ cursor.file \in Nat
      /\ cursor.off < Len(binlog[cursor.file])
      /\ cursor.off + 1 <= Len(binlog[cursor.file])
      /\ e = binlog[cursor.file][cursor.off + 1]
      /\ here \in Place /\ here.file = cursor.file /\ here.off = cursor.off
      /\ Between(binlog, log, done, pos)
  BY ReceivingFacts
<1>4. /\ Quiet /\ cursor' \in [file : Nat, off : Nat, stage : {"rotate", "format", "events"}]
      /\ cursor'.file = cursor.file /\ cursor'.off = cursor.off + 1 /\ cursor'.stage = "events"
      /\ here' = [file |-> cursor.file, off |-> cursor.off + 1] /\ done' = done
  BY <1>2, RunningFacts DEF Receiving
<1>5. Neutral(binlog, here.file, here.off + 1) BY <1>3 DEF Neutral
<1>6. autocommit /\ tranEvents = <<>> /\ Between(binlog, log, done, here)
  BY DEF Outside
<1>7. Between(binlog, log, done, here') BY <1>3, <1>4, <1>5, <1>6, BehindNeutral
<1>8. Between(binlog, log, done, [file |-> cursor.file, off |-> Len(binlog[cursor.file])])
  BY <1>4, <1>7
<1>9. Between(binlog, log, done, pos') BY <1>2, <1>3, <1>8, NextFileBetween
<1>10. binlog' = binlog /\ log' = log BY <1>3, MasterSame DEF Receiving
<1>11. Outside' BY <1>2, <1>4, <1>6, <1>7, <1>10 DEF Outside
<1>12. CacheNames(N)' BY <1>2, <1>3, CacheKept
<1>13. pos' \in Place BY <1>2, <1>3 DEF Place
<1>14. /\ tranEvents' \in Seq(StreamEvent) /\ autocommit' \in BOOLEAN
       /\ tablesMaps' \in [TableIds -> TableCache \cup {NoTable}] /\ format' = "crc32"
  BY <1>2, <1>3 DEF ParserTypes
<1>15. /\ cursor'.file \in 1 .. Len(binlog) /\ cursor'.off <= Len(binlog[cursor'.file])
  BY <1>3, <1>4
<1> QED BY <1>4, <1>9, <1>11, <1>12, <1>13, <1>14, <1>15, EventsKept DEF Receiving

LEMMA OutsideBegin ==
    ASSUME NEW N, NEW e, Receiving(N, e), Outside, e = query(<<"begin">>), done < Len(log),
           log[done + 1].begin = here
    PROVE  ParserInv(N)'
<1>1. Begin BY BeginReceived DEF Receiving
<1>2. /\ Running /\ tranEvents' = <<>> /\ autocommit' = FALSE
      /\ UNCHANGED <<pos, format, tablesMaps, sent>>
  BY <1>1 DEF Begin
<1>3. /\ Typed(binlog, log) /\ LogInv(binlog, log) /\ done \in 0 .. Len(log) /\ Len(log) \in Nat
      /\ ParserTypes /\ CacheNames(N) /\ pos \in Place /\ format = "crc32"
      /\ UNCHANGED master /\ nextId' = nextId
      /\ cursor.file \in 1 .. Len(binlog) /\ cursor.off < Len(binlog[cursor.file])
      /\ cursor.off + 1 <= Len(binlog[cursor.file])
      /\ here \in Place /\ here.file = cursor.file /\ here.off = cursor.off
      /\ Between(binlog, log, done, pos)
  BY ReceivingFacts
<1>4. /\ Quiet /\ cursor' \in [file : Nat, off : Nat, stage : {"rotate", "format", "events"}]
      /\ cursor'.file = cursor.file /\ cursor'.off = cursor.off + 1 /\ cursor'.stage = "events"
      /\ done' = done
  BY <1>2, RunningFacts DEF Receiving
<1>5. pos.file = cursor.file \/ cursor.off = Len(binlog[cursor.file])
  BY DEF Outside
<1>6. pos.file = cursor.file
  <2>1. Len(binlog[cursor.file]) \in Nat BY <1>3, TypedFacts
  <2> QED BY <1>3, <1>5, <2>1
<1>7. done + 1 \in 1 .. Len(log) BY <1>3
<1>8. InsideAt(binlog, log[done + 1], 0, here.file, here.off + 1, <<>>, tablesMaps)
  BY <1>3, <1>7, InsideBegins
<1>9. binlog' = binlog /\ log' = log BY <1>3, MasterSame DEF Receiving
<1>10. InsideAt(binlog', log'[done' + 1], 0, cursor'.file, cursor'.off, ChangesIn(tranEvents'),
           tablesMaps')
  BY <1>2, <1>3, <1>4, <1>8, <1>9, NoChanges
<1>11. Inside(0)' BY <1>2, <1>4, <1>6, <1>9, <1>10 DEF Inside
<1>12. CacheNames(N)' BY <1>2, <1>3, CacheKept
<1>13. /\ pos' \in Place /\ autocommit' \in BOOLEAN
       /\ tablesMaps' \in [TableIds -> TableCache \cup {NoTable}] /\ format' = "crc32"
  BY <1>2, <1>3 DEF ParserTypes
<1>14. tranEvents' \in Seq(StreamEvent) BY <1>2
<1>15. /\ cursor'.file \in 1 .. Len(binlog) /\ cursor'.off <= Len(binlog[cursor'.file])
       /\ Between(binlog, log, done, pos')
  BY <1>2, <1>3, <1>4
<1> QED BY <1>4, <1>11, <1>12, <1>13, <1>14, <1>15, EventsKept DEF Receiving

(* A table map event of the transaction being read.                        *)
LEMMA InsideTableMap ==
    ASSUME NEW N, NEW e, Receiving(N, e), NEW n \in Nat, Inside(n), e.kind = "tablemap",
           \A later : Mapped(later, e) =>
               InsideAt(binlog, log[done + 1], n, cursor.file, cursor.off + 1,
                   ChangesIn(tranEvents), later)
    PROVE  ParserInv(N)'
<1>1. MappedTableMap(e.id, e.def) BY TableMapReceived DEF Receiving
<1>2. CASE TableMapRefused(e.id)
  <2>1. Return("error") /\ UNCHANGED sent BY <1>2 DEF TableMapRefused, Reject
  <2> QED BY <2>1, RejectKept DEF Receiving
<1>3. CASE TableMap(e.id, e.def, cols[e.def.name])
  <2>1. PICK id, def : id = e.id /\ def = e.def OBVIOUS
  <2>2. /\ Typed(binlog, log) /\ done \in 0 .. Len(log)
        /\ ParserTypes /\ CacheNames(N) /\ pos \in Place /\ format = "crc32"
        /\ tranEvents \in Seq(StreamEvent)
        /\ UNCHANGED master /\ nextId' = nextId
        /\ cursor.file \in 1 .. Len(binlog) /\ cursor.off \in Nat
        /\ cursor.off < Len(binlog[cursor.file])
        /\ cursor.off + 1 <= Len(binlog[cursor.file])
        /\ e = binlog[cursor.file][cursor.off + 1] /\ Between(binlog, log, done, pos)
    BY ReceivingFacts
  <2>3. /\ cursor.off + 1 \in 1 .. Len(binlog[cursor.file]) /\ e \in BinlogEvent
    <3>1. binlog[cursor.file] \in Seq(BinlogEvent) BY <2>2, TypedFacts
    <3>2. Len(binlog[cursor.file]) \in Nat BY <3>1
    <3>3. cursor.off + 1 \in 1 .. Len(binlog[cursor.file]) BY <2>2, <3>2
    <3> QED BY <2>2, <3>1, <3>3
  <2>4. id \in TableIds /\ def \in TableDef BY <2>1, <2>3, Kinds
  <2>5. id \in 1 .. nextId - 1 /\ N[id] = def.name
    <3>1. BinlogNames(N, binlog, nextId - 1) BY DEF Receiving, MasterInv, MasterNames
    <3> QED BY <2>1, <2>2, <2>3, <3>1 DEF BinlogNames
  <2>6. Running /\ UNCHANGED <<pos, format, tranEvents, autocommit, sent>> BY <1>3 DEF TableMap
  <2>7. PICK entry : /\ tablesMaps' = [tablesMaps EXCEPT ![id] = entry]
                     /\ \/ /\ tablesMaps[id] # NoTable
                           /\ entry = [tableMap |-> def, table |-> tablesMaps[id].table]
                        \/ entry = [tableMap |-> def,
                                    table |-> [name |-> def.name, cols |-> cols[def.name]]]
    BY <1>3, <2>1 DEF TableMap, Cached
  <2>8. tablesMaps \in [TableIds -> TableCache \cup {NoTable}] BY <2>2 DEF ParserTypes
  <2>9. entry \in TableCache /\ entry.table.name = def.name
    <3>1. CASE entry = [tableMap |-> def, table |-> [name |-> def.name, cols |-> cols[def.name]]]
      <4>1. cols[def.name] \in Layout /\ def.name \in TableNames
        BY <2>4 DEF TableDef, Receiving, MasterInv, MasterTypes
      <4> QED BY <2>4, <3>1, <4>1 DEF TableCache, TableDef
    <3>2. CASE tablesMaps[id] # NoTable /\ entry = [tableMap |-> def,
              table |-> tablesMaps[id].table]
      <4>1. tablesMaps[id] \in TableCache BY <2>4, <2>8, <3>2
      <4>2. tablesMaps[id].table \in TableDef BY <4>1 DEF TableCache
      <4>3. tablesMaps[id].table.name = N[id] BY <2>2, <2>4, <3>2 DEF CacheNames
      <4> QED BY <2>4, <2>5, <3>2, <4>2, <4>3 DEF TableCache
    <3> QED BY <2>7, <3>1, <3>2
  <2>10. /\ tablesMaps' \in [TableIds -> TableCache \cup {NoTable}] /\ tablesMaps'[id] = entry
         /\ \A other \in TableIds : other # id => tablesMaps'[other] = tablesMaps[other]
    BY <2>4, <2>7, <2>8, <2>9
  <2>11. CacheNames(N)'
    <3> SUFFICES ASSUME NEW other \in TableIds, tablesMaps'[other] # NoTable
                 PROVE  other \in 1 .. nextId - 1 /\ tablesMaps'[other].table.name = N[other]
      BY <2>2 DEF CacheNames
    <3>1. CASE other = id BY <2>5, <2>9, <2>10, <3>1
    <3>2. CASE other # id BY <2>2, <2>10, <3>2 DEF CacheNames
    <3> QED BY <3>1, <3>2
  <2>12. Mapped(tablesMaps', e)
    <3>1. entry # NoTable BY <2>9, NoTableAssumption
    <3> QED BY <2>1, <2>9, <2>10, <3>1 DEF Mapped
  <2>13. InsideAt(binlog, log[done + 1], n, cursor.file, cursor.off + 1, ChangesIn(tranEvents),
             tablesMaps')
    BY <2>12
  <2>14. /\ Quiet /\ cursor' \in [file : Nat, off : Nat, stage : {"rotate", "format", "events"}]
         /\ cursor'.file = cursor.file /\ cursor'.off = cursor.off + 1 /\ cursor'.stage = "events"
         /\ done' = done
    BY <2>6, RunningFacts DEF Receiving
  <2>15. binlog' = binlog /\ log' = log BY <2>2, MasterSame DEF Receiving
  <2>16. ~autocommit /\ done < Len(log) /\ pos.file = cursor.file BY DEF Inside
  <2>17. InsideAt(binlog', log'[done' + 1], n, cursor'.file, cursor'.off, ChangesIn(tranEvents'),
             tablesMaps')
    BY <2>6, <2>13, <2>14, <2>15
  <2>18. Inside(n)' BY <2>6, <2>14, <2>15, <2>16, <2>17 DEF Inside
  <2>19. /\ pos' \in Place /\ autocommit' \in BOOLEAN /\ format' = "crc32"
         /\ tranEvents' \in Seq(StreamEvent)
    BY <2>2, <2>6 DEF ParserTypes
  <2>20. /\ cursor'.file \in 1 .. Len(binlog) /\ cursor'.off <= Len(binlog[cursor'.file])
         /\ Between(binlog, log, done, pos')
    BY <2>2, <2>6, <2>14
  <2> QED BY <2>10, <2>11, <2>14, <2>18, <2>19, <2>20, EventsKept DEF Receiving
<1> QED BY <1>1, <1>2, <1>3 DEF MappedTableMap

(* A rows event of the transaction being read, o the offset before it.     *)
LEMMA InsideRows ==
    ASSUME NEW N, NEW e, Receiving(N, e), NEW n \in Nat, Inside(n), e.kind = "rows",
           NEW map, e.id = map.id, Mapped(tablesMaps, map),
           \A x : x = [op |-> e.op, table |-> map.def.name, row |-> e.row] /\ x \in LoggedRow =>
               InsideAt(binlog, log[done + 1], n + 1, cursor.file, cursor.off + 1,
                        Append(ChangesIn(tranEvents), x), tablesMaps)
    PROVE  ParserInv(N)'
<1>1. PICK count : \/ Rows(e.op, e.id, count, TRUE, cursor.off + 1, e.row)
                   \/ RowsRefused(e.id, count, TRUE) \/ RowsPanic(e.id, count, TRUE)
  BY RowsReceived DEF Receiving
<1>2. CASE RowsRefused(e.id, count, TRUE) \/ RowsPanic(e.id, count, TRUE)
  <2>1. UNCHANGED sent /\ \E why : Return(why) BY <1>2 DEF RowsRefused, RowsPanic, Reject
  <2> QED BY <2>1, RejectKept DEF Receiving
<1>3. CASE Rows(e.op, e.id, count, TRUE, cursor.off + 1, e.row)
  <2>1. PICK id, tc : id = e.id /\ tc = tablesMaps[id] OBVIOUS
  <2>2. /\ Typed(binlog, log) /\ done \in 0 .. Len(log)
        /\ ParserTypes /\ CacheNames(N) /\ pos \in Place /\ format = "crc32"
        /\ tranEvents \in Seq(StreamEvent)
        /\ UNCHANGED master /\ nextId' = nextId
        /\ cursor.file \in 1 .. Len(binlog) /\ cursor.off \in Nat
        /\ cursor.off < Len(binlog[cursor.file])
        /\ cursor.off + 1 <= Len(binlog[cursor.file])
        /\ e = binlog[cursor.file][cursor.off + 1] /\ Between(binlog, log, done, pos)
    BY ReceivingFacts
  <2>3. e \in BinlogEvent
    <3>1. binlog[cursor.file] \in Seq(BinlogEvent) BY <2>2, TypedFacts
    <3>2. Len(binlog[cursor.file]) \in Nat BY <3>1
    <3>3. cursor.off + 1 \in 1 .. Len(binlog[cursor.file]) BY <2>2, <3>2
    <3> QED BY <2>2, <3>1, <3>3
  <2>4. e.op \in Operations /\ id \in TableIds /\ e.row \in Nat BY <2>1, <2>3, Kinds
  <2>5. ~autocommit /\ done < Len(log) /\ pos.file = cursor.file BY DEF Inside
  <2>6. PICK added : added = RowEvent(e.op, tc, e.row) OBVIOUS
  <2>7. /\ tc # NoTable /\ tranEvents' = Append(tranEvents, added) /\ Running
        /\ UNCHANGED <<pos, format, autocommit, tablesMaps, sent>>
    BY <1>3, <2>1, <2>5, <2>6 DEF Rows
  <2>8. tc \in TableCache BY <2>1, <2>2, <2>4, <2>7 DEF ParserTypes
  <2>9. /\ added \in StreamEvent /\ added.op = e.op /\ added.table.name = tc.table.name
        /\ added.row = e.row
    BY <2>4, <2>6, <2>8 DEF RowEvent, StreamEvent, TableCache
  <2>10. tc.table.name = map.def.name BY <2>1 DEF Mapped
  <2>11. PICK x : x = [op |-> e.op, table |-> map.def.name, row |-> e.row] OBVIOUS
  <2>12. x \in LoggedRow
    <3>1. tc.table \in TableDef BY <2>8 DEF TableCache
    <3>2. map.def.name \in TableNames BY <2>10, <3>1 DEF TableDef
    <3> QED BY <2>4, <2>11, <3>2 DEF LoggedRow
  <2>13. tranEvents' \in Seq(StreamEvent) /\ ChangesIn(tranEvents') = Append(ChangesIn(tranEvents),
             x)
    <3>1. x = [op |-> added.op, table |-> added.table.name, row |-> added.row] BY <2>9, <2>10, <2>11
    <3>2. /\ Append(tranEvents, added) \in Seq(StreamEvent)
          /\ ChangesIn(Append(tranEvents, added)) = Append(ChangesIn(tranEvents), x)
      BY <2>2, <2>9, <3>1, OneMoreChange, Zenon
    <3> QED BY <2>7, <3>2
  <2>14. InsideAt(binlog, log[done + 1], n + 1, cursor.file, cursor.off + 1,
             ChangesIn(tranEvents'), tablesMaps)
    BY <2>11, <2>12, <2>13
  <2>15. /\ Quiet /\ cursor' \in [file : Nat, off : Nat, stage : {"rotate", "format", "events"}]
         /\ cursor'.file = cursor.file /\ cursor'.off = cursor.off + 1 /\ cursor'.stage = "events"
         /\ done' = done
    BY <2>7, RunningFacts DEF Receiving
  <2>16. binlog' = binlog /\ log' = log BY <2>2, MasterSame DEF Receiving
  <2>17. InsideAt(binlog', log'[done' + 1], n + 1, cursor'.file, cursor'.off,
             ChangesIn(tranEvents'), tablesMaps')
    BY <2>7, <2>14, <2>15, <2>16
  <2>18. Inside(n + 1)' BY <2>5, <2>7, <2>15, <2>16, <2>17 DEF Inside
  <2>19. /\ pos' \in Place /\ autocommit' \in BOOLEAN /\ format' = "crc32"
         /\ tablesMaps' \in [TableIds -> TableCache \cup {NoTable}]
    BY <2>2, <2>7 DEF ParserTypes
  <2>20. /\ cursor'.file \in 1 .. Len(binlog) /\ cursor'.off <= Len(binlog[cursor'.file])
         /\ Between(binlog, log, done, pos')
    BY <2>2, <2>7, <2>15
  <2>21. CacheNames(N)' BY <2>2, <2>7, CacheKept
  <2>22. n + 1 \in Nat OBVIOUS
  <2> QED BY <2>13, <2>15, <2>18, <2>19, <2>20, <2>21, <2>22, EventsKept DEF Receiving
<1> QED BY <1>1, <1>2, <1>3

LEMMA EventReceived ==
    ASSUME NEW N, NEW e, Receiving(N, e)
    PROVE  ParserInv(N)'
<1>1. /\ Typed(binlog, log) /\ LogInv(binlog, log) /\ Len(log) \in Nat /\ done \in 0 .. Len(log)
      /\ tranEvents \in Seq(StreamEvent)
      /\ cursor.file \in 1 .. Len(binlog) /\ cursor.off < Len(binlog[cursor.file])
      /\ e = binlog[cursor.file][cursor.off + 1]
      /\ here \in Place /\ here.file = cursor.file /\ here.off = cursor.off
      /\ Outside \/ \E n \in Nat : Inside(n)
  BY ReceivingFacts
<1>2. CASE Outside
  <2>1. Between(binlog, log, done, here) BY <1>2 DEF Outside
  <2>2. \/ Neutral(binlog, cursor.file, cursor.off + 1)
        \/ done < Len(log) /\ log[done + 1].begin = here /\ e = query(<<"begin">>)
    BY <1>1, <2>1, NextEvent
  <2>3. CASE Neutral(binlog, cursor.file, cursor.off + 1)
    BY <1>1, <1>2, <2>3, OutsideText, OutsideRotate DEF Neutral
  <2> QED BY <1>2, <2>2, <2>3, OutsideBegin
<1>3. ASSUME NEW n \in Nat, Inside(n) PROVE ParserInv(N)'
  <2>1. /\ done < Len(log) /\ pos.file = cursor.file
        /\ InsideAt(binlog, log[done + 1], n, cursor.file, cursor.off, ChangesIn(tranEvents),
              tablesMaps)
    BY <1>3 DEF Inside
  <2>2. done + 1 \in 1 .. Len(log) BY <1>1, <2>1
  <2>3. ChangesIn(tranEvents) \in Seq(LoggedRow) BY <1>1, ChangesOf
  <2>4. PICK map : map = binlog[cursor.file][cursor.off] OBVIOUS
  <2>5. \/ /\ e.kind = "tablemap"
           /\ \A later : Mapped(later, e) =>
                  InsideAt(binlog, log[done + 1], n, cursor.file, cursor.off + 1,
                      ChangesIn(tranEvents), later)
        \/ /\ e.kind = "rows" /\ e.id = map.id /\ Mapped(tablesMaps, map)
           /\ \A x : x = [op |-> e.op, table |-> map.def.name, row |-> e.row] /\ x \in LoggedRow =>
                  InsideAt(binlog, log[done + 1], n + 1, cursor.file, cursor.off + 1,
                           Append(ChangesIn(tranEvents), x), tablesMaps)
        \/ /\ log[done + 1].end = [file |-> cursor.file, off |-> cursor.off + 1]
           /\ \/ e \in {[kind |-> "xid"], query(<<"commit">>)}
                 /\ ChangesIn(tranEvents) = log[done + 1].rows
              \/ e = query(<<"rollback">>) /\ log[done + 1].rows = <<>>
    <3>1. Follows(binlog, log[done + 1], n, cursor.file, cursor.off, ChangesIn(tranEvents),
              tablesMaps)
      BY <1>1, <2>1, <2>2, <2>3, InsideNext
    <3> QED BY <1>1, <2>4, <3>1, Zenon DEF Follows
  <2>6. ASSUME e \in {[kind |-> "xid"], query(<<"commit">>)},
               ChangesIn(tranEvents) = log[done + 1].rows,
               log[done + 1].end = [file |-> cursor.file, off |-> cursor.off + 1]
        PROVE  ParserInv(N)'
    <3>1. Commit(cursor.off + 1, tranEvents) BY <2>6, CommitReceived DEF Receiving
    <3> QED BY <1>1, <2>1, <2>6, <3>1, CommitKept DEF Receiving
  <2>7. ASSUME e = query(<<"rollback">>), log[done + 1].rows = <<>>,
               log[done + 1].end = [file |-> cursor.file, off |-> cursor.off + 1]
        PROVE  ParserInv(N)'
    <3>1. Commit(cursor.off + 1, <<>>) BY <2>7, RollbackReceived DEF Receiving
    <3>2. <<>> \in Seq(StreamEvent) OBVIOUS
    <3> QED BY <1>1, <2>1, <2>7, <3>1, <3>2, NoChanges, CommitKept DEF Receiving
  <2> QED BY <1>3, <2>5, <2>6, <2>7, InsideTableMap, InsideRows
<1> QED BY <1>1, <1>2, <1>3

LEMMA SendEventKept ==
    ASSUME NEW N, MasterInv(N), ParserInv(N), SendEvent
    PROVE  ParserInv(N)'
<1>1. PICK e : e = Events[cursor.off + 1] OBVIOUS
<1>2. /\ cursor.stage = "events" /\ cursor.off < Len(Events) /\ Receives(e, cursor.off + 1)
      /\ Handing
  BY <1>1 DEF SendEvent, Handing
<1>3. phase = "parsing" /\ UNCHANGED <<startPos, dumpPos>> BY <1>2, AnyReceived
<1> QED BY <1>1, <1>2, <1>3, EventReceived DEF Receiving

-----------------------------------------------------------------------------
(* The other steps of the dump, of the connection and of the application.  *)

(* Nothing that the invariant speaks of changes but the connection.        *)
LEMMA SameKept ==
    ASSUME NEW N, MasterInv(N), ParserInv(N), UNCHANGED master, connected' \in BOOLEAN,
           UNCHANGED <<startPos, phase, dumpPos, pos, format, tranEvents, autocommit, tablesMaps,
               sent,
                       cursor, accepted>>
    PROVE  ParserInv(N)'
<1>1. binlog' = binlog /\ log' = log /\ nextId' = nextId BY MasterSame
<1>2. ParserTypes /\ CacheNames(N) /\ AcceptedInv /\ StageInv /\ WholeTransactions BY DEF ParserInv
<1>3. ParserTypes' BY <1>2 DEF ParserTypes
<1>4. CacheNames(N)' BY <1>1, <1>2, CacheKept
<1>5. done' = done /\ here' = here /\ Saved' = Saved BY DEF done, here, Saved, Start
<1>6. AcceptedInv' BY <1>1, <1>2, <1>5 DEF AcceptedInv
<1>7. Outside => Outside' BY <1>1, <1>5 DEF Outside
<1>8. ASSUME NEW n \in Nat, Inside(n) PROVE Inside(n)' BY <1>1, <1>5, <1>8 DEF Inside
<1>9. StageInv' BY <1>1, <1>2, <1>5, <1>7, <1>8 DEF StageInv
<1>10. WholeTransactions' BY <1>1, <1>2, WholeKept
<1> QED BY <1>3, <1>4, <1>6, <1>9, <1>10 DEF ParserInv

(* Steps between two runs of the parser.                                   *)
LEMMA IdleKept ==
    ASSUME NEW N, MasterInv(N), ParserInv(N), UNCHANGED master,
           UNCHANGED <<pos, format, tranEvents, autocommit, tablesMaps, sent, cursor, connected,
               accepted>>,
           startPos' \in Place, dumpPos' \in Place, phase' \in {"idle", "dumping"},
           phase' = "dumping" => dumpPos' = Saved /\ startPos' = Saved
    PROVE  ParserInv(N)'
<1>1. binlog' = binlog /\ log' = log /\ nextId' = nextId BY MasterSame
<1>2. ParserTypes /\ CacheNames(N) /\ AcceptedInv /\ WholeTransactions BY DEF ParserInv
<1>3. ParserTypes' BY <1>2 DEF ParserTypes
<1>4. CacheNames(N)' BY <1>1, <1>2, CacheKept
<1>5. done' = done /\ Saved' = Saved BY DEF done, Saved, Start
<1>6. AcceptedInv' BY <1>1, <1>2, <1>5 DEF AcceptedInv
<1>7. StageInv' BY DEF StageInv
<1>8. WholeTransactions' BY <1>1, <1>2, WholeKept
<1> QED BY <1>3, <1>4, <1>6, <1>7, <1>8 DEF ParserInv

LEMMA SavedFacts ==
    ASSUME NEW N, MasterInv(N), ParserInv(N)
    PROVE  /\ Saved \in Place /\ Between(binlog, log, done, Saved)
           /\ Saved.file \in 1 .. Len(binlog) /\ Saved.off <= Len(binlog[Saved.file])
<1>1. /\ Typed(binlog, log) /\ LogInv(binlog, log) /\ ParserTypes /\ AcceptedInv
      /\ Len(log) \in Nat /\ Len(binlog) \in Nat \ {0}
  BY TypedFacts DEF MasterInv, MasterTypes, Typed, ParserInv
<1>2. accepted \in Seq(Given) /\ done \in Nat BY <1>1 DEF ParserTypes, done
<1>3. CASE accepted = <<>>
  <2>1. Saved = Start /\ done = 0 BY <1>3 DEF Saved, done
  <2>2. 1 \in 1 .. Len(binlog) BY <1>1
  <2>3. Len(binlog[1]) \in Nat BY <1>1, <2>2, TypedFacts
  <2>4. Start \in Place /\ Start.file = 1 /\ Start.off = 0 BY DEF Start, Place
  <2>5. Between(binlog, log, 0, Start) BY <1>1, StartBetween
  <2> QED BY <2>1, <2>2, <2>3, <2>4, <2>5
<1>4. CASE accepted # <<>>
  <2>1. done > 0 BY <1>2, <1>4 DEF done
  <2>2. done \in 1 .. Len(log) BY <1>1, <1>2, <2>1 DEF AcceptedInv
  <2>3. Saved = log[done].end BY <1>1, <1>4, <2>1 DEF Saved, AcceptedInv, done
  <2>4. log[done].end \in Place BY <1>1, <2>2, TypedFacts
  <2> QED BY <1>1, <2>2, <2>3, <2>4, EndBetween
<1> QED BY <1>3, <1>4

LEMMA SendFakeRotateKept ==
    ASSUME NEW N, MasterInv(N), ParserInv(N), SendFakeRotate
    PROVE  ParserInv(N)'
<1>1. /\ ParserTypes /\ CacheNames(N) /\ StageInv /\ UNCHANGED master
      /\ nextId' = nextId /\ binlog' = binlog /\ log' = log
  BY MasterSame DEF ParserInv, SendFakeRotate
<1>2. /\ phase = "parsing" /\ UNCHANGED <<phase, startPos, dumpPos, sent, accepted, connected>>
      /\ UNCHANGED <<format, tranEvents, autocommit, tablesMaps>>
      /\ cursor.stage = "rotate" /\ cursor' = [cursor EXCEPT !.stage = "format"]
      /\ pos' = here
  <2>1. CASE EarlyRotate
    <3>1. phase = "parsing" /\ format = "zero" /\ pos' = pos
      BY <2>1 DEF EarlyRotate, Receive, locals
    <3>2. pos = here BY <1>1, <3>1 DEF StageInv, SendFakeRotate
    <3> QED BY <2>1, <3>1, <3>2 DEF SendFakeRotate, EarlyRotate, Receive, Running, locals,
         application
  <2>2. CASE Rotate([file |-> cursor.file, off |-> cursor.off])
    BY <2>2 DEF SendFakeRotate, Rotate, Parse, Receive, Running, here, application
  <2> QED BY <2>1, <2>2 DEF SendFakeRotate
<1>3. cursor \in [file : Nat, off : Nat, stage : {"rotate", "format", "events"}]
  BY <1>1 DEF ParserTypes
<1>4. /\ cursor' \in [file : Nat, off : Nat, stage : {"rotate", "format", "events"}]
      /\ cursor'.file = cursor.file /\ cursor'.off = cursor.off /\ cursor'.stage = "format"
  BY <1>2, <1>3
<1>5. here' = here /\ here \in Place /\ done' = done BY <1>2, <1>3, <1>4 DEF here, Place, done
<1>6. StageInv'
  <2>1. /\ cursor.file \in 1 .. Len(binlog) /\ cursor.off <= Len(binlog[cursor.file])
        /\ autocommit /\ tranEvents = <<>> /\ Between(binlog, log, done, here)
    BY <1>1, <1>2 DEF StageInv
  <2> QED BY <1>1, <1>2, <1>4, <1>5, <2>1 DEF StageInv
<1>7. CacheNames(N)' BY <1>1, <1>2, CacheKept
<1>8. Quiet BY <1>1, <1>2 DEF Quiet
<1>9. /\ pos' \in Place /\ format' \in Formats /\ tranEvents' \in Seq(StreamEvent)
      /\ autocommit' \in BOOLEAN
      /\ tablesMaps' \in [TableIds -> TableCache \cup {NoTable}]
  BY <1>1, <1>2, <1>5 DEF ParserTypes
<1> QED BY <1>4, <1>6, <1>7, <1>8, <1>9, QuietKept

LEMMA SendFormatKept ==
    ASSUME NEW N, MasterInv(N), ParserInv(N), SendFormat
    PROVE  ParserInv(N)'
<1>1. /\ ParserTypes /\ CacheNames(N) /\ StageInv /\ UNCHANGED master
      /\ nextId' = nextId /\ binlog' = binlog /\ log' = log
  BY MasterSame DEF ParserInv, SendFormat
<1>2. /\ phase = "parsing" /\ UNCHANGED <<phase, startPos, dumpPos, sent, accepted, connected>>
      /\ format' = "crc32" /\ UNCHANGED <<pos, tranEvents, autocommit, tablesMaps>>
      /\ cursor.stage = "format" /\ cursor' = [cursor EXCEPT !.stage = "events"]
  BY DEF SendFormat, FormatDescription, Receive, Running, application
<1>3. cursor \in [file : Nat, off : Nat, stage : {"rotate", "format", "events"}]
  BY <1>1 DEF ParserTypes
<1>4. /\ cursor' \in [file : Nat, off : Nat, stage : {"rotate", "format", "events"}]
      /\ cursor'.file = cursor.file /\ cursor'.off = cursor.off /\ cursor'.stage = "events"
  BY <1>2, <1>3
<1>5. here' = here /\ done' = done /\ here.file = cursor.file BY <1>2, <1>4 DEF here, done
<1>6. /\ cursor.file \in 1 .. Len(binlog) /\ cursor.off <= Len(binlog[cursor.file])
      /\ autocommit /\ tranEvents = <<>> /\ Between(binlog, log, done, here) /\ pos = here
      /\ Between(binlog, log, done, pos)
  BY <1>1, <1>2 DEF StageInv
<1>7. Outside' BY <1>1, <1>2, <1>4, <1>5, <1>6 DEF Outside
<1>8. CacheNames(N)' BY <1>1, <1>2, CacheKept
<1>9. Quiet BY <1>1, <1>2 DEF Quiet
<1>10. /\ pos' \in Place /\ tranEvents' \in Seq(StreamEvent) /\ autocommit' \in BOOLEAN
       /\ tablesMaps' \in [TableIds -> TableCache \cup {NoTable}]
  BY <1>1, <1>2 DEF ParserTypes
<1>11. /\ cursor'.file \in 1 .. Len(binlog) /\ cursor'.off <= Len(binlog[cursor'.file])
       /\ Between(binlog, log, done, pos')
  BY <1>2, <1>4, <1>6
<1> QED BY <1>2, <1>4, <1>7, <1>8, <1>9, <1>10, <1>11, EventsKept

LEMMA NextFileKept ==
    ASSUME NEW N, MasterInv(N), ParserInv(N), NextFile
    PROVE  ParserInv(N)'
<1>1. /\ ParserTypes /\ CacheNames(N) /\ AcceptedInv /\ StageInv /\ UNCHANGED master
      /\ nextId' = nextId /\ binlog' = binlog /\ log' = log
      /\ Typed(binlog, log) /\ LogInv(binlog, log) /\ Len(log) \in Nat /\ Len(binlog) \in Nat
  BY MasterSame, TypedFacts DEF ParserInv, NextFile, MasterInv, MasterTypes, Typed
<1>2. /\ phase = "parsing" /\ UNCHANGED <<phase, startPos, dumpPos, sent, accepted, connected>>
      /\ UNCHANGED <<pos, format, tranEvents, autocommit, tablesMaps>>
      /\ cursor.stage = "events" /\ cursor.off = Len(binlog[cursor.file])
      /\ cursor.file < Len(binlog)
      /\ cursor' = [file |-> cursor.file + 1, off |-> 0, stage |-> "rotate"]
  BY DEF NextFile, vars, locals, application, Events, LastFile
<1>3. done \in 0 .. Len(log) /\ done' = done
  <2>1. done \in Nat BY <1>1 DEF ParserTypes, done
  <2>2. done' = done BY <1>2 DEF done
  <2> QED BY <1>1, <2>1, <2>2 DEF AcceptedInv
<1>4. /\ cursor.file \in 1 .. Len(binlog) /\ Between(binlog, log, done, pos) /\ format = "crc32"
      /\ Outside \/ \E n \in Nat : Inside(n)
  BY <1>1, <1>2 DEF StageInv
<1>5. Outside
  <2> SUFFICES ASSUME NEW n \in Nat, Inside(n) PROVE FALSE BY <1>4
  <2>1. /\ done < Len(log)
        /\ InsideAt(binlog, log[done + 1], n, cursor.file, cursor.off, ChangesIn(tranEvents),
              tablesMaps)
    BY DEF Inside
  <2>2. done + 1 \in 1 .. Len(log) BY <1>1, <1>3, <2>1
  <2>3. tranEvents \in Seq(StreamEvent) BY <1>1 DEF ParserTypes
  <2>4. ChangesIn(tranEvents) \in Seq(LoggedRow) BY <2>3, ChangesOf
  <2>5. cursor.off < Len(binlog[cursor.file]) BY <1>1, <2>1, <2>2, <2>4, InsideNext
  <2>6. Len(binlog[cursor.file]) \in Nat BY <1>1, <1>4, TypedFacts
  <2> QED BY <1>2, <2>5, <2>6
<1>6. autocommit /\ tranEvents = <<>> /\ Between(binlog, log, done, here) BY <1>5 DEF Outside
<1>7. Between(binlog, log, done, [file |-> cursor.file + 1, off |-> 0])
  <2>1. Between(binlog, log, done, [file |-> cursor.file, off |-> Len(binlog[cursor.file])])
    BY <1>2, <1>6 DEF here
  <2> QED BY <1>1, <1>2, <1>3, <1>4, <2>1, NextFileBetween
<1>8. cursor.file \in Nat /\ cursor.file + 1 \in 1 .. Len(binlog) BY <1>1, <1>2, <1>4
<1>9. Len(binlog[cursor.file + 1]) \in Nat BY <1>1, <1>8, TypedFacts
<1>10. /\ cursor' \in [file : Nat, off : Nat, stage : {"rotate", "format", "events"}]
       /\ cursor'.file = cursor.file + 1 /\ cursor'.off = 0 /\ cursor'.stage = "rotate"
  BY <1>2, <1>8
<1>11. here' = [file |-> cursor.file + 1, off |-> 0] BY <1>10 DEF here
<1>12. StageInv' BY <1>1, <1>2, <1>3, <1>4, <1>6, <1>7, <1>8, <1>9, <1>10, <1>11 DEF StageInv
<1>13. CacheNames(N)' BY <1>1, <1>2, CacheKept
<1>14. Quiet BY <1>1, <1>2 DEF Quiet
<1>15. /\ pos' \in Place /\ format' \in Formats /\ tranEvents' \in Seq(StreamEvent)
       /\ autocommit' \in BOOLEAN
       /\ tablesMaps' \in [TableIds -> TableCache \cup {NoTable}]
  BY <1>1, <1>2 DEF ParserTypes
<1> QED BY <1>10, <1>12, <1>13, <1>14, <1>15, QuietKept

(* Stream returns without having handed over a transaction.                *)
LEMMA ReturnKept ==
    ASSUME NEW N, MasterInv(N), ParserInv(N), UNCHANGED master, NEW why, Return(why),
           UNCHANGED <<startPos, dumpPos, accepted, sent>>, cursor' \in {cursor, NoCursor},
               connected' \in BOOLEAN
    PROVE  ParserInv(N)'
<1>1. phase' = "idle" /\ FreshLocals(dumpPos) BY DEF Return
<1>2. WholeTransactions /\ sent \in Seq(Given) /\ log' = log
  BY MasterSame DEF ParserInv, ParserTypes
<1>3. WholeTransactions' /\ sent' \in Seq(Given) BY <1>2, WholeKept
<1> QED BY <1>1, <1>3, StoppedKept

LEMMA StreamEndsKept ==
    ASSUME NEW N, MasterInv(N), ParserInv(N), StreamEnds
    PROVE  ParserInv(N)'
<1>1. PICK why : Return(why) /\ UNCHANGED <<startPos, dumpPos, sent>>
  BY DEF StreamEnds, EndOfStream, ContextDone
<1>2. UNCHANGED <<master, accepted>> /\ cursor' = NoCursor /\ connected' = FALSE
  BY DEF StreamEnds, Close, application
<1> QED BY <1>1, <1>2, ReturnKept

LEMMA StartDumpKept ==
    ASSUME NEW N, MasterInv(N), ParserInv(N), StartDump
    PROVE  ParserInv(N)'
<1>1. CASE StreamFails /\ Trouble /\ UNCHANGED <<master, dump, accepted>>
  <2>1. Return("startError") /\ UNCHANGED <<startPos, dumpPos, sent>> BY <1>1 DEF StreamFails
  <2>2. UNCHANGED <<master, accepted, cursor, connected>> BY <1>1 DEF dump
  <2>3. connected' \in BOOLEAN BY <2>2 DEF ParserInv, ParserTypes
  <2> QED BY <2>1, <2>2, <2>3, ReturnKept
<1>2. CASE /\ ParseEvents
           /\ cursor' = [file |-> dumpPos.file, off |-> dumpPos.off, stage |-> "rotate"]
           /\ connected' = TRUE
           /\ UNCHANGED <<master, application>>
  <2>1. PICK s : s = Saved OBVIOUS
  <2>2. /\ s \in Place /\ Between(binlog, log, done, s)
        /\ s.file \in 1 .. Len(binlog) /\ s.off <= Len(binlog[s.file])
    BY <2>1, SavedFacts
  <2>3. /\ ParserTypes /\ AcceptedInv /\ WholeTransactions /\ UNCHANGED master
        /\ binlog' = binlog /\ log' = log
    BY <1>2, MasterSame DEF ParserInv
  <2>4. /\ phase = "dumping" /\ phase' = "parsing"
        /\ UNCHANGED <<startPos, dumpPos, sent, accepted>>
        /\ pos' = startPos /\ format' = "zero" /\ tranEvents' = <<>> /\ autocommit' = TRUE
        /\ tablesMaps' = [id \in TableIds |-> NoTable]
    BY <1>2 DEF ParseEvents, FreshLocals, NoTables, application
  <2>5. dumpPos = s /\ startPos = s BY <2>1, <2>3, <2>4 DEF AcceptedInv
  <2>6. s.file \in Nat /\ s.off \in Nat /\ s = [file |-> s.file, off |-> s.off] BY <2>2 DEF Place
  <2>7. /\ cursor' \in [file : Nat, off : Nat, stage : {"rotate", "format", "events"}]
        /\ cursor'.file = s.file /\ cursor'.off = s.off /\ cursor'.stage = "rotate"
    BY <1>2, <2>5, <2>6
  <2>8. here' = s /\ done' = done BY <2>4, <2>6, <2>7 DEF here, done
  <2>9. tranEvents' \in Seq(StreamEvent) BY <2>4
  <2>10. tablesMaps' \in [TableIds -> TableCache \cup {NoTable}] BY <2>4
  <2>11. connected' \in BOOLEAN BY <1>2
  <2>12. ParserTypes' BY <2>2, <2>3, <2>4, <2>5, <2>7, <2>9, <2>10, <2>11 DEF ParserTypes, Formats
  <2>13. CacheNames(N)' BY <2>4 DEF CacheNames
  <2>14. AcceptedInv' BY <2>3, <2>4, <2>8 DEF AcceptedInv
  <2>15. StageInv' BY <2>2, <2>3, <2>4, <2>5, <2>7, <2>8 DEF StageInv
  <2>16. WholeTransactions' BY <2>3, <2>4, WholeKept
  <2> QED BY <2>12, <2>13, <2>14, <2>15, <2>16 DEF ParserInv
<1> QED BY <1>1, <1>2 DEF StartDump

LEMMA ApplicationKept ==
    ASSUME NEW N, MasterInv(N), ParserInv(N), Application
    PROVE  ParserInv(N)'
<1>1. ParserTypes BY DEF ParserInv
<1>2. CASE Resume
  <2>1. /\ phase = "idle" /\ phase' = phase /\ startPos' = Saved /\ dumpPos' = dumpPos
        /\ UNCHANGED <<pos, format, tranEvents, autocommit, tablesMaps, sent, cursor, connected,
              accepted>>
        /\ UNCHANGED master
    BY <1>2 DEF Resume, SetStartBinlogPosition, locals, dump, application
  <2>2. startPos' \in Place /\ dumpPos' \in Place BY <1>1, <2>1, SavedFacts DEF ParserTypes
  <2> QED BY <2>1, <2>2, IdleKept
<1>3. CASE CallStream
  <2>1. /\ phase' = "dumping" /\ startPos' = Saved /\ dumpPos' = Saved
        /\ UNCHANGED <<pos, format, tranEvents, autocommit, tablesMaps, sent, cursor, connected,
              accepted>>
        /\ UNCHANGED master
    BY <1>3 DEF CallStream, Stream, locals, dump, application
  <2>2. Saved \in Place BY SavedFacts
  <2> QED BY <2>1, <2>2, IdleKept
<1>4. CASE CallCancel
  <2>1. /\ UNCHANGED <<startPos, phase, dumpPos, pos, format, tranEvents, autocommit, tablesMaps,
              sent,
                       cursor, connected, accepted>>
        /\ UNCHANGED master
    BY <1>4 DEF CallCancel, Cancel, locals, dump
  <2>2. connected' \in BOOLEAN BY <1>1, <2>1 DEF ParserTypes
  <2> QED BY <2>1, <2>2, SameKept
<1> QED BY <1>2, <1>3, <1>4, StartDumpKept DEF Application

(* A step that leaves the master as it is.                                 *)
ParserSteps ==
    \/ Dump \/ LoseConnection \/ StreamEnds \/ Application
    \/ UNCHANGED allVars

LEMMA ParserStep ==
    ASSUME NEW N, MasterInv(N), ParserInv(N), ParserSteps
    PROVE  /\ MasterInv(N)' /\ ParserInv(N)' /\ UNCHANGED <<binlog, log>>
           /\ accepted' = accepted \/ accepted' = Append(accepted, Handed)
<1>1. UNCHANGED master
  BY DEF ParserSteps, Dump, SendFakeRotate, SendFormat, SendEvent, NextFile, LoseConnection,
       StreamEnds,
         Application, Resume, CallStream, StartDump, CallCancel, allVars
<1>2. CASE LoseConnection
  <2>1. /\ UNCHANGED <<startPos, phase, dumpPos, pos, format, tranEvents, autocommit, tablesMaps,
              sent,
                       cursor, accepted>>
        /\ connected' \in BOOLEAN
    BY <1>2 DEF LoseConnection, vars, locals
  <2> QED BY <1>1, <2>1, SameKept, MasterSame
<1>3. CASE UNCHANGED allVars
  <2>1. UNCHANGED <<startPos, phase, dumpPos, pos, format, tranEvents, autocommit, tablesMaps, sent,
                    cursor, connected, accepted>>
    BY <1>3 DEF allVars, vars, locals, dump, application
  <2>2. connected' \in BOOLEAN BY <2>1 DEF ParserInv, ParserTypes
  <2> QED BY <1>1, <2>1, <2>2, SameKept, MasterSame
<1>4. CASE SendEvent
  <2>1. accepted' = accepted \/ accepted' = Append(accepted, Handed) BY <1>4 DEF SendEvent
  <2> QED BY <1>1, <1>4, <2>1, SendEventKept, MasterSame
<1>5. CASE SendFakeRotate \/ SendFormat \/ NextFile \/ StreamEnds \/ Application
  <2>1. accepted' = accepted
    BY <1>5 DEF SendFakeRotate, SendFormat, NextFile, StreamEnds, Application, Resume, CallStream,
         StartDump,
                CallCancel, application
  <2> QED BY <1>1, <1>5, <2>1, SendFakeRotateKept, SendFormatKept, NextFileKept, StreamEndsKept,
             ApplicationKept, MasterSame
<1> QED BY <1>2, <1>3, <1>4, <1>5 DEF ParserSteps, Dump

-----------------------------------------------------------------------------
(* The invariant holds.                                                    *)

LEMMA InitRInv ==
    ASSUME Plain, ReplicationInit
    PROVE  RInv
<1>1. /\ startPos = Start /\ phase = "idle" /\ dumpPos = Start /\ pos = Start
      /\ format = "zero" /\ tranEvents = <<>> /\ autocommit = TRUE
      /\ tablesMaps = [id \in TableIds |-> NoTable]
      /\ sent = <<>> /\ rowEvents = 0
      /\ binlog = <<<<>>>> /\ log = <<>> /\ ids = [t \in TableNames |-> 0] /\ nextId = 1
      /\ cols \in [TableNames -> [count : {CHOOSE n \in ColumnCounts : TRUE}, version : Versions]]
      /\ prepared = <<>> /\ cursor = NoCursor /\ connected = FALSE /\ accepted = <<>>
  BY DEF ReplicationInit, Init, NoTables
<1>2. Start \in Place BY DEF Start, Place
<1>3. NoCursor \in [file : Nat, off : Nat, stage : {"rotate", "format", "events"}] BY DEF NoCursor
<1>4. /\ binlog \in Seq(Seq(BinlogEvent)) /\ Len(binlog) = 1 /\ binlog[1] = <<>>
      /\ Len(binlog[1]) = 0
      /\ \A f \in 1 .. Len(binlog) : Len(binlog[f]) = 0
  <2>1. <<>> \in Seq(BinlogEvent) OBVIOUS
  <2>2. binlog \in Seq(Seq(BinlogEvent)) BY <1>1, <2>1
  <2>3. Len(binlog) = 1 /\ binlog[1] = <<>> BY <1>1
  <2> QED BY <2>2, <2>3
<1>5. log \in Seq(Logged) /\ Len(log) = 0 BY <1>1
<1>6. cols \in [TableNames -> Layout]
  <2>1. (CHOOSE n \in ColumnCounts : TRUE) \in ColumnCounts BY ColumnsAssumption
  <2>2. [count : {CHOOSE n \in ColumnCounts : TRUE}, version : Versions] \subseteq Layout
    BY <2>1 DEF Layout
  <2> QED BY <1>1, <2>2
<1>7. MasterTypes BY <1>1, <1>4, <1>5, <1>6 DEF MasterTypes
<1>8. LogInv(binlog, log) BY <1>4, <1>5 DEF LogInv
<1>9. Numbered(log, rowEvents) BY <1>5 DEF Numbered
<1>10. PICK N : N = [id \in TableIds |-> "none"] OBVIOUS
<1>11. N \in Names BY <1>10 DEF Names
<1>12. MasterNames(N) BY <1>1, <1>4 DEF MasterNames, BinlogNames
<1>13. CacheNames(N) BY <1>1 DEF CacheNames
<1>14. ParserTypes
  <2>1. tranEvents \in Seq(StreamEvent) BY <1>1
  <2>2. sent \in Seq(Given) BY <1>1
  <2>3. accepted \in Seq(Given) BY <1>1
  <2>4. tablesMaps \in [TableIds -> TableCache \cup {NoTable}] BY <1>1
  <2> QED BY <1>1, <1>2, <1>3, <2>1, <2>2, <2>3, <2>4 DEF ParserTypes, Formats
<1>15. AcceptedInv
  <2>1. done = 0 BY <1>1 DEF done
  <2> QED BY <1>1, <1>5, <2>1 DEF AcceptedInv
<1>16. StageInv BY <1>1 DEF StageInv
<1>17. WholeTransactions
  <2>1. DOMAIN sent = {} BY <1>1
  <2> QED BY <2>1 DEF WholeTransactions
<1> QED BY <1>7, <1>8, <1>9, <1>11, <1>12, <1>13, <1>14, <1>15, <1>16, <1>17
     DEF RInv, MasterInv, ParserInv

LEMMA NextRInv ==
    ASSUME RInv, [ReplicationNext]_allVars
    PROVE  /\ RInv'
           /\ \/ /\ \E N \in Names : Grown(N)
                 /\ accepted' = accepted
              \/ /\ UNCHANGED <<binlog, log>>
                 /\ accepted' = accepted \/ accepted' = Append(accepted, Handed)
<1>1. Plain BY DEF RInv
<1>2. Plain' BY <1>1 DEF Plain
<1>3. PICK N \in Names : MasterInv(N) /\ ParserInv(N) BY DEF RInv
<1>4. CASE Master \/ Restart
  <2>1. PICK N2 \in Names : Grown(N2) /\ KnownNames(N, N2) BY <1>1, <1>3, <1>4, MasterStep
  <2>2. UNCHANGED <<vars, cursor, accepted>>
    BY <1>4 DEF Master, Restart, MasterRestart, dump, application
  <2>3. connected' \in BOOLEAN
    <3>1. connected \in BOOLEAN BY <1>3 DEF ParserInv, ParserTypes
    <3> QED BY <1>4, <3>1 DEF Master, Restart, MasterRestart, dump
  <2>4. MasterInv(N2)' /\ ParserInv(N2)' BY <1>3, <2>1, <2>2, <2>3, MasterKept
  <2> QED BY <1>2, <2>1, <2>2, <2>4 DEF RInv
<1>5. CASE ParserSteps
  <2>1. /\ MasterInv(N)' /\ ParserInv(N)' /\ UNCHANGED <<binlog, log>>
        /\ accepted' = accepted \/ accepted' = Append(accepted, Handed)
    BY <1>3, <1>5, ParserStep
  <2> QED BY <1>2, <2>1 DEF RInv
<1>6. CASE Wait BY <1>5, <1>6 DEF Wait, ParserSteps
<1> QED BY <1>4, <1>5, <1>6 DEF ReplicationNext, ParserSteps

LEMMA RInvHolds == Plain /\ ReplicationSafeSpec => []RInv
<1>1. Plain /\ ReplicationInit => RInv BY InitRInv
<1>2. RInv /\ [ReplicationNext]_allVars => RInv' BY NextRInv
<1> QED BY <1>1, <1>2, PTL DEF ReplicationSafeSpec

-----------------------------------------------------------------------------
(* The application implements TransactionFeed.                             *)

LEMMA Growth ==
    ASSUME NEW S, NEW c \in Seq(S), NEW x \in S
    PROVE  Len(Append(c, x)) = Len(c) + 1 /\ SubSeq(Append(c, x), 1, Len(c)) = c
<1>1. PICK d, n : d = Append(c, x) /\ n = Len(c) OBVIOUS
<1>2. /\ d \in Seq(S) /\ Len(d) = n + 1 /\ n \in Nat /\ c \in [1 .. n -> S]
      /\ \A i \in 1 .. n : d[i] = c[i] /\ d[i] \in S
  BY <1>1, Appended
<1>3. PICK e : e = SubSeq(d, 1, n) OBVIOUS
<1>4. /\ e \in Seq(S) /\ Len(e) = (IF 1 <= n THEN n - 1 + 1 ELSE 0)
      /\ \A i \in 1 .. n - 1 + 1 : e[i] = d[1 + i - 1]
  BY <1>2, <1>3, SubSeqProperties
<1>5. Len(e) = n /\ \A i \in 1 .. n : e[i] = c[i]
  <2>1. Len(e) = n BY <1>2, <1>4
  <2>2. \A i \in 1 .. n : e[i] = d[i] BY <1>2, <1>4
  <2> QED BY <1>2, <2>1, <2>2
<1>6. e = c BY <1>1, <1>2, <1>4, <1>5
<1> QED BY <1>1, <1>2, <1>3, <1>6

LEMMA RowsCommitted ==
    ASSUME NEW lg \in Seq(Logged)
    PROVE  /\ [k \in DOMAIN lg |-> lg[k].rows] \in Seq(Seq(LoggedRow))
           /\ Len([k \in DOMAIN lg |-> lg[k].rows]) = Len(lg)
           /\ \A k \in 1 .. Len(lg) : [j \in DOMAIN lg |-> lg[j].rows][k] = lg[k].rows
<1>1. PICK n \in Nat : n = Len(lg) /\ DOMAIN lg = 1 .. n OBVIOUS
<1>2. \A k \in 1 .. n : lg[k].rows \in Seq(LoggedRow)
  <2> TAKE k \in 1 .. n
  <2>1. lg[k] \in Logged BY <1>1
  <2> QED BY <2>1 DEF Logged
<1>3. PICK c : c = [k \in DOMAIN lg |-> lg[k].rows] OBVIOUS
<1>4. c \in [1 .. n -> Seq(LoggedRow)] /\ \A k \in 1 .. n : c[k] = lg[k].rows BY <1>1, <1>2, <1>3
<1>5. c \in Seq(Seq(LoggedRow)) /\ Len(c) = n BY <1>4, Listed
<1> QED BY <1>1, <1>3, <1>4, <1>5

LEMMA RowsDelivered ==
    ASSUME NEW a \in Seq(Given)
    PROVE  /\ [k \in DOMAIN a |-> ChangesIn(a[k].events)] \in Seq(Seq(LoggedRow))
           /\ Len([k \in DOMAIN a |-> ChangesIn(a[k].events)]) = Len(a)
           /\ \A k \in 1 .. Len(a) : [j \in DOMAIN a |-> ChangesIn(a[j].events)][k] =
                 ChangesIn(a[k].events)
<1>1. PICK n \in Nat : n = Len(a) /\ DOMAIN a = 1 .. n OBVIOUS
<1>2. \A k \in 1 .. n : ChangesIn(a[k].events) \in Seq(LoggedRow)
  <2> TAKE k \in 1 .. n
  <2>1. a[k] \in Given BY <1>1
  <2>2. a[k].events \in Seq(StreamEvent) BY <2>1 DEF Given
  <2> QED BY <2>2, ChangesOf
<1>3. PICK c : c = [k \in DOMAIN a |-> ChangesIn(a[k].events)] OBVIOUS
<1>4. c \in [1 .. n -> Seq(LoggedRow)] /\ \A k \in 1 .. n : c[k] = ChangesIn(a[k].events)
  BY <1>1, <1>2, <1>3
<1>5. c \in Seq(Seq(LoggedRow)) /\ Len(c) = n BY <1>4, Listed
<1> QED BY <1>1, <1>3, <1>4, <1>5

LEMMA SameSeq ==
    ASSUME NEW S, NEW s \in Seq(S), NEW t \in Seq(S), Len(s) = Len(t),
           \A i \in 1 .. Len(s) : s[i] = t[i]
    PROVE  s = t
OBVIOUS

LEMMA FeedCommits ==
    ASSUME NEW tx \in Logged, log \in Seq(Logged), log' = Append(log, tx)
    PROVE  Len(Committed') = Len(Committed) + 1 /\ SubSeq(Committed', 1, Len(Committed)) = Committed
<1>1. PICK l, c, c2 : l = Len(log) /\ c = Committed /\ c2 = Committed' OBVIOUS
<1>2. /\ l \in Nat /\ log' \in Seq(Logged) /\ Len(log') = l + 1 /\ log'[l + 1] = tx
      /\ \A k \in 1 .. l : log'[k] = log[k]
  BY <1>1, Appended
<1>3. /\ c \in Seq(Seq(LoggedRow)) /\ Len(c) = l /\ \A k \in 1 .. l : c[k] = log[k].rows
  BY <1>1, RowsCommitted DEF Committed
<1>4. /\ c2 \in Seq(Seq(LoggedRow)) /\ Len(c2) = l + 1 /\ \A k \in 1 .. l + 1 : c2[k] = log'[k].rows
  BY <1>1, <1>2, RowsCommitted DEF Committed
<1>5. tx.rows \in Seq(LoggedRow) BY DEF Logged
<1>6. PICK d : d = Append(c, tx.rows) OBVIOUS
<1>7. /\ d \in Seq(Seq(LoggedRow)) /\ Len(d) = l + 1 /\ d[l + 1] = tx.rows
      /\ \A k \in 1 .. l : d[k] = c[k]
  BY <1>3, <1>5, <1>6, Appended
<1>8. \A k \in 1 .. l + 1 : c2[k] = d[k]
  <2> TAKE k \in 1 .. l + 1
  <2>1. CASE k = l + 1 BY <1>2, <1>4, <1>7, <2>1
  <2>2. CASE k \in 1 .. l BY <1>2, <1>3, <1>4, <1>7, <2>2
  <2> QED BY <1>2, <2>1, <2>2
<1>9. c2 = d BY <1>4, <1>7, <1>8, SameSeq
<1>10. Len(d) = Len(c) + 1 /\ SubSeq(d, 1, Len(c)) = c BY <1>3, <1>5, <1>6, Growth
<1> QED BY <1>1, <1>9, <1>10

LEMMA FeedDelivers ==
    ASSUME log \in Seq(Logged), accepted \in Seq(Given),
           NEW h \in Given, accepted' = Append(accepted, h),
           Len(accepted) < Len(log), ChangesIn(h.events) = log[Len(accepted) + 1].rows
    PROVE  /\ Len(Delivered) < Len(Committed)
           /\ Delivered' = Append(Delivered, Committed[Len(Delivered) + 1])
<1>1. PICK n, c, d, d2 : n = Len(accepted) /\ c = Committed /\ d = Delivered /\ d2 = Delivered'
  OBVIOUS
<1>2. /\ n \in Nat /\ accepted' \in Seq(Given) /\ Len(accepted') = n + 1 /\ accepted'[n + 1] = h
      /\ \A k \in 1 .. n : accepted'[k] = accepted[k]
  BY <1>1, Appended
<1>3. /\ c \in Seq(Seq(LoggedRow)) /\ Len(c) = Len(log)
      /\ \A k \in 1 .. Len(log) : c[k] = log[k].rows
  BY <1>1, RowsCommitted DEF Committed
<1>4. /\ d \in Seq(Seq(LoggedRow)) /\ Len(d) = n
      /\ \A k \in 1 .. n : d[k] = ChangesIn(accepted[k].events)
  BY <1>1, RowsDelivered DEF Delivered
<1>5. /\ d2 \in Seq(Seq(LoggedRow)) /\ Len(d2) = n + 1
      /\ \A k \in 1 .. n + 1 : d2[k] = ChangesIn(accepted'[k].events)
  BY <1>1, <1>2, RowsDelivered DEF Delivered
<1>6. n + 1 \in 1 .. Len(log)
  <2>1. Len(log) \in Nat OBVIOUS
  <2> QED BY <1>1, <1>2, <2>1
<1>7. c[n + 1] = ChangesIn(h.events) /\ c[n + 1] \in Seq(LoggedRow) BY <1>1, <1>3, <1>6
<1>8. PICK e : e = Append(d, c[n + 1]) OBVIOUS
<1>9. /\ e \in Seq(Seq(LoggedRow)) /\ Len(e) = n + 1 /\ e[n + 1] = c[n + 1]
      /\ \A k \in 1 .. n : e[k] = d[k]
  BY <1>4, <1>7, <1>8, Appended
<1>10. \A k \in 1 .. n + 1 : d2[k] = e[k]
  <2> TAKE k \in 1 .. n + 1
  <2>1. CASE k = n + 1 BY <1>2, <1>5, <1>7, <1>9, <2>1
  <2>2. CASE k \in 1 .. n BY <1>2, <1>4, <1>5, <1>9, <2>2
  <2> QED BY <1>2, <2>1, <2>2
<1>11. d2 = e BY <1>5, <1>9, <1>10, SameSeq
<1> QED BY <1>1, <1>3, <1>4, <1>6, <1>8, <1>11

LEMMA FeedStep ==
    ASSUME RInv, [ReplicationNext]_allVars
    PROVE  [Feed!Next]_(Feed!feed)
<1>1. PICK N \in Names : MasterInv(N) /\ ParserInv(N) BY DEF RInv
<1>2. log \in Seq(Logged) /\ accepted \in Seq(Given) /\ Len(log) \in Nat
  <2>1. log \in Seq(Logged) BY <1>1 DEF MasterInv, MasterTypes
  <2>2. accepted \in Seq(Given) BY <1>1 DEF ParserInv, ParserTypes
  <2> QED BY <2>1, <2>2
<1>3. \/ (\E N2 \in Names : Grown(N2)) /\ accepted' = accepted
      \/ /\ UNCHANGED <<binlog, log>>
         /\ accepted' = accepted \/ accepted' = Append(accepted, Handed)
  BY NextRInv
<1>4. PICK N2 \in Names : MasterInv(N2)' /\ ParserInv(N2)'
  <2>1. RInv' BY NextRInv
  <2> QED BY <2>1 DEF RInv
<1>5. CASE log' = log /\ accepted' = accepted
  BY <1>5 DEF Feed!feed, Committed, Delivered
<1>6. ASSUME NEW tx \in Logged, log' = Append(log, tx), accepted' = accepted PROVE Feed!Commit
  <2>1. Delivered' = Delivered BY <1>6 DEF Delivered
  <2> QED BY <1>2, <1>6, <2>1, FeedCommits DEF Feed!Commit
<1>7. CASE log' = log /\ accepted' = Append(accepted, Handed)
  <2>1. PICK h, n : h = Handed /\ n = Len(accepted) OBVIOUS
  <2>2. accepted' = Append(accepted, h) BY <1>7, <2>1
  <2>3. accepted' \in Seq(Given) BY <1>4 DEF ParserInv, ParserTypes
  <2>4. Len(accepted') = n + 1 /\ accepted'[n + 1] = h /\ n \in Nat BY <1>2, <2>1, <2>2
  <2>5. h \in Given BY <2>3, <2>4
  <2>6. n + 1 <= Len(log) /\ ChangesIn(h.events) = log[n + 1].rows
    <3>1. AcceptedInv' BY <1>4 DEF ParserInv
    <3>2. done' = n + 1 BY <2>4 DEF done
    <3>3. n + 1 <= Len(log') /\ \A k \in 1 .. n + 1 : ChangesIn(accepted'[k].events) = log'[k].rows
      BY <3>1, <3>2 DEF AcceptedInv
    <3>4. n + 1 \in 1 .. n + 1 BY <2>4
    <3> QED BY <1>7, <2>4, <3>3, <3>4
  <2>7. Len(accepted) < Len(log) BY <1>2, <2>1, <2>4, <2>6
  <2>8. /\ Len(Delivered) < Len(Committed)
        /\ Delivered' = Append(Delivered, Committed[Len(Delivered) + 1])
    BY <1>2, <2>1, <2>2, <2>5, <2>6, <2>7, FeedDelivers
  <2>9. Committed' = Committed BY <1>7 DEF Committed
  <2> QED BY <2>8, <2>9 DEF Feed!Next, Feed!Deliver
<1>8. ASSUME NEW N3 \in Names, Grown(N3), accepted' = accepted PROVE [Feed!Next]_(Feed!feed)
  <2>1. log' = log \/ \E tx \in Logged : log' = Append(log, tx) BY <1>8 DEF Grown
  <2> QED BY <1>5, <1>6, <1>8, <2>1 DEF Feed!Next
<1> QED BY <1>3, <1>5, <1>7, <1>8

(* An application that starts again from the NextPosition of the last      *)
(* transaction it accepted (README.md, RowStreamer.Stream) accepts each    *)
(* committed transaction once, in order and with its rows: every step of   *)
(* the composition is one of TransactionFeed, or none.                     *)
THEOREM ExactlyOnceInOrderHolds == Plain /\ ReplicationSafeSpec => ExactlyOnceInOrder
<1>1. ReplicationInit => Feed!Init
  BY DEF ReplicationInit, Feed!Init, Committed, Delivered
<1>2. RInv /\ [ReplicationNext]_allVars => [Feed!Next]_(Feed!feed)
  BY FeedStep
<1> QED
  BY <1>1, <1>2, RInvHolds, PTL DEF ReplicationSafeSpec, ExactlyOnceInOrder, Feed!SafeSpec

-----------------------------------------------------------------------------
(* What is handed over.                                                    *)

(* Each transaction that commit (row_streamer.go) hands over is one of the *)
(* master's, complete, between its NowPosition and its NextPosition.       *)
THEOREM WholeTransactionsHolds == Plain /\ ReplicationSafeSpec => []WholeTransactions
<1>1. RInv => WholeTransactions
  BY DEF RInv, ParserInv
<1> QED
  BY <1>1, RInvHolds, PTL

(* The rows of events, when these are what a transaction of lg changed.    *)
LEMMA RowsOf ==
    ASSUME NEW events \in Seq(StreamEvent), NEW rows, ChangesIn(events) = rows
    PROVE  /\ DOMAIN events = 1 .. Len(rows)
           /\ \A i \in 1 .. Len(rows) : events[i].row = rows[i].row
                 /\ events[i].table.name = rows[i].table
<1>1. /\ Len(rows) = Len(events)
      /\ \A i \in 1 .. Len(events) : rows[i] = [op |-> events[i].op,
            table |-> events[i].table.name, row |-> events[i].row]
  BY ChangesOf
<1>2. DOMAIN events = 1 .. Len(rows) BY <1>1
<1>3. ASSUME NEW i \in 1 .. Len(rows)
      PROVE  events[i].row = rows[i].row /\ events[i].table.name = rows[i].table
  <2>1. rows[i] = [op |-> events[i].op, table |-> events[i].table.name, row |-> events[i].row]
    BY <1>1
  <2> QED BY <2>1
<1> QED BY <1>2, <1>3

(* No row is accepted twice or out of order.                               *)
THEOREM RowsAcceptedOnceHolds == Plain /\ ReplicationSafeSpec => []RowsAcceptedOnce
<1>1. ASSUME RInv PROVE RowsAcceptedOnce
  <2>1. PICK N \in Names : MasterInv(N) /\ ParserInv(N) BY <1>1 DEF RInv
  <2>2. log \in Seq(Logged) /\ Numbered(log, rowEvents) BY <2>1 DEF MasterInv, MasterTypes
  <2>3. accepted \in Seq(Given) /\ AcceptedInv BY <2>1 DEF ParserInv, ParserTypes
  <2>4. ASSUME NEW n \in DOMAIN accepted
        PROVE  /\ n \in 1 .. Len(log) /\ DOMAIN accepted[n].events = 1 .. Len(log[n].rows)
               /\ \A i \in 1 .. Len(log[n].rows) : accepted[n].events[i].row = log[n].rows[i].row
    <3>1. n \in 1 .. done /\ done \in Nat /\ Len(log) \in Nat BY <2>2, <2>3 DEF done
    <3>2. n \in 1 .. Len(log) /\ ChangesIn(accepted[n].events) = log[n].rows
      BY <2>3, <3>1 DEF AcceptedInv
    <3>3. accepted[n] \in Given BY <2>3
    <3>4. accepted[n].events \in Seq(StreamEvent) BY <3>3 DEF Given
    <3> QED BY <3>2, <3>4, RowsOf
  <2>5. ASSUME NEW n \in DOMAIN accepted PROVE Ascending(accepted[n].events)
    <3>1. \A i, j \in 1 .. Len(log[n].rows) : i < j => log[n].rows[i].row < log[n].rows[j].row
      BY <2>2, <2>4, <2>5 DEF Numbered
    <3> QED BY <2>4, <2>5, <3>1 DEF Ascending
  <2>6. ASSUME NEW n \in DOMAIN accepted, NEW m \in DOMAIN accepted, n < m
        PROVE  Precedes(accepted[n].events, accepted[m].events)
    <3>1. \A i \in 1 .. Len(log[n].rows), j \in 1 .. Len(log[m].rows) :
              log[n].rows[i].row < log[m].rows[j].row
      BY <2>2, <2>4, <2>6 DEF Numbered
    <3> QED BY <2>4, <2>6, <3>1 DEF Precedes
  <2> QED BY <2>5, <2>6 DEF RowsAcceptedOnce
<1> QED
  BY <1>1, RInvHolds, PTL

-----------------------------------------------------------------------------
(* Tables and columns, for any master: also one that gives ids again.      *)

AnyText == {<<"begin">>, <<"commit">>, <<"rollback">>, <<"create">>, <<"alter">>,
            <<"savepoint", "s">>, <<"rollback", "to", "s">>, <<"xa", "start">>, <<"xa", "end">>,
            <<"xa", "commit">>, <<"xa", "rollback">>}
AnyEvent == TableMapEvents \cup RowsEvents \cup [kind : {"query"}, sql : AnyText] \cup OtherEvents

(* What may be in a binlog of n files when the tables have columns cs.     *)
OldEvents(cs, n) ==
    {e \in AnyEvent : /\ e.kind = "tablemap" => e.def.cols.version <= cs[e.def.name].version
                      /\ e.kind = "rotate" => e.to.file \in 1 .. n}

BinlogOld(bl, cs, n) == bl \in Seq(Seq(OldEvents(cs, n))) /\ Len(bl) = n /\ n \in Nat \ {0}

MasterOld ==
    /\ BinlogOld(binlog, cols, Len(binlog))
    /\ ids \in [TableNames -> TableIds \cup {0}] /\ cols \in [TableNames -> Layout]
    /\ rowEvents \in Nat

(* No event of the binlog changes its place.                               *)
Grows(bl, bl2) ==
    /\ DOMAIN bl \subseteq DOMAIN bl2
    /\ \A f \in DOMAIN bl : /\ DOMAIN bl[f] \subseteq DOMAIN bl2[f]
                            /\ \A i \in DOMAIN bl[f] : bl2[f][i] = bl[f][i]

LEMMA InLargerSet ==
    ASSUME NEW S, NEW T, S \subseteq T
    PROVE  Seq(S) \subseteq Seq(T)
<1> SUFFICES ASSUME NEW s \in Seq(S) PROVE s \in Seq(T) OBVIOUS
<1>1. Len(s) \in Nat /\ s = [i \in 1 .. Len(s) |-> s[i]] /\ \A i \in 1 .. Len(s) : s[i] \in T
  OBVIOUS
<1>2. [i \in 1 .. Len(s) |-> s[i]] \in [1 .. Len(s) -> T] BY <1>1
<1> QED BY <1>1, <1>2

(* An event stays possible when columns get newer and files more.          *)
LEMMA StaysOld ==
    ASSUME NEW cs \in [TableNames -> Layout], NEW cs2 \in [TableNames -> Layout],
           \A t \in TableNames : cs[t].version <= cs2[t].version,
           NEW n \in Nat, NEW n2 \in Nat, n <= n2
    PROVE  OldEvents(cs, n) \subseteq OldEvents(cs2, n2)
<1> SUFFICES ASSUME NEW e \in OldEvents(cs, n) PROVE e \in OldEvents(cs2, n2) OBVIOUS
<1>1. e \in AnyEvent BY DEF OldEvents
<1>2. ASSUME e.kind = "tablemap" PROVE e.def.cols.version <= cs2[e.def.name].version
  <2>1. e \in TableMapEvents BY <1>1, <1>2 DEF AnyEvent, TableMapEvents, RowsEvents, OtherEvents
  <2>2. e.def \in TableDef BY <2>1 DEF TableMapEvents
  <2>3. e.def.name \in TableNames /\ e.def.cols \in Layout BY <2>2 DEF TableDef
  <2>4. e.def.cols.version \in Nat /\ cs[e.def.name].version \in Nat
        /\ cs2[e.def.name].version \in Nat
    BY <2>3, VersionsAssumption DEF Layout
  <2>5. e.def.cols.version <= cs[e.def.name].version BY <1>2 DEF OldEvents
  <2>6. cs[e.def.name].version <= cs2[e.def.name].version BY <2>3
  <2> QED BY <2>4, <2>5, <2>6
<1>3. ASSUME e.kind = "rotate" PROVE e.to.file \in 1 .. n2
  BY <1>3 DEF OldEvents
<1> QED BY <1>1, <1>2, <1>3 DEF OldEvents

LEMMA BinlogStaysOld ==
    ASSUME NEW cs \in [TableNames -> Layout], NEW cs2 \in [TableNames -> Layout],
           \A t \in TableNames : cs[t].version <= cs2[t].version,
           NEW n \in Nat, NEW n2 \in Nat, n <= n2, NEW bl \in Seq(Seq(OldEvents(cs, n)))
    PROVE  bl \in Seq(Seq(OldEvents(cs2, n2)))
<1>1. OldEvents(cs, n) \subseteq OldEvents(cs2, n2) BY StaysOld
<1>2. Seq(OldEvents(cs, n)) \subseteq Seq(OldEvents(cs2, n2)) BY <1>1, InLargerSet
<1>3. Seq(Seq(OldEvents(cs, n))) \subseteq Seq(Seq(OldEvents(cs2, n2))) BY <1>2, InLargerSet
<1> QED BY <1>3

(* Events added to the last file.                                          *)
Lengthened(bl, l, events, bl2) ==
    l = Len(bl) /\ l \in Nat \ {0} /\ bl2 = [bl EXCEPT ![l] = bl[l] \o events]

LEMMA EventsAdded ==
    ASSUME NEW S, NEW bl \in Seq(Seq(S)), NEW l, NEW events \in Seq(S), NEW bl2,
           Lengthened(bl, l, events, bl2)
    PROVE  bl2 \in Seq(Seq(S)) /\ Len(bl2) = l /\ Grows(bl, bl2)
<1>0. l = Len(bl) /\ l \in Nat \ {0} /\ bl2 = [bl EXCEPT ![l] = bl[l] \o events]
  BY DEF Lengthened
<1>1. l \in 1 .. Len(bl) /\ bl[l] \in Seq(S) BY <1>0
<1>2. PICK longer : longer = bl[l] \o events OBVIOUS
<1>3. /\ longer \in Seq(S) /\ Len(bl[l]) <= Len(longer) /\ Len(longer) \in Nat
      /\ \A i \in 1 .. Len(bl[l]) : longer[i] = bl[l][i]
  <2>1. /\ bl[l] \o events \in Seq(S) /\ Len(bl[l] \o events) = Len(bl[l]) + Len(events)
        /\ \A i \in 1 .. Len(bl[l]) : (bl[l] \o events)[i] = bl[l][i]
    BY <1>1, Joined
  <2>2. Len(bl[l]) \in Nat /\ Len(events) \in Nat BY <1>1
  <2> QED BY <1>2, <2>1, <2>2
<1>4. bl2 = [bl EXCEPT ![l] = longer] BY <1>0, <1>2
<1>5. /\ bl2 \in Seq(Seq(S)) /\ Len(bl2) = l /\ bl2[l] = longer
      /\ \A f \in 1 .. l : f # l => bl2[f] = bl[f]
  BY <1>0, <1>1, <1>3, <1>4
<1>6. DOMAIN bl = 1 .. l /\ DOMAIN bl2 = 1 .. l BY <1>0, <1>5
<1>7. DOMAIN bl[l] = 1 .. Len(bl[l]) /\ DOMAIN longer = 1 .. Len(longer) BY <1>1, <1>3
<1>8. DOMAIN bl[l] \subseteq DOMAIN longer BY <1>1, <1>3, <1>7
<1>9. ASSUME NEW f \in DOMAIN bl
      PROVE  /\ DOMAIN bl[f] \subseteq DOMAIN bl2[f]
             /\ \A i \in DOMAIN bl[f] : bl2[f][i] = bl[f][i]
  <2>1. CASE f = l BY <1>3, <1>5, <1>7, <1>8, <2>1
  <2>2. CASE f # l BY <1>5, <1>6, <2>2
  <2> QED BY <2>1, <2>2
<1>10. Grows(bl, bl2) BY <1>6, <1>9 DEF Grows
<1> QED BY <1>5, <1>10

LEMMA FileAppended ==
    ASSUME NEW S, NEW bl \in Seq(Seq(S)), NEW bl2, bl2 = Append(bl, <<>>)
    PROVE  bl2 \in Seq(Seq(S)) /\ Len(bl2) = Len(bl) + 1 /\ Grows(bl, bl2)
<1>1. <<>> \in Seq(S) /\ Len(bl) \in Nat OBVIOUS
<1>2. /\ bl2 \in Seq(Seq(S)) /\ Len(bl2) = Len(bl) + 1
      /\ \A f \in 1 .. Len(bl) : bl2[f] = bl[f]
  BY <1>1, Appended
<1>3. DOMAIN bl = 1 .. Len(bl) /\ DOMAIN bl2 = 1 .. Len(bl2) BY <1>2
<1> QED BY <1>1, <1>2, <1>3 DEF Grows

(* The master's actions.  What they write is as the tables now are.        *)
LEMMA TextEvents ==
    ASSUME NEW cs, NEW n, NEW sql \in AnyText
    PROVE  query(sql) \in OldEvents(cs, n)
<1>1. query(sql) = [kind |-> "query", sql |-> sql] BY DEF query
<1>2. query(sql) \in AnyEvent /\ query(sql).kind = "query" BY <1>1 DEF AnyEvent
<1> QED BY <1>2 DEF OldEvents

LEMMA OtherKinds ==
    ASSUME NEW cs, NEW n
    PROVE  [kind |-> "xid"] \in OldEvents(cs, n) /\ [kind |-> "ignored"] \in OldEvents(cs, n)
BY DEF OldEvents, AnyEvent, OtherEvents

LEMMA ChangesOld ==
    ASSUME MasterOld, NEW changes \in Seq(Change), Writable(changes), NEW n
    PROVE  ChangeEvents(changes) \in Seq(OldEvents(cols, n))
<1> DEFINE m == Len(changes)
           def(k) == [name |-> changes[k].table, cols |-> cols[changes[k].table]]
           tm(k) == [kind |-> "tablemap", id |-> ids[changes[k].table], def |-> def(k)]
           rw(k) == [kind |-> "rows", op |-> changes[k].op, id |-> ids[changes[k].table],
                     row |-> rowEvents + k, of |-> def(k)]
           ce == ChangeEvents(changes)
<1>1. m \in Nat OBVIOUS
<1>2. ce = [i \in 1 .. 2 * m |-> IF i % 2 = 1 THEN tm((i + 1) \div 2) ELSE rw((i + 1) \div 2)]
  BY DEF ChangeEvents
<1>3. ASSUME NEW k \in 1 .. m PROVE tm(k) \in OldEvents(cols, n) /\ rw(k) \in OldEvents(cols, n)
  <2>1. changes[k] \in Change /\ k \in DOMAIN changes /\ k \in Nat BY <1>1
  <2>2. changes[k].op \in Operations /\ changes[k].table \in TableNames BY <2>1 DEF Change
  <2>3. /\ ids[changes[k].table] \in TableIds /\ cols[changes[k].table] \in Layout
        /\ rowEvents + k \in Nat
    BY <2>1, <2>2 DEF MasterOld, Writable
  <2>4. def(k) \in TableDef BY <2>2, <2>3 DEF TableDef
  <2>5. tm(k) \in AnyEvent /\ rw(k) \in AnyEvent
    BY <2>2, <2>3, <2>4 DEF AnyEvent, TableMapEvents, RowsEvents
  <2>6. cols[changes[k].table].version \in Nat BY <2>3, VersionsAssumption DEF Layout
  <2>7. tm(k).def.cols.version <= cols[tm(k).def.name].version BY <2>6
  <2> QED BY <2>5, <2>7 DEF OldEvents
<1> HIDE DEF m, ce, tm, rw
<1>4. ASSUME NEW i \in 1 .. 2 * m PROVE ce[i] \in OldEvents(cols, n)
  <2>1. i \in Nat /\ (i + 1) \div 2 \in Nat /\ 2 * ((i + 1) \div 2) \in {i, i + 1} BY <1>1
  <2>2. (i + 1) \div 2 \in 1 .. m BY <1>1, <2>1
  <2>3. ce[i] \in {tm((i + 1) \div 2), rw((i + 1) \div 2)} BY <1>2
  <2> QED BY <1>3, <2>2, <2>3
<1>5. ce \in [1 .. 2 * m -> OldEvents(cols, n)] BY <1>2, <1>4
<1>6. 2 * m \in Nat BY <1>1
<1> QED BY <1>5, <1>6, Listed DEF ce

(* What a step of the master keeps.                                        *)
MasterGrows == MasterOld' /\ Grows(binlog, binlog')

LEMMA WriteGrows ==
    ASSUME MasterOld, NEW events \in Seq(OldEvents(cols, LastFile)), NEW changes \in Seq(Change),
           Write(events, changes), cols' \in [TableNames -> Layout],
           \A t \in TableNames : cols[t].version <= cols'[t].version,
           ids' \in [TableNames -> TableIds \cup {0}]
    PROVE  MasterGrows
<1>1. /\ binlog \in Seq(Seq(OldEvents(cols, LastFile))) /\ LastFile = Len(binlog)
      /\ LastFile \in Nat \ {0}
  BY DEF MasterOld, BinlogOld, LastFile
<1>2. binlog' = [binlog EXCEPT ![LastFile] = binlog[LastFile] \o events] BY DEF Write
<1>3. /\ binlog' \in Seq(Seq(OldEvents(cols, LastFile))) /\ Len(binlog') = LastFile
      /\ Grows(binlog, binlog')
  <2>1. PICK S : S = OldEvents(cols, LastFile) OBVIOUS
  <2>2. binlog \in Seq(Seq(S)) /\ events \in Seq(S) BY <1>1, <2>1
  <2>3. Lengthened(binlog, LastFile, events, binlog') BY <1>1, <1>2 DEF Lengthened
  <2>4. binlog' \in Seq(Seq(S)) /\ Len(binlog') = LastFile /\ Grows(binlog, binlog')
    BY <2>2, <2>3, EventsAdded, Zenon
  <2> QED BY <2>1, <2>4
<1>4. binlog' \in Seq(Seq(OldEvents(cols', LastFile)))
  <2>1. LastFile \in Nat /\ LastFile <= LastFile BY <1>1
  <2>2. cols \in [TableNames -> Layout] BY DEF MasterOld
  <2> QED BY <1>3, <2>1, <2>2, BinlogStaysOld
<1>5. rowEvents' \in Nat BY DEF Write, MasterOld
<1> QED BY <1>1, <1>3, <1>4, <1>5 DEF MasterGrows, MasterOld, BinlogOld

LEMMA SameVersions ==
    ASSUME MasterOld
    PROVE  \A t \in TableNames : cols[t].version <= cols[t].version
<1>1. \A t \in TableNames : cols[t] \in Layout BY DEF MasterOld
<1>2. \A t \in TableNames : cols[t].version \in Nat BY <1>1, VersionsAssumption DEF Layout
<1> QED BY <1>2

LEMMA GroupGrows ==
    ASSUME MasterOld, NEW events \in Seq(OldEvents(cols, LastFile)), NEW changes \in Seq(Change),
           Write(events, changes), UNCHANGED <<ids, cols>>
    PROVE  MasterGrows
<1>1. UNCHANGED cols /\ UNCHANGED ids /\ cols \in [TableNames -> Layout]
      /\ ids \in [TableNames -> TableIds \cup {0}]
  BY DEF MasterOld
<1> QED BY <1>1, SameVersions, WriteGrows

LEMMA MasterStepGrows ==
    ASSUME MasterOld, Master \/ Restart
    PROVE  MasterGrows
<1> DEFINE E == OldEvents(cols, LastFile)
<1>1. /\ binlog \in Seq(Seq(E)) /\ LastFile = Len(binlog) /\ LastFile \in Nat \ {0}
      /\ ids \in [TableNames -> TableIds \cup {0}] /\ cols \in [TableNames -> Layout]
      /\ rowEvents \in Nat
  BY DEF MasterOld, BinlogOld, LastFile
<1>2. \A sql \in AnyText : query(sql) \in E BY TextEvents
<1>3. [kind |-> "xid"] \in E /\ [kind |-> "ignored"] \in E BY OtherKinds
<1>4. \A changes \in Changes : changes \in Seq(Change) BY ChangesAssumption
<1>5. \A changes \in Seq(Change) : Writable(changes) => ChangeEvents(changes) \in Seq(E)
  BY ChangesOld
<1>6. <<>> \in Seq(Change) OBVIOUS
<1>7. /\ <<"begin">> \in AnyText /\ <<"commit">> \in AnyText /\ <<"rollback">> \in AnyText
      /\ <<"create">> \in AnyText /\ <<"alter">> \in AnyText /\ <<"savepoint", "s">> \in AnyText
      /\ <<"rollback", "to", "s">> \in AnyText /\ <<"xa", "start">> \in AnyText
      /\ <<"xa", "end">> \in AnyText /\ <<"xa", "commit">> \in AnyText
      /\ <<"xa", "rollback">> \in AnyText
  BY DEF AnyText
<1> HIDE DEF E
<1>8. ASSUME NEW a \in E PROVE <<a>> \in Seq(E) OBVIOUS
<1>9. ASSUME NEW s \in Seq(E), NEW t \in Seq(E) PROVE s \o t \in Seq(E) BY Joined
<1>10. ASSUME NEW changes \in Changes, NEW last \in E, CommitGroup(changes, last)
       PROVE  MasterGrows
  <2>1. PICK ce : ce = ChangeEvents(changes) OBVIOUS
  <2>2. ce \in Seq(E) BY <1>4, <1>5, <1>10, <2>1 DEF CommitGroup
  <2>3. <<query(<<"begin">>)>> \o ce \o <<last>> \in Seq(E) BY <1>2, <1>7, <1>8, <1>9, <2>2
  <2>4. Write(<<query(<<"begin">>)>> \o ce \o <<last>>, changes) /\ UNCHANGED <<ids, cols>>
    BY <1>10, <2>1 DEF CommitGroup
  <2> QED BY <1>4, <2>3, <2>4, GroupGrows DEF E
<1>11. ASSUME NEW changes \in Changes, RollbackGroup(changes) PROVE MasterGrows
  <2>1. PICK ce : ce = ChangeEvents(changes) OBVIOUS
  <2>2. ce \in Seq(E) BY <1>4, <1>5, <1>11, <2>1 DEF RollbackGroup
  <2>3. <<query(<<"begin">>)>> \o ce \o <<query(<<"rollback">>)>> \in Seq(E)
    BY <1>2, <1>7, <1>8, <1>9, <2>2
  <2>4. /\ Write(<<query(<<"begin">>)>> \o ce \o <<query(<<"rollback">>)>>, changes)
        /\ UNCHANGED <<ids, cols>>
    BY <1>11, <2>1 DEF RollbackGroup
  <2> QED BY <1>4, <2>3, <2>4, GroupGrows DEF E
<1>12. ASSUME NEW changes \in Changes, SavepointGroup(changes) PROVE MasterGrows
  <2>1. PICK ce, c1, c2 : /\ ce = ChangeEvents(changes) /\ c1 = SubSeq(ce, 1, 2)
                          /\ c2 = SubSeq(ce, 3, Len(ce))
    OBVIOUS
  <2>2. ce \in Seq(E) BY <1>4, <1>5, <1>12, <2>1 DEF SavepointGroup
  <2>3. c1 \in Seq(E) /\ c2 \in Seq(E)
    <3>1. Len(ce) \in Nat /\ Len(ce) >= 2
      <4>1. Len(changes) > 1 /\ Len(changes) \in Nat BY <1>4, <1>12 DEF SavepointGroup
      <4>2. Len(ce) = 2 * Len(changes) BY <2>1, <4>1 DEF ChangeEvents
      <4> QED BY <4>1, <4>2
    <3>2. \A i \in 1 .. 2 : ce[i] \in E BY <2>2, <3>1
    <3>3. \A i \in 3 .. Len(ce) : ce[i] \in E BY <2>2, <3>1
    <3>4. SubSeq(ce, 1, 2) \in Seq(E) BY <3>2, SubSeqProperties
    <3>5. SubSeq(ce, 3, Len(ce)) \in Seq(E) BY <3>1, <3>3, SubSeqProperties
    <3> QED BY <2>1, <3>4, <3>5
  <2>4. PICK events : events = <<query(<<"begin">>)>> \o c1 \o <<query(<<"savepoint", "s">>)>>
                                \o c2 \o <<query(<<"rollback", "to", "s">>), [kind |-> "xid"]>>
    OBVIOUS
  <2>5. <<query(<<"rollback", "to", "s">>), [kind |-> "xid"]>> \in Seq(E) BY <1>2, <1>3, <1>7
  <2>6. events \in Seq(E) BY <1>2, <1>7, <1>8, <1>9, <2>3, <2>4, <2>5
  <2>7. Write(events, changes) /\ UNCHANGED <<ids, cols>>
    BY <1>12, <2>1, <2>4 DEF SavepointGroup
  <2> QED BY <1>4, <2>6, <2>7, GroupGrows DEF E
<1>13. ASSUME NEW changes \in Changes, XAPrepareGroup(changes) PROVE MasterGrows
  <2>1. PICK ce : ce = ChangeEvents(changes) OBVIOUS
  <2>2. ce \in Seq(E) BY <1>4, <1>5, <1>13, <2>1 DEF XAPrepareGroup
  <2>3. <<query(<<"xa", "end">>), [kind |-> "ignored"]>> \in Seq(E) BY <1>2, <1>3, <1>7
  <2>4. <<query(<<"xa", "start">>)>> \o ce \o <<query(<<"xa", "end">>), [kind |-> "ignored"]>>
            \in Seq(E)
    BY <1>2, <1>7, <1>8, <1>9, <2>2, <2>3
  <2>5. /\ Write(<<query(<<"xa", "start">>)>> \o ce
                   \o <<query(<<"xa", "end">>), [kind |-> "ignored"]>>, changes)
        /\ UNCHANGED <<ids, cols>>
    BY <1>13, <2>1 DEF XAPrepareGroup
  <2> QED BY <1>4, <2>4, <2>5, GroupGrows DEF E
<1>14. ASSUME NEW decision \in {"commit", "rollback"}, XADecideGroup(decision) PROVE MasterGrows
  <2>1. <<"xa", decision>> \in AnyText BY <1>7
  <2>2. <<query(<<"xa", decision>>)>> \in Seq(E) BY <1>2, <1>8, <2>1
  <2>3. Write(<<query(<<"xa", decision>>)>>, <<>>) /\ UNCHANGED <<ids, cols>>
    BY <1>14 DEF XADecideGroup
  <2> QED BY <1>6, <2>2, <2>3, GroupGrows DEF E
<1>15. ASSUME DDLGroup PROVE MasterGrows
  <2>1. <<[kind |-> "ignored"], query(<<"create">>)>> \in Seq(E) BY <1>2, <1>3, <1>7
  <2>2. Write(<<[kind |-> "ignored"], query(<<"create">>)>>, <<>>) /\ UNCHANGED <<ids, cols>>
    BY <1>15 DEF DDLGroup
  <2> QED BY <1>6, <2>1, <2>2, GroupGrows DEF E
<1>16. ASSUME NEW t \in TableNames, NEW n \in ColumnCounts, AlterGroup(t, n) PROVE MasterGrows
  <2>1. <<query(<<"alter">>)>> \in Seq(E) BY <1>2, <1>7, <1>8
  <2>2. /\ Write(<<query(<<"alter">>)>>, <<>>) /\ cols[t].version + 1 \in Versions
        /\ cols' = [cols EXCEPT ![t] = [count |-> n, version |-> cols[t].version + 1]]
        /\ ids' = [ids EXCEPT ![t] = 0]
    BY <1>16 DEF AlterGroup
  <2>3. /\ cols' \in [TableNames -> Layout] /\ ids' \in [TableNames -> TableIds \cup {0}]
        /\ cols'[t].version = cols[t].version + 1
        /\ \A u \in TableNames : u # t => cols'[u] = cols[u]
    BY <1>1, <2>2 DEF Layout
  <2>4. \A u \in TableNames : cols[u].version \in Nat
    <3>1. \A u \in TableNames : cols[u] \in Layout BY <1>1
    <3> QED BY <3>1, VersionsAssumption DEF Layout
  <2>5. \A u \in TableNames : cols[u].version <= cols'[u].version BY <2>3, <2>4
  <2> QED BY <1>6, <2>1, <2>2, <2>3, <2>5, WriteGrows DEF E
<1>17. ASSUME NEW t \in TableNames, OpenTable(t) PROVE MasterGrows
  <2>1. ids' \in [TableNames -> TableIds \cup {0}] /\ UNCHANGED <<binlog, cols, rowEvents>>
    BY <1>1, <1>17 DEF OpenTable
  <2>2. Grows(binlog, binlog') BY <2>1 DEF Grows
  <2> QED BY <2>1, <2>2 DEF MasterGrows, MasterOld
<1>18. ASSUME NEW mid, mid \in Seq(Seq(OldEvents(cols, LastFile + 1))), Len(mid) = LastFile,
              Grows(binlog, mid), binlog' = Append(mid, <<>>), UNCHANGED <<cols, rowEvents>>,
              ids' \in [TableNames -> TableIds \cup {0}]
       PROVE  MasterGrows
  <2>1. /\ binlog' \in Seq(Seq(OldEvents(cols, LastFile + 1))) /\ Len(binlog') = LastFile + 1
        /\ Grows(mid, binlog')
    BY <1>18, FileAppended
  <2>2. Grows(binlog, binlog') BY <1>18, <2>1 DEF Grows
  <2>3. LastFile + 1 \in Nat \ {0} BY <1>1
  <2> QED BY <1>1, <1>18, <2>1, <2>2, <2>3 DEF MasterGrows, MasterOld, BinlogOld
<1>19. binlog \in Seq(Seq(OldEvents(cols, LastFile + 1)))
  <2>1. LastFile \in Nat /\ LastFile + 1 \in Nat /\ LastFile <= LastFile + 1 BY <1>1
  <2> QED BY <1>1, <2>1, SameVersions, BinlogStaysOld DEF E
<1>20. ASSUME FlushLogs PROVE MasterGrows
  <2>1. PICK rotate : rotate = [kind |-> "rotate", to |-> [file |-> LastFile + 1, off |-> 0]]
    OBVIOUS
  <2>2. rotate \in OldEvents(cols, LastFile + 1)
    <3>1. [file |-> LastFile + 1, off |-> 0] \in Place BY <1>1 DEF Place
    <3>2. rotate \in AnyEvent BY <2>1, <3>1 DEF AnyEvent, OtherEvents
    <3>3. rotate.kind = "rotate" /\ rotate.to.file = LastFile + 1 BY <2>1
    <3> QED BY <1>1, <3>2, <3>3 DEF OldEvents
  <2>3. PICK mid : mid = [binlog EXCEPT ![LastFile] = binlog[LastFile] \o <<rotate>>] OBVIOUS
  <2>4. <<rotate>> \in Seq(OldEvents(cols, LastFile + 1)) BY <2>2
  <2>5. /\ mid \in Seq(Seq(OldEvents(cols, LastFile + 1))) /\ Len(mid) = LastFile
        /\ Grows(binlog, mid)
    <3>1. PICK S : S = OldEvents(cols, LastFile + 1) OBVIOUS
    <3>2. binlog \in Seq(Seq(S)) /\ <<rotate>> \in Seq(S) BY <1>19, <2>4, <3>1
    <3>3. Lengthened(binlog, LastFile, <<rotate>>, mid) BY <1>1, <2>3 DEF Lengthened
    <3>4. mid \in Seq(Seq(S)) /\ Len(mid) = LastFile /\ Grows(binlog, mid)
      BY <3>2, <3>3, EventsAdded, Zenon
    <3> QED BY <3>1, <3>4
  <2>6. Append(binlog[LastFile], rotate) = binlog[LastFile] \o <<rotate>>
    <3>1. binlog[LastFile] \in Seq(E) BY <1>1
    <3> QED BY <3>1
  <2>7. binlog' = Append(mid, <<>>) /\ UNCHANGED <<ids, cols, rowEvents>>
    BY <1>20, <2>1, <2>3, <2>6 DEF FlushLogs
  <2>8. ids' \in [TableNames -> TableIds \cup {0}] BY <1>1, <2>7
  <2> QED BY <1>18, <2>5, <2>7, <2>8
<1>21. ASSUME Restart PROVE MasterGrows
  <2>1. /\ binlog' = Append(binlog, <<>>) /\ UNCHANGED <<cols, rowEvents>>
        /\ ids' = [t \in TableNames |-> 0]
    BY <1>21 DEF Restart, MasterRestart
  <2>2. Grows(binlog, binlog) BY DEF Grows
  <2>3. ids' \in [TableNames -> TableIds \cup {0}] BY <2>1
  <2> QED BY <1>1, <1>18, <1>19, <2>1, <2>2, <2>3
<1>22. query(<<"commit">>) \in E BY <1>2, <1>7
<1> QED BY <1>3, <1>10, <1>11, <1>12, <1>13, <1>14, <1>15, <1>16, <1>17, <1>20, <1>21, <1>22
     DEF Master

-----------------------------------------------------------------------------
(* Where the tables of the cache and of the pending rows come from.        *)

(* Event i of file f, of kind k, comes behind the position p.              *)
Behind(bl, p, k, f, i) ==
    /\ f \in DOMAIN bl /\ i \in DOMAIN bl[f] /\ bl[f][i].kind = k
    /\ (p.file < f \/ (p.file = f /\ p.off < i))

(* A table that the mapper described when a TABLE_MAP of def was read.     *)
GivenFor(table, def) ==
    /\ table.name = def.name /\ table.cols.count = def.cols.count
    /\ table.cols.version >= def.cols.version

(* The dump of p has sent a TABLE_MAP of the id and the table before event *)
(* j of file g.                                                            *)
MappedBefore(bl, p, id, table, g, j) ==
    \E f \in DOMAIN bl : \E i \in DOMAIN bl[f] :
        /\ Behind(bl, p, "tablemap", f, i) /\ bl[f][i].id = id /\ Before(f, i, g, j)
        /\ GivenFor(table, bl[f][i].def)

(* A change is that of a rows event, and of a table its id was mapped to.  *)
RowOfDump(bl, p, e) ==
    \E g \in DOMAIN bl : \E j \in DOMAIN bl[g] :
        /\ Behind(bl, p, "rows", g, j) /\ bl[g][j].row = e.row
        /\ MappedBefore(bl, p, bl[g][j].id, e.table, g, j)

RowsOfDump(bl, p, events) == \A n \in DOMAIN events : RowOfDump(bl, p, events[n])

CacheOfDump(bl, p, tables, g, j) ==
    \A id \in TableIds :
        tables[id] # NoTable => MappedBefore(bl, p, id, tables[id].table, g, j)

(* While the parser reads, cursor is what comes next.                      *)
Reading(bl, p, at, tables, events) ==
    /\ at.file \in DOMAIN bl
    /\ (p.file < at.file \/ (p.file = at.file /\ p.off <= at.off))
    /\ CacheOfDump(bl, p, tables, at.file, at.off + 1)
    /\ RowsOfDump(bl, p, events)

InFile(p, n) == p \in Place /\ p.file \in 1 .. n

ParserOld ==
    /\ InFile(startPos, Len(binlog)) /\ InFile(dumpPos, Len(binlog)) /\ InFile(pos, Len(binlog))
    /\ tranEvents \in Seq(StreamEvent) /\ sent \in Seq(Given) /\ accepted \in Seq(Given)
    /\ \A n \in 1 .. Len(accepted) : InFile(accepted[n].next, Len(binlog))
    /\ tablesMaps \in [TableIds -> TableCache \cup {NoTable}]
    /\ cursor \in [file : Nat, off : Nat, stage : {"rotate", "format", "events"}]
    /\ phase = "parsing" => Reading(binlog, dumpPos, cursor, tablesMaps, tranEvents)

DInv == MasterOld /\ ParserOld

LEMMA MappedLater ==
    ASSUME NEW bl, NEW bl2, Grows(bl, bl2), NEW p, NEW id, NEW table,
           NEW g \in Nat, NEW j \in Nat, NEW g2 \in Nat, NEW j2 \in Nat,
           g < g2 \/ (g = g2 /\ j <= j2), DOMAIN bl \subseteq Nat,
           \A f \in DOMAIN bl : DOMAIN bl[f] \subseteq Nat,
           MappedBefore(bl, p, id, table, g, j)
    PROVE  MappedBefore(bl2, p, id, table, g2, j2)
<1>1. PICK f \in DOMAIN bl : \E i \in DOMAIN bl[f] :
          /\ Behind(bl, p, "tablemap", f, i) /\ bl[f][i].id = id /\ Before(f, i, g, j)
          /\ GivenFor(table, bl[f][i].def)
  BY DEF MappedBefore
<1>2. PICK i \in DOMAIN bl[f] :
          /\ Behind(bl, p, "tablemap", f, i) /\ bl[f][i].id = id /\ Before(f, i, g, j)
          /\ GivenFor(table, bl[f][i].def)
  BY <1>1
<1>3. f \in DOMAIN bl2 /\ i \in DOMAIN bl2[f] /\ bl2[f][i] = bl[f][i] BY DEF Grows
<1>4. Behind(bl2, p, "tablemap", f, i) BY <1>2, <1>3 DEF Behind
<1>5. f \in Nat /\ i \in Nat OBVIOUS
<1>6. Before(f, i, g2, j2) BY <1>2, <1>5 DEF Before
<1> QED BY <1>2, <1>3, <1>4, <1>6 DEF MappedBefore

LEMMA RowsLater ==
    ASSUME NEW bl, NEW bl2, Grows(bl, bl2), NEW p, NEW events, DOMAIN bl \subseteq Nat,
           \A f \in DOMAIN bl : DOMAIN bl[f] \subseteq Nat, RowsOfDump(bl, p, events)
    PROVE  RowsOfDump(bl2, p, events)
<1> SUFFICES ASSUME NEW n \in DOMAIN events PROVE RowOfDump(bl2, p, events[n])
  BY DEF RowsOfDump
<1>1. PICK g \in DOMAIN bl : \E j \in DOMAIN bl[g] :
          /\ Behind(bl, p, "rows", g, j) /\ bl[g][j].row = events[n].row
          /\ MappedBefore(bl, p, bl[g][j].id, events[n].table, g, j)
  BY DEF RowsOfDump, RowOfDump
<1>2. PICK j \in DOMAIN bl[g] :
          /\ Behind(bl, p, "rows", g, j) /\ bl[g][j].row = events[n].row
          /\ MappedBefore(bl, p, bl[g][j].id, events[n].table, g, j)
  BY <1>1
<1>3. g \in DOMAIN bl2 /\ j \in DOMAIN bl2[g] /\ bl2[g][j] = bl[g][j] BY DEF Grows
<1>4. Behind(bl2, p, "rows", g, j) BY <1>2, <1>3 DEF Behind
<1>5. g \in Nat /\ j \in Nat /\ j <= j OBVIOUS
<1>6. MappedBefore(bl2, p, bl[g][j].id, events[n].table, g, j) BY <1>2, <1>5, MappedLater
<1> QED BY <1>2, <1>3, <1>4, <1>6 DEF RowOfDump

LEMMA BinlogDomains ==
    ASSUME MasterOld
    PROVE  /\ DOMAIN binlog = 1 .. Len(binlog) /\ Len(binlog) \in Nat \ {0}
           /\ DOMAIN binlog \subseteq Nat
           /\ \A f \in DOMAIN binlog : DOMAIN binlog[f] = 1 .. Len(binlog[f])
                 /\ Len(binlog[f]) \in Nat /\ DOMAIN binlog[f] \subseteq Nat
           /\ \A f \in DOMAIN binlog : \A i \in DOMAIN binlog[f] :
                 binlog[f][i] \in OldEvents(cols, Len(binlog))
<1>1. PICK S : S = OldEvents(cols, Len(binlog)) OBVIOUS
<1>2. binlog \in Seq(Seq(S)) /\ Len(binlog) \in Nat \ {0} BY <1>1 DEF MasterOld, BinlogOld
<1>3. \A f \in DOMAIN binlog : binlog[f] \in Seq(S) BY <1>2
<1>4. \A f \in DOMAIN binlog : DOMAIN binlog[f] = 1 .. Len(binlog[f]) /\ Len(binlog[f]) \in Nat
  BY <1>3
<1>5. \A f \in DOMAIN binlog : \A i \in DOMAIN binlog[f] : binlog[f][i] \in S BY <1>3
<1> QED BY <1>1, <1>2, <1>4, <1>5

(* A row of the dump has the names that the properties ask for.            *)
LEMMA RowIsNamed ==
    ASSUME NEW e, RowOfDump(binlog, dumpPos, e)
    PROVE  \E g \in DOMAIN binlog : \E j \in DOMAIN binlog[g] :
              /\ IsRow(e, g, j)
              /\ OneTable(g, j) => e.table.name = binlog[g][j].of.name
              /\ OneLayout(g, j) =>
                     /\ e.table.cols.count = binlog[g][j].of.cols.count
                     /\ e.table.cols.version >= binlog[g][j].of.cols.version
<1>1. PICK g \in DOMAIN binlog : \E j \in DOMAIN binlog[g] :
          /\ Behind(binlog, dumpPos, "rows", g, j) /\ binlog[g][j].row = e.row
          /\ MappedBefore(binlog, dumpPos, binlog[g][j].id, e.table, g, j)
  BY DEF RowOfDump
<1>2. PICK j \in DOMAIN binlog[g] :
          /\ Behind(binlog, dumpPos, "rows", g, j) /\ binlog[g][j].row = e.row
          /\ MappedBefore(binlog, dumpPos, binlog[g][j].id, e.table, g, j)
  BY <1>1
<1>3. PICK f \in DOMAIN binlog : \E i \in DOMAIN binlog[f] :
          /\ Behind(binlog, dumpPos, "tablemap", f, i)
          /\ binlog[f][i].id = binlog[g][j].id /\ Before(f, i, g, j)
          /\ GivenFor(e.table, binlog[f][i].def)
  BY <1>2 DEF MappedBefore
<1>4. PICK i \in DOMAIN binlog[f] :
          /\ Behind(binlog, dumpPos, "tablemap", f, i)
          /\ binlog[f][i].id = binlog[g][j].id /\ Before(f, i, g, j)
          /\ GivenFor(e.table, binlog[f][i].def)
  BY <1>3
<1>5. IsRow(e, g, j) BY <1>2 DEF IsRow, Behind, Dumped
<1>6. binlog[f][i].kind = "tablemap" /\ Dumped(f, i) BY <1>4 DEF Behind, Dumped
<1>7. OneTable(g, j) => e.table.name = binlog[g][j].of.name
  BY <1>4, <1>6 DEF OneTable, GivenFor
<1>8. OneLayout(g, j) => /\ e.table.cols.count = binlog[g][j].of.cols.count
                         /\ e.table.cols.version >= binlog[g][j].of.cols.version
  BY <1>4, <1>6 DEF OneLayout, GivenFor
<1> QED BY <1>5, <1>7, <1>8

(* Steps that leave the cache alone and no more rows pending.              *)
Calm ==
    /\ dumpPos' = dumpPos /\ tablesMaps' = tablesMaps /\ tranEvents' \in {<<>>, tranEvents}
    /\ cursor' \in [file : Nat, off : Nat, stage : {"rotate", "format", "events"}]
    /\ cursor'.file \in DOMAIN binlog'
    /\ cursor.file < cursor'.file \/ (cursor.file = cursor'.file /\ cursor.off <= cursor'.off)

LEMMA ReadingKept ==
    ASSUME DInv, MasterGrows, phase = "parsing", Calm
    PROVE  Reading(binlog', dumpPos', cursor', tablesMaps', tranEvents')
<1>1. /\ Reading(binlog, dumpPos, cursor, tablesMaps, tranEvents)
      /\ cursor.file \in Nat /\ cursor.off \in Nat
      /\ cursor'.file \in Nat /\ cursor'.off \in Nat /\ dumpPos.file \in Nat /\ dumpPos.off \in Nat
  BY DEF DInv, ParserOld, Calm, InFile, Place
<1>2. Grows(binlog, binlog') BY DEF MasterGrows
<1>3. cursor'.file \in DOMAIN binlog' /\ dumpPos' = dumpPos BY DEF Calm
<1>4. dumpPos.file < cursor'.file \/ (dumpPos.file = cursor'.file /\ dumpPos.off <= cursor'.off)
  BY <1>1 DEF Reading, Calm
<1>5. CacheOfDump(binlog', dumpPos, tablesMaps, cursor'.file, cursor'.off + 1)
  <2> SUFFICES ASSUME NEW id \in TableIds, tablesMaps[id] # NoTable
               PROVE  MappedBefore(binlog', dumpPos, id, tablesMaps[id].table, cursor'.file,
                          cursor'.off + 1)
    BY DEF CacheOfDump
  <2>1. MappedBefore(binlog, dumpPos, id, tablesMaps[id].table, cursor.file, cursor.off + 1)
    BY <1>1 DEF Reading, CacheOfDump
  <2>2. /\ cursor.off + 1 \in Nat /\ cursor'.off + 1 \in Nat
        /\ cursor.file < cursor'.file
              \/ (cursor.file = cursor'.file /\ cursor.off + 1 <= cursor'.off + 1)
    BY <1>1 DEF Calm
  <2>3. DOMAIN binlog \subseteq Nat /\ \A f \in DOMAIN binlog : DOMAIN binlog[f] \subseteq Nat
    BY BinlogDomains DEF DInv
  <2> QED BY <1>1, <1>2, <2>1, <2>2, <2>3, MappedLater
<1>6. RowsOfDump(binlog', dumpPos, tranEvents')
  <2>1. CASE tranEvents' = <<>> BY <2>1 DEF RowsOfDump
  <2>2. CASE tranEvents' = tranEvents
    <3>1. RowsOfDump(binlog, dumpPos, tranEvents) BY <1>1 DEF Reading
    <3>2. DOMAIN binlog \subseteq Nat /\ \A f \in DOMAIN binlog : DOMAIN binlog[f] \subseteq Nat
      BY BinlogDomains DEF DInv
    <3> QED BY <1>2, <2>2, <3>1, <3>2, RowsLater
  <2> QED BY <2>1, <2>2 DEF Calm
<1>7. tablesMaps' = tablesMaps BY DEF Calm
<1> QED BY <1>3, <1>4, <1>5, <1>6, <1>7 DEF Reading

(* The positions stay within the files.                                    *)
LEMMA FilesStay ==
    ASSUME DInv, MasterGrows, NEW p, InFile(p, Len(binlog))
    PROVE  InFile(p, Len(binlog'))
<1>1. Len(binlog) \in Nat \ {0} /\ DOMAIN binlog = 1 .. Len(binlog)
  BY BinlogDomains DEF DInv
<1>2. Len(binlog') \in Nat /\ DOMAIN binlog' = 1 .. Len(binlog')
  BY DEF MasterGrows, MasterOld, BinlogOld
<1>3. Len(binlog) \in DOMAIN binlog' BY <1>1 DEF MasterGrows, Grows
<1>4. Len(binlog) <= Len(binlog') BY <1>2, <1>3
<1> QED BY <1>1, <1>2, <1>4 DEF InFile, Place

Stages == {"rotate", "format", "events"}
CursorType == [file : Nat, off : Nat, stage : Stages]

GivenIn ==
    /\ sent \in Seq(Given) /\ accepted \in Seq(Given)
    /\ \A k \in 1 .. Len(accepted) : InFile(accepted[k].next, Len(binlog))

LEMMA GivenStays ==
    ASSUME DInv, MasterGrows, UNCHANGED <<sent, accepted>>
    PROVE  GivenIn'
<1>1. sent' = sent /\ accepted' = accepted OBVIOUS
<1>2. sent \in Seq(Given) /\ accepted \in Seq(Given) BY DEF DInv, ParserOld
<1>3. \A k \in 1 .. Len(accepted) : InFile(accepted[k].next, Len(binlog))
  BY DEF DInv, ParserOld
<1>4. \A k \in 1 .. Len(accepted) : InFile(accepted[k].next, Len(binlog'))
  BY <1>3, FilesStay
<1> QED BY <1>1, <1>2, <1>4 DEF GivenIn

LEMMA MasterStill ==
    ASSUME DInv, UNCHANGED master
    PROVE  MasterGrows
<1>1. UNCHANGED <<binlog, ids, cols, rowEvents>> BY DEF master
<1>2. Grows(binlog, binlog') BY <1>1 DEF Grows
<1> QED BY <1>1, <1>2 DEF MasterGrows, DInv, MasterOld

(* A step of the same reading, or of none.                                 *)
LEMMA CalmStep ==
    ASSUME DInv, MasterGrows, UNCHANGED <<startPos, dumpPos, tablesMaps, phase>>,
           tranEvents' \in {<<>>, tranEvents}, cursor' \in CursorType,
           InFile(pos', Len(binlog')), GivenIn', phase = "parsing" => Calm
    PROVE  DInv'
<1>1. /\ startPos' = startPos /\ dumpPos' = dumpPos /\ tablesMaps' = tablesMaps /\ phase' = phase
  OBVIOUS
<1>2. InFile(startPos, Len(binlog')) /\ InFile(dumpPos, Len(binlog'))
  BY FilesStay DEF DInv, ParserOld
<1>3. tranEvents' \in Seq(StreamEvent) /\ tablesMaps \in [TableIds -> TableCache \cup {NoTable}]
  <2>1. tranEvents \in Seq(StreamEvent) BY DEF DInv, ParserOld
  <2>2. <<>> \in Seq(StreamEvent) OBVIOUS
  <2> QED BY <2>1, <2>2 DEF DInv, ParserOld
<1>4. phase' = "parsing" => Reading(binlog', dumpPos', cursor', tablesMaps', tranEvents')
  BY <1>1, ReadingKept
<1>5. MasterOld' BY DEF MasterGrows
<1>6. ParserOld' BY <1>1, <1>2, <1>3, <1>4 DEF ParserOld, GivenIn, CursorType, Stages
<1> QED BY <1>5, <1>6 DEF DInv

(* A return of Stream.                                                     *)
LEMMA ReturnStep ==
    ASSUME DInv, UNCHANGED master, UNCHANGED <<startPos, dumpPos>>, NEW why, Return(why),
           cursor' \in CursorType, GivenIn'
    PROVE  DInv'
<1>1. MasterGrows BY MasterStill
<1>2. startPos' = startPos /\ dumpPos' = dumpPos OBVIOUS
<1>3. /\ phase' = "idle" /\ pos' = dumpPos /\ tranEvents' = <<>> /\ tablesMaps' = NoTables
  BY DEF Return, FreshLocals
<1>4. InFile(startPos, Len(binlog')) /\ InFile(dumpPos, Len(binlog'))
  BY <1>1, FilesStay DEF DInv, ParserOld
<1>5. <<>> \in Seq(StreamEvent) /\ NoTables \in [TableIds -> TableCache \cup {NoTable}]
  BY DEF NoTables
<1>6. MasterOld' BY <1>1 DEF MasterGrows
<1>7. ParserOld' BY <1>2, <1>3, <1>4, <1>5 DEF ParserOld, GivenIn, CursorType, Stages
<1> QED BY <1>6, <1>7 DEF DInv

LEMMA NoneOfDump ==
    ASSUME NEW bl, NEW p, NEW g, NEW j
    PROVE  CacheOfDump(bl, p, NoTables, g, j) /\ RowsOfDump(bl, p, <<>>)
BY DEF CacheOfDump, RowsOfDump, NoTables

(* The application's steps.                                                *)
LEMMA ApplicationStep ==
    ASSUME DInv, Application
    PROVE  DInv'
<1>0. /\ InFile(startPos, Len(binlog)) /\ InFile(dumpPos, Len(binlog)) /\ InFile(pos, Len(binlog))
      /\ cursor \in CursorType
  BY DEF DInv, ParserOld, CursorType, Stages
<1>1. CASE Resume
  <2>1. /\ phase = "idle" /\ startPos' = Saved /\ UNCHANGED <<phase, result, cancelled, dumpPos>>
        /\ UNCHANGED locals /\ UNCHANGED sent /\ UNCHANGED master /\ UNCHANGED dump
        /\ UNCHANGED application
    BY <1>1 DEF Resume, SetStartBinlogPosition
  <2>2. InFile(Saved, Len(binlog))
    <3>1. CASE accepted = <<>>
      <4>1. Len(binlog) \in Nat \ {0} BY DEF DInv, MasterOld, BinlogOld
      <4> QED BY <3>1, <4>1 DEF Saved, Start, InFile, Place
    <3>2. CASE accepted # <<>>
      <4>1. accepted \in Seq(Given) BY DEF DInv, ParserOld
      <4>2. Len(accepted) \in 1 .. Len(accepted) BY <3>2, <4>1
      <4> QED BY <3>2, <4>2 DEF DInv, ParserOld, Saved
    <3> QED BY <3>1, <3>2
  <2>3. /\ UNCHANGED <<binlog, ids, cols, rowEvents, cursor, accepted, pos, tranEvents, tablesMaps>>
        /\ UNCHANGED <<phase, dumpPos, sent>>
    BY <2>1 DEF locals, master, dump, application
  <2>4. MasterOld' BY <2>3 DEF DInv, MasterOld
  <2>5. ParserOld' BY <2>1, <2>2, <2>3 DEF DInv, ParserOld
  <2> QED BY <2>4, <2>5 DEF DInv
<1>2. CASE CallStream
  <2>1. /\ phase' = "dumping" /\ dumpPos' = startPos /\ UNCHANGED startPos
        /\ UNCHANGED locals /\ UNCHANGED sent /\ UNCHANGED master /\ UNCHANGED dump
        /\ UNCHANGED application
    BY <1>2 DEF CallStream, Stream
  <2>2. UNCHANGED <<binlog, ids, cols, rowEvents, cursor, accepted, pos, tranEvents, tablesMaps>>
    BY <2>1 DEF locals, master, dump, application
  <2>3. MasterOld' BY <2>2 DEF DInv, MasterOld
  <2>4. ParserOld' BY <2>1, <2>2 DEF DInv, ParserOld
  <2> QED BY <2>3, <2>4 DEF DInv
<1>3. CASE CallCancel
  <2>1. /\ UNCHANGED <<startPos, phase, result, dumpPos>> /\ UNCHANGED locals
        /\ UNCHANGED sent /\ UNCHANGED master /\ UNCHANGED dump /\ UNCHANGED accepted
    BY <1>3 DEF CallCancel, Cancel
  <2>2. UNCHANGED <<binlog, ids, cols, rowEvents, cursor, pos, tranEvents, tablesMaps>>
    BY <2>1 DEF locals, master, dump
  <2>3. MasterOld' BY <2>2 DEF DInv, MasterOld
  <2>4. ParserOld' BY <2>1, <2>2 DEF DInv, ParserOld
  <2> QED BY <2>3, <2>4 DEF DInv
<1>4. CASE ParseEvents /\ cursor' = [file |-> dumpPos.file, off |-> dumpPos.off, stage |-> "rotate"]
           /\ UNCHANGED <<master, application>>
  <2>1. /\ phase' = "parsing" /\ UNCHANGED <<startPos, result, cancelled, dumpPos, sent>>
        /\ pos' = startPos /\ tranEvents' = <<>> /\ tablesMaps' = NoTables
    BY <1>4 DEF ParseEvents, FreshLocals
  <2>2. UNCHANGED <<binlog, ids, cols, rowEvents, accepted>> BY <1>4 DEF master, application
  <2>3. dumpPos.file \in 1 .. Len(binlog) /\ dumpPos.file \in Nat /\ dumpPos.off \in Nat
    BY <1>0 DEF InFile, Place
  <2>4. DOMAIN binlog = 1 .. Len(binlog) BY BinlogDomains DEF DInv
  <2>5. /\ cursor' \in CursorType /\ cursor'.file = dumpPos.file /\ cursor'.off = dumpPos.off
    BY <1>4, <2>3 DEF CursorType, Stages
  <2>6. Reading(binlog, dumpPos, cursor', NoTables, <<>>)
    BY <2>3, <2>4, <2>5, NoneOfDump DEF Reading
  <2>7. <<>> \in Seq(StreamEvent) /\ NoTables \in [TableIds -> TableCache \cup {NoTable}]
    BY DEF NoTables
  <2>8. MasterOld' BY <2>2 DEF DInv, MasterOld
  <2>9. ParserOld' BY <1>0, <2>1, <2>2, <2>5, <2>6, <2>7 DEF DInv, ParserOld, CursorType, Stages
  <2> QED BY <2>8, <2>9 DEF DInv
<1>5. CASE StreamFails /\ UNCHANGED <<master, dump, accepted>>
  <2>1. /\ UNCHANGED master /\ UNCHANGED <<startPos, dumpPos>> /\ UNCHANGED <<sent, accepted>>
        /\ Return("startError") /\ cursor' = cursor
    BY <1>5 DEF StreamFails, dump
  <2>2. MasterGrows BY <2>1, MasterStill
  <2>3. GivenIn' BY <2>1, <2>2, GivenStays
  <2>4. cursor' \in CursorType BY <1>0, <2>1
  <2> QED BY <2>1, <2>3, <2>4, ReturnStep
<1> QED BY <1>1, <1>2, <1>3, <1>4, <1>5 DEF Application, StartDump

(* The master's, the network's, and the end of the stream.                 *)
LEMMA StillStep ==
    ASSUME DInv, MasterGrows, UNCHANGED <<vars, accepted>>, cursor' \in CursorType,
           \/ cursor' = cursor
           \/ cursor'.file \in DOMAIN binlog /\ cursor.file < cursor'.file
    PROVE  DInv'
<1>1. /\ UNCHANGED <<startPos, dumpPos, tablesMaps, phase>> /\ tranEvents' = tranEvents
      /\ pos' = pos /\ UNCHANGED <<sent, accepted>>
  BY DEF vars, locals
<1>2. InFile(pos', Len(binlog')) BY <1>1, FilesStay DEF DInv, ParserOld
<1>3. GivenIn' BY <1>1, GivenStays
<1>4. ASSUME phase = "parsing" PROVE Calm
  <2>1. cursor.file \in DOMAIN binlog /\ cursor \in CursorType
    BY <1>4 DEF DInv, ParserOld, Reading, CursorType, Stages
  <2>2. cursor.off \in Nat /\ cursor.off <= cursor.off BY <2>1 DEF CursorType
  <2>3. cursor'.file \in DOMAIN binlog' BY <2>1 DEF MasterGrows, Grows
  <2> QED BY <1>1, <2>1, <2>2, <2>3 DEF Calm, CursorType, Stages
<1> QED BY <1>1, <1>2, <1>3, <1>4, CalmStep

LEMMA OtherSteps ==
    ASSUME DInv,
           \/ Master \/ Restart \/ NextFile \/ LoseConnection \/ StreamEnds \/ Wait
           \/ UNCHANGED allVars
    PROVE  DInv'
<1>0. cursor \in CursorType BY DEF DInv, ParserOld, CursorType, Stages
<1>1. CASE Master \/ Restart
  <2>1. MasterGrows BY <1>1, MasterStepGrows DEF DInv
  <2>2. /\ UNCHANGED vars /\ UNCHANGED <<accepted>> /\ cursor' = cursor
    BY <1>1 DEF Master, Restart, MasterRestart, dump, application
  <2> QED BY <1>0, <2>1, <2>2, StillStep
<1>2. CASE NextFile
  <2>1. /\ UNCHANGED vars /\ UNCHANGED master /\ UNCHANGED accepted
        /\ cursor' = [file |-> cursor.file + 1, off |-> 0, stage |-> "rotate"]
        /\ cursor.file < LastFile
    BY <1>2 DEF NextFile, application
  <2>2. MasterGrows BY <2>1, MasterStill
  <2>3. DOMAIN binlog = 1 .. Len(binlog) /\ Len(binlog) \in Nat BY BinlogDomains DEF DInv
  <2>4. /\ cursor.file \in Nat /\ cursor'.file = cursor.file + 1 /\ cursor' \in CursorType
    BY <1>0, <2>1 DEF CursorType, Stages
  <2>5. cursor'.file \in DOMAIN binlog /\ cursor.file < cursor'.file
    BY <2>1, <2>3, <2>4 DEF LastFile
  <2> QED BY <2>1, <2>2, <2>4, <2>5, StillStep
<1>3. CASE LoseConnection \/ Wait \/ UNCHANGED allVars
  <2>1. /\ UNCHANGED vars /\ UNCHANGED master /\ UNCHANGED accepted /\ cursor' = cursor
    BY <1>3 DEF LoseConnection, Wait, allVars, dump, application
  <2>2. MasterGrows BY <2>1, MasterStill
  <2> QED BY <1>0, <2>1, <2>2, StillStep
<1>4. CASE StreamEnds
  <2>1. /\ UNCHANGED master /\ UNCHANGED <<startPos, dumpPos>> /\ UNCHANGED <<sent, accepted>>
        /\ Return("eof") \/ Return("cancelled")
        /\ cursor' = NoCursor
    BY <1>4 DEF StreamEnds, EndOfStream, ContextDone, Close, application
  <2>2. MasterGrows BY <2>1, MasterStill
  <2>3. GivenIn' BY <2>1, <2>2, GivenStays
  <2>4. cursor' \in CursorType BY <2>1 DEF NoCursor, CursorType, Stages
  <2> QED BY <2>1, <2>3, <2>4, ReturnStep
<1> QED BY <1>1, <1>2, <1>3, <1>4

(* The dump names the file, or describes its format.                       *)
LEMMA HeadStep ==
    ASSUME DInv, SendFakeRotate \/ SendFormat
    PROVE  DInv' /\ sent' = sent
<1>0. /\ cursor \in CursorType /\ InFile(pos, Len(binlog)) /\ InFile(dumpPos, Len(binlog))
      /\ DOMAIN binlog = 1 .. Len(binlog)
  BY BinlogDomains DEF DInv, ParserOld, CursorType, Stages
<1>1. /\ phase = "parsing" /\ UNCHANGED <<startPos, dumpPos, phase>> /\ tablesMaps' = tablesMaps
      /\ tranEvents' = tranEvents /\ UNCHANGED <<sent, accepted>> /\ UNCHANGED master
      /\ pos' \in {pos, [file |-> cursor.file, off |-> cursor.off]}
  <2>1. CASE SendFakeRotate
    <3>1. UNCHANGED master /\ UNCHANGED accepted BY <2>1 DEF SendFakeRotate, application
    <3>2. CASE EarlyRotate
      <4>1. /\ phase = "parsing" /\ UNCHANGED <<startPos, dumpPos, phase>>
            /\ UNCHANGED <<locals, sent>>
        BY <3>2 DEF EarlyRotate, Receive, Running
      <4> QED BY <3>1, <4>1 DEF locals
    <3>3. CASE Rotate([file |-> cursor.file, off |-> cursor.off])
      BY <3>1, <3>3 DEF Rotate, Parse, Receive, Running
    <3> QED BY <2>1, <3>2, <3>3 DEF SendFakeRotate
  <2>2. CASE SendFormat
    BY <2>2 DEF SendFormat, FormatDescription, Receive, Running, application
  <2> QED BY <2>1, <2>2
<1>2. MasterGrows BY <1>1, MasterStill
<1>3. /\ cursor' \in CursorType /\ cursor'.file = cursor.file /\ cursor'.off = cursor.off
  <2>1. PICK s \in Stages : cursor' = [cursor EXCEPT !.stage = s]
    BY DEF SendFakeRotate, SendFormat, Stages
  <2> QED BY <1>0, <2>1 DEF CursorType
<1>4. cursor.file \in DOMAIN binlog BY <1>1 DEF DInv, ParserOld, Reading
<1>5. InFile(pos', Len(binlog'))
  <2>1. cursor.file \in Nat /\ cursor.off \in Nat BY <1>0 DEF CursorType
  <2>2. InFile([file |-> cursor.file, off |-> cursor.off], Len(binlog))
    BY <1>0, <1>4, <2>1 DEF InFile, Place
  <2>3. InFile(pos', Len(binlog)) BY <1>0, <1>1, <2>2
  <2> QED BY <1>2, <2>3, FilesStay
<1>6. GivenIn' BY <1>1, <1>2, GivenStays
<1>7. Calm
  <2>1. cursor'.file \in DOMAIN binlog' BY <1>2, <1>3, <1>4 DEF MasterGrows, Grows
  <2>2. cursor.off \in Nat /\ cursor.off <= cursor.off BY <1>0 DEF CursorType
  <2> QED BY <1>1, <1>3, <2>1, <2>2 DEF Calm, CursorType, Stages
<1> QED BY <1>1, <1>2, <1>3, <1>5, <1>6, <1>7, CalmStep

(* The next event of the dump is read.                                     *)
ComingEvent == Events[cursor.off + 1]

ReadingEvent ==
    /\ phase = "parsing" /\ cursor.off < Len(Events)
    /\ Receives(ComingEvent, cursor.off + 1)

LEMMA NextIsOld ==
    ASSUME DInv, phase = "parsing", cursor.off < Len(Events)
    PROVE  /\ cursor.file \in DOMAIN binlog /\ cursor.off + 1 \in DOMAIN binlog[cursor.file]
           /\ cursor.file \in Nat /\ cursor.off \in Nat
           /\ ComingEvent = binlog[cursor.file][cursor.off + 1]
           /\ ComingEvent \in OldEvents(cols, Len(binlog))
           /\ dumpPos.file \in Nat /\ dumpPos.off \in Nat
           /\ (dumpPos.file < cursor.file
                  \/ (dumpPos.file = cursor.file /\ dumpPos.off < cursor.off + 1))
<1>1. /\ cursor.file \in DOMAIN binlog /\ cursor.off \in Nat /\ cursor.file \in Nat
      /\ (dumpPos.file < cursor.file
             \/ (dumpPos.file = cursor.file /\ dumpPos.off <= cursor.off))
      /\ dumpPos \in Place
  BY DEF DInv, ParserOld, Reading, InFile
<1>2. /\ DOMAIN binlog[cursor.file] = 1 .. Len(binlog[cursor.file])
      /\ Len(binlog[cursor.file]) \in Nat
      /\ \A i \in DOMAIN binlog[cursor.file] :
            binlog[cursor.file][i] \in OldEvents(cols, Len(binlog))
  BY <1>1, BinlogDomains DEF DInv
<1>3. cursor.off + 1 \in DOMAIN binlog[cursor.file] BY <1>1, <1>2 DEF Events
<1>4. ComingEvent = binlog[cursor.file][cursor.off + 1] BY DEF ComingEvent, Events
<1>5. dumpPos.file \in Nat /\ dumpPos.off \in Nat BY <1>1 DEF Place
<1> QED BY <1>1, <1>2, <1>3, <1>4, <1>5

(* A row is that of a rows event, under a table that the dump mapped.      *)
LEMMA RowRead ==
    ASSUME DInv, phase = "parsing", cursor.off < Len(Events), ComingEvent.kind = "rows",
           tablesMaps[ComingEvent.id] # NoTable,
           NEW e, e = RowEvent(ComingEvent.op, tablesMaps[ComingEvent.id], ComingEvent.row)
    PROVE  /\ e \in StreamEvent /\ RowOfDump(binlog, dumpPos, e)
           /\ Append(tranEvents, e) \in Seq(StreamEvent)
           /\ RowsOfDump(binlog, dumpPos, Append(tranEvents, e))
<1> DEFINE g == cursor.file
           j == cursor.off + 1
<1>1. /\ g \in DOMAIN binlog /\ j \in DOMAIN binlog[g] /\ ComingEvent = binlog[g][j]
      /\ ComingEvent \in OldEvents(cols, Len(binlog))
      /\ (dumpPos.file < g \/ (dumpPos.file = g /\ dumpPos.off < j))
  BY NextIsOld
<1>2. ComingEvent \in RowsEvents
  BY <1>1 DEF OldEvents, AnyEvent, TableMapEvents, RowsEvents, OtherEvents
<1>3. ComingEvent.op \in Operations /\ ComingEvent.id \in TableIds /\ ComingEvent.row \in Nat
  BY <1>2 DEF RowsEvents
<1>4. tablesMaps[ComingEvent.id] \in TableCache BY <1>3 DEF DInv, ParserOld
<1>5. e \in StreamEvent BY <1>3, <1>4 DEF RowEvent, StreamEvent, TableCache
<1>6. e.row = ComingEvent.row /\ e.table = tablesMaps[ComingEvent.id].table BY DEF RowEvent
<1>7. Reading(binlog, dumpPos, cursor, tablesMaps, tranEvents) BY DEF DInv, ParserOld
<1>8. MappedBefore(binlog, dumpPos, ComingEvent.id, e.table, g, j)
  BY <1>3, <1>6, <1>7 DEF Reading, CacheOfDump
<1>9. Behind(binlog, dumpPos, "rows", g, j) BY <1>1 DEF Behind
<1>10. RowOfDump(binlog, dumpPos, e) BY <1>1, <1>6, <1>8, <1>9 DEF RowOfDump
<1>11. RowsOfDump(binlog, dumpPos, tranEvents) /\ tranEvents \in Seq(StreamEvent)
  BY <1>7 DEF Reading, DInv, ParserOld
<1>12. /\ Append(tranEvents, e) \in Seq(StreamEvent)
       /\ Len(Append(tranEvents, e)) = Len(tranEvents) + 1
       /\ \A i \in 1 .. Len(tranEvents) : Append(tranEvents, e)[i] = tranEvents[i]
       /\ Append(tranEvents, e)[Len(tranEvents) + 1] = e
  BY <1>5, <1>11, Appended
<1>13. RowsOfDump(binlog, dumpPos, Append(tranEvents, e))
  <2> SUFFICES ASSUME NEW n \in DOMAIN Append(tranEvents, e)
               PROVE  RowOfDump(binlog, dumpPos, Append(tranEvents, e)[n])
    BY DEF RowsOfDump
  <2>1. Len(tranEvents) \in Nat /\ DOMAIN tranEvents = 1 .. Len(tranEvents) BY <1>11
  <2>2. n \in 1 .. Len(tranEvents) + 1 BY <1>12
  <2>3. CASE n \in 1 .. Len(tranEvents) BY <1>11, <1>12, <2>1, <2>3 DEF RowsOfDump
  <2>4. CASE n = Len(tranEvents) + 1 BY <1>10, <1>12, <2>4
  <2> QED BY <2>1, <2>2, <2>3, <2>4
<1> QED BY <1>5, <1>10, <1>12, <1>13

(* What a step may do to the transactions handed over: nothing, or to hand *)
(* over one of rows of the dump.                                           *)
Hands(next, events, ok) ==
    /\ Send(next, events, ok) /\ ok \in BOOLEAN
    /\ events \in Seq(StreamEvent) /\ RowsOfDump(binlog, dumpPos, events)

Accepting ==
    IF sent' # sent /\ Handed.accepted THEN accepted' = Append(accepted, Handed)
    ELSE UNCHANGED accepted

LEMMA HandedOver ==
    ASSUME DInv, UNCHANGED master, Accepting, NEW events, NEW ok, NEW next \in Nat,
           Hands(next, events, ok)
    PROVE  GivenIn' /\ InFile(PositionAfter(next), Len(binlog))
           /\ RowsOfDump(binlog, dumpPos, Handed.events)
<1>1. InFile(pos, Len(binlog)) /\ sent \in Seq(Given) /\ accepted \in Seq(Given)
  BY DEF DInv, ParserOld
<1>2. PICK p : p = PositionAfter(next) OBVIOUS
<1>3. InFile(p, Len(binlog)) /\ p \in Place
  <2>1. pos \in Place /\ pos.file \in 1 .. Len(binlog) BY <1>1 DEF InFile
  <2>2. p = [pos EXCEPT !.off = next] BY <1>2 DEF PositionAfter
  <2>3. p \in Place /\ p.file = pos.file BY <2>1, <2>2 DEF Place
  <2> QED BY <2>1, <2>3 DEF InFile
<1>4. PICK t : t = [now |-> pos, next |-> p, events |-> events, accepted |-> ok] OBVIOUS
<1>5. t \in Given /\ t.next = p /\ t.events = events
  BY <1>1, <1>3, <1>4 DEF Given, InFile, Hands
<1>6. sent' = Append(sent, t) BY <1>2, <1>4 DEF Hands, Send
<1>7. sent' \in Seq(Given) /\ Len(sent') = Len(sent) + 1 /\ sent'[Len(sent')] = t
  <2>1. /\ Append(sent, t) \in Seq(Given) /\ Len(Append(sent, t)) = Len(sent) + 1
        /\ Append(sent, t)[Len(sent) + 1] = t
    BY <1>1, <1>5, Appended
  <2> QED BY <1>6, <2>1
<1>8. Handed = t BY <1>7 DEF Handed
<1>9. RowsOfDump(binlog, dumpPos, Handed.events) BY <1>5, <1>8 DEF Hands
<1>10. binlog' = binlog BY DEF master
<1>11. \A k \in 1 .. Len(accepted) : InFile(accepted[k].next, Len(binlog))
  BY DEF DInv, ParserOld
<1>12. GivenIn'
  <2>1. CASE accepted' = accepted BY <1>1, <1>7, <1>10, <1>11, <2>1 DEF GivenIn
  <2>2. CASE accepted' = Append(accepted, t)
    <3>1. /\ accepted' \in Seq(Given) /\ Len(accepted') = Len(accepted) + 1
          /\ \A k \in 1 .. Len(accepted) : accepted'[k] = accepted[k]
          /\ accepted'[Len(accepted) + 1] = t
      BY <1>1, <1>5, <2>2, Appended
    <3>2. Len(accepted) \in Nat BY <1>1
    <3>3. ASSUME NEW k \in 1 .. Len(accepted') PROVE InFile(accepted'[k].next, Len(binlog))
      <4>1. CASE k \in 1 .. Len(accepted) BY <1>11, <3>1, <4>1
      <4>2. CASE k = Len(accepted) + 1 BY <1>3, <1>5, <3>1, <4>2
      <4> QED BY <3>1, <3>2, <4>1, <4>2
    <3> QED BY <1>7, <1>10, <3>1, <3>3 DEF GivenIn
  <2> QED BY <1>8, <2>1, <2>2 DEF Accepting
<1> QED BY <1>2, <1>3, <1>9, <1>12

(* What a step that reads an event may do: end the stream, go on with no   *)
(* more rows pending, map a table, or add a row.                           *)
HandsOver ==
    \/ UNCHANGED sent
    \/ \E events \in Seq(StreamEvent), ok \in BOOLEAN : Hands(cursor.off + 1, events, ok)

EndsStream == HandsOver /\ \E why \in Results : Return(why)

GoesOn ==
    /\ HandsOver /\ phase' = phase /\ tablesMaps' = tablesMaps
    /\ tranEvents' \in {<<>>, tranEvents} /\ InFile(pos', Len(binlog))

MapsTable ==
    /\ UNCHANGED <<sent, phase, pos, tranEvents>> /\ ComingEvent.kind = "tablemap"
    /\ \/ tablesMaps[ComingEvent.id] # NoTable
       \/ ComingEvent.def.cols.count = cols[ComingEvent.def.name].count
    /\ TableMap(ComingEvent.id, ComingEvent.def, cols[ComingEvent.def.name])

AddsRow ==
    /\ UNCHANGED <<sent, phase, pos>> /\ tablesMaps' = tablesMaps
    /\ ComingEvent.kind = "rows" /\ tablesMaps[ComingEvent.id] # NoTable
    /\ tranEvents' = Append(tranEvents, RowEvent(ComingEvent.op, tablesMaps[ComingEvent.id],
                                                 ComingEvent.row))

LEMMA CommitHands ==
    ASSUME DInv, phase = "parsing", NEW events, events \in Seq(StreamEvent), cursor.off \in Nat,
           RowsOfDump(binlog, dumpPos, events), Commit(cursor.off + 1, events)
    PROVE  EndsStream \/ GoesOn
<1>1. InFile(pos, Len(binlog)) BY DEF DInv, ParserOld
<1>2. ASSUME NEW ok \in BOOLEAN, Send(cursor.off + 1, events, ok) PROVE HandsOver
  <2>1. Hands(cursor.off + 1, events, ok) BY <1>2 DEF Hands
  <2> QED BY <2>1 DEF HandsOver
<1>3. InFile(PositionAfter(cursor.off + 1), Len(binlog))
  <2>1. pos \in Place /\ pos.file \in 1 .. Len(binlog) BY <1>1 DEF InFile
  <2>2. PICK p : p = [pos EXCEPT !.off = cursor.off + 1] OBVIOUS
  <2>3. p \in Place /\ p.file = pos.file BY <2>1, <2>2 DEF Place
  <2> QED BY <2>1, <2>2, <2>3 DEF InFile, PositionAfter
<1>4. CASE Send(cursor.off + 1, events, FALSE) /\ Return("sendError")
  BY <1>2, <1>4 DEF EndsStream, Results
<1>5. CASE /\ Send(cursor.off + 1, events, TRUE) /\ Running
           /\ pos' = PositionAfter(cursor.off + 1)
           /\ tranEvents' = <<>> /\ autocommit' = TRUE
           /\ UNCHANGED <<format, tablesMaps>>
  <2>1. HandsOver BY <1>2, <1>5
  <2> QED BY <1>3, <1>5, <2>1 DEF GoesOn, Running
<1> QED BY <1>4, <1>5 DEF Commit

LEMMA EventRead ==
    ASSUME DInv, ReadingEvent
    PROVE  /\ EndsStream \/ GoesOn \/ MapsTable \/ AddsRow
           /\ UNCHANGED <<startPos, dumpPos>>
<1> DEFINE e == ComingEvent
           next == cursor.off + 1
<1>1. phase = "parsing" /\ cursor.off < Len(Events) /\ Receives(e, next) BY DEF ReadingEvent
<1>2. cursor.off \in Nat /\ e \in OldEvents(cols, Len(binlog)) BY <1>1, NextIsOld
<1>3. /\ InFile(pos, Len(binlog)) /\ tranEvents \in Seq(StreamEvent)
      /\ RowsOfDump(binlog, dumpPos, tranEvents)
  BY <1>1 DEF DInv, ParserOld, Reading
<1>4. <<>> \in Seq(StreamEvent) /\ RowsOfDump(binlog, dumpPos, <<>>) BY NoneOfDump
<1>5. ASSUME Reject PROVE EndsStream BY <1>5 DEF Reject, EndsStream, HandsOver, Results
<1>6. ASSUME Ignored PROVE GoesOn /\ UNCHANGED <<startPos, dumpPos>>
  <2>1. /\ phase' = phase /\ UNCHANGED locals /\ sent' = sent /\ UNCHANGED <<startPos, dumpPos>>
    BY <1>6 DEF Ignored, Parse, Receive, Running
  <2>2. UNCHANGED <<pos, tranEvents, tablesMaps>> BY <2>1 DEF locals
  <2> QED BY <1>3, <2>1, <2>2 DEF GoesOn, HandsOver
<1>7. ASSUME Parse PROVE UNCHANGED <<startPos, dumpPos>> BY <1>7 DEF Parse, Receive
<1>8. ASSUME Parse /\ Commit(next, tranEvents)
      PROVE  (EndsStream \/ GoesOn) /\ UNCHANGED <<startPos, dumpPos>>
  BY <1>1, <1>2, <1>3, <1>7, <1>8, CommitHands
<1>9. CASE e.kind = "query" /\ Query(e.sql, next)
  <2>1. CASE Begin
    <3>1. /\ phase' = phase /\ tranEvents' = <<>> /\ UNCHANGED <<pos, tablesMaps>> /\ sent' = sent
      BY <2>1 DEF Begin, Running
    <3>2. UNCHANGED <<startPos, dumpPos>> BY <1>7, <2>1 DEF Begin
    <3> QED BY <1>3, <3>1, <3>2 DEF GoesOn, HandsOver
  <2>2. CASE Parse /\ Commit(next, <<>>) BY <1>1, <1>2, <1>4, <1>7, <2>2, CommitHands
  <2>3. CASE Parse /\ Commit(next, tranEvents) BY <1>8, <2>3
  <2>4. CASE Ignored BY <1>6, <2>4
  <2> QED BY <1>9, <2>1, <2>2, <2>3, <2>4 DEF Query
<1>10. CASE e.kind = "xid" /\ XID(next) BY <1>8, <1>10 DEF XID
<1>11. CASE e.kind = "tablemap" /\ MappedTableMap(e.id, e.def)
  <2>1. CASE tablesMaps[e.id] # NoTable \/ e.def.cols.count = cols[e.def.name].count
    <3>1. TableMap(e.id, e.def, cols[e.def.name]) BY <1>11, <2>1 DEF MappedTableMap
    <3>2. phase' = phase /\ UNCHANGED <<pos, tranEvents>> /\ sent' = sent
      BY <3>1 DEF TableMap, Running
    <3>3. UNCHANGED <<startPos, dumpPos>> BY <1>7, <3>1 DEF TableMap
    <3>4. MapsTable BY <1>11, <2>1, <3>1, <3>2 DEF MapsTable
    <3> QED BY <3>3, <3>4
  <2>2. CASE TableMapRefused(e.id) BY <1>5, <1>7, <2>2 DEF TableMapRefused
  <2> QED BY <1>11, <2>1, <2>2 DEF MappedTableMap
<1>12. CASE e.kind = "rows" /\ WrittenRows(e, next)
  <2>1. PICK count : count = e.of.cols.count OBVIOUS
  <2>2. CASE Rows(e.op, e.id, count, TRUE, next, e.row)
    <3>1. PICK row : row = RowEvent(e.op, tablesMaps[e.id], e.row) OBVIOUS
    <3>2. PICK events : events = Append(tranEvents, row) OBVIOUS
    <3>3. /\ Parse /\ tablesMaps[e.id] # NoTable
          /\ \/ Commit(next, events)
             \/ /\ tranEvents' = events /\ Running
                /\ UNCHANGED <<pos, format, autocommit, tablesMaps, sent>>
      BY <2>2, <3>1, <3>2 DEF Rows
    <3>4. events \in Seq(StreamEvent) /\ RowsOfDump(binlog, dumpPos, events)
      BY <1>1, <1>12, <3>1, <3>2, <3>3, RowRead
    <3>5. CASE Commit(next, events) BY <1>1, <1>2, <1>7, <3>3, <3>4, <3>5, CommitHands
    <3>6. CASE /\ tranEvents' = events /\ Running
               /\ UNCHANGED <<pos, format, autocommit, tablesMaps, sent>>
      BY <1>7, <1>12, <3>1, <3>2, <3>3, <3>6 DEF AddsRow, Running
    <3> QED BY <3>3, <3>5, <3>6
  <2>3. CASE RowsRefused(e.id, count, TRUE) BY <1>5, <1>7, <2>3 DEF RowsRefused
  <2>4. CASE RowsPanic(e.id, count, TRUE)
    BY <1>7, <2>4 DEF RowsPanic, EndsStream, HandsOver, Results
  <2> QED BY <1>12, <2>1, <2>2, <2>3, <2>4 DEF WrittenRows
<1>13. CASE e.kind = "rotate" /\ Rotate(e.to)
  <2>1. /\ phase' = phase /\ pos' = e.to /\ UNCHANGED <<tranEvents, tablesMaps>> /\ sent' = sent
    BY <1>13 DEF Rotate, Running
  <2>2. UNCHANGED <<startPos, dumpPos>> BY <1>7, <1>13 DEF Rotate
  <2>3. e \in AnyEvent /\ e.to.file \in 1 .. Len(binlog) BY <1>2, <1>13 DEF OldEvents
  <2>4. e.to \in Place
    BY <1>13, <2>3 DEF AnyEvent, TableMapEvents, RowsEvents, OtherEvents
  <2>5. InFile(pos', Len(binlog)) BY <2>1, <2>3, <2>4 DEF InFile
  <2> QED BY <2>1, <2>2, <2>5 DEF GoesOn, HandsOver
<1>14. CASE e.kind = "ignored" /\ Ignored BY <1>6, <1>14
<1> QED BY <1>1, <1>9, <1>10, <1>11, <1>12, <1>13, <1>14 DEF Receives

LEMMA SendEventHands ==
    ASSUME DInv, SendEvent
    PROVE  /\ ReadingEvent /\ UNCHANGED master /\ Accepting
           /\ phase' = "parsing" => cursor' = [cursor EXCEPT !.off = cursor.off + 1]
           /\ phase' # "parsing" => cursor' = NoCursor
<1>1. phase = "parsing"
  <2>1. Receives(Events[cursor.off + 1], cursor.off + 1) BY DEF SendEvent
  <2>2. Receive
    BY <2>1 DEF Receives, Query, Begin, Ignored, XID, MappedTableMap, TableMap, TableMapRefused,
                WrittenRows, Rows, RowsRefused, RowsPanic, Rotate, Parse
  <2> QED BY <2>2 DEF Receive
<1> QED BY <1>1 DEF SendEvent, ReadingEvent, ComingEvent, Accepting, Close

(* What is handed over is of the dump.                                     *)
LEMMA HandedIsOfDump ==
    ASSUME DInv, ReplicationNext, sent' # sent
    PROVE  RowsOfDump(binlog, dumpPos, Handed.events)
<1>1. CASE SendEvent
  <2>1. ReadingEvent /\ UNCHANGED master /\ Accepting BY <1>1, SendEventHands
  <2>2. HandsOver BY <2>1, EventRead DEF EndsStream, GoesOn, MapsTable, AddsRow
  <2>3. PICK events \in Seq(StreamEvent), ok \in BOOLEAN : Hands(cursor.off + 1, events, ok)
    BY <2>2 DEF HandsOver
  <2>4. cursor.off + 1 \in Nat BY DEF DInv, ParserOld
  <2> QED BY <2>1, <2>3, <2>4, HandedOver
<1>2. CASE ~SendEvent
  <2>1. CASE Master \/ Restart
    BY <2>1 DEF Master, Restart, MasterRestart, vars
  <2>2. CASE NextFile \/ LoseConnection \/ StreamEnds \/ Wait
    BY <2>2 DEF NextFile, LoseConnection, StreamEnds, EndOfStream, ContextDone, Wait, allVars, vars
  <2>3. CASE SendFakeRotate \/ SendFormat BY <2>3, HeadStep
  <2>4. CASE Application
    BY <2>4 DEF Application, Resume, SetStartBinlogPosition, CallStream, Stream, StartDump,
                ParseEvents, StreamFails, CallCancel, Cancel
  <2> QED BY <1>2, <2>1, <2>2, <2>3, <2>4 DEF ReplicationNext, Dump
<1> QED BY <1>1, <1>2

LEMMA SendEventStep ==
    ASSUME DInv, SendEvent
    PROVE  DInv'
<1> DEFINE g == cursor.file
           j == cursor.off + 1
<1>1. /\ ReadingEvent /\ UNCHANGED master /\ Accepting
      /\ phase' = "parsing" => cursor' = [cursor EXCEPT !.off = j]
      /\ phase' # "parsing" => cursor' = NoCursor
  BY SendEventHands
<1>2. /\ EndsStream \/ GoesOn \/ MapsTable \/ AddsRow
      /\ UNCHANGED <<startPos, dumpPos>>
  BY <1>1, EventRead
<1>3. /\ phase = "parsing" /\ cursor.off < Len(Events) BY <1>1 DEF ReadingEvent
<1>4. /\ g \in DOMAIN binlog /\ j \in DOMAIN binlog[g] /\ g \in Nat /\ cursor.off \in Nat
      /\ ComingEvent = binlog[g][j] /\ ComingEvent \in OldEvents(cols, Len(binlog))
      /\ dumpPos.file \in Nat /\ dumpPos.off \in Nat
      /\ (dumpPos.file < g \/ (dumpPos.file = g /\ dumpPos.off < j))
  BY <1>3, NextIsOld
<1>5. MasterGrows BY <1>1, MasterStill
<1>6. ASSUME HandsOver PROVE GivenIn'
  <2>1. CASE UNCHANGED sent
    <3>1. sent' = sent /\ accepted' = accepted BY <1>1, <2>1 DEF Accepting
    <3> QED BY <1>5, <3>1, GivenStays
  <2>2. CASE \E events \in Seq(StreamEvent), ok \in BOOLEAN : Hands(j, events, ok)
    <3>1. PICK events \in Seq(StreamEvent), ok \in BOOLEAN : Hands(j, events, ok) BY <2>2
    <3>2. j \in Nat BY <1>4
    <3> QED BY <1>1, <3>1, <3>2, HandedOver
  <2> QED BY <1>6, <2>1, <2>2 DEF HandsOver
<1>7. cursor \in CursorType BY DEF DInv, ParserOld, CursorType, Stages
<1>8. ASSUME phase' = "parsing"
      PROVE  cursor' \in CursorType /\ cursor'.file = g /\ cursor'.off = j
  BY <1>1, <1>4, <1>7, <1>8 DEF CursorType
<1>9. binlog' = binlog /\ cols' = cols BY <1>1 DEF master
<1>10. CASE EndsStream
  <2>1. PICK why \in Results : Return(why) BY <1>10 DEF EndsStream
  <2>2. phase' # "parsing" BY <2>1 DEF Return
  <2>3. cursor' \in CursorType BY <1>1, <2>2 DEF NoCursor, CursorType, Stages
  <2>4. GivenIn' BY <1>6, <1>10 DEF EndsStream
  <2> QED BY <1>1, <1>2, <2>1, <2>3, <2>4, ReturnStep
<1>11. CASE GoesOn
  <2>1. /\ HandsOver /\ phase' = phase /\ tablesMaps' = tablesMaps
        /\ tranEvents' \in {<<>>, tranEvents} /\ InFile(pos', Len(binlog))
    BY <1>11 DEF GoesOn
  <2>2. cursor' \in CursorType /\ cursor'.file = g /\ cursor'.off = j BY <1>3, <1>8, <2>1
  <2>3. GivenIn' BY <1>6, <2>1
  <2>4. Calm
    <3>1. cursor.off <= cursor'.off BY <1>4, <2>2
    <3> QED BY <1>2, <1>4, <1>9, <2>1, <2>2, <3>1 DEF Calm, CursorType, Stages
  <2>5. InFile(pos', Len(binlog')) BY <1>9, <2>1
  <2>6. UNCHANGED <<startPos, dumpPos, tablesMaps, phase>> BY <1>2, <2>1
  <2> QED BY <1>5, <2>1, <2>2, <2>3, <2>4, <2>5, <2>6, CalmStep
<1>12. ASSUME phase' = phase, pos' = pos, GivenIn', tranEvents' \in Seq(StreamEvent),
              tablesMaps' \in [TableIds -> TableCache \cup {NoTable}],
              CacheOfDump(binlog, dumpPos, tablesMaps', g, j + 1),
              RowsOfDump(binlog, dumpPos, tranEvents')
       PROVE  DInv'
  <2>1. cursor' \in CursorType /\ cursor'.file = g /\ cursor'.off = j BY <1>3, <1>8, <1>12
  <2>2. dumpPos.file < g \/ (dumpPos.file = g /\ dumpPos.off <= j) BY <1>4
  <2>3. Reading(binlog, dumpPos, cursor', tablesMaps', tranEvents')
    BY <1>4, <1>12, <2>1, <2>2 DEF Reading
  <2>4. MasterOld' BY <1>5 DEF MasterGrows
  <2>5. ParserOld'
    BY <1>2, <1>9, <1>12, <2>1, <2>3 DEF DInv, ParserOld, GivenIn, CursorType, Stages
  <2> QED BY <2>4, <2>5 DEF DInv
<1>13. Reading(binlog, dumpPos, cursor, tablesMaps, tranEvents) BY <1>3 DEF DInv, ParserOld
<1>14. /\ tranEvents \in Seq(StreamEvent)
       /\ tablesMaps \in [TableIds -> TableCache \cup {NoTable}]
  BY DEF DInv, ParserOld
<1>15. ASSUME NEW id, NEW table, MappedBefore(binlog, dumpPos, id, table, g, j)
       PROVE  MappedBefore(binlog, dumpPos, id, table, g, j + 1)
  <2>1. j \in Nat /\ j + 1 \in Nat /\ j <= j + 1 BY <1>4
  <2>2. DOMAIN binlog \subseteq Nat /\ \A f \in DOMAIN binlog : DOMAIN binlog[f] \subseteq Nat
    BY BinlogDomains DEF DInv
  <2>3. Grows(binlog, binlog) BY DEF Grows
  <2> QED BY <1>4, <1>15, <2>1, <2>2, <2>3, MappedLater
<1>16. CASE MapsTable
  <2> DEFINE e == ComingEvent
             now == cols[e.def.name]
  <2>1. /\ UNCHANGED <<sent, phase, pos, tranEvents>> /\ e.kind = "tablemap"
        /\ (tablesMaps[e.id] # NoTable \/ e.def.cols.count = now.count)
        /\ TableMap(e.id, e.def, now)
    BY <1>16 DEF MapsTable
  <2>2. e \in TableMapEvents /\ e.def.cols.version <= now.version
    <3>1. e \in AnyEvent /\ e.def.cols.version <= now.version BY <1>4, <2>1 DEF OldEvents
    <3> QED BY <2>1, <3>1 DEF AnyEvent, TableMapEvents, RowsEvents, OtherEvents
  <2>3. e.id \in TableIds /\ e.def \in TableDef BY <2>2 DEF TableMapEvents
  <2>4. e.def.name \in TableNames /\ e.def.cols \in Layout BY <2>3 DEF TableDef
  <2>5. now \in Layout BY <2>4 DEF DInv, MasterOld
  <2>6. now.version \in Nat /\ e.def.cols.version \in Nat
    BY <2>4, <2>5, VersionsAssumption DEF Layout
  <2>7. PICK entry \in TableCache :
            /\ tablesMaps' = [tablesMaps EXCEPT ![e.id] = entry]
            /\ MappedBefore(binlog, dumpPos, e.id, entry.table, g, j + 1)
    <3>1. CASE tablesMaps[e.id] # NoTable
      <4>1. PICK entry : entry = [tableMap |-> e.def, table |-> tablesMaps[e.id].table] OBVIOUS
      <4>2. tablesMaps[e.id] \in TableCache BY <1>14, <2>3, <3>1
      <4>3. entry \in TableCache /\ entry.table = tablesMaps[e.id].table
        BY <2>3, <4>1, <4>2 DEF TableCache
      <4>4. tablesMaps' = [tablesMaps EXCEPT ![e.id] = entry]
        BY <2>1, <3>1, <4>1 DEF TableMap, Cached
      <4>5. MappedBefore(binlog, dumpPos, e.id, tablesMaps[e.id].table, g, j)
        BY <1>13, <2>3, <3>1 DEF Reading, CacheOfDump
      <4> QED BY <1>15, <4>3, <4>4, <4>5
    <3>2. CASE tablesMaps[e.id] = NoTable
      <4>1. PICK table : table = [name |-> e.def.name, cols |-> now] OBVIOUS
      <4>2. PICK entry : entry = [tableMap |-> e.def, table |-> table] OBVIOUS
      <4>3. table \in TableDef BY <2>4, <2>5, <4>1 DEF TableDef
      <4>4. entry \in TableCache /\ entry.table = table BY <2>3, <4>2, <4>3 DEF TableCache
      <4>5. tablesMaps' = [tablesMaps EXCEPT ![e.id] = entry]
        BY <2>1, <3>2, <4>1, <4>2 DEF TableMap, Cached
      <4>6. e.def.cols.count = now.count BY <2>1, <3>2 DEF TableMap
      <4>7. GivenFor(table, e.def) BY <2>2, <2>6, <4>1, <4>6 DEF GivenFor
      <4>8. Behind(binlog, dumpPos, "tablemap", g, j) BY <1>4, <2>1 DEF Behind
      <4>9. Before(g, j, g, j + 1) BY <1>4 DEF Before
      <4>10. MappedBefore(binlog, dumpPos, e.id, table, g, j + 1)
        BY <1>4, <4>7, <4>8, <4>9 DEF MappedBefore
      <4> QED BY <4>4, <4>5, <4>10
    <3> QED BY <3>1, <3>2
  <2> HIDE DEF now
  <2>8. tablesMaps' \in [TableIds -> TableCache \cup {NoTable}] BY <1>14, <2>7
  <2>9. CacheOfDump(binlog, dumpPos, tablesMaps', g, j + 1)
    <3> SUFFICES ASSUME NEW id \in TableIds, tablesMaps'[id] # NoTable
                 PROVE  MappedBefore(binlog, dumpPos, id, tablesMaps'[id].table, g, j + 1)
      BY DEF CacheOfDump
    <3>1. CASE id = e.id
      <4>1. tablesMaps'[id] = entry BY <1>14, <2>7, <3>1
      <4> QED BY <2>7, <3>1, <4>1
    <3>2. CASE id # e.id
      <4>1. tablesMaps'[id] = tablesMaps[id] BY <1>14, <2>7, <3>2
      <4>2. MappedBefore(binlog, dumpPos, id, tablesMaps[id].table, g, j)
        BY <1>13, <4>1 DEF Reading, CacheOfDump
      <4> QED BY <1>15, <4>1, <4>2
    <3> QED BY <3>1, <3>2
  <2>10. GivenIn' BY <1>6, <2>1 DEF HandsOver
  <2>11. RowsOfDump(binlog, dumpPos, tranEvents') BY <1>13, <2>1 DEF Reading
  <2> QED BY <1>12, <1>14, <2>1, <2>8, <2>9, <2>10, <2>11
<1>17. CASE AddsRow
  <2>1. PICK e : e = RowEvent(ComingEvent.op, tablesMaps[ComingEvent.id], ComingEvent.row) OBVIOUS
  <2>2. /\ UNCHANGED <<sent, phase, pos>> /\ tablesMaps' = tablesMaps
        /\ ComingEvent.kind = "rows" /\ tablesMaps[ComingEvent.id] # NoTable
        /\ tranEvents' = Append(tranEvents, e)
    BY <1>17, <2>1 DEF AddsRow
  <2>3. /\ Append(tranEvents, e) \in Seq(StreamEvent)
        /\ RowsOfDump(binlog, dumpPos, Append(tranEvents, e))
    BY <1>3, <2>1, <2>2, RowRead
  <2>4. CacheOfDump(binlog, dumpPos, tablesMaps', g, j + 1)
    <3> SUFFICES ASSUME NEW id \in TableIds, tablesMaps[id] # NoTable
                 PROVE  MappedBefore(binlog, dumpPos, id, tablesMaps[id].table, g, j + 1)
      BY <2>2 DEF CacheOfDump
    <3>1. MappedBefore(binlog, dumpPos, id, tablesMaps[id].table, g, j)
      BY <1>13 DEF Reading, CacheOfDump
    <3> QED BY <1>15, <3>1
  <2>5. GivenIn' BY <1>6, <2>2 DEF HandsOver
  <2> QED BY <1>12, <1>14, <2>2, <2>3, <2>4, <2>5
<1> QED BY <1>2, <1>10, <1>11, <1>16, <1>17

LEMMA DumpInvariant == ReplicationSafeSpec => []DInv
<1>1. ASSUME ReplicationInit PROVE DInv
  <2>1. /\ binlog = <<<<>>>> /\ ids = [t \in TableNames |-> 0] /\ rowEvents = 0
        /\ cols \in [TableNames -> [count : {CHOOSE n \in ColumnCounts : TRUE}, version : Versions]]
        /\ phase = "idle" /\ startPos = Start /\ dumpPos = startPos /\ pos = startPos
        /\ tranEvents = <<>> /\ tablesMaps = NoTables /\ sent = <<>>
        /\ cursor = NoCursor /\ accepted = <<>>
    BY <1>1 DEF ReplicationInit, Init
  <2>2. cols \in [TableNames -> Layout]
    <3>1. (CHOOSE n \in ColumnCounts : TRUE) \in ColumnCounts BY ColumnsAssumption
    <3>2. [count : {CHOOSE n \in ColumnCounts : TRUE}, version : Versions] \subseteq Layout
      BY <3>1 DEF Layout
    <3> QED BY <2>1, <3>2
  <2>3. PICK S : S = OldEvents(cols, Len(binlog)) OBVIOUS
  <2>4. <<>> \in Seq(S) /\ <<<<>>>> \in Seq(Seq(S)) /\ Len(<<<<>>>>) = 1 OBVIOUS
  <2>5. BinlogOld(binlog, cols, Len(binlog)) BY <2>1, <2>3, <2>4 DEF BinlogOld
  <2>6. MasterOld BY <2>1, <2>2, <2>5 DEF MasterOld
  <2>7. InFile(Start, 1) BY DEF InFile, Start, Place
  <2>8. <<>> \in Seq(StreamEvent) /\ <<>> \in Seq(Given)
        /\ NoTables \in [TableIds -> TableCache \cup {NoTable}]
    BY DEF NoTables
  <2>9. ParserOld BY <2>1, <2>4, <2>7, <2>8 DEF ParserOld, NoCursor
  <2> QED BY <2>6, <2>9 DEF DInv
<1>2. DInv /\ [ReplicationNext]_allVars => DInv'
  <2> SUFFICES ASSUME DInv, ReplicationNext \/ UNCHANGED allVars PROVE DInv' OBVIOUS
  <2>1. CASE SendEvent BY <2>1, SendEventStep
  <2>2. CASE SendFakeRotate \/ SendFormat BY <2>2, HeadStep
  <2>3. CASE Application BY <2>3, ApplicationStep
  <2>4. CASE \/ Master \/ Restart \/ NextFile \/ LoseConnection \/ StreamEnds \/ Wait
             \/ UNCHANGED allVars
    BY <2>4, OtherSteps
  <2> QED BY <2>1, <2>2, <2>3, <2>4 DEF ReplicationNext, Dump
<1> QED BY <1>1, <1>2, PTL DEF ReplicationSafeSpec

(* In a step that hands over a transaction each row has the names ...      *)
LEMMA NamesHanded ==
    ASSUME DInv, ReplicationNext \/ UNCHANGED allVars, sent' # sent, NEW n \in DOMAIN Handed.events
    PROVE  \E g \in DOMAIN binlog : \E j \in DOMAIN binlog[g] :
              /\ IsRow(Handed.events[n], g, j)
              /\ OneTable(g, j) => Handed.events[n].table.name = binlog[g][j].of.name
              /\ OneLayout(g, j) =>
                     /\ Handed.events[n].table.cols.count = binlog[g][j].of.cols.count
                     /\ Handed.events[n].table.cols.version >= binlog[g][j].of.cols.version
<1>1. ReplicationNext BY DEF allVars, vars
<1>2. PICK e : e = Handed.events[n] OBVIOUS
<1>3. RowsOfDump(binlog, dumpPos, Handed.events) BY <1>1, HandedIsOfDump
<1>4. RowOfDump(binlog, dumpPos, e) BY <1>2, <1>3 DEF RowsOfDump
<1> QED BY <1>2, <1>4, RowIsNamed

(* A row is handed over under the name of the table it was written to,     *)
(* unless its id has stood for another table since the position that the   *)
(* current Stream started from: for every master, with any features, any   *)
(* number of tables, ids and files, and whatever ends the streams.         *)
THEOREM TableOfRowHolds == ReplicationSafeSpec => TableOfRow
<1>1. DInv /\ [ReplicationNext]_allVars =>
        [sent' # sent =>
         \A n \in DOMAIN Handed.events : LET e == Handed.events[n] IN
            \E g \in DOMAIN binlog : \E j \in DOMAIN binlog[g] :
                IsRow(e, g, j) /\ (OneTable(g, j) => e.table.name = binlog[g][j].of.name)]_allVars
  BY NamesHanded
<1> QED BY <1>1, DumpInvariant, PTL DEF ReplicationSafeSpec, TableOfRow

(* Under the same condition its columns' names are as many as the row has, *)
(* and never those of before an ALTER TABLE that the row came after.       *)
THEOREM NamesOfRowHolds == ReplicationSafeSpec => NamesOfRow
<1>1. DInv /\ [ReplicationNext]_allVars =>
        [sent' # sent =>
         \A n \in DOMAIN Handed.events : LET e == Handed.events[n] IN
            \E g \in DOMAIN binlog : \E j \in DOMAIN binlog[g] :
                /\ IsRow(e, g, j)
                /\ OneLayout(g, j) =>
                     /\ e.table.cols.count = binlog[g][j].of.cols.count
                     /\ e.table.cols.version >= binlog[g][j].of.cols.version]_allVars
  BY NamesHanded
<1> QED BY <1>1, DumpInvariant, PTL DEF ReplicationSafeSpec, NamesOfRow

=============================================================================
