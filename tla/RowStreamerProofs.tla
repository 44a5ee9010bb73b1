------------------------- MODULE RowStreamerProofs -------------------------
(***************************************************************************)
(* Proofs about RowStreamer, for all its constants: type correctness, and  *)
(* the safety properties its run checks on a small instance.               *)
(***************************************************************************)
EXTENDS RowStreamer, TLAPS

allvars == <<vars, rowEvents>>

-----------------------------------------------------------------------------
(* Type correctness.  Most actions are made of a few parts; a lemma says   *)
(* of each part that it keeps the types of what it sets.                   *)

(* The variables that Receive, Return and Commit leave to the caller.      *)
CallerOK == startPos \in Position /\ cancelled \in BOOLEAN /\ dumpPos \in Position

LEMMA ReturnType ==
    ASSUME TypeOK, NEW why \in Results, Return(why)
    PROVE  /\ phase' \in {"idle", "dumping", "parsing"} /\ result' \in Results
           /\ pos' \in Position /\ format' \in Formats
           /\ tranEvents' \in Seq(StreamEvent) /\ autocommit' \in BOOLEAN
           /\ tablesMaps' \in [TableIds -> TableCache \cup {NoTable}]
  BY DEF TypeOK, Return, FreshLocals, NoTables, Formats

LEMMA RejectType ==
    ASSUME TypeOK, Receive, Reject, UNCHANGED rowEvents
    PROVE  TypeOK'
  <1>1. "error" \in Results
    BY DEF Results
  <1>2. Return("error") /\ UNCHANGED sent
    BY DEF Reject
  <1> QED
    BY <1>1, <1>2, ReturnType DEF TypeOK, Receive

LEMMA SendType ==
    ASSUME TypeOK, NEW next \in Offsets, NEW events \in Seq(StreamEvent),
           NEW ok \in BOOLEAN, Send(next, events, ok)
    PROVE  /\ PositionAfter(next) \in Position
           /\ sent' \in Seq(Transaction)
           /\ \E t \in Transaction : t.events = events /\ sent' = Append(sent, t)
  <1> DEFINE t == [now |-> pos, next |-> PositionAfter(next),
                   events |-> events, accepted |-> ok]
  <1>1. PositionAfter(next) \in Position
    BY DEF TypeOK, Position, PositionAfter
  <1>2. t \in Transaction /\ t.events = events
    BY <1>1 DEF TypeOK, Transaction
  <1>3. sent' = Append(sent, t)
    BY DEF Send
  <1>4. sent \in Seq(Transaction)
    BY DEF TypeOK
  <1> HIDE DEF t
  <1> QED
    BY <1>1, <1>2, <1>3, <1>4

LEMMA CommitType ==
    ASSUME TypeOK, NEW next \in Offsets, NEW events \in Seq(StreamEvent),
           Parse, Commit(next, events), rowEvents' \in Nat
    PROVE  TypeOK'
  <1>1. UNCHANGED <<startPos, cancelled, dumpPos>>
    BY DEF Parse, Receive
  <1>2. CASE /\ Send(next, events, TRUE) /\ Running
             /\ pos' = PositionAfter(next)
             /\ tranEvents' = <<>> /\ autocommit' = TRUE
             /\ UNCHANGED <<format, tablesMaps>>
    <2>1. autocommit' \in BOOLEAN
      BY <1>2
    <2>2. sent' \in Seq(Transaction) /\ pos' \in Position
      BY <1>2, SendType
    <2>3. tranEvents' \in Seq(StreamEvent)
      BY <1>2
    <2>4. UNCHANGED <<phase, result, format, tablesMaps>>
      BY <1>2 DEF Running
    <2> QED
      BY <1>1, <2>1, <2>2, <2>3, <2>4 DEF TypeOK
  <1>3. CASE Send(next, events, FALSE) /\ Return("sendError")
    <2>1. "sendError" \in Results
      BY DEF Results
    <2>2. sent' \in Seq(Transaction)
      BY <1>3, SendType
    <2> QED
      BY <1>1, <1>3, <2>1, <2>2, ReturnType DEF TypeOK
  <1> QED
    BY <1>2, <1>3 DEF Commit

LEMMA BeginType ==
    ASSUME TypeOK, Begin, UNCHANGED rowEvents
    PROVE  TypeOK'
  <1>1. autocommit' \in BOOLEAN
    BY DEF Begin
  <1>2. /\ tranEvents' = <<>>
        /\ UNCHANGED <<pos, format, tablesMaps, sent>>
        /\ UNCHANGED <<startPos, cancelled, dumpPos, phase, result>>
    BY DEF Begin, Parse, Receive, Running
  <1> QED
    BY <1>1, <1>2 DEF TypeOK

LEMMA IgnoredType ==
    ASSUME TypeOK, Ignored, UNCHANGED rowEvents
    PROVE  TypeOK'
  BY DEF TypeOK, Ignored, Parse, Receive, Running, locals

LEMMA QueryType ==
    ASSUME TypeOK, NEW sql \in Statements, NEW next \in Offsets,
           Query(sql, next), UNCHANGED rowEvents
    PROVE  TypeOK'
  <1>1. rowEvents' \in Nat /\ tranEvents \in Seq(StreamEvent)
        /\ <<>> \in Seq(StreamEvent)
    BY DEF TypeOK
  <1>2. CASE Begin
    BY <1>2, BeginType
  <1>3. CASE Parse /\ Commit(next, <<>>)
    BY <1>1, <1>3, CommitType
  <1>4. CASE Parse /\ Commit(next, tranEvents)
    BY <1>1, <1>4, CommitType
  <1>5. CASE Ignored
    BY <1>5, IgnoredType
  <1> QED
    BY <1>2, <1>3, <1>4, <1>5 DEF Query

LEMMA TableMapType ==
    ASSUME TypeOK, NEW id \in TableIds, NEW def \in TableDef, NEW now \in Layout,
           TableMap(id, def, now), UNCHANGED rowEvents
    PROVE  TypeOK'
  <1> DEFINE known == [tableMap |-> def, table |-> tablesMaps[id].table]
             new == [tableMap |-> def, table |-> [name |-> def.name, cols |-> now]]
  <1>1. tablesMaps[id] # NoTable => known \in TableCache
    BY DEF TypeOK, TableCache
  <1>2. new \in TableCache
    BY DEF TableCache, TableDef
  <1>3. tablesMaps' \in [TableIds -> TableCache \cup {NoTable}]
    <2>1. CASE tablesMaps[id] # NoTable /\ tablesMaps' = [tablesMaps EXCEPT ![id] = known]
      BY <1>1, <2>1 DEF TypeOK
    <2>2. CASE tablesMaps' = [tablesMaps EXCEPT ![id] = new]
      BY <1>2, <2>2 DEF TypeOK
    <2> QED
      BY <2>1, <2>2 DEF TableMap, Cached
  <1>4. Parse /\ Running /\ UNCHANGED <<pos, format, tranEvents, autocommit, sent>>
    BY DEF TableMap, Cached
  <1> QED
    BY <1>3, <1>4 DEF TypeOK, Parse, Receive, Running

LEMMA RowsType ==
    ASSUME TypeOK, NEW op \in Operations, NEW id \in TableIds,
           NEW count, NEW filled, NEW next \in Offsets, NEW row \in Nat,
           Rows(op, id, count, filled, next, row), rowEvents' \in Nat
    PROVE  TypeOK'
  <1> DEFINE tc == tablesMaps[id]
             event == RowEvent(op, tc, row)
             events == Append(tranEvents, event)
  <1>1. tc \in TableCache
    BY DEF TypeOK, Rows
  <1>2. event \in StreamEvent
    BY <1>1 DEF TableCache, StreamEvent, RowEvent
  <1>3. events \in Seq(StreamEvent)
    BY <1>2 DEF TypeOK
  <1>4. Parse
    BY DEF Rows
  <1>5. CASE Commit(next, events)
    BY <1>3, <1>4, <1>5, CommitType
  <1>6. CASE /\ tranEvents' = events /\ Running
             /\ UNCHANGED <<pos, format, autocommit, tablesMaps, sent>>
    BY <1>3, <1>4, <1>6 DEF TypeOK, Parse, Receive, Running
  <1> QED
    BY <1>5, <1>6 DEF Rows

LEMMA OtherEventType ==
    ASSUME TypeOK, OtherEvent, UNCHANGED rowEvents
    PROVE  TypeOK'
  <1>1. CASE InvalidEvent \/ EarlyEvent \/ UnsupportedChecksum \/ Unparsable
    BY <1>1, RejectType
    DEF InvalidEvent, EarlyEvent, UnsupportedChecksum, Unparsable, Parse
  <1>2. CASE EarlyRotate
    BY <1>2 DEF TypeOK, EarlyRotate, Receive, Running, locals
  <1>3. CASE Ignored
    BY <1>3, IgnoredType
  <1>4. ASSUME NEW alg \in Formats \ {"zero"}, FormatDescription(alg)
        PROVE  TypeOK'
    BY <1>4 DEF TypeOK, FormatDescription, Receive, Running
  <1>5. ASSUME NEW p \in Position, Rotate(p)
        PROVE  TypeOK'
    BY <1>5 DEF TypeOK, Rotate, Parse, Receive, Running
  <1>6. ASSUME NEW next \in Offsets, XID(next)
        PROVE  TypeOK'
    <2>1. Parse /\ Commit(next, tranEvents)
      BY <1>6 DEF XID
    <2>2. tranEvents \in Seq(StreamEvent) /\ rowEvents' \in Nat
      BY DEF TypeOK
    <2> QED
      BY <2>1, <2>2, CommitType
  <1>7. ASSUME NEW sql \in Statements, NEW next \in Offsets, Query(sql, next)
        PROVE  TypeOK'
    BY <1>7, QueryType
  <1>8. ASSUME NEW id \in TableIds, NEW def \in TableDef, NEW now \in Layout,
               TableMap(id, def, now)
        PROVE  TypeOK'
    BY <1>8, TableMapType
  <1>9. ASSUME NEW id \in TableIds, TableMapRefused(id)
        PROVE  TypeOK'
    BY <1>9, RejectType DEF TableMapRefused, Parse
  <1>10. ASSUME NEW id \in TableIds, NEW count, NEW filled, RowsRefused(id, count, filled)
         PROVE  TypeOK'
    BY <1>10, RejectType DEF RowsRefused, Parse
  <1>11. ASSUME NEW id \in TableIds, NEW count, NEW filled, RowsPanic(id, count, filled)
         PROVE  TypeOK'
    <2>1. Receive /\ Return("panic") /\ UNCHANGED sent
      BY <1>11 DEF RowsPanic, Parse
    <2>2. "panic" \in Results
      BY DEF Results
    <2> QED
      BY <2>1, <2>2, ReturnType DEF TypeOK, Receive
  <1> QED
    BY <1>1, <1>2, <1>3, <1>4, <1>5, <1>6, <1>7, <1>8, <1>9, <1>10, <1>11 DEF OtherEvent

LEMMA CallerType ==
    ASSUME TypeOK, Caller \/ EndOfStream \/ ContextDone, UNCHANGED rowEvents
    PROVE  TypeOK'
  <1>1. {"startError", "eof", "cancelled"} \subseteq Results
    BY DEF Results
  <1>2. ASSUME NEW p \in Position, SetStartBinlogPosition(p)
        PROVE  TypeOK'
    BY <1>2 DEF TypeOK, SetStartBinlogPosition, locals
  <1>3. CASE Cancel
    <2>1. cancelled' \in BOOLEAN
      BY <1>3 DEF Cancel
    <2>2. UNCHANGED <<startPos, phase, result, dumpPos, locals, sent>>
      BY <1>3 DEF Cancel
    <2> QED
      BY <2>1, <2>2 DEF TypeOK, locals
  <1>4. CASE Stream
    <2>1. cancelled' \in BOOLEAN
      BY <1>4 DEF Stream
    <2>2. /\ phase' = "dumping" /\ result' = "none" /\ dumpPos' = startPos
          /\ UNCHANGED <<startPos, locals, sent>>
      BY <1>4 DEF Stream
    <2> QED
      BY <2>1, <2>2 DEF TypeOK, locals, Results
  <1>5. CASE StreamFails \/ EndOfStream \/ ContextDone
    <2>1. PICK why \in Results : Return(why)
      BY <1>1, <1>5 DEF StreamFails, EndOfStream, ContextDone
    <2>2. UNCHANGED <<startPos, cancelled, dumpPos, sent>>
      BY <1>5 DEF StreamFails, EndOfStream, ContextDone
    <2> QED
      BY <2>1, <2>2, ReturnType DEF TypeOK
  <1>6. CASE ParseEvents
    <2>1. autocommit' \in BOOLEAN
      BY <1>6 DEF ParseEvents, FreshLocals
    <2>2. /\ phase' = "parsing" /\ UNCHANGED <<startPos, result, cancelled, dumpPos, sent>>
          /\ pos' = startPos /\ format' = "zero" /\ tranEvents' = <<>>
          /\ tablesMaps' = NoTables
      BY <1>6 DEF ParseEvents, FreshLocals
    <2> QED
      BY <2>1, <2>2 DEF TypeOK, NoTables, Formats
  <1> QED
    BY <1>2, <1>3, <1>4, <1>5, <1>6 DEF Caller

(* Every variable keeps its type: in particular positions stay in the      *)
(* files, and what is handed over is always a transaction of row events.   *)
THEOREM TypeCorrect == Spec => []TypeOK
  <1>1. Init => TypeOK
    <2> SUFFICES ASSUME Init PROVE TypeOK
      OBVIOUS
    <2>1. cancelled \in BOOLEAN /\ autocommit \in BOOLEAN
      BY DEF Init
    <2>2. /\ startPos \in Position /\ phase = "idle" /\ result = "none"
          /\ dumpPos = startPos /\ pos = startPos
          /\ format = "zero" /\ tranEvents = <<>> /\ tablesMaps = NoTables
          /\ sent = <<>> /\ rowEvents = 0
      BY DEF Init
    <2> QED
      BY <2>1, <2>2 DEF TypeOK, Results, Formats, NoTables
  <1>2. TypeOK /\ [Next]_allvars => TypeOK'
    <2> SUFFICES ASSUME TypeOK, [Next]_allvars PROVE TypeOK'
      OBVIOUS
    <2>1. CASE RowsEvent
      <3>1. PICK op \in Operations, id \in TableIds, count \in ColumnCounts,
                 filled \in BOOLEAN, next \in Offsets :
                Rows(op, id, count, filled, next, rowEvents')
        BY <2>1 DEF RowsEvent
      <3>2. rowEvents' \in Nat
        BY <2>1 DEF RowsEvent, TypeOK
      <3> QED
        BY <3>1, <3>2, RowsType
    <2>2. CASE OtherEvent /\ UNCHANGED rowEvents
      BY <2>2, OtherEventType
    <2>3. CASE (Caller \/ EndOfStream \/ ContextDone) /\ UNCHANGED rowEvents
      BY <2>3, CallerType
    <2>4. CASE UNCHANGED allvars
      BY <2>4 DEF TypeOK, allvars, vars, locals
    <2> QED
      BY <2>1, <2>2, <2>3, <2>4 DEF Next
  <1> QED
    BY <1>1, <1>2, PTL DEF Spec, allvars

-----------------------------------------------------------------------------
(* What a step does to the pending rows and to the history.  It may grow   *)
(* the pending rows by the row of a new event, or forget them; and either  *)
(* keeps what results pending, or hands it over and begins again.          *)

NewRow(e) == e.row = rowEvents'

Grown(events) ==
    \/ events \in {<<>>, tranEvents} /\ rowEvents' = rowEvents
    \/ /\ rowEvents' = rowEvents + 1
       /\ \E e \in StreamEvent : NewRow(e) /\ events = Append(tranEvents, e)

Kept(events) == sent' = sent /\ tranEvents' = events
Handed(events) ==
    /\ \E t \in Transaction : t.events = events /\ sent' = Append(sent, t)
    /\ tranEvents' = <<>>

StepEffect == \E events \in Seq(StreamEvent) : Grown(events) /\ (Kept(events) \/ Handed(events))

LEMMA CommitEffect ==
    ASSUME TypeOK, NEW next \in Offsets, NEW events \in Seq(StreamEvent),
           Commit(next, events)
    PROVE  Handed(events)
  <1>1. Send(next, events, TRUE) \/ Send(next, events, FALSE)
    BY DEF Commit
  <1>2. tranEvents' = <<>>
    BY DEF Commit, Return, FreshLocals
  <1> QED
    BY <1>1, <1>2, SendType DEF Handed

LEMMA RowsEffect ==
    ASSUME TypeOK, RowsEvent
    PROVE  StepEffect
  <1>1. PICK op \in Operations, id \in TableIds, count \in ColumnCounts,
             filled \in BOOLEAN, next \in Offsets :
            Rows(op, id, count, filled, next, rowEvents')
    BY DEF RowsEvent
  <1> DEFINE tc == tablesMaps[id]
             event == RowEvent(op, tc, rowEvents')
             events == Append(tranEvents, event)
  <1>2. tc \in TableCache
    BY <1>1 DEF TypeOK, Rows
  <1>3. rowEvents' = rowEvents + 1 /\ rowEvents' \in Nat
    BY DEF TypeOK, RowsEvent
  <1>4. event \in StreamEvent
    BY <1>2, <1>3 DEF TableCache, StreamEvent, RowEvent
  <1>5. NewRow(event)
    BY <1>2 DEF NewRow, RowEvent
  <1>6. events \in Seq(StreamEvent)
    BY <1>4 DEF TypeOK
  <1>7. Grown(events)
    BY <1>3, <1>4, <1>5 DEF Grown
  <1>8. Commit(next, events) \/ Kept(events)
    BY <1>1 DEF Rows, Kept
  <1>9. Commit(next, events) => Handed(events)
    BY <1>6, CommitEffect
  <1> HIDE DEF events
  <1> QED
    BY <1>6, <1>7, <1>8, <1>9 DEF StepEffect

LEMMA OtherEffect ==
    ASSUME TypeOK, OtherEvent, UNCHANGED rowEvents
    PROVE  StepEffect
  <1>1. <<>> \in Seq(StreamEvent) /\ tranEvents \in Seq(StreamEvent)
    BY DEF TypeOK
  <1>2. Grown(<<>>) /\ Grown(tranEvents)
    BY DEF Grown
  <1>3. SUFFICES \/ Kept(<<>>) \/ Kept(tranEvents)
                 \/ Handed(<<>>) \/ Handed(tranEvents)
    BY <1>1, <1>2 DEF StepEffect
  <1>4. CASE InvalidEvent \/ EarlyEvent \/ UnsupportedChecksum \/ Unparsable
    BY <1>4 DEF InvalidEvent, EarlyEvent, UnsupportedChecksum, Unparsable, Reject,
                Return, FreshLocals, Kept
  <1>5. CASE EarlyRotate \/ Ignored
    BY <1>5 DEF EarlyRotate, Ignored, Kept, locals
  <1>6. ASSUME NEW alg \in Formats \ {"zero"}, FormatDescription(alg)
        PROVE  Kept(tranEvents)
    BY <1>6 DEF FormatDescription, Kept
  <1>7. ASSUME NEW p \in Position, Rotate(p)
        PROVE  Kept(tranEvents)
    BY <1>7 DEF Rotate, Kept
  <1>8. ASSUME NEW next \in Offsets, XID(next)
        PROVE  Handed(tranEvents)
    BY <1>1, <1>8, CommitEffect DEF XID
  <1>9. ASSUME NEW sql \in Statements, NEW next \in Offsets, Query(sql, next)
        PROVE  Kept(<<>>) \/ Kept(tranEvents) \/ Handed(<<>>) \/ Handed(tranEvents)
    <2>1. Begin => Kept(<<>>)
      BY DEF Begin, Kept
    <2>2. Ignored => Kept(tranEvents)
      BY DEF Ignored, Kept, locals
    <2>3. /\ Commit(next, <<>>) => Handed(<<>>)
          /\ Commit(next, tranEvents) => Handed(tranEvents)
      BY <1>1, CommitEffect
    <2> QED
      BY <1>9, <2>1, <2>2, <2>3 DEF Query
  <1>10. ASSUME NEW id \in TableIds, NEW def \in TableDef, NEW now \in Layout,
                TableMap(id, def, now)
         PROVE  Kept(tranEvents)
    BY <1>10 DEF TableMap, Kept
  <1>11. ASSUME NEW id \in TableIds, TableMapRefused(id)
         PROVE  Kept(<<>>)
    BY <1>11 DEF TableMapRefused, Reject, Return, FreshLocals, Kept
  <1>12. ASSUME NEW id \in TableIds, NEW count, NEW filled,
                RowsRefused(id, count, filled) \/ RowsPanic(id, count, filled)
         PROVE  Kept(<<>>)
    BY <1>12 DEF RowsRefused, RowsPanic, Reject, Return, FreshLocals, Kept
  <1> QED
    BY <1>4, <1>5, <1>6, <1>7, <1>8, <1>9, <1>10, <1>11, <1>12 DEF OtherEvent

LEMMA CallerEffect ==
    ASSUME TypeOK, Caller \/ EndOfStream \/ ContextDone, UNCHANGED rowEvents
    PROVE  StepEffect
  <1>1. <<>> \in Seq(StreamEvent) /\ tranEvents \in Seq(StreamEvent)
    BY DEF TypeOK
  <1>2. Grown(<<>>) /\ Grown(tranEvents)
    BY DEF Grown
  <1>3. Kept(<<>>) \/ Kept(tranEvents)
    BY DEF Caller, SetStartBinlogPosition, Cancel, Stream, StreamFails, ParseEvents,
           EndOfStream, ContextDone, Return, FreshLocals, Kept, locals
  <1> QED
    BY <1>1, <1>2, <1>3 DEF StepEffect

LEMMA NextEffect ==
    ASSUME TypeOK, Next
    PROVE  StepEffect
  BY RowsEffect, OtherEffect, CallerEffect DEF Next

-----------------------------------------------------------------------------
(* The inductive invariant.  What is pending is fit to be handed over: its *)
(* rows ascend, come after all rows handed over before and up to the last  *)
(* event read.                                                             *)

Fit(events, n) ==
    /\ Ascending(events)
    /\ \A i \in DOMAIN events : events[i].row <= n
    /\ \A k \in DOMAIN sent : Precedes(sent[k].events, events)

SentUpTo(n) ==
    \A k \in DOMAIN sent : \A i \in DOMAIN sent[k].events : sent[k].events[i].row <= n

IInv == TypeOK /\ Fit(tranEvents, rowEvents) /\ SentUpTo(rowEvents) /\ RowsInOrderOnce

LEMMA EmptyFit == ASSUME NEW n \in Nat PROVE Fit(<<>>, n)
  BY DEF Fit, Ascending, Precedes

LEMMA GrownFit ==
    ASSUME IInv, NEW events \in Seq(StreamEvent), Grown(events)
    PROVE  Fit(events, rowEvents') /\ SentUpTo(rowEvents') /\ rowEvents' \in Nat
  <1>1. rowEvents \in Nat /\ tranEvents \in Seq(StreamEvent) /\ sent \in Seq(Transaction)
    BY DEF IInv, TypeOK
  <1>2. CASE events \in {<<>>, tranEvents} /\ rowEvents' = rowEvents
    BY <1>1, <1>2, EmptyFit DEF IInv
  <1>3. CASE /\ rowEvents' = rowEvents + 1
             /\ \E e \in StreamEvent : NewRow(e) /\ events = Append(tranEvents, e)
    <2>1. PICK e \in StreamEvent : NewRow(e) /\ events = Append(tranEvents, e)
      BY <1>3
    <2>2. rowEvents' = rowEvents + 1 /\ rowEvents' \in Nat
      BY <1>1, <1>3
    <2>3. \A i \in DOMAIN tranEvents : tranEvents[i] \in StreamEvent
      BY <1>1
    <2>4. \A i \in DOMAIN tranEvents : tranEvents[i].row \in Nat
      BY <2>3 DEF StreamEvent
    <2>5. \A k \in DOMAIN sent : sent[k] \in Transaction
      BY <1>1
    <2>6. \A k \in DOMAIN sent : \A i \in DOMAIN sent[k].events :
              sent[k].events[i] \in StreamEvent
      BY <2>5 DEF Transaction
    <2>7. \A k \in DOMAIN sent : \A i \in DOMAIN sent[k].events :
              sent[k].events[i].row \in Nat
      BY <2>6 DEF StreamEvent
    <2>8. \A i \in DOMAIN events :
              \/ i \in DOMAIN tranEvents /\ events[i] = tranEvents[i]
              \/ i = Len(tranEvents) + 1 /\ events[i] = e
      BY <1>1, <2>1
    <2>9. \A i \in DOMAIN tranEvents : i \in Nat /\ i <= Len(tranEvents)
      BY <1>1
    <2>10. Len(tranEvents) \in Nat
      BY <1>1
    <2>11. Ascending(events)
      BY <2>1, <2>2, <2>4, <2>8, <2>9, <2>10, <1>1 DEF Ascending, IInv, Fit, NewRow
    <2>12. \A i \in DOMAIN events : events[i].row <= rowEvents'
      BY <2>1, <2>2, <2>4, <2>8, <1>1 DEF IInv, Fit, NewRow
    <2>13. SentUpTo(rowEvents')
      BY <2>2, <2>7, <1>1 DEF IInv, SentUpTo
    <2>14. \A k \in DOMAIN sent : Precedes(sent[k].events, events)
      BY <2>1, <2>2, <2>4, <2>7, <2>8, <1>1 DEF IInv, Fit, SentUpTo, Precedes, NewRow
    <2> QED
      BY <2>2, <2>11, <2>12, <2>13, <2>14 DEF Fit
  <1> QED
    BY <1>2, <1>3 DEF Grown

LEMMA EffectKeepsIInv ==
    ASSUME IInv, TypeOK', StepEffect
    PROVE  IInv'
  <1>1. PICK events \in Seq(StreamEvent) : Grown(events) /\ (Kept(events) \/ Handed(events))
    BY DEF StepEffect
  <1>2. Fit(events, rowEvents') /\ SentUpTo(rowEvents') /\ rowEvents' \in Nat
    BY <1>1, GrownFit
  <1>3. CASE Kept(events)
    BY <1>2, <1>3
    DEF IInv, Kept, Fit, SentUpTo, RowsInOrderOnce, Ascending, Precedes
  <1>4. CASE Handed(events)
    <2>1. PICK t \in Transaction : t.events = events /\ sent' = Append(sent, t)
      BY <1>4 DEF Handed
    <2>2. sent \in Seq(Transaction) /\ Len(sent) \in Nat
      BY DEF IInv, TypeOK
    <2>3. \A k \in DOMAIN sent' :
              \/ k \in DOMAIN sent /\ sent'[k] = sent[k]
              \/ k = Len(sent) + 1 /\ sent'[k].events = events
      BY <2>1, <2>2
    <2>4. \A k \in DOMAIN sent : k \in Nat /\ k < Len(sent) + 1
      BY <2>2
    <2>5. tranEvents' = <<>>
      BY <1>4 DEF Handed
    <2>6. Fit(tranEvents, rowEvents)'
      BY <2>5 DEF Fit, Ascending, Precedes
    <2>7. SentUpTo(rowEvents)'
      BY <1>2, <2>3 DEF SentUpTo, Fit
    <2>8. RowsInOrderOnce'
      <3>1. \A k \in DOMAIN sent' : Ascending(sent'[k].events)
        BY <1>2, <2>3 DEF IInv, RowsInOrderOnce, Fit
      <3>2. ASSUME NEW k \in DOMAIN sent', NEW m \in DOMAIN sent', k < m
            PROVE  Precedes(sent'[k].events, sent'[m].events)
        <4>1. k \in DOMAIN sent /\ sent'[k] = sent[k]
          <5>1. CASE k = Len(sent) + 1
            BY <2>2, <2>3, <2>4, <3>2, <5>1
          <5> QED
            BY <2>3, <5>1
        <4>2. CASE m \in DOMAIN sent /\ sent'[m] = sent[m]
          BY <3>2, <4>1, <4>2 DEF IInv, RowsInOrderOnce
        <4>3. CASE sent'[m].events = events
          BY <1>2, <4>1, <4>3 DEF Fit
        <4> QED
          BY <2>3, <4>2, <4>3
      <3> QED
        BY <3>1, <3>2 DEF RowsInOrderOnce, Ascending, Precedes
    <2> QED
      BY <2>6, <2>7, <2>8 DEF IInv
  <1> QED
    BY <1>1, <1>3, <1>4

LEMMA StutterKeepsIInv ==
    ASSUME IInv, UNCHANGED allvars
    PROVE  IInv'
  BY DEF IInv, TypeOK, Fit, SentUpTo, RowsInOrderOnce, Ascending, Precedes, allvars, vars, locals

LEMMA IInvHolds == Spec => []IInv
  <1>1. Init /\ TypeOK => IInv
    BY DEF Init, IInv, Fit, SentUpTo, RowsInOrderOnce, Ascending, Precedes
  <1>2. IInv /\ TypeOK' /\ [Next]_allvars => IInv'
    <2>1. ASSUME IInv, TypeOK', Next PROVE IInv'
      BY <2>1, NextEffect, EffectKeepsIInv DEF IInv
    <2> QED
      BY <2>1, StutterKeepsIInv
  <1> QED
    BY <1>1, <1>2, TypeCorrect, PTL DEF Spec, allvars

(* Over all calls of Stream, rows are handed to the application in the     *)
(* order in which they were read and none twice: an open transaction that  *)
(* is begun again, rolled back, refused or cut off leaves nothing behind   *)
(* that a later one could contain.                                         *)
THEOREM RowsInOrderOnceHolds == Spec => []RowsInOrderOnce
  <1>1. IInv => RowsInOrderOnce
    BY DEF IInv
  <1> QED
    BY <1>1, IInvHolds, PTL

-----------------------------------------------------------------------------
(* Autocommit mode and pending rows.                                       *)

AutocommitEffect ==
    \/ tranEvents' = <<>>
    \/ UNCHANGED <<autocommit, tranEvents>>
    \/ autocommit' = autocommit /\ ~autocommit

LEMMA NextAutocommitEffect == Next => AutocommitEffect
  <1> USE DEF AutocommitEffect
  <1>1. ASSUME NEW next, NEW events, Commit(next, events) PROVE tranEvents' = <<>>
    BY <1>1 DEF Commit, Return, FreshLocals
  <1>2. Reject => tranEvents' = <<>>
    BY DEF Reject, Return, FreshLocals
  <1>3. ASSUME NEW op, NEW id, NEW count, NEW filled, NEW next, NEW row,
               Rows(op, id, count, filled, next, row)
        PROVE  AutocommitEffect
    BY <1>1, <1>3 DEF Rows
  <1>4. ASSUME NEW sql, NEW next, Query(sql, next)
        PROVE  AutocommitEffect
    BY <1>1, <1>4 DEF Query, Begin, Ignored, locals
  <1>5. RowsEvent => AutocommitEffect
    BY <1>3 DEF RowsEvent
  <1>6. OtherEvent => AutocommitEffect
    BY <1>1, <1>2, <1>4
    DEF OtherEvent, InvalidEvent, EarlyEvent, UnsupportedChecksum, Unparsable,
        EarlyRotate, Ignored, FormatDescription, Rotate, XID, TableMap,
        TableMapRefused, RowsRefused, RowsPanic, Return, FreshLocals, locals
  <1>7. Caller \/ EndOfStream \/ ContextDone => AutocommitEffect
    BY DEF Caller, SetStartBinlogPosition, Cancel, Stream, StreamFails, ParseEvents,
           EndOfStream, ContextDone, Return, FreshLocals, locals
  <1> QED
    BY <1>5, <1>6, <1>7 DEF Next

(* In autocommit mode nothing is pending, so that a rows event outside a   *)
(* transaction is delivered alone.                                         *)
THEOREM NoOrphanEventsHolds == Spec => []NoOrphanEvents
  <1>1. Init => NoOrphanEvents
    BY DEF Init, NoOrphanEvents
  <1>2. NoOrphanEvents /\ [Next]_allvars => NoOrphanEvents'
    BY NextAutocommitEffect
    DEF NoOrphanEvents, AutocommitEffect, allvars, vars, locals
  <1> QED
    BY <1>1, <1>2, PTL DEF Spec, allvars

=============================================================================
