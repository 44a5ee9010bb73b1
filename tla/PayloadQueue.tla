---------------------------- MODULE PayloadQueue ----------------------------
(***************************************************************************)
(* What the packet protocol promises its two ends: the payloads given to   *)
(* one are taken at the other, whole, each once and in order, until the    *)
(* taker gives up.                                                         *)
(***************************************************************************)
EXTENDS Naturals, Sequences

VARIABLES
    given,    \* the payloads the writer has accepted
    taken,    \* the payloads the reader has returned
    ended     \* the reader has returned an error

queue == <<given, taken, ended>>

Init == given = <<>> /\ taken = <<>> /\ ended = FALSE

(* Any payload may be given next, also when nobody will take it.           *)
Give ==
    /\ Len(given') = Len(given) + 1
    /\ SubSeq(given', 1, Len(given)) = given
    /\ UNCHANGED <<taken, ended>>

Take ==
    /\ ~ended /\ Len(taken) < Len(given)
    /\ taken' = Append(taken, given[Len(taken) + 1])
    /\ UNCHANGED <<given, ended>>

End == ended' = TRUE /\ UNCHANGED <<given, taken>>

Next == Give \/ Take \/ End

SafeSpec == Init /\ [][Next]_queue

(* The queue is empty again and again, unless the taker gives up: of       *)
(* finitely many payloads, each is taken in the end.                       *)
Progress == []<>(ended \/ Len(taken) = Len(given))

Spec == SafeSpec /\ Progress
=============================================================================
