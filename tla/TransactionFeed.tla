-------------------------- MODULE TransactionFeed --------------------------
(***************************************************************************)
(* What the library promises its user (README.md, Features): a function    *)
(* that receives complete transactions.  A master commits transactions,    *)
(* and the application accepts them one by one: each exactly once, in the  *)
(* order of commitment, with exactly the rows it changed.                  *)
(***************************************************************************)
EXTENDS Naturals, Sequences

CONSTANT MaxTransactions   \* bound: transactions Progress speaks of

VARIABLES
    committed,   \* the transactions the master has committed
    delivered    \* the transactions the application has accepted

feed == <<committed, delivered>>

Init == committed = <<>> /\ delivered = <<>>

(* Any transaction may be committed next.                                  *)
Commit ==
    /\ Len(committed') = Len(committed) + 1
    /\ SubSeq(committed', 1, Len(committed)) = committed
    /\ UNCHANGED delivered

Deliver ==
    /\ Len(delivered) < Len(committed)
    /\ delivered' = Append(delivered, committed[Len(delivered) + 1])
    /\ UNCHANGED committed

Next == Commit \/ Deliver

SafeSpec == Init /\ [][Next]_feed

(* Every transaction that is committed is delivered in the end.            *)
Progress ==
    \A n \in 1 .. MaxTransactions :
        Len(committed) >= n ~> Len(delivered) >= n

Spec == SafeSpec /\ Progress

=============================================================================
