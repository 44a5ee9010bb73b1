--------------------------- MODULE MCReplication ---------------------------
(* Replication on small instances: the configurations choose the row       *)
(* changes a transaction makes and what else the master does.              *)
EXTENDS Replication

MCStatements ==
    {<<"begin">>, <<"commit">>, <<"rollback">>, <<"create">>, <<"alter">>,
     <<"savepoint", "s">>, <<"rollback", "to", "s">>,
     <<"xa", "start">>, <<"xa", "end">>, <<"xa", "commit">>, <<"xa", "rollback">>}

Insert(t) == [op |-> "insert", table |-> t]
Update(t) == [op |-> "update", table |-> t]
Delete(t) == [op |-> "delete", table |-> t]

OneTableOnly == {<<Insert("t1")>>, <<Update("t1"), Delete("t1")>>}
OnePair == {<<Insert("t1"), Delete("t1")>>}
TwoTables == {<<Insert("t1")>>, <<Delete("t1"), Update("t2")>>}

=============================================================================
