---------------------------- MODULE MCMysqlConn ----------------------------
(* MysqlConn for TLC: DSNs that differ in what the connection does with    *)
(* them.                                                                   *)
EXTENDS MysqlConn

Charsets == {<<>>, <<"utf8">>, <<"utf8mb4", "utf8">>}

DSNs ==
    [tls : BOOLEAN, strict : BOOLEAN, maxAllowedPacket : BOOLEAN, readTimeout : BOOLEAN,
     collation : BOOLEAN, allowed : {{}, {"old", "native"}, {"clear"}},
     vars : {{}, {"time_zone", "autocommit"}}, charsets : Charsets]

MCConfigs ==
    {dsn \in DSNs : (dsn.tls \/ ~dsn.collation) => dsn.vars = {} /\ Len(dsn.charsets) < 2}

CharsetConfigs == {dsn \in MCConfigs : ~dsn.tls /\ ~dsn.strict /\ Len(dsn.charsets) = 2}
=============================================================================
