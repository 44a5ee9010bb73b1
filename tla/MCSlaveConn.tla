---------------------------- MODULE MCSlaveConn ----------------------------
(* SlaveConn on small instances, all of whose constants are in the .cfg.   *)
EXTENDS SlaveConn

=============================================================================
