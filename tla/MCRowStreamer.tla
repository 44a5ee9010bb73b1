--------------------------- MODULE MCRowStreamer ---------------------------
(* RowStreamer on a small instance: one file, one table id, one table with *)
(* one or two columns, a statement of each category.                       *)
EXTENDS RowStreamer

MCStatements == {<<"begin">>, <<"commit">>, <<"rollback">>, <<"create">>}

=============================================================================
