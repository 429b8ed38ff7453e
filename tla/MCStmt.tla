---------------------------------- MODULE MCStmt ----------------------------------
(* Columns for Stmt: a number shown in few digits, and a string.           *)
EXTENDS Stmt

MCColumns == {[length |-> 1, size |-> 1], [length |-> 3, size |-> 3]}
=============================================================================
