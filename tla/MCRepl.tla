------------------------------ MODULE MCRepl -------------------------------
(***************************************************************************)
(* Repl with two commands besides the empty line and q, and datagrams with *)
(* and without the newline the loop takes off.                             *)
(***************************************************************************)
EXTENDS Repl

CONSTANTS x, empty, quit, x_nl, nl, quit_nl

MCLine == {x, empty, quit}
MCDatagram == {x_nl, nl, quit_nl}
MCPopped == [d \in MCDatagram |-> CASE d = x_nl -> x [] d = nl -> empty [] d = quit_nl -> quit]
=============================================================================
