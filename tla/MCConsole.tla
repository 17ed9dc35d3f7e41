------------------------------ MODULE MCConsole ------------------------------
(* Home and a channel; an input line of three cells, so that two characters   *)
(* fit; a prompt and a text that fill two rows of the narrow window.         *)
EXTENDS Console

MCWindows == {[rows |-> 4, cols |-> 2], [rows |-> 3, cols |-> 4]}
=============================================================================
