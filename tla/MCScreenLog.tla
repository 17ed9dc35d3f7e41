---------------------------- MODULE MCScreenLog -----------------------------
(* Messages of one, two and three bytes under a bound of six: a new message *)
(* pushes out none, one or several old ones, of the bytes needed or more.   *)
EXTENDS ScreenLog, TLC

Bytes == [m \in Msgs |-> CASE m = "a" -> 1 [] m = "bb" -> 2 [] OTHER -> 3]

(* Addresses are interchangeable: nothing compares them but for equality. *)
NodeSymmetry == Permutations(Nodes)
=============================================================================
