------------------------------ MODULE Pointers ------------------------------
(***************************************************************************)
(* What the links of a list in memory lead to: f[n] is the link of node n, *)
(* and where it is the address of no node the list ends.                   *)
(***************************************************************************)
EXTENDS Integers, FiniteSets

(* One step along f, which stays where the list ends. *)
Along(f, n) == IF n \in DOMAIN f THEN f[n] ELSE n

(* The nodes met from n on, following the pointers f, at most all of them. *)
Walk(n, f) ==
  LET at[k \in 0 .. Cardinality(DOMAIN f)] ==
        IF k = 0 THEN n ELSE Along(f, at[k - 1])
      len == Cardinality({k \in DOMAIN at : at[k] \in DOMAIN f})
  IN  [i \in 1 .. len |-> at[i - 1]]
=============================================================================
