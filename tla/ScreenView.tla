------------------------------ MODULE ScreenView ------------------------------
(***************************************************************************)
(* Which rows of a screen log screen_fmt_to_buf of src/screen_framework.c  *)
(* writes for the window, and what it makes of the scroll position, which  *)
(* counts rows from the bottom.  A log is the heights of its messages in   *)
(* rows, oldest first; a row is <<message, row>>.  The loops of the code   *)
(* are given by where they stop.                                           *)
(***************************************************************************)
EXTENDS Integers, Sequences, FiniteSetsExt

(* The rows of the messages from the k-th on. *)
RowsFrom(h, k) ==
  LET rows[n \in 0 .. Len(h)] ==
        IF n = 0 THEN <<>>
        ELSE [r \in 1 .. h[Len(h) - n + 1] |-> <<Len(h) - n + 1, r>>] \o rows[n - 1]
  IN  rows[Len(h) - k + 1]

(* How many rows the messages behind the k-th have.                          *)
Below(h, k) == Len(RowsFrom(h, k + 1))
Total(h) == Below(h, 0)

(* The first loop: the message where curr_node stands when scroll rows are   *)
(* skipped, 0 for NULL.                                                      *)
Skip(h, scroll) == Max({0} \cup {k \in DOMAIN h : Below(h, k) >= scroll})

(* The second loop, from there towards the head until the rows are used: the *)
(* message with which they are, and how many of its rows are too many.  When *)
(* the part of a message that was skipped fills them already it is not        *)
(* entered.                                                                  *)
FirstShown(h, scroll, rows) ==
  LET k       == Skip(h, scroll)
      used(j) == Below(h, j) - scroll
      enough  == {j \in 1 .. k : used(j - 1) >= rows}
  IN  IF k > 0 /\ used(k) >= rows THEN [msg |-> k, cut |-> 0]
      ELSE IF enough = {} THEN [msg |-> 0, cut |-> 0]
      ELSE [msg |-> Max(enough), cut |-> used(Max(enough) - 1) - rows]

(* The first message is written to its end, others as far as rows are left. *)
Written(h, first, rows) ==
  LET all == RowsFrom(h, first.msg)
      n   == Max({h[first.msg] - first.cut, Min({rows, Len(all) - first.cut})})
  IN  SubSeq(all, first.cut + 1, first.cut + n)

(* Mutant: the scroll position is not brought down at the top. *)
ViewUnclamped(h, scroll, rows) ==
  LET first == FirstShown(h, scroll, rows)
      top   == first.msg = 0
      shown == Written(h, IF top THEN [msg |-> 1, cut |-> 0] ELSE first, rows)
  IN  [shown |-> shown, scroll_at_top |-> top, scroll |-> scroll]

(* screen_fmt_to_buf of a log that is not empty. *)
View(h, scroll, rows) ==
  LET first == FirstShown(h, scroll, rows)
      top   == first.msg = 0
      shown == Written(h, IF top THEN [msg |-> 1, cut |-> 0] ELSE first, rows)
  IN  [shown |-> shown,
       scroll_at_top |-> top,
       scroll |-> IF Len(shown) < rows THEN 0
                  ELSE IF top THEN Total(h) - rows ELSE scroll]

-----------------------------------------------------------------------------
(* The reference: a window over all rows that ends scroll rows above the     *)
(* last, and cannot leave them.                                              *)
Highest(h, rows) == Max({0, Total(h) - rows})

Section(h, scroll, rows) ==
  LET all  == RowsFrom(h, 1)
      last == Len(all) - Min({scroll, Highest(h, rows)})
  IN  SubSeq(all, Max({1, last - rows + 1}), last)
=============================================================================
