----------------------------- MODULE BoundedLog -----------------------------
(***************************************************************************)
(* What the log of a screen promises: it holds the newest messages that    *)
(* were pushed, as many as its bound admits.  ScreenLog implements it.     *)
(***************************************************************************)
EXTENDS LogBound

VARIABLE log   (* the messages, oldest first *)

Init == log = <<>>

Push(m) == log' = Newest(Append(log, m))

Next == \E m \in Msgs : Push(m)

Spec == Init /\ [][Next]_log
=============================================================================
