----------------------------- MODULE MsgChannel -----------------------------
(***************************************************************************)
(* What include/msgqueue.h promises: each global queue is a FIFO to which  *)
(* a thread appends the list it has built in one atomic step, and from     *)
(* which a thread takes everything in one atomic step.  Between the two a  *)
(* message is in exactly one place.  MsgQueue implements this module.      *)
(***************************************************************************)
EXTENDS Sequences

CONSTANTS Threads, Queues, Msgs

VARIABLES
  chan,   (* chan[q]: the messages waiting in queue q, oldest first     *)
  held    (* held[t]: the messages in the list that thread t holds      *)

chanVars == <<chan, held>>

Init ==
  /\ chan = [q \in Queues |-> <<>>]
  /\ held = [t \in Threads |-> <<>>]

(* msglist_pushback_copy and msglist_pushback_take on a list of one's own. *)
PushBack(t, m) ==
  /\ held' = [held EXCEPT ![t] = Append(@, m)]
  /\ UNCHANGED chan

(* msglist_submit: the whole list at once, behind what is there. *)
Submit(t, q) ==
  /\ held[t] # <<>>
  /\ chan' = [chan EXCEPT ![q] = @ \o held[t]]
  /\ held' = [held EXCEPT ![t] = <<>>]

(* msg_queue_takeall: the whole queue at once. *)
TakeAll(t, q) ==
  /\ held[t] = <<>>
  /\ held' = [held EXCEPT ![t] = chan[q]]
  /\ chan' = [chan EXCEPT ![q] = <<>>]

(* msglist_free: the thread is done with the list it took. *)
Free(t) ==
  /\ held' = [held EXCEPT ![t] = <<>>]
  /\ UNCHANGED chan

Next ==
  \E t \in Threads :
    \/ \E m \in Msgs : PushBack(t, m)
    \/ \E q \in Queues : Submit(t, q) \/ TakeAll(t, q)
    \/ Free(t)

Spec == Init /\ [][Next]_chanVars
=============================================================================
