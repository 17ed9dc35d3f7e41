----------------------------- MODULE ScreenLog ------------------------------
(***************************************************************************)
(* The log of one screen (src/screen_framework.c) at the level of its      *)
(* pointers: a doubly linked list of nodes from malloc with two running    *)
(* counts, from whose front messages are evicted when it outgrows its      *)
(* bound.  A step is one turn of the eviction loop, or the code up to it.  *)
(***************************************************************************)
EXTENDS LogBound, Pointers

CONSTANTS
  Nodes,   (* addresses malloc can return; bounds the model *)
  NULL

(* Memory ends: a walk along the list comes to an end, too. *)
ASSUME MemoryIsFinite == NULL \notin Nodes /\ IsFiniteSet(Nodes)

VARIABLES
  allocated,        (* the nodes that malloc has handed out                *)
  msg, prev, next,  (* the fields of the nodes                             *)
  scrlog,           (* head, tail, n_msgs and curr_size_bytes              *)
  evict             (* the locals of screenlog_evict_min_to_free while it  *)
                    (* runs: curr, freed_bytes, evicted_nodes, free_bytes  *)

vars == <<allocated, msg, prev, next, scrlog, evict>>

Idle == [curr |-> NULL, freed |-> 0, nodes |-> 0, free |-> 0]

Evicting == evict # Idle

Init ==
  /\ allocated = {}
  /\ msg = [n \in Nodes |-> NULL]
  /\ prev = [n \in Nodes |-> NULL]
  /\ next = [n \in Nodes |-> NULL]
  /\ scrlog = [head |-> NULL, tail |-> NULL, n_msgs |-> 0, size |-> 0]
  /\ evict = Idle

-----------------------------------------------------------------------------
(* screenlog_push_copy, and screenlog_push_take which nothing calls. *)

NewNode(n, m, before) ==
  /\ ~Evicting
  /\ n \notin allocated
  /\ allocated' = allocated \cup {n}
  /\ msg' = [msg EXCEPT ![n] = m]
  /\ prev' = [prev EXCEPT ![n] = before]

PushFirst(m) ==
  /\ scrlog.tail = NULL
  /\ \E n \in Nodes :
       /\ NewNode(n, m, NULL)
       /\ next' = [next EXCEPT ![n] = NULL]
       /\ scrlog' = [head |-> n, tail |-> n, n_msgs |-> 1, size |-> MsgBytes[m]]
  /\ UNCHANGED evict

(* The size the log would have with m: over the bound, the oldest go. *)
Grown(m) == scrlog.size + MsgBytes[m]

Link(m) ==
  /\ scrlog.tail # NULL
  /\ \E n \in Nodes :
       /\ NewNode(n, m, scrlog.tail)
       /\ next' = [next EXCEPT ![n] = NULL, ![scrlog.tail] = n]
       /\ scrlog' = [head |-> scrlog.head, tail |-> n,
                     n_msgs |-> scrlog.n_msgs + 1, size |-> Grown(m)]

PushBehind(m) == Grown(m) <= MaxBytes /\ Link(m) /\ UNCHANGED evict

PushOver(m) ==
  /\ Grown(m) > MaxBytes
  /\ Link(m)
  /\ evict' = [curr |-> scrlog.head, freed |-> 0, nodes |-> 0,
               free |-> Grown(m) - MaxBytes]

-----------------------------------------------------------------------------
(* screenlog_evict_min_to_free *)

(* Mutant: the text is freed and the node is not. *)
FreeTextOnly(n) ==
  /\ msg' = [msg EXCEPT ![n] = NULL]
  /\ next' = [next EXCEPT ![n] = NULL]
  /\ UNCHANGED allocated

(* What the freed memory holds is undefined, for which NULL stands. *)
Free(n) ==
  /\ allocated' = allocated \ {n}
  /\ msg' = [msg EXCEPT ![n] = NULL]
  /\ next' = [next EXCEPT ![n] = NULL]

(* Mutant: the loop goes on while exactly enough is free. *)
EvictOneTooMany ==
  LET n == evict.curr
      rest == next[n]
  IN  /\ Evicting /\ evict.freed <= evict.free /\ n # NULL
      /\ Free(n)
      /\ prev' = [x \in Nodes |-> IF x \in {n, rest} THEN NULL ELSE prev[x]]
      /\ evict' = [evict EXCEPT !.curr = rest, !.nodes = @ + 1,
                                !.freed = @ + MsgBytes[msg[n]]]
      /\ UNCHANGED scrlog

(* Mutant: the new head still points back at the node that was freed. *)
EvictKeepingPrev ==
  LET n == evict.curr
  IN  /\ Evicting /\ evict.freed < evict.free
      /\ Free(n)
      /\ prev' = [prev EXCEPT ![n] = NULL]
      /\ evict' = [evict EXCEPT !.curr = next[n], !.nodes = @ + 1,
                                !.freed = @ + MsgBytes[msg[n]]]
      /\ UNCHANGED scrlog

EvictOne ==
  LET n == evict.curr
      rest == next[n]
  IN  /\ Evicting /\ evict.freed < evict.free
      /\ Free(n)
      /\ prev' = [x \in Nodes |-> IF x \in {n, rest} THEN NULL ELSE prev[x]]
      /\ evict' = [evict EXCEPT !.curr = rest, !.nodes = @ + 1,
                                !.freed = @ + MsgBytes[msg[n]]]
      /\ UNCHANGED scrlog

(* Mutant: the bytes freed are subtracted from the number of messages. *)
EvictEndMixed ==
  /\ Evicting /\ evict.freed >= evict.free
  /\ scrlog' = [scrlog EXCEPT !.head = evict.curr, !.size = @ - evict.freed,
                              !.n_msgs = @ - evict.freed]
  /\ evict' = Idle
  /\ UNCHANGED <<allocated, msg, prev, next>>

EvictEnd ==
  /\ Evicting /\ evict.freed >= evict.free
  /\ scrlog' = [head   |-> evict.curr,
                tail   |-> IF evict.curr = NULL THEN NULL ELSE scrlog.tail,
                n_msgs |-> scrlog.n_msgs - evict.nodes,
                size   |-> scrlog.size - evict.freed]
  /\ evict' = Idle
  /\ UNCHANGED <<allocated, msg, prev, next>>

Push(m) == PushFirst(m) \/ PushBehind(m) \/ PushOver(m)

-----------------------------------------------------------------------------
Next == (\E m \in Msgs : Push(m)) \/ EvictOne \/ EvictEnd

Spec == Init /\ [][Next]_vars

-----------------------------------------------------------------------------
Texts(s) == [i \in DOMAIN s |-> msg[s[i]]]

TypeOK ==
  /\ allocated \subseteq Nodes
  /\ msg \in [Nodes -> Msgs \cup {NULL}]
  /\ prev \in [Nodes -> Nodes \cup {NULL}]
  /\ next \in [Nodes -> Nodes \cup {NULL}]
  /\ scrlog \in [head : Nodes \cup {NULL}, tail : Nodes \cup {NULL},
                 n_msgs : Nat, size : Nat]
  /\ evict \in [curr : Nodes \cup {NULL}, freed : Nat, nodes : Nat, free : Nat]

(* One list of DEBUG_validate_screenlog_list: from one end along f the log   *)
(* has as many messages and bytes as it counts, and ends at the other end.   *)
CountsRight(from, f, to) ==
  LET s == Walk(from, f)
  IN  /\ Len(s) = scrlog.n_msgs
      /\ \A i \in DOMAIN s : s[i] \in allocated
      /\ Total(Texts(s)) = scrlog.size
      /\ to = IF s = <<>> THEN NULL ELSE s[Len(s)]

(* Every assertion of the log holds: DEBUG_validate_screenlog_list on entry  *)
(* to and exit from screenlog_push_* and screenlog_evict_min_to_free, and    *)
(* those that the eviction makes about what it frees.                        *)
LogAsserts ==
  /\ ~Evicting \/ evict.nodes = 0 =>
       /\ CountsRight(scrlog.head, next, scrlog.tail)
       /\ CountsRight(scrlog.tail, prev, scrlog.head)
  /\ Evicting =>
       /\ evict.free > 0 /\ evict.free <= scrlog.size
       /\ evict.freed < evict.free => evict.curr # NULL

(* No node leaks and none is freed while the log links it: between two calls *)
(* the nodes allocated are those of the list, in both directions.            *)
NothingLeaks ==
  ~Evicting =>
    LET s == Walk(scrlog.head, next)
    IN  /\ allocated = {s[i] : i \in DOMAIN s}
        /\ \A i \in DOMAIN s : prev[s[i]] = IF i = 1 THEN NULL ELSE s[i - 1]

(* The pointers stand for a bounded log: a message is in it from the moment  *)
(* its node is linked, and what has to go for it is gone at the same moment. *)
Log == IF Evicting THEN Newest(Texts(Walk(evict.curr, next)))
                   ELSE Texts(Walk(scrlog.head, next))

Bounded == INSTANCE BoundedLog WITH log <- Log

(* The log keeps the newest messages in order, all that fit and only those:  *)
(* eviction removes "the least possible number of messages".                 *)
ImplementsBoundedLog == Bounded!Spec
=============================================================================
