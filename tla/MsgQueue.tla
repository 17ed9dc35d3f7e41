------------------------------ MODULE MsgQueue ------------------------------
(***************************************************************************)
(* src/msgqueue.c at the level of its pointers: nodes from malloc, three   *)
(* global lists each guarded by a Windows mutex, and threads that build a  *)
(* list, submit it, take a whole queue and free what they took.            *)
(*                                                                         *)
(* A step is one access to memory that another thread can see; what a      *)
(* thread does to its own list is one step per call.                       *)
(***************************************************************************)
EXTENDS Sequences, Pointers

CONSTANTS
  Threads,  (* the threads that call the module                            *)
  Queues,   (* msg_queue_id                                                *)
  Msgs,     (* message texts                                               *)
  Nodes,    (* addresses malloc can return for a msgnode; bounds the model *)
  NULL

ASSUME DistinctNames ==
  /\ Threads \cap Queues = {}
  /\ NULL \notin Nodes \cup Threads

(* Memory ends: a walk along a list comes to an end, too. *)
ASSUME MemoryIsFinite == IsFiniteSet(Nodes)

VARIABLES
  next,    (* node->next                                                   *)
  msg,     (* node->msg                                                    *)
  chain,   (* the nodes of each list, oldest first: what malloc has handed *)
           (* out and free has not taken back, with the order of the       *)
           (* pushes as a history                                          *)
  queue,   (* msg_queue_in, msg_queue_out, msg_queue_ui                    *)
  mtx,     (* the thread holding mtx_msg_queue_*, or NULL                  *)
  list,    (* the msglist local to each thread                             *)
  cur,     (* the local curr of msglist_free                               *)
  pc,      (* where each thread is                                         *)
  arg,     (* the queue the thread's current call is about                 *)
  exited   (* exit(23) was called                                          *)

vars == <<next, msg, chain, queue, mtx, list, cur, pc, arg, exited>>

Submitting == {"s_wait", "s_link", "s_tail_new", "s_tail_more", "s_unlock"}
Taking     == {"t_wait", "t_copy", "t_reset", "t_unlock"}
PcValues   == {"own", "taken", "free"} \cup Submitting \cup Taking
Locked     == {"s_link", "s_tail_new", "s_tail_more", "s_unlock",
               "t_copy", "t_reset", "t_unlock"}

MsgLists == [head : Nodes \cup {NULL}, tail : Nodes \cup {NULL}, count : Nat]

Empty == [head |-> NULL, tail |-> NULL, count |-> 0]

Owners == Threads \cup Queues

Allocated(n) == \E o \in Owners : \E i \in DOMAIN chain[o] : chain[o][i] = n

(* init_msg_queues has run: main calls it before any other thread exists. *)
Init ==
  /\ next = [n \in Nodes |-> NULL]
  /\ msg = [n \in Nodes |-> NULL]
  /\ chain = [o \in Owners |-> <<>>]
  /\ queue = [q \in Queues |-> Empty]
  /\ mtx = [q \in Queues |-> NULL]
  /\ list = [t \in Threads |-> Empty]
  /\ cur = [t \in Threads |-> NULL]
  /\ pc = [t \in Threads |-> "own"]
  /\ arg = [t \in Threads |-> NULL]
  /\ exited = FALSE

Goto(t, from, to) ==
  /\ ~exited
  /\ pc[t] = from
  /\ pc' = [pc EXCEPT ![t] = to]
  /\ UNCHANGED exited

-----------------------------------------------------------------------------
(* A thread's own list. *)

(* The list l with k more nodes behind it, the last of which is n. *)
Extended(l, n, k) == [head |-> l.head, tail |-> n, count |-> l.count + k]

(* msglist_pushback_copy, msglist_pushback_take, and the one-node list that *)
(* msgqueue_pushback_copy builds: a fresh node at the tail of the list.     *)
Link(t, m, n) ==
  /\ ~Allocated(n)
  /\ chain' = [chain EXCEPT ![t] = Append(@, n)]
  /\ msg' = [msg EXCEPT ![n] = m]
  /\ \/ /\ list[t].head = NULL
        /\ next' = [next EXCEPT ![n] = NULL]
        /\ list' = [list EXCEPT ![t] = [head |-> n, tail |-> n, count |-> 1]]
     \/ /\ list[t].head # NULL
        /\ next' = [next EXCEPT ![n] = NULL, ![list[t].tail] = n]
        /\ list' = [list EXCEPT ![t] = Extended(@, n, 1)]

PushBack(t, m) ==
  /\ Goto(t, "own", "own")
  /\ \E n \in Nodes : Link(t, m, n)
  /\ UNCHANGED <<queue, mtx, cur, arg>>

(* msglist_free reads curr->next before it frees the node, the first of what *)
(* is left; what the freed memory holds is undefined, for which NULL stands.  *)
FreeBegin(t) ==
  /\ Goto(t, "taken", "free")
  /\ cur' = [cur EXCEPT ![t] = list[t].head]
  /\ UNCHANGED <<next, msg, chain, queue, mtx, list, arg>>

FreeNode(t) ==
  /\ Goto(t, "free", "free")
  /\ cur[t] # NULL
  /\ chain' = [chain EXCEPT ![t] = Tail(@)]
  /\ cur' = [cur EXCEPT ![t] = next[cur[t]]]
  /\ next' = [next EXCEPT ![cur[t]] = NULL]
  /\ msg' = [msg EXCEPT ![cur[t]] = NULL]
  /\ UNCHANGED <<queue, mtx, list, arg>>

FreeEnd(t) ==
  /\ Goto(t, "free", "own")
  /\ cur[t] = NULL
  /\ list' = [list EXCEPT ![t] = Empty]
  /\ UNCHANGED <<next, msg, chain, queue, mtx, cur, arg>>

-----------------------------------------------------------------------------
(* The mutexes. *)

Call(t, q, to) ==
  /\ Goto(t, "own", to)
  /\ arg' = [arg EXCEPT ![t] = q]
  /\ UNCHANGED <<next, msg, chain, queue, mtx, list, cur>>

(* Mutant: a wait that times out is taken for a lock. *)
AcquireWithoutWait(t) ==
  /\ mtx' = [mtx EXCEPT ![arg[t]] = t]
  /\ UNCHANGED <<next, msg, chain, queue, list, cur, arg>>

(* WaitForSingleObject(mtx, INFINITE) *)
Acquire(t) ==
  /\ mtx[arg[t]] = NULL
  /\ mtx' = [mtx EXCEPT ![arg[t]] = t]
  /\ UNCHANGED <<next, msg, chain, queue, list, cur, arg>>

(* Mutant: the call returns without ReleaseMutex. *)
ReleaseForgotten(t) ==
  /\ arg' = [arg EXCEPT ![t] = NULL]
  /\ UNCHANGED <<next, msg, chain, queue, mtx, cur>>

(* ReleaseMutex(mtx), after which the call returns. *)
Release(t) ==
  /\ mtx' = [mtx EXCEPT ![arg[t]] = NULL]
  /\ arg' = [arg EXCEPT ![t] = NULL]
  /\ UNCHANGED <<next, msg, chain, queue, cur>>

(* The nodes of one list change hands together. *)
Transfer(from, to) ==
  chain' = [chain EXCEPT ![to] = @ \o chain[from], ![from] = <<>>]

-----------------------------------------------------------------------------
(* msglist_submit: no caller submits an empty list (main.c:520). *)

SubmitCall(t, q) == list[t].head # NULL /\ Call(t, q, "s_wait")

SubmitLock(t) == Goto(t, "s_wait", "s_link") /\ Acquire(t)

SubmitLinkNew(t) ==
  /\ Goto(t, "s_link", "s_tail_new")
  /\ queue[arg[t]].head = NULL
  /\ queue' = [queue EXCEPT ![arg[t]] =
                 [head |-> list[t].head, tail |-> @.tail, count |-> @.count]]
  /\ Transfer(t, arg[t])
  /\ UNCHANGED <<next, msg, mtx, list, cur, arg>>

SubmitTailNew(t) ==
  /\ Goto(t, "s_tail_new", "s_unlock")
  /\ queue' = [queue EXCEPT ![arg[t]] =
                 [head |-> @.head, tail |-> list[t].tail, count |-> list[t].count]]
  /\ UNCHANGED <<next, msg, chain, mtx, list, cur, arg>>

(* Mutant: the list is linked behind the head of the queue. *)
SubmitLinkAfterHead(t) ==
  /\ Goto(t, "s_link", "s_tail_more")
  /\ queue[arg[t]].head # NULL
  /\ next' = [next EXCEPT ![queue[arg[t]].head] = list[t].head]
  /\ Transfer(t, arg[t])
  /\ UNCHANGED <<msg, queue, mtx, list, cur, arg>>

SubmitLinkMore(t) ==
  /\ Goto(t, "s_link", "s_tail_more")
  /\ queue[arg[t]].head # NULL
  /\ next' = [next EXCEPT ![queue[arg[t]].tail] = list[t].head]
  /\ Transfer(t, arg[t])
  /\ UNCHANGED <<msg, queue, mtx, list, cur, arg>>

(* Mutants: the tail stays where it was; the counts are subtracted. *)
SubmitTailKept(t) ==
  /\ Goto(t, "s_tail_more", "s_unlock")
  /\ queue' = [queue EXCEPT ![arg[t]].count = @ + list[t].count]
  /\ UNCHANGED <<next, msg, chain, mtx, list, cur, arg>>

SubmitCountSubtracted(t) ==
  /\ Goto(t, "s_tail_more", "s_unlock")
  /\ queue' = [queue EXCEPT ![arg[t]].tail = list[t].tail,
                            ![arg[t]].count = @ - list[t].count]
  /\ UNCHANGED <<next, msg, chain, mtx, list, cur, arg>>

SubmitTailMore(t) ==
  /\ Goto(t, "s_tail_more", "s_unlock")
  /\ queue' = [queue EXCEPT ![arg[t]] = Extended(@, list[t].tail, list[t].count)]
  /\ UNCHANGED <<next, msg, chain, mtx, list, cur, arg>>

(* The caller's list goes out of scope: its nodes belong to the queue. *)
SubmitUnlock(t) ==
  /\ Goto(t, "s_unlock", "own")
  /\ Release(t)
  /\ list' = [list EXCEPT ![t] = Empty]

-----------------------------------------------------------------------------
(* msg_queue_takeall *)

TakeCall(t, q) == list[t].head = NULL /\ Call(t, q, "t_wait")

TakeLock(t) == Goto(t, "t_wait", "t_copy") /\ Acquire(t)

TakeCopy(t) ==
  /\ Goto(t, "t_copy", "t_reset")
  /\ list' = [list EXCEPT ![t] = queue[arg[t]]]
  /\ Transfer(arg[t], t)
  /\ UNCHANGED <<next, msg, queue, mtx, cur, arg>>

TakeReset(t) ==
  /\ Goto(t, "t_reset", "t_unlock")
  /\ queue' = [queue EXCEPT ![arg[t]] = Empty]
  /\ UNCHANGED <<next, msg, chain, mtx, list, cur, arg>>

TakeUnlock(t) ==
  /\ Goto(t, "t_unlock", "taken")
  /\ Release(t)
  /\ UNCHANGED list

-----------------------------------------------------------------------------
(* malloc returned NULL, or a wait or a release failed: exit(23). *)
Fatal(t) ==
  /\ ~exited
  /\ pc[t] \in {"own", "s_wait", "t_wait", "s_unlock", "t_unlock"}
  /\ exited' = TRUE
  /\ UNCHANGED <<next, msg, chain, queue, mtx, list, cur, pc, arg>>

(* The process is gone. *)
Exited == exited /\ UNCHANGED vars

SubmitStep(t) ==
  \/ SubmitLock(t) \/ SubmitLinkNew(t) \/ SubmitTailNew(t)
  \/ SubmitLinkMore(t) \/ SubmitTailMore(t) \/ SubmitUnlock(t)

TakeStep(t) == TakeLock(t) \/ TakeCopy(t) \/ TakeReset(t) \/ TakeUnlock(t)

FreeStep(t) == FreeBegin(t) \/ FreeNode(t) \/ FreeEnd(t)

Next ==
  \/ \E t \in Threads :
       \/ \E m \in Msgs : PushBack(t, m)
       \/ \E q \in Queues : SubmitCall(t, q) \/ TakeCall(t, q)
       \/ SubmitStep(t) \/ TakeStep(t) \/ FreeStep(t)
       \/ Fatal(t)
  \/ Exited

Spec == Init /\ [][Next]_vars

(* A thread inside the module keeps running unless the process exits, and a *)
(* mutex that is released again and again is granted to every waiter in the *)
(* end: the kernel queues the waiters.                                      *)
Fairness ==
  \A t \in Threads :
    /\ WF_vars(SubmitStep(t)) /\ WF_vars(TakeStep(t)) /\ WF_vars(FreeStep(t))
    /\ SF_vars(SubmitLock(t)) /\ SF_vars(TakeLock(t))

FairSpec == Spec /\ Fairness

-----------------------------------------------------------------------------
TypeOK ==
  /\ next \in [Nodes -> Nodes \cup {NULL}]
  /\ msg \in [Nodes -> Msgs \cup {NULL}]
  /\ chain \in [Owners -> Seq(Nodes)]
  /\ queue \in [Queues -> MsgLists]
  /\ mtx \in [Queues -> Threads \cup {NULL}]
  /\ list \in [Threads -> MsgLists]
  /\ cur \in [Threads -> Nodes \cup {NULL}]
  /\ pc \in [Threads -> PcValues]
  /\ arg \in [Threads -> Queues \cup {NULL}]
  /\ exited \in BOOLEAN

(* DEBUG_assert_msglist_valid *)
Valid(l) ==
  /\ l.head = NULL <=> l.tail = NULL
  /\ l.head # NULL => /\ next[l.tail] = NULL
                      /\ next[l.head] = NULL => l.head = l.tail

(* Every assertion of the module holds where the code makes it: at the entry *)
(* of msglist_pushback_*, msglist_submit and msglist_free, on both sides of  *)
(* the splice under the lock, and on both lists before msg_queue_takeall     *)
(* releases it, whatever the other threads are doing meanwhile.              *)
DebugAsserts ==
  \A t \in Threads :
    /\ pc[t] \in {"own", "taken", "t_unlock"} => Valid(list[t])
    /\ pc[t] \in {"s_link", "s_unlock", "t_unlock"} => Valid(queue[arg[t]])

(* l links the nodes of s in their order, ends with the last and counts them. *)
Links(l, s) ==
  /\ l.count = Len(s)
  /\ l.head = IF s = <<>> THEN NULL ELSE s[1]
  /\ l.tail = IF s = <<>> THEN NULL ELSE s[Len(s)]
  /\ \A i \in 1 .. Len(s) :
       next[s[i]] = IF i = Len(s) THEN NULL ELSE s[i + 1]

(* No node is lost, shared by two lists, used after free or freed twice: a   *)
(* thread's list and an unlocked queue reach exactly the nodes they own, end *)
(* at their tail and count right, and msglist_free still reaches from curr   *)
(* all that it has not freed.                                                *)
ListsOwnTheirNodes ==
  /\ \A o, p \in Owners : \A i \in 1 .. Len(chain[o]), j \in 1 .. Len(chain[p]) :
       chain[o][i] = chain[p][j] => o = p /\ i = j
  /\ \A t \in Threads :
       /\ pc[t] \in {"own", "taken", "s_wait", "s_link", "t_reset", "t_unlock"}
            => Links(list[t], chain[t])
       /\ pc[t] = "free" /\ cur[t] # NULL
            => chain[t] # <<>> /\ cur[t] = Head(chain[t])
       /\ pc[t] = "free" /\ cur[t] = NULL => chain[t] = <<>>
  /\ \A q \in Queues : mtx[q] = NULL => Links(queue[q], chain[q])

(* Each call of the module comes back to its caller: no thread waits for a   *)
(* mutex forever, unless the process exits.                                  *)
CallsReturn ==
  \A t \in Threads :
    pc[t] \notin {"own", "taken"} ~> (pc[t] \in {"own", "taken"} \/ exited)

-----------------------------------------------------------------------------
(* The channel that the pointers stand for.  Messages enter a queue when the *)
(* list is linked to it, and leave it when the thread has copied its head;   *)
(* a list that is being freed is gone already.                               *)
Texts(n) ==
  LET s == Walk(n, next)
  IN  [i \in DOMAIN s |-> msg[s[i]]]

ChanOf(q) ==
  IF \E t \in Threads : pc[t] = "t_reset" /\ arg[t] = q
    THEN <<>> ELSE Texts(queue[q].head)

HeldOf(t) ==
  IF pc[t] \in {"free", "s_tail_new", "s_tail_more", "s_unlock"}
    THEN <<>> ELSE Texts(list[t].head)

Channel == INSTANCE MsgChannel WITH
             chan <- [q \in Queues |-> ChanOf(q)],
             held <- [t \in Threads |-> HeldOf(t)]

(* The module implements the FIFO channel that msgqueue.h describes: every   *)
(* submitted list arrives whole, behind what was there, and is taken once.   *)
ImplementsChannel == Channel!Spec
=============================================================================
