--------------------------- MODULE MsgQueueProofs ---------------------------
(***************************************************************************)
(* MsgQueue for any number of threads, queues, messages and addresses: its *)
(* types, its assertions, and that no list loses or shares a node.         *)
(***************************************************************************)
EXTENDS MsgQueue, Induction

(* Whoever is past the wait holds the mutex of the queue of its call. *)
LockInv ==
  \A t \in Threads :
    /\ pc[t] \in Submitting \cup Taking => arg[t] \in Queues
    /\ pc[t] \in Locked => mtx[arg[t]] = t

(* How many nodes a list has, and which: the proofs below go by these two *)
(* and leave the operators on sequences to the lemmas on effects.          *)
Size(o) == Len(chain[o])
At(o, i) == chain[o][i]

(* No node is in two lists, nor twice in one. *)
DisjointInv ==
  \A o, p \in Owners : \A i \in 1 .. Size(o), j \in 1 .. Size(p) :
    At(o, i) = At(p, j) => o = p /\ i = j

(* Every node points at the next of its list, at every moment: the step    *)
(* that hands the nodes over is the one that writes the link.              *)
LinkInv ==
  \A o \in Owners : \A i \in 1 .. Size(o) :
    next[At(o, i)] = IF i = Size(o) THEN NULL ELSE At(o, i + 1)

First(o) == IF Size(o) = 0 THEN NULL ELSE At(o, 1)
Final(o) == IF Size(o) = 0 THEN NULL ELSE At(o, Size(o))

(* The list l has the ends and the length of that of o. *)
Ends(l, o) == l.head = First(o) /\ l.tail = Final(o) /\ l.count = Size(o)

Splicing == {"s_tail_new", "s_tail_more"}

(* A thread's list, before it is freed or linked to a queue. *)
ListInv ==
  \A t \in Threads :
    /\ pc[t] \notin Splicing \cup {"s_unlock", "free"} => Ends(list[t], t)
    /\ pc[t] \in {"s_wait", "s_link"} => Size(t) > 0
    /\ pc[t] \in {"t_wait", "t_copy", "s_unlock"} \cup Splicing => Size(t) = 0

(* msglist_free: what is left is the list from curr on. *)
FreeInv ==
  \A t \in Threads : pc[t] = "free" => cur[t] = First(t)

(* No thread is halfway through a change of q. *)
Settled(q) ==
  \A t \in Threads : arg[t] = q => pc[t] \notin Splicing \cup {"t_reset"}

QueueInv ==
  \A q \in Queues : Settled(q) => Ends(queue[q], q)

(* Halfway through msglist_submit the queue has its new nodes and its old  *)
(* tail; halfway through msg_queue_takeall it still names the nodes it has *)
(* given away.                                                             *)
SpliceInv ==
  \A t \in Threads :
    /\ pc[t] \in Splicing =>
         /\ Size(arg[t]) > 0
         /\ queue[arg[t]].head = First(arg[t])
         /\ list[t].tail = Final(arg[t])
    /\ pc[t] = "s_tail_new" => list[t].count = Size(arg[t])
    /\ pc[t] = "s_tail_more" =>
         queue[arg[t]].count + list[t].count = Size(arg[t])
    /\ pc[t] = "t_reset" => Size(arg[t]) = 0

IInv ==
  /\ TypeOK /\ LockInv /\ DisjointInv /\ LinkInv
  /\ ListInv /\ FreeInv /\ QueueInv /\ SpliceInv

-----------------------------------------------------------------------------
(* What the steps that give or take nodes do to Size and At. *)

(* The lists are sequences of addresses, and every thread and queue has one. *)
LEMMA Accessors ==
  ASSUME TypeOK
  PROVE  /\ \A o \in Owners : Size(o) \in Nat /\ \A i \in 1 .. Size(o) : At(o, i) \in Nodes
         /\ \A t \in Threads : t \in Owners
         /\ \A q \in Queues : q \in Owners /\ \A t \in Threads : q # t
BY LenProperties, ElementOfSeq, DistinctNames DEF TypeOK, Owners, Size, At

(* The list of o stays as it is. *)
Kept(o) == Size(o)' = Size(o) /\ \A i \in 1 .. Size(o) : At(o, i)' = At(o, i)

(* A step that leaves chain alone leaves every list as it is. *)
LEMMA ChainKept ==
  ASSUME UNCHANGED chain
  PROVE  \A o \in Owners : Kept(o)
BY DEF Kept, Size, At

(* A push puts a node of no list behind the last of t's, and links it there. *)
Pushed(t, n) ==
  /\ \A o \in Owners : \A i \in 1 .. Size(o) : At(o, i) # n
  /\ \A o \in Owners : o # t => Kept(o)
  /\ Size(t)' = Size(t) + 1
  /\ \A i \in 1 .. Size(t) : At(t, i)' = At(t, i)
  /\ At(t, Size(t))' = n
  /\ next'[n] = NULL
  /\ Size(t) > 0 => next'[At(t, Size(t))] = n
  /\ \A x \in Nodes : x # n /\ x # Final(t) => next'[x] = next[x]

(* msglist_pushback_copy: the list, its ends and its count grow by one node. *)
LEMMA PushEffect ==
  ASSUME IInv, NEW t \in Threads, NEW m \in Msgs, NEW n \in Nodes,
         PushBack(t, m), Link(t, m, n)
  PROVE  /\ Pushed(t, n)
         /\ \A u \in Threads : u # t => list'[u] = list[u]
         /\ list'[t].head = IF Size(t) = 0 THEN n ELSE At(t, 1)
         /\ list'[t].tail = n
         /\ list'[t].count = Size(t) + 1
<1> USE DEF IInv, TypeOK, MsgLists
<1>1. chain[t] \in Seq(Nodes) /\ t \in Owners /\ Size(t) \in Nat
  BY Accessors DEF Owners
<1>2. /\ Len(Append(chain[t], n)) = Len(chain[t]) + 1
      /\ \A i \in 1 .. Len(chain[t]) : Append(chain[t], n)[i] = chain[t][i]
      /\ Append(chain[t], n)[Len(chain[t]) + 1] = n
  BY <1>1, AppendProperties
<1>3. chain'[t] = Append(chain[t], n) /\ \A o \in Owners : o # t => chain'[o] = chain[o]
  BY <1>1 DEF Link
<1>4. /\ Size(t)' = Size(t) + 1
      /\ \A i \in 1 .. Size(t) : At(t, i)' = At(t, i)
      /\ At(t, Size(t))' = n
      /\ \A o \in Owners : o # t => Kept(o)
  BY <1>2, <1>3 DEF Size, At, Kept
<1>5. \A o \in Owners : \A i \in 1 .. Size(o) : At(o, i) # n
  BY LenProperties DEF Link, Allocated, Size, At
<1>6. Ends(list[t], t)
  BY DEF PushBack, Goto, ListInv, Splicing
<1>7. CASE Size(t) = 0
  <2>1. /\ next' = [next EXCEPT ![n] = NULL]
        /\ list' = [list EXCEPT ![t] = [head |-> n, tail |-> n, count |-> 1]]
    BY <1>6, <1>7 DEF Link, Ends, First
  <2> QED
    BY <1>4, <1>5, <1>7, <2>1 DEF Pushed
<1>8. CASE Size(t) # 0
  <2>1. /\ list[t].tail = At(t, Size(t)) /\ list[t].tail \in Nodes /\ list[t].tail # n
        /\ list[t].head = At(t, 1) /\ list[t].head # NULL
    BY <1>1, <1>5, <1>6, <1>8, Accessors, DistinctNames DEF Ends, First, Final
  <2>2. /\ next' = [next EXCEPT ![n] = NULL, ![list[t].tail] = n]
        /\ list' = [list EXCEPT ![t] = Extended(list[t], n, 1)]
    BY <2>1 DEF Link
  <2>3. /\ next'[n] = NULL /\ next'[list[t].tail] = n
        /\ \A x \in Nodes : x # n /\ x # list[t].tail => next'[x] = next[x]
    BY <2>1, <2>2
  <2>4. list'[t] = Extended(list[t], n, 1) /\ \A u \in Threads : u # t => list'[u] = list[u]
    BY <2>2
  <2>5. Pushed(t, n)
    BY <1>4, <1>5, <1>8, <2>1, <2>3 DEF Pushed, Final
  <2> QED
    BY <1>6, <1>8, <2>1, <2>4, <2>5 DEF Extended, Ends
<1> QED
  BY <1>7, <1>8

(* A list moves as a whole behind another. *)
Moved(from, to) ==
  /\ \A o \in Owners : o \notin {from, to} => Kept(o)
  /\ Size(from)' = 0
  /\ Size(to)' = Size(to) + Size(from)
  /\ \A i \in 1 .. Size(to)' :
       At(to, i)' = IF i <= Size(to) THEN At(to, i) ELSE At(from, i - Size(to))

(* Handing a list over moves its nodes behind those of the receiver. *)
LEMMA TransferEffect ==
  ASSUME TypeOK, NEW from \in Owners, NEW to \in Owners, from # to,
         Transfer(from, to)
  PROVE  Moved(from, to) /\ chain' \in [Owners -> Seq(Nodes)]
<1>1. /\ chain \in [Owners -> Seq(Nodes)]
      /\ chain[from] \in Seq(Nodes) /\ chain[to] \in Seq(Nodes)
  BY DEF TypeOK
<1>2. /\ chain[to] \o chain[from] \in Seq(Nodes)
      /\ Len(chain[to] \o chain[from]) = Len(chain[to]) + Len(chain[from])
      /\ \A i \in 1 .. Len(chain[to]) + Len(chain[from]) :
           (chain[to] \o chain[from])[i] =
             IF i <= Len(chain[to]) THEN chain[to][i] ELSE chain[from][i - Len(chain[to])]
  BY <1>1, ConcatProperties
<1>3. /\ chain'[to] = chain[to] \o chain[from] /\ chain'[from] = <<>>
      /\ \A o \in Owners : o \notin {from, to} => chain'[o] = chain[o]
  BY <1>1 DEF Transfer
<1>4. chain' \in [Owners -> Seq(Nodes)]
  BY <1>1, <1>2, EmptySeq DEF Transfer
<1> QED
  BY <1>1, <1>2, <1>3, <1>4, EmptySeq DEF Moved, Kept, Size, At

(* free takes the first node off. *)
Freed(t) ==
  /\ \A o \in Owners : o # t => Kept(o)
  /\ Size(t) > 0 /\ cur[t] = At(t, 1)
  /\ Size(t)' = Size(t) - 1
  /\ \A i \in 1 .. Size(t) - 1 : At(t, i)' = At(t, i + 1)
  /\ \A x \in Nodes : x # cur[t] => next'[x] = next[x]

(* One turn of the loop of msglist_free drops the first node of what is left. *)
LEMMA FreeEffect ==
  ASSUME IInv, NEW t \in Threads, FreeNode(t)
  PROVE  /\ Freed(t)
         /\ cur'[t] = First(t)'
         /\ chain' \in [Owners -> Seq(Nodes)]
<1> USE DEF IInv, TypeOK
<1>1. chain[t] \in Seq(Nodes) /\ Size(t) \in Nat /\ t \in Owners
  BY Accessors DEF Owners
<1>2. Size(t) > 0 /\ cur[t] = At(t, 1) /\ cur[t] \in Nodes
  BY <1>1 DEF FreeNode, Goto, FreeInv, First
<1>3. chain[t] # <<>>
  BY <1>2, EmptySeq DEF Size
<1>4. /\ Tail(chain[t]) \in Seq(Nodes)
      /\ Len(Tail(chain[t])) = Len(chain[t]) - 1
      /\ \A i \in 1 .. Len(chain[t]) - 1 : Tail(chain[t])[i] = chain[t][i + 1]
  BY <1>1, <1>3, HeadTailProperties
<1>5. /\ chain'[t] = Tail(chain[t]) /\ \A o \in Owners : o # t => chain'[o] = chain[o]
      /\ chain' \in [Owners -> Seq(Nodes)]
  BY <1>1, <1>4 DEF FreeNode
<1>6. /\ Size(t)' = Size(t) - 1
      /\ \A i \in 1 .. Size(t) - 1 : At(t, i)' = At(t, i + 1)
      /\ \A o \in Owners : o # t => Kept(o)
  BY <1>4, <1>5 DEF Size, At, Kept
<1>7. next[cur[t]] = IF 1 = Size(t) THEN NULL ELSE At(t, 1 + 1)
  BY <1>1, <1>2 DEF LinkInv
<1>8. cur'[t] = First(t)'
  BY <1>1, <1>2, <1>6, <1>7 DEF First, FreeNode
<1>9. \A x \in Nodes : x # cur[t] => next'[x] = next[x]
  BY <1>2 DEF FreeNode
<1> QED
  BY <1>2, <1>5, <1>6, <1>8, <1>9 DEF Freed

(* A push, a move and a free keep the lists apart. *)
LEMMA DisjointEffect ==
  ASSUME TypeOK, DisjointInv
  PROVE  /\ \A t \in Threads, n \in Nodes : Pushed(t, n) => DisjointInv'
         /\ \A from, to \in Owners : from # to /\ Moved(from, to) => DisjointInv'
         /\ \A t \in Threads : Freed(t) => DisjointInv'
<1>1. ASSUME NEW t \in Threads, NEW n \in Nodes, Pushed(t, n)
      PROVE  DisjointInv'
  BY <1>1, Accessors DEF DisjointInv, Pushed, Kept
<1>2. ASSUME NEW from \in Owners, NEW to \in Owners, from # to, Moved(from, to)
      PROVE  DisjointInv'
  BY <1>2, Accessors DEF DisjointInv, Moved, Kept
<1>3. ASSUME NEW t \in Threads, Freed(t)
      PROVE  DisjointInv'
  BY <1>3, Accessors DEF DisjointInv, Freed, Kept
<1> QED
  BY <1>1, <1>2, <1>3

(* They also keep the links, if a move links the end of the one list to the *)
(* start of the other, where there are both.                                 *)
Joined(from, to) ==
  /\ Size(from) > 0 /\ Size(to) > 0 => next'[At(to, Size(to))] = At(from, 1)
  /\ \A x \in Nodes : Size(from) = 0 \/ x # Final(to) => next'[x] = next[x]

(* A push, a move that writes the link between the two lists, and a free keep *)
(* every node pointing at the next of its list.                               *)
LEMMA LinkEffect ==
  ASSUME TypeOK, DisjointInv, LinkInv
  PROVE  /\ \A t \in Threads, n \in Nodes : Pushed(t, n) => LinkInv'
         /\ \A from, to \in Owners : from # to /\ Moved(from, to) /\ Joined(from, to) => LinkInv'
         /\ \A t \in Threads : Freed(t) => LinkInv'
<1>1. ASSUME NEW t \in Threads, NEW n \in Nodes, Pushed(t, n)
      PROVE  LinkInv'
  <2> SUFFICES ASSUME NEW o \in Owners, NEW i \in 1 .. Size(o)'
               PROVE  next'[At(o, i)'] = IF i = Size(o)' THEN NULL ELSE At(o, i + 1)'
    BY DEF LinkInv
  <2>1. CASE i = Size(o)' /\ o = t
    BY <1>1, <2>1 DEF Pushed
  <2>2. CASE i \in 1 .. Size(o)
    <3>1. At(o, i)' = At(o, i) /\ At(o, i) \in Nodes /\ At(o, i) # n
      BY <1>1, <2>2, Accessors DEF Pushed, Kept
    <3>2. CASE At(o, i) = Final(t)
      BY <1>1, <2>2, <3>1, <3>2, Accessors, DistinctNames DEF Pushed, Kept, DisjointInv, Final
    <3>3. CASE At(o, i) # Final(t)
      BY <1>1, <2>2, <3>1, <3>3, Accessors DEF Pushed, Kept, LinkInv, Final
    <3> QED
      BY <3>2, <3>3
  <2> QED
    BY <1>1, <2>1, <2>2, Accessors DEF Pushed, Kept
<1>2. ASSUME NEW from \in Owners, NEW to \in Owners, from # to, Moved(from, to), Joined(from, to)
      PROVE  LinkInv'
  <2> SUFFICES ASSUME NEW o \in Owners, NEW i \in 1 .. Size(o)'
               PROVE  next'[At(o, i)'] = IF i = Size(o)' THEN NULL ELSE At(o, i + 1)'
    BY DEF LinkInv
  <2>1. CASE o # to
    BY <1>2, <2>1, Accessors, DistinctNames DEF DisjointInv, LinkInv, Moved, Kept, Joined, Final
  <2>2. CASE o = to /\ i < Size(to)
    BY <1>2, <2>2, Accessors DEF DisjointInv, LinkInv, Moved, Joined, Final
  <2>3. CASE o = to /\ i = Size(to)
    BY <1>2, <2>3, Accessors DEF LinkInv, Moved, Joined, Final
  <2>4. CASE o = to /\ i > Size(to)
    <3>1. /\ i - Size(to) \in 1 .. Size(from) /\ At(o, i)' = At(from, i - Size(to))
          /\ i = Size(o)' <=> i - Size(to) = Size(from)
      BY <1>2, <2>4, Accessors DEF Moved
    <3>2. i # Size(o)' => At(o, i + 1)' = At(from, (i - Size(to)) + 1)
      BY <1>2, <2>4, <3>1, Accessors DEF Moved
    <3>3. next'[At(from, i - Size(to))] = next[At(from, i - Size(to))]
      BY <1>2, <3>1, Accessors, DistinctNames DEF DisjointInv, Joined, Final
    <3> QED
      BY <3>1, <3>2, <3>3 DEF LinkInv
  <2> QED
    BY <2>1, <2>2, <2>3, <2>4, Accessors
<1>3. ASSUME NEW t \in Threads, Freed(t)
      PROVE  LinkInv'
  BY <1>3, Accessors DEF DisjointInv, LinkInv, Freed, Kept
<1> QED
  BY <1>1, <1>2, <1>3

InCall(t) == arg[t] \in Queues /\ t \in Owners /\ arg[t] \in Owners /\ arg[t] # t

(* A thread inside msglist_submit or msg_queue_takeall works on some queue. *)
LEMMA ArgOfCall ==
  ASSUME IInv, NEW t \in Threads, pc[t] \in Submitting \cup Taking
  PROVE  InCall(t)
BY Accessors DEF IInv, LockInv, InCall

(* The thread that holds the mutex is alone in the queue, and finds it    *)
(* settled unless it is halfway through a change itself.                  *)
LEMMA UnderLock ==
  ASSUME IInv, NEW t \in Threads, pc[t] \in Locked
  PROVE  /\ \A u \in Threads : u # t /\ arg[u] = arg[t] => pc[u] \notin Locked
         /\ pc[t] \notin Splicing \cup {"t_reset"} => Ends(queue[arg[t]], arg[t])
<1>1. \A u \in Threads : u # t /\ arg[u] = arg[t] => pc[u] \notin Locked
  BY DEF IInv, LockInv
<1>2. arg[t] \in Queues
  BY ArgOfCall DEF Locked, Submitting, Taking, InCall
<1> QED
  BY <1>1, <1>2 DEF IInv, QueueInv, Settled, Splicing, Locked

(* The steps that touch the nodes or their links. *)
LEMMA NextCases ==
  ASSUME [Next]_vars
  PROVE  \/ \E t \in Threads : \E m \in Msgs : PushBack(t, m)
         \/ \E t \in Threads : \/ SubmitLinkNew(t) \/ SubmitLinkMore(t)
                               \/ TakeCopy(t) \/ FreeNode(t)
         \/ UNCHANGED <<next, chain>>
<1>1. ASSUME NEW t \in Threads, NEW q \in Queues, SubmitCall(t, q) \/ TakeCall(t, q)
      PROVE  UNCHANGED <<next, chain>>
  BY <1>1 DEF SubmitCall, TakeCall, Call
<1>2. ASSUME NEW t \in Threads,
             \/ SubmitLock(t) \/ SubmitTailNew(t) \/ SubmitTailMore(t) \/ SubmitUnlock(t)
             \/ TakeLock(t) \/ TakeReset(t) \/ TakeUnlock(t)
             \/ FreeBegin(t) \/ FreeEnd(t) \/ Fatal(t)
      PROVE  UNCHANGED <<next, chain>>
  BY <1>2 DEF SubmitLock, SubmitTailNew, SubmitTailMore, SubmitUnlock, TakeLock,
              TakeReset, TakeUnlock, FreeBegin, FreeEnd, Fatal, Acquire, Release
<1>3. CASE UNCHANGED vars
  BY <1>3 DEF vars
<1> QED
  BY <1>1, <1>2, <1>3 DEF Next, SubmitStep, TakeStep, FreeStep, Exited

(* What the same steps do to the two ends: the rest of the invariant needs *)
(* no more.                                                                 *)
Steady(o) == Size(o)' = Size(o) /\ First(o)' = First(o) /\ Final(o)' = Final(o)

PushEnds(t, n) ==
  /\ \A o \in Owners : o # t => Steady(o)
  /\ Size(t)' = Size(t) + 1
  /\ First(t)' = IF Size(t) = 0 THEN n ELSE At(t, 1)
  /\ Final(t)' = n

MoveEnds(from, to) ==
  /\ \A o \in Owners : o # from /\ o # to => Steady(o)
  /\ Size(from)' = 0 /\ First(from)' = NULL /\ Final(from)' = NULL
  /\ Size(to)' = Size(to) + Size(from)
  /\ First(to)' = IF Size(to) = 0 THEN First(from) ELSE First(to)
  /\ Final(to)' = IF Size(from) = 0 THEN Final(to) ELSE Final(from)

(* A step that leaves chain alone leaves the ends of every list. *)
LEMMA ChainSteady ==
  ASSUME UNCHANGED chain
  PROVE  \A o \in Owners : Steady(o)
BY DEF Steady, First, Final, Size, At

(* What a push, a move and a free do to the ends and the length of a list. *)
LEMMA EndsEffect ==
  ASSUME TypeOK
  PROVE  /\ \A t \in Threads, n \in Nodes : Pushed(t, n) => PushEnds(t, n)
         /\ \A from, to \in Owners : from # to /\ Moved(from, to) => MoveEnds(from, to)
         /\ \A t \in Threads : Freed(t) => \A o \in Owners : o # t => Steady(o)
<1>1. ASSUME NEW o \in Owners, Kept(o)
      PROVE  Steady(o)
  BY <1>1, Accessors DEF Kept, Steady, First, Final
<1>2. ASSUME NEW t \in Threads, NEW n \in Nodes, Pushed(t, n)
      PROVE  PushEnds(t, n)
  <2>1. Size(t)' = Size(t) + 1 /\ Size(t) \in Nat /\ Final(t)' = n
    BY <1>2, Accessors DEF Pushed, Final
  <2>2. First(t)' = IF Size(t) = 0 THEN n ELSE At(t, 1)
    <3>1. First(t)' = At(t, 1)'
      BY <2>1 DEF First
    <3> QED
      BY <1>2, <2>1, <3>1 DEF Pushed
  <2> QED
    BY <1>1, <1>2, <2>1, <2>2 DEF Pushed, PushEnds
<1>3. ASSUME NEW from \in Owners, NEW to \in Owners, from # to, Moved(from, to)
      PROVE  MoveEnds(from, to)
  <2>1. Size(to)' = Size(to) + Size(from) /\ Size(to) \in Nat /\ Size(from) \in Nat
    BY <1>3, Accessors DEF Moved
  <2>2. First(to)' = IF Size(to) = 0 THEN First(from) ELSE First(to)
    BY <1>3, <2>1 DEF Moved, First
  <2>3. Final(to)' = IF Size(from) = 0 THEN Final(to) ELSE Final(from)
    BY <1>3, <2>1 DEF Moved, Final
  <2>4. Size(from)' = 0 /\ First(from)' = NULL /\ Final(from)' = NULL
    BY <1>3 DEF Moved, First, Final
  <2> QED
    BY <1>1, <1>3, <2>1, <2>2, <2>3, <2>4 DEF Moved, MoveEnds
<1> QED
  BY <1>1, <1>2, <1>3 DEF Freed

(* The two steps of msglist_submit that hand the nodes over, and that of *)
(* msg_queue_takeall, are moves between t and the queue of its call.      *)
LEMMA CallEffect ==
  ASSUME IInv, NEW t \in Threads
  PROVE  /\ SubmitLinkNew(t) \/ SubmitLinkMore(t)
              => InCall(t) /\ Moved(t, arg[t]) /\ MoveEnds(t, arg[t])
         /\ TakeCopy(t) => InCall(t) /\ Moved(arg[t], t) /\ MoveEnds(arg[t], t)
<1>1. ASSUME SubmitLinkNew(t) \/ SubmitLinkMore(t)
      PROVE  InCall(t) /\ Moved(t, arg[t]) /\ MoveEnds(t, arg[t])
  <2>1. InCall(t)
    BY <1>1, ArgOfCall DEF SubmitLinkNew, SubmitLinkMore, Goto, Submitting
  <2>2. Moved(t, arg[t])
    BY <1>1, <2>1, TransferEffect DEF SubmitLinkNew, SubmitLinkMore, InCall, IInv
  <2> QED
    BY <2>1, <2>2, EndsEffect DEF InCall, IInv
<1>2. ASSUME TakeCopy(t)
      PROVE  InCall(t) /\ Moved(arg[t], t) /\ MoveEnds(arg[t], t)
  <2>1. InCall(t)
    BY <1>2, ArgOfCall DEF TakeCopy, Goto, Taking
  <2>2. Moved(arg[t], t)
    BY <1>2, <2>1, TransferEffect DEF TakeCopy, InCall, IInv
  <2> QED
    BY <2>1, <2>2, EndsEffect DEF InCall, IInv
<1> QED
  BY <1>1, <1>2

(* What the proofs below use of Size, First and Final. *)
LEMMA Owned ==
  ASSUME IInv
  PROVE  /\ \A o \in Owners : Size(o) \in Nat /\ (Size(o) = 0 <=> First(o) = NULL)
                                 /\ (Size(o) = 0 <=> Final(o) = NULL)
         /\ \A t \in Threads : t \in Owners
         /\ \A q \in Queues : q \in Owners /\ \A t \in Threads : q # t
<1>1. TypeOK
  BY DEF IInv
<1>2. \A o \in Owners : (Size(o) = 0 <=> First(o) = NULL) /\ (Size(o) = 0 <=> Final(o) = NULL)
  BY <1>1, Accessors, DistinctNames DEF First, Final
<1> QED
  BY <1>1, <1>2, Accessors

-----------------------------------------------------------------------------
(* Each conjunct of the invariant is preserved: one step per action. *)

(* Every step keeps the types. *)
LEMMA TypeStep ==
  ASSUME TypeOK, IInv, [Next]_vars
  PROVE  TypeOK'
<1> USE DistinctNames
<1> USE DEF TypeOK, MsgLists, PcValues, Submitting, Taking
<1>1. ASSUME NEW t \in Threads, NEW m \in Msgs, PushBack(t, m)
      PROVE  TypeOK'
  <2>1. PICK n \in Nodes : Link(t, m, n)
    BY <1>1 DEF PushBack
  <2>2. t \in Owners /\ Append(chain[t], n) \in Seq(Nodes)
    BY AppendProperties DEF Owners
  <2>3. chain' \in [Owners -> Seq(Nodes)]
    BY <2>1, <2>2 DEF Link
  <2>7. next' \in [Nodes -> Nodes \cup {NULL}]
    BY <2>1 DEF Link
  <2>8. msg' \in [Nodes -> Msgs \cup {NULL}]
    BY <2>1 DEF Link
  <2>4. list[t] \in MsgLists /\ [head |-> n, tail |-> n, count |-> 1] \in MsgLists
    OBVIOUS
  <2>5. Extended(list[t], n, 1) \in MsgLists
    BY <2>4 DEF Extended
  <2>6. list' \in [Threads -> MsgLists]
    <3>1. \E l \in MsgLists : list' = [list EXCEPT ![t] = l]
      BY <2>1, <2>4, <2>5 DEF Link
    <3> QED
      BY <3>1
  <2> QED
    BY <1>1, <2>3, <2>6, <2>7, <2>8 DEF PushBack, Goto
<1>2. ASSUME NEW t \in Threads, NEW q \in Queues, SubmitCall(t, q)
      PROVE  TypeOK'
  BY <1>2 DEF SubmitCall, Call, Goto
<1>3. ASSUME NEW t \in Threads, SubmitLock(t)
      PROVE  TypeOK'
  BY <1>3 DEF SubmitLock, Acquire, Goto, Locked
<1>4. ASSUME NEW t \in Threads, SubmitLinkNew(t)
      PROVE  TypeOK'
  <2>1. InCall(t) /\ chain' \in [Owners -> Seq(Nodes)]
    BY <1>4, ArgOfCall, TransferEffect DEF SubmitLinkNew, Goto, InCall
  <2> QED
    BY <1>4, <2>1 DEF SubmitLinkNew, Goto, InCall
<1>5. ASSUME NEW t \in Threads, SubmitTailNew(t)
      PROVE  TypeOK'
  <2>1. arg[t] \in Queues
    BY <1>5 DEF SubmitTailNew, Goto, LockInv, IInv
  <2> QED
    BY <1>5, <2>1 DEF SubmitTailNew, Goto
<1>6. ASSUME NEW t \in Threads, SubmitLinkMore(t)
      PROVE  TypeOK'
  <2>1. InCall(t) /\ chain' \in [Owners -> Seq(Nodes)]
    BY <1>6, ArgOfCall, TransferEffect DEF SubmitLinkMore, Goto, InCall
  <2> QED
    BY <1>6, <2>1 DEF SubmitLinkMore, Goto, InCall
<1>7. ASSUME NEW t \in Threads, SubmitTailMore(t)
      PROVE  TypeOK'
  <2>1. arg[t] \in Queues
    BY <1>7 DEF SubmitTailMore, Goto, LockInv, IInv
  <2> QED
    BY <1>7, <2>1 DEF SubmitTailMore, Extended, Goto
<1>8. ASSUME NEW t \in Threads, SubmitUnlock(t)
      PROVE  TypeOK'
  BY <1>8 DEF SubmitUnlock, Release, Goto, Empty
<1>9. ASSUME NEW t \in Threads, NEW q \in Queues, TakeCall(t, q)
      PROVE  TypeOK'
  BY <1>9 DEF TakeCall, Call, Goto
<1>10. ASSUME NEW t \in Threads, TakeLock(t)
      PROVE  TypeOK'
  BY <1>10 DEF TakeLock, Acquire, Goto
<1>11. ASSUME NEW t \in Threads, TakeCopy(t)
      PROVE  TypeOK'
  <2>1. InCall(t) /\ chain' \in [Owners -> Seq(Nodes)]
    BY <1>11, ArgOfCall, TransferEffect DEF TakeCopy, Goto, InCall
  <2> QED
    BY <1>11, <2>1 DEF TakeCopy, Goto, InCall
<1>12. ASSUME NEW t \in Threads, TakeReset(t)
      PROVE  TypeOK'
  BY <1>12 DEF TakeReset, Goto, Empty
<1>13. ASSUME NEW t \in Threads, TakeUnlock(t)
      PROVE  TypeOK'
  BY <1>13 DEF TakeUnlock, Release, Goto
<1>14. ASSUME NEW t \in Threads, FreeBegin(t)
      PROVE  TypeOK'
  BY <1>14 DEF FreeBegin, Goto
<1>15. ASSUME NEW t \in Threads, FreeNode(t)
      PROVE  TypeOK'
  <2>1. chain' \in [Owners -> Seq(Nodes)]
    BY <1>15, FreeEffect
  <2> QED
    BY <1>15, <2>1 DEF FreeNode, Goto
<1>16. ASSUME NEW t \in Threads, FreeEnd(t)
      PROVE  TypeOK'
  BY <1>16 DEF FreeEnd, Goto, Empty
<1>17. ASSUME NEW t \in Threads, Fatal(t)
      PROVE  TypeOK'
  BY <1>17 DEF Fatal
<1>18. CASE UNCHANGED vars
  BY <1>18 DEF vars
<1> HIDE DEF TypeOK, MsgLists, PcValues, Submitting, Taking
<1> QED
  BY <1>1, <1>2, <1>3, <1>4, <1>5, <1>6, <1>7, <1>8, <1>9, <1>10, <1>11, <1>12,
     <1>13, <1>14, <1>15, <1>16, <1>17, <1>18
     DEF Next, SubmitStep, TakeStep, FreeStep, Exited


(* Every step keeps the mutex with the thread that is past its wait. *)
LEMMA LockStep ==
  ASSUME TypeOK, LockInv, [Next]_vars
  PROVE  LockInv'
<1> USE DistinctNames
<1> USE DEF TypeOK, LockInv, Locked, PcValues, Submitting, Taking
<1>1. ASSUME NEW t \in Threads, NEW m \in Msgs, PushBack(t, m)
      PROVE  LockInv'
  BY <1>1 DEF PushBack, Goto
<1>2. ASSUME NEW t \in Threads, NEW q \in Queues, SubmitCall(t, q)
      PROVE  LockInv'
  BY <1>2 DEF SubmitCall, Call, Goto
<1>3. ASSUME NEW t \in Threads, SubmitLock(t)
      PROVE  LockInv'
  BY <1>3 DEF SubmitLock, Acquire, Goto, Locked
<1>4. ASSUME NEW t \in Threads, SubmitLinkNew(t)
      PROVE  LockInv'
  BY <1>4 DEF SubmitLinkNew, Transfer, Goto
<1>5. ASSUME NEW t \in Threads, SubmitTailNew(t)
      PROVE  LockInv'
  BY <1>5 DEF SubmitTailNew, Goto
<1>6. ASSUME NEW t \in Threads, SubmitLinkMore(t)
      PROVE  LockInv'
  BY <1>6 DEF SubmitLinkMore, Transfer, Goto
<1>7. ASSUME NEW t \in Threads, SubmitTailMore(t)
      PROVE  LockInv'
  BY <1>7 DEF SubmitTailMore, Extended, Goto
<1>8. ASSUME NEW t \in Threads, SubmitUnlock(t)
      PROVE  LockInv'
  BY <1>8 DEF SubmitUnlock, Release, Goto, Empty
<1>9. ASSUME NEW t \in Threads, NEW q \in Queues, TakeCall(t, q)
      PROVE  LockInv'
  BY <1>9 DEF TakeCall, Call, Goto
<1>10. ASSUME NEW t \in Threads, TakeLock(t)
      PROVE  LockInv'
  BY <1>10 DEF TakeLock, Acquire, Goto
<1>11. ASSUME NEW t \in Threads, TakeCopy(t)
      PROVE  LockInv'
  BY <1>11 DEF TakeCopy, Transfer, Goto
<1>12. ASSUME NEW t \in Threads, TakeReset(t)
      PROVE  LockInv'
  BY <1>12 DEF TakeReset, Goto, Empty
<1>13. ASSUME NEW t \in Threads, TakeUnlock(t)
      PROVE  LockInv'
  BY <1>13 DEF TakeUnlock, Release, Goto
<1>14. ASSUME NEW t \in Threads, FreeBegin(t)
      PROVE  LockInv'
  BY <1>14 DEF FreeBegin, Goto
<1>15. ASSUME NEW t \in Threads, FreeNode(t)
      PROVE  LockInv'
  BY <1>15 DEF FreeNode, Goto
<1>16. ASSUME NEW t \in Threads, FreeEnd(t)
      PROVE  LockInv'
  BY <1>16 DEF FreeEnd, Goto, Empty
<1>17. ASSUME NEW t \in Threads, Fatal(t)
      PROVE  LockInv'
  BY <1>17 DEF Fatal
<1>18. CASE UNCHANGED vars
  BY <1>18 DEF vars
<1> HIDE DEF TypeOK, LockInv, Locked, PcValues, Submitting, Taking
<1> QED
  BY <1>1, <1>2, <1>3, <1>4, <1>5, <1>6, <1>7, <1>8, <1>9, <1>10, <1>11, <1>12,
     <1>13, <1>14, <1>15, <1>16, <1>17, <1>18
     DEF Next, SubmitStep, TakeStep, FreeStep, Exited


(* The nodes stay in order: every step leaves them, pushes, moves or frees. *)
LEMMA NodesStep ==
  ASSUME IInv, [Next]_vars
  PROVE  DisjointInv' /\ LinkInv'
<1>1. ASSUME NEW t \in Threads, NEW m \in Msgs, PushBack(t, m)
      PROVE  DisjointInv' /\ LinkInv'
  <2>1. PICK n \in Nodes : Link(t, m, n)
    BY <1>1 DEF PushBack
  <2>2. Pushed(t, n)
    BY <1>1, <2>1, PushEffect
  <2> QED
    BY <2>2, DisjointEffect, LinkEffect DEF IInv
<1>2. ASSUME NEW t \in Threads, SubmitLinkNew(t)
      PROVE  DisjointInv' /\ LinkInv'
  <2>1. InCall(t) /\ Moved(t, arg[t])
    BY <1>2, CallEffect
  <2>2. Joined(t, arg[t])
    <3>1. Ends(queue[arg[t]], arg[t])
      BY <1>2, UnderLock DEF SubmitLinkNew, Goto, Locked, Splicing
    <3>2. Size(arg[t]) = 0
      BY <1>2, <2>1, <3>1, Owned DEF SubmitLinkNew, Ends, InCall
    <3> QED
      BY <1>2, <2>1, <3>2, Accessors, DistinctNames DEF SubmitLinkNew, Joined, Final, InCall, IInv
  <2> QED
    BY <2>1, <2>2, DisjointEffect, LinkEffect DEF IInv, InCall
<1>3. ASSUME NEW t \in Threads, SubmitLinkMore(t)
      PROVE  DisjointInv' /\ LinkInv'
  <2>1. InCall(t) /\ Moved(t, arg[t])
    BY <1>3, CallEffect
  <2>2. Joined(t, arg[t])
    <3>1. Ends(queue[arg[t]], arg[t]) /\ Ends(list[t], t) /\ Size(t) > 0
      BY <1>3, UnderLock DEF SubmitLinkMore, Goto, Locked, Splicing, IInv, ListInv
    <3>2. Size(arg[t]) # 0 /\ Size(t) # 0 /\ Size(arg[t]) \in Nat
      BY <1>3, <2>1, <3>1, Owned DEF SubmitLinkMore, Ends, InCall
    <3>3. /\ queue[arg[t]].tail = At(arg[t], Size(arg[t])) /\ queue[arg[t]].tail \in Nodes
          /\ Final(arg[t]) = At(arg[t], Size(arg[t])) /\ list[t].head = At(t, 1)
      BY <2>1, <3>1, <3>2, Accessors DEF Ends, First, Final, InCall, IInv
    <3>4. next' = [next EXCEPT ![queue[arg[t]].tail] = list[t].head]
      BY <1>3 DEF SubmitLinkMore
    <3>5. /\ next'[At(arg[t], Size(arg[t]))] = At(t, 1)
          /\ \A x \in Nodes : x # Final(arg[t]) => next'[x] = next[x]
      BY <3>3, <3>4 DEF IInv, TypeOK
    <3> QED
      BY <3>2, <3>5 DEF Joined
  <2> QED
    BY <2>1, <2>2, DisjointEffect, LinkEffect DEF IInv, InCall
<1>4. ASSUME NEW t \in Threads, TakeCopy(t)
      PROVE  DisjointInv' /\ LinkInv'
  <2>1. InCall(t) /\ Moved(arg[t], t)
    BY <1>4, CallEffect
  <2>2. Size(t) = 0
    BY <1>4 DEF TakeCopy, Goto, IInv, ListInv
  <2>3. Joined(arg[t], t)
    BY <1>4, <2>1, <2>2, Accessors, DistinctNames DEF TakeCopy, Joined, Final, InCall, IInv
  <2> QED
    BY <2>1, <2>3, DisjointEffect, LinkEffect DEF IInv, InCall
<1>5. ASSUME NEW t \in Threads, FreeNode(t)
      PROVE  DisjointInv' /\ LinkInv'
  BY <1>5, FreeEffect, DisjointEffect, LinkEffect DEF IInv
<1>6. CASE UNCHANGED <<next, chain>>
  BY <1>6 DEF IInv, DisjointInv, LinkInv, Size, At
<1> QED
  BY <1>1, <1>2, <1>3, <1>4, <1>5, <1>6, NextCases

(* Every step keeps the head, tail and count of each list right, and what *)
(* msglist_submit and msg_queue_takeall know halfway through.              *)
LEMMA EndsStep ==
  ASSUME IInv, [Next]_vars
  PROVE  ListInv' /\ FreeInv' /\ QueueInv' /\ SpliceInv'
<1>0. TypeOK /\ LockInv /\ ListInv /\ FreeInv /\ QueueInv /\ SpliceInv
  BY DEF IInv
<1> USE <1>0, Owned, ChainSteady
<1> USE DEF TypeOK, MsgLists, LockInv, Locked, ListInv, FreeInv, QueueInv,
            SpliceInv, Settled, Ends, Steady, Splicing, Submitting, Taking
<1>1. ASSUME NEW t \in Threads, NEW m \in Msgs, PushBack(t, m)
      PROVE  ListInv' /\ FreeInv' /\ QueueInv' /\ SpliceInv'
  <2>1. PICK n \in Nodes : Link(t, m, n)
    BY <1>1 DEF PushBack
  <2>2. /\ Pushed(t, n)
        /\ \A u \in Threads : u # t => list'[u] = list[u]
        /\ list'[t].head = IF Size(t) = 0 THEN n ELSE At(t, 1)
        /\ list'[t].tail = n
        /\ list'[t].count = Size(t) + 1
    BY <1>1, <2>1, PushEffect
  <2>3. PushEnds(t, n)
    BY <2>2, EndsEffect
  <2>4. ListInv'
    BY <1>1, <2>2, <2>3 DEF PushBack, Goto, PushEnds
  <2>5. FreeInv'
    BY <1>1, <2>2, <2>3 DEF PushBack, Goto, PushEnds
  <2>6. QueueInv'
    BY <1>1, <2>2, <2>3, ZenonT(60) DEF PushBack, Goto, PushEnds
  <2>7. SpliceInv'
    BY <1>1, <2>2, <2>3 DEF PushBack, Goto, PushEnds
  <2> QED
    BY <2>4, <2>5, <2>6, <2>7
<1>2. ASSUME NEW t \in Threads, NEW q \in Queues, SubmitCall(t, q)
      PROVE  ListInv' /\ FreeInv' /\ QueueInv' /\ SpliceInv'
  <2>1. ListInv'
    BY <1>2 DEF SubmitCall, Call, Goto
  <2>2. FreeInv'
    BY <1>2 DEF SubmitCall, Call, Goto
  <2>3. QueueInv'
    BY <1>2, ZenonT(60) DEF SubmitCall, Call, Goto
  <2>4. SpliceInv'
    BY <1>2 DEF SubmitCall, Call, Goto
  <2> QED
    BY <2>1, <2>2, <2>3, <2>4
<1>3. ASSUME NEW t \in Threads, SubmitLock(t)
      PROVE  ListInv' /\ FreeInv' /\ QueueInv' /\ SpliceInv'
  <2>1. ListInv'
    BY <1>3 DEF SubmitLock, Acquire, Goto, Locked
  <2>2. FreeInv'
    BY <1>3 DEF SubmitLock, Acquire, Goto, Locked
  <2>3. QueueInv'
    BY <1>3, ZenonT(60) DEF SubmitLock, Acquire, Goto, Locked
  <2>4. SpliceInv'
    BY <1>3 DEF SubmitLock, Acquire, Goto, Locked
  <2> QED
    BY <2>1, <2>2, <2>3, <2>4
<1>4. ASSUME NEW t \in Threads, SubmitLinkNew(t)
      PROVE  ListInv' /\ FreeInv' /\ QueueInv' /\ SpliceInv'
  <2>1. InCall(t) /\ MoveEnds(t, arg[t])
    BY <1>4, CallEffect
  <2>2. /\ Ends(queue[arg[t]], arg[t]) /\ Ends(list[t], t) /\ Size(t) > 0
        /\ \A u \in Threads : u # t /\ arg[u] = arg[t] => pc[u] \notin Locked
    BY <1>4, UnderLock DEF SubmitLinkNew, Goto
  <2>3. ListInv'
    BY <1>4, <2>1, <2>2 DEF SubmitLinkNew, Goto, InCall, MoveEnds
  <2>4. FreeInv'
    BY <1>4, <2>1, <2>2 DEF SubmitLinkNew, Goto, InCall, MoveEnds
  <2>5. QueueInv'
    BY <1>4, <2>1, <2>2, ZenonT(60) DEF SubmitLinkNew, Goto, InCall, MoveEnds
  <2>6. SpliceInv'
    BY <1>4, <2>1, <2>2 DEF SubmitLinkNew, Goto, InCall, MoveEnds
  <2> QED
    BY <2>3, <2>4, <2>5, <2>6
<1>5. ASSUME NEW t \in Threads, SubmitTailNew(t)
      PROVE  ListInv' /\ FreeInv' /\ QueueInv' /\ SpliceInv'
  BY <1>5 DEF SubmitTailNew, Goto
<1>6. ASSUME NEW t \in Threads, SubmitLinkMore(t)
      PROVE  ListInv' /\ FreeInv' /\ QueueInv' /\ SpliceInv'
  <2>1. InCall(t) /\ MoveEnds(t, arg[t])
    BY <1>6, CallEffect
  <2>2. /\ Ends(queue[arg[t]], arg[t]) /\ Ends(list[t], t) /\ Size(t) > 0
        /\ \A u \in Threads : u # t /\ arg[u] = arg[t] => pc[u] \notin Locked
    BY <1>6, UnderLock DEF SubmitLinkMore, Goto
  <2>3. ListInv'
    BY <1>6, <2>1, <2>2 DEF SubmitLinkMore, Goto, InCall, MoveEnds
  <2>4. FreeInv'
    BY <1>6, <2>1, <2>2 DEF SubmitLinkMore, Goto, InCall, MoveEnds
  <2>5. QueueInv'
    BY <1>6, <2>1, <2>2 DEF SubmitLinkMore, Goto, InCall, MoveEnds
  <2>6. SpliceInv'
    BY <1>6, <2>1, <2>2 DEF SubmitLinkMore, Goto, InCall, MoveEnds
  <2> QED
    BY <2>3, <2>4, <2>5, <2>6
<1>7. ASSUME NEW t \in Threads, SubmitTailMore(t)
      PROVE  ListInv' /\ FreeInv' /\ QueueInv' /\ SpliceInv'
  BY <1>7 DEF SubmitTailMore, Extended, Goto
<1>8. ASSUME NEW t \in Threads, SubmitUnlock(t)
      PROVE  ListInv' /\ FreeInv' /\ QueueInv' /\ SpliceInv'
  <2>1. Size(t) = 0
    BY <1>8 DEF SubmitUnlock, Goto
  <2>2. ListInv'
    BY <1>8, <2>1 DEF SubmitUnlock, Release, Goto, Empty
  <2>3. FreeInv'
    BY <1>8, <2>1 DEF SubmitUnlock, Release, Goto, Empty
  <2>4. QueueInv'
    BY <1>8, <2>1, ZenonT(60) DEF SubmitUnlock, Release, Goto, Empty
  <2>5. SpliceInv'
    BY <1>8, <2>1 DEF SubmitUnlock, Release, Goto, Empty
  <2> QED
    BY <2>2, <2>3, <2>4, <2>5
<1>9. ASSUME NEW t \in Threads, NEW q \in Queues, TakeCall(t, q)
      PROVE  ListInv' /\ FreeInv' /\ QueueInv' /\ SpliceInv'
  <2>1. pc[t] = "own" /\ \A u \in Threads : u # t => arg'[u] = arg[u] /\ pc'[u] = pc[u]
    BY <1>9 DEF TakeCall, Call, Goto
  <2>2. ASSUME NEW r \in Queues, Settled(r)'
        PROVE  Ends(queue[r], r)'
    <3>1. Ends(queue[r], r)
      BY <2>1, <2>2
    <3> QED
      BY <1>9, <3>1 DEF TakeCall, Call
  <2> QED
    BY <1>9, <2>2 DEF TakeCall, Call, Goto
<1>10. ASSUME NEW t \in Threads, TakeLock(t)
      PROVE  ListInv' /\ FreeInv' /\ QueueInv' /\ SpliceInv'
  <2>1. ListInv'
    BY <1>10 DEF TakeLock, Acquire, Goto
  <2>2. FreeInv'
    BY <1>10 DEF TakeLock, Acquire, Goto
  <2>3. QueueInv'
    BY <1>10, ZenonT(60) DEF TakeLock, Acquire, Goto
  <2>4. SpliceInv'
    BY <1>10 DEF TakeLock, Acquire, Goto
  <2> QED
    BY <2>1, <2>2, <2>3, <2>4
<1>11. ASSUME NEW t \in Threads, TakeCopy(t)
      PROVE  ListInv' /\ FreeInv' /\ QueueInv' /\ SpliceInv'
  <2>1. InCall(t) /\ MoveEnds(arg[t], t)
    BY <1>11, CallEffect
  <2>2. /\ Ends(queue[arg[t]], arg[t]) /\ Size(t) = 0
        /\ \A u \in Threads : u # t /\ arg[u] = arg[t] => pc[u] \notin Locked
    BY <1>11, UnderLock DEF TakeCopy, Goto
  <2>3. ListInv'
    <3>1. list'[t] = queue[arg[t]] /\ \A u \in Threads : u # t => list'[u] = list[u]
      BY <1>11 DEF TakeCopy
    <3>2. Ends(list[t], t)'
      BY <2>1, <2>2, <3>1 DEF InCall, MoveEnds
    <3> QED
      BY <1>11, <2>1, <2>2, <3>1, <3>2 DEF TakeCopy, Goto, InCall, MoveEnds
  <2>4. FreeInv'
    BY <1>11, <2>1, <2>2 DEF TakeCopy, Goto, InCall, MoveEnds
  <2>5. QueueInv'
    BY <1>11, <2>1, <2>2 DEF TakeCopy, Goto, InCall, MoveEnds
  <2>6. SpliceInv'
    BY <1>11, <2>1, <2>2 DEF TakeCopy, Goto, InCall, MoveEnds
  <2> QED
    BY <2>3, <2>4, <2>5, <2>6
<1>12. ASSUME NEW t \in Threads, TakeReset(t)
      PROVE  ListInv' /\ FreeInv' /\ QueueInv' /\ SpliceInv'
  BY <1>12, SMTT(30) DEF TakeReset, Goto, Empty
<1>13. ASSUME NEW t \in Threads, TakeUnlock(t)
      PROVE  ListInv' /\ FreeInv' /\ QueueInv' /\ SpliceInv'
  <2>1. ListInv'
    BY <1>13 DEF TakeUnlock, Release, Goto
  <2>2. FreeInv'
    BY <1>13 DEF TakeUnlock, Release, Goto
  <2>3. QueueInv'
    BY <1>13, ZenonT(60) DEF TakeUnlock, Release, Goto
  <2>4. SpliceInv'
    BY <1>13 DEF TakeUnlock, Release, Goto
  <2> QED
    BY <2>1, <2>2, <2>3, <2>4
<1>14. ASSUME NEW t \in Threads, FreeBegin(t)
      PROVE  ListInv' /\ FreeInv' /\ QueueInv' /\ SpliceInv'
  BY <1>14 DEF FreeBegin, Goto
<1>15. ASSUME NEW t \in Threads, FreeNode(t)
      PROVE  ListInv' /\ FreeInv' /\ QueueInv' /\ SpliceInv'
  <2>1. cur'[t] = First(t)' /\ \A o \in Owners : o # t => Steady(o)
    BY <1>15, FreeEffect, EndsEffect
  <2> QED
    BY <1>15, <2>1 DEF FreeNode, Goto
<1>16. ASSUME NEW t \in Threads, FreeEnd(t)
      PROVE  ListInv' /\ FreeInv' /\ QueueInv' /\ SpliceInv'
  <2>1. Size(t) = 0
    BY <1>16 DEF FreeEnd, Goto
  <2> QED
    BY <1>16, <2>1, SMTT(30) DEF FreeEnd, Goto, Empty
<1>17. ASSUME NEW t \in Threads, Fatal(t)
      PROVE  ListInv' /\ FreeInv' /\ QueueInv' /\ SpliceInv'
  BY <1>17 DEF Fatal
<1>18. CASE UNCHANGED vars
  BY <1>18 DEF vars
<1> HIDE <1>0 DEF TypeOK, MsgLists, LockInv, Locked, ListInv, FreeInv, QueueInv,
            SpliceInv, Settled, Ends, Steady, Splicing, Submitting, Taking
<1> QED
  BY <1>1, <1>2, <1>3, <1>4, <1>5, <1>6, <1>7, <1>8, <1>9, <1>10, <1>11, <1>12,
     <1>13, <1>14, <1>15, <1>16, <1>17, <1>18
     DEF Next, SubmitStep, TakeStep, FreeStep, Exited


-----------------------------------------------------------------------------
(* The theorems. *)

(* Every reachable state of msgqueue.c satisfies the inductive invariant. *)
THEOREM Inductive == Spec => []IInv
<1>1. Init => IInv
  <2> SUFFICES ASSUME Init PROVE IInv
    OBVIOUS
  <2>1. TypeOK
    BY EmptySeq DEF Init, TypeOK, Empty, MsgLists, PcValues
  <2>2. \A o \in Owners : Size(o) = 0
    BY EmptySeq DEF Init, Size
  <2>3. LockInv /\ FreeInv /\ SpliceInv
    BY DEF Init, LockInv, FreeInv, SpliceInv, Splicing, Locked, Submitting, Taking
  <2>4. DisjointInv /\ LinkInv
    BY <2>2 DEF DisjointInv, LinkInv
  <2>5. ListInv /\ QueueInv
    BY <2>2 DEF Init, ListInv, QueueInv, Ends, First, Final, Empty, Splicing, Owners
  <2> QED
    BY <2>1, <2>3, <2>4, <2>5 DEF IInv
<1>2. IInv /\ [Next]_vars => IInv'
  <2> SUFFICES ASSUME IInv, [Next]_vars PROVE IInv'
    OBVIOUS
  <2>1. TypeOK' /\ LockInv'
    BY TypeStep, LockStep DEF IInv
  <2>2. DisjointInv' /\ LinkInv'
    BY NodesStep
  <2>3. ListInv' /\ FreeInv' /\ QueueInv' /\ SpliceInv'
    BY EndsStep
  <2> QED
    BY <2>1, <2>2, <2>3 DEF IInv
<1> QED
  BY <1>1, <1>2, PTL DEF Spec

(* Whatever the threads do, the lists and mutexes keep their types; in       *)
(* particular a count never goes below zero.                                 *)
THEOREM TypeCorrect == Spec => []TypeOK
<1>1. IInv => TypeOK
  BY DEF IInv
<1> QED
  BY <1>1, Inductive, PTL

(* From the ends of a list and the links, what is asserted of it and what is *)
(* expected of it.                                                           *)
LEMMA EndsMeanLinks ==
  ASSUME IInv, NEW o \in Owners, NEW l, Ends(l, o)
  PROVE  Valid(l) /\ Links(l, chain[o])
<1>1. /\ TypeOK /\ LinkInv /\ Size(o) \in Nat
      /\ \A i \in 1 .. Size(o) : At(o, i) \in Nodes
  BY Accessors DEF IInv
<1>2. CASE Size(o) = 0
  <2>1. chain[o] = <<>>
    BY <1>1, <1>2, EmptySeq DEF Size, TypeOK
  <2>2. l.head = NULL /\ l.tail = NULL /\ l.count = 0
    BY <1>2 DEF Ends, First, Final
  <2> QED
    BY <2>1, <2>2 DEF Valid, Links
<1>3. CASE Size(o) # 0
  <2>1. /\ l.head = At(o, 1) /\ l.tail = At(o, Size(o)) /\ l.count = Size(o)
        /\ l.head # NULL /\ l.tail # NULL
    BY <1>1, <1>3, DistinctNames DEF Ends, First, Final
  <2>2. \A i \in 1 .. Size(o) : next[At(o, i)] = IF i = Size(o) THEN NULL ELSE At(o, i + 1)
    BY <1>1 DEF LinkInv
  <2>3. Valid(l)
    <3>1. next[l.tail] = NULL
      BY <1>1, <1>3, <2>1, <2>2
    <3>2. Size(o) # 1 => next[l.head] = At(o, 1 + 1) /\ At(o, 1 + 1) \in Nodes
      BY <1>1, <1>3, <2>1, <2>2
    <3> QED
      BY <2>1, <3>1, <3>2, DistinctNames DEF Valid
  <2>4. chain[o] # <<>>
    BY <1>3, EmptySeq DEF Size
  <2> QED
    BY <2>1, <2>2, <2>3, <2>4 DEF Links, Size, At
<1> QED
  BY <1>2, <1>3

(* No assertion of msgqueue.c fails, for any number of threads and queues: *)
(* DEBUG_assert_msglist_valid holds wherever it is called.                 *)
THEOREM AssertsHold == Spec => []DebugAsserts
<1>1. IInv => DebugAsserts
  <2> SUFFICES ASSUME IInv, NEW t \in Threads
               PROVE  /\ pc[t] \in {"own", "taken", "t_unlock"} => Valid(list[t])
                      /\ pc[t] \in {"s_link", "s_unlock", "t_unlock"} => Valid(queue[arg[t]])
    BY DEF DebugAsserts
  <2>1. ASSUME pc[t] \in {"own", "taken", "t_unlock"}
        PROVE  Valid(list[t])
    BY <2>1, Owned, EndsMeanLinks DEF IInv, ListInv, Splicing
  <2>2. ASSUME pc[t] \in {"s_link", "s_unlock", "t_unlock"}
        PROVE  Valid(queue[arg[t]])
    <3>1. arg[t] \in Queues /\ arg[t] \in Owners
      BY <2>2, ArgOfCall DEF Submitting, Taking, InCall
    <3>2. Ends(queue[arg[t]], arg[t])
      BY <2>2, UnderLock DEF Locked, Splicing
    <3> QED
      BY <3>1, <3>2, EndsMeanLinks
  <2> QED
    BY <2>1, <2>2
<1> QED
  BY <1>1, Inductive, PTL

(* No node is lost, shared, freed twice or used after it is freed: the       *)
(* pointers of every list link exactly the nodes pushed to it, in order.     *)
THEOREM NoNodeLost == Spec => []ListsOwnTheirNodes
<1>1. IInv => ListsOwnTheirNodes
  <2> SUFFICES ASSUME IInv PROVE ListsOwnTheirNodes
    OBVIOUS
  <2>1. \A o, p \in Owners : \A i \in 1 .. Len(chain[o]), j \in 1 .. Len(chain[p]) :
          chain[o][i] = chain[p][j] => o = p /\ i = j
    BY DEF IInv, DisjointInv, Size, At
  <2>2. ASSUME NEW t \in Threads,
               pc[t] \in {"own", "taken", "s_wait", "s_link", "t_reset", "t_unlock"}
        PROVE  Links(list[t], chain[t])
    BY <2>2, Owned, EndsMeanLinks DEF IInv, ListInv, Splicing
  <2>3. ASSUME NEW t \in Threads, pc[t] = "free"
        PROVE  /\ cur[t] # NULL => chain[t] # <<>> /\ cur[t] = Head(chain[t])
               /\ cur[t] = NULL => chain[t] = <<>>
    <3>1. cur[t] = First(t) /\ t \in Owners /\ chain[t] \in Seq(Nodes) /\ (Size(t) = 0 <=> First(t) = NULL)
      BY <2>3, Owned DEF IInv, FreeInv, TypeOK
    <3>2. Size(t) = 0 <=> chain[t] = <<>>
      BY <3>1, EmptySeq DEF Size
    <3>3. chain[t] # <<>> => Head(chain[t]) = At(t, 1)
      BY <3>1 DEF At
    <3> QED
      BY <3>1, <3>2, <3>3 DEF First
  <2>4. ASSUME NEW q \in Queues, mtx[q] = NULL
        PROVE  Links(queue[q], chain[q])
    <3>1. Settled(q)
      BY <2>4, DistinctNames DEF Settled, IInv, LockInv, Splicing, Locked
    <3> QED
      BY <3>1, Owned, EndsMeanLinks DEF IInv, QueueInv
  <2> QED
    BY <2>1, <2>2, <2>3, <2>4 DEF ListsOwnTheirNodes
<1> QED
  BY <1>1, Inductive, PTL
-----------------------------------------------------------------------------
(* The channel. *)

(* The messages of the nodes of s where f holds them. *)
TextsIn(s, f) == [i \in DOMAIN s |-> f[s[i]]]

Bodies == Msgs \cup {NULL}

LEMMA TextsFacts ==
  ASSUME NEW s \in Seq(Nodes), NEW f \in [Nodes -> Bodies]
  PROVE  /\ Len(s) \in Nat /\ \A i \in 1 .. Len(s) : s[i] \in Nodes
         /\ TextsIn(s, f) \in Seq(Bodies) /\ Len(TextsIn(s, f)) = Len(s)
         /\ \A i \in 1 .. Len(s) : TextsIn(s, f)[i] = f[s[i]]
<1>1. Len(s) \in Nat /\ DOMAIN s = 1 .. Len(s) /\ \A i \in 1 .. Len(s) : s[i] \in Nodes
  BY LenProperties, ElementOfSeq
<1>2. TextsIn(s, f) \in [1 .. Len(s) -> Bodies]
  BY <1>1 DEF TextsIn
<1> QED
  BY <1>1, <1>2 DEF TextsIn

(* One more node behind s is one more message. *)
LEMMA TextsAppend ==
  ASSUME NEW s \in Seq(Nodes), NEW n \in Nodes, NEW f \in [Nodes -> Bodies], NEW g \in [Nodes -> Bodies],
         \A i \in 1 .. Len(s) : g[s[i]] = f[s[i]]
  PROVE  TextsIn(Append(s, n), g) = Append(TextsIn(s, f), g[n])
<1> DEFINE t == Append(s, n)
           a == TextsIn(s, f)
           b == Append(a, g[n])
           c == TextsIn(t, g)
<1>1. /\ t \in Seq(Nodes) /\ Len(t) = Len(s) + 1 /\ Len(s) \in Nat
      /\ \A i \in 1 .. Len(s) : t[i] = s[i]
      /\ t[Len(s) + 1] = n
  BY AppendProperties, LenProperties
<1>2. /\ a \in Seq(Bodies) /\ Len(a) = Len(s)
      /\ \A i \in 1 .. Len(s) : a[i] = f[s[i]]
  <2>1. s \in Seq(Nodes) /\ f \in [Nodes -> Bodies]
    OBVIOUS
  <2> QED
    BY <2>1, TextsFacts
<1>3. /\ b \in Seq(Bodies) /\ Len(b) = Len(s) + 1 /\ b[Len(s) + 1] = g[n]
      /\ \A i \in 1 .. Len(s) : b[i] = a[i]
  <2> HIDE DEF a
  <2>1. g[n] \in Bodies
    OBVIOUS
  <2> QED
    BY <1>2, <2>1, AppendProperties
<1> HIDE DEF a, b, t
<1>4. /\ c \in Seq(Bodies) /\ Len(c) = Len(s) + 1
      /\ \A i \in 1 .. Len(t) : c[i] = g[t[i]]
  <2>1. t \in Seq(Nodes) /\ g \in [Nodes -> Bodies]
    BY <1>1
  <2>2. /\ TextsIn(t, g) \in Seq(Bodies) /\ Len(TextsIn(t, g)) = Len(t)
        /\ \A i \in 1 .. Len(t) : TextsIn(t, g)[i] = g[t[i]]
    BY <2>1, TextsFacts
  <2> QED
    BY <1>1, <2>2
<1> HIDE DEF c
<1>5. ASSUME NEW i \in 1 .. Len(c)
      PROVE  c[i] = b[i]
  <2>1. i \in 1 .. Len(s) \/ i = Len(s) + 1
    BY <1>1, <1>4
  <2>2. c[i] = g[t[i]]
    BY <1>1, <1>4
  <2>3. CASE i \in 1 .. Len(s)
    BY <1>1, <1>2, <1>3, <2>2, <2>3
  <2>4. CASE i = Len(s) + 1
    BY <1>1, <1>3, <2>2, <2>4
  <2> QED
    BY <2>1, <2>3, <2>4
<1>6. c = b
  BY <1>3, <1>4, <1>5, SeqEqual
<1> QED
  BY <1>6 DEF a, b, c, t

(* The messages of two lists, one behind the other. *)
LEMMA TextsConcat ==
  ASSUME NEW s \in Seq(Nodes), NEW t \in Seq(Nodes), NEW f \in [Nodes -> Bodies]
  PROVE  TextsIn(s \o t, f) = TextsIn(s, f) \o TextsIn(t, f)
<1> DEFINE a == TextsIn(s, f)
           b == TextsIn(t, f)
           st == s \o t
           ab == a \o b
           c == TextsIn(st, f)
<1>1. Len(s) \in Nat /\ Len(t) \in Nat
  BY LenProperties
<1>2. /\ st \in Seq(Nodes) /\ Len(st) = Len(s) + Len(t)
      /\ \A i \in 1 .. Len(s) + Len(t) : st[i] = IF i <= Len(s) THEN s[i] ELSE t[i - Len(s)]
  BY ConcatProperties
<1>3. /\ a \in Seq(Bodies) /\ Len(a) = Len(s) /\ \A i \in 1 .. Len(s) : a[i] = f[s[i]]
      /\ b \in Seq(Bodies) /\ Len(b) = Len(t) /\ \A i \in 1 .. Len(t) : b[i] = f[t[i]]
  <2>1. s \in Seq(Nodes) /\ t \in Seq(Nodes) /\ f \in [Nodes -> Bodies]
    OBVIOUS
  <2> QED
    BY <2>1, TextsFacts
<1> HIDE DEF a, b, st
<1>4. /\ ab \in Seq(Bodies) /\ Len(ab) = Len(a) + Len(b)
      /\ \A i \in 1 .. Len(a) + Len(b) : ab[i] = IF i <= Len(a) THEN a[i] ELSE b[i - Len(a)]
  <2>1. a \in Seq(Bodies) /\ b \in Seq(Bodies)
    BY <1>3
  <2> QED
    BY <2>1, ConcatProperties
<1>5. /\ c \in Seq(Bodies) /\ Len(c) = Len(st)
      /\ \A i \in 1 .. Len(st) : c[i] = f[st[i]]
  <2>1. st \in Seq(Nodes) /\ f \in [Nodes -> Bodies]
    BY <1>2
  <2> QED
    BY <2>1, TextsFacts
<1> HIDE DEF ab, c
<1>6. ASSUME NEW i \in 1 .. Len(c)
      PROVE  c[i] = ab[i]
  <2>1. i \in 1 .. Len(s) + Len(t) /\ c[i] = f[st[i]]
    BY <1>2, <1>5
  <2>2. CASE i <= Len(s)
    <3>1. i \in 1 .. Len(s)
      BY <1>1, <2>1, <2>2
    <3>2. st[i] = s[i] /\ ab[i] = a[i]
      BY <1>2, <1>3, <1>4, <2>1, <2>2
    <3> QED
      BY <1>3, <2>1, <3>1, <3>2
  <2>3. CASE ~(i <= Len(s))
    <3>1. i - Len(s) \in 1 .. Len(t)
      BY <1>1, <2>1, <2>3
    <3>2. st[i] = t[i - Len(s)] /\ ab[i] = b[i - Len(s)]
      BY <1>2, <1>3, <1>4, <2>1, <2>3
    <3> QED
      BY <1>3, <2>1, <3>1, <3>2
  <2> QED
    BY <2>2, <2>3
<1>7. c = ab
  BY <1>2, <1>3, <1>4, <1>5, <1>6, SeqEqual
<1> QED
  BY <1>7 DEF a, b, st, ab, c

(* What o owns. *)
Owns(o) == TextsIn(chain[o], msg)

(* The pointers of a list lead along the nodes it owns, and their messages   *)
(* are what the channel holds there.                                         *)
LEMMA ListReads ==
  ASSUME IInv, NEW o \in Owners
  PROVE  Texts(First(o)) = Owns(o)
<1>1. chain[o] \in Seq(Nodes) /\ DOMAIN next = Nodes /\ Size(o) \in Nat
  BY Accessors DEF IInv, TypeOK
<1>2. \A i, j \in 1 .. Len(chain[o]) : chain[o][i] = chain[o][j] => i = j
  BY DEF IInv, DisjointInv, Size, At
<1>3. First(o) = IF chain[o] = <<>> THEN NULL ELSE chain[o][1]
  <2>1. chain[o] = <<>> <=> Size(o) = 0
    BY <1>1, EmptySeq DEF Size
  <2> QED
    BY <2>1 DEF First, At
<1>4. \A i \in 1 .. Len(chain[o]) :
        next[chain[o][i]] = IF i = Len(chain[o]) THEN NULL ELSE chain[o][i + 1]
  BY DEF IInv, LinkInv, Size, At
<1>5. Linked(chain[o], First(o), next, NULL)
  BY <1>1, <1>2, <1>3, <1>4 DEF Linked
<1>6. Walk(First(o), next) = chain[o]
  BY <1>1, <1>5, WalkAlong, MemoryIsFinite, DistinctNames
<1> QED
  BY <1>6 DEF Texts, Owns, TextsIn

(* The variables of the channel. *)
Chan == [q \in Queues |-> ChanOf(q)]
Held == [t \in Threads |-> HeldOf(t)]

(* A thread that frees its list holds nothing more; everything else is where *)
(* it is owned.                                                              *)
HeldTexts(t) == IF pc[t] = "free" THEN <<>> ELSE Owns(t)

Meaning ==
  /\ \A q \in Queues : Chan[q] = Owns(q)
  /\ \A t \in Threads : Held[t] = HeldTexts(t)

LEMMA ChannelReads ==
  ASSUME IInv
  PROVE  Meaning
<1>1. ASSUME NEW o \in Owners, Size(o) = 0
      PROVE  Owns(o) = <<>> /\ First(o) = NULL
  <2>1. chain[o] \in Seq(Nodes)
    BY DEF IInv, TypeOK
  <2>2. chain[o] = <<>>
    BY <1>1, <2>1, EmptySeq DEF Size
  <2> QED
    BY <1>1, <2>2 DEF Owns, TextsIn, First
<1>2. ASSUME NEW q \in Queues
      PROVE  ChanOf(q) = Owns(q)
  <2>1. q \in Owners
    BY DEF Owners
  <2>2. CASE \E t \in Threads : pc[t] = "t_reset" /\ arg[t] = q
    BY <1>1, <2>1, <2>2 DEF ChanOf, IInv, SpliceInv
  <2>3. CASE ~ \E t \in Threads : pc[t] = "t_reset" /\ arg[t] = q
    <3>1. queue[q].head = First(q)
      <4>1. CASE Settled(q)
        BY <4>1 DEF IInv, QueueInv, Ends
      <4>2. CASE ~Settled(q)
        BY <2>3, <4>2 DEF IInv, SpliceInv, Settled
      <4> QED
        BY <4>1, <4>2
    <3> QED
      BY <2>1, <2>3, <3>1, ListReads DEF ChanOf
  <2> QED
    BY <2>2, <2>3
<1>3. ASSUME NEW t \in Threads
      PROVE  HeldOf(t) = HeldTexts(t)
  <2>1. t \in Owners
    BY DEF Owners
  <2>2. CASE pc[t] = "free"
    BY <2>2 DEF HeldOf, HeldTexts
  <2>3. CASE pc[t] \in Splicing \cup {"s_unlock"}
    BY <1>1, <2>1, <2>3 DEF HeldOf, HeldTexts, IInv, ListInv, Splicing
  <2>4. CASE pc[t] \notin Splicing \cup {"s_unlock", "free"}
    <3>1. list[t].head = First(t)
      BY <2>4 DEF IInv, ListInv, Ends
    <3> QED
      BY <2>1, <2>4, <3>1, ListReads DEF HeldOf, HeldTexts, Splicing
  <2> QED
    BY <2>2, <2>3, <2>4
<1> QED
  BY <1>2, <1>3 DEF Meaning, Chan, Held

(* One list of the channel becomes v and the others stay. *)
Becomes(g, f, d, v) == g[d] = v /\ \A x \in DOMAIN f : x # d => g[x] = f[x]

LEMMA BecomesIs ==
  ASSUME NEW D, NEW f, NEW g, f = [x \in D |-> f[x]], g = [x \in D |-> g[x]],
         NEW d \in D, NEW v, Becomes(g, f, d, v)
  PROVE  g = [f EXCEPT ![d] = v]
  BY DEF Becomes

(* A step that moves no node and starts no freeing shows nothing in the      *)
(* channel.                                                                  *)
LEMMA NothingMoves ==
  ASSUME Meaning, Meaning', UNCHANGED <<chain, msg>>,
         \A t \in Threads : (pc[t] = "free") = (pc[t] = "free")'
  PROVE  UNCHANGED <<Chan, Held>>
<1>1. \A o \in Owners : Owns(o)' = Owns(o)
  BY DEF Owns
<1>2. Chan' = Chan
  <2>1. \A q \in Queues : Chan[q]' = Chan[q]
    BY <1>1 DEF Meaning, Owners
  <2>2. Chan = [q \in Queues |-> Chan[q]] /\ Chan' = [q \in Queues |-> Chan'[q]]
    BY DEF Chan
  <2> QED
    BY <2>1, <2>2
<1>3. Held' = Held
  <2>1. \A t \in Threads : Held[t]' = Held[t]
    BY <1>1 DEF Meaning, Owners, HeldTexts
  <2>2. Held = [t \in Threads |-> Held[t]] /\ Held' = [t \in Threads |-> Held'[t]]
    BY DEF Held
  <2> QED
    BY <2>1, <2>2
<1> QED
  BY <1>2, <1>3

(* What Chan and Held are functions of. *)
LEMMA ChannelDomains ==
  /\ Chan = [q \in Queues |-> Chan[q]] /\ Chan' = [q \in Queues |-> Chan'[q]]
  /\ Held = [t \in Threads |-> Held[t]] /\ Held' = [t \in Threads |-> Held'[t]]
  BY DEF Chan, Held

LEMMA ListsBecome ==
  /\ \A t \in Threads : \A v : Becomes(Held', Held, t, v) => Held' = [Held EXCEPT ![t] = v]
  /\ \A q \in Queues : \A v : Becomes(Chan', Chan, q, v) => Chan' = [Chan EXCEPT ![q] = v]
  BY ChannelDomains, BecomesIs

(* A push puts the message behind those in the thread's hands. *)
LEMMA PushBackShows ==
  ASSUME IInv, IInv', Meaning, Meaning',
         NEW t \in Threads, NEW m \in Msgs, PushBack(t, m)
  PROVE  Channel!PushBack(t, m)
<1>1. PICK n \in Nodes : Link(t, m, n)
  BY DEF PushBack
<1>2. /\ chain \in [Owners -> Seq(Nodes)] /\ t \in Owners
      /\ msg \in [Nodes -> Bodies] /\ msg' \in [Nodes -> Bodies]
  BY DEF IInv, TypeOK, Bodies, Owners
<1>3. /\ chain'[t] = Append(chain[t], n)
      /\ \A o \in Owners : o # t => chain'[o] = chain[o]
      /\ msg'[n] = m /\ \A x \in Nodes : x # n => msg'[x] = msg[x]
  BY <1>1, <1>2 DEF Link
<1>4. \A o \in Owners : \A i \in 1 .. Len(chain[o]) : chain[o][i] \in Nodes /\ chain[o][i] # n
  <2>1. \A o \in Owners : \A i \in 1 .. Size(o) : At(o, i) # n
    BY <1>1, PushEffect DEF Pushed
  <2> QED
    BY <2>1, Accessors DEF IInv, Size, At
<1>5. Owns(t)' = Append(Owns(t), m)
  <2>1. chain[t] \in Seq(Nodes)
    BY <1>2
  <2>2. \A i \in 1 .. Len(chain[t]) : msg'[chain[t][i]] = msg[chain[t][i]]
    BY <1>2, <1>3, <1>4
  <2>3. TextsIn(Append(chain[t], n), msg') = Append(TextsIn(chain[t], msg), msg'[n])
    BY <1>2, <2>1, <2>2, TextsAppend
  <2> QED
    BY <1>3, <2>3 DEF Owns
<1>6. ASSUME NEW o \in Owners, o # t
      PROVE  Owns(o)' = Owns(o)
  <2>1. \A i \in DOMAIN chain[o] : i \in 1 .. Len(chain[o])
    BY <1>2, LenProperties
  <2>2. \A i \in DOMAIN chain[o] : msg'[chain[o][i]] = msg[chain[o][i]]
    BY <1>3, <1>4, <2>1
  <2> QED
    BY <1>3, <1>6, <2>2 DEF Owns, TextsIn
<1>7. pc' = pc /\ pc[t] = "own"
  BY <1>2 DEF PushBack, Goto, IInv, TypeOK
<1>8. Held' = [Held EXCEPT ![t] = Append(@, m)]
  <2>1. Held'[t] = Append(Held[t], m)
    BY <1>5, <1>7 DEF Meaning, HeldTexts
  <2>2. \A u \in Threads : u # t => Held'[u] = Held[u]
    BY <1>6, <1>7 DEF Meaning, HeldTexts, Owners
  <2>3. Becomes(Held', Held, t, Append(Held[t], m))
    BY <2>1, <2>2 DEF Becomes, Held
  <2> QED
    BY <2>3, ListsBecome
<1>9. UNCHANGED Chan
  <2>1. \A q \in Queues : Chan'[q] = Chan[q]
    BY <1>6, Accessors DEF Meaning, Owners, IInv
  <2> QED
    BY <2>1, ChannelDomains
<1> QED
  BY <1>8, <1>9 DEF Channel!PushBack, Chan, Held

(* A list that is handed over is gone from where it was and stands behind    *)
(* what is where it goes.                                                    *)
LEMMA MoveShows ==
  ASSUME IInv, NEW from \in Owners, NEW to \in Owners, from # to,
         Transfer(from, to), UNCHANGED msg
  PROVE  /\ Owns(to)' = Owns(to) \o Owns(from)
         /\ Owns(from)' = <<>>
         /\ \A o \in Owners : o # from /\ o # to => Owns(o)' = Owns(o)
<1>1. chain \in [Owners -> Seq(Nodes)] /\ msg \in [Nodes -> Bodies]
  BY DEF IInv, TypeOK, Bodies
<1>2. /\ chain'[to] = chain[to] \o chain[from] /\ chain'[from] = <<>>
      /\ \A o \in Owners : o # from /\ o # to => chain'[o] = chain[o]
  BY <1>1 DEF Transfer
<1>3. TextsIn(chain[to] \o chain[from], msg) = TextsIn(chain[to], msg) \o TextsIn(chain[from], msg)
  <2>1. chain[to] \in Seq(Nodes) /\ chain[from] \in Seq(Nodes)
    BY <1>1
  <2> QED
    BY <1>1, <2>1, TextsConcat
<1>4. TextsIn(<<>>, msg) = <<>>
  BY DEF TextsIn
<1> QED
  BY <1>2, <1>3, <1>4 DEF Owns

(* The step of msglist_submit that links the list submits it as a whole. *)
LEMMA SubmitShows ==
  ASSUME IInv, IInv', Meaning, Meaning',
         NEW t \in Threads, SubmitLinkNew(t) \/ SubmitLinkMore(t)
  PROVE  Channel!Submit(t, arg[t])
<1> SUFFICES ASSUME NEW q \in Queues, arg[t] = q
             PROVE  Channel!Submit(t, q)
  BY CallEffect DEF InCall
<1>1. /\ t \in Owners /\ q \in Owners /\ q # t
      /\ Transfer(t, q) /\ UNCHANGED msg
  BY CallEffect DEF SubmitLinkNew, SubmitLinkMore, InCall
<1>2. /\ Owns(q)' = Owns(q) \o Owns(t) /\ Owns(t)' = <<>>
      /\ \A o \in Owners : o # t /\ o # q => Owns(o)' = Owns(o)
  BY <1>1, MoveShows
<1>3. pc[t] = "s_link" /\ pc'[t] # "free" /\ \A u \in Threads : u # t => pc'[u] = pc[u]
  BY DEF SubmitLinkNew, SubmitLinkMore, Goto, IInv, TypeOK
<1>4. Owns(t) # <<>>
  <2>1. Size(t) > 0 /\ chain[t] \in Seq(Nodes) /\ msg \in [Nodes -> Bodies]
    BY <1>1, <1>3 DEF IInv, ListInv, TypeOK, Bodies
  <2>2. Len(Owns(t)) = Size(t) /\ Owns(t) \in Seq(Bodies)
    BY <2>1, TextsFacts DEF Owns, Size
  <2> QED
    BY <2>1, <2>2, EmptySeq
<1>5. /\ Held[t] = Owns(t) /\ Chan[q] = Owns(q)
      /\ Held'[t] = <<>> /\ Chan'[q] = Chan[q] \o Held[t]
  BY <1>1, <1>2, <1>3 DEF Meaning, HeldTexts
<1>6. /\ \A u \in Threads : u # t => Held'[u] = Held[u]
      /\ \A p \in Queues : p # q => Chan'[p] = Chan[p]
  BY <1>1, <1>2, <1>3, Accessors DEF Meaning, HeldTexts, Owners, IInv
<1>7. Becomes(Held', Held, t, <<>>)
  BY <1>5, <1>6 DEF Becomes, Held
<1>8. Becomes(Chan', Chan, q, Chan[q] \o Held[t])
  BY <1>5, <1>6 DEF Becomes, Chan
<1>9. Held' = [Held EXCEPT ![t] = <<>>]
  BY <1>7, ListsBecome
<1>10. Chan' = [Chan EXCEPT ![q] = Chan[q] \o Held[t]]
  BY <1>1, <1>8, ListsBecome
<1> QED
  BY <1>4, <1>5, <1>9, <1>10 DEF Channel!Submit, Chan, Held

(* The step of msg_queue_takeall that copies the head takes everything. *)
LEMMA TakeShows ==
  ASSUME IInv, IInv', Meaning, Meaning', NEW t \in Threads, TakeCopy(t)
  PROVE  Channel!TakeAll(t, arg[t])
<1> SUFFICES ASSUME NEW q \in Queues, arg[t] = q
             PROVE  Channel!TakeAll(t, q)
  BY CallEffect DEF InCall
<1>1. /\ t \in Owners /\ q \in Owners /\ q # t
      /\ Transfer(q, t) /\ UNCHANGED msg
  BY CallEffect DEF TakeCopy, InCall
<1>2. /\ Owns(t)' = Owns(t) \o Owns(q) /\ Owns(q)' = <<>>
      /\ \A o \in Owners : o # t /\ o # q => Owns(o)' = Owns(o)
  BY <1>1, MoveShows
<1>3. pc[t] = "t_copy" /\ pc'[t] # "free" /\ \A u \in Threads : u # t => pc'[u] = pc[u]
  BY DEF TakeCopy, Goto, IInv, TypeOK
<1>4. /\ Owns(q) \in Seq(Bodies) /\ Owns(t) = <<>>
  <2>1. /\ Size(t) = 0 /\ chain[t] \in Seq(Nodes) /\ chain[q] \in Seq(Nodes)
        /\ msg \in [Nodes -> Bodies]
    BY <1>1, <1>3 DEF IInv, ListInv, TypeOK, Bodies
  <2>2. Len(Owns(t)) = Size(t) /\ Owns(t) \in Seq(Bodies) /\ Owns(q) \in Seq(Bodies)
    BY <2>1, TextsFacts DEF Owns, Size
  <2> QED
    BY <2>1, <2>2, EmptySeq
<1>5. Owns(t)' = Owns(q)
  BY <1>2, <1>4, ConcatEmptySeq
<1>6. /\ Held[t] = <<>> /\ Chan[q] = Owns(q)
      /\ Held'[t] = Chan[q] /\ Chan'[q] = <<>>
  BY <1>1, <1>2, <1>3, <1>4, <1>5 DEF Meaning, HeldTexts
<1>7. /\ \A u \in Threads : u # t => Held'[u] = Held[u]
      /\ \A p \in Queues : p # q => Chan'[p] = Chan[p]
  BY <1>1, <1>2, <1>3, Accessors DEF Meaning, HeldTexts, Owners, IInv
<1>8. Becomes(Held', Held, t, Chan[q])
  BY <1>6, <1>7 DEF Becomes, Held
<1>9. Becomes(Chan', Chan, q, <<>>)
  BY <1>6, <1>7 DEF Becomes, Chan
<1>10. Held' = [Held EXCEPT ![t] = Chan[q]]
  BY <1>8, ListsBecome
<1>11. Chan' = [Chan EXCEPT ![q] = <<>>]
  BY <1>1, <1>9, ListsBecome
<1> QED
  BY <1>6, <1>10, <1>11 DEF Channel!TakeAll, Chan, Held

(* What a thread frees it has given up when it begins. *)
LEMMA FreeShows ==
  ASSUME IInv, IInv', Meaning, Meaning', NEW t \in Threads, FreeBegin(t)
  PROVE  Channel!Free(t)
<1>1. /\ \A o \in Owners : Owns(o)' = Owns(o)
      /\ pc'[t] = "free" /\ \A u \in Threads : u # t => pc'[u] = pc[u]
  BY DEF FreeBegin, Goto, IInv, TypeOK, Owns
<1>2. /\ Held'[t] = <<>> /\ \A u \in Threads : u # t => Held'[u] = Held[u]
      /\ \A q \in Queues : Chan'[q] = Chan[q]
  BY <1>1 DEF Meaning, HeldTexts, Owners
<1>3. Becomes(Held', Held, t, <<>>)
  BY <1>2 DEF Becomes, Held
<1>4. Held' = [Held EXCEPT ![t] = <<>>]
  BY <1>3, ListsBecome
<1>5. UNCHANGED Chan
  BY <1>2, ChannelDomains
<1> QED
  BY <1>4, <1>5 DEF Channel!Free, Chan, Held

(* The nodes that are freed one by one show in the channel no more. *)
LEMMA FreeNodeShows ==
  ASSUME IInv, IInv', Meaning, Meaning', NEW t \in Threads, FreeNode(t)
  PROVE  UNCHANGED <<Chan, Held>>
<1>1. Freed(t) /\ t \in Owners /\ chain \in [Owners -> Seq(Nodes)] /\ msg \in [Nodes -> Bodies]
  BY FreeEffect DEF IInv, TypeOK, Bodies, Owners
<1>2. /\ pc' = pc /\ pc[t] = "free" /\ cur[t] = At(t, 1) /\ Size(t) > 0
      /\ \A x \in Nodes : x # cur[t] => msg'[x] = msg[x]
      /\ \A o \in Owners : o # t => chain'[o] = chain[o]
  BY <1>1 DEF FreeNode, Goto, Freed, IInv, TypeOK
<1>3. ASSUME NEW o \in Owners, o # t
      PROVE  Owns(o)' = Owns(o)
  <2>1. ASSUME NEW i \in DOMAIN chain[o]
        PROVE  msg'[chain[o][i]] = msg[chain[o][i]]
    <3>1. i \in 1 .. Size(o) /\ At(o, i) \in Nodes /\ 1 \in 1 .. Size(t)
      BY <1>1, <1>2, LenProperties, Accessors DEF Size, IInv
    <3>2. At(o, i) # At(t, 1)
      BY <1>1, <1>3, <3>1 DEF IInv, DisjointInv
    <3> QED
      BY <1>2, <3>1, <3>2 DEF At
  <2> QED
    BY <1>2, <1>3, <2>1 DEF Owns, TextsIn
<1>4. UNCHANGED Chan
  <2>1. \A q \in Queues : Chan'[q] = Chan[q]
    BY <1>3, Accessors DEF Meaning, Owners, IInv
  <2> QED
    BY <2>1, ChannelDomains
<1>5. UNCHANGED Held
  <2>1. \A u \in Threads : Held'[u] = Held[u]
    BY <1>2, <1>3 DEF Meaning, Owners, HeldTexts
  <2> QED
    BY <2>1, ChannelDomains
<1> QED
  BY <1>4, <1>5

(* Every other step moves no node. *)
LEMMA OtherShows ==
  ASSUME IInv, IInv', Meaning, Meaning', [Next]_vars,
         \A t \in Threads : /\ \A m \in Msgs : ~PushBack(t, m)
                            /\ ~SubmitLinkNew(t) /\ ~SubmitLinkMore(t)
                            /\ ~TakeCopy(t) /\ ~FreeBegin(t) /\ ~FreeNode(t)
  PROVE  UNCHANGED <<Chan, Held>>
<1>1. ASSUME NEW t \in Threads, NEW q \in Queues, SubmitCall(t, q) \/ TakeCall(t, q)
      PROVE  UNCHANGED <<Chan, Held>>
  <2>1. UNCHANGED <<chain, msg>> /\ \A u \in Threads : (pc[u] = "free") = (pc[u] = "free")'
    BY <1>1 DEF SubmitCall, TakeCall, Call, Goto, IInv, TypeOK
  <2> QED
    BY <2>1, NothingMoves
<1>2. ASSUME NEW t \in Threads,
             \/ SubmitLock(t) \/ SubmitTailNew(t) \/ SubmitTailMore(t) \/ SubmitUnlock(t)
             \/ TakeLock(t) \/ TakeReset(t) \/ TakeUnlock(t)
      PROVE  UNCHANGED <<Chan, Held>>
  <2>1. UNCHANGED <<chain, msg>> /\ \A u \in Threads : (pc[u] = "free") = (pc[u] = "free")'
    BY <1>2 DEF SubmitLock, SubmitTailNew, SubmitTailMore, SubmitUnlock, TakeLock,
                TakeReset, TakeUnlock, Acquire, Release, Goto, IInv, TypeOK
  <2> QED
    BY <2>1, NothingMoves
<1>3. ASSUME NEW t \in Threads, FreeEnd(t)
      PROVE  UNCHANGED <<Chan, Held>>
  <2>1. /\ \A o \in Owners : Owns(o)' = Owns(o)
        /\ pc[t] = "free" /\ pc'[t] = "own" /\ \A u \in Threads : u # t => pc'[u] = pc[u]
    BY <1>3 DEF FreeEnd, Goto, IInv, TypeOK, Owns
  <2>2. Owns(t) = <<>>
    <3>1. Size(t) = 0 /\ chain[t] \in Seq(Nodes)
      BY <1>3, <2>1, Owned DEF FreeEnd, IInv, FreeInv, TypeOK
    <3>2. chain[t] = <<>>
      BY <3>1, EmptySeq DEF Size
    <3> QED
      BY <3>2 DEF Owns, TextsIn
  <2>3. /\ \A u \in Threads : Held'[u] = Held[u]
        /\ \A q \in Queues : Chan'[q] = Chan[q]
    BY <2>1, <2>2 DEF Meaning, HeldTexts, Owners
  <2> QED
    BY <2>3, ChannelDomains
<1>4. CASE UNCHANGED vars \/ \E t \in Threads : Fatal(t)
  <2>1. UNCHANGED <<chain, msg>> /\ \A u \in Threads : (pc[u] = "free") = (pc[u] = "free")'
    BY <1>4 DEF vars, Fatal
  <2> QED
    BY <2>1, NothingMoves
<1> QED
  BY <1>1, <1>2, <1>3, <1>4 DEF Next, SubmitStep, TakeStep, FreeStep, Exited

(* The pointers and the mutexes of msgqueue.c implement the channel that      *)
(* msgqueue.h describes, for any threads and queues: each list that is        *)
(* submitted arrives whole, behind what was there, and is taken once.         *)
THEOREM ImplementsFifo == Spec => ImplementsChannel
<1>1. IInv => Meaning
  BY ChannelReads
<1>2. IInv' => Meaning'
  BY <1>1, PTL
<1>3. Init => Channel!Init
  <2> SUFFICES ASSUME Init
               PROVE  Channel!Init
    OBVIOUS
  <2>1. Walk(NULL, next) = <<>>
    <3>1. DOMAIN next = Nodes
      BY DEF Init
    <3>2. Linked(<<>>, NULL, next, NULL)
      BY <3>1, EmptySeq DEF Linked
    <3> QED
      BY <3>1, <3>2, WalkAlong, MemoryIsFinite, DistinctNames
  <2>2. Texts(NULL) = <<>>
    BY <2>1 DEF Texts
  <2>3. /\ \A q \in Queues : ChanOf(q) = <<>>
        /\ \A t \in Threads : HeldOf(t) = <<>>
    BY <2>2 DEF Init, ChanOf, HeldOf, Empty
  <2> QED
    BY <2>3 DEF Channel!Init, Chan, Held
<1>4. IInv /\ IInv' /\ [Next]_vars => [Channel!Next]_<<Chan, Held>>
  <2> SUFFICES ASSUME IInv, IInv', [Next]_vars
               PROVE  Channel!Next \/ UNCHANGED <<Chan, Held>>
    OBVIOUS
  <2>1. Meaning /\ Meaning'
    BY <1>1, <1>2
  <2>2. ASSUME NEW t \in Threads, NEW m \in Msgs, PushBack(t, m)
        PROVE  Channel!Next
    BY <2>1, <2>2, PushBackShows DEF Channel!Next
  <2>3. ASSUME NEW t \in Threads, SubmitLinkNew(t) \/ SubmitLinkMore(t)
        PROVE  Channel!Next
    BY <2>1, <2>3, SubmitShows, CallEffect DEF Channel!Next, InCall
  <2>4. ASSUME NEW t \in Threads, TakeCopy(t)
        PROVE  Channel!Next
    BY <2>1, <2>4, TakeShows, CallEffect DEF Channel!Next, InCall
  <2>5. ASSUME NEW t \in Threads, FreeBegin(t)
        PROVE  Channel!Next
    BY <2>1, <2>5, FreeShows DEF Channel!Next
  <2>6. ASSUME NEW t \in Threads, FreeNode(t)
        PROVE  UNCHANGED <<Chan, Held>>
    BY <2>1, <2>6, FreeNodeShows
  <2> QED
    BY <2>1, <2>2, <2>3, <2>4, <2>5, <2>6, OtherShows
<1> QED
  BY <1>3, <1>4, Inductive, PTL DEF Spec, ImplementsChannel, Channel!Spec, Channel!chanVars, Chan, Held
=============================================================================
