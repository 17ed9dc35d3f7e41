------------------------------ MODULE Receiver ------------------------------
(***************************************************************************)
(* thread_main_recv of src/main.c: bytes arrive in chunks of any size, the *)
(* thread cuts the complete lines off the front of its buffer, submits     *)
(* them to QUEUE_IN as one list and keeps the rest for the next recv().    *)
(***************************************************************************)
EXTENDS Integers, Sequences, FiniteSetsExt

CONSTANTS
  RecvBufLen,  (* RECV_BUF_LEN                                             *)
  MaxStream    (* bounds the model: how many bytes the server ever sends   *)

ASSUME BufferHoldsADelimiter ==
  RecvBufLen \in Nat /\ RecvBufLen > 2 /\ MaxStream \in Nat

(* "x" stands for every byte that nothing looks at. *)
Bytes == {"CR", "LF", "NUL", "x"}

VARIABLES
  received,   (* all that recv() has returned so far                       *)
  buff,       (* recv_buff[0 .. i_buff_offset - 1]                         *)
  submitted,  (* the lines handed to QUEUE_IN, oldest first                *)
  thread,     (* "running", or how the thread came to its end              *)
  closed      (* the server has closed the connection                      *)

vars == <<received, buff, submitted, thread, closed>>

Init ==
  /\ received = <<>>
  /\ buff = <<>>
  /\ submitted = <<>>
  /\ thread = "running"
  /\ closed = FALSE

-----------------------------------------------------------------------------
(* The work on the buffer; its indices are those of the code plus one. *)

DelimAt(b, i) == i < Len(b) /\ b[i] = "CR" /\ b[i + 1] = "LF"
Delims(b) == {i \in DOMAIN b : DelimAt(b, i)}

(* Mutant: the search looks for the LF alone. *)
LastDelimLF(b) == Max({1} \cup {i \in DOMAIN b : i > 1 /\ b[i] = "LF"})

(* The search backwards from the end: the LF of the last delimiter, or the *)
(* first byte of the buffer when there is none.                            *)
LastDelim(b) == Max({1} \cup {i + 1 : i \in Delims(b)})

(* What strlen() and strcpy_s() see: the bytes up to the first NUL. *)
CString(b) ==
  LET nuls == {i \in DOMAIN b : b[i] = "NUL"}
  IN  IF nuls = {} THEN b ELSE SubSeq(b, 1, Min(nuls) - 1)

(* The parse loop: msg_start is where the next message begins, and the loop *)
(* steps over the LF of the delimiter that ends one.                        *)
Parse(b, last) ==
  LET parsed[i \in 0 .. last - 1] ==
        IF i = 0 THEN [start |-> 1, msgs |-> <<>>]
        ELSE LET was == parsed[i - 1]
             IN  IF i < was.start \/ ~DelimAt(b, i) THEN was
                 ELSE [start |-> i + 2,
                       msgs  |-> Append(was.msgs, CString(SubSeq(b, was.start, i - 1)))]
  IN  parsed[last - 1].msgs

-----------------------------------------------------------------------------
Room == RecvBufLen - Len(buff)

(* One turn of the loop, for what recv() returned. *)
OutOfBuffer(chunk) ==
  /\ Len(buff \o chunk) >= RecvBufLen
  /\ thread' = "full"
  /\ UNCHANGED <<buff, submitted>>

(* Mutant: a buffer that is exactly full is taken for one with room. *)
KeepFull(chunk) ==
  /\ LastDelim(buff \o chunk) = 1
  /\ buff' = buff \o chunk
  /\ UNCHANGED <<submitted, thread>>

Keep(chunk) ==
  /\ Len(buff \o chunk) < RecvBufLen
  /\ LastDelim(buff \o chunk) = 1
  /\ buff' = buff \o chunk
  /\ UNCHANGED <<submitted, thread>>

Cut(chunk) ==
  LET b == buff \o chunk
      last == LastDelim(b)
  IN  /\ Len(b) < RecvBufLen
      /\ last > 1
      /\ submitted' = submitted \o Parse(b, last)
      /\ buff' = SubSeq(b, last + 1, Len(b))
      /\ UNCHANGED thread

Recv ==
  /\ thread = "running"
  /\ \E n \in 1 .. Room : \E chunk \in [1 .. n -> Bytes] :
       /\ Len(received) + n <= MaxStream
       /\ received' = received \o chunk
       /\ OutOfBuffer(chunk) \/ Keep(chunk) \/ Cut(chunk)
  /\ UNCHANGED closed

(* The server closes the connection; what is still on its way is not lost. *)
Close ==
  /\ ~closed
  /\ closed' = TRUE
  /\ UNCHANGED <<received, buff, submitted, thread>>

(* recv() returns 0 at the end of the stream, and also when there is no     *)
(* room to receive anything into.                                           *)
Disconnected ==
  /\ thread = "running"
  /\ closed \/ Room = 0
  /\ thread' = "disconnected"
  /\ UNCHANGED <<received, buff, submitted, closed>>

(* recv() returns SOCKET_ERROR. *)
Failed ==
  /\ thread = "running"
  /\ thread' = "failed"
  /\ UNCHANGED <<received, buff, submitted, closed>>

(* The thread has returned. *)
Returned == thread # "running" /\ UNCHANGED vars

Next == Recv \/ Close \/ Disconnected \/ Failed \/ Returned

Spec == Init /\ [][Next]_vars

-----------------------------------------------------------------------------
(* What the bytes mean, whatever the chunks they came in. *)

(* Where the k-th message begins: behind the delimiter before it. *)
Begin(ends, k) == IF k = 1 THEN 1 ELSE ends[k - 1] + 2

(* The messages msgs were cut out of s, one behind the other: the k-th ends  *)
(* at the delimiter ends[k], and at its first NUL before that.               *)
CutAt(ends, msgs, s) ==
  /\ \A j, k \in DOMAIN msgs : j < k => ends[j] < ends[k]
  /\ \A k \in DOMAIN msgs :
       msgs[k] = CString(SubSeq(s, Begin(ends, k), ends[k] - 1))

(* What follows the last delimiter of s. *)
Incomplete(s) ==
  SubSeq(s, Max({1} \cup {i + 2 : i \in Delims(s)}), Len(s))

TypeOK ==
  /\ received \in Seq(Bytes) /\ Len(received) <= MaxStream
  /\ buff \in Seq(Bytes)
  /\ submitted \in Seq(Seq(Bytes))
  /\ thread \in {"running", "full", "disconnected", "failed"}
  /\ closed \in BOOLEAN
  /\ thread = "running" => Len(buff) < RecvBufLen

(* However the stream is cut into chunks, also between a CR and its LF, the *)
(* thread has submitted every message it has received in full, once, in     *)
(* order and whole, and holds the beginning of the next: as long as it has  *)
(* not given up on its buffer, and up to then when it has.                  *)
MessagesArriveWhole ==
  /\ \E ends \in [DOMAIN submitted -> Delims(received)] :
       /\ CutAt(ends, submitted, received)
       /\ \A d \in Delims(received) :
            \/ \E k \in DOMAIN submitted : ends[k] = d
            \/ thread = "full" /\ \A k \in DOMAIN submitted : ends[k] < d
  /\ thread # "full" => buff = Incomplete(received)

(* The thread reports a disconnection only when the server has closed: it    *)
(* never calls recv() without room, whose 0 looks like the end of the stream. *)
DisconnectionIsReal == thread = "disconnected" => closed

(* QUEUE_IN "holds messages received from the server that have not yet been *)
(* processed" (include/msgqueue.h): each of them gets there.                *)
ReceivedMeansSubmitted == Len(submitted) = Cardinality(Delims(received))
=============================================================================
