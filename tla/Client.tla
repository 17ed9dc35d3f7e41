------------------------------- MODULE Client -------------------------------
(***************************************************************************)
(* The running client, src/main.c: the loop of the main thread, which takes *)
(* the lines of the server and of the user from their queues and handles    *)
(* them, and the receiver thread, which fills QUEUE_IN.  The queues are     *)
(* those of MsgChannel, the handling that of Handlers; what the receiver    *)
(* makes of the bytes is the business of Receiver.  The server is external. *)
(***************************************************************************)
EXTENDS Handlers

CONSTANTS
  MaxStream,  (* bounds the model: how many lines the server ever sends    *)
  MaxTyped    (* bounds the model: how many lines the user ever types      *)

VARIABLES
  chan, held,   (* the queues, and the list each thread holds: MsgChannel  *)
  main,         (* where the main thread is in its loop                    *)
  curr,         (* curr_msgnode: the index into the list main holds        *)
  bye,          (* the user has quit                                       *)
  receiver,     (* the receiver thread is "running" or has "returned"      *)
  open,         (* the server has not closed the connection                *)
  stream,       (* history: the lines the server has sent                  *)
  received,     (* history: how many of them the receiver has got          *)
  typed,        (* history: the lines the user has typed                   *)
  handledIn,    (* history: the lines of the server that were handled      *)
  handledUi     (* history: the lines of the user that were handled        *)

loopVars == <<main, curr, bye>>
serverVars == <<open, stream>>
historyVars == <<received, typed, handledIn, handledUi>>
clientVars ==
  <<handlerVars, chan, held, loopVars, receiver, serverVars, historyVars>>

Channel == INSTANCE MsgChannel WITH
  Threads <- {"main", "recv"}, Queues <- {"QUEUE_IN", "QUEUE_UI"},
  Msgs <- ServerLines \cup UserLines

(* The connection is made and the receiver thread created before the loop. *)
ClientInit ==
  /\ HandlersInit /\ Channel!Init
  /\ main = "take_in" /\ curr = 1 /\ bye = FALSE
  /\ receiver = "running"
  /\ open = TRUE /\ stream = <<>>
  /\ received = 0 /\ typed = <<>> /\ handledIn = <<>> /\ handledUi = <<>>

-----------------------------------------------------------------------------
(* The main thread *)

List == held["main"]
Elsewhere == UNCHANGED <<receiver, serverVars, received>>

TakeIn ==
  /\ main = "take_in"
  /\ Channel!TakeAll("main", "QUEUE_IN")
  /\ main' = "in" /\ curr' = 1
  /\ Elsewhere /\ UNCHANGED <<handlerVars, bye, typed, handledIn, handledUi>>

HandleIn ==
  /\ main = "in" /\ curr <= Len(List)
  /\ HandleIrcMsg(List[curr])
  /\ curr' = curr + 1
  /\ handledIn' = Append(handledIn, List[curr])
  /\ Elsewhere /\ UNCHANGED <<chan, held, main, bye, typed, handledUi>>

(* Mutant: the list is freed without looking for its end. *)
FreeInEarly ==
  /\ main = "in"
  /\ Channel!Free("main")
  /\ main' = "take_ui"
  /\ Elsewhere /\ UNCHANGED <<handlerVars, curr, bye, typed, handledIn, handledUi>>

(* Mutant: the queue of the user is passed over. *)
FreeInToConsole ==
  /\ main = "in" /\ curr > Len(List)
  /\ Channel!Free("main")
  /\ main' = "console"
  /\ Elsewhere /\ UNCHANGED <<handlerVars, curr, bye, typed, handledIn, handledUi>>

FreeIn ==
  /\ main = "in" /\ curr > Len(List)
  /\ Channel!Free("main")
  /\ main' = "take_ui"
  /\ Elsewhere /\ UNCHANGED <<handlerVars, curr, bye, typed, handledIn, handledUi>>

(* Mutant: the walk does not begin at the head of the list. *)
TakeUiAtCurr ==
  /\ main = "take_ui"
  /\ Channel!TakeAll("main", "QUEUE_UI")
  /\ main' = "ui"
  /\ Elsewhere /\ UNCHANGED <<handlerVars, curr, bye, typed, handledIn, handledUi>>

TakeUi ==
  /\ main = "take_ui"
  /\ Channel!TakeAll("main", "QUEUE_UI")
  /\ main' = "ui" /\ curr' = 1
  /\ Elsewhere /\ UNCHANGED <<handlerVars, bye, typed, handledIn, handledUi>>

(* Mutant: the loop goes on after the command to quit. *)
HandleUiOn ==
  /\ main = "ui" /\ curr <= Len(List)
  /\ HandleUserCommand(List[curr])
  /\ bye' = Quits(List[curr])
  /\ curr' = curr + 1
  /\ handledUi' = Append(handledUi, List[curr])
  /\ Elsewhere /\ UNCHANGED <<chan, held, main, typed, handledIn>>

HandleUi ==
  /\ main = "ui" /\ ~bye /\ curr <= Len(List)
  /\ HandleUserCommand(List[curr])
  /\ bye' = Quits(List[curr])
  /\ curr' = curr + 1
  /\ handledUi' = Append(handledUi, List[curr])
  /\ Elsewhere /\ UNCHANGED <<chan, held, main, typed, handledIn>>

(* After the command to quit the rest of the list is freed unread. *)
FreeUi ==
  /\ main = "ui" /\ (bye \/ curr > Len(List))
  /\ Channel!Free("main")
  /\ main' = "console"
  /\ Elsewhere /\ UNCHANGED <<handlerVars, curr, bye, typed, handledIn, handledUi>>

(* process_console_input: the return key ends a line, which goes to QUEUE_UI *)
(* by msgqueue_pushback_copy; of the other keys see the README.              *)
PushLine ==
  /\ main = "console" /\ Len(typed) < MaxTyped
  /\ \E l \in UserLines :
       /\ Channel!PushBack("main", l)
       /\ typed' = Append(typed, l)
  /\ main' = "submit"
  /\ Elsewhere /\ UNCHANGED <<handlerVars, curr, bye, handledIn, handledUi>>

SubmitLine ==
  /\ main = "submit"
  /\ Channel!Submit("main", "QUEUE_UI")
  /\ main' = "console"
  /\ Elsewhere /\ UNCHANGED <<handlerVars, curr, bye, typed, handledIn, handledUi>>

(* Drawing only reads.  The screen is drawn once more when the user has quit. *)
Draw ==
  /\ main = "console"
  /\ main' = IF bye THEN "wait" ELSE "take_in"
  /\ Elsewhere /\ UNCHANGED <<handlerVars, chan, held, curr, bye, typed, handledIn, handledUi>>

(* WaitForSingleObject(h_recv_thread, INFINITE), then the console is restored *)
(* and the socket and the log file are closed.                                *)
ShutDown ==
  /\ main = "wait" /\ receiver = "returned"
  /\ main' = "exited"
  /\ Elsewhere /\ UNCHANGED <<handlerVars, chan, held, curr, bye, typed, handledIn, handledUi>>

MainStep ==
  TakeIn \/ HandleIn \/ FreeIn \/ TakeUi \/ HandleUi \/ FreeUi
    \/ PushLine \/ SubmitLine \/ Draw \/ ShutDown

-----------------------------------------------------------------------------
(* The receiver thread: the next line that is complete goes into its list,  *)
(* and the list goes to QUEUE_IN when the chunk that was received is done.  *)

NotMain == UNCHANGED <<handlerVars, loopVars, typed, handledIn, handledUi>>

RecvLine ==
  /\ receiver = "running" /\ received < Len(stream)
  /\ Channel!PushBack("recv", stream[received + 1])
  /\ received' = received + 1
  /\ NotMain /\ UNCHANGED <<receiver, serverVars>>

SubmitIn ==
  /\ receiver = "running"
  /\ Channel!Submit("recv", "QUEUE_IN")
  /\ NotMain /\ UNCHANGED <<receiver, serverVars, received>>

(* recv() returns 0 behind the last line of a connection that was closed. *)
RecvClosed ==
  /\ receiver = "running" /\ held["recv"] = <<>>
  /\ ~open /\ received = Len(stream)
  /\ receiver' = "returned"
  /\ NotMain /\ UNCHANGED <<chan, held, serverVars, received>>

(* recv() fails or the buffer is full, at any time. *)
RecvFails ==
  /\ receiver = "running" /\ held["recv"] = <<>>
  /\ receiver' = "returned"
  /\ NotMain /\ UNCHANGED <<chan, held, serverVars, received>>

RecvStep == RecvLine \/ SubmitIn \/ RecvClosed

-----------------------------------------------------------------------------
(* The server, external: it sends any line at any time, whatever it was      *)
(* asked for; which channels it speaks of depends on what the user has typed *)
(* raw, on lists of channels behind !join, and on itself.                    *)

ServerSends ==
  /\ open /\ Len(stream) < MaxStream
  /\ \E l \in ServerLines : stream' = Append(stream, l)
  /\ NotMain /\ UNCHANGED <<chan, held, receiver, open, received>>

ServerCloses ==
  /\ open
  /\ open' = FALSE
  /\ NotMain /\ UNCHANGED <<chan, held, receiver, stream, received>>

(* QUIT by !quit, or in whatever way. *)
QuitSent == \E k \in DOMAIN sent : sent[k].cmd = "QUIT" /\ ~sent[k].raw
QuitHeard == \E k \in DOMAIN sent : sent[k].cmd = "QUIT"

-----------------------------------------------------------------------------
(* Nothing moves once an assertion has failed: that ends all threads. *)
Running == ~aborted /\ main # "exited"

ClientNext ==
  /\ Running
  /\ MainStep \/ RecvStep \/ RecvFails \/ ServerSends \/ ServerCloses

ClientEnded == ~Running /\ UNCHANGED clientVars

ClientSpec == ClientInit /\ [][ClientNext \/ ClientEnded]_clientVars

(* Each thread runs when it can, and the server answers QUIT by closing the *)
(* connection.  That the user types, that the server sends or that recv()   *)
(* fails is not promised.                                                   *)
ClientFair ==
  /\ ClientSpec
  /\ WF_clientVars(Running /\ MainStep)
  /\ WF_clientVars(Running /\ RecvStep)
  /\ WF_clientVars(Running /\ QuitHeard /\ ServerCloses)

-----------------------------------------------------------------------------
ClientTypeOK ==
  /\ HandlersTypeOK
  /\ chan["QUEUE_IN"] \in Seq(ServerLines) /\ chan["QUEUE_UI"] \in Seq(UserLines)
  /\ held["recv"] \in Seq(ServerLines)
  /\ List \in Seq(IF main \in {"take_in", "in"} THEN ServerLines ELSE UserLines)
  /\ main \in {"take_in", "in", "take_ui", "ui", "console", "submit", "wait", "exited"}
  /\ curr \in Nat \ {0} /\ (main \in {"in", "ui"} => curr <= Len(List) + 1)
  /\ bye \in BOOLEAN /\ receiver \in {"running", "returned"} /\ open \in BOOLEAN
  /\ stream \in Seq(ServerLines) /\ typed \in Seq(UserLines)
  /\ received \in 0 .. Len(stream)

(* What main still has to handle of the list that it took at the given place. *)
Rest(place) == IF main = place THEN From(List, curr) ELSE <<>>

(* Every line that the receiver got is handled, waits in QUEUE_IN or is in   *)
(* the hands of one of the threads: once, and in the order of the server.    *)
ServerLinesFlow ==
  handledIn \o Rest("in") \o chan["QUEUE_IN"] \o held["recv"]
    = SubSeq(stream, 1, received)

(* The lines of the user are handled in the order in which they were typed,  *)
(* none is lost or handled twice before one of them is the command to quit,  *)
(* and nothing is handled after that one.                                    *)
UserLinesFlow ==
  /\ ~bye => handledUi \o Rest("ui") \o chan["QUEUE_UI"]
               \o (IF main = "submit" THEN List ELSE <<>>) = typed
  /\ handledUi = SubSeq(typed, 1, Len(handledUi))
  /\ \A k \in DOMAIN handledUi : Quits(handledUi[k]) => k = Len(handledUi) /\ bye

(* The QUIT of !quit is the last thing that is sent.  One that was typed raw *)
(* is not: the program goes on behind it.                                    *)
NothingAfterQuit ==
  \A k \in DOMAIN sent : sent[k].cmd = "QUIT" /\ ~sent[k].raw => k = Len(sent)

-----------------------------------------------------------------------------
(* A line that the receiver got is handled, unless the program ends first.   *)
ServerLinesAreHandled ==
  \A n \in 1 .. MaxStream : received >= n ~> Len(handledIn) >= n \/ bye \/ aborted

(* A line that the user typed is handled, unless the program ends first.     *)
UserLinesAreHandled ==
  \A n \in 1 .. MaxTyped : Len(typed) >= n ~> Len(handledUi) >= n \/ bye \/ aborted

(* When !quit has sent QUIT the program ends by itself.  After a QUIT that   *)
(* was typed raw the connection ends, and the program goes on without it.    *)
QuitEnds == QuitSent ~> main = "exited" \/ aborted
=============================================================================
