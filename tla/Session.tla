------------------------------ MODULE Session ------------------------------
(***************************************************************************)
(* main() of src/main.c from its first line to its last: what it acquires, *)
(* in which order, what every failure on the way gives back, and what is   *)
(* restored in the end, while the receiver thread runs and logs.  The loop *)
(* in the middle is one step here; Client is about it.                     *)
(***************************************************************************)
EXTENDS Logger

VARIABLES
  pc,        (* what main does next                                        *)
  wsa,       (* WSAStartup has succeeded and WSACleanup is still to come   *)
  sock,      (* "none", "open" or "closed"                                 *)
  receiver,  (* the thread: "none", "running" or "returned"                *)
  mode,      (* the console mode: "theirs" or "ours"                       *)
  buffer,    (* the terminal buffer that shows: "theirs" or "ours"         *)
  codepage,  (* the output code page: "other" or "utf8"                    *)
  prev,      (* prev_out_codepage, "unknown" as long as it was not read    *)
  utf8,      (* the flag                                                   *)
  stuck,     (* the settings that could not be restored                    *)
  before     (* history: the code page before the program                  *)

ASSUME TwoThreads == Threads = {"main", "recv"}

resources == <<level, logfile, wsa, sock, receiver>>
console == <<mode, buffer, codepage, prev, utf8, stuck, before>>
writing == <<rest, attrs, atStart, loggedTo>>
vars == <<pc, resources, console, writing>>

Init ==
  /\ pc = "open_log"
  /\ LogInit /\ wsa = FALSE /\ sock = "none" /\ receiver = "none"
  /\ mode = "theirs" /\ buffer = "theirs"
  /\ before \in {"other", "utf8"} /\ codepage = before
  /\ prev = "unknown" /\ utf8 \in BOOLEAN
  /\ stuck = {}

-----------------------------------------------------------------------------
(* A step of main, which has written its last message to the end before.     *)
Step(here, there) ==
  /\ pc = here /\ pc' = there
  /\ Quiet("main") /\ UNCHANGED <<before, writing>>

(* Steps that change nothing but where main is. *)
Goes(here, there) == Step(here, there) /\ UNCHANGED <<resources, console>>

OpenLog ==
  /\ Step("open_log", "arguments")
  /\ logfile' = "open"
  /\ UNCHANGED <<level, wsa, sock, receiver, console>>

(* The level is one of those named, or else the default. *)
Arguments ==
  /\ Step("arguments", "wsa")
  /\ level' \in 1 .. 5
  /\ UNCHANGED <<logfile, wsa, sock, receiver, console>>

StartWsa ==
  /\ Step("wsa", "wsa_version")
  /\ wsa' = TRUE
  /\ UNCHANGED <<level, logfile, sock, receiver, console>>

WsaVersion == Goes("wsa_version", "resolve")

Resolve == Goes("resolve", "socket")

OpenSocket ==
  /\ Step("socket", "connect")
  /\ sock' = "open"
  /\ UNCHANGED <<level, logfile, wsa, receiver, console>>

Connect == Goes("connect", "log_in")

ConnectFails ==
  /\ Step("connect", "give_up")
  /\ sock' = "closed"
  /\ UNCHANGED <<level, logfile, wsa, receiver, console>>

LogIn == Goes("log_in", "create_thread")

(* The log file stays open. *)
LogInFails ==
  /\ Step("log_in", "failed")
  /\ sock' = "closed" /\ wsa' = FALSE
  /\ UNCHANGED <<level, logfile, receiver, console>>

(* Nobody looks at the handle that CreateThread returns. *)
CreateReceiver ==
  /\ Step("create_thread", "console_mode")
  /\ receiver' \in {"none", "running"}
  /\ UNCHANGED <<level, logfile, wsa, sock, console>>

(* GetStdHandle, GetConsoleMode and SetConsoleMode; then the other buffer. *)
SetMode ==
  /\ Step("console_mode", "code_page")
  /\ mode' = "ours" /\ buffer' = "ours"
  /\ UNCHANGED <<resources, codepage, prev, utf8, stuck>>

(* Mutant: the code page is set though the previous one could not be read. *)
SetCodePageBlindly ==
  /\ Step("code_page", "loop")
  /\ prev' \in {codepage, "unknown"}
  /\ \/ prev' = "utf8" /\ utf8' = TRUE /\ UNCHANGED codepage
     \/ prev' # "utf8" /\ utf8 /\ codepage' = "utf8" /\ UNCHANGED utf8
     \/ prev' # "utf8" /\ utf8' = FALSE /\ UNCHANGED codepage
  /\ UNCHANGED <<resources, mode, buffer, stuck>>

SetCodePage ==
  /\ Step("code_page", "loop")
  /\ prev' \in {codepage, "unknown"}
  /\ \/ prev' = "utf8" /\ utf8' = TRUE /\ UNCHANGED codepage
     \/ prev' = "other" /\ utf8 /\ codepage' = "utf8" /\ UNCHANGED utf8
     \/ prev' # "utf8" /\ utf8' = FALSE /\ UNCHANGED codepage
  /\ UNCHANGED <<resources, mode, buffer, stuck>>

Loop == Goes("loop", "wait")

(* Mutant: a wait that gives up. *)
WaitAWhile == Goes("wait", "restore_mode")

(* Without a thread the wait fails at once, which nobody looks at either. *)
WaitForReceiver == receiver # "running" /\ Goes("wait", "restore_mode")

(* SetConsoleMode may fail. *)
RestoreMode ==
  /\ Step("restore_mode", "restore_code_page")
  /\ \/ mode' = "theirs" /\ UNCHANGED stuck
     \/ stuck' = stuck \cup {"mode"} /\ UNCHANGED mode
  /\ UNCHANGED <<resources, buffer, codepage, prev, utf8>>

(* Mutant: what was read is restored without a look at it. *)
RestoreCodePageBlindly ==
  /\ Step("restore_code_page", "restore_buffer")
  /\ codepage' = prev
  /\ UNCHANGED <<resources, mode, buffer, prev, utf8, stuck>>

RestoreCodePage ==
  /\ Step("restore_code_page", "restore_buffer")
  /\ IF utf8 /\ prev # "unknown"
       THEN \/ codepage' = prev /\ UNCHANGED stuck
            \/ stuck' = stuck \cup {"codepage"} /\ UNCHANGED codepage
       ELSE UNCHANGED <<codepage, stuck>>
  /\ UNCHANGED <<resources, mode, buffer, prev, utf8>>

RestoreBuffer ==
  /\ Step("restore_buffer", "shut_down")
  /\ buffer' = "theirs" /\ sock' = "closed"
  /\ UNCHANGED <<level, logfile, wsa, receiver, mode, codepage, prev, utf8, stuck>>

(* WSACleanup and fclose, after a failure and in the end. *)
CleanUpWsa(here, there) ==
  /\ Step(here, there)
  /\ wsa' = FALSE
  /\ UNCHANGED <<level, logfile, sock, receiver, console>>

CloseLog(here, there) ==
  /\ Step(here, there)
  /\ logfile' = "closed"
  /\ UNCHANGED <<level, wsa, sock, receiver, console>>

(* Behind main, exit() of the C library still has to end the process.        *)
ShutDown ==
  \/ CleanUpWsa("shut_down", "close_log") \/ CloseLog("close_log", "exit_0")
  \/ Goes("exit_0", "returned")

(* The failures: main returns 23, the first three times at once. *)
Fails ==
  \/ \E here \in {"open_log", "arguments", "wsa"} : Goes(here, "failed")
  \/ \E here \in {"wsa_version", "resolve", "socket", "console_mode"} :
       Goes(here, "give_up")
  \/ ConnectFails \/ LogInFails
  \/ CleanUpWsa("give_up", "give_up_log") \/ CloseLog("give_up_log", "exit_23")
  \/ Goes("exit_23", "failed")

Main ==
  \/ OpenLog \/ Arguments \/ StartWsa \/ WsaVersion \/ Resolve \/ OpenSocket
  \/ Connect \/ LogIn \/ CreateReceiver \/ SetMode \/ SetCodePage \/ Loop
  \/ WaitForReceiver \/ RestoreMode \/ RestoreCodePage \/ RestoreBuffer
  \/ ShutDown \/ Fails

(* The places with a message on the way from there. *)
MainLogs ==
  /\ pc \notin {"open_log", "create_thread", "wait", "shut_down", "close_log", "exit_0",
               "give_up_log", "exit_23"}
  /\ Logging("main")
  /\ UNCHANGED <<pc, wsa, sock, receiver, console>>

(* The receiver thread logs what recv() returned, and when it ends.          *)
Receive ==
  /\ receiver = "running"
  /\ \/ Logging("recv") /\ UNCHANGED receiver
     \/ /\ Quiet("recv") /\ UNCHANGED <<level, logfile, writing>>
        /\ receiver' = "returned"
  /\ UNCHANGED <<pc, wsa, sock, console>>

(* The process has ended, and the thread with it.                            *)
Done == pc \in {"returned", "failed"}

Next == (~Done /\ (Main \/ MainLogs \/ Receive)) \/ (Done /\ UNCHANGED vars)

Spec == Init /\ [][Next]_vars

-----------------------------------------------------------------------------
TypeOK ==
  /\ LogTypeOK /\ wsa \in BOOLEAN
  /\ sock \in {"none", "open", "closed"}
  /\ receiver \in {"none", "running", "returned"}
  /\ mode \in {"theirs", "ours"} /\ buffer \in {"theirs", "ours"}
  /\ before \in {"other", "utf8"} /\ codepage \in {"other", "utf8"}
  /\ prev \in {"other", "utf8", "unknown"} /\ utf8 \in BOOLEAN
  /\ stuck \subseteq {"mode", "codepage"}

(* Whichever way main returns, before or after the loop, the console is as   *)
(* the program found it, except for what Windows refused to set back.        *)
SessionRestored ==
  Done => /\ buffer = "theirs"
          /\ mode = "theirs" \/ "mode" \in stuck
          /\ codepage = before \/ "codepage" \in stuck

(* The regular end: what was acquired is released, and nothing of it while   *)
(* the receiver thread was still there to use it.                            *)
QuietEnd ==
  /\ pc = "returned" => sock = "closed" /\ ~wsa /\ logfile = "closed"
  /\ pc \in {"shut_down", "close_log", "exit_0", "returned"} =>
       receiver # "running" /\ "closed" \notin loggedTo

(* The log file is written to before it is open at no time, and behind its   *)
(* fclose only by the receiver thread, when the console could not be set up  *)
(* after that thread was created.                                            *)
LogIsOpen ==
  /\ "none" \notin loggedTo
  /\ "closed" \in loggedTo =>
       pc \in {"exit_23", "failed"} /\ receiver # "none" /\ sock = "open" /\ mode = "theirs"
=============================================================================
