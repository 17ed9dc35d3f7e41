---------------------------- MODULE SessionProofs ----------------------------
(***************************************************************************)
(* Proofs about Session and Logger: the console is restored, the log file  *)
(* is open when it is written to and clean when nobody writes.             *)
(***************************************************************************)
EXTENDS Session, TLAPS

(* What a thread has still to write: a line that it begins it also ends, and *)
(* the last piece is a reset.                                                *)
Ends == {"newline", "line"}

Sound(s) ==
  /\ s \in Seq(PieceNames)
  /\ s # <<>> => s[Len(s)] = "reset"
  /\ \A k \in 1 .. Len(s) :
       s[k] \in {"prefix", "text"} => \E j \in k + 1 .. Len(s) : s[j] \in Ends

(* An attribute that is in force is still to be reset by some thread, a line *)
(* that is not at its end still to be ended.                                 *)
WriteInv ==
  /\ DOMAIN rest = Threads /\ \A t \in Threads : Sound(rest[t])
  /\ attrs # {} => \E t \in Threads : \E k \in 1 .. Len(rest[t]) : rest[t][k] = "reset"
  /\ ~atStart => \E t \in Threads : \E k \in 1 .. Len(rest[t]) : rest[t][k] \in Ends

(* The tail of what is still to write is again such a sequence.              *)
LEMMA TailIsSound ==
  ASSUME NEW s, Sound(s), s # <<>>
  PROVE  /\ Sound(Tail(s)) /\ Head(s) = s[1] /\ Len(Tail(s)) = Len(s) - 1
         /\ \A k \in 2 .. Len(s) : k - 1 \in 1 .. Len(Tail(s)) /\ Tail(s)[k - 1] = s[k]
<1>1. s \in Seq(PieceNames) /\ Len(s) \in Nat /\ Len(s) > 0
  BY DEF Sound
<1>2. Tail(s) \in Seq(PieceNames) /\ Head(s) = s[1] /\ Len(Tail(s)) = Len(s) - 1
      /\ \A k \in 1 .. Len(Tail(s)) : Tail(s)[k] = s[k + 1]
  BY <1>1
<1>3. \A k \in 2 .. Len(s) : k - 1 \in 1 .. Len(Tail(s)) /\ Tail(s)[k - 1] = s[k]
  BY <1>1, <1>2
<1>4. Tail(s) # <<>> => Tail(s)[Len(Tail(s))] = "reset"
  <2>1. ASSUME Tail(s) # <<>> PROVE Len(s) \in 2 .. Len(s)
    BY <1>1, <1>2, <2>1
  <2>2. QED BY <1>1, <1>2, <1>3, <2>1 DEF Sound
<1>5. ASSUME NEW k \in 1 .. Len(Tail(s)), Tail(s)[k] \in {"prefix", "text"}
      PROVE \E j \in k + 1 .. Len(Tail(s)) : Tail(s)[j] \in Ends
  <2>1. PICK j \in (k + 1) + 1 .. Len(s) : s[j] \in Ends
    BY <1>1, <1>2, <1>5 DEF Sound
  <2>2. j \in 2 .. Len(s) /\ j - 1 \in k + 1 .. Len(Tail(s))
    BY <1>1, <1>2, <1>5, <2>1
  <2>3. QED BY <1>3, <2>1, <2>2
<1>6. QED BY <1>2, <1>3, <1>4, <1>5 DEF Sound

(* Every message is such a sequence, whatever its severity.                  *)
LEMMA MessagesAreSound ==
  ASSUME NEW severity, NEW by
  PROVE  Sound(Pieces(severity, by))
<1> DEFINE end == IF by = "log" THEN <<"line">> ELSE <<"text", "newline">>
           p == Prepared(severity)
<1>1. p \in {<<"prefix">>, <<"color", "prefix">>, <<"color", "bold", "prefix", "unbold">>}
  BY DEF Prepared
<1>2. Pieces(severity, by) = (p \o end) \o <<"reset">>
  BY DEF Pieces
<1>3. end \in {<<"line">>, <<"text", "newline">>}
  OBVIOUS
<1> HIDE DEF p, end
<1>4. ASSUME NEW a \in {<<"prefix">>, <<"color", "prefix">>, <<"color", "bold", "prefix", "unbold">>},
             NEW b \in {<<"line">>, <<"text", "newline">>}
      PROVE  Sound((a \o b) \o <<"reset">>)
  <2> DEFINE s == (a \o b) \o <<"reset">>
  <2>1. a \in Seq(PieceNames) /\ b \in Seq(PieceNames) /\ <<"reset">> \in Seq(PieceNames)
    <3>1. /\ <<"prefix">> \in Seq(PieceNames) /\ <<"color", "prefix">> \in Seq(PieceNames)
          /\ <<"color", "bold", "prefix", "unbold">> \in Seq(PieceNames)
      BY DEF PieceNames
    <3>2. /\ <<"line">> \in Seq(PieceNames) /\ <<"text", "newline">> \in Seq(PieceNames)
          /\ <<"reset">> \in Seq(PieceNames)
      BY DEF PieceNames
    <3>3. QED BY <3>1, <3>2, Zenon
  <2>2. s \in Seq(PieceNames) /\ Len(s) = Len(a) + Len(b) + 1 /\ s[Len(s)] = "reset"
    BY <2>1
  <2>3. /\ \A k \in 1 .. Len(a) : s[k] = a[k]
        /\ \A k \in 1 .. Len(b) : s[Len(a) + k] = b[k]
    BY <2>1
  <2>4. Len(b) \in 1 .. 2 /\ b[Len(b)] \in Ends /\ s[Len(a) + Len(b)] \in Ends
    <3>1. CASE b = <<"line">>
      <4>1. Len(b) = 1 /\ b[1] = "line"
        BY <3>1
      <4>2. QED BY <4>1, <2>3 DEF Ends
    <3>2. CASE b = <<"text", "newline">>
      <4>1. Len(b) = 2 /\ b[2] = "newline"
        BY <3>2
      <4>2. QED BY <4>1, <2>3 DEF Ends
    <3>3. QED BY <3>1, <3>2
  <2>5. ASSUME NEW k \in 1 .. Len(s), s[k] \in {"prefix", "text"}
        PROVE  Len(a) + Len(b) \in k + 1 .. Len(s)
    <3>1. Len(a) \in Nat
      BY <2>1
    <3>2. k # Len(a) + Len(b) /\ k # Len(s)
      BY <2>2, <2>4, <2>5 DEF Ends
    <3>3. QED BY <2>2, <2>4, <3>1, <3>2
  <2>6. QED BY <2>2, <2>4, <2>5 DEF Sound
<1>5. QED BY <1>1, <1>2, <1>3, <1>4


-----------------------------------------------------------------------------
Early == {"open_log", "arguments", "wsa", "wsa_version", "resolve", "socket",
          "connect", "log_in", "create_thread"}
Ours == {"code_page", "loop", "wait", "restore_mode"}
Ended == {"exit_0", "returned"}
Leaving == {"shut_down", "close_log"} \cup Ended
GivingUp == {"give_up", "give_up_log", "exit_23", "failed"}
Places == Early \cup Ours \cup Leaving \cup GivingUp
            \cup {"console_mode", "restore_code_page", "restore_buffer"}

(* What of the console is ours at which place of main.                       *)
ConsoleInv ==
  /\ mode = "ours" => pc \in Ours \/ "mode" \in stuck
  /\ buffer = "ours" => pc \in Ours \cup {"restore_code_page", "restore_buffer"}
  /\ prev \in {before, "unknown"}
  /\ codepage # before =>
       \/ "codepage" \in stuck
       \/ utf8 /\ prev # "unknown"
            /\ pc \in {"loop", "wait", "restore_mode", "restore_code_page"}
  /\ "mode" \in stuck => pc \in {"restore_code_page", "restore_buffer"} \cup Leaving
  /\ "codepage" \in stuck => pc \in {"restore_buffer"} \cup Leaving

(* What is acquired at which place, and where the receiver can run.          *)
ResourceInv ==
  /\ pc \in Places
  /\ receiver # "none" => pc \notin Early
  /\ pc \in {"connect", "log_in", "create_thread", "console_mode"} => sock = "open"
  /\ pc \in GivingUp /\ receiver # "none" => sock = "open" /\ mode = "theirs"
  /\ pc \in {"restore_mode", "restore_code_page", "restore_buffer"} \cup Leaving =>
       receiver # "running"
  /\ pc \in Leaving => sock = "closed"
  /\ pc \in {"close_log"} \cup Ended => ~wsa
  /\ pc \notin {"open_log", "exit_23", "failed"} \cup Ended => logfile = "open"
  /\ pc \in Ended => logfile = "closed"
  /\ logfile = "none" => pc \in {"open_log", "failed"}
  /\ logfile = "closed" => pc \in {"exit_23", "failed"} \cup Ended

(* Who has something to write, and where it went.                            *)
LoggedInv ==
  /\ rest["main"] # <<>> =>
       pc \notin {"open_log", "close_log", "exit_23", "failed"} \cup Ended
  /\ rest["recv"] # <<>> => receiver = "running"
  /\ "none" \notin loggedTo
  /\ "closed" \in loggedTo => pc \in {"exit_23", "failed"} /\ receiver # "none"

IInv == TypeOK /\ ConsoleInv /\ ResourceInv /\ LoggedInv /\ WriteInv

(* Nothing to write is such a sequence.                                      *)
LEMMA NothingIsSound == <<>> \in Seq(PieceNames) /\ Sound(<<>>)
<1>1. <<>> \in Seq(PieceNames) /\ Len(<<>>) = 0
  OBVIOUS
<1>2. \A k \in 1 .. 0 : FALSE
  OBVIOUS
<1>3. QED BY <1>1, <1>2 DEF Sound

(* The invariant holds when main begins.                                     *)
LEMMA InitInv == Init => IInv
<1> SUFFICES ASSUME Init PROVE IInv
  OBVIOUS
<1> USE DEF Init, LogInit
<1>1. TypeOK
  <2>1. rest \in [Threads -> Seq(PieceNames)]
    BY NothingIsSound
  <2>2. level = 2 /\ 2 \in 1 .. 5
    <3>1. level = 2
      BY Zenon
    <3>2. QED BY <3>1
  <2>3. LogTypeOK
    BY <2>1, <2>2, Zenon DEF LogTypeOK
  <2>4. QED BY <2>3 DEF TypeOK
<1>2. ConsoleInv
  BY DEF ConsoleInv
<1>3. ResourceInv
  BY DEF ResourceInv, Places, Early, Ours, Ended, Leaving, GivingUp
<1>4. LoggedInv
  BY TwoThreads DEF LoggedInv
<1>5. WriteInv
  <2>1. Sound(<<>>)
    BY NothingIsSound
  <2>2. DOMAIN rest = Threads /\ \A t \in Threads : rest[t] = <<>>
    OBVIOUS
  <2>3. QED BY <2>1, <2>2 DEF WriteInv
<1>6. QED BY <1>1, <1>2, <1>3, <1>4, <1>5 DEF IInv

(* A step of main acquires and releases in order.                            *)
LEMMA MainResources ==
  ASSUME TypeOK, ConsoleInv, ResourceInv, LoggedInv, Main
  PROVE  ResourceInv'
<1> USE DEF TypeOK, ResourceInv, Places, Early, Ours, Leaving, Ended, GivingUp,
            Step, Goes, resources, console
<1>1. CASE OpenLog \/ Arguments \/ StartWsa \/ WsaVersion \/ Resolve
  BY <1>1 DEF OpenLog, Arguments, StartWsa, WsaVersion, Resolve
<1>2. CASE OpenSocket \/ Connect \/ LogIn
  BY <1>2 DEF OpenSocket, Connect, LogIn
<1>12. CASE CreateReceiver
  <2>1. /\ pc = "create_thread" /\ pc' = "console_mode"
        /\ UNCHANGED <<level, logfile, wsa, sock>>
    BY <1>12 DEF CreateReceiver
  <2>2. sock = "open" /\ logfile = "open"
    BY <2>1
  <2>3. QED BY <2>1, <2>2
<1>3. CASE SetMode \/ SetCodePage \/ Loop
  BY <1>3 DEF SetMode, SetCodePage, Loop
<1>4. CASE WaitForReceiver \/ RestoreMode
  BY <1>4 DEF WaitForReceiver, RestoreMode
<1>11. CASE RestoreCodePage \/ RestoreBuffer
  BY <1>11 DEF RestoreCodePage, RestoreBuffer
<1>5. CASE ShutDown
  BY <1>5 DEF ShutDown, CleanUpWsa, CloseLog
<1>6. ASSUME NEW here \in {"open_log", "arguments", "wsa"}, Goes(here, "failed")
      PROVE  ResourceInv'
  BY <1>6
<1>7. ASSUME NEW here \in {"wsa_version", "resolve", "socket", "console_mode"},
             Goes(here, "give_up")
      PROVE  ResourceInv'
  <2>1. pc = "console_mode" => mode = "theirs"
    BY DEF ConsoleInv
  <2>2. QED BY <1>7, <2>1
<1>8. CASE ConnectFails \/ LogInFails
  BY <1>8 DEF ConnectFails, LogInFails
<1>9. CASE \/ CleanUpWsa("give_up", "give_up_log") \/ CloseLog("give_up_log", "exit_23")
           \/ Goes("exit_23", "failed")
  BY <1>9 DEF CleanUpWsa, CloseLog
<1>10. QED
  BY <1>1, <1>2, <1>3, <1>4, <1>5, <1>6, <1>7, <1>8, <1>9, <1>11, <1>12 DEF Main, Fails

(* A step of main leaves what is written alone, and is where it says.        *)
LEMMA MainInv == IInv /\ Main => IInv'
<1> SUFFICES ASSUME IInv, Main PROVE IInv'
  OBVIOUS
<1> USE DEF Step, Goes, Quiet, resources, console, writing
<1> USE DEF Main, OpenLog, Arguments, StartWsa, WsaVersion, Resolve, OpenSocket, Connect,
  LogIn, CreateReceiver, SetMode, SetCodePage, Loop, WaitForReceiver, RestoreMode,
  RestoreCodePage, RestoreBuffer, ShutDown, Fails, ConnectFails, LogInFails, CleanUpWsa,
  CloseLog
<1>1. UNCHANGED writing /\ rest["main"] = <<>> /\ UNCHANGED before
  OBVIOUS
<1>2. ConsoleInv'
  BY DEF IInv, TypeOK, ConsoleInv, Ours, Leaving, Ended
<1>3. ResourceInv'
  BY MainResources DEF IInv
<1>4. level' \in 1 .. 5 /\ logfile' \in {"none", "open", "closed"}
  BY DEF IInv, TypeOK, LogTypeOK
<1>5. /\ wsa' \in BOOLEAN /\ sock' \in {"none", "open", "closed"}
      /\ receiver' \in {"none", "running", "returned"}
      /\ mode' \in {"theirs", "ours"} /\ buffer' \in {"theirs", "ours"}
  BY DEF IInv, TypeOK
<1>6. /\ before' \in {"other", "utf8"} /\ codepage' \in {"other", "utf8"}
      /\ prev' \in {"other", "utf8", "unknown"} /\ utf8' \in BOOLEAN
      /\ stuck' \subseteq {"mode", "codepage"}
  BY DEF IInv, TypeOK
<1>7. LoggedInv'
  BY <1>1 DEF IInv, LoggedInv, ResourceInv, TypeOK, Ended, Early
<1>8. TypeOK'
  BY <1>1, <1>4, <1>5, <1>6 DEF IInv, TypeOK, LogTypeOK
<1>9. WriteInv'
  BY <1>1 DEF IInv, WriteInv
<1>10. QED BY <1>2, <1>3, <1>7, <1>8, <1>9 DEF IInv

(* A piece of a message, or its beginning, by main or by the receiver.       *)
LEMMA LoggingInv ==
  ASSUME WriteInv, NEW t \in Threads, Logging(t)
  PROVE  WriteInv' /\ UNCHANGED <<level, logfile>>
<1>1. CASE Write(t)
  <2>1. PICK s : s = rest[t] /\ Sound(s) /\ s # <<>>
    BY <1>1 DEF Write, WriteInv
  <2>2. /\ rest' = [rest EXCEPT ![t] = Tail(s)]
        /\ attrs' = CASE s[1] \in {"color", "bold"} -> attrs \cup {s[1]}
                      [] s[1] = "unbold"            -> attrs \ {"bold"}
                      [] s[1] = "reset"             -> {}
                      [] OTHER                      -> attrs
        /\ atStart' = CASE s[1] \in {"prefix", "text"}  -> FALSE
                        [] s[1] \in {"line", "newline"} -> TRUE
                        [] OTHER                        -> atStart
        /\ UNCHANGED <<level, logfile>>
    BY <1>1, <2>1, TailIsSound DEF Write
  <2>3. /\ Sound(Tail(s)) /\ Len(s) \in Nat /\ Len(s) > 0
        /\ \A k \in 2 .. Len(s) : k - 1 \in 1 .. Len(Tail(s)) /\ Tail(s)[k - 1] = s[k]
    <3>1. s \in Seq(PieceNames)
      BY <2>1 DEF Sound
    <3>2. Len(s) \in Nat /\ Len(s) > 0
      BY <2>1, <3>1
    <3>3. QED BY <2>1, <3>2, TailIsSound
  <2>4. DOMAIN rest' = Threads /\ \A u \in Threads : rest'[u] = IF u = t THEN Tail(s) ELSE rest[u]
    BY <2>2 DEF WriteInv
  <2>5. \A u \in Threads : Sound(rest'[u])
    BY <2>3, <2>4 DEF WriteInv
  <2>6. ASSUME NEW set, s[1] \notin set,
               \E u \in Threads : \E k \in 1 .. Len(rest[u]) : rest[u][k] \in set
        PROVE  \E u \in Threads : \E k \in 1 .. Len(rest'[u]) : rest'[u][k] \in set
    <3>0. PICK u \in Threads : \E k \in 1 .. Len(rest[u]) : rest[u][k] \in set
      BY <2>6
    <3>1. PICK k \in 1 .. Len(rest[u]) : rest[u][k] \in set
      BY <3>0
    <3>2. CASE u = t
      <4>1. k \in 2 .. Len(s)
        BY <2>1, <2>3, <2>6, <3>1, <3>2
      <4>2. QED BY <2>1, <2>3, <2>4, <3>1, <3>2, <4>1
    <3>3. CASE u # t
      BY <2>4, <3>1, <3>3
    <3>4. QED BY <3>2, <3>3
  <2>7. ASSUME attrs' # {}
        PROVE  \E u \in Threads : \E k \in 1 .. Len(rest'[u]) : rest'[u][k] = "reset"
    <3>1. s[1] # "reset"
      BY <2>2, <2>7
    <3>2. CASE s[1] \in {"color", "bold"}
      <4>1. Len(s) \in 2 .. Len(s) /\ s[Len(s)] = "reset"
        BY <2>1, <2>3, <3>1 DEF Sound
      <4>2. QED BY <2>3, <2>4, <4>1
    <3>3. CASE s[1] \notin {"color", "bold"}
      <4>1. attrs # {}
        BY <2>2, <2>7, <3>1, <3>3
      <4>2. \E u \in Threads : \E k \in 1 .. Len(rest[u]) : rest[u][k] \in {"reset"}
        BY <4>1 DEF WriteInv
      <4>3. s[1] \notin {"reset"}
        BY <3>1
      <4>4. \E u \in Threads : \E k \in 1 .. Len(rest'[u]) : rest'[u][k] \in {"reset"}
        BY <2>6, <4>2, <4>3
      <4>5. QED BY <4>4
    <3>4. QED BY <3>2, <3>3
  <2>8. ASSUME ~atStart'
        PROVE  \E u \in Threads : \E k \in 1 .. Len(rest'[u]) : rest'[u][k] \in Ends
    <3>1. s[1] \notin Ends
      BY <2>2, <2>8 DEF Ends
    <3>2. CASE s[1] \in {"prefix", "text"}
      <4>1. PICK j \in 2 .. Len(s) : s[j] \in Ends
        BY <2>1, <2>3, <3>2 DEF Sound
      <4>2. QED BY <2>3, <2>4, <4>1
    <3>3. CASE s[1] \notin {"prefix", "text"}
      <4>1. ~atStart
        BY <2>2, <2>8, <3>1, <3>3 DEF Ends
      <4>2. QED BY <2>6, <3>1, <4>1 DEF WriteInv
    <3>4. QED BY <3>2, <3>3
  <2>9. QED BY <2>2, <2>4, <2>5, <2>7, <2>8 DEF WriteInv
<1>2. CASE \E severity \in Severities, by \in {"log", "log_fmt"} : Log(t, severity, by)
  <2>1. PICK severity \in Severities, by \in {"log", "log_fmt"} : Log(t, severity, by)
    BY <1>2
  <2> DEFINE p == Pieces(severity, by)
  <2>2. Sound(p)
    BY MessagesAreSound
  <2> HIDE DEF p
  <2>3. /\ rest[t] = <<>> /\ rest' = [rest EXCEPT ![t] = p]
        /\ UNCHANGED <<level, logfile, attrs, atStart>>
    BY <2>1 DEF Log, p
  <2>4. DOMAIN rest' = Threads /\ \A u \in Threads : rest'[u] = IF u = t THEN p ELSE rest[u]
    BY <2>3 DEF WriteInv
  <2>5. \A u \in Threads : \A k \in 1 .. Len(rest[u]) : u # t
    BY <2>3
  <2>6. /\ attrs' # {} => \E u \in Threads : \E k \in 1 .. Len(rest'[u]) : rest'[u][k] = "reset"
        /\ ~atStart' => \E u \in Threads : \E k \in 1 .. Len(rest'[u]) : rest'[u][k] \in Ends
    BY <2>3, <2>4, <2>5 DEF WriteInv
  <2>7. \A u \in Threads : Sound(rest'[u])
    BY <2>2, <2>4 DEF WriteInv
  <2>8. QED BY <2>3, <2>4, <2>6, <2>7 DEF WriteInv
<1>3. QED BY <1>1, <1>2 DEF Logging

(* One of the threads logs, or the receiver returns.                         *)
LEMMA OthersInv == IInv /\ ~Done /\ (MainLogs \/ Receive) => IInv'
<1> SUFFICES ASSUME IInv, ~Done, MainLogs \/ Receive PROVE IInv'
  OBVIOUS
<1> USE DEF IInv
<1>1. "main" \in Threads /\ "recv" \in Threads
  BY TwoThreads
<1>2. /\ UNCHANGED <<pc, wsa, sock, console>> /\ level' = level /\ logfile' = logfile
      /\ receiver' \in {receiver, "returned"} /\ (receiver' # receiver => receiver = "running")
      /\ WriteInv'
  <2>1. CASE MainLogs
    BY <1>1, <2>1, LoggingInv DEF MainLogs
  <2>2. CASE Receive /\ Logging("recv")
    BY <1>1, <2>2, LoggingInv DEF Receive
  <2>3. CASE Receive /\ ~Logging("recv")
    BY <2>3 DEF Receive, writing, WriteInv
  <2>4. QED BY <2>1, <2>2, <2>3
<1>3. loggedTo' \subseteq loggedTo \cup {logfile} /\ attrs' \subseteq {"color", "bold"}
      /\ atStart' \in BOOLEAN
  <2>1. attrs \subseteq {"color", "bold"} /\ atStart \in BOOLEAN
    BY DEF TypeOK, LogTypeOK
  <2>2. ASSUME NEW t, Logging(t)
        PROVE  loggedTo' \subseteq loggedTo \cup {logfile} /\ attrs' \subseteq {"color", "bold"}
               /\ atStart' \in BOOLEAN
    BY <2>1, <2>2 DEF Logging, Write, Log
  <2>3. CASE UNCHANGED writing
    BY <2>1, <2>3 DEF writing
  <2>4. QED BY <2>2, <2>3 DEF MainLogs, Receive
<1>4. /\ rest'["main"] # rest["main"] => MainLogs
      /\ rest'["recv"] # rest["recv"] => Receive /\ receiver' = "running"
      /\ receiver' # receiver => rest'["recv"] = <<>>
      /\ loggedTo' # loggedTo => MainLogs \/ receiver = "running"
  <2>1. CASE MainLogs
    BY <1>1, <2>1 DEF MainLogs, Logging, Write, Log, WriteInv
  <2>2. CASE Receive
    BY <1>1, <2>2 DEF Receive, Logging, Write, Log, WriteInv, writing, Quiet
  <2>3. QED BY <2>1, <2>2
<1>5. rest' \in [Threads -> Seq(PieceNames)]
  <2>1. DOMAIN rest' = Threads /\ \A t \in Threads : rest'[t] \in Seq(PieceNames)
    BY <1>2 DEF WriteInv, Sound
  <2>2. rest' = [t \in Threads |-> rest'[t]]
    BY <1>2 DEF Logging, Write, Log, MainLogs, Receive, writing, TypeOK, LogTypeOK
  <2>3. QED BY <2>1, <2>2
<1>6. TypeOK'
  BY <1>2, <1>3, <1>5 DEF TypeOK, LogTypeOK, console
<1>7. ConsoleInv'
  BY <1>2 DEF ConsoleInv, console
<1>8. ResourceInv'
  BY <1>2 DEF ResourceInv, console
<1>9. LoggedInv'
  <2>1. MainLogs => logfile = "open" /\ pc \notin {"open_log", "close_log", "exit_23", "failed"} \cup Ended
    BY DEF MainLogs, ResourceInv, Done, Ended
  <2>2. receiver = "running" =>
          logfile # "none" /\ (logfile = "closed" => pc \in {"exit_23", "failed"})
    BY DEF ResourceInv, Early, Leaving, Done
  <2>3. rest'["main"] # <<>> => pc \notin {"open_log", "close_log", "exit_23", "failed"} \cup Ended
    BY <1>4, <2>1 DEF LoggedInv
  <2>4. rest'["recv"] # <<>> => receiver' = "running"
    BY <1>2, <1>4 DEF LoggedInv
  <2>5. "none" \notin loggedTo'
    BY <1>3, <1>4, <2>1, <2>2 DEF LoggedInv
  <2>6. "closed" \in loggedTo' => pc \in {"exit_23", "failed"} /\ receiver' # "none"
    BY <1>2, <1>3, <1>4, <2>1, <2>2 DEF LoggedInv
  <2>7. QED BY <1>2, <2>3, <2>4, <2>5, <2>6 DEF LoggedInv
<1>10. QED BY <1>2, <1>6, <1>7, <1>8, <1>9

(* IInv is an inductive invariant.                                           *)
LEMMA NextInv == IInv /\ [Next]_vars => IInv'
<1> SUFFICES ASSUME IInv, [Next]_vars PROVE IInv'
  OBVIOUS
<1>1. CASE UNCHANGED vars
  BY <1>1 DEF vars, resources, console, writing, IInv, TypeOK, LogTypeOK, ConsoleInv,
              ResourceInv, LoggedInv, WriteInv
<1>2. QED BY <1>1, MainInv, OthersInv DEF Next

THEOREM Invariant == Spec => []IInv
BY InitInv, NextInv, PTL DEF Spec

(* Every variable of main() and of the logger has its type, for all messages *)
(* of any severity.                                                          *)
THEOREM TypeCorrect == Spec => []TypeOK
<1>1. IInv => TypeOK
  BY DEF IInv
<1>2. QED BY <1>1, Invariant, PTL

(* However main returns, the console is as it was found.                     *)
THEOREM Restored == Spec => []SessionRestored
<1>1. IInv => SessionRestored
  BY DEF IInv, TypeOK, ConsoleInv, SessionRestored, Done, Ours
<1>2. QED BY <1>1, Invariant, PTL

(* After the loop nothing is released while the receiver thread is there,    *)
(* and in the end all of it is.                                              *)
THEOREM EndsQuietly == Spec => []QuietEnd
<1>1. IInv => QuietEnd
  BY DEF IInv, ResourceInv, LoggedInv, QuietEnd, Ended, Leaving
<1>2. QED BY <1>1, Invariant, PTL

(* The file is written to when it is open, but for one failure.              *)
THEOREM WritesAreOpen == Spec => []LogIsOpen
<1>1. IInv => LogIsOpen
  BY DEF IInv, ResourceInv, LoggedInv, LogIsOpen, GivingUp
<1>2. QED BY <1>1, Invariant, PTL

(* However the messages of the two threads mix, the file is clean when none  *)
(* is being written.                                                         *)
THEOREM LogClean == Spec => []LogIsClean
<1>1. ASSUME IInv PROVE LogIsClean
  <2>0. 1 .. Len(<<>>) = {}
    OBVIOUS
  <2>1. ASSUME \A t \in Threads : Quiet(t) PROVE \A t \in Threads : 1 .. Len(rest[t]) = {}
    BY <2>0, <2>1, Zenon DEF Quiet
  <2>2. QED BY <1>1, <2>1 DEF IInv, WriteInv, LogIsClean, TypeOK, LogTypeOK
<1>2. QED BY <1>1, Invariant, PTL
=============================================================================
