------------------------------- MODULE Logger -------------------------------
(***************************************************************************)
(* src/log.c: a message goes to the log file by several calls of the C     *)
(* library, each of which is atomic, without a lock around them, so that   *)
(* the messages of two threads can mix.  Each thread's rest is what its    *)
(* message still has to write.                                             *)
(***************************************************************************)
EXTENDS Integers, Sequences

CONSTANTS
  Threads,
  Severities   (* of the messages: 1, LOGLEVEL_ERROR, to 5, LOGLEVEL_SPAM; *)
               (* any other is written as an unknown one                   *)

ASSUME SeveritiesAssumption == Severities \subseteq Int

VARIABLES
  level,    (* logger_level                                                *)
  logfile,  (* s_out: "none", "open" or "closed"                           *)
  rest,
  attrs,    (* the attributes in force at the end of the file              *)
  atStart,  (* the end of the file is the beginning of a line              *)
  loggedTo  (* history: the states of the log file when it was written to  *)

logVars == <<level, logfile, rest, attrs, atStart, loggedTo>>

(* The initial value is LOGLEVEL_WARNING. *)
LogInit ==
  /\ level = 2 /\ logfile = "none"
  /\ rest = [t \in Threads |-> <<>>]
  /\ attrs = {} /\ atStart = TRUE /\ loggedTo = {}

-----------------------------------------------------------------------------
(* prepare_console *)
Prepared(severity) ==
  CASE severity = 3      -> <<"prefix">>
    [] severity \in 4 .. 5 -> <<"color", "prefix">>
    [] OTHER             -> <<"color", "bold", "prefix", "unbold">>

(* Mutant: the attributes are reset before the end of the line only when the *)
(* line is made of pieces.                                                  *)
PiecesUnreset(severity, by) ==
  Prepared(severity) \o
    (IF by = "log" THEN <<"line">> ELSE <<"text", "newline", "reset">>)

(* log writes text and newline by one call, log_fmt by two. *)
Pieces(severity, by) ==
  Prepared(severity)
    \o (IF by = "log" THEN <<"line">> ELSE <<"text", "newline">>) \o <<"reset">>

(* A message that is not filtered by its severity. *)
Log(t, severity, by) ==
  /\ rest[t] = <<>> /\ level >= severity
  /\ rest' = [rest EXCEPT ![t] = Pieces(severity, by)]
  /\ UNCHANGED <<level, logfile, attrs, atStart, loggedTo>>

(* The next piece. *)
Write(t) ==
  /\ rest[t] # <<>>
  /\ LET piece == Head(rest[t]) IN
       /\ attrs' = CASE piece \in {"color", "bold"} -> attrs \cup {piece}
                     [] piece = "unbold"            -> attrs \ {"bold"}
                     [] piece = "reset"             -> {}
                     [] OTHER                       -> attrs
       /\ atStart' = CASE piece \in {"prefix", "text"}  -> FALSE
                       [] piece \in {"line", "newline"} -> TRUE
                       [] OTHER                         -> atStart
  /\ rest' = [rest EXCEPT ![t] = Tail(@)]
  /\ loggedTo' = loggedTo \cup {logfile}
  /\ UNCHANGED <<level, logfile>>

Logging(t) ==
  Write(t) \/ \E severity \in Severities, by \in {"log", "log_fmt"} : Log(t, severity, by)

Quiet(t) == rest[t] = <<>>

-----------------------------------------------------------------------------
PieceNames == {"color", "bold", "prefix", "unbold", "text", "newline", "line", "reset"}

LogTypeOK ==
  /\ level \in 1 .. 5 /\ logfile \in {"none", "open", "closed"}
  /\ rest \in [Threads -> Seq(PieceNames)]
  /\ attrs \subseteq {"color", "bold"} /\ atStart \in BOOLEAN
  /\ loggedTo \subseteq {"none", "open", "closed"}

(* However the messages of the threads were mixed, when none is being        *)
(* written the file is at the beginning of a line and without attributes, so *)
(* that the next message looks as it should.                                 *)
LogIsClean == (\A t \in Threads : Quiet(t)) => atStart /\ attrs = {}
=============================================================================
