------------------------------- MODULE IrcParse -------------------------------
(***************************************************************************)
(* msgutils_ircmsg_parse of src/msgutils.c: a line of the server is split  *)
(* into source, command and parameters with strtok_s, which writes NULs    *)
(* into the line as it goes.  A line is a sequence of ":", " " and other   *)
(* characters, never with a NUL, a CR LF or a NUL in it: see Receiver.     *)
(***************************************************************************)
EXTENDS Integers, Sequences, FiniteSetsExt

(* NULL, where a string is expected: no token and no source is empty.       *)
None == <<>>
From(l, i) == SubSeq(l, i, Len(l))
Spaces(l) == {i \in DOMAIN l : l[i] = " "}

(* strtok_s with " ": leading delimiters are passed over; the one behind the *)
(* token is overwritten, and next_tk is what stands behind that.            *)
Strtok(l) ==
  LET words == DOMAIN l \ Spaces(l)
      first == Min(words)
      ends  == {i \in Spaces(l) : i > first}
      end   == IF ends = {} THEN Len(l) + 1 ELSE Min(ends)
  IN  IF words = {} THEN [token |-> None, next |-> <<>>]
      ELSE [token |-> SubSeq(l, first, end - 1), next |-> From(l, end + 1)]

(* The tokens of what is left, which begins behind each of them.             *)
AllTokens(l) ==
  LET tokens[i \in 1 .. Len(l) + 1] ==
        LET tk == Strtok(From(l, i)) IN
          IF tk.token = None THEN <<>>
          ELSE <<tk.token>> \o tokens[Len(l) + 1 - Len(tk.next)]
  IN  tokens[1]

(* Mutant: the colon directly behind the command is not looked for. *)
ColonMarkInside(l) ==
  LET marks == {i \in 2 .. Len(l) : l[i - 1] = " " /\ l[i] = ":"}
  IN  IF marks = {} THEN 0 ELSE Min(marks)

(* Where the ':' of the last parameter stands: first, or behind a space. *)
ColonMark(l) ==
  LET marks == {i \in 2 .. Len(l) : l[i - 1] = " " /\ l[i] = ":"}
  IN  IF l # <<>> /\ l[1] = ":" THEN 1 ELSE IF marks # {} THEN Min(marks) ELSE 0

(* handle_bad_format: an assertion that fails, which ends the program before *)
(* the NULL of include/msgutils.h can be returned.                           *)
Bad == "assertion failed"

Parse(line) ==
  LET has_source == line # <<>> /\ line[1] = ":"
      source     == Strtok(Tail(line))
      command    == Strtok(IF has_source THEN source.next ELSE line)
      colon      == ColonMark(command.next)
      middle     == IF colon = 0 THEN command.next ELSE SubSeq(command.next, 1, colon - 1)
  IN  IF \/ has_source /\ (Len(line) = 1 \/ line[2] = " ")
         \/ command.token = None
        THEN Bad
        ELSE [source |-> IF has_source THEN source.token ELSE None,
              command |-> command.token,
              params |-> AllTokens(middle)
                \o (IF colon = 0 THEN <<>> ELSE <<From(command.next, colon + 1)>>)]

-----------------------------------------------------------------------------
(* The reference: the words of a line are its longest stretches without a    *)
(* space; a first word with a colon is the source, the next the command, and *)
(* from the next word with a colon on the line is one parameter.             *)

IsStart(line, i) == line[i] # " " /\ (i = 1 \/ line[i - 1] = " ")

Starts(line) ==
  LET upTo[n \in 0 .. Len(line)] ==
        IF n = 0 THEN <<>>
        ELSE IF IsStart(line, n) THEN Append(upTo[n - 1], n) ELSE upTo[n - 1]
  IN  upTo[Len(line)]

WordAt(line, i) == SubSeq(line, i, CHOOSE k \in i .. Len(line) :
  /\ \A j \in i .. k : line[j] # " "
  /\ k = Len(line) \/ line[k + 1] = " ")

HasSource(line) == line # <<>> /\ line[1] = ":"
CommandWord(line) == IF HasSource(line) THEN 2 ELSE 1

IsMessage(line) ==
  /\ CommandWord(line) <= Len(Starts(line))
  /\ HasSource(line) => WordAt(line, 1) # <<":">>

Meaning(line) ==
  LET s      == Starts(line)
      c      == CommandWord(line)
      colons == {k \in c + 1 .. Len(s) : line[s[k]] = ":"}
      last   == IF colons = {} THEN Len(s) + 1 ELSE Min(colons)
  IN  [source |-> IF c = 2 THEN Tail(WordAt(line, 1)) ELSE None,
       command |-> WordAt(line, s[c]),
       params |-> [k \in 1 .. last - c - 1 |-> WordAt(line, s[c + k])]
         \o (IF colons = {} THEN <<>> ELSE <<From(line, s[last] + 1)>>)]

-----------------------------------------------------------------------------
(* Every line with a command is split into what it means, however many       *)
(* spaces and colons there are.                                              *)
LineIsSplit(line) == IsMessage(line) => Parse(line) = Meaning(line)
=============================================================================
