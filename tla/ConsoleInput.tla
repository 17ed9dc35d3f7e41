----------------------------- MODULE ConsoleInput -----------------------------
(***************************************************************************)
(* The input lines of src/main.c: every screen has one of its own, as part *)
(* of its screen_ui_state; process_console_input edits the one of the      *)
(* screen that is active, the return key sends it to QUEUE_UI, and in the  *)
(* next turn of the loop the lines of that queue are handled - which may   *)
(* show another screen.  A turn handles the lines of the server ("in"),    *)
(* those of the user ("ui"), the keys ("console") and draws ("draw").      *)
(*                                                                         *)
(* A key is what its event says: Windows decides which keys have which     *)
(* character.  The command to quit is the business of Client.              *)
(***************************************************************************)
EXTENDS Integers, Sequences

CONSTANTS
  Screens,   (* the screens; one that was not made yet is as calloc made it *)
  Home,
  Chars,     (* the characters above 31 that keys have                     *)
  Bang,      (* '!': with it a command begins                              *)
  NUL,
  Size       (* UI_INPUT_BUF_SIZE                                          *)

ASSUME InputAssumption ==
  /\ Home \in Screens /\ Bang \in Chars /\ NUL \notin Chars
  /\ Size \in Nat \ {0}

VARIABLES
  phase,      (* where main is in a turn of its loop                       *)
  active,     (* s_scr_active                                              *)
  inputbuf,   (* of every screen, its cells from 0 to Size - 1             *)
  i_inputbuf, (* of every screen                                           *)
  queue,      (* QUEUE_UI: lines, with the screen each was typed on        *)
  hand,       (* the lines main has taken and not handled yet              *)
  switched,   (* history: a line taken with those in hand showed a screen  *)
  draft       (* history: what the user sees that he has typed, by screen  *)

bufferVars == <<inputbuf, i_inputbuf>>
inputVars == <<phase, active, bufferVars, queue, hand, switched, draft>>

Empty == [i \in 0 .. Size - 1 |-> NUL]

InputInit ==
  /\ phase = "in" /\ active = Home
  /\ inputbuf = [s \in Screens |-> Empty] /\ i_inputbuf = [s \in Screens |-> 0]
  /\ queue = <<>> /\ hand = <<>> /\ switched = FALSE
  /\ draft = [s \in Screens |-> <<>>]

-----------------------------------------------------------------------------
(* process_console_input, a key at a time: st is the state of the screen    *)
(* that was active when it was called, and still is.                        *)

cells == inputbuf[active]
i == i_inputbuf[active]
Edits == phase = "console" /\ UNCHANGED <<phase, active, hand, switched>>

Buffer(c, n) ==
  /\ inputbuf' = [inputbuf EXCEPT ![active] = c]
  /\ i_inputbuf' = [i_inputbuf EXCEPT ![active] = n]

Draft(text) == draft' = [draft EXCEPT ![active] = text]
Erased(text) == SubSeq(text, 1, Len(text) - 1)

(* Mutant: the room for the NUL at the end is forgotten. *)
TypeUpToTheEnd(c) ==
  /\ Edits /\ c \in Chars
  /\ i < Size
  /\ Buffer([cells EXCEPT ![i] = c], i + 1)
  /\ Draft(Append(draft[active], c))
  /\ UNCHANGED queue

(* No NUL is written behind the character. *)
Type(c) ==
  /\ Edits /\ c \in Chars
  /\ i < Size - 1
  /\ Buffer([cells EXCEPT ![i] = c], i + 1)
  /\ Draft(Append(draft[active], c))
  /\ UNCHANGED queue

EraseLast ==
  /\ Edits /\ i > 0
  /\ Buffer([cells EXCEPT ![i - 1] = NUL], i - 1)
  /\ Draft(Erased(draft[active]))
  /\ UNCHANGED queue

(* A backspace key that has a character: it is typed after the erasing.     *)
EraseAndType(c) ==
  /\ Edits /\ c \in Chars /\ i > 0
  /\ Buffer([cells EXCEPT ![i - 1] = c], i)
  /\ Draft(Append(Erased(draft[active]), c))
  /\ UNCHANGED queue

(* What a C string shows of its cells. *)
Strlen(c) == CHOOSE n \in DOMAIN c : c[n] = NUL /\ \A k \in 0 .. n - 1 : c[k] # NUL
CString(c) == [k \in 1 .. Strlen(c) |-> c[k - 1]]

(* Mutant: only the first cell is cleared. *)
ReturnClearsFirst ==
  /\ Edits /\ i > 0
  /\ queue' = Append(queue, [text |-> CString(cells), from |-> active])
  /\ Buffer([cells EXCEPT ![0] = NUL], 0)
  /\ Draft(<<>>)

(* The line is copied to QUEUE_UI, then its cells are cleared, from the one *)
(* behind the text down to the first.                                       *)
Return ==
  /\ Edits /\ i > 0
  /\ queue' = Append(queue, [text |-> CString(cells), from |-> active])
  /\ Buffer([k \in DOMAIN cells |-> IF k <= i THEN NUL ELSE cells[k]], 0)
  /\ Draft(<<>>)

PressKey == EraseLast \/ Return \/ \E c \in Chars : Type(c) \/ EraseAndType(c)

-----------------------------------------------------------------------------
(* The other parts of a turn, as far as they concern the input. *)

Goes(here, there) ==
  /\ phase = here /\ phase' = there
  /\ UNCHANGED <<active, bufferVars, draft>>

(* msg_queue_takeall(QUEUE_UI) *)
TakeUi ==
  /\ Goes("in", "ui")
  /\ hand' = hand \o queue /\ queue' = <<>> /\ switched' = FALSE

IsCommand(line) == line.text[1] = Bang

Handles == phase = "ui" /\ hand # <<>> /\ hand' = Tail(hand)

(* !join and !show, as far as they find a screen. *)
ShowScreen ==
  /\ Handles /\ IsCommand(Head(hand))
  /\ active' \in Screens /\ switched' = TRUE
  /\ UNCHANGED <<phase, bufferVars, draft, queue>>

(* Any other line: a text is sent, and delivered to the active screen.      *)
HandleOther ==
  /\ Handles
  /\ UNCHANGED <<phase, active, switched, bufferVars, draft, queue>>

(* Mutant: the lines behind one that shows a screen wait for the next turn. *)
FreeUiOnSwitch ==
  /\ hand = <<>> \/ switched
  /\ Goes("ui", "console")
  /\ UNCHANGED <<queue, hand, switched>>

FreeUi ==
  /\ hand = <<>>
  /\ Goes("ui", "console")
  /\ UNCHANGED <<queue, hand, switched>>

NoMoreKeys == Goes("console", "draw") /\ UNCHANGED <<queue, hand, switched>>
EndTurn == Goes("draw", "in") /\ UNCHANGED <<queue, hand, switched>>

InputNext ==
  TakeUi \/ ShowScreen \/ HandleOther \/ FreeUi \/ PressKey \/ NoMoreKeys \/ EndTurn

InputSpec == InputInit /\ [][InputNext]_inputVars

-----------------------------------------------------------------------------
Lines == [text : Seq(Chars) \ {<<>>}, from : Screens]

InputTypeOK ==
  /\ phase \in {"in", "ui", "console", "draw"} /\ active \in Screens
  /\ inputbuf \in [Screens -> [0 .. Size - 1 -> Chars \cup {NUL}]]
  /\ i_inputbuf \in [Screens -> 0 .. Size - 1]
  /\ queue \in Seq(Lines) /\ hand \in Seq(Lines)
  /\ switched \in BOOLEAN
  /\ draft \in [Screens -> Seq(Chars)]

(* The buffer of every screen is a C string at all times, though no key      *)
(* writes a NUL behind what it adds: the text up to its first NUL is what    *)
(* the user has typed there, however often he went to other screens since,   *)
(* and i_inputbuf is its length.                                             *)
DraftsAreKept ==
  \A s \in Screens :
    /\ CString(inputbuf[s]) = draft[s]
    /\ i_inputbuf[s] = Len(draft[s])
    /\ \A k \in i_inputbuf[s] .. Size - 1 : inputbuf[s][k] = NUL

(* A line is handled with the screen active on which it was typed, unless a  *)
(* line taken with it has shown another: the lines that wait are all from    *)
(* the active screen, and so are those in hand until one of them switches.   *)
LinesMeetTheirScreen ==
  /\ \A k \in DOMAIN queue : queue[k].from = active
  /\ ~switched => \A k \in DOMAIN hand : hand[k].from = active
=============================================================================
