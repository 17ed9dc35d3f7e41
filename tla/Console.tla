------------------------------- MODULE Console -------------------------------
(***************************************************************************)
(* The user at the console: the keys of ConsoleInput and the mouse wheel,  *)
(* and draw_screen of src/main.c, which shows a section of the log of the  *)
(* active screen.  Messages come in, old ones are thrown away, the window  *)
(* may have another size at every draw.                                    *)
(***************************************************************************)
EXTENDS ConsoleInput, ScreenView

CONSTANTS
  Lengths,    (* how many characters of a message show                     *)
  Windows,    (* [rows, cols]; rows without those of the tabs and header   *)
  PromptLen,
  MaxLog,     (* how many messages a screen log keeps                      *)
  MaxMsgs, MaxKeys, MaxWheel,  (* bound the model: how much of each there  *)
  MaxEvents                    (* is, and how much together                *)

(* A prompt is DEFAULT_PROMPT, a log keeps at least the message that came    *)
(* last, and no window is without a column.                                  *)
ASSUME ViewAssumption ==
  /\ Lengths \subseteq Nat /\ Windows \subseteq [rows : Int, cols : Nat \ {0}]
  /\ PromptLen \in Nat \ {0} /\ MaxLog \in Nat \ {0}

VARIABLES
  log,                    (* of every screen: the lengths of its messages  *)
  scroll, scroll_at_top,  (* of every screen                               *)
  shown,                  (* the rows of the log that stand on the terminal *)
  did                     (* how many messages, keys and wheel events were *)

viewVars == <<scroll, scroll_at_top, shown>>
vars == <<inputVars, log, viewVars, did>>

Does(what, max) ==
  /\ did[what] < max /\ did.msgs + did.keys + did.wheel < MaxEvents
  /\ did' = [did EXCEPT ![what] = @ + 1]

(* The static screen of home begins at the top, the others as calloc does.   *)
Init ==
  /\ InputInit
  /\ log = [s \in Screens |-> <<>>]
  /\ scroll = [s \in Screens |-> 0] /\ scroll_at_top = [s \in Screens |-> s = Home]
  /\ shown = <<>>
  /\ did = [msgs |-> 0, keys |-> 0, wheel |-> 0]

(* A message at the tail; the one at the head goes when there are too many. *)
Deliver(s) ==
  /\ Does("msgs", MaxMsgs)
  /\ \E n \in Lengths :
       log' = [log EXCEPT ![s] =
                 Append(IF Len(@) < MaxLog THEN @ ELSE Tail(@), n)]

FromServer ==
  /\ phase = "in"
  /\ \E s \in Screens : Deliver(s)
  /\ UNCHANGED <<inputVars, viewVars>>

FromUser == HandleOther /\ Deliver(active) /\ UNCHANGED viewVars

Keys == PressKey /\ Does("keys", MaxKeys) /\ UNCHANGED <<log, viewVars>>

(* The turn goes on. *)
Turn ==
  /\ TakeUi \/ ShowScreen \/ HandleOther \/ FreeUi \/ NoMoreKeys
  /\ UNCHANGED <<log, viewVars, did>>

WheelDown ==
  /\ phase = "console" /\ Does("wheel", MaxWheel)
  /\ scroll' = [scroll EXCEPT ![active] = Max({@ - 1, 0})]
  /\ UNCHANGED <<inputVars, log, scroll_at_top, shown>>

WheelUp ==
  /\ phase = "console" /\ Does("wheel", MaxWheel)
  /\ scroll' = [scroll EXCEPT ![active] = IF scroll_at_top[active] THEN @ ELSE @ + 1]
  /\ UNCHANGED <<inputVars, log, scroll_at_top, shown>>

(* What the input line leaves of the window. *)
RowsLeft(w) == w.rows - ((PromptLen + i - 1) \div w.cols + 1)

Heights(w) == [k \in DOMAIN log[active] |-> (log[active][k] + w.cols - 1) \div w.cols]

(* draw_screen; it asserts that a row is left.  Of an empty log nothing is   *)
(* written, and its scroll position is not looked at.                       *)
Draw(w) ==
  /\ EndTurn
  /\ RowsLeft(w) > 0
  /\ IF log[active] = <<>>
       THEN shown' = <<>> /\ UNCHANGED <<scroll, scroll_at_top>>
       ELSE LET v == View(Heights(w), scroll[active], RowsLeft(w)) IN
              /\ shown' = v.shown
              /\ scroll' = [scroll EXCEPT ![active] = v.scroll]
              /\ scroll_at_top' = [scroll_at_top EXCEPT ![active] = v.scroll_at_top]
  /\ UNCHANGED <<log, did>>

Next ==
  \/ FromServer \/ FromUser \/ Keys \/ Turn \/ WheelDown \/ WheelUp
  \/ \E w \in Windows : Draw(w)

Spec == Init /\ [][Next]_vars

-----------------------------------------------------------------------------
TypeOK ==
  /\ InputTypeOK
  /\ log \in [Screens -> Seq(Lengths)] /\ scroll \in [Screens -> Nat]
  /\ scroll_at_top \in [Screens -> BOOLEAN]
  /\ shown \in Seq(Nat \X Nat)

Fits(h, rows) == \A k \in DOMAIN h : h[k] \in 1 .. rows

(* Whatever the user has done, what came in and went, and however the window *)
(* was changed: what a draw shows are the rows of the log that end as far    *)
(* above its last one as the wheel has asked for, or its first rows when     *)
(* that is too far; the scroll position is brought down to where it is, and  *)
(* the screen is at the top only if its first row shows.  With the rows of   *)
(* the input line they are not more than the window has.  This is so as long *)
(* as no message is higher than the window.                                  *)
DrawShowsSection ==
  [][\A w \in Windows :
       LET h == Heights(w)
           n == RowsLeft(w)
       IN  Draw(w) /\ log[active] # <<>> /\ Fits(h, n) =>
             /\ shown' = Section(h, scroll[active], n)
             /\ scroll'[active] = Min({scroll[active], Highest(h, n)})
             /\ scroll_at_top'[active] => shown'[1] = <<1, 1>>
             /\ Len(shown') + (PromptLen + Len(draft[active]) + w.cols - 1) \div w.cols
                  <= w.rows]_vars
=============================================================================
