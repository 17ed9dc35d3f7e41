------------------------------- MODULE MCTexts -------------------------------
(* All short inputs of the functions on text: a subject is chosen and its    *)
(* input grows by one item at a time.                                       *)
EXTENDS TextLayout, IrcParse, Formatters

CONSTANTS
  MaxFormat, MaxColor, MaxLine,   (* bound the length of the texts and lines *)
  Sizes, Lengths                  (* the sizes of s_scrbuf, lengths of texts *)

MCSizes == 12 .. 80
MCLengths == 0 .. 3

ASSUME SizesAssumption == Sizes \subseteq Nat /\ Lengths \subseteq Nat

VARIABLES subject, input

Init == subject \in {"format", "color", "line", "buffer"} /\ input = <<>>

Grow(item, max) ==
  /\ Len(input) < max
  /\ input' = Append(input, item) /\ UNCHANGED subject

GrowText ==
  \/ /\ subject = "format"
     /\ \E c \in {"esc", "m", "col", "0", "bold", "ctl", "hi"} : Grow(c, MaxFormat)
  \/ /\ subject = "color"
     /\ \E c \in {"col", "0", ",", "x"} : Grow(c, MaxColor)

GrowLine == subject = "line" /\ \E c \in {":", " ", "a"} : Grow(c, MaxLine)

GrowBuffer ==
  /\ subject = "buffer"
  /\ \E n \in IF input = <<>> THEN Sizes ELSE Lengths : Grow(n, 3)

Complete == UNCHANGED <<subject, input>>

Next == GrowText \/ GrowLine \/ GrowBuffer \/ Complete

Spec == Init /\ [][Next]_<<subject, input>>

IsText == subject \in {"format", "color"}
IsBuffer == subject = "buffer" /\ Len(input) = 3

-----------------------------------------------------------------------------
(* strlen_on_screen, calc_screen_offset and translate_src_char_to_buf agree  *)
(* where each colour sequence of a text ends, and it is the longest one.     *)
ColorsReadAlike == IsText => ColorsAreReadAlike(input)

(* Of every text that shows which is drawn, and strlen_on_screen reserves    *)
(* the rows for a text that it is drawn on - if it is ASCII and no escape    *)
(* stands directly behind a colour; of the other texts see RowsReserved.     *)
RowsAsDrawn ==
  IsText =>
    /\ ShowsAreDrawn(input)
    /\ IsAscii(input) /\ ColorsStandAlone(input) => RowsAreThoseDrawn(input)

(* A message that is cut for the first or last rows of the view loses no row *)
(* and no format, and no sequence is cut in two.                             *)
CleanCuts == IsText => \A stray \in SUBSET {"ctl"} : CutsAreClean(input, stray)

(* A well-formed line of the server is split into what it means.  Any other  *)
(* ends the program, where include/msgutils.h promises NULL.                 *)
LinesAreSplit == subject = "line" => LineIsSplit(input)

(* What screenfmt_default and screenfmt_privmsg say they have written is      *)
(* there, and shows; for any message that fits the buffer.                   *)
FormattedShows ==
  IsBuffer =>
    /\ CountedIsShown(DefaultOps(input[2], input[3]), input[1])
    /\ \A self \in BOOLEAN :
         CountedIsShown(PrivmsgOps(input[2], input[3], self), input[1])

-----------------------------------------------------------------------------
(* What the comments promise and the code does not do. *)

(* Rows are reserved for all that is drawn, and only for that.  "extended     *)
(* ASCII chars are common and evaluate negative as signed chars, but they    *)
(* are printable!" (calc_screen_offset), and strlen_on_screen does not count *)
(* them; "Fast-forward through ANSI escapes" (strlen_on_screen), and it does *)
(* not look for one behind a colour.                                         *)
RowsReserved == IsText => RowsAreThoseDrawn(input)

(* What screenfmt_privmsg_error reports as formatted shows: "Timestamp,       *)
(* author info, formatting, etc. should all be interpolated into the string   *)
(* already" (screenlog_node).  Its second colour ends the string.            *)
ErrorsShow == IsBuffer => TextShows(ErrorOps(input[2], input[3]), input[1])
=============================================================================
