------------------------------ MODULE TextLayout ------------------------------
(***************************************************************************)
(* How src/screen_framework.c counts and cuts a message for the screen.    *)
(* Three functions read the formatting in a text, each in its own way:     *)
(* strlen_on_screen counts what shows, calc_screen_offset finds the byte   *)
(* where a row begins, translate_src_char_to_buf draws.  The definitions   *)
(* are those of the code, the reference they are compared with (tokens)    *)
(* stands in front of the properties.                                      *)
(*                                                                         *)
(* A text is a sequence of bytes, as far as the functions tell them apart: *)
(*   "x" printable, "m", "0" a digit, ",";  "hi" a byte above 127;         *)
(*   "esc" ESC, "col" IRC_FMT_COLOR, "bold" another byte of                *)
(*   irc_ctrl_chars, "ctl" any other control character but CR and LF.      *)
(***************************************************************************)
EXTENDS Integers, Sequences, FiniteSetsExt

NUL == "nul"
At(t, i) == IF i \in DOMAIN t THEN t[i] ELSE NUL
IsDigit(t, i) == At(t, i) = "0"

(* c >= ' ', where char is signed as it is for this compiler, and unsigned. *)
Printable(c) == c \in {"x", "m", "0", ","}
PrintableUnsigned(c) == Printable(c) \/ c = "hi"

(* The index behind the 'm' that ends an escape sequence.                   *)
Terminators(t, i) == {k \in i .. Len(t) : t[k] = "m"}
EscapeEnd(t, i) ==
  IF Terminators(t, i) = {} THEN Len(t) + 1 ELSE Min(Terminators(t, i)) + 1

-----------------------------------------------------------------------------
(* The three parsers of a colour sequence.  Each gives the index behind it. *)

(* Mutant: the comma that is no delimiter is not un-counted. *)
ColorEndOfStrlenComma(t, i) ==
  IF ~IsDigit(t, i + 1) THEN i + 1
  ELSE LET c == IF IsDigit(t, i + 2) THEN i + 3 ELSE i + 2
       IN  IF At(t, c) # "," THEN c
           ELSE IF IsDigit(t, c + 2) THEN c + 3 ELSE c + 2

ColorEndOfStrlen(t, i) ==
  IF ~IsDigit(t, i + 1) THEN i + 1
  ELSE LET c == IF IsDigit(t, i + 2) THEN i + 3 ELSE i + 2
       IN  IF At(t, c) # "," \/ ~IsDigit(t, c + 1) THEN c
           ELSE IF IsDigit(t, c + 2) THEN c + 3 ELSE c + 2

ColorEndOfOffset(t, i) ==
  LET first == IF IsDigit(t, i + 1) /\ IsDigit(t, i + 2) THEN i + 2 ELSE i + 1
  IN  IF ~IsDigit(t, i + 1) THEN i + 1
      ELSE IF At(t, first + 1) = "," /\ IsDigit(t, first + 2)
        THEN first + (IF IsDigit(t, first + 3) THEN 4 ELSE 3)
        ELSE first + 1

(* maxInc is how many bytes there are behind the colour byte, inc the one   *)
(* that is looked at; the comma may be looked at behind the end of the text, *)
(* which is the NUL.                                                         *)
ColorEndOfTranslate(t, i) ==
  LET maxInc == Len(t) - i
      two    == maxInc >= 2 /\ IsDigit(t, i + 2)
      comma  == IF two THEN 3 ELSE 2
      second == comma + 1
      read   == IF ~IsDigit(t, i + 1) THEN 1
                ELSE IF \/ maxInc < 2 \/ At(t, i + comma) # ","
                        \/ second > maxInc \/ ~IsDigit(t, i + second) THEN comma
                ELSE IF second + 1 <= maxInc /\ IsDigit(t, i + second + 1)
                  THEN comma + 3 ELSE comma + 2
  IN  i + read

-----------------------------------------------------------------------------
(* strlen_on_screen *)

AfterEscapes(t, i) ==
  LET after[j \in 1 .. Len(t) + 1] ==
        IF At(t, j) = "esc" THEN after[EscapeEnd(t, j)] ELSE j
  IN  after[i]

(* Mutant: one colour is passed over, not all that stand here. *)
AfterOneColor(t, i) == IF At(t, i) = "col" THEN ColorEndOfStrlen(t, i) ELSE i

AfterColors(t, i) ==
  LET after[j \in 1 .. Len(t) + 1] ==
        IF At(t, j) = "col" THEN after[ColorEndOfStrlen(t, j)] ELSE j
  IN  after[i]

(* A loop over the text: a control character is passed over, and so are the *)
(* escapes and then the colours that stand here; what follows them counts   *)
(* if it is printable, and is passed over in any case.                      *)
StrlenOnScreen(t) ==
  LET count[i \in 1 .. Len(t) + 2] ==
        IF i > Len(t) THEN 0
        ELSE IF t[i] \in {"bold", "ctl", "hi"} THEN count[i + 1]
        ELSE LET k == AfterColors(t, AfterEscapes(t, i))
             IN  (IF Printable(At(t, k)) THEN 1 ELSE 0) + count[k + 1]
  IN  count[1]

NumLines(t, cols) == (StrlenOnScreen(t) + cols - 1) \div cols

-----------------------------------------------------------------------------
(* calc_screen_offset.  n is rows * cols.  irc_ctrl_chars has no NUL at its *)
(* end: stray are the bytes that strchr finds in the memory behind it, up   *)
(* to the first NUL there.                                                  *)

Table(stray) == {"bold"} \cup stray

(* Mutant: the replay buffer gets only the first byte of a colour sequence. *)
OffsetStepShort(t, s, stray) ==
  LET c   == t[s.i]
      end == CASE c = "esc" -> EscapeEnd(t, s.i)
               [] c = "col" -> ColorEndOfOffset(t, s.i)
               [] OTHER     -> s.i + 1
      seen == c \notin {"esc", "col"} \cup Table(stray) /\ PrintableUnsigned(c)
  IN  [i |-> end,
       vis |-> IF seen THEN s.vis + 1 ELSE s.vis,
       offset |-> IF seen THEN s.offset ELSE s.offset + (end - s.i),
       replay |-> IF c \in {"esc", "col"} \cup Table(stray)
                    THEN s.replay \o SubSeq(t, s.i, IF c = "col" THEN s.i ELSE end - 1)
                    ELSE s.replay]

OffsetStep(t, s, stray) ==
  LET c   == t[s.i]
      end == CASE c = "esc" -> EscapeEnd(t, s.i)
               [] c = "col" -> ColorEndOfOffset(t, s.i)
               [] OTHER     -> s.i + 1
      seen == c \notin {"esc", "col"} \cup Table(stray) /\ PrintableUnsigned(c)
  IN  [i |-> end,
       vis |-> IF seen THEN s.vis + 1 ELSE s.vis,
       offset |-> IF seen THEN s.offset ELSE s.offset + (end - s.i),
       replay |-> IF c \in {"esc", "col"} \cup Table(stray)
                    THEN s.replay \o SubSeq(t, s.i, end - 1)
                    ELSE s.replay]

(* The loop, which reads a byte at least each time, until n of them show.   *)
OffsetSteps(t, n, stray) ==
  LET after[k \in 0 .. Len(t)] ==
        IF k = 0 THEN [i |-> 1, vis |-> 0, offset |-> n, replay |-> <<>>]
        ELSE IF after[k - 1].vis >= n \/ after[k - 1].i > Len(t) THEN after[k - 1]
        ELSE OffsetStep(t, after[k - 1], stray)
  IN  after[Len(t)]

CalcScreenOffset(t, n, stray) ==
  LET s == OffsetSteps(t, n, stray)
  IN  IF s.vis >= n THEN s ELSE [s EXCEPT !.offset = 0, !.replay = <<>>]

-----------------------------------------------------------------------------
(* translate_src_char_to_buf, called until the text is read: how many of    *)
(* the bytes it copies show on the terminal, which takes the escapes that    *)
(* are copied for what they are.                                            *)
Drawn(t) ==
  LET draw[i \in 1 .. Len(t) + 1] ==
        IF i > Len(t) THEN 0
        ELSE CASE t[i] = "col" -> draw[ColorEndOfTranslate(t, i)]
               [] t[i] = "esc" -> draw[EscapeEnd(t, i)]
               [] OTHER -> (IF PrintableUnsigned(t[i]) THEN 1 ELSE 0) + draw[i + 1]
  IN  draw[1]

-----------------------------------------------------------------------------
(* The reference: a text is a sequence of tokens, given by where they begin. *)

ColorForms ==
  {<<"col">>, <<"col", "0">>, <<"col", "0", "0">>,
   <<"col", "0", ",", "0">>, <<"col", "0", ",", "0", "0">>,
   <<"col", "0", "0", ",", "0">>, <<"col", "0", "0", ",", "0", "0">>}

Stands(f, t, i) == \A k \in DOMAIN f : At(t, i + k - 1) = f[k]

(* IRC formatting: the longest of the forms that stands there.              *)
ColorSequence(t, i) == Max({Len(f) : f \in {g \in ColorForms : Stands(g, t, i)}})

TokenEnd(t, i) ==
  CASE t[i] = "esc" -> EscapeEnd(t, i)
    [] t[i] = "col" -> i + ColorSequence(t, i)
    [] OTHER        -> i + 1

(* How many bytes show, and the sequences that format.                       *)
Visible(t) ==
  LET from[i \in 1 .. Len(t) + 1] ==
        IF i > Len(t) THEN 0
        ELSE (IF PrintableUnsigned(t[i]) THEN 1 ELSE 0) + from[TokenEnd(t, i)]
  IN  from[1]

Formatting(t) ==
  LET from[i \in 1 .. Len(t) + 1] ==
        IF i > Len(t) THEN <<>>
        ELSE (IF t[i] \in {"esc", "col", "bold"}
                THEN <<SubSeq(t, i, TokenEnd(t, i) - 1)>> ELSE <<>>)
             \o from[TokenEnd(t, i)]
  IN  from[1]

(* Escape sequences end, and have only printable ASCII in them: of others    *)
(* the assertions make an end.                                              *)
WellFormed(t) ==
  \A i \in DOMAIN t : t[i] = "esc" =>
    /\ t[EscapeEnd(t, i) - 1] = "m"
    /\ \A j \in i + 1 .. EscapeEnd(t, i) - 1 : Printable(t[j])

(* No byte above 127, and no escape directly behind a colour.                *)
IsAscii(t) == \A i \in DOMAIN t : t[i] # "hi"
ColorsStandAlone(t) ==
  \A i \in DOMAIN t : t[i] = "col" => At(t, TokenEnd(t, i)) # "esc"

-----------------------------------------------------------------------------
(* The three functions read the same formatting out of a text.              *)
ColorsAreReadAlike(t) ==
  \A i \in {k \in DOMAIN t : t[k] = "col"} :
    LET end == i + ColorSequence(t, i) IN
      ColorEndOfStrlen(t, i) = end /\ ColorEndOfOffset(t, i) = end
        /\ ColorEndOfTranslate(t, i) = end

(* What shows is what is drawn, and the rows that are reserved for a text    *)
(* are those that it is drawn on: as many characters are counted as drawn.   *)
ShowsAreDrawn(t) == WellFormed(t) => Drawn(t) = Visible(t)
RowsAreThoseDrawn(t) == WellFormed(t) => StrlenOnScreen(t) = Drawn(t)

(* A message that is cut where a row begins: the rows in front and behind   *)
(* are together those of the message, no sequence is cut in two, the cut is *)
(* inside the text, and the formats in front of it are those replayed - as  *)
(* long as no byte that shows is found behind the table.                    *)
CutsAreClean(t, stray) ==
  WellFormed(t) /\ (\A c \in stray : ~PrintableUnsigned(c)) =>
    \A n \in 1 .. Visible(t) - 1 :
      LET r     == CalcScreenOffset(t, n, stray)
          front == SubSeq(t, 1, r.offset)
          back  == SubSeq(t, r.offset + 1, Len(t))
      IN  /\ r.vis = n /\ r.offset < Len(t)
          /\ Drawn(front) = n /\ Drawn(back) = Drawn(t) - n
          /\ Formatting(r.replay) = Formatting(front)
          /\ Len(r.replay) < r.offset
=============================================================================
