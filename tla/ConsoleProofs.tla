---------------------------- MODULE ConsoleProofs ----------------------------
(***************************************************************************)
(* Proofs about ConsoleInput, for input lines of any size, any characters  *)
(* and any number of screens, and that Console does no more to them.       *)
(***************************************************************************)
EXTENDS Console, Induction

(* The text of the first n cells. *)
TextOf(c, n) == [k \in 1 .. n |-> c[k - 1]]

Cells == [0 .. Size - 1 -> Chars \cup {NUL}]

(* A buffer with a text: text in front, NULs behind.                         *)
IsBuffer(c, n, text) ==
  /\ c \in Cells /\ n \in 0 .. Size - 1
  /\ \A k \in 0 .. n - 1 : c[k] \in Chars
  /\ \A k \in n .. Size - 1 : c[k] = NUL
  /\ text = TextOf(c, n)

BufferInv == \A s \in Screens : IsBuffer(inputbuf[s], i_inputbuf[s], draft[s])

(* Lines wait only between the console and the next walk through them, and   *)
(* are in hand only on that walk.                                            *)
FlowInv == /\ phase = "ui" => queue = <<>>
           /\ phase # "ui" => hand = <<>>

IInv == InputTypeOK /\ BufferInv /\ FlowInv /\ LinesMeetTheirScreen

(* What a buffer shows is its text.                                          *)
LEMMA BufferShows ==
  ASSUME NEW c, NEW n, NEW text, IsBuffer(c, n, text)
  PROVE  CString(c) = text /\ Len(text) = n /\ text \in Seq(Chars)
<1>1. /\ n \in DOMAIN c /\ n \in Nat /\ c[n] = NUL /\ DOMAIN c = 0 .. Size - 1
      /\ \A k \in 0 .. n - 1 : c[k] # NUL
  BY InputAssumption DEF IsBuffer, Cells
<1>2. ASSUME NEW m \in DOMAIN c, c[m] = NUL, \A k \in 0 .. m - 1 : c[k] # NUL
      PROVE  m = n
  <2>1. ~(m < n)
    BY <1>1, <1>2
  <2>2. ~(n < m)
    BY <1>1, <1>2
  <2>3. QED BY <1>1, <2>1, <2>2, InputAssumption
<1>3. Strlen(c) = n
  BY <1>1, <1>2 DEF Strlen
<1>4. \A k \in 1 .. n : c[k - 1] \in Chars
  BY <1>1 DEF IsBuffer
<1>5. TextOf(c, n) \in Seq(Chars) /\ Len(TextOf(c, n)) = n
  BY <1>1, <1>4 DEF TextOf
<1>6. QED BY <1>3, <1>5 DEF IsBuffer, CString, TextOf

(* A character behind the text, and the text without its last character.     *)
LEMMA TypedBuffer ==
  ASSUME NEW c, NEW n, NEW text, IsBuffer(c, n, text), n < Size - 1, NEW x \in Chars
  PROVE  IsBuffer([c EXCEPT ![n] = x], n + 1, Append(text, x))
<1>1. n \in Nat /\ n + 1 \in 0 .. Size - 1 /\ Size \in Nat /\ n \in 0 .. Size - 1
  BY InputAssumption DEF IsBuffer
<1> DEFINE d == [c EXCEPT ![n] = x]
<1>2. d \in Cells /\ d[n] = x /\ \A k \in 0 .. Size - 1 : k # n => d[k] = c[k]
  BY <1>1 DEF IsBuffer, Cells
<1>3. Append(TextOf(c, n), x) = [k \in 1 .. n + 1 |-> IF k = n + 1 THEN x ELSE c[k - 1]]
  <2>1. TextOf(c, n) \in Seq(Chars) /\ Len(TextOf(c, n)) = n
    BY BufferShows DEF IsBuffer
  <2>2. QED BY <1>1, <2>1 DEF TextOf
<1>4. Append(TextOf(c, n), x) = TextOf(d, n + 1)
  <2>1. \A k \in 1 .. n + 1 : (IF k = n + 1 THEN x ELSE c[k - 1]) = d[k - 1]
    BY <1>1, <1>2
  <2> HIDE DEF d
  <2>2. QED BY <1>3, <2>1 DEF TextOf
<1>5. /\ \A k \in 0 .. (n + 1) - 1 : d[k] \in Chars
      /\ \A k \in n + 1 .. Size - 1 : d[k] = NUL
  BY <1>1, <1>2 DEF IsBuffer
<1>6. QED BY <1>1, <1>2, <1>4, <1>5 DEF IsBuffer

LEMMA ErasedBuffer ==
  ASSUME NEW c, NEW n, NEW text, IsBuffer(c, n, text), n > 0
  PROVE  IsBuffer([c EXCEPT ![n - 1] = NUL], n - 1, Erased(text))
<1>1. n \in Nat /\ n - 1 \in 0 .. Size - 1 /\ Size \in Nat /\ n <= Size - 1
  BY InputAssumption DEF IsBuffer
<1> DEFINE d == [c EXCEPT ![n - 1] = NUL]
<1>2. d \in Cells /\ d[n - 1] = NUL /\ \A k \in 0 .. Size - 1 : k # n - 1 => d[k] = c[k]
  BY <1>1 DEF IsBuffer, Cells
<1>3. Erased(text) = TextOf(c, n - 1)
  <2>1. text \in Seq(Chars) /\ Len(text) = n /\ text = TextOf(c, n)
    BY BufferShows DEF IsBuffer
  <2>2. SubSeq(text, 1, n - 1) = [k \in 1 .. n - 1 |-> text[k]]
    BY <1>1, <2>1
  <2>3. \A k \in 1 .. n - 1 : text[k] = c[k - 1]
    BY <1>1, <2>1 DEF TextOf
  <2>4. QED BY <2>1, <2>2, <2>3 DEF Erased, TextOf
<1>4. TextOf(c, n - 1) = TextOf(d, n - 1)
  <2>1. \A k \in 1 .. n - 1 : c[k - 1] = d[k - 1]
    BY <1>1, <1>2
  <2> HIDE DEF d
  <2>2. QED BY <2>1 DEF TextOf
<1>5. /\ \A k \in 0 .. (n - 1) - 1 : d[k] \in Chars
      /\ \A k \in n - 1 .. Size - 1 : d[k] = NUL
  BY <1>1, <1>2 DEF IsBuffer
<1>6. QED BY <1>1, <1>2, <1>3, <1>4, <1>5 DEF IsBuffer

(* The return key clears as far as the NUL behind the text, which is enough. *)
LEMMA ClearedBuffer ==
  ASSUME NEW c, NEW n, NEW text, IsBuffer(c, n, text)
  PROVE  IsBuffer([k \in DOMAIN c |-> IF k <= n THEN NUL ELSE c[k]], 0, <<>>)
<1>1. n \in Nat /\ Size \in Nat \ {0} /\ DOMAIN c = 0 .. Size - 1
  BY InputAssumption DEF IsBuffer, Cells
<1> DEFINE d == [k \in DOMAIN c |-> IF k <= n THEN NUL ELSE c[k]]
<1>2. \A k \in 0 .. Size - 1 : d[k] = NUL
  BY <1>1 DEF IsBuffer
<1>3. d \in Cells
  BY <1>1, <1>2 DEF Cells
<1>4. TextOf(d, 0) = <<>>
  BY DEF TextOf
<1>5. QED BY <1>1, <1>2, <1>3, <1>4 DEF IsBuffer

-----------------------------------------------------------------------------
LEMMA InitInv == InputInit => IInv
<1> SUFFICES ASSUME InputInit PROVE IInv
  OBVIOUS
<1>1. Size - 1 \in Nat /\ 0 \in 0 .. Size - 1 /\ Size \in Nat
  BY InputAssumption
<1>2. IsBuffer(Empty, 0, <<>>)
  <2>1. Empty \in Cells /\ \A k \in 0 .. Size - 1 : Empty[k] = NUL
    BY DEF Empty, Cells
  <2>2. TextOf(Empty, 0) = <<>>
    BY DEF TextOf
  <2>3. QED BY <1>1, <2>1, <2>2 DEF IsBuffer
<1>3. /\ DOMAIN inputbuf = Screens /\ DOMAIN i_inputbuf = Screens /\ DOMAIN draft = Screens
      /\ \A s \in Screens : inputbuf[s] = Empty /\ i_inputbuf[s] = 0 /\ draft[s] = <<>>
  BY DEF InputInit
<1>4. BufferInv
  BY <1>2, <1>3 DEF BufferInv
<1>5. InputTypeOK
  <2>1. inputbuf \in [Screens -> [0 .. Size - 1 -> Chars \cup {NUL}]]
    BY <1>2 DEF InputInit, IsBuffer, Cells
  <2>2. i_inputbuf \in [Screens -> 0 .. Size - 1] /\ draft \in [Screens -> Seq(Chars)]
    BY <1>1 DEF InputInit
  <2>3. /\ phase \in {"in", "ui", "console", "draw"} /\ active \in Screens
        /\ switched \in BOOLEAN
    BY InputAssumption DEF InputInit
  <2>4. queue \in Seq(Lines) /\ hand \in Seq(Lines)
    BY DEF InputInit
  <2>5. QED BY <2>1, <2>2, <2>3, <2>4 DEF InputTypeOK
<1>6. FlowInv /\ LinesMeetTheirScreen
  BY DEF InputInit, FlowInv, LinesMeetTheirScreen
<1>7. QED BY <1>4, <1>5, <1>6 DEF IInv

(* A key changes one buffer, and leaves the others alone.                    *)
LEMMA BufferChange ==
  ASSUME InputTypeOK, BufferInv, NEW c, NEW n, NEW text, IsBuffer(c, n, text),
         Buffer(c, n), Draft(text)
  PROVE  /\ BufferInv'
         /\ inputbuf' \in [Screens -> [0 .. Size - 1 -> Chars \cup {NUL}]]
         /\ i_inputbuf' \in [Screens -> 0 .. Size - 1]
         /\ draft' \in [Screens -> Seq(Chars)]
<1>1. c \in Cells /\ n \in 0 .. Size - 1 /\ text \in Seq(Chars)
  BY BufferShows DEF IsBuffer
<1>2. /\ inputbuf' \in [Screens -> [0 .. Size - 1 -> Chars \cup {NUL}]]
      /\ i_inputbuf' \in [Screens -> 0 .. Size - 1]
      /\ draft' \in [Screens -> Seq(Chars)]
  BY <1>1 DEF InputTypeOK, Buffer, Draft, Cells
<1>3. ASSUME NEW s \in Screens
      PROVE  IsBuffer(inputbuf'[s], i_inputbuf'[s], draft'[s])
  <2>1. CASE s = active
    <3>1. inputbuf'[s] = c /\ i_inputbuf'[s] = n /\ draft'[s] = text
      BY <2>1 DEF InputTypeOK, Buffer, Draft
    <3>2. QED BY <3>1
  <2>2. CASE s # active
    <3>1. inputbuf'[s] = inputbuf[s] /\ i_inputbuf'[s] = i_inputbuf[s] /\ draft'[s] = draft[s]
      BY <2>2 DEF InputTypeOK, Buffer, Draft
    <3>2. QED BY <3>1 DEF BufferInv
  <2>3. QED BY <2>1, <2>2
<1>4. QED BY <1>2, <1>3 DEF BufferInv

(* The keys.                                                                 *)
LEMMA KeyInv == IInv /\ PressKey => IInv'
<1> SUFFICES ASSUME IInv, PressKey PROVE IInv'
  OBVIOUS
<1>1. /\ InputTypeOK /\ BufferInv /\ FlowInv /\ LinesMeetTheirScreen
      /\ IsBuffer(cells, i, draft[active]) /\ active \in Screens
  BY DEF IInv, BufferInv, InputTypeOK, cells, i
<1>2. phase = "console" /\ UNCHANGED <<phase, active, hand, switched>>
  BY DEF PressKey, EraseLast, Return, Type, EraseAndType, Edits
<1>3. i \in Nat /\ Len(draft[active]) = i /\ CString(cells) = draft[active]
      /\ draft[active] \in Seq(Chars) /\ i <= Size - 1 /\ Size \in Nat
  BY <1>1, BufferShows, InputAssumption DEF IsBuffer
<1>4. /\ BufferInv'
      /\ inputbuf' \in [Screens -> [0 .. Size - 1 -> Chars \cup {NUL}]]
      /\ i_inputbuf' \in [Screens -> 0 .. Size - 1]
      /\ draft' \in [Screens -> Seq(Chars)]
  <2>1. CASE EraseLast
    BY <1>1, <2>1, ErasedBuffer, BufferChange DEF EraseLast
  <2>2. CASE Return
    BY <1>1, <2>2, ClearedBuffer, BufferChange DEF Return
  <2>3. ASSUME NEW x \in Chars, Type(x)
        PROVE  /\ BufferInv'
               /\ inputbuf' \in [Screens -> [0 .. Size - 1 -> Chars \cup {NUL}]]
               /\ i_inputbuf' \in [Screens -> 0 .. Size - 1]
               /\ draft' \in [Screens -> Seq(Chars)]
    BY <1>1, <2>3, TypedBuffer, BufferChange DEF Type
  <2>4. ASSUME NEW x \in Chars, EraseAndType(x)
        PROVE  /\ BufferInv'
               /\ inputbuf' \in [Screens -> [0 .. Size - 1 -> Chars \cup {NUL}]]
               /\ i_inputbuf' \in [Screens -> 0 .. Size - 1]
               /\ draft' \in [Screens -> Seq(Chars)]
    <3> DEFINE d == [cells EXCEPT ![i - 1] = NUL]
    <3>1. i > 0 /\ Buffer([cells EXCEPT ![i - 1] = x], i) /\ Draft(Append(Erased(draft[active]), x))
      BY <2>4 DEF EraseAndType
    <3>2. IsBuffer(d, i - 1, Erased(draft[active]))
      BY <1>1, <3>1, ErasedBuffer
    <3>3. IsBuffer([d EXCEPT ![i - 1] = x], i - 1 + 1, Append(Erased(draft[active]), x))
      <4> HIDE DEF d
      <4>1. i - 1 < Size - 1
        BY <1>3, <3>1
      <4>2. QED BY <3>2, <4>1, TypedBuffer
    <3>4. [d EXCEPT ![i - 1] = x] = [cells EXCEPT ![i - 1] = x]
      BY <1>1 DEF IsBuffer, Cells
    <3>5. i - 1 + 1 = i
      BY <1>3
    <3>6. IsBuffer([cells EXCEPT ![i - 1] = x], i, Append(Erased(draft[active]), x))
      BY <3>3, <3>4, <3>5
    <3>7. QED BY <1>1, <3>1, <3>6, BufferChange
  <2>5. QED BY <2>1, <2>2, <2>3, <2>4 DEF PressKey
<1>5. /\ queue' \in Seq(Lines)
      /\ \A k \in DOMAIN queue' : queue'[k].from = active
  <2>1. CASE Return
    <3> DEFINE l == [text |-> CString(cells), from |-> active]
    <3>1. i > 0 /\ queue' = Append(queue, l)
      BY <2>1 DEF Return
    <3>2. draft[active] # <<>>
      BY <1>3, <3>1
    <3>3. l \in Lines /\ l.from = active
      BY <1>1, <1>3, <3>2 DEF Lines
    <3> HIDE DEF l
    <3>4. queue \in Seq(Lines) /\ \A k \in DOMAIN queue : queue[k].from = active
      BY <1>1 DEF InputTypeOK, LinesMeetTheirScreen
    <3>5. QED BY <3>1, <3>3, <3>4
  <2>2. CASE UNCHANGED queue
    BY <1>1, <2>2 DEF InputTypeOK, LinesMeetTheirScreen
  <2>3. QED BY <2>1, <2>2 DEF PressKey, EraseLast, Type, EraseAndType
<1>6. InputTypeOK'
  BY <1>1, <1>2, <1>4, <1>5 DEF InputTypeOK
<1>7. FlowInv'
  BY <1>1, <1>2 DEF FlowInv
<1>8. LinesMeetTheirScreen'
  BY <1>1, <1>2, <1>5 DEF LinesMeetTheirScreen
<1>9. QED BY <1>4, <1>6, <1>7, <1>8 DEF IInv

(* The other steps of a turn leave the buffers alone.                        *)
LEMMA TurnInv ==
  IInv /\ (TakeUi \/ ShowScreen \/ HandleOther \/ FreeUi \/ NoMoreKeys \/ EndTurn) => IInv'
<1> SUFFICES ASSUME IInv, TakeUi \/ ShowScreen \/ HandleOther \/ FreeUi \/ NoMoreKeys \/ EndTurn
             PROVE  IInv'
  OBVIOUS
<1> USE DEF IInv
<1>1. UNCHANGED <<inputbuf, i_inputbuf, draft>>
  BY DEF TakeUi, ShowScreen, HandleOther, FreeUi, NoMoreKeys, EndTurn, Goes, bufferVars
<1>2. BufferInv'
  BY <1>1 DEF BufferInv
<1>3. queue \in Seq(Lines) /\ hand \in Seq(Lines)
  BY DEF InputTypeOK
<1>4. CASE TakeUi
  <2>1. hand = <<>> /\ hand' = hand \o queue /\ queue' = <<>> /\ switched' = FALSE
        /\ phase' = "ui" /\ active' = active
    BY <1>4 DEF TakeUi, Goes, FlowInv
  <2>2. hand' = queue
    BY <1>3, <2>1
  <2>3. InputTypeOK'
    BY <1>1, <1>3, <2>1, <2>2 DEF InputTypeOK
  <2>4. FlowInv' /\ LinesMeetTheirScreen'
    BY <2>1, <2>2 DEF FlowInv, LinesMeetTheirScreen
  <2>5. QED BY <1>2, <2>3, <2>4
<1>5. CASE ShowScreen \/ HandleOther
  <2>1. /\ phase = "ui" /\ phase' = phase /\ hand # <<>> /\ hand' = Tail(hand)
        /\ queue' = queue /\ queue = <<>>
    BY <1>5 DEF ShowScreen, HandleOther, Handles, FlowInv
  <2>2. /\ active' \in Screens /\ switched' \in BOOLEAN
        /\ ~switched' => ~switched /\ active' = active
    BY <1>5 DEF ShowScreen, HandleOther, InputTypeOK
  <2>3. hand' \in Seq(Lines) /\ \A k \in DOMAIN hand' : k + 1 \in DOMAIN hand /\ hand'[k] = hand[k + 1]
    BY <1>3, <2>1
  <2>4. InputTypeOK'
    BY <1>1, <1>3, <2>1, <2>2, <2>3 DEF InputTypeOK
  <2>5. FlowInv' /\ LinesMeetTheirScreen'
    BY <2>1, <2>2, <2>3 DEF FlowInv, LinesMeetTheirScreen
  <2>6. QED BY <1>2, <2>4, <2>5
<1>6. CASE FreeUi \/ NoMoreKeys \/ EndTurn
  <2>1. /\ UNCHANGED <<active, queue, hand, switched>>
        /\ phase' \in {"in", "console", "draw"} /\ hand = <<>>
    BY <1>6 DEF FreeUi, NoMoreKeys, EndTurn, Goes, FlowInv
  <2>2. InputTypeOK' /\ FlowInv' /\ LinesMeetTheirScreen'
    BY <1>1, <2>1 DEF InputTypeOK, FlowInv, LinesMeetTheirScreen
  <2>3. QED BY <1>2, <2>2
<1>7. QED BY <1>4, <1>5, <1>6

(* IInv is an inductive invariant.                                           *)
LEMMA NextInv == IInv /\ [InputNext]_inputVars => IInv'
<1> SUFFICES ASSUME IInv, [InputNext]_inputVars PROVE IInv'
  OBVIOUS
<1>1. CASE UNCHANGED inputVars
  BY <1>1 DEF inputVars, bufferVars, IInv, InputTypeOK, BufferInv, FlowInv, LinesMeetTheirScreen
<1>2. QED BY <1>1, KeyInv, TurnInv DEF InputNext

THEOREM Invariant == InputSpec => []IInv
BY InitInv, NextInv, PTL DEF InputSpec

(* Every variable of the input has its type.                                 *)
THEOREM InputTypeCorrect == InputSpec => []InputTypeOK
<1>1. IInv => InputTypeOK
  BY DEF IInv
<1>2. QED BY <1>1, Invariant, PTL

(* Every screen keeps the line that was typed on it, as a C string.          *)
THEOREM DraftsKept == InputSpec => []DraftsAreKept
<1>1. ASSUME IInv PROVE DraftsAreKept
  <2>1. ASSUME NEW s \in Screens
        PROVE  /\ CString(inputbuf[s]) = draft[s] /\ i_inputbuf[s] = Len(draft[s])
               /\ \A k \in i_inputbuf[s] .. Size - 1 : inputbuf[s][k] = NUL
    <3>1. IsBuffer(inputbuf[s], i_inputbuf[s], draft[s])
      BY <1>1 DEF IInv, BufferInv
    <3>2. QED BY <3>1, BufferShows DEF IsBuffer
  <2>2. QED BY <2>1 DEF DraftsAreKept
<1>2. QED BY <1>1, Invariant, PTL

(* A line meets the screen on which it was typed, unless one in front of it  *)
(* has shown another.                                                        *)
THEOREM LinesMeet == InputSpec => []LinesMeetTheirScreen
<1>1. IInv => LinesMeetTheirScreen
  BY DEF IInv
<1>2. QED BY <1>1, Invariant, PTL

(* The wheel, the messages and the drawing do not touch the input: what was   *)
(* proved above holds of the console as a whole.                             *)
THEOREM ConsoleImplementsInput == Spec => InputSpec
<1>1. Init => InputInit
  BY DEF Init
<1>2. [Next]_vars => [InputNext]_inputVars
  BY DEF Next, vars, FromServer, FromUser, Keys, Turn, WheelDown, WheelUp, Draw,
         InputNext, inputVars
<1>3. QED BY <1>1, <1>2, PTL DEF Spec, InputSpec

THEOREM ConsoleKeepsDrafts == Spec => [](DraftsAreKept /\ LinesMeetTheirScreen)
BY ConsoleImplementsInput, DraftsKept, LinesMeet, PTL

-----------------------------------------------------------------------------
(* The rows of a log. *)

Rows == Nat \X Nat

RowsOf(h, m) == [r \in 1 .. h[m] |-> <<m, r>>]

LEMMA RowsOfAre ==
  ASSUME NEW h, NEW k \in Nat, h[k] \in Nat
  PROVE  /\ RowsOf(h, k) \in Seq(Rows) /\ Len(RowsOf(h, k)) = h[k]
         /\ \A r \in 1 .. h[k] : RowsOf(h, k)[r] = <<k, r>>
<1>1. PICK n \in Nat : n = h[k]
  OBVIOUS
<1>2. PICK a : a = RowsOf(h, k)
  OBVIOUS
<1>3. a = [r \in 1 .. n |-> <<k, r>>]
  BY <1>1, <1>2 DEF RowsOf
<1>4. \A r \in 1 .. n : <<k, r>> \in Rows
  BY DEF Rows
<1>5. a \in [1 .. n -> Rows]
  BY <1>3, <1>4
<1>6. a \in Seq(Rows) /\ DOMAIN a = 1 .. n
  BY <1>5, SeqDef
<1>7. DOMAIN a = 1 .. Len(a) /\ Len(a) \in Nat
  BY <1>6, LenProperties
<1>8. PICK m \in Nat : m = Len(a) /\ 1 .. m = 1 .. n
  BY <1>6, <1>7
<1>9. m = n
  BY <1>8
<1>10. \A r \in 1 .. n : a[r] = <<k, r>>
  BY <1>3
<1> QED
  BY <1>1, <1>2, <1>6, <1>8, <1>9, <1>10, Zenon

(* The rows of the last n messages, which RowsFrom looks up.                 *)
LastRows(h) == CHOOSE rows : rows = [n \in 0 .. Len(h) |->
  IF n = 0 THEN <<>> ELSE RowsOf(h, Len(h) - n + 1) \o rows[n - 1]]

LEMMA LastRowsAre ==
  ASSUME NEW h \in Seq(Nat)
  PROVE  /\ LastRows(h) \in [0 .. Len(h) -> Seq(Rows)]
         /\ LastRows(h)[0] = <<>>
         /\ \A n \in 1 .. Len(h) :
              LastRows(h)[n] = RowsOf(h, Len(h) - n + 1) \o LastRows(h)[n - 1]
<1> DEFINE V == Seq(Rows)
           put == [n \in 1 .. Len(h) |-> [v \in V |-> RowsOf(h, Len(h) - n + 1) \o v]]
<1>1. Len(h) \in Nat /\ \A k \in 1 .. Len(h) : h[k] \in Nat
  BY SeqFacts
<1>2. \A k \in 1 .. Len(h) : RowsOf(h, k) \in V
  <2> TAKE k \in 1 .. Len(h)
  <2>1. h[k] \in Nat /\ k \in Nat
    BY <1>1
  <2> QED
    BY <2>1, RowsOfAre
<1>3. \A n \in 1 .. Len(h) : Len(h) - n + 1 \in 1 .. Len(h) /\ n - 1 \in 0 .. Len(h)
  BY <1>1
<1>4. put \in Steps(Len(h), V)
  <2> SUFFICES ASSUME NEW n \in 1 .. Len(h), NEW v \in V
               PROVE  RowsOf(h, Len(h) - n + 1) \o v \in V
    BY DEF Steps
  <2>1. RowsOf(h, Len(h) - n + 1) \in V
    BY <1>2, <1>3
  <2> QED
    BY <2>1, ConcatProperties
<1>5. PICK f : IsRecursion(f, Len(h), V, <<>>, put)
  <2> HIDE DEF put
  <2>1. <<>> \in V
    OBVIOUS
  <2> QED
    BY <1>1, <1>4, <2>1, Recursion
<1>6. /\ f \in [0 .. Len(h) -> V] /\ f[0] = <<>>
      /\ \A n \in 1 .. Len(h) : f[n] = RowsOf(h, Len(h) - n + 1) \o f[n - 1]
  <2>1. ASSUME NEW n \in 1 .. Len(h)
        PROVE  f[n] = RowsOf(h, Len(h) - n + 1) \o f[n - 1]
    <3>1. f[n] = put[n][f[n - 1]] /\ f[n - 1] \in V
      BY <1>3, <1>5 DEF IsRecursion
    <3> QED
      BY <3>1
  <2> QED
    BY <1>5, <2>1 DEF IsRecursion
<1>7. f = [n \in 0 .. Len(h) |->
             IF n = 0 THEN <<>> ELSE RowsOf(h, Len(h) - n + 1) \o f[n - 1]]
  <2>1. ASSUME NEW n \in 0 .. Len(h)
        PROVE  f[n] = IF n = 0 THEN <<>> ELSE RowsOf(h, Len(h) - n + 1) \o f[n - 1]
    <3>1. n = 0 \/ n \in 1 .. Len(h)
      BY <1>1
    <3> QED
      BY <1>6, <3>1, Zenon
  <2>2. f = [n \in 0 .. Len(h) |-> f[n]]
    BY <1>6
  <2> QED
    BY <2>1, <2>2, Zenon
<1>8. LastRows(h) = [n \in 0 .. Len(h) |->
        IF n = 0 THEN <<>> ELSE RowsOf(h, Len(h) - n + 1) \o LastRows(h)[n - 1]]
  BY <1>7, Zenon DEF LastRows
<1>9. /\ LastRows(h)[0] = <<>>
      /\ \A n \in 1 .. Len(h) :
           LastRows(h)[n] = RowsOf(h, Len(h) - n + 1) \o LastRows(h)[n - 1]
  <2>1. 0 \in 0 .. Len(h) /\ \A n \in 1 .. Len(h) : n \in 0 .. Len(h) /\ n # 0
    BY <1>1
  <2> QED
    BY <1>8, <2>1, Zenon
<1>10. \A n \in Nat : n <= Len(h) => LastRows(h)[n] \in V
  <2> DEFINE Good == {n \in Nat : n <= Len(h) => LastRows(h)[n] \in V}
  <2>1. 0 \in Good
    <3>1. <<>> \in V
      OBVIOUS
    <3>2. LastRows(h)[0] \in V
      BY <1>9, <3>1, Zenon
    <3> HIDE DEF V
    <3> QED
      BY <3>2
  <2>2. ASSUME NEW n \in Nat, n \in Good
        PROVE  n + 1 \in Good
    <3> SUFFICES ASSUME n + 1 <= Len(h)
                 PROVE  LastRows(h)[n + 1] \in V
      OBVIOUS
    <3>1. n + 1 \in 1 .. Len(h) /\ (n + 1) - 1 = n /\ LastRows(h)[n] \in V
      BY <1>1, <2>2
    <3>2. RowsOf(h, Len(h) - (n + 1) + 1) \in V
      BY <1>2, <1>3, <3>1
    <3>3. RowsOf(h, Len(h) - (n + 1) + 1) \o LastRows(h)[n] \in V
      BY <3>1, <3>2, ConcatProperties
    <3>4. LastRows(h)[n + 1] = RowsOf(h, Len(h) - (n + 1) + 1) \o LastRows(h)[(n + 1) - 1]
      BY <1>9, <3>1, Zenon
    <3> QED
      BY <3>1, <3>3, <3>4, Zenon
  <2> HIDE DEF Good
  <2>3. Nat \subseteq Good
    BY <2>1, <2>2, SetInduction
  <2> QED
    BY <2>3 DEF Good
<1>11. LastRows(h) \in [0 .. Len(h) -> V]
  <2>1. \A n \in 0 .. Len(h) : LastRows(h)[n] \in V
    BY <1>1, <1>10
  <2> DEFINE d == [n \in 0 .. Len(h) |->
        IF n = 0 THEN <<>> ELSE RowsOf(h, Len(h) - n + 1) \o LastRows(h)[n - 1]]
  <2>2. d = [n \in 0 .. Len(h) |-> d[n]] /\ LastRows(h) = d
    BY <1>8
  <2> HIDE DEF d
  <2>3. LastRows(h) = [n \in 0 .. Len(h) |-> LastRows(h)[n]]
    BY <2>2, Zenon
  <2> QED
    BY <2>1, <2>3
<1> QED
  BY <1>9, <1>11

(* RowsFrom begins with the rows of the first message and goes on with the   *)
(* others.                                                                   *)
LEMMA RowsStack ==
  ASSUME NEW h \in Seq(Nat)
  PROVE  /\ Len(h) \in Nat /\ DOMAIN h = 1 .. Len(h)
         /\ \A k \in 1 .. Len(h) + 1 : RowsFrom(h, k) \in Seq(Rows)
         /\ RowsFrom(h, Len(h) + 1) = <<>>
         /\ \A k \in 1 .. Len(h) : RowsFrom(h, k) = RowsOf(h, k) \o RowsFrom(h, k + 1)
<1>1. Len(h) \in Nat /\ DOMAIN h = 1 .. Len(h)
  BY SeqFacts
<1>2. ASSUME NEW k
      PROVE  RowsFrom(h, k) = LastRows(h)[Len(h) - k + 1]
  BY Zenon DEF RowsFrom, LastRows, RowsOf
<1>3. ASSUME NEW k \in 1 .. Len(h) + 1
      PROVE  RowsFrom(h, k) \in Seq(Rows)
  <2>1. Len(h) - k + 1 \in 0 .. Len(h)
    BY <1>1
  <2>2. LastRows(h)[Len(h) - k + 1] \in Seq(Rows)
    BY <2>1, LastRowsAre
  <2> QED
    BY <1>2, <2>2, Zenon
<1>4. RowsFrom(h, Len(h) + 1) = <<>>
  <2>1. Len(h) - (Len(h) + 1) + 1 = 0
    BY <1>1
  <2> QED
    BY <1>2, <2>1, LastRowsAre, Zenon
<1>5. ASSUME NEW k \in 1 .. Len(h)
      PROVE  RowsFrom(h, k) = RowsOf(h, k) \o RowsFrom(h, k + 1)
  <2>1. /\ Len(h) - k + 1 \in 1 .. Len(h)
        /\ Len(h) - (Len(h) - k + 1) + 1 = k
        /\ (Len(h) - k + 1) - 1 = Len(h) - (k + 1) + 1
    BY <1>1
  <2>2. LastRows(h)[Len(h) - k + 1] =
          RowsOf(h, Len(h) - (Len(h) - k + 1) + 1) \o LastRows(h)[(Len(h) - k + 1) - 1]
    BY <2>1, LastRowsAre, Zenon
  <2> QED
    BY <1>2, <2>1, <2>2, Zenon
<1> QED
  BY <1>1, <1>3, <1>4, <1>5

(* The same by the number of rows and by each of them.                       *)
LEMMA RowsAre ==
  ASSUME NEW h \in Seq(Nat)
  PROVE  /\ \A k \in 0 .. Len(h) : Below(h, k) \in Nat
         /\ Below(h, Len(h)) = 0
         /\ \A k \in 1 .. Len(h) :
              /\ h[k] \in Nat /\ Below(h, k - 1) = h[k] + Below(h, k)
              /\ \A r \in 1 .. h[k] : RowsFrom(h, k)[r] = <<k, r>>
              /\ \A r \in 1 .. Below(h, k) :
                   RowsFrom(h, k)[h[k] + r] = RowsFrom(h, k + 1)[r]
<1>1. /\ Len(h) \in Nat
      /\ \A k \in 0 .. Len(h) : k + 1 \in 1 .. Len(h) + 1
      /\ \A k \in 1 .. Len(h) : k \in 0 .. Len(h) /\ k \in Nat /\ (k - 1) + 1 = k
  BY RowsStack
<1>2. ASSUME NEW k \in 0 .. Len(h)
      PROVE  RowsFrom(h, k + 1) \in Seq(Rows) /\ Below(h, k) \in Nat
  <2>1. RowsFrom(h, k + 1) \in Seq(Rows)
    BY <1>1, RowsStack
  <2> QED
    BY <2>1, LenProperties DEF Below
<1>3. Below(h, Len(h)) = 0
  <2>1. Len(<<>>) = 0
    OBVIOUS
  <2> QED
    BY <2>1, RowsStack, Zenon DEF Below
<1>4. ASSUME NEW k \in 1 .. Len(h)
      PROVE  /\ h[k] \in Nat /\ Below(h, k - 1) = h[k] + Below(h, k)
             /\ \A r \in 1 .. h[k] : RowsFrom(h, k)[r] = <<k, r>>
             /\ \A r \in 1 .. Below(h, k) :
                  RowsFrom(h, k)[h[k] + r] = RowsFrom(h, k + 1)[r]
  <2> DEFINE a == RowsOf(h, k)
             b == RowsFrom(h, k + 1)
  <2>1. h[k] \in Nat /\ k \in Nat
    BY <1>1, SeqFacts
  <2>2. a \in Seq(Rows) /\ Len(a) = h[k] /\ \A r \in 1 .. h[k] : a[r] = <<k, r>>
    BY <2>1, RowsOfAre
  <2>3. b \in Seq(Rows) /\ Len(b) = Below(h, k) /\ Below(h, k) \in Nat
    BY <1>1, <1>2 DEF Below
  <2>4. RowsFrom(h, k) = a \o b
    BY RowsStack
  <2> HIDE DEF a, b
  <2>5. /\ Len(a \o b) = h[k] + Below(h, k)
        /\ \A r \in 1 .. Len(a) + Len(b) :
             (a \o b)[r] = IF r <= Len(a) THEN a[r] ELSE b[r - Len(a)]
    <3>1. a \in Seq(Rows) /\ b \in Seq(Rows)
      BY <2>2, <2>3
    <3>2. /\ Len(a \o b) = Len(a) + Len(b)
          /\ \A r \in 1 .. Len(a) + Len(b) :
               (a \o b)[r] = IF r <= Len(a) THEN a[r] ELSE b[r - Len(a)]
      BY <3>1, ConcatProperties
    <3> QED
      BY <2>2, <2>3, <3>2
  <2>6. Below(h, k - 1) = h[k] + Below(h, k)
    BY <1>1, <2>4, <2>5, Zenon DEF Below
  <2>7. ASSUME NEW r \in 1 .. h[k]
        PROVE  RowsFrom(h, k)[r] = <<k, r>>
    <3>1. r \in 1 .. Len(a) + Len(b) /\ r <= Len(a)
      BY <2>1, <2>2, <2>3
    <3> QED
      BY <2>2, <2>4, <2>5, <3>1
  <2>8. ASSUME NEW r \in 1 .. Below(h, k)
        PROVE  RowsFrom(h, k)[h[k] + r] = b[r]
    <3>1. PICK u \in Nat, v \in Nat : /\ u = h[k] /\ u = Len(a)
                                      /\ v = Below(h, k) /\ v = Len(b)
      BY <2>1, <2>2, <2>3, Zenon
    <3>2. u + r \in 1 .. u + v /\ ~(u + r <= u) /\ (u + r) - u = r
      BY <3>1
    <3>3. /\ h[k] + r \in 1 .. Len(a) + Len(b) /\ ~(h[k] + r <= Len(a))
          /\ (h[k] + r) - Len(a) = r
      BY <3>1, <3>2, Zenon
    <3>4. (a \o b)[h[k] + r] = b[(h[k] + r) - Len(a)]
      BY <2>5, <3>3, Zenon
    <3> QED
      BY <2>4, <3>3, <3>4, Zenon
  <2> QED
    BY <2>1, <2>6, <2>7, <2>8 DEF b
<1> QED
  BY <1>2, <1>3, <1>4

(* The rows from a message on are the last ones of all rows.                 *)
LEMMA RowsAreLast ==
  ASSUME NEW h \in Seq(Nat), NEW k \in 1 .. Len(h) + 1
  PROVE  /\ Below(h, k - 1) <= Total(h)
         /\ \A r \in 1 .. Below(h, k - 1) :
              RowsFrom(h, 1)[Total(h) - Below(h, k - 1) + r] = RowsFrom(h, k)[r]
<1> DEFINE Last(n) ==
             /\ Below(h, n) <= Total(h)
             /\ \A r \in 1 .. Below(h, n) :
                  RowsFrom(h, 1)[Total(h) - Below(h, n) + r] = RowsFrom(h, n + 1)[r]
           Good == {n \in Nat : n <= Len(h) => Last(n)}
<1>1. Len(h) \in Nat
  BY SeqFacts
<1>2. \A n \in 0 .. Len(h) : Below(h, n) \in Nat
  BY RowsAre
<1>3. Total(h) = Below(h, 0) /\ Total(h) \in Nat
  BY <1>1, <1>2 DEF Total
<1>4. 0 \in Good
  <2>1. \A r \in Nat : Total(h) - Total(h) + r = r
    BY <1>3
  <2> QED
    BY <1>3, <2>1
<1>5. ASSUME NEW n \in Nat, n \in Good
      PROVE  n + 1 \in Good
  <2> SUFFICES ASSUME n + 1 <= Len(h)
               PROVE  Last(n + 1)
    OBVIOUS
  <2>1. /\ n + 1 \in 1 .. Len(h) /\ (n + 1) - 1 = n /\ n \in 0 .. Len(h)
        /\ n + 1 \in 0 .. Len(h) /\ Last(n)
    BY <1>1, <1>5
  <2>0. PICK m : m = n + 1
    OBVIOUS
  <2> DEFINE all == RowsFrom(h, 1)
             old == RowsFrom(h, m)
             new == RowsFrom(h, m + 1)
  <2>2. /\ h[m] \in Nat /\ Below(h, n) = h[m] + Below(h, m)
        /\ \A r \in 1 .. Below(h, m) : old[h[m] + r] = new[r]
    BY <2>0, <2>1, RowsAre
  <2>3. Below(h, n) \in Nat /\ Below(h, m) \in Nat
    BY <1>2, <2>0, <2>1
  <2>4. /\ Below(h, n) <= Total(h)
        /\ \A r \in 1 .. Below(h, n) : all[Total(h) - Below(h, n) + r] = old[r]
    BY <2>0, <2>1
  <2> HIDE DEF all, old, new
  <2>5. ASSUME NEW r \in 1 .. Below(h, m)
        PROVE  all[Total(h) - Below(h, m) + r] = new[r]
    <3>1. /\ h[m] + r \in 1 .. Below(h, n)
          /\ Total(h) - Below(h, n) + (h[m] + r) = Total(h) - Below(h, m) + r
      <4>1. /\ Below(h, n) = h[m] + Below(h, m) /\ h[m] \in Nat
            /\ r \in Nat /\ 1 <= r /\ r <= Below(h, m)
        BY <2>2, <2>3
      <4>2. Below(h, n) \in Nat /\ Below(h, m) \in Nat /\ Total(h) \in Nat
        BY <1>3, <2>3
      <4>3. PICK u \in Nat, v \in Nat, w \in Nat, x \in Nat :
              u = Below(h, n) /\ v = h[m] /\ w = Below(h, m) /\ x = Total(h)
        BY <4>1, <4>2
      <4>4. u = v + w /\ r \in Nat /\ 1 <= r /\ r <= w
        BY <4>1, <4>3
      <4>5. v + r \in 1 .. u
        BY <4>4
      <4>6. x - u + (v + r) = x - w + r
        BY <4>4
      <4> QED
        BY <4>3, <4>5, <4>6
    <3> QED
      BY <2>2, <2>4, <3>1
  <2>6. Below(h, m) <= Total(h)
    BY <1>3, <2>2, <2>3, <2>4
  <2> QED
    BY <2>0, <2>5, <2>6 DEF all, new
<1>6. Nat \subseteq Good
  <2> HIDE DEF Good
  <2> QED
    BY <1>4, <1>5, SetInduction
<1>7. k - 1 \in Nat /\ k - 1 <= Len(h) /\ (k - 1) + 1 = k
  BY <1>1
<1>8. Last(k - 1)
  BY <1>6, <1>7
<1> QED
  BY <1>7, <1>8

-----------------------------------------------------------------------------
(* What screen_fmt_to_buf makes of them. *)

LEMMA MaxMin ==
  ASSUME NEW a \in Int, NEW b \in Int
  PROVE  /\ Max({a, b}) = IF a >= b THEN a ELSE b
         /\ Min({a, b}) = IF a <= b THEN a ELSE b
BY DEF Max, Min

(* The heights of the messages of a log; all that is needed of them below.   *)
IsColumn(h) == h \in Seq(Nat)

LEMMA ColumnFacts ==
  ASSUME NEW h, IsColumn(h)
  PROVE  /\ Len(h) \in Nat /\ DOMAIN h = 1 .. Len(h)
         /\ \A k \in 0 .. Len(h) : Below(h, k) \in Nat
         /\ Below(h, Len(h)) = 0
         /\ \A k \in 1 .. Len(h) :
              /\ h[k] \in Nat /\ Below(h, k - 1) = h[k] + Below(h, k)
              /\ \A r \in 1 .. h[k] : RowsFrom(h, k)[r] = <<k, r>>
         /\ \A k \in 1 .. Len(h) + 1 :
              /\ RowsFrom(h, k) \in Seq(Rows)
              /\ Below(h, k - 1) <= Total(h)
              /\ \A r \in 1 .. Below(h, k - 1) :
                   RowsFrom(h, 1)[Total(h) - Below(h, k - 1) + r] = RowsFrom(h, k)[r]
<1>1. h \in Seq(Nat)
  BY DEF IsColumn
<1> QED
  BY <1>1, RowsStack, RowsAre, RowsAreLast, Zenon

(* How many rows stand behind each message, in numbers.                      *)
LEMMA BelowIs ==
  ASSUME NEW h, IsColumn(h), NEW m \in 1 .. Len(h)
  PROVE  \E b \in Nat, c \in Nat, n \in Nat, all \in Nat :
           /\ b = Below(h, m - 1) /\ c = Below(h, m) /\ n = h[m] /\ all = Total(h)
           /\ b = n + c /\ b <= all
<1>1. /\ Len(h) \in Nat /\ m \in Nat /\ m - 1 \in 0 .. Len(h) /\ m \in 0 .. Len(h)
      /\ 0 \in 0 .. Len(h) /\ m \in 1 .. Len(h) + 1
  BY ColumnFacts
<1>2. /\ Below(h, m - 1) \in Nat /\ Below(h, m) \in Nat /\ Total(h) \in Nat
      /\ h[m] \in Nat /\ Below(h, m - 1) = h[m] + Below(h, m)
  BY <1>1, ColumnFacts, Zenon DEF Total
<1>3. Below(h, m - 1) <= Total(h)
  BY <1>1, ColumnFacts
<1> QED
  BY <1>2, <1>3, Zenon

(* The first loop stops with the last message behind which enough rows are.  *)
LEMMA SkipIs ==
  ASSUME NEW h, IsColumn(h), NEW top \in Nat
  PROVE  /\ Skip(h, top) \in 0 .. Len(h)
         /\ Skip(h, top) > 0 => Below(h, Skip(h, top)) >= top
         /\ \A k \in 1 .. Len(h) : k > Skip(h, top) => Below(h, k) < top
<1> DEFINE S == {0} \cup {k \in DOMAIN h : Below(h, k) >= top}
<1>1. Len(h) \in Nat /\ DOMAIN h = 1 .. Len(h)
  BY ColumnFacts
<1>2. S \in SUBSET (0 .. Len(h)) /\ S # {}
  BY <1>1
<1>3. Skip(h, top) \in S /\ \A k \in S : Skip(h, top) >= k
  <2>1. Skip(h, top) = Max(S)
    BY DEF Skip
  <2> HIDE DEF S
  <2>2. \E x \in S : \A y \in S : x >= y
    BY <1>1, <1>2, Greatest
  <2> QED
    BY <2>1, <2>2, Zenon DEF Max
<1>4. ASSUME NEW k \in 1 .. Len(h), k > Skip(h, top)
      PROVE  Below(h, k) < top
  <2>1. Below(h, k) \in Nat /\ Skip(h, top) \in Int /\ k \in Int
    <3>1. k \in 0 .. Len(h)
      BY <1>1
    <3> QED
      BY <1>2, <1>3, <3>1, ColumnFacts
  <2>2. k \notin S
    BY <1>3, <1>4, <2>1
  <2>3. ~(Below(h, k) >= top)
    BY <1>1, <2>2
  <2> QED
    BY <2>1, <2>3
<1> QED
  BY <1>1, <1>2, <1>3, <1>4

(* The second loop: it is not entered, it meets the head, or it stops with   *)
(* the first message, from behind, with which the rows are used.             *)
NotEntered(h, top, n) ==
  /\ Skip(h, top) > 0 /\ Below(h, Skip(h, top)) - top >= n
  /\ FirstShown(h, top, n) = [msg |-> Skip(h, top), cut |-> 0]

MeetsHead(h, top, n) ==
  /\ \A j \in 1 .. Skip(h, top) : ~(Below(h, j - 1) - top >= n)
  /\ FirstShown(h, top, n) = [msg |-> 0, cut |-> 0]

StopsWith(h, top, n, m) ==
  /\ ~(Skip(h, top) > 0 /\ Below(h, Skip(h, top)) - top >= n)
  /\ Below(h, m - 1) - top >= n
  /\ \A j \in 1 .. Skip(h, top) : Below(h, j - 1) - top >= n => j <= m
  /\ FirstShown(h, top, n) = [msg |-> m, cut |-> Below(h, m - 1) - top - n]

LEMMA FirstIs ==
  ASSUME NEW h, IsColumn(h), NEW top \in Nat, NEW n \in Nat
  PROVE  \/ NotEntered(h, top, n) \/ MeetsHead(h, top, n)
         \/ \E m \in 1 .. Skip(h, top) : StopsWith(h, top, n, m)
<1> DEFINE k == Skip(h, top)
           used(j) == Below(h, j) - top
           enough == {j \in 1 .. k : used(j - 1) >= n}
<1>1. k \in Nat /\ k \in 0 .. Len(h) /\ Len(h) \in Nat
  <2>1. k \in 0 .. Len(h) /\ Len(h) \in Nat
    BY SkipIs, ColumnFacts
  <2> HIDE DEF k
  <2> QED
    BY <2>1
<1>2. FirstShown(h, top, n) =
        IF k > 0 /\ used(k) >= n THEN [msg |-> k, cut |-> 0]
        ELSE IF enough = {} THEN [msg |-> 0, cut |-> 0]
        ELSE [msg |-> Max(enough), cut |-> used(Max(enough) - 1) - n]
  BY DEF FirstShown
<1>3. CASE k > 0 /\ used(k) >= n
  <2>1. FirstShown(h, top, n) = [msg |-> k, cut |-> 0]
    BY <1>2, <1>3
  <2> QED
    BY <1>3, <2>1 DEF NotEntered
<1>4. CASE ~(k > 0 /\ used(k) >= n) /\ enough = {}
  <2>1. FirstShown(h, top, n) = [msg |-> 0, cut |-> 0]
    BY <1>2, <1>4
  <2>2. \A j \in 1 .. k : ~(used(j - 1) >= n)
    BY <1>4
  <2> QED
    BY <2>1, <2>2 DEF MeetsHead
<1>5. CASE ~(k > 0 /\ used(k) >= n) /\ enough # {}
  <2>1. FirstShown(h, top, n) = [msg |-> Max(enough), cut |-> used(Max(enough) - 1) - n]
    BY <1>2, <1>5
  <2>2. Max(enough) \in enough /\ \A j \in enough : Max(enough) >= j
    <3>1. enough \in SUBSET (0 .. k)
      BY <1>1
    <3> HIDE DEF enough, k
    <3>2. \E x \in enough : \A y \in enough : x >= y
      BY <1>1, <1>5, <3>1, Greatest
    <3> QED
      BY <3>2, Zenon DEF Max
  <2>3. PICK m : m = Max(enough)
    OBVIOUS
  <2>4. m \in 1 .. k /\ used(m - 1) >= n
    BY <2>2, <2>3
  <2>5. ASSUME NEW j \in 1 .. k, used(j - 1) >= n
        PROVE  j <= m
    <3>1. j \in enough
      BY <2>5
    <3> QED
      BY <1>1, <2>2, <2>3, <2>4, <3>1
  <2>6. StopsWith(h, top, n, m)
    BY <1>5, <2>1, <2>3, <2>4, <2>5 DEF StopsWith
  <2> QED
    BY <2>4, <2>6
<1> QED
  BY <1>3, <1>4, <1>5

(* What is written from a message on stands together in the log.             *)
IsWritten(h, m, cut, n) ==
  \E len \in Nat :
    /\ len = Max({h[m] - cut, Min({n, Below(h, m - 1) - cut})})
    /\ cut + len <= Below(h, m - 1)
    /\ Written(h, [msg |-> m, cut |-> cut], n) \in Seq(Rows)
    /\ Len(Written(h, [msg |-> m, cut |-> cut], n)) = len
    /\ Written(h, [msg |-> m, cut |-> cut], n) =
         SubSeq(RowsFrom(h, 1), Total(h) - Below(h, m - 1) + cut + 1,
                                Total(h) - Below(h, m - 1) + cut + len)

LEMMA WrittenIs ==
  ASSUME NEW h, IsColumn(h), NEW m \in 1 .. Len(h), NEW cut \in Nat, NEW n \in Nat \ {0},
         cut <= Below(h, m - 1)
  PROVE  IsWritten(h, m, cut, n)
<1>1. PICK b \in Nat, c \in Nat, rows \in Nat, all \in Nat :
        /\ b = Below(h, m - 1) /\ c = Below(h, m) /\ rows = h[m] /\ all = Total(h)
        /\ b = rows + c /\ b <= all
  BY BelowIs
<1>0. b = rows + c /\ b <= all /\ cut <= b
  BY <1>1
<1> DEFINE here == RowsFrom(h, m)
           log1 == RowsFrom(h, 1)
           len == Max({rows - cut, Min({n, b - cut})})
<1>2. /\ Len(h) \in Nat /\ m \in Nat /\ m \in 1 .. Len(h) + 1 /\ 1 \in 1 .. Len(h) + 1
      /\ (m - 1) + 1 = m
  BY ColumnFacts
<1>3. /\ here \in Seq(Rows) /\ log1 \in Seq(Rows)
      /\ Len(here) = b /\ Len(log1) = all
      /\ \A r \in 1 .. b : log1[all - b + r] = here[r]
  <2>1. here \in Seq(Rows) /\ log1 \in Seq(Rows)
    BY <1>2, ColumnFacts
  <2>2. Len(here) = b /\ Len(log1) = all
    <3>1. Below(h, m - 1) = Len(RowsFrom(h, m)) /\ Total(h) = Len(RowsFrom(h, 1))
      BY <1>2 DEF Below, Total
    <3> QED
      BY <1>1, <3>1
  <2>3. \A r \in 1 .. Below(h, m - 1) : log1[Total(h) - Below(h, m - 1) + r] = here[r]
    BY <1>2, ColumnFacts
  <2> QED
    BY <1>1, <2>1, <2>2, <2>3
<1>4. len \in Nat /\ cut + len <= b
  <2>1. b - cut \in Int /\ n \in Int /\ b - cut >= 0
    BY <1>0
  <2>2. Min({n, b - cut}) = IF n <= b - cut THEN n ELSE b - cut
    BY <2>1, MaxMin
  <2>3. PICK w \in Int : w = Min({n, b - cut}) /\ w >= 0 /\ w <= b - cut
    BY <2>1, <2>2
  <2>4. len = IF rows - cut >= w THEN rows - cut ELSE w
    <3>1. rows - cut \in Int
      OBVIOUS
    <3> QED
      BY <2>3, <3>1, MaxMin
  <2> HIDE DEF len
  <2> QED
    BY <1>0, <2>1, <2>3, <2>4
<1>5. Written(h, [msg |-> m, cut |-> cut], n) = SubSeq(here, cut + 1, cut + len)
  BY <1>1, <1>3 DEF Written
<1> HIDE DEF here, log1, len
<1>6. SubSeq(log1, (all - b) + (cut + 1), (all - b) + (cut + len)) = SubSeq(here, cut + 1, cut + len)
  <2>1. /\ all - b \in Nat /\ cut + 1 \in Nat \ {0} /\ cut + len \in Int
        /\ cut + len <= Len(here) /\ (all - b) + (cut + len) <= Len(log1)
    <3>1. Len(here) = b /\ Len(log1) = all
      BY <1>3
    <3> QED
      BY <1>0, <1>4, <3>1
  <2>2. \A r \in cut + 1 .. cut + len : log1[(all - b) + r] = here[r]
    <3>1. \A r \in cut + 1 .. cut + len : r \in 1 .. b
      BY <1>4
    <3> QED
      BY <1>3, <3>1
  <2>3. here \in Seq(Rows) /\ log1 \in Seq(Rows)
    BY <1>3
  <2>4. PICK p \in Nat, x \in Nat \ {0}, y \in Int :
          /\ p = all - b /\ x = cut + 1 /\ y = cut + len
          /\ y <= Len(here) /\ p + y <= Len(log1)
          /\ Agree(here, log1, p, x, y)
    BY <2>1, <2>2, Zenon DEF Agree
  <2>5. SubSeq(log1, p + x, p + y) = SubSeq(here, x, y)
    <3>1. y <= Len(here) /\ p + y <= Len(log1) /\ Agree(here, log1, p, x, y)
      BY <2>4, Zenon
    <3> QED
      BY <2>3, <3>1, SamePart
  <2> QED
    BY <2>4, <2>5, Zenon
<1>7. SubSeq(here, cut + 1, cut + len) \in Seq(Rows) /\ Len(SubSeq(here, cut + 1, cut + len)) = len
  <2>1. cut + 1 \in Nat \ {0} /\ cut + len \in Int /\ cut + len <= Len(here)
    BY <1>3, <1>4
  <2>2. Len(SubSeq(here, cut + 1, cut + len)) =
          IF cut + 1 <= cut + len THEN (cut + len) - (cut + 1) + 1 ELSE 0
    BY <1>3, <2>1, PartOf
  <2>3. SubSeq(here, cut + 1, cut + len) \in Seq(Rows)
    BY <1>3, <2>1, PartOf
  <2> QED
    BY <1>4, <2>2, <2>3
<1>8. /\ (all - b) + (cut + 1) = Total(h) - Below(h, m - 1) + cut + 1
      /\ (all - b) + (cut + len) = Total(h) - Below(h, m - 1) + cut + len
      /\ len = Max({h[m] - cut, Min({n, Below(h, m - 1) - cut})})
      /\ cut + len <= Below(h, m - 1)
  <2>1. (all - b) + (cut + 1) = all - b + cut + 1 /\ (all - b) + (cut + len) = all - b + cut + len
    BY <1>4
  <2> QED
    BY <1>1, <1>4, <2>1, Zenon DEF len
<1> QED
  BY <1>4, <1>5, <1>6, <1>7, <1>8, Zenon DEF log1, IsWritten

(* The fields of View, at the head of the log and elsewhere.                 *)
LEMMA ViewIs ==
  ASSUME NEW h, NEW top, NEW n
  PROVE  \E first, w :
           /\ first = FirstShown(h, top, n)
           /\ w = Written(h, IF first.msg = 0 THEN [msg |-> 1, cut |-> 0] ELSE first, n)
           /\ View(h, top, n).shown = w
           /\ View(h, top, n).scroll_at_top = (first.msg = 0)
           /\ View(h, top, n).scroll = IF Len(w) < n THEN 0
                                      ELSE IF first.msg = 0 THEN Total(h) - n ELSE top
<1>1. PICK first : first = FirstShown(h, top, n)
  OBVIOUS
<1>2. PICK w : w = Written(h, IF first.msg = 0 THEN [msg |-> 1, cut |-> 0] ELSE first, n)
  OBVIOUS
<1>3. PICK at, to : at = (first.msg = 0)
                    /\ to = IF Len(w) < n THEN 0 ELSE IF first.msg = 0 THEN Total(h) - n ELSE top
  OBVIOUS
<1>4. PICK v : v = View(h, top, n) /\ v = [shown |-> w, scroll_at_top |-> at, scroll |-> to]
  BY <1>1, <1>2, <1>3, Zenon DEF View
<1>5. v.shown = w /\ v.scroll_at_top = at /\ v.scroll = to
  BY <1>4
<1> QED
  BY <1>1, <1>2, <1>3, <1>4, <1>5, Zenon

AtHead(h, top, n) ==
  \E w : /\ w = Written(h, [msg |-> 1, cut |-> 0], n)
        /\ View(h, top, n).shown = w /\ View(h, top, n).scroll_at_top = TRUE
        /\ View(h, top, n).scroll = IF Len(w) < n THEN 0 ELSE Total(h) - n

BelowHead(h, top, n, m, cut) ==
  \E w : /\ w = Written(h, [msg |-> m, cut |-> cut], n)
        /\ View(h, top, n).shown = w /\ View(h, top, n).scroll_at_top = FALSE
        /\ View(h, top, n).scroll = IF Len(w) < n THEN 0 ELSE top

LEMMA ViewAtHead ==
  ASSUME NEW h, NEW top, NEW n, FirstShown(h, top, n) = [msg |-> 0, cut |-> 0]
  PROVE  AtHead(h, top, n)
<1>1. PICK first, w :
        /\ first = FirstShown(h, top, n)
        /\ w = Written(h, IF first.msg = 0 THEN [msg |-> 1, cut |-> 0] ELSE first, n)
        /\ View(h, top, n).shown = w
        /\ View(h, top, n).scroll_at_top = (first.msg = 0)
        /\ View(h, top, n).scroll = IF Len(w) < n THEN 0
                                   ELSE IF first.msg = 0 THEN Total(h) - n ELSE top
  BY ViewIs
<1>2. first = [msg |-> 0, cut |-> 0]
  BY <1>1, Zenon
<1>3. first.msg = 0
  BY <1>2
<1> QED
  BY <1>1, <1>3, Zenon DEF AtHead

LEMMA ViewBelowHead ==
  ASSUME NEW h, NEW top, NEW n, NEW m, NEW cut, m # 0,
         FirstShown(h, top, n) = [msg |-> m, cut |-> cut]
  PROVE  BelowHead(h, top, n, m, cut)
<1>1. PICK first, w :
        /\ first = FirstShown(h, top, n)
        /\ w = Written(h, IF first.msg = 0 THEN [msg |-> 1, cut |-> 0] ELSE first, n)
        /\ View(h, top, n).shown = w
        /\ View(h, top, n).scroll_at_top = (first.msg = 0)
        /\ View(h, top, n).scroll = IF Len(w) < n THEN 0
                                   ELSE IF first.msg = 0 THEN Total(h) - n ELSE top
  BY ViewIs
<1>2. first = [msg |-> m, cut |-> cut]
  BY <1>1, Zenon
<1>3. first.msg = m
  BY <1>2
<1>4. ~(first.msg = 0) /\ (first.msg = 0) = FALSE
  BY <1>3
<1> QED
  BY <1>1, <1>2, <1>4, Zenon DEF BelowHead

(* Whatever the heights are, the view consists of rows of the log, and the   *)
(* scroll position does not become negative.                                 *)
LEMMA ViewType ==
  ASSUME NEW h, IsColumn(h), Len(h) # 0, NEW top \in Nat, NEW n \in Nat \ {0}
  PROVE  /\ View(h, top, n).shown \in Seq(Rows)
         /\ View(h, top, n).scroll \in Nat /\ View(h, top, n).scroll_at_top \in BOOLEAN
<1>1. /\ Len(h) \in Nat /\ 1 \in 1 .. Len(h)
      /\ Skip(h, top) \in 0 .. Len(h)
  <2>1. Len(h) \in Nat
    BY ColumnFacts
  <2>2. Skip(h, top) \in 0 .. Len(h)
    BY SkipIs
  <2> QED
    BY <2>1, <2>2
<1>2. ASSUME NEW m \in 1 .. Len(h), NEW cut \in Nat, cut <= Below(h, m - 1),
             FirstShown(h, top, n) = [msg |-> m, cut |-> cut]
      PROVE  /\ View(h, top, n).shown \in Seq(Rows)
             /\ View(h, top, n).scroll \in Nat /\ View(h, top, n).scroll_at_top \in BOOLEAN
  <2>1. Written(h, [msg |-> m, cut |-> cut], n) \in Seq(Rows)
    BY <1>2, WrittenIs DEF IsWritten
  <2>2. m # 0
    BY <1>1
  <2>3. PICK w : /\ w = Written(h, [msg |-> m, cut |-> cut], n)
                 /\ View(h, top, n).shown = w /\ View(h, top, n).scroll_at_top = FALSE
                 /\ View(h, top, n).scroll = IF Len(w) < n THEN 0 ELSE top
    <3>1. BelowHead(h, top, n, m, cut)
      BY <1>2, <2>2, ViewBelowHead
    <3> QED
      BY <3>1, Zenon DEF BelowHead
  <2>4. (IF Len(w) < n THEN 0 ELSE top) \in Nat
    OBVIOUS
  <2> QED
    BY <2>1, <2>3, <2>4, Zenon
<1>3. CASE NotEntered(h, top, n)
  <2>1. PICK m : m = Skip(h, top)
    OBVIOUS
  <2>2. m \in 1 .. Len(h) /\ FirstShown(h, top, n) = [msg |-> m, cut |-> 0]
    BY <1>1, <1>3, <2>1 DEF NotEntered
  <2>3. 0 \in Nat /\ 0 <= Below(h, m - 1)
    BY <2>2, BelowIs
  <2> QED
    BY <1>2, <2>2, <2>3
<1>4. ASSUME NEW m \in 1 .. Skip(h, top), StopsWith(h, top, n, m)
      PROVE  /\ View(h, top, n).shown \in Seq(Rows)
             /\ View(h, top, n).scroll \in Nat /\ View(h, top, n).scroll_at_top \in BOOLEAN
  <2>1. m \in 1 .. Len(h)
    BY <1>1
  <2>2. PICK b \in Nat, c \in Nat, rows \in Nat, all \in Nat :
          /\ b = Below(h, m - 1) /\ c = Below(h, m) /\ rows = h[m] /\ all = Total(h)
          /\ b = rows + c /\ b <= all
    BY <2>1, BelowIs
  <2>3. b - top >= n /\ FirstShown(h, top, n) = [msg |-> m, cut |-> b - top - n]
    BY <1>4, <2>2 DEF StopsWith
  <2>4. b - top - n \in Nat /\ b - top - n <= b
    BY <2>3
  <2> QED
    BY <1>2, <2>1, <2>2, <2>3, <2>4
<1>5. CASE MeetsHead(h, top, n)
  <2> DEFINE w == Written(h, [msg |-> 1, cut |-> 0], n)
  <2>1. PICK b \in Nat, c \in Nat, rows \in Nat, all \in Nat :
          /\ b = Below(h, 1 - 1) /\ c = Below(h, 1) /\ rows = h[1] /\ all = Total(h)
          /\ b = rows + c /\ b <= all
    BY <1>1, BelowIs
  <2>2. 0 \in Nat /\ 0 <= Below(h, 1 - 1)
    BY <2>1
  <2>3. PICK len \in Nat : /\ w \in Seq(Rows) /\ Len(w) = len
                            /\ 0 + len <= Below(h, 1 - 1)
    BY <1>1, <2>2, WrittenIs, Zenon DEF IsWritten
  <2>4. len <= all
    BY <2>1, <2>3
  <2>5. /\ View(h, top, n).shown = w /\ View(h, top, n).scroll_at_top = TRUE
        /\ View(h, top, n).scroll = IF len < n THEN 0 ELSE all - n
    <3>1. FirstShown(h, top, n) = [msg |-> 0, cut |-> 0]
      BY <1>5 DEF MeetsHead
    <3>2. AtHead(h, top, n)
      BY <3>1, ViewAtHead
    <3> QED
      BY <2>1, <2>3, <3>2, Zenon DEF AtHead
  <2>6. (IF len < n THEN 0 ELSE all - n) \in Nat
    BY <2>4
  <2> HIDE DEF w
  <2> QED
    BY <2>3, <2>5, <2>6
<1> QED
  BY <1>3, <1>4, <1>5, FirstIs

(* The numbers of a window inside the log: all are the rows of the log, b     *)
(* those from its first message on, which has some, and c those behind it.   *)
IsInside(all, b, some, top, n, cut) ==
  /\ cut \in Nat /\ cut <= b
  /\ Max({some - cut, Min({n, b - cut})}) = n
  /\ Min({top, Max({0, all - n})}) = top
  /\ Max({1, (all - top) - n + 1}) = all - b + cut + 1
  /\ all - top = all - b + cut + n

LEMMA InsideNumbers ==
  ASSUME NEW all \in Nat, NEW b \in Nat, NEW c \in Nat, NEW some \in Nat, NEW top \in Nat,
         NEW n \in Nat \ {0}, b = some + c, b <= all, some >= 1, some <= n,
         b - top >= n, c - top < n, NEW cut, cut = b - top - n
  PROVE  IsInside(all, b, some, top, n, cut)
<1>1. cut \in Nat /\ cut <= b /\ b - cut \in Int /\ n <= b - cut /\ n \in Int
      /\ some - cut \in Int /\ some - cut <= n
  OBVIOUS
<1>2. Min({n, b - cut}) = n
  BY <1>1, MaxMin
<1>3. Max({some - cut, n}) = n
  <2>1. Max({some - cut, n}) = IF some - cut >= n THEN some - cut ELSE n
    BY <1>1, MaxMin
  <2> QED
    BY <1>1, <2>1
<1>4. all - n \in Int /\ all - n >= top /\ top \in Int /\ 0 \in Int
  OBVIOUS
<1>5. Max({0, all - n}) = all - n
  <2>1. Max({0, all - n}) = IF 0 >= all - n THEN 0 ELSE all - n
    BY <1>4, MaxMin
  <2> QED
    BY <1>4, <2>1
<1>6. Min({top, all - n}) = top
  <2>1. Min({top, all - n}) = IF top <= all - n THEN top ELSE all - n
    BY <1>4, MaxMin
  <2> QED
    BY <1>4, <2>1
<1>7. Max({1, (all - top) - n + 1}) = (all - top) - n + 1
  <2>1. (all - top) - n + 1 \in Int /\ (all - top) - n + 1 >= 1 /\ 1 \in Int
    OBVIOUS
  <2>2. Max({1, (all - top) - n + 1})
          = IF 1 >= (all - top) - n + 1 THEN 1 ELSE (all - top) - n + 1
    BY <2>1, MaxMin
  <2> QED
    BY <2>1, <2>2
<1>8. (all - top) - n + 1 = all - b + cut + 1 /\ all - top = all - b + cut + n
  OBVIOUS
<1> QED
  BY <1>1, <1>2, <1>3, <1>5, <1>6, <1>7, <1>8, Zenon DEF IsInside

(* And of one at its head, whose first message has some rows.                *)
IsAtHead(all, some, top, n) ==
  \E len \in Nat :
    /\ len = Max({some - 0, Min({n, all - 0})})
    /\ len >= 1 /\ len <= n /\ len <= all
    /\ all - Min({top, Max({0, all - n})}) = len
    /\ Max({1, len - n + 1}) = 1
    /\ (IF len < n THEN 0 ELSE all - n) = Min({top, Max({0, all - n})})

LEMMA HeadNumbers ==
  ASSUME NEW all \in Nat, NEW c \in Nat, NEW some \in Nat, NEW top \in Nat,
         NEW n \in Nat \ {0}, all = some + c, some >= 1, some <= n, all - top < n
  PROVE  IsAtHead(all, some, top, n)
<1>1. PICK len \in Nat : /\ len = Min({n, all - 0}) /\ len = IF n <= all THEN n ELSE all
                         /\ len >= 1 /\ len <= n /\ some <= len /\ len <= all
  <2>1. n \in Int /\ all - 0 \in Int /\ all - 0 = all
    OBVIOUS
  <2>2. Min({n, all - 0}) = IF n <= all - 0 THEN n ELSE all - 0
    BY <2>1, MaxMin
  <2>3. Min({n, all - 0}) = IF n <= all THEN n ELSE all
    BY <2>1, <2>2
  <2>4. (IF n <= all THEN n ELSE all) \in Nat
    OBVIOUS
  <2>5. PICK len \in Nat : len = IF n <= all THEN n ELSE all
    BY <2>4
  <2>6. len >= 1 /\ len <= n /\ some <= len /\ len <= all
    BY <2>5
  <2> QED
    BY <2>3, <2>5, <2>6
<1>2. Max({some - 0, len}) = len
  <2>1. some - 0 \in Int /\ len \in Int /\ some - 0 <= len
    BY <1>1
  <2>2. Max({some - 0, len}) = IF some - 0 >= len THEN some - 0 ELSE len
    BY <2>1, MaxMin
  <2> QED
    BY <2>1, <2>2
<1>3. PICK high \in Nat : high = Max({0, all - n}) /\ high = IF n <= all THEN all - n ELSE 0
  <2>1. 0 \in Int /\ all - n \in Int
    OBVIOUS
  <2>2. Max({0, all - n}) = IF 0 >= all - n THEN 0 ELSE all - n
    BY <2>1, MaxMin
  <2>5. (IF n <= all THEN all - n ELSE 0) \in Nat
    OBVIOUS
  <2>3. PICK high \in Nat : high = IF n <= all THEN all - n ELSE 0
    BY <2>5
  <2>4. high = IF 0 >= all - n THEN 0 ELSE all - n
    BY <2>3
  <2> QED
    BY <2>2, <2>3, <2>4
<1>4. Min({top, high}) = high
  <2>1. top \in Int /\ high \in Int /\ high <= top
    BY <1>3
  <2>2. Min({top, high}) = IF top <= high THEN top ELSE high
    BY <2>1, MaxMin
  <2> QED
    BY <2>1, <2>2
<1>5. all - high = len /\ (IF len < n THEN 0 ELSE all - n) = high
  BY <1>1, <1>3
<1>6. Max({1, len - n + 1}) = 1
  <2>1. len - n + 1 \in Int /\ 1 \in Int /\ len - n + 1 <= 1
    BY <1>1
  <2>2. Max({1, len - n + 1}) = IF 1 >= len - n + 1 THEN 1 ELSE len - n + 1
    BY <2>1, MaxMin
  <2> QED
    BY <2>1, <2>2
<1> QED
  BY <1>1, <1>2, <1>3, <1>4, <1>5, <1>6, Zenon DEF IsAtHead

(* Where no message is higher than the window, the view is the section.      *)
IsSection(h, top, n) ==
  /\ View(h, top, n).shown = Section(h, top, n)
  /\ Len(View(h, top, n).shown) \in Nat /\ Len(View(h, top, n).shown) <= n
  /\ View(h, top, n).scroll = Min({top, Highest(h, n)})
  /\ View(h, top, n).scroll_at_top => View(h, top, n).shown[1] = <<1, 1>>

(* The section, in numbers.                                                  *)
IsPart(h, top, n) ==
  \E all, up :
    /\ all = Total(h) /\ up = Min({top, Max({0, all - n})})
    /\ Section(h, top, n) =
         SubSeq(RowsFrom(h, 1), Max({1, (all - up) - n + 1}), all - up)
    /\ Min({top, Highest(h, n)}) = up

LEMMA SectionIs ==
  ASSUME NEW h, NEW top, NEW n
  PROVE  IsPart(h, top, n)
<1>1. PICK all, up : all = Total(h) /\ up = Min({top, Max({0, all - n})})
  OBVIOUS
<1>2. Len(RowsFrom(h, 1)) = all
  BY <1>1 DEF Total, Below
<1>3. Highest(h, n) = Max({0, all - n})
  BY <1>1 DEF Highest
<1> QED
  <2>1. Section(h, top, n) =
          SubSeq(RowsFrom(h, 1), Max({1, (all - up) - n + 1}), all - up)
    BY <1>1, <1>2, <1>3, Zenon DEF Section
  <2> QED
    BY <1>1, <1>3, <2>1, Zenon DEF IsPart

(* The messages of a log that fit the window.                                *)
FitsAt(h, n, m) ==
  \E b \in Nat, c \in Nat, some \in Nat, all \in Nat :
    /\ b = Below(h, m - 1) /\ c = Below(h, m) /\ some = h[m] /\ all = Total(h)
    /\ b = some + c /\ b <= all /\ some >= 1 /\ some <= n

LEMMA FitsIs ==
  ASSUME NEW h, IsColumn(h), NEW n \in Nat \ {0}, Fits(h, n), NEW m \in 1 .. Len(h)
  PROVE  FitsAt(h, n, m)
<1>1. PICK b \in Nat, c \in Nat, some \in Nat, all \in Nat :
        /\ b = Below(h, m - 1) /\ c = Below(h, m) /\ some = h[m] /\ all = Total(h)
        /\ b = some + c /\ b <= all
  BY BelowIs
<1>2. h[m] \in 1 .. n
  <2>1. DOMAIN h = 1 .. Len(h)
    BY ColumnFacts
  <2> QED
    BY <2>1, Zenon DEF Fits
<1>3. some >= 1 /\ some <= n
  BY <1>1, <1>2
<1> QED
  BY <1>1, <1>3, Zenon DEF FitsAt

(* Then the second loop is always entered.                                   *)
LEMMA AlwaysEntered ==
  ASSUME NEW h, IsColumn(h), NEW n \in Nat \ {0}, Fits(h, n), NEW top \in Nat
  PROVE  ~NotEntered(h, top, n)
<1> SUFFICES ASSUME NotEntered(h, top, n)
             PROVE  FALSE
  OBVIOUS
<1>1. PICK len \in Nat, k \in Nat :
        /\ len = Len(h) /\ k = Skip(h, top) /\ k >= 1 /\ k <= len
        /\ Below(h, k) - top >= n
  <2>1. Len(h) \in Nat
    BY ColumnFacts
  <2>2. Skip(h, top) \in 0 .. Len(h)
    BY SkipIs
  <2>3. Skip(h, top) > 0 /\ Below(h, Skip(h, top)) - top >= n
    BY DEF NotEntered
  <2> QED
    BY <2>1, <2>2, <2>3
<1>2. CASE k = len
  <2>1. Below(h, k) = 0
    BY <1>1, <1>2, ColumnFacts
  <2> QED
    BY <1>1, <2>1
<1>3. CASE k # len
  <2>1. PICK j \in 1 .. Len(h) : j = k + 1 /\ j - 1 = k /\ j > k
    BY <1>1, <1>3
  <2>2. PICK b \in Nat, c \in Nat, some \in Nat, all \in Nat :
          /\ b = Below(h, j - 1) /\ c = Below(h, j) /\ some = h[j] /\ all = Total(h)
          /\ b = some + c /\ b <= all /\ some >= 1 /\ some <= n
    <3>1. FitsAt(h, n, j)
      BY FitsIs
    <3> QED
      BY <3>1, Zenon DEF FitsAt
  <2>3. Below(h, j) < top
    BY <1>1, <2>1, SkipIs
  <2>4. b - top >= n /\ c < top
    BY <1>1, <2>1, <2>2, <2>3, Zenon
  <2>5. b = some + c /\ some <= n
    BY <2>2, Zenon
  <2> QED
    BY <2>4, <2>5
<1> QED
  BY <1>2, <1>3

LEMMA SectionInside ==
  ASSUME NEW h, IsColumn(h), NEW n \in Nat \ {0}, Fits(h, n), NEW top \in Nat,
         NEW m \in 1 .. Skip(h, top), StopsWith(h, top, n, m)
  PROVE  IsSection(h, top, n)
<1>1. PICK last \in Nat : last = Skip(h, top) /\ last <= Len(h) /\ Len(h) \in Nat
  <2>1. Len(h) \in Nat
    BY ColumnFacts
  <2>2. Skip(h, top) \in 0 .. Len(h)
    BY SkipIs
  <2> QED
    BY <2>1, <2>2
<1>2. m \in 1 .. Len(h) /\ m \in Nat /\ m # 0 /\ m <= last
  BY <1>1
<1>3. PICK b \in Nat, c \in Nat, some \in Nat, all \in Nat :
        /\ b = Below(h, m - 1) /\ c = Below(h, m) /\ some = h[m] /\ all = Total(h)
        /\ b = some + c /\ b <= all /\ some >= 1 /\ some <= n
  <2>1. FitsAt(h, n, m)
    BY <1>2, FitsIs
  <2> QED
    BY <2>1, Zenon DEF FitsAt
<1>4. b - top >= n /\ FirstShown(h, top, n) = [msg |-> m, cut |-> b - top - n]
  BY <1>3, Zenon DEF StopsWith
<1>5. c - top < n
  <2>1. CASE m = last
    <3>1. ~(Below(h, m) - top >= n)
      <4>1. Skip(h, top) > 0
        BY <1>1, <1>2, <2>1
      <4> QED
        BY <1>1, <2>1, <4>1, Zenon DEF StopsWith
    <3> QED
      BY <1>3, <3>1
  <2>2. CASE m # last
    <3>1. PICK j \in 1 .. Skip(h, top) : j = m + 1 /\ j - 1 = m /\ ~(j <= m)
      BY <1>1, <1>2, <2>2
    <3>2. ~(Below(h, j - 1) - top >= n)
      BY <3>1, Zenon DEF StopsWith
    <3> QED
      BY <1>3, <3>1, <3>2
  <2> QED
    BY <2>1, <2>2
<1>6. PICK cut : cut = b - top - n
  OBVIOUS
<1>7. /\ cut \in Nat /\ cut <= b
      /\ Max({some - cut, Min({n, b - cut})}) = n
      /\ Min({top, Max({0, all - n})}) = top
      /\ Max({1, (all - top) - n + 1}) = all - b + cut + 1
      /\ all - top = all - b + cut + n
  <2>1. IsInside(all, b, some, top, n, cut)
    BY <1>3, <1>4, <1>5, <1>6, InsideNumbers
  <2> QED
    BY <2>1, Zenon DEF IsInside
<1>8. BelowHead(h, top, n, m, cut)
  BY <1>2, <1>4, <1>6, ViewBelowHead
<1>9. PICK w : /\ w = Written(h, [msg |-> m, cut |-> cut], n)
               /\ View(h, top, n).shown = w /\ View(h, top, n).scroll_at_top = FALSE
               /\ View(h, top, n).scroll = IF Len(w) < n THEN 0 ELSE top
  BY <1>8, Zenon DEF BelowHead
<1>10. PICK len \in Nat :
         /\ len = Max({h[m] - cut, Min({n, Below(h, m - 1) - cut})})
         /\ cut + len <= Below(h, m - 1)
         /\ Written(h, [msg |-> m, cut |-> cut], n) \in Seq(Rows)
         /\ Len(Written(h, [msg |-> m, cut |-> cut], n)) = len
         /\ Written(h, [msg |-> m, cut |-> cut], n) =
              SubSeq(RowsFrom(h, 1), Total(h) - Below(h, m - 1) + cut + 1,
                                     Total(h) - Below(h, m - 1) + cut + len)
  <2>1. cut <= Below(h, m - 1)
    BY <1>3, <1>7
  <2>2. IsWritten(h, m, cut, n)
    BY <1>2, <1>7, <2>1, WrittenIs
  <2> QED
    BY <2>2, Zenon DEF IsWritten
<1>11. len = n
  BY <1>3, <1>7, <1>10, Zenon
<1>12. Len(w) = n /\ w = SubSeq(RowsFrom(h, 1), all - b + cut + 1, all - b + cut + n)
  BY <1>3, <1>9, <1>10, <1>11, Zenon
<1>13. /\ Section(h, top, n) = SubSeq(RowsFrom(h, 1), Max({1, (all - top) - n + 1}), all - top)
       /\ Min({top, Highest(h, n)}) = top
  <2>1. PICK tot, up :
          /\ tot = Total(h) /\ up = Min({top, Max({0, tot - n})})
          /\ Section(h, top, n) =
               SubSeq(RowsFrom(h, 1), Max({1, (tot - up) - n + 1}), tot - up)
          /\ Min({top, Highest(h, n)}) = up
    <3>1. IsPart(h, top, n)
      BY SectionIs, Zenon
    <3> QED
      BY <3>1, Zenon DEF IsPart
  <2>2. tot = all
    BY <1>3, <2>1, Zenon
  <2>3. up = top
    BY <1>7, <2>1, <2>2, Zenon
  <2> QED
    BY <2>1, <2>2, <2>3, Zenon
<1>14. w = Section(h, top, n)
  BY <1>7, <1>12, <1>13, Zenon
<1>15. View(h, top, n).scroll = top
  <2>1. ~(n < n)
    OBVIOUS
  <2> QED
    BY <1>9, <1>12, <2>1, Zenon
<1>16. Len(View(h, top, n).shown) \in Nat /\ Len(View(h, top, n).shown) <= n
  <2>1. n \in Nat /\ n <= n
    OBVIOUS
  <2> QED
    BY <1>9, <1>12, <2>1, Zenon
<1>17. ~View(h, top, n).scroll_at_top
  BY <1>9, Zenon
<1> QED
  BY <1>9, <1>13, <1>14, <1>15, <1>16, <1>17, Zenon DEF IsSection

LEMMA SectionAtHead ==
  ASSUME NEW h, IsColumn(h), Len(h) # 0, NEW n \in Nat \ {0}, Fits(h, n), NEW top \in Nat,
         MeetsHead(h, top, n)
  PROVE  IsSection(h, top, n)
<1>1. PICK last \in Nat : last = Skip(h, top) /\ last <= Len(h) /\ Len(h) \in Nat
  <2>1. Len(h) \in Nat
    BY ColumnFacts
  <2>2. Skip(h, top) \in 0 .. Len(h)
    BY SkipIs
  <2> QED
    BY <2>1, <2>2
<1>2. 1 \in 1 .. Len(h)
  BY <1>1
<1>3. PICK b \in Nat, c \in Nat, some \in Nat, all \in Nat :
        /\ b = Below(h, 1 - 1) /\ c = Below(h, 1) /\ some = h[1] /\ all = Total(h)
        /\ b = some + c /\ b <= all /\ some >= 1 /\ some <= n
  <2>1. FitsAt(h, n, 1)
    BY <1>2, FitsIs
  <2> QED
    BY <2>1, Zenon DEF FitsAt
<1>4. b = all
  <2>1. 1 - 1 = 0
    OBVIOUS
  <2> QED
    BY <1>3, <2>1, Zenon DEF Total
<1>5. all - top < n
  <2>1. CASE last = 0
    <3>1. 1 > Skip(h, top)
      BY <1>1, <2>1
    <3>2. Below(h, 1) < top
      BY <1>2, <3>1, SkipIs
    <3> QED
      BY <1>3, <1>4, <3>2
  <2>2. CASE last # 0
    <3>1. 1 \in 1 .. Skip(h, top)
      BY <1>1, <2>2
    <3>2. ~(Below(h, 1 - 1) - top >= n)
      BY <3>1, Zenon DEF MeetsHead
    <3>3. ~(all - top >= n)
      BY <1>3, <1>4, <3>2, Zenon
    <3> QED
      BY <3>3
  <2> QED
    BY <2>1, <2>2
<1>6. PICK len \in Nat :
        /\ len = Max({some - 0, Min({n, all - 0})})
        /\ len >= 1 /\ len <= n /\ len <= all
        /\ all - Min({top, Max({0, all - n})}) = len
        /\ Max({1, len - n + 1}) = 1
        /\ (IF len < n THEN 0 ELSE all - n) = Min({top, Max({0, all - n})})
  <2>1. all = some + c /\ some >= 1 /\ some <= n
    BY <1>3, <1>4
  <2>2. IsAtHead(all, some, top, n)
    BY <1>5, <2>1, HeadNumbers
  <2> QED
    BY <2>2, Zenon DEF IsAtHead
<1>7. AtHead(h, top, n)
  <2>1. FirstShown(h, top, n) = [msg |-> 0, cut |-> 0]
    BY DEF MeetsHead
  <2> QED
    BY <2>1, ViewAtHead
<1>8. PICK w : /\ w = Written(h, [msg |-> 1, cut |-> 0], n)
               /\ View(h, top, n).shown = w /\ View(h, top, n).scroll_at_top = TRUE
               /\ View(h, top, n).scroll = IF Len(w) < n THEN 0 ELSE Total(h) - n
  BY <1>7, Zenon DEF AtHead
<1>9. PICK m, cut : m = 1 /\ cut = 0
  OBVIOUS
<1>10. PICK k \in Nat :
         /\ k = Max({h[m] - cut, Min({n, Below(h, m - 1) - cut})})
         /\ cut + k <= Below(h, m - 1)
         /\ Written(h, [msg |-> m, cut |-> cut], n) \in Seq(Rows)
         /\ Len(Written(h, [msg |-> m, cut |-> cut], n)) = k
         /\ Written(h, [msg |-> m, cut |-> cut], n) =
              SubSeq(RowsFrom(h, 1), Total(h) - Below(h, m - 1) + cut + 1,
                                     Total(h) - Below(h, m - 1) + cut + k)
  <2>1. m \in 1 .. Len(h) /\ cut \in Nat
    BY <1>2, <1>9
  <2>2. cut <= Below(h, m - 1)
    BY <1>3, <1>9
  <2>3. IsWritten(h, m, cut, n)
    BY <2>1, <2>2, WrittenIs
  <2> QED
    BY <2>3, Zenon DEF IsWritten
<1>11. k = len
  BY <1>3, <1>4, <1>6, <1>9, <1>10, Zenon
<1>12. Len(w) = len /\ w = SubSeq(RowsFrom(h, 1), 1, len)
  <2>1. all - all + 0 + 1 = 1 /\ all - all + 0 + len = len
    OBVIOUS
  <2>2. w = SubSeq(RowsFrom(h, 1), all - all + 0 + 1, all - all + 0 + len) /\ Len(w) = len
    BY <1>3, <1>4, <1>8, <1>9, <1>10, <1>11, Zenon
  <2> QED
    BY <2>1, <2>2, Zenon
<1>13. PICK up : up = Min({top, Max({0, all - n})})
  OBVIOUS
<1>14. /\ Section(h, top, n) = SubSeq(RowsFrom(h, 1), Max({1, (all - up) - n + 1}), all - up)
       /\ Min({top, Highest(h, n)}) = up
  <2>1. PICK tot, high :
          /\ tot = Total(h) /\ high = Min({top, Max({0, tot - n})})
          /\ Section(h, top, n) =
               SubSeq(RowsFrom(h, 1), Max({1, (tot - high) - n + 1}), tot - high)
          /\ Min({top, Highest(h, n)}) = high
    <3>1. IsPart(h, top, n)
      BY SectionIs, Zenon
    <3> QED
      BY <3>1, Zenon DEF IsPart
  <2>2. tot = all
    BY <1>3, <2>1, Zenon
  <2>3. high = up
    BY <1>13, <2>1, <2>2, Zenon
  <2> QED
    BY <2>1, <2>2, <2>3, Zenon
<1>15. w = Section(h, top, n)
  BY <1>6, <1>12, <1>13, <1>14, Zenon
<1>16. View(h, top, n).scroll = Min({top, Highest(h, n)})
  BY <1>3, <1>6, <1>8, <1>12, <1>13, <1>14, Zenon
<1>17. w[1] = <<1, 1>>
  <2>1. /\ RowsFrom(h, 1) \in Seq(Rows) /\ Len(RowsFrom(h, 1)) = all
        /\ RowsFrom(h, 1)[1] = <<1, 1>>
    <3>1. 1 \in 1 .. Len(h) + 1 /\ 1 \in 1 .. h[1]
      BY <1>1, <1>3
    <3>2. RowsFrom(h, 1) \in Seq(Rows)
      BY <3>1, ColumnFacts
    <3>3. RowsFrom(h, 1)[1] = <<1, 1>>
      BY <1>2, <3>1, ColumnFacts
    <3>4. Len(RowsFrom(h, 1)) = Total(h)
      BY DEF Total, Below
    <3> QED
      BY <1>3, <3>2, <3>3, <3>4, Zenon
  <2>2. /\ 1 \in Nat \ {0} /\ len \in Int /\ len <= Len(RowsFrom(h, 1))
        /\ 1 \in 1 .. len - 1 + 1 /\ 1 + 1 - 1 = 1
    BY <1>6, <2>1
  <2>3. SubSeq(RowsFrom(h, 1), 1, len)[1] = RowsFrom(h, 1)[1 + 1 - 1]
    BY <2>1, <2>2, PartOf
  <2> QED
    BY <1>12, <2>1, <2>2, <2>3, Zenon
<1>18. Len(w) \in Nat /\ Len(w) <= n
  BY <1>6, <1>12, Zenon
<1> QED
  BY <1>8, <1>15, <1>16, <1>17, <1>18, Zenon DEF IsSection

LEMMA ViewIsSection ==
  ASSUME NEW h, IsColumn(h), Len(h) # 0, NEW n \in Nat \ {0}, Fits(h, n), NEW top \in Nat
  PROVE  IsSection(h, top, n)
<1>1. \/ NotEntered(h, top, n) \/ MeetsHead(h, top, n)
      \/ \E m \in 1 .. Skip(h, top) : StopsWith(h, top, n, m)
  <2>1. n \in Nat
    OBVIOUS
  <2> QED
    BY <2>1, FirstIs
<1> QED
  BY <1>1, AlwaysEntered, SectionInside, SectionAtHead

-----------------------------------------------------------------------------
(* The console as a whole: the logs, the scroll positions and what is shown. *)

(* The height of a message, and of the prompt with what is typed behind it.  *)
LEMMA Ceiling ==
  ASSUME NEW x \in Nat, NEW c \in Nat \ {0}
  PROVE  (x + c - 1) \div c \in Nat
OBVIOUS

LEMMA OneMoreRow ==
  ASSUME NEW x \in Nat, NEW c \in Nat \ {0}
  PROVE  (x - 1) \div c + 1 = (x + c - 1) \div c
OBVIOUS

LEMMA WindowFacts ==
  ASSUME NEW w \in Windows
  PROVE  w.rows \in Int /\ w.cols \in Nat \ {0}
BY ViewAssumption

(* A log that was full lost its head for the message that came.              *)
LEMMA GrownLog ==
  ASSUME NEW l \in Seq(Lengths), NEW n \in Lengths
  PROVE  Append(IF Len(l) < MaxLog THEN l ELSE Tail(l), n) \in Seq(Lengths)
<1>1. CASE Len(l) < MaxLog
  BY <1>1
<1>2. CASE ~(Len(l) < MaxLog)
  <2>1. l # <<>>
    BY <1>2, ViewAssumption
  <2>2. Tail(l) \in Seq(Lengths)
    BY <2>1
  <2> QED
    BY <1>2, <2>2
<1> QED
  BY <1>1, <1>2

LogType == log \in [Screens -> Seq(Lengths)]
ScrollType == scroll \in [Screens -> Nat] /\ scroll_at_top \in [Screens -> BOOLEAN]
ShownType == shown \in Seq(Rows)
ViewInv == IInv /\ LogType /\ ScrollType /\ ShownType

(* What draw_screen gives to screen_fmt_to_buf are heights.                  *)
LEMMA HeightsAre ==
  ASSUME LogType, active \in Screens, NEW w \in Windows
  PROVE  /\ IsColumn(Heights(w)) /\ Len(Heights(w)) = Len(log[active])
         /\ log[active] \in Seq(Lengths)
<1>1. log[active] \in Seq(Lengths)
  BY DEF LogType
<1>2. /\ Len(log[active]) \in Nat /\ DOMAIN log[active] = 1 .. Len(log[active])
      /\ \A k \in 1 .. Len(log[active]) : log[active][k] \in Nat
  BY <1>1, SeqFacts, ViewAssumption
<1>3. \A k \in 1 .. Len(log[active]) : (log[active][k] + w.cols - 1) \div w.cols \in Nat
  BY <1>2, WindowFacts, Ceiling
<1>4. Heights(w) \in [1 .. Len(log[active]) -> Nat]
  BY <1>2, <1>3 DEF Heights
<1>5. Heights(w) \in Seq(Nat)
  BY <1>2, <1>4, SeqDef
<1>6. Len(Heights(w)) = Len(log[active])
  BY <1>2, <1>4, <1>5, LenProperties
<1> QED
  BY <1>1, <1>5, <1>6 DEF IsColumn

LEMMA RowsLeftType ==
  ASSUME InputTypeOK, NEW w \in Windows
  PROVE  RowsLeft(w) \in Int
<1>1. i \in Nat
  BY InputAssumption DEF InputTypeOK, i
<1>2. PromptLen + i - 1 \in Nat
  BY <1>1, ViewAssumption
<1>3. (PromptLen + i - 1) \div w.cols \in Int
  BY <1>2, WindowFacts
<1> QED
  BY <1>3, WindowFacts DEF RowsLeft

LEMMA ViewInit == Init => ViewInv
<1> SUFFICES ASSUME Init
             PROVE  ViewInv
  OBVIOUS
<1>1. IInv
  BY InitInv DEF Init
<1>2. LogType /\ ScrollType /\ ShownType
  BY DEF Init, LogType, ScrollType, ShownType
<1> QED
  BY <1>1, <1>2 DEF ViewInv

LEMMA DrawType ==
  ASSUME ViewInv, NEW w \in Windows, Draw(w)
  PROVE  (LogType /\ ScrollType /\ ShownType)'
<1>1. active \in Screens /\ InputTypeOK /\ LogType /\ ScrollType
  BY DEF ViewInv, IInv, InputTypeOK
<1>2. log' = log
  BY DEF Draw
<1>3. CASE log[active] = <<>>
  <2>1. shown' = <<>> /\ scroll' = scroll /\ scroll_at_top' = scroll_at_top
    BY <1>3 DEF Draw
  <2> QED
    BY <1>1, <1>2, <2>1 DEF LogType, ScrollType, ShownType
<1>4. CASE log[active] # <<>>
  <2> DEFINE v == View(Heights(w), scroll[active], RowsLeft(w))
  <2>1. /\ shown' = v.shown
        /\ scroll' = [scroll EXCEPT ![active] = v.scroll]
        /\ scroll_at_top' = [scroll_at_top EXCEPT ![active] = v.scroll_at_top]
    BY <1>4 DEF Draw
  <2>2. RowsLeft(w) \in Nat \ {0}
    BY <1>1, RowsLeftType DEF Draw
  <2>3. IsColumn(Heights(w)) /\ Len(Heights(w)) # 0
    BY <1>1, <1>4, HeightsAre
  <2>4. scroll[active] \in Nat
    BY <1>1 DEF ScrollType
  <2>5. v.shown \in Seq(Rows) /\ v.scroll \in Nat /\ v.scroll_at_top \in BOOLEAN
    BY <2>2, <2>3, <2>4, ViewType
  <2> HIDE DEF v
  <2> QED
    BY <1>1, <1>2, <2>1, <2>5 DEF LogType, ScrollType, ShownType
<1> QED
  BY <1>3, <1>4

LEMMA ViewStep == ViewInv /\ [Next]_vars => ViewInv'
<1> SUFFICES ASSUME ViewInv, [Next]_vars
             PROVE  ViewInv'
  OBVIOUS
<1>1. IInv'
  <2>1. [InputNext]_inputVars
    BY DEF Next, vars, FromServer, FromUser, Keys, Turn, WheelDown, WheelUp, Draw,
           InputNext, inputVars
  <2> QED
    BY <2>1, NextInv DEF ViewInv
<1>2. active \in Screens /\ LogType /\ ScrollType /\ ShownType
  BY DEF ViewInv, IInv, InputTypeOK
<1> SUFFICES (LogType /\ ScrollType /\ ShownType)'
  BY <1>1 DEF ViewInv
<1>3. ASSUME NEW s \in Screens, Deliver(s), UNCHANGED viewVars
      PROVE  (LogType /\ ScrollType /\ ShownType)'
  <2>1. PICK n \in Lengths :
          log' = [log EXCEPT ![s] = Append(IF Len(@) < MaxLog THEN @ ELSE Tail(@), n)]
    BY <1>3 DEF Deliver
  <2>2. log[s] \in Seq(Lengths)
    BY <1>2 DEF LogType
  <2>3. PICK l \in Seq(Lengths) : log' = [log EXCEPT ![s] = l]
    BY <2>1, <2>2, GrownLog
  <2> QED
    BY <1>2, <1>3, <2>3 DEF LogType, ScrollType, ShownType, viewVars
<1>4. CASE FromServer
  BY <1>3, <1>4 DEF FromServer
<1>5. CASE FromUser
  BY <1>2, <1>3, <1>5 DEF FromUser
<1>6. CASE Keys \/ Turn \/ UNCHANGED vars
  BY <1>2, <1>6 DEF Keys, Turn, vars, viewVars, LogType, ScrollType, ShownType
<1>7. CASE WheelDown
  <2>1. scroll[active] \in Nat /\ scroll[active] - 1 \in Int /\ 0 \in Int
    BY <1>2 DEF ScrollType
  <2>2. Max({scroll[active] - 1, 0}) \in Nat
    BY <2>1, MaxMin
  <2>3. /\ scroll' = [scroll EXCEPT ![active] = Max({scroll[active] - 1, 0})]
        /\ UNCHANGED <<log, scroll_at_top, shown>>
    BY <1>7 DEF WheelDown
  <2> QED
    BY <1>2, <2>2, <2>3 DEF LogType, ScrollType, ShownType
<1>8. CASE WheelUp
  <2>1. scroll[active] \in Nat /\ scroll[active] + 1 \in Nat
    BY <1>2 DEF ScrollType
  <2>2. PICK up \in Nat : /\ scroll' = [scroll EXCEPT ![active] = up]
                          /\ UNCHANGED <<log, scroll_at_top, shown>>
    BY <1>8, <2>1 DEF WheelUp
  <2> QED
    BY <1>2, <2>2 DEF LogType, ScrollType, ShownType
<1>9. ASSUME NEW w \in Windows, Draw(w)
      PROVE  (LogType /\ ScrollType /\ ShownType)'
  BY <1>9, DrawType
<1> QED
  BY <1>4, <1>5, <1>6, <1>7, <1>8, <1>9 DEF Next

(* Every variable of the console has its type: whatever the heights of the   *)
(* messages and the sizes of the window are, only rows of the log are shown, *)
(* and no scroll position becomes negative.                                  *)
THEOREM ConsoleTypeCorrect == Spec => []TypeOK
<1>1. ViewInv => TypeOK
  BY DEF ViewInv, IInv, LogType, ScrollType, ShownType, Rows, TypeOK
<1> QED
  BY <1>1, ViewInit, ViewStep, PTL DEF Spec

(* Every draw shows the section of the log that the user has scrolled to, as *)
(* long as every message fits the window.                                    *)
THEOREM SectionShown == Spec => DrawShowsSection
<1>1. ASSUME ViewInv, NEW w \in Windows, Draw(w), log[active] # <<>>,
             Fits(Heights(w), RowsLeft(w))
      PROVE  /\ shown' = Section(Heights(w), scroll[active], RowsLeft(w))
             /\ scroll'[active] = Min({scroll[active], Highest(Heights(w), RowsLeft(w))})
             /\ scroll_at_top'[active] => shown'[1] = <<1, 1>>
             /\ Len(shown') + (PromptLen + Len(draft[active]) + w.cols - 1) \div w.cols
                  <= w.rows
  <2> DEFINE h == Heights(w)
             n == RowsLeft(w)
             top == scroll[active]
             v == View(h, top, n)
  <2>1. active \in Screens /\ InputTypeOK /\ LogType /\ ScrollType
    BY <1>1 DEF ViewInv, IInv, InputTypeOK
  <2>2. /\ shown' = v.shown
        /\ scroll' = [scroll EXCEPT ![active] = v.scroll]
        /\ scroll_at_top' = [scroll_at_top EXCEPT ![active] = v.scroll_at_top]
    BY <1>1 DEF Draw
  <2>3. n \in Nat \ {0} /\ top \in Nat
    BY <1>1, <2>1, RowsLeftType DEF Draw, ScrollType
  <2>4. IsColumn(h) /\ Len(h) # 0
    BY <1>1, <2>1, HeightsAre
  <2>5. IsSection(h, top, n)
    <3> HIDE DEF h, n, top
    <3>1. Fits(h, n)
      BY <1>1 DEF h, n
    <3> QED
      BY <2>3, <2>4, <3>1, ViewIsSection
  <2>6. /\ v.shown = Section(h, top, n)
        /\ Len(v.shown) \in Nat /\ Len(v.shown) <= n
        /\ v.scroll = Min({top, Highest(h, n)})
        /\ v.scroll_at_top => v.shown[1] = <<1, 1>>
    BY <2>5, Zenon DEF IsSection
  <2>7. scroll'[active] = v.scroll /\ scroll_at_top'[active] = v.scroll_at_top
    BY <2>1, <2>2 DEF ScrollType
  <2>8. PICK typed \in Nat : typed = Len(draft[active]) /\ typed = i
    <3>1. IsBuffer(inputbuf[active], i_inputbuf[active], draft[active])
      BY <1>1, <2>1 DEF ViewInv, IInv, BufferInv
    <3>2. Len(draft[active]) = i_inputbuf[active] /\ i_inputbuf[active] \in Nat
      BY <2>1, <3>1, BufferShows DEF InputTypeOK
    <3> QED
      BY <3>2 DEF i
  <2>9. PICK len \in Nat, rows \in Int, cols \in Nat \ {0} :
          len = Len(v.shown) /\ rows = w.rows /\ cols = w.cols /\ len <= n
    BY <2>6, WindowFacts
  <2>10. n = rows - ((PromptLen + typed - 1) \div cols + 1)
    BY <2>8, <2>9 DEF RowsLeft
  <2>11. len + (PromptLen + typed + cols - 1) \div cols <= rows
    <3>1. PICK p \in Nat : p = PromptLen + typed
      BY ViewAssumption
    <3>2. (p - 1) \div cols + 1 = (p + cols - 1) \div cols
      BY <2>9, OneMoreRow
    <3>3. (p - 1) \div cols \in Int /\ n = rows - ((p - 1) \div cols + 1)
      <4> HIDE DEF n
      <4>1. (p - 1) \div cols \in Int
        BY <3>1
      <4>2. PromptLen + typed - 1 = p - 1
        BY <3>1, ViewAssumption
      <4> QED
        BY <2>10, <4>1, <4>2, Zenon
    <3>4. len + ((p - 1) \div cols + 1) <= rows
      BY <2>3, <2>9, <3>3
    <3> QED
      BY <3>1, <3>2, <3>4
  <2> QED
    BY <2>2, <2>6, <2>7, <2>8, <2>9, <2>11, Zenon
<1>2. ViewInv => \A w \in Windows :
        LET h == Heights(w)
            n == RowsLeft(w)
        IN  Draw(w) /\ log[active] # <<>> /\ Fits(h, n) =>
              /\ shown' = Section(h, scroll[active], n)
              /\ scroll'[active] = Min({scroll[active], Highest(h, n)})
              /\ scroll_at_top'[active] => shown'[1] = <<1, 1>>
              /\ Len(shown') + (PromptLen + Len(draft[active]) + w.cols - 1) \div w.cols
                   <= w.rows
  BY <1>1, Zenon
<1> QED
  BY <1>2, ViewInit, ViewStep, PTL DEF Spec, DrawShowsSection
=============================================================================
