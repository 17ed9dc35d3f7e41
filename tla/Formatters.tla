------------------------------ MODULE Formatters ------------------------------
(***************************************************************************)
(* The three formatters of src/handlers.c, which put a message together in *)
(* s_scrbuf, on top of the writers of src/terminalutils.c.  A buffer is    *)
(* its cells, each with the piece it belongs to, and n_bytes; "old" is     *)
(* what the last message has left there.  end is "ends" when an assertion  *)
(* or sprintf_s has ended the program and "refused" when the formatter has *)
(* returned false.                                                         *)
(***************************************************************************)
EXTENDS Integers, Sequences, FiniteSetsExt

Nul == "nul"
Code256Len == 11      (* ESC [ 3 8 ; 5 ; 2 4 5 m                             *)

Empty(size) == [cells |-> [i \in 1 .. size |-> "old"], n |-> 0, end |-> "no"]
Room(b) == Len(b.cells) - b.n

(* The piece and the NUL behind it, written from the index at + 1 on. *)
Written(b, at, piece, len) ==
  [b EXCEPT !.cells = [i \in DOMAIN @ |->
     CASE i \in at + 1 .. at + len -> piece
       [] i = at + len + 1         -> Nul
       [] OTHER                    -> @[i]],
   !.n = @ + len]

(* Mutant: the room for the NUL is forgotten. *)
WriteIfFitsExactly(b, piece, len) ==
  IF len <= Room(b) THEN Written(b, b.n, piece, len) ELSE b

(* write_if_fits: what does not fit with its NUL is not written. *)
WriteIfFits(b, piece, len) ==
  IF len < Room(b) THEN Written(b, b.n, piece, len) ELSE b

(* termutils_set_text_color_256_buf, with the assertion that build.ps1 has *)
(* switched on.                                                            *)
WriteCode256(b, piece) ==
  IF Room(b) > Code256Len THEN WriteIfFits(b, piece, Code256Len)
                          ELSE [b EXCEPT !.end = "ends"]

(* sprintf_s: what does not fit goes to the invalid parameter handler. *)
Sprintf(b, piece, len) ==
  IF len < Room(b) THEN Written(b, b.n, piece, len) ELSE [b EXCEPT !.end = "ends"]

Refuse(b) == IF Room(b) = 0 THEN [b EXCEPT !.end = "refused"] ELSE b

(* A character by hand, without a NUL. *)
PutChar(b, piece) ==
  IF Room(b) = 0 THEN Refuse(b)
  ELSE [b EXCEPT !.cells[b.n + 1] = piece, !.n = @ + 1]

(* The colour of an error text goes to the start of the buffer, and yet is   *)
(* counted at the end.                                                       *)
WriteAtStart(b, piece) ==
  IF Len(b.cells) > Code256Len THEN Written(b, 0, piece, Code256Len)
                               ELSE [b EXCEPT !.end = "ends"]

Do(b, op) ==
  IF b.end # "no" THEN b
  ELSE CASE op.by = "fits"      -> WriteIfFits(b, op.piece, op.len)
         [] op.by = "256"       -> WriteCode256(b, op.piece)
         [] op.by = "sprintf"   -> Sprintf(b, op.piece, op.len)
         [] op.by = "char"      -> PutChar(b, op.piece)
         [] op.by = "check"     -> Refuse(b)
         [] op.by = "256_start" -> WriteAtStart(b, op.piece)

Code(len) == [by |-> "fits", piece |-> "code", len |-> len]
Code256 == [by |-> "256", piece |-> "code", len |-> Code256Len]
Text(piece, len) == [by |-> "sprintf", piece |-> piece, len |-> len]
Char(piece) == [by |-> "char", piece |-> piece, len |-> 1]
Check == [by |-> "check", piece |-> Nul, len |-> 0]

Timestamp == Text("[ts] ", 11)
TextColor == Code(5)  (* ESC [ 3 4 m; a bright one is ESC [ 9 6 m            *)
Bold(on) == Code(IF on THEN 4 ELSE 5)

(* screenfmt_default, with one parameter *)
DefaultOps(src, param) ==
  <<TextColor, Timestamp, TextColor, Check, Text("src", src + 2),
    Code256, Check, Text("cmd", 5), Text("param", param + 1), TextColor>>

(* screenfmt_privmsg *)
PrivmsgOps(from, msg, self) ==
  <<TextColor, Timestamp, TextColor, Char("<"), Bold(self), TextColor,
    Text("from", from), Bold(FALSE), TextColor, Char(">"), TextColor,
    Text("msg", msg + 1), TextColor>>

(* screenfmt_privmsg_error *)
ErrorOps(from, msg) ==
  <<TextColor, Text("error", 11),
    [by |-> "256_start", piece |-> "code", len |-> Code256Len],
    Text("rest", 15 + from + msg)>>

Format(ops, size) ==
  LET after[n \in 0 .. Len(ops)] ==
        IF n = 0 THEN Empty(size) ELSE Do(after[n - 1], ops[n])
  IN  after[Len(ops)]

-----------------------------------------------------------------------------
(* What the screen gets: the bytes up to the first NUL. *)
Shown(b) ==
  LET nuls == {i \in DOMAIN b.cells : b.cells[i] = Nul} IN
    SubSeq(b.cells, 1, (IF nuls = {} THEN Len(b.cells) ELSE Min(nuls) - 1))

Copies(piece, len) == [i \in 1 .. len |-> piece]
Wanted(ops) ==
  LET text[n \in 0 .. Len(ops)] ==
        IF n = 0 THEN <<>>
        ELSE IF ops[n].by \in {"sprintf", "char"}
               THEN text[n - 1] \o Copies(ops[n].piece, ops[n].len) ELSE text[n - 1]
  IN  text[Len(ops)]

WithoutCodes(s) ==
  LET text[n \in 0 .. Len(s)] ==
        IF n = 0 THEN <<>>
        ELSE IF s[n] = "code" THEN text[n - 1] ELSE Append(text[n - 1], s[n])
  IN  text[Len(s)]

(* A message for which a formatter reports success shows all its text, in    *)
(* order: only codes may be missing.                                         *)
TextShows(ops, size) ==
  LET b == Format(ops, size) IN
    b.end = "no" => WithoutCodes(Shown(b)) = Wanted(ops)

(* It is in the buffer as it was counted, up to its NUL, and shows.          *)
CountedIsShown(ops, size) ==
  LET b == Format(ops, size) IN
    /\ b.end = "no" => Len(Shown(b)) = b.n /\ b.n < size
    /\ TextShows(ops, size)
=============================================================================
