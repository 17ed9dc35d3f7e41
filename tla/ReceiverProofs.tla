--------------------------- MODULE ReceiverProofs ---------------------------
(***************************************************************************)
(* The thread that receives, for any stream of bytes in any chunks and any  *)
(* size of its buffer: every message arrives whole, once and in order.     *)
(***************************************************************************)
EXTENDS Receiver, Induction, SequenceTheorems

Strings == Seq(Bytes)

-----------------------------------------------------------------------------
(* Delimiters. *)

(* What a delimiter is, and that no two overlap. *)
LEMMA DelimFacts ==
  ASSUME NEW s \in Strings
  PROVE  /\ \A d : d \in Delims(s) <=> /\ d \in 1 .. Len(s) - 1
                                      /\ s[d] = "CR" /\ s[d + 1] = "LF"
         /\ \A d \in Delims(s) : d \in Nat /\ d >= 1 /\ d + 1 <= Len(s)
                                 /\ d + 1 \notin Delims(s)
<1>1. Len(s) \in Nat /\ DOMAIN s = 1 .. Len(s)
  BY SeqFacts DEF Strings
<1>2. ASSUME NEW d
      PROVE  d \in Delims(s) <=> d \in 1 .. Len(s) - 1 /\ s[d] = "CR" /\ s[d + 1] = "LF"
  BY <1>1 DEF Delims, DelimAt
<1> QED
  BY <1>1, <1>2

LEMMA MaxIs ==
  ASSUME NEW n \in Nat, NEW S \in SUBSET (1 .. n), S # {}
  PROVE  Max(S) \in S /\ \A i \in S : i <= Max(S)
<1>1. \E x \in S : \A y \in S : x >= y
  <2>1. S \in SUBSET (0 .. n)
    OBVIOUS
  <2> QED
    BY <2>1, Greatest
<1>2. Max(S) \in S /\ \A y \in S : Max(S) >= y
  BY <1>1, Zenon DEF Max
<1> QED
  BY <1>2

(* The search from the end finds the LF of the last delimiter, if there is one. *)
LEMMA LastDelimIs ==
  ASSUME NEW b \in Strings
  PROVE  /\ LastDelim(b) \in Int
         /\ Delims(b) = {} => LastDelim(b) = 1
         /\ Delims(b) # {} => /\ LastDelim(b) > 1 /\ LastDelim(b) - 1 \in Delims(b)
                              /\ \A d \in Delims(b) : d <= LastDelim(b) - 1
<1> DEFINE S == {1} \cup {i + 1 : i \in Delims(b)}
<1>1. Len(b) \in Nat
  BY SeqFacts DEF Strings
<1>2. \A d \in Delims(b) : d \in Nat /\ d >= 1 /\ d + 1 <= Len(b)
  BY DelimFacts
<1>3. S \in SUBSET (1 .. Len(b) + 1) /\ S # {}
  BY <1>1, <1>2
<1>4. LastDelim(b) = Max(S)
  BY DEF LastDelim
<1>5. Max(S) \in S /\ \A i \in S : i <= Max(S)
  <2>1. Len(b) + 1 \in Nat
    BY <1>1
  <2> HIDE DEF S
  <2> QED
    BY <1>3, <2>1, MaxIs
<1>6. Delims(b) = {} => LastDelim(b) = 1
  BY <1>4, <1>5
<1>7. ASSUME NEW d \in Delims(b)
      PROVE  /\ LastDelim(b) > 1 /\ LastDelim(b) - 1 \in Delims(b)
             /\ d <= LastDelim(b) - 1
  <2>1. d + 1 \in S
    OBVIOUS
  <2>2. d + 1 <= LastDelim(b) /\ LastDelim(b) \in S
    BY <1>4, <1>5, <2>1
  <2>3. LastDelim(b) # 1 /\ LastDelim(b) \in Int
    BY <1>2, <2>2
  <2>4. PICK e \in Delims(b) : LastDelim(b) = e + 1
    BY <2>2, <2>3
  <2> QED
    BY <1>2, <2>2, <2>4
<1>8. LastDelim(b) \in Int
  BY <1>3, <1>4, <1>5
<1> QED
  BY <1>6, <1>7, <1>8

-----------------------------------------------------------------------------
(* Messages that were cut out of bytes. *)

LEMMA CStringType ==
  ASSUME NEW b \in Strings
  PROVE  CString(b) \in Strings
<1> DEFINE nuls == {i \in DOMAIN b : b[i] = "NUL"}
<1>1. Len(b) \in Nat /\ DOMAIN b = 1 .. Len(b)
  BY SeqFacts DEF Strings
<1>2. nuls \in SUBSET Nat /\ \A i \in nuls : i \in 1 .. Len(b)
  BY <1>1
<1>3. CString(b) = IF nuls = {} THEN b ELSE SubSeq(b, 1, Min(nuls) - 1)
  BY DEF CString
<1> HIDE DEF nuls
<1>4. CASE nuls = {}
  BY <1>3, <1>4
<1>5. CASE nuls # {}
  <2>1. \E x \in nuls : \A y \in nuls : x <= y
    BY <1>2, <1>5, Smallest
  <2>2. Min(nuls) \in nuls
    BY <2>1, Zenon DEF Min
  <2> DEFINE m == Min(nuls)
  <2>3. m \in 1 .. Len(b)
    BY <1>2, <2>2
  <2> HIDE DEF m
  <2>4. SubSeq(b, 1, m - 1) \in Seq(Bytes)
    <3>1. m - 1 \in Int /\ m - 1 <= Len(b) /\ b \in Seq(Bytes) /\ 1 \in Nat \ {0}
      BY <1>1, <2>3 DEF Strings
    <3> QED
      BY <3>1, PartOf
  <2> QED
    BY <1>3, <1>5, <2>4 DEF Strings, m
<1> QED
  BY <1>4, <1>5

(* msgs are the messages of s that end at delimiters up to i, cut at ends;   *)
(* the next one begins at start.                                             *)
Whole(ends, msgs, s, start, i) ==
  /\ msgs \in Seq(Strings)
  /\ ends \in [1 .. Len(msgs) -> Delims(s)]
  /\ CutAt(ends, msgs, s)
  /\ \A d \in Delims(s) : d <= i <=> \E k \in 1 .. Len(msgs) : ends[k] = d
  /\ start = IF Len(msgs) = 0 THEN 1 ELSE ends[Len(msgs)] + 2

(* CutAt with the domain written out. *)
LEMMA CutFacts ==
  ASSUME NEW msgs \in Seq(Strings), NEW ends, NEW s
  PROVE  CutAt(ends, msgs, s) <=>
           /\ \A j, k \in 1 .. Len(msgs) : j < k => ends[j] < ends[k]
           /\ \A k \in 1 .. Len(msgs) :
                msgs[k] = CString(SubSeq(s, Begin(ends, k), ends[k] - 1))
<1>1. DOMAIN msgs = 1 .. Len(msgs)
  BY SeqFacts
<1> QED
  BY <1>1 DEF CutAt

(* Where messages begin and end. *)
LEMMA WholeFacts ==
  ASSUME NEW s \in Strings, NEW ends, NEW msgs, NEW start, NEW i, Whole(ends, msgs, s, start, i)
  PROVE  /\ Len(msgs) \in Nat /\ Len(s) \in Nat
         /\ \A k \in 1 .. Len(msgs) :
              /\ ends[k] \in Nat /\ ends[k] >= 1 /\ ends[k] + 1 <= Len(s)
              /\ ends[k] + 2 <= start
              /\ k # 1 => k - 1 \in 1 .. Len(msgs)
         /\ start \in Nat /\ start >= 1 /\ start <= Len(s) + 1
         /\ start # 1 => s[start - 1] = "LF"
<1>1. Len(msgs) \in Nat /\ Len(s) \in Nat
  BY SeqFacts DEF Whole, Strings
<1>2. ASSUME NEW k \in 1 .. Len(msgs)
      PROVE  /\ ends[k] \in Nat /\ ends[k] >= 1 /\ ends[k] + 1 <= Len(s)
             /\ s[ends[k] + 1] = "LF"
  <2>1. ends[k] \in Delims(s)
    BY DEF Whole
  <2> QED
    BY <2>1, DelimFacts
<1>3. ASSUME NEW k \in 1 .. Len(msgs)
      PROVE  ends[k] + 2 <= start
  <2>1. /\ Len(msgs) \in 1 .. Len(msgs) /\ Len(msgs) # 0
        /\ start = ends[Len(msgs)] + 2
    BY <1>1 DEF Whole
  <2>2. k # Len(msgs) => ends[k] < ends[Len(msgs)]
    <3>1. k # Len(msgs) => k < Len(msgs)
      BY <1>1
    <3> QED
      BY <2>1, <3>1, CutFacts DEF Whole
  <2>3. ends[k] \in Nat /\ ends[Len(msgs)] \in Nat
    BY <1>2, <2>1
  <2> QED
    BY <2>1, <2>2, <2>3
<1>4. CASE Len(msgs) = 0
  BY <1>1, <1>2, <1>3, <1>4 DEF Whole
<1>5. CASE Len(msgs) # 0
  <2>1. Len(msgs) \in 1 .. Len(msgs) /\ start = ends[Len(msgs)] + 2
    BY <1>1, <1>5 DEF Whole
  <2>2. /\ start \in Nat /\ start >= 1 /\ start <= Len(s) + 1
        /\ start - 1 = ends[Len(msgs)] + 1
    BY <1>1, <1>2, <2>1
  <2>3. \A k \in 1 .. Len(msgs) : k # 1 => k - 1 \in 1 .. Len(msgs)
    BY <1>1
  <2> QED
    BY <1>1, <1>2, <1>3, <2>1, <2>2, <2>3
<1> QED
  BY <1>4, <1>5

LEMMA BeginFacts ==
  ASSUME NEW s \in Strings, NEW ends, NEW msgs, NEW start, NEW i, Whole(ends, msgs, s, start, i),
         NEW k \in 1 .. Len(msgs)
  PROVE  Begin(ends, k) \in Nat \ {0}
<1>1. CASE k = 1
  BY <1>1 DEF Begin
<1>2. CASE k # 1
  <2>1. k - 1 \in 1 .. Len(msgs)
    BY <1>2, WholeFacts
  <2>2. ends[k - 1] \in Nat
    BY <2>1, WholeFacts
  <2> QED
    BY <1>2, <2>2 DEF Begin
<1> QED
  BY <1>1, <1>2

(* What comes behind leaves the messages as they are. *)
LEMMA WholeGrows ==
  ASSUME NEW s \in Strings, NEW t \in Strings, Len(s) <= Len(t),
         \A j \in 1 .. Len(s) : t[j] = s[j],
         NEW ends, NEW msgs, NEW start, Whole(ends, msgs, s, start, start - 1)
  PROVE  Whole(ends, msgs, t, start, start - 1)
<1>1. /\ Len(msgs) \in Nat /\ Len(s) \in Nat /\ Len(t) \in Nat
      /\ \A k \in 1 .. Len(msgs) :
           /\ ends[k] \in Nat /\ ends[k] >= 1 /\ ends[k] + 1 <= Len(s)
           /\ ends[k] + 2 <= start
           /\ k # 1 => k - 1 \in 1 .. Len(msgs)
      /\ start \in Nat /\ start >= 1 /\ start <= Len(s) + 1
      /\ start # 1 => s[start - 1] = "LF"
  <2>1. Len(t) \in Nat
    BY SeqFacts DEF Strings
  <2> QED
    BY <2>1, WholeFacts
<1>2. \A d \in Delims(s) : d \in Delims(t)
  <2> SUFFICES ASSUME NEW d \in Delims(s)
               PROVE  d \in Delims(t)
    OBVIOUS
  <2>1. d \in 1 .. Len(s) - 1 /\ s[d] = "CR" /\ s[d + 1] = "LF"
    BY DelimFacts
  <2>2. d \in 1 .. Len(t) - 1 /\ d \in 1 .. Len(s) /\ d + 1 \in 1 .. Len(s)
    BY <1>1, <2>1
  <2> QED
    BY <2>1, <2>2, DelimFacts
<1>3. ASSUME NEW d \in Delims(t), d <= start - 1
      PROVE  d \in Delims(s)
  <2>1. d \in 1 .. Len(t) - 1 /\ t[d] = "CR" /\ t[d + 1] = "LF"
    BY DelimFacts
  <2>2. d \in 1 .. Len(s) /\ start # 1
    BY <1>1, <1>3, <2>1
  <2>3. d # start - 1
    BY <1>1, <2>1, <2>2
  <2>4. d \in 1 .. Len(s) - 1 /\ d + 1 \in 1 .. Len(s)
    BY <1>1, <1>3, <2>1, <2>3
  <2> QED
    BY <2>1, <2>2, <2>4, DelimFacts
<1>4. msgs \in Seq(Strings) /\ ends \in [1 .. Len(msgs) -> Delims(t)]
  BY <1>2 DEF Whole
<1>5. CutAt(ends, msgs, t)
  <2>1. ASSUME NEW k \in 1 .. Len(msgs)
        PROVE  SubSeq(t, Begin(ends, k), ends[k] - 1)
                 = SubSeq(s, Begin(ends, k), ends[k] - 1)
    <3> DEFINE m == Begin(ends, k)
               n == ends[k] - 1
    <3>1. m \in Nat \ {0} /\ n \in Int /\ n <= Len(s) /\ n <= Len(t)
      <4>1. m \in Nat \ {0}
        BY BeginFacts
      <4>2. ends[k] \in Nat /\ ends[k] + 1 <= Len(s)
        BY WholeFacts
      <4>3. Len(s) \in Nat /\ Len(t) \in Nat /\ Len(s) <= Len(t)
        BY <1>1
      <4> HIDE DEF m
      <4> QED
        BY <4>1, <4>2, <4>3
    <3> HIDE DEF m, n
    <3>2. Agree(s, t, 0, m, n)
      BY <1>1, <3>1 DEF Agree
    <3>3. 0 + m = m /\ 0 + n = n /\ 0 \in Nat
      BY <3>1
    <3>4. SubSeq(t, 0 + m, 0 + n) = SubSeq(s, m, n)
      <4>1. 0 + n <= Len(t) /\ s \in Seq(Bytes) /\ t \in Seq(Bytes)
        BY <3>1 DEF Strings
      <4> QED
        BY <3>1, <3>2, <3>3, <4>1, SamePart
    <3>5. SubSeq(t, m, n) = SubSeq(s, m, n)
      BY <3>3, <3>4
    <3> QED
      BY <3>5 DEF m, n
  <2> QED
    <3>1. /\ \A j, k \in 1 .. Len(msgs) : j < k => ends[j] < ends[k]
          /\ \A k \in 1 .. Len(msgs) :
               msgs[k] = CString(SubSeq(s, Begin(ends, k), ends[k] - 1))
      BY <1>4, CutFacts DEF Whole
    <3>2. \A k \in 1 .. Len(msgs) :
            msgs[k] = CString(SubSeq(t, Begin(ends, k), ends[k] - 1))
      BY <2>1, <3>1, Zenon
    <3> QED
      BY <1>4, <3>1, <3>2, CutFacts
<1>6. \A d \in Delims(t) : d <= start - 1 <=> \E k \in 1 .. Len(msgs) : ends[k] = d
  <2>1. \A k \in 1 .. Len(msgs) : ends[k] <= start - 1
    BY <1>1
  <2> QED
    BY <1>3, <2>1 DEF Whole
<1> QED
  BY <1>4, <1>5, <1>6 DEF Whole

-----------------------------------------------------------------------------
(* The parse loop. *)

(* One turn of it for the byte i, on what the turns before have made. *)
Turn(b, i, was) ==
  IF i < was.start \/ ~DelimAt(b, i) THEN was
  ELSE [start |-> i + 2,
        msgs  |-> Append(was.msgs, CString(SubSeq(b, was.start, i - 1)))]

(* What Parse looks the messages up of. *)
Parsed(b, last) ==
  CHOOSE parsed : parsed = [i \in 0 .. last - 1 |->
    IF i = 0 THEN [start |-> 1, msgs |-> <<>>]
    ELSE LET was == parsed[i - 1]
         IN  IF i < was.start \/ ~DelimAt(b, i) THEN was
             ELSE [start |-> i + 2,
                   msgs  |-> Append(was.msgs, CString(SubSeq(b, was.start, i - 1)))]]

States == [start : Nat \ {0}, msgs : Seq(Strings)]

LEMMA TurnType ==
  ASSUME NEW b \in Strings, NEW i \in 1 .. Len(b), NEW was \in States
  PROVE  Turn(b, i, was) \in States
<1>1. Len(b) \in Nat /\ i \in Nat
  BY SeqFacts DEF Strings
<1>2. was.start \in Nat \ {0} /\ was.msgs \in Seq(Strings)
  BY DEF States
<1>3. SubSeq(b, was.start, i - 1) \in Strings
  <2>1. i - 1 \in Int /\ i - 1 <= Len(b)
    BY <1>1
  <2> QED
    BY <1>2, <2>1, PartOf DEF Strings
<1>4. CString(SubSeq(b, was.start, i - 1)) \in Strings
  BY <1>3, CStringType
<1>5. Append(was.msgs, CString(SubSeq(b, was.start, i - 1))) \in Seq(Strings)
  BY <1>2, <1>4, AppendProperties
<1>6. i + 2 \in Nat \ {0}
  BY <1>1
<1> QED
  BY <1>5, <1>6, Zenon DEF Turn, States

(* The loop's states exist and are made by its turns. *)
LEMMA ParsedIs ==
  ASSUME NEW b \in Strings, NEW last \in 1 .. Len(b)
  PROVE  /\ Parse(b, last) = Parsed(b, last)[last - 1].msgs
         /\ Parsed(b, last)[0] = [start |-> 1, msgs |-> <<>>]
         /\ \A i \in 1 .. last - 1 :
              Parsed(b, last)[i] = Turn(b, i, Parsed(b, last)[i - 1])
<1>1. Len(b) \in Nat /\ last - 1 \in Nat
  BY SeqFacts DEF Strings
<1> DEFINE n == last - 1
           g == [i \in 1 .. n |-> [v \in States |-> Turn(b, i, v)]]
           a == [start |-> 1, msgs |-> <<>>]
<1>2. g \in Steps(n, States)
  <2>1. \A i \in 1 .. n, v \in States : Turn(b, i, v) \in States
    BY <1>1, TurnType
  <2> QED
    BY <2>1 DEF Steps
<1>3. a \in States
  BY EmptySeq DEF States
<1>4. PICK f : IsRecursion(f, n, States, a, g)
  <2> HIDE DEF g, a, n
  <2>1. n \in Nat
    BY <1>1 DEF n
  <2> QED
    BY <1>2, <1>3, <2>1, Recursion
<1>5. f = [i \in 0 .. n |-> IF i = 0 THEN a ELSE Turn(b, i, f[i - 1])]
  <2>1. ASSUME NEW i \in 1 .. n
        PROVE  f[i] = Turn(b, i, f[i - 1])
    <3> HIDE DEF a
    <3>1. i - 1 \in 0 .. n /\ f[i] = g[i][f[i - 1]]
      BY <1>1, <1>4 DEF IsRecursion
    <3>2. f[i - 1] \in States
      BY <1>4, <3>1 DEF IsRecursion
    <3> QED
      BY <3>1, <3>2
  <2>2. f \in [0 .. n -> States] /\ f[0] = a
    BY <1>4 DEF IsRecursion
  <2> HIDE DEF a, g
  <2>3. ASSUME NEW i \in 0 .. n
        PROVE  f[i] = IF i = 0 THEN a ELSE Turn(b, i, f[i - 1])
    <3>1. i # 0 => i \in 1 .. n
      BY <1>1
    <3> QED
      BY <2>1, <2>2, <3>1
  <2>4. f = [i \in 0 .. n |-> f[i]]
    BY <2>2
  <2> QED
    BY <2>3, <2>4
<1>6. Parsed(b, last) =
        [i \in 0 .. n |-> IF i = 0 THEN a ELSE Turn(b, i, Parsed(b, last)[i - 1])]
  BY <1>5, Zenon DEF Parsed, Turn
<1>7. Parse(b, last) = Parsed(b, last)[last - 1].msgs
  BY Zenon DEF Parse, Parsed
<1> HIDE DEF a
<1>8. Parsed(b, last)[0] = a
  BY <1>1, <1>6
<1>9. ASSUME NEW i \in 1 .. n
      PROVE  Parsed(b, last)[i] = Turn(b, i, Parsed(b, last)[i - 1])
  <2>1. i \in 0 .. n /\ i # 0
    BY <1>1
  <2> HIDE DEF n
  <2> QED
    BY <1>6, <2>1
<1> QED
  BY <1>7, <1>8, <1>9 DEF a

(* A turn at a delimiter cuts one more message. *)
LEMMA TurnCuts ==
  ASSUME NEW b \in Strings, NEW ends, NEW msgs, NEW start, NEW i \in Nat,
         Whole(ends, msgs, b, start, i), i + 1 \in Delims(b)
  PROVE  \E longer : Whole(longer, Append(msgs, CString(SubSeq(b, start, (i + 1) - 1))),
                           b, i + 3, i + 1)
<1> DEFINE m == CString(SubSeq(b, start, (i + 1) - 1))
           more == Append(msgs, m)
           n == Len(msgs)
           longer == [k \in 1 .. n + 1 |-> IF k = n + 1 THEN i + 1 ELSE ends[k]]
<1>1. /\ n \in Nat
      /\ \A k \in 1 .. n : ends[k] \in Nat /\ ends[k] \in Delims(b)
      /\ start \in Nat \ {0} /\ i + 1 \in 1 .. Len(b) - 1 /\ Len(b) \in Nat
  <2>1. i + 1 \in 1 .. Len(b) - 1
    BY DelimFacts
  <2>2. start \in Nat \ {0}
    BY WholeFacts
  <2>3. \A k \in 1 .. n : ends[k] \in Delims(b)
    BY DEF Whole
  <2> QED
    BY <2>1, <2>2, <2>3, WholeFacts
<1>2. m \in Strings
  <2>1. i \in Int /\ (i + 1) - 1 = i /\ i <= Len(b) /\ b \in Seq(Bytes)
    BY <1>1 DEF Strings
  <2>2. SubSeq(b, start, i) \in Seq(Bytes)
    BY <1>1, <2>1, PartOf
  <2>3. SubSeq(b, start, (i + 1) - 1) \in Strings
    BY <2>1, <2>2, Zenon DEF Strings
  <2> QED
    BY <2>3, CStringType
<1> HIDE DEF m
<1>3. /\ more \in Seq(Strings) /\ Len(more) = n + 1
      /\ \A k \in 1 .. n : more[k] = msgs[k]
      /\ more[n + 1] = m
  BY <1>2, AppendProperties DEF Whole
<1> HIDE DEF more, n
<1>4. /\ longer \in [1 .. n + 1 -> Delims(b)]
      /\ longer[n + 1] = i + 1
      /\ \A k \in 1 .. n : longer[k] = ends[k]
  <2>1. \A k \in 1 .. n + 1 : k # n + 1 => k \in 1 .. n
    BY <1>1
  <2>2. \A k \in 1 .. n : k \in 1 .. n + 1 /\ k # n + 1
    BY <1>1
  <2>3. n + 1 \in 1 .. n + 1
    BY <1>1
  <2>4. \A k \in 1 .. n + 1 : (IF k = n + 1 THEN i + 1 ELSE ends[k]) \in Delims(b)
    BY <1>1, <2>1
  <2>5. longer[n + 1] = i + 1 /\ \A k \in 1 .. n : longer[k] = ends[k]
    BY <2>2, <2>3
  <2> QED
    BY <2>4, <2>5
<1> HIDE DEF longer
<1>5. /\ \A j, k \in 1 .. n : j < k => ends[j] < ends[k]
      /\ \A k \in 1 .. n : msgs[k] = CString(SubSeq(b, Begin(ends, k), ends[k] - 1))
      /\ \A d \in Delims(b) : d <= i <=> \E k \in 1 .. n : ends[k] = d
      /\ start = IF n = 0 THEN 1 ELSE ends[n] + 2
  BY CutFacts DEF Whole, n
<1>6. \A k \in 1 .. n : ends[k] <= i
  BY <1>1, <1>5
<1>7. ASSUME NEW j \in 1 .. n + 1, NEW k \in 1 .. n + 1, j < k
      PROVE  longer[j] < longer[k]
  <2>1. j \in 1 .. n
    BY <1>1, <1>7
  <2>2. CASE k = n + 1
    BY <1>1, <1>4, <1>6, <2>1, <2>2
  <2>3. CASE k # n + 1
    <3>1. k \in 1 .. n
      BY <1>1, <2>3
    <3> QED
      BY <1>4, <1>5, <1>7, <2>1, <3>1
  <2> QED
    BY <2>2, <2>3
<1>8. ASSUME NEW k \in 1 .. n + 1
      PROVE  more[k] = CString(SubSeq(b, Begin(longer, k), longer[k] - 1))
  <2>1. CASE k = n + 1
    <3>1. Begin(longer, k) = start
      <4>1. n # 0 => k - 1 = n /\ n \in 1 .. n
        BY <1>1, <2>1
      <4>2. n # 0 => k # 1 /\ longer[k - 1] = ends[n]
        BY <1>1, <1>4, <2>1, <4>1
      <4> QED
        BY <1>1, <1>5, <2>1, <4>2 DEF Begin
    <3>2. longer[k] - 1 = (i + 1) - 1
      BY <1>4, <2>1
    <3>3. more[k] = m
      BY <1>3, <2>1
    <3> QED
      BY <3>1, <3>2, <3>3, Zenon DEF m
  <2>2. CASE k # n + 1
    <3>1. k \in 1 .. n /\ (k # 1 => k - 1 \in 1 .. n)
      BY <1>1, <2>2
    <3>2. Begin(longer, k) = Begin(ends, k) /\ longer[k] = ends[k]
      BY <1>4, <3>1 DEF Begin
    <3> QED
      BY <1>3, <1>5, <3>1, <3>2, Zenon
  <2> QED
    BY <2>1, <2>2
<1>9. ASSUME NEW d \in Delims(b)
      PROVE  d <= i + 1 <=> \E k \in 1 .. n + 1 : longer[k] = d
  <2>1. d \in Nat
    BY DelimFacts
  <2>2. \A k \in 1 .. n + 1 : k \in 1 .. n \/ k = n + 1
    BY <1>1
  <2>3. n + 1 \in 1 .. n + 1 /\ \A k \in 1 .. n : k \in 1 .. n + 1
    BY <1>1
  <2>4. CASE d = i + 1
    BY <1>4, <2>1, <2>3, <2>4
  <2>5. CASE d # i + 1
    <3>1. d <= i + 1 <=> d <= i
      BY <2>1, <2>5
    <3>2. (\E k \in 1 .. n + 1 : longer[k] = d) <=> \E k \in 1 .. n : ends[k] = d
      BY <1>4, <2>2, <2>3, <2>5
    <3> QED
      BY <1>5, <3>1, <3>2
  <2> QED
    BY <2>4, <2>5
<1>10. /\ n + 1 # 0 /\ i + 3 = longer[n + 1] + 2
  BY <1>1, <1>4
<1>11. CutAt(longer, more, b)
  <2>1. Len(more) = n + 1 /\ more \in Seq(Strings)
    BY <1>3
  <2> QED
    BY <1>7, <1>8, <2>1, CutFacts
<1>12. Whole(longer, more, b, i + 3, i + 1)
  BY <1>3, <1>4, <1>9, <1>10, <1>11 DEF Whole
<1> QED
  BY <1>12 DEF more, m

(* A turn elsewhere cuts none. *)
LEMMA TurnPasses ==
  ASSUME NEW b \in Strings, NEW ends, NEW msgs, NEW start, NEW i \in Nat,
         Whole(ends, msgs, b, start, i), i + 1 \notin Delims(b)
  PROVE  Whole(ends, msgs, b, start, i + 1)
<1>1. ASSUME NEW d \in Delims(b)
      PROVE  d <= i + 1 <=> d <= i
  <2>1. d \in Nat /\ d # i + 1
    BY DelimFacts
  <2> QED
    BY <2>1
<1> QED
  BY <1>1 DEF Whole

(* The loop cuts every message of the buffer, whole and in order: the bytes  *)
(* that it skips, the LF of each delimiter, begin no other.                  *)
LEMMA ParseCuts ==
  ASSUME NEW b \in Strings, NEW last \in 1 .. Len(b), last - 1 \in Delims(b),
         \A d \in Delims(b) : d <= last - 1
  PROVE  \E ends : Whole(ends, Parse(b, last), b, last + 1, last - 1)
<1>1. Len(b) \in Nat /\ last - 1 \in Nat
  BY SeqFacts DEF Strings
<1> DEFINE p == Parsed(b, last)
           Good == {i \in Nat : i <= last - 1 =>
                      /\ p[i] \in States
                      /\ \E ends : Whole(ends, p[i].msgs, b, p[i].start, i)}
<1>2. /\ Parse(b, last) = p[last - 1].msgs
      /\ p[0] = [start |-> 1, msgs |-> <<>>]
      /\ \A i \in 1 .. last - 1 : p[i] = Turn(b, i, p[i - 1])
  BY ParsedIs
<1> HIDE DEF p
<1>3. 0 \in Good
  <2>1. p[0] \in States /\ p[0].start = 1 /\ p[0].msgs = <<>>
    BY <1>2, EmptySeq DEF States
  <2>2. <<>> \in Seq(Strings) /\ Len(<<>>) = 0
    BY EmptySeq
  <2> DEFINE none == [k \in 1 .. 0 |-> 0]
  <2>3. none \in [1 .. 0 -> Delims(b)]
    OBVIOUS
  <2>4. CutAt(none, <<>>, b)
    <3>1. DOMAIN <<>> = {}
      BY EmptySeq
    <3> QED
      BY <3>1, Zenon DEF CutAt
  <2>5. \A d \in Delims(b) : ~(d <= 0)
    <3> SUFFICES ASSUME NEW d \in Delims(b)
                 PROVE  ~(d <= 0)
      OBVIOUS
    <3>1. d \in Nat /\ d >= 1
      BY DelimFacts
    <3> QED
      BY <3>1
  <2>6. Whole(none, <<>>, b, 1, 0)
    <3> HIDE DEF none
    <3> QED
      BY <2>2, <2>3, <2>4, <2>5 DEF Whole
  <2> QED
    BY <2>1, <2>6
<1>4. ASSUME NEW i \in Nat, i \in Good
      PROVE  i + 1 \in Good
  <2> SUFFICES ASSUME i + 1 <= last - 1
               PROVE  /\ p[i + 1] \in States
                      /\ \E ends : Whole(ends, p[i + 1].msgs, b, p[i + 1].start, i + 1)
    OBVIOUS
  <2>1. p[i] \in States
    BY <1>1, <1>4
  <2>2. PICK ends : Whole(ends, p[i].msgs, b, p[i].start, i)
    BY <1>1, <1>4
  <2>3. p[i + 1] = Turn(b, i + 1, p[i])
    <3>1. i + 1 \in 1 .. last - 1 /\ (i + 1) - 1 = i
      BY <1>1
    <3> QED
      BY <1>2, <3>1
  <2>4. p[i + 1] \in States
    <3>1. i + 1 \in 1 .. Len(b)
      BY <1>1
    <3> QED
      BY <2>1, <2>3, <3>1, TurnType
  <2>5. CASE i + 1 \in Delims(b)
    <3>1. ~(i + 1 < p[i].start)
      <4>1. p[i].start \in Nat
        BY <2>1 DEF States
      <4>2. CASE p[i].start = 1
        BY <4>2
      <4>3. CASE p[i].start # 1
        <5> DEFINE k == Len(p[i].msgs)
        <5>1. k # 0 /\ p[i].start = ends[k] + 2
          BY <2>2, <4>3 DEF Whole
        <5>2. k \in 1 .. k
          BY <2>2, <5>1, WholeFacts
        <5>3. ends[k] \in Delims(b) /\ ends[k] <= i
          BY <2>2, <5>2 DEF Whole
        <5>4. ends[k] \in Nat /\ ends[k] + 1 \notin Delims(b)
          BY <5>3, DelimFacts
        <5>5. ends[k] # i
          BY <2>5, <5>4
        <5> HIDE DEF k
        <5> QED
          BY <5>1, <5>3, <5>4, <5>5
      <4> QED
        BY <4>2, <4>3
    <3>2. DelimAt(b, i + 1)
      BY <2>5 DEF Delims
    <3>3. /\ p[i + 1].start = (i + 1) + 2
          /\ p[i + 1].msgs =
               Append(p[i].msgs, CString(SubSeq(b, p[i].start, (i + 1) - 1)))
      <4> DEFINE more == Append(p[i].msgs, CString(SubSeq(b, p[i].start, (i + 1) - 1)))
      <4>1. p[i + 1] = [start |-> (i + 1) + 2, msgs |-> more]
        BY <2>3, <3>1, <3>2, Zenon DEF Turn
      <4> HIDE DEF more
      <4>2. p[i + 1].start = (i + 1) + 2 /\ p[i + 1].msgs = more
        BY <4>1
      <4> QED
        BY <4>2 DEF more
    <3>4. \E longer : Whole(longer,
                            Append(p[i].msgs, CString(SubSeq(b, p[i].start, (i + 1) - 1))),
                            b, i + 3, i + 1)
      BY <2>2, <2>5, TurnCuts
    <3>5. (i + 1) + 2 = i + 3
      OBVIOUS
    <3>6. \E longer : Whole(longer, p[i + 1].msgs, b, p[i + 1].start, i + 1)
      BY <3>3, <3>4, <3>5, Zenon
    <3> QED
      BY <2>4, <3>6
  <2>6. CASE i + 1 \notin Delims(b)
    <3>1. ~DelimAt(b, i + 1)
      <4>1. i + 1 \in DOMAIN b
        <5>1. DOMAIN b = 1 .. Len(b)
          BY SeqFacts DEF Strings
        <5> QED
          BY <1>1, <5>1
      <4> QED
        BY <2>6, <4>1 DEF Delims
    <3>2. p[i + 1] = p[i]
      BY <2>3, <3>1, Zenon DEF Turn
    <3>3. Whole(ends, p[i].msgs, b, p[i].start, i + 1)
      BY <2>2, <2>6, TurnPasses
    <3> QED
      BY <2>4, <3>2, <3>3
  <2> QED
    BY <2>5, <2>6
<1>5. Nat \subseteq Good
  <2> HIDE DEF Good
  <2> QED
    BY <1>3, <1>4, SetInduction
<1>6. PICK ends : Whole(ends, p[last - 1].msgs, b, p[last - 1].start, last - 1)
  BY <1>1, <1>5
<1>7. p[last - 1].start = last + 1
  <2> DEFINE k == Len(p[last - 1].msgs)
             start == p[last - 1].start
  <2>1. PICK j \in 1 .. k : ends[j] = last - 1
    BY <1>1, <1>6 DEF Whole
  <2>2. k \in Nat /\ ends[j] + 2 <= start /\ start \in Nat
    BY <1>6, <2>1, WholeFacts
  <2>3. k \in 1 .. k /\ start = ends[k] + 2 /\ ends[k] \in Delims(b)
    <3>1. k \in 1 .. k /\ k # 0
      BY <2>1, <2>2
    <3> QED
      BY <1>6, <3>1 DEF Whole
  <2>4. ends[k] <= last - 1 /\ ends[k] \in Nat
    BY <2>3, DelimFacts
  <2> HIDE DEF k, start
  <2>5. start = last + 1
    BY <1>1, <2>1, <2>2, <2>3, <2>4
  <2> QED
    BY <2>5 DEF start
<1> QED
  BY <1>2, <1>6, <1>7

(* b is what s has behind its first p bytes. *)
RestOf(b, s, p) == p + Len(b) = Len(s) /\ \A i \in 1 .. Len(b) : s[p + i] = b[i]

(* b has no delimiter behind q - 1. *)
NoneBehind(b, q) == \A d \in Delims(b) : d <= q - 1

(* The messages msgs and those of new behind them. *)
Joined(all, msgs, new) == all = msgs \o new /\ new # <<>>

(* The delimiters of the rest of a stream are those of the stream.           *)
LEMMA RestDelims ==
  ASSUME NEW s \in Strings, NEW p \in Nat, NEW b \in Strings, RestOf(b, s, p)
  PROVE  /\ \A d \in Delims(b) : p + d \in Delims(s)
         /\ \A d \in Delims(s) : d \in Nat /\ (d > p => d - p \in Delims(b))
<1> USE DEF RestOf
<1>1. Len(s) \in Nat /\ Len(b) \in Nat
  BY SeqFacts DEF Strings
<1>2. ASSUME NEW d \in Delims(b)
      PROVE  p + d \in Delims(s)
  <2>1. d \in 1 .. Len(b) - 1 /\ b[d] = "CR" /\ b[d + 1] = "LF"
    BY DelimFacts
  <2>2. /\ p + d \in 1 .. Len(s) - 1 /\ d \in 1 .. Len(b) /\ d + 1 \in 1 .. Len(b)
        /\ p + (d + 1) = (p + d) + 1
    BY <1>1, <2>1
  <2>3. s[p + d] = "CR" /\ s[(p + d) + 1] = "LF"
    BY <2>1, <2>2
  <2> QED
    BY <2>2, <2>3, DelimFacts
<1>3. ASSUME NEW d \in Delims(s)
      PROVE  d \in Nat /\ (d > p => d - p \in Delims(b))
  <2>1. d \in 1 .. Len(s) - 1 /\ s[d] = "CR" /\ s[d + 1] = "LF"
    BY DelimFacts
  <2>2. ASSUME d > p
        PROVE  d - p \in Delims(b)
    <3>1. /\ d - p \in 1 .. Len(b) - 1 /\ d - p \in 1 .. Len(b)
          /\ (d - p) + 1 \in 1 .. Len(b)
          /\ p + (d - p) = d /\ p + ((d - p) + 1) = d + 1
      BY <1>1, <2>1, <2>2
    <3>2. b[d - p] = "CR" /\ b[(d - p) + 1] = "LF"
      BY <2>1, <3>1
    <3> QED
      BY <3>1, <3>2, DelimFacts
  <2> QED
    BY <1>1, <2>1, <2>2
<1> QED
  BY <1>2, <1>3

(* Messages cut out of the rest of a stream come behind those before them.   *)
LEMMA WholeJoins ==
  ASSUME NEW s \in Strings, NEW ends, NEW msgs, NEW p \in Nat,
         Whole(ends, msgs, s, p + 1, p),
         NEW b \in Strings, RestOf(b, s, p),
         NEW rest, NEW new, NEW q \in Nat,
         Whole(rest, new, b, q + 1, q - 1), NoneBehind(b, q),
         NEW joined, Joined(joined, msgs, new)
  PROVE  /\ \E all : Whole(all, joined, s, p + q + 1, p + q)
         /\ \A d \in Delims(s) : d <= p + q
<1> USE DEF RestOf, NoneBehind, Joined
<1> DEFINE m == Len(msgs)
           n == Len(new)
           both == msgs \o new
           all == [k \in 1 .. m + n |-> IF k <= m THEN ends[k] ELSE p + rest[k - m]]
<1>1. /\ m \in Nat /\ Len(s) \in Nat
      /\ \A k \in 1 .. m : /\ ends[k] \in Delims(s) /\ ends[k] \in Nat
                           /\ ends[k] + 2 <= p + 1 /\ ends[k] < Len(s)
                           /\ k # 1 => k - 1 \in 1 .. m
      /\ p + 1 = IF m = 0 THEN 1 ELSE ends[m] + 2
  <2>1. \A k \in 1 .. m : ends[k] \in Delims(s)
    BY DEF Whole
  <2>2. /\ m \in Nat /\ Len(s) \in Nat
        /\ \A k \in 1 .. m : /\ ends[k] \in Nat /\ ends[k] + 1 <= Len(s)
                             /\ ends[k] + 2 <= p + 1
                             /\ k # 1 => k - 1 \in 1 .. m
    BY WholeFacts
  <2>3. p + 1 = IF m = 0 THEN 1 ELSE ends[m] + 2
    BY Zenon DEF Whole
  <2> HIDE DEF m
  <2> QED
    BY <2>1, <2>2, <2>3
<1>2. /\ n \in Nat /\ n # 0 /\ Len(b) \in Nat
      /\ \A k \in 1 .. n : /\ rest[k] \in Delims(b) /\ rest[k] \in Nat
                           /\ rest[k] < Len(b)
                           /\ k # 1 => k - 1 \in 1 .. n
      /\ rest[n] + 2 = q + 1
  <2>1. \A k \in 1 .. n : rest[k] \in Delims(b)
    BY DEF Whole
  <2>2. /\ n \in Nat /\ Len(b) \in Nat
        /\ \A k \in 1 .. n : /\ rest[k] \in Nat /\ rest[k] + 1 <= Len(b)
                             /\ k # 1 => k - 1 \in 1 .. n
    BY WholeFacts
  <2>3. n # 0
    BY EmptySeq DEF Whole
  <2>4. q + 1 = IF n = 0 THEN 1 ELSE rest[n] + 2
    BY Zenon DEF Whole
  <2> HIDE DEF n
  <2> QED
    BY <2>1, <2>2, <2>3, <2>4, SMTT(30)
<1>3. /\ \A d \in Delims(b) : p + d \in Delims(s)
      /\ \A d \in Delims(s) : d \in Nat /\ (d > p => d - p \in Delims(b))
  BY RestDelims
<1>4. /\ both \in Seq(Strings) /\ Len(both) = m + n
      /\ \A k \in 1 .. m : both[k] = msgs[k]
      /\ \A k \in 1 .. n : both[m + k] = new[k]
  <2>1. msgs \in Seq(Strings) /\ new \in Seq(Strings)
    BY DEF Whole
  <2>2. /\ both \in Seq(Strings) /\ Len(both) = m + n
        /\ \A k \in 1 .. m + n : both[k] = IF k <= m THEN msgs[k] ELSE new[k - m]
    BY <2>1, ConcatProperties, Zenon
  <2> HIDE DEF both, m, n
  <2>3. \A k \in 1 .. m : k \in 1 .. m + n /\ k <= m
    BY <1>1, <1>2
  <2>4. \A k \in 1 .. n : m + k \in 1 .. m + n /\ ~(m + k <= m) /\ (m + k) - m = k
    BY <1>1, <1>2
  <2> QED
    BY <2>2, <2>3, <2>4
<1>5. /\ \A k \in 1 .. n : rest[k] <= q - 1
      /\ \A j, k \in 1 .. n : j < k => rest[j] < rest[k]
      /\ \A k \in 1 .. n : new[k] = CString(SubSeq(b, Begin(rest, k), rest[k] - 1))
      /\ \A d \in Delims(b) : \E k \in 1 .. n : rest[k] = d
  <2>1. new \in Seq(Strings) /\ CutAt(rest, new, b)
    BY DEF Whole
  <2>2. \A d \in Delims(b) : \E k \in 1 .. n : rest[k] = d
    BY DEF Whole
  <2> QED
    BY <1>2, <2>1, <2>2, CutFacts
<1>6. /\ \A j, k \in 1 .. m : j < k => ends[j] < ends[k]
      /\ \A k \in 1 .. m : msgs[k] = CString(SubSeq(s, Begin(ends, k), ends[k] - 1))
      /\ \A d \in Delims(s) : d <= p <=> \E k \in 1 .. m : ends[k] = d
  <2>1. msgs \in Seq(Strings) /\ CutAt(ends, msgs, s)
    BY DEF Whole
  <2>2. \A d \in Delims(s) : d <= p <=> \E k \in 1 .. m : ends[k] = d
    BY DEF Whole
  <2> QED
    BY <2>1, <2>2, CutFacts
<1>7. \A j \in 1 .. n : Begin(rest, j) \in Nat \ {0}
  BY BeginFacts
<1> HIDE DEF both, m, n
<1>8. /\ \A k \in 1 .. m : k \in 1 .. m + n /\ all[k] = ends[k]
      /\ \A k \in 1 .. n : m + k \in 1 .. m + n /\ all[m + k] = p + rest[k]
      /\ \A k \in 1 .. m + n : k \in 1 .. m \/ \E j \in 1 .. n : k = m + j
  <2>1. \A k \in 1 .. m : k \in 1 .. m + n /\ k <= m
    BY <1>1, <1>2
  <2>2. \A k \in 1 .. n : m + k \in 1 .. m + n /\ ~(m + k <= m) /\ (m + k) - m = k
    BY <1>1, <1>2
  <2>3. ASSUME NEW k \in 1 .. m + n
        PROVE  k \in 1 .. m \/ \E j \in 1 .. n : k = m + j
    <3> DEFINE j == k - m
    <3>1. k \in 1 .. m \/ (j \in 1 .. n /\ k = m + j)
      <4>1. m \in Nat /\ n \in Nat /\ k \in Nat
        BY <1>1, <1>2
      <4> QED
        BY <4>1
    <3> HIDE DEF j
    <3> QED
      BY <3>1
  <2> QED
    BY <2>1, <2>2, <2>3
<1>9. all \in [1 .. m + n -> Delims(s)]
  <2>1. \A k \in 1 .. m + n : all[k] \in Delims(s)
    BY <1>1, <1>2, <1>3, <1>8, SMTT(30)
  <2> QED
    BY <2>1
<1> HIDE DEF all
<1>10. ASSUME NEW j \in 1 .. m + n, NEW k \in 1 .. m + n, j < k
       PROVE  all[j] < all[k]
  <2>1. CASE k \in 1 .. m
    <3>1. j \in 1 .. m
      BY <1>1, <1>2, <1>10, <2>1
    <3> QED
      BY <1>6, <1>8, <1>10, <2>1, <3>1
  <2>2. ASSUME NEW i \in 1 .. n, k = m + i
        PROVE  all[j] < all[k]
    <3>1. all[k] = p + rest[i] /\ rest[i] \in Nat
      BY <1>2, <1>8, <2>2
    <3>2. CASE j \in 1 .. m
      <4>1. all[j] = ends[j] /\ ends[j] \in Nat /\ ends[j] + 2 <= p + 1
        BY <1>1, <1>8, <3>2
      <4>2. \A x, y \in Nat : p \in Nat /\ x + 2 <= p + 1 => x < p + y
        OBVIOUS
      <4>3. p \in Nat
        BY <1>1
      <4> QED
        BY <3>1, <4>1, <4>2, <4>3
    <3>3. ASSUME NEW h \in 1 .. n, j = m + h
          PROVE  all[j] < all[k]
      <4>1. h < i
        BY <1>1, <1>2, <1>10, <2>2, <3>3
      <4>2. all[j] = p + rest[h] /\ rest[h] \in Nat /\ rest[h] < rest[i]
        BY <1>2, <1>5, <1>8, <3>3, <4>1
      <4> QED
        BY <3>1, <4>2
    <3> QED
      BY <1>8, <3>2, <3>3
  <2> QED
    BY <1>8, <2>1, <2>2
<1>11. ASSUME NEW k \in 1 .. m + n
       PROVE  both[k] = CString(SubSeq(s, Begin(all, k), all[k] - 1))
  <2>1. CASE k \in 1 .. m
    <3>1. all[k] = ends[k] /\ Begin(all, k) = Begin(ends, k)
      BY <1>1, <1>8, <2>1 DEF Begin
    <3> QED
      BY <1>4, <1>6, <2>1, <3>1, Zenon
  <2>2. ASSUME NEW j \in 1 .. n, k = m + j
        PROVE  both[k] = CString(SubSeq(s, Begin(all, k), all[k] - 1))
    <3>1. all[k] = p + rest[j] /\ rest[j] \in Nat /\ rest[j] < Len(b)
      BY <1>2, <1>8, <2>2
    <3>2. all[k] - 1 = p + (rest[j] - 1)
      BY <3>1
    <3>3. Begin(all, k) = p + Begin(rest, j)
      <4>1. CASE j = 1 /\ m = 0
        BY <1>1, <2>2, <4>1 DEF Begin
      <4>2. CASE j = 1 /\ m # 0
        <5>1. m \in 1 .. m /\ k - 1 = m /\ k # 1
          BY <1>1, <2>2, <4>2
        <5>2. all[k - 1] = ends[m] /\ p + 1 = ends[m] + 2
          BY <1>1, <1>8, <4>2, <5>1
        <5> QED
          BY <4>2, <5>1, <5>2 DEF Begin
      <4>3. CASE j # 1
        <5>1. j - 1 \in 1 .. n /\ k - 1 = m + (j - 1) /\ k # 1
          BY <1>1, <1>2, <2>2, <4>3
        <5>2. all[k - 1] = p + rest[j - 1] /\ rest[j - 1] \in Nat
          BY <1>2, <1>8, <5>1
        <5>3. (p + rest[j - 1]) + 2 = p + (rest[j - 1] + 2)
          BY <5>2
        <5> QED
          BY <4>3, <5>1, <5>2, <5>3 DEF Begin
      <4> QED
        BY <4>1, <4>2, <4>3
    <3> DEFINE f == Begin(rest, j)
               t == rest[j] - 1
    <3>4. f \in Nat \ {0} /\ t \in Int /\ t <= Len(b) /\ p + t <= Len(s)
      <4>1. f \in Nat \ {0}
        BY <1>7
      <4>2. t \in Int /\ t <= Len(b)
        <5>1. rest[j] \in Nat /\ rest[j] < Len(b) /\ Len(b) \in Nat
          BY <1>2, <3>1
        <5> QED
          BY <5>1
      <4>3. p + t <= p + Len(b)
        <5> HIDE DEF t
        <5> QED
          BY <1>2, <4>2
      <4> QED
        BY <4>1, <4>2, <4>3
    <3> HIDE DEF f, t
    <3>5. ASSUME NEW i \in f .. t
          PROVE  s[p + i] = b[i]
      <4>1. i \in 1 .. Len(b)
        <5>1. Len(b) \in Nat
          BY <1>2
        <5> QED
          BY <3>4, <5>1
      <4> QED
        BY <1>2, <4>1
    <3>6. SubSeq(s, p + f, p + t) = SubSeq(b, f, t)
      <4>1. s \in Seq(Bytes) /\ b \in Seq(Bytes)
        BY DEF Strings
      <4>2. Agree(b, s, p, f, t)
        BY <3>5 DEF Agree
      <4>3. p \in Nat /\ f \in Nat \ {0} /\ t \in Int /\ t <= Len(b) /\ p + t <= Len(s)
        BY <3>4
      <4> QED
        BY <4>1, <4>2, <4>3, SamePart, SMTT(30)
    <3>7. both[k] = new[j] /\ new[j] = CString(SubSeq(b, f, t))
      BY <1>4, <1>5, <2>2, Zenon DEF f, t
    <3>8. Begin(all, k) = p + f /\ all[k] - 1 = p + t
      BY <3>2, <3>3 DEF f, t
    <3> QED
      BY <3>6, <3>7, <3>8, Zenon
  <2> QED
    BY <1>8, <2>1, <2>2
<1>12. ASSUME NEW d \in Delims(s)
       PROVE  d <= p + q /\ \E k \in 1 .. m + n : all[k] = d
  <2>1. d \in Nat
    BY <1>3
  <2>2. CASE d <= p
    <3>1. PICK k \in 1 .. m : ends[k] = d
      BY <1>6, <2>2
    <3>2. k \in 1 .. m + n /\ all[k] = d
      BY <1>8, <3>1
    <3>3. d <= p + q
      BY <1>1, <1>2, <2>1, <2>2
    <3> QED
      BY <3>2, <3>3
  <2>3. CASE d > p
    <3>1. d - p \in Delims(b)
      BY <1>3, <2>3
    <3>2. PICK j \in 1 .. n : rest[j] = d - p
      BY <1>5, <3>1
    <3>3. all[m + j] = d /\ m + j \in 1 .. m + n
      <4>1. p + (d - p) = d
        BY <2>1
      <4> QED
        BY <1>8, <3>2, <4>1
    <3>4. d - p <= q - 1
      BY <3>1
    <3> QED
      BY <2>1, <3>3, <3>4
  <2> QED
    BY <2>1, <2>2, <2>3
<1>13. m + n # 0 /\ (p + q) + 1 = all[m + n] + 2
  <2>1. n \in 1 .. n
    BY <1>2
  <2>2. all[m + n] = p + rest[n] /\ rest[n] \in Nat
    BY <1>2, <1>8, <2>1
  <2>3. m + n # 0
    BY <1>1, <1>2
  <2>4. p + q + 1 = (p + rest[n]) + 2
    <3>1. rest[n] + 2 = q + 1
      BY <1>2
    <3>2. \A x \in Nat : x + 2 = q + 1 => p + q + 1 = (p + x) + 2
      OBVIOUS
    <3> QED
      BY <2>2, <3>1, <3>2
  <2> QED
    BY <2>2, <2>3, <2>4
<1>14. CutAt(all, both, s)
  BY <1>4, <1>10, <1>11, CutFacts
<1>15. Whole(all, both, s, p + q + 1, p + q)
  BY <1>4, <1>9, <1>12, <1>13, <1>14 DEF Whole
<1> QED
  BY <1>12, <1>15 DEF both

-----------------------------------------------------------------------------
(* The thread. *)

(* The buffer holds what follows the messages that were submitted.           *)
Arrived ==
  \E p \in Nat : \E ends :
    /\ Whole(ends, submitted, received, p + 1, p)
    /\ thread # "full" =>
         /\ \A d \in Delims(received) : d <= p
         /\ p + Len(buff) = Len(received)
         /\ \A i \in 1 .. Len(buff) : buff[i] = received[p + i]

IInv == TypeOK /\ Arrived /\ DisconnectionIsReal

(* The step of recv(), whatever it returns. *)
LEMMA RecvStep ==
  ASSUME IInv, Recv
  PROVE  IInv'
<1>0. PICK n \in 1 .. Room : \E chunk \in [1 .. n -> Bytes] :
        /\ Len(received) + n <= MaxStream
        /\ received' = received \o chunk
        /\ OutOfBuffer(chunk) \/ Keep(chunk) \/ Cut(chunk)
  BY DEF Recv
<1>1. PICK chunk \in [1 .. n -> Bytes] :
        /\ Len(received) + n <= MaxStream
        /\ received' = received \o chunk
        /\ OutOfBuffer(chunk) \/ Keep(chunk) \/ Cut(chunk)
  BY <1>0
<1>2. thread = "running" /\ UNCHANGED closed
  BY DEF Recv
<1>3a. PICK p \in Nat : \E ends :
        /\ Whole(ends, submitted, received, p + 1, p)
        /\ \A d \in Delims(received) : d <= p
        /\ p + Len(buff) = Len(received)
        /\ \A i \in 1 .. Len(buff) : buff[i] = received[p + i]
  BY <1>2 DEF IInv, Arrived
<1>3. PICK ends :
        /\ Whole(ends, submitted, received, p + 1, p)
        /\ \A d \in Delims(received) : d <= p
        /\ p + Len(buff) = Len(received)
        /\ \A i \in 1 .. Len(buff) : buff[i] = received[p + i]
  BY <1>3a
<1>4. /\ received \in Strings /\ buff \in Strings /\ Len(buff) < RecvBufLen
      /\ submitted \in Seq(Strings) /\ RecvBufLen \in Nat
      /\ Len(buff) \in Nat /\ Len(received) \in Nat
  BY <1>2, SeqFacts, BufferHoldsADelimiter DEF IInv, TypeOK, Strings
<1>5. n \in Nat \ {0}
  BY <1>1, <1>4 DEF Room
<1>6. chunk \in Strings /\ Len(chunk) = n
  <2>1. chunk \in Seq(Bytes)
    BY <1>5 DEF Strings
  <2>2. Len(chunk) = n
    BY <1>5
  <2> QED
    BY <2>1, <2>2 DEF Strings
<1> DEFINE s == received \o chunk
           b == buff \o chunk
<1>7. /\ s \in Strings /\ Len(s) = Len(received) + n
      /\ \A i \in 1 .. Len(received) : s[i] = received[i]
      /\ \A i \in 1 .. n : s[Len(received) + i] = chunk[i]
  <2>1. /\ s \in Strings /\ Len(s) = Len(received) + Len(chunk)
        /\ \A i \in 1 .. Len(received) + Len(chunk) :
             s[i] = IF i <= Len(received) THEN received[i] ELSE chunk[i - Len(received)]
    BY <1>4, <1>6, ConcatProperties, Zenon DEF Strings
  <2> HIDE DEF s
  <2>2. \A i \in 1 .. Len(received) : i \in 1 .. Len(received) + n /\ i <= Len(received)
    BY <1>4, <1>5
  <2>3. \A i \in 1 .. n : /\ Len(received) + i \in 1 .. Len(received) + n
                          /\ ~(Len(received) + i <= Len(received))
                          /\ (Len(received) + i) - Len(received) = i
    BY <1>4, <1>5
  <2> QED
    BY <1>6, <2>1, <2>2, <2>3
<1>8. /\ b \in Strings /\ Len(b) = Len(buff) + n
      /\ \A i \in 1 .. Len(buff) + n :
           b[i] = IF i <= Len(buff) THEN buff[i] ELSE chunk[i - Len(buff)]
  BY <1>4, <1>6, ConcatProperties, Zenon DEF Strings
<1> HIDE DEF s, b
<1>9. RestOf(b, s, p)
  <2>1. p + Len(b) = Len(s)
    <3>1. p + Len(buff) = Len(received)
      BY <1>3
    <3>2. Len(s) = Len(received) + n /\ Len(b) = Len(buff) + n
      BY <1>7, <1>8
    <3>3. Len(buff) \in Nat /\ n \in Nat
      BY <1>4, <1>5
    <3>4. \A l, k \in Nat : p + (l + k) = (p + l) + k
      OBVIOUS
    <3> QED
      BY <3>1, <3>2, <3>3, <3>4
  <2>2. ASSUME NEW i \in 1 .. Len(b)
        PROVE  s[p + i] = b[i]
    <3>1. CASE i <= Len(buff)
      <4>1. i \in 1 .. Len(buff) /\ p + i \in 1 .. Len(received)
        BY <1>3, <1>4, <1>5, <1>8, <3>1
      <4> QED
        BY <1>3, <1>7, <1>8, <3>1, <4>1
    <3>2. CASE ~(i <= Len(buff))
      <4>1. i - Len(buff) \in 1 .. n /\ Len(received) + (i - Len(buff)) = p + i
        <5>1. p + Len(buff) = Len(received) /\ Len(b) = Len(buff) + n
          BY <1>3, <1>8
        <5>2. Len(buff) \in Nat /\ n \in Nat
          BY <1>4, <1>5
        <5>3. i - Len(buff) \in 1 .. n
          BY <3>2, <5>1, <5>2
        <5>4. \A l, j \in Int : (p + l) + (j - l) = p + j
          OBVIOUS
        <5>5. Len(buff) \in Int /\ i \in Int
          BY <5>2
        <5>6. (p + Len(buff)) + (i - Len(buff)) = p + i
          BY <5>4, <5>5
        <5> QED
          BY <5>1, <5>3, <5>6
      <4>2. s[p + i] = chunk[i - Len(buff)]
        BY <1>7, <4>1
      <4> QED
        BY <1>8, <3>2, <4>2
    <3> QED
      BY <3>1, <3>2
  <2> QED
    BY <2>1, <2>2 DEF RestOf
<1>10. Whole(ends, submitted, s, p + 1, p)
  <2>1. (p + 1) - 1 = p
    OBVIOUS
  <2>2. Len(received) <= Len(s)
    BY <1>4, <1>5, <1>7
  <2>3. Whole(ends, submitted, received, p + 1, (p + 1) - 1)
    BY <1>3, <2>1, Zenon
  <2>4. Whole(ends, submitted, s, p + 1, (p + 1) - 1)
    BY <1>4, <1>7, <2>2, <2>3, WholeGrows
  <2> QED
    BY <2>1, <2>4, Zenon
<1>11. received' = s /\ received' \in Seq(Bytes) /\ Len(received') <= MaxStream
  BY <1>1, <1>4, <1>5, <1>7 DEF s, Strings
<1>12. CASE OutOfBuffer(chunk)
  <2>1. thread' = "full" /\ UNCHANGED <<buff, submitted>>
    BY <1>12 DEF OutOfBuffer
  <2>2. TypeOK'
    BY <1>2, <1>11, <2>1 DEF IInv, TypeOK
  <2>3. Arrived'
    BY <1>10, <1>11, <2>1 DEF Arrived
  <2> QED
    BY <2>1, <2>2, <2>3 DEF IInv, DisconnectionIsReal
<1>13. CASE Keep(chunk)
  <2>1. /\ Len(b) < RecvBufLen /\ LastDelim(b) = 1
        /\ buff' = b /\ UNCHANGED <<submitted, thread>>
    BY <1>13 DEF Keep, b
  <2>2. Delims(b) = {}
    <3>1. ~(LastDelim(b) > 1)
      BY <2>1
    <3> QED
      BY <1>8, <3>1, LastDelimIs
  <2>3. TypeOK'
    BY <1>2, <1>8, <1>11, <2>1 DEF IInv, TypeOK, Strings
  <2>4. \A d \in Delims(s) : d <= p
    <3>1. \A d \in Delims(s) : d \in Nat /\ (d > p => d - p \in Delims(b))
      BY <1>7, <1>8, <1>9, RestDelims
    <3> QED
      BY <2>2, <3>1
  <2>5. Arrived'
    BY <1>9, <1>10, <1>11, <2>1, <2>4 DEF Arrived, RestOf
  <2> QED
    BY <1>2, <2>1, <2>3, <2>5 DEF IInv, DisconnectionIsReal
<1>14. CASE Cut(chunk)
  <2> DEFINE last == LastDelim(b)
             new == Parse(b, last)
             left == SubSeq(b, last + 1, Len(b))
  <2>1. /\ Len(b) < RecvBufLen /\ last > 1
        /\ submitted' = submitted \o new
        /\ buff' = left /\ UNCHANGED thread
    BY <1>14 DEF Cut, b
  <2>2. Delims(b) # {}
    BY <1>8, <2>1, LastDelimIs
  <2>3. last - 1 \in Delims(b) /\ NoneBehind(b, last)
    BY <1>8, <2>2, LastDelimIs DEF NoneBehind
  <2> HIDE DEF last
  <2>4. last \in 1 .. Len(b) /\ last \in Nat /\ Len(b) \in Nat
    <3>1. last - 1 \in Nat /\ last - 1 >= 1 /\ (last - 1) + 1 <= Len(b)
      BY <1>8, <2>3, DelimFacts
    <3>2. Len(b) \in Nat /\ last \in Int
      <4>1. last \in Int
        BY <1>8, LastDelimIs DEF last
      <4> QED
        BY <1>8, <4>1, SeqFacts DEF Strings
    <3> QED
      BY <3>1, <3>2
  <2>5. PICK rest : Whole(rest, new, b, last + 1, last - 1)
    BY <1>8, <2>3, <2>4, ParseCuts DEF NoneBehind
  <2>6. new \in Seq(Strings) /\ new # <<>>
    <3>1. PICK k \in 1 .. Len(new) : rest[k] = last - 1
      BY <2>3, <2>4, <2>5 DEF Whole
    <3>2. Len(<<>>) = 0
      BY EmptySeq
    <3> QED
      BY <2>5, <3>1, <3>2 DEF Whole
  <2> HIDE DEF new
  <2>7. /\ \E all : Whole(all, submitted', s, p + last + 1, p + last)
        /\ \A d \in Delims(s) : d <= p + last
    <3>1. s \in Strings /\ b \in Strings /\ last \in Nat
      BY <1>7, <1>8, <2>4
    <3>2. Joined(submitted', submitted, new)
      BY <2>1, <2>6 DEF Joined
    <3> QED
      BY <1>9, <1>10, <2>3, <2>5, <3>1, <3>2, WholeJoins
  <2>8. /\ left \in Strings /\ Len(left) = Len(b) - last
        /\ \A i \in 1 .. Len(b) - last : left[i] = b[last + i]
    <3>1. /\ left \in Strings
          /\ Len(left) = IF last + 1 <= Len(b) THEN Len(b) - (last + 1) + 1 ELSE 0
          /\ \A i \in 1 .. Len(b) - (last + 1) + 1 : left[i] = b[(last + 1) + i - 1]
      <4>1. last + 1 \in Nat \ {0} /\ Len(b) \in Int /\ Len(b) <= Len(b) /\ b \in Seq(Bytes)
        BY <1>8, <2>4 DEF Strings
      <4> QED
        BY <4>1, PartOf DEF Strings
    <3> HIDE DEF left
    <3>2. Len(left) = Len(b) - last
      BY <2>4, <3>1
    <3>3. ASSUME NEW i \in 1 .. Len(b) - last
          PROVE  left[i] = b[last + i]
      <4>1. i \in 1 .. Len(b) - (last + 1) + 1 /\ (last + 1) + i - 1 = last + i
        BY <2>4
      <4> QED
        BY <3>1, <4>1
    <3> QED
      BY <3>1, <3>2, <3>3
  <2> HIDE DEF left
  <2>9. submitted' \in Seq(Strings)
    BY <1>4, <2>1, <2>6, ConcatProperties
  <2>10. TypeOK'
    <3>1. Len(left) < RecvBufLen
      BY <1>4, <2>1, <2>4, <2>8
    <3> QED
      BY <1>2, <1>11, <2>1, <2>8, <2>9, <3>1 DEF IInv, TypeOK, Strings
  <2>11. Arrived'
    <3> DEFINE r == p + last
    <3>1. r \in Nat /\ r + Len(left) = Len(s)
      <4>1. p + Len(b) = Len(s) /\ Len(left) = Len(b) - last
        BY <1>9, <2>8 DEF RestOf
      <4>2. \A k, l \in Nat : p + k \in Nat /\ (p + k) + (l - k) = p + l
        OBVIOUS
      <4> QED
        BY <2>4, <4>1, <4>2
    <3>2. ASSUME NEW i \in 1 .. Len(left)
          PROVE  left[i] = s[r + i]
      <4>1. i \in 1 .. Len(b) - last /\ last + i \in 1 .. Len(b) /\ p + (last + i) = r + i
        BY <2>4, <2>8
      <4> QED
        BY <1>9, <2>8, <4>1 DEF RestOf
    <3>3. \E all : Whole(all, submitted', received', r + 1, r)
      BY <1>11, <2>1, <2>7, Zenon
    <3>4. \A d \in Delims(received') : d <= r
      BY <1>11, <2>7, Zenon
    <3> HIDE DEF r
    <3>5. r + Len(buff') = Len(received')
      BY <1>11, <2>1, <3>1
    <3>6. \A i \in 1 .. Len(buff') : buff'[i] = received'[r + i]
      BY <1>11, <2>1, <3>2
    <3> QED
      BY <3>1, <3>3, <3>4, <3>5, <3>6 DEF Arrived
  <2> QED
    BY <1>2, <2>1, <2>10, <2>11 DEF IInv, DisconnectionIsReal
<1> QED
  BY <1>1, <1>12, <1>13, <1>14

LEMMA ReceiverStep ==
  ASSUME IInv, [Next]_vars
  PROVE  IInv'
<1>1. CASE Recv
  BY <1>1, RecvStep
<1>2. CASE Close \/ Disconnected \/ Failed \/ UNCHANGED vars
  <2>1. /\ UNCHANGED <<received, buff, submitted>>
        /\ closed' \in BOOLEAN /\ (closed => closed')
        /\ \/ UNCHANGED thread
           \/ thread = "running" /\ thread' = "failed"
           \/ thread = "running" /\ thread' = "disconnected"
    BY <1>2 DEF Close, Disconnected, Failed, vars, IInv, TypeOK
  <2>2. TypeOK'
    BY <2>1 DEF IInv, TypeOK
  <2>3. Arrived'
    BY <2>1 DEF IInv, Arrived
  <2>4. DisconnectionIsReal'
    <3>1. CASE Close \/ Failed \/ UNCHANGED vars
      BY <3>1 DEF Close, Failed, vars, IInv, DisconnectionIsReal
    <3>2. CASE Disconnected
      <4>1. Len(buff) < RecvBufLen /\ Len(buff) \in Nat /\ RecvBufLen \in Nat
        BY <3>2, BufferHoldsADelimiter, SeqFacts DEF Disconnected, IInv, TypeOK
      <4>2. Room # 0
        BY <4>1 DEF Room
      <4> QED
        BY <3>2, <4>2 DEF Disconnected, DisconnectionIsReal
    <3> QED
      BY <1>2, <3>1, <3>2
  <2> QED
    BY <2>2, <2>3, <2>4 DEF IInv
<1> QED
  BY <1>1, <1>2 DEF Next, Returned

LEMMA ReceiverStart ==
  ASSUME Init
  PROVE  IInv
<1>1. /\ <<>> \in Seq(Bytes) /\ <<>> \in Seq(Strings) /\ Len(<<>>) = 0 /\ DOMAIN <<>> = {}
  BY EmptySeq
<1>2. received = <<>> /\ buff = <<>> /\ submitted = <<>> /\ thread = "running" /\ closed = FALSE
  BY DEF Init
<1>3. TypeOK
  <2>1. 0 \in Nat /\ 0 <= MaxStream /\ 0 < RecvBufLen
    BY BufferHoldsADelimiter
  <2>2. received \in Strings /\ buff \in Strings /\ submitted \in Seq(Strings)
    BY <1>1, <1>2 DEF Strings
  <2>3. Len(received) <= MaxStream /\ Len(buff) < RecvBufLen
    BY <1>1, <1>2, <2>1
  <2> QED
    BY <1>2, <2>2, <2>3 DEF TypeOK, Strings
<1>4. Delims(received) = {}
  BY <1>1, <1>2 DEF Delims
<1> DEFINE none == [k \in 1 .. 0 |-> 0]
<1>5. none \in [1 .. 0 -> Delims(received)]
  OBVIOUS
<1> HIDE DEF none
<1>6. CutAt(none, submitted, received)
  <2>1. DOMAIN submitted = {}
    BY <1>1, <1>2
  <2> QED
    BY <2>1, Zenon DEF CutAt
<1>7. Whole(none, submitted, received, 0 + 1, 0)
  <2>1. submitted \in Seq(Strings) /\ Len(submitted) = 0
    BY <1>1, <1>2
  <2> QED
    BY <1>4, <1>5, <1>6, <2>1 DEF Whole
<1>8. Arrived
  <2>1. Len(buff) = 0 /\ Len(received) = 0
    BY <1>1, <1>2
  <2> QED
    BY <1>4, <1>7, <2>1 DEF Arrived
<1> QED
  BY <1>2, <1>3, <1>8 DEF IInv, DisconnectionIsReal

(* The buffer is what follows the last delimiter of the stream.              *)
LEMMA BufferIs ==
  ASSUME IInv, thread # "full"
  PROVE  buff = Incomplete(received)
<1>1. PICK p \in Nat : \E ends :
        /\ Whole(ends, submitted, received, p + 1, p)
        /\ \A d \in Delims(received) : d <= p
        /\ p + Len(buff) = Len(received)
        /\ \A i \in 1 .. Len(buff) : buff[i] = received[p + i]
  BY DEF IInv, Arrived
<1>2. PICK ends :
        /\ Whole(ends, submitted, received, p + 1, p)
        /\ \A d \in Delims(received) : d <= p
        /\ p + Len(buff) = Len(received)
        /\ \A i \in 1 .. Len(buff) : buff[i] = received[p + i]
  BY <1>1
<1>3. received \in Strings /\ buff \in Strings /\ Len(received) \in Nat /\ Len(buff) \in Nat
  BY SeqFacts DEF IInv, TypeOK, Strings
<1> DEFINE S == {1} \cup {i + 2 : i \in Delims(received)}
           n == Len(submitted)
<1>4. /\ n \in Nat
      /\ \A k \in 1 .. n : ends[k] + 2 <= p + 1 /\ ends[k] \in Delims(received)
      /\ p + 1 = IF n = 0 THEN 1 ELSE ends[n] + 2
  <2>1. n \in Nat /\ \A k \in 1 .. n : ends[k] + 2 <= p + 1
    BY <1>2, <1>3, WholeFacts
  <2>2. \A k \in 1 .. n : ends[k] \in Delims(received)
    BY <1>2 DEF Whole
  <2>3. p + 1 = IF n = 0 THEN 1 ELSE ends[n] + 2
    BY <1>2, Zenon DEF Whole
  <2> HIDE DEF n
  <2> QED
    BY <2>1, <2>2, <2>3
<1>5. \A d \in Delims(received) : d + 2 <= p + 1
  <2> SUFFICES ASSUME NEW d \in Delims(received)
               PROVE  d + 2 <= p + 1
    OBVIOUS
  <2>1. PICK k \in 1 .. n : ends[k] = d
    BY <1>2 DEF Whole
  <2> HIDE DEF n
  <2> QED
    BY <1>4, <2>1
<1> HIDE DEF n
<1>6. p + 1 \in S
  <2>1. CASE n = 0
    BY <1>4, <2>1
  <2>2. CASE n # 0
    <3>1. n \in 1 .. n
      BY <1>4, <2>2
    <3> QED
      BY <1>4, <2>2, <3>1
  <2> QED
    BY <2>1, <2>2
<1>7. S \in SUBSET (1 .. p + 1)
  <2>1. \A d \in Delims(received) : d \in Nat
    BY <1>3, DelimFacts
  <2> QED
    BY <1>5, <2>1
<1> HIDE DEF S
<1>8. Max(S) = p + 1
  <2>1. p + 1 \in Nat /\ S # {}
    BY <1>6
  <2>2. Max(S) \in S /\ \A i \in S : i <= Max(S)
    BY <1>7, <2>1, MaxIs
  <2>3. Max(S) \in 1 .. p + 1 /\ p + 1 <= Max(S)
    BY <1>6, <1>7, <2>2
  <2> QED
    BY <2>3
<1>9. SubSeq(received, p + 1, p + Len(buff)) = SubSeq(buff, 1, Len(buff))
  <2>1. /\ received \in Seq(Bytes) /\ buff \in Seq(Bytes)
        /\ 1 \in Nat \ {0} /\ Len(buff) \in Int /\ Len(buff) <= Len(buff)
        /\ p + Len(buff) <= Len(received)
        /\ Agree(buff, received, p, 1, Len(buff))
    BY <1>2, <1>3 DEF Strings, Agree
  <2> QED
    BY <2>1, SamePart
<1>10. SubSeq(buff, 1, Len(buff)) = buff
  BY <1>3, SubSeqFull DEF Strings
<1>11. Incomplete(received) = SubSeq(received, Max(S), Len(received))
  BY DEF Incomplete, S
<1> QED
  BY <1>2, <1>8, <1>9, <1>10, <1>11

LEMMA WholeArrive ==
  ASSUME IInv
  PROVE  MessagesArriveWhole
<1>1. PICK p \in Nat : \E ends :
        /\ Whole(ends, submitted, received, p + 1, p)
        /\ thread # "full" => \A d \in Delims(received) : d <= p
  BY DEF IInv, Arrived
<1>2. PICK ends :
        /\ Whole(ends, submitted, received, p + 1, p)
        /\ thread # "full" => \A d \in Delims(received) : d <= p
  BY <1>1
<1>3. received \in Strings /\ DOMAIN submitted = 1 .. Len(submitted)
  BY SeqFacts DEF IInv, TypeOK, Strings
<1>4. ends \in [DOMAIN submitted -> Delims(received)] /\ CutAt(ends, submitted, received)
  BY <1>2, <1>3 DEF Whole
<1>5. ASSUME NEW d \in Delims(received)
      PROVE  \/ \E k \in DOMAIN submitted : ends[k] = d
             \/ thread = "full" /\ \A k \in DOMAIN submitted : ends[k] < d
  <2>1. CASE d <= p
    BY <1>2, <1>3, <2>1 DEF Whole
  <2>2. CASE ~(d <= p)
    <3>1. thread = "full" /\ d \in Nat
      BY <1>2, <1>3, <2>2, DelimFacts
    <3>2. \A k \in 1 .. Len(submitted) : ends[k] \in Nat /\ ends[k] + 2 <= p + 1
      BY <1>2, <1>3, WholeFacts
    <3>3. \A k \in 1 .. Len(submitted) : ends[k] < d
      BY <2>2, <3>1, <3>2
    <3> QED
      BY <1>3, <3>1, <3>3
  <2> QED
    BY <2>1, <2>2
<1> QED
  BY <1>4, <1>5, BufferIs DEF MessagesArriveWhole

-----------------------------------------------------------------------------
(* Whatever arrives, in whatever chunks, the invariant holds.                *)
THEOREM Inductive == Spec => []IInv
<1>1. Init => IInv
  BY ReceiverStart
<1>2. IInv /\ [Next]_vars => IInv'
  BY ReceiverStep
<1> QED
  BY <1>1, <1>2, PTL DEF Spec

(* The types; a thread that runs has room for what recv() returns.           *)
THEOREM TypeCorrect == Spec => []TypeOK
<1>1. IInv => TypeOK
  BY DEF IInv
<1> QED
  BY <1>1, Inductive, PTL

(* However the bytes were cut into chunks, the messages arrive whole, once   *)
(* and in order, and the buffer holds the beginning of the next.             *)
THEOREM ArriveWhole == Spec => []MessagesArriveWhole
<1>1. IInv => MessagesArriveWhole
  BY WholeArrive
<1> QED
  BY <1>1, Inductive, PTL

(* The thread never calls recv() without room, whose 0 looks like the end of *)
(* the stream.                                                               *)
THEOREM RealDisconnection == Spec => []DisconnectionIsReal
<1>1. IInv => DisconnectionIsReal
  BY DEF IInv
<1> QED
  BY <1>1, Inductive, PTL
=============================================================================
