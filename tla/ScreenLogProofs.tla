-------------------------- MODULE ScreenLogProofs ---------------------------
(***************************************************************************)
(* The log of a screen for any messages, bound and memory: the pointers    *)
(* are always those of one list, which is the log that BoundedLog says.    *)
(***************************************************************************)
EXTENDS ScreenLog, Induction

(* Induction over the messages appended to a sequence. *)
LEMMA AppendInduction ==
  ASSUME NEW S, NEW G, <<>> \in G,
         \A s \in Seq(S), e \in S : s \in G => Append(s, e) \in G
  PROVE  Seq(S) \subseteq G
<1> DEFINE Lengths == {n \in Nat : \A s \in Seq(S) : Len(s) = n => s \in G}
<1>1. 0 \in Lengths
  BY EmptySeq
<1>2. ASSUME NEW n \in Nat, n \in Lengths
      PROVE  n + 1 \in Lengths
  <2> SUFFICES ASSUME NEW t \in Seq(S), Len(t) = n + 1
               PROVE  t \in G
    OBVIOUS
  <2>1. t # <<>>
    BY EmptySeq
  <2>2. PICK s \in Seq(S), e \in S : t = Append(s, e)
    BY <2>1, SequenceEmptyOrAppend
  <2>3. Len(s) = n
    BY <2>2, AppendProperties, LenProperties
  <2>4. s \in G
    BY <1>2, <2>3
  <2> QED
    BY <2>2, <2>4
<1>3. Nat \subseteq Lengths
  <2> HIDE DEF Lengths
  <2> QED
    BY <1>1, <1>2, SetInduction
<1> QED
  BY <1>3, LenProperties

-----------------------------------------------------------------------------
(* The bytes of a sequence of messages. *)

(* The sums that Total looks the last one up of. *)
Sums(s) == CHOOSE bytes : bytes = [k \in 0 .. Len(s) |->
             IF k = 0 THEN 0 ELSE bytes[k - 1] + MsgBytes[s[k]]]

(* The sums exist, begin at zero and grow by a message at a time. *)
LEMMA SumsAre ==
  ASSUME NEW s \in Seq(Msgs)
  PROVE  /\ Total(s) = Sums(s)[Len(s)]
         /\ Sums(s) \in [0 .. Len(s) -> Nat]
         /\ Sums(s)[0] = 0
         /\ \A k \in 1 .. Len(s) : Sums(s)[k] = Sums(s)[k - 1] + MsgBytes[s[k]]
<1>1. Len(s) \in Nat /\ \A k \in 1 .. Len(s) : s[k] \in Msgs
  BY LenProperties, ElementOfSeq
<1>2. \A m \in Msgs : MsgBytes[m] \in Nat
  BY AnyMessageFits
<1> DEFINE add == [k \in 1 .. Len(s) |-> [v \in Nat |-> v + MsgBytes[s[k]]]]
<1>3. add \in Steps(Len(s), Nat)
  BY <1>1, <1>2 DEF Steps
<1>4. PICK f : IsRecursion(f, Len(s), Nat, 0, add)
  <2> HIDE DEF add
  <2>1. 0 \in Nat /\ Len(s) \in Nat
    BY <1>1
  <2> QED
    BY <1>3, <2>1, Recursion
<1>5. f = [k \in 0 .. Len(s) |-> IF k = 0 THEN 0 ELSE f[k - 1] + MsgBytes[s[k]]]
  <2>1. ASSUME NEW k \in 1 .. Len(s)
        PROVE  f[k] = f[k - 1] + MsgBytes[s[k]]
    <3>1. k - 1 \in 0 .. Len(s) /\ f[k] = add[k][f[k - 1]]
      BY <1>1, <1>4 DEF IsRecursion
    <3>2. f[k - 1] \in Nat
      BY <1>4, <3>1 DEF IsRecursion
    <3> QED
      BY <3>1, <3>2
  <2> QED
    BY <1>1, <1>4, <2>1 DEF IsRecursion
<1>6. Sums(s) = [k \in 0 .. Len(s) |->
                   IF k = 0 THEN 0 ELSE Sums(s)[k - 1] + MsgBytes[s[k]]]
  BY <1>5, Zenon DEF Sums
<1>7. Sums(s)[0] = 0
  BY <1>1, <1>6
<1>8. ASSUME NEW k \in 1 .. Len(s)
      PROVE  Sums(s)[k] = Sums(s)[k - 1] + MsgBytes[s[k]]
  BY <1>1, <1>6
<1>9. Sums(s) \in [0 .. Len(s) -> Nat]
  <2> DEFINE Fine == {k \in Nat : k <= Len(s) => Sums(s)[k] \in Nat}
  <2>1. 0 \in Fine
    BY <1>7
  <2>2. ASSUME NEW k \in Nat, k \in Fine
        PROVE  k + 1 \in Fine
    <3> SUFFICES ASSUME k + 1 <= Len(s)
                 PROVE  Sums(s)[k + 1] \in Nat
      OBVIOUS
    <3>1. k + 1 \in 1 .. Len(s) /\ Sums(s)[k] \in Nat
      BY <1>1, <2>2
    <3>2. Sums(s)[k + 1] = Sums(s)[k] + MsgBytes[s[k + 1]]
      BY <1>8, <3>1
    <3> QED
      BY <1>1, <1>2, <3>1, <3>2
  <2>3. Nat \subseteq Fine
    <3> HIDE DEF Fine
    <3> QED
      BY <2>1, <2>2, SetInduction
  <2>4. \A k \in 0 .. Len(s) : Sums(s)[k] \in Nat
    BY <1>1, <2>3
  <2>5. \E d : Sums(s) = [k \in 0 .. Len(s) |-> d[k]]
    <3> DEFINE d == [k \in 0 .. Len(s) |->
                       IF k = 0 THEN 0 ELSE Sums(s)[k - 1] + MsgBytes[s[k]]]
    <3>1. Sums(s) = [k \in 0 .. Len(s) |-> d[k]]
      BY <1>6
    <3> QED
      BY <3>1
  <2> QED
    BY <2>4, <2>5
<1>10. Total(s) = Sums(s)[Len(s)]
  BY Zenon DEF Total, Sums
<1> QED
  BY <1>7, <1>8, <1>9, <1>10

LEMMA TotalType ==
  ASSUME NEW s \in Seq(Msgs)
  PROVE  Total(s) \in Nat
<1>1. Len(s) \in 0 .. Len(s)
  BY LenProperties
<1> QED
  BY <1>1, SumsAre

(* The bytes of no message and of one more. *)
LEMMA TotalAppend ==
  /\ Total(<<>>) = 0
  /\ \A s \in Seq(Msgs), m \in Msgs :
       Total(s) \in Nat /\ Total(Append(s, m)) = Total(s) + MsgBytes[m]
<1>1. Total(<<>>) = 0
  <2>1. <<>> \in Seq(Msgs) /\ Len(<<>>) = 0
    BY EmptySeq
  <2> QED
    BY <2>1, SumsAre
<1>2. ASSUME NEW s \in Seq(Msgs), NEW m \in Msgs
      PROVE  Total(s) \in Nat /\ Total(Append(s, m)) = Total(s) + MsgBytes[m]
  <2> DEFINE t == Append(s, m)
  <2>1. /\ t \in Seq(Msgs) /\ Len(t) = Len(s) + 1 /\ Len(s) \in Nat
        /\ t[Len(s) + 1] = m
        /\ \A k \in 1 .. Len(s) : t[k] = s[k]
    BY AppendProperties, LenProperties
  <2> HIDE DEF t
  <2>2. /\ Total(s) = Sums(s)[Len(s)] /\ Total(t) = Sums(t)[Len(s) + 1]
        /\ Sums(s) \in [0 .. Len(s) -> Nat]
        /\ Sums(s)[0] = 0 /\ Sums(t)[0] = 0
        /\ \A k \in 1 .. Len(s) : Sums(s)[k] = Sums(s)[k - 1] + MsgBytes[s[k]]
        /\ \A k \in 1 .. Len(s) + 1 : Sums(t)[k] = Sums(t)[k - 1] + MsgBytes[t[k]]
    BY <2>1, SumsAre
  <2> DEFINE Same == {k \in Nat : k <= Len(s) => Sums(t)[k] = Sums(s)[k]}
  <2>3. 0 \in Same
    BY <2>2
  <2>4. ASSUME NEW k \in Nat, k \in Same
        PROVE  k + 1 \in Same
    <3> SUFFICES ASSUME k + 1 <= Len(s)
                 PROVE  Sums(t)[k + 1] = Sums(s)[k + 1]
      OBVIOUS
    <3>1. k + 1 \in 1 .. Len(s) /\ k + 1 \in 1 .. Len(s) + 1 /\ (k + 1) - 1 = k
      BY <2>1
    <3> QED
      BY <2>1, <2>2, <2>4, <3>1
  <2>5. Nat \subseteq Same
    <3> HIDE DEF Same
    <3> QED
      BY <2>3, <2>4, SetInduction
  <2>6. Sums(t)[Len(s)] = Sums(s)[Len(s)] /\ Len(s) + 1 \in 1 .. Len(s) + 1
    BY <2>1, <2>5
  <2>7. Total(t) = Total(s) + MsgBytes[m]
    BY <2>1, <2>2, <2>6
  <2> QED
    BY <2>1, <2>2, <2>7 DEF t
<1> QED
  BY <1>1, <1>2

(* The bytes of one more message at the front. *)
LEMMA TotalPrepend ==
  \A s \in Seq(Msgs), m \in Msgs : Total(<<m>> \o s) = MsgBytes[m] + Total(s)
<1> DEFINE Good == {s \in Seq(Msgs) :
                      \A m \in Msgs : Total(<<m>> \o s) = MsgBytes[m] + Total(s)}
<1>1. \A m \in Msgs : MsgBytes[m] \in Nat
  BY AnyMessageFits
<1>2. <<>> \in Good
  <2> SUFFICES ASSUME NEW m \in Msgs
               PROVE  Total(<<m>> \o <<>>) = MsgBytes[m] + Total(<<>>)
    BY EmptySeq
  <2>1. <<>> \in Seq(Msgs) /\ <<m>> \o <<>> = Append(<<>>, m)
    BY EmptySeq
  <2>2. Total(<<m>> \o <<>>) = Total(Append(<<>>, m))
    BY <2>1, Zenon
  <2>3. Total(Append(<<>>, m)) = Total(<<>>) + MsgBytes[m] /\ Total(<<>>) = 0
    BY <2>1, TotalAppend
  <2> QED
    BY <1>1, <2>2, <2>3
<1>3. ASSUME NEW s \in Seq(Msgs), NEW e \in Msgs, s \in Good
      PROVE  Append(s, e) \in Good
  <2>1. Append(s, e) \in Seq(Msgs)
    BY AppendProperties
  <2> SUFFICES ASSUME NEW m \in Msgs
               PROVE  Total(<<m>> \o Append(s, e)) = MsgBytes[m] + Total(Append(s, e))
    BY <2>1
  <2>2. <<m>> \in Seq(Msgs) /\ <<e>> \in Seq(Msgs) /\ <<m>> \o s \in Seq(Msgs)
    BY ConcatProperties
  <2>3. <<m>> \o Append(s, e) = Append(<<m>> \o s, e)
    <3>1. Append(s, e) = s \o <<e>> /\ Append(<<m>> \o s, e) = (<<m>> \o s) \o <<e>>
      BY <2>2, AppendIsConcat
    <3> QED
      BY <2>2, <3>1, ConcatAssociative
  <2>4. /\ Total(Append(<<m>> \o s, e)) = Total(<<m>> \o s) + MsgBytes[e]
        /\ Total(Append(s, e)) = Total(s) + MsgBytes[e]
        /\ Total(s) \in Nat
    BY <2>2, TotalAppend
  <2>5. Total(<<m>> \o s) = MsgBytes[m] + Total(s)
    BY <1>3
  <2>6. Total(<<m>> \o Append(s, e)) = Total(Append(<<m>> \o s, e))
    BY <2>3, Zenon
  <2> QED
    BY <1>1, <2>4, <2>5, <2>6
<1>4. Seq(Msgs) \subseteq Good
  <2> HIDE DEF Good
  <2> QED
    BY <1>2, <1>3, AppendInduction
<1> QED
  BY <1>4

(* A sequence backwards. *)
Backwards(s) == [i \in 1 .. Len(s) |-> s[Len(s) - i + 1]]

LEMMA BackwardsType ==
  ASSUME NEW S, NEW s \in Seq(S)
  PROVE  /\ Backwards(s) \in Seq(S) /\ Len(Backwards(s)) = Len(s)
         /\ \A i \in 1 .. Len(s) : Backwards(s)[i] = s[Len(s) - i + 1]
<1>1. Len(s) \in Nat /\ \A i \in 1 .. Len(s) : s[i] \in S
  BY LenProperties, ElementOfSeq
<1>2. \A i \in 1 .. Len(s) : Len(s) - i + 1 \in 1 .. Len(s)
  BY <1>1
<1>3. Backwards(s) \in [1 .. Len(s) -> S]
  BY <1>1, <1>2 DEF Backwards
<1> QED
  BY <1>1, <1>3 DEF Backwards

(* The bytes are the same from either end. *)
LEMMA TotalBackwards ==
  \A s \in Seq(Msgs) : Total(Backwards(s)) = Total(s)
<1> DEFINE Good == {s \in Seq(Msgs) : Total(Backwards(s)) = Total(s)}
<1>1. <<>> \in Good
  <2>1. <<>> \in Seq(Msgs) /\ Len(<<>>) = 0
    BY EmptySeq
  <2>2. Backwards(<<>>) \in Seq(Msgs) /\ Len(Backwards(<<>>)) = 0
    BY <2>1, BackwardsType
  <2>3. Backwards(<<>>) = <<>>
    BY <2>2, EmptySeq
  <2> QED
    BY <2>1, <2>3
<1>2. ASSUME NEW s \in Seq(Msgs), NEW e \in Msgs, s \in Good
      PROVE  Append(s, e) \in Good
  <2> DEFINE t == Append(s, e)
             u == <<e>> \o Backwards(s)
  <2>1. /\ t \in Seq(Msgs) /\ Len(t) = Len(s) + 1 /\ Len(s) \in Nat
        /\ t[Len(s) + 1] = e
        /\ \A i \in 1 .. Len(s) : t[i] = s[i]
    BY AppendProperties, LenProperties
  <2>2. /\ Backwards(s) \in Seq(Msgs) /\ Len(Backwards(s)) = Len(s)
        /\ \A i \in 1 .. Len(s) : Backwards(s)[i] = s[Len(s) - i + 1]
    BY BackwardsType
  <2>3. <<e>> \in Seq(Msgs) /\ Len(<<e>>) = 1 /\ <<e>>[1] = e
    OBVIOUS
  <2>4. /\ u \in Seq(Msgs) /\ Len(u) = Len(s) + 1
        /\ \A i \in 1 .. Len(s) + 1 :
             u[i] = IF i <= 1 THEN <<e>>[i] ELSE Backwards(s)[i - 1]
    BY <2>1, <2>2, <2>3, ConcatProperties
  <2> HIDE DEF t, u
  <2>5. /\ Backwards(t) \in Seq(Msgs) /\ Len(Backwards(t)) = Len(s) + 1
        /\ \A i \in 1 .. Len(s) + 1 : Backwards(t)[i] = t[(Len(s) + 1) - i + 1]
    BY <2>1, BackwardsType
  <2>6. ASSUME NEW i \in 1 .. Len(s) + 1
        PROVE  Backwards(t)[i] = u[i]
    <3>1. CASE i = 1
      BY <2>1, <2>3, <2>4, <2>5, <3>1
    <3>2. CASE i # 1
      <4>1. /\ i - 1 \in 1 .. Len(s) /\ (Len(s) + 1) - i + 1 \in 1 .. Len(s)
            /\ Len(s) - (i - 1) + 1 = (Len(s) + 1) - i + 1
        BY <2>1, <3>2
      <4>2. u[i] = s[(Len(s) + 1) - i + 1]
        <5>1. u[i] = Backwards(s)[i - 1]
          BY <2>1, <2>4, <3>2
        <5>2. Backwards(s)[i - 1] = s[Len(s) - (i - 1) + 1]
          BY <2>2, <4>1
        <5> QED
          BY <4>1, <5>1, <5>2
      <4> QED
        BY <2>1, <2>5, <4>1, <4>2
    <3> QED
      BY <3>1, <3>2
  <2>7. Backwards(t) = u
    BY <2>4, <2>5, <2>6, SeqEqual
  <2>8. Total(u) = MsgBytes[e] + Total(Backwards(s))
    BY <2>2, TotalPrepend DEF u
  <2>9. Total(t) = Total(s) + MsgBytes[e] /\ Total(s) \in Nat
    BY TotalAppend DEF t
  <2>10. MsgBytes[e] \in Nat /\ Total(Backwards(s)) = Total(s)
    BY <1>2, AnyMessageFits
  <2>11. Total(Backwards(t)) = Total(t)
    BY <2>7, <2>8, <2>9, <2>10
  <2> QED
    BY <2>1, <2>11 DEF t
<1>3. Seq(Msgs) \subseteq Good
  <2> HIDE DEF Good
  <2> QED
    BY <1>1, <1>2, AppendInduction
<1> QED
  BY <1>3

-----------------------------------------------------------------------------
(* The newest messages that fit. *)

(* From the k-th message on, from the one behind it on, and what lies        *)
(* between.                                                                  *)
LEMMA FromNext ==
  ASSUME NEW s \in Seq(Msgs), NEW k \in 1 .. Len(s)
  PROVE  /\ From(s, k + 1) \in Seq(Msgs)
         /\ From(s, k) = <<s[k]>> \o From(s, k + 1)
         /\ Total(From(s, k)) = MsgBytes[s[k]] + Total(From(s, k + 1))
<1>1. Len(s) \in Nat /\ \A i \in 1 .. Len(s) : s[i] \in Msgs
  BY LenProperties, ElementOfSeq
<1>2. From(s, k + 1) \in Seq(Msgs)
  <2>1. k + 1 \in Int /\ Len(s) \in Int /\ \A i \in k + 1 .. Len(s) : s[i] \in Msgs
    BY <1>1
  <2> QED
    BY <2>1, SubSeqProperties DEF From
<1>3. From(s, k) = <<s[k]>> \o From(s, k + 1)
  <2>1. Len(s) \in k .. Len(s)
    BY <1>1
  <2> QED
    BY <2>1, SubSeqRecursiveFirst DEF From
<1>4. Total(<<s[k]>> \o From(s, k + 1)) = MsgBytes[s[k]] + Total(From(s, k + 1))
  BY <1>1, <1>2, TotalPrepend
<1> QED
  BY <1>2, <1>3, <1>4

(* From any message on there are no more bytes than in all. *)
LEMMA FromNoMore ==
  ASSUME NEW s \in Seq(Msgs), NEW k \in 1 .. Len(s) + 1
  PROVE  From(s, k) \in Seq(Msgs) /\ Total(From(s, k)) <= Total(s)
<1>1. Len(s) \in Nat /\ \A i \in 1 .. Len(s) : s[i] \in Msgs
  BY LenProperties, ElementOfSeq
<1> DEFINE Good == {n \in Nat : n <= Len(s) =>
                      From(s, n + 1) \in Seq(Msgs) /\ Total(From(s, n + 1)) <= Total(s)}
<1>2. 0 \in Good
  <2>1. From(s, 1) = s
    BY SubSeqFull DEF From
  <2>2. Total(s) \in Nat
    BY TotalType
  <2> QED
    BY <2>1, <2>2
<1>3. ASSUME NEW n \in Nat, n \in Good
      PROVE  n + 1 \in Good
  <2> SUFFICES ASSUME n + 1 <= Len(s)
               PROVE  From(s, n + 2) \in Seq(Msgs) /\ Total(From(s, n + 2)) <= Total(s)
    OBVIOUS
  <2>1. n + 1 \in 1 .. Len(s) /\ (n + 1) + 1 = n + 2
    BY <1>1
  <2>2. /\ From(s, n + 2) \in Seq(Msgs)
        /\ Total(From(s, n + 1)) = MsgBytes[s[n + 1]] + Total(From(s, n + 2))
    BY <2>1, FromNext
  <2>3. /\ From(s, n + 1) \in Seq(Msgs) /\ Total(From(s, n + 1)) <= Total(s)
    BY <1>3, <2>1
  <2>4. s[n + 1] \in Msgs /\ MsgBytes[s[n + 1]] \in Nat
    BY <1>1, <2>1, AnyMessageFits
  <2>5. Total(s) \in Nat /\ Total(From(s, n + 2)) \in Nat
    BY <2>2, <2>4, TotalAppend
  <2> QED
    BY <2>2, <2>3, <2>4, <2>5
<1>4. Nat \subseteq Good
  <2> HIDE DEF Good
  <2> QED
    BY <1>2, <1>3, SetInduction
<1>5. k - 1 \in Nat /\ k - 1 <= Len(s) /\ (k - 1) + 1 = k
  BY <1>1
<1>6. k - 1 \in Good
  <2> HIDE DEF Good
  <2> QED
    BY <1>4, <1>5
<1> QED
  BY <1>5, <1>6

(* The suffixes of s that are over the bound, by where they begin. *)
Over(s) == {k \in 1 .. Len(s) : Total(From(s, k)) > MaxBytes}

LEMMA OverFinite ==
  ASSUME NEW s \in Seq(Msgs)
  PROVE  /\ IsFiniteSet(Over(s)) /\ Cardinality(Over(s)) \in 0 .. Len(s)
         /\ Newest(s) = From(s, 1 + Cardinality(Over(s)))
<1>1. Len(s) \in Nat
  BY LenProperties
<1>2. IsFiniteSet(1 .. Len(s)) /\ Cardinality(1 .. Len(s)) = Len(s)
  <2>1. 1 \in Int /\ Len(s) \in Int /\ Len(s) - 1 + 1 = Len(s) /\ (1 > Len(s) => Len(s) = 0)
    BY <1>1
  <2>2. /\ IsFiniteSet(1 .. Len(s))
        /\ Cardinality(1 .. Len(s)) = IF 1 > Len(s) THEN 0 ELSE Len(s) - 1 + 1
    BY <2>1, FS_Interval, Zenon
  <2> QED
    BY <2>1, <2>2
<1>3. Over(s) \in SUBSET (1 .. Len(s))
  BY DEF Over
<1>4. IsFiniteSet(Over(s)) /\ Cardinality(Over(s)) <= Len(s)
  BY <1>2, <1>3, FS_Subset
<1>5. Cardinality(Over(s)) \in Nat
  BY <1>4, FS_CardinalityType
<1> QED
  BY <1>1, <1>4, <1>5 DEF Newest, Over

(* Messages that fit stay. *)
LEMMA NewestOfFitting ==
  ASSUME NEW s \in Seq(Msgs), Total(s) <= MaxBytes
  PROVE  Newest(s) = s
<1>1. Len(s) \in Nat
  BY LenProperties
<1>2. ASSUME NEW k \in 1 .. Len(s)
      PROVE  ~(Total(From(s, k)) > MaxBytes)
  <2>1. From(s, k) \in Seq(Msgs) /\ Total(From(s, k)) <= Total(s)
    BY <1>1, FromNoMore
  <2>2. Total(From(s, k)) \in Nat /\ Total(s) \in Nat
    BY <2>1, TotalType
  <2> QED
    BY <2>1, <2>2, AnyMessageFits
<1>3. Over(s) = {}
  BY <1>2 DEF Over
<1>4. Cardinality(Over(s)) = 0
  BY <1>3, FS_EmptySet
<1>5. Newest(s) = From(s, 1)
  BY <1>4, OverFinite
<1> QED
  BY <1>5, SubSeqFull DEF From

(* A message at the front moves where the others begin. *)
LEMMA FromBehind ==
  ASSUME NEW s \in Seq(Msgs), NEW m \in Msgs
  PROVE  /\ <<m>> \o s \in Seq(Msgs) /\ Len(<<m>> \o s) = Len(s) + 1
         /\ \A k \in 1 .. Len(s) + 1 : From(<<m>> \o s, k + 1) = From(s, k)
<1> DEFINE t == <<m>> \o s
<1>1. <<m>> \in Seq(Msgs) /\ Len(<<m>>) = 1 /\ <<m>>[1] = m /\ Len(s) \in Nat
  BY LenProperties
<1>2. /\ t \in Seq(Msgs) /\ Len(t) = Len(s) + 1
      /\ \A i \in 1 .. Len(s) : t[i + 1] = s[i]
  <2>1. /\ t \in Seq(Msgs) /\ Len(t) = 1 + Len(s)
        /\ \A i \in 1 .. 1 + Len(s) : t[i] = IF i <= 1 THEN <<m>>[i] ELSE s[i - 1]
    BY <1>1, ConcatProperties
  <2> QED
    BY <1>1, <2>1
<1> HIDE DEF t
<1>3. ASSUME NEW k \in 1 .. Len(s) + 1
      PROVE  From(t, k + 1) = From(s, k)
  <2> DEFINE u == SubSeq(t, k + 1, Len(t))
             v == SubSeq(s, k, Len(s))
  <2>1. k + 1 \in Int /\ Len(t) \in Int /\ k \in Int /\ Len(s) \in Int
    BY <1>1, <1>2
  <2>2. /\ \A i \in k + 1 .. Len(t) : t[i] \in Msgs
        /\ \A i \in k .. Len(s) : s[i] \in Msgs
    BY <1>1, <1>2, ElementOfSeq
  <2>3. /\ u \in Seq(Msgs)
        /\ Len(u) = IF k + 1 <= Len(t) THEN Len(t) - (k + 1) + 1 ELSE 0
        /\ \A i \in 1 .. Len(t) - (k + 1) + 1 : u[i] = t[(k + 1) + i - 1]
    BY <2>1, <2>2, SubSeqProperties
  <2>4. /\ v \in Seq(Msgs)
        /\ Len(v) = IF k <= Len(s) THEN Len(s) - k + 1 ELSE 0
        /\ \A i \in 1 .. Len(s) - k + 1 : v[i] = s[k + i - 1]
    BY <2>1, <2>2, SubSeqProperties
  <2> HIDE DEF u, v
  <2>5. Len(u) = Len(v) /\ Len(v) = Len(s) - k + 1
    BY <1>1, <1>2, <2>3, <2>4
  <2>6. ASSUME NEW i \in 1 .. Len(u)
        PROVE  u[i] = v[i]
    <3>1. /\ i \in 1 .. Len(t) - (k + 1) + 1 /\ i \in 1 .. Len(s) - k + 1
          /\ k + i - 1 \in 1 .. Len(s) /\ (k + 1) + i - 1 = (k + i - 1) + 1
      BY <1>1, <1>2, <2>5
    <3> QED
      BY <1>2, <2>3, <2>4, <3>1
  <2>7. u = v
    BY <2>3, <2>4, <2>5, <2>6, SeqEqual
  <2> QED
    BY <2>7 DEF From, u, v
<1> QED
  BY <1>2, <1>3 DEF t

(* When the messages do not fit, the oldest goes and changes nothing else. *)
LEMMA NewestWithoutOldest ==
  ASSUME NEW s \in Seq(Msgs), NEW m \in Msgs, Total(<<m>> \o s) > MaxBytes
  PROVE  Newest(<<m>> \o s) = Newest(s)
<1> DEFINE t == <<m>> \o s
           later == {k \in 2 .. Len(t) : Total(From(t, k)) > MaxBytes}
           shift == [k \in Over(s) |-> k + 1]
<1>1. Len(s) \in Nat
  BY LenProperties
<1>2. t \in Seq(Msgs) /\ Len(t) = Len(s) + 1
  BY FromBehind
<1>3. \A k \in 1 .. Len(s) + 1 : From(t, k + 1) = From(s, k)
  BY FromBehind
<1> HIDE DEF t
<1>4. Cardinality(later) = Cardinality(Over(s)) /\ IsFiniteSet(later)
  <2>1. shift \in Bijection(Over(s), later)
    <3>1. ASSUME NEW k \in Over(s)
          PROVE  k + 1 \in later
      <4>1. k \in 1 .. Len(s) /\ k \in 1 .. Len(s) + 1 /\ Total(From(s, k)) > MaxBytes
        BY <1>1 DEF Over
      <4>2. From(t, k + 1) = From(s, k)
        BY <1>3, <4>1
      <4> QED
        BY <1>1, <1>2, <4>1, <4>2
    <3>2. ASSUME NEW k \in later
          PROVE  k - 1 \in Over(s) /\ (k - 1) + 1 = k
      <4>1. k - 1 \in 1 .. Len(s) /\ k - 1 \in 1 .. Len(s) + 1 /\ (k - 1) + 1 = k
        BY <1>1, <1>2
      <4>2. From(t, k) = From(s, k - 1)
        BY <1>3, <4>1
      <4> QED
        BY <4>1, <4>2 DEF Over
    <3>3. \A k \in Over(s) : k \in Int
      BY DEF Over
    <3> HIDE DEF later
    <3>4. shift \in [Over(s) -> later]
      BY <3>1
    <3>5. \A a, b \in Over(s) : shift[a] = shift[b] => a = b
      BY <3>3
    <3>6. \A k \in later : \E a \in Over(s) : shift[a] = k
      BY <3>2
    <3> HIDE DEF shift
    <3> QED
      BY <3>4, <3>5, <3>6 DEF Bijection, Injection, IsInjective, Surjection
  <2>2. ExistsBijection(Over(s), later)
    BY <2>1 DEF ExistsBijection
  <2> HIDE DEF later
  <2> QED
    BY <2>2, OverFinite, FS_Bijection
<1>5. Over(t) = later \cup {1} /\ 1 \notin later
  <2>1. From(t, 1) = t
    BY <1>2, SubSeqFull DEF From
  <2>2. Total(From(t, 1)) > MaxBytes
    BY <2>1 DEF t
  <2> QED
    BY <1>1, <1>2, <2>2 DEF Over
<1>6. Cardinality(Over(t)) = Cardinality(Over(s)) + 1
  <2> HIDE DEF later
  <2> QED
    BY <1>4, <1>5, FS_AddElement
<1>7. Newest(t) = From(t, (1 + Cardinality(Over(s))) + 1)
  <2>1. Newest(t) = From(t, 1 + Cardinality(Over(t)))
    BY <1>2, OverFinite
  <2>2. 1 + Cardinality(Over(t)) = (1 + Cardinality(Over(s))) + 1
    BY <1>1, <1>6, OverFinite
  <2> QED
    BY <2>1, <2>2
<1>8. 1 + Cardinality(Over(s)) \in 1 .. Len(s) + 1
  BY <1>1, OverFinite
<1>9. Newest(t) = From(s, 1 + Cardinality(Over(s)))
  BY <1>3, <1>7, <1>8
<1> QED
  BY <1>9, OverFinite DEF t

(* What stays is the longest end of a sequence that is within the bound. *)
THEOREM NewestIsLongest ==
  \A s \in Seq(Msgs) : \E j \in 0 .. Len(s) :
    /\ Newest(s) = From(s, j + 1) /\ Total(Newest(s)) <= MaxBytes
    /\ j > 0 => Total(From(s, j)) > MaxBytes
<1> DEFINE Longest(s, j) == /\ Newest(s) = From(s, j + 1) /\ Total(Newest(s)) <= MaxBytes
                            /\ j > 0 => Total(From(s, j)) > MaxBytes
           Good == {n \in Nat : \A s \in Seq(Msgs) : Len(s) = n =>
                      \E j \in 0 .. Len(s) : Longest(s, j)}
<1>1. ASSUME NEW s \in Seq(Msgs), Total(s) <= MaxBytes
      PROVE  \E j \in 0 .. Len(s) : Longest(s, j)
  <2>1. Newest(s) = s /\ From(s, 0 + 1) = s /\ Len(s) \in Nat
    BY <1>1, NewestOfFitting, SubSeqFull, LenProperties DEF From
  <2>2. 0 \in 0 .. Len(s) /\ Longest(s, 0)
    BY <1>1, <2>1
  <2> QED
    BY <2>2
<1>2. 0 \in Good
  <2> SUFFICES ASSUME NEW s \in Seq(Msgs), Len(s) = 0
               PROVE  \E j \in 0 .. Len(s) : Longest(s, j)
    OBVIOUS
  <2>1. s = <<>>
    BY EmptySeq
  <2>2. Total(s) = 0
    BY <2>1, TotalAppend
  <2>3. Total(s) <= MaxBytes
    BY <2>2, AnyMessageFits
  <2> HIDE DEF Longest
  <2> QED
    BY <1>1, <2>3
<1>3. ASSUME NEW n \in Nat, n \in Good
      PROVE  n + 1 \in Good
  <2> SUFFICES ASSUME NEW s \in Seq(Msgs), Len(s) = n + 1, Total(s) > MaxBytes
               PROVE  \E j \in 0 .. Len(s) : Longest(s, j)
    <3>1. \A s \in Seq(Msgs) : Total(s) <= MaxBytes \/ Total(s) > MaxBytes
      BY TotalType, AnyMessageFits
    <3> HIDE DEF Longest
    <3> QED
      BY <1>1, <3>1
  <2> DEFINE m == s[1]
             t == From(s, 2)
  <2>1. 1 \in 1 .. Len(s) /\ m \in Msgs
    BY ElementOfSeq
  <2>2. t \in Seq(Msgs) /\ s = <<m>> \o t
    <3>1. From(s, 1 + 1) \in Seq(Msgs) /\ From(s, 1) = <<s[1]>> \o From(s, 1 + 1)
      BY <2>1, FromNext
    <3>2. From(s, 1) = s
      BY SubSeqFull DEF From
    <3> QED
      BY <3>1, <3>2
  <2> HIDE DEF m, t
  <2>3. /\ Len(s) = Len(t) + 1 /\ Len(t) \in Nat
        /\ \A k \in 1 .. Len(t) + 1 : From(s, k + 1) = From(t, k)
    BY <2>1, <2>2, FromBehind, LenProperties
  <2>4. Newest(s) = Newest(t)
    BY <2>1, <2>2, NewestWithoutOldest
  <2>5. PICK j \in 0 .. Len(t) : Longest(t, j)
    BY <1>3, <2>2, <2>3
  <2>6. j + 1 \in 0 .. Len(s) /\ j + 1 \in 1 .. Len(t) + 1
    BY <2>3
  <2>7. Newest(s) = From(s, (j + 1) + 1) /\ Total(Newest(s)) <= MaxBytes
    BY <2>3, <2>4, <2>5, <2>6
  <2>8. Total(From(s, j + 1)) > MaxBytes
    <3>1. CASE j = 0
      <4>1. From(s, 1) = s
        BY SubSeqFull DEF From
      <4> QED
        BY <3>1, <4>1
    <3>2. CASE j # 0
      <4>1. j > 0 /\ j \in 1 .. Len(t) + 1
        BY <2>3, <3>2
      <4> QED
        BY <2>3, <2>5, <4>1
    <3> QED
      BY <3>1, <3>2
  <2>9. Longest(s, j + 1)
    BY <2>7, <2>8
  <2> QED
    BY <2>6, <2>9
<1>4. Nat \subseteq Good
  <2> HIDE DEF Good
  <2> QED
    BY <1>2, <1>3, SetInduction
<1> QED
  BY <1>4, LenProperties

-----------------------------------------------------------------------------
(* The list that the pointers make. *)

(* From from on, the pointers f lead along s and then end. *)
Chain(s, from, f) ==
  /\ s \in Seq(Nodes) /\ DOMAIN f = Nodes
  /\ \A i, j \in 1 .. Len(s) : s[i] = s[j] => i = j
  /\ from = IF s = <<>> THEN NULL ELSE s[1]
  /\ \A i \in 1 .. Len(s) : f[s[i]] = IF i = Len(s) THEN NULL ELSE s[i + 1]

(* A walk along a chain meets its nodes and no other. *)
LEMMA WalkIsChain ==
  ASSUME NEW s, NEW from, NEW f, Chain(s, from, f)
  PROVE  Walk(from, f) = s
BY MemoryIsFinite, WalkAlong DEF Chain, Linked

(* A node behind the last one. *)
LEMMA ChainAppend ==
  ASSUME NEW s, NEW from, NEW f, Chain(s, from, f), s # <<>>,
         f \in [Nodes -> Nodes \cup {NULL}],
         NEW n \in Nodes, \A i \in 1 .. Len(s) : s[i] # n
  PROVE  Chain(Append(s, n), from, [f EXCEPT ![n] = NULL, ![s[Len(s)]] = n])
<1> DEFINE t == Append(s, n)
           h == [f EXCEPT ![n] = NULL, ![s[Len(s)]] = n]
<1>1. /\ s \in Seq(Nodes) /\ Len(s) \in Nat /\ Len(s) > 0
      /\ \A i \in 1 .. Len(s) : s[i] \in Nodes
  <2>1. s \in Seq(Nodes)
    BY DEF Chain
  <2> QED
    BY <2>1, LenProperties, ElementOfSeq, EmptySeq
<1>2. /\ t \in Seq(Nodes) /\ t # <<>> /\ Len(t) = Len(s) + 1
      /\ \A i \in 1 .. Len(s) : t[i] = s[i]
      /\ t[Len(s) + 1] = n
  BY <1>1, AppendProperties
<1>3. h[n] = NULL /\ h[s[Len(s)]] = n
      /\ \A x \in Nodes : x # n /\ x # s[Len(s)] => h[x] = f[x]
  BY <1>1
<1> HIDE DEF t, h
<1>4. \A i, j \in 1 .. Len(t) : t[i] = t[j] => i = j
  <2>1. \A i, j \in 1 .. Len(s) : s[i] = s[j] => i = j
    BY DEF Chain
  <2> QED
    BY <1>1, <1>2, <2>1
<1>5. from = t[1]
  BY <1>1, <1>2 DEF Chain
<1>6. ASSUME NEW i \in 1 .. Len(t)
      PROVE  h[t[i]] = IF i = Len(t) THEN NULL ELSE t[i + 1]
  <2>1. CASE i = Len(s) + 1
    BY <1>2, <1>3, <2>1
  <2>2. CASE i = Len(s)
    BY <1>1, <1>2, <1>3, <2>2
  <2>3. CASE i < Len(s)
    <3>1. i \in 1 .. Len(s) /\ i + 1 \in 1 .. Len(s) /\ Len(s) \in 1 .. Len(s)
      BY <1>1, <1>2, <2>3
    <3>2. s[i] # s[Len(s)]
      BY <2>3, <3>1, <1>1 DEF Chain
    <3>3. f[s[i]] = s[i + 1]
      <4>1. f[s[i]] = IF i = Len(s) THEN NULL ELSE s[i + 1]
        BY <3>1 DEF Chain
      <4>2. i # Len(s)
        BY <1>1, <2>3, <3>1
      <4> QED
        BY <4>1, <4>2
    <3>4. h[s[i]] = s[i + 1]
      BY <1>1, <1>3, <3>1, <3>2, <3>3
    <3>5. t[i] = s[i] /\ t[i + 1] = s[i + 1] /\ i # Len(t)
      BY <1>1, <1>2, <3>1, <2>3
    <3> QED
      BY <3>4, <3>5
  <2>4. i \in Nat /\ i <= Len(s) + 1
    BY <1>1, <1>2
  <2> QED
    BY <1>1, <2>1, <2>2, <2>3, <2>4
<1>7. DOMAIN h = Nodes
  BY DEF h
<1>8. Chain(t, from, h)
  BY <1>2, <1>4, <1>5, <1>6, <1>7 DEF Chain
<1> QED
  BY <1>8 DEF t, h

(* What is left when the first node goes. *)
LEMMA ChainRest ==
  ASSUME NEW s, NEW from, NEW f, Chain(s, from, f), s # <<>>,
         f \in [Nodes -> Nodes \cup {NULL}]
  PROVE  Chain(Tail(s), f[from], [f EXCEPT ![from] = NULL])
<1> DEFINE t == Tail(s)
           h == [f EXCEPT ![from] = NULL]
<1>1. /\ s \in Seq(Nodes) /\ Len(s) \in Nat /\ Len(s) > 0
      /\ \A i \in 1 .. Len(s) : s[i] \in Nodes
      /\ from = s[1]
  <2>1. s \in Seq(Nodes)
    BY DEF Chain
  <2> QED
    BY <2>1, LenProperties, ElementOfSeq, EmptySeq DEF Chain
<1>2. /\ t \in Seq(Nodes) /\ Len(t) = Len(s) - 1
      /\ \A i \in 1 .. Len(t) : t[i] = s[i + 1]
  BY <1>1, HeadTailProperties
<1>3. \A x \in Nodes : x # from => h[x] = f[x]
  BY <1>1
<1>4. \A i, j \in 1 .. Len(s) : s[i] = s[j] => i = j
  BY DEF Chain
<1>5. \A i \in 1 .. Len(s) : f[s[i]] = IF i = Len(s) THEN NULL ELSE s[i + 1]
  BY DEF Chain
<1> HIDE DEF t, h
<1>6. ASSUME NEW i \in 1 .. Len(t)
      PROVE  i + 1 \in 1 .. Len(s) /\ 1 \in 1 .. Len(s) /\ i + 1 # 1
  BY <1>1, <1>2
<1>7. \A i, j \in 1 .. Len(t) : t[i] = t[j] => i = j
  <2> SUFFICES ASSUME NEW i \in 1 .. Len(t), NEW j \in 1 .. Len(t), t[i] = t[j]
               PROVE  i = j
    OBVIOUS
  <2>1. i + 1 = j + 1
    BY <1>2, <1>4, <1>6
  <2> QED
    BY <2>1
<1>8. f[from] = IF t = <<>> THEN NULL ELSE t[1]
  <2>1. 1 \in 1 .. Len(s) /\ f[s[1]] = IF 1 = Len(s) THEN NULL ELSE s[2]
    <3>1. 1 \in 1 .. Len(s) /\ 1 + 1 = 2
      BY <1>1
    <3>2. f[s[1]] = IF 1 = Len(s) THEN NULL ELSE s[1 + 1]
      BY <1>5, <3>1
    <3> QED
      BY <3>1, <3>2
  <2>2. CASE Len(s) = 1
    <3>1. t = <<>>
      BY <1>2, <2>2, EmptySeq
    <3> QED
      BY <1>1, <2>1, <2>2, <3>1
  <2>3. CASE Len(s) # 1
    <3>1. Len(t) # 0 /\ 1 \in 1 .. Len(t)
      BY <1>1, <1>2, <2>3
    <3>2. t # <<>> /\ t[1] = s[2]
      BY <1>2, <3>1, EmptySeq
    <3> QED
      BY <1>1, <2>1, <2>3, <3>2
  <2> QED
    BY <2>2, <2>3
<1>9. ASSUME NEW i \in 1 .. Len(t)
      PROVE  h[t[i]] = IF i = Len(t) THEN NULL ELSE t[i + 1]
  <2>1. i + 1 \in 1 .. Len(s) /\ s[i + 1] # from /\ t[i] = s[i + 1]
    BY <1>1, <1>2, <1>4, <1>6
  <2>2. h[t[i]] = IF i + 1 = Len(s) THEN NULL ELSE s[(i + 1) + 1]
    BY <1>1, <1>3, <1>5, <2>1
  <2>3. CASE i = Len(t)
    BY <1>1, <1>2, <2>2, <2>3
  <2>4. CASE i # Len(t)
    <3>1. i + 1 \in 1 .. Len(t) /\ i + 1 # Len(s)
      BY <1>1, <1>2, <2>4
    <3> QED
      BY <1>2, <2>2, <2>4, <3>1
  <2> QED
    BY <2>3, <2>4
<1>10. DOMAIN h = Nodes
  BY DEF h
<1>11. Chain(t, f[from], h)
  BY <1>2, <1>7, <1>8, <1>9, <1>10 DEF Chain
<1> QED
  BY <1>11 DEF t, h

(* The list from its other end. *)
LEMMA ChainBackwards ==
  ASSUME NEW s, NEW from, NEW f, Chain(s, from, f), NEW g, DOMAIN g = Nodes,
         \A i \in 1 .. Len(s) : g[s[i]] = IF i = 1 THEN NULL ELSE s[i - 1]
  PROVE  /\ Chain(Backwards(s), IF s = <<>> THEN NULL ELSE s[Len(s)], g)
         /\ from = IF Backwards(s) = <<>> THEN NULL ELSE Backwards(s)[Len(Backwards(s))]
<1> DEFINE t == Backwards(s)
<1>1. s \in Seq(Nodes) /\ Len(s) \in Nat
  <2>1. s \in Seq(Nodes)
    BY DEF Chain
  <2> QED
    BY <2>1, LenProperties
<1>2. /\ t \in Seq(Nodes) /\ Len(t) = Len(s)
      /\ \A i \in 1 .. Len(s) : t[i] = s[Len(s) - i + 1]
  BY <1>1, BackwardsType
<1> HIDE DEF t
<1>3. t = <<>> <=> Len(s) = 0
  BY <1>1, <1>2, EmptySeq
<1>4. s = <<>> <=> Len(s) = 0
  BY <1>1, EmptySeq
<1>5. \A i, j \in 1 .. Len(t) : t[i] = t[j] => i = j
  <2> SUFFICES ASSUME NEW i \in 1 .. Len(t), NEW j \in 1 .. Len(t), t[i] = t[j]
               PROVE  i = j
    OBVIOUS
  <2>1. Len(s) - i + 1 \in 1 .. Len(s) /\ Len(s) - j + 1 \in 1 .. Len(s)
    BY <1>1, <1>2
  <2>2. s[Len(s) - i + 1] = s[Len(s) - j + 1]
    BY <1>2
  <2>3. Len(s) - i + 1 = Len(s) - j + 1
    BY <2>1, <2>2 DEF Chain
  <2> QED
    BY <1>1, <2>3
<1>6. (IF s = <<>> THEN NULL ELSE s[Len(s)]) = IF t = <<>> THEN NULL ELSE t[1]
  BY <1>1, <1>2, <1>3, <1>4
<1>7. ASSUME NEW i \in 1 .. Len(t)
      PROVE  g[t[i]] = IF i = Len(t) THEN NULL ELSE t[i + 1]
  <2>1. Len(s) - i + 1 \in 1 .. Len(s) /\ (Len(s) - i + 1) - 1 = Len(s) - i
    BY <1>1, <1>2
  <2>2. g[t[i]] = IF Len(s) - i + 1 = 1 THEN NULL ELSE s[Len(s) - i]
    BY <1>2, <2>1
  <2>3. CASE i = Len(t)
    BY <1>1, <1>2, <2>2, <2>3
  <2>4. CASE i # Len(t)
    <3>1. i + 1 \in 1 .. Len(s) /\ Len(s) - (i + 1) + 1 = Len(s) - i /\ Len(s) - i + 1 # 1
      BY <1>1, <1>2, <2>4
    <3>2. t[i + 1] = s[Len(s) - i]
      BY <1>2, <3>1
    <3> QED
      BY <2>2, <2>4, <3>1, <3>2
  <2> QED
    BY <2>3, <2>4
<1>8. from = IF t = <<>> THEN NULL ELSE t[Len(t)]
  <2>1. from = IF s = <<>> THEN NULL ELSE s[1]
    BY DEF Chain
  <2>2. CASE Len(s) = 0
    BY <1>3, <1>4, <2>1, <2>2
  <2>3. CASE Len(s) # 0
    <3>1. Len(s) \in 1 .. Len(s) /\ Len(s) - Len(s) + 1 = 1
      BY <1>1, <2>3
    <3>2. t[Len(s)] = s[1]
      BY <1>2, <3>1
    <3> QED
      BY <1>2, <1>3, <1>4, <2>1, <2>3, <3>2
  <2> QED
    BY <2>2, <2>3
<1>9. Chain(t, IF s = <<>> THEN NULL ELSE s[Len(s)], g)
  BY <1>2, <1>5, <1>6, <1>7 DEF Chain
<1> QED
  BY <1>8, <1>9 DEF t

-----------------------------------------------------------------------------
(* The invariant. *)

(* Where the nodes begin that are still in the log, also while it is being  *)
(* evicted from and the head has not been moved.                            *)
Front == IF Evicting THEN evict.curr ELSE scrlog.head

(* The pointers make the list of the nodes of s: these are the nodes that    *)
(* are allocated, linked both ways, and what they hold and what has been     *)
(* evicted add up to the counts.  An eviction has something to free, and the *)
(* message it is made for stays.                                             *)
Listed(s) ==
  /\ Chain(s, Front, next)
  /\ allocated = {s[i] : i \in 1 .. Len(s)}
  /\ \A i \in 1 .. Len(s) : /\ msg[s[i]] \in Msgs
                            /\ prev[s[i]] = IF i = 1 THEN NULL ELSE s[i - 1]
  /\ scrlog.tail = IF s = <<>> THEN NULL ELSE s[Len(s)]
  /\ scrlog.n_msgs = evict.nodes + Len(s)
  /\ scrlog.size = evict.freed + Total(Texts(s))
  /\ ~Evicting => scrlog.size <= MaxBytes
  /\ Evicting => /\ s # <<>>
                 /\ evict.free = scrlog.size - MaxBytes /\ evict.free > 0
                 /\ evict.nodes = 0 => evict.freed = 0 /\ scrlog.head = evict.curr

IInv == TypeOK /\ \E s \in Seq(Nodes) : Listed(s)

(* The nodes of a list, and what a list says of them. *)
LEMMA ListFacts ==
  ASSUME NEW s \in Seq(Nodes)
  PROVE  /\ Len(s) \in Nat /\ DOMAIN s = 1 .. Len(s)
         /\ \A i \in 1 .. Len(s) : s[i] \in Nodes /\ s[i] # NULL
         /\ s = <<>> <=> Len(s) = 0
  BY LenProperties, ElementOfSeq, EmptySeq, MemoryIsFinite

(* The texts of the nodes of s where field holds them. *)
TextsIn(s, field) == [i \in DOMAIN s |-> field[s[i]]]

LEMMA TextsInType ==
  ASSUME NEW s \in Seq(Nodes), NEW field, \A i \in 1 .. Len(s) : field[s[i]] \in Msgs
  PROVE  /\ TextsIn(s, field) \in Seq(Msgs) /\ Len(TextsIn(s, field)) = Len(s)
         /\ \A i \in 1 .. Len(s) : TextsIn(s, field)[i] = field[s[i]]
<1>1. Len(s) \in Nat /\ DOMAIN s = 1 .. Len(s)
  BY LenProperties
<1>2. TextsIn(s, field) \in [1 .. Len(s) -> Msgs]
  BY <1>1 DEF TextsIn
<1> QED
  BY <1>1, <1>2 DEF TextsIn

(* t is s with e behind it. *)
IsAppend(t, s, e) == t = Append(s, e)

(* A new node puts its message behind the others. *)
LEMMA TextsAppend ==
  ASSUME NEW s \in Seq(Nodes), NEW n \in Nodes, NEW t, IsAppend(t, s, n),
         NEW field, NEW new, new[n] \in Msgs,
         \A i \in 1 .. Len(s) : field[s[i]] \in Msgs /\ new[s[i]] = field[s[i]]
  PROVE  IsAppend(TextsIn(t, new), TextsIn(s, field), new[n])
<1> DEFINE a == TextsIn(s, field)
           b == Append(a, new[n])
           c == TextsIn(t, new)
<1>1. /\ t \in Seq(Nodes) /\ Len(t) = Len(s) + 1 /\ Len(s) \in Nat
      /\ \A i \in 1 .. Len(s) : t[i] = s[i]
      /\ t[Len(s) + 1] = n
  BY AppendProperties, LenProperties DEF IsAppend
<1>2. /\ a \in Seq(Msgs) /\ Len(a) = Len(s)
      /\ \A i \in 1 .. Len(s) : a[i] = field[s[i]]
  BY TextsInType
<1>3. /\ b \in Seq(Msgs) /\ Len(b) = Len(s) + 1 /\ b[Len(s) + 1] = new[n]
      /\ \A i \in 1 .. Len(s) : b[i] = a[i]
  <2> HIDE DEF a
  <2> QED
    BY <1>2, AppendProperties
<1> HIDE DEF a, b
<1>4. \A i \in 1 .. Len(t) : new[t[i]] \in Msgs
  <2> SUFFICES ASSUME NEW i \in 1 .. Len(t)
               PROVE  new[t[i]] \in Msgs
    OBVIOUS
  <2>1. i \in 1 .. Len(s) \/ i = Len(s) + 1
    BY <1>1
  <2> QED
    BY <1>1, <2>1
<1>5. /\ c \in Seq(Msgs) /\ Len(c) = Len(s) + 1
      /\ \A i \in 1 .. Len(t) : c[i] = new[t[i]]
  BY <1>1, <1>4, TextsInType
<1> HIDE DEF c
<1>6. ASSUME NEW i \in 1 .. Len(c)
      PROVE  c[i] = b[i]
  <2>1. i \in 1 .. Len(s) \/ i = Len(s) + 1
    BY <1>1, <1>5
  <2>2. c[i] = new[t[i]]
    BY <1>1, <1>5
  <2>3. CASE i \in 1 .. Len(s)
    BY <1>1, <1>2, <1>3, <2>2, <2>3
  <2>4. CASE i = Len(s) + 1
    BY <1>1, <1>3, <2>2, <2>4
  <2> QED
    BY <2>1, <2>3, <2>4
<1>7. c = b
  BY <1>3, <1>5, <1>6, SeqEqual
<1> QED
  BY <1>7 DEF a, b, c, IsAppend

(* The first node takes its message with it. *)
LEMMA TextsRest ==
  ASSUME NEW s \in Seq(Nodes), s # <<>>, NEW field, NEW new,
         \A i \in 1 .. Len(s) : field[s[i]] \in Msgs,
         \A i \in 2 .. Len(s) : new[s[i]] = field[s[i]]
  PROVE  /\ TextsIn(Tail(s), new) \in Seq(Msgs)
         /\ TextsIn(s, field) = <<field[s[1]]>> \o TextsIn(Tail(s), new)
<1> DEFINE t == Tail(s)
           a == TextsIn(s, field)
           c == TextsIn(t, new)
           b == <<field[s[1]]>> \o c
<1>1. /\ t \in Seq(Nodes) /\ Len(t) = Len(s) - 1 /\ Len(s) \in Nat /\ Len(s) > 0
      /\ \A i \in 1 .. Len(t) : t[i] = s[i + 1]
  BY HeadTailProperties, ListFacts
<1>2. /\ a \in Seq(Msgs) /\ Len(a) = Len(s)
      /\ \A i \in 1 .. Len(s) : a[i] = field[s[i]]
  BY TextsInType
<1> HIDE DEF t
<1>3. ASSUME NEW i \in 1 .. Len(t)
      PROVE  new[t[i]] = field[s[i + 1]] /\ new[t[i]] \in Msgs
  <2>1. i + 1 \in 2 .. Len(s) /\ i + 1 \in 1 .. Len(s)
    BY <1>1
  <2> QED
    BY <1>1, <2>1
<1>4. /\ c \in Seq(Msgs) /\ Len(c) = Len(t)
      /\ \A i \in 1 .. Len(t) : c[i] = new[t[i]]
  BY <1>1, <1>3, TextsInType
<1>5. field[s[1]] \in Msgs
  BY <1>1
<1>6. /\ b \in Seq(Msgs) /\ Len(b) = Len(s) /\ b[1] = field[s[1]]
      /\ \A i \in 2 .. Len(s) : b[i] = c[i - 1]
  <2> DEFINE q == <<field[s[1]]>>
  <2>1. q \in Seq(Msgs) /\ Len(q) = 1 /\ q[1] = field[s[1]]
    BY <1>5
  <2> HIDE DEF q, c
  <2>2. /\ q \o c \in Seq(Msgs) /\ Len(q \o c) = 1 + Len(c)
        /\ \A i \in 1 .. 1 + Len(c) : (q \o c)[i] = IF i <= 1 THEN q[i] ELSE c[i - 1]
    <3>1. /\ q \o c \in Seq(Msgs) /\ Len(q \o c) = Len(q) + Len(c)
          /\ \A i \in 1 .. Len(q) + Len(c) :
               (q \o c)[i] = IF i <= Len(q) THEN q[i] ELSE c[i - Len(q)]
      <4>1. q \in Seq(Msgs) /\ c \in Seq(Msgs)
        BY <1>4, <2>1
      <4> QED
        BY <4>1, ConcatProperties, Zenon
    <3> QED
      BY <2>1, <3>1, Zenon
  <2>3. b = q \o c
    BY DEF q
  <2> HIDE DEF b
  <2> QED
    BY <1>1, <1>4, <2>1, <2>2, <2>3
<1> HIDE DEF a, b, c
<1>7. ASSUME NEW i \in 1 .. Len(a)
      PROVE  a[i] = b[i]
  <2>1. CASE i = 1
    BY <1>1, <1>2, <1>6, <2>1
  <2>2. CASE i # 1
    <3>1. i \in 2 .. Len(s) /\ i \in 1 .. Len(s) /\ i - 1 \in 1 .. Len(t) /\ (i - 1) + 1 = i
      BY <1>1, <1>2, <2>2
    <3>2. b[i] = c[i - 1] /\ c[i - 1] = new[t[i - 1]]
      BY <1>4, <1>6, <3>1
    <3>3. new[t[i - 1]] = field[s[i]]
      BY <1>3, <3>1
    <3> QED
      BY <1>2, <3>1, <3>2, <3>3
  <2> QED
    BY <2>1, <2>2
<1>8. a = b
  BY <1>2, <1>6, <1>7, SeqEqual
<1> QED
  BY <1>4, <1>8 DEF t, a, b, c

(* From the other end, the texts come backwards. *)
LEMMA TextsBackwards ==
  ASSUME NEW s \in Seq(Nodes), NEW field, \A i \in 1 .. Len(s) : field[s[i]] \in Msgs
  PROVE  TextsIn(Backwards(s), field) = Backwards(TextsIn(s, field))
<1> DEFINE t == Backwards(s)
           a == TextsIn(s, field)
           b == Backwards(a)
           c == TextsIn(t, field)
<1>1. /\ t \in Seq(Nodes) /\ Len(t) = Len(s) /\ Len(s) \in Nat
      /\ \A i \in 1 .. Len(s) : t[i] = s[Len(s) - i + 1]
  BY BackwardsType, LenProperties
<1>2. /\ a \in Seq(Msgs) /\ Len(a) = Len(s)
      /\ \A i \in 1 .. Len(s) : a[i] = field[s[i]]
  BY TextsInType
<1> HIDE DEF t, a
<1>3. /\ b \in Seq(Msgs) /\ Len(b) = Len(s)
      /\ \A i \in 1 .. Len(s) : b[i] = a[Len(s) - i + 1]
  BY <1>2, BackwardsType
<1>4. \A i \in 1 .. Len(s) : Len(s) - i + 1 \in 1 .. Len(s)
  BY <1>1
<1>5. \A i \in 1 .. Len(t) : field[t[i]] \in Msgs
  BY <1>1, <1>4
<1>6. /\ c \in Seq(Msgs) /\ Len(c) = Len(s)
      /\ \A i \in 1 .. Len(s) : c[i] = field[t[i]]
  BY <1>1, <1>5, TextsInType
<1> HIDE DEF b, c
<1>7. ASSUME NEW i \in 1 .. Len(s)
      PROVE  c[i] = b[i]
  <2>1. c[i] = field[t[i]] /\ t[i] = s[Len(s) - i + 1]
    BY <1>1, <1>6
  <2>2. b[i] = a[Len(s) - i + 1]
    BY <1>3
  <2>3. a[Len(s) - i + 1] = field[s[Len(s) - i + 1]]
    BY <1>2, <1>4
  <2> QED
    BY <2>1, <2>2, <2>3
<1>8. c = b
  BY <1>3, <1>6, <1>7, SeqEqual
<1> QED
  BY <1>8 DEF t, a, b, c

-----------------------------------------------------------------------------
(* What the list says in a state. *)

LEMMA ListedFacts ==
  ASSUME NEW s \in Seq(Nodes), Listed(s)
  PROVE  /\ Walk(Front, next) = s
         /\ Texts(s) = TextsIn(s, msg)
         /\ Texts(s) \in Seq(Msgs) /\ Len(Texts(s)) = Len(s)
         /\ Total(Texts(s)) \in Nat
<1>1. Walk(Front, next) = s
  BY WalkIsChain DEF Listed
<1>2. Texts(s) = TextsIn(s, msg)
  BY DEF Texts, TextsIn
<1>3. TextsIn(s, msg) \in Seq(Msgs) /\ Len(TextsIn(s, msg)) = Len(s)
  BY TextsInType DEF Listed
<1>4. Total(TextsIn(s, msg)) \in Nat
  BY <1>3, TotalType
<1> QED
  BY <1>1, <1>2, <1>3, <1>4

(* At the start there is no node. *)
LEMMA InitListed ==
  ASSUME Init
  PROVE  TypeOK /\ Listed(<<>>)
<1>1. /\ <<>> \in Seq(Nodes) /\ Len(<<>>) = 0
      /\ <<>> \in Seq(Msgs)
  BY EmptySeq
<1>2. ~Evicting /\ Front = NULL
  BY DEF Init, Evicting, Front
<1>3. Chain(<<>>, NULL, next)
  <2>1. DOMAIN next = Nodes
    BY DEF Init
  <2> QED
    BY <1>1, <2>1 DEF Chain
<1>4. Texts(<<>>) = <<>>
  <2>1. DOMAIN (<<>>) = {}
    OBVIOUS
  <2>2. Texts(<<>>) \in Seq(Msgs) /\ Len(Texts(<<>>)) = 0
    BY <2>1, <1>1 DEF Texts
  <2> QED
    BY <2>2, EmptySeq
<1>5. Total(Texts(<<>>)) = 0
  BY <1>4, TotalAppend, Zenon
<1>6. TypeOK
  BY DEF Init, TypeOK, Idle
<1>7. Listed(<<>>)
  BY <1>1, <1>2, <1>3, <1>5, AnyMessageFits DEF Init, Idle, Listed
<1> QED
  BY <1>6, <1>7

-----------------------------------------------------------------------------
(* A message comes in. *)

(* The node n with m is behind those of s in the next state. *)
Put(s, m, n) ==
  LET t == Append(s, n)
  IN  /\ Chain(t, scrlog'.head, next')
      /\ allocated' = {t[i] : i \in 1 .. Len(t)}
      /\ \A i \in 1 .. Len(t) : /\ msg'[t[i]] \in Msgs
                                /\ prev'[t[i]] = IF i = 1 THEN NULL ELSE t[i - 1]
      /\ scrlog'.tail = t[Len(t)]
      /\ scrlog'.n_msgs = Len(t)
      /\ scrlog'.size = Total(TextsIn(t, msg'))
      /\ TextsIn(t, msg') = Append(TextsIn(s, msg), m)

(* What a new node n with the message m leaves of the nodes s: the nodes t. *)
NodePuts(s, m, n, t) ==
  /\ ~Evicting /\ Idle = evict
  /\ \A i \in 1 .. Len(s) : s[i] # n
  /\ allocated' = {t[i] : i \in 1 .. Len(t)}
  /\ \A i \in 1 .. Len(t) : /\ msg'[t[i]] \in Msgs
                            /\ prev'[t[i]] = IF i = 1 THEN NULL ELSE t[i - 1]
  /\ TextsIn(t, msg') = Append(TextsIn(s, msg), m)
  /\ Total(TextsIn(t, msg')) = Total(TextsIn(s, msg)) + MsgBytes[m]

(* What both cases of a push have in common. *)
LEMMA NewNodePuts ==
  ASSUME TypeOK, NEW s \in Seq(Nodes), Listed(s), NEW m \in Msgs, NEW n \in Nodes,
         NEW before, before = (IF s = <<>> THEN NULL ELSE s[Len(s)]),
         NewNode(n, m, before)
  PROVE  NodePuts(s, m, n, Append(s, n))
<1> DEFINE t == Append(s, n)
<1>1. /\ Len(s) \in Nat /\ (s = <<>> <=> Len(s) = 0)
      /\ \A i \in 1 .. Len(s) : s[i] \in Nodes
  BY ListFacts
<1>2. /\ t \in Seq(Nodes) /\ Len(t) = Len(s) + 1
      /\ \A i \in 1 .. Len(s) : t[i] = s[i]
      /\ t[Len(s) + 1] = n
  BY AppendProperties
<1> HIDE DEF t
<1>3. ~Evicting /\ Idle = evict
  BY DEF NewNode, Evicting
<1>4. \A i \in 1 .. Len(s) : s[i] # n
  BY DEF NewNode, Listed
<1>5. allocated' = {t[i] : i \in 1 .. Len(t)}
  <2>1. allocated' = {s[i] : i \in 1 .. Len(s)} \cup {n}
    BY DEF NewNode, Listed
  <2>2. \A i \in 1 .. Len(t) : i \in 1 .. Len(s) \/ i = Len(s) + 1
    BY <1>1, <1>2
  <2>3. \A i \in 1 .. Len(s) : i \in 1 .. Len(t)
    BY <1>1, <1>2
  <2>4. Len(s) + 1 \in 1 .. Len(t)
    BY <1>1, <1>2
  <2> QED
    BY <1>2, <2>1, <2>2, <2>3, <2>4
<1>6. /\ msg'[n] = m /\ \A i \in 1 .. Len(s) : msg'[s[i]] = msg[s[i]]
      /\ prev'[n] = IF s = <<>> THEN NULL ELSE s[Len(s)]
      /\ \A i \in 1 .. Len(s) : prev'[s[i]] = prev[s[i]]
  BY <1>1, <1>4 DEF NewNode, TypeOK
<1>7. ASSUME NEW i \in 1 .. Len(t)
      PROVE  /\ msg'[t[i]] \in Msgs
             /\ prev'[t[i]] = IF i = 1 THEN NULL ELSE t[i - 1]
  <2>1. CASE i \in 1 .. Len(s)
    <3>1. /\ t[i] = s[i] /\ msg[s[i]] \in Msgs
          /\ prev[s[i]] = IF i = 1 THEN NULL ELSE s[i - 1]
      BY <1>2, <2>1 DEF Listed
    <3>2. i # 1 => i - 1 \in 1 .. Len(s)
      BY <1>1, <2>1
    <3> QED
      BY <1>2, <1>6, <2>1, <3>1, <3>2
  <2>2. CASE i = Len(s) + 1
    <3>1. t[i] = n /\ i - 1 = Len(s) /\ (i = 1 <=> s = <<>>)
      BY <1>1, <1>2, <2>2
    <3>2. i # 1 => t[i - 1] = s[Len(s)]
      BY <1>1, <1>2, <2>2
    <3> QED
      BY <1>6, <3>1, <3>2
  <2> QED
    BY <1>1, <1>2, <2>1, <2>2
<1>8. TextsIn(t, msg') = Append(TextsIn(s, msg), m)
  <2>1. \A i \in 1 .. Len(s) : msg[s[i]] \in Msgs /\ msg'[s[i]] = msg[s[i]]
    BY <1>6 DEF Listed
  <2>2. msg'[n] \in Msgs
    BY <1>6
  <2>3. IsAppend(t, s, n)
    BY DEF IsAppend, t
  <2>4. IsAppend(TextsIn(t, msg'), TextsIn(s, msg), msg'[n])
    BY <2>1, <2>2, <2>3, TextsAppend
  <2> QED
    BY <1>6, <2>4, Zenon DEF IsAppend
<1>9. Total(TextsIn(t, msg')) = Total(TextsIn(s, msg)) + MsgBytes[m]
  <2>1. TextsIn(s, msg) \in Seq(Msgs)
    BY TextsInType DEF Listed
  <2> QED
    BY <1>8, <2>1, TotalAppend
<1>10. NodePuts(s, m, n, t)
  BY <1>3, <1>4, <1>5, <1>7, <1>8, <1>9 DEF NodePuts
<1> QED
  BY <1>10 DEF t

(* The first message of an empty log. *)
LEMMA PushFirstPuts ==
  ASSUME TypeOK, NEW s \in Seq(Nodes), Listed(s), NEW m \in Msgs, PushFirst(m)
  PROVE  \E n \in Nodes : Put(s, m, n) /\ scrlog'.size <= MaxBytes
<1>1. PICK n \in Nodes :
        /\ NewNode(n, m, NULL)
        /\ next' = [next EXCEPT ![n] = NULL]
        /\ scrlog' = [head |-> n, tail |-> n, n_msgs |-> 1, size |-> MsgBytes[m]]
  BY DEF PushFirst
<1>2. s = <<>> /\ Len(s) = 0
  <2>1. /\ Len(s) \in Nat /\ (s = <<>> <=> Len(s) = 0)
        /\ \A i \in 1 .. Len(s) : s[i] # NULL
    BY ListFacts
  <2>2. scrlog.tail = NULL
    BY DEF PushFirst
  <2>3. s # <<>> => Len(s) \in 1 .. Len(s) /\ scrlog.tail = s[Len(s)]
    BY <2>1 DEF Listed
  <2> QED
    BY <2>1, <2>2, <2>3
<1> DEFINE t == Append(s, n)
<1>3. t \in Seq(Nodes) /\ t # <<>> /\ Len(t) = 1 /\ t[1] = n
  BY <1>2, AppendProperties
<1>4. /\ allocated' = {t[i] : i \in 1 .. Len(t)}
      /\ \A i \in 1 .. Len(t) : /\ msg'[t[i]] \in Msgs
                                /\ prev'[t[i]] = IF i = 1 THEN NULL ELSE t[i - 1]
      /\ TextsIn(t, msg') = Append(TextsIn(s, msg), m)
      /\ Total(TextsIn(t, msg')) = Total(TextsIn(s, msg)) + MsgBytes[m]
  <2>1. NULL = IF s = <<>> THEN NULL ELSE s[Len(s)]
    BY <1>2
  <2>2. NodePuts(s, m, n, t)
    BY <1>1, <2>1, NewNodePuts
  <2> QED
    BY <2>2, Zenon DEF NodePuts
<1> HIDE DEF t
<1>5. Chain(t, n, next')
  <2>1. next'[n] = NULL /\ DOMAIN next' = Nodes
    BY <1>1 DEF TypeOK
  <2> QED
    BY <1>3, <2>1 DEF Chain
<1>6. MsgBytes[m] = Total(TextsIn(t, msg'))
  <2>1. TextsIn(s, msg) \in Seq(Msgs) /\ Len(TextsIn(s, msg)) = 0
    BY <1>2, ListedFacts
  <2>2. Total(TextsIn(s, msg)) = 0
    BY <2>1, EmptySeq, TotalAppend
  <2> QED
    BY <1>4, <2>2, AnyMessageFits
<1>7. /\ scrlog'.head = n /\ scrlog'.tail = t[Len(t)] /\ scrlog'.n_msgs = Len(t)
      /\ scrlog'.size = Total(TextsIn(t, msg')) /\ scrlog'.size <= MaxBytes
  BY <1>1, <1>3, <1>6, AnyMessageFits
<1>8. Put(s, m, n)
  BY <1>4, <1>5, <1>7 DEF Put, t
<1> QED
  BY <1>7, <1>8

(* Any other message: its node goes behind the tail. *)
LEMMA LinkPuts ==
  ASSUME TypeOK, NEW s \in Seq(Nodes), Listed(s), NEW m \in Msgs, Link(m)
  PROVE  /\ s # <<>> /\ Evicting = FALSE
         /\ scrlog'.head = scrlog.head /\ scrlog'.size = Grown(m)
         /\ \E n \in Nodes : Put(s, m, n)
<1>1. PICK n \in Nodes :
        /\ NewNode(n, m, scrlog.tail)
        /\ next' = [next EXCEPT ![n] = NULL, ![scrlog.tail] = n]
        /\ scrlog' = [head |-> scrlog.head, tail |-> n,
                      n_msgs |-> scrlog.n_msgs + 1, size |-> Grown(m)]
  BY DEF Link
<1>2. s # <<>> /\ scrlog.tail = s[Len(s)]
  BY DEF Link, Listed
<1> DEFINE t == Append(s, n)
<1>3. /\ t \in Seq(Nodes) /\ t # <<>> /\ Len(t) = Len(s) + 1
      /\ t[Len(t)] = n
  BY AppendProperties
<1>4. /\ ~Evicting /\ Idle = evict
      /\ \A i \in 1 .. Len(s) : s[i] # n
      /\ allocated' = {t[i] : i \in 1 .. Len(t)}
      /\ \A i \in 1 .. Len(t) : /\ msg'[t[i]] \in Msgs
                                /\ prev'[t[i]] = IF i = 1 THEN NULL ELSE t[i - 1]
      /\ TextsIn(t, msg') = Append(TextsIn(s, msg), m)
      /\ Total(TextsIn(t, msg')) = Total(TextsIn(s, msg)) + MsgBytes[m]
  <2>1. scrlog.tail = IF s = <<>> THEN NULL ELSE s[Len(s)]
    BY <1>2
  <2>2. NodePuts(s, m, n, t)
    BY <1>1, <2>1, NewNodePuts
  <2> QED
    BY <2>2, Zenon DEF NodePuts
<1>5. Chain(t, scrlog.head, next')
  <2>1. Chain(s, scrlog.head, next)
    BY <1>4 DEF Listed, Front
  <2>2. next \in [Nodes -> Nodes \cup {NULL}]
    BY DEF TypeOK
  <2> QED
    BY <1>1, <1>2, <1>4, <2>1, <2>2, ChainAppend
<1> HIDE DEF t
<1>6. evict.freed = 0 /\ evict.nodes = 0
  BY <1>4 DEF Idle
<1>7. Grown(m) = Total(TextsIn(t, msg'))
  <2>1. Total(TextsIn(s, msg)) \in Nat /\ scrlog.size = 0 + Total(TextsIn(s, msg))
    BY <1>6, ListedFacts DEF Listed
  <2> QED
    BY <1>4, <2>1 DEF Grown
<1>8. scrlog.n_msgs + 1 = Len(t)
  <2>1. scrlog.n_msgs = 0 + Len(s) /\ Len(s) \in Nat
    BY <1>6, ListFacts DEF Listed
  <2> QED
    BY <1>3, <2>1
<1>9. /\ scrlog'.head = scrlog.head /\ scrlog'.tail = t[Len(t)]
      /\ scrlog'.n_msgs = Len(t) /\ scrlog'.size = Grown(m)
  BY <1>1, <1>3, <1>8
<1>10. Put(s, m, n)
  BY <1>4, <1>5, <1>7, <1>9 DEF Put, t
<1> QED
  BY <1>2, <1>4, <1>9, <1>10

LEMMA PushTypes ==
  ASSUME TypeOK, NEW m \in Msgs, Push(m)
  PROVE  TypeOK'
<1>1. MsgBytes[m] \in Nat /\ MaxBytes \in Nat
  BY AnyMessageFits
<1>2. ASSUME NEW n \in Nodes, NEW before \in Nodes \cup {NULL}, NewNode(n, m, before)
      PROVE  /\ allocated' \subseteq Nodes
             /\ msg' \in [Nodes -> Msgs \cup {NULL}]
             /\ prev' \in [Nodes -> Nodes \cup {NULL}]
  BY <1>2 DEF NewNode, TypeOK
<1>3. CASE PushFirst(m)
  BY <1>1, <1>2, <1>3 DEF PushFirst, TypeOK
<1>4. ASSUME Link(m)
      PROVE  /\ allocated' \subseteq Nodes
             /\ msg' \in [Nodes -> Msgs \cup {NULL}]
             /\ prev' \in [Nodes -> Nodes \cup {NULL}]
             /\ next' \in [Nodes -> Nodes \cup {NULL}]
             /\ scrlog' \in [head : Nodes \cup {NULL}, tail : Nodes \cup {NULL},
                             n_msgs : Nat, size : Nat]
  <2>1. PICK n \in Nodes :
          /\ NewNode(n, m, scrlog.tail)
          /\ next' = [next EXCEPT ![n] = NULL, ![scrlog.tail] = n]
          /\ scrlog' = [head |-> scrlog.head, tail |-> n,
                        n_msgs |-> scrlog.n_msgs + 1, size |-> Grown(m)]
    BY <1>4 DEF Link
  <2>2. Grown(m) \in Nat /\ scrlog.n_msgs + 1 \in Nat
    BY <1>1 DEF Grown, TypeOK
  <2>3. scrlog.tail \in Nodes \cup {NULL}
    BY DEF TypeOK
  <2>4. next' \in [Nodes -> Nodes \cup {NULL}]
    BY <2>1 DEF TypeOK
  <2>5. scrlog' \in [head : Nodes \cup {NULL}, tail : Nodes \cup {NULL},
                     n_msgs : Nat, size : Nat]
    BY <2>1, <2>2 DEF TypeOK
  <2> QED
    BY <1>2, <2>1, <2>3, <2>4, <2>5
<1>5. CASE PushBehind(m)
  BY <1>4, <1>5 DEF PushBehind, TypeOK
<1>6. CASE PushOver(m)
  <2>1. Link(m) /\ evict' = [curr |-> scrlog.head, freed |-> 0, nodes |-> 0,
                             free |-> Grown(m) - MaxBytes]
    BY <1>6 DEF PushOver
  <2>2. Grown(m) - MaxBytes \in Nat
    BY <1>1, <1>6 DEF PushOver, Grown, TypeOK
  <2>3. scrlog.head \in Nodes \cup {NULL}
    BY DEF TypeOK
  <2>4. evict' \in [curr : Nodes \cup {NULL}, freed : Nat, nodes : Nat, free : Nat]
    BY <2>1, <2>2, <2>3
  <2> QED
    BY <1>4, <2>1, <2>4 DEF TypeOK
<1> QED
  BY <1>3, <1>5, <1>6 DEF Push

(* A push puts its message behind the others, and begins to evict when it  *)
(* was too much.                                                            *)
LEMMA PushLists ==
  ASSUME TypeOK, NEW s \in Seq(Nodes), Listed(s), NEW m \in Msgs, Push(m)
  PROVE  /\ ~Evicting
         /\ \E t \in Seq(Nodes) : Listed(t)' /\ IsAppend(Texts(t)', Texts(s), m)
<1>1. Texts(s) = TextsIn(s, msg) /\ Texts(s) \in Seq(Msgs)
  BY ListedFacts
<1>2. ASSUME NEW n \in Nodes, Put(s, m, n),
             \/ evict' = Idle /\ scrlog'.size <= MaxBytes
             \/ evict' = [curr |-> scrlog'.head, freed |-> 0, nodes |-> 0,
                          free |-> scrlog'.size - MaxBytes]
                /\ scrlog'.size > MaxBytes
      PROVE  \E t \in Seq(Nodes) : Listed(t)' /\ IsAppend(Texts(t)', Texts(s), m)
  <2> DEFINE t == Append(s, n)
  <2>1. /\ Chain(t, scrlog'.head, next')
        /\ allocated' = {t[i] : i \in 1 .. Len(t)}
        /\ \A i \in 1 .. Len(t) : /\ msg'[t[i]] \in Msgs
                                  /\ prev'[t[i]] = IF i = 1 THEN NULL ELSE t[i - 1]
        /\ scrlog'.tail = t[Len(t)]
        /\ scrlog'.n_msgs = Len(t)
        /\ scrlog'.size = Total(TextsIn(t, msg'))
        /\ TextsIn(t, msg') = Append(TextsIn(s, msg), m)
    BY <1>2 DEF Put
  <2>2. t \in Seq(Nodes) /\ t # <<>> /\ Len(t) \in Nat
    BY AppendProperties, LenProperties
  <2> HIDE DEF t
  <2>3. Texts(t)' = TextsIn(t, msg')
    BY DEF Texts, TextsIn
  <2>4. TextsIn(t, msg') \in Seq(Msgs) /\ Total(TextsIn(t, msg')) \in Nat
    BY <2>1, <2>2, TextsInType, TotalType
  <2>5. ASSUME evict' = Idle, scrlog'.size <= MaxBytes
        PROVE  Listed(t)'
    <3>1. ~Evicting' /\ Front' = scrlog'.head /\ evict'.nodes = 0 /\ evict'.freed = 0
      BY <2>5 DEF Evicting, Front, Idle
    <3>2. scrlog'.size = evict'.freed + Total(Texts(t)')
      BY <2>1, <2>3, <2>4, <3>1
    <3>3. scrlog'.n_msgs = evict'.nodes + Len(t)
      BY <2>1, <2>2, <3>1
    <3> QED
      BY <2>1, <2>2, <2>5, <3>1, <3>2, <3>3 DEF Listed
  <2>6. ASSUME evict' = [curr |-> scrlog'.head, freed |-> 0, nodes |-> 0,
                         free |-> scrlog'.size - MaxBytes],
               scrlog'.size > MaxBytes
        PROVE  Listed(t)'
    <3>1. scrlog'.size - MaxBytes > 0
      BY <2>1, <2>4, <2>6, AnyMessageFits
    <3>2. Evicting' /\ Front' = scrlog'.head /\ evict'.nodes = 0 /\ evict'.freed = 0
      BY <2>6, <3>1 DEF Evicting, Front, Idle
    <3>3. scrlog'.size = evict'.freed + Total(Texts(t)')
      BY <2>1, <2>3, <2>4, <3>2
    <3>4. scrlog'.n_msgs = evict'.nodes + Len(t)
      BY <2>1, <2>2, <3>2
    <3>5. evict'.free = scrlog'.size - MaxBytes /\ evict'.curr = scrlog'.head
      BY <2>6
    <3> QED
      BY <2>1, <2>2, <3>1, <3>2, <3>3, <3>4, <3>5 DEF Listed
  <2>7. Listed(t)'
    BY <1>2, <2>5, <2>6
  <2>8. IsAppend(Texts(t)', Texts(s), m)
    BY <1>1, <2>1, <2>3, Zenon DEF IsAppend
  <2> QED
    BY <2>2, <2>7, <2>8
<1>3. CASE PushFirst(m)
  <2>1. PICK n \in Nodes : Put(s, m, n) /\ scrlog'.size <= MaxBytes
    BY <1>3, PushFirstPuts
  <2>2. ~Evicting /\ evict' = Idle
    BY <1>3 DEF PushFirst, NewNode, Evicting
  <2> QED
    BY <1>2, <2>1, <2>2
<1>4. CASE PushBehind(m)
  <2>1. /\ Evicting = FALSE /\ scrlog'.size = Grown(m)
        /\ \E n \in Nodes : Put(s, m, n)
    BY <1>4, LinkPuts DEF PushBehind
  <2>2. evict' = Idle /\ scrlog'.size <= MaxBytes
    BY <1>4, <2>1 DEF PushBehind, Evicting
  <2> QED
    BY <1>2, <2>1, <2>2
<1>5. CASE PushOver(m)
  <2>1. /\ Evicting = FALSE /\ scrlog'.size = Grown(m) /\ scrlog'.head = scrlog.head
        /\ \E n \in Nodes : Put(s, m, n)
    BY <1>5, LinkPuts DEF PushOver
  <2>2. /\ evict' = [curr |-> scrlog'.head, freed |-> 0, nodes |-> 0,
                     free |-> scrlog'.size - MaxBytes]
        /\ scrlog'.size > MaxBytes
    BY <1>5, <2>1 DEF PushOver
  <2> QED
    BY <1>2, <2>1, <2>2
<1> QED
  BY <1>3, <1>4, <1>5 DEF Push

-----------------------------------------------------------------------------
(* A message goes. *)

(* While too little is free there are at least two messages left, and the    *)
(* first of them leaves the list of the others.                              *)
LEMMA EvictOneLists ==
  ASSUME TypeOK, NEW s \in Seq(Nodes), Listed(s), EvictOne
  PROVE  /\ TypeOK' /\ Listed(Tail(s))' /\ Evicting' /\ Evicting
         /\ Newest(Texts(Tail(s))') = Newest(Texts(s))
<1> DEFINE t == Tail(s)
           n == evict.curr
           freed == MsgBytes[msg[n]]
<1>1. /\ Evicting /\ evict.freed < evict.free
      /\ allocated' = allocated \ {n}
      /\ msg' = [msg EXCEPT ![n] = NULL]
      /\ next' = [next EXCEPT ![n] = NULL]
      /\ prev' = [x \in Nodes |-> IF x \in {n, next[n]} THEN NULL ELSE prev[x]]
      /\ evict' = [evict EXCEPT !.curr = next[n], !.nodes = @ + 1, !.freed = @ + freed]
      /\ scrlog' = scrlog
  BY DEF EvictOne, Free
<1>2. /\ Chain(s, n, next) /\ s # <<>>
      /\ evict.free = scrlog.size - MaxBytes /\ evict.free > 0
      /\ scrlog.size = evict.freed + Total(Texts(s))
      /\ scrlog.n_msgs = evict.nodes + Len(s)
  BY <1>1 DEF Listed, Front
<1>3. /\ Len(s) \in Nat /\ Len(s) > 0 /\ n = s[1]
      /\ \A i \in 1 .. Len(s) : s[i] \in Nodes /\ s[i] # NULL
      /\ n \in Nodes /\ msg[n] \in Msgs /\ freed \in Nat /\ freed <= MaxBytes
  <2>1. /\ Len(s) \in Nat /\ Len(s) > 0 /\ n = s[1]
        /\ \A i \in 1 .. Len(s) : s[i] \in Nodes /\ s[i] # NULL
    BY <1>2, ListFacts DEF Chain
  <2>2. 1 \in 1 .. Len(s)
    BY <2>1
  <2>3. n \in Nodes /\ msg[n] \in Msgs
    BY <2>1, <2>2 DEF Listed
  <2> QED
    BY <2>1, <2>3, AnyMessageFits
<1>4. /\ t \in Seq(Nodes) /\ Len(t) = Len(s) - 1
      /\ \A i \in 1 .. Len(t) : t[i] = s[i + 1]
  BY <1>2, HeadTailProperties
<1>5. Texts(s) = TextsIn(s, msg) /\ Total(Texts(s)) \in Nat
  BY ListedFacts
<1>6. \A i, j \in 1 .. Len(s) : s[i] = s[j] => i = j
  BY <1>2 DEF Chain
<1>7. Chain(t, next[n], next')
  <2>1. next \in [Nodes -> Nodes \cup {NULL}]
    BY DEF TypeOK
  <2> QED
    BY <1>1, <1>2, <2>1, ChainRest
<1>8. /\ TextsIn(t, msg') \in Seq(Msgs)
      /\ TextsIn(s, msg) = <<msg[n]>> \o TextsIn(t, msg')
  <2>1. \A i \in 1 .. Len(s) : msg[s[i]] \in Msgs
    BY DEF Listed
  <2>2. ASSUME NEW i \in 2 .. Len(s)
        PROVE  msg'[s[i]] = msg[s[i]]
    <3>1. i \in 1 .. Len(s) /\ 1 \in 1 .. Len(s) /\ i # 1
      BY <1>3
    <3>2. s[i] # n
      BY <1>3, <1>6, <3>1
    <3> QED
      BY <1>1, <1>3, <3>1, <3>2 DEF TypeOK
  <2> HIDE DEF n
  <2> QED
    BY <1>2, <1>3, <2>1, <2>2, TextsRest
<1>9. Texts(t)' = TextsIn(t, msg')
  BY DEF Texts, TextsIn
<1>10. Total(Texts(s)) = freed + Total(Texts(t)') /\ Total(Texts(t)') \in Nat
  <2>1. Total(<<msg[n]>> \o TextsIn(t, msg')) = MsgBytes[msg[n]] + Total(TextsIn(t, msg'))
    BY <1>3, <1>8, TotalPrepend
  <2>2. Total(Texts(s)) = Total(<<msg[n]>> \o TextsIn(t, msg'))
    BY <1>5, <1>8, Zenon
  <2>3. Total(TextsIn(t, msg')) \in Nat
    BY <1>8, TotalType
  <2> QED
    BY <1>9, <2>1, <2>2, <2>3
<1>11. Total(Texts(s)) > MaxBytes
  BY <1>1, <1>2, <1>5, AnyMessageFits DEF TypeOK
<1>12. t # <<>>
  <2>1. Total(Texts(t)') > 0
    BY <1>3, <1>10, <1>11, AnyMessageFits
  <2>2. Len(TextsIn(t, msg')) = Len(t)
    BY <1>4, LenProperties DEF TextsIn
  <2>3. CASE t = <<>>
    <3>1. Len(TextsIn(t, msg')) = 0
      BY <2>2, <2>3, EmptySeq
    <3>2. TextsIn(t, msg') = <<>>
      BY <1>8, <3>1, EmptySeq
    <3>3. Total(Texts(t)') = 0
      BY <1>9, <3>2, TotalAppend, Zenon
    <3> QED
      BY <2>1, <3>3
  <2> QED
    BY <2>3
<1>13. Newest(Texts(t)') = Newest(Texts(s))
  <2>1. Total(<<msg[n]>> \o TextsIn(t, msg')) > MaxBytes
    BY <1>5, <1>8, <1>11
  <2>2. Newest(<<msg[n]>> \o TextsIn(t, msg')) = Newest(TextsIn(t, msg'))
    BY <1>3, <1>8, <2>1, NewestWithoutOldest
  <2> QED
    BY <1>5, <1>8, <1>9, <2>2, Zenon
<1>14. /\ evict'.curr = next[n] /\ evict'.nodes = evict.nodes + 1
       /\ evict'.freed = evict.freed + freed /\ evict'.free = evict.free
  BY <1>1 DEF TypeOK
<1>15. Evicting' /\ Front' = next[n]
  BY <1>2, <1>14 DEF Evicting, Front, Idle
<1>16. allocated' = {t[i] : i \in 1 .. Len(t)}
  <2>1. allocated' = {s[i] : i \in 1 .. Len(s)} \ {s[1]}
    BY <1>1, <1>3 DEF Listed
  <2>2. ASSUME NEW i \in 1 .. Len(t)
        PROVE  t[i] \in allocated'
    <3>1. i + 1 \in 1 .. Len(s) /\ 1 \in 1 .. Len(s) /\ i + 1 # 1
      BY <1>3, <1>4
    <3>2. s[i + 1] # s[1]
      BY <1>6, <3>1
    <3> QED
      BY <1>4, <2>1, <3>1, <3>2
  <2>3. ASSUME NEW x \in allocated'
        PROVE  \E i \in 1 .. Len(t) : x = t[i]
    <3>1. PICK i \in 1 .. Len(s) : x = s[i] /\ x # s[1]
      BY <2>1
    <3>2. i - 1 \in 1 .. Len(t) /\ (i - 1) + 1 = i
      BY <1>3, <1>4, <3>1
    <3>3. x = t[i - 1]
      BY <1>4, <3>1, <3>2
    <3> QED
      BY <3>2, <3>3
  <2> QED
    BY <2>2, <2>3
<1>17. ASSUME NEW i \in 1 .. Len(t)
       PROVE  /\ msg'[t[i]] \in Msgs
              /\ prev'[t[i]] = IF i = 1 THEN NULL ELSE t[i - 1]
  <2>1. /\ i + 1 \in 1 .. Len(s) /\ 1 \in 1 .. Len(s) /\ i + 1 # 1
        /\ t[i] = s[i + 1] /\ (i + 1) - 1 = i /\ i \in 1 .. Len(s)
    BY <1>3, <1>4
  <2>2. s[i + 1] # n /\ s[i + 1] \in Nodes
    BY <1>3, <1>6, <2>1
  <2>3. msg[s[i + 1]] \in Msgs /\ prev[s[i + 1]] = IF i + 1 = 1 THEN NULL ELSE s[(i + 1) - 1]
    BY <2>1 DEF Listed
  <2>4. msg'[t[i]] \in Msgs
    BY <1>1, <2>1, <2>2, <2>3 DEF TypeOK
  <2>5. next[n] = t[1] /\ t[i] \in Nodes /\ t[i] # n
    BY <1>7, <1>12, <2>1, <2>2 DEF Chain
  <2> HIDE DEF t, n
  <2>6. ASSUME i = 1
        PROVE  prev'[t[i]] = NULL
    BY <1>1, <2>5, <2>6
  <2>7. ASSUME i # 1
        PROVE  prev'[t[i]] = t[i - 1]
    <3>1. i - 1 \in 1 .. Len(t) /\ 1 \in 1 .. Len(t) /\ (i - 1) + 1 = i
      BY <1>3, <1>4, <2>7
    <3>2. t[i] # t[1]
      BY <1>7, <2>7, <3>1 DEF Chain
    <3>3. t[i - 1] = s[i]
      BY <1>4, <3>1
    <3>4. prev'[t[i]] = prev[s[i + 1]]
      BY <1>1, <2>1, <2>5, <3>2
    <3>5. prev[s[i + 1]] = s[i]
      BY <2>1, <2>3
    <3> QED
      BY <3>3, <3>4, <3>5
  <2> QED
    BY <2>4, <2>6, <2>7
<1>18. scrlog'.tail = IF t = <<>> THEN NULL ELSE t[Len(t)]
  <2>1. Len(t) \in 1 .. Len(t) /\ Len(t) + 1 = Len(s)
    BY <1>3, <1>4, <1>12, ListFacts
  <2>2. t[Len(t)] = s[Len(s)]
    BY <1>4, <2>1
  <2> QED
    BY <1>1, <1>2, <1>12, <2>2 DEF Listed
<1>19. scrlog'.n_msgs = evict'.nodes + Len(t)
  BY <1>1, <1>2, <1>3, <1>4, <1>14 DEF TypeOK
<1>20. scrlog'.size = evict'.freed + Total(Texts(t)')
  BY <1>1, <1>2, <1>3, <1>10, <1>14 DEF TypeOK
<1>21. /\ evict'.free = scrlog'.size - MaxBytes /\ evict'.free > 0
       /\ evict'.nodes # 0
  BY <1>1, <1>2, <1>14 DEF TypeOK
<1>22. Listed(t)'
  <2> HIDE DEF t, n
  <2> QED
    BY <1>7, <1>12, <1>15, <1>16, <1>17, <1>18, <1>19, <1>20, <1>21 DEF Listed
<1>23. TypeOK'
  <2>1. next[n] \in Nodes \cup {NULL}
    BY <1>3 DEF TypeOK
  <2>2. evict' \in [curr : Nodes \cup {NULL}, freed : Nat, nodes : Nat, free : Nat]
    <3> HIDE DEF n, freed
    <3>1. evict' = [curr |-> next[n], freed |-> evict.freed + freed,
                    nodes |-> evict.nodes + 1, free |-> evict.free]
      BY <1>1 DEF TypeOK
    <3>2. evict.freed + freed \in Nat /\ evict.nodes + 1 \in Nat /\ evict.free \in Nat
      BY <1>3 DEF TypeOK
    <3> QED
      BY <2>1, <3>1, <3>2
  <2>3. prev' \in [Nodes -> Nodes \cup {NULL}]
    BY <1>1 DEF TypeOK
  <2>4. /\ allocated' \subseteq Nodes /\ msg' \in [Nodes -> Msgs \cup {NULL}]
        /\ next' \in [Nodes -> Nodes \cup {NULL}]
    BY <1>1 DEF TypeOK
  <2> QED
    BY <1>1, <2>2, <2>3, <2>4 DEF TypeOK
<1> QED
  BY <1>1, <1>13, <1>15, <1>22, <1>23

(* The end of an eviction sets the head and the counts to what is left. *)
LEMMA EvictEndLists ==
  ASSUME TypeOK, NEW s \in Seq(Nodes), Listed(s), EvictEnd
  PROVE  /\ TypeOK' /\ Listed(s)' /\ ~Evicting' /\ Evicting
         /\ Texts(s)' = Texts(s) /\ Newest(Texts(s)) = Texts(s)
<1>1. /\ Evicting /\ evict.freed >= evict.free
      /\ scrlog' = [head   |-> evict.curr,
                    tail   |-> IF evict.curr = NULL THEN NULL ELSE scrlog.tail,
                    n_msgs |-> scrlog.n_msgs - evict.nodes,
                    size   |-> scrlog.size - evict.freed]
      /\ evict' = Idle
      /\ allocated' = allocated /\ msg' = msg /\ prev' = prev /\ next' = next
  BY DEF EvictEnd
<1>2. /\ Chain(s, evict.curr, next) /\ s # <<>>
      /\ evict.free = scrlog.size - MaxBytes
      /\ scrlog.size = evict.freed + Total(Texts(s))
      /\ scrlog.n_msgs = evict.nodes + Len(s)
  BY <1>1 DEF Listed, Front
<1>3. Texts(s) \in Seq(Msgs) /\ Total(Texts(s)) \in Nat /\ Len(s) \in Nat
  BY ListedFacts, ListFacts
<1>4. Texts(s)' = Texts(s)
  BY <1>1 DEF Texts
<1>5. scrlog'.n_msgs = Len(s) /\ scrlog'.size = Total(Texts(s))
  BY <1>1, <1>2, <1>3 DEF TypeOK
<1>6. Total(Texts(s)) <= MaxBytes
  BY <1>1, <1>2, <1>3, AnyMessageFits DEF TypeOK
<1>7. Newest(Texts(s)) = Texts(s)
  BY <1>3, <1>6, NewestOfFitting
<1>8. evict.curr \in Nodes /\ evict.curr # NULL
  <2>1. Len(s) # 0 /\ evict.curr = s[1]
    BY <1>2, ListFacts DEF Chain
  <2>2. 1 \in 1 .. Len(s)
    BY <1>3, <2>1
  <2> QED
    BY <2>1, <2>2, ListFacts
<1>9. ~Evicting' /\ Front' = evict.curr /\ evict'.nodes = 0 /\ evict'.freed = 0
  BY <1>1 DEF Evicting, Front, Idle
<1>10. Listed(s)'
  <2>1. scrlog'.tail = IF s = <<>> THEN NULL ELSE s[Len(s)]
    BY <1>1, <1>8 DEF Listed
  <2>2. scrlog'.n_msgs = evict'.nodes + Len(s)
    BY <1>3, <1>5, <1>9
  <2>3. scrlog'.size = evict'.freed + Total(Texts(s)')
    BY <1>3, <1>4, <1>5, <1>9
  <2>4. scrlog'.size <= MaxBytes
    BY <1>5, <1>6
  <2>5. Chain(s, Front', next')
    BY <1>1, <1>2, <1>9
  <2>6. /\ allocated' = {s[i] : i \in 1 .. Len(s)}
        /\ \A i \in 1 .. Len(s) : /\ msg'[s[i]] \in Msgs
                                  /\ prev'[s[i]] = IF i = 1 THEN NULL ELSE s[i - 1]
    BY <1>1 DEF Listed
  <2> QED
    BY <1>9, <2>1, <2>2, <2>3, <2>4, <2>5, <2>6 DEF Listed
<1>11. TypeOK'
  <2>1. evict' \in [curr : Nodes \cup {NULL}, freed : Nat, nodes : Nat, free : Nat]
    BY <1>1 DEF Idle
  <2>2. scrlog' \in [head : Nodes \cup {NULL}, tail : Nodes \cup {NULL},
                     n_msgs : Nat, size : Nat]
    <3>1. scrlog.n_msgs - evict.nodes \in Nat /\ scrlog.size - evict.freed \in Nat
      BY <1>2, <1>3 DEF TypeOK
    <3>2. scrlog.tail \in Nodes \cup {NULL}
      BY DEF TypeOK
    <3> QED
      BY <1>1, <1>8, <3>1, <3>2
  <2> QED
    BY <1>1, <2>1, <2>2 DEF TypeOK
<1> QED
  BY <1>1, <1>4, <1>7, <1>9, <1>10, <1>11

-----------------------------------------------------------------------------
(* What is true in every state that the log reaches. *)

LEMMA Invariant == Spec => []IInv
<1>1. Init => IInv
  BY InitListed, EmptySeq DEF IInv
<1>2. IInv /\ [Next]_vars => IInv'
  <2> SUFFICES ASSUME IInv, [Next]_vars
               PROVE  IInv'
    OBVIOUS
  <2>1. PICK s \in Seq(Nodes) : Listed(s)
    BY DEF IInv
  <2>2. TypeOK
    BY DEF IInv
  <2>3. ASSUME NEW m \in Msgs, Push(m)
        PROVE  IInv'
    BY <2>1, <2>2, <2>3, PushLists, PushTypes DEF IInv
  <2>4. CASE EvictOne
    <3>1. s # <<>>
      BY <2>1, <2>4 DEF EvictOne, Listed
    <3>2. Tail(s) \in Seq(Nodes)
      BY <3>1, HeadTailProperties
    <3>3. TypeOK' /\ Listed(Tail(s))'
      BY <2>1, <2>2, <2>4, EvictOneLists
    <3> QED
      BY <3>2, <3>3 DEF IInv
  <2>5. CASE EvictEnd
    BY <2>1, <2>2, <2>5, EvictEndLists DEF IInv
  <2>6. CASE UNCHANGED vars
    <3>1. Listed(s)' /\ TypeOK'
      BY <2>1, <2>2, <2>6 DEF vars, Listed, TypeOK, Front, Evicting, Texts
    <3> QED
      BY <3>1 DEF IInv
  <2> QED
    BY <2>3, <2>4, <2>5, <2>6 DEF Next
<1> QED
  BY <1>1, <1>2, PTL DEF Spec

(* The fields of the nodes and of the log are of their types. *)
THEOREM TypeCorrect == Spec => []TypeOK
<1>1. IInv => TypeOK
  BY DEF IInv
<1> QED
  BY <1>1, Invariant, PTL

(* Walked along from either end, a list has as many messages and bytes as  *)
(* are counted.                                                             *)
LEMMA ListCounts ==
  ASSUME TypeOK, NEW s \in Seq(Nodes), Listed(s), evict.nodes = 0, evict.freed = 0,
         Front = scrlog.head
  PROVE  /\ CountsRight(scrlog.head, next, scrlog.tail)
         /\ CountsRight(scrlog.tail, prev, scrlog.head)
<1>1. /\ Len(s) \in Nat /\ DOMAIN s = 1 .. Len(s)
      /\ \A i \in 1 .. Len(s) : s[i] \in allocated
      /\ Chain(s, scrlog.head, next)
      /\ scrlog.tail = IF s = <<>> THEN NULL ELSE s[Len(s)]
      /\ \A i \in 1 .. Len(s) : prev[s[i]] = IF i = 1 THEN NULL ELSE s[i - 1]
  BY ListFacts DEF Listed
<1>2. /\ Walk(scrlog.head, next) = s
      /\ Texts(s) = TextsIn(s, msg) /\ Texts(s) \in Seq(Msgs)
      /\ Total(Texts(s)) \in Nat
  BY ListedFacts
<1>3. scrlog.n_msgs = Len(s) /\ scrlog.size = Total(Texts(s))
  BY <1>1, <1>2 DEF Listed
<1> DEFINE t == Backwards(s)
<1>4. /\ Chain(t, scrlog.tail, prev)
      /\ scrlog.head = IF t = <<>> THEN NULL ELSE t[Len(t)]
  <2>1. DOMAIN prev = Nodes
    BY DEF TypeOK
  <2> QED
    BY <1>1, <2>1, ChainBackwards
<1>5. Walk(scrlog.tail, prev) = t
  <2> HIDE DEF t
  <2> QED
    BY <1>4, WalkIsChain
<1>6. /\ t \in Seq(Nodes) /\ Len(t) = Len(s) /\ DOMAIN t = 1 .. Len(s)
      /\ \A i \in 1 .. Len(s) : t[i] \in allocated
  <2>1. /\ t \in Seq(Nodes) /\ Len(t) = Len(s)
        /\ \A i \in 1 .. Len(s) : t[i] = s[Len(s) - i + 1]
    BY BackwardsType
  <2>2. \A i \in 1 .. Len(s) : Len(s) - i + 1 \in 1 .. Len(s)
    BY <1>1
  <2> HIDE DEF t
  <2> QED
    BY <1>1, <2>1, <2>2, LenProperties
<1>7. Total(Texts(t)) = scrlog.size
  <2>1. Texts(t) = TextsIn(t, msg)
    BY DEF Texts, TextsIn
  <2>2. \A i \in 1 .. Len(s) : msg[s[i]] \in Msgs
    BY DEF Listed
  <2>3. TextsIn(t, msg) = Backwards(TextsIn(s, msg))
    BY <2>2, TextsBackwards
  <2>4. Total(Backwards(TextsIn(s, msg))) = Total(TextsIn(s, msg))
    BY <1>2, TotalBackwards
  <2>5. Total(Texts(t)) = Total(Texts(s))
    BY <1>2, <2>1, <2>3, <2>4, Zenon
  <2> QED
    BY <1>3, <2>5
<1> HIDE DEF t
<1>8. CountsRight(scrlog.head, next, scrlog.tail)
  BY <1>1, <1>2, <1>3 DEF CountsRight
<1>9. CountsRight(scrlog.tail, prev, scrlog.head)
  BY <1>3, <1>4, <1>5, <1>6, <1>7 DEF CountsRight
<1> QED
  BY <1>8, <1>9

(* No assertion of the log fails, whatever is pushed: the validation of the *)
(* list before and after each operation, and what the eviction takes for    *)
(* granted.                                                                  *)
THEOREM AssertsHold == Spec => []LogAsserts
<1>1. IInv => LogAsserts
  <2> SUFFICES ASSUME IInv
               PROVE  LogAsserts
    OBVIOUS
  <2>1. PICK s \in Seq(Nodes) : Listed(s)
    BY DEF IInv
  <2>2. CASE ~Evicting
    <3>1. evict.nodes = 0 /\ evict.freed = 0 /\ Front = scrlog.head
      BY <2>2 DEF Evicting, Idle, Front
    <3> QED
      BY <2>1, <2>2, <3>1, ListCounts DEF IInv, LogAsserts
  <2>3. CASE Evicting
    <3>1. /\ s # <<>> /\ evict.free = scrlog.size - MaxBytes /\ evict.free > 0
          /\ evict.nodes = 0 => evict.freed = 0 /\ Front = scrlog.head
      BY <2>1, <2>3 DEF Listed, Front
    <3>2. evict.nodes = 0 => /\ CountsRight(scrlog.head, next, scrlog.tail)
                             /\ CountsRight(scrlog.tail, prev, scrlog.head)
      BY <2>1, <3>1, ListCounts DEF IInv
    <3>3. evict.free <= scrlog.size
      BY <3>1, AnyMessageFits DEF IInv, TypeOK
    <3>4. evict.curr # NULL
      <4>1. Chain(s, evict.curr, next)
        BY <2>1, <2>3 DEF Listed, Front
      <4>2. 1 \in 1 .. Len(s) /\ evict.curr = s[1]
        BY <3>1, <4>1, ListFacts DEF Chain
      <4> QED
        BY <4>2, ListFacts
    <3> QED
      BY <2>3, <3>1, <3>2, <3>3, <3>4 DEF LogAsserts
  <2> QED
    BY <2>2, <2>3
<1> QED
  BY <1>1, Invariant, PTL

(* No node is lost and none is freed while the list leads to it. *)
THEOREM NoNodeLeaks == Spec => []NothingLeaks
<1>1. IInv => NothingLeaks
  <2> SUFFICES ASSUME IInv, ~Evicting
               PROVE  LET s == Walk(scrlog.head, next)
                      IN  /\ allocated = {s[i] : i \in DOMAIN s}
                          /\ \A i \in DOMAIN s :
                               prev[s[i]] = IF i = 1 THEN NULL ELSE s[i - 1]
    BY DEF NothingLeaks
  <2>1. PICK s \in Seq(Nodes) : Listed(s)
    BY DEF IInv
  <2>2. Walk(scrlog.head, next) = s
    BY <2>1, ListedFacts DEF Front
  <2>3. DOMAIN s = 1 .. Len(s)
    BY ListFacts
  <2> QED
    BY <2>1, <2>2, <2>3 DEF Listed
<1> QED
  BY <1>1, Invariant, PTL

-----------------------------------------------------------------------------
(* The log that the pointers stand for. *)

(* BoundedLog evicts by the same bound. *)
LEMMA SameBound == \A s : Bounded!Newest(s) = Newest(s)
<1> TAKE s
<1>1. \A t : Bounded!Total(t) = Total(t)
  BY Zenon DEF Bounded!Total, Total
<1>2. \A t, k : Bounded!From(t, k) = From(t, k)
  BY DEF Bounded!From, From
<1> DEFINE over == {k \in 1 .. Len(s) : Total(From(s, k)) > MaxBytes}
           same == {k \in 1 .. Len(s) : Bounded!Total(Bounded!From(s, k)) > MaxBytes}
<1>3. same = over
  BY <1>1, <1>2
<1>4. Newest(s) = From(s, 1 + Cardinality(over))
  BY DEF Newest
<1>5. \A S : Bounded!Cardinality(S) = Cardinality(S)
  BY Zenon DEF Bounded!Cardinality, Cardinality
<1>6. Bounded!Newest(s) = Bounded!From(s, 1 + Bounded!Cardinality(same))
  BY DEF Bounded!Newest
<1> HIDE DEF over, same
<1> QED
  BY <1>2, <1>3, <1>4, <1>5, <1>6

(* In every state the log is what stays of the list, also while the rest of  *)
(* it is being freed.                                                        *)
LEMMA LogIs ==
  ASSUME NEW s \in Seq(Nodes), Listed(s)
  PROVE  Log = Newest(Texts(s))
<1>1. Walk(Front, next) = s /\ Texts(s) \in Seq(Msgs) /\ Total(Texts(s)) \in Nat
  BY ListedFacts
<1>2. CASE Evicting
  BY <1>1, <1>2 DEF Log, Front
<1>3. CASE ~Evicting
  <2>1. Total(Texts(s)) <= MaxBytes
    BY <1>1, <1>3 DEF Listed, Evicting, Idle
  <2>2. Newest(Texts(s)) = Texts(s)
    BY <1>1, <2>1, NewestOfFitting
  <2> QED
    BY <1>1, <1>3, <2>2 DEF Log, Front
<1> QED
  BY <1>2, <1>3

(* The pointers, the counts and the eviction loop implement the bounded log: *)
(* it keeps the newest messages in order, all that fit and only those, and a *)
(* push is one step of it however many turns the eviction takes.             *)
THEOREM Refinement == Spec => ImplementsBoundedLog
<1>1. Init => Bounded!Init
  <2> SUFFICES ASSUME Init
               PROVE  Log = <<>>
    BY DEF Bounded!Init
  <2>1. Listed(<<>>) /\ <<>> \in Seq(Nodes)
    BY InitListed, EmptySeq
  <2>2. /\ Walk(Front, next) = <<>>
        /\ Texts(<<>>) \in Seq(Msgs) /\ Len(Texts(<<>>)) = 0
    BY <2>1, ListedFacts, EmptySeq
  <2>3. ~Evicting /\ Front = scrlog.head
    BY DEF Init, Evicting, Front
  <2>4. Log = Texts(<<>>)
    BY <2>2, <2>3 DEF Log
  <2> QED
    BY <2>2, <2>4, EmptySeq
<1>2. \A u \in Seq(Nodes) : Listed(u) => Log = Newest(Texts(u))
  BY LogIs
<1>3. (\A u \in Seq(Nodes) : Listed(u) => Log = Newest(Texts(u)))'
  BY <1>2, PTL
<1>4. IInv /\ [Next]_vars => [Bounded!Next]_Log
  <2> SUFFICES ASSUME IInv, [Next]_vars
               PROVE  [Bounded!Next]_Log
    OBVIOUS
  <2>1. PICK s \in Seq(Nodes) : Listed(s)
    BY DEF IInv
  <2>2. TypeOK
    BY DEF IInv
  <2>3. Log = Newest(Texts(s)) /\ (~Evicting => Log = Texts(s))
    <3>1. Walk(Front, next) = s
      BY <2>1, ListedFacts
    <3> QED
      BY <2>1, <3>1, LogIs DEF Log, Front
  <2>4. ASSUME NEW t \in Seq(Nodes), Listed(t)'
        PROVE  Log' = Newest(Texts(t)')
    BY <1>3, <2>4
  <2>5. ASSUME NEW m \in Msgs, Push(m)
        PROVE  Bounded!Push(m)
    <3>1. /\ ~Evicting
          /\ \E t \in Seq(Nodes) : Listed(t)' /\ IsAppend(Texts(t)', Texts(s), m)
      BY <2>1, <2>2, <2>5, PushLists
    <3>2. PICK t \in Seq(Nodes) : Listed(t)' /\ IsAppend(Texts(t)', Texts(s), m)
      BY <3>1
    <3>3. Log = Texts(s) /\ Log' = Newest(Texts(t)')
      BY <2>3, <2>4, <3>1, <3>2
    <3>4. Texts(t)' = Append(Log, m)
      BY <3>2, <3>3 DEF IsAppend
    <3>5. Log' = Bounded!Newest(Append(Log, m))
      BY <3>3, <3>4, SameBound, Zenon
    <3> QED
      BY <3>5 DEF Bounded!Push
  <2>6. CASE EvictOne
    <3>1. s # <<>>
      BY <2>1, <2>6 DEF EvictOne, Listed
    <3>2. Tail(s) \in Seq(Nodes)
      BY <3>1, HeadTailProperties
    <3>3. Listed(Tail(s))' /\ Newest(Texts(Tail(s))') = Newest(Texts(s))
      BY <2>1, <2>2, <2>6, EvictOneLists
    <3>4. Log' = Newest(Texts(Tail(s))')
      BY <2>4, <3>2, <3>3
    <3> QED
      BY <2>3, <3>3, <3>4
  <2>7. CASE EvictEnd
    <3>1. Listed(s)' /\ Texts(s)' = Texts(s)
      BY <2>1, <2>2, <2>7, EvictEndLists
    <3>2. Log' = Newest(Texts(s)')
      BY <2>4, <3>1
    <3> QED
      BY <2>3, <3>1, <3>2
  <2>8. CASE UNCHANGED vars
    <3>1. Log' = Log
      BY <2>8 DEF vars, Log, Evicting, Texts
    <3> QED
      BY <3>1
  <2> QED
    BY <2>5, <2>6, <2>7, <2>8 DEF Next, Bounded!Next
<1> QED
  BY <1>1, <1>4, Invariant, PTL DEF Spec, ImplementsBoundedLog, Bounded!Spec
=============================================================================
