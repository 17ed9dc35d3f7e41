----------------------------- MODULE Induction ------------------------------
(***************************************************************************)
(* Induction over the natural numbers as statements about sets, and the    *)
(* functions that recursion over them defines, a walk along a list's links *)
(* among them: what the proofs about loops and lists rest on.  Their basis *)
(* is the pigeonhole principle.                                            *)
(***************************************************************************)
EXTENDS Pointers, Sequences, FiniteSetTheorems, SequenceTheorems, TLAPS

(* A set with zero and every successor of its members has every number: were *)
(* n missing, taking one from each missing number up to n would map them     *)
(* into themselves without n, no two to the same.                            *)
LEMMA SetInduction ==
  ASSUME NEW S, 0 \in S, \A n \in Nat : n \in S => n + 1 \in S
  PROVE  Nat \subseteq S
<1> SUFFICES ASSUME NEW n \in Nat, n \notin S
             PROVE  FALSE
  OBVIOUS
<1> DEFINE missing == {k \in 0 .. n : k \notin S}
           before == [k \in missing |-> k - 1]
<1>1. IsFiniteSet(missing) /\ n \in missing
  <2>1. IsFiniteSet(0 .. n) /\ missing \in SUBSET (0 .. n)
    BY FS_Interval
  <2> QED
    BY <2>1, FS_Subset
<1>2. /\ IsFiniteSet(missing \ {n})
      /\ Cardinality(missing \ {n}) = Cardinality(missing) - 1
      /\ Cardinality(missing) \in Nat
  BY <1>1, FS_RemoveElement, FS_CardinalityType
<1>3. before \in [missing -> missing \ {n}]
  <2> SUFFICES ASSUME NEW k \in missing
               PROVE  k - 1 \in missing \ {n}
    OBVIOUS
  <2>1. k \in Nat /\ k <= n /\ k # 0
    OBVIOUS
  <2>2. k - 1 \notin S
    BY <2>1
  <2> QED
    BY <2>1, <2>2
<1>4. \E x, y \in missing : x # y /\ before[x] = before[y]
  <2> HIDE DEF missing, before
  <2>1. Cardinality(missing \ {n}) < Cardinality(missing)
    BY <1>2
  <2> QED
    BY <1>1, <1>2, <1>3, <2>1, FS_PigeonHole
<1> QED
  BY <1>4

(* The steps of a recursion over 1 .. n: what the k-th makes of a value.   *)
Steps(n, V) == [1 .. n -> [V -> V]]

(* The values that the steps make one after the other, from a on.          *)
IsRecursion(f, n, V, a, step) ==
  f \in [0 .. n -> V] /\ f[0] = a /\ \A k \in 1 .. n : f[k] = step[k][f[k - 1]]

(* What a recursion over 1 .. n defines exists.                            *)
LEMMA Recursion ==
  ASSUME NEW n \in Nat, NEW V, NEW a \in V, NEW g \in Steps(n, V)
  PROVE  \E f : IsRecursion(f, n, V, a, g)
<1> USE DEF Steps, IsRecursion
<1> DEFINE Fits(f, m) == f[0] = a /\ \A k \in 1 .. m : f[k] = g[k][f[k - 1]]
           Done == {m \in Nat : m <= n => \E f \in [0 .. m -> V] : Fits(f, m)}
<1>1. 0 \in Done
  <2>1. [k \in 0 .. 0 |-> a] \in [0 .. 0 -> V] /\ Fits([k \in 0 .. 0 |-> a], 0)
    OBVIOUS
  <2> QED
    BY <2>1
<1>2. ASSUME NEW m \in Nat, m \in Done
      PROVE  m + 1 \in Done
  <2> SUFFICES ASSUME m + 1 <= n
               PROVE  \E f \in [0 .. m + 1 -> V] : Fits(f, m + 1)
    OBVIOUS
  <2>1. PICK f \in [0 .. m -> V] : Fits(f, m)
    BY <1>2
  <2> DEFINE h == [k \in 0 .. m + 1 |-> IF k = m + 1 THEN g[m + 1][f[m]] ELSE f[k]]
  <2>2. h \in [0 .. m + 1 -> V]
    <3>1. g[m + 1] \in [V -> V] /\ f[m] \in V
      OBVIOUS
    <3>2. g[m + 1][f[m]] \in V
      BY <3>1
    <3> QED
      BY <3>2
  <2>3. ASSUME NEW k \in 1 .. m + 1
        PROVE  h[k] = g[k][h[k - 1]]
    <3>1. k - 1 \in 0 .. m /\ h[k - 1] = f[k - 1]
      OBVIOUS
    <3>2. CASE k = m + 1
      BY <3>1, <3>2
    <3>3. CASE k # m + 1
      <4>1. k \in 1 .. m /\ h[k] = f[k]
        BY <3>3
      <4> QED
        BY <2>1, <3>1, <4>1
    <3> QED
      BY <3>2, <3>3
  <2>4. h[0] = a
    BY <2>1
  <2>5. Fits(h, m + 1)
    BY <2>3, <2>4
  <2> QED
    BY <2>2, <2>5
<1>3. Nat \subseteq Done
  <2> HIDE DEF Done
  <2> QED
    BY <1>1, <1>2, SetInduction
<1>4. n \in Done
  BY <1>3
<1> QED
  BY <1>4

(* The recursion from the end: next says from which value behind i the one  *)
(* at i is made; behind n it is a.                                          *)
Forward(n, m) == {next \in [1 .. n -> 1 .. m] : \A i \in 1 .. n : next[i] > i}

IsUnwound(f, n, m, V, a, next, step) ==
  /\ f \in [1 .. m -> V]
  /\ \A i \in 1 .. m : f[i] = IF i > n THEN a ELSE step[i][f[next[i]]]

LEMMA Unwinding ==
  ASSUME NEW n \in Nat, NEW m \in Nat, n <= m, NEW V, NEW a \in V,
         NEW next \in Forward(n, m), NEW g \in Steps(n, V)
  PROVE  \E f : IsUnwound(f, n, m, V, a, next, g)
<1> USE DEF Steps
<1> DEFINE Right(f, i) == f[i] = IF i > n THEN a ELSE g[i][f[next[i]]]
           Fits(f, k) == f \in [1 .. m -> V] /\ \A i \in 1 .. m : i > n - k => Right(f, i)
           Done == {k \in Nat : k <= n => \E f : Fits(f, k)}
<1>1. 0 \in Done
  <2>1. Fits([i \in 1 .. m |-> a], 0)
    OBVIOUS
  <2> QED
    BY <2>1
<1>2. ASSUME NEW k \in Nat, k \in Done
      PROVE  k + 1 \in Done
  <2> SUFFICES ASSUME k + 1 <= n
               PROVE  \E f : Fits(f, k + 1)
    OBVIOUS
  <2>1. PICK f : Fits(f, k)
    BY <1>2
  <2> DEFINE i == n - k
             h == [f EXCEPT ![i] = g[i][f[next[i]]]]
  <2>2. i \in 1 .. n /\ i \in 1 .. m /\ next[i] \in 1 .. m /\ next[i] > i
    BY DEF Forward
  <2>3. h \in [1 .. m -> V]
    <3>1. f \in [1 .. m -> V] /\ g[i] \in [V -> V]
      BY <2>1, <2>2
    <3>2. g[i][f[next[i]]] \in V
      BY <2>2, <3>1
    <3> HIDE DEF i
    <3> QED
      BY <3>1, <3>2
  <2>4. ASSUME NEW j \in 1 .. m, j > n - (k + 1)
        PROVE  Right(h, j)
    <3>1. CASE j = i
      <4>1. h[i] = g[i][f[next[i]]] /\ h[next[i]] = f[next[i]] /\ ~(i > n)
        BY <2>1, <2>2
      <4> HIDE DEF i, h
      <4> QED
        BY <3>1, <4>1
    <3>2. CASE j # i
      <4>1. j > n - k
        BY <2>4, <3>2
      <4>2. Right(f, j) /\ h[j] = f[j]
        BY <2>1, <3>2, <4>1
      <4>3. CASE j > n
        BY <4>2, <4>3
      <4>4. CASE ~(j > n)
        <5>1. j \in 1 .. n
          BY <4>4
        <5>2. next[j] \in 1 .. m /\ next[j] > j
          BY <5>1 DEF Forward
        <5>3. next[j] # i
          BY <4>1, <5>1, <5>2
        <5>4. h[next[j]] = f[next[j]]
          BY <2>1, <5>2, <5>3
        <5> HIDE DEF h
        <5> QED
          BY <4>2, <5>4
      <4> QED
        BY <4>3, <4>4
    <3> QED
      BY <3>1, <3>2
  <2>5. Fits(h, k + 1)
    BY <2>3, <2>4
  <2> QED
    BY <2>5
<1>3. Nat \subseteq Done
  <2> HIDE DEF Done
  <2> QED
    BY <1>1, <1>2, SetInduction
<1>4. PICK f : Fits(f, n)
  BY <1>3
<1>5. IsUnwound(f, n, m, V, a, next, g)
  BY <1>4 DEF IsUnwound
<1> QED
  BY <1>5

(* A set of numbers that is not empty has a smallest one.                  *)
LEMMA Smallest ==
  ASSUME NEW S \in SUBSET Nat, S # {}
  PROVE  \E m \in S : \A k \in S : m <= k
<1> SUFFICES ASSUME \A m \in S : \E k \in S : k < m
             PROVE  FALSE
  OBVIOUS
<1> DEFINE above == {n \in Nat : \A k \in 0 .. n : k \notin S}
<1>1. ASSUME NEW n \in Nat, \A k \in Nat : k < n => k \notin S
      PROVE  n \notin S
  BY <1>1
<1>2. 0 \in above
  BY <1>1
<1>3. ASSUME NEW n \in Nat, n \in above
      PROVE  n + 1 \in above
  BY <1>3, <1>1
<1>4. Nat \subseteq above
  <2> HIDE DEF above
  <2> QED
    BY <1>2, <1>3, SetInduction
<1>5. PICK m \in S : TRUE
  OBVIOUS
<1>6. m \in Nat /\ m \in above
  BY <1>4
<1>7. m \notin S
  BY <1>6
<1> QED
  BY <1>5, <1>7

(* The greatest of finitely many numbers. *)
LEMMA Greatest ==
  ASSUME NEW n \in Nat, NEW S \in SUBSET (0 .. n), S # {}
  PROVE  \E x \in S : \A y \in S : x >= y
<1> DEFINE T == {n - i : i \in S}
<1>1. T \in SUBSET Nat /\ T # {}
  <2>1. \A i \in S : n - i \in Nat
    OBVIOUS
  <2> QED
    BY <2>1
<1>2. PICK m \in T : \A k \in T : m <= k
  <2> HIDE DEF T
  <2> QED
    BY <1>1, Smallest
<1>3. PICK i \in S : m = n - i
  BY <1>2
<1>4. \A j \in S : j <= i
  <2> SUFFICES ASSUME NEW j \in S
               PROVE  j <= i
    OBVIOUS
  <2>1. n - j \in T
    OBVIOUS
  <2>2. n - i <= n - j
    BY <1>2, <1>3, <2>1
  <2> QED
    BY <2>2
<1> QED
  BY <1>4

(* Induction from the end: what holds wherever it holds all the way behind. *)
LEMMA FromTheEnd ==
  ASSUME NEW n \in Nat, NEW S, \A i \in 1 .. n : (\A j \in i + 1 .. n : j \in S) => i \in S
  PROVE  1 .. n \subseteq S
<1> SUFFICES ASSUME {i \in 1 .. n : i \notin S} # {}
             PROVE  FALSE
  OBVIOUS
<1>1. PICK i \in 1 .. n : i \notin S /\ \A j \in 1 .. n : j \notin S => i >= j
  <2> DEFINE T == {i \in 1 .. n : i \notin S}
  <2>1. T \in SUBSET (0 .. n) /\ T # {}
    OBVIOUS
  <2> HIDE DEF T
  <2>2. \E x \in T : \A y \in T : x >= y
    BY <2>1, Greatest
  <2> QED
    BY <2>2 DEF T
<1>2. \A j \in i + 1 .. n : j \in S
  BY <1>1
<1> QED
  BY <1>1, <1>2

-----------------------------------------------------------------------------
(* The length of a sequence and its elements. *)
LEMMA SeqFacts ==
  ASSUME NEW S, NEW s \in Seq(S)
  PROVE  /\ Len(s) \in Nat /\ DOMAIN s = 1 .. Len(s)
         /\ \A i \in 1 .. Len(s) : s[i] \in S
BY LenProperties, ElementOfSeq

(* Part of a sequence. *)
LEMMA PartOf ==
  ASSUME NEW S, NEW s \in Seq(S), NEW m \in Nat \ {0}, NEW n \in Int, n <= Len(s)
  PROVE  /\ SubSeq(s, m, n) \in Seq(S)
         /\ Len(SubSeq(s, m, n)) = IF m <= n THEN n - m + 1 ELSE 0
         /\ \A i \in 1 .. n - m + 1 : SubSeq(s, m, n)[i] = s[m + i - 1]
<1>1. m \in Int /\ \A i \in m .. n : s[i] \in S
  BY SeqFacts
<1> QED
  BY <1>1, SubSeqProperties

(* What stands in two places is the same, and so makes the same part.      *)
Agree(s, t, p, m, n) == \A i \in m .. n : t[p + i] = s[i]

LEMMA SamePart ==
  ASSUME NEW S, NEW s \in Seq(S), NEW t \in Seq(S), NEW p \in Nat,
         NEW m \in Nat \ {0}, NEW n \in Int, n <= Len(s), p + n <= Len(t),
         Agree(s, t, p, m, n)
  PROVE  SubSeq(t, p + m, p + n) = SubSeq(s, m, n)
<1> DEFINE a == SubSeq(s, m, n)
           b == SubSeq(t, p + m, p + n)
<1>1. /\ a \in Seq(S)
      /\ Len(a) = IF m <= n THEN n - m + 1 ELSE 0
      /\ \A i \in 1 .. n - m + 1 : a[i] = s[m + i - 1]
  <2>1. a \in Seq(S)
    BY PartOf
  <2>2. Len(a) = IF m <= n THEN n - m + 1 ELSE 0
    BY PartOf
  <2>3. \A i \in 1 .. n - m + 1 : a[i] = s[m + i - 1]
    BY PartOf
  <2> QED
    BY <2>1, <2>2, <2>3, Zenon
<1>2. /\ b \in Seq(S)
      /\ Len(b) = IF p + m <= p + n THEN (p + n) - (p + m) + 1 ELSE 0
      /\ \A i \in 1 .. (p + n) - (p + m) + 1 : b[i] = t[(p + m) + i - 1]
  <2>1. p + m \in Nat \ {0} /\ p + n \in Int
    OBVIOUS
  <2> QED
    BY <2>1, PartOf
<1> HIDE DEF a, b
<1>3. Len(a) = Len(b)
  BY <1>1, <1>2
<1>4. ASSUME NEW i \in 1 .. Len(a)
      PROVE  b[i] = a[i]
  <2>1. /\ i \in 1 .. n - m + 1 /\ i \in 1 .. (p + n) - (p + m) + 1
        /\ m + i - 1 \in m .. n /\ p + (m + i - 1) = (p + m) + i - 1
    BY <1>1
  <2>2. t[p + (m + i - 1)] = s[m + i - 1]
    BY <2>1, Zenon DEF Agree
  <2> QED
    BY <1>1, <1>2, <2>1, <2>2
<1> QED
  BY <1>1, <1>2, <1>3, <1>4, SeqEqual DEF a, b

-----------------------------------------------------------------------------
(* From from on, the links f lead along s, meet no node twice, and end.    *)
Linked(s, from, f, end) ==
  /\ s \in Seq(DOMAIN f)
  /\ \A i, j \in 1 .. Len(s) : s[i] = s[j] => i = j
  /\ from = IF s = <<>> THEN end ELSE s[1]
  /\ \A i \in 1 .. Len(s) : f[s[i]] = IF i = Len(s) THEN end ELSE s[i + 1]

(* Where Walk is after each of its turns.                                  *)
Met(n, f) == CHOOSE at : at = [k \in 0 .. Cardinality(DOMAIN f) |->
               IF k = 0 THEN n ELSE Along(f, at[k - 1])]

(* A walk along linked nodes meets them all, in their order, and no other. *)
LEMMA WalkAlong ==
  ASSUME NEW f, IsFiniteSet(DOMAIN f), NEW end, end \notin DOMAIN f,
         NEW s, NEW from, Linked(s, from, f, end)
  PROVE  Walk(from, f) = s
<1> DEFINE all == Cardinality(DOMAIN f)
           met == [k \in 0 .. all |-> IF k < Len(s) THEN s[k + 1] ELSE end]
<1>1. /\ Len(s) \in Nat /\ DOMAIN s = 1 .. Len(s)
      /\ \A i \in 1 .. Len(s) : s[i] \in DOMAIN f /\ s[i] # end
  BY LenProperties, ElementOfSeq DEF Linked
<1>2. all \in Nat /\ Len(s) <= all
  <2>1. s \in [1 .. Len(s) -> DOMAIN f]
    BY LenProperties DEF Linked
  <2>2. s \in Injection(1 .. Len(s), DOMAIN f)
    BY <2>1 DEF Linked, Injection, IsInjective
  <2>3. Cardinality(1 .. Len(s)) <= Cardinality(DOMAIN f)
    BY <2>2, FS_Injection
  <2> QED
    BY <1>1, <2>3, FS_Interval, FS_CardinalityType
<1>3. /\ from = met[0]
      /\ \A k \in 1 .. all : met[k] = Along(f, met[k - 1])
  <2>1. from = met[0]
    <3>1. CASE s = <<>>
      BY <1>2, <3>1 DEF Linked
    <3>2. CASE s # <<>>
      <4>1. Len(s) > 0
        <5>1. s \in Seq(DOMAIN f)
          BY DEF Linked
        <5> QED
          BY <1>1, <3>2, <5>1, EmptySeq
      <4> QED
        BY <1>2, <3>2, <4>1 DEF Linked
    <3> QED
      BY <3>1, <3>2
  <2>2. ASSUME NEW k \in 1 .. all
        PROVE  met[k] = Along(f, met[k - 1])
    <3>1. k \in Nat /\ k - 1 \in 0 .. all /\ k \in 0 .. all
      BY <1>2
    <3>2. CASE k - 1 < Len(s)
      <4>1. k \in 1 .. Len(s) /\ met[k - 1] = s[k]
        BY <1>1, <3>1, <3>2
      <4>2. met[k - 1] \in DOMAIN f
        BY <1>1, <4>1
      <4>3. f[s[k]] = IF k = Len(s) THEN end ELSE s[k + 1]
        BY <4>1 DEF Linked
      <4>4. met[k] = IF k = Len(s) THEN end ELSE s[k + 1]
        <5>1. met[k] = IF k < Len(s) THEN s[k + 1] ELSE end
          BY <3>1
        <5>2. k < Len(s) <=> k # Len(s)
          <6>1. k \in Nat /\ Len(s) \in Nat /\ k <= Len(s)
            BY <1>1, <4>1
          <6> QED
            BY <6>1
        <5> HIDE DEF met
        <5> QED
          BY <5>1, <5>2
      <4> QED
        BY <4>1, <4>2, <4>3, <4>4 DEF Along
    <3>3. CASE ~(k - 1 < Len(s))
      BY <1>1, <3>1, <3>3 DEF Along
    <3> QED
      BY <3>2, <3>3
  <2> QED
    BY <2>1, <2>2
<1>4. met = [k \in 0 .. all |-> IF k = 0 THEN from ELSE Along(f, met[k - 1])]
  <2>1. ASSUME NEW k \in 0 .. all
        PROVE  met[k] = IF k = 0 THEN from ELSE Along(f, met[k - 1])
    <3>1. k = 0 \/ k \in 1 .. all
      BY <1>2
    <3> HIDE DEF met
    <3> QED
      BY <1>3, <3>1
  <2>2. met = [k \in 0 .. all |-> met[k]]
    OBVIOUS
  <2> QED
    BY <2>1, <2>2
<1>5. Met(from, f) = [k \in 0 .. all |-> IF k = 0 THEN from ELSE Along(f, Met(from, f)[k - 1])]
  <2> HIDE DEF met
  <2> QED
    BY <1>4, Zenon DEF Met
<1>6. Met(from, f) = met
  <2> DEFINE Same == {k \in Nat : k <= all => Met(from, f)[k] = met[k]}
  <2> HIDE DEF met
  <2>1. 0 \in Same
    BY <1>2, <1>3, <1>5
  <2>2. ASSUME NEW k \in Nat, k \in Same
        PROVE  k + 1 \in Same
    <3> SUFFICES ASSUME k + 1 <= all
                 PROVE  Met(from, f)[k + 1] = met[k + 1]
      OBVIOUS
    <3>1. k + 1 \in 1 .. all /\ k + 1 \in 0 .. all /\ (k + 1) - 1 = k /\ k + 1 # 0
      BY <1>2
    <3>2. Met(from, f)[k] = met[k]
      BY <2>2, <3>1, <1>2
    <3>3. met[k + 1] = Along(f, met[k])
      BY <1>3, <3>1
    <3>4. Met(from, f)[k + 1] = Along(f, Met(from, f)[k])
      BY <1>5, <3>1
    <3> QED
      BY <3>2, <3>3, <3>4
  <2>3. Nat \subseteq Same
    <3> HIDE DEF Same
    <3> QED
      BY <2>1, <2>2, SetInduction
  <2>4. \A k \in 0 .. all : Met(from, f)[k] = met[k]
    BY <1>2, <2>3
  <2>5. Met(from, f) = [k \in 0 .. all |-> Met(from, f)[k]]
    <3> DEFINE d == [k \in 0 .. all |-> IF k = 0 THEN from ELSE Along(f, Met(from, f)[k - 1])]
    <3>1. d = [k \in 0 .. all |-> d[k]] /\ Met(from, f) = d
      BY <1>5
    <3> HIDE DEF d
    <3> QED
      BY <3>1, Zenon
  <2>6. met = [k \in 0 .. all |-> met[k]]
    BY DEF met
  <2> QED
    BY <2>4, <2>5, <2>6
<1>7. Cardinality({k \in DOMAIN met : met[k] \in DOMAIN f}) = Len(s)
  <2>1. {k \in DOMAIN met : met[k] \in DOMAIN f} = 0 .. Len(s) - 1
    <3>1. ASSUME NEW k \in 0 .. all
          PROVE  met[k] \in DOMAIN f <=> k \in 0 .. Len(s) - 1
      BY <1>1, <1>2
    <3> QED
      BY <1>1, <1>2, <3>1
  <2>2. Cardinality(0 .. Len(s) - 1) = Len(s)
    <3>1. /\ 0 \in Int /\ Len(s) - 1 \in Int /\ (Len(s) - 1) - 0 + 1 = Len(s)
          /\ 0 > Len(s) - 1 => Len(s) = 0
      BY <1>1
    <3>2. Cardinality(0 .. Len(s) - 1) =
            IF 0 > Len(s) - 1 THEN 0 ELSE (Len(s) - 1) - 0 + 1
      BY <3>1, FS_Interval, Zenon
    <3> QED
      BY <3>1, <3>2
  <2> QED
    BY <2>1, <2>2
<1>8. Walk(from, f) = [i \in 1 .. Len(s) |-> met[i - 1]]
  <2>1. Walk(from, f) =
          [i \in 1 .. Cardinality({k \in DOMAIN Met(from, f) : Met(from, f)[k] \in DOMAIN f})
             |-> Met(from, f)[i - 1]]
    BY Zenon DEF Walk, Met
  <2> HIDE DEF met
  <2> QED
    BY <1>6, <1>7, <2>1
<1>9. ASSUME NEW i \in 1 .. Len(s)
      PROVE  met[i - 1] = s[i]
  BY <1>1, <1>2
<1>10. s = [i \in 1 .. Len(s) |-> s[i]]
  BY LenProperties DEF Linked
<1> HIDE DEF met
<1> QED
  BY <1>8, <1>9, <1>10
=============================================================================
