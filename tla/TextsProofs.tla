---------------------------- MODULE TextsProofs ----------------------------
(***************************************************************************)
(* Proofs about the functions on text, for texts of any length: where a   *)
(* colour sequence ends, which rows a text takes, where it is cut; about    *)
(* the formatters, for a buffer of any size and texts of any length; and    *)
(* about the parser, for lines of any length.                              *)
(***************************************************************************)
EXTENDS MCTexts, Induction

LEMMA MaxIs ==
  ASSUME NEW X, NEW x \in X, \A y \in X : y \in Int /\ y <= x
  PROVE  Max(X) = x
<1> DEFINE m == CHOOSE z \in X : \A y \in X : z >= y
<1>1. \A y \in X : x >= y
  OBVIOUS
<1>2. m \in X /\ \A y \in X : m >= y
  BY <1>1
<1> HIDE DEF m
<1>3. m = x
  BY <1>2
<1> QED
  BY <1>3 DEF Max, m

LEMMA MinIs ==
  ASSUME NEW X, NEW x \in X, \A y \in X : y \in Int /\ x <= y
  PROVE  Min(X) = x
<1> DEFINE m == CHOOSE z \in X : \A y \in X : z <= y
<1>1. \A y \in X : x <= y
  OBVIOUS
<1>2. m \in X /\ \A y \in X : m <= y
  BY <1>1
<1> HIDE DEF m
<1>3. m = x
  BY <1>2
<1> QED
  BY <1>3 DEF Min, m

-----------------------------------------------------------------------------
(* Colour sequences. *)

(* The digits and commas behind a colour byte decide which form stands there. *)
LEMMA FormsAre ==
  ASSUME NEW t, NEW i \in Nat, At(t, i) = "col"
  PROVE  /\ Stands(<<"col">>, t, i) <=> TRUE
         /\ Stands(<<"col", "0">>, t, i) <=> IsDigit(t, i + 1)
         /\ Stands(<<"col", "0", "0">>, t, i) <=> IsDigit(t, i + 1) /\ IsDigit(t, i + 2)
         /\ Stands(<<"col", "0", ",", "0">>, t, i) <=> IsDigit(t, i + 1) /\ At(t, i + 2) = "," /\ IsDigit(t, i + 3)
         /\ Stands(<<"col", "0", ",", "0", "0">>, t, i) <=> IsDigit(t, i + 1) /\ At(t, i + 2) = "," /\ IsDigit(t, i + 3) /\ IsDigit(t, i + 4)
         /\ Stands(<<"col", "0", "0", ",", "0">>, t, i) <=> IsDigit(t, i + 1) /\ IsDigit(t, i + 2) /\ At(t, i + 3) = "," /\ IsDigit(t, i + 4)
         /\ Stands(<<"col", "0", "0", ",", "0", "0">>, t, i) <=> IsDigit(t, i + 1) /\ IsDigit(t, i + 2) /\ At(t, i + 3) = "," /\ IsDigit(t, i + 4) /\ IsDigit(t, i + 5)
<1>1. Stands(<<"col">>, t, i) <=> TRUE
  BY DEF Stands, IsDigit
<1>2. Stands(<<"col", "0">>, t, i) <=> IsDigit(t, i + 1)
  BY DEF Stands, IsDigit
<1>3. Stands(<<"col", "0", "0">>, t, i) <=> IsDigit(t, i + 1) /\ IsDigit(t, i + 2)
  BY DEF Stands, IsDigit
<1>4. Stands(<<"col", "0", ",", "0">>, t, i) <=> IsDigit(t, i + 1) /\ At(t, i + 2) = "," /\ IsDigit(t, i + 3)
  <2> DEFINE g == <<"col", "0", ",", "0">>
  <2>1. DOMAIN g = {1, 2, 3, 4}
    OBVIOUS
  <2>2. g[1] = "col" /\ g[2] = "0" /\ g[3] = "," /\ g[4] = "0"
    OBVIOUS
  <2>3. i + 1 - 1 = i /\ i + 2 - 1 = i + 1 /\ i + 3 - 1 = i + 2 /\ i + 4 - 1 = i + 3
    OBVIOUS
  <2> HIDE DEF g
  <2>4. Stands(g, t, i) <=> At(t, i + 1 - 1) = g[1] /\ At(t, i + 2 - 1) = g[2] /\ At(t, i + 3 - 1) = g[3] /\ At(t, i + 4 - 1) = g[4]
    BY <2>1, Zenon DEF Stands
  <2>5. Stands(g, t, i) <=> IsDigit(t, i + 1) /\ At(t, i + 2) = "," /\ IsDigit(t, i + 3)
    BY <2>2, <2>3, <2>4, Zenon DEF IsDigit
  <2> QED
    BY <2>5, Zenon DEF g
<1>5. Stands(<<"col", "0", ",", "0", "0">>, t, i) <=> IsDigit(t, i + 1) /\ At(t, i + 2) = "," /\ IsDigit(t, i + 3) /\ IsDigit(t, i + 4)
  <2> DEFINE g == <<"col", "0", ",", "0", "0">>
  <2>1. DOMAIN g = {1, 2, 3, 4, 5}
    OBVIOUS
  <2>2. g[1] = "col" /\ g[2] = "0" /\ g[3] = "," /\ g[4] = "0" /\ g[5] = "0"
    OBVIOUS
  <2>3. i + 1 - 1 = i /\ i + 2 - 1 = i + 1 /\ i + 3 - 1 = i + 2 /\ i + 4 - 1 = i + 3 /\ i + 5 - 1 = i + 4
    OBVIOUS
  <2> HIDE DEF g
  <2>4. Stands(g, t, i) <=> At(t, i + 1 - 1) = g[1] /\ At(t, i + 2 - 1) = g[2] /\ At(t, i + 3 - 1) = g[3] /\ At(t, i + 4 - 1) = g[4] /\ At(t, i + 5 - 1) = g[5]
    BY <2>1, Zenon DEF Stands
  <2>5. Stands(g, t, i) <=> IsDigit(t, i + 1) /\ At(t, i + 2) = "," /\ IsDigit(t, i + 3) /\ IsDigit(t, i + 4)
    BY <2>2, <2>3, <2>4, Zenon DEF IsDigit
  <2> QED
    BY <2>5, Zenon DEF g
<1>6. Stands(<<"col", "0", "0", ",", "0">>, t, i) <=> IsDigit(t, i + 1) /\ IsDigit(t, i + 2) /\ At(t, i + 3) = "," /\ IsDigit(t, i + 4)
  <2> DEFINE g == <<"col", "0", "0", ",", "0">>
  <2>1. DOMAIN g = {1, 2, 3, 4, 5}
    OBVIOUS
  <2>2. g[1] = "col" /\ g[2] = "0" /\ g[3] = "0" /\ g[4] = "," /\ g[5] = "0"
    OBVIOUS
  <2>3. i + 1 - 1 = i /\ i + 2 - 1 = i + 1 /\ i + 3 - 1 = i + 2 /\ i + 4 - 1 = i + 3 /\ i + 5 - 1 = i + 4
    OBVIOUS
  <2> HIDE DEF g
  <2>4. Stands(g, t, i) <=> At(t, i + 1 - 1) = g[1] /\ At(t, i + 2 - 1) = g[2] /\ At(t, i + 3 - 1) = g[3] /\ At(t, i + 4 - 1) = g[4] /\ At(t, i + 5 - 1) = g[5]
    BY <2>1, Zenon DEF Stands
  <2>5. Stands(g, t, i) <=> IsDigit(t, i + 1) /\ IsDigit(t, i + 2) /\ At(t, i + 3) = "," /\ IsDigit(t, i + 4)
    BY <2>2, <2>3, <2>4, Zenon DEF IsDigit
  <2> QED
    BY <2>5, Zenon DEF g
<1>7. Stands(<<"col", "0", "0", ",", "0", "0">>, t, i) <=> IsDigit(t, i + 1) /\ IsDigit(t, i + 2) /\ At(t, i + 3) = "," /\ IsDigit(t, i + 4) /\ IsDigit(t, i + 5)
  <2> DEFINE g == <<"col", "0", "0", ",", "0", "0">>
  <2>1. DOMAIN g = {1, 2, 3, 4, 5, 6}
    OBVIOUS
  <2>2. g[1] = "col" /\ g[2] = "0" /\ g[3] = "0" /\ g[4] = "," /\ g[5] = "0" /\ g[6] = "0"
    OBVIOUS
  <2>3. i + 1 - 1 = i /\ i + 2 - 1 = i + 1 /\ i + 3 - 1 = i + 2 /\ i + 4 - 1 = i + 3 /\ i + 5 - 1 = i + 4 /\ i + 6 - 1 = i + 5
    OBVIOUS
  <2> HIDE DEF g
  <2>4. Stands(g, t, i) <=> At(t, i + 1 - 1) = g[1] /\ At(t, i + 2 - 1) = g[2] /\ At(t, i + 3 - 1) = g[3] /\ At(t, i + 4 - 1) = g[4] /\ At(t, i + 5 - 1) = g[5] /\ At(t, i + 6 - 1) = g[6]
    BY <2>1, Zenon DEF Stands
  <2>5. Stands(g, t, i) <=> IsDigit(t, i + 1) /\ IsDigit(t, i + 2) /\ At(t, i + 3) = "," /\ IsDigit(t, i + 4) /\ IsDigit(t, i + 5)
    BY <2>2, <2>3, <2>4, Zenon DEF IsDigit
  <2> QED
    BY <2>5, Zenon DEF g
<1> QED
  BY <1>1, <1>2, <1>3, <1>4, <1>5, <1>6, <1>7

(* So the longest form has the digits that belong to it, two for each colour  *)
(* at most, and the comma only when a digit stands behind it.                *)
ColorLength(t, i) ==
  IF ~IsDigit(t, i + 1) THEN 1
  ELSE LET n == IF IsDigit(t, i + 2) THEN 3 ELSE 2
       IN  IF At(t, i + n) # "," \/ ~IsDigit(t, i + n + 1) THEN n
           ELSE IF IsDigit(t, i + n + 2) THEN n + 3 ELSE n + 2

LEMMA ColorSequenceIs ==
  ASSUME NEW t, NEW i \in Nat, At(t, i) = "col"
  PROVE  ColorSequence(t, i) = ColorLength(t, i)
<1> DEFINE lengths == {Len(f) : f \in {g \in ColorForms : Stands(g, t, i)}}
<1>1. \A n : n \in lengths <=>
        \/ n = 1 /\ Stands(<<"col">>, t, i)
        \/ n = 2 /\ Stands(<<"col", "0">>, t, i)
        \/ n = 3 /\ Stands(<<"col", "0", "0">>, t, i)
        \/ n = 4 /\ Stands(<<"col", "0", ",", "0">>, t, i)
        \/ n = 5 /\ Stands(<<"col", "0", ",", "0", "0">>, t, i)
        \/ n = 5 /\ Stands(<<"col", "0", "0", ",", "0">>, t, i)
        \/ n = 6 /\ Stands(<<"col", "0", "0", ",", "0", "0">>, t, i)
  <2>1. /\ Len(<<"col">>) = 1
        /\ Len(<<"col", "0">>) = 2
        /\ Len(<<"col", "0", "0">>) = 3
        /\ Len(<<"col", "0", ",", "0">>) = 4
        /\ Len(<<"col", "0", ",", "0", "0">>) = 5
        /\ Len(<<"col", "0", "0", ",", "0">>) = 5
        /\ Len(<<"col", "0", "0", ",", "0", "0">>) = 6
    OBVIOUS
  <2> QED
    BY <2>1, Zenon DEF ColorForms
<1>2. \A n : n \in lengths <=>
        \/ n = 1
        \/ n = 2 /\ IsDigit(t, i + 1)
        \/ n = 3 /\ IsDigit(t, i + 1) /\ IsDigit(t, i + 2)
        \/ n = 4 /\ IsDigit(t, i + 1) /\ At(t, i + 2) = "," /\ IsDigit(t, i + 3)
        \/ n = 5 /\ \/ /\ IsDigit(t, i + 1) /\ At(t, i + 2) = "," /\ IsDigit(t, i + 3)
                       /\ IsDigit(t, i + 4)
                    \/ /\ IsDigit(t, i + 1) /\ IsDigit(t, i + 2) /\ At(t, i + 3) = ","
                       /\ IsDigit(t, i + 4)
        \/ n = 6 /\ /\ IsDigit(t, i + 1) /\ IsDigit(t, i + 2) /\ At(t, i + 3) = ","
                    /\ IsDigit(t, i + 4) /\ IsDigit(t, i + 5)
  BY <1>1, FormsAre, Zenon
<1> HIDE DEF lengths
<1>3. \A y \in lengths : y \in 1 .. 6
  <2> TAKE y \in lengths
  <2>1. y = 1 \/ y = 2 \/ y = 3 \/ y = 4 \/ y = 5 \/ y = 6
    BY <1>2, Zenon
  <2> QED
    BY <2>1
<1> DEFINE one == IsDigit(t, i + 1)
           two == IsDigit(t, i + 2)
           comma == At(t, i + 2) = "," /\ IsDigit(t, i + 3)
           comma2 == At(t, i + 3) = "," /\ IsDigit(t, i + 4)
           four == IsDigit(t, i + 4)
           five == IsDigit(t, i + 5)
<1>4. two => ~comma
  BY DEF IsDigit
<1>5. ColorLength(t, i) = IF ~one THEN 1
                          ELSE IF two THEN IF ~comma2 THEN 3 ELSE IF five THEN 6 ELSE 5
                          ELSE IF ~comma THEN 2 ELSE IF four THEN 5 ELSE 4
  <2>1. /\ i + 2 + 1 = i + 3 /\ i + 2 + 2 = i + 4 /\ i + 3 + 1 = i + 4 /\ i + 3 + 2 = i + 5
        /\ 3 + 3 = 6 /\ 3 + 2 = 5 /\ 2 + 3 = 5 /\ 2 + 2 = 4
    OBVIOUS
  <2>2. CASE two
    <3>1. ColorLength(t, i) = IF ~one THEN 1
                              ELSE IF At(t, i + 3) # "," \/ ~IsDigit(t, i + 3 + 1) THEN 3
                              ELSE IF IsDigit(t, i + 3 + 2) THEN 3 + 3 ELSE 3 + 2
      BY <2>2, Zenon DEF ColorLength
    <3> QED
      BY <2>1, <2>2, <3>1, Zenon
  <2>3. CASE ~two
    <3>1. ColorLength(t, i) = IF ~one THEN 1
                              ELSE IF At(t, i + 2) # "," \/ ~IsDigit(t, i + 2 + 1) THEN 2
                              ELSE IF IsDigit(t, i + 2 + 2) THEN 2 + 3 ELSE 2 + 2
      BY <2>3, Zenon DEF ColorLength
    <3> QED
      BY <2>1, <2>3, <3>1, Zenon
  <2> QED
    BY <2>2, <2>3
<1>6. \A n : n \in lengths <=>
        \/ n = 1
        \/ n = 2 /\ one
        \/ n = 3 /\ one /\ two
        \/ n = 4 /\ one /\ comma
        \/ n = 5 /\ one /\ ((comma /\ four) \/ (two /\ comma2))
        \/ n = 6 /\ one /\ two /\ comma2 /\ five
  BY <1>2, Zenon
<1> HIDE DEF one, two, comma, comma2, four, five
<1>7. ColorLength(t, i) \in lengths /\ \A y \in lengths : y \in Int /\ y <= ColorLength(t, i)
  <2>1. CASE ~one
    BY <1>5, <1>6, <2>1
  <2>2. CASE one /\ two
    BY <1>4, <1>5, <1>6, <2>2
  <2>3. CASE one /\ ~two
    BY <1>5, <1>6, <2>3
  <2> QED
    BY <2>1, <2>2, <2>3
<1>8. Max(lengths) = ColorLength(t, i)
  BY <1>7, MaxIs
<1> QED
  BY <1>8 DEF ColorSequence, lengths

(* The three functions that read colour sequences agree on every text.        *)
THEOREM ReadAlike ==
  ASSUME NEW S, NEW t \in Seq(S)
  PROVE  ColorsAreReadAlike(t)
<1> SUFFICES ASSUME NEW i \in {k \in DOMAIN t : t[k] = "col"}
             PROVE  /\ ColorEndOfStrlen(t, i) = i + ColorSequence(t, i)
                    /\ ColorEndOfOffset(t, i) = i + ColorSequence(t, i)
                    /\ ColorEndOfTranslate(t, i) = i + ColorSequence(t, i)
  BY DEF ColorsAreReadAlike
<1>1. /\ Len(t) \in Nat /\ i \in Nat /\ i <= Len(t) /\ DOMAIN t = 1 .. Len(t)
      /\ At(t, i) = "col"
  BY SeqFacts DEF At
<1>2. ColorSequence(t, i) = ColorLength(t, i)
  BY <1>1, ColorSequenceIs
<1>3. ColorEndOfStrlen(t, i) = i + ColorLength(t, i)
  BY <1>1 DEF ColorEndOfStrlen, ColorLength
<1>4. ColorEndOfOffset(t, i) = i + ColorLength(t, i)
  <2> DEFINE first == IF IsDigit(t, i + 1) /\ IsDigit(t, i + 2) THEN i + 2 ELSE i + 1
  <2>1. ColorEndOfOffset(t, i) =
          IF ~IsDigit(t, i + 1) THEN i + 1
          ELSE IF At(t, first + 1) = "," /\ IsDigit(t, first + 2)
                 THEN first + (IF IsDigit(t, first + 3) THEN 4 ELSE 3)
                 ELSE first + 1
    BY Zenon DEF ColorEndOfOffset
  <2>2. CASE ~IsDigit(t, i + 1)
    BY <2>1, <2>2 DEF ColorLength
  <2>3. CASE IsDigit(t, i + 1)
    <3>1. PICK n \in {2, 3} : n = IF IsDigit(t, i + 2) THEN 3 ELSE 2
      OBVIOUS
    <3>2. first = i + n - 1
      BY <1>1, <2>3, <3>1
    <3>3. first + 1 = i + n /\ first + 2 = i + n + 1 /\ first + 3 = i + n + 2
      BY <1>1, <3>2
    <3> HIDE DEF first
    <3>4. ColorLength(t, i) = IF At(t, i + n) # "," \/ ~IsDigit(t, i + n + 1) THEN n
                              ELSE IF IsDigit(t, i + n + 2) THEN n + 3 ELSE n + 2
      BY <2>3, <3>1, Zenon DEF ColorLength
    <3>5. ColorEndOfOffset(t, i) =
            IF At(t, i + n) = "," /\ IsDigit(t, i + n + 1)
              THEN first + (IF IsDigit(t, i + n + 2) THEN 4 ELSE 3) ELSE i + n
      BY <2>1, <2>3, <3>3, Zenon
    <3>6. first + 4 = i + (n + 3) /\ first + 3 = i + (n + 2)
      BY <1>1, <3>1, <3>2
    <3> QED
      BY <3>4, <3>5, <3>6, Zenon
  <2> QED
    BY <2>2, <2>3
<1>5. ColorEndOfTranslate(t, i) = i + ColorLength(t, i)
  <2> DEFINE max == Len(t) - i
             two == max >= 2 /\ IsDigit(t, i + 2)
             n == IF two THEN 3 ELSE 2
  <2>1. \A k \in 1 .. 6 : IsDigit(t, i + k) => k <= max
    <3> TAKE k \in 1 .. 6
    <3>1. IsDigit(t, i + k) => i + k \in DOMAIN t
      BY DEF IsDigit, At, NUL
    <3> QED
      BY <1>1, <3>1
  <2>2. two <=> IsDigit(t, i + 2)
    BY <2>1
  <2>3. PICK c \in {2, 3} : c = n /\ c = IF IsDigit(t, i + 2) THEN 3 ELSE 2
    BY <2>2
  <2>4. ColorEndOfTranslate(t, i) =
          i + IF ~IsDigit(t, i + 1) THEN 1
              ELSE IF \/ max < 2 \/ At(t, i + c) # ","
                      \/ c + 1 > max \/ ~IsDigit(t, i + (c + 1)) THEN c
              ELSE IF (c + 1) + 1 <= max /\ IsDigit(t, i + (c + 1) + 1)
                THEN c + 3 ELSE c + 2
    BY <2>3, Zenon DEF ColorEndOfTranslate
  <2>5. ColorLength(t, i) =
          IF ~IsDigit(t, i + 1) THEN 1
          ELSE IF At(t, i + c) # "," \/ ~IsDigit(t, i + c + 1) THEN c
          ELSE IF IsDigit(t, i + c + 2) THEN c + 3 ELSE c + 2
    BY <2>3, Zenon DEF ColorLength
  <2>6. /\ i + (c + 1) = i + c + 1 /\ i + (c + 1) + 1 = i + c + 2
        /\ IsDigit(t, i + c + 1) => max >= 2 /\ ~(c + 1 > max)
        /\ IsDigit(t, i + c + 2) => (c + 1) + 1 <= max
    <3>1. c + 1 \in 1 .. 6 /\ c + 2 \in 1 .. 6 /\ i + (c + 1) = i + c + 1
          /\ i + (c + 2) = i + c + 2 /\ i + (c + 1) + 1 = i + c + 2
      BY <1>1
    <3>2. IsDigit(t, i + (c + 1)) => c + 1 <= max
      BY <2>1, <3>1
    <3>3. IsDigit(t, i + (c + 2)) => c + 2 <= max
      BY <2>1, <3>1
    <3> QED
      BY <1>1, <3>1, <3>2, <3>3
  <2>7. CASE ~IsDigit(t, i + 1)
    BY <2>4, <2>5, <2>7, Zenon
  <2>8. CASE IsDigit(t, i + 1) /\ (At(t, i + c) # "," \/ ~IsDigit(t, i + c + 1))
    BY <2>4, <2>5, <2>6, <2>8, Zenon
  <2>9. CASE IsDigit(t, i + 1) /\ At(t, i + c) = "," /\ IsDigit(t, i + c + 1)
    <3>1. ~(max < 2)
      <4>1. max >= 2
        BY <2>6, <2>9, Zenon
      <4> QED
        BY <1>1, <4>1
    <3> HIDE DEF max
    <3> QED
      BY <2>4, <2>5, <2>6, <2>9, <3>1, Zenon
  <2> QED
    BY <2>7, <2>8, <2>9
<1> QED
  BY <1>2, <1>3, <1>4, <1>5
-----------------------------------------------------------------------------
(* The reading of a text from one token to the next.                        *)

(* The sums of the weights w that are met from each place on, along next.   *)
IsSum(f, n, m, next, w) ==
  /\ f \in [1 .. m -> Nat]
  /\ \A i \in 1 .. m : f[i] = IF i > n THEN 0 ELSE w[i] + f[next[i]]

LEMMA SumExists ==
  ASSUME NEW n \in Nat, NEW m \in Nat, n <= m,
         NEW next \in Forward(n, m), NEW w \in [1 .. n -> Nat]
  PROVE  \E f : IsSum(f, n, m, next, w)
<1> DEFINE g == [i \in 1 .. n |-> [v \in Nat |-> w[i] + v]]
<1>1. g \in Steps(n, Nat) /\ 0 \in Nat
  BY DEF Steps
<1>2. \E f : IsUnwound(f, n, m, Nat, 0, next, g)
  <2> HIDE DEF g
  <2> QED
    BY <1>1, Unwinding
<1>3. PICK f : IsUnwound(f, n, m, Nat, 0, next, g)
  BY <1>2
<1>4. f \in [1 .. m -> Nat] /\ \A i \in 1 .. m : f[i] = IF i > n THEN 0 ELSE g[i][f[next[i]]]
  BY <1>3, Zenon DEF IsUnwound
<1>5. ASSUME NEW i \in 1 .. m
      PROVE  f[i] = IF i > n THEN 0 ELSE w[i] + f[next[i]]
  <2>1. CASE i > n
    BY <1>4, <2>1
  <2>2. CASE ~(i > n)
    <3>1. i \in 1 .. n
      BY <2>2
    <3>2. next[i] \in 1 .. m
      BY <3>1 DEF Forward
    <3>3. f[next[i]] \in Nat
      BY <1>4, <3>2
    <3>4. f[i] = g[i][f[next[i]]]
      BY <1>4, <2>2
    <3> QED
      BY <2>2, <3>1, <3>3, <3>4
  <2> QED
    BY <2>1, <2>2
<1>6. IsSum(f, n, m, next, w)
  BY <1>4, <1>5 DEF IsSum
<1> QED
  BY <1>6

LEMMA AddsUp ==
  ASSUME NEW n \in Nat, NEW m \in Nat, n <= m,
         NEW next \in Forward(n, m), NEW w \in [1 .. n -> Nat],
         NEW f, f = [i \in 1 .. m |-> f[i]],
         \A i \in 1 .. m : i > n => f[i] = 0,
         \A i \in 1 .. n : f[next[i]] \in Nat => f[i] = w[i] + f[next[i]]
  PROVE  IsSum(f, n, m, next, w)
<1> DEFINE T == {i \in 1 .. m : f[i] \in Nat}
<1>1. ASSUME NEW i \in 1 .. m, \A j \in i + 1 .. m : j \in T
      PROVE  i \in T
  <2>1. CASE i > n
    BY <2>1
  <2>2. CASE ~(i > n)
    <3>1. i \in 1 .. n
      BY <2>2
    <3>2. next[i] \in i + 1 .. m
      BY <3>1 DEF Forward
    <3>3. f[next[i]] \in Nat /\ w[i] \in Nat
      BY <1>1, <3>1, <3>2
    <3>4. f[i] = w[i] + f[next[i]]
      BY <3>1, <3>3
    <3> QED
      BY <3>3, <3>4
  <2> QED
    BY <2>1, <2>2
<1>2. 1 .. m \subseteq T
  <2> HIDE DEF T
  <2> QED
    BY <1>1, FromTheEnd
<1>3. f \in [1 .. m -> Nat]
  <2>1. \A i \in 1 .. m : f[i] \in Nat
    BY <1>2
  <2> QED
    BY <2>1
<1>4. ASSUME NEW i \in 1 .. m
      PROVE  f[i] = IF i > n THEN 0 ELSE w[i] + f[next[i]]
  <2>1. CASE i > n
    BY <2>1
  <2>2. CASE ~(i > n)
    <3>1. i \in 1 .. n
      BY <2>2
    <3>2. next[i] \in 1 .. m
      BY <3>1 DEF Forward
    <3>3. f[next[i]] \in Nat
      BY <1>3, <3>2
    <3>4. f[i] = w[i] + f[next[i]]
      BY <3>1, <3>3
    <3> QED
      BY <2>2, <3>4
  <2> QED
    BY <2>1, <2>2
<1> QED
  BY <1>3, <1>4 DEF IsSum

(* Where a sequence ends that begins somewhere in the text.                 *)
LEMMA EscapeEnds ==
  ASSUME NEW S, NEW t \in Seq(S), NEW i \in 1 .. Len(t)
  PROVE  EscapeEnd(t, i) \in i + 1 .. Len(t) + 1
<1>1. Len(t) \in Nat /\ DOMAIN t = 1 .. Len(t)
  BY SeqFacts
<1>2. CASE Terminators(t, i) = {}
  BY <1>1, <1>2 DEF EscapeEnd
<1>3. CASE Terminators(t, i) # {}
  <2>1. Terminators(t, i) \in SUBSET Nat /\ \A k \in Terminators(t, i) : k \in i .. Len(t)
    BY <1>1 DEF Terminators
  <2>2. PICK k \in Terminators(t, i) : \A j \in Terminators(t, i) : k <= j
    BY <1>3, <2>1, Smallest
  <2>3. Min(Terminators(t, i)) \in Terminators(t, i)
    BY <2>2 DEF Min
  <2>4. Min(Terminators(t, i)) \in i .. Len(t)
    BY <2>1, <2>3
  <2>5. EscapeEnd(t, i) = Min(Terminators(t, i)) + 1
    BY <1>3 DEF EscapeEnd
  <2> QED
    BY <1>1, <2>4, <2>5
<1> QED
  BY <1>2, <1>3

LEMMA ColorBytes ==
  ASSUME NEW t, NEW i \in Nat, At(t, i) = "col"
  PROVE  /\ ColorLength(t, i) \in 1 .. 6
         /\ \A d \in 0 .. ColorLength(t, i) - 1 : At(t, i + d) \in {"col", "0", ","}
<1>1. CASE ~IsDigit(t, i + 1)
  <2>1. ColorLength(t, i) = 1
    BY <1>1 DEF ColorLength
  <2> QED
    BY <2>1
<1>2. CASE IsDigit(t, i + 1)
  <2>1. PICK n \in {2, 3} : n = IF IsDigit(t, i + 2) THEN 3 ELSE 2
    OBVIOUS
  <2>2. ColorLength(t, i) =
          IF At(t, i + n) # "," \/ ~IsDigit(t, i + n + 1) THEN n
          ELSE IF IsDigit(t, i + n + 2) THEN n + 3 ELSE n + 2
    BY <1>2, <2>1, Zenon DEF ColorLength
  <2>3. /\ i + 0 = i
        /\ n = 3 => IsDigit(t, i + 2)
    BY <2>1
  <2>4. CASE At(t, i + n) # "," \/ ~IsDigit(t, i + n + 1)
    <3>1. ColorLength(t, i) = n
      BY <2>2, <2>4
    <3>2. ASSUME NEW d \in 0 .. n - 1
          PROVE  At(t, i + d) \in {"col", "0", ","}
      <4>1. d = 0 \/ d = 1 \/ (d = 2 /\ n = 3)
        BY <2>1
      <4> QED
        BY <1>2, <2>3, <4>1 DEF IsDigit
    <3>3. n \in 1 .. 6
      BY <2>1
    <3> QED
      BY <3>1, <3>2, <3>3, Zenon
  <2>5. CASE At(t, i + n) = "," /\ IsDigit(t, i + n + 1)
    <3>1. PICK last \in {n + 2, n + 3} :
            /\ ColorLength(t, i) = last
            /\ last = n + 3 => IsDigit(t, i + n + 2)
      <4>1. ColorLength(t, i) = IF IsDigit(t, i + n + 2) THEN n + 3 ELSE n + 2
        BY <2>2, <2>5
      <4>2. n + 2 # n + 3
        OBVIOUS
      <4> QED
        BY <4>1, <4>2, Zenon
    <3>2. /\ last \in 1 .. 6
          /\ \A d \in 0 .. last - 1 : \/ d = 0 \/ d = 1 \/ (d = 2 /\ n = 3)
                                      \/ d = n \/ d = n + 1 \/ (d = n + 2 /\ last = n + 3)
          /\ i + (n + 1) = i + n + 1 /\ i + (n + 2) = i + n + 2
      BY <2>1
    <3>3. ASSUME NEW d \in 0 .. last - 1
          PROVE  At(t, i + d) \in {"col", "0", ","}
      <4>1. CASE d = 0 \/ d = 1 \/ (d = 2 /\ n = 3)
        BY <1>2, <2>3, <4>1 DEF IsDigit
      <4>2. CASE d = n \/ d = n + 1 \/ (d = n + 2 /\ last = n + 3)
        <5>1. At(t, i + n + 1) = "0" /\ (last = n + 3 => At(t, i + n + 2) = "0") /\ At(t, i + n) = ","
          BY <2>5, <3>1 DEF IsDigit
        <5>2. i + d = i + n \/ i + d = i + n + 1 \/ (i + d = i + n + 2 /\ last = n + 3)
          BY <3>2, <4>2
        <5>3. At(t, i + d) = "," \/ At(t, i + d) = "0"
          BY <5>1, <5>2, Zenon
        <5> QED
          BY <5>3
      <4> QED
        BY <3>2, <4>1, <4>2
    <3> QED
      BY <3>1, <3>2, <3>3
  <2> QED
    BY <2>4, <2>5
<1> QED
  BY <1>1, <1>2

LEMMA ColorEnds ==
  ASSUME NEW S, NEW t \in Seq(S), NEW i \in 1 .. Len(t), t[i] = "col"
  PROVE  /\ i + ColorSequence(t, i) \in i + 1 .. Len(t) + 1
         /\ \A k \in i .. (i + ColorSequence(t, i)) - 1 : t[k] \in {"col", "0", ","}
<1>1. /\ Len(t) \in Nat /\ DOMAIN t = 1 .. Len(t) /\ i \in Nat
      /\ At(t, i) = "col"
  BY SeqFacts DEF At
<1>2. PICK n \in 1 .. 6 : /\ n = ColorSequence(t, i)
                          /\ \A d \in 0 .. n - 1 : At(t, i + d) \in {"col", "0", ","}
  BY <1>1, ColorSequenceIs, ColorBytes, Zenon
<1>3. ASSUME NEW k \in i .. i + n - 1
      PROVE  k \in 1 .. Len(t) /\ t[k] \in {"col", "0", ","}
  <2>1. k - i \in 0 .. n - 1 /\ i + (k - i) = k
    BY <1>1
  <2>2. At(t, k) \in {"col", "0", ","}
    BY <1>2, <2>1
  <2> QED
    BY <1>1, <2>2 DEF At, NUL
<1>4. i + n - 1 \in 1 .. Len(t)
  <2>1. i + n - 1 \in i .. i + n - 1
    BY <1>1
  <2> QED
    BY <1>3, <2>1
<1>5. i + n \in i + 1 .. Len(t) + 1
  BY <1>1, <1>4
<1>6. \A k \in i .. (i + n) - 1 : t[k] \in {"col", "0", ","}
  <2>1. (i + n) - 1 = i + n - 1
    BY <1>1
  <2> QED
    BY <1>3, <2>1, Zenon
<1> QED
  BY <1>2, <1>5, <1>6, Zenon

LEMMA TokenEnds ==
  ASSUME NEW S, NEW t \in Seq(S), NEW i \in 1 .. Len(t)
  PROVE  TokenEnd(t, i) \in i + 1 .. Len(t) + 1
<1>1. Len(t) \in Nat
  BY SeqFacts
<1>2. CASE t[i] = "esc"
  BY <1>2, EscapeEnds DEF TokenEnd
<1>3. CASE t[i] = "col"
  BY <1>3, ColorEnds DEF TokenEnd
<1>4. CASE t[i] # "esc" /\ t[i] # "col"
  BY <1>1, <1>4 DEF TokenEnd
<1> QED
  BY <1>2, <1>3, <1>4

LEMMA ColorBytesHere ==
  ASSUME NEW S, NEW t \in Seq(S), NEW i \in 1 .. Len(t), t[i] = "col"
  PROVE  \A k \in i .. TokenEnd(t, i) - 1 : t[k] \in {"col", "0", ","}
<1>1. TokenEnd(t, i) = i + ColorSequence(t, i)
  BY DEF TokenEnd
<1>2. \A k \in i .. (i + ColorSequence(t, i)) - 1 : t[k] \in {"col", "0", ","}
  BY ColorEnds
<1>3. TokenEnd(t, i) - 1 = (i + ColorSequence(t, i)) - 1
  BY <1>1, Zenon
<1> QED
  BY <1>2, <1>3, Zenon

(* The functions that go from token to token. *)
Tokens(t) == [i \in 1 .. Len(t) |-> TokenEnd(t, i)]
Shows(t) == [i \in 1 .. Len(t) |-> IF PrintableUnsigned(t[i]) THEN 1 ELSE 0]
Misread(t) == [i \in 1 .. Len(t) |->
                 IF t[i] = "col" /\ At(t, TokenEnd(t, i)) = "esc"
                   THEN TokenEnd(t, TokenEnd(t, i)) - TokenEnd(t, i) - 1 ELSE 0]

LEMMA TokensForward ==
  ASSUME NEW S, NEW t \in Seq(S)
  PROVE  Tokens(t) \in Forward(Len(t), Len(t) + 1)
<1>1. Len(t) \in Nat /\ \A i \in 1 .. Len(t) : TokenEnd(t, i) \in i + 1 .. Len(t) + 1
  BY SeqFacts, TokenEnds
<1>2. \A i \in 1 .. Len(t) : TokenEnd(t, i) \in 1 .. Len(t) + 1 /\ TokenEnd(t, i) > i
  BY <1>1
<1> QED
  BY <1>2 DEF Tokens, Forward

(* The sums from each place on that make Visible, what is miscounted, and   *)
(* Drawn.                                                                   *)
VisibleFrom(t) ==
  CHOOSE from : from = [i \in 1 .. Len(t) + 1 |->
    IF i > Len(t) THEN 0
    ELSE (IF PrintableUnsigned(t[i]) THEN 1 ELSE 0) + from[TokenEnd(t, i)]]

MiscountedFrom(t) ==
  CHOOSE from : from = [i \in 1 .. Len(t) + 1 |->
    LET next == TokenEnd(t, i) IN
      IF i > Len(t) THEN 0
      ELSE (IF t[i] = "col" /\ At(t, next) = "esc"
              THEN TokenEnd(t, next) - next - 1 ELSE 0) + from[next]]

DrawnFrom(t) ==
  CHOOSE draw : draw = [i \in 1 .. Len(t) + 1 |->
    IF i > Len(t) THEN 0
    ELSE CASE t[i] = "col" -> draw[ColorEndOfTranslate(t, i)]
           [] t[i] = "esc" -> draw[EscapeEnd(t, i)]
           [] OTHER -> (IF PrintableUnsigned(t[i]) THEN 1 ELSE 0) + draw[i + 1]]

LEMMA VisibleIs ==
  ASSUME NEW S, NEW t \in Seq(S)
  PROVE  IsSum(VisibleFrom(t), Len(t), Len(t) + 1, Tokens(t), Shows(t))
<1> DEFINE n == Len(t)
           body(g) == [i \in 1 .. n + 1 |->
             IF i > n THEN 0
             ELSE (IF PrintableUnsigned(t[i]) THEN 1 ELSE 0) + g[TokenEnd(t, i)]]
<1>1. n \in Nat /\ n + 1 \in Nat /\ n <= n + 1 /\ Tokens(t) \in Forward(n, n + 1)
      /\ Shows(t) \in [1 .. n -> Nat]
  BY SeqFacts, TokensForward DEF Shows
<1>2. PICK g : IsSum(g, n, n + 1, Tokens(t), Shows(t))
  <2> HIDE DEF n
  <2> QED
    BY <1>1, SumExists
<1>3. g = body(g)
  <2>1. ASSUME NEW i \in 1 .. n + 1
        PROVE  g[i] = body(g)[i]
    <3>1. CASE i > n
      BY <1>2, <3>1 DEF IsSum
    <3>2. CASE ~(i > n)
      <4>1. i \in 1 .. n
        BY <1>1, <3>2
      <4> QED
        BY <1>2, <3>2, <4>1 DEF IsSum, Shows, Tokens
    <3> QED
      BY <3>1, <3>2
  <2>2. g = [i \in 1 .. n + 1 |-> g[i]]
    BY <1>2 DEF IsSum
  <2> QED
    BY <2>1, <2>2
<1>4. VisibleFrom(t) = body(VisibleFrom(t))
  BY <1>3, Zenon DEF VisibleFrom
<1> DEFINE f == VisibleFrom(t)
<1> HIDE DEF f
<1>5. /\ f = [i \in 1 .. n + 1 |-> f[i]]
      /\ \A i \in 1 .. n + 1 : i > n => f[i] = 0
      /\ \A i \in 1 .. n : f[i] = Shows(t)[i] + f[Tokens(t)[i]]
  <2>1. f = body(f)
    BY <1>4 DEF f
  <2>2. ASSUME NEW i \in 1 .. n
        PROVE  f[i] = Shows(t)[i] + f[Tokens(t)[i]]
    <3>1. i \in 1 .. n + 1 /\ ~(i > n)
      BY <1>1
    <3> QED
      BY <2>1, <3>1 DEF Shows, Tokens
  <2> QED
    BY <2>1, <2>2
<1> HIDE DEF n, body
<1>6. IsSum(f, n, n + 1, Tokens(t), Shows(t))
  BY <1>1, <1>5, AddsUp
<1> QED
  BY <1>6 DEF f, n

LEMMA MisreadIs ==
  ASSUME NEW S, NEW t \in Seq(S)
  PROVE  Misread(t) \in [1 .. Len(t) -> Nat]
<1> SUFFICES ASSUME NEW i \in 1 .. Len(t), t[i] = "col", At(t, TokenEnd(t, i)) = "esc"
             PROVE  TokenEnd(t, TokenEnd(t, i)) - TokenEnd(t, i) - 1 \in Nat
  BY DEF Misread
<1>1. TokenEnd(t, i) \in 1 .. Len(t)
  BY SeqFacts DEF At, NUL
<1>2. Len(t) \in Nat /\ TokenEnd(t, TokenEnd(t, i)) \in TokenEnd(t, i) + 1 .. Len(t) + 1
  BY <1>1, SeqFacts, TokenEnds
<1> QED
  BY <1>1, <1>2

LEMMA MiscountedIs ==
  ASSUME NEW S, NEW t \in Seq(S)
  PROVE  IsSum(MiscountedFrom(t), Len(t), Len(t) + 1, Tokens(t), Misread(t))
<1> DEFINE n == Len(t)
           body(g) == [i \in 1 .. n + 1 |->
             LET next == TokenEnd(t, i) IN
               IF i > n THEN 0
               ELSE (IF t[i] = "col" /\ At(t, next) = "esc"
                       THEN TokenEnd(t, next) - next - 1 ELSE 0) + g[next]]
<1>1. n \in Nat /\ n + 1 \in Nat /\ n <= n + 1 /\ Tokens(t) \in Forward(n, n + 1)
      /\ Misread(t) \in [1 .. n -> Nat]
  BY SeqFacts, TokensForward, MisreadIs
<1>2. PICK g : IsSum(g, n, n + 1, Tokens(t), Misread(t))
  <2> HIDE DEF n
  <2> QED
    BY <1>1, SumExists
<1>3. g = body(g)
  <2>1. ASSUME NEW i \in 1 .. n + 1
        PROVE  g[i] = body(g)[i]
    <3>1. CASE i > n
      BY <1>2, <3>1 DEF IsSum
    <3>2. CASE ~(i > n)
      <4>1. i \in 1 .. n
        BY <1>1, <3>2
      <4> QED
        BY <1>2, <3>2, <4>1 DEF IsSum, Misread, Tokens
    <3> QED
      BY <3>1, <3>2
  <2>2. g = [i \in 1 .. n + 1 |-> g[i]]
    BY <1>2 DEF IsSum
  <2> QED
    BY <2>1, <2>2
<1>4. MiscountedFrom(t) = body(MiscountedFrom(t))
  BY <1>3, Zenon DEF MiscountedFrom
<1> DEFINE f == MiscountedFrom(t)
<1> HIDE DEF f
<1>5. /\ f = [i \in 1 .. n + 1 |-> f[i]]
      /\ \A i \in 1 .. n + 1 : i > n => f[i] = 0
      /\ \A i \in 1 .. n : f[i] = Misread(t)[i] + f[Tokens(t)[i]]
  <2>1. f = body(f)
    BY <1>4 DEF f
  <2>2. ASSUME NEW i \in 1 .. n
        PROVE  f[i] = Misread(t)[i] + f[Tokens(t)[i]]
    <3>1. i \in 1 .. n + 1 /\ ~(i > n)
      BY <1>1
    <3> QED
      BY <2>1, <3>1 DEF Misread, Tokens
  <2> QED
    BY <2>1, <2>2
<1> HIDE DEF n, body
<1>6. IsSum(f, n, n + 1, Tokens(t), Misread(t))
  BY <1>1, <1>5, AddsUp
<1> QED
  BY <1>6 DEF f, n

(* Since colours and escapes do not show themselves, drawing goes from token *)
(* to token and copies what shows.                                          *)
LEMMA DrawnIs ==
  ASSUME NEW S, NEW t \in Seq(S)
  PROVE  IsSum(DrawnFrom(t), Len(t), Len(t) + 1, Tokens(t), Shows(t))
<1> DEFINE n == Len(t)
           body(g) == [i \in 1 .. n + 1 |->
             IF i > n THEN 0
             ELSE CASE t[i] = "col" -> g[ColorEndOfTranslate(t, i)]
                    [] t[i] = "esc" -> g[EscapeEnd(t, i)]
                    [] OTHER -> (IF PrintableUnsigned(t[i]) THEN 1 ELSE 0) + g[i + 1]]
<1>1. n \in Nat /\ n + 1 \in Nat /\ n <= n + 1 /\ Tokens(t) \in Forward(n, n + 1)
      /\ Shows(t) \in [1 .. n -> Nat]
  BY SeqFacts, TokensForward DEF Shows
<1>2. PICK g : IsSum(g, n, n + 1, Tokens(t), Shows(t))
  <2> HIDE DEF n
  <2> QED
    BY <1>1, SumExists
<1>3. ASSUME NEW f, NEW i \in 1 .. n
      PROVE  body(f)[i] = IF t[i] \in {"esc", "col"} THEN f[TokenEnd(t, i)]
                          ELSE Shows(t)[i] + f[TokenEnd(t, i)]
  <2>1. i \in 1 .. n + 1 /\ ~(i > n) /\ DOMAIN t = 1 .. n
    BY <1>1, SeqFacts
  <2>2. CASE t[i] = "col"
    <3>1. ColorEndOfTranslate(t, i) = TokenEnd(t, i)
      BY <2>1, <2>2, ReadAlike DEF ColorsAreReadAlike, TokenEnd
    <3> QED
      BY <2>1, <2>2, <3>1
  <2>3. CASE t[i] = "esc"
    BY <2>1, <2>3 DEF TokenEnd
  <2>4. CASE t[i] # "col" /\ t[i] # "esc"
    BY <2>1, <2>4 DEF TokenEnd, Shows
  <2> QED
    BY <2>2, <2>3, <2>4
<1>4. g = body(g)
  <2>1. ASSUME NEW i \in 1 .. n + 1
        PROVE  g[i] = body(g)[i]
    <3>1. CASE i > n
      BY <1>2, <3>1 DEF IsSum
    <3>2. CASE ~(i > n)
      <4>1. i \in 1 .. n /\ TokenEnd(t, i) \in 1 .. n + 1
        BY <1>1, <3>2, TokenEnds
      <4>2. g[i] = Shows(t)[i] + g[TokenEnd(t, i)] /\ g[TokenEnd(t, i)] \in Nat
        BY <1>2, <3>2, <4>1 DEF IsSum, Tokens
      <4>3. t[i] \in {"esc", "col"} => Shows(t)[i] = 0
        BY <4>1 DEF Shows, PrintableUnsigned, Printable
      <4> HIDE DEF body
      <4> QED
        BY <1>3, <4>1, <4>2, <4>3
    <3> QED
      BY <3>1, <3>2
  <2>2. g = [i \in 1 .. n + 1 |-> g[i]]
    BY <1>2 DEF IsSum
  <2> QED
    BY <2>1, <2>2
<1>5. DrawnFrom(t) = body(DrawnFrom(t))
  BY <1>4, Zenon DEF DrawnFrom
<1> DEFINE f == DrawnFrom(t)
<1> HIDE DEF f
<1>6. f = body(f)
  BY <1>5 DEF f
<1>7. /\ f = [i \in 1 .. n + 1 |-> f[i]]
      /\ \A i \in 1 .. n + 1 : i > n => f[i] = 0
  BY <1>6
<1> HIDE DEF body
<1>8. ASSUME NEW i \in 1 .. n, f[Tokens(t)[i]] \in Nat
      PROVE  f[i] = Shows(t)[i] + f[Tokens(t)[i]]
  <2>1. f[i] = IF t[i] \in {"esc", "col"} THEN f[TokenEnd(t, i)]
               ELSE Shows(t)[i] + f[TokenEnd(t, i)]
    BY <1>3, <1>6
  <2>2. t[i] \in {"esc", "col"} => Shows(t)[i] = 0
    BY DEF Shows, PrintableUnsigned, Printable
  <2>3. Tokens(t)[i] = TokenEnd(t, i)
    BY DEF Tokens
  <2> QED
    BY <1>8, <2>1, <2>2, <2>3
<1> HIDE DEF n
<1>9. IsSum(f, n, n + 1, Tokens(t), Shows(t))
  BY <1>1, <1>7, <1>8, AddsUp
<1> QED
  BY <1>9 DEF f, n

LEMMA SameSum ==
  ASSUME NEW n \in Nat, NEW m \in Nat, n <= m, NEW next \in Forward(n, m), NEW w,
         NEW f, NEW g, IsSum(f, n, m, next, w), IsSum(g, n, m, next, w)
  PROVE  f = g
<1> DEFINE T == {i \in 1 .. m : f[i] = g[i]}
<1>1. ASSUME NEW i \in 1 .. m, \A j \in i + 1 .. m : j \in T
      PROVE  i \in T
  <2>1. CASE i > n
    BY <2>1 DEF IsSum
  <2>2. CASE ~(i > n)
    <3>1. i \in 1 .. n
      BY <2>2
    <3>2. next[i] \in i + 1 .. m
      BY <3>1 DEF Forward
    <3>3. f[next[i]] = g[next[i]]
      BY <1>1, <3>2
    <3> QED
      BY <2>2, <3>3 DEF IsSum
  <2> QED
    BY <2>1, <2>2
<1>2. 1 .. m \subseteq T
  <2> HIDE DEF T
  <2> QED
    BY <1>1, FromTheEnd
<1> QED
  BY <1>2 DEF IsSum

LEMMA DrawnIsVisible ==
  ASSUME NEW S, NEW t \in Seq(S)
  PROVE  DrawnFrom(t) = VisibleFrom(t) /\ Drawn(t) = Visible(t)
<1>1. Len(t) \in Nat /\ Len(t) + 1 \in Nat /\ Len(t) <= Len(t) + 1
  BY SeqFacts
<1>2. DrawnFrom(t) = VisibleFrom(t)
  BY <1>1, DrawnIs, VisibleIs, TokensForward, SameSum
<1>3. Drawn(t) = DrawnFrom(t)[1] /\ Visible(t) = VisibleFrom(t)[1]
  BY Zenon DEF Drawn, DrawnFrom, Visible, VisibleFrom
<1> QED
  BY <1>2, <1>3

(* Past the tokens that begin at a place of G, one after the other.         *)
IsPast(f, n, G, next) ==
  f = [j \in 1 .. n + 1 |-> IF j \in G THEN f[next[j]] ELSE j]

LEMMA PastExists ==
  ASSUME NEW n \in Nat, NEW G \in SUBSET (1 .. n), NEW next \in Forward(n, n + 1)
  PROVE  \E f : IsPast(f, n, G, next)
<1> DEFINE V == 1 .. n + 1
           g == [j \in 1 .. n |-> [v \in V |-> IF j \in G THEN v ELSE j]]
<1>1. g \in Steps(n, V) /\ n + 1 \in V /\ n + 1 \in Nat /\ n <= n + 1
  BY DEF Steps
<1>2. \E f : IsUnwound(f, n, n + 1, V, n + 1, next, g)
  <2> HIDE DEF g, V
  <2> QED
    BY <1>1, Unwinding
<1>3. PICK f : IsUnwound(f, n, n + 1, V, n + 1, next, g)
  BY <1>2
<1>4. f \in [1 .. n + 1 -> V]
      /\ \A j \in 1 .. n + 1 : f[j] = IF j > n THEN n + 1 ELSE g[j][f[next[j]]]
  BY <1>3, Zenon DEF IsUnwound
<1>5. ASSUME NEW j \in 1 .. n + 1
      PROVE  f[j] = IF j \in G THEN f[next[j]] ELSE j
  <2>1. CASE j > n
    <3>1. j \notin G /\ j = n + 1
      BY <2>1
    <3> QED
      BY <1>4, <2>1, <3>1
  <2>2. CASE ~(j > n)
    <3>1. j \in 1 .. n
      BY <2>2
    <3>2. next[j] \in 1 .. n + 1
      BY <3>1 DEF Forward
    <3>3. f[next[j]] \in V
      BY <1>4, <3>2
    <3>4. f[j] = g[j][f[next[j]]]
      BY <1>4, <2>2
    <3> QED
      BY <3>1, <3>3, <3>4
  <2> QED
    BY <2>1, <2>2
<1>6. f = [j \in 1 .. n + 1 |-> f[j]]
  BY <1>4
<1>7. IsPast(f, n, G, next)
  BY <1>5, <1>6 DEF IsPast
<1> QED
  BY <1>7

EndsPast(f, n, G, next) ==
  \A j \in 1 .. n + 1 : f[j] \in j .. n + 1 /\ f[j] = IF j \in G THEN f[next[j]] ELSE j

LEMMA PastEnds ==
  ASSUME NEW n \in Nat, NEW G \in SUBSET (1 .. n), NEW next \in Forward(n, n + 1),
         NEW f, IsPast(f, n, G, next)
  PROVE  EndsPast(f, n, G, next)
<1> DEFINE T == {j \in 1 .. n + 1 : f[j] \in j .. n + 1}
<1>1. \A j \in 1 .. n + 1 : f[j] = IF j \in G THEN f[next[j]] ELSE j
  BY DEF IsPast
<1>2. ASSUME NEW i \in 1 .. n + 1, \A j \in i + 1 .. n + 1 : j \in T
      PROVE  i \in T
  <2>1. CASE i \in G
    <3>1. i \in 1 .. n
      BY <2>1
    <3>2. next[i] \in i + 1 .. n + 1
      BY <3>1 DEF Forward
    <3>3. f[next[i]] \in next[i] .. n + 1
      BY <1>2, <3>2
    <3> QED
      BY <1>1, <2>1, <3>2, <3>3
  <2>2. CASE i \notin G
    BY <1>1, <2>2
  <2> QED
    BY <2>1, <2>2
<1>3. 1 .. n + 1 \subseteq T
  <2> HIDE DEF T
  <2>1. n + 1 \in Nat
    OBVIOUS
  <2> QED
    BY <1>2, <2>1, FromTheEnd
<1> QED
  BY <1>1, <1>3 DEF EndsPast

Standing(t, c) == {j \in 1 .. Len(t) : t[j] = c}

PastEscapes(t) ==
  CHOOSE after : after = [j \in 1 .. Len(t) + 1 |->
    IF At(t, j) = "esc" THEN after[EscapeEnd(t, j)] ELSE j]

PastColors(t) ==
  CHOOSE after : after = [j \in 1 .. Len(t) + 1 |->
    IF At(t, j) = "col" THEN after[ColorEndOfStrlen(t, j)] ELSE j]

LEMMA AfterEscapesIs ==
  ASSUME NEW S, NEW t \in Seq(S)
  PROVE  \A j \in 1 .. Len(t) + 1 :
           /\ AfterEscapes(t, j) \in j .. Len(t) + 1
           /\ AfterEscapes(t, j) = IF j \in Standing(t, "esc")
                                     THEN AfterEscapes(t, TokenEnd(t, j)) ELSE j
<1> DEFINE n == Len(t)
           G == Standing(t, "esc")
           body(g) == [j \in 1 .. n + 1 |-> IF At(t, j) = "esc" THEN g[EscapeEnd(t, j)] ELSE j]
<1>1. n \in Nat /\ G \in SUBSET (1 .. n) /\ Tokens(t) \in Forward(n, n + 1)
  BY SeqFacts, TokensForward DEF Standing
<1>2. ASSUME NEW g
      PROVE  body(g) = [j \in 1 .. n + 1 |-> IF j \in G THEN g[Tokens(t)[j]] ELSE j]
  <2>1. ASSUME NEW j \in 1 .. n + 1
        PROVE  /\ At(t, j) = "esc" <=> j \in G
               /\ j \in G => Tokens(t)[j] = EscapeEnd(t, j)
    BY SeqFacts DEF At, NUL, Standing, Tokens, TokenEnd
  <2> HIDE DEF G
  <2> QED
    BY <2>1
<1>3. \A g : g = body(g) <=> IsPast(g, n, G, Tokens(t))
  BY <1>2 DEF IsPast
<1>4. PICK g : IsPast(g, n, G, Tokens(t))
  <2> HIDE DEF n, G
  <2> QED
    BY <1>1, PastExists
<1>5. g = body(g)
  BY <1>3, <1>4
<1>6. PastEscapes(t) = body(PastEscapes(t))
  BY <1>5, Zenon DEF PastEscapes
<1>7. IsPast(PastEscapes(t), n, G, Tokens(t))
  BY <1>3, <1>6
<1>8. \A j : AfterEscapes(t, j) = PastEscapes(t)[j]
  BY Zenon DEF AfterEscapes, PastEscapes
<1>9. \A j \in 1 .. n + 1 :
        /\ PastEscapes(t)[j] \in j .. n + 1
        /\ PastEscapes(t)[j] = IF j \in G THEN PastEscapes(t)[Tokens(t)[j]] ELSE j
  <2> DEFINE f == PastEscapes(t)
             next == Tokens(t)
  <2>1. n \in Nat /\ G \in SUBSET (1 .. n) /\ next \in Forward(n, n + 1)
        /\ IsPast(f, n, G, next)
    BY <1>1, <1>7
  <2> HIDE DEF n, G, f, next
  <2>2. EndsPast(f, n, G, next)
    BY <2>1, PastEnds
  <2> QED
    BY <2>2 DEF EndsPast, f, next
<1>10. \A j \in G : Tokens(t)[j] = TokenEnd(t, j)
  BY DEF Tokens, Standing
<1> QED
  BY <1>8, <1>9, <1>10

LEMMA AfterColorsIs ==
  ASSUME NEW S, NEW t \in Seq(S)
  PROVE  \A j \in 1 .. Len(t) + 1 :
           /\ AfterColors(t, j) \in j .. Len(t) + 1
           /\ AfterColors(t, j) = IF j \in Standing(t, "col")
                                    THEN AfterColors(t, TokenEnd(t, j)) ELSE j
<1> DEFINE n == Len(t)
           G == Standing(t, "col")
           body(g) == [j \in 1 .. n + 1 |-> IF At(t, j) = "col" THEN g[ColorEndOfStrlen(t, j)] ELSE j]
<1>1. n \in Nat /\ G \in SUBSET (1 .. n) /\ Tokens(t) \in Forward(n, n + 1)
  BY SeqFacts, TokensForward DEF Standing
<1>2. ASSUME NEW g
      PROVE  body(g) = [j \in 1 .. n + 1 |-> IF j \in G THEN g[Tokens(t)[j]] ELSE j]
  <2>1. ASSUME NEW j \in 1 .. n + 1
        PROVE  /\ At(t, j) = "col" <=> j \in G
               /\ j \in G => Tokens(t)[j] = ColorEndOfStrlen(t, j)
    <3>1. At(t, j) = "col" <=> j \in G
      BY SeqFacts DEF At, NUL, Standing
    <3>2. ASSUME j \in G
          PROVE  Tokens(t)[j] = ColorEndOfStrlen(t, j)
      <4>1. j \in 1 .. n /\ j \in DOMAIN t /\ t[j] = "col"
        BY <3>2, SeqFacts DEF Standing
      <4>2. ColorEndOfStrlen(t, j) = j + ColorSequence(t, j)
        BY <4>1, ReadAlike DEF ColorsAreReadAlike
      <4> QED
        BY <4>1, <4>2 DEF Tokens, TokenEnd
    <3> QED
      BY <3>1, <3>2
  <2> HIDE DEF G
  <2> QED
    BY <2>1
<1>3. \A g : g = body(g) <=> IsPast(g, n, G, Tokens(t))
  BY <1>2 DEF IsPast
<1>4. PICK g : IsPast(g, n, G, Tokens(t))
  <2> HIDE DEF n, G
  <2> QED
    BY <1>1, PastExists
<1>5. g = body(g)
  BY <1>3, <1>4
<1>6. PastColors(t) = body(PastColors(t))
  BY <1>5, Zenon DEF PastColors
<1>7. IsPast(PastColors(t), n, G, Tokens(t))
  BY <1>3, <1>6
<1>8. \A j : AfterColors(t, j) = PastColors(t)[j]
  BY Zenon DEF AfterColors, PastColors
<1>9. \A j \in 1 .. n + 1 :
        /\ PastColors(t)[j] \in j .. n + 1
        /\ PastColors(t)[j] = IF j \in G THEN PastColors(t)[Tokens(t)[j]] ELSE j
  <2> DEFINE f == PastColors(t)
             next == Tokens(t)
  <2>1. n \in Nat /\ G \in SUBSET (1 .. n) /\ next \in Forward(n, n + 1)
        /\ IsPast(f, n, G, next)
    BY <1>1, <1>7
  <2> HIDE DEF n, G, f, next
  <2>2. EndsPast(f, n, G, next)
    BY <2>1, PastEnds
  <2> QED
    BY <2>2 DEF EndsPast, f, next
<1>10. \A j \in G : Tokens(t)[j] = TokenEnd(t, j)
  BY DEF Tokens, Standing
<1> QED
  BY <1>8, <1>9, <1>10

(* Where strlen_on_screen looks for what shows.                             *)
Stop(t, i) == AfterColors(t, AfterEscapes(t, i))
Passed == {"bold", "ctl", "hi"}
Strides(t) == [i \in 1 .. Len(t) |-> IF t[i] \in Passed THEN i + 1 ELSE Stop(t, i) + 1]
Counts(t) == [i \in 1 .. Len(t) |->
                IF t[i] \notin Passed /\ Printable(At(t, Stop(t, i))) THEN 1 ELSE 0]

CountedFrom(t) ==
  CHOOSE count : count = [i \in 1 .. Len(t) + 2 |->
    IF i > Len(t) THEN 0
    ELSE IF t[i] \in {"bold", "ctl", "hi"} THEN count[i + 1]
    ELSE LET k == AfterColors(t, AfterEscapes(t, i))
         IN  (IF Printable(At(t, k)) THEN 1 ELSE 0) + count[k + 1]]

LEMMA Stops ==
  ASSUME NEW S, NEW t \in Seq(S), NEW j \in 1 .. Len(t) + 1
  PROVE  /\ Stop(t, j) \in j .. Len(t) + 1
         /\ j \in Standing(t, "esc") => Stop(t, j) = Stop(t, TokenEnd(t, j))
         /\ j \in Standing(t, "col") => Stop(t, j) = AfterColors(t, TokenEnd(t, j))
         /\ j \notin Standing(t, "esc") => Stop(t, j) = AfterColors(t, j)
         /\ j \notin Standing(t, "col") => AfterColors(t, j) = j
<1>1. AfterEscapes(t, j) \in j .. Len(t) + 1 /\ Len(t) \in Nat
      /\ AfterEscapes(t, j) = IF j \in Standing(t, "esc")
                                     THEN AfterEscapes(t, TokenEnd(t, j)) ELSE j
  BY AfterEscapesIs, SeqFacts
<1>2. \A k \in 1 .. Len(t) + 1 :
           /\ AfterColors(t, k) \in k .. Len(t) + 1
           /\ AfterColors(t, k) = IF k \in Standing(t, "col")
                                    THEN AfterColors(t, TokenEnd(t, k)) ELSE k
  BY AfterColorsIs
<1>3. Stop(t, j) \in j .. Len(t) + 1
  BY <1>1, <1>2 DEF Stop
<1>4. ~(j \in Standing(t, "col") /\ j \in Standing(t, "esc"))
  BY DEF Standing
<1> QED
  BY <1>1, <1>2, <1>3, <1>4, Zenon DEF Stop

LEMMA CountedIs ==
  ASSUME NEW S, NEW t \in Seq(S)
  PROVE  IsSum(CountedFrom(t), Len(t), Len(t) + 2, Strides(t), Counts(t))
<1> DEFINE n == Len(t)
           m == n + 2
           body(g) == [i \in 1 .. m |->
             IF i > n THEN 0
             ELSE IF t[i] \in {"bold", "ctl", "hi"} THEN g[i + 1]
             ELSE LET k == AfterColors(t, AfterEscapes(t, i))
                  IN  (IF Printable(At(t, k)) THEN 1 ELSE 0) + g[k + 1]]
<1>1. n \in Nat /\ m \in Nat /\ n <= m /\ Counts(t) \in [1 .. n -> Nat]
  BY SeqFacts DEF Counts
<1>2. Strides(t) \in Forward(n, m)
  <2>1. ASSUME NEW i \in 1 .. n
        PROVE  Strides(t)[i] \in 1 .. m /\ Strides(t)[i] > i
    <3>1. Stop(t, i) \in i .. n + 1
      BY <1>1, Stops
    <3> QED
      BY <1>1, <3>1 DEF Strides
  <2> QED
    BY <2>1 DEF Strides, Forward
<1>3. PICK g : IsSum(g, n, m, Strides(t), Counts(t))
  <2> HIDE DEF n, m
  <2> QED
    BY <1>1, <1>2, SumExists
<1>4. ASSUME NEW h, NEW i \in 1 .. n
      PROVE  body(h)[i] = IF t[i] \in Passed THEN h[Strides(t)[i]]
                          ELSE Counts(t)[i] + h[Strides(t)[i]]
  <2>1. i \in 1 .. m /\ ~(i > n)
    BY <1>1
  <2>2. CASE t[i] \in Passed
    BY <2>1, <2>2 DEF Strides, Passed
  <2>3. CASE t[i] \notin Passed
    BY <2>1, <2>3 DEF Strides, Passed, Counts, Stop
  <2> QED
    BY <2>2, <2>3
<1>5. \A i \in 1 .. n : t[i] \in Passed => Counts(t)[i] = 0
  BY DEF Counts
<1>6. g = body(g)
  <2>1. ASSUME NEW i \in 1 .. m
        PROVE  g[i] = body(g)[i]
    <3>1. CASE i > n
      BY <1>3, <3>1 DEF IsSum
    <3>2. CASE ~(i > n)
      <4>1. i \in 1 .. n /\ Strides(t)[i] \in 1 .. m
        BY <1>1, <1>2, <3>2 DEF Forward
      <4>2. g[i] = Counts(t)[i] + g[Strides(t)[i]] /\ g[Strides(t)[i]] \in Nat
        BY <1>3, <3>2, <4>1 DEF IsSum
      <4> HIDE DEF body
      <4> QED
        BY <1>4, <1>5, <4>1, <4>2
    <3> QED
      BY <3>1, <3>2
  <2>2. g = [i \in 1 .. m |-> g[i]]
    BY <1>3 DEF IsSum
  <2> QED
    BY <2>1, <2>2
<1>7. CountedFrom(t) = body(CountedFrom(t))
  BY <1>6, Zenon DEF CountedFrom
<1> DEFINE f == CountedFrom(t)
<1> HIDE DEF f
<1>8. f = body(f)
  BY <1>7 DEF f
<1>9. /\ f = [i \in 1 .. m |-> f[i]]
      /\ \A i \in 1 .. m : i > n => f[i] = 0
  BY <1>8
<1> HIDE DEF body
<1>10. ASSUME NEW i \in 1 .. n, f[Strides(t)[i]] \in Nat
       PROVE  f[i] = Counts(t)[i] + f[Strides(t)[i]]
  BY <1>4, <1>5, <1>8, <1>10
<1> HIDE DEF n, m
<1>11. IsSum(f, n, m, Strides(t), Counts(t))
  BY <1>1, <1>2, <1>9, <1>10, AddsUp
<1> QED
  BY <1>11 DEF f, n, m

One(c) == IF Printable(c) THEN 1 ELSE 0

(* From each place on it counts what shows where it looks, and all behind.  *)
LEMMA CountsWhereItStops ==
  ASSUME NEW S, NEW t \in Seq(S), NEW i \in 1 .. Len(t) + 1
  PROVE  /\ CountedFrom(t)[Stop(t, i) + 1] \in Nat
         /\ CountedFrom(t)[i] = One(At(t, Stop(t, i))) + CountedFrom(t)[Stop(t, i) + 1]
<1> DEFINE n == Len(t)
           c == CountedFrom(t)
<1>1. n \in Nat /\ DOMAIN t = 1 .. n
  BY SeqFacts
<1>2. IsSum(c, n, n + 2, Strides(t), Counts(t))
  BY CountedIs
<1>3. Stop(t, i) \in i .. n + 1
  BY Stops
<1> HIDE DEF c
<1>4. c[Stop(t, i) + 1] \in Nat
  BY <1>1, <1>2, <1>3 DEF IsSum
<1>5. CASE i = n + 1
  <2>1. Stop(t, i) = n + 1
    BY <1>1, <1>3, <1>5
  <2>2. c[n + 1] = 0 /\ c[n + 2] = 0
    BY <1>1, <1>2 DEF IsSum
  <2>3. One(At(t, n + 1)) = 0
    <3>1. n + 1 \notin DOMAIN t
      BY <1>1
    <3>2. At(t, n + 1) = "nul"
      BY <3>1, Zenon DEF At, NUL
    <3> QED
      BY <3>2 DEF One, Printable
  <2>4. (n + 1) + 1 = n + 2
    BY <1>1
  <2> HIDE DEF n
  <2>5. c[i] = One(At(t, Stop(t, i))) + c[Stop(t, i) + 1]
    BY <1>5, <2>1, <2>2, <2>3, <2>4
  <2> QED
    BY <1>4, <2>5 DEF c
<1>6. CASE i # n + 1
  <2>1. i \in 1 .. n
    BY <1>1, <1>6
  <2>2. c[i] = Counts(t)[i] + c[Strides(t)[i]]
    BY <1>1, <1>2, <2>1 DEF IsSum
  <2>3. CASE t[i] \in Passed
    <3>1. i \notin Standing(t, "esc") /\ i \notin Standing(t, "col")
      BY <2>3 DEF Standing, Passed
    <3>2. Stop(t, i) = i
      BY <3>1, Stops
    <3>3. One(At(t, i)) = 0 /\ Counts(t)[i] = 0 /\ Strides(t)[i] = i + 1
      BY <1>1, <2>1, <2>3 DEF One, At, Passed, Printable, Counts, Strides
    <3> QED
      BY <1>4, <2>2, <3>2, <3>3 DEF c
  <2>4. CASE t[i] \notin Passed
    <3>1. Counts(t)[i] = One(At(t, Stop(t, i))) /\ Strides(t)[i] = Stop(t, i) + 1
      BY <2>1, <2>4 DEF One, Counts, Strides
    <3> QED
      BY <1>4, <2>2, <3>1 DEF c
  <2> QED
    BY <2>3, <2>4
<1> QED
  BY <1>5, <1>6

LEMMA CountedSteps ==
  ASSUME NEW S, NEW t \in Seq(S), NEW i \in 1 .. Len(t)
  PROVE  /\ CountedFrom(t)[i] \in Nat
         /\ t[i] \notin {"esc", "col"} =>
              CountedFrom(t)[i] = One(t[i]) + CountedFrom(t)[i + 1]
         /\ t[i] = "esc" => CountedFrom(t)[i] = CountedFrom(t)[TokenEnd(t, i)]
         /\ t[i] = "col" /\ At(t, TokenEnd(t, i)) # "esc" =>
              CountedFrom(t)[i] = CountedFrom(t)[TokenEnd(t, i)]
         /\ t[i] = "col" /\ At(t, TokenEnd(t, i)) = "esc" =>
              CountedFrom(t)[i] = CountedFrom(t)[TokenEnd(t, i) + 1]
<1> DEFINE n == Len(t)
           c == CountedFrom(t)
           j == TokenEnd(t, i)
<1>1. n \in Nat /\ DOMAIN t = 1 .. n /\ i \in 1 .. n + 1 /\ j \in 1 .. n + 1 /\ At(t, i) = t[i]
  BY SeqFacts, TokenEnds DEF At
<1>2. \A k \in 1 .. n + 1 : /\ c[Stop(t, k) + 1] \in Nat
                            /\ c[k] = One(At(t, Stop(t, k))) + c[Stop(t, k) + 1]
  BY CountsWhereItStops
<1>3. /\ i \in Standing(t, "esc") <=> t[i] = "esc"
      /\ i \in Standing(t, "col") <=> t[i] = "col"
      /\ j \in Standing(t, "esc") <=> At(t, j) = "esc"
      /\ j \in Standing(t, "col") <=> At(t, j) = "col"
  <2> HIDE DEF j
  <2> QED
    BY <1>1 DEF Standing, At, NUL
<1> HIDE DEF c
<1>4. c[i] \in Nat
  <2>1. One(At(t, Stop(t, i))) \in Nat
    BY DEF One
  <2> QED
    BY <1>1, <1>2, <2>1
<1>5. ASSUME t[i] \notin {"esc", "col"}
      PROVE  c[i] = One(t[i]) + c[i + 1]
  <2>1. Stop(t, i) = i
    BY <1>1, <1>3, <1>5, Stops
  <2> QED
    BY <1>1, <1>2, <2>1
<1>6. ASSUME t[i] = "esc"
      PROVE  c[i] = c[j]
  <2>1. Stop(t, i) = Stop(t, j)
    BY <1>1, <1>3, <1>6, Stops
  <2> HIDE DEF j
  <2> QED
    BY <1>1, <1>2, <2>1
<1>7. ASSUME t[i] = "col"
      PROVE  Stop(t, i) = AfterColors(t, j)
  BY <1>1, <1>3, <1>7, Stops
<1>8. ASSUME t[i] = "col", At(t, j) # "esc"
      PROVE  c[i] = c[j]
  <2>1. Stop(t, j) = AfterColors(t, j)
    <3> HIDE DEF j
    <3> QED
      BY <1>1, <1>3, <1>8, Stops
  <2>2. Stop(t, i) = Stop(t, j)
    BY <1>7, <1>8, <2>1
  <2> HIDE DEF j
  <2> QED
    BY <1>1, <1>2, <2>2
<1>9. ASSUME t[i] = "col", At(t, j) = "esc"
      PROVE  c[i] = c[j + 1]
  <2>1. AfterColors(t, j) = j
    <3> HIDE DEF j
    <3> QED
      BY <1>1, <1>3, <1>9, Stops
  <2>2. Stop(t, i) = j /\ One(At(t, j)) = 0
    BY <1>7, <1>9, <2>1 DEF One, Printable
  <2> HIDE DEF j
  <2>3. c[j + 1] \in Nat /\ c[i] = 0 + c[j + 1]
    BY <1>1, <1>2, <2>2
  <2> QED
    BY <2>3
<1> QED
  BY <1>4, <1>5, <1>6, <1>8, <1>9 DEF c, j

(* Inside an escape sequence it counts every byte.                          *)
LEMMA CountedInEscape ==
  ASSUME NEW S, NEW t \in Seq(S), NEW p \in Nat \ {0}, NEW e \in p .. Len(t) + 1,
         \A k \in p .. e - 1 : Printable(t[k])
  PROVE  CountedFrom(t)[p] = (e - p) + CountedFrom(t)[e]
<1> DEFINE n == Len(t)
           c == CountedFrom(t)
           T == {k \in 1 .. e : k >= p => c[k] = (e - k) + c[e]}
<1>1. n \in Nat /\ e \in Nat /\ p \in Nat /\ p >= 1 /\ p <= e /\ e <= n + 1
  BY SeqFacts
<1>2. \A k \in 1 .. n + 1 : c[k] \in Nat
  BY <1>1, CountedIs DEF IsSum
<1>3. ASSUME NEW i \in 1 .. e, \A k \in i + 1 .. e : k \in T
      PROVE  i \in T
  <2>1. SUFFICES ASSUME i >= p
                 PROVE  c[i] = (e - i) + c[e]
    OBVIOUS
  <2>2. CASE i = e
    BY <1>1, <1>2, <2>2
  <2>3. CASE i # e
    <3>1. i \in p .. e - 1 /\ i \in 1 .. n /\ i + 1 \in i + 1 .. e
      BY <1>1, <2>1, <2>3
    <3>2. t[i] \notin {"esc", "col"} /\ One(t[i]) = 1
      BY <3>1 DEF Printable, One
    <3>3. c[i] = 1 + c[i + 1]
      BY <3>1, <3>2, CountedSteps
    <3>4. c[i + 1] = (e - (i + 1)) + c[e]
      BY <1>3, <2>1, <3>1
    <3>5. c[i + 1] \in Nat /\ c[e] \in Nat
      BY <1>1, <1>2, <3>1
    <3> HIDE DEF c
    <3> QED
      BY <1>1, <3>3, <3>4, <3>5
  <2> QED
    BY <2>2, <2>3
<1>4. 1 .. e \subseteq T
  <2> HIDE DEF T
  <2> QED
    BY <1>1, <1>3, FromTheEnd
<1>5. p \in T
  BY <1>1, <1>4
<1> QED
  BY <1>5

(* The bytes above 127 from a place on.                                     *)
High(t, i) == {k \in DOMAIN t : t[k] = "hi" /\ k >= i}

LEMMA HighFrom ==
  ASSUME NEW S, NEW t \in Seq(S), NEW i \in 1 .. Len(t)
  PROVE  /\ Cardinality(High(t, i)) \in Nat
         /\ t[i] = "hi" => Cardinality(High(t, i)) = Cardinality(High(t, i + 1)) + 1
         /\ \A j \in Nat : j >= i /\ (\A k \in i .. j - 1 : k <= Len(t) => t[k] # "hi") =>
              Cardinality(High(t, i)) = Cardinality(High(t, j))
<1>1. Len(t) \in Nat /\ DOMAIN t = 1 .. Len(t)
  BY SeqFacts
<1>2. \A j : IsFiniteSet(High(t, j))
  <2> TAKE j
  <2>1. High(t, j) \in SUBSET (1 .. Len(t)) /\ IsFiniteSet(1 .. Len(t))
    BY <1>1, FS_Interval DEF High
  <2> QED
    BY <2>1, FS_Subset
<1>3. \A j : Cardinality(High(t, j)) \in Nat
  BY <1>2, FS_CardinalityType
<1>4. ASSUME t[i] = "hi"
      PROVE  Cardinality(High(t, i)) = Cardinality(High(t, i + 1)) + 1
  <2>1. High(t, i) = High(t, i + 1) \cup {i} /\ i \notin High(t, i + 1)
    BY <1>1, <1>4 DEF High
  <2> QED
    BY <1>2, <2>1, FS_AddElement
<1>5. ASSUME NEW j \in Nat, j >= i, \A k \in i .. j - 1 : k <= Len(t) => t[k] # "hi"
      PROVE  High(t, i) = High(t, j)
  BY <1>1, <1>5 DEF High
<1> QED
  BY <1>3, <1>4, <1>5

(* An escape sequence of a well-formed text has no such byte.               *)
LEMMA RowsFrom ==
  ASSUME NEW S, NEW t \in Seq(S), WellFormed(t), NEW i \in 1 .. Len(t) + 1
  PROVE  /\ CountedFrom(t)[i] \in Nat
         /\ CountedFrom(t)[i] + Cardinality(High(t, i))
              = DrawnFrom(t)[i] + MiscountedFrom(t)[i]
<1> DEFINE n == Len(t)
           c == CountedFrom(t)
           d == DrawnFrom(t)
           x == MiscountedFrom(t)
           h == [k \in 1 .. n + 1 |-> Cardinality(High(t, k))]
           T == {k \in 1 .. n + 1 : c[k] + h[k] = d[k] + x[k]}
<1>1. n \in Nat /\ DOMAIN t = 1 .. n
  BY SeqFacts
<1>2. \A k \in 1 .. n + 1 : c[k] \in Nat
  <2>1. IsSum(c, n, n + 2, Strides(t), Counts(t))
    BY CountedIs
  <2> HIDE DEF c
  <2> QED
    BY <1>1, <2>1 DEF IsSum
<1>3. IsSum(d, n, n + 1, Tokens(t), Shows(t)) /\ IsSum(x, n, n + 1, Tokens(t), Misread(t))
  BY DrawnIs, MiscountedIs
<1>4. \A k \in 1 .. n : /\ TokenEnd(t, k) \in k + 1 .. n + 1
                        /\ d[k] = Shows(t)[k] + d[TokenEnd(t, k)]
                        /\ x[k] = Misread(t)[k] + x[TokenEnd(t, k)]
  <2> TAKE k \in 1 .. n
  <2>1. TokenEnd(t, k) \in k + 1 .. n + 1
    BY TokenEnds
  <2>2. k \in 1 .. n + 1 /\ ~(k > n) /\ Tokens(t)[k] = TokenEnd(t, k)
    BY <1>1 DEF Tokens
  <2> HIDE DEF d, x
  <2> QED
    BY <1>3, <2>1, <2>2 DEF IsSum
<1>5. /\ \A k \in 1 .. n + 1 : d[k] \in Nat /\ x[k] \in Nat
      /\ d[n + 1] = 0 /\ x[n + 1] = 0 /\ c[n + 1] = 0
  <2>1. IsSum(c, n, n + 2, Strides(t), Counts(t))
    BY CountedIs
  <2>2. n + 1 \in 1 .. n + 1 /\ n + 1 \in 1 .. n + 2 /\ n + 1 > n
    BY <1>1
  <2> HIDE DEF d, x, c, n
  <2>3. \A k \in 1 .. n + 1 : d[k] \in Nat /\ x[k] \in Nat
    BY <1>3 DEF IsSum
  <2>4. d[n + 1] = 0 /\ x[n + 1] = 0 /\ c[n + 1] = 0
    BY <1>3, <2>1, <2>2, Zenon DEF IsSum
  <2> QED
    BY <2>3, <2>4
<1>6. \A k \in 1 .. n + 1 : h[k] \in Nat
  <2> TAKE k \in 1 .. n + 1
  <2>1. High(t, k) \in SUBSET (1 .. n) /\ IsFiniteSet(1 .. n)
    BY <1>1, FS_Interval DEF High
  <2> QED
    BY <2>1, FS_Subset, FS_CardinalityType
<1>7. ASSUME NEW k \in 1 .. n + 1, \A j \in k + 1 .. n + 1 : j \in T
      PROVE  k \in T
  <2>1. CASE k = n + 1
    <3>1. High(t, n + 1) = {}
      BY <1>1 DEF High
    <3>2. h[n + 1] = 0
      <4>1. h[n + 1] = Cardinality(High(t, n + 1))
        BY <1>1
      <4> HIDE DEF h
      <4> QED
        BY <3>1, <4>1, FS_EmptySet
    <3> HIDE DEF c, d, x, h
    <3> QED
      BY <1>1, <1>5, <2>1, <3>2
  <2>2. CASE k # n + 1
    <3> SUFFICES c[k] + h[k] = d[k] + x[k]
      OBVIOUS
    <3> DEFINE j == TokenEnd(t, k)
    <3>1. k \in 1 .. n /\ j \in k + 1 .. n + 1
      BY <1>1, <1>4, <2>2
    <3>2. c[j] + h[j] = d[j] + x[j]
      BY <1>7, <3>1
    <3>3. /\ d[k] = Shows(t)[k] + d[j] /\ x[k] = Misread(t)[k] + x[j]
          /\ c[j] \in Nat /\ h[j] \in Nat /\ d[j] \in Nat /\ x[j] \in Nat
      BY <1>1, <1>2, <1>4, <1>5, <1>6, <3>1
    <3> DEFINE cj == c[j]
               hj == h[j]
               dj == d[j]
               xj == x[j]
               ck == c[k]
               hk == h[k]
               dk == d[k]
               xk == x[k]
    <3>a. /\ cj + hj = dj + xj /\ dk = Shows(t)[k] + dj /\ xk = Misread(t)[k] + xj
          /\ cj \in Nat /\ hj \in Nat /\ dj \in Nat /\ xj \in Nat
      BY <3>2, <3>3
    <3> SUFFICES ck + hk = dk + xk
      OBVIOUS
    <3>4. CASE t[k] = "esc"
      <4>1. Shows(t)[k] = 0 /\ Misread(t)[k] = 0
        BY <3>1, <3>4 DEF Shows, Misread, PrintableUnsigned, Printable
      <4>2. ck = cj
        BY <3>1, <3>4, CountedSteps
      <4>3. \A l \in k .. j - 1 : t[l] # "hi"
        <5>1. j = EscapeEnd(t, k)
          BY <3>4 DEF TokenEnd
        <5>2. \A l \in k + 1 .. j - 1 : Printable(t[l])
          BY <1>1, <3>1, <3>4, <5>1 DEF WellFormed
        <5> HIDE DEF j
        <5>3. ASSUME NEW l \in k .. j - 1
              PROVE  t[l] # "hi"
          <6>1. l = k \/ l \in k + 1 .. j - 1
            BY <1>1, <3>1
          <6> QED
            BY <3>4, <5>2, <6>1 DEF Printable
        <5> QED
          BY <5>3
      <4>4. hk = hj
        <5> HIDE DEF j
        <5> QED
          BY <1>1, <3>1, <4>3, HighFrom
      <4> HIDE DEF cj, hj, dj, xj, ck, hk, dk, xk
      <4> QED
        BY <3>a, <4>1, <4>2, <4>4
    <3>5. CASE t[k] = "col"
      <4>1. Shows(t)[k] = 0
        BY <3>1, <3>5 DEF Shows, PrintableUnsigned, Printable
      <4>2. \A l \in k .. j - 1 : t[l] # "hi"
        <5>1. \A l \in k .. j - 1 : t[l] \in {"col", "0", ","}
          BY <3>1, <3>5, ColorBytesHere
        <5> QED
          BY <5>1
      <4>3. hk = hj
        <5> HIDE DEF j
        <5> QED
          BY <1>1, <3>1, <4>2, HighFrom
      <4>4. CASE At(t, j) # "esc"
        <5>1. ck = cj
          BY <3>1, <3>5, <4>4, CountedSteps
        <5>2. Misread(t)[k] = 0
          BY <3>1, <4>4 DEF Misread
        <5> HIDE DEF cj, hj, dj, xj, ck, hk, dk, xk
        <5> QED
          BY <3>a, <4>1, <4>3, <5>1, <5>2
      <4>5. CASE At(t, j) = "esc"
        <5> DEFINE e == TokenEnd(t, j)
                   ce == c[e]
        <5>1. j \in 1 .. n /\ t[j] = "esc"
          <6> HIDE DEF j
          <6> QED
            BY <1>1, <3>1, <4>5 DEF At, NUL
        <5>2. e \in j + 1 .. n + 1 /\ e = EscapeEnd(t, j)
          <6>1. e \in j + 1 .. n + 1
            BY <1>4, <5>1
          <6> HIDE DEF j
          <6> QED
            BY <5>1, <6>1 DEF TokenEnd
        <5>3. ck = c[j + 1]
          BY <3>1, <3>5, <4>5, CountedSteps
        <5>4. cj = ce
          <6> HIDE DEF j
          <6> QED
            BY <5>1, CountedSteps
        <5>5. c[j + 1] = (e - (j + 1)) + ce
          <6>1. \A l \in j + 1 .. e - 1 : Printable(t[l])
            <7> HIDE DEF j
            <7> QED
              BY <1>1, <5>1, <5>2 DEF WellFormed
          <6>2. j + 1 \in Nat \ {0}
            BY <1>1, <5>1
          <6> HIDE DEF j, e
          <6> QED
            BY <5>2, <6>1, <6>2, CountedInEscape
        <5>6. Misread(t)[k] = e - j - 1
          BY <3>1, <3>5, <4>5 DEF Misread
        <5>7. e \in Nat /\ j \in Nat /\ ce \in Nat
          BY <1>1, <1>2, <5>1, <5>2
        <5>8. ck = (e - (j + 1)) + ce
          BY <5>3, <5>5
        <5> HIDE DEF cj, hj, dj, xj, ck, hk, dk, xk, ce, e, j
        <5> QED
          BY <3>a, <4>1, <4>3, <5>4, <5>6, <5>7, <5>8
      <4> QED
        BY <4>4, <4>5
    <3>6. CASE t[k] \notin {"esc", "col"}
      <4>1. j = k + 1 /\ Misread(t)[k] = 0
        BY <3>1, <3>6 DEF TokenEnd, Misread
      <4>2. ck = One(t[k]) + cj
        BY <3>1, <3>6, <4>1, CountedSteps
      <4>3. CASE t[k] = "hi"
        <5>1. One(t[k]) = 0 /\ Shows(t)[k] = 1
          BY <3>1, <4>3 DEF One, Shows, PrintableUnsigned, Printable
        <5>2. hk = hj + 1
          BY <3>1, <4>1, <4>3, HighFrom
        <5> HIDE DEF cj, hj, dj, xj, ck, hk, dk, xk
        <5> QED
          BY <3>a, <4>1, <4>2, <5>1, <5>2
      <4>4. CASE t[k] # "hi"
        <5>1. \/ One(t[k]) = 0 /\ Shows(t)[k] = 0
              \/ One(t[k]) = 1 /\ Shows(t)[k] = 1
          BY <3>1, <4>4 DEF One, Shows, PrintableUnsigned
        <5>2. hk = hj
          <6>1. \A l \in k .. j - 1 : t[l] # "hi"
            BY <1>1, <3>1, <4>1, <4>4
          <6> HIDE DEF j
          <6> QED
            BY <1>1, <3>1, <6>1, HighFrom
        <5> DEFINE one == One(t[k])
                   shown == Shows(t)[k]
                   misread == Misread(t)[k]
        <5>3. /\ cj + hj = dj + xj /\ dk = shown + dj /\ xk = misread + xj
              /\ cj \in Nat /\ hj \in Nat /\ dj \in Nat /\ xj \in Nat
              /\ misread = 0 /\ ck = one + cj
          BY <3>a, <4>1, <4>2
        <5>4. (one = 0 /\ shown = 0) \/ (one = 1 /\ shown = 1)
          BY <5>1
        <5> HIDE DEF cj, hj, dj, xj, ck, hk, dk, xk, one, shown, misread
        <5>5. CASE one = 0 /\ shown = 0
          BY <5>2, <5>3, <5>5
        <5>6. CASE one = 1 /\ shown = 1
          BY <5>2, <5>3, <5>6
        <5> QED
          BY <5>4, <5>5, <5>6, Zenon
      <4> QED
        BY <4>3, <4>4
    <3> QED
      BY <3>4, <3>5, <3>6
  <2> QED
    BY <2>1, <2>2
<1>8. 1 .. n + 1 \subseteq T
  <2> HIDE DEF T
  <2>1. n + 1 \in Nat
    BY <1>1
  <2> HIDE DEF n
  <2> QED
    BY <1>7, <2>1, FromTheEnd
<1>9. c[i] \in Nat /\ i \in T
  BY <1>2, <1>8
<1> QED
  BY <1>9

LEMMA EmptySum ==
  ASSUME NEW n \in Nat, NEW m \in Nat, NEW next \in Forward(n, m), NEW w, NEW f,
         IsSum(f, n, m, next, w), \A i \in 1 .. n : w[i] = 0, NEW p \in 1 .. m
  PROVE  f[p] = 0
<1> DEFINE T == {i \in 1 .. m : f[i] = 0}
<1>1. ASSUME NEW i \in 1 .. m, \A j \in i + 1 .. m : j \in T
      PROVE  i \in T
  <2>1. CASE i > n
    BY <2>1 DEF IsSum
  <2>2. CASE ~(i > n)
    <3>1. i \in 1 .. n
      BY <2>2
    <3>2. next[i] \in i + 1 .. m
      BY <3>1 DEF Forward
    <3>3. f[i] = w[i] + f[next[i]] /\ w[i] = 0
      BY <2>2, <3>1 DEF IsSum
    <3> QED
      BY <1>1, <3>2, <3>3
  <2> QED
    BY <2>1, <2>2
<1>2. 1 .. m \subseteq T
  <2> HIDE DEF T
  <2> QED
    BY <1>1, FromTheEnd
<1> QED
  BY <1>2

(* Of an ASCII text in which no escape stands directly behind a colour        *)
(* strlen_on_screen counts what is drawn, and what is drawn of any text is    *)
(* what shows.                                                               *)
THEOREM RowsAreRight ==
  ASSUME NEW S, NEW t \in Seq(S)
  PROVE  /\ ShowsAreDrawn(t)
         /\ IsAscii(t) /\ ColorsStandAlone(t) => RowsAreThoseDrawn(t)
<1>1. ShowsAreDrawn(t)
  BY DrawnIsVisible DEF ShowsAreDrawn
<1> SUFFICES ASSUME WellFormed(t), IsAscii(t), ColorsStandAlone(t)
             PROVE  StrlenOnScreen(t) = Drawn(t)
  BY <1>1 DEF RowsAreThoseDrawn
<1>2. Len(t) \in Nat /\ DOMAIN t = 1 .. Len(t) /\ 1 \in 1 .. Len(t) + 1
      /\ Len(t) + 1 \in Nat
  BY SeqFacts
<1>3. CountedFrom(t)[1] + Cardinality(High(t, 1)) = DrawnFrom(t)[1] + MiscountedFrom(t)[1]
  BY <1>2, RowsFrom
<1>4. Cardinality(High(t, 1)) = 0
  <2>1. High(t, 1) = {}
    BY DEF IsAscii, High
  <2> QED
    BY <2>1, FS_EmptySet
<1>5. MiscountedFrom(t)[1] = 0
  <2>1. \A i \in 1 .. Len(t) : Misread(t)[i] = 0
    BY <1>2 DEF ColorsStandAlone, Misread
  <2>2. IsSum(MiscountedFrom(t), Len(t), Len(t) + 1, Tokens(t), Misread(t))
    BY MiscountedIs
  <2>3. Tokens(t) \in Forward(Len(t), Len(t) + 1)
    BY TokensForward
  <2> QED
    BY <1>2, <2>1, <2>2, <2>3, EmptySum
<1>6. CountedFrom(t)[1] \in Nat /\ DrawnFrom(t)[1] \in Nat
  BY <1>2, CountedIs, DrawnIs DEF IsSum
<1>7. StrlenOnScreen(t) = CountedFrom(t)[1] /\ Drawn(t) = DrawnFrom(t)[1]
  BY Zenon DEF StrlenOnScreen, CountedFrom, Drawn, DrawnFrom
<1> QED
  BY <1>3, <1>4, <1>5, <1>6, <1>7

-----------------------------------------------------------------------------
(* The formatters. *)

Ends == {"no", "ends", "refused"}
Buffers(size, C) == [cells : [1 .. size -> C], n : Nat, end : Ends]

Kinds == {"fits", "256", "sprintf", "char", "check", "256_start"}
IsOp(op, C) == op.by \in Kinds /\ op.piece \in C /\ op.len \in Nat

LEMMA BufferFacts ==
  ASSUME NEW size \in Nat, NEW C, NEW b \in Buffers(size, C)
  PROVE  /\ b.cells \in [1 .. size -> C] /\ b.n \in Nat /\ b.end \in Ends
         /\ Len(b.cells) = size /\ Room(b) = size - b.n /\ DOMAIN b.cells = 1 .. size
<1>1. b.cells \in [1 .. size -> C] /\ b.n \in Nat /\ b.end \in Ends
  BY DEF Buffers
<1>2. Len(b.cells) = size
  <2> DEFINE c == b.cells
  <2>1. c \in [1 .. size -> C]
    BY <1>1
  <2> HIDE DEF c
  <2>2. c \in Seq(C) /\ DOMAIN c = 1 .. size
    BY <2>1, SeqDef
  <2>3. Len(c) = size
    BY <2>2, LenProperties
  <2> QED
    BY <2>3 DEF c
<1> QED
  BY <1>1, <1>2 DEF Room

(* w is the buffer b with a piece, and the NUL behind it, written to it.     *)
IsWrite(w, b, size, C, at, piece, len) ==
  /\ w \in Buffers(size, C)
  /\ w.n = b.n + len /\ w.end = b.end
  /\ \A i \in 1 .. size : w.cells[i] =
       IF i > at /\ i <= at + len THEN piece
       ELSE IF i = at + len + 1 THEN Nul ELSE b.cells[i]

LEMMA WrittenIs ==
  ASSUME NEW size \in Nat, NEW C, NEW b \in Buffers(size, C), NEW at \in Nat,
         NEW piece \in C, NEW len \in Nat, Nul \in C
  PROVE  IsWrite(Written(b, at, piece, len), b, size, C, at, piece, len)
<1> DEFINE c == [i \in 1 .. size |-> CASE i \in at + 1 .. at + len -> piece
                                       [] i = at + len + 1         -> Nul
                                       [] OTHER                    -> b.cells[i]]
           w == Written(b, at, piece, len)
<1>1. b = [cells |-> b.cells, n |-> b.n, end |-> b.end]
  BY DEF Buffers
<1>2. w.cells = c /\ w.n = b.n + len /\ w.end = b.end
      /\ w = [cells |-> c, n |-> b.n + len, end |-> b.end]
  <2>1. DOMAIN b.cells = 1 .. size
    BY BufferFacts
  <2>2. c = [i \in DOMAIN b.cells |-> CASE i \in at + 1 .. at + len -> piece
                                       [] i = at + len + 1         -> Nul
                                       [] OTHER                    -> b.cells[i]]
    BY <2>1
  <2> DEFINE d == [i \in DOMAIN b.cells |-> CASE i \in at + 1 .. at + len -> piece
                                       [] i = at + len + 1         -> Nul
                                       [] OTHER                    -> b.cells[i]]
  <2>3. w = [b EXCEPT !.cells = d, !.n = b.n + len]
    BY Zenon DEF Written
  <2> HIDE DEF w, c, d
  <2>4. w = [cells |-> d, n |-> b.n + len, end |-> b.end]
    BY <1>1, <2>3
  <2>5. d = c
    BY <2>2 DEF d
  <2> QED
    BY <2>4, <2>5
<1>3. \A i \in 1 .. size : c[i] = IF i > at /\ i <= at + len THEN piece
                                  ELSE IF i = at + len + 1 THEN Nul ELSE b.cells[i]
  OBVIOUS
<1>4. c \in [1 .. size -> C]
  <2> SUFFICES ASSUME NEW i \in 1 .. size
               PROVE  c[i] \in C
    OBVIOUS
  <2>1. b.cells[i] \in C
    BY BufferFacts
  <2> HIDE DEF c
  <2> QED
    BY <1>3, <2>1
<1> HIDE DEF c, w
<1>5. w \in Buffers(size, C)
  BY <1>2, <1>4, BufferFacts DEF Buffers
<1> QED
  BY <1>2, <1>3, <1>5, Zenon DEF w, IsWrite

LEMMA DoKeeps ==
  ASSUME NEW size \in Nat, NEW C, NEW b \in Buffers(size, C), NEW op, IsOp(op, C), Nul \in C
  PROVE  Do(b, op) \in Buffers(size, C)
<1>1. op.piece \in C /\ op.len \in Nat /\ op.by \in Kinds /\ 0 \in Nat /\ Code256Len \in Nat
      /\ b.n \in Nat
  BY BufferFacts DEF IsOp, Code256Len
<1>2. \A at \in Nat, len \in Nat : Written(b, at, op.piece, len) \in Buffers(size, C)
  BY <1>1, WrittenIs DEF IsWrite
<1>3. \A e \in Ends : [b EXCEPT !.end = e] \in Buffers(size, C)
  BY DEF Buffers
<1>4. "ends" \in Ends /\ "refused" \in Ends
  BY DEF Ends
<1>5. WriteIfFits(b, op.piece, op.len) \in Buffers(size, C)
      /\ WriteIfFits(b, op.piece, Code256Len) \in Buffers(size, C)
  BY <1>1, <1>2, Zenon DEF WriteIfFits
<1>6. WriteCode256(b, op.piece) \in Buffers(size, C)
  BY <1>3, <1>4, <1>5, Zenon DEF WriteCode256
<1>7. Sprintf(b, op.piece, op.len) \in Buffers(size, C)
  BY <1>1, <1>2, <1>3, <1>4, Zenon DEF Sprintf
<1>8. Refuse(b) \in Buffers(size, C)
  BY <1>3, <1>4, Zenon DEF Refuse
<1>9. PutChar(b, op.piece) \in Buffers(size, C)
  <2> DEFINE d == [b.cells EXCEPT ![b.n + 1] = op.piece]
  <2>1. d \in [1 .. size -> C] /\ b.n + 1 \in Nat
    <3> DEFINE c == b.cells
               p == op.piece
               m == b.n + 1
    <3>1. c \in [1 .. size -> C] /\ p \in C /\ m \in Nat
      BY <1>1, BufferFacts
    <3> HIDE DEF c, p, m
    <3>2. [c EXCEPT ![m] = p] \in [1 .. size -> C]
      BY <3>1
    <3> QED
      BY <3>1, <3>2 DEF c, p, m
  <2>2. [b EXCEPT !.cells[b.n + 1] = op.piece, !.n = @ + 1] = [b EXCEPT !.cells = d, !.n = b.n + 1]
    OBVIOUS
  <2> HIDE DEF d
  <2>3. [b EXCEPT !.cells = d, !.n = b.n + 1] \in Buffers(size, C)
    BY <2>1 DEF Buffers
  <2> QED
    BY <1>8, <2>2, <2>3, Zenon DEF PutChar
<1>10. WriteAtStart(b, op.piece) \in Buffers(size, C)
  BY <1>1, <1>2, <1>3, <1>4, Zenon DEF WriteAtStart
<1>11. \/ Do(b, op) = b
       \/ Do(b, op) = WriteIfFits(b, op.piece, op.len)
       \/ Do(b, op) = WriteCode256(b, op.piece)
       \/ Do(b, op) = Sprintf(b, op.piece, op.len)
       \/ Do(b, op) = PutChar(b, op.piece)
       \/ Do(b, op) = Refuse(b)
       \/ Do(b, op) = WriteAtStart(b, op.piece)
  BY <1>1 DEF Do, Kinds
<1> QED
  BY <1>5, <1>6, <1>7, <1>8, <1>9, <1>10, <1>11, Zenon

(* The buffer after each of the operations.                                 *)
FormatAt(ops, size) ==
  CHOOSE after : after = [n \in 0 .. Len(ops) |->
    IF n = 0 THEN Empty(size) ELSE Do(after[n - 1], ops[n])]

AreOps(ops, C) ==
  /\ Nul \in C /\ "old" \in C /\ Len(ops) \in Nat
  /\ \A k \in 1 .. Len(ops) : IsOp(ops[k], C)

AreFormatted(F, ops, size, C) ==
  /\ Format(ops, size) = F[Len(ops)]
  /\ F[0] = Empty(size)
  /\ \A k \in 1 .. Len(ops) : F[k] = Do(F[k - 1], ops[k])
  /\ \A k \in 0 .. Len(ops) : F[k] \in Buffers(size, C)

LEMMA FormatIs ==
  ASSUME NEW size \in Nat, NEW C, NEW ops, AreOps(ops, C)
  PROVE  AreFormatted(FormatAt(ops, size), ops, size, C)
<1> DEFINE n == Len(ops)
           V == Buffers(size, C)
           g == [k \in 1 .. n |-> [b \in V |-> Do(b, ops[k])]]
           body(f) == [k \in 0 .. n |-> IF k = 0 THEN Empty(size) ELSE Do(f[k - 1], ops[k])]
<1>1. n \in Nat /\ Nul \in C /\ \A k \in 1 .. n : IsOp(ops[k], C)
  BY DEF AreOps
<1>2. Empty(size) \in V
  BY DEF Empty, Buffers, Ends, AreOps
<1>3. \A k \in 1 .. n : \A b \in V : Do(b, ops[k]) \in V
  BY <1>1, DoKeeps
<1>4. g \in Steps(n, V)
  <2> HIDE DEF n, V
  <2> QED
    BY <1>3 DEF Steps
<1>5. PICK f : IsRecursion(f, n, V, Empty(size), g)
  <2> HIDE DEF n, V, g
  <2> QED
    BY <1>1, <1>2, <1>4, Recursion
<1>6. f \in [0 .. n -> V] /\ f[0] = Empty(size) /\ \A k \in 1 .. n : f[k] = g[k][f[k - 1]]
  BY <1>5, Zenon DEF IsRecursion
<1>7. f = body(f)
  <2>1. ASSUME NEW k \in 0 .. n
        PROVE  f[k] = IF k = 0 THEN Empty(size) ELSE Do(f[k - 1], ops[k])
    <3>1. CASE k = 0
      BY <1>6, <3>1
    <3>2. CASE k # 0
      <4>1. k \in 1 .. n /\ k - 1 \in 0 .. n
        BY <1>1, <3>2
      <4>2. f[k - 1] \in V
        BY <1>6, <4>1
      <4> HIDE DEF n, V
      <4>3. g[k][f[k - 1]] = Do(f[k - 1], ops[k])
        BY <4>1, <4>2
      <4> HIDE DEF g
      <4> QED
        BY <1>6, <3>2, <4>1, <4>3, Zenon
    <3> QED
      BY <3>1, <3>2
  <2>2. f = [k \in 0 .. n |-> f[k]]
    BY <1>6
  <2> QED
    BY <2>1, <2>2, Zenon
<1>8. FormatAt(ops, size) = body(FormatAt(ops, size))
  BY <1>7, Zenon DEF FormatAt
<1> DEFINE F == FormatAt(ops, size)
<1> HIDE DEF F
<1>9. F = body(F)
  BY <1>8 DEF F
<1>10. /\ F[0] = Empty(size)
       /\ \A k \in 1 .. n : F[k] = Do(F[k - 1], ops[k])
  <2>1. \A k \in 0 .. n : body(F)[k] = IF k = 0 THEN Empty(size) ELSE Do(F[k - 1], ops[k])
    OBVIOUS
  <2>2. 0 \in 0 .. n /\ \A k \in 1 .. n : k \in 0 .. n /\ k # 0
    BY <1>1
  <2> HIDE DEF body, n
  <2> QED
    BY <1>9, <2>1, <2>2, Zenon
<1>11. \A k \in 0 .. n : F[k] \in V
  <2> DEFINE T == {k \in Nat : k <= n => F[k] \in V}
  <2>1. 0 \in T
    BY <1>2, <1>10
  <2>2. ASSUME NEW k \in Nat, k \in T
        PROVE  k + 1 \in T
    <3> SUFFICES ASSUME k + 1 <= n
                 PROVE  F[k + 1] \in V
      OBVIOUS
    <3>1. k + 1 \in 1 .. n /\ (k + 1) - 1 = k /\ F[k] \in V
      BY <1>1, <2>2
    <3>2. F[k + 1] = Do(F[k], ops[k + 1])
      BY <1>10, <3>1
    <3> HIDE DEF V
    <3> QED
      BY <1>3, <3>1, <3>2
  <2> HIDE DEF T
  <2>3. Nat \subseteq T
    BY <2>1, <2>2, SetInduction
  <2> QED
    BY <1>1, <2>3 DEF T
<1>12. Format(ops, size) = F[n]
  BY Zenon DEF Format, FormatAt, F
<1> QED
  BY <1>10, <1>11, <1>12, Zenon DEF F, AreFormatted

(* What is left of a text without its codes, from its start on.             *)
Kept(s) ==
  CHOOSE text : text = [n \in 0 .. Len(s) |->
    IF n = 0 THEN <<>>
    ELSE IF s[n] = "code" THEN text[n - 1] ELSE Append(text[n - 1], s[n])]

IsKept(f, s, C) ==
  /\ f \in [0 .. Len(s) -> Seq(C)] /\ f[0] = <<>>
  /\ \A k \in 1 .. Len(s) : f[k] = IF s[k] = "code" THEN f[k - 1] ELSE Append(f[k - 1], s[k])

LEMMA KeptIs ==
  ASSUME NEW C, NEW s \in Seq(C)
  PROVE  IsKept(Kept(s), s, C)
<1> DEFINE n == Len(s)
           V == Seq(C)
           step(k, v) == IF s[k] = "code" THEN v ELSE Append(v, s[k])
           g == [k \in 1 .. n |-> [v \in V |-> step(k, v)]]
           body(f) == [k \in 0 .. n |->
             IF k = 0 THEN <<>>
             ELSE IF s[k] = "code" THEN f[k - 1] ELSE Append(f[k - 1], s[k])]
<1>1. n \in Nat /\ \A k \in 1 .. n : s[k] \in C
  BY SeqFacts
<1>2. ASSUME NEW k \in 1 .. n, NEW v \in V
      PROVE  step(k, v) \in V
  <2>1. Append(v, s[k]) \in V
    BY <1>1, AppendProperties
  <2> QED
    BY <2>1
<1>3. g \in Steps(n, V) /\ <<>> \in V
  <2>1. <<>> \in V
    BY EmptySeq
  <2> HIDE DEF n, V, step
  <2> QED
    BY <1>2, <2>1 DEF Steps
<1>4. PICK f : IsRecursion(f, n, V, <<>>, g)
  <2> HIDE DEF n, V, g
  <2> QED
    BY <1>1, <1>3, Recursion
<1>5. f \in [0 .. n -> V] /\ f[0] = <<>> /\ \A k \in 1 .. n : f[k] = g[k][f[k - 1]]
  BY <1>4, Zenon DEF IsRecursion
<1>6. f = body(f)
  <2>1. ASSUME NEW k \in 0 .. n
        PROVE  f[k] = IF k = 0 THEN <<>> ELSE step(k, f[k - 1])
    <3>1. CASE k = 0
      BY <1>5, <3>1
    <3>2. CASE k # 0
      <4>1. k \in 1 .. n /\ k - 1 \in 0 .. n
        BY <1>1, <3>2
      <4>2. f[k - 1] \in V
        BY <1>5, <4>1
      <4> HIDE DEF n, V, step
      <4>3. g[k][f[k - 1]] = step(k, f[k - 1])
        BY <4>1, <4>2
      <4> HIDE DEF g
      <4> QED
        BY <1>5, <3>2, <4>1, <4>3, Zenon
    <3> QED
      BY <3>1, <3>2
  <2>2. f = [k \in 0 .. n |-> f[k]]
    BY <1>5
  <2> QED
    BY <2>1, <2>2, Zenon
<1>7. Kept(s) = body(Kept(s))
  BY <1>6, Zenon DEF Kept
<1> DEFINE F == Kept(s)
<1> HIDE DEF F
<1>8. F = body(F)
  BY <1>7 DEF F
<1>9. F[0] = <<>> /\ \A k \in 1 .. n : F[k] = step(k, F[k - 1])
  <2>1. \A k \in 0 .. n : body(F)[k] = IF k = 0 THEN <<>> ELSE step(k, F[k - 1])
    OBVIOUS
  <2>2. 0 \in 0 .. n /\ \A k \in 1 .. n : k \in 0 .. n /\ k # 0
    BY <1>1
  <2> HIDE DEF body, n, step
  <2> QED
    BY <1>8, <2>1, <2>2, Zenon
<1>10. \A k \in 0 .. n : F[k] \in V
  <2> DEFINE T == {k \in Nat : k <= n => F[k] \in V}
  <2>1. 0 \in T
    BY <1>3, <1>9
  <2>2. ASSUME NEW k \in Nat, k \in T
        PROVE  k + 1 \in T
    <3> SUFFICES ASSUME k + 1 <= n
                 PROVE  F[k + 1] \in V
      OBVIOUS
    <3>1. k + 1 \in 1 .. n /\ (k + 1) - 1 = k /\ F[k] \in V
      BY <1>1, <2>2
    <3> HIDE DEF V, n, step
    <3>2. F[k + 1] = step(k + 1, F[k])
      BY <1>9, <3>1
    <3> QED
      BY <1>2, <3>1, <3>2, Zenon
  <2> HIDE DEF T
  <2>3. Nat \subseteq T
    BY <2>1, <2>2, SetInduction
  <2> QED
    BY <1>1, <2>3 DEF T
<1>11. F \in [0 .. n -> V]
  <2>1. F = [k \in 0 .. n |-> F[k]]
    BY <1>8
  <2> HIDE DEF V, n
  <2> QED
    BY <1>10, <2>1
<1> QED
  BY <1>9, <1>11, Zenon DEF F, IsKept

LEMMA KeptSame ==
  ASSUME NEW C, NEW s \in Seq(C), NEW r \in Seq(C), NEW m \in Nat,
         m <= Len(s), m <= Len(r), \A k \in 1 .. m : s[k] = r[k]
  PROVE  Kept(s)[m] = Kept(r)[m]
<1> DEFINE f == Kept(s)
           g == Kept(r)
           T == {k \in Nat : k <= m => f[k] = g[k]}
<1>1. IsKept(f, s, C) /\ IsKept(g, r, C) /\ Len(s) \in Nat /\ Len(r) \in Nat
  BY KeptIs, SeqFacts
<1> HIDE DEF f, g
<1>2. 0 \in T
  BY <1>1 DEF IsKept
<1>3. ASSUME NEW k \in Nat, k \in T
      PROVE  k + 1 \in T
  <2> SUFFICES ASSUME k + 1 <= m
               PROVE  f[k + 1] = g[k + 1]
    OBVIOUS
  <2>1. k + 1 \in 1 .. Len(s) /\ k + 1 \in 1 .. Len(r) /\ k + 1 \in 1 .. m
        /\ (k + 1) - 1 = k /\ f[k] = g[k]
    BY <1>1, <1>3
  <2>2. s[k + 1] = r[k + 1]
    BY <2>1
  <2>3. f[k + 1] = IF s[k + 1] = "code" THEN f[k] ELSE Append(f[k], s[k + 1])
    BY <1>1, <2>1, Zenon DEF IsKept
  <2>4. g[k + 1] = IF r[k + 1] = "code" THEN g[k] ELSE Append(g[k], r[k + 1])
    BY <1>1, <2>1, Zenon DEF IsKept
  <2> QED
    BY <2>1, <2>2, <2>3, <2>4, Zenon
<1> HIDE DEF T
<1>4. Nat \subseteq T
  BY <1>2, <1>3, SetInduction
<1> QED
  BY <1>4 DEF T, f, g

(* A copy more. *)
Prolongs(text, piece, l) ==
  text \o Copies(piece, l + 1) = Append(text \o Copies(piece, l), piece)

LEMMA OneMoreCopy ==
  ASSUME NEW C, NEW text \in Seq(C), NEW piece \in C, NEW l \in Nat
  PROVE  /\ text \o Copies(piece, l) \in Seq(C)
         /\ text \o Copies(piece, 0) = text
         /\ Prolongs(text, piece, l)
<1> DEFINE a == Copies(piece, l)
           z == Copies(piece, l + 1)
<1>1. \A n \in Nat : /\ Copies(piece, n) \in Seq(C) /\ Len(Copies(piece, n)) = n
                     /\ \A i \in 1 .. n : Copies(piece, n)[i] = piece
  <2> TAKE n \in Nat
  <2> DEFINE c == Copies(piece, n)
  <2>1. c \in [1 .. n -> C] /\ \A i \in 1 .. n : c[i] = piece
    BY DEF Copies
  <2> HIDE DEF c
  <2>2. c \in Seq(C) /\ DOMAIN c = 1 .. n
    BY <2>1, SeqDef
  <2>3. Len(c) = n
    BY <2>2, LenProperties
  <2> QED
    BY <2>1, <2>2, <2>3 DEF c
<1>2. Copies(piece, 0) = <<>>
  <2>1. Copies(piece, 0) \in Seq(C) /\ Len(Copies(piece, 0)) = 0
    BY <1>1
  <2> QED
    BY <2>1, EmptySeq
<1>3. text \o Copies(piece, 0) = text
  BY <1>2, ConcatEmptySeq
<1>4. /\ a \in Seq(C) /\ Len(a) = l /\ \A i \in 1 .. l : a[i] = piece
      /\ z \in Seq(C) /\ Len(z) = l + 1 /\ \A i \in 1 .. l + 1 : z[i] = piece
  BY <1>1
<1> HIDE DEF a, z
<1>5. z = Append(a, piece)
  <2> DEFINE b == Append(a, piece)
  <2>1. /\ b \in Seq(C) /\ Len(b) = l + 1 /\ b[l + 1] = piece
        /\ \A i \in 1 .. l : b[i] = a[i]
    BY <1>4, AppendProperties
  <2> HIDE DEF b
  <2>2. \A i \in 1 .. Len(z) : z[i] = b[i]
    <3> TAKE i \in 1 .. Len(z)
    <3>1. i \in 1 .. l \/ i = l + 1
      BY <1>4
    <3> QED
      BY <1>4, <2>1, <3>1
  <2>3. z = b
    BY <1>4, <2>1, <2>2, SeqEqual
  <2> QED
    BY <2>3 DEF b
<1>6. z = a \o <<piece>>
  BY <1>4, <1>5, AppendIsConcat
<1>7. text \o z = (text \o a) \o <<piece>>
  <2>1. <<piece>> \in Seq(C)
    OBVIOUS
  <2> QED
    BY <1>4, <1>6, <2>1, ConcatAssociative
<1>8. text \o a \in Seq(C)
  BY <1>4, ConcatProperties
<1>9. text \o z = Append(text \o a, piece)
  BY <1>7, <1>8, AppendIsConcat
<1> QED
  BY <1>3, <1>8, <1>9, Zenon DEF a, z, Prolongs

Longer(text, piece, l) == IF piece = "code" THEN text ELSE text \o Copies(piece, l)

LEMMA KeptCopies ==
  ASSUME NEW C, NEW s \in Seq(C), NEW p \in Nat, NEW l \in Nat, p + l <= Len(s),
         NEW piece \in C, \A k \in p + 1 .. p + l : s[k] = piece
  PROVE  Kept(s)[p + l] = Longer(Kept(s)[p], piece, l)
<1> DEFINE f == Kept(s)
           Right(k) == f[p + k] = IF piece = "code" THEN f[p] ELSE f[p] \o Copies(piece, k)
           T == {k \in Nat : k <= l => Right(k)}
<1>1. IsKept(f, s, C) /\ Len(s) \in Nat
  BY KeptIs, SeqFacts
<1> HIDE DEF f
<1>2. f[p] \in Seq(C)
  BY <1>1 DEF IsKept
<1>3. 0 \in T
  <2>1. f[p] \o Copies(piece, 0) = f[p] /\ p + 0 = p
    <3> DEFINE x == f[p]
    <3>1. x \in Seq(C)
      BY <1>2
    <3> HIDE DEF x
    <3>2. x \o Copies(piece, 0) = x
      BY <3>1, OneMoreCopy
    <3> QED
      BY <3>2 DEF x
  <2>2. Right(0)
    BY <2>1, Zenon
  <2> HIDE DEF Right
  <2> QED
    BY <2>2
<1>4. ASSUME NEW k \in Nat, k \in T
      PROVE  k + 1 \in T
  <2> SUFFICES ASSUME k + 1 <= l
               PROVE  Right(k + 1)
    OBVIOUS
  <2>1. p + (k + 1) \in 1 .. Len(s) /\ p + (k + 1) \in p + 1 .. p + l
        /\ (p + (k + 1)) - 1 = p + k
    BY <1>1
  <2>2. Right(k)
    BY <1>4
  <2>3. s[p + (k + 1)] = piece
    BY <2>1
  <2>4. f[p + (k + 1)] = IF piece = "code" THEN f[p + k] ELSE Append(f[p + k], piece)
    BY <1>1, <2>1, <2>3, Zenon DEF IsKept
  <2>5. f[p] \o Copies(piece, k + 1) = Append(f[p] \o Copies(piece, k), piece)
    <3> DEFINE x == f[p]
    <3>1. x \in Seq(C)
      BY <1>2
    <3> HIDE DEF x
    <3>2. Prolongs(x, piece, k)
      BY <3>1, OneMoreCopy
    <3> QED
      BY <3>2, Zenon DEF x, Prolongs
  <2> QED
    BY <2>2, <2>4, <2>5, Zenon
<1> HIDE DEF T
<1>5. Nat \subseteq T
  BY <1>3, <1>4, SetInduction
<1>6. Right(l)
  BY <1>5 DEF T
<1> QED
  BY <1>6, Zenon DEF f, Longer

(* The buffer holds the text, and codes, up to n; closed is whether a NUL is *)
(* sure to stand behind it.                                                 *)
Holds(b, size, C, text, closed) ==
  /\ b \in Buffers(size, C)
  /\ \/ b.end = "ends"
     \/ /\ b.end = "no" /\ b.n <= size
        /\ \A i \in 1 .. b.n : b.cells[i] # Nul
        /\ Kept(b.cells)[b.n] = text
        /\ closed => b.n < size /\ b.cells[b.n + 1] = Nul

LEMMA CellsAre ==
  ASSUME NEW size \in Nat, NEW C, NEW b \in Buffers(size, C)
  PROVE  b.cells \in Seq(C) /\ Len(b.cells) = size
<1> DEFINE c == b.cells
<1>1. c \in [1 .. size -> C] /\ Len(c) = size
  BY BufferFacts
<1> HIDE DEF c
<1>2. c \in Seq(C)
  BY <1>1, SeqDef
<1> QED
  BY <1>1, <1>2 DEF c

LEMMA WriteHolds ==
  ASSUME NEW size \in Nat, NEW C, Nul \in C, NEW text, NEW closed, NEW b,
         Holds(b, size, C, text, closed), b.end = "no",
         NEW piece \in C, piece # Nul, NEW len \in Nat, b.n + len < size
  PROVE  Holds(Written(b, b.n, piece, len), size, C, Longer(text, piece, len), TRUE)
<1> DEFINE w == Written(b, b.n, piece, len)
           n == b.n
<1>1. /\ b \in Buffers(size, C) /\ n <= size
      /\ \A i \in 1 .. n : b.cells[i] # Nul
      /\ Kept(b.cells)[n] = text
  BY DEF Holds
<1>2. n \in Nat
  BY <1>1, BufferFacts
<1>3. IsWrite(w, b, size, C, n, piece, len)
  BY <1>1, <1>2, WrittenIs
<1> DEFINE s == b.cells
           r == w.cells
<1>4. s \in Seq(C) /\ Len(s) = size
  BY <1>1, CellsAre
<1>5. w \in Buffers(size, C) /\ w.n = n + len /\ w.end = "no"
  BY <1>3, Zenon DEF IsWrite
<1>6. r \in Seq(C) /\ Len(r) = size
  BY <1>5, CellsAre
<1>7. \A i \in 1 .. size : r[i] =
        IF i > n /\ i <= n + len THEN piece
        ELSE IF i = n + len + 1 THEN Nul ELSE s[i]
  BY <1>3, Zenon DEF IsWrite
<1>8. n + len < size /\ n + len \in Nat
  BY <1>2
<1> HIDE DEF w, s, r, n
<1>9. \A i \in 1 .. n : r[i] = s[i]
  BY <1>2, <1>7, <1>8
<1>10. \A i \in n + 1 .. n + len : r[i] = piece
  BY <1>2, <1>7, <1>8
<1>11. r[n + len + 1] = Nul
  BY <1>2, <1>7, <1>8
<1>12. Kept(r)[n] = Kept(s)[n]
  BY <1>2, <1>4, <1>6, <1>8, <1>9, KeptSame
<1>13. Kept(r)[n + len] = Longer(text, piece, len)
  <2>1. Kept(r)[n + len] = Longer(Kept(r)[n], piece, len)
    BY <1>2, <1>6, <1>8, <1>10, KeptCopies
  <2>2. Kept(s)[n] = text
    BY <1>1 DEF s, n
  <2> QED
    BY <1>12, <2>1, <2>2, Zenon DEF Longer
<1>14. \A i \in 1 .. n + len : r[i] # Nul
  <2> TAKE i \in 1 .. n + len
  <2>1. CASE i \in 1 .. n
    BY <1>1, <1>9, <2>1 DEF s, n
  <2>2. CASE i \notin 1 .. n
    <3>1. i \in n + 1 .. n + len
      BY <1>2, <2>2
    <3> QED
      BY <1>10, <3>1
  <2> QED
    BY <2>1, <2>2
<1>15. w.n <= size /\ w.n < size /\ r[w.n + 1] = Nul
  BY <1>5, <1>8, <1>11
<1>16. Holds(w, size, C, Longer(text, piece, len), TRUE)
  BY <1>5, <1>13, <1>14, <1>15, Zenon DEF Holds, r
<1> QED
  BY <1>16 DEF w, n

LEMMA EndHolds ==
  ASSUME NEW size \in Nat, NEW C, NEW b \in Buffers(size, C), NEW text, NEW closed
  PROVE  /\ Holds([b EXCEPT !.end = "ends"], size, C, text, closed)
         /\ b.end = "ends" => Holds(b, size, C, text, closed)
<1> DEFINE e == [b EXCEPT !.end = "ends"]
<1>1. e \in Buffers(size, C) /\ e.end = "ends"
  BY DEF Buffers, Ends
<1> HIDE DEF e
<1>2. Holds(e, size, C, text, closed)
  BY <1>1, Zenon DEF Holds
<1> QED
  BY <1>2, Zenon DEF e, Holds

IsCode(op) == op.by \in {"fits", "256"} /\ op.piece = "code" /\ op.len \in Nat
IsPrinted(op) == op.by = "sprintf" /\ op.piece \notin {Nul, "code"} /\ op.len \in Nat
IsChar(op) == op.by = "char" /\ op.piece \notin {Nul, "code"} /\ op.len = 1
IsCheck(op) == op.by = "check" /\ op.piece = Nul /\ op.len = 0

LEMMA CodeHolds ==
  ASSUME NEW size \in Nat, NEW C, Nul \in C, NEW text, NEW closed \in BOOLEAN, NEW b,
         Holds(b, size, C, text, closed), NEW op, IsCode(op), "code" \in C
  PROVE  Holds(Do(b, op), size, C, text, closed)
<1>1. b \in Buffers(size, C) /\ b.n \in Nat /\ Room(b) = size - b.n /\ op.len \in Nat
      /\ op.piece = "code" /\ op.by \in {"fits", "256"} /\ Code256Len \in Nat
  BY BufferFacts DEF Holds, IsCode, Code256Len
<1>2. CASE b.end # "no"
  BY <1>2, Zenon DEF Do
<1>3. CASE b.end = "no"
  <2>1. ASSUME NEW l \in Nat
        PROVE  Holds(WriteIfFits(b, "code", l), size, C, text, closed)
    <3>1. CASE l < Room(b)
      <4>1. b.n + l < size
        BY <1>1, <3>1
      <4>2. "code" # Nul
        BY DEF Nul
      <4>3. Holds(Written(b, b.n, "code", l), size, C, Longer(text, "code", l), TRUE)
        BY <1>3, <4>1, <4>2, WriteHolds
      <4>4. WriteIfFits(b, "code", l) = Written(b, b.n, "code", l)
        BY <3>1, Zenon DEF WriteIfFits
      <4> QED
        BY <4>3, <4>4, Zenon DEF Longer, Holds
    <3>2. CASE ~(l < Room(b))
      BY <3>2, Zenon DEF WriteIfFits
    <3> QED
      BY <3>1, <3>2
  <2>2. CASE op.by = "fits"
    <3>1. Do(b, op) = WriteIfFits(b, "code", op.len)
      BY <1>1, <1>3, <2>2, Zenon DEF Do
    <3> QED
      BY <1>1, <2>1, <3>1, Zenon
  <2>3. CASE op.by = "256"
    <3>1. Do(b, op) = WriteCode256(b, "code")
      BY <1>1, <1>3, <2>3 DEF Do
    <3>2. CASE Room(b) > Code256Len
      BY <1>1, <2>1, <3>1, <3>2, Zenon DEF WriteCode256
    <3>3. CASE ~(Room(b) > Code256Len)
      <4>1. Do(b, op) = [b EXCEPT !.end = "ends"]
        BY <3>1, <3>3, Zenon DEF WriteCode256
      <4>2. Holds([b EXCEPT !.end = "ends"], size, C, text, closed)
        BY <1>1, EndHolds
      <4> QED
        BY <4>1, <4>2, Zenon
    <3> QED
      BY <3>2, <3>3
  <2> QED
    BY <1>1, <2>2, <2>3
<1> QED
  BY <1>2, <1>3

LEMMA PrintedHolds ==
  ASSUME NEW size \in Nat, NEW C, Nul \in C, NEW text, NEW closed \in BOOLEAN, NEW b,
         Holds(b, size, C, text, closed), NEW op, IsPrinted(op), op.piece \in C
  PROVE  Holds(Do(b, op), size, C, text \o Copies(op.piece, op.len), TRUE)
<1>1. b \in Buffers(size, C) /\ b.n \in Nat /\ Room(b) = size - b.n /\ op.len \in Nat
      /\ op.piece # "code" /\ op.piece # Nul /\ op.by = "sprintf"
  BY BufferFacts DEF Holds, IsPrinted
<1> DEFINE new == text \o Copies(op.piece, op.len)
           p == op.piece
           l == op.len
<1>2. CASE b.end # "no"
  <2>1. Do(b, op) = b /\ b.end = "ends"
    BY <1>2, Zenon DEF Do, Holds
  <2> QED
    BY <1>1, <2>1, EndHolds, Zenon
<1>3. CASE b.end = "no"
  <2>1. Do(b, op) = Sprintf(b, p, l)
    BY <1>1, <1>3, Zenon DEF Do
  <2>2. CASE l < Room(b)
    <3>1. b.n + l < size /\ p \in C /\ p # Nul /\ l \in Nat
      BY <1>1, <2>2
    <3>2. Do(b, op) = Written(b, b.n, p, l)
      BY <2>1, <2>2, Zenon DEF Sprintf
    <3>3. Longer(text, p, l) = new
      BY <1>1, Zenon DEF Longer
    <3> HIDE DEF p, l, new
    <3>4. Holds(Written(b, b.n, p, l), size, C, Longer(text, p, l), TRUE)
      BY <1>3, <3>1, WriteHolds
    <3>5. Holds(Do(b, op), size, C, new, TRUE)
      BY <3>2, <3>3, <3>4, Zenon
    <3> QED
      BY <3>5 DEF new
  <2>3. CASE ~(l < Room(b))
    <3>1. Do(b, op) = [b EXCEPT !.end = "ends"]
      BY <2>1, <2>3, Zenon DEF Sprintf
    <3> HIDE DEF new
    <3>2. Holds([b EXCEPT !.end = "ends"], size, C, new, TRUE)
      BY <1>1, EndHolds
    <3> QED
      BY <3>1, <3>2, Zenon DEF new
  <2> QED
    BY <2>2, <2>3
<1> QED
  BY <1>2, <1>3

LEMMA CheckHolds ==
  ASSUME NEW size \in Nat, NEW C, NEW text, NEW b,
         Holds(b, size, C, text, TRUE), NEW op, IsCheck(op)
  PROVE  Holds(Do(b, op), size, C, text, TRUE)
<1>1. CASE b.end # "no"
  BY <1>1, Zenon DEF Do
<1>2. CASE b.end = "no"
  <2>1. Do(b, op) = Refuse(b)
    BY <1>2 DEF Do, IsCheck
  <2>2. Room(b) # 0
    <3>1. b \in Buffers(size, C) /\ b.n < size
      BY <1>2 DEF Holds
    <3> QED
      BY <3>1, BufferFacts
  <2> QED
    BY <2>1, <2>2, Zenon DEF Refuse
<1> QED
  BY <1>1, <1>2

LEMMA CharHolds ==
  ASSUME NEW size \in Nat, NEW C, NEW text, NEW b,
         Holds(b, size, C, text, TRUE), NEW op, IsChar(op), op.piece \in C
  PROVE  Holds(Do(b, op), size, C, text \o Copies(op.piece, op.len), FALSE)
<1>1. b \in Buffers(size, C) /\ b.n \in Nat /\ Room(b) = size - b.n /\ op.len = 1
      /\ op.piece # "code" /\ op.piece # Nul /\ op.by = "char"
  BY BufferFacts DEF Holds, IsChar
<1> DEFINE new == text \o Copies(op.piece, op.len)
<1>2. CASE b.end # "no"
  <2>1. Do(b, op) = b /\ b.end = "ends"
    BY <1>2, Zenon DEF Do, Holds
  <2> QED
    BY <1>1, <2>1, EndHolds, Zenon
<1>3. CASE b.end = "no"
  <2> DEFINE p == op.piece
             n == b.n
             s == b.cells
             d == [s EXCEPT ![n + 1] = p]
             w == Do(b, op)
  <2>1. n < size /\ (\A i \in 1 .. n : s[i] # Nul) /\ Kept(s)[n] = text
    BY <1>3 DEF Holds
  <2>2. Do(b, op) = PutChar(b, p)
    BY <1>1, <1>3, Zenon DEF Do
  <2>3. Room(b) # 0
    BY <1>1, <2>1
  <2>4. PutChar(b, p) = [b EXCEPT !.cells[b.n + 1] = p, !.n = @ + 1]
    BY <2>3, Zenon DEF PutChar
  <2>5. w = [b EXCEPT !.cells = d, !.n = n + 1]
    BY <2>2, <2>4
  <2>6. s \in [1 .. size -> C] /\ n \in Nat /\ p \in C /\ Len(s) = size
    BY <1>1, BufferFacts
  <2>7. s \in Seq(C)
    BY <1>1, CellsAre
  <2>8. b.end = "no" /\ b \in Buffers(size, C)
    BY <1>1, <1>3
  <2> HIDE DEF s, d, w, n, p
  <2>9. d \in [1 .. size -> C] /\ d[n + 1] = p /\ \A i \in 1 .. n : d[i] = s[i]
    BY <2>1, <2>6 DEF d
  <2>10. w \in Buffers(size, C) /\ w.cells = d /\ w.n = n + 1 /\ w.end = "no"
    <3>1. b = [cells |-> b.cells, n |-> b.n, end |-> b.end]
      BY <2>8 DEF Buffers
    <3>2. w = [cells |-> d, n |-> n + 1, end |-> b.end]
      BY <2>5, <3>1
    <3>3. n + 1 \in Nat /\ "no" \in Ends
      BY <2>6 DEF Ends
    <3> QED
      BY <2>8, <2>9, <3>2, <3>3 DEF Buffers
  <2>11. d \in Seq(C) /\ Len(d) = size
    BY <2>10, CellsAre
  <2>12. Kept(d)[n] = Kept(s)[n]
    BY <2>1, <2>6, <2>7, <2>9, <2>11, KeptSame
  <2>13. Kept(d)[n + 1] = Longer(Kept(d)[n], p, 1)
    <3>1. n + 1 <= Len(d) /\ \A k \in n + 1 .. n + 1 : d[k] = p
      BY <2>1, <2>6, <2>9, <2>11
    <3> QED
      BY <2>6, <2>11, <3>1, KeptCopies
  <2>14. Kept(d)[n + 1] = new
    <3>1. p # "code" /\ new = text \o Copies(p, 1)
      BY <1>1 DEF p
    <3> HIDE DEF new
    <3> QED
      BY <2>1, <2>12, <2>13, <3>1, Zenon DEF Longer
  <2>15. \A i \in 1 .. n + 1 : d[i] # Nul
    <3> TAKE i \in 1 .. n + 1
    <3>1. i \in 1 .. n \/ i = n + 1
      BY <2>6
    <3>2. p # Nul
      BY <1>1 DEF p
    <3> QED
      BY <2>1, <2>9, <3>1, <3>2, Zenon
  <2>16. w.n <= size
    BY <2>1, <2>6, <2>10
  <2> HIDE DEF new
  <2>17. Holds(w, size, C, new, FALSE)
    BY <2>10, <2>14, <2>15, <2>16, Zenon DEF Holds
  <2> QED
    BY <2>17 DEF w, new
<1> QED
  BY <1>2, <1>3

(* The text that the operations are to write, after each of them.           *)
WantedAt(ops) ==
  CHOOSE text : text = [n \in 0 .. Len(ops) |->
    IF n = 0 THEN <<>>
    ELSE IF ops[n].by \in {"sprintf", "char"}
           THEN text[n - 1] \o Copies(ops[n].piece, ops[n].len) ELSE text[n - 1]]

WantedStep(op, text) ==
  IF op.by \in {"sprintf", "char"} THEN text \o Copies(op.piece, op.len) ELSE text

AreWanted(W, ops) ==
  /\ Wanted(ops) = W[Len(ops)]
  /\ W[0] = <<>>
  /\ \A k \in 1 .. Len(ops) : W[k] = WantedStep(ops[k], W[k - 1])

LEMMA WantedIs ==
  ASSUME NEW C, NEW ops, AreOps(ops, C)
  PROVE  AreWanted(WantedAt(ops), ops)
<1> DEFINE n == Len(ops)
           V == Seq(C)
           g == [k \in 1 .. n |-> [v \in V |-> WantedStep(ops[k], v)]]
           body(f) == [k \in 0 .. n |->
             IF k = 0 THEN <<>>
             ELSE IF ops[k].by \in {"sprintf", "char"}
                    THEN f[k - 1] \o Copies(ops[k].piece, ops[k].len) ELSE f[k - 1]]
<1>1. n \in Nat /\ \A k \in 1 .. n : IsOp(ops[k], C)
  BY DEF AreOps
<1>2. ASSUME NEW k \in 1 .. n, NEW v \in V
      PROVE  WantedStep(ops[k], v) \in V
  <2>1. ops[k].piece \in C /\ ops[k].len \in Nat
    BY <1>1 DEF IsOp
  <2>2. v \o Copies(ops[k].piece, ops[k].len) \in V
    BY <2>1, OneMoreCopy
  <2> QED
    BY <2>2, Zenon DEF WantedStep
<1>3. g \in Steps(n, V) /\ <<>> \in V
  <2>1. <<>> \in V
    BY EmptySeq
  <2> HIDE DEF n, V
  <2> QED
    BY <1>2, <2>1 DEF Steps
<1>4. PICK f : IsRecursion(f, n, V, <<>>, g)
  <2> HIDE DEF n, V, g
  <2> QED
    BY <1>1, <1>3, Recursion
<1>5. f \in [0 .. n -> V] /\ f[0] = <<>> /\ \A k \in 1 .. n : f[k] = g[k][f[k - 1]]
  BY <1>4, Zenon DEF IsRecursion
<1>6. f = body(f)
  <2>1. ASSUME NEW k \in 0 .. n
        PROVE  f[k] = IF k = 0 THEN <<>> ELSE WantedStep(ops[k], f[k - 1])
    <3>1. CASE k = 0
      BY <1>5, <3>1
    <3>2. CASE k # 0
      <4>1. k \in 1 .. n /\ k - 1 \in 0 .. n
        BY <1>1, <3>2
      <4>2. f[k - 1] \in V
        BY <1>5, <4>1
      <4> HIDE DEF n, V
      <4>3. g[k][f[k - 1]] = WantedStep(ops[k], f[k - 1])
        BY <4>1, <4>2
      <4> HIDE DEF g
      <4> QED
        BY <1>5, <3>2, <4>1, <4>3, Zenon
    <3> QED
      BY <3>1, <3>2
  <2>2. f = [k \in 0 .. n |-> f[k]]
    BY <1>5
  <2> QED
    BY <2>1, <2>2, Zenon DEF WantedStep
<1>7. WantedAt(ops) = body(WantedAt(ops))
  BY <1>6, Zenon DEF WantedAt
<1> DEFINE F == WantedAt(ops)
<1> HIDE DEF F
<1>8. F = body(F)
  BY <1>7 DEF F
<1>9. F[0] = <<>> /\ \A k \in 1 .. n : F[k] = WantedStep(ops[k], F[k - 1])
  <2>1. \A k \in 0 .. n : body(F)[k] = IF k = 0 THEN <<>> ELSE WantedStep(ops[k], F[k - 1])
    BY DEF WantedStep
  <2>2. 0 \in 0 .. n /\ \A k \in 1 .. n : k \in 0 .. n /\ k # 0
    BY <1>1
  <2> HIDE DEF body, n
  <2> QED
    BY <1>8, <2>1, <2>2, Zenon
<1>10. Wanted(ops) = F[n]
  BY Zenon DEF Wanted, WantedAt, F
<1> QED
  BY <1>9, <1>10, Zenon DEF F, AreWanted

(* After k operations the buffer holds what they were to write.             *)
Reached(ops, size, C, k, closed) ==
  Holds(FormatAt(ops, size)[k], size, C, WantedAt(ops)[k], closed)

AreTextOps(ops, C) == AreOps(ops, C) /\ "code" \in C

LEMMA ReachNone ==
  ASSUME NEW size \in Nat, NEW C, NEW ops, AreTextOps(ops, C)
  PROVE  Reached(ops, size, C, 0, FALSE)
<1> DEFINE F == FormatAt(ops, size)
           W == WantedAt(ops)
           b == Empty(size)
<1>1. AreFormatted(F, ops, size, C) /\ AreWanted(W, ops)
  BY FormatIs, WantedIs DEF AreTextOps
<1>2. F[0] = b /\ W[0] = <<>>
  BY <1>1, Zenon DEF AreFormatted, AreWanted
<1>3. b \in Buffers(size, C) /\ b.n = 0 /\ b.end = "no"
  BY DEF Empty, Buffers, Ends, AreTextOps, AreOps
<1> HIDE DEF b
<1>4. b.cells \in Seq(C) /\ Len(b.cells) = size
  BY <1>3, CellsAre
<1>5. Kept(b.cells)[0] = <<>>
  BY <1>4, KeptIs DEF IsKept
<1>6. b.n <= size /\ \A i \in 1 .. b.n : b.cells[i] # Nul
  BY <1>3
<1>7. Holds(b, size, C, <<>>, FALSE)
  BY <1>3, <1>5, <1>6, Zenon DEF Holds
<1> QED
  BY <1>2, <1>7, Zenon DEF Reached

LEMMA ReachNext ==
  ASSUME NEW size \in Nat, NEW C, NEW ops, AreTextOps(ops, C),
         NEW k \in 1 .. Len(ops), NEW closed \in BOOLEAN, Reached(ops, size, C, k - 1, closed)
  PROVE  /\ IsCode(ops[k]) => Reached(ops, size, C, k, closed)
         /\ IsPrinted(ops[k]) => Reached(ops, size, C, k, TRUE)
         /\ IsCheck(ops[k]) /\ closed = TRUE => Reached(ops, size, C, k, TRUE)
         /\ IsChar(ops[k]) /\ closed = TRUE => Reached(ops, size, C, k, FALSE)
<1> DEFINE F == FormatAt(ops, size)
           W == WantedAt(ops)
           b == F[k - 1]
           text == W[k - 1]
           op == ops[k]
<1>1. AreFormatted(F, ops, size, C) /\ AreWanted(W, ops) /\ Nul \in C /\ "code" \in C
      /\ IsOp(op, C)
  BY FormatIs, WantedIs DEF AreTextOps, AreOps
<1>2. F[k] = Do(b, op) /\ W[k] = WantedStep(op, text)
  BY <1>1, Zenon DEF AreFormatted, AreWanted
<1>3. Holds(b, size, C, text, closed) /\ op.piece \in C
  BY <1>1 DEF Reached, IsOp
<1> HIDE DEF F, W, b, text, op
<1>4. ASSUME IsCode(op)
      PROVE  Holds(F[k], size, C, W[k], closed)
  <2>1. W[k] = text
    BY <1>2, <1>4 DEF WantedStep, IsCode
  <2>2. Holds(Do(b, op), size, C, text, closed)
    BY <1>1, <1>3, <1>4, CodeHolds
  <2> QED
    BY <1>2, <2>1, <2>2, Zenon
<1>5. ASSUME IsPrinted(op)
      PROVE  Holds(F[k], size, C, W[k], TRUE)
  <2>1. W[k] = text \o Copies(op.piece, op.len)
    <3>1. op.by \in {"sprintf", "char"}
      BY <1>5 DEF IsPrinted
    <3> QED
      BY <1>2, <3>1, Zenon DEF WantedStep
  <2>2. Holds(Do(b, op), size, C, text \o Copies(op.piece, op.len), TRUE)
    BY <1>1, <1>3, <1>5, PrintedHolds
  <2> QED
    BY <1>2, <2>1, <2>2, Zenon
<1>6. ASSUME IsCheck(op), closed = TRUE
      PROVE  Holds(F[k], size, C, W[k], TRUE)
  <2>1. W[k] = text
    BY <1>2, <1>6 DEF WantedStep, IsCheck
  <2>2. Holds(b, size, C, text, TRUE)
    BY <1>3, <1>6, Zenon
  <2>3. Holds(Do(b, op), size, C, text, TRUE)
    BY <1>6, <2>2, CheckHolds
  <2> QED
    BY <1>2, <2>1, <2>3, Zenon
<1>7. ASSUME IsChar(op), closed = TRUE
      PROVE  Holds(F[k], size, C, W[k], FALSE)
  <2>1. W[k] = text \o Copies(op.piece, op.len)
    <3>1. op.by \in {"sprintf", "char"}
      BY <1>7 DEF IsChar
    <3> QED
      BY <1>2, <3>1, Zenon DEF WantedStep
  <2>2. Holds(b, size, C, text, TRUE)
    BY <1>3, <1>7, Zenon
  <2>3. Holds(Do(b, op), size, C, text \o Copies(op.piece, op.len), FALSE)
    BY <1>3, <1>7, <2>2, CharHolds
  <2> QED
    BY <1>2, <2>1, <2>3, Zenon
<1> QED
  BY <1>4, <1>5, <1>6, <1>7, Zenon DEF F, W, op, Reached

(* What the buffer holds is what is shown of it. *)
LEMMA HeldIsShown ==
  ASSUME NEW size \in Nat, NEW C, NEW b, NEW text, Holds(b, size, C, text, TRUE)
  PROVE  b.end = "no" => /\ Len(Shown(b)) = b.n /\ b.n < size
                         /\ WithoutCodes(Shown(b)) = text
<1> SUFFICES ASSUME b.end = "no"
             PROVE  Len(Shown(b)) = b.n /\ b.n < size /\ WithoutCodes(Shown(b)) = text
  OBVIOUS
<1> DEFINE n == b.n
           s == b.cells
           nuls == {i \in DOMAIN s : s[i] = Nul}
<1>2. /\ n < size /\ s[n + 1] = Nul /\ \A i \in 1 .. n : s[i] # Nul
      /\ Kept(s)[n] = text /\ b \in Buffers(size, C)
  BY DEF Holds
<1>3. n \in Nat /\ DOMAIN s = 1 .. size /\ s \in Seq(C) /\ Len(s) = size
  BY <1>2, BufferFacts, CellsAre
<1>4. Shown(b) = SubSeq(s, 1, IF nuls = {} THEN Len(s) ELSE Min(nuls) - 1)
  BY Zenon DEF Shown
<1> HIDE DEF n, s
<1>5. n + 1 \in nuls /\ \A i \in nuls : n + 1 <= i
  BY <1>2, <1>3
<1>6. Min(nuls) = n + 1
  <2> DEFINE m == CHOOSE x \in nuls : \A y \in nuls : x <= y
  <2>1. m \in nuls /\ \A y \in nuls : m <= y
    <3> HIDE DEF nuls
    <3> QED
      BY <1>5
  <2> HIDE DEF m
  <2>2. m \in 1 .. size
    BY <1>3, <2>1
  <2>3. m = n + 1
    BY <1>3, <1>5, <2>1, <2>2
  <2> QED
    BY <2>3 DEF Min, m
<1>7. nuls # {} /\ (n + 1) - 1 = n
  BY <1>3, <1>5
<1> DEFINE r == SubSeq(s, 1, n)
<1>8. Shown(b) = r
  <2> HIDE DEF nuls
  <2> QED
    BY <1>4, <1>6, <1>7, Zenon
<1>9. r \in Seq(C) /\ Len(r) = n /\ \A i \in 1 .. n : r[i] = s[i]
  <2>1. 1 \in Nat \ {0} /\ n \in Int /\ n <= Len(s) /\ n - 1 + 1 = n
        /\ (1 > n => n = 0) /\ \A i \in 1 .. n : 1 + i - 1 = i
    BY <1>2, <1>3
  <2>2. r \in Seq(C)
    BY <1>3, <2>1, PartOf
  <2>3. Len(r) = IF 1 <= n THEN n - 1 + 1 ELSE 0
    BY <1>3, <2>1, PartOf
  <2>4. \A i \in 1 .. n - 1 + 1 : r[i] = s[1 + i - 1]
    BY <1>3, <2>1, PartOf
  <2> HIDE DEF r
  <2> QED
    BY <1>3, <2>1, <2>2, <2>3, <2>4
<1> HIDE DEF r
<1>10. Kept(r)[n] = Kept(s)[n]
  BY <1>2, <1>3, <1>9, KeptSame
<1>11. WithoutCodes(r) = Kept(r)[Len(r)]
  BY Zenon DEF WithoutCodes, Kept
<1> QED
  BY <1>2, <1>8, <1>9, <1>10, <1>11, Zenon DEF n

LEMMA ReachedIsShown ==
  ASSUME NEW size \in Nat, NEW C, NEW ops, AreTextOps(ops, C),
         Reached(ops, size, C, Len(ops), TRUE)
  PROVE  CountedIsShown(ops, size)
<1> DEFINE F == FormatAt(ops, size)
           W == WantedAt(ops)
           b == F[Len(ops)]
           text == W[Len(ops)]
<1>1. AreFormatted(F, ops, size, C) /\ AreWanted(W, ops)
  BY FormatIs, WantedIs DEF AreTextOps
<1>2. Format(ops, size) = b /\ Wanted(ops) = text
  BY <1>1, Zenon DEF AreFormatted, AreWanted
<1>3. Holds(b, size, C, text, TRUE)
  BY Zenon DEF Reached
<1> HIDE DEF b, text
<1>4. b.end = "no" => /\ Len(Shown(b)) = b.n /\ b.n < size
                      /\ WithoutCodes(Shown(b)) = text
  BY <1>3, HeldIsShown
<1> QED
  BY <1>2, <1>4, Zenon DEF CountedIsShown, TextShows

LEMMA OpsAre ==
  /\ IsCode(TextColor) /\ TextColor.piece = "code"
  /\ IsCode(Code256) /\ Code256.piece = "code"
  /\ \A on \in BOOLEAN : IsCode(Bold(on)) /\ Bold(on).piece = "code"
  /\ IsCheck(Check) /\ Check.piece = Nul
  /\ IsPrinted(Timestamp) /\ Timestamp.piece = "[ts] "
  /\ \A p : p \notin {Nul, "code"} => IsChar(Char(p)) /\ Char(p).piece = p
<1>1. IsCode(TextColor) /\ TextColor.piece = "code"
  BY DEF IsCode, TextColor, Code
<1>2. IsCode(Code256) /\ Code256.piece = "code"
  BY DEF IsCode, Code256, Code256Len
<1>3. \A on \in BOOLEAN : IsCode(Bold(on)) /\ Bold(on).piece = "code"
  BY DEF IsCode, Bold, Code
<1>4. IsCheck(Check) /\ Check.piece = Nul
  BY DEF IsCheck, Check
<1>5. \A p : p \notin {Nul, "code"} => IsChar(Char(p)) /\ Char(p).piece = p
  BY DEF IsChar, Char
<1>6. IsPrinted(Timestamp) /\ Timestamp.piece = "[ts] "
  BY DEF Timestamp, IsPrinted, Text, Nul
<1> QED
  BY <1>1, <1>2, <1>3, <1>4, <1>5, <1>6

(* What screenfmt_default counts as written shows, whatever the sizes.        *)
THEOREM DefaultShows ==
  ASSUME NEW size \in Nat, NEW src \in Nat, NEW param \in Nat
  PROVE  CountedIsShown(DefaultOps(src, param), size)
<1> DEFINE ops == DefaultOps(src, param)
           C == {"old", Nul, "code", "[ts] ", "src", "cmd", "param"}
<1>1. /\ Len(ops) = 10
      /\ ops[1] = TextColor /\ ops[2] = Timestamp /\ ops[3] = TextColor
      /\ ops[4] = Check /\ ops[5] = Text("src", src + 2) /\ ops[6] = Code256
      /\ ops[7] = Check /\ ops[8] = Text("cmd", 5) /\ ops[9] = Text("param", param + 1)
      /\ ops[10] = TextColor
  BY DEF DefaultOps
<1> HIDE DEF ops
<1>2. /\ IsCode(TextColor) /\ TextColor.piece \in C
      /\ IsPrinted(Timestamp) /\ Timestamp.piece \in C
      /\ IsCheck(Check) /\ Check.piece \in C
      /\ IsPrinted(Text("src", src + 2)) /\ Text("src", src + 2).piece \in C
      /\ IsCode(Code256) /\ Code256.piece \in C
      /\ IsPrinted(Text("cmd", 5)) /\ Text("cmd", 5).piece \in C
      /\ IsPrinted(Text("param", param + 1)) /\ Text("param", param + 1).piece \in C
  <2>1. IsCode(TextColor) /\ TextColor.piece \in C
    BY OpsAre DEF Nul
  <2>2. IsPrinted(Timestamp) /\ Timestamp.piece \in C
    BY OpsAre DEF Nul
  <2>3. IsCheck(Check) /\ Check.piece \in C
    BY OpsAre DEF Nul
  <2>4. IsPrinted(Text("src", src + 2)) /\ Text("src", src + 2).piece \in C
    BY DEF IsPrinted, Text, Nul
  <2>5. IsCode(Code256) /\ Code256.piece \in C
    BY OpsAre DEF Nul
  <2>6. IsPrinted(Text("cmd", 5)) /\ Text("cmd", 5).piece \in C
    BY DEF IsPrinted, Text, Nul
  <2>7. IsPrinted(Text("param", param + 1)) /\ Text("param", param + 1).piece \in C
    BY DEF IsPrinted, Text, Nul
  <2> QED
    BY <2>1, <2>2, <2>3, <2>4, <2>5, <2>6, <2>7
<1> HIDE DEF C
<1>3. /\ IsCode(ops[1]) /\ ops[1].piece \in C
      /\ IsPrinted(ops[2]) /\ ops[2].piece \in C
      /\ IsCode(ops[3]) /\ ops[3].piece \in C
      /\ IsCheck(ops[4]) /\ ops[4].piece \in C
      /\ IsPrinted(ops[5]) /\ ops[5].piece \in C
      /\ IsCode(ops[6]) /\ ops[6].piece \in C
      /\ IsCheck(ops[7]) /\ ops[7].piece \in C
      /\ IsPrinted(ops[8]) /\ ops[8].piece \in C
      /\ IsPrinted(ops[9]) /\ ops[9].piece \in C
      /\ IsCode(ops[10]) /\ ops[10].piece \in C
  BY <1>1, <1>2, Zenon
<1>4. ASSUME NEW k \in 1 .. 10
      PROVE  IsOp(ops[k], C)
  <2>1. \A op : (IsCode(op) \/ IsPrinted(op) \/ IsCheck(op) \/ IsChar(op)) /\ op.piece \in C => IsOp(op, C)
    BY DEF IsCode, IsPrinted, IsCheck, IsChar, IsOp, Kinds
  <2>2. k = 1 \/ k = 2 \/ k = 3 \/ k = 4 \/ k = 5 \/ k = 6 \/ k = 7 \/ k = 8 \/ k = 9 \/ k = 10
    OBVIOUS
  <2> QED
    BY <1>3, <2>1, <2>2, Zenon
<1>5. AreTextOps(ops, C)
  <2>1. Nul \in C /\ "old" \in C /\ "code" \in C /\ 10 \in Nat
    BY DEF C
  <2> QED
    BY <1>1, <1>4, <2>1, Zenon DEF AreTextOps, AreOps
<1>6. ASSUME NEW k \in 1 .. 10, NEW closed \in BOOLEAN, Reached(ops, size, C, k - 1, closed)
      PROVE  /\ IsCode(ops[k]) => Reached(ops, size, C, k, closed)
             /\ IsPrinted(ops[k]) => Reached(ops, size, C, k, TRUE)
             /\ IsCheck(ops[k]) /\ closed = TRUE => Reached(ops, size, C, k, TRUE)
             /\ IsChar(ops[k]) /\ closed = TRUE => Reached(ops, size, C, k, FALSE)
  <2>1. k \in 1 .. Len(ops)
    BY <1>1
  <2> QED
    BY <1>5, <1>6, <2>1, ReachNext
<1>7. Reached(ops, size, C, 0, FALSE)
  BY <1>5, ReachNone
<1>8. Reached(ops, size, C, 1, FALSE)
  <2>1. 1 \in 1 .. 10 /\ 1 - 1 = 0 /\ FALSE \in BOOLEAN
    OBVIOUS
  <2>2. Reached(ops, size, C, 1 - 1, FALSE)
    BY <1>7, <2>1, Zenon
  <2> QED
    BY <1>3, <1>6, <2>1, <2>2, Zenon
<1>9. Reached(ops, size, C, 2, TRUE)
  <2>1. 2 \in 1 .. 10 /\ 2 - 1 = 1 /\ FALSE \in BOOLEAN
    OBVIOUS
  <2>2. Reached(ops, size, C, 2 - 1, FALSE)
    BY <1>8, <2>1, Zenon
  <2> QED
    BY <1>3, <1>6, <2>1, <2>2, Zenon
<1>10. Reached(ops, size, C, 3, TRUE)
  <2>1. 3 \in 1 .. 10 /\ 3 - 1 = 2 /\ TRUE \in BOOLEAN
    OBVIOUS
  <2>2. Reached(ops, size, C, 3 - 1, TRUE)
    BY <1>9, <2>1, Zenon
  <2> QED
    BY <1>3, <1>6, <2>1, <2>2, Zenon
<1>11. Reached(ops, size, C, 4, TRUE)
  <2>1. 4 \in 1 .. 10 /\ 4 - 1 = 3 /\ TRUE \in BOOLEAN
    OBVIOUS
  <2>2. Reached(ops, size, C, 4 - 1, TRUE)
    BY <1>10, <2>1, Zenon
  <2> QED
    BY <1>3, <1>6, <2>1, <2>2, Zenon
<1>12. Reached(ops, size, C, 5, TRUE)
  <2>1. 5 \in 1 .. 10 /\ 5 - 1 = 4 /\ TRUE \in BOOLEAN
    OBVIOUS
  <2>2. Reached(ops, size, C, 5 - 1, TRUE)
    BY <1>11, <2>1, Zenon
  <2> QED
    BY <1>3, <1>6, <2>1, <2>2, Zenon
<1>13. Reached(ops, size, C, 6, TRUE)
  <2>1. 6 \in 1 .. 10 /\ 6 - 1 = 5 /\ TRUE \in BOOLEAN
    OBVIOUS
  <2>2. Reached(ops, size, C, 6 - 1, TRUE)
    BY <1>12, <2>1, Zenon
  <2> QED
    BY <1>3, <1>6, <2>1, <2>2, Zenon
<1>14. Reached(ops, size, C, 7, TRUE)
  <2>1. 7 \in 1 .. 10 /\ 7 - 1 = 6 /\ TRUE \in BOOLEAN
    OBVIOUS
  <2>2. Reached(ops, size, C, 7 - 1, TRUE)
    BY <1>13, <2>1, Zenon
  <2> QED
    BY <1>3, <1>6, <2>1, <2>2, Zenon
<1>15. Reached(ops, size, C, 8, TRUE)
  <2>1. 8 \in 1 .. 10 /\ 8 - 1 = 7 /\ TRUE \in BOOLEAN
    OBVIOUS
  <2>2. Reached(ops, size, C, 8 - 1, TRUE)
    BY <1>14, <2>1, Zenon
  <2> QED
    BY <1>3, <1>6, <2>1, <2>2, Zenon
<1>16. Reached(ops, size, C, 9, TRUE)
  <2>1. 9 \in 1 .. 10 /\ 9 - 1 = 8 /\ TRUE \in BOOLEAN
    OBVIOUS
  <2>2. Reached(ops, size, C, 9 - 1, TRUE)
    BY <1>15, <2>1, Zenon
  <2> QED
    BY <1>3, <1>6, <2>1, <2>2, Zenon
<1>17. Reached(ops, size, C, 10, TRUE)
  <2>1. 10 \in 1 .. 10 /\ 10 - 1 = 9 /\ TRUE \in BOOLEAN
    OBVIOUS
  <2>2. Reached(ops, size, C, 10 - 1, TRUE)
    BY <1>16, <2>1, Zenon
  <2> QED
    BY <1>3, <1>6, <2>1, <2>2, Zenon
<1> QED
  <2>1. Reached(ops, size, C, Len(ops), TRUE)
    BY <1>1, <1>17, Zenon
  <2>2. CountedIsShown(ops, size)
    BY <1>5, <2>1, ReachedIsShown
  <2> QED
    BY <2>2 DEF ops

(* So does what screenfmt_privmsg counts.                                    *)
THEOREM PrivmsgShows ==
  ASSUME NEW size \in Nat, NEW from \in Nat, NEW msg \in Nat, NEW self \in BOOLEAN
  PROVE  CountedIsShown(PrivmsgOps(from, msg, self), size)
<1> DEFINE ops == PrivmsgOps(from, msg, self)
           C == {"old", Nul, "code", "[ts] ", "<", "from", ">", "msg"}
<1>1. /\ Len(ops) = 13
      /\ ops[1] = TextColor /\ ops[2] = Timestamp /\ ops[3] = TextColor
      /\ ops[4] = Char("<") /\ ops[5] = Bold(self) /\ ops[6] = TextColor
      /\ ops[7] = Text("from", from) /\ ops[8] = Bold(FALSE) /\ ops[9] = TextColor
      /\ ops[10] = Char(">") /\ ops[11] = TextColor /\ ops[12] = Text("msg", msg + 1)
      /\ ops[13] = TextColor
  BY DEF PrivmsgOps
<1> HIDE DEF ops
<1>2. /\ IsCode(TextColor) /\ TextColor.piece \in C
      /\ IsPrinted(Timestamp) /\ Timestamp.piece \in C
      /\ IsChar(Char("<")) /\ Char("<").piece \in C
      /\ IsCode(Bold(self)) /\ Bold(self).piece \in C
      /\ IsPrinted(Text("from", from)) /\ Text("from", from).piece \in C
      /\ IsCode(Bold(FALSE)) /\ Bold(FALSE).piece \in C
      /\ IsChar(Char(">")) /\ Char(">").piece \in C
      /\ IsPrinted(Text("msg", msg + 1)) /\ Text("msg", msg + 1).piece \in C
  <2>1. IsCode(TextColor) /\ TextColor.piece \in C
    BY OpsAre DEF Nul
  <2>2. IsPrinted(Timestamp) /\ Timestamp.piece \in C
    BY OpsAre DEF Nul
  <2>3. IsChar(Char("<")) /\ Char("<").piece \in C
    BY OpsAre DEF Nul
  <2>4. IsCode(Bold(self)) /\ Bold(self).piece \in C
    BY OpsAre DEF Nul
  <2>5. IsPrinted(Text("from", from)) /\ Text("from", from).piece \in C
    BY DEF IsPrinted, Text, Nul
  <2>6. IsCode(Bold(FALSE)) /\ Bold(FALSE).piece \in C
    BY OpsAre DEF Nul
  <2>7. IsChar(Char(">")) /\ Char(">").piece \in C
    BY OpsAre DEF Nul
  <2>8. IsPrinted(Text("msg", msg + 1)) /\ Text("msg", msg + 1).piece \in C
    BY DEF IsPrinted, Text, Nul
  <2> QED
    BY <2>1, <2>2, <2>3, <2>4, <2>5, <2>6, <2>7, <2>8
<1> HIDE DEF C
<1>3. /\ IsCode(ops[1]) /\ ops[1].piece \in C
      /\ IsPrinted(ops[2]) /\ ops[2].piece \in C
      /\ IsCode(ops[3]) /\ ops[3].piece \in C
      /\ IsChar(ops[4]) /\ ops[4].piece \in C
      /\ IsCode(ops[5]) /\ ops[5].piece \in C
      /\ IsCode(ops[6]) /\ ops[6].piece \in C
      /\ IsPrinted(ops[7]) /\ ops[7].piece \in C
      /\ IsCode(ops[8]) /\ ops[8].piece \in C
      /\ IsCode(ops[9]) /\ ops[9].piece \in C
      /\ IsChar(ops[10]) /\ ops[10].piece \in C
      /\ IsCode(ops[11]) /\ ops[11].piece \in C
      /\ IsPrinted(ops[12]) /\ ops[12].piece \in C
      /\ IsCode(ops[13]) /\ ops[13].piece \in C
  BY <1>1, <1>2, Zenon
<1>4. ASSUME NEW k \in 1 .. 13
      PROVE  IsOp(ops[k], C)
  <2>1. \A op : (IsCode(op) \/ IsPrinted(op) \/ IsCheck(op) \/ IsChar(op)) /\ op.piece \in C => IsOp(op, C)
    BY DEF IsCode, IsPrinted, IsCheck, IsChar, IsOp, Kinds
  <2>2. k = 1 \/ k = 2 \/ k = 3 \/ k = 4 \/ k = 5 \/ k = 6 \/ k = 7 \/ k = 8 \/ k = 9 \/ k = 10 \/ k = 11 \/ k = 12 \/ k = 13
    OBVIOUS
  <2> QED
    BY <1>3, <2>1, <2>2, Zenon
<1>5. AreTextOps(ops, C)
  <2>1. Nul \in C /\ "old" \in C /\ "code" \in C /\ 13 \in Nat
    BY DEF C
  <2> QED
    BY <1>1, <1>4, <2>1, Zenon DEF AreTextOps, AreOps
<1>6. ASSUME NEW k \in 1 .. 13, NEW closed \in BOOLEAN, Reached(ops, size, C, k - 1, closed)
      PROVE  /\ IsCode(ops[k]) => Reached(ops, size, C, k, closed)
             /\ IsPrinted(ops[k]) => Reached(ops, size, C, k, TRUE)
             /\ IsCheck(ops[k]) /\ closed = TRUE => Reached(ops, size, C, k, TRUE)
             /\ IsChar(ops[k]) /\ closed = TRUE => Reached(ops, size, C, k, FALSE)
  <2>1. k \in 1 .. Len(ops)
    BY <1>1
  <2> QED
    BY <1>5, <1>6, <2>1, ReachNext
<1>7. Reached(ops, size, C, 0, FALSE)
  BY <1>5, ReachNone
<1>8. Reached(ops, size, C, 1, FALSE)
  <2>1. 1 \in 1 .. 13 /\ 1 - 1 = 0 /\ FALSE \in BOOLEAN
    OBVIOUS
  <2>2. Reached(ops, size, C, 1 - 1, FALSE)
    BY <1>7, <2>1, Zenon
  <2> QED
    BY <1>3, <1>6, <2>1, <2>2, Zenon
<1>9. Reached(ops, size, C, 2, TRUE)
  <2>1. 2 \in 1 .. 13 /\ 2 - 1 = 1 /\ FALSE \in BOOLEAN
    OBVIOUS
  <2>2. Reached(ops, size, C, 2 - 1, FALSE)
    BY <1>8, <2>1, Zenon
  <2> QED
    BY <1>3, <1>6, <2>1, <2>2, Zenon
<1>10. Reached(ops, size, C, 3, TRUE)
  <2>1. 3 \in 1 .. 13 /\ 3 - 1 = 2 /\ TRUE \in BOOLEAN
    OBVIOUS
  <2>2. Reached(ops, size, C, 3 - 1, TRUE)
    BY <1>9, <2>1, Zenon
  <2> QED
    BY <1>3, <1>6, <2>1, <2>2, Zenon
<1>11. Reached(ops, size, C, 4, FALSE)
  <2>1. 4 \in 1 .. 13 /\ 4 - 1 = 3 /\ TRUE \in BOOLEAN
    OBVIOUS
  <2>2. Reached(ops, size, C, 4 - 1, TRUE)
    BY <1>10, <2>1, Zenon
  <2> QED
    BY <1>3, <1>6, <2>1, <2>2, Zenon
<1>12. Reached(ops, size, C, 5, FALSE)
  <2>1. 5 \in 1 .. 13 /\ 5 - 1 = 4 /\ FALSE \in BOOLEAN
    OBVIOUS
  <2>2. Reached(ops, size, C, 5 - 1, FALSE)
    BY <1>11, <2>1, Zenon
  <2> QED
    BY <1>3, <1>6, <2>1, <2>2, Zenon
<1>13. Reached(ops, size, C, 6, FALSE)
  <2>1. 6 \in 1 .. 13 /\ 6 - 1 = 5 /\ FALSE \in BOOLEAN
    OBVIOUS
  <2>2. Reached(ops, size, C, 6 - 1, FALSE)
    BY <1>12, <2>1, Zenon
  <2> QED
    BY <1>3, <1>6, <2>1, <2>2, Zenon
<1>14. Reached(ops, size, C, 7, TRUE)
  <2>1. 7 \in 1 .. 13 /\ 7 - 1 = 6 /\ FALSE \in BOOLEAN
    OBVIOUS
  <2>2. Reached(ops, size, C, 7 - 1, FALSE)
    BY <1>13, <2>1, Zenon
  <2> QED
    BY <1>3, <1>6, <2>1, <2>2, Zenon
<1>15. Reached(ops, size, C, 8, TRUE)
  <2>1. 8 \in 1 .. 13 /\ 8 - 1 = 7 /\ TRUE \in BOOLEAN
    OBVIOUS
  <2>2. Reached(ops, size, C, 8 - 1, TRUE)
    BY <1>14, <2>1, Zenon
  <2> QED
    BY <1>3, <1>6, <2>1, <2>2, Zenon
<1>16. Reached(ops, size, C, 9, TRUE)
  <2>1. 9 \in 1 .. 13 /\ 9 - 1 = 8 /\ TRUE \in BOOLEAN
    OBVIOUS
  <2>2. Reached(ops, size, C, 9 - 1, TRUE)
    BY <1>15, <2>1, Zenon
  <2> QED
    BY <1>3, <1>6, <2>1, <2>2, Zenon
<1>17. Reached(ops, size, C, 10, FALSE)
  <2>1. 10 \in 1 .. 13 /\ 10 - 1 = 9 /\ TRUE \in BOOLEAN
    OBVIOUS
  <2>2. Reached(ops, size, C, 10 - 1, TRUE)
    BY <1>16, <2>1, Zenon
  <2> QED
    BY <1>3, <1>6, <2>1, <2>2, Zenon
<1>18. Reached(ops, size, C, 11, FALSE)
  <2>1. 11 \in 1 .. 13 /\ 11 - 1 = 10 /\ FALSE \in BOOLEAN
    OBVIOUS
  <2>2. Reached(ops, size, C, 11 - 1, FALSE)
    BY <1>17, <2>1, Zenon
  <2> QED
    BY <1>3, <1>6, <2>1, <2>2, Zenon
<1>19. Reached(ops, size, C, 12, TRUE)
  <2>1. 12 \in 1 .. 13 /\ 12 - 1 = 11 /\ FALSE \in BOOLEAN
    OBVIOUS
  <2>2. Reached(ops, size, C, 12 - 1, FALSE)
    BY <1>18, <2>1, Zenon
  <2> QED
    BY <1>3, <1>6, <2>1, <2>2, Zenon
<1>20. Reached(ops, size, C, 13, TRUE)
  <2>1. 13 \in 1 .. 13 /\ 13 - 1 = 12 /\ TRUE \in BOOLEAN
    OBVIOUS
  <2>2. Reached(ops, size, C, 13 - 1, TRUE)
    BY <1>19, <2>1, Zenon
  <2> QED
    BY <1>3, <1>6, <2>1, <2>2, Zenon
<1> QED
  <2>1. Reached(ops, size, C, Len(ops), TRUE)
    BY <1>1, <1>20, Zenon
  <2>2. CountedIsShown(ops, size)
    BY <1>5, <2>1, ReachedIsShown
  <2> QED
    BY <2>2 DEF ops

-----------------------------------------------------------------------------
(* Lines of the server. *)

(* A part of a part of a sequence is a part of it.                          *)
LEMMA PartOfPart ==
  ASSUME NEW S, NEW s \in Seq(S), NEW a \in Nat \ {0}, NEW b \in Int, b <= Len(s),
         NEW c \in Nat \ {0}, NEW d \in Int, d <= Len(SubSeq(s, a, b))
  PROVE  SubSeq(SubSeq(s, a, b), c, d) = SubSeq(s, a + c - 1, a + d - 1)
<1> DEFINE p == SubSeq(s, a, b)
           o == a - 1
<1>1. p \in Seq(S) /\ Len(p) = (IF a <= b THEN b - a + 1 ELSE 0)
  BY PartOf
<1>2. \A i \in 1 .. b - a + 1 : p[i] = s[a + i - 1]
  BY PartOf
<1>3. Len(s) \in Nat
  BY SeqFacts
<1> HIDE DEF p
<1>a. d <= Len(p)
  BY DEF p
<1>5. SubSeq(s, a + c - 1, a + d - 1) = SubSeq(p, c, d)
  <2>1. CASE c <= d
    <3>1. a <= b /\ d <= b - a + 1
      BY <1>1, <1>a, <2>1
    <3>2. \A i \in c .. d : s[o + i] = p[i]
      <4>1. ASSUME NEW i \in c .. d
            PROVE  s[o + i] = p[i]
        <5>1. i \in 1 .. b - a + 1 /\ o + i = a + i - 1
          BY <3>1
        <5> HIDE DEF o
        <5> QED
          BY <1>2, <5>1
      <4> QED
        BY <4>1
    <3>3. Agree(p, s, o, c, d)
      <4> HIDE DEF o
      <4> QED
        BY <3>2 DEF Agree
    <3>4. o \in Nat /\ o + d <= Len(s) /\ o + c = a + c - 1 /\ o + d = a + d - 1
      BY <1>3, <3>1
    <3> HIDE DEF o
    <3>5. d <= Len(p) /\ o + d <= Len(s) /\ p \in Seq(S)
      BY <1>1, <1>a, <3>4
    <3>6. SubSeq(s, o + c, o + d) = SubSeq(p, c, d)
      BY <3>3, <3>4, <3>5, SamePart
    <3> QED
      BY <3>4, <3>6
  <2>2. CASE ~(c <= d)
    <3>1. SubSeq(s, a + c - 1, a + d - 1) = <<>>
      <4>1. a + c - 1 \in Int /\ a + d - 1 \in Int /\ a + c - 1 > a + d - 1
        BY <2>2
      <4> QED
        BY <4>1, SubSeqEmpty
    <3>2. SubSeq(p, c, d) = <<>>
      BY <2>2, SubSeqEmpty
    <3> QED
      BY <3>1, <3>2
  <2> QED
    BY <2>1, <2>2
<1> QED
  BY <1>5 DEF p

(* A word of a line, from w to the space or the end of the line at e.        *)
Blank(line, k) == line[k] = " "

EndsAt(line, w, e) ==
  /\ w \in 1 .. Len(line) /\ e \in w + 1 .. Len(line) + 1
  /\ \A k \in w .. e - 1 : ~Blank(line, k)
  /\ e = Len(line) + 1 \/ Blank(line, e)

(* Every byte that is no space begins a stretch that ends somewhere.         *)
LEMMA WordExists ==
  ASSUME NEW line, Len(line) \in Nat, NEW w \in 1 .. Len(line), ~Blank(line, w)
  PROVE  \E e : EndsAt(line, w, e)
<1> DEFINE n == Len(line)
           E == {e \in w + 1 .. n + 1 : e = n + 1 \/ Blank(line, e)}
<1>2. E \in SUBSET Nat /\ n + 1 \in E
  OBVIOUS
<1>3. PICK e \in E : \A k \in E : e <= k
  <2> HIDE DEF E
  <2> QED
    BY <1>2, Smallest
<1>4. \A k \in w .. e - 1 : ~Blank(line, k)
  <2>1. ASSUME NEW k \in w .. e - 1, Blank(line, k)
        PROVE  FALSE
    <3>1. k \in E
      BY <1>3, <2>1
    <3> QED
      BY <1>3, <3>1
  <2> QED
    BY <2>1
<1> QED
  BY <1>3, <1>4 DEF EndsAt

(* WordAt is that stretch.                                                  *)
LEMMA WordAtIs ==
  ASSUME NEW line, Len(line) \in Nat, NEW w, NEW e, EndsAt(line, w, e)
  PROVE  WordAt(line, w) = SubSeq(line, w, e - 1)
<1> DEFINE WordStops(k) == (\A j \in w .. k : ~Blank(line, j)) /\ (k = Len(line) \/ Blank(line, k + 1))
           c == CHOOSE k \in w .. Len(line) : WordStops(k)
<1>1. w \in Nat /\ e \in Nat /\ w < e /\ e <= Len(line) + 1
  BY DEF EndsAt
<1>2. e - 1 \in w .. Len(line) /\ WordStops(e - 1)
  BY <1>1 DEF EndsAt
<1>3. ASSUME NEW k \in w .. Len(line), WordStops(k)
      PROVE  k = e - 1
  <2>1. CASE k < e - 1
    <3>1. k + 1 \in w .. e - 1 /\ k # Len(line)
      BY <1>1, <2>1
    <3> QED
      BY <1>3, <3>1 DEF EndsAt
  <2>2. CASE k > e - 1
    <3>1. e \in w .. k /\ e # Len(line) + 1
      BY <1>1, <2>2
    <3> QED
      BY <1>3, <3>1 DEF EndsAt
  <2> QED
    BY <1>1, <2>1, <2>2
<1>4. c = e - 1
  <2>1. c \in w .. Len(line) /\ WordStops(c)
    <3> HIDE DEF WordStops
    <3> QED
      BY <1>2
  <2> HIDE DEF c, WordStops
  <2> QED
    BY <1>3, <2>1
<1>5. WordAt(line, w) = SubSeq(line, w, c)
  BY DEF WordAt, Blank
<1> QED
  BY <1>4, <1>5

(* strtok_s on the part of a line from i to the byte in front of q.         *)
IsWord(line, i, q, w, e) ==
  /\ w \in i .. q - 1 /\ e \in w + 1 .. q
  /\ \A k \in i .. w - 1 : Blank(line, k)
  /\ \A k \in w .. e - 1 : ~Blank(line, k)
  /\ e = q \/ Blank(line, e)

(* The bytes of the part, and which of them are spaces.                      *)
LEMMA RestIs ==
  ASSUME NEW S, NEW line \in Seq(S), NEW i \in Nat \ {0}, NEW q \in Nat, q <= Len(line) + 1
  PROVE  LET l == SubSeq(line, i, q - 1) IN
           /\ l \in Seq(S) /\ Len(l) \in Nat
           /\ Len(l) = IF i <= q THEN q - i ELSE 0
           /\ DOMAIN l = 1 .. Len(l)
           /\ \A k \in 1 .. q - i : l[k] = line[(i - 1) + k] /\ (i - 1) + k \in i .. q - 1
           /\ \A k : k \in Spaces(l) <=> k \in 1 .. q - i /\ Blank(line, (i - 1) + k)
<1> DEFINE l == SubSeq(line, i, q - 1)
           o == i - 1
<1>1. Len(line) \in Nat
  BY SeqFacts
<1>2. q - 1 \in Int /\ q - 1 <= Len(line)
  BY <1>1
<1>3. l \in Seq(S) /\ Len(l) = (IF i <= q - 1 THEN (q - 1) - i + 1 ELSE 0)
  BY <1>2, PartOf
<1>4. \A k \in 1 .. (q - 1) - i + 1 : l[k] = line[i + k - 1]
  BY <1>2, PartOf
<1> HIDE DEF l
<1>5. DOMAIN l = 1 .. Len(l)
  BY <1>3, SeqFacts
<1>6. Len(l) = (IF i <= q THEN q - i ELSE 0) /\ Len(l) \in Nat
  BY <1>3
<1>7. ASSUME NEW k \in 1 .. q - i
      PROVE  l[k] = line[o + k] /\ o + k \in i .. q - 1
  <2>1. k \in 1 .. (q - 1) - i + 1 /\ o + k = i + k - 1 /\ o + k \in i .. q - 1
    OBVIOUS
  <2> HIDE DEF o
  <2> QED
    BY <1>4, <2>1
<1>8. ASSUME NEW k
      PROVE  k \in Spaces(l) <=> k \in 1 .. q - i /\ Blank(line, o + k)
  <2>1. k \in DOMAIN l <=> k \in 1 .. q - i
    BY <1>5, <1>6
  <2> HIDE DEF o
  <2> QED
    BY <1>7, <2>1 DEF Spaces, Blank
<1> QED
  BY <1>3, <1>5, <1>6, <1>7, <1>8, Zenon DEF l, o

(* Where there are only spaces, strtok_s finds nothing.                      *)
LEMMA StrtokNone ==
  ASSUME NEW S, NEW line \in Seq(S), NEW i \in Nat \ {0}, NEW q \in Nat, q <= Len(line) + 1,
         \A k \in i .. q - 1 : Blank(line, k)
  PROVE  Strtok(SubSeq(line, i, q - 1)) = [token |-> None, next |-> <<>>]
<1> DEFINE l == SubSeq(line, i, q - 1)
<1>1. /\ Len(l) = (IF i <= q THEN q - i ELSE 0) /\ DOMAIN l = 1 .. Len(l)
      /\ \A k : k \in Spaces(l) <=> k \in 1 .. q - i /\ Blank(line, (i - 1) + k)
  BY RestIs
<1> HIDE DEF l
<1>5. ASSUME NEW k \in DOMAIN l
      PROVE  k \in Spaces(l)
  <2>1. k \in 1 .. q - i /\ (i - 1) + k \in i .. q - 1
    BY <1>1
  <2> QED
    BY <1>1, <2>1
<1>6. DOMAIN l \ Spaces(l) = {}
  BY <1>5
<1> QED
  BY <1>6 DEF l, Strtok

(* Otherwise it finds the first stretch, and goes on behind the space after it. *)
LEMMA StrtokIs ==
  ASSUME NEW S, NEW line \in Seq(S), NEW i \in Nat \ {0}, NEW q \in Nat, q <= Len(line) + 1,
         NEW w, NEW e, IsWord(line, i, q, w, e)
  PROVE  Strtok(SubSeq(line, i, q - 1))
           = [token |-> SubSeq(line, w, e - 1), next |-> SubSeq(line, e + 1, q - 1)]
<1> DEFINE l == SubSeq(line, i, q - 1)
           o == i - 1
           words == DOMAIN l \ Spaces(l)
           first == w - o
           ends == {k \in Spaces(l) : k > first}
           end == e - o
<1>1. w \in Nat /\ e \in Nat /\ i <= w /\ w < e /\ e <= q
  BY DEF IsWord
<1>2. /\ Len(l) = (IF i <= q THEN q - i ELSE 0) /\ DOMAIN l = 1 .. Len(l)
      /\ \A k : k \in Spaces(l) <=> k \in 1 .. q - i /\ Blank(line, o + k)
  BY RestIs
<1>3. Len(line) \in Nat
  BY SeqFacts
<1>4. q - 1 \in Int /\ q - 1 <= Len(line)
  BY <1>3
<1> HIDE DEF l
<1>5. Len(l) = q - i /\ DOMAIN l = 1 .. q - i
  BY <1>1, <1>2
<1>6. first \in words /\ \A k \in words : k \in Int /\ first <= k
  <2>1. first \in 1 .. q - i /\ o + first = w /\ ~Blank(line, w)
    BY <1>1 DEF IsWord
  <2>2. first \in words
    <3> HIDE DEF first, o
    <3> QED
      BY <1>2, <1>5, <2>1
  <2>3. ASSUME NEW k \in words
        PROVE  k \in Int /\ first <= k
    <3>1. k \in 1 .. q - i /\ ~Blank(line, o + k)
      BY <1>2, <1>5
    <3>2. ~(o + k \in i .. w - 1)
      BY <3>1 DEF IsWord
    <3> QED
      BY <1>1, <3>1, <3>2
  <2> QED
    BY <2>2, <2>3
<1>7. Min(words) = first
  <2> HIDE DEF words, first
  <2> QED
    BY <1>6, MinIs
<1>8. (IF ends = {} THEN Len(l) + 1 ELSE Min(ends)) = end
  <2>1. ASSUME NEW k \in ends
        PROVE  k \in 1 .. q - i /\ end <= k
    <3>1. k \in 1 .. q - i /\ Blank(line, o + k) /\ k > first
      BY <1>2
    <3>2. ~(o + k \in w .. e - 1)
      BY <3>1 DEF IsWord
    <3> QED
      BY <1>1, <3>1, <3>2
  <2>2. CASE e = q
    <3>1. ends = {}
      <4>1. ASSUME NEW k \in ends
            PROVE  FALSE
        BY <1>1, <2>1, <2>2
      <4> QED
        BY <4>1
    <3>2. Len(l) + 1 = end
      BY <1>1, <1>5, <2>2
    <3> QED
      BY <3>1, <3>2
  <2>3. CASE e # q
    <3>1. end \in 1 .. q - i /\ end > first /\ o + end = e /\ Blank(line, e)
      BY <1>1, <2>3 DEF IsWord
    <3>3. end \in ends
      <4> HIDE DEF end, first, o
      <4> QED
        BY <1>2, <3>1
    <3>4. Min(ends) = end
      <4>1. \A k \in ends : k \in Int /\ end <= k
        BY <2>1
      <4> HIDE DEF ends, end
      <4> QED
        BY <3>3, <4>1, MinIs
    <3> QED
      BY <3>3, <3>4
  <2> QED
    BY <2>2, <2>3
<1>9. SubSeq(l, first, end - 1) = SubSeq(line, w, e - 1)
  <2>1. /\ first \in Nat \ {0} /\ end - 1 \in Int /\ end - 1 <= Len(l)
        /\ i + first - 1 = w /\ i + (end - 1) - 1 = e - 1
    BY <1>1, <1>5
  <2> DEFINE f == end - 1
  <2> HIDE DEF first, f
  <2>2. SubSeq(l, first, f) = SubSeq(line, i + first - 1, i + f - 1)
    <3>1. q - 1 \in Int /\ q - 1 <= Len(line) /\ f \in Int /\ f <= Len(l)
      BY <1>4, <2>1 DEF f
    <3> QED
      BY <2>1, <3>1, PartOfPart DEF l
  <2> QED
    BY <2>1, <2>2 DEF f
<1>10. From(l, end + 1) = SubSeq(line, e + 1, q - 1)
  <2> DEFINE f == end + 1
             g == Len(l)
  <2>1. /\ f \in Nat \ {0} /\ g \in Int /\ g <= Len(l)
        /\ i + f - 1 = e + 1 /\ i + g - 1 = q - 1
    BY <1>1, <1>5
  <2> HIDE DEF f, g
  <2>2. SubSeq(l, f, g) = SubSeq(line, i + f - 1, i + g - 1)
    BY <1>4, <2>1, PartOfPart DEF l
  <2> QED
    BY <2>1, <2>2 DEF From, f, g
<1>11. Strtok(l) = [token |-> SubSeq(l, Min(words), (IF ends = {} THEN Len(l) + 1 ELSE Min(ends)) - 1),
                    next |-> From(l, (IF ends = {} THEN Len(l) + 1 ELSE Min(ends)) + 1)]
  <2>1. words # {}
    BY <1>6
  <2> QED
    BY <1>7, <2>1 DEF Strtok
<1> HIDE DEF words, first, ends, end
<1>12. Strtok(l) = [token |-> SubSeq(l, first, end - 1), next |-> From(l, end + 1)]
  BY <1>7, <1>8, <1>11
<1> QED
  BY <1>9, <1>10, <1>12 DEF l

-----------------------------------------------------------------------------
(* Starts has the beginnings of the words, in order.                        *)
Begins(line, i) == ~Blank(line, i) /\ (i = 1 \/ Blank(line, i - 1))

EnumeratesTo(s, line, n) ==
  /\ Len(s) \in Nat /\ s \in Seq(1 .. n)
  /\ \A j, k \in 1 .. Len(s) : j < k => s[j] < s[k]
  /\ \A k \in 1 .. Len(s) : s[k] \in 1 .. n /\ Begins(line, s[k])
  /\ \A i \in 1 .. n : Begins(line, i) => \E k \in 1 .. Len(s) : s[k] = i

(* Looking at one more byte adds the word that begins there, if one does.    *)
LEMMA OneMoreStart ==
  ASSUME NEW line, NEW n \in Nat, NEW s, EnumeratesTo(s, line, n)
  PROVE  EnumeratesTo(IF Begins(line, n + 1) THEN Append(s, n + 1) ELSE s, line, n + 1)
<1> DEFINE m == Len(s)
           b == n + 1
           a == Append(s, b)
<1>1. /\ m \in Nat /\ s \in Seq(1 .. n)
      /\ \A j, k \in 1 .. m : j < k => s[j] < s[k]
      /\ \A k \in 1 .. m : s[k] \in 1 .. n /\ Begins(line, s[k])
      /\ \A i \in 1 .. n : Begins(line, i) => \E k \in 1 .. m : s[k] = i
  BY DEF EnumeratesTo
<1>2. s \in Seq(1 .. b)
  <2>1. 1 .. n \subseteq 1 .. b
    OBVIOUS
  <2> HIDE DEF b
  <2> QED
    BY <1>1, <2>1, SeqMonotonic
<1>3. CASE Begins(line, b)
  <2>1. b \in 1 .. b
    OBVIOUS
  <2> HIDE DEF b
  <2>2. /\ a \in Seq(1 .. b) /\ Len(a) = m + 1
        /\ \A k \in 1 .. m : a[k] = s[k]
        /\ a[m + 1] = b
    BY <1>2, <2>1, AppendProperties
  <2> HIDE DEF a
  <2>3. ASSUME NEW k \in 1 .. m + 1
        PROVE  /\ a[k] \in 1 .. b /\ Begins(line, a[k])
               /\ \/ k = m + 1 /\ a[k] = b
                  \/ k \in 1 .. m /\ a[k] = s[k] /\ a[k] < b
    <3>1. CASE k = m + 1
      BY <1>3, <2>1, <2>2, <3>1
    <3>2. CASE k # m + 1
      <4>1. k \in 1 .. m
        BY <1>1, <3>2
      <4>2. a[k] = s[k] /\ s[k] \in 1 .. n /\ Begins(line, s[k])
        BY <1>1, <2>2, <4>1
      <4> QED
        BY <4>1, <4>2 DEF b
    <3> QED
      BY <3>1, <3>2
  <2>4. ASSUME NEW j \in 1 .. m + 1, NEW k \in 1 .. m + 1, j < k
        PROVE  a[j] < a[k]
    <3>1. j \in 1 .. m /\ a[j] = s[j] /\ a[j] < b
      <4>1. j # m + 1
        BY <1>1, <2>4
      <4> QED
        BY <2>3, <4>1
    <3>2. CASE k = m + 1
      BY <2>2, <3>1, <3>2
    <3>3. CASE k # m + 1
      <4>1. k \in 1 .. m /\ a[k] = s[k]
        BY <2>3, <3>3
      <4> QED
        BY <1>1, <2>4, <3>1, <4>1
    <3> QED
      BY <3>2, <3>3
  <2>5. ASSUME NEW i \in 1 .. b, Begins(line, i)
        PROVE  \E k \in 1 .. m + 1 : a[k] = i
    <3>1. CASE i = b
      <4>1. m + 1 \in 1 .. m + 1
        BY <1>1
      <4> QED
        BY <2>2, <3>1, <4>1
    <3>2. CASE i # b
      <4>1. i \in 1 .. n
        BY <3>2 DEF b
      <4>2. PICK k \in 1 .. m : s[k] = i
        BY <1>1, <2>5, <4>1
      <4>3. k \in 1 .. m + 1 /\ a[k] = i
        BY <1>1, <2>2, <4>2
      <4> QED
        BY <4>3
    <3> QED
      BY <3>1, <3>2
  <2>6. Len(a) \in Nat
    BY <1>1, <2>2
  <2>7. EnumeratesTo(a, line, b)
    BY <2>2, <2>3, <2>4, <2>5, <2>6 DEF EnumeratesTo
  <2> QED
    BY <1>3, <2>7 DEF a, b
<1>4. CASE ~Begins(line, b)
  <2>1. ASSUME NEW i \in 1 .. b, Begins(line, i)
        PROVE  \E k \in 1 .. m : s[k] = i
    <3>1. i \in 1 .. n
      BY <1>4, <2>1
    <3> QED
      BY <1>1, <2>1, <3>1
  <2>2. \A k \in 1 .. m : s[k] \in 1 .. b /\ Begins(line, s[k])
    <3>1. 1 .. n \subseteq 1 .. b
      OBVIOUS
    <3> HIDE DEF b, m
    <3> QED
      BY <1>1, <3>1
  <2>3. EnumeratesTo(s, line, b)
    <3> HIDE DEF b
    <3> QED
      BY <1>1, <1>2, <2>1, <2>2 DEF EnumeratesTo
  <2> QED
    BY <1>4, <2>3 DEF b
<1> QED
  BY <1>3, <1>4

StartsTo(line) ==
  CHOOSE upTo : upTo = [n \in 0 .. Len(line) |->
    IF n = 0 THEN <<>>
    ELSE IF IsStart(line, n) THEN Append(upTo[n - 1], n) ELSE upTo[n - 1]]

(* Starts is the list of all of them.                                       *)
LEMMA StartsAre ==
  ASSUME NEW line, Len(line) \in Nat
  PROVE  EnumeratesTo(Starts(line), line, Len(line))
<1> DEFINE n == Len(line)
           V == Seq(Nat)
           step == [k \in 1 .. n |-> [v \in V |-> IF Begins(line, k) THEN Append(v, k) ELSE v]]
           body(f) == [k \in 0 .. n |->
                         IF k = 0 THEN <<>>
                         ELSE IF IsStart(line, k) THEN Append(f[k - 1], k) ELSE f[k - 1]]
           U == StartsTo(line)
<1>1. \A k : IsStart(line, k) <=> Begins(line, k)
  BY DEF IsStart, Begins, Blank
<1>2. \E f : f = body(f)
  <2>1. step \in Steps(n, V)
    <3>1. ASSUME NEW k \in 1 .. n, NEW v \in V
          PROVE  (IF Begins(line, k) THEN Append(v, k) ELSE v) \in V
      <4>1. k \in Nat
        OBVIOUS
      <4>2. Append(v, k) \in V
        BY <4>1, AppendProperties
      <4> QED
        BY <4>2
    <3> QED
      BY <3>1 DEF Steps
  <2>2. <<>> \in V
    BY EmptySeq
  <2>3. PICK f : IsRecursion(f, n, V, <<>>, step)
    <3> HIDE DEF step, V
    <3> QED
      BY <2>1, <2>2, Recursion
  <2>4. ASSUME NEW k \in 0 .. n
        PROVE  f[k] = body(f)[k]
    <3>1. CASE k = 0
      BY <2>3, <3>1 DEF IsRecursion
    <3>2. CASE k # 0
      <4>1. k \in 1 .. n /\ k - 1 \in 0 .. n
        BY <3>2
      <4>2. f[k] = step[k][f[k - 1]] /\ f[k - 1] \in V
        <5> HIDE DEF step, V
        <5> QED
          BY <2>3, <4>1 DEF IsRecursion
      <4> HIDE DEF V
      <4>3. f[k] = IF Begins(line, k) THEN Append(f[k - 1], k) ELSE f[k - 1]
        BY <4>1, <4>2
      <4> QED
        BY <1>1, <3>2, <4>3
    <3> QED
      BY <3>1, <3>2
  <2>5. DOMAIN f = 0 .. n /\ f = [k \in 0 .. n |-> f[k]]
    <3> HIDE DEF V
    <3> QED
      BY <2>3 DEF IsRecursion
  <2>6. f = body(f)
    BY <2>4, <2>5
  <2> QED
    BY <2>6
<1>3. U = body(U)
  BY <1>2, Zenon DEF StartsTo
<1> HIDE DEF U
<1> DEFINE T == {k \in Nat : k <= n => EnumeratesTo(U[k], line, k)}
<1>4. 0 \in T
  <2>1. U[0] = <<>>
    <3>1. 0 \in 0 .. n
      OBVIOUS
    <3> QED
      BY <1>3, <3>1
  <2>2. EnumeratesTo(<<>>, line, 0)
    <3>1. Len(<<>>) = 0 /\ <<>> \in Seq(1 .. 0)
      BY EmptySeq
    <3> QED
      BY <3>1 DEF EnumeratesTo
  <2> QED
    BY <2>1, <2>2
<1>5. ASSUME NEW k \in Nat, k \in T
      PROVE  k + 1 \in T
  <2> SUFFICES ASSUME k + 1 <= n
               PROVE  EnumeratesTo(U[k + 1], line, k + 1)
    OBVIOUS
  <2>1. EnumeratesTo(U[k], line, k)
    BY <1>5
  <2>2. U[k + 1] = IF Begins(line, k + 1) THEN Append(U[k], k + 1) ELSE U[k]
    <3> DEFINE m == k + 1
    <3>1. m \in 0 .. n /\ m # 0 /\ m - 1 = k
      OBVIOUS
    <3> HIDE DEF m
    <3>2. U[m] = IF Begins(line, m) THEN Append(U[m - 1], m) ELSE U[m - 1]
      BY <1>1, <1>3, <3>1
    <3> QED
      BY <3>1, <3>2 DEF m
  <2>3. EnumeratesTo(IF Begins(line, k + 1) THEN Append(U[k], k + 1) ELSE U[k], line, k + 1)
    BY <2>1, OneMoreStart
  <2> QED
    BY <2>2, <2>3
<1>6. n \in T
  <2> HIDE DEF T
  <2> QED
    BY <1>4, <1>5, SetInduction
<1>7. Starts(line) = U[n]
  BY Zenon DEF Starts, StartsTo, U
<1> QED
  BY <1>6, <1>7

(* Behind j - 1 of the words: i is the beginning of the line or stands       *)
(* behind a space, or behind the end.                                       *)
Behind(line, s, i, j) ==
  /\ i \in 1 .. Len(line) + 2 /\ (i = 1 \/ i = Len(line) + 2 \/ Blank(line, i - 1))
  /\ j \in 1 .. Len(s) + 1
  /\ \A k \in 1 .. Len(s) : k < j <=> s[k] < i

(* Only spaces stand between there and the next word.                       *)
LEMMA SpacesBetween ==
  ASSUME NEW line, Len(line) \in Nat, NEW s, EnumeratesTo(s, line, Len(line)),
         NEW i, NEW j, Behind(line, s, i, j),
         NEW w \in Nat, w <= Len(line) + 1, \A k \in j .. Len(s) : w <= s[k]
  PROVE  \A k \in i .. w - 1 : Blank(line, k)
<1> SUFFICES ASSUME NEW k \in i .. w - 1, ~Blank(line, k)
             PROVE  FALSE
  OBVIOUS
<1> DEFINE E == {x \in i .. w - 1 : ~Blank(line, x)}
<1>1. i \in Nat \ {0} /\ j \in Nat \ {0} /\ Len(s) \in Nat
  BY DEF Behind, EnumeratesTo
<1>2. PICK x \in E : \A y \in E : x <= y
  <2>1. E \in SUBSET Nat /\ k \in E
    BY <1>1
  <2> HIDE DEF E
  <2> QED
    BY <2>1, Smallest
<1>3. x \in i .. w - 1 /\ x \in 1 .. Len(line) /\ ~Blank(line, x)
  BY <1>1, <1>2
<1>4. Begins(line, x)
  <2>1. CASE x = i
    <3>1. i = 1 \/ Blank(line, i - 1)
      BY <1>1, <1>3, <2>1 DEF Behind
    <3> QED
      BY <1>3, <2>1, <3>1 DEF Begins
  <2>2. CASE x # i
    <3>1. x - 1 \in i .. w - 1
      BY <1>1, <1>3, <2>2
    <3>2. Blank(line, x - 1)
      <4>1. ~(x - 1 \in E)
        BY <1>1, <1>2, <1>3
      <4> QED
        BY <3>1, <4>1
    <3> QED
      BY <1>3, <3>2 DEF Begins
  <2> QED
    BY <2>1, <2>2
<1>5. PICK m \in 1 .. Len(s) : s[m] = x
  BY <1>3, <1>4 DEF EnumeratesTo
<1>6. ~(m < j)
  BY <1>1, <1>3, <1>5 DEF Behind
<1>7. m \in j .. Len(s)
  BY <1>1, <1>6
<1> QED
  BY <1>1, <1>3, <1>5, <1>7

(* Behind the word that comes next, one more is passed.                      *)
LEMMA NextWord ==
  ASSUME NEW line, Len(line) \in Nat, NEW s, EnumeratesTo(s, line, Len(line)),
         NEW i, NEW j, Behind(line, s, i, j), j <= Len(s), NEW e, EndsAt(line, s[j], e)
  PROVE  /\ s[j] \in 1 .. Len(line) /\ i <= s[j] /\ \A k \in i .. s[j] - 1 : Blank(line, k)
         /\ Behind(line, s, e + 1, j + 1)
<1> DEFINE w == s[j]
<1>1. i \in Nat \ {0} /\ j \in Nat \ {0} /\ Len(s) \in Nat /\ j \in 1 .. Len(s)
  BY DEF Behind, EnumeratesTo
<1>2. w \in 1 .. Len(line)
  BY <1>1 DEF EnumeratesTo
<1>3. ~(w < i)
  BY <1>1 DEF Behind
<1>4. ASSUME NEW k \in 1 .. Len(s), j < k
      PROVE  w < s[k]
  BY <1>1, <1>4 DEF EnumeratesTo
<1>5. \A k \in j .. Len(s) : w <= s[k]
  <2>1. ASSUME NEW k \in j .. Len(s)
        PROVE  w <= s[k]
    <3>1. CASE k = j
      BY <1>2, <3>1
    <3>2. CASE k # j
      <4>1. k \in 1 .. Len(s) /\ j < k
        BY <1>1, <3>2
      <4>2. w < s[k] /\ s[k] \in 1 .. Len(line)
        BY <1>4, <4>1 DEF EnumeratesTo
      <4> QED
        BY <1>2, <4>2
    <3> QED
      BY <3>1, <3>2
  <2> QED
    BY <2>1
<1>6. \A k \in i .. w - 1 : Blank(line, k)
  <2> HIDE DEF w
  <2>1. w \in Nat /\ w <= Len(line) + 1
    BY <1>2
  <2> QED
    BY <1>5, <2>1, SpacesBetween
<1>7. e \in w + 1 .. Len(line) + 1 /\ (e = Len(line) + 1 \/ Blank(line, e))
      /\ \A k \in w .. e - 1 : ~Blank(line, k)
  BY DEF EndsAt
<1>8. ASSUME NEW k \in 1 .. Len(s)
      PROVE  k < j + 1 <=> s[k] < e + 1
  <2>1. s[k] \in 1 .. Len(line) /\ Begins(line, s[k])
    BY DEF EnumeratesTo
  <2>2. CASE k < j
    <3>1. s[k] < w
      BY <1>1, <2>2 DEF EnumeratesTo
    <3> DEFINE v == s[k]
    <3> HIDE DEF w, v
    <3> QED
      BY <1>1, <1>2, <1>7, <2>1, <2>2, <3>1 DEF v
  <2>3. CASE k = j
    BY <1>1, <1>2, <1>7, <2>3
  <2>4. CASE j < k
    <3> DEFINE v == s[k]
    <3>1. w < v /\ v \in 1 .. Len(line)
      BY <1>4, <2>1, <2>4
    <3>2. ~Blank(line, v) /\ (v = 1 \/ Blank(line, v - 1))
      BY <2>1 DEF Begins
    <3> HIDE DEF w, v
    <3>3. ~(v <= e)
      <4>1. CASE v = e
        BY <1>2, <1>7, <3>1, <3>2, <4>1
      <4>2. CASE v < e
        <5>1. v - 1 \in w .. e - 1 /\ v # 1
          BY <1>2, <1>7, <3>1, <4>2
        <5> QED
          BY <1>7, <3>2, <5>1
      <4> QED
        BY <1>2, <1>7, <3>1, <4>1, <4>2
    <3>4. ~(v < e + 1) /\ ~(k < j + 1)
      BY <1>1, <1>2, <1>7, <2>4, <3>1, <3>3
    <3> QED
      BY <3>4 DEF v
  <2> QED
    BY <1>1, <2>2, <2>3, <2>4
<1>9. e + 1 \in 1 .. Len(line) + 2 /\ (e + 1 = Len(line) + 2 \/ Blank(line, (e + 1) - 1))
  <2>1. e \in Nat /\ (e + 1) - 1 = e
    BY <1>2, <1>7
  <2> HIDE DEF w
  <2> QED
    BY <1>7, <2>1
<1>10. j + 1 \in 1 .. Len(s) + 1
  BY <1>1
<1>11. Behind(line, s, e + 1, j + 1)
  BY <1>8, <1>9, <1>10 DEF Behind
<1>12. i <= w
  <2> HIDE DEF w
  <2> QED
    BY <1>1, <1>2, <1>3
<1> QED
  BY <1>2, <1>6, <1>11, <1>12

-----------------------------------------------------------------------------
(* The words from the j-th to the one in front of the last-th.               *)
WordsOf(line, s, j, last) == [k \in 1 .. last - j |-> WordAt(line, s[(j - 1) + k])]

(* From where the words end there is none.                                   *)
LEMMA NoWords ==
  ASSUME NEW line, NEW s, NEW j, NEW last, 1 .. last - j = {}
  PROVE  WordsOf(line, s, j, last) = <<>>
<1> DEFINE b == WordsOf(line, s, j, last)
           V == {WordAt(line, s[(j - 1) + k]) : k \in {}}
<1>1. b \in [{} -> V] /\ DOMAIN b = {}
  BY DEF WordsOf
<1>2. 1 .. 0 = {}
  OBVIOUS
<1> HIDE DEF b, V
<1>3. b \in Seq(V)
  <2>1. b \in [1 .. 0 -> V]
    BY <1>1, <1>2
  <2> QED
    BY <2>1, SeqDef
<1>4. Len(b) \in Nat /\ 1 .. Len(b) = {}
  BY <1>1, <1>3, LenProperties
<1>5. b = <<>>
  <2>1. ~(Len(b) \in Nat \ {0})
    BY <1>4
  <2> QED
    BY <1>3, <2>1, EmptySeq
<1> QED
  BY <1>5 DEF b

(* The words from one on are that one and those from the next on.            *)
LEMMA OneMoreWord ==
  ASSUME NEW line, NEW s, NEW j \in Nat, NEW last \in Nat, j < last
  PROVE  WordsOf(line, s, j, last) = <<WordAt(line, s[j])>> \o WordsOf(line, s, j + 1, last)
<1> DEFINE W(k) == WordAt(line, s[k])
           a == WordsOf(line, s, j + 1, last)
           b == WordsOf(line, s, j, last)
           V == {W(k) : k \in Nat}
           n == last - j
<1>1. n \in Nat \ {0} /\ last - (j + 1) = n - 1
  OBVIOUS
<1> HIDE DEF n
<1>2. a = [k \in 1 .. n - 1 |-> W(j + k)]
  <2>1. \A k \in 1 .. n - 1 : ((j + 1) - 1) + k = j + k
    BY <1>1
  <2> QED
    BY <1>1, <2>1 DEF WordsOf
<1>3. b = [k \in 1 .. n |-> W((j - 1) + k)]
  BY DEF WordsOf, n
<1>4. \A k \in Nat : W(k) \in V
  OBVIOUS
<1> HIDE DEF W, V, a, b
<1>5. a \in [1 .. n - 1 -> V] /\ b \in [1 .. n -> V]
  <2>1. \A k \in 1 .. n : j + k \in Nat /\ (j - 1) + k \in Nat
    OBVIOUS
  <2>2. \A k \in 1 .. n - 1 : j + k \in Nat
    OBVIOUS
  <2> QED
    BY <1>2, <1>3, <1>4, <2>1, <2>2
<1>6. a \in Seq(V) /\ b \in Seq(V) /\ Len(a) = n - 1 /\ Len(b) = n
  <2>1. n - 1 \in Nat
    BY <1>1
  <2>2. a \in Seq(V) /\ b \in Seq(V)
    BY <1>1, <1>5, <2>1, SeqDef
  <2>3. DOMAIN a = 1 .. n - 1 /\ DOMAIN b = 1 .. n
    BY <1>5
  <2> QED
    BY <1>1, <2>1, <2>2, <2>3, LenProperties
<1> DEFINE w == W(j)
           c == <<w>> \o a
<1>7. /\ c \in Seq(V) /\ Len(c) = 1 + (n - 1)
      /\ \A k \in 1 .. 1 + (n - 1) : c[k] = IF k <= 1 THEN <<w>>[k] ELSE a[k - 1]
  <2>1. w \in V
    BY <1>4
  <2> HIDE DEF w
  <2>2. <<w>> \in Seq(V) /\ Len(<<w>>) = 1
    BY <2>1
  <2> QED
    BY <1>6, <2>2, ConcatProperties
<1>8. ASSUME NEW k \in 1 .. n
      PROVE  c[k] = b[k]
  <2>1. CASE k = 1
    <3>1. c[1] = w /\ (j - 1) + 1 = j
      BY <1>1, <1>7
    <3>2. b[1] = W((j - 1) + 1)
      BY <1>1, <1>3
    <3> QED
      BY <2>1, <3>1, <3>2
  <2>2. CASE k # 1
    <3>1. k - 1 \in 1 .. n - 1 /\ ~(k <= 1) /\ k \in 1 .. 1 + (n - 1) /\ j + (k - 1) = (j - 1) + k
      BY <1>1, <2>2
    <3>2. c[k] = a[k - 1]
      BY <1>7, <3>1
    <3>3. a[k - 1] = W(j + (k - 1)) /\ b[k] = W((j - 1) + k)
      BY <1>2, <1>3, <3>1
    <3> QED
      BY <3>1, <3>2, <3>3
  <2> QED
    BY <2>1, <2>2
<1> HIDE DEF w, c
<1>9. c = b
  <2>1. Len(c) = Len(b) /\ Len(b) = n
    BY <1>1, <1>6, <1>7
  <2> QED
    BY <1>6, <1>7, <1>8, <2>1, SeqEqual
<1> QED
  BY <1>9 DEF c, w, W, a, b

(* The end of the part of a line that is split into words: the beginning of  *)
(* the last-th word or the end of the line, when there are less.             *)
WordsEnd(line, s, q, last) ==
  /\ last \in 1 .. Len(s) + 1
  /\ q = IF last <= Len(s) THEN s[last] ELSE Len(line) + 1

(* What one strtok_s finds there.                                           *)
LEMMA TokenIs ==
  ASSUME NEW S, NEW line \in Seq(S), NEW s, EnumeratesTo(s, line, Len(line)),
         NEW q, NEW last, WordsEnd(line, s, q, last),
         NEW i, NEW j, Behind(line, s, i, j), j <= last
  PROVE  /\ j = last => Strtok(SubSeq(line, i, q - 1)) = [token |-> None, next |-> <<>>]
         /\ j # last =>
              \E e : /\ e \in i + 1 .. q /\ Behind(line, s, e + 1, j + 1)
                     /\ e = q => q = Len(line) + 1 /\ j + 1 = last
                     /\ Strtok(SubSeq(line, i, q - 1))
                          = [token |-> WordAt(line, s[j]), next |-> SubSeq(line, e + 1, q - 1)]
                     /\ WordAt(line, s[j]) # None
                     /\ EndsAt(line, s[j], e)
<1>1. Len(line) \in Nat
  BY SeqFacts
<1>2. Len(s) \in Nat /\ \A k \in 1 .. Len(s) : s[k] \in 1 .. Len(line) /\ Begins(line, s[k])
  BY DEF EnumeratesTo
<1>3. i \in Nat \ {0} /\ j \in Nat \ {0} /\ last \in Nat \ {0}
  BY <1>1, <1>2 DEF Behind, WordsEnd
<1>4. q \in Nat /\ q <= Len(line) + 1
  <2>1. CASE last <= Len(s)
    <3>1. last \in 1 .. Len(s) /\ q = s[last]
      BY <1>2, <1>3, <2>1 DEF WordsEnd
    <3> HIDE DEF WordsEnd
    <3>2. q \in 1 .. Len(line)
      BY <1>2, <3>1
    <3> QED
      BY <1>1, <3>2
  <2>2. CASE ~(last <= Len(s))
    BY <1>1, <2>2 DEF WordsEnd
  <2> QED
    BY <2>1, <2>2
<1>5. ASSUME j = last
      PROVE  Strtok(SubSeq(line, i, q - 1)) = [token |-> None, next |-> <<>>]
  <2>1. \A k \in j .. Len(s) : q <= s[k]
    <3>1. ASSUME NEW k \in j .. Len(s)
          PROVE  q <= s[k]
      <4>1. k \in 1 .. Len(s) /\ last \in 1 .. Len(s) /\ q = s[last] /\ last <= k
        BY <1>2, <1>3, <1>5 DEF WordsEnd
      <4>2. q \in 1 .. Len(line)
        BY <1>2, <4>1
      <4>3. CASE k = last
        BY <1>1, <4>1, <4>2, <4>3
      <4>4. CASE k # last
        <5>1. last < k
          BY <1>3, <4>1, <4>4
        <5>2. s[last] < s[k] /\ s[k] \in 1 .. Len(line)
          BY <1>2, <4>1, <5>1 DEF EnumeratesTo
        <5> QED
          BY <4>1, <4>2, <5>2
      <4> QED
        BY <4>3, <4>4
    <3> QED
      BY <3>1
  <2>2. \A k \in i .. q - 1 : Blank(line, k)
    BY <1>1, <1>4, <2>1, SpacesBetween
  <2> QED
    BY <1>3, <1>4, <2>2, StrtokNone
<1>6. ASSUME j # last
      PROVE  \E e : /\ e \in i + 1 .. q /\ Behind(line, s, e + 1, j + 1)
                    /\ e = q => q = Len(line) + 1 /\ j + 1 = last
                    /\ Strtok(SubSeq(line, i, q - 1))
                         = [token |-> WordAt(line, s[j]), next |-> SubSeq(line, e + 1, q - 1)]
                    /\ WordAt(line, s[j]) # None
                    /\ EndsAt(line, s[j], e)
  <2> DEFINE w == s[j]
  <2>1. j \in 1 .. Len(s) /\ j <= Len(s) /\ j < last
    BY <1>2, <1>3, <1>6 DEF WordsEnd
  <2>2. w \in 1 .. Len(line) /\ ~Blank(line, w)
    BY <1>2, <2>1 DEF Begins
  <2>3. PICK e : EndsAt(line, w, e)
    <3> HIDE DEF w
    <3> QED
      BY <1>1, <2>2, WordExists
  <2>4. /\ i <= w /\ \A k \in i .. w - 1 : Blank(line, k)
        /\ Behind(line, s, e + 1, j + 1)
    BY <1>1, <2>1, <2>3, NextWord
  <2>5. /\ e \in w + 1 .. Len(line) + 1 /\ (e = Len(line) + 1 \/ Blank(line, e))
        /\ \A k \in w .. e - 1 : ~Blank(line, k)
    BY <2>3 DEF EndsAt
  <2>6. e <= q /\ w < q /\ (e # q => Blank(line, e)) /\ (e = q => q = Len(line) + 1)
    <3>1. CASE last <= Len(s)
      <4>1. last \in 1 .. Len(s) /\ q = s[last]
        BY <1>2, <1>3, <3>1 DEF WordsEnd
      <4>2. q \in 1 .. Len(line) /\ Begins(line, q)
        BY <1>2, <4>1
      <4>3. w < q
        BY <2>1, <4>1 DEF EnumeratesTo
      <4> HIDE DEF w
      <4>4. ~Blank(line, q) /\ Blank(line, q - 1)
        BY <2>2, <4>2, <4>3 DEF Begins
      <4>5. ~(q - 1 \in w .. e - 1)
        BY <2>5, <4>4
      <4>6. e <= q
        BY <1>1, <2>2, <2>5, <4>2, <4>3, <4>5
      <4>7. e # q /\ e # Len(line) + 1
        BY <1>1, <2>2, <2>5, <4>2, <4>4, <4>6
      <4> QED
        BY <2>5, <4>3, <4>6, <4>7
    <3>2. CASE ~(last <= Len(s))
      <4>1. q = Len(line) + 1
        BY <3>2 DEF WordsEnd
      <4> HIDE DEF w
      <4> QED
        BY <1>1, <2>2, <2>5, <4>1
    <3> QED
      BY <3>1, <3>2
  <2>7. IsWord(line, i, q, w, e)
    <3> HIDE DEF w
    <3>1. w \in i .. q - 1 /\ e \in w + 1 .. q
      BY <1>1, <1>3, <1>4, <2>2, <2>4, <2>5, <2>6
    <3> QED
      BY <2>4, <2>5, <2>6, <3>1 DEF IsWord
  <2>8. Strtok(SubSeq(line, i, q - 1))
          = [token |-> SubSeq(line, w, e - 1), next |-> SubSeq(line, e + 1, q - 1)]
    <3>1. i \in Nat \ {0} /\ q \in Nat /\ q <= Len(line) + 1
      BY <1>3, <1>4
    <3> QED
      BY <2>7, <3>1, StrtokIs
  <2>9. WordAt(line, w) = SubSeq(line, w, e - 1)
    BY <1>1, <2>3, WordAtIs
  <2>10. SubSeq(line, w, e - 1) # None
    <3> HIDE DEF w
    <3>1. w \in Nat \ {0} /\ e - 1 \in Int /\ e - 1 <= Len(line) /\ w <= e - 1
      BY <1>1, <2>2, <2>5
    <3> DEFINE f == e - 1
    <3> HIDE DEF f
    <3>2. Len(SubSeq(line, w, f)) = f - w + 1 /\ f - w + 1 # 0
      <4>1. w \in Nat \ {0} /\ f \in Int /\ f <= Len(line) /\ w <= f
        BY <3>1 DEF f
      <4>2. f - w + 1 # 0
        BY <4>1
      <4> QED
        BY <4>1, <4>2, PartOf
    <3>3. SubSeq(line, w, f) # <<>>
      BY <3>2, EmptySeq
    <3> QED
      BY <3>3 DEF f, None
  <2>11. e \in i + 1 .. q
    <3> HIDE DEF w
    <3> QED
      BY <1>1, <1>3, <1>4, <2>2, <2>4, <2>5, <2>6
  <2>12. ASSUME e = q
         PROVE  j + 1 = last
    <3>1. ~(last <= Len(s))
      <4> SUFFICES ASSUME last <= Len(s)
                   PROVE  FALSE
        OBVIOUS
      <4>1. last \in 1 .. Len(s) /\ q = s[last]
        BY <1>2, <1>3 DEF WordsEnd
      <4>2. q \in 1 .. Len(line)
        BY <1>2, <4>1
      <4> QED
        BY <1>1, <2>6, <2>12, <4>2
    <3>2. last = Len(s) + 1
      BY <1>2, <3>1 DEF WordsEnd
    <3>3. ~(j < Len(s))
      <4> SUFFICES ASSUME j < Len(s)
                   PROVE  FALSE
        OBVIOUS
      <4>1. j + 1 \in 1 .. Len(s) /\ ~(j + 1 < j + 1)
        BY <2>1
      <4>2. ~(s[j + 1] < e + 1) /\ s[j + 1] \in 1 .. Len(line)
        BY <1>2, <2>4, <4>1 DEF Behind
      <4> HIDE DEF w
      <4> QED
        BY <1>1, <2>6, <2>12, <4>2
    <3> QED
      BY <1>2, <2>1, <3>2, <3>3
  <2> QED
    BY <2>3, <2>4, <2>6, <2>8, <2>9, <2>10, <2>11, <2>12
<1> QED
  BY <1>5, <1>6

-----------------------------------------------------------------------------
(* What is left behind a token is shorter than what it was looked for in.   *)
LEMMA RestIsShorter ==
  ASSUME NEW S, NEW l \in Seq(S), NEW i \in 1 .. Len(l)
  PROVE  Len(Strtok(From(l, i)).next) \in 0 .. Len(l) - i
<1> DEFINE n == Len(l)
           q == n + 1
           E == {k \in i .. n : ~Blank(l, k)}
<1>1. n \in Nat /\ i \in Nat \ {0} /\ i <= n
  BY SeqFacts
<1>2. From(l, i) = SubSeq(l, i, q - 1)
  <2>1. q - 1 = n
    BY <1>1
  <2> HIDE DEF q
  <2> QED
    BY <2>1 DEF From
<1>3. q \in Nat /\ q <= Len(l) + 1 /\ q - 1 = n
  BY <1>1
<1> HIDE DEF q
<1>4. CASE E = {}
  <2>1. \A k \in i .. q - 1 : Blank(l, k)
    BY <1>3, <1>4
  <2>2. Strtok(SubSeq(l, i, q - 1)) = [token |-> None, next |-> <<>>]
    BY <1>1, <1>3, <2>1, StrtokNone
  <2>3. Strtok(From(l, i)).next = <<>>
    BY <1>2, <2>2
  <2> QED
    BY <1>1, <2>3, EmptySeq
<1>5. CASE E # {}
  <2>1. E \in SUBSET Nat
    BY <1>1
  <2>2. PICK w \in E : \A k \in E : w <= k
    <3> HIDE DEF E
    <3> QED
      BY <1>5, <2>1, Smallest
  <2>3. w \in i .. n /\ w \in 1 .. n /\ ~Blank(l, w)
    BY <1>1, <2>2
  <2>4. PICK e : EndsAt(l, w, e)
    BY <1>1, <2>3, WordExists
  <2>5. /\ e \in w + 1 .. n + 1 /\ (e = n + 1 \/ Blank(l, e))
        /\ \A k \in w .. e - 1 : ~Blank(l, k)
    BY <2>4 DEF EndsAt
  <2>6. ASSUME NEW k \in i .. w - 1
        PROVE  Blank(l, k)
    <3>1. k \in i .. n /\ ~(w <= k)
      BY <1>1, <2>3
    <3> QED
      BY <2>2, <3>1
  <2>7. IsWord(l, i, q, w, e)
    <3>1. w \in i .. q - 1 /\ e \in w + 1 .. q /\ (e = n + 1 => e = q)
      BY <1>1, <1>3, <2>3, <2>5
    <3> QED
      BY <2>5, <2>6, <3>1 DEF IsWord
  <2>8. Strtok(SubSeq(l, i, q - 1))
          = [token |-> SubSeq(l, w, e - 1), next |-> SubSeq(l, e + 1, q - 1)]
    BY <1>1, <1>3, <2>7, StrtokIs
  <2>9. Strtok(From(l, i)).next = SubSeq(l, e + 1, n)
    BY <1>2, <1>3, <2>8
  <2>10. Len(SubSeq(l, e + 1, n)) = IF e + 1 <= n THEN n - (e + 1) + 1 ELSE 0
    <3>1. e + 1 \in Nat \ {0} /\ n \in Int /\ n <= Len(l)
      BY <1>1, <2>3, <2>5
    <3> DEFINE f == e + 1
    <3> HIDE DEF f, n
    <3>2. Len(SubSeq(l, f, n)) = IF f <= n THEN n - f + 1 ELSE 0
      <4>1. f \in Nat \ {0} /\ n \in Int /\ n <= Len(l)
        BY <3>1 DEF f
      <4> QED
        BY <4>1, PartOf
    <3> QED
      BY <3>2 DEF f
  <2> DEFINE r == Len(SubSeq(l, e + 1, n))
  <2>11. r \in 0 .. n - i
    <3>1. r = IF e + 1 <= n THEN n - (e + 1) + 1 ELSE 0
      BY <2>10
    <3> HIDE DEF n, r
    <3> QED
      BY <1>1, <2>3, <2>5, <3>1
  <2> QED
    BY <2>9, <2>11
<1> QED
  BY <1>4, <1>5

TokensFrom(l) ==
  CHOOSE tokens : tokens = [i \in 1 .. Len(l) + 1 |->
    LET tk == Strtok(From(l, i)) IN
      IF tk.token = None THEN <<>>
      ELSE <<tk.token>> \o tokens[Len(l) + 1 - Len(tk.next)]]

(* The tokens from i on: one that is found there, and those behind it.      *)
LEMMA TokensFromIs ==
  ASSUME NEW S, NEW l \in Seq(S)
  PROVE  /\ AllTokens(l) = TokensFrom(l)[1]
         /\ \A i \in 1 .. Len(l) + 1 :
              LET tk == Strtok(SubSeq(l, i, Len(l))) IN
                TokensFrom(l)[i]
                  = IF tk.token = None THEN <<>>
                    ELSE <<tk.token>> \o TokensFrom(l)[Len(l) + 1 - Len(tk.next)]
<1> DEFINE n == Len(l)
           Tk(i) == Strtok(From(l, i)).token
           Nx(i) == n + 1 - Len(Strtok(From(l, i)).next)
           T == {Tk(i) : i \in 1 .. n}
           V == Seq(T)
           next == [i \in 1 .. n |-> Nx(i)]
           step == [i \in 1 .. n |-> [v \in V |-> IF Tk(i) = None THEN <<>> ELSE <<Tk(i)>> \o v]]
           body(f) == [i \in 1 .. n + 1 |->
                         LET tk == Strtok(From(l, i)) IN
                           IF tk.token = None THEN <<>>
                           ELSE <<tk.token>> \o f[n + 1 - Len(tk.next)]]
           U == TokensFrom(l)
<1>1. n \in Nat
  BY SeqFacts
<1>2. \A i \in 1 .. n : Nx(i) \in 1 .. n + 1 /\ Nx(i) > i
  <2>1. ASSUME NEW i \in 1 .. n
        PROVE  Nx(i) \in 1 .. n + 1 /\ Nx(i) > i
    <3> DEFINE r == Len(Strtok(From(l, i)).next)
    <3>1. r \in 0 .. n - i /\ Nx(i) = n + 1 - r
      BY RestIsShorter
    <3> HIDE DEF r, n, Nx
    <3> QED
      BY <1>1, <3>1
  <2> QED
    BY <2>1
<1>3. next \in Forward(n, n + 1)
  <2> HIDE DEF Nx, n
  <2> QED
    BY <1>2 DEF Forward
<1>4. step \in Steps(n, V)
  <2>1. ASSUME NEW i \in 1 .. n, NEW v \in V
        PROVE  (IF Tk(i) = None THEN <<>> ELSE <<Tk(i)>> \o v) \in V
    <3>1. Tk(i) \in T
      OBVIOUS
    <3> HIDE DEF Tk, T
    <3>2. <<Tk(i)>> \in V
      BY <3>1
    <3>3. <<Tk(i)>> \o v \in V
      BY <3>2, ConcatProperties
    <3> QED
      BY <3>3, EmptySeq
  <2> HIDE DEF Tk, V, n
  <2> QED
    BY <2>1 DEF Steps
<1>5. <<>> \in V
  BY EmptySeq
<1>6. PICK f : IsUnwound(f, n, n + 1, V, <<>>, next, step)
  <2>1. n + 1 \in Nat /\ n <= n + 1
    BY <1>1
  <2> HIDE DEF V, next, step, n
  <2> QED
    BY <1>1, <1>3, <1>4, <1>5, <2>1, Unwinding
<1>7. Tk(n + 1) = None
  <2> DEFINE q == n + 1
  <2>1. From(l, q) = SubSeq(l, q, q - 1)
    <3>1. q - 1 = n
      BY <1>1
    <3> HIDE DEF q
    <3> QED
      BY <3>1 DEF From
  <2>2. q \in Nat \ {0} /\ q <= Len(l) + 1 /\ \A k \in q .. q - 1 : Blank(l, k)
    BY <1>1
  <2> HIDE DEF q
  <2>3. Strtok(SubSeq(l, q, q - 1)) = [token |-> None, next |-> <<>>]
    <3>1. q \in Nat
      BY <2>2
    <3> QED
      BY <2>2, <3>1, StrtokNone
  <2>4. Tk(q) = None
    BY <2>1, <2>3
  <2> HIDE DEF Tk
  <2> QED
    BY <2>4 DEF q
<1>8. f = body(f)
  <2>1. ASSUME NEW i \in 1 .. n + 1
        PROVE  f[i] = IF Tk(i) = None THEN <<>> ELSE <<Tk(i)>> \o f[Nx(i)]
    <3>1. CASE i = n + 1
      <4>1. f[i] = <<>>
        <5>1. i > n
          BY <1>1, <3>1
        <5> HIDE DEF n, V, next, step
        <5> QED
          BY <1>6, <5>1 DEF IsUnwound
      <4> QED
        BY <1>7, <3>1, <4>1
    <3>2. CASE i # n + 1
      <4>1. i \in 1 .. n /\ ~(i > n)
        BY <1>1, <3>2
      <4>2. Nx(i) \in 1 .. n + 1 /\ next[i] = Nx(i)
        BY <1>2, <4>1
      <4>3. f[i] = step[i][f[next[i]]] /\ f[next[i]] \in V
        <5> HIDE DEF n, V, next, step, Nx
        <5> QED
          BY <1>6, <4>1, <4>2 DEF IsUnwound
      <4> HIDE DEF V, next, Tk, Nx, n
      <4> QED
        BY <4>1, <4>2, <4>3
    <3> QED
      BY <3>1, <3>2
  <2>2. f = [i \in 1 .. n + 1 |-> f[i]]
    <3> HIDE DEF V, n, step, next
    <3> QED
      BY <1>6 DEF IsUnwound
  <2>3. f = [i \in 1 .. n + 1 |-> IF Tk(i) = None THEN <<>> ELSE <<Tk(i)>> \o f[Nx(i)]]
    <3> HIDE DEF Tk, Nx, n
    <3> QED
      BY <2>1, <2>2
  <2> QED
    BY <2>3
<1>9. U = body(U)
  <2>1. \E g : g = body(g)
    BY <1>8
  <2> QED
    BY <2>1, Zenon DEF TokensFrom
<1>10. AllTokens(l) = U[1]
  BY Zenon DEF AllTokens, TokensFrom
<1> HIDE DEF U
<1>11. ASSUME NEW i \in 1 .. n + 1
       PROVE  LET tk == Strtok(SubSeq(l, i, n)) IN
                U[i] = IF tk.token = None THEN <<>>
                       ELSE <<tk.token>> \o U[n + 1 - Len(tk.next)]
  <2>1. From(l, i) = SubSeq(l, i, n)
    BY DEF From
  <2>2. U[i] = body(U)[i]
    BY <1>9
  <2> HIDE DEF n
  <2> QED
    BY <2>1, <2>2
<1> QED
  BY <1>10, <1>11 DEF U

(* strtok_s, called until it finds none, finds the words one after the other. *)
LEMMA TokensAre ==
  ASSUME NEW S, NEW line \in Seq(S), NEW s, EnumeratesTo(s, line, Len(line)),
         NEW q, NEW last, WordsEnd(line, s, q, last),
         NEW i, NEW j, Behind(line, s, i, j), j <= last
  PROVE  AllTokens(SubSeq(line, i, q - 1)) = WordsOf(line, s, j, last)
<1> DEFINE l == SubSeq(line, i, q - 1)
           L == Len(l)
           U == TokensFrom(l)
           o == i - 1
           Right(x) == \A b : Behind(line, s, o + x, b) /\ b <= last
                               => U[x] = WordsOf(line, s, b, last)
           R == {x \in 1 .. L + 1 : Right(x)}
<1>1. Len(line) \in Nat
  BY SeqFacts
<1>2. Len(s) \in Nat /\ \A k \in 1 .. Len(s) : s[k] \in 1 .. Len(line)
  BY DEF EnumeratesTo
<1>3. i \in Nat \ {0} /\ j \in Nat \ {0} /\ last \in Nat \ {0} /\ i <= Len(line) + 2
  BY <1>1, <1>2 DEF Behind, WordsEnd
<1>4. q \in Nat /\ q <= Len(line) + 1
  <2>1. CASE last <= Len(s)
    <3>1. last \in 1 .. Len(s) /\ q = s[last]
      BY <1>2, <1>3, <2>1 DEF WordsEnd
    <3>2. q \in 1 .. Len(line)
      BY <1>2, <3>1
    <3> QED
      BY <1>1, <3>2
  <2>2. CASE ~(last <= Len(s))
    BY <1>1, <2>2 DEF WordsEnd
  <2> QED
    BY <2>1, <2>2
<1>5. l \in Seq(S) /\ L \in Nat /\ L = IF i <= q THEN q - i ELSE 0
  BY <1>3, <1>4, RestIs
<1>6. ASSUME NEW x \in 1 .. L + 1
      PROVE  SubSeq(l, x, L) = SubSeq(line, o + x, q - 1)
  <2>1. /\ x \in Nat \ {0} /\ L \in Int /\ L <= Len(l) /\ i + x - 1 = o + x
        /\ q - 1 \in Int /\ q - 1 <= Len(line)
    BY <1>1, <1>3, <1>4, <1>5
  <2> HIDE DEF L, o
  <2>2. SubSeq(l, x, L) = SubSeq(line, i + x - 1, i + L - 1)
    BY <1>3, <2>1, PartOfPart
  <2>3. CASE i <= q
    <3>1. i + L - 1 = q - 1
      BY <1>3, <1>4, <1>5, <2>3
    <3> QED
      BY <2>1, <2>2, <3>1
  <2>4. CASE ~(i <= q)
    <3>1. L = 0 /\ x > L /\ o + x > q - 1
      BY <1>3, <1>4, <1>5, <2>4 DEF o
    <3>2. SubSeq(l, x, L) = <<>>
      BY <2>1, <3>1, SubSeqEmpty
    <3>3. SubSeq(line, o + x, q - 1) = <<>>
      <4>1. o + x \in Int
        BY <1>3, <2>1 DEF o
      <4> QED
        BY <2>1, <3>1, <4>1, SubSeqEmpty
    <3> QED
      BY <3>2, <3>3
  <2> QED
    BY <2>3, <2>4
<1>7. ASSUME NEW x \in 1 .. L + 1, \A y \in x + 1 .. L + 1 : y \in R
      PROVE  x \in R
  <2> SUFFICES ASSUME NEW b, Behind(line, s, o + x, b), b <= last
               PROVE  U[x] = WordsOf(line, s, b, last)
    OBVIOUS
  <2> DEFINE tk == Strtok(SubSeq(line, o + x, q - 1))
             y == L + 1 - Len(tk.next)
  <2>1. U[x] = IF tk.token = None THEN <<>> ELSE <<tk.token>> \o U[y]
    <3> DEFINE part == SubSeq(l, x, L)
    <3>1. part = SubSeq(line, o + x, q - 1)
      BY <1>6
    <3>2. LET t == Strtok(part) IN
            U[x] = IF t.token = None THEN <<>> ELSE <<t.token>> \o U[L + 1 - Len(t.next)]
      <4> HIDE DEF l
      <4> QED
        BY <1>5, TokensFromIs
    <3> HIDE DEF part, U, L, o
    <3> QED
      BY <3>1, <3>2
  <2>2. b \in Nat \ {0}
    BY <1>2 DEF Behind
  <2>3. CASE b = last
    <3>1. tk = [token |-> None, next |-> <<>>]
      <4> HIDE DEF o
      <4> QED
        BY <2>3, TokenIs
    <3>2. U[x] = <<>>
      <4> HIDE DEF tk, U, y
      <4> QED
        BY <2>1, <3>1
    <3>3. WordsOf(line, s, b, last) = <<>>
      <4>1. 1 .. last - b = {}
        BY <1>3, <2>3
      <4> QED
        BY <4>1, Zenon, NoWords
    <3> QED
      BY <3>2, <3>3
  <2>4. CASE b # last
    <3>1. PICK e : /\ e \in (o + x) + 1 .. q /\ Behind(line, s, e + 1, b + 1)
                   /\ e = q => q = Len(line) + 1 /\ b + 1 = last
                   /\ tk = [token |-> WordAt(line, s[b]), next |-> SubSeq(line, e + 1, q - 1)]
                   /\ WordAt(line, s[b]) # None
                   /\ EndsAt(line, s[b], e)
      <4> HIDE DEF o
      <4> QED
        BY <2>4, TokenIs
    <3>2. b < last /\ b + 1 <= last
      BY <1>3, <2>2, <2>4
    <3>3. WordsOf(line, s, b, last) = <<WordAt(line, s[b])>> \o WordsOf(line, s, b + 1, last)
      <4>1. last \in Nat /\ b \in Nat /\ b < last
        BY <1>3, <2>2, <3>2
      <4> QED
        BY <4>1, OneMoreWord, Zenon
    <3>4. U[x] = <<WordAt(line, s[b])>> \o U[y]
      <4> HIDE DEF tk, y, U
      <4> QED
        BY <2>1, <3>1
    <3>5. e \in Nat /\ o + x < e /\ e <= q /\ o + x \in Nat
      BY <1>3, <1>4, <3>1
    <3>6. Len(SubSeq(line, e + 1, q - 1)) = IF e + 1 <= q THEN q - (e + 1) ELSE 0
      <4> DEFINE f == e + 1
      <4>1. f \in Nat \ {0}
        BY <3>5
      <4> HIDE DEF f
      <4>2. Len(SubSeq(line, f, q - 1)) = IF f <= q THEN q - f ELSE 0
        BY <1>4, <4>1, RestIs
      <4> QED
        BY <4>2 DEF f
    <3>7. y = L + 1 - Len(SubSeq(line, e + 1, q - 1))
      <4>1. tk.next = SubSeq(line, e + 1, q - 1)
        <5> HIDE DEF tk
        <5> QED
          BY <3>1
      <4> QED
        BY <4>1
    <3> DEFINE r == Len(SubSeq(line, e + 1, q - 1))
    <3> HIDE DEF y, r
    <3>8. r = (IF e + 1 <= q THEN q - (e + 1) ELSE 0) /\ y = L + 1 - r
      BY <3>6, <3>7 DEF r
    <3>9. U[y] = WordsOf(line, s, b + 1, last)
      <4>1. CASE e = q
        <5>1. y = L + 1
          <6> HIDE DEF L
          <6> QED
            BY <1>4, <1>5, <3>8, <4>1
        <5>2. WordsOf(line, s, b + 1, last) = <<>>
          <6>1. 1 .. last - (b + 1) = {}
            BY <1>3, <2>2, <3>1, <4>1
          <6> QED
            BY <6>1, Zenon, NoWords
        <5>3. U[L + 1] = <<>>
          <6> DEFINE z == L + 1
                     part == SubSeq(l, z, L)
                     t == Strtok(part)
          <6>1. U[z] = IF t.token = None THEN <<>> ELSE <<t.token>> \o U[L + 1 - Len(t.next)]
            <7>1. z \in 1 .. L + 1
              BY <1>5
            <7> HIDE DEF l, z
            <7> QED
              BY <1>5, <7>1, TokensFromIs
          <6>2. t = [token |-> None, next |-> <<>>]
            <7>1. z \in Nat \ {0} /\ z <= Len(l) + 1 /\ z - 1 = L /\ z \in Nat
                  /\ \A k \in z .. z - 1 : Blank(l, k)
              BY <1>5
            <7> HIDE DEF z, l
            <7>2. Strtok(SubSeq(l, z, z - 1)) = [token |-> None, next |-> <<>>]
              BY <1>5, <7>1, StrtokNone
            <7> QED
              BY <7>1, <7>2
          <6> HIDE DEF t, z, U
          <6>3. U[z] = <<>>
            BY <6>1, <6>2
          <6> QED
            BY <6>3 DEF z
        <5> QED
          BY <5>1, <5>2, <5>3
      <4>2. CASE e # q
        <5>1. y \in x + 1 .. L + 1 /\ o + y = e + 1
          <6>1. L = q - i /\ r = q - (e + 1)
            <7> HIDE DEF L
            <7> QED
              BY <1>3, <1>4, <1>5, <3>5, <3>8, <4>2
          <6> HIDE DEF L
          <6> QED
            BY <1>3, <1>4, <1>5, <3>5, <3>8, <4>2, <6>1
        <5>2. Right(y)
          <6> HIDE DEF Right, L
          <6> QED
            BY <1>7, <5>1
        <5> HIDE DEF U
        <5> QED
          BY <3>1, <3>2, <5>1, <5>2
      <4> QED
        BY <4>1, <4>2
    <3> QED
      BY <3>3, <3>4, <3>9
  <2> QED
    BY <2>3, <2>4
<1>8. 1 \in R
  <2>1. L + 1 \in Nat /\ 1 \in 1 .. L + 1
    BY <1>5
  <2> DEFINE z == L + 1
  <2>2. 1 .. z \subseteq R
    <3>1. z \in Nat /\ \A x \in 1 .. z : (\A y \in x + 1 .. z : y \in R) => x \in R
      BY <1>7, <2>1
    <3> HIDE DEF z, R
    <3> QED
      BY <3>1, FromTheEnd
  <2> QED
    BY <2>1, <2>2
<1>9. o + 1 = i
  BY <1>3
<1>10. U[1] = WordsOf(line, s, j, last)
  <2> HIDE DEF U, o, L
  <2> QED
    BY <1>8, <1>9
<1>11. AllTokens(l) = U[1]
  <2> HIDE DEF l
  <2> QED
    BY <1>5, TokensFromIs
<1> QED
  BY <1>10, <1>11

-----------------------------------------------------------------------------
(* A ':' that begins a word is where ColonMark finds it.                     *)
Colon(line, k) == line[k] = ":"
Marks(l) == {i \in 2 .. Len(l) : l[i - 1] = " " /\ l[i] = ":"}
ColonWords(line, s, j) == {k \in j .. Len(s) : Colon(line, s[k])}

ColonAt(line, s, i, j, l, x) ==
  Colon(l, x) /\ (x = 1 \/ Blank(l, x - 1))
    <=> \E k \in ColonWords(line, s, j) : s[k] = (i - 1) + x

(* A ':' first or behind a space is one that begins a word of the line.      *)
LEMMA ColonBegins ==
  ASSUME NEW S, NEW line \in Seq(S), NEW s, EnumeratesTo(s, line, Len(line)),
         NEW i, NEW j, Behind(line, s, i, j), NEW n, n = Len(line),
         NEW x \in 1 .. Len(SubSeq(line, i, n))
  PROVE  ColonAt(line, s, i, j, SubSeq(line, i, n), x)
<1> DEFINE l == SubSeq(line, i, n)
           p == (i - 1) + x
           q == n + 1
<1>1. n \in Nat /\ i \in Nat \ {0} /\ i <= n + 2 /\ q \in Nat /\ q <= Len(line) + 1 /\ q - 1 = n
  <2>1. Len(line) \in Nat
    BY SeqFacts
  <2> QED
    BY <2>1 DEF Behind
<1>2. /\ Len(l) = (IF i <= q THEN q - i ELSE 0)
      /\ \A k \in 1 .. q - i : l[k] = line[(i - 1) + k]
  <2>1. LET m == SubSeq(line, i, q - 1) IN
          /\ Len(m) = IF i <= q THEN q - i ELSE 0
          /\ \A k \in 1 .. q - i : m[k] = line[(i - 1) + k]
    <3> HIDE DEF q
    <3> QED
      BY <1>1, RestIs
  <2> HIDE DEF q
  <2> QED
    BY <1>1, <2>1
<1> HIDE DEF l
<1>a. x \in 1 .. Len(l)
  BY DEF l
<1>3. x \in 1 .. q - i /\ x \in Nat \ {0} /\ p \in i .. n
  BY <1>1, <1>2, <1>a
<1>4. l[x] = line[p]
  <2> HIDE DEF q
  <2> QED
    BY <1>2, <1>3
<1>5. x # 1 => l[x - 1] = line[p - 1]
  <2>1. x # 1 => x - 1 \in 1 .. q - i /\ (i - 1) + (x - 1) = p - 1
    BY <1>1, <1>3
  <2> HIDE DEF p, q
  <2> QED
    BY <1>2, <2>1
<1>6. Len(s) \in Nat /\ j \in Nat \ {0} /\ \A k \in 1 .. Len(s) : Begins(line, s[k])
  BY DEF EnumeratesTo, Behind
<1>7. ASSUME Colon(l, x), x = 1 \/ Blank(l, x - 1)
      PROVE  \E k \in ColonWords(line, s, j) : s[k] = p
  <2>1. Colon(line, p) /\ ~Blank(line, p)
    <3> HIDE DEF p
    <3> QED
      BY <1>4, <1>7 DEF Colon, Blank
  <2>2. p = 1 \/ Blank(line, p - 1)
    <3>1. CASE x = 1
      <4>1. p = i /\ i # n + 2
        BY <1>1, <1>3, <3>1
      <4> HIDE DEF p
      <4> QED
        BY <4>1 DEF Behind
    <3>2. CASE x # 1
      <4> HIDE DEF p
      <4> QED
        BY <1>5, <1>7, <3>2 DEF Blank
    <3> QED
      BY <3>1, <3>2
  <2>3. Begins(line, p) /\ p \in 1 .. Len(line)
    BY <1>1, <1>3, <2>1, <2>2 DEF Begins
  <2> HIDE DEF p
  <2>4. PICK k \in 1 .. Len(s) : s[k] = p
    BY <2>3 DEF EnumeratesTo
  <2>5. ~(k < j)
    <3>1. ~(s[k] < i)
      BY <1>1, <1>3, <2>4
    <3> QED
      BY <3>1 DEF Behind
  <2>6. k \in j .. Len(s)
    BY <1>6, <2>5
  <2> QED
    BY <2>1, <2>4, <2>6 DEF ColonWords
<1>8. ASSUME NEW k \in ColonWords(line, s, j), s[k] = p
      PROVE  Colon(l, x) /\ (x = 1 \/ Blank(l, x - 1))
  <2>1. k \in 1 .. Len(s) /\ Colon(line, s[k])
    BY <1>6 DEF ColonWords
  <2>2. Colon(line, p) /\ Begins(line, p)
    BY <1>6, <1>8, <2>1
  <2>3. Colon(l, x)
    <3> HIDE DEF p
    <3> QED
      BY <1>4, <2>2 DEF Colon
  <2>4. CASE x # 1
    <3>1. p # 1
      BY <1>1, <1>3, <2>4
    <3>2. Blank(line, p - 1)
      BY <2>2, <3>1 DEF Begins
    <3> HIDE DEF p
    <3> QED
      BY <1>5, <2>3, <2>4, <3>2 DEF Blank
  <2> QED
    BY <2>3, <2>4
<1> QED
  BY <1>7, <1>8, Zenon DEF l, p, ColonAt

(* ColonMark finds the first of these words, or none when there is none.     *)
LEMMA ColonMarkIs ==
  ASSUME NEW S, NEW line \in Seq(S), NEW s, EnumeratesTo(s, line, Len(line)),
         NEW i, NEW j, Behind(line, s, i, j), NEW n, n = Len(line)
  PROVE  /\ ColonWords(line, s, j) = {} => ColonMark(SubSeq(line, i, n)) = 0
         /\ \A last \in ColonWords(line, s, j) :
              (\A k \in ColonWords(line, s, j) : last <= k)
                => ColonMark(SubSeq(line, i, n)) = s[last] - (i - 1)
<1> DEFINE l == SubSeq(line, i, n)
           C == ColonWords(line, s, j)
           M(x) == Colon(l, x) /\ (x = 1 \/ Blank(l, x - 1))
           o == i - 1
<1>1. n \in Nat /\ i \in Nat \ {0} /\ i <= n + 2
  <2>1. Len(line) \in Nat
    BY SeqFacts
  <2> QED
    BY <2>1 DEF Behind
<1>2. /\ Len(l) = (IF i <= n + 1 THEN (n + 1) - i ELSE 0) /\ Len(l) \in Nat
      /\ l \in Seq(S)
  <2> DEFINE q == n + 1
  <2>1. q \in Nat /\ q <= Len(line) + 1 /\ q - 1 = n
    BY <1>1
  <2>2. LET m == SubSeq(line, i, q - 1) IN
          m \in Seq(S) /\ Len(m) \in Nat /\ Len(m) = IF i <= q THEN q - i ELSE 0
    <3> HIDE DEF q
    <3> QED
      BY <1>1, <2>1, RestIs
  <2> HIDE DEF q
  <2> QED
    BY <2>1, <2>2 DEF q
<1>3. ASSUME NEW x \in 1 .. Len(l)
      PROVE  M(x) <=> \E k \in C : s[k] = o + x
  <2>1. ColonAt(line, s, i, j, l, x)
    BY ColonBegins, Zenon
  <2> QED
    BY <2>1, Zenon DEF ColonAt
<1>4. \A k \in C : k \in 1 .. Len(s) /\ k \in Nat /\ s[k] \in i .. n
  <2>1. ASSUME NEW k \in C
        PROVE  k \in 1 .. Len(s) /\ k \in Nat /\ s[k] \in i .. n
    <3>1. k \in 1 .. Len(s) /\ ~(k < j) /\ Len(s) \in Nat
      BY DEF ColonWords, Behind, EnumeratesTo
    <3>2. ~(s[k] < i) /\ s[k] \in 1 .. n
      BY <3>1 DEF Behind, EnumeratesTo
    <3> QED
      BY <1>1, <3>1, <3>2
  <2> QED
    BY <2>1
<1>5. l # <<>> <=> Len(l) # 0
  <2> HIDE DEF l
  <2> QED
    BY <1>2, EmptySeq
<1>6. \A x : x \in Marks(l) <=> x \in 1 .. Len(l) /\ x # 1 /\ M(x)
  <2>1. \A x : x \in 2 .. Len(l) <=> x \in 1 .. Len(l) /\ x # 1
    BY <1>2
  <2> HIDE DEF l
  <2> QED
    BY <2>1 DEF Marks, Blank, Colon
<1>7. ColonMark(l) = IF l # <<>> /\ Colon(l, 1) THEN 1 ELSE IF Marks(l) # {} THEN Min(Marks(l)) ELSE 0
  BY Zenon DEF ColonMark, Marks, Colon
<1>8. l # <<>> => 1 \in 1 .. Len(l)
  BY <1>2, <1>5
<1>9. Colon(l, 1) <=> M(1)
  OBVIOUS
<1> HIDE DEF l, M
<1>10. ASSUME C = {}
       PROVE  ColonMark(l) = 0
  <2>1. \A x \in 1 .. Len(l) : ~M(x)
    BY <1>3, <1>10
  <2>2. Marks(l) = {}
    BY <1>6, <2>1
  <2> HIDE DEF C
  <2> QED
    BY <1>7, <1>8, <1>9, <2>1, <2>2
<1>11. ASSUME NEW last \in C, \A k \in C : last <= k
       PROVE  ColonMark(l) = s[last] - o
  <2> DEFINE a == s[last] - o
  <2>1. a \in 1 .. Len(l) /\ s[last] = o + a /\ a \in Nat
    <3> DEFINE p == s[last]
    <3>1. p \in i .. n
      BY <1>4
    <3> HIDE DEF p, l
    <3>2. p - o \in 1 .. Len(l) /\ p = o + (p - o) /\ p - o \in Nat
      BY <1>1, <1>2, <3>1
    <3> QED
      BY <3>2, Zenon DEF p
  <2>2. M(a)
    <3> HIDE DEF a, C, o
    <3>1. M(a) <=> \E k \in C : s[k] = o + a
      BY <1>3, <2>1, Zenon
    <3> QED
      BY <2>1, <3>1, Zenon
  <2>3. ASSUME NEW x \in 1 .. Len(l), M(x)
        PROVE  a <= x
    <3>1. PICK k \in C : s[k] = o + x
      BY <1>3, <2>3
    <3>2. s[last] <= s[k]
      <4>1. last <= k /\ last \in 1 .. Len(s) /\ k \in 1 .. Len(s) /\ last \in Nat /\ k \in Nat
        BY <1>4, <1>11
      <4>2. CASE last = k
        BY <1>4, <4>2
      <4>3. CASE last # k
        <5>1. last < k
          BY <4>1, <4>3
        <5>2. s[last] < s[k]
          BY <4>1, <5>1 DEF EnumeratesTo
        <5> QED
          BY <1>1, <1>4, <5>2
      <4> QED
        BY <4>2, <4>3
    <3>3. s[last] \in Nat /\ s[k] \in Nat
      BY <1>1, <1>4
    <3> QED
      BY <1>1, <1>2, <3>1, <3>2, <3>3
  <2> HIDE DEF C
  <2>4. CASE a = 1
    <3>1. l # <<>>
      BY <1>2, <1>5, <2>1
    <3> QED
      BY <1>7, <1>9, <2>2, <2>4, <3>1
  <2>5. CASE a # 1
    <3>1. l # <<>> => ~M(1)
      <4>1. ~(a <= 1)
        BY <2>1, <2>5
      <4> HIDE DEF a
      <4> QED
        BY <1>8, <2>3, <4>1
    <3> HIDE DEF a
    <3>2. a \in Marks(l)
      BY <1>6, <2>1, <2>2, <2>5
    <3>3. \A y \in Marks(l) : y \in Int /\ a <= y
      BY <1>2, <1>6, <2>3
    <3>4. Min(Marks(l)) = a
      BY <3>2, <3>3, MinIs
    <3>5. Marks(l) # {}
      BY <3>2
    <3>6. ColonMark(l) = a
      BY <1>7, <1>9, <3>1, <3>4, <3>5
    <3> QED
      BY <3>6 DEF a
  <2> QED
    BY <2>4, <2>5
<1> QED
  BY <1>10, <1>11 DEF l

-----------------------------------------------------------------------------
(* The command, the parameters, and the last of them with a ':', of what     *)
(* begins at i, where the c-th word is the command.                         *)
LastOf(line, s, c) ==
  IF ColonWords(line, s, c + 1) = {} THEN Len(s) + 1 ELSE Min(ColonWords(line, s, c + 1))

ParamsFrom(line, s, c) ==
  WordsOf(line, s, c + 1, LastOf(line, s, c))
    \o (IF ColonWords(line, s, c + 1) = {} THEN <<>>
        ELSE <<From(line, s[LastOf(line, s, c)] + 1)>>)

ParsedParams(next) ==
  LET colon  == ColonMark(next)
      middle == IF colon = 0 THEN next ELSE SubSeq(next, 1, colon - 1)
  IN  AllTokens(middle) \o (IF colon = 0 THEN <<>> ELSE <<From(next, colon + 1)>>)

(* Behind the command, the parameters are those that the words make.         *)
LEMMA ParamsAre ==
  ASSUME NEW S, NEW line \in Seq(S), NEW s, EnumeratesTo(s, line, Len(line)),
         NEW n, n = Len(line), NEW a, NEW c, c \in Nat, Behind(line, s, a, c + 1)
  PROVE  ParsedParams(SubSeq(line, a, n)) = ParamsFrom(line, s, c)
<1> DEFINE next == SubSeq(line, a, n)
           C == ColonWords(line, s, c + 1)
           colon == ColonMark(next)
           last == LastOf(line, s, c)
           N == Len(s) + 1
<1>1. n \in Nat /\ a \in Nat \ {0} /\ a <= n + 2 /\ Len(s) \in Nat /\ c + 1 <= N /\ c + 1 \in Nat
  <2>1. Len(line) \in Nat /\ Len(s) \in Nat
    BY SeqFacts DEF EnumeratesTo
  <2> QED
    BY <2>1 DEF Behind
<1>2. C = {} => colon = 0
  BY ColonMarkIs
<1>3. CASE C = {}
  <2>1. WordsEnd(line, s, n + 1, N)
    BY <1>1 DEF WordsEnd
  <2>2. (n + 1) - 1 = n
    BY <1>1
  <2>3. AllTokens(next) = WordsOf(line, s, c + 1, N)
    <3> DEFINE q == n + 1
    <3>1. q - 1 = n /\ WordsEnd(line, s, q, N)
      BY <2>1, <2>2
    <3> HIDE DEF q
    <3>2. AllTokens(SubSeq(line, a, q - 1)) = WordsOf(line, s, c + 1, N)
      <4> HIDE DEF N
      <4> QED
        BY <1>1, <3>1, TokensAre
    <3> QED
      BY <3>1, <3>2
  <2>4. last = N
    BY <1>3 DEF LastOf
  <2> HIDE DEF next, N
  <2>5. ParsedParams(next) = AllTokens(next) \o <<>>
    BY <1>2, <1>3 DEF ParsedParams
  <2>6. ParamsFrom(line, s, c) = WordsOf(line, s, c + 1, last) \o <<>>
    BY <1>3 DEF ParamsFrom
  <2> QED
    BY <2>3, <2>4, <2>5, <2>6 DEF next
<1>4. CASE C # {}
  <2>1. C \subseteq 1 .. Len(s) /\ C \in SUBSET Nat
    <3>1. \A k \in C : k \in (c + 1) .. Len(s)
      BY DEF ColonWords
    <3> HIDE DEF C
    <3> QED
      BY <1>1, <3>1
  <2>2. PICK m \in C : \A k \in C : m <= k
    <3> HIDE DEF C
    <3> QED
      BY <1>4, <2>1, Smallest
  <2>3. last = m
    <3>1. \A k \in C : k \in Int /\ m <= k
      BY <2>1, <2>2
    <3> HIDE DEF C
    <3>2. Min(C) = m
      BY <2>2, <3>1, MinIs
    <3> QED
      BY <1>4, <3>2 DEF LastOf, C
  <2>4. m \in 1 .. Len(s) /\ c + 1 <= m
    <3>1. m \in (c + 1) .. Len(s)
      BY DEF ColonWords
    <3> QED
      BY <1>1, <3>1
  <2>5. colon = s[m] - (a - 1)
    BY <2>2, ColonMarkIs
  <2>6. s[m] \in 1 .. n /\ a <= s[m]
    <3>1. ~(m < c + 1)
      BY <1>1, <2>4
    <3>2. ~(s[m] < a)
      BY <2>4, <3>1 DEF Behind
    <3>3. s[m] \in 1 .. n
      BY <2>4 DEF EnumeratesTo
    <3> QED
      BY <1>1, <3>2, <3>3
  <2> DEFINE q == s[m]
  <2> HIDE DEF q
  <2>7. q \in 1 .. n /\ a <= q /\ colon = q - (a - 1)
    BY <2>5, <2>6 DEF q
  <2>8. Len(next) = n - a + 1
    <3>1. Len(next) = IF a <= n THEN n - a + 1 ELSE 0
      BY <1>1, PartOf
    <3> HIDE DEF next
    <3> QED
      BY <1>1, <2>7, <3>1
  <2> HIDE DEF colon
  <2>9. SubSeq(next, 1, colon - 1) = SubSeq(line, a, q - 1)
    <3> DEFINE d == colon - 1
    <3>1. d \in Int /\ d <= Len(next) /\ a + 1 - 1 = a /\ a + d - 1 = q - 1 /\ n \in Int /\ n <= Len(line)
      <4> HIDE DEF next
      <4> QED
        BY <1>1, <2>7, <2>8
    <3> HIDE DEF d
    <3>2. SubSeq(SubSeq(line, a, n), 1, d) = SubSeq(line, a + 1 - 1, a + d - 1)
      BY <1>1, <3>1, PartOfPart
    <3> QED
      BY <3>1, <3>2 DEF d
  <2>10. From(next, colon + 1) = From(line, q + 1)
    <3> DEFINE b == colon + 1
               d == Len(next)
    <3>1. /\ b \in Nat \ {0} /\ d \in Int /\ a + b - 1 = q + 1 /\ a + d - 1 = n
          /\ d <= Len(next) /\ n \in Int /\ n <= Len(line)
      <4> HIDE DEF next
      <4> QED
        BY <1>1, <2>7, <2>8
    <3> HIDE DEF b
    <3>2. SubSeq(SubSeq(line, a, n), b, d) = SubSeq(line, a + b - 1, a + d - 1)
      <4> HIDE DEF d
      <4> QED
        BY <1>1, <3>1, PartOfPart
    <3>3. From(next, b) = SubSeq(line, q + 1, n)
      BY <3>1, <3>2 DEF From
    <3> QED
      BY <3>3 DEF From, b
  <2>11. AllTokens(SubSeq(line, a, q - 1)) = WordsOf(line, s, c + 1, m)
    <3>1. WordsEnd(line, s, q, m)
      <4>1. m \in 1 .. Len(s) + 1 /\ m <= Len(s)
        BY <1>1, <2>4
      <4> QED
        BY <4>1 DEF WordsEnd, q
    <3> QED
      BY <2>4, <3>1, TokensAre
  <2>12. colon # 0
    BY <1>1, <2>7
  <2> HIDE DEF next
  <2>13. ParsedParams(next) = AllTokens(SubSeq(next, 1, colon - 1)) \o <<From(next, colon + 1)>>
    BY <2>12, Zenon DEF ParsedParams, colon
  <2>14. ParamsFrom(line, s, c) = WordsOf(line, s, c + 1, m) \o <<From(line, q + 1)>>
    BY <1>4, <2>3, Zenon DEF ParamsFrom, q
  <2>15. ParsedParams(next) = ParamsFrom(line, s, c)
    BY <2>9, <2>10, <2>11, <2>13, <2>14
  <2> QED
    BY <2>15 DEF next
<1> QED
  BY <1>3, <1>4

(* One strtok_s finds the command, when there is one, and stops behind it.   *)
LEMMA CommandIs ==
  ASSUME NEW S, NEW line \in Seq(S), NEW s, EnumeratesTo(s, line, Len(line)),
         NEW n, n = Len(line), NEW i, NEW c \in Nat, Behind(line, s, i, c)
  PROVE  LET command == Strtok(SubSeq(line, i, n)) IN
           /\ command.token = None <=> ~(c <= Len(s))
           /\ c <= Len(s) => /\ command.token = WordAt(line, s[c])
                             /\ ParsedParams(command.next) = ParamsFrom(line, s, c)
<1> DEFINE q == n + 1
           N == Len(s) + 1
           command == Strtok(SubSeq(line, i, q - 1))
<1>1. n \in Nat /\ Len(s) \in Nat /\ c <= N /\ q - 1 = n
  <2>1. Len(line) \in Nat /\ Len(s) \in Nat
    BY SeqFacts DEF EnumeratesTo
  <2> QED
    BY <2>1 DEF Behind
<1>2. WordsEnd(line, s, q, N)
  BY <1>1 DEF WordsEnd
<1> HIDE DEF q
<1>3. c = N <=> ~(c <= Len(s))
  BY <1>1
<1> HIDE DEF N
<1>4. c = N => command = [token |-> None, next |-> <<>>]
  BY <1>1, <1>2, TokenIs
<1>5. ASSUME c # N
      PROVE  /\ command.token = WordAt(line, s[c]) /\ command.token # None
             /\ ParsedParams(command.next) = ParamsFrom(line, s, c)
  <2>1. PICK e : /\ e \in i + 1 .. q /\ Behind(line, s, e + 1, c + 1)
                 /\ e = q => q = Len(line) + 1 /\ c + 1 = N
                 /\ command = [token |-> WordAt(line, s[c]), next |-> SubSeq(line, e + 1, q - 1)]
                 /\ WordAt(line, s[c]) # None
                 /\ EndsAt(line, s[c], e)
    BY <1>1, <1>2, <1>5, TokenIs, SMTT(30)
  <2> DEFINE a == e + 1
  <2>2. Behind(line, s, a, c + 1)
    BY <2>1
  <2>3. command.token = WordAt(line, s[c]) /\ command.next = SubSeq(line, a, n)
    <3> HIDE DEF command
    <3> QED
      BY <1>1, <2>1
  <2> HIDE DEF a, command
  <2>4. ParsedParams(SubSeq(line, a, n)) = ParamsFrom(line, s, c)
    BY <2>2, ParamsAre
  <2> QED
    BY <2>1, <2>3, <2>4
<1>6. command = Strtok(SubSeq(line, i, n))
  BY <1>1
<1>7. command.token = None <=> c = N
  <2> HIDE DEF command
  <2> QED
    BY <1>4, <1>5
<1> HIDE DEF command
<1>8. /\ command.token = None <=> ~(c <= Len(s))
      /\ c <= Len(s) => /\ command.token = WordAt(line, s[c])
                        /\ ParsedParams(command.next) = ParamsFrom(line, s, c)
  BY <1>3, <1>5, <1>7
<1> QED
  BY <1>6, <1>8

MeaningHas(line, s, c) ==
  [source |-> IF c = 2 THEN Tail(WordAt(line, 1)) ELSE None,
   command |-> WordAt(line, s[c]), params |-> ParamsFrom(line, s, c)]

(* What a line means, with its last parameter named.                         *)
LEMMA MeaningIs ==
  ASSUME NEW line, NEW s, s = Starts(line), Len(s) \in Nat, NEW c, c = CommandWord(line)
  PROVE  Meaning(line) = MeaningHas(line, s, c)
<1> DEFINE colons == {k \in c + 1 .. Len(s) : line[s[k]] = ":"}
           last == IF colons = {} THEN Len(s) + 1 ELSE Min(colons)
           words == [k \in 1 .. last - c - 1 |-> WordAt(line, s[c + k])]
           rest == IF colons = {} THEN <<>> ELSE <<From(line, s[last] + 1)>>
<1>1. colons = ColonWords(line, s, c + 1)
  BY DEF ColonWords, Colon
<1>2. last = LastOf(line, s, c)
  BY <1>1, Zenon DEF LastOf
<1>3. Meaning(line) = [source |-> IF c = 2 THEN Tail(WordAt(line, 1)) ELSE None,
                       command |-> WordAt(line, s[c]), params |-> words \o rest]
  BY Zenon DEF Meaning
<1>4. words = WordsOf(line, s, c + 1, last)
  <2>0. c \in Nat /\ last \in Int
    <3>1. c \in Nat
      BY DEF CommandWord
    <3>2. CASE colons = {}
      BY <3>1, <3>2
    <3>3. CASE colons # {}
      <4>1. colons \in SUBSET Nat
        BY <3>1
      <4> HIDE DEF colons
      <4>2. PICK m \in colons : \A k \in colons : m <= k
        BY <3>3, <4>1, Smallest
      <4>3. \A k \in colons : k \in Int /\ m <= k
        BY <4>1, <4>2
      <4>4. Min(colons) = m
        BY <4>2, <4>3, MinIs
      <4> QED
        BY <3>1, <3>3, <4>2, <4>3, <4>4
    <3> QED
      BY <3>2, <3>3
  <2> DEFINE m == last
  <2>a. m \in Int
    BY <2>0
  <2> HIDE DEF m
  <2> SUFFICES [k \in 1 .. m - c - 1 |-> WordAt(line, s[c + k])]
                 = [k \in 1 .. m - (c + 1) |-> WordAt(line, s[((c + 1) - 1) + k])]
    BY DEF WordsOf, m
  <2> DEFINE I == 1 .. m - (c + 1)
  <2>1. 1 .. m - c - 1 = I
    BY <2>0, <2>a
  <2>2. \A k \in I : ((c + 1) - 1) + k = c + k
    BY <2>0, <2>a
  <2>3. [k \in 1 .. m - (c + 1) |-> WordAt(line, s[((c + 1) - 1) + k])]
          = [k \in I |-> WordAt(line, s[((c + 1) - 1) + k])]
    OBVIOUS
  <2> HIDE DEF I
  <2>4. [k \in 1 .. m - c - 1 |-> WordAt(line, s[c + k])] = [k \in I |-> WordAt(line, s[c + k])]
    BY <2>1
  <2> DEFINE A(k) == WordAt(line, s[k])
             f(k) == ((c + 1) - 1) + k
             g(k) == c + k
  <2>5. \A k \in I : f(k) = g(k)
    BY <2>2
  <2> HIDE DEF A, f, g
  <2>6. [k \in I |-> A(f(k))] = [k \in I |-> A(g(k))]
    BY <2>5
  <2>7. [k \in I |-> WordAt(line, s[((c + 1) - 1) + k])] = [k \in I |-> WordAt(line, s[c + k])]
    BY <2>6, Zenon DEF A, f, g
  <2> QED
    BY <2>3, <2>4, <2>7, Zenon
<1>5. rest = IF ColonWords(line, s, c + 1) = {} THEN <<>>
             ELSE <<From(line, s[LastOf(line, s, c)] + 1)>>
  <2> HIDE DEF colons, last
  <2> QED
    BY <1>1, <1>2, Zenon
<1> HIDE DEF words, rest, last, colons
<1>6. words \o rest = ParamsFrom(line, s, c)
  BY <1>2, <1>4, <1>5, Zenon DEF ParamsFrom
<1> QED
  BY <1>3, <1>6, Zenon DEF MeaningHas

(* What msgutils_ircmsg_parse makes of a line without a source.              *)
LEMMA UnsourcedParse ==
  ASSUME NEW line, ~HasSource(line)
  PROVE  LET command == Strtok(line) IN
           Parse(line) = IF command.token = None THEN Bad
                         ELSE [source |-> None, command |-> command.token,
                               params |-> ParsedParams(command.next)]
BY Zenon DEF Parse, HasSource, ParsedParams

(* What it makes of a line with a source.                                   *)
LEMMA SourcedParse ==
  ASSUME NEW line, HasSource(line)
  PROVE  LET source == Strtok(Tail(line))
             command == Strtok(source.next) IN
           Parse(line) = IF (Len(line) = 1 \/ Blank(line, 2)) \/ command.token = None THEN Bad
                         ELSE [source |-> source.token, command |-> command.token,
                               params |-> ParsedParams(command.next)]
BY Zenon DEF Parse, HasSource, ParsedParams, Blank

(* What becomes of a line, well-formed or not. *)
LineIsRead(line) == Parse(line) = IF IsMessage(line) THEN Meaning(line) ELSE Bad

(* A line without a source is split right.                                  *)
LEMMA Unsourced ==
  ASSUME NEW S, NEW line \in Seq(S), ~HasSource(line)
  PROVE  LineIsRead(line)
<1> DEFINE s == Starts(line)
           n == Len(line)
           command == Strtok(SubSeq(line, 1, n))
<1>1. n \in Nat /\ EnumeratesTo(s, line, n)
  <2>1. Len(line) \in Nat
    BY SeqFacts
  <2> QED
    BY <2>1, StartsAre
<1> HIDE DEF s
<1>2. line = SubSeq(line, 1, n)
  BY SubSeqFull
<1>3. Behind(line, s, 1, 1)
  <2>1. /\ Len(s) \in Nat /\ \A k \in 1 .. Len(s) : s[k] \in 1 .. n
    BY <1>1 DEF EnumeratesTo
  <2>2. \A k \in 1 .. Len(s) : ~(k < 1) /\ ~(s[k] < 1)
    <3> HIDE DEF n
    <3> QED
      BY <1>1, <2>1
  <2> QED
    BY <1>1, <2>1, <2>2 DEF Behind
<1>4. /\ command.token = None <=> ~(1 <= Len(s))
      /\ 1 <= Len(s) => /\ command.token = WordAt(line, s[1])
                        /\ ParsedParams(command.next) = ParamsFrom(line, s, 1)
  BY <1>1, <1>3, CommandIs
<1>5. CommandWord(line) = 1
  BY DEF CommandWord
<1>6. IsMessage(line) <=> 1 <= Len(s)
  BY <1>5 DEF IsMessage, s
<1>7. Meaning(line) = MeaningHas(line, s, 1)
  BY <1>1, <1>5, MeaningIs DEF s, EnumeratesTo
<1>8. Parse(line) = IF command.token = None THEN Bad
                    ELSE [source |-> None, command |-> command.token,
                          params |-> ParsedParams(command.next)]
  <2>1. LET x == Strtok(line) IN
          Parse(line) = IF x.token = None THEN Bad
                        ELSE [source |-> None, command |-> x.token,
                              params |-> ParsedParams(x.next)]
    BY UnsourcedParse, Zenon
  <2>2. command = Strtok(line)
    BY <1>2
  <2> HIDE DEF command
  <2> QED
    BY <2>1, <2>2
<1> HIDE DEF command
<1>9. CASE 1 <= Len(s)
  <2>1. MeaningHas(line, s, 1)
          = [source |-> None, command |-> WordAt(line, s[1]), params |-> ParamsFrom(line, s, 1)]
    BY DEF MeaningHas
  <2> QED
    BY <1>4, <1>6, <1>7, <1>8, <1>9, <2>1, Zenon DEF LineIsRead
<1>10. CASE ~(1 <= Len(s))
  BY <1>4, <1>6, <1>8, <1>10, Zenon DEF LineIsRead
<1> QED
  BY <1>9, <1>10

(* So is a line with one, which strtok_s takes the source off first.         *)
LEMMA Sourced ==
  ASSUME NEW S, NEW line \in Seq(S), HasSource(line)
  PROVE  LineIsRead(line)
<1> DEFINE s == Starts(line)
           n == Len(line)
           source == Strtok(Tail(line))
           command == Strtok(source.next)
<1>1. n \in Nat \ {0} /\ EnumeratesTo(s, line, n) /\ line # <<>>
  <2>1. Len(line) \in Nat \ {0} /\ line # <<>>
    BY EmptySeq DEF HasSource
  <2> QED
    BY <2>1, StartsAre
<1> HIDE DEF s
<1>2. Colon(line, 1) /\ ~Blank(line, 1) /\ Begins(line, 1)
  BY DEF HasSource, Colon, Blank, Begins
<1>3. Len(s) \in Nat \ {0} /\ s[1] = 1
  <2>1. PICK k \in 1 .. Len(s) : s[k] = 1
    BY <1>1, <1>2 DEF EnumeratesTo
  <2>2. Len(s) \in Nat /\ 1 \in 1 .. Len(s) /\ s[1] \in 1 .. n
    <3>1. Len(s) \in Nat /\ 1 \in 1 .. Len(s)
      BY <1>1, <2>1 DEF EnumeratesTo
    <3> QED
      BY <1>1, <3>1 DEF EnumeratesTo
  <2>3. 1 < k => s[1] < s[k]
    BY <1>1, <2>2 DEF EnumeratesTo
  <2> HIDE DEF n
  <2> QED
    BY <1>1, <2>1, <2>2, <2>3
<1>4. Behind(line, s, 1, 1)
  <2>1. \A k \in 1 .. Len(s) : s[k] \in 1 .. n
    BY <1>1 DEF EnumeratesTo
  <2>2. \A k \in 1 .. Len(s) : ~(k < 1) /\ ~(s[k] < 1)
    <3> HIDE DEF n
    <3> QED
      BY <1>1, <1>3, <2>1
  <2> QED
    BY <1>1, <1>3, <2>1, <2>2 DEF Behind
<1>5. PICK e : EndsAt(line, 1, e)
  <2>1. n \in Nat /\ 1 \in 1 .. n
    BY <1>1
  <2> QED
    BY <1>2, <2>1, WordExists
<1>6. e \in 2 .. n + 1 /\ (\A k \in 1 .. e - 1 : ~Blank(line, k)) /\ (e = n + 1 \/ Blank(line, e))
  BY <1>5 DEF EndsAt
<1>7. WordAt(line, 1) = SubSeq(line, 1, e - 1)
  BY <1>1, <1>5, WordAtIs
<1>8. e - 1 \in 1 .. n
  BY <1>1, <1>6
<1>9. Behind(line, s, e + 1, 2)
  <2>1. 1 <= Len(s) /\ 1 + 1 = 2
    BY <1>3
  <2>2. EndsAt(line, s[1], e)
    BY <1>3, <1>5
  <2>3. Behind(line, s, e + 1, 1 + 1)
    BY <1>1, <1>4, <2>1, <2>2, NextWord
  <2> QED
    BY <2>1, <2>3
<1>10. CommandWord(line) = 2
  BY DEF CommandWord
<1>11. Meaning(line) = MeaningHas(line, s, 2)
  BY <1>3, <1>10, MeaningIs DEF s
<1>12. IsMessage(line) <=> 2 <= Len(s) /\ WordAt(line, 1) # <<":">>
  BY <1>10 DEF IsMessage, s
<1>13. Len(WordAt(line, 1)) = e - 1
  <2> DEFINE d == e - 1
  <2>1. d \in Int /\ d <= n /\ 1 <= d
    BY <1>1, <1>8
  <2> HIDE DEF d
  <2>2. Len(SubSeq(line, 1, d)) = d
    BY <2>1, PartOf
  <2> QED
    BY <1>7, <2>2 DEF d
<1>14. Parse(line) = IF (n = 1 \/ Blank(line, 2)) \/ command.token = None THEN Bad
                     ELSE [source |-> source.token, command |-> command.token,
                           params |-> ParsedParams(command.next)]
  BY SourcedParse, Zenon
<1>15. CASE n = 1 \/ Blank(line, 2)
  <2>1. e = 2
    <3>1. ~Blank(line, 2) \/ ~(2 \in 1 .. e - 1)
      BY <1>6
    <3> HIDE DEF n
    <3> QED
      BY <1>1, <1>6, <1>15, <3>1
  <2>2. WordAt(line, 1) = <<":">>
    <3>1. WordAt(line, 1) = SubSeq(line, 1, 1)
      BY <1>7, <2>1
    <3>2. 1 \in 1 .. Len(line)
      BY <1>1
    <3>3. SubSeq(line, 1, 1) = <<line[1]>> \o SubSeq(line, 1 + 1, 1)
      BY <3>2, SubSeqRecursiveFirst
    <3>4. SubSeq(line, 1 + 1, 1) = <<>>
      BY SubSeqEmpty
    <3>5. line[1] = ":"
      BY DEF HasSource
    <3>6. <<":">> \o <<>> = <<":">>
      <4>1. <<line[1]>> \in Seq(S)
        BY <3>2, SeqFacts
      <4> QED
        BY <3>5, <4>1, ConcatEmptySeq
    <3> QED
      BY <3>1, <3>3, <3>4, <3>5, <3>6
  <2>3. ~IsMessage(line)
    BY <1>12, <2>2
  <2> HIDE DEF command, source
  <2> QED
    BY <1>14, <1>15, <2>3 DEF LineIsRead
<1>16. CASE ~(n = 1 \/ Blank(line, 2))
  <2>1. ASSUME e = 2
        PROVE  FALSE
    <3>1. n = 1 \/ Blank(line, 2)
      <4>1. CASE e = n + 1
        <5>1. n = 1
          <6> HIDE DEF n
          <6> QED
            BY <1>1, <2>1, <4>1
        <5> QED
          BY <5>1
      <4>2. CASE Blank(line, e)
        BY <2>1, <4>2
      <4> QED
        BY <1>6, <4>1, <4>2
    <3> QED
      BY <1>16, <3>1
  <2>2. e \in 2 + 1 .. n + 1 /\ n + 1 \in Nat /\ 2 \in 2 .. n
    BY <1>1, <1>6, <2>1
  <2>3. WordAt(line, 1) # <<":">>
    <3>1. Len(<<":">>) = 1
      OBVIOUS
    <3>2. e - 1 # 1
      BY <1>6, <2>1
    <3> QED
      BY <1>13, <3>1, <3>2
  <2> DEFINE q == n + 1
  <2>4. q - 1 = n /\ q \in Nat /\ q <= Len(line) + 1
    BY <1>1
  <2>5. IsWord(line, 2, q, 2, e)
    <3>1. \A k \in 2 .. 2 - 1 : Blank(line, k)
      OBVIOUS
    <3>2. \A k \in 2 .. e - 1 : k \in 1 .. e - 1
      BY <1>6
    <3>3. \A k \in 2 .. e - 1 : ~Blank(line, k)
      BY <1>6, <3>2
    <3>4. 2 \in 2 .. q - 1 /\ e \in 2 + 1 .. q
      BY <2>2, <2>4
    <3> HIDE DEF q
    <3>5. e = q \/ Blank(line, e)
      BY <1>6 DEF q
    <3> QED
      BY <3>1, <3>3, <3>4, <3>5 DEF IsWord
  <2> HIDE DEF q
  <2>6. Tail(line) = SubSeq(line, 2, q - 1)
    BY <1>1, <2>4, TailIsSubSeq
  <2>7. source = [token |-> SubSeq(line, 2, e - 1), next |-> SubSeq(line, e + 1, n)]
    <3>1. Strtok(SubSeq(line, 2, q - 1))
            = [token |-> SubSeq(line, 2, e - 1), next |-> SubSeq(line, e + 1, q - 1)]
      BY <2>4, <2>5, StrtokIs
    <3> QED
      BY <2>4, <2>6, <3>1
  <2>8. source.token = Tail(WordAt(line, 1))
    <3>1. 1 \in 1 .. Len(line)
      BY <1>1
    <3>2. Tail(SubSeq(line, 1, e - 1)) = SubSeq(line, 1 + 1, e - 1)
      BY <1>8, <3>1, HeadTailOfSubSeq
    <3>3. 1 + 1 = 2
      OBVIOUS
    <3> HIDE DEF source
    <3> QED
      BY <1>7, <2>7, <3>2, <3>3
  <2> DEFINE a == e + 1
  <2>9. source.next = SubSeq(line, a, n)
    <3> HIDE DEF source
    <3> QED
      BY <2>7
  <2> HIDE DEF a, source
  <2>10. LET x == Strtok(SubSeq(line, a, n)) IN
           /\ x.token = None <=> ~(2 <= Len(s))
           /\ 2 <= Len(s) => /\ x.token = WordAt(line, s[2])
                             /\ ParsedParams(x.next) = ParamsFrom(line, s, 2)
    <3>1. Behind(line, s, a, 2)
      BY <1>9 DEF a
    <3>2. 2 \in Nat
      OBVIOUS
    <3> QED
      BY <1>1, <3>1, <3>2, CommandIs
  <2>11. /\ command.token = None <=> ~(2 <= Len(s))
         /\ 2 <= Len(s) => /\ command.token = WordAt(line, s[2])
                           /\ ParsedParams(command.next) = ParamsFrom(line, s, 2)
    BY <2>9, <2>10
  <2> HIDE DEF command
  <2>12. CASE 2 <= Len(s)
    <3>1. MeaningHas(line, s, 2)
            = [source |-> Tail(WordAt(line, 1)), command |-> WordAt(line, s[2]),
               params |-> ParamsFrom(line, s, 2)]
      BY DEF MeaningHas
    <3> QED
      BY <1>11, <1>12, <1>14, <1>16, <2>3, <2>8, <2>11, <2>12, <3>1, Zenon DEF LineIsRead
  <2>13. CASE ~(2 <= Len(s))
    BY <1>12, <1>14, <2>11, <2>13, Zenon DEF LineIsRead
  <2> QED
    BY <2>12, <2>13
<1> QED
  BY <1>15, <1>16

(* msgutils_ircmsg_parse makes of every line with a command what its words    *)
(* mean: for lines of any length.                                            *)
THEOREM LineSplit == \A S : \A line \in Seq(S) : LineIsSplit(line)
<1>1. \A S : \A line \in Seq(S) : LineIsRead(line)
  BY Sourced, Unsourced
<1> QED
  BY <1>1 DEF LineIsRead, LineIsSplit

-----------------------------------------------------------------------------
(* Cutting a text in two. *)

Front(t, a) == SubSeq(t, 1, a)
Back(t, a) == SubSeq(t, a + 1, Len(t))

(* The bytes of the two parts.                                              *)
LEMMA FrontIs ==
  ASSUME NEW S, NEW t \in Seq(S), NEW a \in 0 .. Len(t)
  PROVE  /\ Front(t, a) \in Seq(S) /\ Len(Front(t, a)) = a /\ DOMAIN Front(t, a) = 1 .. a
         /\ \A k \in 1 .. a : Front(t, a)[k] = t[k]
<1> DEFINE u == SubSeq(t, 1, a)
<1>1. a \in Nat /\ a <= Len(t)
  BY SeqFacts
<1>2. u \in Seq(S) /\ Len(u) = (IF 1 <= a THEN a - 1 + 1 ELSE 0)
  BY <1>1, PartOf
<1>3. \A k \in 1 .. a - 1 + 1 : u[k] = t[1 + k - 1]
  BY <1>1, PartOf
<1> HIDE DEF u
<1>4. Len(u) = a
  BY <1>1, <1>2
<1>5. ASSUME NEW k \in 1 .. a
      PROVE  u[k] = t[k]
  <2>1. k \in 1 .. a - 1 + 1 /\ 1 + k - 1 = k
    BY <1>1
  <2>2. u[k] = t[1 + k - 1]
    BY <1>3, <2>1
  <2> QED
    BY <2>1, <2>2
<1>6. DOMAIN u = 1 .. a
  BY <1>2, <1>4, SeqFacts
<1> QED
  BY <1>2, <1>4, <1>5, <1>6 DEF Front, u

(* ... and those of the back.                                               *)
LEMMA BackIs ==
  ASSUME NEW S, NEW t \in Seq(S), NEW a \in 0 .. Len(t)
  PROVE  /\ Back(t, a) \in Seq(S) /\ Len(Back(t, a)) = Len(t) - a
         /\ DOMAIN Back(t, a) = 1 .. Len(t) - a
         /\ \A k \in 1 .. Len(t) - a : Back(t, a)[k] = t[a + k]
<1> DEFINE n == Len(t)
           b == a + 1
           u == SubSeq(t, b, n)
<1>1. a \in Nat /\ a <= n /\ n \in Nat /\ b \in Nat \ {0}
  BY SeqFacts
<1>2. u \in Seq(S) /\ Len(u) = (IF b <= n THEN n - b + 1 ELSE 0)
      /\ \A k \in 1 .. n - b + 1 : u[k] = t[b + k - 1]
  <2> HIDE DEF b
  <2>1. n \in Int /\ n <= Len(t)
    BY <1>1
  <2> QED
    BY <1>1, <2>1, PartOf
<1> HIDE DEF u, n
<1>3. Len(u) = n - a
  BY <1>1, <1>2
<1>4. ASSUME NEW k \in 1 .. n - a
      PROVE  u[k] = t[a + k]
  <2>1. k \in 1 .. n - b + 1 /\ b + k - 1 = a + k
    BY <1>1
  <2> HIDE DEF b
  <2>2. u[k] = t[b + k - 1]
    BY <1>2, <2>1
  <2> QED
    BY <2>1, <2>2
<1>5. DOMAIN u = 1 .. n - a
  BY <1>2, <1>3, SeqFacts
<1> QED
  BY <1>2, <1>3, <1>4, <1>5 DEF Back, u, b, n

(* Where an escape sequence ends.                                           *)
IsM(t, k) == t[k] = "m"

EscapeTo(t, i, e) ==
  /\ e \in i + 1 .. Len(t) + 1
  /\ \A k \in i .. e - 2 : ~IsM(t, k)
  /\ e <= Len(t) => IsM(t, e - 1)

(* EscapeEnd is where EscapeTo says, and nothing else is.                   *)
LEMMA EscapeEndIs ==
  ASSUME NEW S, NEW t \in Seq(S), NEW i \in 1 .. Len(t)
  PROVE  /\ EscapeTo(t, i, EscapeEnd(t, i))
         /\ \A e : EscapeTo(t, i, e) => e = EscapeEnd(t, i)
<1> DEFINE n == Len(t)
           T == Terminators(t, i)
<1>1. n \in Nat /\ i \in Nat /\ i <= n
  BY SeqFacts
<1>2. \A k : k \in T <=> k \in i .. n /\ IsM(t, k)
  BY DEF Terminators, IsM
<1> HIDE DEF n, T
<1>3. EscapeEnd(t, i) = IF T = {} THEN n + 1 ELSE Min(T) + 1
  BY DEF EscapeEnd, T, n
<1>4. \E e : EscapeTo(t, i, e) /\ e = EscapeEnd(t, i)
  <2>1. CASE T = {}
    <3>1. \A k \in i .. (n + 1) - 2 : k \in i .. n
      BY <1>1
    <3>2. \A k \in i .. (n + 1) - 2 : ~IsM(t, k)
      BY <1>2, <2>1, <3>1
    <3>3. n + 1 \in i + 1 .. n + 1 /\ ~(n + 1 <= n)
      BY <1>1
    <3>4. EscapeTo(t, i, n + 1)
      BY <3>2, <3>3, Zenon DEF EscapeTo, n
    <3> QED
      BY <1>3, <2>1, <3>4
  <2>2. CASE T # {}
    <3>1. T \in SUBSET Nat
      BY <1>1, <1>2
    <3>2. PICK m \in T : \A k \in T : m <= k
      BY <2>2, <3>1, Smallest
    <3>3. Min(T) = m
      <4>1. \A k \in T : k \in Int /\ m <= k
        BY <3>1, <3>2
      <4> QED
        BY <4>1, MinIs
    <3>4. m \in i .. n /\ IsM(t, m)
      BY <1>2
    <3> DEFINE e == m + 1
    <3>5. e \in i + 1 .. n + 1 /\ e - 1 = m /\ \A k \in i .. e - 2 : k \in i .. n /\ ~(m <= k)
      BY <1>1, <3>4
    <3>6. \A k \in i .. e - 2 : ~IsM(t, k)
      BY <1>2, <3>2, <3>5
    <3>7. EscapeTo(t, i, e)
      <4> HIDE DEF e
      <4> QED
        BY <3>4, <3>5, <3>6, Zenon DEF EscapeTo, n
    <3> QED
      BY <1>3, <2>2, <3>3, <3>7
  <2> QED
    BY <2>1, <2>2
<1>5. ASSUME NEW d, NEW e, EscapeTo(t, i, d), EscapeTo(t, i, e), d < e
      PROVE  FALSE
  <2>1. d \in i + 1 .. n + 1 /\ e \in i + 1 .. n + 1
    BY <1>5, Zenon DEF EscapeTo, n
  <2>2. d <= n /\ d - 1 \in i .. e - 2
    BY <1>1, <1>5, <2>1
  <2> QED
    BY <1>5, <2>2 DEF EscapeTo, n
<1>6. ASSUME NEW e, EscapeTo(t, i, e)
      PROVE  e = EscapeEnd(t, i)
  <2>1. PICK d : EscapeTo(t, i, d) /\ d = EscapeEnd(t, i)
    BY <1>4
  <2>2. ~(d < e) /\ ~(e < d)
    BY <1>5, <1>6, <2>1
  <2>3. d \in i + 1 .. n + 1 /\ e \in i + 1 .. n + 1
    BY <1>6, <2>1, Zenon DEF EscapeTo, n
  <2>4. d = e
    BY <1>1, <2>2, <2>3
  <2> QED
    BY <2>1, <2>4
<1> QED
  BY <1>4, <1>6

(* Behind the colour byte a colour sequence has digits and a comma.         *)
LEMMA ColorTail ==
  ASSUME NEW t, NEW i \in Nat, At(t, i) = "col"
  PROVE  \A d \in 1 .. ColorLength(t, i) - 1 : At(t, i + d) \in {"0", ","}
<1>1. CASE ~IsDigit(t, i + 1)
  <2>1. ColorLength(t, i) = 1
    BY <1>1 DEF ColorLength
  <2>2. \A d \in 1 .. 1 - 1 : FALSE
    OBVIOUS
  <2> QED
    BY <2>1, <2>2, Zenon
<1>2. CASE IsDigit(t, i + 1)
  <2>1. PICK n \in {2, 3} : n = IF IsDigit(t, i + 2) THEN 3 ELSE 2
    OBVIOUS
  <2>2. ColorLength(t, i) =
          IF At(t, i + n) # "," \/ ~IsDigit(t, i + n + 1) THEN n
          ELSE IF IsDigit(t, i + n + 2) THEN n + 3 ELSE n + 2
    BY <1>2, <2>1, Zenon DEF ColorLength
  <2>3. n = 3 => IsDigit(t, i + 2)
    BY <2>1
  <2>4. CASE At(t, i + n) # "," \/ ~IsDigit(t, i + n + 1)
    <3>1. ColorLength(t, i) = n
      BY <2>2, <2>4
    <3>2. ASSUME NEW d \in 1 .. n - 1
          PROVE  At(t, i + d) \in {"0", ","}
      <4>1. d = 1 \/ (d = 2 /\ n = 3)
        BY <2>1
      <4> QED
        BY <1>2, <2>3, <4>1 DEF IsDigit
    <3> QED
      BY <3>1, <3>2, Zenon
  <2>5. CASE At(t, i + n) = "," /\ IsDigit(t, i + n + 1)
    <3>1. PICK last \in {n + 2, n + 3} :
            /\ ColorLength(t, i) = last
            /\ last = n + 3 => IsDigit(t, i + n + 2)
      <4>1. ColorLength(t, i) = IF IsDigit(t, i + n + 2) THEN n + 3 ELSE n + 2
        BY <2>2, <2>5
      <4>2. n + 2 # n + 3
        OBVIOUS
      <4> QED
        BY <4>1, <4>2, Zenon
    <3>2. /\ \A d \in 1 .. last - 1 : \/ d = 1 \/ (d = 2 /\ n = 3)
                                      \/ d = n \/ d = n + 1 \/ (d = n + 2 /\ last = n + 3)
          /\ i + (n + 1) = i + n + 1 /\ i + (n + 2) = i + n + 2
      BY <2>1
    <3>3. ASSUME NEW d \in 1 .. last - 1
          PROVE  At(t, i + d) \in {"0", ","}
      <4>1. CASE d = 1 \/ (d = 2 /\ n = 3)
        BY <1>2, <2>3, <4>1 DEF IsDigit
      <4>2. CASE d = n \/ d = n + 1 \/ (d = n + 2 /\ last = n + 3)
        <5>1. At(t, i + n + 1) = "0" /\ (last = n + 3 => At(t, i + n + 2) = "0") /\ At(t, i + n) = ","
          BY <2>5, <3>1 DEF IsDigit
        <5>2. i + d = i + n \/ i + d = i + n + 1 \/ (i + d = i + n + 2 /\ last = n + 3)
          BY <3>2, <4>2
        <5>3. At(t, i + d) = "," \/ At(t, i + d) = "0"
          BY <5>1, <5>2, Zenon
        <5> QED
          BY <5>3
      <4> QED
        BY <3>2, <4>1, <4>2
    <3> QED
      BY <3>1, <3>3
  <2> QED
    BY <2>4, <2>5
<1> QED
  BY <1>1, <1>2

(* The length of a sequence, by the bytes at fixed distances that it reads.  *)
LEMMA ColorLengthIs ==
  ASSUME NEW t, NEW i \in Nat
  PROVE  ColorLength(t, i) =
           IF ~IsDigit(t, i + 1) THEN 1
           ELSE IF IsDigit(t, i + 2)
             THEN (IF At(t, i + 3) # "," \/ ~IsDigit(t, i + 4) THEN 3
                   ELSE IF IsDigit(t, i + 5) THEN 6 ELSE 5)
             ELSE (IF At(t, i + 2) # "," \/ ~IsDigit(t, i + 3) THEN 2
                   ELSE IF IsDigit(t, i + 4) THEN 5 ELSE 4)
<1>1. i + 2 + 1 = i + 3 /\ i + 2 + 2 = i + 4 /\ i + 3 + 1 = i + 4 /\ i + 3 + 2 = i + 5
      /\ 2 + 2 = 4 /\ 2 + 3 = 5 /\ 3 + 2 = 5 /\ 3 + 3 = 6
  OBVIOUS
<1>2. CASE ~IsDigit(t, i + 1)
  BY <1>2, Zenon DEF ColorLength
<1>3. CASE IsDigit(t, i + 1) /\ IsDigit(t, i + 2)
  <2>1. ColorLength(t, i) =
          IF At(t, i + 3) # "," \/ ~IsDigit(t, i + 3 + 1) THEN 3
          ELSE IF IsDigit(t, i + 3 + 2) THEN 3 + 3 ELSE 3 + 2
    BY <1>3, Zenon DEF ColorLength
  <2> QED
    BY <1>1, <1>3, <2>1, Zenon
<1>4. CASE IsDigit(t, i + 1) /\ ~IsDigit(t, i + 2)
  <2>1. ColorLength(t, i) =
          IF At(t, i + 2) # "," \/ ~IsDigit(t, i + 2 + 1) THEN 2
          ELSE IF IsDigit(t, i + 2 + 2) THEN 2 + 3 ELSE 2 + 2
    BY <1>4, Zenon DEF ColorLength
  <2>2. 2 + 3 = 5
    OBVIOUS
  <2> QED
    BY <1>1, <1>4, <2>1, <2>2, Zenon
<1> QED
  BY <1>2, <1>3, <1>4

(* A sequence is as long where only its own bytes are left: of the bytes     *)
(* behind, it takes none that it did not take before.                       *)
KeptBehind(u, k, w, i, room) ==
  \A d \in {1, 2, 3, 4, 5} : At(u, k + d) = IF d < room THEN At(w, i + d) ELSE NUL

(* The longest sequence is the same then, if it ends within room.           *)
LEMMA SameColor ==
  ASSUME NEW u, NEW k \in Nat, NEW w, NEW i \in Nat, NEW room \in Nat,
         KeptBehind(u, k, w, i, room), ColorLength(w, i) <= room
  PROVE  ColorLength(u, k) = ColorLength(w, i)
<1> DEFINE N(d) == IsDigit(w, i + d)
           C(d) == At(w, i + d) = ","
           M(d) == IsDigit(u, k + d)
           B(d) == At(u, k + d) = ","
<1>1. ASSUME NEW d \in {1, 2, 3, 4, 5}
      PROVE  (M(d) <=> N(d) /\ d < room) /\ (B(d) <=> C(d) /\ d < room)
  <2>1. At(u, k + d) = IF d < room THEN At(w, i + d) ELSE NUL
    BY DEF KeptBehind
  <2> QED
    BY <2>1 DEF IsDigit, NUL
<1>2. ColorLength(w, i) =
        IF ~N(1) THEN 1
        ELSE IF N(2) THEN (IF ~C(3) \/ ~N(4) THEN 3 ELSE IF N(5) THEN 6 ELSE 5)
        ELSE (IF ~C(2) \/ ~N(3) THEN 2 ELSE IF N(4) THEN 5 ELSE 4)
  BY ColorLengthIs
<1>3. ColorLength(u, k) =
        IF ~M(1) THEN 1
        ELSE IF M(2) THEN (IF ~B(3) \/ ~M(4) THEN 3 ELSE IF M(5) THEN 6 ELSE 5)
        ELSE (IF ~B(2) \/ ~M(3) THEN 2 ELSE IF M(4) THEN 5 ELSE 4)
  BY ColorLengthIs
<1> HIDE DEF N, C, M, B
<1>4. /\ (M(1) <=> N(1) /\ 1 < room) /\ (M(2) <=> N(2) /\ 2 < room) /\ (M(3) <=> N(3) /\ 3 < room)
      /\ (M(4) <=> N(4) /\ 4 < room) /\ (M(5) <=> N(5) /\ 5 < room)
      /\ (B(2) <=> C(2) /\ 2 < room) /\ (B(3) <=> C(3) /\ 3 < room)
  BY <1>1, Zenon
<1> QED
  BY <1>2, <1>3, <1>4

(* A text begins with another, ends with it.                                *)
IsFront(u, w) == Len(u) <= Len(w) /\ \A k \in 1 .. Len(u) : u[k] = w[k]
IsBack(v, w, a) == Len(w) = a + Len(v) /\ \A k \in 1 .. Len(v) : v[k] = w[a + k]

(* An escape sequence that ends in the front of a text ends there in both.   *)
LEMMA KeptEscape ==
  ASSUME NEW S, NEW u \in Seq(S), NEW w \in Seq(S), IsFront(u, w), NEW j \in 1 .. Len(u),
         NEW e \in j + 1 .. Len(u) + 1, IsM(u, e - 1), EscapeTo(u, j, e) \/ EscapeTo(w, j, e)
  PROVE  EscapeEnd(u, j) = e /\ EscapeEnd(w, j) = e
<1>1. Len(u) \in Nat /\ Len(w) \in Nat /\ Len(u) <= Len(w) /\ j \in 1 .. Len(w)
  BY SeqFacts DEF IsFront
<1>2. \A k \in 1 .. Len(u) : IsM(u, k) <=> IsM(w, k)
  BY DEF IsFront, IsM
<1>3. /\ e - 1 \in 1 .. Len(u) /\ e \in j + 1 .. Len(w) + 1
      /\ \A k \in j .. e - 2 : k \in 1 .. Len(u)
  BY <1>1
<1>4. \A k \in j .. e - 2 : ~IsM(u, k) /\ ~IsM(w, k)
  BY <1>2, <1>3, Zenon DEF EscapeTo
<1>5. EscapeTo(u, j, e)
  BY <1>4, Zenon DEF EscapeTo
<1>6. EscapeTo(w, j, e)
  BY <1>2, <1>3, <1>4, Zenon DEF EscapeTo
<1> QED
  BY <1>1, <1>5, <1>6, EscapeEndIs

(* A colour sequence that ends in the front of a text is as long in both.   *)
LEMMA KeptColor ==
  ASSUME NEW S, NEW u \in Seq(S), NEW w \in Seq(S), IsFront(u, w), NEW j \in 1 .. Len(u),
         u[j] = "col", j + ColorSequence(w, j) <= Len(u) + 1
  PROVE  ColorSequence(u, j) = ColorSequence(w, j)
<1> DEFINE n == Len(u)
           m == Len(w)
           room == n + 1 - j
<1>1. n \in Nat /\ m \in Nat /\ n <= m /\ DOMAIN u = 1 .. n /\ DOMAIN w = 1 .. m /\ j \in 1 .. n
  BY SeqFacts DEF IsFront
<1>2. \A k \in 1 .. n : u[k] = w[k]
  BY DEF IsFront
<1>a. j + ColorSequence(w, j) <= n + 1
  OBVIOUS
<1> HIDE DEF n, m
<1>3. At(u, j) = "col" /\ At(w, j) = "col"
  BY <1>1, <1>2 DEF At
<1>4. KeptBehind(u, j, w, j, room)
  <2> SUFFICES ASSUME NEW d \in {1, 2, 3, 4, 5}
               PROVE  At(u, j + d) = IF d < room THEN At(w, j + d) ELSE NUL
    BY DEF KeptBehind
  <2>1. CASE d < room
    <3>1. j + d \in 1 .. n /\ j + d \in 1 .. m
      BY <1>1, <2>1
    <3> QED
      BY <1>1, <1>2, <2>1, <3>1 DEF At
  <2>2. CASE ~(d < room)
    <3>1. j + d \notin 1 .. n
      BY <1>1, <2>2
    <3> QED
      BY <1>1, <2>2, <3>1 DEF At
  <2> QED
    BY <2>1, <2>2
<1>5. ColorSequence(u, j) = ColorLength(u, j) /\ ColorSequence(w, j) = ColorLength(w, j)
  BY <1>1, <1>3, ColorSequenceIs
<1>6. ColorLength(w, j) \in Nat
  <2>1. j \in Nat
    BY <1>1
  <2>2. ColorLength(w, j) \in 1 .. 6
    BY <1>3, <2>1, ColorBytes
  <2> QED
    BY <2>2
<1> DEFINE c == ColorLength(w, j)
<1>7. c \in Nat /\ j + c <= n + 1
  BY <1>a, <1>5, <1>6
<1>8. room \in Nat /\ c <= room
  <2> HIDE DEF c
  <2> QED
    BY <1>1, <1>7
<1> HIDE DEF room
<1>9. ColorLength(u, j) = ColorLength(w, j)
  BY <1>1, <1>4, <1>8, SameColor
<1> QED
  BY <1>5, <1>9

(* An escape sequence has its end, and no colour sequence goes on behind u.  *)
Ended(t, j) == t[j] = "esc" => IsM(t, TokenEnd(t, j) - 1)
OtherBehind(u, w) == Len(u) < Len(w) => w[Len(u) + 1] \notin {"0", ","}

(* A token of a text that ends within its front is a token of the front.    *)
LEMMA KeptToken ==
  ASSUME NEW S, NEW u \in Seq(S), NEW w \in Seq(S), IsFront(u, w), NEW j \in 1 .. Len(u),
         TokenEnd(w, j) <= Len(u) + 1, Ended(w, j)
  PROVE  TokenEnd(u, j) = TokenEnd(w, j)
<1>1. Len(u) \in Nat /\ Len(w) \in Nat /\ Len(u) <= Len(w) /\ j \in 1 .. Len(w) /\ u[j] = w[j]
  BY SeqFacts DEF IsFront
<1>2. CASE w[j] = "esc"
  <2> DEFINE e == TokenEnd(w, j)
  <2>1. e = EscapeEnd(w, j) /\ IsM(w, e - 1)
    BY <1>2 DEF TokenEnd, Ended
  <2>2. EscapeTo(w, j, e)
    BY <1>1, <2>1, EscapeEndIs
  <2>3. e \in j + 1 .. Len(w) + 1 /\ e <= Len(u) + 1
    BY <2>2 DEF EscapeTo
  <2> HIDE DEF e
  <2>4. e \in j + 1 .. Len(u) + 1 /\ e - 1 \in 1 .. Len(u)
    BY <1>1, <2>3
  <2>5. IsM(u, e - 1)
    BY <2>1, <2>4 DEF IsM, IsFront
  <2>6. EscapeEnd(u, j) = e
    BY <2>2, <2>4, <2>5, KeptEscape
  <2> QED
    BY <1>1, <1>2, <2>6 DEF TokenEnd, e
<1>3. CASE w[j] = "col"
  <2>1. TokenEnd(w, j) = j + ColorSequence(w, j) /\ TokenEnd(u, j) = j + ColorSequence(u, j)
    BY <1>1, <1>3 DEF TokenEnd
  <2>2. u[j] = "col" /\ j + ColorSequence(w, j) <= Len(u) + 1
    BY <1>1, <1>3, <2>1
  <2>3. ColorSequence(u, j) = ColorSequence(w, j)
    BY <2>2, KeptColor
  <2> QED
    BY <2>1, <2>3
<1>4. CASE w[j] \notin {"esc", "col"}
  BY <1>1, <1>4 DEF TokenEnd
<1> QED
  BY <1>2, <1>3, <1>4

(* A token of the front is one of the text, if it has its end there and the *)
(* byte that follows cannot be part of it.                                  *)
LEMMA KeptAhead ==
  ASSUME NEW S, NEW u \in Seq(S), NEW w \in Seq(S), IsFront(u, w), NEW j \in 1 .. Len(u),
         Ended(u, j), OtherBehind(u, w)
  PROVE  TokenEnd(u, j) = TokenEnd(w, j)
<1>0. Len(u) \in Nat /\ Len(w) \in Nat /\ Len(u) <= Len(w) /\ u[j] = w[j]
  BY SeqFacts DEF IsFront
<1>1. /\ Len(u) \in Nat /\ Len(w) \in Nat /\ Len(u) <= Len(w) /\ u[j] = w[j]
      /\ j \in 1 .. Len(w) /\ j \in Nat
  BY <1>0
<1>2. CASE w[j] = "esc"
  <2> DEFINE e == TokenEnd(u, j)
  <2>1. e = EscapeEnd(u, j) /\ IsM(u, e - 1)
    BY <1>1, <1>2 DEF TokenEnd, Ended
  <2>2. EscapeTo(u, j, e)
    BY <2>1, EscapeEndIs
  <2>3. e \in j + 1 .. Len(u) + 1
    BY <2>2 DEF EscapeTo
  <2> HIDE DEF e
  <2>4. EscapeEnd(w, j) = e
    BY <2>1, <2>2, <2>3, KeptEscape
  <2> QED
    BY <1>1, <1>2, <2>4 DEF TokenEnd, e
<1>3. CASE w[j] = "col"
  <2> DEFINE c == ColorLength(w, j)
             n == Len(u)
             m == Len(w)
  <2>1. At(w, j) = "col" /\ DOMAIN w = 1 .. m
    BY <1>1, <1>3, SeqFacts DEF At
  <2>2. c = ColorSequence(w, j) /\ c \in Nat /\ \A d \in 1 .. c - 1 : At(w, j + d) \in {"0", ","}
    <3>0. c \in 1 .. 6
      BY <1>1, <2>1, ColorBytes
    <3>1. \A d \in 1 .. c - 1 : At(w, j + d) \in {"0", ","}
      BY <1>1, <2>1, ColorTail
    <3>2. c = ColorSequence(w, j)
      BY <1>1, <2>1, ColorSequenceIs
    <3>3. c \in Nat
      <4> HIDE DEF c
      <4> QED
        BY <3>0
    <3> QED
      BY <3>1, <3>2, <3>3, Zenon
  <2>3. TokenEnd(w, j) = j + c /\ j + c \in j + 1 .. m + 1
    BY <1>1, <1>3, <2>2, TokenEnds DEF TokenEnd
  <2>4. ~(n < m) \/ At(w, n + 1) \notin {"0", ","}
    <3>1. n < m => n + 1 \in 1 .. m
      BY <1>1
    <3>2. n < m => w[n + 1] \notin {"0", ","}
      BY Zenon DEF OtherBehind, n, m
    <3> QED
      BY <2>1, <3>1, <3>2, Zenon DEF At
  <2>a. n \in Nat /\ m \in Nat /\ n <= m /\ j \in 1 .. n
    BY <1>1, Zenon
  <2> HIDE DEF c, n, m
  <2>c. c \in Nat
    BY <2>2
  <2>5. j + c <= n + 1
    <3> SUFFICES ASSUME j + c > n + 1
                 PROVE  FALSE
      BY <2>a, <2>c
    <3>b. j + c \in j + 1 .. m + 1
      BY <2>3
    <3>1. n < m /\ n + 1 - j \in 1 .. c - 1 /\ j + (n + 1 - j) = n + 1
      BY <2>a, <2>c, <3>b
    <3>2. At(w, j + (n + 1 - j)) \in {"0", ","}
      BY <2>2, <3>1
    <3> QED
      BY <2>4, <3>1, <3>2
  <2>6. TokenEnd(w, j) <= Len(u) + 1
    BY <2>3, <2>5 DEF n
  <2> QED
    BY <1>3, <2>6, KeptToken DEF Ended
<1>4. CASE w[j] \notin {"esc", "col"}
  BY <1>1, <1>4 DEF TokenEnd
<1> QED
  BY <1>2, <1>3, <1>4

(* The tokens at the end of a text are those of the text.                   *)
LEMMA TokenBehind ==
  ASSUME NEW S, NEW v \in Seq(S), NEW w \in Seq(S), NEW a \in Nat, IsBack(v, w, a),
         NEW k \in 1 .. Len(v)
  PROVE  TokenEnd(w, a + k) = a + TokenEnd(v, k)
<1> DEFINE n == Len(v)
           m == Len(w)
           i == a + k
<1>1. n \in Nat /\ m = a + n /\ DOMAIN v = 1 .. n /\ DOMAIN w = 1 .. m /\ k \in 1 .. n
  BY SeqFacts DEF IsBack
<1>2. \A d \in 1 .. n : v[d] = w[a + d]
  BY DEF IsBack
<1>3. v[k] = w[i]
  BY <1>2
<1>4. i \in 1 .. m /\ i \in Nat /\ k \in Nat
  BY <1>1
<1>5. CASE v[k] = "esc"
  <2> DEFINE e == EscapeEnd(v, k)
  <2>1. EscapeTo(v, k, e)
    BY EscapeEndIs
  <2>2. /\ e \in k + 1 .. n + 1 /\ (\A d \in k .. e - 2 : ~IsM(v, d)) /\ (e <= n => IsM(v, e - 1))
    BY <2>1, Zenon DEF EscapeTo, n
  <2> HIDE DEF e, n, m, i
  <2>3. \A d \in 1 .. n : IsM(v, d) <=> IsM(w, a + d)
    BY <1>2 DEF IsM
  <2>4. /\ a + e \in i + 1 .. m + 1
        /\ a + e <= m => e <= n /\ e - 1 \in 1 .. n /\ a + (e - 1) = (a + e) - 1
        /\ \A d \in i .. (a + e) - 2 : d - a \in k .. e - 2 /\ d - a \in 1 .. n /\ a + (d - a) = d
    BY <1>1, <2>2 DEF i
  <2>5. a + e <= m => IsM(w, (a + e) - 1)
    BY <2>2, <2>3, <2>4, Zenon
  <2>6. ASSUME NEW d \in i .. (a + e) - 2
        PROVE  ~IsM(w, d)
    BY <2>2, <2>3, <2>4
  <2>7. EscapeTo(w, i, a + e)
    BY <2>4, <2>5, <2>6, Zenon DEF EscapeTo, m
  <2>8. a + e = EscapeEnd(w, i)
    BY <1>4, <2>7, EscapeEndIs DEF m
  <2> QED
    BY <1>3, <1>5, <2>8 DEF TokenEnd, e, i
<1>6. CASE v[k] = "col"
  <2> HIDE DEF n, m
  <2>1. ASSUME NEW d \in Nat
        PROVE  At(w, i + d) = At(v, k + d)
    <3>1. CASE k + d \in 1 .. n
      <4>1. i + d \in 1 .. m /\ i + d = a + (k + d)
        BY <1>1, <3>1
      <4> QED
        BY <1>1, <1>2, <3>1, <4>1 DEF At
    <3>2. CASE k + d \notin 1 .. n
      <4>1. i + d \notin 1 .. m
        BY <1>1, <3>2
      <4> QED
        BY <1>1, <3>2, <4>1 DEF At
    <3> QED
      BY <3>1, <3>2
  <2>2. At(v, k) = "col" /\ At(w, i) = "col"
    BY <1>1, <1>3, <1>4, <1>6 DEF At
  <2>a. \A d \in {1, 2, 3, 4, 5} : At(w, i + d) = At(v, k + d)
    BY <2>1
  <2> HIDE DEF i
  <2>3. ColorLength(v, k) = ColorLength(w, i)
    <3>1. \A d \in {1, 2, 3, 4, 5} : d < 6
      OBVIOUS
    <3>2. KeptBehind(v, k, w, i, 6)
      BY <2>a, <3>1, Zenon DEF KeptBehind
    <3>3. ColorLength(w, i) <= 6
      <4>1. ColorLength(w, i) \in 1 .. 6
        BY <1>4, <2>2, ColorBytes
      <4> QED
        BY <4>1
    <3> QED
      BY <1>4, <3>2, <3>3, SameColor
  <2>4. ColorSequence(v, k) = ColorSequence(w, i) /\ ColorSequence(v, k) \in Nat
    <3>a. ColorLength(v, k) \in 1 .. 6
      BY <1>4, <2>2, ColorBytes
    <3>1. ColorLength(v, k) \in Nat
      BY <3>a
    <3> QED
      BY <1>4, <2>2, <2>3, <3>1, ColorSequenceIs
  <2>5. TokenEnd(w, i) = i + ColorSequence(v, k) /\ TokenEnd(v, k) = k + ColorSequence(v, k)
    BY <1>3, <1>6, <2>4 DEF TokenEnd
  <2> DEFINE c == ColorSequence(v, k)
  <2>6. i + c = a + (k + c)
    <3>1. c \in Nat
      BY <2>4
    <3> HIDE DEF c
    <3> QED
      BY <1>4, <3>1 DEF i
  <2> QED
    BY <2>5, <2>6 DEF i
<1>7. CASE v[k] \notin {"esc", "col"}
  <2>1. TokenEnd(w, i) = i + 1 /\ TokenEnd(v, k) = k + 1
    BY <1>3, <1>7 DEF TokenEnd
  <2> QED
    BY <1>4, <2>1
<1> QED
  BY <1>5, <1>6, <1>7

(* The sequences that format from each place on, which make Formatting.     *)
Piece(t, i) ==
  IF t[i] \in {"esc", "col", "bold"} THEN <<SubSeq(t, i, TokenEnd(t, i) - 1)>> ELSE <<>>

FormattingFrom(t) ==
  CHOOSE from : from = [i \in 1 .. Len(t) + 1 |->
    IF i > Len(t) THEN <<>>
    ELSE (IF t[i] \in {"esc", "col", "bold"}
            THEN <<SubSeq(t, i, TokenEnd(t, i) - 1)>> ELSE <<>>)
         \o from[TokenEnd(t, i)]]

Joins(f, t, V) ==
  /\ f \in [1 .. Len(t) + 1 -> V]
  /\ \A i \in 1 .. Len(t) + 1 : f[i] = IF i > Len(t) THEN <<>> ELSE Piece(t, i) \o f[TokenEnd(t, i)]

(* What a token adds to the sequences that format is a text, or nothing.    *)
LEMMA PieceIs ==
  ASSUME NEW S, NEW t \in Seq(S), NEW i \in 1 .. Len(t)
  PROVE  Piece(t, i) \in Seq(Seq(S))
<1>1. TokenEnd(t, i) - 1 \in Int /\ TokenEnd(t, i) - 1 <= Len(t) /\ i \in Nat \ {0}
  <2>1. Len(t) \in Nat /\ TokenEnd(t, i) \in i + 1 .. Len(t) + 1
    BY SeqFacts, TokenEnds
  <2> QED
    BY <2>1
<1>2. SubSeq(t, i, TokenEnd(t, i) - 1) \in Seq(S)
  BY <1>1, PartOf
<1> DEFINE p == SubSeq(t, i, TokenEnd(t, i) - 1)
<1>3. <<p>> \in Seq(Seq(S)) /\ <<>> \in Seq(Seq(S))
  <2> HIDE DEF p
  <2>1. p \in Seq(S)
    BY <1>2 DEF p
  <2> QED
    BY <2>1
<1> QED
  BY <1>3, Zenon DEF Piece

(* Formatting goes from token to token.                                     *)
LEMMA FormattingIs ==
  ASSUME NEW S, NEW t \in Seq(S)
  PROVE  /\ Joins(FormattingFrom(t), t, Seq(Seq(S)))
         /\ Formatting(t) = FormattingFrom(t)[1]
<1> DEFINE n == Len(t)
           V == Seq(Seq(S))
           body(g) == [i \in 1 .. n + 1 |->
             IF i > n THEN <<>>
             ELSE (IF t[i] \in {"esc", "col", "bold"}
                     THEN <<SubSeq(t, i, TokenEnd(t, i) - 1)>> ELSE <<>>)
                  \o g[TokenEnd(t, i)]]
           steps == [i \in 1 .. n |-> [v \in V |-> Piece(t, i) \o v]]
<1>1. n \in Nat /\ n + 1 \in Nat /\ n <= n + 1 /\ Tokens(t) \in Forward(n, n + 1)
  BY SeqFacts, TokensForward
<1>2. \A i \in 1 .. n : Piece(t, i) \in V
  BY PieceIs
<1>3. steps \in Steps(n, V) /\ <<>> \in V
  <2>1. \A i \in 1 .. n : \A v \in V : Piece(t, i) \o v \in V
    BY <1>2, ConcatProperties
  <2> QED
    BY <2>1, EmptySeq DEF Steps
<1>4. PICK g : IsUnwound(g, n, n + 1, V, <<>>, Tokens(t), steps)
  <2> HIDE DEF n, V, steps
  <2> QED
    BY <1>1, <1>3, Unwinding
<1>5. ASSUME NEW i \in 1 .. n
      PROVE  /\ i \in 1 .. n + 1 /\ ~(i > n) /\ TokenEnd(t, i) \in 1 .. n + 1
             /\ TokenEnd(t, i) \in i + 1 .. n + 1
  <2>1. TokenEnd(t, i) \in i + 1 .. n + 1
    BY TokenEnds
  <2> QED
    BY <1>1, <2>1
<1>6. /\ g \in [1 .. n + 1 -> V]
      /\ \A i \in 1 .. n + 1 : i > n => g[i] = <<>>
      /\ \A i \in 1 .. n : g[i] = Piece(t, i) \o g[TokenEnd(t, i)]
  <2>1. g \in [1 .. n + 1 -> V]
    BY <1>4 DEF IsUnwound
  <2>2. \A i \in 1 .. n + 1 : i > n => g[i] = <<>>
    BY <1>4 DEF IsUnwound
  <2>3. ASSUME NEW i \in 1 .. n
        PROVE  g[i] = Piece(t, i) \o g[TokenEnd(t, i)]
    <3>1. g[i] = steps[i][g[Tokens(t)[i]]]
      BY <1>4, <1>5, Zenon DEF IsUnwound
    <3>2. Tokens(t)[i] = TokenEnd(t, i)
      BY DEF Tokens
    <3>3. g[TokenEnd(t, i)] \in V
      BY <1>5, <2>1
    <3> QED
      BY <3>1, <3>2, <3>3
  <2> QED
    BY <2>1, <2>2, <2>3
<1>7. \A i \in 1 .. n + 1 : i \in 1 .. n \/ i > n
  BY <1>1
<1>8. g = body(g)
  <2>1. ASSUME NEW i \in 1 .. n + 1
        PROVE  g[i] = body(g)[i]
    BY <1>5, <1>6, <1>7 DEF Piece
  <2>2. g = [i \in 1 .. n + 1 |-> g[i]]
    BY <1>6
  <2> QED
    BY <2>1, <2>2
<1>9. FormattingFrom(t) = body(FormattingFrom(t))
  BY <1>8, Zenon DEF FormattingFrom
<1> DEFINE f == FormattingFrom(t)
           T == {i \in 1 .. n + 1 : f[i] = g[i]}
<1> HIDE DEF f
<1>10. /\ f = [i \in 1 .. n + 1 |-> f[i]]
       /\ \A i \in 1 .. n + 1 : i > n => f[i] = <<>>
       /\ \A i \in 1 .. n : f[i] = Piece(t, i) \o f[TokenEnd(t, i)]
  <2>1. f = body(f)
    BY <1>9 DEF f
  <2>2. ASSUME NEW i \in 1 .. n
        PROVE  f[i] = Piece(t, i) \o f[TokenEnd(t, i)]
    BY <1>5, <2>1 DEF Piece
  <2> QED
    BY <2>1, <2>2
<1>11. ASSUME NEW i \in 1 .. n + 1, \A j \in i + 1 .. n + 1 : j \in T
       PROVE  i \in T
  <2>1. CASE i > n
    BY <1>6, <1>10, <2>1
  <2>2. CASE i \in 1 .. n
    <3>1. f[TokenEnd(t, i)] = g[TokenEnd(t, i)]
      BY <1>5, <1>11, <2>2
    <3> QED
      BY <1>6, <1>10, <2>2, <3>1
  <2> QED
    BY <1>7, <2>1, <2>2
<1>12. 1 .. n + 1 \subseteq T
  <2> HIDE DEF T, n
  <2> QED
    BY <1>1, <1>11, FromTheEnd
<1>13. f = g
  BY <1>6, <1>10, <1>12
<1>14. Joins(f, t, V)
  <2>1. \A i \in 1 .. n + 1 : g[i] = IF i > n THEN <<>> ELSE Piece(t, i) \o g[TokenEnd(t, i)]
    BY <1>6, <1>7
  <2> QED
    BY <1>6, <1>13, <2>1 DEF Joins
<1>15. Formatting(t) = FormattingFrom(t)[1]
  BY Zenon DEF Formatting, FormattingFrom
<1> QED
  BY <1>14, <1>15 DEF f

-----------------------------------------------------------------------------
(* A text in two parts, of which no token stands in both: what the parts show *)
(* and how they format is together what the text does.                      *)
Show(t, i) == IF PrintableUnsigned(t[i]) THEN 1 ELSE 0

(* What shows from a token on: what its first byte shows, and what shows    *)
(* behind it.                                                               *)
LEMMA VisibleSteps ==
  ASSUME NEW S, NEW t \in Seq(S)
  PROVE  /\ VisibleFrom(t) \in [1 .. Len(t) + 1 -> Nat]
         /\ VisibleFrom(t)[Len(t) + 1] = 0
         /\ \A i \in 1 .. Len(t) : VisibleFrom(t)[i] = Show(t, i) + VisibleFrom(t)[TokenEnd(t, i)]
         /\ Visible(t) = VisibleFrom(t)[1]
<1> DEFINE f == VisibleFrom(t)
           n == Len(t)
<1>1. Visible(t) = f[1]
  BY Zenon DEF Visible, VisibleFrom
<1>2. IsSum(f, n, n + 1, Tokens(t), Shows(t))
  BY VisibleIs
<1>3. n \in Nat
  BY SeqFacts
<1> HIDE DEF f
<1>4. f \in [1 .. n + 1 -> Nat]
  BY <1>2 DEF IsSum
<1>5. f[n + 1] = 0
  <2>1. n + 1 \in 1 .. n + 1 /\ n + 1 > n
    BY <1>3
  <2> QED
    BY <1>2, <2>1, Zenon DEF IsSum
<1>6. ASSUME NEW i \in 1 .. n
      PROVE  f[i] = Show(t, i) + f[TokenEnd(t, i)]
  <2>1. i \in 1 .. n + 1 /\ ~(i > n)
    BY <1>3
  <2>2. f[i] = Shows(t)[i] + f[Tokens(t)[i]]
    BY <1>2, <2>1, Zenon DEF IsSum
  <2> QED
    BY <2>2 DEF Shows, Tokens, Show
<1> QED
  BY <1>1, <1>4, <1>5, <1>6 DEF f

(* How a text formats from a token on: by that token and by those behind it.*)
LEMMA FormattingSteps ==
  ASSUME NEW S, NEW t \in Seq(S)
  PROVE  /\ FormattingFrom(t) \in [1 .. Len(t) + 1 -> Seq(Seq(S))]
         /\ FormattingFrom(t)[Len(t) + 1] = <<>>
         /\ \A i \in 1 .. Len(t) :
              FormattingFrom(t)[i] = Piece(t, i) \o FormattingFrom(t)[TokenEnd(t, i)]
         /\ Formatting(t) = FormattingFrom(t)[1]
<1> DEFINE f == FormattingFrom(t)
           n == Len(t)
<1>1. Joins(f, t, Seq(Seq(S))) /\ Formatting(t) = f[1]
  BY FormattingIs
<1>2. n \in Nat
  BY SeqFacts
<1>3. n + 1 \in 1 .. n + 1 /\ n + 1 > n /\ \A i \in 1 .. n : i \in 1 .. n + 1 /\ ~(i > n)
  BY <1>2
<1> HIDE DEF f
<1>4. f \in [1 .. n + 1 -> Seq(Seq(S))]
  BY <1>1, Zenon DEF Joins
<1>5. f[n + 1] = <<>>
  BY <1>1, <1>3, Zenon DEF Joins
<1>6. \A i \in 1 .. n : f[i] = Piece(t, i) \o f[TokenEnd(t, i)]
  BY <1>1, <1>3, Zenon DEF Joins
<1> QED
  BY <1>1, <1>4, <1>5, <1>6 DEF f

(* The front's token at j, the back's at k are the text's.                  *)
SameFront(u, w, j) ==
  /\ TokenEnd(w, j) = TokenEnd(u, j) /\ TokenEnd(u, j) \in j + 1 .. Len(u) + 1
  /\ Show(w, j) = Show(u, j) /\ Piece(w, j) = Piece(u, j)
SameBack(v, w, a, k) ==
  /\ TokenEnd(w, a + k) = a + TokenEnd(v, k) /\ TokenEnd(v, k) \in k + 1 .. Len(v) + 1
  /\ Show(w, a + k) = Show(v, k) /\ Piece(w, a + k) = Piece(v, k)

(* Where a token of the front is one of the text, it shows and formats alike.*)
LEMMA FrontTokens ==
  ASSUME NEW S, NEW u \in Seq(S), NEW w \in Seq(S), IsFront(u, w), NEW j \in 1 .. Len(u),
         TokenEnd(u, j) = TokenEnd(w, j)
  PROVE  SameFront(u, w, j)
<1> DEFINE e == TokenEnd(u, j)
           n == e - 1
<1>1. u[j] = w[j] /\ Len(u) \in Nat /\ Len(w) \in Nat /\ Len(u) <= Len(w)
  BY SeqFacts DEF IsFront
<1>2. e \in j + 1 .. Len(u) + 1
  BY TokenEnds
<1>3. Show(w, j) = Show(u, j)
  BY <1>1 DEF Show
<1>4. SubSeq(w, j, n) = SubSeq(u, j, n)
  <2> HIDE DEF e
  <2>1. /\ j \in Nat \ {0} /\ n \in Int /\ n <= Len(u) /\ 0 + n <= Len(w) /\ 0 \in Nat
        /\ 0 + j = j /\ 0 + n = n
        /\ \A i \in j .. n : i \in 1 .. Len(u) /\ 0 + i = i
    BY <1>1, <1>2
  <2> HIDE DEF n
  <2>2. Agree(u, w, 0, j, n)
    BY <2>1 DEF IsFront, Agree
  <2>3. SubSeq(w, 0 + j, 0 + n) = SubSeq(u, j, n)
    BY <2>1, <2>2, SamePart
  <2> QED
    BY <2>1, <2>3
<1>5. Piece(w, j) = Piece(u, j)
  <2>1. TokenEnd(w, j) - 1 = n
    BY Zenon
  <2> QED
    BY <1>1, <1>4, <2>1, Zenon DEF Piece
<1> QED
  BY <1>2, <1>3, <1>5 DEF SameFront

(* The tokens of the back all are tokens of the text.                       *)
LEMMA BackTokens ==
  ASSUME NEW S, NEW v \in Seq(S), NEW w \in Seq(S), NEW a \in Nat, IsBack(v, w, a),
         NEW k \in 1 .. Len(v)
  PROVE  SameBack(v, w, a, k)
<1> DEFINE e == TokenEnd(v, k)
           n == e - 1
<1>1. v[k] = w[a + k] /\ Len(v) \in Nat /\ Len(w) = a + Len(v)
  BY SeqFacts DEF IsBack
<1>2. e \in k + 1 .. Len(v) + 1 /\ TokenEnd(w, a + k) = a + e
  BY TokenEnds, TokenBehind
<1>3. Show(w, a + k) = Show(v, k)
  BY <1>1 DEF Show
<1>4. SubSeq(w, a + k, a + n) = SubSeq(v, k, n)
  <2> HIDE DEF e
  <2>1. /\ k \in Nat \ {0} /\ n \in Int /\ n <= Len(v) /\ a + n <= Len(w)
        /\ \A i \in k .. n : i \in 1 .. Len(v)
    BY <1>1, <1>2
  <2> HIDE DEF n
  <2>2. Agree(v, w, a, k, n)
    BY <2>1 DEF IsBack, Agree
  <2> QED
    BY <2>1, <2>2, SamePart
<1>5. Piece(w, a + k) = Piece(v, k)
  <2>1. TokenEnd(w, a + k) - 1 = a + n
    <3> HIDE DEF e
    <3>1. (a + e) - 1 = a + n
      BY <1>2
    <3> QED
      BY <1>2, <3>1
  <2> QED
    BY <1>1, <1>4, <2>1, Zenon DEF Piece
<1> QED
  BY <1>2, <1>3, <1>5 DEF SameBack

(* Three sequences are joined the same from either side.                    *)
Associate(p, q, r) == (p \o q) \o r = p \o (q \o r)

LEMMA Associates ==
  ASSUME NEW W, NEW p \in Seq(W), NEW q \in Seq(W), NEW r \in Seq(W)
  PROVE  Associate(p, q, r)
BY ConcatAssociative DEF Associate

(* So a text shows and formats as its front and then its back do.           *)
LEMMA Apart ==
  ASSUME NEW S, NEW u \in Seq(S), NEW v \in Seq(S), NEW w \in Seq(S),
         IsFront(u, w), IsBack(v, w, Len(u)),
         \A j \in 1 .. Len(u) : TokenEnd(u, j) = TokenEnd(w, j)
  PROVE  Visible(w) = Visible(u) + Visible(v) /\ Formatting(w) = Formatting(u) \o Formatting(v)
<1> DEFINE a == Len(u)
           b == Len(v)
           n == Len(w)
           fu == VisibleFrom(u)
           fv == VisibleFrom(v)
           fw == VisibleFrom(w)
           gu == FormattingFrom(u)
           gv == FormattingFrom(v)
           gw == FormattingFrom(w)
           W == Seq(S)
           V == Seq(W)
<1>1. a \in Nat /\ b \in Nat /\ n = a + b
  BY SeqFacts DEF IsBack
<1>2. \A j \in 1 .. a : SameFront(u, w, j) /\ Piece(u, j) \in V
  BY FrontTokens, PieceIs
<1>3. \A k \in 1 .. b : SameBack(v, w, a, k)
  BY <1>1, BackTokens
<1>4. /\ fu \in [1 .. a + 1 -> Nat] /\ fu[a + 1] = 0
      /\ \A i \in 1 .. a : fu[i] = Show(u, i) + fu[TokenEnd(u, i)]
  BY VisibleSteps
<1>5. /\ fv \in [1 .. b + 1 -> Nat] /\ fv[b + 1] = 0
      /\ \A i \in 1 .. b : fv[i] = Show(v, i) + fv[TokenEnd(v, i)]
  BY VisibleSteps
<1>6. /\ fw \in [1 .. n + 1 -> Nat] /\ fw[n + 1] = 0
      /\ \A i \in 1 .. n : fw[i] = Show(w, i) + fw[TokenEnd(w, i)]
  BY VisibleSteps
<1>7. /\ gu \in [1 .. a + 1 -> V] /\ gu[a + 1] = <<>>
      /\ \A i \in 1 .. a : gu[i] = Piece(u, i) \o gu[TokenEnd(u, i)]
  BY FormattingSteps
<1>8. /\ gv \in [1 .. b + 1 -> V] /\ gv[b + 1] = <<>>
      /\ \A i \in 1 .. b : gv[i] = Piece(v, i) \o gv[TokenEnd(v, i)]
  BY FormattingSteps
<1>9. /\ gw[n + 1] = <<>>
      /\ \A i \in 1 .. n : gw[i] = Piece(w, i) \o gw[TokenEnd(w, i)]
  BY FormattingSteps
<1>10. /\ Visible(u) = fu[1] /\ Visible(v) = fv[1] /\ Visible(w) = fw[1]
       /\ Formatting(u) = gu[1] /\ Formatting(v) = gv[1] /\ Formatting(w) = gw[1]
  BY VisibleSteps, FormattingSteps
<1> DEFINE T == {k \in 1 .. b + 1 : fw[a + k] = fv[k] /\ gw[a + k] = gv[k]}
           R == {j \in 1 .. a + 1 : fw[j] = fu[j] + fv[1] /\ gw[j] = gu[j] \o gv[1]}
<1> HIDE DEF a, b, n, fu, fv, fw, gu, gv, gw, V, W
<1>11. ASSUME NEW k \in 1 .. b + 1, \A j \in k + 1 .. b + 1 : j \in T
       PROVE  k \in T
  <2>1. CASE k = b + 1
    <3>1. a + k = n + 1
      BY <1>1, <2>1
    <3> QED
      BY <1>5, <1>6, <1>8, <1>9, <2>1, <3>1, Zenon DEF T
  <2>2. CASE k # b + 1
    <3>1. k \in 1 .. b /\ a + k \in 1 .. n
      BY <1>1, <2>2
    <3>2. SameBack(v, w, a, k)
      BY <1>3, <3>1
    <3>3. TokenEnd(v, k) \in k + 1 .. b + 1
      BY <3>2, Zenon DEF SameBack, b
    <3>4. TokenEnd(v, k) \in T
      BY <1>11, <3>3
    <3>5. fw[a + k] = fv[k]
      <4>1. fw[a + k] = Show(w, a + k) + fw[TokenEnd(w, a + k)]
        BY <1>6, <3>1, Zenon
      <4>2. fv[k] = Show(v, k) + fv[TokenEnd(v, k)]
        BY <1>5, <3>1, Zenon
      <4> QED
        BY <3>2, <3>4, <4>1, <4>2, Zenon DEF SameBack, T
    <3>6. gw[a + k] = gv[k]
      <4>1. gw[a + k] = Piece(w, a + k) \o gw[TokenEnd(w, a + k)]
        BY <1>9, <3>1, Zenon
      <4>2. gv[k] = Piece(v, k) \o gv[TokenEnd(v, k)]
        BY <1>8, <3>1, Zenon
      <4> QED
        BY <3>2, <3>4, <4>1, <4>2, Zenon DEF SameBack, T
    <3> QED
      BY <3>5, <3>6, Zenon DEF T
  <2> QED
    BY <2>1, <2>2
<1>12. 1 .. b + 1 \subseteq T
  <2>1. b + 1 \in Nat
    BY <1>1
  <2> HIDE DEF T
  <2> QED
    BY <1>11, <2>1, FromTheEnd
<1>13. fw[a + 1] = fv[1] /\ gw[a + 1] = gv[1]
  <2>1. 1 \in 1 .. b + 1
    BY <1>1
  <2> QED
    BY <1>12, <2>1
<1>14. fv[1] \in Nat /\ gv[1] \in V
  <2>1. 1 \in 1 .. b + 1
    BY <1>1
  <2> QED
    BY <1>5, <1>8, <2>1
<1>15. ASSUME NEW k \in 1 .. a + 1, \A j \in k + 1 .. a + 1 : j \in R
       PROVE  k \in R
  <2>1. CASE k = a + 1
    <3>1. 0 + fv[1] = fv[1]
      BY <1>14
    <3>2. <<>> \o gv[1] = gv[1]
      BY <1>14, ConcatEmptySeq DEF V
    <3> QED
      BY <1>4, <1>7, <1>13, <2>1, <3>1, <3>2, Zenon DEF R
  <2>2. CASE k # a + 1
    <3> DEFINE e == TokenEnd(u, k)
    <3>1. k \in 1 .. a /\ k \in 1 .. n
      BY <1>1, <2>2
    <3>2. SameFront(u, w, k) /\ Piece(u, k) \in V
      BY <1>2, <3>1
    <3>3. e \in k + 1 .. a + 1
      BY <3>2, Zenon DEF SameFront, a
    <3>4. e \in R /\ e \in 1 .. a + 1
      BY <1>15, <3>3
    <3>5. Show(u, k) \in Nat /\ fu[e] \in Nat /\ gu[e] \in V
      <4>1. Show(u, k) \in Nat
        BY DEF Show
      <4> HIDE DEF e
      <4> QED
        BY <1>4, <1>7, <3>4, <4>1
    <3>6. fw[k] = Show(u, k) + fw[e] /\ gw[k] = Piece(u, k) \o gw[e]
      BY <1>6, <1>9, <3>1, <3>2, Zenon DEF SameFront
    <3>7. fu[k] = Show(u, k) + fu[e] /\ gu[k] = Piece(u, k) \o gu[e]
      BY <1>4, <1>7, <3>1, Zenon
    <3>8. fw[e] = fu[e] + fv[1] /\ gw[e] = gu[e] \o gv[1]
      BY <3>4
    <3> DEFINE x == Show(u, k)
               y == fu[e]
               z == fv[1]
               p == Piece(u, k)
               q == gu[e]
               r == gv[1]
    <3>9. x + (y + z) = (x + y) + z
      <4>1. x \in Nat /\ y \in Nat /\ z \in Nat
        BY <1>14, <3>5
      <4> HIDE DEF x, y, z
      <4> QED
        BY <4>1
    <3>10. p \o (q \o r) = (p \o q) \o r
      <4>1. p \in V /\ q \in V /\ r \in V
        BY <1>14, <3>2, <3>5
      <4> HIDE DEF p, q, r
      <4>2. p \in Seq(W) /\ q \in Seq(W) /\ r \in Seq(W)
        BY <4>1 DEF V
      <4>3. Associate(p, q, r)
        BY <4>2, Associates
      <4> QED
        BY <4>3, Zenon DEF Associate
    <3> QED
      BY <3>6, <3>7, <3>8, <3>9, <3>10, Zenon DEF R
  <2> QED
    BY <2>1, <2>2
<1>16. 1 .. a + 1 \subseteq R
  <2>1. a + 1 \in Nat
    BY <1>1
  <2> HIDE DEF R
  <2> QED
    BY <1>15, <2>1, FromTheEnd
<1>17. 1 \in R
  <2>1. 1 \in 1 .. a + 1
    BY <1>1
  <2> QED
    BY <1>16, <2>1
<1> QED
  BY <1>10, <1>17, Zenon DEF R

-----------------------------------------------------------------------------
(* The tokens of a text whose escape sequences end.                         *)
Terminated(t) == \A j \in 1 .. Len(t) : Ended(t, j)
Uncut(t, i) == \A j \in 1 .. i - 1 : TokenEnd(t, j) <= i
TokenAt(t, i) == SubSeq(t, i, TokenEnd(t, i) - 1)

(* In a well-formed text all escape sequences have their end.               *)
LEMMA WellFormedEnds ==
  ASSUME NEW S, NEW t \in Seq(S), WellFormed(t)
  PROVE  Terminated(t)
<1> SUFFICES ASSUME NEW j \in 1 .. Len(t), t[j] = "esc"
             PROVE  IsM(t, TokenEnd(t, j) - 1)
  BY DEF Terminated, Ended
<1>1. t[EscapeEnd(t, j) - 1] = "m"
  BY SeqFacts, Zenon DEF WellFormed
<1>2. TokenEnd(t, j) = EscapeEnd(t, j)
  BY DEF TokenEnd
<1> QED
  BY <1>1, <1>2, Zenon DEF IsM

(* No token begins inside another that is longer than a byte.               *)
LEMMA Inside ==
  ASSUME NEW S, NEW t \in Seq(S), WellFormed(t), NEW i \in 1 .. Len(t),
         NEW k \in i + 1 .. TokenEnd(t, i) - 1
  PROVE  t[k] \notin {"esc", "col"} /\ TokenEnd(t, k) = k + 1
<1>1. Len(t) \in Nat /\ DOMAIN t = 1 .. Len(t) /\ i \in Nat
  BY SeqFacts
<1>2. TokenEnd(t, i) \in i + 1 .. Len(t) + 1
  BY TokenEnds
<1>3. t[k] \notin {"esc", "col"}
  <2>1. CASE t[i] = "esc"
    <3>1. TokenEnd(t, i) = EscapeEnd(t, i)
      BY <2>1 DEF TokenEnd
    <3>2. Printable(t[k])
      BY <1>1, <2>1, <3>1, Zenon DEF WellFormed
    <3> QED
      BY <3>2 DEF Printable
  <2>2. CASE t[i] = "col"
    <3> DEFINE c == ColorLength(t, i)
    <3>1. At(t, i) = "col"
      BY <1>1, <2>2 DEF At
    <3>2. TokenEnd(t, i) = i + c
      BY <1>1, <2>2, <3>1, ColorSequenceIs DEF TokenEnd
    <3>3. \A d \in 1 .. c - 1 : At(t, i + d) \in {"0", ","}
      BY <1>1, <3>1, ColorTail
    <3>4. c \in 1 .. 6
      BY <1>1, <3>1, ColorBytes
    <3> HIDE DEF c
    <3>5. k - i \in 1 .. c - 1 /\ i + (k - i) = k /\ k \in 1 .. Len(t)
      BY <1>1, <1>2, <3>2, <3>4
    <3>6. At(t, k) \in {"0", ","}
      BY <3>3, <3>5
    <3> QED
      BY <1>1, <3>5, <3>6 DEF At
  <2>3. CASE t[i] \notin {"esc", "col"}
    <3>1. TokenEnd(t, i) = i + 1
      BY <2>3 DEF TokenEnd
    <3>2. FALSE
      BY <1>1, <3>1
    <3> QED
      BY <3>2
  <2> QED
    BY <2>1, <2>2, <2>3
<1>4. TokenEnd(t, k) = k + 1
  BY <1>3 DEF TokenEnd
<1> QED
  BY <1>3, <1>4

(* Behind a token no token is cut, if none is in front of it.               *)
LEMMA UncutNext ==
  ASSUME NEW S, NEW t \in Seq(S), WellFormed(t), NEW i \in 1 .. Len(t), Uncut(t, i)
  PROVE  Uncut(t, TokenEnd(t, i))
<1> DEFINE e == TokenEnd(t, i)
<1>1. Len(t) \in Nat /\ e \in i + 1 .. Len(t) + 1
  BY SeqFacts, TokenEnds
<1>2. ASSUME NEW j \in 1 .. e - 1
      PROVE  TokenEnd(t, j) <= e
  <2>1. CASE j = i
    <3>1. e <= e
      BY <1>1
    <3> QED
      BY <2>1, <3>1
  <2>2. CASE j < i
    <3>1. j \in 1 .. i - 1 /\ j \in 1 .. Len(t)
      BY <1>1, <2>2
    <3>2. TokenEnd(t, j) <= i /\ TokenEnd(t, j) \in j + 1 .. Len(t) + 1
      BY <3>1, TokenEnds DEF Uncut
    <3> DEFINE x == TokenEnd(t, j)
    <3>3. x <= i /\ x \in Int
      BY <1>1, <3>2
    <3> HIDE DEF e, x
    <3>4. x <= e
      BY <1>1, <3>3
    <3> QED
      BY <3>4 DEF x
  <2>3. CASE i < j
    <3>1. j \in i + 1 .. e - 1
      BY <1>1, <2>3
    <3>2. TokenEnd(t, j) = j + 1
      BY <3>1, Inside
    <3> HIDE DEF e
    <3> QED
      BY <1>1, <3>1, <3>2
  <2> QED
    BY <1>1, <2>1, <2>2, <2>3
<1> QED
  BY <1>2 DEF Uncut

(* The bytes of a token, which ends no other token.                         *)
LEMMA TokenBytes ==
  ASSUME NEW S, NEW t \in Seq(S), NEW i \in 1 .. Len(t)
  PROVE  /\ TokenAt(t, i) \in Seq(S) /\ Len(TokenAt(t, i)) = TokenEnd(t, i) - i
         /\ \A k \in 1 .. TokenEnd(t, i) - i : TokenAt(t, i)[k] = t[(i - 1) + k]
<1> DEFINE n == TokenEnd(t, i) - 1
           u == SubSeq(t, i, n)
<1>1. Len(t) \in Nat /\ TokenEnd(t, i) \in i + 1 .. Len(t) + 1
  BY SeqFacts, TokenEnds
<1>2. i \in Nat \ {0} /\ n \in Int /\ n <= Len(t) /\ i <= n /\ n - i + 1 = TokenEnd(t, i) - i
  BY <1>1
<1>3. u \in Seq(S) /\ Len(u) = (IF i <= n THEN n - i + 1 ELSE 0)
      /\ \A k \in 1 .. n - i + 1 : u[k] = t[i + k - 1]
  <2> HIDE DEF n
  <2> QED
    BY <1>2, PartOf
<1> HIDE DEF u
<1>4. u \in Seq(S) /\ Len(u) = TokenEnd(t, i) - i
  BY <1>2, <1>3
<1>5. ASSUME NEW k \in 1 .. TokenEnd(t, i) - i
      PROVE  u[k] = t[(i - 1) + k]
  <2>1. k \in 1 .. n - i + 1 /\ i + k - 1 = (i - 1) + k
    BY <1>1
  <2> HIDE DEF n
  <2> QED
    BY <1>3, <2>1
<1> QED
  BY <1>4, <1>5 DEF TokenAt, u

(* A token alone is a text of this token.                                   *)
LEMMA TokenAlone ==
  ASSUME NEW S, NEW t \in Seq(S), WellFormed(t), NEW i \in 1 .. Len(t)
  PROVE  /\ TokenEnd(TokenAt(t, i), 1) = Len(TokenAt(t, i)) + 1
         /\ Terminated(TokenAt(t, i))
<1> DEFINE e == TokenEnd(t, i)
           a == i - 1
           n == Len(t)
           u == TokenAt(t, i)
           v == Back(t, a)
<1>1. n \in Nat /\ e \in i + 1 .. n + 1 /\ i \in 1 .. n
  BY SeqFacts, TokenEnds
<1>2. a \in 0 .. n /\ a \in Nat /\ a + 1 = i
  BY <1>1
<1>3. u \in Seq(S) /\ Len(u) = e - i /\ \A k \in 1 .. e - i : u[k] = t[a + k]
  BY TokenBytes
<1>4. v \in Seq(S) /\ Len(v) = n - a /\ \A k \in 1 .. n - a : v[k] = t[a + k]
  <2> HIDE DEF a
  <2> QED
    BY <1>2, BackIs
<1>5. Terminated(t)
  BY WellFormedEnds
<1>6. \A k \in i + 1 .. e - 1 : t[k] \notin {"esc", "col"}
  BY Inside
<1> HIDE DEF u, v, a, e, n
<1>7. IsBack(v, t, a)
  <2>1. n = a + (n - a)
    BY <1>1, <1>2
  <2> QED
    BY <1>4, <2>1, Zenon DEF IsBack, n
<1>8. IsFront(u, v)
  <2>1. e - i <= n - a /\ \A k \in 1 .. e - i : k \in 1 .. n - a
    BY <1>1, <1>2
  <2> QED
    BY <1>3, <1>4, <2>1, Zenon DEF IsFront
<1>9. 1 \in 1 .. Len(u) /\ 1 \in 1 .. Len(v) /\ Len(u) \in Nat
  BY <1>1, <1>2, <1>3, <1>4
<1>10. e = a + TokenEnd(v, 1)
  <2>1. TokenEnd(t, a + 1) = a + TokenEnd(v, 1)
    BY <1>2, <1>4, <1>7, <1>9, TokenBehind
  <2> QED
    BY <1>2, <2>1, Zenon DEF e
<1>11. TokenEnd(v, 1) = Len(u) + 1
  <2>1. TokenEnd(v, 1) \in 1 + 1 .. Len(v) + 1
    BY <1>4, <1>9, TokenEnds
  <2> DEFINE x == TokenEnd(v, 1)
  <2>2. x \in Int
    BY <1>1, <1>2, <1>4, <2>1
  <2> HIDE DEF x
  <2>3. e = a + x
    BY <1>10 DEF x
  <2>4. x = (e - i) + 1
    BY <1>1, <1>2, <2>2, <2>3
  <2> QED
    BY <1>3, <2>4 DEF x
<1>12. u[1] = t[i] /\ v[1] = t[i]
  <2>1. 1 \in 1 .. e - i /\ 1 \in 1 .. n - a
    BY <1>1, <1>2
  <2> QED
    BY <1>2, <1>3, <1>4, <2>1, Zenon
<1>13. t[i] = "esc" => IsM(t, e - 1)
  BY <1>1, <1>5 DEF Terminated, Ended, e, n
<1>14. /\ Len(u) \in 1 .. e - i /\ Len(u) \in 1 .. n - a /\ a + Len(u) = e - 1
  BY <1>1, <1>2, <1>3
<1>15. u[Len(u)] = t[e - 1] /\ v[Len(u)] = t[e - 1]
  BY <1>3, <1>4, <1>14, Zenon
<1>16. (Len(u) + 1) - 1 = Len(u) /\ Len(u) + 1 <= Len(u) + 1
  BY <1>9
<1>17. Ended(v, 1)
  BY <1>11, <1>12, <1>13, <1>15, <1>16, Zenon DEF Ended, IsM
<1>18. TokenEnd(u, 1) = TokenEnd(v, 1)
  BY <1>3, <1>4, <1>8, <1>9, <1>11, <1>16, <1>17, KeptToken
<1>19. ASSUME NEW j \in 1 .. Len(u)
       PROVE  Ended(u, j)
  <2>1. CASE j = 1
    BY <1>11, <1>12, <1>13, <1>15, <1>16, <1>18, <2>1, Zenon DEF Ended, IsM
  <2>2. CASE j # 1
    <3>1. j \in 1 .. e - i /\ a + j \in i + 1 .. e - 1
      BY <1>1, <1>2, <1>3, <2>2
    <3>2. u[j] # "esc"
      BY <1>3, <1>6, <3>1
    <3> QED
      BY <3>2 DEF Ended
  <2> QED
    BY <2>1, <2>2
<1> QED
  BY <1>11, <1>18, <1>19 DEF Terminated, u

(* A token alone shows and formats as it does in the text.                  *)
LEMMA TokenReads ==
  ASSUME NEW S, NEW t \in Seq(S), WellFormed(t), NEW i \in 1 .. Len(t)
  PROVE  /\ Visible(TokenAt(t, i)) = Show(t, i)
         /\ Formatting(TokenAt(t, i)) = Piece(t, i)
<1> DEFINE u == TokenAt(t, i)
           n == Len(u)
           f == VisibleFrom(u)
           g == FormattingFrom(u)
           e == TokenEnd(t, i)
<1>1. u \in Seq(S) /\ n = e - i /\ \A k \in 1 .. e - i : u[k] = t[(i - 1) + k]
  BY TokenBytes
<1>2. TokenEnd(u, 1) = n + 1
  BY TokenAlone
<1>3. e \in i + 1 .. Len(t) + 1 /\ Len(t) \in Nat
  BY SeqFacts, TokenEnds
<1>4. Piece(t, i) = IF t[i] \in {"esc", "col", "bold"} THEN <<u>> ELSE <<>>
  BY DEF Piece, TokenAt
<1>a. Piece(t, i) \in Seq(Seq(S))
  BY PieceIs
<1> HIDE DEF u, e
<1>5. /\ f[n + 1] = 0 /\ Visible(u) = f[1]
      /\ \A j \in 1 .. n : f[j] = Show(u, j) + f[TokenEnd(u, j)]
  BY <1>1, VisibleSteps
<1>6. /\ g[n + 1] = <<>> /\ Formatting(u) = g[1]
      /\ \A j \in 1 .. n : g[j] = Piece(u, j) \o g[TokenEnd(u, j)]
  BY <1>1, FormattingSteps
<1> HIDE DEF f, g, n
<1>7. 1 \in 1 .. n /\ 1 \in 1 .. e - i /\ (i - 1) + 1 = i /\ (n + 1) - 1 = n /\ n \in Nat
  BY <1>1, <1>3
<1>8. u[1] = t[i]
  BY <1>1, <1>7, Zenon
<1>9. Show(u, 1) = Show(t, i) /\ Show(t, i) \in Nat
  BY <1>8 DEF Show
<1>10. Piece(u, 1) = Piece(t, i)
  <2>1. SubSeq(u, 1, n) = u
    BY <1>1, SubSeqFull DEF n
  <2> QED
    BY <1>2, <1>4, <1>7, <1>8, <2>1, Zenon DEF Piece
<1>11. Visible(u) = Show(t, i) + 0
  BY <1>2, <1>5, <1>7, <1>9, Zenon
<1>12. Formatting(u) = Piece(t, i) \o <<>>
  BY <1>2, <1>6, <1>7, <1>10, Zenon
<1>13. Show(t, i) + 0 = Show(t, i)
  BY <1>9
<1>14. Piece(t, i) \o <<>> = Piece(t, i)
  BY <1>a, ConcatEmptySeq
<1> QED
  BY <1>11, <1>12, <1>13, <1>14, Zenon DEF u

(* Where no token is cut, the front's tokens are the text's.                *)
LEMMA FrontTokenEnds ==
  ASSUME NEW S, NEW t \in Seq(S), WellFormed(t), NEW a \in 0 .. Len(t), Uncut(t, a + 1)
  PROVE  \A j \in 1 .. a : TokenEnd(Front(t, a), j) = TokenEnd(t, j)
<1> DEFINE u == Front(t, a)
           n == Len(t)
<1>1. u \in Seq(S) /\ Len(u) = a /\ \A k \in 1 .. a : u[k] = t[k]
  BY FrontIs
<1>2. n \in Nat /\ a \in 0 .. n /\ (a + 1) - 1 = a
  BY SeqFacts
<1>3. Terminated(t)
  BY WellFormedEnds
<1> HIDE DEF u, n
<1>4. a <= n /\ \A j \in 1 .. a : j \in 1 .. n
  BY <1>2
<1>5. IsFront(u, t)
  BY <1>1, <1>4 DEF IsFront, n
<1>6. \A j \in 1 .. a : TokenEnd(t, j) <= Len(u) + 1
  BY <1>1, <1>2, Zenon DEF Uncut
<1>7. \A j \in 1 .. a : Ended(t, j)
  BY <1>3, <1>4, Zenon DEF Terminated, n
<1>8. \A j \in 1 .. a : TokenEnd(u, j) = TokenEnd(t, j)
  <2> SUFFICES ASSUME NEW j \in 1 .. a
               PROVE  TokenEnd(u, j) = TokenEnd(t, j)
    OBVIOUS
  <2>1. j \in 1 .. Len(u) /\ TokenEnd(t, j) <= Len(u) + 1 /\ Ended(t, j)
    BY <1>1, <1>6, <1>7
  <2> QED
    BY <1>1, <1>5, <2>1, KeptToken
<1> QED
  BY <1>8 DEF u

(* One token further, the front shows and formats as that token adds.       *)
LEMMA FrontStep ==
  ASSUME NEW S, NEW t \in Seq(S), WellFormed(t), NEW i \in 1 .. Len(t), Uncut(t, i)
  PROVE  /\ Visible(Front(t, TokenEnd(t, i) - 1)) = Visible(Front(t, i - 1)) + Show(t, i)
         /\ Formatting(Front(t, TokenEnd(t, i) - 1)) = Formatting(Front(t, i - 1)) \o Piece(t, i)
<1> DEFINE e == TokenEnd(t, i)
           n == Len(t)
           a == i - 1
           b == e - 1
           u == Front(t, a)
           v == TokenAt(t, i)
           w == Front(t, b)
<1>1. n \in Nat /\ e \in i + 1 .. n + 1 /\ i \in 1 .. n
  BY SeqFacts, TokenEnds
<1>2. v \in Seq(S) /\ Len(v) = e - i /\ \A k \in 1 .. e - i : v[k] = t[a + k]
  BY TokenBytes
<1>3. Visible(v) = Show(t, i) /\ Formatting(v) = Piece(t, i)
  BY TokenReads
<1> HIDE DEF e, v
<1>4. /\ a \in 0 .. n /\ b \in 0 .. n /\ a + 1 = i /\ b + 1 = e /\ a \in Nat /\ b \in Nat
      /\ a <= b /\ b = a + (e - i)
  BY <1>1
<1>5. Uncut(t, a + 1)
  BY <1>4
<1>6. Uncut(t, b + 1)
  <2>1. Uncut(t, e)
    BY UncutNext DEF e
  <2> QED
    BY <1>4, <2>1
<1> HIDE DEF n, a, b
<1>7. u \in Seq(S) /\ Len(u) = a /\ (\A k \in 1 .. a : u[k] = t[k])
      /\ \A j \in 1 .. a : TokenEnd(u, j) = TokenEnd(t, j)
  BY <1>4, <1>5, FrontIs, FrontTokenEnds DEF n
<1>8. w \in Seq(S) /\ Len(w) = b /\ (\A k \in 1 .. b : w[k] = t[k])
      /\ \A j \in 1 .. b : TokenEnd(w, j) = TokenEnd(t, j)
  BY <1>4, <1>6, FrontIs, FrontTokenEnds DEF n
<1> HIDE DEF u, w
<1>9. (\A k \in 1 .. a : k \in 1 .. b) /\ \A k \in 1 .. e - i : a + k \in 1 .. b
  BY <1>1, <1>4
<1>10. IsFront(u, w)
  BY <1>4, <1>7, <1>8, <1>9, Zenon DEF IsFront
<1>11. IsBack(v, w, Len(u))
  BY <1>2, <1>4, <1>7, <1>8, <1>9, Zenon DEF IsBack
<1>12. \A j \in 1 .. Len(u) : TokenEnd(u, j) = TokenEnd(w, j)
  BY <1>7, <1>8, <1>9, Zenon
<1>13. Visible(w) = Visible(u) + Visible(v) /\ Formatting(w) = Formatting(u) \o Formatting(v)
  BY <1>2, <1>7, <1>8, <1>10, <1>11, <1>12, Apart
<1> QED
  BY <1>3, <1>13, Zenon DEF u, w, a, b, e

(* A byte that cannot go on a colour sequence.                              *)
IsOther(t, i) == t[i] \notin {"0", ","}

(* A token that is added to the replayed ones formats as it does in the text.*)
LEMMA ReplayStep ==
  ASSUME NEW S, NEW t \in Seq(S), WellFormed(t), NEW i \in 1 .. Len(t),
         IsOther(t, i), NEW r \in Seq(S), Terminated(r)
  PROVE  /\ r \o TokenAt(t, i) \in Seq(S)
         /\ Len(r \o TokenAt(t, i)) = Len(r) + (TokenEnd(t, i) - i)
         /\ Terminated(r \o TokenAt(t, i))
         /\ Formatting(r \o TokenAt(t, i)) = Formatting(r) \o Piece(t, i)
<1> DEFINE e == TokenEnd(t, i)
           v == TokenAt(t, i)
           a == Len(r)
           b == Len(v)
           w == r \o v
<1>1. e \in i + 1 .. Len(t) + 1 /\ Len(t) \in Nat
  BY SeqFacts, TokenEnds
<1>2. v \in Seq(S) /\ b = e - i /\ \A k \in 1 .. e - i : v[k] = t[(i - 1) + k]
  BY TokenBytes
<1>3. Formatting(v) = Piece(t, i) /\ Terminated(v)
  BY TokenReads, TokenAlone
<1> HIDE DEF e, v
<1>4. w \in Seq(S) /\ Len(w) = a + b
      /\ \A k \in 1 .. a + b : w[k] = IF k <= a THEN r[k] ELSE v[k - a]
  BY <1>2, ConcatProperties
<1>5. a \in Nat /\ b \in Nat \ {0} /\ i \in 1 .. Len(t)
  <2>1. a \in Nat
    BY SeqFacts
  <2> QED
    BY <1>1, <1>2, <2>1
<1> HIDE DEF w, a, b
<1>6. IsFront(r, w)
  <2>1. a <= a + b /\ \A k \in 1 .. a : k \in 1 .. a + b /\ k <= a
    BY <1>5
  <2> QED
    BY <1>4, <2>1, Zenon DEF IsFront, a
<1>7. IsBack(v, w, a)
  <2>1. \A k \in 1 .. b : a + k \in 1 .. a + b /\ ~(a + k <= a) /\ (a + k) - a = k
    BY <1>5
  <2> QED
    BY <1>4, <2>1, Zenon DEF IsBack, b
<1>8. w[a + 1] = t[i]
  <2>1. 1 \in 1 .. b /\ 1 \in 1 .. e - i /\ (i - 1) + 1 = i
    BY <1>1, <1>2, <1>5
  <2>2. v[1] = t[i]
    BY <1>2, <2>1, Zenon
  <2>3. v[1] = w[a + 1]
    BY <1>7, <2>1, Zenon DEF IsBack, b
  <2> QED
    BY <2>2, <2>3
<1>9. OtherBehind(r, w)
  BY <1>8 DEF OtherBehind, IsOther, a
<1>10. \A j \in 1 .. Len(r) : TokenEnd(r, j) = TokenEnd(w, j)
  BY <1>4, <1>6, <1>9, KeptAhead DEF Terminated
<1>11. Formatting(w) = Formatting(r) \o Formatting(v)
  BY <1>2, <1>4, <1>6, <1>7, <1>10, Apart DEF a
<1>12. ASSUME NEW j \in 1 .. Len(w), w[j] = "esc"
       PROVE  IsM(w, TokenEnd(w, j) - 1)
  <2>1. CASE j <= a
    <3> DEFINE d == TokenEnd(r, j)
    <3>1. j \in 1 .. a
      BY <1>4, <1>5, <2>1
    <3>2. r[j] = w[j] /\ d = TokenEnd(w, j)
      BY <1>6, <1>10, <3>1 DEF IsFront, a
    <3>3. IsM(r, d - 1)
      BY <1>12, <3>1, <3>2 DEF Terminated, Ended, a
    <3>4. d \in j + 1 .. a + 1
      BY <3>1, TokenEnds DEF a
    <3> HIDE DEF d
    <3>5. d - 1 \in 1 .. a
      BY <1>5, <3>1, <3>4
    <3> QED
      BY <1>6, <3>2, <3>3, <3>5, Zenon DEF IsFront, IsM, a
  <2>2. CASE ~(j <= a)
    <3> DEFINE k == j - a
               d == TokenEnd(v, k)
    <3>1. k \in 1 .. b /\ a + k = j
      BY <1>4, <1>5, <2>2
    <3> HIDE DEF k
    <3>2. v[k] = w[j]
      BY <1>7, <3>1 DEF IsBack, b
    <3>3. IsM(v, d - 1)
      BY <1>3, <1>12, <3>1, <3>2 DEF Terminated, Ended, b
    <3>4. d \in k + 1 .. b + 1
      BY <1>2, <3>1, TokenEnds DEF b
    <3>5. TokenEnd(w, a + k) = a + d
      BY <1>2, <1>4, <1>5, <1>7, <3>1, TokenBehind DEF b
    <3> HIDE DEF d
    <3>6. d - 1 \in 1 .. b /\ a + (d - 1) = (a + d) - 1
      BY <1>5, <3>1, <3>4
    <3> QED
      BY <1>7, <3>1, <3>3, <3>5, <3>6, Zenon DEF IsBack, IsM, b
  <2> QED
    BY <2>1, <2>2
<1>13. Terminated(w)
  BY <1>12 DEF Terminated, Ended
<1>14. Len(w) = Len(r) + (TokenEnd(t, i) - i)
  BY <1>2, <1>4, Zenon DEF a, b, e
<1> QED
  BY <1>3, <1>4, <1>11, <1>13, <1>14 DEF w, v

(* The empty text. *)
LEMMA EmptyReads ==
  ASSUME NEW S, NEW t \in Seq(S), Len(t) = 0
  PROVE  Visible(t) = 0 /\ Formatting(t) = <<>> /\ Terminated(t)
<1>1. VisibleFrom(t)[0 + 1] = 0 /\ Visible(t) = VisibleFrom(t)[1]
  BY VisibleSteps
<1>2. FormattingFrom(t)[0 + 1] = <<>> /\ Formatting(t) = FormattingFrom(t)[1]
  BY FormattingSteps
<1>3. 0 + 1 = 1
  OBVIOUS
<1>4. Terminated(t)
  <2>1. \A j \in 1 .. 0 : FALSE
    OBVIOUS
  <2> QED
    BY <2>1 DEF Terminated
<1> QED
  BY <1>1, <1>2, <1>3, <1>4, Zenon

-----------------------------------------------------------------------------
(* calc_screen_offset goes from token to token; where it is, ...            *)
CutIs(t, n, i, vis, offset, r) ==
  /\ Uncut(t, i) /\ vis <= n
  /\ Visible(Front(t, i - 1)) = vis
  /\ Formatting(Front(t, i - 1)) = Formatting(r)
  /\ Terminated(r)
  /\ offset = n + (i - 1) - vis
  /\ Len(r) + vis <= i - 1

Places(S, t) == [i : 1 .. Len(t) + 1, vis : Nat, offset : Int, replay : Seq(S)]
Cuts(S, t, n) == {s \in Places(S, t) : CutIs(t, n, s.i, s.vis, s.offset, s.replay)}

NoneShows(stray) == \A c \in stray : ~PrintableUnsigned(c)
IsSet(t, i, stray) == t[i] \in {"esc", "col"} \cup Table(stray)

(* What shows is a number, what formats are texts.                          *)
LEMMA Reads ==
  ASSUME NEW S, NEW t \in Seq(S)
  PROVE  Visible(t) \in Nat /\ Formatting(t) \in Seq(Seq(S))
<1>1. Len(t) \in Nat
  BY SeqFacts
<1>2. 1 \in 1 .. Len(t) + 1
  BY <1>1
<1>3. VisibleFrom(t)[1] \in Nat
  BY <1>2, VisibleSteps
<1>4. FormattingFrom(t)[1] \in Seq(Seq(S))
  BY <1>2, FormattingSteps
<1> QED
  BY <1>3, <1>4, VisibleSteps, FormattingSteps

(* What one turn of its loop does.                                          *)
LEMMA OffsetStepIs ==
  ASSUME NEW S, NEW t \in Seq(S), NEW s \in Places(S, t), s.i \in 1 .. Len(t),
         NEW stray, NoneShows(stray)
  PROVE  OffsetStep(t, s, stray) =
           [i |-> TokenEnd(t, s.i),
            vis |-> IF PrintableUnsigned(t[s.i]) THEN s.vis + 1 ELSE s.vis,
            offset |-> IF PrintableUnsigned(t[s.i]) THEN s.offset
                       ELSE s.offset + (TokenEnd(t, s.i) - s.i),
            replay |-> IF IsSet(t, s.i, stray) THEN s.replay \o TokenAt(t, s.i) ELSE s.replay]
<1> DEFINE c == t[s.i]
           end == CASE c = "esc" -> EscapeEnd(t, s.i)
                    [] c = "col" -> ColorEndOfOffset(t, s.i)
                    [] OTHER     -> s.i + 1
           seen == c \notin {"esc", "col"} \cup Table(stray) /\ PrintableUnsigned(c)
<1>1. end = TokenEnd(t, s.i)
  <2>1. CASE c = "esc"
    BY <2>1 DEF TokenEnd
  <2>2. CASE c = "col"
    <3>1. s.i \in DOMAIN t
      BY SeqFacts
    <3>2. ColorEndOfOffset(t, s.i) = s.i + ColorSequence(t, s.i)
      BY <2>2, <3>1, ReadAlike, Zenon DEF ColorsAreReadAlike
    <3> QED
      BY <2>2, <3>2 DEF TokenEnd
  <2>3. CASE c \notin {"esc", "col"}
    BY <2>3 DEF TokenEnd
  <2> QED
    BY <2>1, <2>2, <2>3
<1>2. seen <=> PrintableUnsigned(c)
  BY DEF Table, NoneShows, PrintableUnsigned, Printable
<1>3. c \in {"esc", "col"} \cup Table(stray) <=> IsSet(t, s.i, stray)
  BY DEF IsSet
<1>4. OffsetStep(t, s, stray) =
        [i |-> end,
         vis |-> IF seen THEN s.vis + 1 ELSE s.vis,
         offset |-> IF seen THEN s.offset ELSE s.offset + (end - s.i),
         replay |-> IF c \in {"esc", "col"} \cup Table(stray)
                      THEN s.replay \o SubSeq(t, s.i, end - 1)
                      ELSE s.replay]
  BY Zenon DEF OffsetStep
<1> HIDE DEF end, seen, c
<1> QED
  BY <1>1, <1>2, <1>3, <1>4, Zenon DEF TokenAt, c

(* ... the bytes in front of it show as many as it has counted, and format as *)
(* those replayed.                                                          *)
LEMMA CutStep ==
  ASSUME NEW S, NEW t \in Seq(S), WellFormed(t), NEW n \in Nat, NEW i \in 1 .. Len(t),
         NEW vis \in Nat, NEW offset \in Int, NEW r \in Seq(S),
         CutIs(t, n, i, vis, offset, r), vis < n, NEW stray, NoneShows(stray)
  PROVE  LET e == TokenEnd(t, i)
             vis2 == IF PrintableUnsigned(t[i]) THEN vis + 1 ELSE vis
             off2 == IF PrintableUnsigned(t[i]) THEN offset ELSE offset + (e - i)
             r2 == IF IsSet(t, i, stray) THEN r \o TokenAt(t, i) ELSE r
         IN  r2 \in Seq(S) /\ CutIs(t, n, e, vis2, off2, r2)
<1> DEFINE e == TokenEnd(t, i)
           p == PrintableUnsigned(t[i])
           vis2 == IF p THEN vis + 1 ELSE vis
           off2 == IF p THEN offset ELSE offset + (e - i)
           r2 == IF IsSet(t, i, stray) THEN r \o TokenAt(t, i) ELSE r
           u == Front(t, i - 1)
           w == Front(t, e - 1)
<1>1. e \in i + 1 .. Len(t) + 1 /\ Len(t) \in Nat
  BY SeqFacts, TokenEnds
<1>2. /\ Uncut(t, i) /\ vis <= n /\ Visible(u) = vis /\ Formatting(u) = Formatting(r)
      /\ Terminated(r) /\ offset = n + (i - 1) - vis /\ Len(r) + vis <= i - 1
  BY DEF CutIs
<1>3. Uncut(t, e)
  BY <1>2, UncutNext
<1>4. Visible(w) = Visible(u) + Show(t, i) /\ Formatting(w) = Formatting(u) \o Piece(t, i)
  BY <1>2, FrontStep
<1>5. Show(t, i) = IF p THEN 1 ELSE 0
  BY DEF Show
<1>6. p => e = i + 1 /\ ~IsSet(t, i, stray)
  BY DEF TokenEnd, IsSet, Table, NoneShows, PrintableUnsigned, Printable
<1>7. ~p => IsOther(t, i)
  BY DEF IsOther, PrintableUnsigned, Printable
<1>8. ~IsSet(t, i, stray) => Piece(t, i) = <<>>
  BY DEF IsSet, Table, Piece
<1>9. Len(r) \in Nat
  BY SeqFacts
<1>a. Formatting(r) \o <<>> = Formatting(r)
  <2> DEFINE q == Formatting(r)
  <2>1. q \in Seq(Seq(S))
    BY Reads
  <2> HIDE DEF q
  <2>2. q \o <<>> = q
    BY <2>1, ConcatEmptySeq
  <2> QED
    BY <2>2 DEF q
<1> HIDE DEF e, p, u, w
<1>10. vis2 <= n /\ Visible(w) = vis2 /\ off2 = n + (e - 1) - vis2
  <2>1. vis <= n /\ Visible(w) = vis + (IF p THEN 1 ELSE 0) /\ offset = n + (i - 1) - vis
    BY <1>2, <1>4, <1>5, Zenon
  <2>2. CASE p
    BY <1>1, <1>6, <2>1, <2>2
  <2>3. CASE ~p
    BY <1>1, <2>1, <2>3
  <2> QED
    BY <2>2, <2>3
<1>11. r2 \in Seq(S) /\ Formatting(w) = Formatting(r2) /\ Terminated(r2)
       /\ Len(r2) + vis2 <= e - 1
  <2>1. CASE IsSet(t, i, stray)
    <3> DEFINE x == r \o TokenAt(t, i)
    <3>1. ~p /\ IsOther(t, i)
      BY <1>6, <1>7, <2>1
    <3>2. /\ x \in Seq(S) /\ Len(x) = Len(r) + (e - i) /\ Terminated(x)
          /\ Formatting(x) = Formatting(r) \o Piece(t, i)
      BY <1>2, <3>1, ReplayStep DEF e
    <3>3. r2 = x /\ vis2 = vis
      BY <2>1, <3>1
    <3> HIDE DEF x, r2, vis2
    <3>4. Formatting(w) = Formatting(r2)
      BY <1>2, <1>4, <3>2, <3>3, Zenon
    <3>5. Len(r2) + vis2 <= e - 1
      <4> DEFINE l == Len(r)
      <4>1. l \in Nat /\ l + vis <= i - 1 /\ Len(r2) = l + (e - i) /\ vis2 = vis
        BY <1>2, <1>9, <3>2, <3>3, Zenon
      <4> HIDE DEF l
      <4>2. (l + (e - i)) + vis <= e - 1
        BY <1>1, <4>1
      <4> QED
        BY <4>1, <4>2, Zenon
    <3> QED
      BY <3>2, <3>3, <3>4, <3>5, Zenon
  <2>2. CASE ~IsSet(t, i, stray)
    <3>1. r2 = r
      BY <2>2
    <3>2. Formatting(w) = Formatting(r)
      BY <1>2, <1>4, <1>8, <1>a, <2>2, Zenon
    <3>3. Len(r) + vis2 <= e - 1
      <4> DEFINE l == Len(r)
      <4>1. l \in Nat /\ l + vis <= i - 1
        BY <1>2, <1>9
      <4> HIDE DEF l
      <4>2. l + vis2 <= e - 1
        BY <1>1, <4>1
      <4> QED
        BY <4>2 DEF l
    <3> HIDE DEF r2, vis2
    <3> QED
      BY <1>2, <3>1, <3>2, <3>3, Zenon
  <2> QED
    BY <2>1, <2>2
<1> HIDE DEF vis2, off2, r2
<1>12. CutIs(t, n, e, vis2, off2, r2)
  BY <1>3, <1>10, <1>11, Zenon DEF CutIs, w
<1> QED
  BY <1>11, <1>12, Zenon DEF e, p, vis2, off2, r2

(* The places that the loop comes to.                                       *)
OffsetAfter(t, n, stray) ==
  CHOOSE after : after = [k \in 0 .. Len(t) |->
    IF k = 0 THEN [i |-> 1, vis |-> 0, offset |-> n, replay |-> <<>>]
    ELSE IF after[k - 1].vis >= n \/ after[k - 1].i > Len(t) THEN after[k - 1]
    ELSE OffsetStep(t, after[k - 1], stray)]

Done(t, n, s) == s.vis >= n \/ s.i > Len(t)

(* A turn of the loop keeps what CutIs says, and goes on in the text.       *)
LEMMA PlaceNext ==
  ASSUME NEW S, NEW t \in Seq(S), WellFormed(t), NEW n \in Nat, NEW s \in Cuts(S, t, n),
         NEW stray, NoneShows(stray), ~Done(t, n, s)
  PROVE  /\ OffsetStep(t, s, stray) \in Cuts(S, t, n)
         /\ OffsetStep(t, s, stray).i > s.i
<1> DEFINE i == s.i
           e == TokenEnd(t, i)
           vis2 == IF PrintableUnsigned(t[i]) THEN s.vis + 1 ELSE s.vis
           off2 == IF PrintableUnsigned(t[i]) THEN s.offset ELSE s.offset + (e - i)
           r2 == IF IsSet(t, i, stray) THEN s.replay \o TokenAt(t, i) ELSE s.replay
<1>1. /\ s \in Places(S, t) /\ CutIs(t, n, s.i, s.vis, s.offset, s.replay)
      /\ s.i \in 1 .. Len(t) + 1 /\ s.vis \in Nat /\ s.offset \in Int /\ s.replay \in Seq(S)
  BY DEF Cuts, Places
<1>2. Len(t) \in Nat
  BY SeqFacts
<1>3. i \in 1 .. Len(t) /\ s.vis < n
  BY <1>1, <1>2 DEF Done
<1>4. e \in i + 1 .. Len(t) + 1
  BY <1>3, TokenEnds
<1>5. r2 \in Seq(S) /\ CutIs(t, n, e, vis2, off2, r2)
  BY <1>1, <1>3, CutStep
<1>6. OffsetStep(t, s, stray) = [i |-> e, vis |-> vis2, offset |-> off2, replay |-> r2]
  BY <1>1, <1>3, OffsetStepIs
<1>7. e \in 1 .. Len(t) + 1 /\ e > i /\ vis2 \in Nat /\ off2 \in Int
  <2> HIDE DEF e, i
  <2> QED
    BY <1>1, <1>2, <1>3, <1>4
<1> HIDE DEF e, vis2, off2, r2
<1> QED
  BY <1>5, <1>6, <1>7 DEF Cuts, Places

(* The places that the loop comes to are those that its turns make.         *)
LEMMA PlacesExist ==
  ASSUME NEW S, NEW t \in Seq(S), WellFormed(t), NEW n \in Nat,
         NEW stray, NoneShows(stray)
  PROVE  /\ OffsetAfter(t, n, stray)[0] \in Cuts(S, t, n)
         /\ OffsetAfter(t, n, stray)[0].i = 1
         /\ \A k \in 1 .. Len(t) :
              OffsetAfter(t, n, stray)[k] =
                IF Done(t, n, OffsetAfter(t, n, stray)[k - 1]) THEN OffsetAfter(t, n, stray)[k - 1]
                ELSE OffsetStep(t, OffsetAfter(t, n, stray)[k - 1], stray)
<1> DEFINE m == Len(t)
           V == Cuts(S, t, n)
           s0 == [i |-> 1, vis |-> 0, offset |-> n, replay |-> <<>>]
           next(s) == IF Done(t, n, s) THEN s ELSE OffsetStep(t, s, stray)
           steps == [k \in 1 .. m |-> [s \in V |-> next(s)]]
           body(f) == [k \in 0 .. m |-> IF k = 0 THEN s0 ELSE next(f[k - 1])]
<1>1. m \in Nat
  BY SeqFacts
<1>2. s0 \in V
  <2> DEFINE u == Front(t, 0)
             r == <<>>
  <2>1. u \in Seq(S) /\ Len(u) = 0
    <3>1. 0 \in 0 .. Len(t)
      BY <1>1
    <3> QED
      BY <3>1, FrontIs
  <2>2. r \in Seq(S) /\ Len(r) = 0
    BY EmptySeq
  <2>3. Visible(u) = 0 /\ Formatting(u) = <<>>
    BY <2>1, EmptyReads
  <2>4. Formatting(r) = <<>> /\ Terminated(r)
    <3> HIDE DEF r
    <3> QED
      BY <2>2, EmptyReads
  <2>5. Uncut(t, 1)
    <3>1. \A j \in 1 .. 1 - 1 : FALSE
      OBVIOUS
    <3> QED
      BY <3>1 DEF Uncut
  <2>6. 1 - 1 = 0 /\ 0 <= n /\ n = n + (1 - 1) - 0 /\ 0 + 0 <= 1 - 1 /\ 1 \in 1 .. m + 1
    BY <1>1
  <2> HIDE DEF r, u
  <2>7. CutIs(t, n, 1, 0, n, r)
    BY <2>2, <2>3, <2>4, <2>5, <2>6, Zenon DEF CutIs, u
  <2>8. [i |-> 1, vis |-> 0, offset |-> n, replay |-> r] \in V
    BY <2>2, <2>6, <2>7 DEF Cuts, Places
  <2> QED
    BY <2>8 DEF r
<1>3. ASSUME NEW s \in V
      PROVE  next(s) \in V
  BY PlaceNext
<1> HIDE DEF V, next, s0
<1>4. steps \in Steps(m, V)
  BY <1>3 DEF Steps
<1>5. PICK f : IsRecursion(f, m, V, s0, steps)
  <2> HIDE DEF steps, m
  <2> QED
    BY <1>1, <1>2, <1>4, Recursion
<1>6. f \in [0 .. m -> V] /\ f[0] = s0
  BY <1>5, Zenon DEF IsRecursion
<1>7. ASSUME NEW k \in 1 .. m
      PROVE  f[k] = next(f[k - 1])
  <2>1. f[k] = steps[k][f[k - 1]]
    BY <1>5, Zenon DEF IsRecursion
  <2>2. k - 1 \in 0 .. m
    BY <1>1
  <2>3. f[k - 1] \in V
    BY <1>6, <2>2
  <2> QED
    BY <2>1, <2>3
<1>8. f = body(f)
  <2>1. ASSUME NEW k \in 0 .. m
        PROVE  f[k] = body(f)[k]
    <3>1. CASE k = 0
      BY <1>6, <3>1
    <3>2. CASE k # 0
      <4>1. k \in 1 .. m
        BY <1>1, <3>2
      <4> QED
        BY <1>7, <3>2, <4>1
    <3> QED
      BY <3>1, <3>2
  <2>2. f = [k \in 0 .. m |-> f[k]]
    BY <1>6
  <2> QED
    BY <2>1, <2>2
<1>9. OffsetAfter(t, n, stray) = body(OffsetAfter(t, n, stray))
  <2> DEFINE g == OffsetAfter(t, n, stray)
             same(h) == h = [k \in 0 .. Len(t) |->
                          IF k = 0 THEN [i |-> 1, vis |-> 0, offset |-> n, replay |-> <<>>]
                          ELSE IF h[k - 1].vis >= n \/ h[k - 1].i > Len(t) THEN h[k - 1]
                          ELSE OffsetStep(t, h[k - 1], stray)]
  <2>1. \A h : same(h) <=> h = body(h)
    BY Zenon DEF next, Done, s0
  <2>2. g = CHOOSE h : same(h)
    BY Zenon DEF OffsetAfter
  <2> HIDE DEF same, g
  <2>3. same(g)
    BY <1>8, <2>1, <2>2, Zenon
  <2> QED
    BY <2>1, <2>3, Zenon DEF g
<1> DEFINE g == OffsetAfter(t, n, stray)
<1> HIDE DEF g
<1>10. g = body(g)
  BY <1>9 DEF g
<1>11. g[0] = s0 /\ \A k \in 1 .. m : g[k] = next(g[k - 1])
  <2>1. 0 \in 0 .. m /\ \A k \in 1 .. m : k \in 0 .. m /\ k # 0
    BY <1>1
  <2> QED
    BY <1>10, <2>1
<1>12. g[0] \in V /\ g[0].i = 1
  BY <1>2, <1>11 DEF s0
<1> QED
  BY <1>11, <1>12, Zenon DEF g, next, V

(* It comes further with each turn, until it has seen n or read the text.    *)
LEMMA PlaceAt ==
  ASSUME NEW S, NEW t \in Seq(S), WellFormed(t), NEW n \in Nat,
         NEW stray, NoneShows(stray)
  PROVE  /\ OffsetAfter(t, n, stray)[Len(t)] \in Cuts(S, t, n)
         /\ Done(t, n, OffsetAfter(t, n, stray)[Len(t)])
<1> DEFINE g == OffsetAfter(t, n, stray)
           m == Len(t)
           Far(k, s) == s \in Cuts(S, t, n) /\ (Done(t, n, s) \/ s.i > k)
           T == {k \in Nat : k <= m => Far(k, g[k])}
<1>1. m \in Nat
  BY SeqFacts
<1>2. /\ g[0] \in Cuts(S, t, n) /\ g[0].i = 1
      /\ \A k \in 1 .. m : g[k] = IF Done(t, n, g[k - 1]) THEN g[k - 1]
                                  ELSE OffsetStep(t, g[k - 1], stray)
  BY PlacesExist
<1> HIDE DEF g, m
<1>3. 0 \in T
  BY <1>2
<1>4. ASSUME NEW k \in Nat, k \in T
      PROVE  k + 1 \in T
  <2> SUFFICES ASSUME k + 1 <= m
               PROVE  Far(k + 1, g[k + 1])
    OBVIOUS
  <2>1. k + 1 \in 1 .. m /\ (k + 1) - 1 = k /\ k <= m
    BY <1>1
  <2>2. g[k + 1] = IF Done(t, n, g[k]) THEN g[k] ELSE OffsetStep(t, g[k], stray)
    BY <1>2, <2>1, Zenon
  <2>3. Far(k, g[k])
    BY <1>4, <2>1
  <2>4. CASE Done(t, n, g[k])
    BY <2>2, <2>3, <2>4
  <2>5. CASE ~Done(t, n, g[k])
    <3> DEFINE s == g[k]
               x == OffsetStep(t, s, stray)
    <3>1. s \in Cuts(S, t, n) /\ s.i > k /\ ~Done(t, n, s)
      BY <2>3, <2>5
    <3> HIDE DEF s
    <3>2. x \in Cuts(S, t, n) /\ x.i > s.i
      BY <3>1, PlaceNext
    <3>3. s.i \in Int /\ x.i \in Int
      <4>1. Len(t) \in Nat
        BY SeqFacts
      <4> HIDE DEF x
      <4> QED
        BY <3>1, <3>2, <4>1 DEF Cuts, Places
    <3> DEFINE a == s.i
               b == x.i
    <3>4. b > k + 1
      <4>1. a \in Int /\ b \in Int /\ a > k /\ b > a
        BY <3>1, <3>2, <3>3
      <4> HIDE DEF a, b
      <4> QED
        BY <4>1
    <3>5. g[k + 1] = x
      BY <2>2, <2>5 DEF s
    <3> HIDE DEF x
    <3> QED
      BY <3>2, <3>4, <3>5
  <2> QED
    BY <2>4, <2>5
<1>5. Nat \subseteq T
  <2> HIDE DEF T
  <2> QED
    BY <1>3, <1>4, SetInduction
<1>6. Far(m, g[m])
  <2>1. m <= m
    BY <1>1
  <2> QED
    BY <1>1, <1>5, <2>1
<1>7. Done(t, n, g[m])
  BY <1>6 DEF Done, m
<1> QED
  BY <1>6, <1>7 DEF g, m

(* A message that is cut where a row begins is cut between two tokens, and   *)
(* the formats that are replayed are those in front of the cut.             *)
LEMMA CutAt ==
  ASSUME NEW S, NEW t \in Seq(S), WellFormed(t), NEW n \in Nat \ {0}, n < Visible(t),
         NEW i \in 1 .. Len(t) + 1, NEW vis \in Nat, NEW offset \in Int, NEW r \in Seq(S),
         CutIs(t, n, i, vis, offset, r), vis >= n \/ i > Len(t)
  PROVE  /\ vis = n /\ offset \in 0 .. Len(t) - 1
         /\ Drawn(Front(t, offset)) = n /\ Drawn(Back(t, offset)) = Drawn(t) - n
         /\ Formatting(r) = Formatting(Front(t, offset))
         /\ Len(r) < offset
<1> DEFINE m == Len(t)
           a == i - 1
           u == Front(t, a)
           v == Back(t, a)
<1>1. m \in Nat /\ a \in 0 .. m /\ a \in Nat /\ a + 1 = i /\ i \in 1 .. m + 1
  <2>1. m \in Nat
    BY SeqFacts
  <2> QED
    BY <2>1
<1>2. /\ Uncut(t, a + 1) /\ vis <= n /\ Visible(u) = vis /\ Formatting(u) = Formatting(r)
      /\ offset = n + a - vis /\ Len(r) + vis <= a
  BY <1>1, Zenon DEF CutIs
<1>3. Len(r) \in Nat
  BY SeqFacts
<1>4. Visible(t) \in Nat
  BY Reads
<1>a. n < Visible(t) /\ (vis >= n \/ i > m)
  OBVIOUS
<1> HIDE DEF a, m
<1>5. u \in Seq(S) /\ Len(u) = a /\ (\A k \in 1 .. a : u[k] = t[k])
      /\ \A j \in 1 .. a : TokenEnd(u, j) = TokenEnd(t, j)
  BY <1>1, <1>2, FrontIs, FrontTokenEnds DEF m
<1>6. v \in Seq(S) /\ Len(v) = m - a /\ \A k \in 1 .. m - a : v[k] = t[a + k]
  BY <1>1, BackIs DEF m
<1>7. a = m => u = t
  BY SubSeqFull DEF Front, m
<1> HIDE DEF u, v
<1>8. IsFront(u, t)
  <2>1. a <= m
    BY <1>1
  <2> QED
    BY <1>5, <2>1, Zenon DEF IsFront, m
<1>9. IsBack(v, t, Len(u))
  <2>1. m = a + (m - a)
    BY <1>1
  <2> QED
    BY <1>5, <1>6, <2>1, Zenon DEF IsBack, m
<1>10. \A j \in 1 .. Len(u) : TokenEnd(u, j) = TokenEnd(t, j)
  BY <1>5
<1>11. Visible(t) = Visible(u) + Visible(v)
  BY <1>5, <1>6, <1>8, <1>9, <1>10, Apart
<1>12. Visible(v) \in Nat
  BY <1>6, Reads
<1>13. a # m
  <2> SUFFICES ASSUME a = m
               PROVE  FALSE
    OBVIOUS
  <2>1. Visible(t) = vis
    BY <1>2, <1>7
  <2> DEFINE x == Visible(t)
  <2>2. x = vis /\ n < x /\ vis <= n
    BY <1>2, <1>a, <2>1
  <2> HIDE DEF x
  <2> QED
    BY <2>2
<1>14. vis = n /\ offset = a /\ a \in 0 .. m - 1
  BY <1>1, <1>2, <1>13, <1>a
<1>15. Drawn(u) = n /\ Drawn(v) = Visible(v) /\ Drawn(t) = Visible(t)
  BY <1>2, <1>5, <1>6, <1>14, DrawnIsVisible
<1>16. Drawn(v) = Drawn(t) - n
  <2> DEFINE x == Visible(t)
             y == Visible(v)
             z == Visible(u)
  <2>1. x = z + y /\ y \in Nat /\ z = n
    BY <1>2, <1>11, <1>12, <1>14
  <2> HIDE DEF x, y, z
  <2>2. y = x - n
    BY <2>1
  <2> QED
    BY <1>15, <2>2 DEF x, y
<1>17. Len(r) < offset
  <2> DEFINE l == Len(r)
  <2>1. l \in Nat /\ l + vis <= a
    BY <1>2, <1>3
  <2> HIDE DEF l
  <2>2. l < offset
    BY <1>1, <1>14, <2>1
  <2> QED
    BY <2>2 DEF l
<1> QED
  BY <1>2, <1>14, <1>15, <1>16, <1>17, Zenon DEF u, v, m

(* calc_screen_offset cuts every message cleanly, for any rows and columns.  *)
THEOREM CutsClean ==
  ASSUME NEW S, NEW t \in Seq(S), NEW stray
  PROVE  CutsAreClean(t, stray)
<1> SUFFICES ASSUME WellFormed(t), NoneShows(stray), NEW n \in 1 .. Visible(t) - 1
             PROVE  LET r     == CalcScreenOffset(t, n, stray)
                        front == SubSeq(t, 1, r.offset)
                        back  == SubSeq(t, r.offset + 1, Len(t))
                    IN  /\ r.vis = n /\ r.offset < Len(t)
                        /\ Drawn(front) = n /\ Drawn(back) = Drawn(t) - n
                        /\ Formatting(r.replay) = Formatting(front)
                        /\ Len(r.replay) < r.offset
  BY Zenon DEF CutsAreClean, NoneShows
<1> DEFINE s == OffsetSteps(t, n, stray)
<1>1. n \in Nat \ {0} /\ n \in Nat /\ n < Visible(t)
  <2> DEFINE x == Visible(t)
  <2>1. x \in Nat
    BY Reads
  <2> HIDE DEF x
  <2>2. n \in 1 .. x - 1
    BY DEF x
  <2>3. n \in Nat \ {0} /\ n \in Nat /\ n < x
    BY <2>1, <2>2
  <2> QED
    BY <2>3 DEF x
<1>2. s = OffsetAfter(t, n, stray)[Len(t)]
  BY Zenon DEF OffsetSteps, OffsetAfter
<1>3. s \in Cuts(S, t, n) /\ Done(t, n, s)
  BY <1>1, <1>2, PlaceAt
<1> HIDE DEF s
<1>4. /\ s.i \in 1 .. Len(t) + 1 /\ s.vis \in Nat /\ s.offset \in Int /\ s.replay \in Seq(S)
      /\ CutIs(t, n, s.i, s.vis, s.offset, s.replay)
      /\ s.vis >= n \/ s.i > Len(t)
  BY <1>3 DEF Cuts, Places, Done
<1>5. /\ s.vis = n /\ s.offset \in 0 .. Len(t) - 1
      /\ Drawn(Front(t, s.offset)) = n /\ Drawn(Back(t, s.offset)) = Drawn(t) - n
      /\ Formatting(s.replay) = Formatting(Front(t, s.offset))
      /\ Len(s.replay) < s.offset
  BY <1>1, <1>4, CutAt
<1>6. CalcScreenOffset(t, n, stray) = s
  <2>1. s.vis >= n
    <3>1. n >= n
      BY <1>1
    <3> QED
      BY <1>5, <3>1, Zenon
  <2> QED
    BY <2>1, Zenon DEF CalcScreenOffset, s
<1>7. s.offset < Len(t)
  <2> DEFINE m == Len(t)
             o == s.offset
  <2>1. m \in Nat /\ o \in 0 .. m - 1
    BY <1>5, SeqFacts
  <2> HIDE DEF m, o
  <2>2. o < m
    BY <2>1
  <2> QED
    BY <2>2 DEF m, o
<1> QED
  BY <1>5, <1>6, <1>7, Zenon DEF Front, Back

-----------------------------------------------------------------------------
(* The runs' inputs are texts, and numbers for the formatters.              *)
Characters == {"esc", "m", "col", "0", "bold", "ctl", "hi", ",", "x", ":", " ", "a"}

InputIs ==
  /\ subject # "buffer" => input \in Seq(Characters)
  /\ subject = "buffer" => input \in Seq(Nat)

(* Every input is one of those that the lemmas above are about.             *)
THEOREM InputsCorrect == Spec => []InputIs
<1>1. Init => InputIs
  <2>1. <<>> \in Seq(Characters) /\ <<>> \in Seq(Nat)
    BY EmptySeq
  <2> QED
    BY <2>1 DEF Init, InputIs
<1>2. InputIs /\ [Next]_<<subject, input>> => InputIs'
  <2> SUFFICES ASSUME InputIs, [Next]_<<subject, input>>
               PROVE  InputIs'
    OBVIOUS
  <2>1. CASE UNCHANGED <<subject, input>>
    BY <2>1 DEF InputIs
  <2>2. ASSUME NEW item, NEW max, Grow(item, max)
        PROVE  /\ subject' = subject
               /\ input \in Seq(Characters) /\ item \in Characters => input' \in Seq(Characters)
               /\ input \in Seq(Nat) /\ item \in Nat => input' \in Seq(Nat)
    <3>1. subject' = subject /\ input' = Append(input, item)
      BY <2>2 DEF Grow
    <3>2. input \in Seq(Characters) /\ item \in Characters => input' \in Seq(Characters)
      BY <3>1, AppendProperties
    <3>3. input \in Seq(Nat) /\ item \in Nat => input' \in Seq(Nat)
      BY <3>1, AppendProperties
    <3> QED
      BY <3>1, <3>2, <3>3
  <2>6. ASSUME NEW item \in Characters, NEW max, Grow(item, max), subject # "buffer"
        PROVE  InputIs'
    <3>1. input \in Seq(Characters)
      BY <2>6 DEF InputIs
    <3>2. subject' = subject /\ input' \in Seq(Characters)
      BY <2>2, <2>6, <3>1
    <3> QED
      BY <2>6, <3>2 DEF InputIs
  <2>3. CASE GrowText
    <3>1. CASE subject = "format" /\ \E c \in {"esc", "m", "col", "0", "bold", "ctl", "hi"} : Grow(c, MaxFormat)
      <4>1. PICK c \in {"esc", "m", "col", "0", "bold", "ctl", "hi"} : Grow(c, MaxFormat)
        BY <3>1
      <4>3. c \in Characters
        BY DEF Characters
      <4>2. subject # "buffer"
        BY <3>1
      <4> QED
        BY <2>6, <4>1, <4>2, <4>3
    <3>2. CASE subject = "color" /\ \E c \in {"col", "0", ",", "x"} : Grow(c, MaxColor)
      <4>1. PICK c \in {"col", "0", ",", "x"} : Grow(c, MaxColor)
        BY <3>2
      <4>3. c \in Characters
        BY DEF Characters
      <4>2. subject # "buffer"
        BY <3>2
      <4> QED
        BY <2>6, <4>1, <4>2, <4>3
    <3> QED
      BY <2>3, <3>1, <3>2, Zenon DEF GrowText
  <2>4. CASE GrowLine
    <3>1. subject = "line" /\ \E c \in {":", " ", "a"} : Grow(c, MaxLine)
      BY <2>4, Zenon DEF GrowLine
    <3>2. PICK c \in {":", " ", "a"} : Grow(c, MaxLine)
      BY <3>1
    <3>4. c \in Characters
      BY DEF Characters
    <3>3. subject # "buffer"
      BY <3>1
    <3> QED
      BY <2>6, <3>2, <3>3, <3>4
  <2>5. CASE GrowBuffer
    <3>1. subject = "buffer" /\ \E item \in Nat : \E max : Grow(item, max)
      BY <2>5, SizesAssumption, Zenon DEF GrowBuffer
    <3>2. PICK item \in Nat : \E max : Grow(item, max)
      BY <3>1
    <3>4. PICK max : Grow(item, max)
      BY <3>2
    <3>3. subject' = "buffer" /\ input' \in Seq(Nat)
      BY <2>2, <3>1, <3>4 DEF InputIs
    <3> QED
      BY <3>3 DEF InputIs
  <2>7. CASE Complete
    BY <2>7 DEF Complete, InputIs
  <2> QED
    BY <2>1, <2>3, <2>4, <2>5, <2>7 DEF Next
<1> QED
  BY <1>1, <1>2, PTL DEF Spec

(* strlen_on_screen, calc_screen_offset and translate_src_char_to_buf find   *)
(* the same end of every colour sequence, the longest that stands there.     *)
THEOREM ColorsCorrect == Spec => []ColorsReadAlike
<1>1. InputIs => ColorsReadAlike
  BY ReadAlike DEF InputIs, ColorsReadAlike, IsText
<1> QED
  BY <1>1, InputsCorrect, PTL

(* Of every well-formed text that shows which is drawn, and where it is ASCII *)
(* and no escape stands behind a colour the rows for it are reserved.        *)
THEOREM RowsCorrect == Spec => []RowsAsDrawn
<1>1. InputIs => RowsAsDrawn
  BY RowsAreRight DEF InputIs, RowsAsDrawn, IsText
<1> QED
  BY <1>1, InputsCorrect, PTL

(* What screenfmt_default and screenfmt_privmsg report as written is in the  *)
(* buffer, whatever its size and the lengths of what is written.            *)
THEOREM FormattedCorrect == Spec => []FormattedShows
<1>1. InputIs => FormattedShows
  <2> SUFFICES ASSUME input \in Seq(Nat), Len(input) = 3
               PROVE  /\ CountedIsShown(DefaultOps(input[2], input[3]), input[1])
                      /\ \A self \in BOOLEAN :
                           CountedIsShown(PrivmsgOps(input[2], input[3], self), input[1])
    BY DEF InputIs, FormattedShows, IsBuffer
  <2>1. \A k \in 1 .. Len(input) : input[k] \in Nat
    BY ElementOfSeq
  <2>2. input[1] \in Nat /\ input[2] \in Nat /\ input[3] \in Nat
    BY <2>1
  <2> QED
    BY <2>2, DefaultShows, PrivmsgShows
<1> QED
  BY <1>1, InputsCorrect, PTL

(* msgutils_ircmsg_parse splits every well-formed line of the server into     *)
(* what it means.                                                            *)
THEOREM LinesCorrect == Spec => []LinesAreSplit
<1>1. InputIs => LinesAreSplit
  BY LineSplit DEF InputIs, LinesAreSplit
<1> QED
  BY <1>1, InputsCorrect, PTL

(* A message that is cut for the first or last rows of the view loses no row *)
(* and no format, and no sequence is cut in two.                             *)
THEOREM CutsCorrect == Spec => []CleanCuts
<1>1. InputIs => CleanCuts
  <2> SUFFICES ASSUME InputIs, IsText, NEW stray \in SUBSET {"ctl"}
               PROVE  CutsAreClean(input, stray)
    BY DEF CleanCuts
  <2>1. input \in Seq(Characters)
    BY DEF InputIs, IsText
  <2> QED
    BY <2>1, CutsClean
<1> QED
  BY <1>1, InputsCorrect, PTL
=============================================================================
