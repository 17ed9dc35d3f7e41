---------------------------- MODULE ClientProofs ----------------------------
(***************************************************************************)
(* The running client for any server and any user: it handles lines as     *)
(* Handlers does, so that what is proved of the handlers and the screens   *)
(* holds in it; no line is lost, doubled or reordered between the socket   *)
(* or the keyboard and its handler; and a screen stands for what was asked *)
(* for, and shows as said by the user what went out to it.                 *)
(***************************************************************************)
EXTENDS Client, FiniteSetTheorems, SequenceTheorems, WellFoundedInduction, TLAPS

IInv == TypeOK /\ TabsShowAll /\ NamesDiffer /\ UnreadMeansMissed /\ NoCrossTalk

-----------------------------------------------------------------------------
(* What the searches return and what a log keeps. *)

(* A nonempty set of natural numbers has a least element. *)
LEMMA LeastExists ==
  ASSUME NEW T, T \subseteq Nat, T # {}
  PROVE  \E x \in T : \A y \in T : x <= y
<1> DEFINE R == {ss \in Nat \X Nat : ss[1] < ss[2]}
<1>1. IsWellFoundedOn(R, Nat)
  BY NatLessThanWellFounded DEF OpToRel
<1>2. PICK x \in T : \A y \in T : ~(<<y, x>> \in R)
  <2> HIDE DEF R
  <2> QED
    BY <1>1, WFMin
<1>3. \A y \in T : ~(y < x)
  BY <1>2
<1> QED
  BY <1>3

(* A search through the slots returns the first match, or -1 without one. *)
LEMMA LowestIsFirst ==
  ASSUME NEW S, S \subseteq Slots
  PROVE  \/ S = {} /\ Lowest(S) = -1
         \/ /\ Lowest(S) \in S /\ Lowest(S) \in Slots /\ Lowest(S) # -1
            /\ \A j \in S : Lowest(S) <= j
<1>1. CASE S = {}
  BY <1>1 DEF Lowest
<1>2. CASE S # {}
  <2>0. S \subseteq Nat
    BY NamesAndSlots DEF Slots
  <2>1. \E i \in S : \A j \in S : i <= j
    BY <1>2, <2>0, LeastExists, Zenon
  <2>2. Lowest(S) \in S /\ \A j \in S : Lowest(S) <= j
    BY <1>2, <2>1 DEF Lowest
  <2>3. Lowest(S) \in Nat /\ Lowest(S) \in Slots
    BY <2>0, <2>2
  <2> QED
    BY <2>2, <2>3
<1> QED
  BY <1>1, <1>2

(* internal__find_screen finds a screen of that name, unless there is none. *)
LEMMA FindScreenFinds ==
  ASSUME NEW n \in Names
  PROVE  \/ /\ FindScreen(n) = -1
            /\ \A i \in Slots : name[i] # None => Key[name[i]] # Key[n]
         \/ /\ FindScreen(n) \in Slots /\ FindScreen(n) # -1
            /\ name[FindScreen(n)] # None
            /\ Key[name[FindScreen(n)]] = Key[n]
<1> DEFINE S == {i \in Slots : name[i] # None /\ Key[name[i]] = Key[n]}
<1>1. FindScreen(n) = Lowest(S) /\ S \subseteq Slots
  BY DEF FindScreen
<1> QED
  BY <1>1, LowestIsFirst

(* internal__find_open_slot finds the first slot without a screen. *)
LEMMA FindOpenSlotFinds ==
  ASSUME FindOpenSlot # -1
  PROVE  /\ FindOpenSlot \in Slots
         /\ name[FindOpenSlot] = None
         /\ \A j \in Slots : j < FindOpenSlot => name[j] # None
<1> DEFINE S == {i \in Slots : name[i] = None}
<1>1. FindOpenSlot = Lowest(S) /\ S \subseteq Slots
  BY DEF FindOpenSlot
<1>2. /\ Lowest(S) \in S /\ Lowest(S) \in Slots
      /\ \A j \in S : Lowest(S) <= j
  BY <1>1, LowestIsFirst
<1> QED
  BY <1>1, <1>2, NamesAndSlots DEF Slots

(* What stays after an eviction is the end of the log, from behind the first *)
(* c messages on.                                                            *)
LEMMA NewestIsEnd ==
  ASSUME NEW s \in Seq(Msgs)
  PROVE  /\ Newest(s) \in Seq(Msgs)
         /\ \E c \in 0 .. Len(s) :
              /\ DOMAIN Newest(s) = 1 .. Len(s) - c
              /\ \A k \in 1 .. Len(s) - c : Newest(s)[k] = s[k + c]
<1> DEFINE Over == {k \in 1 .. Len(s) : Total(From(s, k)) > MaxBytes}
           c == Cardinality(Over)
<1>1. Len(s) \in Nat /\ DOMAIN s = 1 .. Len(s) /\ \A i \in 1 .. Len(s) : s[i] \in Msgs
  BY LenProperties, ElementOfSeq
<1>2. IsFiniteSet(1 .. Len(s)) /\ Cardinality(1 .. Len(s)) = Len(s)
  <2>1. \A n \in Nat : IsFiniteSet(1 .. n) /\ Cardinality(1 .. n) = n
    BY FS_Interval
  <2> QED
    BY <1>1, <2>1
<1>3. c \in Nat /\ c <= Len(s)
  BY <1>1, <1>2, FS_Subset, FS_CardinalityType
<1> DEFINE m == 1 + c
           z == SubSeq(s, m, Len(s))
<1>4. Newest(s) = z
  BY DEF Newest, From
<1> HIDE DEF c
<1>5. m \in Nat /\ m >= 1 /\ m <= Len(s) + 1 /\ m = 1 + c
  BY <1>1, <1>3
<1> HIDE DEF m
<1>6. \A i \in m .. Len(s) : s[i] \in Msgs
  BY <1>1, <1>5
<1>7. /\ z \in Seq(Msgs)
      /\ Len(z) = IF m <= Len(s) THEN Len(s) - m + 1 ELSE 0
      /\ \A i \in 1 .. Len(s) - m + 1 : z[i] = s[m + i - 1]
  BY <1>1, <1>5, <1>6, SubSeqProperties
<1> HIDE DEF z
<1>8. DOMAIN z = 1 .. Len(z) /\ Len(z) = Len(s) - c
  <2>1. (IF m <= Len(s) THEN Len(s) - m + 1 ELSE 0) = Len(s) - c
    <3>1. Len(s) \in Nat
      BY <1>1
    <3> QED
      BY <1>3, <1>5, <3>1
  <2> QED
    BY <1>7, <2>1, LenProperties
<1>9. ASSUME NEW k \in 1 .. Len(s) - c
      PROVE  z[k] = s[k + c]
  <2>1. k \in 1 .. Len(s) - m + 1 /\ m + k - 1 = k + c
    BY <1>1, <1>3, <1>5
  <2> QED
    BY <1>7, <2>1
<1> QED
  BY <1>1, <1>3, <1>4, <1>7, <1>8, <1>9

(* After eviction a log holds nothing that it did not hold before. *)
LEMMA NewestKeeps ==
  ASSUME NEW s \in Seq(Msgs)
  PROVE  /\ Newest(s) \in Seq(Msgs)
         /\ \A k \in DOMAIN Newest(s) :
              \E j \in DOMAIN s : Newest(s)[k] = s[j]
<1>1. Len(s) \in Nat /\ DOMAIN s = 1 .. Len(s)
  BY LenProperties
<1>2. PICK c \in 0 .. Len(s) :
        /\ DOMAIN Newest(s) = 1 .. Len(s) - c
        /\ \A k \in 1 .. Len(s) - c : Newest(s)[k] = s[k + c]
  BY NewestIsEnd
<1>3. \A k \in 1 .. Len(s) - c : k + c \in 1 .. Len(s)
  BY <1>1
<1> QED
  BY <1>1, <1>2, <1>3, NewestIsEnd

-----------------------------------------------------------------------------
(* The steps. *)

(* A call that is refused, or that ends the program, leaves the screens alone. *)
LEMMA QuietStep ==
  ASSUME IInv, UNCHANGED <<name, topic, log, unread, active, missed>>,
         aborted' \in BOOLEAN
  PROVE  IInv'
BY DEF IInv, TypeOK, TabsShowAll, NamesDiffer, UnreadMeansMissed, NoCrossTalk

(* internal__set_active: only the marks of the screen that is shown change. *)
LEMMA ShowStep ==
  ASSUME IInv, NEW i \in Slots, name[i] # None, SetActive(i),
         UNCHANGED <<name, topic, log, aborted>>
  PROVE  IInv'
<1>1. TypeOK'
  BY DEF IInv, TypeOK, SetActive
<1>2. UnreadMeansMissed'
  BY DEF IInv, TypeOK, UnreadMeansMissed, SetActive
<1> QED
  BY <1>1, <1>2 DEF IInv, TabsShowAll, NamesDiffer, NoCrossTalk

(* scrmgr_create_or_switch, when it makes a screen. *)
LEMMA CreateStep ==
  ASSUME IInv, NEW n \in Names, Create(n)
  PROVE  IInv'
<1> DEFINE k == FindOpenSlot
<1>1. /\ k \in Slots /\ name[k] = None
      /\ \A j \in Slots : j < k => name[j] # None
  BY FindOpenSlotFinds DEF Create
<1>2. \A i \in Slots : name[i] # None => Key[name[i]] # Key[n]
  BY FindScreenFinds DEF Create
<1>3. n # None
  BY NamesAndSlots
<1> HIDE DEF k
<1>4. /\ name' = [name EXCEPT ![k] = n]
      /\ topic' = [topic EXCEPT ![k] = None]
      /\ log' = [log EXCEPT ![k] = <<>>]
      /\ active' = k
      /\ unread' = [unread EXCEPT ![k] = FALSE]
      /\ missed' = missed \ {k}
      /\ UNCHANGED aborted
  BY DEF Create, CreateScreenAt, SetActive, k
<1> USE DEF IInv, TypeOK
<1>5. TypeOK'
  <2>1. <<>> \in Seq(Msgs)
    BY EmptySeq
  <2> QED
    BY <1>1, <1>4, <2>1
<1>6. TabsShowAll'
  <2>1. k # 0 /\ name'[0] = Home
    BY <1>1, <1>4, NamesAndSlots DEF TabsShowAll, Slots
  <2>2. ASSUME NEW i \in Slots, name'[i] # None, NEW j \in 0 .. i
        PROVE  name'[j] # None
    <3>1. j \in Slots /\ j <= i
      BY NamesAndSlots DEF Slots
    <3>2. CASE i = k
      BY <1>1, <1>3, <1>4, <3>1, <3>2, NamesAndSlots DEF Slots
    <3>3. CASE i # k
      BY <1>3, <1>4, <2>2, <3>1, <3>3 DEF TabsShowAll
    <3> QED
      BY <3>2, <3>3
  <2> QED
    BY <2>1, <2>2 DEF TabsShowAll
<1>7. NamesDiffer'
  BY <1>1, <1>2, <1>4 DEF NamesDiffer
<1>8. UnreadMeansMissed'
  BY <1>1, <1>3, <1>4 DEF UnreadMeansMissed
<1>9. NoCrossTalk'
  <2>1. DOMAIN <<>> = {}
    BY EmptySeq
  <2> SUFFICES ASSUME NEW i \in Slots
               PROVE  /\ topic'[i] # None => Key[topic'[i].to] = Key[name'[i]]
                      /\ i # 0 => \A j \in DOMAIN log'[i] :
                                    Key[log'[i][j].to] = Key[name'[i]]
    BY DEF NoCrossTalk
  <2>2. CASE i = k
    BY <1>1, <1>4, <2>1, <2>2
  <2>3. CASE i # k
    BY <1>1, <1>4, <2>3 DEF NoCrossTalk
  <2> QED
    BY <2>2, <2>3
<1> QED
  BY <1>5, <1>6, <1>7, <1>8, <1>9

(* scrmgr_deliver_copy: the message goes to the screen of its name, or home. *)
LEMMA DeliverStep ==
  ASSUME IInv, NEW m \in Msgs, DeliverCopy(m)
  PROVE  IInv'
<1> DEFINE k == DeliverSlot(m.to)
           kept == Newest(Append(log[k], m))
<1>1. m.to \in Names
  BY NamesAndSlots
<1>2. /\ k \in Slots
      /\ k # 0 => Key[name[k]] = Key[m.to]
  BY <1>1, FindScreenFinds, NamesAndSlots DEF DeliverSlot, Slots
<1>3. /\ log' = [log EXCEPT ![k] = kept]
      /\ unread' = [unread EXCEPT ![k] = @ \/ k # active]
      /\ missed' = (missed \cup {k}) \ {active}
      /\ UNCHANGED <<name, topic, active, aborted>>
  BY DEF DeliverCopy
<1>4. /\ kept \in Seq(Msgs)
      /\ \A j \in DOMAIN kept : kept[j] = m \/ \E i \in DOMAIN log[k] : kept[j] = log[k][i]
  <2> DEFINE s == Append(log[k], m)
  <2>1. log[k] \in Seq(Msgs)
    BY <1>2 DEF IInv, TypeOK
  <2>2. /\ s \in Seq(Msgs) /\ Len(s) = Len(log[k]) + 1
        /\ \A i \in 1 .. Len(log[k]) : s[i] = log[k][i]
        /\ s[Len(log[k]) + 1] = m
    BY <2>1, AppendProperties
  <2>3. /\ DOMAIN s = 1 .. Len(s) /\ DOMAIN log[k] = 1 .. Len(log[k])
        /\ Len(log[k]) \in Nat
    BY <2>1, <2>2, LenProperties
  <2>4. \A i \in DOMAIN s : s[i] = m \/ \E j \in DOMAIN log[k] : s[i] = log[k][j]
    BY <2>2, <2>3
  <2> HIDE DEF s
  <2>5. /\ Newest(s) \in Seq(Msgs)
        /\ \A j \in DOMAIN Newest(s) : \E i \in DOMAIN s : Newest(s)[j] = s[i]
    BY <2>2, NewestKeeps
  <2> QED
    BY <2>4, <2>5 DEF s
<1> HIDE DEF k, kept
<1>5. TypeOK'
  BY <1>2, <1>3, <1>4 DEF IInv, TypeOK
<1>6. UnreadMeansMissed'
  <2>1. /\ name'[active'] # None
        /\ active' \in Slots /\ unread \in [Slots -> BOOLEAN]
        /\ ~unread[active] /\ \A i \in Slots : unread[i] <=> i \in missed
    BY <1>3 DEF IInv, TypeOK, UnreadMeansMissed
  <2>2. \A i \in Slots : i # k => unread'[i] = unread[i]
    BY <1>3, <2>1
  <2>3. k # active => unread'[k] /\ k \in missed'
    BY <1>2, <1>3, <2>1, Zenon
  <2>4. k = active => unread'[k] = unread[k]
    BY <1>2, <1>3, <2>1
  <2>5. \A i \in Slots : i # k => (i \in missed' <=> i \in missed /\ i # active)
    BY <1>3
  <2> QED
    BY <1>2, <1>3, <2>1, <2>2, <2>3, <2>4, <2>5 DEF UnreadMeansMissed
<1>7. NoCrossTalk'
  <2> SUFFICES ASSUME NEW i \in Slots, i # 0, NEW j \in DOMAIN log'[i]
               PROVE  Key[log'[i][j].to] = Key[name[i]]
    BY <1>3 DEF IInv, NoCrossTalk
  <2>1. CASE i = k
    BY <1>2, <1>3, <1>4, <2>1 DEF IInv, TypeOK, NoCrossTalk
  <2>2. CASE i # k
    BY <1>3, <2>2 DEF IInv, TypeOK, NoCrossTalk
  <2> QED
    BY <2>1, <2>2
<1> QED
  BY <1>3, <1>5, <1>6, <1>7 DEF IInv, TabsShowAll, NamesDiffer

(* scrmgr_set_topic, when the topic is that of a screen and fits. *)
LEMMA TopicStep ==
  ASSUME IInv, NEW n \in Names, NEW t \in Topics, FindScreen(n) # -1,
         topic' = [topic EXCEPT ![FindScreen(n)] = [to |-> n, text |-> t]],
         UNCHANGED <<name, log, unread, active, aborted, missed>>
  PROVE  IInv'
<1> DEFINE k == FindScreen(n)
<1>1. k \in Slots /\ Key[name[k]] = Key[n]
  BY FindScreenFinds
<1>2. topic' = [topic EXCEPT ![k] = [to |-> n, text |-> t]]
  OBVIOUS
<1> HIDE DEF k
<1>3. TypeOK'
  <2>1. [to |-> n, text |-> t] \in Titles
    BY DEF Titles
  <2> QED
    BY <1>1, <1>2, <2>1 DEF IInv, TypeOK
<1>4. NoCrossTalk'
  BY <1>1, <1>2 DEF IInv, TypeOK, NoCrossTalk
<1> QED
  BY <1>3, <1>4 DEF IInv, TabsShowAll, NamesDiffer, UnreadMeansMissed

(* Every call, and the end of the program, keeps the invariant. *)
LEMMA CallStep ==
  ASSUME IInv, [Next \/ Ended]_scrVars
  PROVE  IInv'
<1>0. aborted \in BOOLEAN
  BY DEF IInv, TypeOK
<1>1. ASSUME NEW i, ShowIndex(i)
      PROVE  IInv'
  <2>1. CASE i \in Slots /\ name[i] # None
    BY <1>1, <2>1, ShowStep DEF ShowIndex, Refused, scrVars
  <2>2. CASE ~(i \in Slots /\ name[i] # None)
    BY <1>0, <1>1, <2>2, QuietStep DEF ShowIndex, Refused, scrVars
  <2> QED
    BY <2>1, <2>2
<1>2. ASSUME NEW n \in Names, CreateOrSwitch(n)
      PROVE  IInv'
  <2>1. CASE Switch(n)
    BY <2>1, FindScreenFinds, ShowStep DEF Switch
  <2>2. CASE Create(n)
    BY <2>2, CreateStep
  <2>3. CASE CreateTooLong(n) \/ NoSlot(n)
    BY <1>0, <2>3, QuietStep DEF CreateTooLong, NoSlot, Abort, Refused, scrVars
  <2> QED
    BY <1>2, <2>1, <2>2, <2>3 DEF CreateOrSwitch
<1>3. ASSUME NEW n \in Names, NEW t \in Topics, SetTopic(n, t)
      PROVE  IInv'
  BY <1>0, <1>3, TopicStep, QuietStep DEF SetTopic, Abort, Refused, scrVars
<1>4. ASSUME Abort \/ Ended \/ UNCHANGED scrVars
      PROVE  IInv'
  BY <1>0, <1>4, QuietStep DEF Abort, Ended, scrVars
<1> QED
  BY <1>1, <1>2, <1>3, <1>4, DeliverStep
     DEF Next, ScreenCall, ShowName, ShowNameStartsWith

(* No call moves, renames or closes a screen. *)
LEMMA NamesStay ==
  ASSUME TypeOK, [Next \/ Ended]_scrVars
  PROVE  \A i \in Slots : name[i] # None => name'[i] = name[i]
<1>1. ASSUME NEW n \in Names, Create(n)
      PROVE  \A i \in Slots : name[i] # None => name'[i] = name[i]
  <2>1. FindOpenSlot \in Slots /\ name[FindOpenSlot] = None
    BY <1>1, FindOpenSlotFinds DEF Create
  <2> QED
    BY <1>1, <2>1 DEF Create, CreateScreenAt, TypeOK
<1>2. ASSUME NEW n \in Names, CreateOrSwitch(n)
      PROVE  UNCHANGED name \/ Create(n)
  BY <1>2 DEF CreateOrSwitch, Switch, CreateTooLong, NoSlot, Abort, Refused, scrVars
<1>3. ASSUME NEW i, ShowIndex(i)
      PROVE  UNCHANGED name
  BY <1>3 DEF ShowIndex, Refused, scrVars
<1>4. ASSUME NEW m \in Msgs, DeliverCopy(m)
      PROVE  UNCHANGED name
  BY <1>4 DEF DeliverCopy
<1>5. ASSUME NEW n \in Names, NEW t \in Topics, SetTopic(n, t)
      PROVE  UNCHANGED name
  BY <1>5 DEF SetTopic, Abort, Refused, scrVars
<1>6. ASSUME Abort \/ Ended \/ UNCHANGED scrVars
      PROVE  UNCHANGED name
  BY <1>6 DEF Abort, Ended, scrVars
<1> QED
  BY <1>1, <1>2, <1>3, <1>4, <1>5, <1>6
     DEF Next, ScreenCall, ShowName, ShowNameStartsWith

(* At the start there is home and nothing else. *)
LEMMA InitInvariant ==
  ASSUME Init
  PROVE  IInv
<1>1. 0 \in Slots /\ <<>> \in Seq(Msgs) /\ DOMAIN <<>> = {}
  BY NamesAndSlots, EmptySeq DEF Slots
<1> USE DEF Init
<1>2. TypeOK
  BY <1>1, NamesAndSlots DEF TypeOK
<1>3. TabsShowAll
  BY <1>1, NamesAndSlots DEF TabsShowAll, Slots
<1>4. NamesDiffer /\ UnreadMeansMissed
  BY <1>1, NamesAndSlots DEF NamesDiffer, UnreadMeansMissed
<1>5. NoCrossTalk
  BY <1>1 DEF NoCrossTalk
<1> QED
  BY <1>2, <1>3, <1>4, <1>5 DEF IInv

-----------------------------------------------------------------------------
(* Whatever calls are made, in whatever order, the invariant holds. *)
THEOREM Inductive == Spec => []IInv
<1>1. Init => IInv
  BY InitInvariant
<1>2. IInv /\ [Next \/ Ended]_scrVars => IInv'
  BY CallStep
<1> QED
  BY <1>1, <1>2, PTL DEF Spec

(* The types. *)
THEOREM TypeCorrect == Spec => []TypeOK
<1>1. IInv => TypeOK
  BY DEF IInv
<1> QED
  BY <1>1, Inductive, PTL

(* Home is the first tab and no free slot hides a screen from the tabs. *)
THEOREM TabsInOrder == Spec => []TabsShowAll
<1>1. IInv => TabsShowAll
  BY DEF IInv
<1> QED
  BY <1>1, Inductive, PTL

(* A name, in any case, belongs to one screen at most. *)
THEOREM OneScreenPerName == Spec => []NamesDiffer
<1>1. IInv => NamesDiffer
  BY DEF IInv
<1> QED
  BY <1>1, Inductive, PTL

(* The unread marks are right, and the active screen exists. *)
THEOREM MarksAreRight == Spec => []UnreadMeansMissed
<1>1. IInv => UnreadMeansMissed
  BY DEF IInv
<1> QED
  BY <1>1, Inductive, PTL

(* No channel shows a message or a topic of another. *)
THEOREM ChannelsAreSeparate == Spec => []NoCrossTalk
<1>1. IInv => NoCrossTalk
  BY DEF IInv
<1> QED
  BY <1>1, Inductive, PTL

(* A tab keeps its number and its name for as long as the program runs. *)
THEOREM TabsAreStable == Spec => ScreensStay
<1>1. TypeOK /\ [Next \/ Ended]_scrVars
        => [\A i \in Slots : name[i] # None => name'[i] = name[i]]_scrVars
  BY NamesStay
<1>2. IInv => TypeOK
  BY DEF IInv
<1> QED
  BY <1>1, <1>2, Inductive, PTL DEF Spec, ScreensStay

-----------------------------------------------------------------------------
(* The handlers. *)

(* What !join asks for is what Screens calls a name. *)
JoinsAreNamed == \A k \in Joins : sent[k].to \in Names

HandlersInv ==
  /\ IInv
  /\ sent \in Seq(Sendable) /\ Len(sent) <= MaxSent
  /\ JoinsAreNamed /\ ScreenMeansJoin /\ JoinMeansScreen
  /\ OwnLinesWereSent

-----------------------------------------------------------------------------
(* What can come in and what is sent. *)

(* The parts of LinesAssumption that are used below. *)
LEMMA LineFacts ==
  /\ MaxSent \in Nat /\ Channels \subseteq Names
  /\ \A l \in ServerLines :
       /\ l.cmd \in TopicCmds => l.to \in Names /\ l.text \in Topics
       /\ l.cmd = "PRIVMSG" /\ l.kind = "ok" => Formatted(l.to, "said", l.text) \in Msgs
       /\ l.cmd \notin {"PRIVMSG"} \cup TopicCmds /\ l.kind = "ok"
            => Formatted(Home, "status", l.text) \in Msgs
  /\ \A l \in UserLines :
       /\ l.digit \in -1 .. 9
       /\ l.prefix = "backquote" => l.arg \in Names \cup {None}
       /\ l.prefix \notin {"!", "backquote"} =>
            \A n \in Names : /\ Formatted(n, "own", l.word) \in Msgs
                             /\ Formatted(n, "not_sent", l.word) \in Msgs
  /\ Formatted(Home, "status", "Disconnecting...") \in Msgs
<1>1. "PRIVMSG" \notin TopicCmds
  BY DEF TopicCmds
<1>2. ASSUME NEW l \in UserLines, l.prefix \notin {"!", "backquote"}, NEW n \in Names
      PROVE  /\ Formatted(n, "own", l.word) \in Msgs
             /\ Formatted(n, "not_sent", l.word) \in Msgs
  <2>1. \A k \in {"own", "not_sent"} : Formatted(n, k, l.word) \in Msgs
    BY <1>2, LinesAssumption, Zenon
  <2> QED
    BY <2>1
<1> QED
  BY <1>1, <1>2, LinesAssumption, Zenon

(* What can be sent: a raw line as whatever command it is. *)
Commands == {"QUIT", "LIST", "JOIN", "PRIVMSG"} \cup {l.word : l \in UserLines}

(* What a line makes of a command that goes out. *)
Sending(cmd, to, l) ==
  [cmd |-> cmd, to |-> to, text |-> l.word, raw |-> l.prefix = "backquote"]

LEMMA SendingIs ==
  ASSUME NEW l \in UserLines, NEW cmd \in Commands, NEW to \in Names \cup {None}
  PROVE  /\ Sending(cmd, to, l) \in Sendable
         /\ Sending(cmd, to, l).cmd = cmd /\ Sending(cmd, to, l).to = to
         /\ Sending(cmd, to, l).text = l.word
         /\ Sending(cmd, to, l).raw <=> l.prefix = "backquote"
<1>1. cmd \in {"QUIT", "LIST", "JOIN", "PRIVMSG"} \cup {k.word : k \in UserLines}
  BY DEF Commands
<1>2. (l.prefix = "backquote") \in BOOLEAN /\ l.word \in {k.word : k \in UserLines}
  OBVIOUS
<1>3. Sending(cmd, to, l) \in Sendable
  BY <1>1, <1>2 DEF Sending, Sendable
<1> QED
  BY <1>3 DEF Sending

(* What was sent stays, and a JOIN is asked for by the handlers unless it is *)
(* a line as it was typed.                                                   *)
LEMMA SendStep ==
  ASSUME sent \in Seq(Sendable), Len(sent) <= MaxSent,
         NEW l \in UserLines, NEW cmd \in Commands, NEW to \in Names \cup {None},
         TrySend(cmd, to, l)
  PROVE  /\ sent' \in Seq(Sendable) /\ Len(sent') <= MaxSent
         /\ Len(sent) \in Nat /\ Joins \subseteq 1 .. Len(sent)
         /\ \A k \in Joins : k \in Joins' /\ sent'[k] = sent[k]
         /\ \A k \in Joins' : \/ k \in Joins
                              \/ k = Len(sent) + 1 /\ sent'[k].to = to
         /\ IF cmd = "JOIN" /\ l.prefix # "backquote"
            THEN Len(sent) + 1 \in Joins' /\ sent'[Len(sent) + 1].to = to
            ELSE Len(sent) + 1 \notin Joins'
<1> DEFINE c == Sending(cmd, to, l)
<1>1. /\ c \in Sendable /\ c.cmd = cmd /\ c.to = to
      /\ c.raw <=> l.prefix = "backquote"
  BY SendingIs
<1>2. sent' = Append(sent, c) /\ Len(sent) < MaxSent
  BY DEF TrySend, Sending
<1> HIDE DEF c
<1>3. /\ sent' \in Seq(Sendable) /\ Len(sent') = Len(sent) + 1
      /\ \A i \in 1 .. Len(sent) : sent'[i] = sent[i]
      /\ sent'[Len(sent) + 1] = c
  BY <1>1, <1>2, AppendProperties
<1>4. /\ DOMAIN sent = 1 .. Len(sent) /\ DOMAIN sent' = 1 .. Len(sent')
      /\ Len(sent) \in Nat
  BY <1>3, LenProperties
<1>5. Len(sent') <= MaxSent
  <2>1. MaxSent \in Nat
    BY LineFacts, Zenon
  <2> QED
    BY <1>2, <1>3, <1>4, <2>1
<1>6. /\ \A k : k \in Joins <=>
                k \in 1 .. Len(sent) /\ sent[k].cmd = "JOIN" /\ ~sent[k].raw
      /\ \A k : k \in Joins' <=>
                k \in 1 .. Len(sent') /\ sent'[k].cmd = "JOIN" /\ ~sent'[k].raw
  BY <1>4 DEF Joins
<1>7. \A k : k \in 1 .. Len(sent') <=> k \in 1 .. Len(sent) \/ k = Len(sent) + 1
  BY <1>3, <1>4
<1>8. /\ \A k \in Joins : k \in Joins' /\ sent'[k] = sent[k]
      /\ \A k \in Joins' : k \in Joins \/ k = Len(sent) + 1
  BY <1>3, <1>6, <1>7
<1>9. /\ Len(sent) + 1 \in Joins' <=> cmd = "JOIN" /\ l.prefix # "backquote"
      /\ sent'[Len(sent) + 1].to = to
  BY <1>1, <1>3, <1>6, <1>7
<1> QED
  BY <1>3, <1>4, <1>5, <1>6, <1>8, <1>9

(* What !join has asked for is what it had asked for before. *)
SameJoins == Joins' = Joins /\ \A k \in Joins : sent'[k] = sent[k]

(* Any other command leaves the joins as they are, sent or not. *)
LEMMA OtherSent ==
  ASSUME sent \in Seq(Sendable), Len(sent) <= MaxSent,
         NEW l \in UserLines, NEW cmd \in Commands, NEW to \in Names \cup {None},
         cmd # "JOIN" \/ l.prefix = "backquote",
         TrySend(cmd, to, l) \/ UNCHANGED sent
  PROVE  sent' \in Seq(Sendable) /\ Len(sent') <= MaxSent /\ SameJoins
<1>1. CASE TrySend(cmd, to, l)
  <2>1. /\ sent' \in Seq(Sendable) /\ Len(sent') <= MaxSent
        /\ \A k \in Joins : k \in Joins' /\ sent'[k] = sent[k]
        /\ \A k \in Joins' : k \in Joins \/ k = Len(sent) + 1
        /\ Len(sent) + 1 \notin Joins'
    BY <1>1, SendStep
  <2>2. Joins' = Joins
    BY <2>1
  <2> QED
    BY <2>1, <2>2 DEF SameJoins
<1>2. CASE UNCHANGED sent
  BY <1>2 DEF SameJoins, Joins
<1> QED
  BY <1>1, <1>2

-----------------------------------------------------------------------------
(* What is shown as said by the user, and what went out. *)

(* What went says in ShowsLastSaid, for reference. *)
IsWent(went, shown, out, n) ==
  /\ went \in [Own(shown) -> Said(out, n)]
  /\ \A j \in Own(shown) : out[went[j]].text = shown[j].text
  /\ \A j, k \in Own(shown) : j < k => went[j] < went[k]
  /\ \A j \in Own(shown), o \in Said(out, n) :
       went[j] < o => \E k \in Own(shown) : went[k] = o

LEMMA ShowsByWent ==
  ASSUME NEW shown, NEW out, NEW n
  PROVE  ShowsLastSaid(shown, out, n) <=> \E went : IsWent(went, shown, out, n)
BY DEF ShowsLastSaid, IsWent

(* An empty log shows nothing. *)
LEMMA EmptyShows ==
  ASSUME NEW out, NEW n
  PROVE  ShowsLastSaid(<<>>, out, n)
<1>1. Own(<<>>) = {}
  BY DEF Own
<1>2. \E went : IsWent(went, <<>>, out, n)
  <2>1. [j \in {} |-> j] \in [{} -> Said(out, n)]
    OBVIOUS
  <2> QED
    BY <1>1, <2>1 DEF IsWent
<1> QED
  BY <1>2, ShowsByWent

(* What goes out elsewhere, or is no message, changes nothing. *)
LEMMA OtherWentOut ==
  ASSUME NEW shown, NEW C, NEW out \in Seq(C), NEW c \in C, NEW n,
         ShowsLastSaid(shown, out, n), ~(c.cmd = "PRIVMSG" /\ ~c.raw /\ c.to = n)
  PROVE  ShowsLastSaid(shown, Append(out, c), n)
<1> DEFINE new == Append(out, c)
<1>1. /\ DOMAIN new = 1 .. Len(out) + 1 /\ DOMAIN out = 1 .. Len(out) /\ Len(out) \in Nat
      /\ \A k \in 1 .. Len(out) : new[k] = out[k]
      /\ new[Len(out) + 1] = c
  BY AppendProperties, LenProperties
<1> HIDE DEF new
<1>2. Said(new, n) = Said(out, n)
  BY <1>1 DEF Said
<1>3. PICK went : IsWent(went, shown, out, n)
  BY ShowsByWent
<1>4. \A k \in Said(out, n) : new[k] = out[k]
  BY <1>1 DEF Said
<1>5. IsWent(went, shown, new, n)
  BY <1>2, <1>3, <1>4 DEF IsWent
<1> QED
  BY <1>5, ShowsByWent DEF new

(* What is shown of others changes nothing. *)
LEMMA OtherShown ==
  ASSUME NEW shown \in Seq(Msgs), NEW m \in Msgs, m.kind # "own", NEW out, NEW n,
         ShowsLastSaid(shown, out, n)
  PROVE  ShowsLastSaid(Append(shown, m), out, n)
<1> DEFINE new == Append(shown, m)
<1>1. /\ DOMAIN new = 1 .. Len(shown) + 1 /\ DOMAIN shown = 1 .. Len(shown)
      /\ Len(shown) \in Nat
      /\ \A k \in 1 .. Len(shown) : new[k] = shown[k]
      /\ new[Len(shown) + 1] = m
  BY AppendProperties, LenProperties
<1> HIDE DEF new
<1>2. Own(new) = Own(shown) /\ \A k \in Own(shown) : new[k] = shown[k]
  BY <1>1 DEF Own
<1>3. PICK went : IsWent(went, shown, out, n)
  BY ShowsByWent
<1>4. IsWent(went, new, out, n)
  BY <1>2, <1>3 DEF IsWent
<1> QED
  BY <1>4, ShowsByWent DEF new

(* What went out and is shown is the last of both. *)
LEMMA SaidAndShown ==
  ASSUME NEW shown \in Seq(Msgs), NEW m \in Msgs, m.kind = "own",
         NEW C, NEW out \in Seq(C), NEW c \in C, NEW n,
         c.cmd = "PRIVMSG", ~c.raw, c.to = n, c.text = m.text,
         ShowsLastSaid(shown, out, n)
  PROVE  ShowsLastSaid(Append(shown, m), Append(out, c), n)
<1> DEFINE new == Append(shown, m)
           more == Append(out, c)
           J == Len(shown) + 1
           O == Len(out) + 1
<1>1. /\ DOMAIN new = 1 .. J /\ DOMAIN shown = 1 .. J - 1 /\ J - 1 \in Nat /\ J \in Nat
      /\ \A k \in 1 .. J - 1 : new[k] = shown[k]
      /\ new[J] = m
  BY AppendProperties, LenProperties
<1>2. /\ DOMAIN more = 1 .. O /\ DOMAIN out = 1 .. O - 1 /\ O - 1 \in Nat /\ O \in Nat
      /\ \A k \in 1 .. O - 1 : more[k] = out[k]
      /\ more[O] = c
  BY AppendProperties, LenProperties
<1> HIDE DEF new, more, J, O
<1>3. /\ Own(new) = Own(shown) \cup {J} /\ Own(shown) \subseteq 1 .. J - 1
      /\ \A k \in Own(shown) : new[k] = shown[k]
  <2>1. \A k : k \in Own(shown) <=> k \in 1 .. J - 1 /\ shown[k].kind = "own"
    BY <1>1 DEF Own
  <2>2. \A k : k \in Own(new) <=> k \in 1 .. J /\ new[k].kind = "own"
    BY <1>1 DEF Own
  <2>3. \A k : k \in 1 .. J <=> k \in 1 .. J - 1 \/ k = J
    <3>1. J - 1 \in Nat /\ J \in Int
      BY <1>1
    <3> QED
      BY <3>1
  <2>4. \A k : k \in Own(new) <=> k \in Own(shown) \/ k = J
    BY <1>1, <2>1, <2>2, <2>3
  <2> QED
    BY <1>1, <2>1, <2>4
<1>4. /\ Said(more, n) = Said(out, n) \cup {O} /\ Said(out, n) \subseteq 1 .. O - 1
      /\ \A k \in Said(out, n) : more[k] = out[k]
  <2>1. \A k : k \in Said(out, n) <=>
                k \in 1 .. O - 1 /\ out[k].cmd = "PRIVMSG" /\ ~out[k].raw /\ out[k].to = n
    BY <1>2 DEF Said
  <2>2. \A k : k \in Said(more, n) <=>
                k \in 1 .. O /\ more[k].cmd = "PRIVMSG" /\ ~more[k].raw /\ more[k].to = n
    BY <1>2 DEF Said
  <2>3. \A k : k \in 1 .. O <=> k \in 1 .. O - 1 \/ k = O
    <3>1. O - 1 \in Nat /\ O \in Int
      BY <1>2
    <3> QED
      BY <3>1
  <2>4. \A k : k \in Said(more, n) <=> k \in Said(out, n) \/ k = O
    BY <1>2, <2>1, <2>2, <2>3
  <2> QED
    BY <1>2, <2>1, <2>4
<1>5. PICK went : IsWent(went, shown, out, n)
  BY ShowsByWent
<1> DEFINE w == [j \in Own(new) |-> IF j = J THEN O ELSE went[j]]
<1>6. /\ w \in [Own(new) -> Said(more, n)]
      /\ w[J] = O
      /\ \A j \in Own(shown) : w[j] = went[j] /\ w[j] \in Said(out, n) /\ j # J
  <2>1. \A j \in Own(shown) : j # J /\ went[j] \in Said(out, n)
    BY <1>1, <1>3, <1>5 DEF IsWent
  <2> QED
    BY <1>3, <1>4, <2>1
<1> HIDE DEF w
<1>7. \A j \in Own(new) : more[w[j]].text = new[j].text
  BY <1>1, <1>2, <1>3, <1>4, <1>5, <1>6 DEF IsWent
<1>8. ASSUME NEW j \in Own(new), NEW k \in Own(new), j < k
      PROVE  w[j] < w[k]
  <2>1. j \in Own(shown)
    BY <1>1, <1>3, <1>8
  <2>2. CASE k = J
    <3>1. w[j] \in 1 .. O - 1
      BY <1>4, <1>6, <2>1
    <3> QED
      BY <1>2, <1>6, <2>2, <3>1
  <2>3. CASE k \in Own(shown)
    BY <1>5, <1>6, <1>8, <2>1, <2>3 DEF IsWent
  <2> QED
    BY <1>3, <2>2, <2>3
<1>9. ASSUME NEW j \in Own(new), NEW o \in Said(more, n), w[j] < o
      PROVE  \E k \in Own(new) : w[k] = o
  <2>1. CASE o = O
    BY <1>3, <1>6, <2>1
  <2>2. CASE o \in Said(out, n)
    <3>1. j # J
      BY <1>2, <1>4, <1>6, <1>9, <2>2
    <3>2. j \in Own(shown) /\ went[j] < o
      BY <1>3, <1>6, <1>9, <3>1
    <3>3. PICK k \in Own(shown) : went[k] = o
      BY <1>5, <2>2, <3>2 DEF IsWent
    <3> QED
      BY <1>3, <1>6, <3>3
  <2> QED
    BY <1>4, <2>1, <2>2
<1>10. IsWent(w, new, more, n)
  BY <1>6, <1>7, <1>8, <1>9 DEF IsWent
<1> QED
  BY <1>10, ShowsByWent DEF new, more

(* What is evicted is the oldest of what is shown. *)
LEMMA EndShows ==
  ASSUME NEW s \in Seq(Msgs), NEW out, NEW n, ShowsLastSaid(s, out, n),
         \A k \in Said(out, n) : k \in Int
  PROVE  ShowsLastSaid(Newest(s), out, n)
<1> DEFINE e == Newest(s)
<1>1. PICK c \in 0 .. Len(s) : /\ DOMAIN e = 1 .. Len(s) - c
                               /\ \A k \in 1 .. Len(s) - c : e[k] = s[k + c]
  BY NewestIsEnd
<1>2. Len(s) \in Nat /\ DOMAIN s = 1 .. Len(s)
  BY LenProperties
<1> HIDE DEF e
<1>3. /\ \A j \in Own(e) : j \in Int /\ j + c \in Own(s) /\ e[j] = s[j + c]
      /\ \A j \in Own(s) : j \in Int /\ (j > c => j - c \in Own(e))
  <2>1. ASSUME NEW j \in Own(e)
        PROVE  j \in Int /\ j + c \in Own(s) /\ e[j] = s[j + c]
    BY <1>1, <1>2 DEF Own
  <2>2. ASSUME NEW j \in Own(s)
        PROVE  j \in Int /\ (j > c => j - c \in Own(e))
    <3>1. j \in 1 .. Len(s) /\ s[j].kind = "own"
      BY <1>2 DEF Own
    <3>2. j > c => j - c \in 1 .. Len(s) - c /\ (j - c) + c = j
      BY <1>2, <3>1
    <3> QED
      BY <1>1, <3>1, <3>2 DEF Own
  <2> QED
    BY <2>1, <2>2
<1>4. PICK went : IsWent(went, s, out, n)
  BY ShowsByWent
<1> DEFINE w == [j \in Own(e) |-> went[j + c]]
<1>5. /\ w \in [Own(e) -> Said(out, n)]
      /\ \A j \in Own(e) : w[j] = went[j + c]
  BY <1>3, <1>4 DEF IsWent
<1> HIDE DEF w
<1>6. \A j \in Own(e) : out[w[j]].text = e[j].text
  BY <1>3, <1>4, <1>5 DEF IsWent
<1>7. \A j, k \in Own(e) : j < k => w[j] < w[k]
  <2> SUFFICES ASSUME NEW j \in Own(e), NEW k \in Own(e), j < k
               PROVE  went[j + c] < went[k + c]
    BY <1>5
  <2>1. j + c < k + c
    BY <1>3
  <2> QED
    BY <1>3, <1>4, <2>1 DEF IsWent
<1>8. ASSUME NEW j \in Own(e), NEW o \in Said(out, n), w[j] < o
      PROVE  \E k \in Own(e) : w[k] = o
  <2>1. j + c \in Own(s) /\ went[j + c] < o
    BY <1>3, <1>5, <1>8
  <2>2. PICK k \in Own(s) : went[k] = o
    BY <1>4, <2>1 DEF IsWent
  <2>3. k > j + c
    <3>1. went[k] \in Int /\ went[j + c] \in Int
      BY <1>4, <2>1, <2>2 DEF IsWent
    <3>2. ~(k < j + c) /\ k # j + c
      BY <1>4, <2>1, <2>2, <3>1 DEF IsWent
    <3> QED
      BY <1>3, <3>2
  <2>4. k - c \in Own(e) /\ (k - c) + c = k
    <3>1. j \in 1 .. Len(s) - c
      BY <1>1 DEF Own
    <3> QED
      BY <1>3, <2>3, <3>1
  <2> QED
    BY <1>5, <2>2, <2>4
<1>9. IsWent(w, e, out, n)
  BY <1>5, <1>6, <1>7, <1>8 DEF IsWent
<1> QED
  BY <1>9, ShowsByWent DEF e

-----------------------------------------------------------------------------
(* What the handlers do to the screens. *)

(* A step that is a call of the screen interface or no call at all. *)
Call == [Next \/ Ended]_scrVars

(* The calls that the handlers make. *)
LEMMA Calls ==
  ASSUME ~aborted
  PROVE  /\ \A n \in Names : CreateOrSwitch(n) => Call
         /\ \A m \in Msgs : DeliverCopy(m) => Call
         /\ \A n \in Names, t \in Topics : SetTopic(n, t) => Call
         /\ \A p \in DOMAIN Begins : ShowNameStartsWith(p) => Call
         /\ \A i \in Int : ShowIndex(i) => Call
         /\ Abort \/ UNCHANGED scrVars => Call
<1>1. ASSUME NEW i \in Int, ShowIndex(i)
      PROVE  Call
  <2>1. CASE i \in -1 .. NSlots
    BY <1>1, <2>1 DEF Call, Next, ScreenCall
  <2>2. CASE i \notin -1 .. NSlots
    BY <1>1, <2>2, NamesAndSlots DEF Call, ShowIndex, Refused, Slots
  <2> QED
    BY <2>1, <2>2
<1> QED
  BY <1>1 DEF Call, Next, ScreenCall

(* handle_ircmsg makes calls that leave the names alone. *)
LEMMA IrcMsgCalls ==
  ASSUME ~aborted, NEW l \in ServerLines, HandleIrcMsg(l)
  PROVE  Call /\ UNCHANGED <<name, sent>>
<1>0. UNCHANGED sent
  BY DEF HandleIrcMsg
<1>1. CASE HandlePrivmsg(l)
  BY <1>0, <1>1, Calls, LineFacts DEF HandlePrivmsg, DeliverCopy
<1>2. CASE HandleTopic(l)
  BY <1>0, <1>2, Calls, LineFacts DEF HandleTopic, SetTopic, Abort, Refused, scrVars
<1>3. CASE HandleDefault(l)
  BY <1>0, <1>3, Calls, LineFacts DEF HandleDefault, DeliverCopy
<1>4. CASE HandleLong(l) \/ HandleMalformed(l)
  BY <1>0, <1>4, Calls DEF HandleLong, HandleMalformed, Abort, scrVars
<1> QED
  BY <1>0, <1>1, <1>2, <1>3, <1>4 DEF HandleIrcMsg

(* A join that went out: JOIN, and the screen. *)
JoinSent(l) ==
  /\ l.prefix # "backquote" /\ l.arg \in Names
  /\ TrySend("JOIN", l.arg, l)
  /\ CreateOrSwitch(l.arg)

(* handle_user_command: only a join that went out makes a screen. *)
LEMMA UserCommandCalls ==
  ASSUME ~aborted, active \in Slots, name[active] \in Names,
         sent \in Seq(Sendable), Len(sent) <= MaxSent,
         NEW l \in UserLines, HandleUserCommand(l)
  PROVE  /\ Call
         /\ \/ JoinSent(l)
            \/ /\ UNCHANGED name
               /\ sent' \in Seq(Sendable) /\ Len(sent') <= MaxSent /\ SameJoins
<1>1. UNCHANGED sent => sent' \in Seq(Sendable) /\ Len(sent') <= MaxSent /\ SameJoins
  BY DEF SameJoins, Joins
<1>2. /\ None \in Names \cup {None} /\ l.word \in Commands
      /\ \A c \in {"QUIT", "LIST", "PRIVMSG"} : c \in Commands /\ c # "JOIN"
  BY DEF Commands
<1>3. CASE HandleQuit(l)
  BY <1>2, <1>3, Calls, OtherSent, LineFacts
     DEF HandleQuit, SendFails, DeliverCopy
<1>4. CASE HandleChannel(l)
  BY <1>1, <1>2, <1>4, Calls, OtherSent DEF HandleChannel, SendFails, scrVars
<1>5. CASE HandleJoin(l)
  BY <1>1, <1>5, Calls, LineFacts
     DEF HandleJoin, Joinable, JoinSent, SendFails, scrVars
<1>6. CASE HandleShow(l)
  <2>1. l.digit \in Int
    <3>1. l.digit \in -1 .. 9
      BY LineFacts, Zenon
    <3> QED
      BY <3>1
  <2>2. ASSUME NEW i, ShowIndex(i)
        PROVE  UNCHANGED name
    BY <2>2 DEF ShowIndex, Refused, scrVars
  <2> QED
    BY <1>1, <1>6, <2>1, <2>2, Calls DEF HandleShow, ShowNameStartsWith, scrVars
<1>7. CASE HandleUnknown(l)
  BY <1>1, <1>7, Calls DEF HandleUnknown, handlerVars, scrVars
<1>8. CASE HandleLiteral(l)
  <2>1. l.prefix = "backquote" /\ l.arg \in Names \cup {None}
    BY <1>8, LineFacts DEF HandleLiteral
  <2> QED
    BY <1>2, <1>8, <2>1, Calls, OtherSent DEF HandleLiteral, SendFails, scrVars
<1>9. CASE HandleChat(l)
  <2>1. /\ Formatted(name[active], "own", l.word) \in Msgs
        /\ Formatted(name[active], "not_sent", l.word) \in Msgs
    BY <1>9, LineFacts DEF HandleChat
  <2> QED
    BY <1>2, <1>9, <2>1, Calls, OtherSent DEF HandleChat, SendFails, DeliverCopy
<1> QED
  BY <1>3, <1>4, <1>5, <1>6, <1>7, <1>8, <1>9 DEF HandleUserCommand

-----------------------------------------------------------------------------
(* Screens and joins. *)

(* The searches in the terms of the slots, before and after a step. *)
LEMMA Searches ==
  /\ \A n :
       FindScreen(n) # -1 <=> \E i \in Slots : name[i] # None /\ Key[name[i]] = Key[n]
  /\ \A n :
       FindScreen(n)' # -1 <=> \E i \in Slots : name'[i] # None /\ Key[name'[i]] = Key[n]
  /\ FindOpenSlot = -1 <=> \A i \in Slots : name[i] # None
  /\ FindOpenSlot' = -1 <=> \A i \in Slots : name'[i] # None
<1>1. \A S : S \subseteq Slots => (Lowest(S) # -1 <=> S # {})
  BY LowestIsFirst
<1>2. ASSUME NEW n
      PROVE  /\ FindScreen(n) = Lowest({i \in Slots : name[i] # None /\ Key[name[i]] = Key[n]})
             /\ FindScreen(n)' = Lowest({i \in Slots : name'[i] # None /\ Key[name'[i]] = Key[n]})
  BY DEF FindScreen
<1>3. /\ FindOpenSlot = Lowest({i \in Slots : name[i] = None})
      /\ FindOpenSlot' = Lowest({i \in Slots : name'[i] = None})
  BY DEF FindOpenSlot
<1> QED
  BY <1>1, <1>2, <1>3

(* Slots that are taken stay taken, and what was found is found. *)
LEMMA FoundStays ==
  ASSUME TypeOK, Call
  PROVE  /\ \A n : FindScreen(n) # -1 => FindScreen(n)' # -1
         /\ FindOpenSlot = -1 => FindOpenSlot' = -1
<1>1. \A i \in Slots : name[i] # None => name'[i] = name[i]
  BY NamesStay DEF Call
<1> QED
  BY <1>1, Searches

(* What was asked for has a screen, or has found all slots taken: in the      *)
(* terms of the slots.                                                        *)
HasPlace(k) ==
  \/ \E i \in Slots : name[i] # None /\ Key[name[i]] = Key[sent[k].to]
  \/ \A i \in Slots \ {0} : \E j \in Joins : j < k /\ sent[j].to = name[i]
  \/ aborted

LEMMA HavePlaces ==
  /\ JoinMeansScreen <=> \A k \in Joins : HasPlace(k)
  /\ JoinMeansScreen' <=> \A k \in Joins' : HasPlace(k)'
<1>1. \A S : S \subseteq Slots => (Lowest(S) # -1 <=> S # {})
  BY LowestIsFirst
<1>2. /\ \A n : FindScreen(n) = Lowest({i \in Slots : name[i] # None /\ Key[name[i]] = Key[n]})
      /\ \A k : FindScreen(sent[k].to)'
                = Lowest({i \in Slots : name'[i] # None /\ Key[name'[i]] = Key[sent'[k].to]})
  BY DEF FindScreen
<1>3. /\ \A k : FindScreen(sent[k].to) # -1 <=>
                 \E i \in Slots : name[i] # None /\ Key[name[i]] = Key[sent[k].to]
      /\ \A k : FindScreen(sent[k].to)' # -1 <=>
                 \E i \in Slots : name'[i] # None /\ Key[name'[i]] = Key[sent'[k].to]
  BY <1>1, <1>2
<1>4. JoinMeansScreen <=> \A k \in Joins : HasPlace(k)
  BY <1>3 DEF JoinMeansScreen, HasPlace, AskedAhead
<1>5. JoinMeansScreen' <=> \A k \in Joins' : HasPlace(k)'
  BY <1>3 DEF JoinMeansScreen, HasPlace, AskedAhead
<1> QED
  BY <1>4, <1>5

(* A place that is had is kept as long as what went out stays: taken slots    *)
(* keep their names, and there is none left when all were taken.              *)
LEMMA PlaceStays ==
  ASSUME TypeOK, ~aborted, Call, JoinsAreNamed,
         \A k \in Joins : k \in Joins' /\ sent'[k] = sent[k],
         NEW k \in Joins, HasPlace(k)
  PROVE  HasPlace(k)'
<1>1. /\ \A i \in Slots : name[i] # None => name'[i] = name[i]
      /\ \A j \in Joins : sent[j].to # None
  BY NamesStay, NamesAndSlots DEF Call, JoinsAreNamed
<1>2. CASE \E i \in Slots : name[i] # None /\ Key[name[i]] = Key[sent[k].to]
  BY <1>1, <1>2 DEF HasPlace
<1>3. CASE \A i \in Slots \ {0} : \E j \in Joins : j < k /\ sent[j].to = name[i]
  <2>1. ASSUME NEW i \in Slots \ {0}
        PROVE  \E j \in Joins' : j < k /\ sent'[j].to = name'[i]
    <3>1. PICK j \in Joins : j < k /\ sent[j].to = name[i]
      BY <1>3
    <3>2. j \in Joins' /\ sent'[j] = sent[j] /\ name'[i] = name[i]
      BY <1>1, <3>1
    <3> QED
      BY <3>1, <3>2
  <2> QED
    BY <2>1 DEF HasPlace
<1> QED
  BY <1>2, <1>3 DEF HasPlace

(* A step that makes no screen and in which !join asks for nothing. *)
LEMMA OtherStep ==
  ASSUME HandlersInv, ~aborted, Call, UNCHANGED name, SameJoins
  PROVE  JoinsAreNamed' /\ ScreenMeansJoin' /\ JoinMeansScreen'
<1>1. JoinsAreNamed'
  BY DEF HandlersInv, JoinsAreNamed, SameJoins
<1>2. ScreenMeansJoin'
  BY DEF HandlersInv, ScreenMeansJoin, SameJoins, Asked
<1>3. JoinMeansScreen'
  <2>1. /\ TypeOK /\ JoinsAreNamed /\ \A k \in Joins : HasPlace(k)
        /\ Joins' = Joins /\ \A k \in Joins : k \in Joins' /\ sent'[k] = sent[k]
    BY HavePlaces DEF HandlersInv, IInv, SameJoins
  <2>2. \A k \in Joins : HasPlace(k)'
    BY <2>1, PlaceStays
  <2> QED
    BY <2>1, <2>2, HavePlaces
<1> QED
  BY <1>1, <1>2, <1>3

(* A join: the screen is there when JOIN is, and JOIN when the screen is. *)
LEMMA JoinStep ==
  ASSUME HandlersInv, ~aborted, Call, NEW l \in UserLines, JoinSent(l)
  PROVE  /\ sent' \in Seq(Sendable) /\ Len(sent') <= MaxSent
         /\ JoinsAreNamed' /\ ScreenMeansJoin' /\ JoinMeansScreen'
<1> DEFINE n == l.arg
<1> PICK last : last = Len(sent) + 1
  OBVIOUS
<1>0. /\ n \in Names /\ n # None /\ TrySend("JOIN", n, l) /\ CreateOrSwitch(n)
      /\ TypeOK /\ JoinsAreNamed /\ ScreenMeansJoin /\ \A k \in Joins : HasPlace(k)
  BY HavePlaces, NamesAndSlots DEF JoinSent, HandlersInv, IInv
<1>1. /\ sent' \in Seq(Sendable) /\ Len(sent') <= MaxSent
      /\ \A k \in Joins : k \in Joins' /\ sent'[k] = sent[k] /\ k < last
      /\ \A k \in Joins' : k \in Joins \/ k = last
      /\ last \in Joins' /\ sent'[last].to = n
  <2>1. "JOIN" \in Commands /\ n \in Names \cup {None} /\ l.prefix # "backquote"
    BY <1>0 DEF Commands, JoinSent
  <2>2. /\ sent' \in Seq(Sendable) /\ Len(sent') <= MaxSent
        /\ Len(sent) \in Nat /\ Joins \subseteq 1 .. Len(sent)
        /\ \A k \in Joins : k \in Joins' /\ sent'[k] = sent[k]
        /\ \A k \in Joins' : k \in Joins \/ k = Len(sent) + 1
        /\ Len(sent) + 1 \in Joins' /\ sent'[Len(sent) + 1].to = n
    BY <1>0, <2>1, SendStep DEF HandlersInv
  <2>3. \A k \in 1 .. Len(sent) : k < Len(sent) + 1
    BY <2>2
  <2> QED
    BY <2>2, <2>3
<1> HIDE DEF n
<1>2. \A i \in Slots : name[i] # None => name'[i] = name[i]
  BY <1>0, NamesStay DEF Call
<1>3. \A i \in Slots : name'[i] = name[i] \/ name'[i] = n
  BY <1>0 DEF CreateOrSwitch, Switch, Create, CreateScreenAt, CreateTooLong,
              NoSlot, Abort, Refused, scrVars, TypeOK
<1>4. HasPlace(last)'
  <2>1. CASE Switch(n)
    <3>1. \E i \in Slots : name'[i] # None /\ Key[name'[i]] = Key[n]
      BY <1>0, <2>1, FoundStays, Searches DEF Switch
    <3> QED
      BY <1>1, <3>1 DEF HasPlace
  <2>2. CASE Create(n)
    <3>1. FindOpenSlot \in Slots /\ name'[FindOpenSlot] = n
      BY <1>0, <2>2, FindOpenSlotFinds DEF Create, CreateScreenAt, TypeOK
    <3> QED
      BY <1>0, <1>1, <3>1 DEF HasPlace
  <2>3. CASE CreateTooLong(n)
    BY <2>3 DEF CreateTooLong, Abort, HasPlace
  <2>4. CASE NoSlot(n)
    <3>1. UNCHANGED name /\ \A i \in Slots : name[i] # None
      BY <2>4, Searches DEF NoSlot, Refused, scrVars
    <3>2. ASSUME NEW i \in Slots \ {0}
          PROVE  \E j \in Joins' : j < last /\ sent'[j].to = name'[i]
      <4>1. PICK j \in Joins : sent[j].to = name[i]
        BY <1>0, <3>1 DEF ScreenMeansJoin, Asked
      <4> QED
        BY <1>1, <3>1, <4>1
    <3> QED
      BY <3>2 DEF HasPlace
  <2> QED
    BY <1>0, <2>1, <2>2, <2>3, <2>4 DEF CreateOrSwitch
<1>5. JoinsAreNamed'
  BY <1>0, <1>1 DEF JoinsAreNamed
<1>6. ScreenMeansJoin'
  <2>1. ASSUME NEW i \in Slots \ {0}, name'[i] # None
        PROVE  \E k \in Joins' : sent'[k].to = name'[i]
    <3>1. CASE name'[i] = n
      BY <1>1, <3>1
    <3>2. CASE name'[i] = name[i]
      <4>1. PICK k \in Joins : sent[k].to = name[i]
        BY <1>0, <2>1, <3>2 DEF ScreenMeansJoin, Asked
      <4> QED
        BY <1>1, <3>2, <4>1
    <3> QED
      BY <1>3, <3>1, <3>2
  <2> QED
    BY <2>1 DEF ScreenMeansJoin, Asked
<1>7. JoinMeansScreen'
  <2>1. \A k \in Joins : HasPlace(k)'
    BY <1>0, <1>1, PlaceStays
  <2> QED
    BY <1>1, <1>4, <2>1, HavePlaces
<1> QED
  BY <1>1, <1>5, <1>6, <1>7

-----------------------------------------------------------------------------
(* The lines of the user on the screens and on their way. *)

(* A step that shows nothing as said by the user, and sends no message. *)
NothingShown ==
  \A i \in Slots : name'[i] # None =>
    \/ log'[i] = <<>>
    \/ name'[i] = name[i] /\ log'[i] = log[i]
    \/ /\ name'[i] = name[i] /\ log[i] \in Seq(Msgs)
       /\ \E m \in Msgs : m.kind # "own" /\ log'[i] = Newest(Append(log[i], m))

NothingSaid ==
  \A shown, n : ShowsLastSaid(shown, sent, n) => ShowsLastSaid(shown, sent', n)

LEMMA NothingSaidWhen ==
  ASSUME sent \in Seq(Sendable), NEW l \in UserLines,
         NEW cmd \in Commands, NEW to \in Names \cup {None},
         cmd # "PRIVMSG" \/ l.prefix = "backquote",
         TrySend(cmd, to, l) \/ UNCHANGED sent
  PROVE  NothingSaid
<1>1. CASE TrySend(cmd, to, l)
  <2> DEFINE c == Sending(cmd, to, l)
  <2>1. c \in Sendable /\ ~(c.cmd = "PRIVMSG" /\ ~c.raw) /\ sent' = Append(sent, c)
    <3>1. sent' = Append(sent, c)
      BY <1>1 DEF TrySend, Sending
    <3> QED
      BY <3>1, SendingIs
  <2> HIDE DEF c
  <2>2. ASSUME NEW shown, NEW n, ShowsLastSaid(shown, sent, n)
        PROVE  ShowsLastSaid(shown, Append(sent, c), n)
    BY <2>1, <2>2, OtherWentOut
  <2> QED
    BY <2>1, <2>2, Zenon DEF NothingSaid
<1>2. CASE UNCHANGED sent
  BY <1>2 DEF NothingSaid
<1> QED
  BY <1>1, <1>2

LEMMA NothingShownWhen ==
  ASSUME TypeOK
  PROVE  /\ \A m \in Msgs : m.kind # "own" /\ DeliverCopy(m) => NothingShown
         /\ \A n \in Names : CreateOrSwitch(n) => NothingShown
         /\ UNCHANGED <<name, log>> => NothingShown
<1>1. ASSUME NEW m \in Msgs, m.kind # "own", DeliverCopy(m)
      PROVE  NothingShown
  <2> DEFINE k == DeliverSlot(m.to)
  <2>1. name' = name /\ log' = [log EXCEPT ![k] = Newest(Append(@, m))]
    BY <1>1 DEF DeliverCopy
  <2>2. log \in [Slots -> Seq(Msgs)]
    BY DEF TypeOK
  <2> HIDE DEF k
  <2>3. ASSUME NEW i \in Slots
        PROVE  log'[i] = log[i] \/ log'[i] = Newest(Append(log[i], m))
    BY <2>1, <2>2
  <2> QED
    BY <1>1, <2>1, <2>2, <2>3 DEF NothingShown
<1>2. ASSUME NEW n \in Names, CreateOrSwitch(n)
      PROVE  NothingShown
  <2>1. CASE Create(n)
    BY <2>1 DEF Create, CreateScreenAt, TypeOK, NothingShown
  <2>2. CASE UNCHANGED <<name, log>>
    BY <2>2 DEF NothingShown
  <2> QED
    BY <1>2, <2>1, <2>2
       DEF CreateOrSwitch, Switch, CreateTooLong, NoSlot, Abort, Refused, scrVars
<1> QED
  BY <1>1, <1>2 DEF NothingShown

LEMMA NothingOwnStep ==
  ASSUME HandlersInv, NothingShown, NothingSaid
  PROVE  OwnLinesWereSent'
<1>1. \A n, k : k \in Said(sent, n) => k \in Int
  <2>1. DOMAIN sent = 1 .. Len(sent) /\ Len(sent) \in Nat
    BY LenProperties DEF HandlersInv
  <2> QED
    BY <2>1 DEF Said
<1>2. ASSUME NEW i \in Slots, name'[i] # None
      PROVE  ShowsLastSaid(log'[i], sent, name'[i])
  <2>1. CASE log'[i] = <<>>
    BY <2>1, EmptyShows
  <2>2. CASE name'[i] = name[i] /\ log'[i] = log[i]
    BY <1>2, <2>2 DEF HandlersInv, OwnLinesWereSent
  <2>3. ASSUME name'[i] = name[i], log[i] \in Seq(Msgs), NEW m \in Msgs, m.kind # "own",
               log'[i] = Newest(Append(log[i], m))
        PROVE  ShowsLastSaid(log'[i], sent, name'[i])
    <3>1. ShowsLastSaid(log[i], sent, name[i])
      BY <1>2, <2>3 DEF HandlersInv, OwnLinesWereSent
    <3>2. ShowsLastSaid(Append(log[i], m), sent, name[i])
      BY <2>3, <3>1, OtherShown
    <3>3. Append(log[i], m) \in Seq(Msgs)
      BY <2>3, AppendProperties
    <3>4. ShowsLastSaid(Newest(Append(log[i], m)), sent, name[i])
      BY <1>1, <3>2, <3>3, EndShows
    <3> QED
      BY <2>3, <3>4, Zenon
  <2> QED
    BY <1>2, <2>1, <2>2, <2>3 DEF NothingShown
<1>3. \A i \in Slots : name'[i] # None => ShowsLastSaid(log'[i], sent', name'[i])
  BY <1>2 DEF NothingSaid
<1> QED
  BY <1>3 DEF OwnLinesWereSent, ShowsLastSaid, Own, Said

(* A message that went out is shown on the screen it was typed on, which is  *)
(* the screen of the name it went to.                                        *)
LEMMA ChatStep ==
  ASSUME HandlersInv, NEW l \in UserLines, l.prefix \notin {"!", "backquote"},
         TrySend("PRIVMSG", name[active], l),
         DeliverCopy(Formatted(name[active], "own", l.word))
  PROVE  OwnLinesWereSent'
<1> DEFINE n == name[active]
           m == Formatted(n, "own", l.word)
           c == Sending("PRIVMSG", n, l)
<1>1. TypeOK /\ NamesDiffer /\ active \in Slots /\ n \in Names /\ n # None
  BY DEF HandlersInv, IInv, TypeOK, UnreadMeansMissed
<1>2. m \in Msgs
  BY <1>1, LineFacts
<1>3. m.kind = "own" /\ m.to = n /\ m.text = l.word
  BY DEF Formatted
<1>4. c \in Sendable /\ c.cmd = "PRIVMSG" /\ ~c.raw /\ c.to = n /\ c.text = l.word
  <2>1. "PRIVMSG" \in Commands /\ n \in Names \cup {None}
    BY <1>1 DEF Commands
  <2> HIDE DEF n
  <2> QED
    BY <2>1, SendingIs
<1>5. sent' = Append(sent, c) /\ sent \in Seq(Sendable)
  BY DEF TrySend, HandlersInv, Sending
<1>6. DeliverSlot(n) = active
  BY <1>1, FindScreenFinds DEF DeliverSlot, NamesDiffer
<1>7. /\ name' = name
      /\ log' = [log EXCEPT ![active] = Newest(Append(@, m))]
  BY <1>3, <1>6 DEF DeliverCopy
<1>8. /\ log \in [Slots -> Seq(Msgs)]
      /\ \A i \in Slots : name[i] # None => ShowsLastSaid(log[i], sent, name[i])
  BY <1>1 DEF TypeOK, HandlersInv, OwnLinesWereSent
<1> HIDE DEF n, m, c
<1>9. ShowsLastSaid(log'[active], sent', n)
  <2>1. log[active] \in Seq(Msgs) /\ ShowsLastSaid(log[active], sent, n)
    BY <1>1, <1>8 DEF n
  <2>2. ShowsLastSaid(Append(log[active], m), Append(sent, c), n)
    <3>1. c.text = m.text
      BY <1>3, <1>4
    <3> QED
      BY <1>2, <1>3, <1>4, <1>5, <2>1, <3>1, SaidAndShown
  <2>3. Append(log[active], m) \in Seq(Msgs)
    BY <1>2, <2>1, AppendProperties
  <2>4. \A k \in Said(sent', n) : k \in Int
    <3>1. sent' \in Seq(Sendable)
      BY <1>4, <1>5, AppendProperties
    <3>2. DOMAIN sent' = 1 .. Len(sent') /\ Len(sent') \in Nat
      BY <3>1, LenProperties
    <3> QED
      BY <3>2 DEF Said
  <2>5. ShowsLastSaid(Append(log[active], m), sent', n)
    BY <1>5, <2>2, Zenon
  <2>6. ShowsLastSaid(Newest(Append(log[active], m)), sent', n)
    BY <2>3, <2>4, <2>5, EndShows
  <2>7. log'[active] = Newest(Append(log[active], m))
    BY <1>1, <1>7, <1>8
  <2> QED
    BY <2>6, <2>7, Zenon
<1>10. ASSUME NEW i \in Slots, name[i] # None, i # active
       PROVE  ShowsLastSaid(log'[i], sent', name[i])
  <2>1. log'[i] = log[i]
    BY <1>7, <1>8, <1>10
  <2>2. name[i] # n
    BY <1>1, <1>10 DEF NamesDiffer, n
  <2>3. ShowsLastSaid(log[i], Append(sent, c), name[i])
    BY <1>4, <1>5, <1>8, <1>10, <2>2, OtherWentOut
  <2> QED
    BY <1>5, <2>1, <2>3, Zenon
<1>11. \A i \in Slots : name'[i] # None => ShowsLastSaid(log'[i], sent', name'[i])
  BY <1>7, <1>9, <1>10 DEF n
<1> QED
  BY <1>11 DEF OwnLinesWereSent, ShowsLastSaid, Own, Said

(* handle_ircmsg: what the server says is never shown as said by the user.   *)
LEMMA IrcMsgOwn ==
  ASSUME HandlersInv, NEW l \in ServerLines, HandleIrcMsg(l)
  PROVE  OwnLinesWereSent'
<1>1. TypeOK
  BY DEF HandlersInv, IInv
<1>2. NothingSaid
  BY DEF HandleIrcMsg, NothingSaid
<1>3. NothingShown
  <2>1. CASE HandlePrivmsg(l)
    BY <1>1, <2>1, NothingShownWhen, LineFacts DEF HandlePrivmsg, Formatted
  <2>2. CASE HandleTopic(l)
    BY <1>1, <2>2, NothingShownWhen DEF HandleTopic, SetTopic, Abort, Refused, scrVars
  <2>3. CASE HandleDefault(l)
    BY <1>1, <2>3, NothingShownWhen, LineFacts DEF HandleDefault, Formatted
  <2>4. CASE HandleLong(l) \/ HandleMalformed(l)
    BY <1>1, <2>4, NothingShownWhen DEF HandleLong, HandleMalformed, Abort, scrVars
  <2> QED
    BY <2>1, <2>2, <2>3, <2>4 DEF HandleIrcMsg
<1> QED
  BY <1>2, <1>3, NothingOwnStep

(* handle_user_command: a line is shown as said when it went out.            *)
LEMMA UserCommandOwn ==
  ASSUME HandlersInv, NEW l \in UserLines, HandleUserCommand(l)
  PROVE  OwnLinesWereSent'
<1>1. TypeOK /\ sent \in Seq(Sendable) /\ active \in Slots /\ name[active] \in Names
  BY DEF HandlersInv, IInv, TypeOK, UnreadMeansMissed
<1>2. /\ None \in Names \cup {None} /\ l.word \in Commands
      /\ \A c \in {"QUIT", "LIST", "JOIN"} : c \in Commands /\ c # "PRIVMSG"
  BY DEF Commands
<1>3. UNCHANGED sent => NothingSaid
  BY DEF NothingSaid
<1>4. CASE HandleQuit(l)
  <2>1. NothingSaid
    BY <1>1, <1>2, <1>4, NothingSaidWhen DEF HandleQuit, SendFails
  <2>2. NothingShown
    BY <1>1, <1>4, NothingShownWhen, LineFacts DEF HandleQuit, Formatted
  <2> QED
    BY <2>1, <2>2, NothingOwnStep
<1>5. CASE HandleChannel(l)
  <2>1. NothingSaid
    BY <1>1, <1>2, <1>3, <1>5, NothingSaidWhen DEF HandleChannel, SendFails
  <2>2. NothingShown
    BY <1>1, <1>5, NothingShownWhen DEF HandleChannel, scrVars
  <2> QED
    BY <2>1, <2>2, NothingOwnStep
<1>6. CASE HandleJoin(l)
  <2>1. CASE Joinable(l.arg) /\ TrySend("JOIN", l.arg, l) /\ CreateOrSwitch(l.arg)
    <3>1. l.arg \in Names
      BY <2>1, LineFacts DEF Joinable
    <3>2. NothingSaid
      BY <1>1, <1>2, <2>1, <3>1, NothingSaidWhen
    <3>3. NothingShown
      BY <1>1, <2>1, <3>1, NothingShownWhen
    <3> QED
      BY <3>2, <3>3, NothingOwnStep
  <2>2. CASE SendFails /\ UNCHANGED scrVars
    BY <1>1, <1>3, <2>2, NothingShownWhen, NothingOwnStep DEF SendFails, scrVars
  <2> QED
    BY <1>6, <2>1, <2>2 DEF HandleJoin
<1>7. CASE HandleShow(l)
  <2>1. ASSUME NEW i, ShowIndex(i)
        PROVE  UNCHANGED <<name, log>>
    BY <2>1 DEF ShowIndex, Refused, scrVars
  <2>2. UNCHANGED <<name, log, sent>>
    BY <1>7, <2>1 DEF HandleShow, ShowNameStartsWith, scrVars
  <2> QED
    BY <1>1, <1>3, <2>2, NothingShownWhen, NothingOwnStep
<1>8. CASE HandleUnknown(l)
  BY <1>1, <1>3, <1>8, NothingShownWhen, NothingOwnStep
     DEF HandleUnknown, handlerVars, scrVars
<1>9. CASE HandleLiteral(l)
  <2>0. l.prefix = "backquote" /\ l.arg \in Names \cup {None}
    BY <1>9, LineFacts DEF HandleLiteral
  <2>1. NothingSaid
    BY <1>1, <1>2, <1>9, <2>0, NothingSaidWhen DEF HandleLiteral, SendFails
  <2> QED
    BY <1>1, <1>9, <2>1, NothingShownWhen, NothingOwnStep DEF HandleLiteral, scrVars
<1>10. CASE HandleChat(l)
  <2>1. CASE TrySend("PRIVMSG", name[active], l)
             /\ DeliverCopy(Formatted(name[active], "own", l.word))
    BY <1>10, <2>1, ChatStep DEF HandleChat
  <2>2. CASE SendFails /\ DeliverCopy(Formatted(name[active], "not_sent", l.word))
    <3> DEFINE m == Formatted(name[active], "not_sent", l.word)
    <3>1. m \in Msgs /\ m.kind # "own"
      BY <1>1, <1>10, LineFacts DEF HandleChat, Formatted
    <3>2. NothingShown
      <4> HIDE DEF m
      <4> QED
        BY <1>1, <2>2, <3>1, NothingShownWhen DEF m
    <3> QED
      BY <1>3, <2>2, <3>2, NothingOwnStep DEF SendFails
  <2> QED
    BY <1>10, <2>1, <2>2 DEF HandleChat
<1> QED
  BY <1>4, <1>5, <1>6, <1>7, <1>8, <1>9, <1>10 DEF HandleUserCommand

-----------------------------------------------------------------------------
(* Every line that is handled keeps the invariant, by calls of the screens. *)
LEMMA LineStep ==
  ASSUME HandlersInv, [HandlersNext \/ HandlersEnded]_handlerVars
  PROVE  HandlersInv' /\ Call
<1>1. CASE UNCHANGED handlerVars
  <2>1. UNCHANGED <<scrVars, sent>>
    BY <1>1 DEF handlerVars
  <2>2. Call
    BY <2>1 DEF Call
  <2>3. IInv'
    BY <2>2, CallStep DEF HandlersInv, Call
  <2>4. JoinsAreNamed' /\ ScreenMeansJoin' /\ JoinMeansScreen'
    BY <2>1 DEF HandlersInv, JoinsAreNamed, ScreenMeansJoin, JoinMeansScreen, Asked,
                AskedAhead, Joins, scrVars, FindScreen
  <2>5. OwnLinesWereSent'
    <3>1. UNCHANGED <<name, log, sent>> /\ TypeOK
      BY <2>1 DEF HandlersInv, IInv, scrVars
    <3> QED
      BY <3>1, NothingShownWhen, NothingOwnStep DEF NothingSaid
  <2> QED
    BY <2>1, <2>2, <2>3, <2>4, <2>5 DEF HandlersInv
<1>2. CASE HandlersNext
  <2>1. ~aborted /\ active \in Slots /\ name[active] \in Names
    BY <1>2 DEF HandlersNext, HandlersInv, IInv, TypeOK, UnreadMeansMissed
  <2>2. ASSUME NEW l \in ServerLines, HandleIrcMsg(l)
        PROVE  HandlersInv' /\ Call
    <3>1. Call /\ UNCHANGED <<name, sent>>
      BY <2>1, <2>2, IrcMsgCalls
    <3>2. SameJoins
      BY <3>1 DEF SameJoins, Joins
    <3>3. OwnLinesWereSent'
      BY <2>2, IrcMsgOwn
    <3> QED
      BY <2>1, <3>1, <3>2, <3>3, CallStep, OtherStep DEF HandlersInv, Call
  <2>3. ASSUME NEW l \in UserLines, HandleUserCommand(l)
        PROVE  HandlersInv' /\ Call
    <3>1. /\ Call
          /\ \/ JoinSent(l)
             \/ /\ UNCHANGED name
                /\ sent' \in Seq(Sendable) /\ Len(sent') <= MaxSent /\ SameJoins
      BY <2>1, <2>3, UserCommandCalls DEF HandlersInv
    <3>2. OwnLinesWereSent'
      BY <2>3, UserCommandOwn
    <3> QED
      BY <2>1, <3>1, <3>2, CallStep, JoinStep, OtherStep DEF HandlersInv, Call
  <2> QED
    BY <1>2, <2>2, <2>3 DEF HandlersNext
<1> QED
  BY <1>1, <1>2 DEF HandlersEnded

-----------------------------------------------------------------------------
LEMMA HandlersStart ==
  ASSUME HandlersInit
  PROVE  HandlersInv
<1>1. IInv
  BY InitInvariant DEF HandlersInit
<1>2. sent \in Seq(Sendable) /\ Len(sent) = 0 /\ DOMAIN sent = {}
  BY EmptySeq DEF HandlersInit
<1>3. Joins = {}
  BY <1>2 DEF Joins
<1>4. JoinsAreNamed /\ ScreenMeansJoin /\ JoinMeansScreen
  BY <1>3 DEF HandlersInit, Init, JoinsAreNamed, ScreenMeansJoin, JoinMeansScreen
<1>5. MaxSent \in Nat
  BY LineFacts, Zenon
<1>6. OwnLinesWereSent
  <2>1. \A i \in Slots : log[i] = <<>>
    BY DEF HandlersInit, Init
  <2> QED
    BY <2>1, EmptyShows DEF OwnLinesWereSent
<1> QED
  BY <1>1, <1>2, <1>4, <1>5, <1>6 DEF HandlersInv

(* Whatever lines come in, in whatever order, the invariant holds. *)
THEOREM HandlersInductive == HandlersSpec => []HandlersInv
<1>1. HandlersInit => HandlersInv
  BY HandlersStart
<1>2. HandlersInv /\ [HandlersNext \/ HandlersEnded]_handlerVars => HandlersInv'
  BY LineStep
<1> QED
  BY <1>1, <1>2, PTL DEF HandlersSpec

(* The types. *)
THEOREM HandlersTypeCorrect == HandlersSpec => []HandlersTypeOK
<1>1. HandlersInv => HandlersTypeOK
  BY DEF HandlersInv, IInv, HandlersTypeOK
<1> QED
  BY <1>1, HandlersInductive, PTL

(* The handlers use the screens through their interface only: the running    *)
(* handlers are one way to use Screens.                                      *)
THEOREM HandlersUseScreens == HandlersSpec => ScreensSpec
<1>1. HandlersInit => Init
  BY DEF HandlersInit
<1>2. HandlersInv /\ [HandlersNext \/ HandlersEnded]_handlerVars
        => [Next \/ Ended]_scrVars
  BY LineStep DEF Call
<1> QED
  BY <1>1, <1>2, HandlersInductive, PTL DEF HandlersSpec, ScreensSpec, Spec

(* A screen other than home stands for a JOIN of !join that went out.        *)
THEOREM ScreensWereAsked == HandlersSpec => []ScreenMeansJoin
<1>1. HandlersInv => ScreenMeansJoin
  BY DEF HandlersInv
<1> QED
  BY <1>1, HandlersInductive, PTL

(* What !join has asked for has a screen, unless each slot was taken by what *)
(* it had asked for ahead of that, or the program has ended.                 *)
THEOREM AskedHaveScreens == HandlersSpec => []JoinMeansScreen
<1>1. HandlersInv => JoinMeansScreen
  BY DEF HandlersInv
<1> QED
  BY <1>1, HandlersInductive, PTL

(* What a screen shows as said by the user is the end of what went out to    *)
(* its name, in that order.                                                  *)
THEOREM OwnLinesAreReal == HandlersSpec => []OwnLinesWereSent
<1>1. HandlersInv => OwnLinesWereSent
  BY DEF HandlersInv
<1> QED
  BY <1>1, HandlersInductive, PTL

-----------------------------------------------------------------------------
Places == {"take_in", "in", "take_ui", "ui", "console", "submit", "wait", "exited"}

(* The queues and lists, and what is where at each place of the loop.       *)
FlowTypeOK ==
  /\ DOMAIN chan = {"QUEUE_IN", "QUEUE_UI"} /\ DOMAIN held = {"main", "recv"}
  /\ chan["QUEUE_IN"] \in Seq(ServerLines) /\ chan["QUEUE_UI"] \in Seq(UserLines)
  /\ held["recv"] \in Seq(ServerLines)
  /\ main \in Places
  /\ main \notin {"in", "ui", "submit"} => List = <<>>
  /\ main = "in" => List \in Seq(ServerLines)
  /\ main \in {"ui", "submit"} => List \in Seq(UserLines)
  /\ curr \in Nat \ {0} /\ (main \in {"in", "ui"} => curr <= Len(List) + 1)
  /\ bye \in BOOLEAN /\ receiver \in {"running", "returned"} /\ open \in BOOLEAN
  /\ stream \in Seq(ServerLines) /\ typed \in Seq(UserLines)
  /\ handledIn \in Seq(ServerLines) /\ handledUi \in Seq(UserLines)
  /\ received \in 0 .. Len(stream) /\ Len(handledUi) <= Len(typed)

-----------------------------------------------------------------------------
(* Sequences. *)

(* What is left of a list: all of it, then one line less each time, then none. *)
LEMMA FromEnds ==
  ASSUME NEW S, NEW s \in Seq(S)
  PROVE  From(s, 1) = s /\ From(s, Len(s) + 1) = <<>>
<1>1. Len(s) \in Nat /\ DOMAIN s = 1 .. Len(s) /\ \A i \in 1 .. Len(s) : s[i] \in S
  BY LenProperties, ElementOfSeq
<1>2. From(s, Len(s) + 1) = <<>>
  BY <1>1, SubSeqEmpty DEF From
<1>3. /\ From(s, 1) \in Seq(S)
      /\ Len(From(s, 1)) = Len(s)
      /\ \A i \in 1 .. Len(s) : From(s, 1)[i] = s[i]
  <2>1. \A i \in 1 .. Len(s) : s[i] \in S
    BY <1>1
  <2> QED
    BY <1>1, <2>1, SubSeqProperties DEF From
<1>4. From(s, 1) = s
  BY <1>1, <1>3, SeqEqual
<1> QED
  BY <1>2, <1>4

(* Its first line, and the others.                                           *)
LEMMA FromStep ==
  ASSUME NEW S, NEW s \in Seq(S), NEW k \in 1 .. Len(s)
  PROVE  /\ s[k] \in S
         /\ From(s, k) \in Seq(S) /\ From(s, k + 1) \in Seq(S)
         /\ From(s, k) = <<s[k]>> \o From(s, k + 1)
<1>1. Len(s) \in Nat /\ \A i \in 1 .. Len(s) : s[i] \in S
  BY LenProperties, ElementOfSeq
<1> DEFINE a == From(s, k)
           b == From(s, k + 1)
           y == <<s[k]>>
           c == y \o b
<1>2. /\ a \in Seq(S) /\ Len(a) = Len(s) - k + 1
      /\ \A i \in 1 .. Len(s) - k + 1 : a[i] = s[k + i - 1]
  <2>1. \A i \in k .. Len(s) : s[i] \in S
    BY <1>1
  <2> QED
    BY <1>1, <2>1, SubSeqProperties DEF From
<1>3. /\ b \in Seq(S) /\ Len(b) = Len(s) - k
      /\ \A i \in 1 .. Len(s) - k : b[i] = s[k + i]
  <2>1. \A i \in k + 1 .. Len(s) : s[i] \in S
    BY <1>1
  <2>2. /\ b \in Seq(S) /\ Len(b) = IF k + 1 <= Len(s) THEN Len(s) - (k + 1) + 1 ELSE 0
        /\ \A i \in 1 .. Len(s) - (k + 1) + 1 : b[i] = s[(k + 1) + i - 1]
    BY <1>1, <2>1, SubSeqProperties DEF From
  <2> QED
    BY <1>1, <2>2
<1> HIDE DEF a, b
<1>4. /\ y \in Seq(S) /\ Len(y) = 1 /\ y[1] = s[k]
  BY <1>1
<1> HIDE DEF y
<1>5. /\ c \in Seq(S) /\ Len(c) = 1 + Len(b)
      /\ \A i \in 1 .. 1 + Len(b) : c[i] = IF i <= 1 THEN y[i] ELSE b[i - 1]
  <2>1. y \in Seq(S) /\ b \in Seq(S)
    BY <1>3, <1>4
  <2>2. /\ c \in Seq(S) /\ Len(c) = Len(y) + Len(b)
        /\ \A i \in 1 .. Len(y) + Len(b) :
             c[i] = IF i <= Len(y) THEN y[i] ELSE b[i - Len(y)]
    BY <2>1, ConcatProperties, Zenon
  <2> HIDE DEF c
  <2> QED
    BY <1>4, <2>2
<1>6. Len(a) = Len(c)
  BY <1>1, <1>2, <1>3, <1>5
<1> HIDE DEF c
<1>7. ASSUME NEW i \in 1 .. Len(a)
      PROVE  a[i] = c[i]
  <2>1. CASE i = 1
    BY <1>1, <1>2, <1>3, <1>4, <1>5, <2>1
  <2>2. CASE i # 1
    <3>1. i - 1 \in 1 .. Len(s) - k /\ k + (i - 1) = k + i - 1
      BY <1>1, <1>2, <2>2
    <3>2. i \in 1 .. 1 + Len(b) /\ ~(i <= 1)
      BY <1>1, <1>2, <1>3, <2>2
    <3>3. c[i] = b[i - 1]
      BY <1>5, <3>2
    <3>4. b[i - 1] = s[k + (i - 1)]
      BY <1>3, <3>1
    <3> QED
      BY <1>1, <1>2, <3>1, <3>3, <3>4
  <2> QED
    BY <2>1, <2>2
<1>8. a = c
  BY <1>2, <1>5, <1>6, <1>7, SeqEqual
<1> QED
  BY <1>1, <1>2, <1>3, <1>8 DEF a, b, c, y

(* Prefixes of a sequence that grows at its end.                            *)
LEMMA PrefixGrows ==
  ASSUME NEW S, NEW s \in Seq(S), NEW e \in S, NEW n \in 0 .. Len(s)
  PROVE  /\ SubSeq(Append(s, e), 1, n) = SubSeq(s, 1, n)
         /\ SubSeq(s, 1, n) \in Seq(S)
<1>1. Len(s) \in Nat /\ \A i \in 1 .. Len(s) : s[i] \in S
  BY LenProperties, ElementOfSeq
<1> DEFINE t == Append(s, e)
<1>2. \A i \in 1 .. Len(s) : t[i] = s[i]
  BY AppendProperties
<1> HIDE DEF t
<1>3. \A i \in 1 .. n : s[i] \in S /\ t[i] = s[i] /\ t[i] \in S
  BY <1>1, <1>2
<1>4. /\ SubSeq(s, 1, n) \in Seq(S) /\ Len(SubSeq(s, 1, n)) = n
      /\ \A i \in 1 .. n : SubSeq(s, 1, n)[i] = s[i]
  <2>1. \A i \in 1 .. n : s[i] \in S
    BY <1>3
  <2> QED
    BY <1>1, <2>1, SubSeqProperties
<1>5. /\ SubSeq(t, 1, n) \in Seq(S) /\ Len(SubSeq(t, 1, n)) = n
      /\ \A i \in 1 .. n : SubSeq(t, 1, n)[i] = t[i]
  <2>1. \A i \in 1 .. n : t[i] \in S
    BY <1>3
  <2> QED
    BY <1>1, <2>1, SubSeqProperties
<1>6. SubSeq(t, 1, n) = SubSeq(s, 1, n)
  BY <1>3, <1>4, <1>5, SeqEqual
<1> QED
  BY <1>4, <1>6 DEF t

(* The next longer prefix. *)
LEMMA PrefixNext ==
  ASSUME NEW S, NEW s \in Seq(S), NEW n \in Nat, n < Len(s)
  PROVE  /\ s[n + 1] \in S
         /\ SubSeq(s, 1, n + 1) = Append(SubSeq(s, 1, n), s[n + 1])
<1>1. Len(s) \in Nat /\ \A i \in 1 .. Len(s) : s[i] \in S
  BY LenProperties, ElementOfSeq
<1>2. s[n + 1] \in S
  BY <1>1
<1>3. /\ SubSeq(s, 1, n) \in Seq(S) /\ Len(SubSeq(s, 1, n)) = n
      /\ \A i \in 1 .. n : SubSeq(s, 1, n)[i] = s[i]
  <2>1. \A i \in 1 .. n : s[i] \in S
    BY <1>1
  <2> QED
    BY <1>1, <2>1, SubSeqProperties
<1>4. /\ SubSeq(s, 1, n + 1) \in Seq(S) /\ Len(SubSeq(s, 1, n + 1)) = n + 1
      /\ \A i \in 1 .. n + 1 : SubSeq(s, 1, n + 1)[i] = s[i]
  <2>1. \A i \in 1 .. n + 1 : s[i] \in S
    BY <1>1
  <2>2. /\ SubSeq(s, 1, n + 1) \in Seq(S)
        /\ Len(SubSeq(s, 1, n + 1)) = IF 1 <= n + 1 THEN n + 1 - 1 + 1 ELSE 0
        /\ \A i \in 1 .. n + 1 - 1 + 1 : SubSeq(s, 1, n + 1)[i] = s[1 + i - 1]
    BY <1>1, <2>1, SubSeqProperties
  <2> QED
    BY <2>2
<1> DEFINE p == SubSeq(s, 1, n)
           q == Append(p, s[n + 1])
<1>5. /\ q \in Seq(S) /\ Len(q) = n + 1
      /\ \A i \in 1 .. n : q[i] = p[i]
      /\ q[n + 1] = s[n + 1]
  <2> HIDE DEF p
  <2>1. p \in Seq(S) /\ Len(p) = n
    BY <1>3 DEF p
  <2> QED
    BY <1>2, <2>1, AppendProperties
<1> HIDE DEF q
<1>6. \A i \in 1 .. n + 1 : SubSeq(s, 1, n + 1)[i] = q[i]
  BY <1>3, <1>4, <1>5
<1>7. SubSeq(s, 1, n + 1) = q
  BY <1>4, <1>5, <1>6, SeqEqual
<1> QED
  BY <1>2, <1>7 DEF q

(* What a concatenation begins with. *)
LEMMA ConcatPrefix ==
  ASSUME NEW S, NEW s \in Seq(S), NEW t \in Seq(S)
  PROVE  SubSeq(s \o t, 1, Len(s)) = s
<1> DEFINE c == s \o t
<1>1. Len(s) \in Nat /\ Len(t) \in Nat /\ \A i \in 1 .. Len(s) : s[i] \in S
  BY LenProperties, ElementOfSeq
<1>2. \A i \in 1 .. Len(s) : c[i] = s[i] /\ c[i] \in S
  BY <1>1, ConcatProperties
<1> HIDE DEF c
<1>3. /\ SubSeq(c, 1, Len(s)) \in Seq(S) /\ Len(SubSeq(c, 1, Len(s))) = Len(s)
      /\ \A i \in 1 .. Len(s) : SubSeq(c, 1, Len(s))[i] = c[i]
  <2>1. \A i \in 1 .. Len(s) : c[i] \in S
    BY <1>2
  <2> QED
    BY <1>1, <2>1, SubSeqProperties
<1>4. SubSeq(c, 1, Len(s)) = s
  BY <1>1, <1>2, <1>3, SeqEqual
<1> QED
  BY <1>4 DEF c

-----------------------------------------------------------------------------
(* The steps of the client, by what they do to the queues and lists. *)

(* The operations of MsgChannel, list by list and queue by queue.           *)
LEMMA ChannelSteps ==
  ASSUME FlowTypeOK, NEW t \in {"main", "recv"}
  PROVE  /\ \A l : Channel!PushBack(t, l) =>
              /\ chan' = chan /\ DOMAIN held' = DOMAIN held
              /\ held'[t] = Append(held[t], l)
              /\ \A u \in DOMAIN held : u # t => held'[u] = held[u]
         /\ \A q \in {"QUEUE_IN", "QUEUE_UI"} : Channel!Submit(t, q) =>
              /\ DOMAIN chan' = DOMAIN chan /\ DOMAIN held' = DOMAIN held
              /\ chan'[q] = chan[q] \o held[t] /\ held'[t] = <<>>
              /\ \A p \in DOMAIN chan : p # q => chan'[p] = chan[p]
              /\ \A u \in DOMAIN held : u # t => held'[u] = held[u]
         /\ \A q \in {"QUEUE_IN", "QUEUE_UI"} : Channel!TakeAll(t, q) =>
              /\ DOMAIN chan' = DOMAIN chan /\ DOMAIN held' = DOMAIN held
              /\ held'[t] = chan[q] /\ chan'[q] = <<>>
              /\ \A p \in DOMAIN chan : p # q => chan'[p] = chan[p]
              /\ \A u \in DOMAIN held : u # t => held'[u] = held[u]
         /\ Channel!Free(t) =>
              /\ chan' = chan /\ DOMAIN held' = DOMAIN held
              /\ held'[t] = <<>>
              /\ \A u \in DOMAIN held : u # t => held'[u] = held[u]
<1>1. DOMAIN chan = {"QUEUE_IN", "QUEUE_UI"} /\ DOMAIN held = {"main", "recv"}
  BY DEF FlowTypeOK
<1>2. ASSUME NEW l, Channel!PushBack(t, l)
      PROVE  /\ chan' = chan /\ DOMAIN held' = DOMAIN held
             /\ held'[t] = Append(held[t], l)
             /\ \A u \in DOMAIN held : u # t => held'[u] = held[u]
  BY <1>1, <1>2 DEF Channel!PushBack
<1>3. ASSUME NEW q \in {"QUEUE_IN", "QUEUE_UI"}, Channel!Submit(t, q)
      PROVE  /\ DOMAIN chan' = DOMAIN chan /\ DOMAIN held' = DOMAIN held
             /\ chan'[q] = chan[q] \o held[t] /\ held'[t] = <<>>
             /\ \A p \in DOMAIN chan : p # q => chan'[p] = chan[p]
             /\ \A u \in DOMAIN held : u # t => held'[u] = held[u]
  BY <1>1, <1>3 DEF Channel!Submit
<1>4. ASSUME NEW q \in {"QUEUE_IN", "QUEUE_UI"}, Channel!TakeAll(t, q)
      PROVE  /\ DOMAIN chan' = DOMAIN chan /\ DOMAIN held' = DOMAIN held
             /\ held'[t] = chan[q] /\ chan'[q] = <<>>
             /\ \A p \in DOMAIN chan : p # q => chan'[p] = chan[p]
             /\ \A u \in DOMAIN held : u # t => held'[u] = held[u]
  BY <1>1, <1>4 DEF Channel!TakeAll
<1>5. ASSUME Channel!Free(t)
      PROVE  /\ chan' = chan /\ DOMAIN held' = DOMAIN held
             /\ held'[t] = <<>>
             /\ \A u \in DOMAIN held : u # t => held'[u] = held[u]
  BY <1>1, <1>5 DEF Channel!Free
<1> QED
  BY <1>2, <1>3, <1>4, <1>5

(* The parts of the flow of the server's lines, and those of the user's.    *)
InParts == <<handledIn, Rest("in"), chan["QUEUE_IN"], held["recv"], stream, received>>
UiParts == <<handledUi, Rest("ui"), chan["QUEUE_UI"], typed, bye>>

(* Each line between the socket and its handler. *)
LEMMA InSteps ==
  ASSUME FlowTypeOK, ClientNext
  PROVE  \/ UNCHANGED InParts
         \/ /\ TakeIn
            /\ Rest("in") = <<>> /\ Rest("in")' = chan["QUEUE_IN"] /\ chan'["QUEUE_IN"] = <<>>
            /\ UNCHANGED <<handledIn, held["recv"], stream, received>>
         \/ /\ HandleIn
            /\ curr \in 1 .. Len(List) /\ Rest("in") = From(List, curr)
            /\ Rest("in")' = From(List, curr + 1)
            /\ handledIn' = Append(handledIn, List[curr])
            /\ UNCHANGED <<chan["QUEUE_IN"], held["recv"], stream, received>>
         \/ /\ RecvLine
            /\ received < Len(stream) /\ received' = received + 1
            /\ held'["recv"] = Append(held["recv"], stream[received + 1])
            /\ UNCHANGED <<handledIn, Rest("in"), chan["QUEUE_IN"], stream>>
         \/ /\ SubmitIn
            /\ chan'["QUEUE_IN"] = chan["QUEUE_IN"] \o held["recv"] /\ held'["recv"] = <<>>
            /\ UNCHANGED <<handledIn, Rest("in"), stream, received>>
         \/ /\ ServerSends
            /\ \E l \in ServerLines : stream' = Append(stream, l)
            /\ UNCHANGED <<handledIn, Rest("in"), chan["QUEUE_IN"], held["recv"], received>>
<1> USE DEF List
<1>0. /\ DOMAIN chan = {"QUEUE_IN", "QUEUE_UI"} /\ DOMAIN held = {"main", "recv"}
      /\ main \notin {"in", "ui", "submit"} => held["main"] = <<>>
      /\ main = "in" => held["main"] \in Seq(ServerLines)
      /\ curr \in Nat \ {0} /\ (main \in {"in", "ui"} => curr <= Len(held["main"]) + 1)
      /\ chan["QUEUE_IN"] \in Seq(ServerLines)
  BY DEF FlowTypeOK
<1>1. CASE TakeIn
  <2>1. /\ held'["main"] = chan["QUEUE_IN"] /\ chan'["QUEUE_IN"] = <<>>
        /\ held'["recv"] = held["recv"]
    BY <1>0, <1>1, ChannelSteps DEF TakeIn
  <2>2. Rest("in") = <<>> /\ Rest("in")' = From(chan["QUEUE_IN"], 1)
    BY <1>1, <2>1 DEF TakeIn, Rest, From
  <2>3. From(chan["QUEUE_IN"], 1) = chan["QUEUE_IN"]
    BY <1>0, FromEnds
  <2> QED
    BY <1>1, <2>1, <2>2, <2>3 DEF TakeIn, Elsewhere, serverVars
<1>2. CASE HandleIn
  <2>1. Len(List) \in Nat
    BY <1>0, <1>2, LenProperties DEF HandleIn
  <2>2. curr \in 1 .. Len(List) /\ Rest("in") = From(List, curr)
        /\ Rest("in")' = From(List, curr + 1)
    BY <1>0, <1>2, <2>1 DEF HandleIn, Rest, From
  <2> QED
    BY <1>2, <2>2 DEF HandleIn, Elsewhere, serverVars
<1>3. CASE FreeIn
  <2>1. Len(List) \in Nat /\ curr = Len(List) + 1
    <3>1. Len(List) \in Nat
      BY <1>0, <1>3, LenProperties DEF FreeIn
    <3> QED
      BY <1>0, <1>3, <3>1 DEF FreeIn
  <2>2. Rest("in") = <<>>
    BY <1>0, <1>3, <2>1, FromEnds DEF FreeIn, Rest
  <2>3. Rest("in")' = <<>>
    BY <1>3 DEF FreeIn, Rest
  <2>4. chan' = chan /\ held'["recv"] = held["recv"]
    BY <1>0, <1>3, ChannelSteps DEF FreeIn
  <2> QED
    BY <1>3, <2>2, <2>3, <2>4 DEF FreeIn, InParts, Elsewhere, serverVars
<1>4. CASE TakeUi \/ FreeUi \/ PushLine \/ SubmitLine
  <2>1. Rest("in") = <<>> /\ Rest("in")' = <<>>
    BY <1>4 DEF TakeUi, FreeUi, PushLine, SubmitLine, Rest
  <2>2. chan'["QUEUE_IN"] = chan["QUEUE_IN"] /\ held'["recv"] = held["recv"]
    BY <1>0, <1>4, ChannelSteps DEF TakeUi, FreeUi, PushLine, SubmitLine
  <2> QED
    BY <1>4, <2>1, <2>2
       DEF TakeUi, FreeUi, PushLine, SubmitLine, InParts, Elsewhere, serverVars
<1>5. CASE HandleUi \/ Draw \/ ShutDown
  <2>1. Rest("in") = <<>> /\ Rest("in")' = <<>>
    BY <1>5 DEF HandleUi, Draw, ShutDown, Rest
  <2> QED
    BY <1>5, <2>1 DEF HandleUi, Draw, ShutDown, InParts, Elsewhere, serverVars
<1>6. CASE RecvLine \/ SubmitIn
  <2>1. held'["main"] = held["main"] /\ Rest("in")' = Rest("in")
    BY <1>0, <1>6, ChannelSteps DEF RecvLine, SubmitIn, NotMain, loopVars, Rest
  <2>2. CASE RecvLine
    BY <1>0, <2>1, <2>2, ChannelSteps DEF RecvLine, NotMain, serverVars
  <2>3. CASE SubmitIn
    BY <1>0, <2>1, <2>3, ChannelSteps DEF SubmitIn, NotMain, serverVars
  <2> QED
    BY <1>6, <2>2, <2>3
<1>7. CASE RecvClosed \/ RecvFails \/ ServerCloses
  <2>1. Rest("in")' = Rest("in")
    BY <1>7 DEF RecvClosed, RecvFails, ServerCloses, NotMain, loopVars, Rest
  <2> QED
    BY <1>7, <2>1
       DEF RecvClosed, RecvFails, ServerCloses, NotMain, serverVars, InParts
<1>8. CASE ServerSends
  <2>1. Rest("in")' = Rest("in")
    BY <1>8 DEF ServerSends, NotMain, loopVars, Rest
  <2> QED
    BY <1>8, <2>1 DEF ServerSends, NotMain
<1> QED
  BY <1>1, <1>2, <1>3, <1>4, <1>5, <1>6, <1>7, <1>8 DEF ClientNext, MainStep, RecvStep

(* Each line between the keyboard and its handler. *)
InHand == IF main = "submit" THEN List ELSE <<>>

LEMMA UiSteps ==
  ASSUME FlowTypeOK, ClientNext
  PROVE  \/ UNCHANGED <<UiParts, InHand>>
         \/ /\ TakeUi
            /\ Rest("ui") = <<>> /\ Rest("ui")' = chan["QUEUE_UI"] /\ chan'["QUEUE_UI"] = <<>>
            /\ UNCHANGED <<handledUi, typed, bye, InHand>>
         \/ /\ HandleUi
            /\ ~bye /\ curr \in 1 .. Len(List) /\ Rest("ui") = From(List, curr)
            /\ Rest("ui")' = From(List, curr + 1)
            /\ handledUi' = Append(handledUi, List[curr]) /\ bye' = Quits(List[curr])
            /\ UNCHANGED <<chan["QUEUE_UI"], typed, InHand>>
         \/ /\ FreeUi
            /\ bye /\ UNCHANGED <<handledUi, typed, bye>>
         \/ /\ PushLine
            /\ InHand = <<>> /\ UNCHANGED <<handledUi, Rest("ui"), chan["QUEUE_UI"], bye>>
            /\ \E l \in UserLines : InHand' = Append(<<>>, l) /\ typed' = Append(typed, l)
         \/ /\ SubmitLine
            /\ chan'["QUEUE_UI"] = chan["QUEUE_UI"] \o InHand /\ InHand' = <<>>
            /\ UNCHANGED <<handledUi, Rest("ui"), typed, bye>>
<1> USE DEF List
<1>0. /\ DOMAIN chan = {"QUEUE_IN", "QUEUE_UI"} /\ DOMAIN held = {"main", "recv"}
      /\ main \notin {"in", "ui", "submit"} => held["main"] = <<>>
      /\ main \in {"ui", "submit"} => held["main"] \in Seq(UserLines)
      /\ curr \in Nat \ {0} /\ (main \in {"in", "ui"} => curr <= Len(held["main"]) + 1)
      /\ chan["QUEUE_UI"] \in Seq(UserLines)
  BY DEF FlowTypeOK
<1>1. CASE TakeUi
  <2>1. held'["main"] = chan["QUEUE_UI"] /\ chan'["QUEUE_UI"] = <<>>
    BY <1>0, <1>1, ChannelSteps DEF TakeUi
  <2>2. Rest("ui") = <<>> /\ Rest("ui")' = From(chan["QUEUE_UI"], 1)
    BY <1>1, <2>1 DEF TakeUi, Rest, From
  <2>3. From(chan["QUEUE_UI"], 1) = chan["QUEUE_UI"]
    BY <1>0, FromEnds
  <2>4. UNCHANGED InHand
    BY <1>1 DEF TakeUi, InHand
  <2> QED
    BY <1>1, <2>1, <2>2, <2>3, <2>4 DEF TakeUi
<1>2. CASE HandleUi
  <2>1. Len(List) \in Nat
    BY <1>0, <1>2, LenProperties DEF HandleUi
  <2>2. curr \in 1 .. Len(List) /\ Rest("ui") = From(List, curr)
        /\ Rest("ui")' = From(List, curr + 1)
    BY <1>0, <1>2, <2>1 DEF HandleUi, Rest, From
  <2>3. UNCHANGED InHand
    BY <1>2 DEF HandleUi, InHand
  <2> QED
    BY <1>2, <2>2, <2>3 DEF HandleUi
<1>3. CASE FreeUi
  <2>1. UNCHANGED <<handledUi, typed, bye>>
    BY <1>3 DEF FreeUi
  <2>2. CASE bye
    BY <1>3, <2>1, <2>2
  <2>3. CASE ~bye
    <3>1. Len(List) \in Nat /\ curr = Len(List) + 1
      <4>1. Len(List) \in Nat
        BY <1>0, <1>3, LenProperties DEF FreeUi
      <4> QED
        BY <1>0, <1>3, <2>3, <4>1 DEF FreeUi
    <3>2. Rest("ui") = <<>> /\ Rest("ui")' = <<>>
      BY <1>0, <1>3, <3>1, FromEnds DEF FreeUi, Rest
    <3>3. chan' = chan /\ UNCHANGED InHand
      BY <1>3, ChannelSteps DEF FreeUi, InHand
    <3> QED
      BY <2>1, <3>2, <3>3 DEF UiParts
  <2> QED
    BY <2>2, <2>3
<1>4. CASE PushLine
  <2>1. PICK l \in UserLines : Channel!PushBack("main", l) /\ typed' = Append(typed, l)
    BY <1>4 DEF PushLine
  <2>2. chan' = chan /\ held'["main"] = Append(<<>>, l)
    BY <1>0, <1>4, <2>1, ChannelSteps DEF PushLine
  <2>3. InHand = <<>> /\ InHand' = Append(<<>>, l) /\ UNCHANGED Rest("ui")
    BY <1>4, <2>2 DEF PushLine, InHand, Rest
  <2> QED
    BY <1>4, <2>1, <2>2, <2>3 DEF PushLine
<1>5. CASE SubmitLine
  <2>1. chan'["QUEUE_UI"] = chan["QUEUE_UI"] \o held["main"]
    BY <1>5, ChannelSteps DEF SubmitLine
  <2>2. InHand = held["main"] /\ InHand' = <<>> /\ UNCHANGED Rest("ui")
    BY <1>5 DEF SubmitLine, InHand, Rest
  <2> QED
    BY <1>5, <2>1, <2>2 DEF SubmitLine
<1>6. CASE TakeIn \/ FreeIn
  <2>1. chan'["QUEUE_UI"] = chan["QUEUE_UI"]
    BY <1>0, <1>6, ChannelSteps DEF TakeIn, FreeIn
  <2>2. UNCHANGED <<InHand, Rest("ui")>>
    BY <1>6 DEF TakeIn, FreeIn, InHand, Rest
  <2> QED
    BY <1>6, <2>1, <2>2 DEF TakeIn, FreeIn, UiParts
<1>7. CASE HandleIn \/ Draw \/ ShutDown
  <2>1. UNCHANGED <<InHand, Rest("ui")>>
    BY <1>7 DEF HandleIn, Draw, ShutDown, InHand, Rest
  <2> QED
    BY <1>7, <2>1 DEF HandleIn, Draw, ShutDown, UiParts
<1>8. CASE RecvLine \/ SubmitIn \/ RecvClosed \/ RecvFails \/ ServerSends \/ ServerCloses
  <2>1. NotMain
    BY <1>8 DEF RecvLine, SubmitIn, RecvClosed, RecvFails, ServerSends, ServerCloses
  <2>2. held'["main"] = held["main"] /\ chan'["QUEUE_UI"] = chan["QUEUE_UI"]
    BY <1>0, <1>8, ChannelSteps
       DEF RecvLine, SubmitIn, RecvClosed, RecvFails, ServerSends, ServerCloses
  <2>3. UNCHANGED <<InHand, Rest("ui")>>
    BY <2>1, <2>2 DEF NotMain, loopVars, InHand, Rest
  <2> QED
    BY <2>1, <2>2, <2>3 DEF NotMain, loopVars, UiParts
<1> QED
  BY <1>1, <1>2, <1>3, <1>4, <1>5, <1>6, <1>7, <1>8 DEF ClientNext, MainStep, RecvStep

-----------------------------------------------------------------------------
(* Nothing is lost, doubled or reordered. *)

(* What main has still to handle are lines. *)
LEMMA PartTypes ==
  ASSUME FlowTypeOK
  PROVE  /\ Rest("in") \in Seq(ServerLines)
         /\ Rest("ui") \in Seq(UserLines) /\ InHand \in Seq(UserLines)
<1>1. ASSUME NEW S, List \in Seq(S), main \in {"in", "ui"}
      PROVE  From(List, curr) \in Seq(S)
  <2>1. Len(List) \in Nat
    BY <1>1, LenProperties
  <2>2. CASE curr = Len(List) + 1
    BY <1>1, <2>2, FromEnds, EmptySeq
  <2>3. CASE curr # Len(List) + 1
    <3>1. curr \in 1 .. Len(List)
      BY <1>1, <2>1, <2>3 DEF FlowTypeOK
    <3> QED
      BY <1>1, <3>1, FromStep
  <2> QED
    BY <2>2, <2>3
<1>2. Rest("in") \in Seq(ServerLines)
  BY <1>1 DEF FlowTypeOK, Rest
<1>3. Rest("ui") \in Seq(UserLines)
  BY <1>1 DEF FlowTypeOK, Rest
<1>4. InHand \in Seq(UserLines)
  BY DEF FlowTypeOK, InHand
<1> QED
  BY <1>2, <1>3, <1>4

(* The first line of what comes next may as well stand at the end of what    *)
(* was; and where the last element is appended does not matter.             *)
LEMMA Hand ==
  ASSUME NEW S, NEW a \in Seq(S), NEW b \in Seq(S), NEW e \in S
  PROVE  /\ a \o (<<e>> \o b) = Append(a, e) \o b
         /\ a \o Append(b, e) = Append(a \o b, e)
         /\ a \o b \in Seq(S)
<1>1. <<e>> \in Seq(S) /\ a \o b \in Seq(S)
  BY ConcatProperties
<1>2. Append(a, e) = a \o <<e>> /\ Append(b, e) = b \o <<e>>
      /\ Append(a \o b, e) = (a \o b) \o <<e>>
  BY <1>1, AppendIsConcat
<1>3. /\ a \o (<<e>> \o b) = (a \o <<e>>) \o b
      /\ a \o (b \o <<e>>) = (a \o b) \o <<e>>
  BY <1>1, ConcatAssociative
<1> QED
  BY <1>1, <1>2, <1>3

(* Lists in a row may be put together from either end. *)
LEMMA Associates ==
  ASSUME NEW S
  PROVE  /\ \A s, t, u \in Seq(S) : s \o (t \o u) = (s \o t) \o u
         /\ \A s, t \in Seq(S) : s \o t \in Seq(S)
<1>1. ASSUME NEW s \in Seq(S), NEW t \in Seq(S), NEW u \in Seq(S)
      PROVE  s \o (t \o u) = (s \o t) \o u
  BY ConcatAssociative
<1>2. ASSUME NEW s \in Seq(S), NEW t \in Seq(S)
      PROVE  s \o t \in Seq(S)
  BY ConcatProperties
<1> QED
  BY <1>1, <1>2, Zenon

(* Four of them. *)
LEMMA Regroup ==
  ASSUME NEW S, NEW a, NEW b, NEW c, NEW d,
         a \in Seq(S), b \in Seq(S), c \in Seq(S), d \in Seq(S)
  PROVE  /\ a \o b \o c \o d = a \o (b \o (c \o d))
         /\ b \o (c \o d) \in Seq(S)
<1> DEFINE ab == a \o b
           cd == c \o d
<1>2. ab \in Seq(S) /\ cd \in Seq(S)
  BY ConcatProperties
<1>3. a \o (b \o cd) = ab \o cd /\ b \o cd \in Seq(S)
  <2> HIDE DEF cd
  <2>1. a \o (b \o cd) = (a \o b) \o cd
    BY <1>2, Associates, SMTT(30)
  <2>2. b \o cd \in Seq(S)
    BY <1>2, ConcatProperties
  <2> QED
    BY <2>1, <2>2
<1>4. ab \o (c \o d) = (ab \o c) \o d
  <2>1. ab \in Seq(S)
    BY <1>2
  <2> HIDE DEF ab, cd
  <2>2. (ab \o c) \o d = ab \o (c \o d)
    BY <2>1, Associates, SMTT(30)
  <2> QED
    BY <2>2
<1> QED
  BY <1>3, <1>4

(* A step hands a line of the server on, or it leaves them all in place. *)
LEMMA ServerFlowStep ==
  ASSUME FlowTypeOK, ServerLinesFlow, ClientNext
  PROVE  ServerLinesFlow'
<1> DEFINE h == handledIn
           f == Rest("in")
           c == chan["QUEUE_IN"]
           r == held["recv"]
<1>0. /\ h \in Seq(ServerLines) /\ f \in Seq(ServerLines) /\ c \in Seq(ServerLines)
      /\ r \in Seq(ServerLines) /\ stream \in Seq(ServerLines)
      /\ received \in 0 .. Len(stream) /\ Len(stream) \in Nat
      /\ h \o f \in Seq(ServerLines) /\ h \o f \o c \in Seq(ServerLines)
  <2>1. /\ h \in Seq(ServerLines) /\ c \in Seq(ServerLines)
        /\ r \in Seq(ServerLines) /\ stream \in Seq(ServerLines)
        /\ received \in 0 .. Len(stream)
    BY DEF FlowTypeOK
  <2>2. f \in Seq(ServerLines)
    BY PartTypes
  <2>3. Len(stream) \in Nat
    BY <2>1, LenProperties
  <2> HIDE DEF h, f, c, r
  <2>4. h \o f \in Seq(ServerLines)
    BY <2>1, <2>2, ConcatProperties
  <2>5. h \o f \o c \in Seq(ServerLines)
    BY <2>1, <2>4, ConcatProperties
  <2> QED
    BY <2>1, <2>2, <2>3, <2>4, <2>5
<1>1. h \o f \o c \o r = SubSeq(stream, 1, received)
  BY DEF ServerLinesFlow
<1>2. ServerLinesFlow' <=> h' \o f' \o c' \o r' = SubSeq(stream', 1, received')
  BY DEF ServerLinesFlow
<1> HIDE DEF h, f, c, r
<1>3. CASE UNCHANGED <<h, f, c, r, stream, received>>
  BY <1>1, <1>2, <1>3
<1>4. CASE f = <<>> /\ f' = c /\ c' = <<>> /\ UNCHANGED <<h, r, stream, received>>
  <2>1. h \o f = h /\ (h \o c) \o <<>> = h \o c
    <3>1. h \o c \in Seq(ServerLines)
      BY <1>0, ConcatProperties
    <3> QED
      BY <1>0, <1>4, <3>1, ConcatEmptySeq
  <2> QED
    BY <1>1, <1>2, <1>4, <2>1
<1>5. ASSUME NEW l \in ServerLines, f = <<l>> \o f', f' \in Seq(ServerLines),
             h' = Append(h, l), UNCHANGED <<c, r, stream, received>>
      PROVE  ServerLinesFlow'
  <2>1. h \o (<<l>> \o f') = Append(h, l) \o f'
    <3>1. \A a, b \in Seq(ServerLines) : a \o (<<l>> \o b) = Append(a, l) \o b
      BY Hand
    <3>2. h \in Seq(ServerLines) /\ f' \in Seq(ServerLines)
      BY <1>0, <1>5
    <3> QED
      BY <3>1, <3>2, Zenon
  <2> QED
    BY <1>1, <1>2, <1>5, <2>1
<1>6. CASE /\ received < Len(stream) /\ received' = received + 1
           /\ r' = Append(r, stream[received + 1]) /\ UNCHANGED <<h, f, c, stream>>
  <2>1. /\ stream[received + 1] \in ServerLines
        /\ SubSeq(stream, 1, received + 1)
             = Append(SubSeq(stream, 1, received), stream[received + 1])
    BY <1>0, <1>6, PrefixNext
  <2> DEFINE a == h \o f \o c
             e == stream[received + 1]
  <2>2. a \in Seq(ServerLines) /\ e \in ServerLines
    BY <1>0, <2>1
  <2> HIDE DEF a, e
  <2>3. a \o Append(r, e) = Append(a \o r, e)
    BY <1>0, <2>2, Hand, SMTT(30)
  <2> QED
    BY <1>1, <1>2, <1>6, <2>1, <2>3 DEF a, e
<1>7. CASE c' = c \o r /\ r' = <<>> /\ UNCHANGED <<h, f, stream, received>>
  <2>1. (h \o f) \o (c \o r) = h \o f \o c \o r
    <3>1. \A s, t, u \in Seq(ServerLines) : s \o (t \o u) = (s \o t) \o u
      BY Associates
    <3>2. h \o f \in Seq(ServerLines) /\ c \in Seq(ServerLines) /\ r \in Seq(ServerLines)
      BY <1>0, ConcatProperties
    <3> QED
      BY <3>1, <3>2, Zenon
  <2>2. h \o f \o (c \o r) \o <<>> = h \o f \o (c \o r)
    <3>1. c \o r \in Seq(ServerLines)
      BY <1>0, ConcatProperties
    <3>2. (h \o f) \o (c \o r) \in Seq(ServerLines)
      BY <1>0, <3>1, ConcatProperties
    <3> QED
      BY <3>2, ConcatEmptySeq
  <2> QED
    BY <1>1, <1>2, <1>7, <2>1, <2>2
<1>8. ASSUME NEW l \in ServerLines, stream' = Append(stream, l),
             UNCHANGED <<h, f, c, r, received>>
      PROVE  ServerLinesFlow'
  BY <1>0, <1>1, <1>2, <1>8, PrefixGrows
<1>9. CASE HandleIn /\ curr \in 1 .. Len(List) /\ f = From(List, curr)
           /\ f' = From(List, curr + 1) /\ h' = Append(h, List[curr])
           /\ UNCHANGED <<c, r, stream, received>>
  <2>1. List \in Seq(ServerLines)
    BY <1>9 DEF HandleIn, FlowTypeOK
  <2>2. /\ List[curr] \in ServerLines /\ From(List, curr + 1) \in Seq(ServerLines)
        /\ From(List, curr) = <<List[curr]>> \o From(List, curr + 1)
    BY <1>9, <2>1, FromStep
  <2> QED
    BY <1>5, <1>9, <2>2
<1> QED
  BY <1>3, <1>4, <1>6, <1>7, <1>8, <1>9, InSteps DEF InParts, h, f, c, r

(* The same of the lines of the user, until the command to quit. *)
LEMMA UserFlowStep ==
  ASSUME FlowTypeOK, UserLinesFlow, ClientNext
  PROVE  UserLinesFlow' /\ Len(handledUi') <= Len(typed')
<1> DEFINE h == handledUi
           f == Rest("ui")
           c == chan["QUEUE_UI"]
           i == InHand
<1>0. /\ h \in Seq(UserLines) /\ f \in Seq(UserLines) /\ c \in Seq(UserLines)
      /\ i \in Seq(UserLines) /\ typed \in Seq(UserLines) /\ h \o f \in Seq(UserLines)
      /\ Len(h) \in Nat /\ Len(typed) \in Nat /\ Len(h) <= Len(typed)
      /\ DOMAIN h = 1 .. Len(h)
  <2>1. /\ h \in Seq(UserLines) /\ c \in Seq(UserLines) /\ typed \in Seq(UserLines)
        /\ Len(h) <= Len(typed)
    BY DEF FlowTypeOK
  <2>2. f \in Seq(UserLines) /\ i \in Seq(UserLines)
    BY PartTypes
  <2> HIDE DEF h, f, c, i
  <2>3. h \o f \in Seq(UserLines)
    BY <2>1, <2>2, ConcatProperties
  <2> QED
    BY <2>1, <2>2, <2>3, LenProperties
<1>1. /\ ~bye => h \o f \o c \o i = typed
      /\ h = SubSeq(typed, 1, Len(h))
      /\ \A k \in DOMAIN h : Quits(h[k]) => k = Len(h) /\ bye
  BY DEF UserLinesFlow, InHand
<1>2. UserLinesFlow' <=>
        /\ ~bye' => h' \o f' \o c' \o i' = typed'
        /\ h' = SubSeq(typed', 1, Len(h'))
        /\ \A k \in DOMAIN h' : Quits(h'[k]) => k = Len(h') /\ bye'
  BY DEF UserLinesFlow, InHand
<1>3. Len(handledUi') = Len(h')
  OBVIOUS
<1> HIDE DEF h, f, c, i
<1>4. CASE UNCHANGED <<h, f, c, i, typed, bye>>
  BY <1>0, <1>1, <1>2, <1>3, <1>4
<1>5. CASE f = <<>> /\ f' = c /\ c' = <<>> /\ UNCHANGED <<h, i, typed, bye>>
  <2>1. h \o f = h /\ (h \o c) \o <<>> = h \o c
    <3>1. h \o c \in Seq(UserLines)
      BY <1>0, ConcatProperties
    <3> QED
      BY <1>0, <1>5, <3>1, ConcatEmptySeq
  <2> QED
    BY <1>0, <1>1, <1>2, <1>3, <1>5, <2>1
<1>6. ASSUME NEW l \in UserLines, ~bye, f = <<l>> \o f', f' \in Seq(UserLines),
             h' = Append(h, l), bye' = Quits(l), UNCHANGED <<c, i, typed>>
      PROVE  UserLinesFlow' /\ Len(handledUi') <= Len(typed')
  <2>1. h \o (<<l>> \o f') = Append(h, l) \o f'
    <3>1. \A a, b \in Seq(UserLines) : a \o (<<l>> \o b) = Append(a, l) \o b
      BY Hand
    <3>2. h \in Seq(UserLines) /\ f' \in Seq(UserLines)
      BY <1>0, <1>6
    <3> QED
      BY <3>1, <3>2, Zenon
  <2>2. h' \o f' \o c \o i = typed
    BY <1>1, <1>6, <2>1
  <2>3. /\ h' \in Seq(UserLines) /\ Len(h') = Len(h) + 1
        /\ \A k \in 1 .. Len(h) : h'[k] = h[k]
        /\ h'[Len(h) + 1] = l
    BY <1>0, <1>6, AppendProperties
  <2> DEFINE rest == f' \o (c \o i)
  <2>4. rest \in Seq(UserLines) /\ h' \o rest = typed
    <3>1. /\ h' \o f' \o c \o i = h' \o (f' \o (c \o i))
          /\ f' \o (c \o i) \in Seq(UserLines)
      <4>1. h' \in Seq(UserLines) /\ f' \in Seq(UserLines)
        BY <1>6, <2>3
      <4> QED
        BY <1>0, <4>1, Regroup, Zenon
    <3> QED
      BY <2>2, <3>1
  <2> HIDE DEF rest
  <2>5. h' = SubSeq(typed, 1, Len(h'))
    BY <2>3, <2>4, ConcatPrefix
  <2>6. Len(h') <= Len(typed)
    <3>1. Len(h' \o rest) = Len(h') + Len(rest) /\ Len(rest) \in Nat
      BY <2>3, <2>4, ConcatProperties, LenProperties
    <3> QED
      BY <1>0, <2>3, <2>4, <3>1
  <2>7. ASSUME NEW k \in DOMAIN h', Quits(h'[k])
        PROVE  k = Len(h') /\ bye'
    <3>1. DOMAIN h' = 1 .. Len(h) + 1
      BY <2>3, LenProperties
    <3>2. CASE k = Len(h) + 1
      BY <1>6, <2>3, <2>7, <3>2
    <3>3. CASE k # Len(h) + 1
      <4>1. k \in DOMAIN h /\ h'[k] = h[k]
        BY <1>0, <2>3, <3>1, <3>3
      <4> QED
        BY <1>1, <1>6, <2>7, <4>1
    <3> QED
      BY <3>2, <3>3
  <2>8. ~bye' => h' \o f' \o c' \o i' = typed'
    BY <1>6, <2>2
  <2> QED
    BY <1>2, <1>3, <1>6, <2>5, <2>6, <2>7, <2>8
<1>7. CASE bye /\ UNCHANGED <<h, typed, bye>>
  BY <1>0, <1>1, <1>2, <1>3, <1>7
<1>8. ASSUME NEW l \in UserLines, i = <<>>, i' = Append(<<>>, l), typed' = Append(typed, l),
             UNCHANGED <<h, f, c, bye>>
      PROVE  UserLinesFlow' /\ Len(handledUi') <= Len(typed')
  <2> DEFINE a == h \o f \o c
  <2>1. a \in Seq(UserLines)
    BY <1>0, ConcatProperties
  <2>2. ~bye => a \o <<>> = typed
    BY <1>1, <1>8
  <2>3. ~bye' => h' \o f' \o c' \o i' = a \o Append(<<>>, l)
    BY <1>8
  <2> HIDE DEF a
  <2>4. a \o Append(<<>>, l) = Append(a \o <<>>, l)
    <3>1. <<>> \in Seq(UserLines)
      BY EmptySeq
    <3> QED
      BY <2>1, <3>1, Hand
  <2>5. ~bye' => h' \o f' \o c' \o i' = typed'
    BY <1>8, <2>2, <2>3, <2>4
  <2>6. SubSeq(typed', 1, Len(h)) = SubSeq(typed, 1, Len(h))
    <3>1. Len(h) \in 0 .. Len(typed)
      BY <1>0
    <3> QED
      BY <1>0, <1>8, <3>1, PrefixGrows
  <2>7. Len(typed') = Len(typed) + 1
    BY <1>0, <1>8, AppendProperties
  <2> QED
    BY <1>0, <1>1, <1>2, <1>3, <1>8, <2>5, <2>6, <2>7, SMTT(30)
<1>9. CASE c' = c \o i /\ i' = <<>> /\ UNCHANGED <<h, f, typed, bye>>
  <2>1. /\ (h \o f) \o (c \o i) = h \o f \o c \o i
        /\ (h \o f) \o (c \o i) \o <<>> = (h \o f) \o (c \o i)
    <3>1. \A s, t, u \in Seq(UserLines) : s \o (t \o u) = (s \o t) \o u
      BY Associates
    <3>2. (h \o f) \o (c \o i) = h \o f \o c \o i
      <4>1. h \o f \in Seq(UserLines) /\ c \in Seq(UserLines) /\ i \in Seq(UserLines)
        BY <1>0, ConcatProperties
      <4> QED
        BY <3>1, <4>1, Zenon
    <3>3. c \o i \in Seq(UserLines)
      BY <1>0, ConcatProperties
    <3>4. (h \o f) \o (c \o i) \in Seq(UserLines)
      BY <1>0, <3>3, ConcatProperties
    <3> QED
      BY <3>2, <3>4, ConcatEmptySeq
  <2> QED
    BY <1>0, <1>1, <1>2, <1>3, <1>9, <2>1
<1>10. CASE HandleUi /\ ~bye /\ curr \in 1 .. Len(List) /\ f = From(List, curr)
            /\ f' = From(List, curr + 1) /\ h' = Append(h, List[curr])
            /\ bye' = Quits(List[curr]) /\ UNCHANGED <<c, i, typed>>
  <2>1. List \in Seq(UserLines)
    BY <1>10 DEF HandleUi, FlowTypeOK
  <2>2. /\ List[curr] \in UserLines /\ From(List, curr + 1) \in Seq(UserLines)
        /\ From(List, curr) = <<List[curr]>> \o From(List, curr + 1)
    BY <1>10, <2>1, FromStep
  <2> QED
    BY <1>6, <1>10, <2>2
<1> QED
  BY <1>4, <1>5, <1>7, <1>8, <1>9, <1>10, UiSteps DEF UiParts, h, f, c, i

-----------------------------------------------------------------------------
(* The types. *)

(* Every step keeps the types. *)
LEMMA FlowTypeStep ==
  ASSUME FlowTypeOK, UserLinesFlow, ClientNext
  PROVE  FlowTypeOK'
<1> USE DEF List, Places
<1>0. /\ DOMAIN chan = {"QUEUE_IN", "QUEUE_UI"} /\ DOMAIN held = {"main", "recv"}
      /\ chan["QUEUE_IN"] \in Seq(ServerLines) /\ chan["QUEUE_UI"] \in Seq(UserLines)
      /\ held["recv"] \in Seq(ServerLines)
      /\ main \in Places
      /\ main \notin {"in", "ui", "submit"} => held["main"] = <<>>
      /\ main = "in" => held["main"] \in Seq(ServerLines)
      /\ main \in {"ui", "submit"} => held["main"] \in Seq(UserLines)
      /\ curr \in Nat \ {0} /\ (main \in {"in", "ui"} => curr <= Len(held["main"]) + 1)
      /\ bye \in BOOLEAN /\ receiver \in {"running", "returned"} /\ open \in BOOLEAN
      /\ stream \in Seq(ServerLines) /\ typed \in Seq(UserLines)
      /\ handledIn \in Seq(ServerLines) /\ handledUi \in Seq(UserLines)
      /\ received \in 0 .. Len(stream)
  BY DEF FlowTypeOK
<1> DEFINE Queues ==
             /\ DOMAIN chan = {"QUEUE_IN", "QUEUE_UI"}
             /\ chan["QUEUE_IN"] \in Seq(ServerLines) /\ chan["QUEUE_UI"] \in Seq(UserLines)
           Lists ==
             /\ DOMAIN held = {"main", "recv"} /\ held["recv"] \in Seq(ServerLines)
             /\ main \in Places
             /\ main \notin {"in", "ui", "submit"} => held["main"] = <<>>
             /\ main = "in" => held["main"] \in Seq(ServerLines)
             /\ main \in {"ui", "submit"} => held["main"] \in Seq(UserLines)
             /\ curr \in Nat \ {0} /\ (main \in {"in", "ui"} => curr <= Len(held["main"]) + 1)
           Others ==
             /\ bye \in BOOLEAN /\ receiver \in {"running", "returned"} /\ open \in BOOLEAN
             /\ stream \in Seq(ServerLines) /\ typed \in Seq(UserLines)
             /\ handledIn \in Seq(ServerLines) /\ handledUi \in Seq(UserLines)
             /\ received \in 0 .. Len(stream)
<1>1. Len(handledUi') <= Len(typed')
  BY UserFlowStep
<1>2. SUFFICES Queues' /\ Lists' /\ Others'
  BY <1>1, <1>2 DEF FlowTypeOK
<1>3. Len(stream) \in Nat /\ \A S : \A s \in Seq(S) : Len(s) \in Nat
  BY <1>0, LenProperties
<1>4. <<>> \in Seq(ServerLines) /\ <<>> \in Seq(UserLines)
  BY EmptySeq
<1>5. CASE TakeIn \/ TakeUi
  <2>1. Queues'
    BY <1>0, <1>4, <1>5, ChannelSteps DEF TakeIn, TakeUi
  <2>2. Lists'
    BY <1>0, <1>3, <1>5, ChannelSteps DEF TakeIn, TakeUi
  <2>3. Others'
    BY <1>0, <1>5 DEF TakeIn, TakeUi, Elsewhere, serverVars
  <2> QED
    BY <2>1, <2>2, <2>3
<1>6. CASE HandleIn \/ HandleUi
  <2>1. Queues'
    BY <1>0, <1>6 DEF HandleIn, HandleUi
  <2>2. Len(held["main"]) \in Nat
    BY <1>0, <1>6, LenProperties DEF HandleIn, HandleUi
  <2>3. Lists'
    BY <1>0, <1>6, <2>2, SMTT(30) DEF HandleIn, HandleUi
  <2>4. /\ HandleIn => held["main"][curr] \in ServerLines
        /\ HandleUi => held["main"][curr] \in UserLines
    BY <1>0, <2>2, FromStep DEF HandleIn, HandleUi
  <2>5. /\ handledIn' \in Seq(ServerLines)
        /\ handledUi' \in Seq(UserLines)
        /\ bye' \in BOOLEAN
    <3>1. CASE HandleIn
      <4>1. UNCHANGED <<handledUi, bye>> /\ handledIn' = Append(handledIn, held["main"][curr])
        BY <3>1 DEF HandleIn
      <4> QED
        BY <1>0, <2>4, <3>1, <4>1, AppendProperties
    <3>2. CASE HandleUi
      <4>1. /\ UNCHANGED handledIn
            /\ handledUi' = Append(handledUi, held["main"][curr])
            /\ bye' = Quits(held["main"][curr])
        BY <3>2 DEF HandleUi
      <4>2. bye' \in BOOLEAN
        BY <4>1 DEF Quits
      <4> QED
        BY <1>0, <2>4, <3>2, <4>1, <4>2, AppendProperties
    <3> QED
      BY <1>6, <3>1, <3>2
  <2>6. UNCHANGED <<receiver, open, stream, typed, received>>
    BY <1>6 DEF HandleIn, HandleUi, Elsewhere, serverVars
  <2> QED
    BY <1>0, <2>1, <2>3, <2>5, <2>6
<1>7. CASE FreeIn \/ FreeUi
  <2>1. Queues'
    BY <1>0, <1>7, ChannelSteps DEF FreeIn, FreeUi
  <2>2. Lists'
    BY <1>0, <1>7, ChannelSteps DEF FreeIn, FreeUi
  <2>3. Others'
    BY <1>0, <1>7 DEF FreeIn, FreeUi, Elsewhere, serverVars
  <2> QED
    BY <2>1, <2>2, <2>3
<1>8. CASE PushLine
  <2>1. PICK l \in UserLines : Channel!PushBack("main", l) /\ typed' = Append(typed, l)
    BY <1>8 DEF PushLine
  <2>2. chan' = chan /\ DOMAIN held' = DOMAIN held /\ held'["main"] = Append(<<>>, l)
        /\ held'["recv"] = held["recv"]
    BY <1>0, <1>8, <2>1, ChannelSteps DEF PushLine
  <2>3. Append(<<>>, l) \in Seq(UserLines) /\ typed' \in Seq(UserLines)
    BY <1>0, <1>4, <2>1, AppendProperties
  <2>4. Lists'
    BY <1>0, <1>8, <2>2, <2>3 DEF PushLine
  <2>5. Others'
    BY <1>0, <1>8, <2>3 DEF PushLine, Elsewhere, serverVars
  <2> QED
    BY <1>0, <2>2, <2>4, <2>5
<1>9. CASE SubmitLine
  <2>1. chan["QUEUE_UI"] \o held["main"] \in Seq(UserLines)
    BY <1>0, <1>9, ConcatProperties DEF SubmitLine
  <2>2. Queues'
    BY <1>0, <1>9, <2>1, ChannelSteps DEF SubmitLine
  <2>3. Lists'
    BY <1>0, <1>9, ChannelSteps DEF SubmitLine
  <2>4. Others'
    BY <1>0, <1>9 DEF SubmitLine, Elsewhere, serverVars
  <2> QED
    BY <2>2, <2>3, <2>4
<1>10. CASE Draw \/ ShutDown
  BY <1>0, <1>10 DEF Draw, ShutDown, Elsewhere, serverVars
<1>11. CASE RecvLine
  <2>1. stream[received + 1] \in ServerLines
    BY <1>0, <1>3, <1>11, PrefixNext DEF RecvLine
  <2>2. Append(held["recv"], stream[received + 1]) \in Seq(ServerLines)
    BY <1>0, <2>1, AppendProperties
  <2>3. Queues'
    BY <1>0, <1>11, ChannelSteps DEF RecvLine
  <2>4. Lists'
    BY <1>0, <1>11, <2>2, ChannelSteps DEF RecvLine, NotMain, loopVars
  <2>5. Others'
    BY <1>0, <1>3, <1>11 DEF RecvLine, NotMain, loopVars, serverVars
  <2> QED
    BY <2>3, <2>4, <2>5
<1>12. CASE SubmitIn
  <2>1. chan["QUEUE_IN"] \o held["recv"] \in Seq(ServerLines)
    BY <1>0, ConcatProperties
  <2>2. Queues'
    BY <1>0, <1>12, <2>1, ChannelSteps DEF SubmitIn
  <2>3. Lists'
    BY <1>0, <1>4, <1>12, ChannelSteps DEF SubmitIn, NotMain, loopVars
  <2>4. Others'
    BY <1>0, <1>12 DEF SubmitIn, NotMain, loopVars, serverVars
  <2> QED
    BY <2>2, <2>3, <2>4
<1>13. CASE RecvClosed \/ RecvFails \/ ServerCloses
  BY <1>0, <1>13 DEF RecvClosed, RecvFails, ServerCloses, NotMain, loopVars, serverVars
<1>14. CASE ServerSends
  <2>1. PICK l \in ServerLines : stream' = Append(stream, l)
    BY <1>14 DEF ServerSends
  <2>2. stream' \in Seq(ServerLines) /\ Len(stream') = Len(stream) + 1
    BY <1>0, <2>1, AppendProperties
  <2>3. received' \in 0 .. Len(stream')
    BY <1>0, <1>3, <1>14, <2>2 DEF ServerSends
  <2> QED
    BY <1>0, <1>14, <2>2, <2>3 DEF ServerSends, NotMain, loopVars
<1> QED
  BY <1>5, <1>6, <1>7, <1>8, <1>9, <1>10, <1>11, <1>12, <1>13, <1>14
     DEF ClientNext, MainStep, RecvStep

-----------------------------------------------------------------------------
(* The loop handles lines as Handlers does, one at a time. *)

(* A step handles the line that main is at, or it leaves the screens alone. *)
LEMMA Handling ==
  ASSUME FlowTypeOK, ClientNext
  PROVE  /\ ~aborted
         /\ \/ UNCHANGED handlerVars
            \/ HandleIn /\ List[curr] \in ServerLines /\ HandleIrcMsg(List[curr])
            \/ HandleUi /\ List[curr] \in UserLines /\ HandleUserCommand(List[curr])
<1>0. ~aborted
  BY DEF ClientNext, Running
<1>1. CASE HandleIn
  <2>1. List \in Seq(ServerLines) /\ Len(List) \in Nat /\ curr \in 1 .. Len(List)
    BY <1>1, LenProperties DEF HandleIn, FlowTypeOK
  <2>2. List[curr] \in ServerLines
    BY <2>1, FromStep
  <2> QED
    BY <1>0, <1>1, <2>2 DEF HandleIn
<1>2. CASE HandleUi
  <2>1. List \in Seq(UserLines) /\ Len(List) \in Nat /\ curr \in 1 .. Len(List)
    BY <1>2, LenProperties DEF HandleUi, FlowTypeOK
  <2>2. List[curr] \in UserLines
    BY <2>1, FromStep
  <2> QED
    BY <1>0, <1>2, <2>2 DEF HandleUi
<1>3. CASE TakeIn \/ FreeIn \/ TakeUi \/ FreeUi \/ PushLine \/ SubmitLine \/ Draw \/ ShutDown
  BY <1>0, <1>3 DEF TakeIn, FreeIn, TakeUi, FreeUi, PushLine, SubmitLine, Draw, ShutDown
<1>4. CASE RecvStep \/ RecvFails \/ ServerSends \/ ServerCloses
  BY <1>0, <1>4 DEF RecvStep, RecvLine, SubmitIn, RecvClosed, RecvFails, ServerSends,
                    ServerCloses, NotMain
<1> QED
  BY <1>1, <1>2, <1>3, <1>4 DEF ClientNext, MainStep

(* A step of the client is one of the handlers, or a stutter. *)
LEMMA HandlersSimulated ==
  ASSUME FlowTypeOK, [ClientNext \/ ClientEnded]_clientVars
  PROVE  [HandlersNext \/ HandlersEnded]_handlerVars
<1>1. CASE ClientNext
  BY <1>1, Handling DEF HandlersNext
<1>2. CASE ClientEnded \/ UNCHANGED clientVars
  BY <1>2 DEF ClientEnded, clientVars
<1> QED
  BY <1>1, <1>2

-----------------------------------------------------------------------------
(* Quitting. *)

(* A QUIT that was not typed raw is the end of what was sent, and then the     *)
(* user has quit.                                                             *)
QuitIsLast ==
  \A k \in DOMAIN sent :
    sent[k].cmd = "QUIT" /\ ~sent[k].raw => k = Len(sent) /\ bye

(* Only the command to quit sends it. *)
LEMMA SendsQuit ==
  ASSUME NEW l \in UserLines, HandleUserCommand(l)
  PROVE  \/ UNCHANGED sent
         \/ \E c : sent' = Append(sent, c) /\ (c.cmd = "QUIT" /\ ~c.raw => Quits(l))
<1>1. ASSUME NEW cmd, NEW to, TrySend(cmd, to, l),
             cmd = "QUIT" => Quits(l) \/ l.prefix = "backquote"
      PROVE  \E c : sent' = Append(sent, c) /\ (c.cmd = "QUIT" /\ ~c.raw => Quits(l))
  <2> DEFINE c == Sending(cmd, to, l)
  <2>1. /\ sent' = Append(sent, c) /\ c.cmd = cmd
        /\ c.raw <=> l.prefix = "backquote"
    BY <1>1 DEF TrySend, Sending
  <2> HIDE DEF c
  <2> QED
    BY <1>1, <2>1
<1>2. CASE HandleQuit(l)
  BY <1>1, <1>2 DEF HandleQuit, SendFails
<1>3. CASE HandleChannel(l) \/ HandleJoin(l) \/ HandleLiteral(l) \/ HandleChat(l)
  BY <1>1, <1>3 DEF HandleChannel, HandleJoin, HandleLiteral, HandleChat, SendFails
<1>4. CASE HandleShow(l) \/ HandleUnknown(l)
  BY <1>4 DEF HandleShow, HandleUnknown, handlerVars
<1> QED
  BY <1>2, <1>3, <1>4 DEF HandleUserCommand

(* Nothing is handled, and so nothing sent, once the user has quit. *)
LEMMA QuitStep ==
  ASSUME FlowTypeOK, HandlersInv, QuitIsLast, ClientNext
  PROVE  QuitIsLast'
<1>1. CASE UNCHANGED <<sent, bye>>
  BY <1>1 DEF QuitIsLast
<1>2. CASE HandleUi /\ List[curr] \in UserLines /\ HandleUserCommand(List[curr])
  <2> DEFINE l == List[curr]
  <2>1. ~bye /\ bye' = Quits(l)
    BY <1>2 DEF HandleUi
  <2>2. /\ sent \in Seq(Sendable) /\ DOMAIN sent = 1 .. Len(sent) /\ Len(sent) \in Nat
        /\ \A k \in DOMAIN sent : sent[k].cmd # "QUIT" \/ sent[k].raw
    BY <2>1, LenProperties DEF HandlersInv, QuitIsLast
  <2>3. CASE UNCHANGED sent
    BY <2>2, <2>3 DEF QuitIsLast
  <2>4. ASSUME NEW c, sent' = Append(sent, c), c.cmd = "QUIT" /\ ~c.raw => Quits(l)
        PROVE  QuitIsLast'
    <3>1. /\ DOMAIN sent' = 1 .. Len(sent) + 1 /\ Len(sent') = Len(sent) + 1
          /\ \A k \in 1 .. Len(sent) : sent'[k] = sent[k]
          /\ sent'[Len(sent) + 1] = c
      <4>1. HandlersInv'
        <5>1. [HandlersNext \/ HandlersEnded]_handlerVars
          BY HandlersSimulated
        <5> QED
          BY <5>1, LineStep
      <4>2. sent' \in Seq(Sendable)
        BY <4>1 DEF HandlersInv
      <4> HIDE DEF l
      <4> QED
        BY <2>2, <2>4, <4>2, AppendProperties, LenProperties
    <3> HIDE DEF l
    <3>2. ASSUME NEW k \in DOMAIN sent', sent'[k].cmd = "QUIT", ~sent'[k].raw
          PROVE  k = Len(sent') /\ bye'
      <4>1. k = Len(sent) + 1
        BY <2>2, <3>1, <3>2
      <4> QED
        BY <2>1, <2>4, <3>1, <3>2, <4>1
    <3> QED
      BY <3>2 DEF QuitIsLast
  <2> QED
    BY <1>2, <2>3, <2>4, SendsQuit
<1>3. HandleIrcMsg(List[curr]) => UNCHANGED sent
  BY DEF HandleIrcMsg
<1>4. bye' = bye \/ HandleUi
  BY UiSteps DEF UiParts
<1>5. HandleIn => bye' = bye
  BY DEF HandleIn
<1>6. ~HandleUi \/ (List[curr] \in UserLines /\ HandleUserCommand(List[curr]))
  BY Handling DEF HandleUi, handlerVars, FlowTypeOK, HandleIn
<1> QED
  BY <1>1, <1>2, <1>3, <1>4, <1>5, <1>6, Handling DEF handlerVars

-----------------------------------------------------------------------------
(* The client, for any server, any user and any queue lengths. *)

(* The inductive invariant. *)
ClientInv ==
  /\ FlowTypeOK /\ ServerLinesFlow /\ UserLinesFlow
  /\ HandlersInv /\ QuitIsLast

(* It holds at the start. *)
LEMMA ClientInitial == ClientInit => ClientInv
<1> SUFFICES ASSUME ClientInit PROVE ClientInv
  OBVIOUS
<1>1. /\ chan = [q \in {"QUEUE_IN", "QUEUE_UI"} |-> <<>>]
      /\ held = [t \in {"main", "recv"} |-> <<>>]
  BY DEF ClientInit, Channel!Init
<1>2. /\ \A S : <<>> \in Seq(S)
      /\ Len(<<>>) = 0 /\ DOMAIN <<>> = {}
  BY EmptySeq
<1>3. FlowTypeOK
  <2>1. /\ DOMAIN chan = {"QUEUE_IN", "QUEUE_UI"} /\ DOMAIN held = {"main", "recv"}
        /\ chan["QUEUE_IN"] = <<>> /\ chan["QUEUE_UI"] = <<>>
        /\ held["main"] = <<>> /\ held["recv"] = <<>>
    BY <1>1
  <2>2. /\ main = "take_in" /\ curr = 1 /\ bye = FALSE /\ receiver = "running"
        /\ open = TRUE /\ stream = <<>> /\ received = 0 /\ typed = <<>>
        /\ handledIn = <<>> /\ handledUi = <<>>
    BY DEF ClientInit
  <2>3. received \in 0 .. Len(stream) /\ Len(handledUi) <= Len(typed)
    BY <1>2, <2>2
  <2>4. <<>> \in Seq(ServerLines) /\ <<>> \in Seq(UserLines)
    BY <1>2
  <2>5. /\ chan["QUEUE_IN"] \in Seq(ServerLines) /\ chan["QUEUE_UI"] \in Seq(UserLines)
        /\ held["recv"] \in Seq(ServerLines)
        /\ stream \in Seq(ServerLines) /\ typed \in Seq(UserLines)
        /\ handledIn \in Seq(ServerLines) /\ handledUi \in Seq(UserLines)
    BY <2>1, <2>2, <2>4, Zenon
  <2>6. /\ main \in Places /\ main \notin {"in", "ui", "submit"}
        /\ curr \in Nat \ {0}
    BY <2>2 DEF Places
  <2>7. bye \in BOOLEAN /\ receiver \in {"running", "returned"} /\ open \in BOOLEAN
    BY <2>2
  <2> QED
    BY <2>1, <2>3, <2>5, <2>6, <2>7 DEF FlowTypeOK, List
<1>4. Rest("in") = <<>> /\ Rest("ui") = <<>>
  BY DEF ClientInit, Rest
<1>5. <<>> \o <<>> = <<>> /\ SubSeq(<<>>, 1, 0) = <<>>
  <2>1. <<>> \in Seq({}) /\ 1 \in Int /\ 0 \in Int
    BY <1>2
  <2> QED
    BY <2>1, ConcatEmptySeq, SubSeqEmpty
<1>6. ServerLinesFlow
  BY <1>1, <1>4, <1>5 DEF ClientInit, ServerLinesFlow
<1>7. UserLinesFlow
  BY <1>1, <1>2, <1>4, <1>5 DEF ClientInit, UserLinesFlow
<1>8. HandlersInv
  BY HandlersStart DEF ClientInit
<1>9. QuitIsLast
  BY <1>2 DEF ClientInit, HandlersInit, QuitIsLast
<1> QED
  BY <1>3, <1>6, <1>7, <1>8, <1>9 DEF ClientInv

(* Every step keeps it. *)
LEMMA ClientStep ==
  ClientInv /\ [ClientNext \/ ClientEnded]_clientVars => ClientInv'
<1> SUFFICES ASSUME ClientInv, [ClientNext \/ ClientEnded]_clientVars PROVE ClientInv'
  OBVIOUS
<1>1. HandlersInv'
  <2>1. [HandlersNext \/ HandlersEnded]_handlerVars
    BY HandlersSimulated DEF ClientInv
  <2> QED
    BY <2>1, LineStep DEF ClientInv
<1>2. CASE ClientNext
  <2>1. FlowTypeOK' /\ ServerLinesFlow' /\ UserLinesFlow'
    BY <1>2, FlowTypeStep, ServerFlowStep, UserFlowStep DEF ClientInv
  <2>2. QuitIsLast'
    BY <1>2, QuitStep DEF ClientInv
  <2> QED
    BY <1>1, <2>1, <2>2 DEF ClientInv
<1>3. CASE ClientEnded \/ UNCHANGED clientVars
  <2>1. UNCHANGED <<scrVars, sent, chan, held, main, curr, bye, receiver, open, stream,
                    received, typed, handledIn, handledUi>>
    BY <1>3 DEF ClientEnded, clientVars, handlerVars, loopVars, serverVars, historyVars
  <2>2. FlowTypeOK' /\ ServerLinesFlow' /\ UserLinesFlow'
    BY <2>1 DEF ClientInv, FlowTypeOK, List, ServerLinesFlow, UserLinesFlow, Rest
  <2>3. QuitIsLast'
    BY <2>1 DEF ClientInv, QuitIsLast
  <2> QED
    BY <1>1, <2>2, <2>3 DEF ClientInv
<1> QED
  BY <1>2, <1>3

(* Whatever the server, the user and the threads do, it holds. *)
THEOREM ClientInductive == ClientSpec => []ClientInv
BY ClientInitial, ClientStep, PTL DEF ClientSpec

(* The types. *)
THEOREM ClientTypeCorrect == ClientSpec => []ClientTypeOK
<1>1. ClientInv => ClientTypeOK
  <2> SUFFICES ASSUME ClientInv PROVE ClientTypeOK
    OBVIOUS
  <2>1. HandlersTypeOK
    BY DEF ClientInv, HandlersInv, IInv, HandlersTypeOK
  <2>2. \A S : <<>> \in Seq(S)
    BY EmptySeq
  <2>3. List \in Seq(IF main \in {"take_in", "in"} THEN ServerLines ELSE UserLines)
    BY <2>2 DEF ClientInv, FlowTypeOK, Places
  <2> QED
    BY <2>1, <2>3 DEF ClientInv, FlowTypeOK, Places, ClientTypeOK
<1> QED
  BY <1>1, ClientInductive, PTL

(* The main loop handles lines as Handlers allows it: all that is proved of   *)
(* HandlersSpec and of the screens holds while the threads run.               *)
THEOREM ClientRunsHandlers == ClientSpec => HandlersSpec
<1>1. ClientInit => HandlersInit
  BY DEF ClientInit
<1>2. ClientInv /\ [ClientNext \/ ClientEnded]_clientVars
        => [HandlersNext \/ HandlersEnded]_handlerVars
  BY HandlersSimulated DEF ClientInv
<1> QED
  BY <1>1, <1>2, ClientInductive, PTL DEF ClientSpec, HandlersSpec

(* No line that was received is lost, doubled or reordered before it is       *)
(* handled, however the threads take turns.                                   *)
THEOREM ServerLinesInOrder == ClientSpec => []ServerLinesFlow
<1>1. ClientInv => ServerLinesFlow
  BY DEF ClientInv
<1> QED
  BY <1>1, ClientInductive, PTL

(* Nor is a line of the user before the command to quit, and no line behind   *)
(* that one is handled.                                                       *)
THEOREM UserLinesInOrder == ClientSpec => []UserLinesFlow
<1>1. ClientInv => UserLinesFlow
  BY DEF ClientInv
<1> QED
  BY <1>1, ClientInductive, PTL

(* The QUIT of !quit is the last command that the server gets.                *)
THEOREM QuitComesLast == ClientSpec => []NothingAfterQuit
<1>1. ClientInv => NothingAfterQuit
  BY DEF ClientInv, QuitIsLast, NothingAfterQuit
<1> QED
  BY <1>1, ClientInductive, PTL
=============================================================================
