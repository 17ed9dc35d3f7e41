------------------------------ MODULE Screens -------------------------------
(***************************************************************************)
(* The screens of src/screen_framework.c: home and one per joined channel  *)
(* in N_SCRSLOTS slots, found by name whatever its case.  One is active;   *)
(* what is delivered goes to the screen of that name, or else to home.  An *)
(* action is one call of the scrmgr_ interface.                            *)
(***************************************************************************)
EXTENDS LogBound

CONSTANTS
  Names,       (* names of channels, users and screens                     *)
  Key,         (* names with the same key are equal for strut_strcmpi      *)
  Begins,      (* Begins[p]: the names that strut_startswithi finds for p  *)
  NameLen,     (* strlen() of a name                                       *)
  NameMax,     (* CHANNEL_NAME_MAXLEN, the bytes of screen.name            *)
  Home,        (* "home"                                                   *)
  Topics,
  LongTopics,  (* topics that do not fit screen.topic with their NUL       *)
  NSlots,      (* N_SCRSLOTS                                               *)
  None         (* no screen in the slot, no topic set                      *)

ASSUME NamesAndSlots ==
  /\ Home \in Names /\ None \notin Names
  /\ DOMAIN Key = Names
  /\ NSlots \in Nat \ {0}
  /\ \A m \in Msgs : m.to \in Names

Slots == 0 .. NSlots - 1

(* A topic with the name of the channel it was set for; a message of Msgs is *)
(* a record too, of a text and the name that it is delivered to.             *)
Titles == [to : Names, text : Topics]

VARIABLES
  name,     (* name[i]: the name of the screen in slot i, or None          *)
  topic,    (* the topic that was set for it, or None                      *)
  log,      (* its log                                                     *)
  unread,   (* its unread mark                                             *)
  active,   (* the slot of s_scr_active                                    *)
  aborted,  (* strcpy_s or an assertion has ended the program              *)
  missed    (* history: where something came in since it was last active   *)

scrVars == <<name, topic, log, unread, active, aborted, missed>>

Init ==
  /\ name = [i \in Slots |-> IF i = 0 THEN Home ELSE None]
  /\ topic = [i \in Slots |-> None]
  /\ log = [i \in Slots |-> <<>>]
  /\ unread = [i \in Slots |-> FALSE]
  /\ active = 0
  /\ aborted = FALSE
  /\ missed = {}

-----------------------------------------------------------------------------
(* The lowest index of S, or -1. *)
Lowest(S) == IF S = {} THEN -1 ELSE CHOOSE i \in S : \A j \in S : i <= j

(* Mutant: the comparison minds the case. *)
FindScreenExactly(n) == Lowest({i \in Slots : name[i] = n})

FindScreen(n) == Lowest({i \in Slots : name[i] # None /\ Key[name[i]] = Key[n]})
FindStartsWith(p) == Lowest({i \in Slots : name[i] \in Begins[p]})

(* Mutant: the last free slot. *)
FindOpenSlotLast ==
  IF \A i \in Slots : name[i] # None THEN -1
  ELSE CHOOSE i \in Slots : name[i] = None /\ \A j \in i + 1 .. NSlots - 1 : name[j] # None

FindOpenSlot == Lowest({i \in Slots : name[i] = None})

(* strcpy_s calls the invalid parameter handler, which ends the program, as *)
(* a failed assertion does.                                                 *)
Abort == aborted' = TRUE /\ UNCHANGED <<name, topic, log, unread, active, missed>>

(* The call returns without having done anything. *)
Refused == UNCHANGED scrVars

(* Mutant: the mark of the screen is left. *)
SetActiveOnly(i) ==
  /\ active' = i
  /\ missed' = missed \ {i}
  /\ UNCHANGED unread

SetActive(i) ==
  /\ active' = i
  /\ unread' = [unread EXCEPT ![i] = FALSE]
  /\ missed' = missed \ {i}

(* Mutant: the new screen goes behind the one that is active. *)
CreateBehind(i, n) ==
  /\ name' = [name EXCEPT ![IF active + 1 \in Slots THEN active + 1 ELSE i] = n]
  /\ topic' = [topic EXCEPT ![i] = None]
  /\ log' = [log EXCEPT ![i] = <<>>]

CreateScreenAt(i, n) ==
  /\ name' = [name EXCEPT ![i] = n]
  /\ topic' = [topic EXCEPT ![i] = None]
  /\ log' = [log EXCEPT ![i] = <<>>]

Switch(n) ==
  /\ FindScreen(n) # -1
  /\ SetActive(FindScreen(n))
  /\ UNCHANGED <<name, topic, log, aborted>>

Create(n) ==
  /\ FindScreen(n) = -1 /\ FindOpenSlot # -1
  /\ NameLen[n] < NameMax
  /\ CreateScreenAt(FindOpenSlot, n)
  /\ SetActive(FindOpenSlot)
  /\ UNCHANGED aborted

CreateTooLong(n) ==
  /\ FindScreen(n) = -1 /\ FindOpenSlot # -1
  /\ NameLen[n] >= NameMax
  /\ Abort

NoSlot(n) == FindScreen(n) = -1 /\ FindOpenSlot = -1 /\ Refused

CreateOrSwitch(n) == Switch(n) \/ Create(n) \/ CreateTooLong(n) \/ NoSlot(n)

(* Mutant: what is for no screen goes to the one that is active. *)
DeliverSlotActive(n) == IF FindScreen(n) = -1 THEN active ELSE FindScreen(n)

(* The slot of the screen that gets what is for n. *)
DeliverSlot(n) == IF FindScreen(n) = -1 THEN 0 ELSE FindScreen(n)

DeliverCopy(m) ==
  LET i == DeliverSlot(m.to)
  IN  /\ log' = [log EXCEPT ![i] = Newest(Append(@, m))]
      /\ unread' = [unread EXCEPT ![i] = @ \/ i # active]
      /\ missed' = (missed \cup {i}) \ {active}
      /\ UNCHANGED <<name, topic, active, aborted>>

ShowIndex(i) ==
  \/ /\ i \in Slots /\ name[i] # None
     /\ SetActive(i)
     /\ UNCHANGED <<name, topic, log, aborted>>
  \/ ~(i \in Slots /\ name[i] # None) /\ Refused

ShowName(n) == ShowIndex(FindScreen(n))

ShowNameStartsWith(p) == ShowIndex(FindStartsWith(p))

SetTopic(n, t) ==
  \/ /\ FindScreen(n) # -1 /\ t \notin LongTopics
     /\ topic' = [topic EXCEPT ![FindScreen(n)] = [to |-> n, text |-> t]]
     /\ UNCHANGED <<name, log, unread, active, aborted, missed>>
  \/ FindScreen(n) # -1 /\ t \in LongTopics /\ Abort
  \/ FindScreen(n) = -1 /\ Refused

-----------------------------------------------------------------------------
(* Any call with any argument, one after the other: one thread makes them. *)
ScreenCall ==
  \/ \E n \in Names : CreateOrSwitch(n) \/ ShowName(n)
  \/ \E m \in Msgs : DeliverCopy(m)
  \/ \E n \in Names, t \in Topics : SetTopic(n, t)
  \/ \E i \in -1 .. NSlots : ShowIndex(i)
  \/ \E p \in DOMAIN Begins : ShowNameStartsWith(p)

(* A failed assertion elsewhere may end the program between two calls. *)
Next == ~aborted /\ (ScreenCall \/ Abort)

(* The program has ended. *)
Ended == aborted /\ UNCHANGED scrVars

Spec == Init /\ [][Next \/ Ended]_scrVars

-----------------------------------------------------------------------------
TypeOK ==
  /\ name \in [Slots -> Names \cup {None}]
  /\ topic \in [Slots -> Titles \cup {None}]
  /\ log \in [Slots -> Seq(Msgs)]
  /\ unread \in [Slots -> BOOLEAN]
  /\ active \in Slots
  /\ aborted \in BOOLEAN
  /\ missed \subseteq Slots

(* Home stays in the first slot and the screens fill the slots without a gap: *)
(* screen_fmt_tabs shows the slots up to the first free one, and !show takes  *)
(* its number from there.                                                     *)
TabsShowAll ==
  /\ name[0] = Home
  /\ \A i \in Slots : name[i] # None => \A j \in 0 .. i : name[j] # None

(* No two screens have the same name up to case, so that the first match is   *)
(* the only one: what is delivered to a name ends up in one place.            *)
NamesDiffer ==
  \A i, j \in Slots :
    name[i] # None /\ name[j] # None /\ Key[name[i]] = Key[name[j]] => i = j

(* The active screen exists and is never marked unread; another tab is marked *)
(* exactly when something was delivered to it since it was last active.       *)
UnreadMeansMissed ==
  /\ name[active] # None /\ ~unread[active]
  /\ \A i \in Slots : unread[i] <=> i \in missed

(* A channel's screen holds only what was delivered to that channel's name,  *)
(* and no topic of another.                                                  *)
NoCrossTalk ==
  \A i \in Slots :
    /\ topic[i] # None => Key[topic[i].to] = Key[name[i]]
    /\ i # 0 => \A k \in DOMAIN log[i] : Key[log[i][k].to] = Key[name[i]]

(* A screen never moves, never changes its name and is never closed: the     *)
(* number of a tab means the same channel for as long as the program runs.   *)
ScreensStay == [][\A i \in Slots : name[i] # None => name'[i] = name[i]]_scrVars

(* screen_fmt_tabs walks the slots up to the first free one without looking  *)
(* at N_SCRSLOTS; elsewhere "assert(i_scr < N_SCRSLOTS)" guards such an      *)
(* index.  It stays inside s_scrslots only while some slot is free.          *)
TabsEndInSlots == FindOpenSlot # -1
=============================================================================
