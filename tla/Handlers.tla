------------------------------ MODULE Handlers ------------------------------
(***************************************************************************)
(* src/handlers.c: what the client does with one message of the server and *)
(* with one line of the user.  Both act on the screens; a line may also    *)
(* send a command to the server.                                           *)
(***************************************************************************)
EXTENDS Screens

CONSTANTS
  Channels,     (* the names that begin with one of CHANNEL_PREFIXES, with *)
                (* commas or not: what !join takes for one channel         *)
  ServerLines,  (* what the server can send                                *)
  UserLines,    (* what the user can type                                  *)
  MaxSent       (* bounds the model: how many commands are ever sent       *)

(* A line of the server is [cmd, to, text, kind].  Its kind is "malformed"   *)
(* when the parser or its handler asserts what it does not have (a command,  *)
(* a source, the right number of parameters), and "long" when what is made   *)
(* of it does not fit s_scrbuf.                                              *)
(* A line of the user is [prefix, word, arg, digit]: its first character if  *)
(* that is special, the word behind it (all of the text of a chat message),  *)
(* the first argument or None, and its value if that is a digit, or else -1. *)
(* Of a line behind a backquote these are the command and the target that    *)
(* the server reads in it.                                                   *)
TopicCmds == {"332", "331"}

(* What the formatters make of a text, for the screen to. *)
Formatted(to, kind, text) == [to |-> to, kind |-> kind, text |-> text]

ASSUME LinesAssumption ==
  /\ Channels \subseteq Names /\ (\A n \in Channels : Key[n] # Key[Home]) /\ MaxSent \in Nat
  /\ \A l \in ServerLines :
       /\ l.kind \in {"ok", "long", "malformed"}
       /\ l.cmd \in {"PRIVMSG"} \cup TopicCmds => l.to \in Names
       /\ l.cmd \in TopicCmds => l.text \in Topics
       /\ l.kind = "ok" => \/ l.cmd \in TopicCmds
                           \/ l.cmd = "PRIVMSG" /\ Formatted(l.to, "said", l.text) \in Msgs
                           \/ l.cmd # "PRIVMSG" /\ Formatted(Home, "status", l.text) \in Msgs
  /\ \A l \in UserLines :
       /\ l.prefix \in {"!", "backquote", ""} /\ l.digit \in -1 .. 9
       /\ l.prefix = "backquote" => l.arg \in Names \cup {None}
       /\ l.prefix = "" => \A n \in Names, k \in {"own", "not_sent"} :
                             Formatted(n, k, l.word) \in Msgs
  /\ Formatted(Home, "status", "Disconnecting...") \in Msgs

(* raw: typed as it goes out.  Only what the handlers themselves have made    *)
(* of a line is not.                                                         *)
Sendable ==
  [cmd : {"QUIT", "LIST", "JOIN", "PRIVMSG"} \cup {l.word : l \in UserLines},
   to : Names \cup {None}, text : {l.word : l \in UserLines}, raw : BOOLEAN]

VARIABLE sent   (* the commands sent to the server so far, oldest first *)

handlerVars == <<scrVars, sent>>

HandlersInit == Init /\ sent = <<>>

-----------------------------------------------------------------------------
(* try_send_as_irc.  What the user can type is too short to be refused for  *)
(* its length: only send() can fail.                                        *)
TrySend(cmd, to, l) ==
  /\ Len(sent) < MaxSent
  /\ sent' = Append(sent, [cmd |-> cmd, to |-> to, text |-> l.word,
                           raw |-> l.prefix = "backquote"])

SendFails == UNCHANGED sent

-----------------------------------------------------------------------------
(* handle_ircmsg, and the parser in front of it. *)

HandlePrivmsg(l) ==
  /\ l.cmd = "PRIVMSG" /\ l.kind = "ok"
  /\ DeliverCopy(Formatted(l.to, "said", l.text))

(* Mutant: the topic of the screen that is active. *)
HandleTopicActive(l) ==
  /\ l.cmd \in TopicCmds /\ l.kind # "malformed"
  /\ topic' = [topic EXCEPT ![active] = [to |-> l.to, text |-> l.text]]
  /\ UNCHANGED <<name, log, unread, active, aborted, missed>>

HandleTopic(l) ==
  /\ l.cmd \in TopicCmds /\ l.kind # "malformed"
  /\ SetTopic(l.to, l.text)

HandleDefault(l) ==
  /\ l.cmd \notin {"PRIVMSG"} \cup TopicCmds /\ l.kind = "ok"
  /\ DeliverCopy(Formatted(Home, "status", l.text))

(* sprintf_s ends the program when it runs out of buffer; when only the     *)
(* checks between its calls see the end, the message is dropped.            *)
HandleLong(l) ==
  /\ l.cmd \notin TopicCmds /\ l.kind = "long"
  /\ Abort \/ UNCHANGED scrVars

(* A failed assertion, or a source that is NULL. *)
HandleMalformed(l) == l.kind = "malformed" /\ Abort

HandleIrcMsg(l) ==
  /\ \/ HandlePrivmsg(l) \/ HandleTopic(l) \/ HandleDefault(l)
     \/ HandleLong(l) \/ HandleMalformed(l)
  /\ UNCHANGED sent

-----------------------------------------------------------------------------
(* handle_user_command, one action for each kind of line. *)

Quits(l) == l.prefix = "!" /\ l.word = "quit"

HandleQuit(l) ==
  /\ Quits(l)
  /\ TrySend("QUIT", None, l) \/ SendFails
  /\ DeliverCopy(Formatted(Home, "status", "Disconnecting..."))

(* !channel list; the other uses of !channel only print. *)
HandleChannel(l) ==
  /\ l.prefix = "!" /\ l.word = "channel"
  /\ \/ l.arg = "list" /\ (TrySend("LIST", None, l) \/ SendFails)
     \/ l.arg # "list" /\ UNCHANGED sent
  /\ UNCHANGED scrVars

Joinable(n) == n \in Channels /\ NameLen[n] <= NameMax

(* Mutant: the screen is shown, but not made. *)
HandleJoinShown(l) ==
  /\ l.prefix = "!" /\ l.word = "join"
  /\ \/ /\ Joinable(l.arg)
        /\ TrySend("JOIN", l.arg, l)
        /\ ShowName(l.arg)
     \/ SendFails /\ UNCHANGED scrVars

(* Mutant: the screen is made whether the server was asked or not. *)
HandleJoinAnyway(l) ==
  /\ l.prefix = "!" /\ l.word = "join"
  /\ \/ /\ Joinable(l.arg)
        /\ TrySend("JOIN", l.arg, l) \/ SendFails
        /\ CreateOrSwitch(l.arg)
     \/ ~Joinable(l.arg) /\ UNCHANGED handlerVars

HandleJoin(l) ==
  /\ l.prefix = "!" /\ l.word = "join"
  /\ \/ /\ Joinable(l.arg)
        /\ TrySend("JOIN", l.arg, l)
        /\ CreateOrSwitch(l.arg)
     \/ SendFails /\ UNCHANGED scrVars

HandleShow(l) ==
  /\ l.prefix = "!" /\ l.word = "show"
  /\ \/ l.digit # -1 /\ ShowIndex(l.digit)
     \/ l.digit = -1 /\ l.arg \in DOMAIN Begins /\ ShowNameStartsWith(l.arg)
     \/ l.digit = -1 /\ l.arg \notin DOMAIN Begins /\ UNCHANGED scrVars
  /\ UNCHANGED sent

(* Any other word behind a !. *)
HandleUnknown(l) ==
  /\ l.prefix = "!" /\ l.word \notin {"quit", "channel", "join", "show"}
  /\ UNCHANGED handlerVars

(* To the server it is the command it says, JOIN and QUIT included; here     *)
(* nothing is known of it: no screen is made and nothing ends.               *)
HandleLiteral(l) ==
  /\ l.prefix = "backquote"
  /\ TrySend(l.word, l.arg, l) \/ SendFails
  /\ UNCHANGED scrVars

(* Mutant: the message is shown before it is known whether it was sent. *)
HandleChatEchoed(l) ==
  /\ l.prefix \notin {"!", "backquote"}
  /\ TrySend("PRIVMSG", name[active], l) \/ SendFails
  /\ DeliverCopy(Formatted(name[active], "own", l.word))

HandleChat(l) ==
  /\ l.prefix \notin {"!", "backquote"}
  /\ \/ /\ TrySend("PRIVMSG", name[active], l)
        /\ DeliverCopy(Formatted(name[active], "own", l.word))
     \/ /\ SendFails
        /\ DeliverCopy(Formatted(name[active], "not_sent", l.word))

HandleUserCommand(l) ==
  \/ HandleQuit(l) \/ HandleChannel(l) \/ HandleJoin(l) \/ HandleShow(l)
  \/ HandleUnknown(l) \/ HandleLiteral(l) \/ HandleChat(l)

-----------------------------------------------------------------------------
(* Any line after any other: the main thread handles them one by one. *)
HandlersNext ==
  /\ ~aborted
  /\ \/ \E l \in ServerLines : HandleIrcMsg(l)
     \/ \E l \in UserLines : HandleUserCommand(l)

HandlersEnded == aborted /\ UNCHANGED handlerVars

HandlersSpec == HandlersInit /\ [][HandlersNext \/ HandlersEnded]_handlerVars

-----------------------------------------------------------------------------
HandlersTypeOK == TypeOK /\ sent \in Seq(Sendable) /\ Len(sent) <= MaxSent

(* Where !join asked the server for something, and whether it did so with n  *)
(* for its argument, ahead of k.  A JOIN that was typed raw is none of these. *)
Joins == {k \in DOMAIN sent : sent[k].cmd = "JOIN" /\ ~sent[k].raw}
Asked(n) == \E k \in Joins : sent[k].to = n
AskedAhead(k, n) == \E j \in Joins : j < k /\ sent[j].to = n

(* handle_localcmd_join asks the server before it makes a screen: a screen   *)
(* other than home stands for a JOIN that !join has sent with that very name *)
(* for its argument.                                                        *)
ScreenMeansJoin ==
  \A i \in Slots \ {0} : name[i] # None => Asked(name[i])

(* And the other way round: what !join has asked for has a screen from then  *)
(* on, whatever is handled later.  One that has none, since its caller does  *)
(* not mind that scrmgr_create_or_switch fails, was passed over for lack of  *)
(* a slot: each was taken by what !join had asked for ahead of it.  It is    *)
(* about the argument as it was typed, not about the channels that the server *)
(* reads in it, nor about those that were joined with a raw line.            *)
JoinMeansScreen ==
  \A k \in Joins :
    \/ FindScreen(sent[k].to) # -1
    \/ \A i \in Slots \ {0} : AskedAhead(k, name[i])
    \/ aborted

(* Where the user said something to n in what went out, by typing it on its   *)
(* screen and not as a raw PRIVMSG, and where a log shows something as said   *)
(* by the user.                                                              *)
Said(out, n) ==
  {k \in DOMAIN out : out[k].cmd = "PRIVMSG" /\ ~out[k].raw /\ out[k].to = n}
Own(shown) == {j \in DOMAIN shown : shown[j].kind = "own"}

(* The lines of the user that are shown are the last of those that went out  *)
(* to n, in their order: went[j] is where the j-th of the log went out.      *)
ShowsLastSaid(shown, out, n) ==
  \E went \in [Own(shown) -> Said(out, n)] :
    /\ \A j \in Own(shown) : out[went[j]].text = shown[j].text
    /\ \A j, k \in Own(shown) : j < k => went[j] < went[k]
    /\ \A j \in Own(shown), o \in Said(out, n) :
         went[j] < o => \E k \in Own(shown) : went[k] = o

(* What a screen shows as said by the user is the end of what handle_user_   *)
(* command has sent to that screen's name as chat, in that order: nothing    *)
(* shows that did not go out, and no chat went out elsewhere than where it   *)
(* shows.  A PRIVMSG typed behind a backquote shows nowhere and is not       *)
(* counted as said.                                                         *)
OwnLinesWereSent ==
  \A i \in Slots : name[i] # None => ShowsLastSaid(log[i], sent, name[i])

(* The handlers use the screens through their interface only: what holds of *)
(* the screens for any calls holds of them in the program.                  *)
ScreensSpec == Spec

=============================================================================
