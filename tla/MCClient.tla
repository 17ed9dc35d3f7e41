------------------------------ MODULE MCClient ------------------------------
(* Home and one channel, which the server spells in another way.  A raw QUIT *)
(* ends the connection, but not the program.                                 *)
EXTENDS Client

MCNames == {"home", "#a", "#A"}
MCChannels == {"#a", "#A"}
MCKey == [n \in MCNames |-> IF n = "#A" THEN "#a" ELSE n]
MCBegins == [p \in {} |-> {}]
MCNameLen == [n \in MCNames |-> 2]

MCMsgs ==
  [to : {"#A"}, kind : {"said"}, text : {"s"}]
    \cup [to : {"home"}, kind : {"status"}, text : {"s", "Disconnecting..."}]
    \cup [to : MCNames, kind : {"own", "not_sent"}, text : {"x"}]
MCMsgBytes == [m \in MCMsgs |-> 1]

Irc(cmd, to, kind) == [cmd |-> cmd, to |-> to, text |-> "s", kind |-> kind]
MCServerLines == {Irc("PRIVMSG", "#A", "ok"), Irc("001", None, "ok")}
MCServerLinesBad == MCServerLines \cup {Irc("001", None, "malformed")}

Typed(prefix, word, arg) == [prefix |-> prefix, word |-> word, arg |-> arg, digit |-> -1]
MCUserLines ==
  {Typed("!", "join", "#a"), Typed("!", "quit", None), Typed("", "x", None)}
    \cup {Typed("backquote", "QUIT", None)}
=============================================================================
