----------------------------- MODULE MCHandlers -----------------------------
(* Home, a channel in two spellings, a list of two channels, which !join      *)
(* takes for the name of one, a name as long as CHANNEL_NAME_MAXLEN admits,   *)
(* and the lines that tell the cases of the handlers apart.  !quit is left to *)
(* MCClient, where it ends something.                                         *)
EXTENDS Handlers

MCNames == {"home", "#a", "#A", "#b", "#a,#b"}
MCChannels == {"#a", "#A", "#b", "#a,#b"}
MCKey == [n \in MCNames |-> IF n = "#A" THEN "#a" ELSE n]
MCBegins == [p \in {"#a"} |-> {"#a", "#A", "#a,#b"}]
MCNameLen == [n \in MCNames |-> IF n = "#b" THEN 5 ELSE 4]

(* The texts of the messages of a screen, and the records themselves. *)
MCMsgs ==
  [to : MCNames, kind : {"said"}, text : {"s"}]
    \cup [to : {"home"}, kind : {"status"}, text : {"s", "Disconnecting..."}]
    \cup [to : MCNames, kind : {"own", "not_sent"}, text : {"x", "y"}]
MCMsgBytes == [m \in MCMsgs |-> IF m.kind = "own" THEN 1 ELSE 2]

Irc(cmd, to, text, kind) == [cmd |-> cmd, to |-> to, text |-> text, kind |-> kind]

MCServerLines ==
  {Irc("PRIVMSG", "#a", "s", k) : k \in {"ok", "long", "malformed"}}
    \cup {Irc("332", "#A", t, "ok") : t \in {"short", "long"}}
    \cup {Irc("332", "#b", "short", "ok")}
    \cup {Irc("PING", None, "s", "ok")}

Typed(prefix, word, arg, digit) ==
  [prefix |-> prefix, word |-> word, arg |-> arg, digit |-> digit]

MCUserLines ==
  {Typed("!", "join", n, -1) : n \in {"#a", "#A", "#b", "#a,#b", "home", None}}
    \cup {Typed("!", "show", None, 0), Typed("!", "show", None, 9), Typed("!", "show", "#a", -1), Typed("!", "show", None, -1)}
    \cup {Typed("!", "channel", "list", -1), Typed("!", "channel", None, -1)}
    \cup {Typed("!", "part", "#a", -1)}
    \cup {Typed("backquote", "JOIN", "#A", -1), Typed("backquote", "PRIVMSG", "#a", -1)}
    \cup {Typed("", w, None, -1) : w \in {"x", "y"}}
=============================================================================
