# A verification development for the AthenaIRC client

AthenaIRC is a console IRC client for Windows, written in C. This directory holds
TLA+ models of it, the TLC configurations that check them on small instances, and
proofs that TLAPS checks for all values of the constants. Paths below are relative
to the root of the repository.

1. [The system](#1-the-system): components, state, operations, interactions
2. [The modules](#2-the-modules): how they correspond to the code
3. [The runs](#3-the-runs): what each asks, its bounds, what it shows
4. [Fairness](#4-fairness)
5. [The proofs](#5-the-proofs)
6. [Where the code and its documents disagree](#6-where-the-code-and-its-documents-disagree)
7. [What is not modelled](#7-what-is-not-modelled)
8. [What is left](#8-what-is-left)

## 1. The system

There are two threads. The **main thread** runs a loop (`src/main.c:304-344`): take
everything from `QUEUE_IN` and handle each line of the server, take everything from
`QUEUE_UI` and handle each line of the user, read the console (which may put lines
into `QUEUE_UI`), draw. The **receiver thread** (`thread_main_recv`) blocks in
`recv()`, cuts what it gets into lines and submits them to `QUEUE_IN`. The two share
the queues, the socket and the log file, and nothing else: the screens belong to the
main thread.

```
 server --bytes--> receiver thread --list--> QUEUE_IN --list--> handle_ircmsg -----+
                                                                                   v
 server <--send()-- handle_user_command <--list-- QUEUE_UI <--line-- console    screens --> draw
                          |                                                        ^
                          +--------------------------------------------------------+
```

| Component | State | Operations | What makes it correct |
|---|---|---|---|
| Message queues, `src/msgqueue.c` | three global lists (head, tail, count), a mutex for each; the `msglist` local to each thread | `msglist_pushback_*`, `msgqueue_pushback_copy`, `msglist_submit`, `msg_queue_takeall`, `msglist_free` | no node lost, shared, used after free; each queue is a FIFO; calls return |
| Receiver thread, `src/main.c:471-546` | `recv_buff` and its fill level | one turn of the loop per `recv()` | every complete line submitted once, in order, whole, whatever the chunks |
| Screen log, `src/screen_framework.c` | doubly linked list, `n_msgs`, `curr_size_bytes` | `screenlog_push_*`, `screenlog_evict_min_to_free` | counts right, no leak, the newest messages that fit are kept |
| Screens, `src/screen_framework.c` | eight slots, the active screen, per screen a name, topic, log and unread mark | the `scrmgr_*` functions | one screen per name, tabs stay and are all shown, marks are right, channels do not mix |
| Handlers, `src/handlers.c` | none of their own; act on the screens and the socket | `handle_ircmsg`, `handle_user_command` and the `handle_localcmd_*` | screens, joins and what was sent agree, also when `send()` fails |
| Main loop, `src/main.c:286-346` | the list in hand, `bye` | the turns of the loop | lines are handled once and in order; nothing happens behind `!quit`; the program ends |
| Startup and shutdown, `src/main.c:63-302, 346-371` | socket library, socket, thread, log file, console mode, code page, screen buffer, each acquired or changed in turn | `main` | the console is as before whichever way `main` returns |
| Console input, `src/main.c:374-430` | an input buffer per screen | key and mouse events | the line that was typed is the line that is queued, and meets the screen it was typed on |
| Drawing, `src/main.c:432-469` | none | `draw_screen` | the rows of log and input line fit the window |
| IRC parser, `src/msgutils.c` | none | `msgutils_ircmsg_parse` | source, command and parameters are what the line means |
| Formatters, `src/handlers.c:134-231` | the buffer `s_scrbuf` | `screenfmt_*` | what they count is what they wrote, and it shows |
| Screen view, `src/screen_framework.c:556-1057` | a scroll position per screen | `screen_fmt_to_buf`, `strlen_on_screen`, `calc_screen_offset`, `translate_src_char_to_buf` | the view is the section of the log that was asked for; the functions that read formatting agree |
| Header and tabs, `src/screen_framework.c:505-554` | none | `screen_fmt_header`, `screen_fmt_tabs` | every screen has its tab |
| Logger, `src/log.c` | the file, the level | `log`, `log_fmt` | used only while the file is open; no message spoils the next |
| Terminal utilities, `src/terminalutils.c` | none | writers of escape sequences to a buffer or a file | write all of a sequence or nothing |
| UI proof of concept, `src/misc/ui_poc.c` | - | not part of the program | - |

What is hard here: the interleaving of the two threads inside `msgqueue.c`; streams of
bytes that arrive cut anywhere; pointer structures with running counts; steps of which
a part may fail (`send()`, the startup); sequences of legal user commands and server
lines that meet in one set of slots; an input buffer and a scroll position that are
kept by screen while the screens change; one text that three functions read, each in its
own way; the end of the program, for which each thread
depends on the other and on the server. `PROJECT.json` lists these hazards with their
lines and the properties that watch them.

## 2. The modules

`PROJECT.json` maps every definition to the lines it models. Definitions keep the
names of the code where there is one.

### MsgQueue, MsgChannel

`MsgQueue` is `msgqueue.c` at the level of pointers. `next` and `msg` are the heap,
`queue` the global lists, `list` each thread's local list, `mtx` the mutexes, `pc` and
`arg` where a thread is and in which queue. A step is one access to memory that another
thread can see: `msglist_submit` is *wait, link, write tail and count, release*;
`msg_queue_takeall` is *wait, copy head, reset, release*; `msglist_free` frees node by
node. What a thread does to its own list is one step per call, since nobody else has a
pointer into it. `msglist_pushback_copy` and `msglist_pushback_take` differ in who owns
the text, not in what happens to the list. `chain` is a history: for each thread and
queue the nodes it owns. `Allocated` is read off it, and the properties compare it with
what the pointers really reach. `Fatal` is every `exit(23)`: malloc, a wait or a release
failed.

`MsgChannel` is what `include/msgqueue.h` promises: a FIFO per queue, whole lists
appended and taken atomically. `ImplementsChannel` is the refinement: a list enters the
queue at the step that links it and leaves it at the step that copies the head. What
is in a list is read by walking its links (`Walk` of `Pointers`, which `ScreenLog` uses
too): nothing but the pointers says so.

### Receiver

One thread, one action per outcome of `recv()`: `Recv` takes a chunk of any length up
to the room left and then runs out of buffer, keeps what has no delimiter, or cuts
(`OutOfBuffer`, `Keep`, `Cut`); `Disconnected` is a return of 0, which `recv()` also
gives when it is asked for no bytes; `Failed` is `SOCKET_ERROR`. `LastDelim` is the
search backwards, `Parse` the loop over the lines, `CString` what `strlen` and
`strcpy_s` make of a NUL in the data. `CutAt` and `Incomplete` say independently what
the bytes mean, without a buffer, without chunks and without a loop: a message ends at
each delimiter of the stream and begins behind the one before it.

### Pointers, LogBound, BoundedLog, ScreenLog

`ScreenLog` is the linked log with `prev`, `next`, the two counts and the locals of
the eviction loop. A step is one turn of that loop. `BoundedLog` says what it is for: after a push the log is the longest suffix of
what was pushed that fits (`Newest`, in `LogBound`). `ImplementsBoundedLog` is the
refinement. Its mapping cuts at the push: while the eviction runs the abstract log
already is what it will leave.

### Screens

One action per `scrmgr_` function, over the slots. `Key` is equality under
`strut_strcmpi`, `Begins` is `strut_startswithi`, both given as functions on the small
set of names: the data is abstracted, the order of the slots and the first match are
not. `Abort` is `strcpy_s` that does not fit: under the Microsoft C runtime the invalid
parameter handler ends the program; a failed assertion elsewhere does the same between
two calls. The log of a screen is the abstract `Newest` of `LogBound`,
justified by `ScreenLog`. `missed` is a history variable: it is kept
by the two facts the unread mark is about and not by looking at the mark.

### Handlers

Extends `Screens`; adds `sent`, the commands that went out. A line of the server has a
`kind`: `ok`, `malformed` (an assertion of the parser or the handler fails; `build.ps1`
compiles without `NDEBUG`, so it ends the program) or `long` (what is made of it does
not fit the buffer: it is dropped or the program ends, depending on which check meets it
first). A line of the user is a prefix, a word and an argument, the distinctions
`handle_user_command` makes. Behind a backquote, where the line goes out as it is, word and
argument are the command and the target that the server reads in it; `sent` marks what went
out so as `raw`, since nothing in the client knows what it was: a raw JOIN makes no screen, a
raw QUIT ends nothing here, a raw PRIVMSG shows nowhere. The channels of `!join` are what
`handle_localcmd_join` takes for one, a name with a comma in it included: the server joins
each channel of such a list, the client makes one screen with the list for its name.
`try_send_as_irc` takes a raw line for a format; only lines that are their own
formatting are modelled, those without a per cent sign. Every handler that sends has the alternative that `send()`
fails, with what the code does then. A line typed by the user is at most
`UI_INPUT_BUF_SIZE` long, so the length check in `try_send_as_irc` never refuses it.

`ScreensSpec` is `Screens`' `Spec`, checked and proved of the handlers: they
change the screens only through that interface, so what is proved of `Screens` holds
in the program.

### Client

Extends `Handlers` and instantiates `MsgChannel` with the threads `main` and `recv` and
the queues `QUEUE_IN` and `QUEUE_UI` (nothing uses `QUEUE_OUT`). `main` is where the
loop is; `List` the list in hand and `curr` the position in it. The receiver is reduced
to whole lines, which `Receiver` justifies. The server and the user are external: the
server sends any line at any time, also about channels that were never asked for with
`!join`, since they may have been joined by a raw line or a list; the user types anything, a
raw QUIT included. `stream`, `received`, `typed`, `handledIn`
and `handledUi` are histories. In the loop after `!quit` the rest of the list is freed
unread, the console is read once more and drawn once more, as in the code.

### Logger, Session

`Logger` is `log.c` as any number of threads call it. A message that passes the filter
becomes the pieces in which it goes to the file, one per call of the C library
(`Pieces`: colour and bold by severity, prefix, text, newline, reset); `Write` writes
the next piece of one thread, so that the messages of two threads mix as they do in the
file. `loggedTo` is a history: the states of the file when something was written.

`Session` extends it with `main()` from the first line to the last, the loop being one
step: what is acquired in which order, every `return 23` on the way with what it
releases and what it leaves, and the receiver thread that may receive and log at any
moment between. A `return` from `main` ends the process only after `exit()` of the C
library: until then the thread still runs.

### ConsoleInput, ScreenView, Console

`ConsoleInput` is the input line of each screen, `inputbuf` cell by cell and
`i_inputbuf`, and one action per key: `Type`, `EraseLast`, `EraseAndType` (a backspace key
with a character goes through both branches of the code), `Return`. `phase` is the turn of
the loop, as far as the input is concerned: lines of the server, of the user, keys, draw.
Lines carry the screen on which they were typed. `draft` and `switched` are histories:
what the user has typed on each screen, and whether a line taken with those in hand has
shown another one.

`ScreenView` is which rows of a log `screen_fmt_to_buf` writes, as functions of the
heights of its messages, the scroll position and the rows of the window: its first loop
(`Skip`), its second (`FirstShown`), what it writes (`Written`), what becomes of the
scroll position (`View`). `Section` is the reference: a window over all rows.

`Console` joins the two with messages that come and go, the wheel, and `draw_screen`
with a window that may have another size each time. What is left to it of the code is
`RowsLeft`: the rows that the input line, which grows with every key, leaves to the log.

### TextLayout, IrcParse, Formatters, MCTexts

Pure functions on text, each next to a reference that is defined without them.

* `TextLayout`: a text is a sequence of classes of bytes. The three parsers of a colour
  sequence (`ColorEndOfStrlen`, `ColorEndOfOffset`, `ColorEndOfTranslate`) keep their
  different structure; `StrlenOnScreen`, `CalcScreenOffset` with its replay buffer and
  `Drawn` are the loops around them. The reference goes from token to token (`TokenEnd`). What
  `strchr` finds in the memory behind `irc_ctrl_chars`, which has no NUL at its end, is the
  parameter `stray`. Where a function looks at the byte behind the text it finds the NUL.
* `IrcParse`: a line is a sequence of `:`, space and other characters; `Strtok` is
  `strtok_s` with the delimiter it overwrites, `ColonMark` the search for the last
  parameter, `Parse` the function, whose result for a line without a command or with an
  empty source is the failed assertion (`Bad`). A pointer that is NULL is the empty sequence,
  which no token or source is. `IsMessage` and `Meaning` are the reference, by the words of a
  line.
* `Formatters`: a buffer is its cells and `n_bytes`; a formatter is its list of writers
  (`DefaultOps`, `PrivmsgOps`, `ErrorOps`). The writers differ in what they do when room
  runs out: `write_if_fits` leaves out, the 256 colours assert, `sprintf_s` ends the
  program, a character put by hand needs no room for a NUL.

`MCTexts` grows every short text, line and buffer one item at a time, so that each state
is one input and the properties compare code and reference on it. `TextsProofs` states all
five of the passing run for texts and buffers of any length (section 5).

### How they fit together

```
MsgQueue  --implements-->  MsgChannel  <--instantiates--  Client --implements--> HandlersSpec
ScreenLog --implements-->  BoundedLog (Newest)               |extends
                              ^ uses                     Handlers --implements--> Screens!Spec
                              +-------- Screens <------------+ extends

Console --implements--> ConsoleInput!InputSpec      Session --extends--> Logger
   +--uses--> ScreenView   (heights of messages) <.. TextLayout!NumLines

Receiver (bytes to lines) .......... justifies RecvLine of Client
IrcParse (lines to parameters) ..... justifies the kinds of server lines of Handlers
Formatters (parameters to texts) ... justifies the long lines of Handlers
Client, around it Session, beside it Console: one loop seen from three sides
```

`Client` knows the queues and the handlers and takes a typed line as a whole; `Console`
knows keys, screens and drawing and takes a handler as what it does to the active screen;
`Session` takes the loop as one step. Together they would be beyond TLC; what they share
is small: the turn of the loop and the active screen.

## 3. The runs

| Run | Instance | Asks |
|---|---|---|
| `queue` | 2 threads, 1 queue, 2 messages, 3 nodes, fairness; 131,000 states | assertions, ownership of nodes, FIFO refinement, every call returns |
| `receiver_chunks` | buffer of 6 bytes, streams of up to 8, alphabet CR LF NUL x | lines arrive whole whatever the chunks; what counts as a disconnection is one |
| `receiver_full` | buffer of 5, streams of up to 7 | *violation*: a full buffer with complete lines in it is dropped |
| `log_evict` | messages of 1, 2, 3 bytes, bound 6, 7 nodes, symmetric | assertions, leaks, refinement of `BoundedLog` |
| `handlers_lines` | 3 slots, 5 names: two spellings, a list of channels, a name too long; 7 server lines, 17 user lines, two of them raw, 3 commands sent; 179,000 states | tabs, names, marks, separation and stability of the screens, what `!join` asked for and screens agree, what shows as said was sent, refinement of `Screens` |
| `handlers_tabs` | the same | *violation*: with all slots taken the walk over the tabs leaves the array |
| `client` | 2 lines of the server, a malformed one among them, 2 of the user, a raw QUIT among them, 2 commands, fairness; 332,000 states | flow of lines, everything is handled, the QUIT of `!quit` ends the program |
| `session_ends` | every failure, every severity; both code pages, flag set or not; 78,000 states | the console is restored, the regular end is quiet, the log is clean, and written to while open |
| `console` | 2 screens, 3 cells, 2 characters, 2 windows; 7 messages, keys and turns of the wheel; 366,000 states | drafts by screen, lines meet their screen, the view is the section asked for |
| `texts` | texts of 5 items (7 of a colour alphabet), lines of 8, buffers of 12 to 80 bytes; 53,000 inputs | parsers agree, rows counted are rows drawn, cuts are clean, lines are split, what was counted shows |
| `texts_rows` | the same | *violation*: a byte above 127 is drawn on a row that was not reserved |
| `texts_errors` | the same | *violation*: nothing shows of a message that was not sent |

Why these bounds suffice to meet the interesting cases:

* *Queues.* The splice has two cases, onto an empty queue and behind a tail that is not
  the head; the second needs two nodes in the queue and one in the list: three nodes.
  Two messages tell an exchange apart. `Nodes` is malloc's supply and bounds the model.
  The run has no symmetry, which would not be sound for liveness. Nothing in a queue
  refers to another one; the proofs are for any number of them.
* *Receiver.* Eight bytes hold two empty lines and a rest, a line longer than the
  buffer, and a CR LF cut by a chunk and by the end of the buffer (`MaxStream`,
  `RecvBufLen`). Nothing in the code depends on the length beyond the comparison with
  `RECV_BUF_LEN`.
* *Log.* A push of three bytes into a full log of six evicts one, two or three messages,
  exactly the bytes needed or more. Seven nodes are one more than fit: the new one is
  linked before the old ones go.
* *Screens, Handlers.* Three slots are home, one before and one behind; the run goes on when
  they are full, and a third channel meets the ignored failure. `MaxSent`, which bounds the
  history of what was sent, is three for that: a raw JOIN or a chat may stand before, between
  or behind two of `!join`. `MaxBytes` is two lines of the user, or one other message, so the
  logs evict. `!quit`, which to the handlers is one more command with a status line, is left
  to the run of `Client`.
* *Client.* `MaxStream`, `MaxTyped` and `MaxSent` are two: a batch of two, or two
  batches of one; QUIT first or second; a raw QUIT, after which the connection ends and a
  line is typed all the same.
* *Session.* No bound: a thread has one message in hand, and the levels are the code's.
* *Console.* Three cells hold two characters: full, and one free. A prompt of 2 and a
  text of 2 fill two rows of a window 2 wide, so that keys take rows from the log
  (`PromptLen`, `Windows`); a message of 4 has two rows there and one in the other window,
  so that resizing moves the scroll position against the log. `MaxLog` 3 of `MaxMsgs` 4
  evicts under a scroll position. `MaxKeys`, `MaxWheel` and `MaxEvents` bound how much
  the user does, not in which order.
* *Texts.* Five items hold an escape, a colour and what they meet; the longest colour
  sequence is six, the alphabet of colours goes to seven (`MaxFormat`, `MaxColor`). Eight
  characters are a source, a command, a parameter, the last one, and a doubled space
  (`MaxLine`). The sizes of the buffer run out at every writer of every formatter
  (`Sizes`, `Lengths`).

Deadlock is checked everywhere. Where the program or a thread has ended there is an
explicit stuttering action (`Exited`, `Returned`, `Ended`, ...). The type invariants of
`MsgQueue`, `Screens`, `Handlers`, `Client` and `Session` are only proved (section 5), those
of `Receiver`, `ScreenLog` and `Console` are in the runs too.

What the properties mean, in short: `ListsOwnTheirNodes` - every list reaches exactly
the nodes it owns and no two lists share one, in every state between two memory
accesses. `MessagesArriveWhole` - `submitted` and the buffer are what the stream
means, for any chunks: each message submitted is cut at the next delimiter received, and
none is left out. `UnreadMeansMissed` - the mark is on exactly the tabs with
something not yet shown. `NoCrossTalk` - a channel's screen has only what was sent to
that channel. `ScreenMeansJoin` - a screen stands for a JOIN that `!join` has sent with its
name. `JoinMeansScreen` - and the other way round; who was passed over since the result of
`scrmgr_create_or_switch` is ignored found every slot taken by what was asked for ahead of
it. Both are about the argument of `!join` as it was typed. Channels that were joined with a
raw line, or by a list, need not have a screen of their name. `OwnLinesWereSent` - what a
screen shows as said by the user is the end of the chat that was sent to its name, in that
order: nothing shows that was not sent, or was sent elsewhere, and eviction takes only from
the front. A PRIVMSG that was typed raw shows nowhere and is not counted. `ServerLinesFlow`/`UserLinesFlow` - the
lines handled, in hand, queued and held are together those that came in, in order, and
nothing is handled behind `!quit`.
`QuitEnds` - when `!quit` has sent QUIT the program ends; after a QUIT that was typed raw
it goes on, without a connection. `SessionRestored` - the console is as it was found
on each way on which `main` returns; ends by `exit(23)` or a failed assertion in the loop are
outside it. `DraftsAreKept` - no key writes a NUL, and yet every input buffer
is a C string with what was typed there. `LinesMeetTheirScreen` - lines are handled a turn
after they were typed, and yet on their screen, unless a line taken with them has
switched. `DrawShowsSection` - the rows on the terminal are those the wheel asked for,
through messages, evictions and resizes; the heights of the messages are given, so that what
`texts_rows` shows of them is outside it. `LogIsClean` - however pieces of messages mix,
the log ends at the beginning of a line, without attributes. `LogIsOpen` - a closed log is
written to in one case only. `ColorsReadAlike`, `RowsAsDrawn`, `CleanCuts` - three
functions read formatting alike, draw what shows and count it, in texts of ASCII in which no
escape stands directly behind a colour, and cut a message so that no row and no format is
lost, as long as the bytes behind `irc_ctrl_chars` are none that show. `LinesAreSplit` -
every well-formed line is split into what its words mean. `FormattedShows` - what is counted
is there and shows. The properties of `handlers_tabs`, `texts_rows` and `texts_errors` say
what the comments or the assertions of the code promise and it does not do (section 6). Every property of a passing run has a mutant
in `PROJECT.json`: a plausible slip in the code that breaks it.

## 4. Fairness

* `MsgQueue`: weak fairness of each thread's steps inside a call, since the scheduler
  runs threads that can run; strong fairness of taking a mutex, since a Windows mutex is
  granted to its waiters in turn and a thread that locks and unlocks it
  in a loop does not keep another out. Nothing is assumed of when a thread *calls*.
* `Client`: weak fairness of the main thread, of the receiver (a line that arrived is
  returned by `recv()`, a closed connection is noticed) and of the server closing the
  connection *after it got QUIT*, by `!quit` or raw. Nothing is assumed of the user, of the server
  otherwise, or of `recv()` failing. The last assumption is needed: after
  `!quit` the main thread waits for the receiver without a limit (`src/main.c:346`),
  and the receiver returns only when the connection ends. If `send()` of QUIT failed, or
  the server keeps the connection open, the client hangs; `QuitEnds` says what remains true.

## 5. The proofs

TLAPS checks them to the last leaf. Assumptions are those of the modules:
`DistinctNames` (the kinds of constants are disjoint), `AnyMessageFits` (one message fits
a log), `NamesAndSlots` (there is a slot for home; messages and screens have names),
`MemoryIsFinite`, `BufferHoldsADelimiter` (the buffer is longer than a delimiter), `LinesAssumption` (what lines consist of; no channel has home's name in another
spelling, since a channel's begins with one of `CHANNEL_PREFIXES`), `InputAssumption` (NUL is no
character a key types), `ViewAssumption` (a prompt and a window's width are not empty, a log keeps
at least the message that came last), `SeveritiesAssumption`, `TwoThreads`, `SizesAssumption`
(sizes and lengths are numbers).

**MsgQueueProofs** - any threads, queues, messages, addresses.
`TypeCorrect`, `AssertsHold` (`DebugAsserts`) and `NoNodeLost` (`ListsOwnTheirNodes`).
`ListsOwnTheirNodes` says nothing of a queue while a thread is inside it, so it is not
inductive. `IInv` adds: who is past the wait holds the mutex (`LockInv`); ownership is
disjoint and each owned node points at the next, at *every* moment (`DisjointInv`,
`LinkInv`), since the step that hands over nodes is the one that writes the link; what the
ends of a list are for each place a thread can be (`ListInv`, `FreeInv`, `QueueInv`); and
what exactly is out of step halfway through a splice or a take (`SpliceInv`). One lemma
per effect (push, transfer, free, call), then one per conjunct group. The sequences
are hidden behind `Size` and `At`.
`ImplementsFifo` is `Spec => ImplementsChannel`, with the same `IInv`: the walk from the
head of a list meets the nodes its owner owns, in their order (`ListReads`, from
`WalkAlong`), so that the channel the pointers show is the texts in the nodes of `chain`
(`ChannelReads`), also while a thread is inside a list. What is left is one lemma for each
step that shows (`PushBackShows`, `SubmitShows`, `TakeShows`, `FreeShows`,
`FreeNodeShows`); every other step leaves what is shown as it is (`OtherShows`).

**ClientProofs**, first part: `Screens` - any number of slots, any names. `IInv` is the
conjunction of `TypeOK`, `TabsShowAll`, `NamesDiffer`, `UnreadMeansMissed` and
`NoCrossTalk`, which is inductive as it stands: what a search finds (`FindScreenFinds`,
`FindOpenSlotFinds`) needs the type, and delivery needs that eviction keeps only what was
there (`NewestKeeps`). Then one lemma per kind of step. `TabsAreStable` is the action
property.

**ClientProofs**, second part: `Handlers` - any lines of the server and the user.
`HandlersUseScreens` is the refinement `HandlersSpec => ScreensSpec`: each handler is a
call of the screen interface, the end of the program, or nothing to the screens (`Calls`,
`IrcMsgCalls`, `UserCommandCalls`). So the theorems of the first part hold of the handlers.
`ScreensWereAsked` and `AskedHaveScreens` are `ScreenMeansJoin` and `JoinMeansScreen`;
`HandlersInv` joins them with the `IInv` of `Screens`, whose types say where the active
screen is, and with `JoinsAreNamed`. Only what `!join` has sent disturbs either: it does both
halves (`JoinStep`), or finds all slots taken, and then `ScreenMeansJoin` says by what. Every
other line, a raw JOIN too, leaves names and joins alone (`OtherSent`, `OtherStep`), and a
place that was had, as a screen or as all slots taken before, is had for good (`PlaceStays`,
from `NamesStay`).
`OwnLinesAreReal` is `OwnLinesWereSent`: a map from the lines on the screen to what went
out carries over when something is pushed on both sides (`SaidAndShown`), on one that does
not count (`OtherWentOut`, `OtherShown`), and when the front of the log goes (`EndShows`,
with `NewestIsEnd`); chat alone does both, to the screen it was sent for (`ChatStep`).

**Induction** - what the other modules take from the library's pigeonhole principle.
The library states induction over an operator, which the provers here cannot instantiate;
`SetInduction` states it over a set of naturals instead, `Recursion` says that a function
defined by recursion exists and satisfies its equation, `Smallest` that a set of naturals
has a least element, `Greatest` that a bounded one has a greatest. These are first-order, and
with them `Newest`, `Parse`, `RowsFrom`, the loops over a text and the walk over the links can be
reasoned about for every length. `Unwinding` and `FromTheEnd` are their twins for what a text
is read by: a function whose value at a place rests on that at a later place of its choice,
and an induction that goes from the end of a text to its beginning. `PartOf` and `SamePart` say what is in a part of a sequence. `WalkAlong` is the lemma about that
walk: where a sequence of nodes is linked one behind the other, from the first to an end
outside, the walk from its first node is that sequence.

**ScreenLogProofs** - any number of nodes, any sizes of messages.
The properties read the log by walking its links, `Refinement`'s mapping too, which no
single step says anything about. `IInv` therefore speaks of a sequence of nodes that exists
beside the pointers, those still in the log: neighbours in it are linked both ways, its last
is `tail`, its first is `head` or, while the eviction runs, the node the loop has come to,
its nodes are those allocated, and `n_msgs` and `curr_size_bytes` are its length and the sum
of its sizes, more by what the loop has freed and not yet subtracted. The
walk then *is* that sequence (`WalkAlong`). From it: `TypeCorrect`,
`AssertsHold` (`LogAsserts`), `NoNodeLeaks` (`NothingLeaks`), and `Refinement`, that is
`Spec => ImplementsBoundedLog`: a push is the abstract push, every turn of the eviction a
stutter, since what the loop has freed and will free is what `Newest` drops.
`NewestIsLongest` shows that the abstract log says what it should: what `Newest` keeps
fits, and no longer suffix does. `MemoryIsFinite`, here and in `MsgQueue`, is malloc's: the
nodes are a finite set.

**ReceiverProofs** - any buffer that can hold a delimiter, any length of the stream.
`MessagesArriveWhole` names the delimiters at which messages end; it says what was
submitted and what is still in the buffer, but not where in the stream the buffer begins,
from which the next turn goes on. `Arrived`, in `IInv` with `TypeOK` and `DisconnectionIsReal`, adds where in the stream the
buffer begins: the stream up to there is cut into what was submitted, the buffer is the
rest, and there is no delimiter in it. A turn appends its chunk to both. `ParseCuts` is the
loop, by `SetInduction` over its index: behind byte `i` it has cut at exactly the
delimiters up to `i` (`TurnCuts` and `TurnPasses` are its two kinds of turns, with the `CR LF` that
may not be looked at twice). `WholeJoins` is that cutting the buffer continues the cutting
of the stream, also when the delimiter came in two chunks.

**ClientProofs**, third part: `Client` - any server, any user, any number of lines. `ClientInv` is the
conjunction of the types, `ServerLinesFlow`, `UserLinesFlow`, the `HandlersInv` above
and `QuitIsLast`. `InSteps` and `UiSteps` say once what a step does to the
parts of each flow (stays, appended, handed on, handled), and lemmas about sequences
(`Regroup`, `Hand...`, `From...`) that their concatenation then stays or grows at its end:
`ServerLinesInOrder`, `UserLinesInOrder`. `QuitComesLast` says that nothing is sent
behind the QUIT of `!quit`, whatever is still in hand. `ClientRunsHandlers` is the refinement
`ClientSpec => HandlersSpec`: with `HandlersUseScreens`, everything proved of handlers and
screens holds in the running client.

**ConsoleProofs** - any screens, characters and size of the buffers. `IInv` is
`InputTypeOK`, that every buffer is its draft followed by NULs (`BufferInv`, which makes
`DraftsAreKept`: the cells behind the text are what the next key relies on), where lines may
be in which phase (`FlowInv`) and `LinesMeetTheirScreen`. `ConsoleImplementsInput` is
`Spec => InputSpec`, so both theorems hold of the console with log, wheel and drawing.

**ConsoleProofs**, the view - any log, heights of messages, window at every draw, prompt and
use of the wheel. The two loops of `screen_fmt_to_buf` count rows from the bottom, the
reference `Section` cuts from all rows. Both are brought to the same numbers: `RowsFrom` is a
stack of the rows of each message (`RowsStack`, by `SetInduction` over the messages), so the
rows from a message on are the last `Below` of all rows (`RowsAre`, `RowsAreLast`), and what is
written from any row of any message on is a part of all rows (`WrittenIs`). The second loop is
not entered, comes to the head, or stops with a message (`FirstIs`). For each of the latter
two, `HeadNumbers` and `InsideNumbers` are the arithmetic that makes that part the section; the
first needs a message higher than the window (`AlwaysEntered`), which is exactly what
`DrawShowsSection` excludes. `ViewType` needs no such condition. `ViewInv` is `IInv` with the
types of log, scroll positions and rows: `ConsoleTypeCorrect` (`TypeOK`) follows from it, and
`SectionShown` (`DrawShowsSection`), for which the length of the draft in `IInv` gives the rows
of the input line.

**SessionProofs** - every severity. `IInv` is the types, what has been acquired and changed
at each place in `main` (`ResourceInv`, `ConsoleInv`), when a write can have met which
state of the file (`LoggedInv`), and what the rest of a message still resets
(`WriteInv`: while attributes or half a line stand at the end of the file, some thread
still has the piece in hand that ends them - `LogIsClean` for every interleaving).

**TextsProofs**, the layout - any text of any length, of any characters. `ReadAlike` is
`ColorsReadAlike`: which of the seven forms of a colour sequence stand at a place depends on
the digits and the comma behind it (`FormsAre`), so the longest has a length that can be
written down (`ColorSequenceIs`), and each of the three parsers is brought to it.
`RowsAreRight` is `RowsAsDrawn`, which compares loops that do not move in step: the reference
and the drawing go from token to token, `strlen_on_screen` passes escapes and colours in
batches, and inside an escape that it entered behind a colour it goes byte by byte. All are
sums of weights along a way through the text (`AddsUp`): the drawn bytes are the visible
ones (`DrawnIsVisible`), and what `strlen_on_screen` counts from a place on is what is
visible at the tokens it stops at (`CountsWhereItStops`), without the bytes above 127
(`HighFrom`), with the rest of an escape it stumbled into (`CountedInEscape`). In an ASCII
text without an escape behind a colour both sums are empty (`EmptySum`).
`RowsFrom` puts these together from the end of the text to its beginning, and needs
`WellFormed` where an escape must consist of printable bytes.

**TextsProofs**, the cuts - any text, any number of rows and columns, any bytes behind the
table that do not show. `CutsClean` is `CleanCuts`, which compares a text with what is left
of it when it is cut. A text cut off in front of a byte may have other tokens than the
whole: an escape loses its end, a colour sequence its digits. `KeptToken` says when a token
of a text is still one of its front (it ends there), `KeptAhead` when a token of a front is
one of what is appended to (what follows is no digit and no comma), `TokenBehind` that those of
the back always are. `Apart` adds up: where no token is cut, a text shows and formats as
its front and its back together. `CutIs` is the invariant of the loop: no token is cut in
front of `i` (`Uncut`), the bytes in front of it show as many as are counted and format as the
replayed ones do, each replayed escape has its end, and the replay is not longer than the
bytes in front that do not show. Each turn is one token (`CutStep`, where `TokenReads` says what a token is
alone); `PlaceAt` is the loop, by `Recursion` over its turns and `SetInduction`.

**TextsProofs**, the formatters - any size of the buffer, any lengths. `Holds` says after how
many operations the buffer begins with what they were to write, codes left out, and whether
a NUL is sure to stand behind it (a character put by hand leaves none); each writer has a
lemma of its own (`CodeHolds`, `PrintedHolds`, `CharHolds`, `CheckHolds`), so that
`DefaultShows` and `PrivmsgShows` walk through the lists of operations.

**TextsProofs**, the parser - any line of any length, of any characters. `LineSplit` is
`LinesAreSplit`. The parser cuts pieces off the line and sees a word only from its end; the
reference has all words at once. `Behind` ties the two: a place in the line where a piece
begins, and how many words begin in front of it; `NextWord` goes from one to the next
(`StartsAre` is the enumeration, by `Recursion` over the line). `StrtokIs` and `StrtokNone`
say what a call finds in any part of the line, `TokensAre` does it until none is left (by
`Unwinding` and `FromTheEnd`: each rest is shorter, `RestIsShorter`). The delicate case is the `:`
that begins the last parameter: the space in front of it may be the one that `strtok_s`
has overwritten behind the command, and `ColonMarkIs` shows that the marks that are looked
for are nevertheless the words with a `:`.

`ColorsCorrect`, `RowsCorrect`, `CutsCorrect`, `FormattedCorrect` and `LinesCorrect` say these of the inputs of the runs, whose bounds are then any.

Only model-checked: liveness, which is out of the prover's reach, that is `CallsReturn`,
`ServerLinesAreHandled`, `UserLinesAreHandled` and `QuitEnds`. Every other property that a
passing run checks is a theorem.

## 6. Where the code and its documents disagree

Shown by a run:

* `receiver_full`: a `recv()` that fills the buffer to the last byte ends the thread
  before the complete lines in the buffer are looked for (`src/main.c:482`).
* `handlers_tabs`: with eight screens `screen_fmt_tabs` reads behind `s_scrslots`
  (`src/screen_framework.c:520`).
* `texts_errors`: `screenfmt_privmsg_error` writes its second colour to
  the start of the buffer (`src/handlers.c:225`); the NUL behind it hides the whole text, so
  that nothing shows of a message that was not sent, though the function reports success.
* `texts_rows`: `strlen_on_screen` does not count bytes above 127 (`src/screen_framework.c:940`),
  which `calc_screen_offset` calls common and printable (lines 1043-1044).
  The property fails in another way too, in ASCII: the function passes escapes and then
  colours (lines 909 and 922), so that it counts the bytes of an escape that stands directly
  behind a colour.

Seen while modelling, without a run of its own; the models contain what the code does, as an
end of the program:

* A channel name of `CHANNEL_NAME_MAXLEN` characters passes the check of `!join`
  (`src/handlers.c:406`) and does not fit `screen.name`: `strcpy_s` ends the program after JOIN
  was sent. `include/screen_framework.h:8` says of the length only that it includes the prefix.
* `include/msgutils.h:27-29` promises NULL for a line that cannot be parsed
  and `src/main.c:313` is ready for it; the assertion at `src/msgutils.c:31` ends the program.
  An empty line from the server is one.
* The comment at `src/handlers.c:177-181` expects -1 of `sprintf_s` where it
  runs out of room; it ends the program, and what the formatters do with -1 is dead code.

Others, outside the models or without a document that says otherwise:

* Chat typed on the home screen is sent as `PRIVMSG home` (`src/handlers.c:275`); the
  README (lines 49-50) has it go to the current channel.
* The README gives `\` as the prefix of a literal message, the code takes `` ` ``
  (`src/handlers.c:261`).
* A raw JOIN (`src/handlers.c:264`) makes no screen, and `!join #a,#b` makes one with the name
  `#a,#b`: what is said on these channels lands on home, and stays there when a screen for the
  channel is made later. Nothing says where it should show.
* After a raw QUIT the connection ends and the program goes on without it, until `!quit`.
* PING is not answered.
* The ESC key sets `user_quit`, which the caller ignores. `AsciiChar` is signed, so that nothing
  outside ASCII can be typed.
* A message higher than the window can fill it with the part that was to be skipped; the
  loop that looks for the first row is then not entered and the view jumps
  (`src/screen_framework.c:593`). `DrawShowsSection` leaves this case out.
* On an empty log the wheel does accrue scroll, against the comment at
  `src/screen_framework.c:681`.
* `strlen_on_screen` asserts on a lone CR or LF. `draw_screen` takes
  the length of header and tabs with their escape bytes, so they get too many rows.
* Log lines of the two threads can mix, and one can take the other's colour; `LogIsClean`
  says that it does not last. Failures behind `CreateThread` close the log file while the
  receiver thread still logs (`src/main.c:230`), which `LogIsOpen` singles out.
* After `!quit` the client hangs when the connection does not end (section 4). The end of
  the receiver thread is not communicated to the main loop. The result of
  `CreateThread` is not looked at.

## 7. What is not modelled

* The writers of `terminalutils.c` to a `FILE` and its table of colours: pure output,
  without a state that anything reads. Its writers to a buffer are in `Formatters`, by the
  length of what they write.
* `misc/ui_poc.c`, a stand-alone experiment that is not part of the program.
* The texts of the header and the tabs, time stamps (`msgutils_get_timestamp`), the wording
  of messages; which escape sequence a format becomes, and the bound of the output
  buffer in the screen view.
* Functions nothing calls: `msglist_pushback_take` and `screenlog_push_take` are covered
  by their twins, the `DEBUG_print_*` functions only read.
* More than one loop at once: that keys, queues, handlers and drawing work on the same
  screens is checked in three models that share the turn of the loop (section 2).

## 8. What is left

1. `DrawShowsSection` for a message higher than the window, once it is decided what should
   show.
2. Several log files or windows, more than two threads in `Session`: nothing in the code
   asks for them; `Logger` and `MsgQueue` are parameterised for it.
