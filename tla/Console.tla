------------------------------- MODULE Console -------------------------------
(***************************************************************************)
(* The maintenance console: one line protocol over the cable, over one TCP  *)
(* caller and over commands that came as messages.  src/src/sys/            *)
(* Maintenance.cpp (sessions, lines, passwords), MaintenanceProtocol.h (the *)
(* line assembler and the parser) and src/src/net/ConsoleServer.cpp (the    *)
(* listener and its one client).  All of it runs on the loop task, a session *)
(* at a time; what the outside does meanwhile -- bytes arriving, callers     *)
(* dialling and hanging up, the web page turning switches, the port's other *)
(* owner taking the cable's stream -- comes between any two bytes.           *)
(*                                                                         *)
(* A line is a sequence of bytes and each byte carries who typed it, so that *)
(* a line put together from two hands would show.  A command is a letter:    *)
(* "v" asks the version, "s" stands for every command that tells or changes  *)
(* something, "g" and "w" are AUTH with the right and a wrong password; a    *)
(* line of mixed letters is one the parser refuses.                          *)
(***************************************************************************)
EXTENDS Integers, Sequences, FiniteSets

CONSTANTS
  Callers,       \* who may dial in over TCP
  Slots,         \* MAINT_NET_SESSIONS
  Reserved,      \* MAINT_RESERVED_SESSIONS: kept for callers the transport proved
  MaxLine,       \* MAX_LINE
  MaxFailures,   \* MAINT_AUTH_MAX_FAILURES
  MaxBytes,      \* bound: bytes typed in one behaviour
  MaxEvents,     \* bound: switches turned, streams changed and commands by message
  Letters        \* what is typed: commands, and "n" for the end of a line

Cable   == {"serial", "reader"}        \* the two streams the cable's session may read
Message == "message"                   \* a command that came as a message
Nobody  == "nobody"
End     == "n"
Sessions == 0..Slots                   \* 0 is the cable's
Server   == -1                         \* the pass's other turns
Admin    == Slots + 1
AdminEnd == Slots + 2

VARIABLES
  on, tcp,       \* the switches consoleEnabled and consoleTcp
  listening,     \* sServer # nullptr
  client,        \* the caller behind sClient, or Nobody
  late,          \* kUnauthedMs have passed since it came in
  io,            \* session -> whose stream it reads, or Nobody
  line, dropping,\* session -> its LineAssembler
  authed, closing,
  failures, locked,
  at,            \* where the loop's pass is
  nested,        \* the sessions are served from within Admin::poll
  orders,        \* commands that came as messages and wait to run
  hands,         \* who typed the changing command this step ran
  proved,        \* callers whose connection has given the right password
  guesses,       \* wrong passwords judged since the last lock-out ended or a right one
  typed, events

switches == <<on, tcp>>
server   == <<listening, client, late>>
session  == <<io, authed, closing>>
lines    == <<line, dropping>>
auth     == <<failures, locked, proved, guesses>>
pass     == <<at, nested, orders>>
vars == <<switches, server, session, lines, auth, pass, hands, typed, events>>

-----------------------------------------------------------------------------
\* Sessions.

Fresh == <<>>
Begins(s, who, preAuthed) ==
  /\ io' = [io EXCEPT ![s] = who]
  /\ authed' = [authed EXCEPT ![s] = preAuthed]
  /\ closing' = [closing EXCEPT ![s] = FALSE]
  /\ line' = [line EXCEPT ![s] = Fresh]
  /\ dropping' = [dropping EXCEPT ![s] = FALSE]

\* openSession: the first free slot for a caller, the last for a proved one,
\* which may have them all.  Nothing of the last user's survives.
Usable(preAuthed) == IF preAuthed THEN 1..Slots ELSE 1..(Slots - Reserved)

Free(preAuthed) == {s \in Usable(preAuthed): io[s] = Nobody}
Slot(preAuthed) == CHOOSE s \in Free(preAuthed):
                     \A t \in Free(preAuthed): IF preAuthed THEN t <= s ELSE s <= t

Open(who, preAuthed) == Begins(Slot(preAuthed), who, preAuthed)

Session(who) == CHOOSE s \in Sessions: io[s] = who
Close(who) == Begins(Session(who), Nobody, FALSE)

-----------------------------------------------------------------------------
\* One command.

\* parse(): a line of one letter, once or more, is a command; any other is refused.
Command(l) == IF \A i \in 1..Len(l): l[i].letter = l[1].letter THEN l[1].letter ELSE "?"
MayRun(s, cmd) == s = 0 \/ authed[s] \/ cmd \in {"g", "w", "v"}

\* A wrong password over the network counts for the whole node.
WrongPassword(s) ==
  /\ guesses' = guesses + 1
  /\ IF failures + 1 >= MaxFailures
     THEN failures' = 0 /\ locked' = TRUE /\ closing' = [closing EXCEPT ![s] = TRUE]
     ELSE failures' = failures + 1 /\ UNCHANGED <<locked, closing>>
  /\ UNCHANGED <<proved, authed>>

RightPassword(s) ==
  /\ authed' = [authed EXCEPT ![s] = TRUE]
  /\ proved' = proved \cup {io[s]}
  /\ failures' = 0 /\ guesses' = 0
  /\ UNCHANGED <<locked, closing>>

\* doAuth: the cable's answer changes nothing but its own session's mark; while
\* the network is locked out its passwords are not looked at.
Auth(s, cmd) ==
  CASE s = 0 -> /\ authed' = [authed EXCEPT ![0] = @ \/ cmd = "g"]
                /\ UNCHANGED <<auth, closing>>
    [] s # 0 /\ locked -> UNCHANGED <<auth, authed, closing>>
    [] OTHER -> IF cmd = "g" THEN RightPassword(s) ELSE WrongPassword(s)

\* Any setting may be the one a command changes, the console's own switches too.
Change == on' \in BOOLEAN /\ tcp' \in BOOLEAN
Hands(l) == {l[i].by: i \in 1..Len(l)}

Dispatch(s, l) ==
  LET cmd == Command(l)
  IN  /\ UNCHANGED io
      /\ IF cmd = "s" /\ MayRun(s, cmd)
         THEN Change /\ hands' = Hands(l) ELSE UNCHANGED switches /\ hands' = {}
      /\ IF cmd \in {"g", "w"} THEN Auth(s, cmd) ELSE UNCHANGED <<auth, authed, closing>>

-----------------------------------------------------------------------------
\* serve(): one session's turn, a byte at a time.

Serving == at \in Sessions
NextSession ==
  /\ at' = IF at < Slots THEN at + 1 ELSE IF nested THEN AdminEnd ELSE Admin
  /\ UNCHANGED <<nested, orders>>

\* No caller, nothing to read, or the budget is spent.
ServeSilent ==
  /\ Serving
  /\ io[at] # Message /\ (on \/ io[at] = Nobody)
  /\ NextSession /\ hands' = {}
  /\ UNCHANGED <<switches, server, session, lines, auth, typed, events>>

\* A port that was silent for long in the middle of a line: the line is dropped.
ServeStale ==
  /\ Serving /\ io[at] # Nobody /\ on /\ line[at] # Fresh
  /\ line' = [line EXCEPT ![at] = Fresh]
  /\ NextSession /\ hands' = {}
  /\ UNCHANGED <<switches, server, session, dropping, auth, typed, events>>

\* Off means off: what arrives is read and thrown away, and so is half a line.
ServeOff ==
  /\ Serving /\ io[at] # Nobody /\ ~on
  /\ line' = [line EXCEPT ![at] = Fresh] /\ dropping' = [dropping EXCEPT ![at] = FALSE]
  /\ NextSession /\ hands' = {}
  /\ UNCHANGED <<switches, server, session, auth, typed, events>>

\* LineAssembler::feed
Feed(b) ==
  LET l == line[at]
  IN  IF b.letter # End
      THEN /\ IF dropping[at] THEN UNCHANGED lines
              ELSE IF Len(l) >= MaxLine
              THEN line' = [line EXCEPT ![at] = Fresh] /\ dropping' = [dropping EXCEPT ![at] = TRUE]
              ELSE line' = [line EXCEPT ![at] = Append(l, b)] /\ UNCHANGED dropping
           /\ hands' = {}
           /\ UNCHANGED <<switches, session, auth>>
      ELSE /\ line' = [line EXCEPT ![at] = Fresh] /\ dropping' = [dropping EXCEPT ![at] = FALSE]
           /\ IF dropping[at] \/ l = Fresh
              THEN hands' = {} /\ UNCHANGED <<switches, session, auth>>
              ELSE Dispatch(at, l)

\* A byte typed at this session's stream.  A session that is to be hung up on
\* reads no further in this turn.
ServeByte ==
  /\ Serving /\ io[at] \notin {Nobody, Message} /\ on
  /\ typed < MaxBytes /\ typed' = typed + 1
  /\ \E l \in Letters: Feed([by |-> io[at], letter |-> l])
  /\ IF closing'[at] THEN NextSession ELSE UNCHANGED pass
  /\ UNCHANGED <<server, events>>

\* The one line of a command that came as a message.
ServeMessage ==
  /\ Serving /\ io[at] = Message /\ on
  /\ Dispatch(at, <<[by |-> Message, letter |-> "s"]>>)
  /\ NextSession
  /\ UNCHANGED <<server, lines, typed, events>>

-----------------------------------------------------------------------------
\* ConsoleServer::poll

NoClient == client = Nobody
Wanted == on /\ tcp

\* Mutant: a caller that keeps typing is let stay without a password.
MustGoSilent == ~NoClient /\ (closing[Session(client)]
                              \/ (late /\ ~authed[Session(client)] /\ line[Session(client)] = Fresh))

MustGo == ~NoClient /\ (closing[Session(client)] \/ (late /\ ~authed[Session(client)]))

Gone == /\ Close(client)
        /\ client' = Nobody /\ late' = FALSE
        /\ proved' = proved \ {client}

\* The switch: the listener is built (the port may be taken) or destroyed.
Listen ==
  /\ at = Server /\ Wanted /\ ~listening
  /\ listening' \in BOOLEAN
  /\ at' = 0 /\ hands' = {}
  /\ UNCHANGED <<switches, client, late, session, lines, auth, nested, orders, typed, events>>

StopListening ==
  /\ at = Server /\ ~Wanted
  /\ listening' = FALSE
  /\ IF NoClient THEN UNCHANGED <<client, late, session, lines, proved>> ELSE Gone
  /\ at' = 0 /\ hands' = {}
  /\ UNCHANGED <<switches, failures, locked, guesses, nested, orders, typed, events>>

\* The caller guessed too often or gave no password in time, hung up or went
\* idle, which it may at any moment.  Another may be waiting already.
DropClient ==
  /\ at = Server /\ Wanted /\ listening /\ ~NoClient
  /\ Gone
  /\ hands' = {}
  /\ UNCHANGED <<switches, listening, failures, locked, guesses, pass, typed, events>>

\* A new caller is let in when there is nobody and a session, else refused.
Accept ==
  /\ at = Server /\ Wanted /\ listening /\ NoClient
  /\ \E c \in Callers:
       IF Free(FALSE) # {} THEN Open(c, FALSE) /\ client' = c /\ late' = FALSE
       ELSE UNCHANGED <<session, lines, client, late>>
  /\ at' = 0 /\ hands' = {}
  /\ UNCHANGED <<switches, listening, auth, nested, orders, typed, events>>

\* Nobody new, or one who is refused because another has the console.
NothingToAccept ==
  /\ at = Server /\ Wanted /\ listening /\ ~MustGo
  /\ at' = 0 /\ hands' = {}
  /\ UNCHANGED <<switches, server, session, lines, auth, nested, orders, typed, events>>

-----------------------------------------------------------------------------
\* Admin::poll: a command that came as a message gets a session of its own,
\* every session is served once more, and the session is closed.

AdminIdle ==
  /\ at = Admin /\ orders = 0
  /\ at' = Server /\ hands' = {}
  /\ UNCHANGED <<switches, server, session, lines, auth, nested, orders, typed, events>>

AdminOpens ==
  /\ at = Admin /\ orders > 0
  /\ orders' = orders - 1 /\ hands' = {}
  /\ IF Free(TRUE) = {} THEN at' = Server /\ UNCHANGED <<session, lines, nested>>
     ELSE Open(Message, TRUE) /\ at' = 0 /\ nested' = TRUE
  /\ UNCHANGED <<switches, server, auth, typed, events>>

AdminCloses ==
  /\ at = AdminEnd
  /\ Close(Message)
  /\ at' = Server /\ nested' = FALSE /\ hands' = {}
  /\ UNCHANGED <<switches, server, auth, orders, typed, events>>

-----------------------------------------------------------------------------
\* Outside.

Event == events < MaxEvents /\ events' = events + 1 /\ hands' = {}

\* useStream: half a line belongs to the stream it was typed on.
UseStream ==
  /\ Event /\ at \notin Sessions
  /\ io' = [io EXCEPT ![0] = IF @ = "serial" THEN "reader" ELSE "serial"]
  /\ line' = [line EXCEPT ![0] = Fresh] /\ dropping' = [dropping EXCEPT ![0] = FALSE]
  /\ UNCHANGED <<switches, server, authed, closing, auth, pass, typed>>

\* The web page turns the switches.
Switch ==
  /\ Event
  /\ Change
  /\ UNCHANGED <<server, session, lines, auth, pass, typed>>

Order ==
  /\ Event
  /\ orders < 2 /\ orders' = orders + 1
  /\ UNCHANGED <<switches, server, session, lines, auth, at, nested, typed>>

Deadline ==
  /\ ~NoClient /\ ~late /\ late' = TRUE /\ hands' = {}
  /\ UNCHANGED <<switches, listening, client, session, lines, auth, pass, typed, events>>

\* The lock-out's time is up.
Unlock ==
  /\ locked /\ locked' = FALSE /\ guesses' = 0 /\ hands' = {}
  /\ UNCHANGED <<switches, server, session, lines, failures, proved, pass, typed, events>>

-----------------------------------------------------------------------------
Init ==
  /\ on = TRUE /\ tcp = TRUE /\ listening = TRUE
  /\ client = Nobody /\ late = FALSE
  /\ io = [s \in Sessions |-> IF s = 0 THEN "serial" ELSE Nobody]
  /\ line = [s \in Sessions |-> Fresh] /\ dropping = [s \in Sessions |-> FALSE]
  /\ authed = [s \in Sessions |-> FALSE] /\ closing = [s \in Sessions |-> FALSE]
  /\ failures = 0 /\ locked = FALSE /\ proved = {} /\ guesses = 0
  /\ at = Server /\ nested = FALSE /\ orders = 0
  /\ hands = {} /\ typed = 0 /\ events = 0

\* The turns that move the loop's pass on, whoever types what.
Turn == \/ Listen \/ StopListening \/ Accept \/ NothingToAccept
        \/ ServeSilent \/ ServeOff \/ ServeMessage
        \/ AdminIdle \/ AdminOpens \/ AdminCloses

Next == \/ Turn \/ DropClient \/ ServeStale \/ ServeByte
        \/ UseStream \/ Switch \/ Order \/ Deadline \/ Unlock

Spec == Init /\ [][Next]_vars

\* The loop goes round, what must be dropped is dropped, and time passes.
FairSpec == Spec /\ WF_vars(Turn) /\ WF_vars(DropClient /\ MustGo) /\ WF_vars(Deadline)

-----------------------------------------------------------------------------
\* What it promises.

\* A command that changes something was typed by one hand, from its first byte
\* to its last, and that hand is at the cable, has proved itself on this very
\* connection, or came as a message that was judged already.
OneProvedHand ==
  hands # {} => \E h \in hands: hands = {h} /\ h \in Cable \cup {Message} \cup proved

\* However often callers hang up and dial again, the node judges no more than
\* so many wrong passwords before it stops looking.
GuessesBounded == guesses <= MaxFailures

\* A command that came as a message always finds a session to run in.
MessageFindsASession == at = Admin => Free(TRUE) # {}

\* A caller that never proves itself does not keep the console, whatever it types.
SilentCallerGoes ==
  \A c \in Callers: client = c ~> client # c \/ authed[Session(c)]
=============================================================================
