------------------------------ MODULE PppPort -------------------------------
(***************************************************************************)
(* One UART for the log, the console and PPP (src/src/net/PppUart.cpp).     *)
(* Three tasks meet here: the reader, which alone runs the arbiter and the  *)
(* session; the loop task, which builds the interface when the operator     *)
(* switches PPP on and gives it back, a step a pass, when they switch it    *)
(* off (LazyStart.h, the Teardown machine) and closes the session before a  *)
(* restart; and the event task, which says that lwIP's session has reached  *)
(* its dead phase, when it gets to it.                                      *)
(*                                                                         *)
(* Not here: addresses (sUp, sOurIp), the baud rate, byte counters and the  *)
(* buffers of transmit() and ConsoleStream.                                 *)
(***************************************************************************)
EXTENDS PppArbiter

CONSTANTS
  MaxFlips,      \* bound: times the operator turns the switch
  MaxSessions,   \* bound: sessions in one behaviour
  MaxEvents,     \* bound: both together
  BuildFails     \* building the interface or its task may fail

VARIABLES
  want,          \* the operator's switch
  enabled, closing, tearing,     \* sEnabled, sClosing, sTearingDown
  netif,         \* sNetif # nullptr
  failed,        \* sLazy._failed
  teardown,      \* sTeardown: "Idle", "Session", "Reader"
  alive, stopReader,             \* sReaderAlive, sReaderStop
  reader,        \* the reader task: "gone", "top", "serve", "feed", "mute", "connect", "unmute"
  port,          \* sOwner, the arbiter's answer for other tasks
  started, stopping, dead,       \* sStarted, sStopping, sDead
  muted,         \* the log is silenced
  stream,        \* what the maintenance console reads: "serial" or "reader"
  loop,          \* the loop task: "poll", "ask", "task", "stream", "unwind", "closing", "down"
  session,       \* lwIP's session: "dead", "open", "closing"
  deaths,        \* dead-phase events posted and not yet handled
  silent,        \* kIdleDeadMs have gone by without a frame
  overdue,       \* kStopGraceMs have gone by since the session was asked to stop
  late,          \* and kTeardownMarginMs more since the teardown began
  host,          \* "there" or "gone", for good
  flips, sessions

switch  == <<want, flips, host>>
loopOnly == <<enabled, closing, tearing, failed, teardown, stream, loop>>
shared  == <<netif, alive, stopReader, port, started, stopping, dead, muted>>
lwip    == <<session, deaths>>
timers  == <<silent, overdue, late>>
vars == <<arbiter, switch, loopOnly, shared, reader, lwip, timers, sessions>>

Room == flips + sessions < MaxEvents

-----------------------------------------------------------------------------
\* lwIP and its event loop, external.

\* esp_netif_action_stop: an open session begins to close.
AskStop == session' = (IF session = "open" THEN "closing" ELSE session) /\ UNCHANGED deaths

\* The host closes an open session, or a close is answered or given up.
SessionDies ==
  /\ session = "closing" \/ (session = "open" /\ host = "there")
  /\ session' = "dead" /\ deaths' = deaths + 1
  /\ UNCHANGED <<arbiter, switch, loopOnly, shared, reader, timers, sessions>>

\* onStatus, on the event task; after the handlers are gone nobody hears it.
DeadEvent ==
  /\ deaths > 0
  /\ deaths' = deaths - 1
  /\ dead' = (dead \/ netif)
  /\ UNCHANGED <<arbiter, switch, loopOnly, netif, alive, stopReader, port, started,
                 stopping, muted, reader, session, timers, sessions>>

Silence ==
  /\ owner = "ppp" /\ ~silent
  /\ silent' = TRUE
  /\ UNCHANGED <<arbiter, switch, loopOnly, shared, reader, lwip, overdue, late, sessions>>

Overdue ==
  /\ stopping /\ ~overdue
  /\ overdue' = TRUE
  /\ UNCHANGED <<arbiter, switch, loopOnly, shared, reader, lwip, silent, late, sessions>>

\* The reader may be held up wherever it is for as long as this takes.
Late ==
  /\ teardown = "Session" /\ ~late
  /\ late' = TRUE
  /\ UNCHANGED <<arbiter, switch, loopOnly, shared, reader, lwip, silent, overdue, sessions>>

-----------------------------------------------------------------------------
\* The reader.

\* The only place it leaves: the top of its loop.
ReaderLeaves ==
  /\ reader = "top" /\ stopReader
  /\ stopReader' = FALSE /\ alive' = FALSE
  /\ reader' = "gone"
  /\ UNCHANGED <<arbiter, switch, loopOnly, netif, port, started, stopping, dead, muted,
                 lwip, timers, sessions>>

ReaderReads ==
  /\ reader = "top" /\ ~stopReader
  /\ reader' = "serve"
  /\ routed' = Nothing
  /\ UNCHANGED <<owner, allow, held, decoded, esc, switch, loopOnly, shared, lwip, timers,
                 sessions>>

MayOpen == enabled /\ ~closing /\ ~tearing

Allow == allow' = (MayOpen /\ netif) /\ UNCHANGED routed

\* service() while the console owns the port: a death still unread was another
\* session's.
ServeConsole ==
  /\ reader = "serve" /\ owner = "console"
  /\ Allow /\ UNCHANGED <<owner, held, decoded, esc>>
  /\ dead' = FALSE
  /\ reader' = "feed"
  /\ UNCHANGED <<switch, loopOnly, netif, alive, stopReader, port, started, stopping, muted,
                 lwip, timers, sessions>>

MustStop == ~MayOpen \/ silent

\* finish(): the interface is told unless it was asked already, the port is the
\* console's, then the log is.
Finish ==
  /\ IF stopping THEN UNCHANGED lwip ELSE AskStop
  /\ started' = FALSE /\ stopping' = FALSE
  /\ Down
  /\ port' = "console"
  /\ reader' = "unmute"

\* service() while PPP owns it: the session ends because it died, or because
\* its close was not answered; else it is asked to stop, once, when it must.
ServeDead ==
  /\ reader = "serve" /\ owner = "ppp" /\ dead
  /\ Allow
  /\ dead' = FALSE
  /\ Finish
  /\ UNCHANGED <<switch, loopOnly, netif, alive, stopReader, muted, timers, sessions>>

ServeOverdue ==
  /\ reader = "serve" /\ owner = "ppp" /\ ~dead /\ stopping /\ overdue
  /\ Allow
  /\ Finish
  /\ UNCHANGED <<switch, loopOnly, netif, alive, stopReader, dead, muted, timers, sessions>>

ServeStop ==
  /\ reader = "serve" /\ owner = "ppp" /\ ~dead /\ ~stopping /\ MustStop
  /\ Allow /\ UNCHANGED <<owner, held, decoded, esc>>
  /\ AskStop
  /\ stopping' = TRUE /\ overdue' = FALSE
  /\ reader' = "feed"
  /\ UNCHANGED <<switch, loopOnly, netif, alive, stopReader, port, started, dead, muted,
                 silent, late, sessions>>

ServeOn ==
  /\ reader = "serve" /\ owner = "ppp" /\ ~dead
  /\ IF stopping THEN ~overdue ELSE ~MustStop
  /\ Allow /\ UNCHANGED <<owner, held, decoded, esc>>
  /\ reader' = "feed"
  /\ UNCHANGED <<switch, loopOnly, shared, lwip, timers, sessions>>

Unmute ==
  /\ reader = "unmute"
  /\ muted' = FALSE
  /\ reader' = "feed"
  /\ UNCHANGED <<arbiter, switch, loopOnly, netif, alive, stopReader, port, started, stopping,
                 dead, lwip, timers, sessions>>

\* One more byte of what was read, for the arbiter; or for PPP, where a flag
\* is a sign of life.
FeedConsole(c) ==
  /\ reader = "feed" /\ host = "there"
  /\ Feed(c)
  /\ owner' = "ppp" => Room /\ sessions < MaxSessions
  /\ IF owner' = "ppp"
     THEN /\ port' = "ppp" /\ sessions' = sessions + 1 /\ silent' = FALSE
          /\ reader' = "mute"
     ELSE UNCHANGED <<port, sessions, silent, reader>>
  /\ UNCHANGED <<switch, loopOnly, netif, alive, stopReader, started, stopping, dead, muted,
                 lwip, overdue, late>>

FeedPpp(c) ==
  /\ reader = "feed" /\ host = "there" /\ owner = "ppp"
  /\ silent' = (silent /\ c # FLAG)
  /\ UNCHANGED <<arbiter, switch, loopOnly, shared, reader, lwip, overdue, late, sessions>>

\* Nothing more to read; a port gone quiet gives back what is held.
EndOfRead ==
  /\ reader = "feed"
  /\ Quiet \/ UNCHANGED arbiter
  /\ reader' = "top"
  /\ UNCHANGED <<switch, loopOnly, shared, lwip, timers, sessions>>

\* takeOver(): the log first, the FIFO left to drain, then lwIP is to connect.
Mute ==
  /\ reader = "mute"
  /\ muted' = TRUE
  /\ reader' = "connect"
  /\ UNCHANGED <<arbiter, switch, loopOnly, netif, alive, stopReader, port, started, stopping,
                 dead, lwip, timers, sessions>>

\* lwIP connects only from its dead phase.
Connect ==
  /\ reader = "connect"
  /\ IF netif /\ ~started
     THEN started' = TRUE /\ session' = (IF session = "dead" THEN "open" ELSE session)
     ELSE UNCHANGED <<started, session>>
  /\ reader' = "feed"
  /\ UNCHANGED <<arbiter, switch, loopOnly, netif, alive, stopReader, port, stopping, dead,
                 muted, deaths, timers, sessions>>

-----------------------------------------------------------------------------
\* The loop task: poll(), a step of the teardown at a time.

Flip ==
  /\ Room /\ flips < MaxFlips
  /\ want' = ~want /\ flips' = flips + 1
  /\ UNCHANGED <<arbiter, host, loopOnly, shared, reader, lwip, timers, sessions>>

HostGoes ==
  /\ host = "there" /\ host' = "gone"
  /\ UNCHANGED <<arbiter, want, flips, loopOnly, shared, reader, lwip, timers, sessions>>

Busy == teardown # "Idle"
\* LazyStart: idle(), shouldStart(), shouldStop()
StillFailed == failed /\ (want \/ netif \/ Busy)
ShouldStart == want /\ ~netif /\ ~Busy /\ ~failed
ShouldStop  == ~want /\ netif /\ ~Busy

\* A pass with nothing to do but read the switch.
PollIdle ==
  /\ loop = "poll"
  /\ \/ ~Busy /\ ~ShouldStart /\ ~ShouldStop
     \/ teardown = "Session" /\ port = "ppp" /\ ~late
     \/ teardown = "Reader" /\ alive
  /\ enabled' = want /\ failed' = StillFailed
  /\ UNCHANGED <<arbiter, switch, closing, tearing, teardown, stream, loop, shared, reader,
                 lwip, timers, sessions>>

\* startPpp() up to its task
Build ==
  /\ loop = "poll" /\ ShouldStart
  /\ enabled' = want
  /\ \/ BuildFails /\ failed' = TRUE
        /\ UNCHANGED <<shared, closing, loop>>
     \/ /\ netif' = TRUE
        /\ started' = FALSE /\ dead' = FALSE /\ closing' = FALSE
        /\ stopReader' = FALSE /\ alive' = TRUE
        /\ loop' = "task"
        /\ UNCHANGED <<failed, port, stopping, muted>>
  /\ UNCHANGED <<arbiter, switch, tearing, teardown, stream, reader, lwip, timers, sessions>>

\* The task runs, or everything is given back.
BuildTask ==
  /\ loop = "task"
  /\ \/ /\ reader' = "top" /\ loop' = "stream"
        /\ UNCHANGED <<alive, netif, failed>>
     \/ /\ BuildFails
        /\ alive' = FALSE /\ netif' = FALSE /\ failed' = TRUE /\ loop' = "poll"
        /\ UNCHANGED reader
  /\ UNCHANGED <<arbiter, switch, enabled, closing, tearing, teardown, stream, stopReader, port,
                 started, stopping, dead, muted, lwip, timers, sessions>>

\* The console reads what the reader hands it from here.
BuildStream ==
  /\ loop = "stream"
  /\ stream' = "reader" /\ loop' = "poll" /\ failed' = FALSE
  /\ UNCHANGED <<arbiter, switch, enabled, closing, tearing, teardown, shared, reader, lwip,
                 timers, sessions>>

\* The switch is off: no new session from here, and the one there is to close.
StartTeardown ==
  /\ loop = "poll" /\ ShouldStop
  /\ enabled' = want /\ failed' = StillFailed
  /\ tearing' = TRUE /\ teardown' = "Session" /\ late' = FALSE
  /\ UNCHANGED <<arbiter, switch, closing, stream, loop, shared, reader, lwip, silent, overdue,
                 sessions>>

\* The reader is asked to leave once the port is the console's, or past the
\* grace: the reader was held up for that long.
AskReader ==
  /\ loop = "poll" /\ teardown = "Session"
  /\ port = "console" \/ late
  /\ enabled' = want
  /\ loop' = "ask"
  /\ UNCHANGED <<arbiter, switch, closing, tearing, failed, teardown, stream, shared, reader,
                 lwip, timers, sessions>>

Asked ==
  /\ loop = "ask"
  /\ stopReader' = TRUE /\ teardown' = "Reader" /\ loop' = "poll"
  /\ UNCHANGED <<arbiter, switch, enabled, closing, tearing, failed, stream, netif, alive, port,
                 started, stopping, dead, muted, reader, lwip, timers, sessions>>

\* Mutant: the loop task does not wait for the reader to be gone.
DestroyUnder ==
  /\ loop = "poll" /\ teardown = "Reader"
  /\ enabled' = want
  /\ netif' = FALSE
  /\ session' = "dead"
  /\ loop' = "unwind"
  /\ UNCHANGED <<arbiter, switch, closing, tearing, failed, teardown, stream, alive, stopReader,
                 port, started, stopping, dead, muted, reader, deaths, timers, sessions>>

\* The reader is gone: the interface is destroyed with what was in it ...
Destroy ==
  /\ loop = "poll" /\ teardown = "Reader" /\ ~alive
  /\ enabled' = want
  /\ netif' = FALSE
  /\ session' = "dead"
  /\ loop' = "unwind"
  /\ UNCHANGED <<arbiter, switch, closing, tearing, failed, teardown, stream, alive, stopReader,
                 port, started, stopping, dead, muted, reader, deaths, timers, sessions>>

\* ... and what a session cut short has left is put right.
Unwind ==
  /\ loop = "unwind"
  /\ IF started THEN Down /\ port' = "console" /\ muted' = FALSE
                ELSE UNCHANGED <<owner, held, decoded, esc, port, muted>>
  /\ started' = FALSE /\ stopping' = FALSE /\ dead' = FALSE
  /\ stream' = "serial" /\ tearing' = FALSE /\ teardown' = "Idle"
  /\ loop' = "poll"
  /\ UNCHANGED <<allow, routed, switch, enabled, closing, failed, netif, alive, stopReader,
                 reader, lwip, timers, sessions>>

\* shutdown(), before a restart: asks, waits for the port or for the time given,
\* and the node goes down.
Shutdown ==
  /\ loop = "poll"
  /\ IF port = "ppp" THEN closing' = TRUE /\ loop' = "closing"
                     ELSE loop' = "down" /\ UNCHANGED closing
  /\ UNCHANGED <<arbiter, switch, enabled, tearing, failed, teardown, stream, shared, reader,
                 lwip, timers, sessions>>

ShutdownDone ==
  /\ loop = "closing"
  /\ loop' = "down"
  /\ UNCHANGED <<arbiter, switch, enabled, closing, tearing, failed, teardown, stream, shared,
                 reader, lwip, timers, sessions>>

-----------------------------------------------------------------------------
Init ==
  /\ ArbiterInit
  /\ want = FALSE /\ enabled = FALSE /\ closing = FALSE /\ tearing = FALSE
  /\ netif = FALSE /\ failed = FALSE /\ teardown = "Idle"
  /\ alive = FALSE /\ stopReader = FALSE /\ reader = "gone"
  /\ port = "console" /\ started = FALSE /\ stopping = FALSE /\ dead = FALSE
  /\ muted = FALSE /\ stream = "serial" /\ loop = "poll"
  /\ session = "dead" /\ deaths = 0
  /\ silent = FALSE /\ overdue = FALSE /\ late = FALSE /\ host = "there"
  /\ flips = 0 /\ sessions = 0

Lwip   == SessionDies \/ DeadEvent
Reader == \/ ReaderLeaves \/ ReaderReads
          \/ ServeConsole \/ ServeDead \/ ServeOverdue \/ ServeStop \/ ServeOn
          \/ Unmute \/ EndOfRead \/ Mute \/ Connect
Bridge == \E c \in Bytes: FeedConsole(c) \/ FeedPpp(c)
Poll   == \/ PollIdle \/ Build \/ BuildTask \/ BuildStream
          \/ StartTeardown \/ AskReader \/ Asked \/ Destroy \/ Unwind
Restart == Shutdown \/ ShutdownDone

Next == /\ loop # "down"
        /\ \/ Lwip \/ Silence \/ Overdue \/ Late \/ Reader \/ Bridge
           \/ Flip \/ HostGoes \/ Poll \/ Restart

Spec == Init /\ [][Next]_vars

\* Every task runs on, events are handled, and time passes.  The host may send
\* for ever within one read only as far as the read's buffer: the reader gets
\* to the end of it.
FairSpec ==
  /\ Spec
  /\ WF_vars(loop # "down" /\ Poll) /\ WF_vars(ShutdownDone)
  /\ WF_vars(loop # "down" /\ (Reader \/ Bridge)) /\ SF_vars(loop # "down" /\ EndOfRead)
  /\ WF_vars(loop # "down" /\ DeadEvent)
  /\ WF_vars(loop # "down" /\ Overdue) /\ WF_vars(loop # "down" /\ Silence)

-----------------------------------------------------------------------------
\* What it promises.

\* The reader never runs without the interface it hands frames to, the console
\* and the reader never both read the port, lwIP's frames are never sent over
\* a log that is still talking, and the log is not left silent: muted means
\* that a session has the port, is taking it or is giving it back.
PortShared ==
  /\ reader # "gone" => netif
  /\ stream = "serial" => reader = "gone" \/ loop = "stream"
  /\ started /\ netif => muted
  /\ muted => port = "ppp" \/ reader = "unmute"

\* Switched off for good, the port is the console's alone again: no interface,
\* no reader, the console on the UART itself and the log heard.
Off == ~netif /\ ~alive /\ stream = "serial" /\ port = "console" /\ ~muted
GivenBack == <>[]~want => <>[](Off \/ loop = "down")

\* The host is gone -- pppd killed, the cable pulled -- and the console gets
\* the port although nobody closed the session.
NotHeldByTheDead == <>[](port = "console" \/ loop = "down") \/ []<>(host = "there")
=============================================================================
