------------------------------ MODULE WifiShape ------------------------------
(***************************************************************************)
(* What the Wi-Fi radio runs while the node is up: src/src/net/              *)
(* WifiManager.cpp (tick, syncRadioShape, the scan, join and forget of the   *)
(* glass), ApIdlePolicy.h, LocalLink.cpp (applyLinks) and the glass's own    *)
(* screen, src/src/ui/lvgl/UiWifiJoin.cpp.                                   *)
(*                                                                         *)
(* The loop task owns the driver and settles its mode from the settings; the *)
(* display task and the web server's only raise flags, at any point of the   *)
(* loop's pass.  AutoInterface is a task of its own that the loop starts and *)
(* stops around the mode (AutoIf models what it does in between).  The       *)
(* portal, mDNS and the beacon's retry are left out.                        *)
(***************************************************************************)
EXTENDS Integers, FiniteSets

CONSTANTS
  MaxAsks,       \* bound: what the operator asks in one behaviour
  MaxVisits,     \* bound: hosts that come to the access point
  MaxFaults,     \* bound: times AutoInterface stops itself, or does not answer end() in time
  MaxEvents,     \* bound: all of these together
  EndFailsMax,   \* kAutoIfEndFailsMax
  MidJoin        \* a network may be forgotten while a first one is being tried

VARIABLES
  apOn, staOn, net,          \* settings: the two switches, whether a network is stored
  mode,                      \* the driver's: a subset of {"AP", "STA"}
  visitor,                   \* a host is on the access point
  joined,                    \* WiFi.status() == WL_CONNECTED
  scan,                      \* the driver scans
  sync, wake, joinReq, scanReq, scanActive, joining,   \* flags the tasks share
  late,                      \* the join's deadline has passed
  quiet,                     \* the access point has been empty for the idle time
  latched, suppressed,       \* ApIdlePolicy's latch and its mirror
  staged,                    \* the teardown's grace: "no", "running", "over"
  dns,                       \* the resolver listens
  auto, selfStopped,         \* AutoInterface: "up", "stopping", "gone"
  fails,                     \* _autoIfEndFails
  at,                        \* where the loop's pass is
  glass,                     \* the join screen: "away", "scanning", "closing", "forgetting"
  timedOut, asks, visits, faults

settings == <<apOn, staOn, net>>
driver   == <<mode, joined, scan>>
asked    == <<wake, joinReq, scanReq>>
join     == <<joining, late>>
idle     == <<quiet, latched, suppressed>>
peering  == <<auto, selfStopped, fails>>
bounds   == <<timedOut, asks, visits, faults>>
vars == <<settings, driver, visitor, sync, asked, scanActive, join, idle, staged, dns, peering,
          at, glass, bounds>>

Room == asks + visits + faults < MaxEvents

WifiEnabled == apOn \/ staOn

\* settingsWifiMode
Shape(supp) ==
  LET wantSta == staOn /\ net
  IN  IF apOn /\ ~supp THEN IF wantSta THEN {"AP", "STA"} ELSE {"AP"}
      ELSE IF ~supp \/ wantSta THEN {"STA"} ELSE {}
Want == IF WifiEnabled THEN Shape(suppressed) ELSE {}

\* What a change of the mode does to what ran on it.
Becomes(m) ==
  /\ mode' = m
  /\ visitor' = (visitor /\ "AP" \in m)
  /\ joined' = (joined /\ "STA" \in m)
  /\ scan' = (scan /\ "STA" \in m)

-----------------------------------------------------------------------------
\* ApIdlePolicy::suppressed, asked with what the driver says this instant, and
\* its verdict mirrored; the latch lifts on a host while the point is on the air.
AskIdle ==
  LET up == "AP" \in mode
      held == latched /\ ~(up /\ visitor)
  IN  /\ latched' = (apOn /\ (held \/ (up /\ ~visitor /\ quiet)))
      /\ quiet' = (quiet /\ apOn /\ up /\ ~visitor)
      /\ suppressed' = latched'

FinalAsk == AskIdle

-----------------------------------------------------------------------------
\* tick()

\* The wake and the join asked for, each flag taken once.
Top ==
  /\ at = "top" /\ at' = "idle"
  /\ wake' = FALSE /\ joinReq' = FALSE
  /\ IF wake THEN latched' = FALSE /\ suppressed' = FALSE /\ quiet' = FALSE ELSE UNCHANGED idle
  /\ sync' = (sync \/ (wake /\ suppressed))
  /\ IF joinReq /\ WifiEnabled
     THEN /\ joining' = TRUE /\ late' = FALSE
          /\ mode' = mode \cup {"STA"} /\ joined' = FALSE
     ELSE UNCHANGED <<joining, late, mode, joined>>
  /\ UNCHANGED <<settings, visitor, scan, scanReq, scanActive, staged, dns, peering, glass, bounds>>

\* The idle policy, behind its gate; a join that is still trying ends the pass.
Idle ==
  /\ at = "idle"
  /\ at' = IF ~joining THEN "scan" ELSE IF joined THEN "save" ELSE IF late THEN "fail" ELSE "top"
  /\ \/ AskIdle /\ sync' = (sync \/ suppressed' # suppressed)
     \/ UNCHANGED <<idle, sync>>
  /\ UNCHANGED <<settings, driver, visitor, asked, scanActive, join, staged, dns, peering, glass, bounds>>

\* Proven on air, then written down, and the switch follows.
SaveJoin ==
  /\ at = "save" /\ at' = "saved"
  /\ net' = TRUE /\ staOn' = TRUE
  /\ UNCHANGED <<apOn, driver, visitor, sync, asked, scanActive, join, idle, staged, dns, peering,
                 glass, bounds>>

EndJoin ==
  /\ joining' = FALSE /\ sync' = TRUE
  /\ at' = "scan"
  /\ UNCHANGED <<settings, driver, visitor, asked, scanActive, late, idle, staged, dns, peering,
                 glass, bounds>>

Saved == at = "saved" /\ EndJoin
JoinFails == at = "fail" /\ EndJoin

\* The scan is claimed, the ask looked at again, the scan started, the ask cleared.
ClaimScan ==
  /\ at = "scan"
  /\ scanActive' = (scanActive \/ (scanReq /\ WifiEnabled))
  /\ scanReq' = (scanReq /\ WifiEnabled)
  /\ at' = IF scanReq /\ WifiEnabled THEN "claimed" ELSE "shape"
  /\ UNCHANGED <<settings, driver, visitor, sync, wake, joinReq, join, idle, staged, dns, peering,
                 glass, bounds>>

StartScan ==
  /\ at = "claimed"
  /\ IF scanReq
     THEN mode' = mode \cup {"STA"} /\ scan' = TRUE /\ at' = "started" /\ UNCHANGED scanActive
     ELSE scanActive' = FALSE /\ at' = "shape" /\ UNCHANGED <<mode, scan>>
  /\ UNCHANGED <<settings, visitor, joined, sync, asked, join, idle, staged, dns, peering, glass, bounds>>

ClearAsk ==
  /\ at = "started" /\ at' = "shape"
  /\ scanReq' = FALSE
  /\ UNCHANGED <<settings, driver, visitor, sync, wake, joinReq, scanActive, join, idle, staged, dns,
                 peering, glass, bounds>>

\* A convergence is asked for by the flag, or by peering that stopped itself;
\* it waits for what is asked or running.
Restartable == selfStopped /\ auto = "gone" /\ mode # {}
Converge ==
  /\ at = "shape"
  /\ LET due == sync \/ Restartable
         free == ~scanActive /\ ~scanReq /\ ~joinReq
     IN  /\ sync' = (due /\ ~free)
         /\ at' = IF due /\ free THEN "sync" ELSE "top"
  /\ UNCHANGED <<settings, driver, visitor, asked, scanActive, join, idle, staged, dns, peering,
                 glass, bounds>>

-----------------------------------------------------------------------------
\* syncRadioShape()

DropAp == "AP" \in mode /\ "AP" \notin Want
CalledOff == IF Want # {} THEN 0 ELSE fails

\* A teardown is staged, or waits out its grace: back next pass.
Stage ==
  /\ at = "sync" /\ DropAp /\ staged # "over"
  /\ staged' = "running"
  /\ fails' = CalledOff
  /\ sync' = TRUE /\ at' = "top"
  /\ UNCHANGED <<settings, driver, visitor, asked, scanActive, join, idle, dns, auto, selfStopped,
                 glass, bounds>>

\* Due, but the last look found a host: the access point stays.
Kept ==
  /\ at = "sync" /\ DropAp /\ staged = "over"
  /\ staged' = "no" /\ fails' = CalledOff
  /\ FinalAsk
  /\ WifiEnabled /\ "AP" \in Shape(suppressed')
  /\ sync' = (sync \/ suppressed' # suppressed) /\ at' = "top"
  /\ UNCHANGED <<settings, driver, visitor, asked, scanActive, join, dns, auto, selfStopped,
                 glass, bounds>>

Due == IF DropAp
       THEN /\ staged = "over" /\ FinalAsk
            /\ ~(WifiEnabled /\ "AP" \in Shape(suppressed'))
            /\ sync' = (sync \/ suppressed' # suppressed)
       ELSE UNCHANGED <<idle, sync>>

\* Nothing left to run: peering goes first.
AskEnd ==
  /\ at = "sync" /\ Want = {} /\ mode # {}
  /\ Due
  /\ staged' = "no"
  /\ auto' = IF auto = "gone" THEN "gone" ELSE "stopping"
  /\ at' = "end"
  /\ UNCHANGED <<settings, driver, visitor, asked, scanActive, join, dns, selfStopped, fails,
                 glass, bounds>>

RadioOff ==
  /\ Becomes({})
  /\ fails' = 0 /\ dns' = FALSE /\ at' = "top"

Ended ==
  /\ at = "end" /\ auto = "gone"
  /\ RadioOff
  /\ UNCHANGED <<settings, sync, asked, scanActive, join, idle, staged, auto, selfStopped, glass, bounds>>

\* end() waited five seconds for a task that did not answer: the teardown is
\* walked again, three times at most.
TimedOut ==
  /\ at = "end" /\ auto = "stopping"
  /\ Room /\ faults < MaxFaults /\ faults' = faults + 1 /\ timedOut' = TRUE
  /\ IF fails + 1 < EndFailsMax
     THEN /\ fails' = fails + 1 /\ sync' = TRUE /\ at' = "top"
          /\ UNCHANGED <<driver, visitor, dns>>
     ELSE RadioOff /\ UNCHANGED sync
  /\ UNCHANGED <<settings, asked, scanActive, join, idle, staged, auto, selfStopped, glass, asks,
                 visits>>

\* Peering is started wherever a link runs and it is wanted and not up.
NeedsPeering == auto = "gone"

StartPeering ==
  IF Want # {} /\ NeedsPeering THEN auto' = "up" /\ selfStopped' = FALSE
  ELSE UNCHANGED <<auto, selfStopped>>

\* Mutant: the resolver moves with the access point's own coming and going.
ServicesByIntent == dns' = IF DropAp THEN FALSE ELSE dns

\* The resolver follows the access point as it is observed, at the end of every
\* pass that runs to its end.
Services == dns' = ("AP" \in mode')

\* The mode the settings want, which may be the one there is.
Settle ==
  /\ at = "sync" /\ (Want # {} \/ mode = {})
  /\ Due
  /\ staged' = "no" /\ fails' = CalledOff
  /\ Becomes(Want)
  /\ StartPeering
  /\ Services
  /\ at' = "top"
  /\ UNCHANGED <<settings, asked, scanActive, join, glass, bounds>>

-----------------------------------------------------------------------------
\* The driver, time, and AutoInterface's own task.

Visit ==
  /\ "AP" \in mode
  /\ IF visitor THEN visitor' = FALSE /\ UNCHANGED visits
     ELSE Room /\ visits < MaxVisits /\ visits' = visits + 1 /\ visitor' = TRUE
  /\ UNCHANGED <<settings, driver, sync, asked, scanActive, join, idle, staged, dns, peering, at,
                 glass, timedOut, asks, faults>>

Associate ==
  /\ "STA" \in mode /\ ~joined /\ (joining \/ net)
  /\ joined' = TRUE
  /\ UNCHANGED <<settings, mode, scan, visitor, sync, asked, scanActive, join, idle, staged, dns,
                 peering, at, glass, bounds>>

ScanFinishes ==
  /\ scan /\ scan' = FALSE
  /\ UNCHANGED <<settings, mode, joined, visitor, sync, asked, scanActive, join, idle, staged, dns,
                 peering, at, glass, bounds>>

JoinTimesOut ==
  /\ joining /\ ~late /\ late' = TRUE
  /\ UNCHANGED <<settings, driver, visitor, sync, asked, scanActive, joining, idle, staged,
                 dns, peering, at, glass, bounds>>

GraceOver ==
  /\ staged = "running" /\ staged' = "over"
  /\ UNCHANGED <<settings, driver, visitor, sync, asked, scanActive, join, idle, dns, peering, at,
                 glass, bounds>>

GoesQuiet ==
  /\ "AP" \in mode /\ ~visitor /\ ~quiet /\ quiet' = TRUE
  /\ UNCHANGED <<settings, driver, visitor, sync, asked, scanActive, join, latched, suppressed, staged,
                 dns, peering, at, glass, bounds>>

AutoStopsItself ==
  /\ auto = "up" /\ Room /\ faults < MaxFaults /\ faults' = faults + 1
  /\ auto' = "stopping" /\ selfStopped' = TRUE
  /\ UNCHANGED <<settings, driver, visitor, sync, asked, scanActive, join, idle, staged, dns, fails, at,
                 glass, timedOut, asks, visits>>

AutoEnds ==
  /\ auto = "stopping" /\ auto' = "gone"
  /\ UNCHANGED <<settings, driver, visitor, sync, asked, scanActive, join, idle, staged, dns, selfStopped,
                 fails, at, glass, bounds>>

-----------------------------------------------------------------------------
\* The display task and the web server's.

Ask == Room /\ asks < MaxAsks /\ asks' = asks + 1 /\ UNCHANGED <<timedOut, visits, faults>>

\* applyLinks: on wakes the point even where nothing flips; what flips is saved.
SetAp(on) ==
  /\ Ask
  /\ apOn' = on
  /\ wake' = (wake \/ on) /\ sync' = (sync \/ on # apOn)
  /\ UNCHANGED <<staOn, net, driver, visitor, joinReq, scanReq, scanActive, join, idle, staged, dns,
                 peering, at, glass>>

AskScan ==
  /\ glass = "away" /\ WifiEnabled /\ Ask
  /\ glass' = "scanning" /\ scanReq' = TRUE
  /\ UNCHANGED <<settings, driver, visitor, sync, wake, joinReq, scanActive, join, idle, staged, dns,
                 peering, at>>

\* staScanCount: not while the ask waits, nor while the driver scans.  Or the
\* screen is closed under it.
LeaveScan ==
  /\ glass = "scanning"
  /\ glass' = "closing" /\ scanReq' = FALSE
  /\ UNCHANGED <<settings, driver, visitor, sync, wake, joinReq, scanActive, join, idle, staged, dns,
                 peering, at, bounds>>
Counted == ~scanReq /\ ~scan

\* staScanDone
GiveBack ==
  /\ glass = "closing" /\ glass' = "away"
  /\ scan' = FALSE /\ scanActive' = FALSE /\ sync' = TRUE
  /\ UNCHANGED <<settings, mode, joined, visitor, asked, join, idle, staged, dns, peering, at, bounds>>

AskJoin ==
  /\ glass = "away" /\ Ask
  /\ joinReq' = TRUE
  /\ UNCHANGED <<settings, driver, visitor, sync, wake, scanReq, scanActive, join, idle, staged, dns,
                 peering, at, glass>>

\* staForget: the attempt is called off first, and what is stored then cleared.
Forget ==
  /\ glass = "away" /\ (MidJoin \/ net \/ ~joining) /\ Ask
  /\ joinReq' = FALSE /\ joining' = FALSE
  /\ glass' = IF net THEN "forgetting" ELSE "away"
  /\ UNCHANGED <<settings, driver, visitor, sync, wake, scanReq, scanActive, late, idle, staged,
                 dns, peering, at>>

Forgotten ==
  /\ glass = "forgetting" /\ glass' = "away"
  /\ net' = FALSE /\ joined' = FALSE /\ sync' = TRUE
  /\ UNCHANGED <<apOn, staOn, mode, scan, visitor, asked, scanActive, join, idle, staged, dns, peering,
                 at, bounds>>

-----------------------------------------------------------------------------
Init ==
  /\ apOn \in BOOLEAN /\ staOn \in BOOLEAN /\ net \in BOOLEAN
  /\ mode = IF WifiEnabled THEN Shape(FALSE) ELSE {}
  /\ visitor = FALSE /\ joined = FALSE /\ scan = FALSE
  /\ sync = FALSE /\ wake = FALSE /\ joinReq = FALSE /\ scanReq = FALSE /\ scanActive = FALSE
  /\ joining = FALSE /\ late = FALSE
  /\ quiet = FALSE /\ latched = FALSE /\ suppressed = FALSE
  /\ staged = "no" /\ dns = apOn
  /\ auto = (IF WifiEnabled THEN "up" ELSE "gone") /\ selfStopped = FALSE /\ fails = 0
  /\ at = "top" /\ glass = "away"
  /\ timedOut = FALSE /\ asks = 0 /\ visits = 0 /\ faults = 0

Loop == \/ Top \/ Idle \/ SaveJoin \/ Saved \/ JoinFails
        \/ ClaimScan \/ StartScan \/ ClearAsk \/ Converge
        \/ Stage \/ Kept \/ AskEnd \/ Ended \/ Settle
Glass == GiveBack \/ Forgotten \/ (Counted /\ LeaveScan)
Next == \/ Loop \/ Glass \/ TimedOut
        \/ Visit \/ Associate \/ ScanFinishes \/ JoinTimesOut \/ GraceOver \/ GoesQuiet
        \/ AutoStopsItself \/ AutoEnds
        \/ \E on \in BOOLEAN: SetAp(on)
        \/ AskScan \/ LeaveScan \/ AskJoin \/ Forget

Spec == Init /\ [][Next]_vars

\* Every task runs on, a scan and a grace end, the screen polls, the idle gate
\* comes due again and again.
FairSpec == /\ Spec
            /\ WF_vars(Loop) /\ WF_vars(Glass) /\ WF_vars(AutoEnds)
            /\ WF_vars(ScanFinishes) /\ WF_vars(JoinTimesOut) /\ WF_vars(GraceOver)

-----------------------------------------------------------------------------
\* When nobody asks for anything any more the radio runs what the settings want.
ShapeSettles == <>[](mode = Want)

\* Between passes the resolver answers where there is an access point, and only there.
ServicesFollow == at = "top" => dns = ("AP" \in mode)

\* The idle policy's teardown of a point the settings want is never committed to
\* while a host is on it.
CommittedEmpty ==
  [][at = "sync" /\ apOn /\ "AP" \in mode /\ (at' = "end" \/ "AP" \notin mode') => ~visitor]_vars

\* Where a link runs, peering runs, unless its task once failed to answer.
PeeringReturns == <>[](mode # {} => auto = "up" \/ timedOut)

\* A scan somebody waits for comes to an answer.
ScanEnds == glass = "scanning" ~> glass = "away"

=============================================================================
