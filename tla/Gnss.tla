-------------------------------- MODULE Gnss --------------------------------
(***************************************************************************)
(* The position receiver: the task of sys/Gps.cpp, the schedule that says  *)
(* when the receiver may stop looking (sys/GnssDutyPolicy.h), and the ways *)
(* a board has of stopping it: a standby line, its rail, or a request that *)
(* only its own timer or a byte on its line ends (sys/UbxFrame.h).         *)
(*                                                                         *)
(* A tick is a pass of the task.  A moment is kept as its age in passes;   *)
(* ages beyond what anything compares them with are one age.               *)
(***************************************************************************)
EXTENDS Integers

CONSTANTS
  Naps,          \* the boards: "standby", "rail", "pmreq"
  kSettle, kRestCarried, kRestTransport, kFixTimeout, kNavClaim, kNudge, PortRetry,
  MaxFaults,     \* ports that do not open, wake bytes that are missed
  MaxAsks        \* times the operator changes the switch, the role or the screen

VARIABLES
  nap,                   \* the board
  role, dark, painted,   \* Power's role and screen, sNavViewMs
  sky,                   \* the receiver sees enough of it
  s,                     \* the driver and its receiver
  phase,                 \* turns with every pass
  faults, asks
around == <<nap, role, dark, sky>>
vars == <<around, painted, s, phase, faults, asks>>

Cap == kRestTransport + kFixTimeout + 1
Older(age) == IF age < Cap THEN age + 1 ELSE Cap

-----------------------------------------------------------------------------
\* GnssDutyPolicy: the schedule, and what hangs off it.
Fresh == [resting |-> FALSE, restSince |-> 0, fixSeen |-> FALSE, fixSince |-> 0]
dutyCycles(r) == r \in {"carried", "transport"}
restMsFor(r) ==
  CASE r = "transport" -> kRestTransport [] r = "carried" -> kRestCarried [] OTHER -> 0
ourSilence(t)    == t.resting \/ t.track < kFixTimeout
dropStaleFix(t)  == t.valid /\ ~ourSilence(t) /\ t.fixAge >= kFixTimeout
fixReacquired(t) == t.valid /\ t.fixAge <= t.track
navLit           == ~dark /\ painted < kNavClaim
quietSince(t)    == IF t.heard <= t.track THEN t.heard ELSE t.track
nudgeDue(t)      == ~t.resting /\ t.asked /\ quietSince(t) >= kNudge /\ t.nudged >= kNudge

\* Mutant: a fix counts from the moment it is first seen.
UpdateAtOnce(p, fix) ==
  CASE ~dutyCycles(role) \/ navLit -> Fresh
    [] dutyCycles(role) /\ ~navLit /\ p.resting -> IF p.restSince < restMsFor(role) THEN p ELSE Fresh
    [] dutyCycles(role) /\ ~navLit /\ ~p.resting -> [Fresh EXCEPT !.resting = fix]

update(p, fix) ==
  LET held == ~dutyCycles(role) \/ navLit
  IN  CASE held -> Fresh
        [] ~held /\ p.resting -> IF p.restSince < restMsFor(role) THEN p ELSE Fresh
        [] ~held /\ ~p.resting /\ (~fix \/ ~p.fixSeen) -> [Fresh EXCEPT !.fixSeen = fix]
        [] ~held /\ ~p.resting /\ fix /\ p.fixSeen ->
             IF p.fixSince < kSettle THEN p ELSE [Fresh EXCEPT !.resting = TRUE]

-----------------------------------------------------------------------------
\* The port and the receiver behind it.  "Up" says that the driver could be
\* installed, or that the receiver heard the byte.
openPort(t, up) == [t EXCEPT !.port = up, !.fault = ~up, !.tried = 0]
wakeNudge(t, up) == [t EXCEPT !.nudged = 0, !.asleep = @ /\ ~(up /\ t.port)]
\* A request to stop carries the rest's length as the receiver's own timer.
pmreqBackup(t) == IF t.port THEN [t EXCEPT !.asleep = TRUE, !.backstop = restMsFor(role)] ELSE t

applyRest(t, up) ==
  CASE nap = "standby"           -> [t EXCEPT !.asleep = t.resting]
    [] nap = "rail" /\ t.resting  -> [t EXCEPT !.port = FALSE, !.power = FALSE]
    [] nap = "rail" /\ ~t.resting -> openPort([t EXCEPT !.power = TRUE], up)
    [] nap = "pmreq" /\ t.resting  -> [pmreqBackup(t) EXCEPT !.asked = TRUE]
    [] nap = "pmreq" /\ ~t.resting -> wakeNudge(t, up)

\* A pass, step by step: everything is older, the receiver's timer runs; a port
\* that did not open is tried again; what the receiver said is read; a fix it
\* no longer stands behind is dropped; the schedule is asked, and what it says
\* is carried out; a receiver that ought to be talking is prodded.
Aged(t) ==
  [t EXCEPT !.tried = Older(@), !.fixAge = Older(@), !.heard = Older(@), !.track = Older(@),
            !.nudged = Older(@), !.stood = IF @ = 0 THEN 0 ELSE Older(@),
            !.duty.restSince = IF t.duty.resting THEN Older(@) ELSE 0,
            !.duty.fixSince = IF t.duty.fixSeen THEN Older(@) ELSE 0,
            !.backstop = IF @ = 0 THEN 0 ELSE @ - 1,
            !.asleep = @ /\ ~(nap = "pmreq" /\ t.backstop = 1)]
Reopened(t, up) == IF t.fault /\ t.tried >= PortRetry THEN openPort(t, up) ELSE t
Awake(t) == t.power /\ ~t.asleep
Read(t, said) ==
  IF ~(t.port /\ Awake(t) /\ said) THEN t
  ELSE [t EXCEPT !.heard = 0, !.valid = sky, !.fixAge = IF sky THEN 0 ELSE @,
                 !.stood = IF ~sky THEN 0 ELSE IF @ = 0 /\ ~t.resting THEN 1 ELSE @]
Dropped(t) == IF dropStaleFix(t) THEN [t EXCEPT !.valid = FALSE, !.stood = 0] ELSE t
Decided(t, up) ==
  LET d == update(t.duty, fixReacquired(t))
      u == [t EXCEPT !.duty = d, !.resting = d.resting]
  IN  IF d.resting = t.resting THEN u
      ELSE applyRest([u EXCEPT !.stood = IF ~d.resting /\ t.valid /\ t.fixAge = 0 THEN 1 ELSE 0,
                              !.track = IF d.resting THEN @ ELSE 0], up)
Prodded(t, up) == IF nap = "pmreq" /\ nudgeDue(t) THEN wakeNudge(t, up) ELSE t

Faulty(up) == (~up => faults < MaxFaults) /\ faults' = IF up THEN faults ELSE faults + 1
task ==
  \E up, said \in BOOLEAN :
    /\ s.enabled /\ Faulty(up)
    /\ LET a == Reopened(Aged(s), up)
           b == Dropped(Read(a, said))
           c == Decided(b, up)
       IN  s' = Prodded(c, up)
    /\ painted' = Older(painted) /\ phase' = 1 - phase
    /\ UNCHANGED <<around, asks>>

-----------------------------------------------------------------------------
\* Everything the driver knows of a fix goes when it is switched off.
resetState(t) == [t EXCEPT !.valid = FALSE, !.fault = FALSE, !.stood = 0]

\* The switches are driven before the question whether there is anything to do.
powered(on) == [s EXCEPT !.power = IF nap = "pmreq" THEN @ ELSE on]
setEnabled ==
  \E on, up \in BOOLEAN :
    LET t == powered(on)
    IN  /\ asks < MaxAsks /\ asks' = asks + 1 /\ Faulty(up)
        /\ s' = CASE on = s.enabled ->
                       IF nap = "rail" /\ on /\ t.resting THEN applyRest(t, up) ELSE t
                  [] on /\ ~s.enabled ->
                       [openPort([t EXCEPT !.asleep = IF nap = "standby" THEN FALSE ELSE @], up)
                          EXCEPT !.enabled = TRUE, !.duty = Fresh, !.resting = FALSE, !.track = 0,
                                 !.asked = FALSE, !.nudged = Cap]
                  [] ~on /\ s.enabled ->
                       resetState([t EXCEPT !.port = FALSE, !.enabled = FALSE, !.duty = Fresh,
                                            !.resting = FALSE, !.asked = FALSE])
        /\ UNCHANGED <<around, painted, phase>>

\* The operator says what the node is for, the screen goes dark or is lit, a
\* screen that shows position paints; the sky comes and goes.
Role ==
  /\ asks < MaxAsks /\ asks' = asks + 1 /\ role' \in {"unset", "carried", "transport"} \ {role}
  /\ UNCHANGED <<nap, dark, sky, painted, s, phase, faults>>
Screen ==
  /\ asks < MaxAsks /\ asks' = asks + 1 /\ dark' = ~dark
  /\ UNCHANGED <<nap, role, sky, painted, s, phase, faults>>
navViewPainted == ~dark /\ painted' = 0 /\ UNCHANGED <<around, s, phase, faults, asks>>
Sky == sky' = ~sky /\ UNCHANGED <<nap, role, dark, painted, s, phase, faults, asks>>

Init ==
  /\ nap \in Naps /\ role \in {"unset", "carried", "transport"} /\ dark = FALSE /\ painted = Cap
  /\ sky = FALSE /\ phase = 0 /\ faults = 0 /\ asks = 0
  /\ s = [enabled |-> FALSE, port |-> FALSE, fault |-> FALSE, tried |-> Cap, duty |-> Fresh,
          resting |-> FALSE, track |-> Cap, valid |-> FALSE, fixAge |-> Cap, heard |-> Cap,
          asked |-> FALSE, nudged |-> Cap, power |-> nap = "pmreq", asleep |-> FALSE,
          backstop |-> 0, stood |-> 0]
Next == task \/ setEnabled \/ Role \/ Screen \/ navViewPainted \/ Sky

\* The task goes round.
Passes == s.enabled /\ phase' = 1 - phase
Spec == Init /\ [][Next]_vars /\ WF_phase(Passes)

-----------------------------------------------------------------------------
\* A receiver is told to stop only when, since it was last allowed to look, it
\* has asserted a fix and stood by it for the settling time ("You cannot
\* duty-cycle a search", GnssDutyPolicy.h:34).
RestEarned == [][s'.resting /\ ~s.resting => s.stood >= kSettle]_vars

\* A position on a lit screen is a position being looked for, from the next pass.
WatchedIsAwake ==
  [][~dark /\ painted < kNavClaim /\ painted' = painted + 1 => ~s'.resting]_vars

\* The fix on show is never older than one rest and the time a lost one is
\* given, however rests, roles and switches follow each other.
FixBounded == s.enabled /\ s.valid => s.fixAge <= kRestTransport + kFixTimeout

\* What the receiver was told is what the schedule says, also after a settings
\* save under a resting receiver (Gps.cpp:528), and the port is never driven
\* into a receiver without its rail (Gps.cpp:314).
NapAgrees ==
  /\ nap = "rail" => (s.power <=> s.enabled /\ ~s.resting) /\ (s.port => s.power)
  /\ nap = "standby" /\ s.enabled => (s.asleep <=> s.resting)
  /\ s.duty.resting = s.resting

\* A receiver that may look comes to be heard: a port that did not open is
\* opened, a missed wake is made up for (Gps.cpp:460).
Talks == s.enabled /\ ~s.resting ~> ~s.enabled \/ s.resting \/ (s.port /\ Awake(s))

GnssSound == [](FixBounded /\ NapAgrees) /\ RestEarned /\ WatchedIsAwake /\ Talks
=============================================================================
