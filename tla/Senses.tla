------------------------------- MODULE Senses -------------------------------
(***************************************************************************)
(* The accelerometer and the magnetometer (sys/Imu.cpp, sys/Compass.cpp),  *)
(* who decides whether they run (sys/PeripheralPolicy.h and the peripheral *)
(* part of sys/Power.cpp), and the deep sleep that has to stop them.       *)
(*                                                                         *)
(* Any task asks; only the loop touches a part.  So a request is a flag,   *)
(* what the part does is another that moves once the write has landed, and *)
(* what was read is a copy with an age.  A tick is the 100 ms that every   *)
(* cadence of both drivers is made of.                                     *)
(***************************************************************************)
EXTENDS Integers

CONSTANTS
  Boards,       \* records: the parts that are fitted, those that follow the screen
  Stale, Save, Settle,
  MaxEdges, MaxRefused, MaxLearned

Parts == {"imu", "mag"}

VARIABLES
  board,
  dark, policy,          \* sScreenDark; what PeripheralPolicy said last
  want, running,         \* sWantRunning, sRunning
  copy,                  \* sAxes, sLast
  ripe,                  \* the gates that would open if asked
  learned, dirty, kept,  \* the hard-iron extremes: found, sDirty, in flash
  savedAt,               \* the age of sLastSaveMs
  loop, asked,           \* where the loop is; the verdict it read
  sleeper, waited,       \* the display's task in prepareForSleep
  edges, refused
told == <<dark, policy>>
flash == <<learned, dirty, kept, savedAt>>
bounds == <<edges, refused>>
vars == <<board, told, want, running, copy, ripe, flash, loop, asked, sleeper, waited, bounds>>

Nothing == [valid |-> FALSE, age |-> 0, old |-> FALSE, by |-> "flat"]
Gates   == {"axes", "imuMode", "magMode", "try"}
\* What a write would change: a reading that is still there is of another run.
Outlived(c) == [c EXCEPT !.old = c.valid]
Refusals(ok) == (ok \/ refused < MaxRefused) /\ refused' = IF ok THEN refused ELSE refused + 1

-----------------------------------------------------------------------------
\* What a task that has passed every test of its own is handed.
Fresh(c)  == IF c.valid /\ c.age <= Stale THEN c ELSE Nothing
loadAxes  == Fresh(copy["imu"])
read      == Fresh(copy["mag"])

-----------------------------------------------------------------------------
\* The policy, asked on an edge of the screen or a change of profile, and told
\* to the drivers under the same lock.
followsScreen(d, consumes) == consumes => ~d
tellPeripherals(d) ==
  LET verdict == [p \in Parts |-> followsScreen(d, p \in board.follow)]
  IN  /\ dark' = d /\ policy' = verdict
      /\ want' = [p \in Parts |-> IF p \in board.fitted /\ verdict[p] # policy[p] THEN verdict[p] ELSE want[p]]
onScreenBlank ==
  /\ sleeper = "awake" /\ edges < MaxEdges /\ edges' = edges + 1
  /\ tellPeripherals(~dark)
  /\ UNCHANGED <<board, running, copy, ripe, flash, loop, asked, sleeper, waited, refused>>
\* From the web, the console or a message, at any time.
apply ==
  /\ sleeper # "asleep" /\ tellPeripherals(dark)
  /\ UNCHANGED <<board, running, copy, ripe, flash, loop, asked, sleeper, waited, bounds>>

-----------------------------------------------------------------------------
\* Imu::poll: a sample, then the mode, decided without the lock and once more
\* with it.
Sampled(ok) == IF ok THEN [Nothing EXCEPT !.valid = TRUE] ELSE copy["imu"]
ImuPoll ==
  LET due  == running["imu"] /\ ripe["axes"]
      mode == want["imu"] # running["imu"] /\ ripe["imuMode"]
  IN  /\ loop = "imu" /\ sleeper # "asleep"
      /\ \E ok \in BOOLEAN : copy' = IF due THEN [copy EXCEPT !["imu"] = Sampled(ok)] ELSE copy
      /\ ripe' = [ripe EXCEPT !["axes"] = @ /\ ~due, !["imuMode"] = @ /\ ~mode]
      /\ loop' = IF "imu" \in board.fitted /\ mode THEN "imuMode" ELSE "mag"
      /\ UNCHANGED <<board, told, want, running, flash, asked, sleeper, waited, bounds>>

\* Mutant: what was measured before the part was put to sleep stays.
ImuModeKept ==
  \E ok \in BOOLEAN :
    /\ loop = "imuMode" /\ sleeper # "asleep" /\ Refusals(ok)
    /\ running' = IF ok THEN [running EXCEPT !["imu"] = want["imu"]] ELSE running
    /\ copy' = [copy EXCEPT !["imu"] = Outlived(@)]
    /\ loop' = "mag"
    /\ UNCHANGED <<board, told, want, ripe, flash, asked, sleeper, waited, edges>>

ImuMode ==
  \E ok \in BOOLEAN :
    LET moves == ok /\ want["imu"] # running["imu"]
    IN  /\ loop = "imuMode" /\ sleeper # "asleep" /\ Refusals(ok)
        /\ running' = IF moves THEN [running EXCEPT !["imu"] = want["imu"]] ELSE running
        /\ copy' = [copy EXCEPT !["imu"] = IF ~moves THEN @ ELSE IF want["imu"] THEN Outlived(@) ELSE Nothing]
        /\ loop' = "mag"
        /\ UNCHANGED <<board, told, want, ripe, flash, asked, sleeper, waited, edges>>

-----------------------------------------------------------------------------
\* Compass::poll: the mode, then a sample, then what it taught.
applyMode ==
  LET mode == want["mag"] # running["mag"] /\ ripe["magMode"]
  IN  /\ loop = "mag" /\ sleeper # "asleep"
      /\ asked' = want["mag"]
      /\ ripe' = [ripe EXCEPT !["magMode"] = @ /\ ~mode]
      /\ loop' = CASE "mag" \notin board.fitted -> "imu" [] "mag" \in board.fitted /\ mode -> "magMode" [] OTHER -> "sample"
      /\ UNCHANGED <<board, told, want, running, copy, flash, sleeper, waited, bounds>>
MagMode ==
  \E ok \in BOOLEAN :
    /\ loop = "magMode" /\ sleeper # "asleep" /\ Refusals(ok)
    /\ running' = IF ok THEN [running EXCEPT !["mag"] = asked] ELSE running
    /\ copy' = IF ok THEN [copy EXCEPT !["mag"] = Nothing] ELSE copy
    /\ loop' = "sample"
    /\ UNCHANGED <<board, told, want, ripe, flash, asked, sleeper, waited, edges>>

\* A part that is not ready, or over its scale, or silent teaches nothing; a
\* reading is levelled by the accelerometer when that has one to give.
sample ==
  LET due == running["mag"] /\ ripe["try"]
      by  == IF loadAxes.valid THEN IF loadAxes.old THEN "old gravity" ELSE "gravity" ELSE "flat"
  IN  /\ loop = "sample" /\ sleeper # "asleep"
      /\ ripe' = [ripe EXCEPT !["try"] = @ /\ ~due]
      /\ \E ok, wider \in BOOLEAN :
           /\ wider => ok /\ due /\ learned < MaxLearned
           /\ copy' = IF due /\ ok THEN [copy EXCEPT !["mag"] = [Nothing EXCEPT !.valid = TRUE, !.by = by]] ELSE copy
           /\ learned' = IF wider THEN learned + 1 ELSE learned
           /\ dirty' = (dirty \/ wider)
      /\ loop' = IF due THEN "save" ELSE "imu"
      /\ UNCHANGED <<board, told, want, running, kept, savedAt, asked, sleeper, waited, bounds>>

\* The flag falls before the bytes are in flash.
saves(force) == dirty /\ (force \/ savedAt >= Save)
saveOffsets ==
  /\ loop = "save" /\ sleeper # "asleep"
  /\ IF saves(FALSE) THEN dirty' = FALSE /\ savedAt' = 0 /\ loop' = "put"
                     ELSE loop' = "imu" /\ UNCHANGED <<dirty, savedAt>>
  /\ UNCHANGED <<board, told, want, running, copy, ripe, learned, kept, asked, sleeper, waited, bounds>>
putBytes ==
  /\ loop = "put" /\ sleeper # "asleep"
  /\ kept' = learned /\ loop' = "imu"
  /\ UNCHANGED <<board, told, want, running, copy, ripe, learned, dirty, savedAt, asked, sleeper, waited, bounds>>

-----------------------------------------------------------------------------
\* prepareForSleep, on the display's task: both are asked to stop, waited for,
\* and what was learned is written.
stopped == ~running["imu"] /\ ~running["mag"]
prepareForSleep ==
  /\ sleeper = "awake" /\ sleeper' = "wait" /\ waited' = 0
  /\ want' = [p \in Parts |-> FALSE]
  /\ UNCHANGED <<board, told, running, copy, ripe, flash, loop, asked, bounds>>

Waited ==
  /\ sleeper = "wait" /\ (stopped \/ waited >= Settle)
  /\ sleeper' = "flush"
  /\ UNCHANGED <<board, told, want, running, copy, ripe, flash, loop, asked, waited, bounds>>
flush ==
  /\ sleeper = "flush"
  /\ IF saves(TRUE) THEN dirty' = FALSE /\ savedAt' = 0 /\ sleeper' = "put"
                    ELSE sleeper' = "asleep" /\ UNCHANGED <<dirty, savedAt>>
  /\ UNCHANGED <<board, told, want, running, copy, ripe, learned, kept, loop, asked, waited, bounds>>
flushed ==
  /\ sleeper = "put" /\ kept' = learned /\ sleeper' = "asleep"
  /\ UNCHANGED <<board, told, want, running, copy, ripe, learned, dirty, savedAt, loop, asked, waited, bounds>>

-----------------------------------------------------------------------------
Older(c) == [c EXCEPT !.age = IF c.valid /\ c.age <= Stale THEN c.age + 1 ELSE @]
Tick ==
  /\ sleeper # "asleep"
  /\ copy' = [p \in Parts |-> Older(copy[p])]
  /\ ripe' = [g \in Gates |-> TRUE]
  /\ savedAt' = IF savedAt < Save THEN savedAt + 1 ELSE Save
  /\ waited' = IF sleeper = "wait" /\ waited < Settle THEN waited + 1 ELSE waited
  /\ UNCHANGED <<board, told, want, running, learned, dirty, kept, loop, asked, sleeper, bounds>>

\* The magnetometer's begin reads back the extremes that are in flash.
CompassBegin == learned = 0 /\ dirty = FALSE /\ kept = 0 /\ savedAt = Save /\ asked = TRUE

\* A part runs once it has taken its configuration.
Init ==
  /\ board \in Boards
  /\ dark = FALSE /\ policy = [p \in Parts |-> TRUE]
  /\ want = [p \in Parts |-> TRUE] /\ running = [p \in Parts |-> p \in board.fitted]
  /\ copy = [p \in Parts |-> Nothing]
  /\ ripe = [g \in Gates |-> TRUE]
  /\ CompassBegin
  /\ loop = "imu" /\ sleeper = "awake" /\ waited = 0
  /\ edges = 0 /\ refused = 0

Loop == ImuPoll \/ ImuMode \/ applyMode \/ MagMode \/ sample \/ saveOffsets \/ putBytes
Sleeper == Waited \/ flush \/ flushed
Next == onScreenBlank \/ apply \/ prepareForSleep \/ Loop \/ Sleeper \/ Tick

\* The loop goes round, the display's task runs, time passes.
Spec == Init /\ [][Next]_vars /\ WF_vars(Loop) /\ WF_vars(Sleeper) /\ WF_vars(Tick)

-----------------------------------------------------------------------------
\* Compass.cpp:468: nobody is ever shown a bearing from a part that has gone
\* quiet.  What a task is handed was measured in the part's present run, and
\* what levelled it as well.
MeasuredNow ==
  /\ ~loadAxes.old /\ ~read.old /\ read.by # "old gravity"
  /\ loadAxes.valid => running["imu"]
  /\ read.valid => running["mag"]

\* A sleep that finds the magnetometer stopped has everything it learned in
\* flash, and the accelerometer converts through a sleep only if it would not
\* stop in the time it was given.
SleepsWhole ==
  sleeper = "asleep" =>
    /\ ~running["mag"] => kept = learned
    /\ ~running["imu"] \/ waited = Settle

\* The same of the magnetometer does not hold: the loop may be starting it with
\* a verdict it read before, which the accelerometer's driver reads again.
MagStops == sleeper = "asleep" => ~running["mag"] \/ waited = Settle

\* In the end each part does what the screen's last edge asks of it.
FollowsTheScreen ==
  <>[](sleeper # "awake" \/ \A p \in board.fitted : running[p] = followsScreen(dark, p \in board.follow))
=============================================================================
