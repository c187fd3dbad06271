---------------------------- MODULE MCInstruments ----------------------------
(* The keys and the instruments on small instances: touches, keys and       *)
(* detents; sensors and the cell; the compass; the receiver. A run explores *)
(* one of them.                                                             *)
EXTENDS Input

VARIABLE part   \* the component that runs

-----------------------------------------------------------------------------
\* Readings
\* Boards with two sensors, of one kind or the other, and those with a cell.
MeasuringBoards == {
    [fitted |-> {"primary", "secondary"}, second |-> "shtc3", meter |-> "none"],
    [fitted |-> {"primary", "secondary"}, second |-> "sht3x", meter |-> "none"],
    [fitted |-> {}, second |-> "none", meter |-> "adc"],
    [fitted |-> {}, second |-> "none", meter |-> "pmu"]}
VARIABLES
  board, s, loop, look, volts, ask, hist, count, spaced, readingsFaults
R == INSTANCE Readings WITH
  Boards <- MeasuringBoards, Tasks <- {"A", "B"}, Interval <- 2, Convert <- 1,
  BatteryStale <- 2, Spacing <- 2, Slots <- 2, MaxFaults <- 1, MaxRecords <- 3,
  faults <- readingsFaults
readingsVars == <<
  board, s, loop, look, volts, ask, hist, count, spaced, readingsFaults>>

-----------------------------------------------------------------------------
\* Senses
\* Boards whose parts follow the screen, one whose do not, one with a single part.
SenseBoards == {
    [fitted |-> {"imu", "mag"}, follow |-> {"imu", "mag"}],
    [fitted |-> {"imu", "mag"}, follow |-> {}],
    [fitted |-> {"imu"}, follow |-> {"imu"}]}
VARIABLES
  sensesBoard, dark, policy, want, running, copy, ripe, learned, dirty, kept, savedAt,
  sensesLoop, asked, sleeper, waited, edges, refused
M == INSTANCE Senses WITH
  Boards <- SenseBoards, Stale <- 1, Save <- 1, Settle <- 2, MaxEdges <- 2, MaxRefused <- 1,
  MaxLearned <- 1, board <- sensesBoard, loop <- sensesLoop
sensesVars == <<
  sensesBoard, dark, policy, want, running, copy, ripe, learned, dirty, kept, savedAt,
  sensesLoop, asked, sleeper, waited, edges, refused>>

-----------------------------------------------------------------------------
\* Gnss
VARIABLES
  nap, role, gnssDark, painted, sky, gnssS, phase, gnssFaults, asks
G == INSTANCE Gnss WITH
  Naps <- {"standby", "rail", "pmreq"}, kSettle <- 2, kRestCarried <- 1,
  kRestTransport <- 2, kFixTimeout <- 2, kNavClaim <- 2, kNudge <- 2, PortRetry <- 2,
  MaxFaults <- 1, MaxAsks <- 1, dark <- gnssDark, s <- gnssS, faults <- gnssFaults
gnssVars == <<
  nap, role, gnssDark, painted, sky, gnssS, phase, gnssFaults, asks>>

-----------------------------------------------------------------------------
\* One component runs; the others stay where one of their runs begins.
AllInit ==
  /\ part \in {"input", "readings", "senses", "gnss"}
  /\ Init /\ (part # "input" => kind = "plain")
  /\ R!Init /\ (part # "readings" => board.meter = "pmu")
  /\ M!Init /\ (part # "senses" => sensesBoard = CHOOSE b \in SenseBoards : b.follow = {})
  /\ G!Init /\ (part # "gnss" => nap = "rail" /\ role = "unset")
AllNext ==
  \/ part = "input" /\ Next /\ UNCHANGED <<part, readingsVars, sensesVars, gnssVars>>
  \/ part = "readings" /\ R!Next /\ UNCHANGED <<part, vars, sensesVars, gnssVars>>
  \/ part = "senses" /\ M!Next /\ UNCHANGED <<part, vars, readingsVars, gnssVars>>
  \/ part = "gnss" /\ G!Next /\ UNCHANGED <<part, vars, readingsVars, sensesVars>>
AllSpec ==
  /\ AllInit /\ [][AllNext]_<<part, vars, readingsVars, sensesVars, gnssVars>>
  /\ WF_vars(part = "input" /\ Display)
  /\ WF_readingsVars(part = "readings" /\ (board.meter = "none" /\ R!Loop))
  /\ WF_readingsVars(part = "readings" /\ R!Tick)
  /\ WF_sensesVars(part = "senses" /\ M!Loop)
  /\ WF_sensesVars(part = "senses" /\ M!Sleeper)
  /\ WF_sensesVars(part = "senses" /\ M!Tick)
  /\ WF_phase(part = "gnss" /\ G!Passes)

-----------------------------------------------------------------------------
\* Of Input: every detent counts, a waking contact presses nothing, and what was
\* typed, touched or asked for is heard.
InputHeard == []DetentsKept /\ WakesOnly /\ (part = "input" => Heard)

\* Of Readings: a fresh reading is fresh, the cell's history is ordered, and once
\* the bus is well every sensor comes back.
ReadingsTrue == [](R!SaidTrue /\ R!Rested /\ R!CellTrue) /\ (part = "readings" => R!Recovers)

\* Of Senses: nobody is shown what a stopped part measured before, a sleep finds
\* it all kept, and each part ends where the screen's last edge wants it.
SensesKept == [](M!MeasuredNow /\ M!SleepsWhole) /\ (part = "senses" => M!FollowsTheScreen)

\* Of Gnss: a rest is earned, a watched position is being looked for, a fix on
\* show is bounded in age, the receiver does as it was told, and comes to be heard.
GnssSound == [](G!FixBounded /\ G!NapAgrees) /\ G!RestEarned /\ G!WatchedIsAwake /\ (part = "gnss" => G!Talks)
=============================================================================
