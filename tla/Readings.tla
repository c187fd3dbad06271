------------------------------ MODULE Readings ------------------------------
(***************************************************************************)
(* What the node measures and how it tells: the two environmental sensors  *)
(* (sys/Environment.cpp with EnvPollPolicy.h and EnvReportPolicy.h) and    *)
(* the cell with its history (the battery part of sys/Power.cpp, Pmu.cpp). *)
(*                                                                         *)
(* The loop drives the sensors, any task reads them: a reading and the     *)
(* count of intervals without one are two variables, read one after the    *)
(* other.  The cell is read by whoever asks.                               *)
(***************************************************************************)
EXTENDS Integers, FiniteSets

CONSTANTS
  Boards,                \* records: the sensors fitted, the second one's kind, the cell's meter
  Tasks,                 \* those that ask for the cell
  Interval, Convert,     \* ENV_SAMPLE_MS, kConvertMs, in ticks
  BatteryStale, Spacing, Slots,
  MaxFaults, MaxRecords

VARIABLES
  board,
  s,           \* per sensor: its gate, the sequence, the reading, the misses, the part
  loop,        \* what the loop is about to do
  look,        \* a task that reads a sensor's state
  volts,       \* the cell: the ages of sVolts and sLastGoodMs, the gate, the lock
  ask,         \* per task: where it is in battery()
  hist, count, \* the ring of points
  spaced,      \* the age of sHistLastMs, the time that really passed before the last point
  faults
env == <<s, loop, look>>
cell == <<volts, ask, hist, count, spaced>>
vars == <<board, env, cell, faults>>

Sources == {"primary", "secondary"}
Never == BatteryStale + 1
Faulty(ok) == (ok \/ faults < MaxFaults) /\ faults' = IF ok THEN faults ELSE faults + 1
Older(age, cap) == IF age < cap THEN age + 1 ELSE cap

-----------------------------------------------------------------------------
\* EnvPollPolicy, asked for its gate only when no conversion is in flight.
decide(p) ==
  CASE ~p.conv -> IF p.since >= Interval THEN "Trigger" ELSE "Idle"
    [] p.conv -> IF p.started < Convert THEN "Wait" ELSE "Collect"

\* Mutant: a trigger that was refused counts as one that was taken.
TriggeredAnyhow(p, ok) == [p EXCEPT !.conv = TRUE, !.started = 0, !.part = IF ok THEN "this" ELSE @]

triggered(p, ok) ==
  IF ok THEN [p EXCEPT !.conv = TRUE, !.started = 0, !.part = "this"] ELSE p

\* EnvReportPolicy.
classify(present, valid, missed) ==
  CASE ~present -> "absent"
    [] present /\ ~valid -> IF missed >= 2 THEN "no_reading" ELSE "warming_up"
    [] present /\ valid  -> IF missed > 0 THEN "stale" ELSE "fresh"

\* An interval that brought nothing: what is held is one interval older.
Missed(p) == [p EXCEPT !.missed = IF @ < 2 THEN @ + 1 ELSE 2, !.behind = p.valid]

-----------------------------------------------------------------------------
\* The humidity part is woken to measure and sent back to sleep whatever came
\* of it; it stays awake only when it does not hear that.
Slept(p, heard) == IF board.second = "shtc3" THEN [p EXCEPT !.awake = ~heard, !.unheard = ~heard] ELSE p
trigger2(p, woke, took, heard) ==
  CASE board.second = "sht3x" -> triggered(p, took)
    [] board.second = "shtc3" /\ ~woke -> p
    [] board.second = "shtc3" /\ woke /\ took -> triggered([p EXCEPT !.awake = TRUE], TRUE)
    [] OTHER -> triggered(Slept([p EXCEPT !.awake = TRUE], heard), FALSE)
ok2(p) == p.conv

pollSecondary ==
  LET p == s["secondary"]
      q == [p EXCEPT !.since = 0]
  IN  /\ loop = "secondary" /\ "secondary" \in board.fitted
      /\ \E woke, took, heard \in BOOLEAN :
           /\ Faulty(woke /\ took /\ heard)
           /\ decide(p) \in {"Idle", "Wait"} => woke /\ took /\ heard
           /\ CASE decide(p) \in {"Idle", "Wait"} -> s' = s /\ loop' = "primary"
                [] decide(p) = "Trigger" ->
                     LET t == trigger2(q, woke, took, heard)
                     IN  s' = [s EXCEPT !["secondary"] = IF ok2(t) THEN t ELSE Missed(t)] /\ loop' = "primary"
                [] decide(p) = "Collect" ->
                     LET t == Slept([p EXCEPT !.conv = FALSE], heard)
                     IN  /\ s' = [s EXCEPT !["secondary"] =
                                    IF took THEN [t EXCEPT !.valid = TRUE, !.behind = FALSE, !.of = p.part, !.part = "read"]
                                    ELSE Missed(t)]
                         /\ loop' = IF took THEN "counted" ELSE "primary"
      /\ look' = IF loop' = "counted" /\ look.src = "secondary" THEN [look EXCEPT !.crossed = TRUE] ELSE look
      /\ UNCHANGED <<board, cell>>
\* The reading is out; the count of misses follows.
secondaryCounted ==
  /\ loop = "counted" /\ loop' = "primary"
  /\ s' = [s EXCEPT !["secondary"].missed = 0]
  /\ UNCHANGED <<board, look, cell, faults>>

\* The first sensor: it may be busy past its window, or not give up its data;
\* the count of misses falls before the reading is out.
poll ==
  LET p == s["primary"]
      q == [p EXCEPT !.since = 0]
  IN  /\ loop = "primary" /\ "primary" \in board.fitted
      /\ \E took \in BOOLEAN :
           /\ Faulty(took)
           /\ decide(p) \in {"Idle", "Wait"} => took
           /\ CASE decide(p) \in {"Idle", "Wait"} -> s' = s /\ loop' = "secondary"
                [] decide(p) = "Trigger" ->
                     LET t == triggered(q, took)
                     IN  s' = [s EXCEPT !["primary"] = IF took THEN t ELSE Missed(t)] /\ loop' = "secondary"
                [] decide(p) = "Collect" ->
                     LET t == [p EXCEPT !.conv = FALSE]
                     IN  /\ s' = [s EXCEPT !["primary"] = IF took THEN [t EXCEPT !.missed = 0] ELSE Missed(t)]
                         /\ loop' = IF took THEN "publish" ELSE "secondary"
      /\ look' = IF loop' = "publish" /\ look.src = "primary" THEN [look EXCEPT !.crossed = TRUE] ELSE look
      /\ UNCHANGED <<board, cell>>
primaryPublished ==
  /\ loop = "publish" /\ loop' = "secondary"
  /\ s' = [s EXCEPT !["primary"].valid = TRUE, !["primary"].behind = FALSE,
                    !["primary"].of = s["primary"].part, !["primary"].part = "read"]
  /\ UNCHANGED <<board, look, cell, faults>>
NoSensor ==
  /\ loop \in Sources \ board.fitted
  /\ loop' = IF loop = "primary" THEN "secondary" ELSE "primary"
  /\ UNCHANGED <<board, s, look, cell, faults>>

\* A page, the console or the web: the reading, and then the misses.
last ==
  \E src \in board.fitted :
    /\ look.src = "none"
    /\ look' = [src |-> src, valid |-> s[src].valid, behind |-> s[src].behind, of |-> s[src].of,
                crossed |-> (loop = "publish" /\ src = "primary") \/ (loop = "counted" /\ src = "secondary")]
    /\ UNCHANGED <<board, s, loop, cell, faults>>
said == classify(TRUE, look.valid, s[look.src].missed)
missedIntervals ==
  /\ look.src # "none"
  /\ look' = [src |-> "none", valid |-> FALSE, behind |-> FALSE, of |-> "none", crossed |-> FALSE]
  /\ UNCHANGED <<board, s, loop, cell, faults>>

-----------------------------------------------------------------------------
\* The divider: whoever finds the gate open samples, unless somebody is at it.
\* A conversion that gives nothing leaves the last one.
At(t, pc) == [ask EXCEPT ![t] = [@ EXCEPT !.at = pc]]
battery(t) ==
  /\ board.meter = "adc" /\ ask[t].at = "idle"
  /\ volts' = [volts EXCEPT !.ripe = FALSE, !.lock = IF @ = "free" /\ volts.ripe THEN t ELSE @]
  /\ ask' = At(t, IF volts.ripe /\ volts.lock = "free" THEN "sample" ELSE "volts")
  /\ UNCHANGED <<board, env, hist, count, spaced, faults>>
sample(t) ==
  \E got \in BOOLEAN :
    /\ ask[t].at = "sample" /\ Faulty(got)
    /\ volts' = [volts EXCEPT !.lock = "free", !.age = IF got THEN 0 ELSE @, !.good = IF got THEN 0 ELSE @]
    /\ ask' = [u \in Tasks |-> IF u = t THEN [ask[t] EXCEPT !.at = "volts"] ELSE [ask[u] EXCEPT !.crossed = @ \/ got]]
    /\ UNCHANGED <<board, env, hist, count, spaced>>
readVolts(t) ==
  /\ ask[t].at = "volts"
  /\ ask' = [ask EXCEPT ![t] = [at |-> "check", age |-> volts.age, behind |-> 0, crossed |-> FALSE]]
  /\ UNCHANGED <<board, env, volts, hist, count, spaced, faults>>
\* Too old to mean anything is no cell; the moment is noted before the lock.
checked(t) ==
  /\ ask[t].at = "check"
  /\ ask' = At(t, IF volts.good <= BatteryStale THEN "record" ELSE "idle")
  /\ UNCHANGED <<board, env, volts, hist, count, spaced, faults>>

\* The ring's gate: what has passed since the last point by the moment that was
\* noted, which may lie before that point; the subtraction has no sign.
passes(behind) == count = 0 \/ behind > spaced.age \/ spaced.age - behind >= Spacing
Recorded(behind) ==
  IF passes(behind) /\ count < MaxRecords
  THEN /\ hist' = [hist EXCEPT ![count % Slots] = count] /\ count' = count + 1
       /\ spaced' = [age |-> behind, really |-> 0, gap |-> IF count = 0 THEN Spacing ELSE spaced.really]
  ELSE UNCHANGED <<hist, count, spaced>>
recordHistory(t) ==
  /\ ask[t].at = "record"
  /\ Recorded(ask[t].behind)
  /\ ask' = [ask EXCEPT ![t] = [at |-> "idle", age |-> Never, behind |-> 0, crossed |-> FALSE]]
  /\ UNCHANGED <<board, env, volts, faults>>

\* A chip that measures the cell itself is asked, and the ring written, under
\* one lock; a cell may be there or not.
batteryOfPmu ==
  /\ board.meter = "pmu" /\ volts.ripe
  /\ volts' = [volts EXCEPT !.ripe = FALSE]
  /\ \E present \in BOOLEAN : IF present THEN Recorded(0) ELSE UNCHANGED <<hist, count, spaced>>
  /\ UNCHANGED <<board, env, ask, faults>>

\* The newest points, the oldest of them first.
batteryHistory ==
  LET n == IF count < Slots THEN count ELSE Slots
  IN  [i \in 1..n |-> hist[(count - n + i - 1) % Slots]]

-----------------------------------------------------------------------------
Aged(p) == [p EXCEPT !.since = Older(@, Interval), !.started = IF p.conv THEN Older(@, Convert) ELSE 0]
Tick ==
  /\ s' = [x \in Sources |-> IF x \in board.fitted THEN Aged(s[x]) ELSE s[x]]
  /\ IF board.meter = "none" THEN UNCHANGED cell
     ELSE /\ volts' = [volts EXCEPT !.age = Older(@, Never), !.good = Older(@, Never), !.ripe = TRUE]
          /\ ask' = [t \in Tasks |-> IF ask[t].at = "check" THEN [ask[t] EXCEPT !.age = Older(@, Never)]
                                    ELSE IF ask[t].at = "record" THEN [ask[t] EXCEPT !.behind = Older(@, Spacing)]
                                    ELSE ask[t]]
          /\ spaced' = [spaced EXCEPT !.age = Older(@, Spacing), !.really = Older(@, Spacing)]
          /\ UNCHANGED <<hist, count>>
  /\ UNCHANGED <<board, loop, look, faults>>

\* The second sensor is primed half an interval off the first.
beginSecondary == Interval \div 2
SensorAt(since) ==
  [since |-> since, conv |-> FALSE, started |-> 0, valid |-> FALSE, behind |-> FALSE, of |-> "none",
   missed |-> 0, part |-> "none", awake |-> FALSE, unheard |-> FALSE]
Init ==
  /\ board \in Boards
  /\ s = [x \in Sources |-> SensorAt(IF x = "primary" THEN Interval ELSE beginSecondary)]
  /\ loop = "secondary"
  /\ look = [src |-> "none", valid |-> FALSE, behind |-> FALSE, of |-> "none", crossed |-> FALSE]
  /\ volts = [age |-> Never, good |-> Never, ripe |-> TRUE, lock |-> "free"]
  /\ ask = [t \in Tasks |-> [at |-> "idle", age |-> Never, behind |-> 0, crossed |-> FALSE]]
  /\ hist = [i \in 0..(Slots - 1) |-> 0] /\ count = 0
  /\ spaced = [age |-> Spacing, really |-> Spacing, gap |-> Spacing]
  /\ faults = 0

Loop == pollSecondary \/ secondaryCounted \/ poll \/ primaryPublished \/ NoSensor
Look == last \/ missedIntervals
Asks == batteryOfPmu \/ \E t \in Tasks : battery(t) \/ sample(t) \/ readVolts(t) \/ checked(t) \/ recordHistory(t)
Next == (board.meter = "none" /\ (Loop \/ Look)) \/ (board.fitted = {} /\ Asks) \/ Tick

\* The loop goes round and time passes.
Spec == Init /\ [][Next]_vars /\ WF_vars(board.meter = "none" /\ Loop) /\ WF_vars(Tick)

-----------------------------------------------------------------------------
\* A reading is said to be fresh only if it came of the last interval, measured
\* in it, or the next arrived while the task looked; it is said to be stale
\* only if an interval has passed without one, or its own is just being counted.
SaidTrue ==
  /\ look.src # "none" /\ said = "fresh" => look.of = "this" /\ (~look.behind \/ look.crossed)
  /\ look.src # "none" /\ said = "stale" => s[look.src].behind \/ loop = "counted"

\* The humidity part sleeps between readings, unless it did not hear the order.
Rested == board.second = "shtc3" /\ s["secondary"].awake => s["secondary"].conv \/ s["secondary"].unheard

\* A percentage comes of a conversion no older than BATTERY_STALE_MS, or one
\* landed while the task looked; the points of the history are the newest, in
\* order, and a chip's are five minutes apart.
CellTrue ==
  /\ \A t \in Tasks : ask[t].at = "record" => ask[t].age <= BatteryStale \/ ask[t].crossed
  /\ batteryHistory = [i \in DOMAIN batteryHistory |-> count - Cardinality(DOMAIN batteryHistory) + i - 1]
  /\ board.meter = "pmu" => spaced.gap >= Spacing

\* Power.cpp:467: the gate lives inside the lock, so that two callers crossing
\* the five-minute boundary together do not insert twice.
OnePointEach == spaced.gap >= Spacing

\* Once the bus is well, every sensor that is fitted is fresh.
Recovers == \A x \in Sources : <>[](x \in board.fitted => s[x].valid /\ s[x].missed = 0)
=============================================================================
