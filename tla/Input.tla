------------------------------- MODULE Input -------------------------------
(* What a hand does and what the shell makes of it: the trackball's interrupt *)
(* and its reader, the keyboard that hands over one key a read (ui/Keypad),   *)
(* the two touch controllers (ui/TouchInput), and the display task that reads *)
(* them in the dark (ui/Display) and feeds them to LVGL when the panel is lit *)
(* (ui/lvgl/UiShell). Where a finger is does not matter.                      *)
EXTENDS Naturals, Sequences

CONSTANTS
  kDetentsPerKey,
  MaxRolls,    \* bound: detents
  MaxKeys,     \* bound: keys typed
  MaxTouches,  \* bound: contacts
  MaxFaults,   \* bound: bus transactions that fail
  MaxBlanks    \* bound: times the panel goes dark

VARIABLES
  kind,       \* of the touch controller: "gt911", or "plain", which answers
              \* for the glass as it is
  lit,        \* the panel
  finger,     \* "up" or "down"
  waker,      \* ghost: this contact woke the panel
  report,     \* a gt911's status: "none", or a "point" or a "lift" to read
  swallow,    \* sSwallow
  pointer,    \* what LVGL was last told of the glass: "pressed" or "released"
  ticks,      \* sTicks
  latch,      \* the keyboard's keys, not read yet
  held,       \* keypadCb's key, pressed for one pass
  pending,    \* sPendingScreen
  pc,         \* the pass: "screen", "touch", "keys"
  rolled, sent,           \* ghosts: detents, and the keys made of them
  typed, touches, faults, blanks

vars == <<kind, lit, finger, waker, report, swallow, pointer, ticks, latch, held, pending, pc,
          rolled, sent, typed, touches, faults, blanks>>
ball  == <<ticks, sent>>
world == <<kind, rolled, typed, touches, blanks>>

Ways == {"up", "down"}
\* A character, a key that opens a screen, and one nobody has a meaning for.
Keys == {"letter", "screen", "other"}
None == "none"

Init ==
  /\ kind \in {"gt911", "plain"} /\ lit = TRUE
  /\ finger = "up" /\ waker = FALSE /\ report = None /\ swallow = FALSE /\ pointer = "released"
  /\ ticks = [w \in Ways |-> 0] /\ latch = <<>> /\ held = None /\ pending = None /\ pc = "screen"
  /\ rolled = [w \in Ways |-> 0] /\ sent = [w \in Ways |-> 0]
  /\ typed = 0 /\ touches = 0 /\ faults = 0 /\ blanks = 0

-----------------------------------------------------------------------------
(* The hand, and the controller.                                              *)
-----------------------------------------------------------------------------
\* The interrupt, under the lock that the reader takes.
tick(w) ==
  /\ rolled["up"] + rolled["down"] < MaxRolls
  /\ rolled' = [rolled EXCEPT ![w] = @ + 1] /\ ticks' = [ticks EXCEPT ![w] = @ + 1]
  /\ UNCHANGED <<kind, lit, finger, waker, report, swallow, pointer, latch, held, pending, pc,
                 sent, typed, touches, faults, blanks>>

Type(k) ==
  /\ typed < MaxKeys /\ typed' = typed + 1 /\ latch' = Append(latch, k)
  /\ UNCHANGED <<kind, lit, finger, waker, report, swallow, pointer, ball, held, pending, pc,
                 rolled, touches, faults, blanks>>

Touch ==
  /\ finger = "up" /\ touches < MaxTouches /\ touches' = touches + 1 /\ finger' = "down"
  /\ UNCHANGED <<kind, lit, waker, report, swallow, pointer, ball, latch, held, pending, pc,
                 rolled, typed, faults, blanks>>

Lift ==
  /\ finger = "down" /\ finger' = "up" /\ waker' = FALSE
  /\ UNCHANGED <<world, lit, report, swallow, pointer, ball, latch, held, pending, pc, faults>>

\* The controller reports again once its last report is cleared: while a finger
\* is there, and once that it has gone.
Report ==
  /\ kind = "gt911" /\ report = None
  /\ report' = IF finger = "down" THEN "point" ELSE "lift"
  /\ finger = "up" => pointer = "pressed" \/ swallow
  /\ UNCHANGED <<world, lit, finger, waker, swallow, pointer, ball, latch, held, pending, pc,
                 faults>>

-----------------------------------------------------------------------------
(* The drivers: what a read answers, and what it leaves.                      *)
-----------------------------------------------------------------------------
\* Mutant: a report with no point in it is left there.
pollEarly(down) ==
  \/ kind = "plain" /\ down = (finger = "down") /\ UNCHANGED <<report, faults>>
  \/ kind = "gt911" /\ report # "point" /\ ~down /\ UNCHANGED <<report, faults>>
  \/ kind = "gt911" /\ report = "point" /\ report' = None /\ down /\ UNCHANGED faults
  \/ /\ faults < MaxFaults /\ faults' = faults + 1 /\ ~down
     /\ report' \in {report, None}

\* TouchInput::poll(). A gt911 answers from a fresh report and clears it
\* whether or not a point was read; any transaction may fail, and a report is
\* then lost or read again.
poll(down) ==
  \/ kind = "plain" /\ down = (finger = "down") /\ UNCHANGED <<report, faults>>
  \/ kind = "gt911" /\ report' = None /\ down = (report = "point") /\ UNCHANGED faults
  \/ /\ faults < MaxFaults /\ faults' = faults + 1 /\ ~down
     /\ report' \in {report, None}

due == {w \in Ways : ticks[w] >= kDetentsPerKey}

\* A key's worth of detents is taken off one way's count.
trackballRead(key) ==
  /\ due # {} /\ UNCHANGED latch
  /\ key = IF "up" \in due THEN "up" ELSE "down"
  /\ ticks' = [ticks EXCEPT ![key] = @ - kDetentsPerKey]
  /\ sent' = [sent EXCEPT ![key] = @ + 1]

\* The keyboard hands over one key a read.
keyboardRead(key) ==
  /\ UNCHANGED ball
  /\ \/ latch # <<>> /\ key = Head(latch) /\ latch' = Tail(latch)
     \/ latch = <<>> /\ key = None /\ UNCHANGED latch

\* Keypad::read(): the ball before the keyboard.
read(key) == trackballRead(key) \/ (due = {} /\ keyboardRead(key))

-----------------------------------------------------------------------------
(* The display task.                                                          *)
-----------------------------------------------------------------------------
\* The timer, the menu or a long press: between two passes.
Blank ==
  /\ lit /\ pc = "screen" /\ blanks < MaxBlanks /\ blanks' = blanks + 1 /\ lit' = FALSE
  /\ UNCHANGED <<kind, finger, waker, report, swallow, pointer, ball, latch, held, pending, pc,
                 rolled, typed, touches, faults>>

\* In the dark, four times a second: a key wakes and is spent; a touch wakes
\* where the setting allows it, and is swallowed until it lifts.
DarkPoll ==
  /\ ~lit
  /\ \E key \in Ways \cup Keys \cup {None} :
       /\ read(key)
       /\ IF key \notin {None, "other"}
          THEN lit' = TRUE /\ UNCHANGED <<report, faults, swallow, waker>>
          ELSE \/ UNCHANGED <<lit, report, faults, swallow, waker>>   \* touchWake is off
               \/ \E down \in BOOLEAN :
                    /\ poll(down) /\ lit' = down
                    /\ swallow' = (swallow \/ down) /\ waker' = (waker \/ down)
  /\ UNCHANGED <<world, finger, pointer, held, pending, pc>>

touchCb ==
  /\ lit /\ pc = "touch" /\ pc' = "keys"
  /\ \E down \in BOOLEAN :
       /\ poll(down)
       /\ swallow' = (swallow /\ down)
       /\ pointer' = IF down /\ ~swallow THEN "pressed" ELSE "released"
  /\ UNCHANGED <<world, lit, finger, waker, ball, latch, held, pending>>

\* A key is pressed on one read and released on the next; one that opens a
\* screen is remembered for the next pass.
keypadCb ==
  /\ lit /\ pc = "keys" /\ pc' = "screen"
  /\ IF held # None THEN held' = None /\ UNCHANGED <<pending, ball, latch>>
     ELSE \E key \in Ways \cup Keys \cup {None} :
            /\ read(key)
            /\ held' = IF key \in {None, "other", "screen"} THEN None ELSE key
            /\ pending' = IF key = "screen" THEN key ELSE pending
  /\ UNCHANGED <<world, lit, finger, waker, report, swallow, pointer, faults>>

\* A pass begins with the screen that was asked for.
OpenScreen ==
  /\ lit /\ pc = "screen" /\ pc' = "touch" /\ pending' = None
  /\ UNCHANGED <<world, lit, finger, waker, report, swallow, pointer, ball, latch, held, faults>>

Display == DarkPoll \/ touchCb \/ keypadCb \/ OpenScreen
Next ==
  \/ Display \/ Blank \/ Touch \/ Lift \/ Report
  \/ \E w \in Ways : tick(w)
  \/ \E k \in Keys : Type(k)

\* The display task runs.
Spec == Init /\ [][Next]_vars /\ WF_vars(Display)

-----------------------------------------------------------------------------
\* Every detent is a third of a key, whoever counts while somebody reads
\* (Keypad.cpp:42-60, 90-104).
DetentsKept == \A w \in Ways : rolled[w] = ticks[w] + kDetentsPerKey * sent[w]

\* The contact that wakes the panel presses nothing (UiShell.cpp:122-129), on a
\* controller that answers for the glass and a bus that does not fail.
WakesOnly == [][
  kind = "plain" /\ faults' = 0 /\ waker /\ waker' /\ pointer = "released"
    => pointer' = "released"]_vars

\* The same of every board: the comment's words. A gt911 with nothing fresh to
\* say counts as a finger that has lifted.
WakesOnlyAnywhere == [][
  faults' = 0 /\ waker /\ waker' /\ pointer = "released" => pointer' = "released"]_vars

\* A report is read off the controller, which says nothing more before it is
\* (TouchInput.cpp:228-231), a pressed key is let go, a remembered screen opens
\* and what was typed is read, unless the panel goes dark.
Heard ==
  /\ (report # None /\ lit) ~> (report = None \/ ~lit)
  /\ (held # None) ~> (held = None \/ ~lit)
  /\ (pending # None) ~> (pending = None \/ ~lit)
  /\ (latch # <<>> /\ lit) ~> (latch = <<>> \/ ~lit)
=============================================================================
