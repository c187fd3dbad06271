------------------------------- MODULE SdPoll -------------------------------
(* How often the card slot is looked at (sys/SdPollPolicy.h) by the task that *)
(* looks (sys/SdCard.cpp), and the two requests that cut its wait short. What *)
(* a look does to the store is StoreHome's; here it has an answer. Time is    *)
(* counted in slices of a wait, kBaseMs each; a look takes none.              *)
EXTENDS Naturals

CONSTANTS
  Ceiling,       \* kAbsentCeilingMs, in slices
  Present,       \* kPresentMs, in slices
  Hold,          \* kUnmountableHoldLooks
  MaxDoublings,  \* kMaxDoublings
  MaxTurns,      \* bound: cards put in or taken out
  MaxAsks        \* bound: presses and format requests

VARIABLES
  slot,       \* what is in it: "none", "fat", "blank", or "mounted", the card
              \* that is mounted
  belief,     \* _info.state: "absent", "stuck" (will not mount) or "mounted"
  lookNow, formatAsked,   \* _lookNow, _formatRequested
  told,       \* a notification is latched
  pokes,      \* requests between their flag and their poke
  misses, stuck,          \* of the policy
  pc,         \* "poll", "format", "read", "decide", "take" or "woken"
  found,      \* what this look read
  interval, left,         \* the wait, and what is left of it
  asleepFor,  \* ghost: slices slept since a format was asked for, since the last
              \* press and since the slot changed, with no look since; one more
              \* than that, and 0 when there is none
  turns, asks

vars == <<slot, belief, lookNow, formatAsked, told, pokes, misses, stuck, pc, found,
          interval, left, asleepFor, turns, asks>>

AtMost(a, b) == IF a < b THEN a ELSE b
Clocks == {"format", "press", "turn"}


-----------------------------------------------------------------------------
(* The policy.                                                                *)
-----------------------------------------------------------------------------
kMaxRung == MaxDoublings + 1
kMaxUnmountableLooks == Hold + kMaxRung - 1

absentMs(m) == AtMost(Ceiling, 2 ^ (IF m < 2 THEN 0 ELSE AtMost(MaxDoublings, m - 1)))
unmountableMs(n) == IF n <= Hold THEN 1 ELSE absentMs(n - Hold + 1)

\* nextWaitMs() with b believed, on ladders that have counted m and s.
rungs(b, m, s) ==
  [misses |-> IF b = "absent" THEN AtMost(kMaxRung, m + 1) ELSE 0,
   stuck  |-> IF b = "stuck" THEN AtMost(kMaxUnmountableLooks, s + 1) ELSE 0]
nextWait(b, r) ==
  CASE b = "mounted" -> Present
    [] b = "stuck"   -> unmountableMs(r.stuck)
    [] b = "absent"  -> absentMs(r.misses)

-----------------------------------------------------------------------------
Init ==
  /\ slot \in {"none", "fat", "blank"} /\ belief = "absent"
  /\ lookNow = FALSE /\ formatAsked = FALSE /\ told = FALSE /\ pokes = {}
  /\ misses = 0 /\ stuck = 0 /\ pc = "poll" /\ found = "absent"
  /\ interval = 0 /\ left = 0 /\ asleepFor = [c \in Clocks |-> 0] /\ turns = 0 /\ asks = 0

task == <<misses, stuck, pc, found, interval, left>>

\* A card is put in, taken out or exchanged.
Turn ==
  /\ turns < MaxTurns /\ turns' = turns + 1
  /\ slot' \in {"none", "fat", "blank"} /\ (slot' = "none" => slot # "none")
  /\ asleepFor' = [asleepFor EXCEPT !["turn"] = 1]
  /\ UNCHANGED <<belief, lookNow, formatAsked, told, pokes, task, asks>>

\* The button: the flag first.
Press ==
  /\ asks < MaxAsks /\ asks' = asks + 1 /\ "press" \notin pokes
  /\ lookNow' = TRUE /\ pokes' = pokes \cup {"press"}
  /\ asleepFor' = [asleepFor EXCEPT !["press"] = 1]
  /\ UNCHANGED <<slot, belief, formatAsked, told, task, turns>>

\* requestFormat() that is not refused: no format runs, a card is believed to
\* be there and, by StoreHome, it is not the store's.
RequestFormat ==
  /\ asks < MaxAsks /\ asks' = asks + 1 /\ "format" \notin pokes
  /\ ~formatAsked /\ belief # "absent"
  /\ formatAsked' = TRUE /\ pokes' = pokes \cup {"format"}
  /\ asleepFor' = [asleepFor EXCEPT !["format"] = 1]
  /\ UNCHANGED <<slot, belief, lookNow, told, task, turns>>

poke ==
  /\ pokes # {} /\ told' = TRUE /\ \E p \in pokes : pokes' = pokes \ {p}
  /\ UNCHANGED <<slot, belief, lookNow, formatAsked, task, asleepFor, turns, asks>>

-----------------------------------------------------------------------------
(* The task.                                                                  *)
-----------------------------------------------------------------------------
\* A look begins: it formats if that is asked for, and reads the slot if not.
Poll ==
  /\ pc = "poll"
  /\ IF formatAsked THEN pc' = "format" /\ UNCHANGED found
     ELSE /\ pc' = "read"
          /\ found' = CASE slot = "none"    -> "absent"
                        [] slot = "mounted" -> "mounted"
                        [] belief = "mounted" -> "absent"   \* not the card it was
                        [] slot = "fat"     -> "mounted"
                        [] slot = "blank"   -> "stuck"
  /\ asleepFor' = [c \in Clocks |-> 0]
  /\ UNCHANGED <<slot, belief, lookNow, formatAsked, told, pokes, misses, stuck, interval,
                 left, turns, asks>>

\* A card that is exchanged between the read and the mount is mounted, or not,
\* as it is.
Believe ==
  /\ pc = "read" /\ pc' = "decide"
  /\ belief' = IF found = "mounted" /\ slot \notin {"fat", "mounted"} /\ belief # "mounted"
               THEN "stuck" ELSE found
  /\ slot' = IF belief' = "mounted" /\ slot = "fat" /\ belief # "mounted" THEN "mounted" ELSE slot
  /\ UNCHANGED <<lookNow, formatAsked, told, pokes, misses, stuck, found, interval, left,
                 asleepFor, turns, asks>>

\* doFormat(), whose request is cleared by whatever way it ends.
Format ==
  /\ pc = "format" /\ pc' = "decide" /\ formatAsked' = FALSE
  /\ \/ slot = "none" /\ belief' = "absent" /\ UNCHANGED slot
     \/ slot # "none" /\ belief' = "mounted" /\ slot' = "mounted"
     \/ slot # "none" /\ belief' = "stuck" /\ slot' = "blank"
  /\ UNCHANGED <<lookNow, told, pokes, misses, stuck, found, interval, left, asleepFor,
                 turns, asks>>

\* Mutant: the request is not consumed.
DecideKeeping ==
  LET r == rungs(belief, IF lookNow THEN 0 ELSE misses, IF lookNow THEN 0 ELSE stuck) IN
  /\ pc = "decide" /\ pc' = "take"
  /\ misses' = r.misses /\ stuck' = r.stuck
  /\ interval' = nextWait(belief, r) /\ left' = nextWait(belief, r)
  /\ UNCHANGED <<slot, belief, lookNow, formatAsked, told, pokes, found, asleepFor, turns, asks>>

\* What was asked for before or during this look puts the ladders back, and
\* then the look's answer says how long to wait.
Decide ==
  LET r == rungs(belief, IF lookNow THEN 0 ELSE misses, IF lookNow THEN 0 ELSE stuck) IN
  /\ pc = "decide" /\ pc' = "take" /\ lookNow' = FALSE
  /\ misses' = r.misses /\ stuck' = r.stuck
  /\ interval' = nextWait(belief, r) /\ left' = nextWait(belief, r)
  /\ UNCHANGED <<slot, belief, formatAsked, told, pokes, found, asleepFor, turns, asks>>

\* A slice: cut short by a notification, which is spent, or slept. A poke
\* follows its flag too closely for a slice to pass between them.
Take ==
  /\ pc = "take" /\ pc' = "woken" /\ told' = FALSE
  /\ \/ told /\ UNCHANGED <<left, asleepFor>>
     \/ /\ ~told /\ pokes = {} /\ left' = left - 1
        /\ asleepFor' = [c \in Clocks |->
             IF asleepFor[c] = 0 THEN 0 ELSE AtMost(Ceiling + Present, asleepFor[c] + 1)]
  /\ UNCHANGED <<slot, belief, lookNow, formatAsked, pokes, misses, stuck, found, interval,
                 turns, asks>>

\* The watchdog is fed, and a request ends the wait.
Woken ==
  /\ pc = "woken"
  /\ pc' = IF formatAsked \/ lookNow \/ left = 0 THEN "poll" ELSE "take"
  /\ UNCHANGED <<slot, belief, lookNow, formatAsked, told, pokes, misses, stuck, found,
                 interval, left, asleepFor, turns, asks>>

Task == Poll \/ Believe \/ Format \/ Decide \/ Take \/ Woken
Next == Turn \/ Press \/ RequestFormat \/ poke \/ Task
Spec == Init /\ [][Next]_vars /\ WF_vars(Task) /\ WF_vars(poke)

-----------------------------------------------------------------------------
\* A format that is asked for is not slept on (SdCard.cpp:159-164, 211-224).
FormatAtOnce == asleepFor["format"] <= 1

\* A press is followed by a look within the base beat, on a slot with nothing
\* mounted in it (SdPollPolicy.h:82-88).
LookSoon == belief # "mounted" => asleepFor["press"] <= 2

\* What changes in the slot is seen within the ceiling, and a card that leaves
\* within the keep-alive (SdPollPolicy.h:55-73, 112-122).
Noticed == asleepFor["turn"] <= 1 + (IF belief = "mounted" THEN Present ELSE Ceiling)

\* Left alone, the task comes to rest on its longest beat, whatever the slot
\* holds (SdPollPolicy.h:36-53).
EasesOff == <>[](pc = "take" => interval = IF belief = "mounted" THEN Present ELSE Ceiling)
=============================================================================
