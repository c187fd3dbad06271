---------------------------- MODULE MCBoard ----------------------------
(* What the board does by itself and on its operator's word, on small       *)
(* instances: the restart sequencer with two callers that stop asking at    *)
(* some point, on every build, its clock about to wrap; the sounder; the    *)
(* card slot. A run explores one of them.                                   *)
EXTENDS Bootloader, TLC

CONSTANTS a, b
TwoCallers == {a, b}
AllBoards  == {"none", "handler", "ncm"}
Delays     == {0, 3, 6}      \* less than, about and well above AckFloor
NearWrap   == {0, 29}

VARIABLE part   \* the component that runs

-----------------------------------------------------------------------------
\* Buzzer
VARIABLES
  kind, enabled, up, ready, queue, busy, owed, voice, step, stopped, tone, sounderCaller,
  applier, hurt, notes, saves, faults
N == INSTANCE Buzzer WITH
  MaxNotes <- 3, MaxSaves <- 3, MaxFaults <- 1, caller <- sounderCaller
sounderVars == <<
  kind, enabled, up, ready, queue, busy, owed, voice, step, stopped, tone, sounderCaller,
  applier, hurt, notes, saves, faults>>

-----------------------------------------------------------------------------
\* SdPoll
VARIABLES
  slot, belief, lookNow, formatAsked, told, pokes, misses, stuck, pc, found, interval,
  slotLeft, asleepFor, turns, asks
C == INSTANCE SdPoll WITH
  Ceiling <- 4, Present <- 4, Hold <- 2, MaxDoublings <- 3, MaxTurns <- 2, MaxAsks <- 2,
  left <- slotLeft
slotVars == <<
  slot, belief, lookNow, formatAsked, told, pokes, misses, stuck, pc, found, interval,
  slotLeft, asleepFor, turns, asks>>

-----------------------------------------------------------------------------
\* One component runs; the others stay where one of their runs begins.
AllInit ==
  /\ part \in {"restart", "sounder", "slot"}
  /\ Init /\ (part # "restart" => board = "none" /\ now = 0 /\ others = 0)
  /\ N!Init /\ (part # "sounder" => kind = "piezo" /\ ~enabled)
  /\ C!Init /\ (part # "slot" => slot = "none")
AllNext ==
  \/ part = "restart" /\ Next /\ UNCHANGED <<part, sounderVars, slotVars>>
  \/ part = "sounder" /\ N!Next /\ UNCHANGED <<part, vars, slotVars>>
  \/ part = "slot" /\ C!Next /\ UNCHANGED <<part, vars, sounderVars>>
AllSpec ==
  /\ AllInit /\ [][AllNext]_<<part, vars, sounderVars, slotVars>>
  /\ WF_vars(part = "restart" /\ Tick)
  /\ WF_vars(part = "restart" /\ Restart)
  /\ WF_vars(part = "restart" /\ Pass)
  /\ WF_sounderVars(part = "sounder" /\ N!Sounding)
  /\ WF_sounderVars(part = "sounder" /\ N!Voice)
  /\ WF_sounderVars(part = "sounder" /\ N!Applier)
  /\ WF_slotVars(part = "slot" /\ C!Task)
  /\ WF_slotVars(part = "slot" /\ C!poke)

-----------------------------------------------------------------------------
\* Of Bootloader: a restart that was accepted happens.
PlanFires == part = "restart" => RestartFires

\* Of Buzzer: two never sound at once, what a stand-down takes is given back,
\* and a note that was claimed ends.
SounderTrue == [](N!Claimed /\ N!GivenBack /\ N!Silent) /\ (part = "sounder" => N!Concludes)

\* Of SdPoll: a request is seen, a card that comes or goes is noticed in time,
\* and a slot nobody touches is looked at ever less.
SlotWatched == [](C!FormatAtOnce /\ C!LookSoon /\ C!Noticed) /\ (part = "slot" => C!EasesOff)
=============================================================================
