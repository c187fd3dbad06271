------------------------------- MODULE Buzzer -------------------------------
(* The sounder (sys/Buzzer.cpp): a note started by whichever task has news,   *)
(* played by a task of its own on a speaker and ended by a timer on a piezo,  *)
(* while a settings save takes the hardware up or gives it back. A note is    *)
(* whether a second one follows it; a volume is not kept.                     *)
EXTENDS Naturals, Sequences

CONSTANTS
  MaxNotes,   \* bound: calls of boot() and message() that find the sounder up
  MaxSaves,   \* bound: saves of the setting
  MaxFaults   \* bound: resources takeUp() is refused

VARIABLES
  kind,       \* "speaker" or "piezo", of the board
  enabled,    \* settings.sound().enabled
  up,         \* sUp
  ready,      \* sReady; sTimer is there
  queue,      \* sQueue: notes and the sentinel; <<"gone">> when there is none
  busy,       \* sBusy
  owed,       \* sNextHz: one more note may be owed
  voice,      \* the audio task, or the timer: see below
  step,       \* where the timer's callback is: "none", "again", "quiet"
  stopped,    \* sStopped
  tone,       \* the pin carries a tone
  caller,     \* where a start() is, and its note
  applier,    \* where an apply() is
  hurt,       \* ghost: what the code takes for impossible happened
  notes, saves, faults

vars == <<kind, enabled, up, ready, queue, busy, owed, voice, step, stopped, tone,
          caller, applier, hurt, notes, saves, faults>>
hardware == <<kind, enabled, up, notes, saves, faults>>

\* voice on a speaker: "none", "waits", "first", "second", "last" (all but the
\* claim is done). On a piezo: "none", "waits" (not armed), "armed".
Gone   == <<"gone">>
Note   == {<<"one">>, <<"two">>}
Idle   == <<"idle">>
speaker == kind = "speaker"

Init ==
  /\ kind \in {"speaker", "piezo"} /\ enabled \in BOOLEAN
  /\ up = FALSE /\ ready = FALSE /\ queue = Gone /\ busy = FALSE /\ owed = FALSE
  /\ voice = "none" /\ step = "none" /\ stopped = FALSE /\ tone = FALSE
  /\ caller = Idle /\ applier = "apply" /\ hurt = "no"
  /\ notes = 0 /\ saves = 0 /\ faults = 0

-----------------------------------------------------------------------------
(* A caller: boot() and message().                                            *)
-----------------------------------------------------------------------------
Call(n) ==
  /\ caller = Idle /\ ready /\ notes < MaxNotes
  /\ caller' = <<"asked", n>> /\ notes' = notes + 1
  /\ UNCHANGED <<step, kind, enabled, up, ready, queue, busy, owed, voice, stopped, tone,
                 applier, hurt, saves, faults>>

\* One at a time and none queued.
Claim ==
  /\ caller[1] = "asked"
  /\ IF busy THEN caller' = Idle /\ UNCHANGED <<busy, owed>>
     ELSE /\ busy' = TRUE /\ caller' = <<"claimed", caller[2]>>
          /\ owed' = IF speaker THEN owed ELSE caller[2] = "two"
  /\ UNCHANGED <<hardware, step, ready, queue, voice, stopped, tone, applier, hurt>>

\* The note goes to the audio task, or does not and the claim is given back. A
\* queue that has been deleted meanwhile stops the program.
Post ==
  /\ speaker /\ caller[1] = "claimed"
  /\ IF queue = <<>> THEN queue' = <<caller[2]>> /\ caller' = Idle
     ELSE queue' = queue /\ caller' = IF queue = Gone THEN <<"panic">> ELSE <<"refused">>
  /\ UNCHANGED <<hardware, step, ready, busy, owed, voice, stopped, tone, applier, hurt>>

Refused ==
  /\ caller[1] = "refused" /\ busy' = FALSE /\ caller' = Idle
  /\ UNCHANGED <<hardware, step, ready, queue, owed, voice, stopped, tone, applier, hurt>>

\* The first note on the pin and the timer armed; a pin given back is not
\* driven, a timer that is gone is not started.
Strike ==
  /\ ~speaker /\ caller[1] = "claimed" /\ caller' = Idle
  /\ tone' = ready /\ voice' = IF ready THEN "armed" ELSE voice
  /\ UNCHANGED <<hardware, step, ready, queue, busy, owed, stopped, applier, hurt>>

-----------------------------------------------------------------------------
(* The audio task, and the timer's callback.                                  *)
-----------------------------------------------------------------------------
\* The next note, or the sentinel.
Take ==
  /\ speaker /\ voice = "waits" /\ queue \notin {<<>>, Gone}
  /\ IF queue = <<"bye">> THEN stopped' = TRUE /\ voice' = "none" /\ UNCHANGED owed
     ELSE voice' = "first" /\ owed' = (queue = <<"two">>) /\ UNCHANGED stopped
  /\ queue' = <<>>
  /\ UNCHANGED <<hardware, step, ready, busy, tone, caller, applier, hurt>>

Play ==
  /\ speaker /\ voice \in {"first", "second"}
  /\ voice' = IF voice = "first" /\ owed THEN "second" ELSE "last"
  /\ UNCHANGED <<hardware, step, ready, queue, busy, owed, stopped, tone, caller, applier, hurt>>

Played ==
  /\ voice = "last" /\ voice' = "waits" /\ busy' = FALSE
  /\ UNCHANGED <<hardware, step, ready, queue, owed, stopped, tone, caller, applier, hurt>>

\* Mutant: the claim is dropped whether or not a note is owed.
StepDropping ==
  /\ voice = "armed" /\ step = "none" /\ voice' = "waits"
  /\ step' = (IF owed THEN "again" ELSE "quiet") /\ owed' = FALSE /\ busy' = FALSE
  /\ UNCHANGED <<hardware, ready, queue, stopped, tone, caller, applier, hurt>>

\* step(): what is owed is taken, and the claim dropped when nothing is ...
Step ==
  /\ voice = "armed" /\ step = "none" /\ voice' = "waits"
  /\ step' = (IF owed THEN "again" ELSE "quiet") /\ owed' = FALSE /\ busy' = (busy /\ owed)
  /\ UNCHANGED <<hardware, ready, queue, stopped, tone, caller, applier, hurt>>

\* ... and then, outside the lock, the pin is set. A new note can have been
\* struck in between: it goes silent, and its timer still ends it.
StepSounds ==
  /\ step # "none" /\ step' = "none"
  /\ tone' = (step = "again" /\ ready)
  /\ voice' = IF step = "again" /\ ready THEN "armed" ELSE voice
  /\ UNCHANGED <<hardware, ready, queue, busy, owed, stopped, caller, applier, hurt>>

-----------------------------------------------------------------------------
(* A save of the setting, and apply().                                        *)
-----------------------------------------------------------------------------
Save ==
  /\ applier = "idle" /\ saves < MaxSaves
  /\ enabled' \in BOOLEAN /\ saves' = saves + 1 /\ applier' = "apply"
  /\ UNCHANGED <<step, kind, up, ready, queue, busy, owed, voice, stopped, tone, caller, hurt,
                 notes, faults>>

Unchanged ==
  /\ applier = "apply" /\ enabled = up /\ applier' = "idle"
  /\ UNCHANGED <<hardware, step, ready, queue, busy, owed, voice, stopped, tone, caller, hurt>>

\* takeUp(): everything, or nothing when the driver, the queue, the task, the
\* channel or the timer is refused.
TakeUp ==
  /\ applier = "apply" /\ enabled /\ ~up /\ applier' = "idle"
  /\ \/ /\ up' = TRUE /\ ready' = TRUE /\ voice' = "waits" /\ tone' = FALSE
        /\ queue' = IF speaker THEN <<>> ELSE queue
        /\ hurt' = IF step # "none" THEN "outlived" ELSE hurt
        /\ UNCHANGED faults
     \/ /\ faults < MaxFaults /\ faults' = faults + 1
        /\ UNCHANGED <<up, ready, voice, tone, queue, hurt>>
  /\ UNCHANGED <<step, kind, enabled, busy, owed, stopped, caller, notes, saves>>

\* release() of a speaker: no new notes, then the sentinel for the task.
Refuse ==
  /\ speaker /\ applier = "apply" /\ ~enabled /\ up
  /\ ready' = FALSE /\ stopped' = FALSE /\ applier' = "sending"
  /\ UNCHANGED <<hardware, step, queue, busy, owed, voice, tone, caller, hurt>>

SendBye ==
  /\ applier = "sending" /\ queue = <<>> /\ queue' = <<"bye">> /\ applier' = "waiting"
  /\ UNCHANGED <<hardware, step, ready, busy, owed, voice, stopped, tone, caller, hurt>>

\* 500 ms without room, or a second without an answer: the speaker stays up,
\* with the sentinel perhaps still in its queue. The time is the code's; that a
\* task of this node is held for so long is a fault.
StaysUp ==
  /\ applier \in {"sending", "waiting"} /\ ~stopped /\ faults < MaxFaults
  /\ ready' = TRUE /\ applier' = "idle" /\ hurt' = "late" /\ faults' = faults + 1
  /\ UNCHANGED <<step, kind, enabled, up, queue, busy, owed, voice, stopped, tone, caller,
                 notes, saves>>

overtaken == caller[1] \in {"asked", "claimed"}
Dropped   == hurt' = IF overtaken THEN "overtaken" ELSE hurt

\* The task has gone: the queue and the driver go too, and the claim.
LetGo ==
  /\ applier = "waiting" /\ stopped
  /\ queue' = Gone /\ busy' = FALSE /\ up' = FALSE /\ applier' = "idle" /\ Dropped
  /\ UNCHANGED <<step, kind, enabled, ready, owed, voice, stopped, tone, caller, notes, saves,
                 faults>>

\* release() of a piezo. A callback that is in step() finds the timer gone.
GiveBack ==
  /\ ~speaker /\ applier = "apply" /\ ~enabled /\ up
  /\ ready' = FALSE /\ tone' = FALSE /\ busy' = FALSE /\ up' = FALSE /\ applier' = "idle"
  /\ voice' = "none" /\ Dropped
  /\ UNCHANGED <<step, kind, enabled, queue, owed, stopped, caller, notes, saves, faults>>

Sounding  == Claim \/ Post \/ Refused \/ Strike
Voice   == Take \/ Play \/ Played \/ Step \/ StepSounds
Applier == Unchanged \/ TakeUp \/ Refuse \/ SendBye \/ LetGo \/ GiveBack
Next == (\E n \in {"one", "two"} : Call(n)) \/ Sounding \/ Voice \/ Save \/ Applier \/ StaysUp

\* The tasks run, and the timer fires.
Spec == Init /\ [][Next]_vars /\ WF_vars(Sounding) /\ WF_vars(Voice) /\ WF_vars(Applier)

-----------------------------------------------------------------------------
Sound == hurt = "no"

\* A note that is queued, played or timed has the claim, so that no second one
\* can be started over it (Buzzer.cpp:77-84, 143-146).
Claimed == Sound =>
  /\ queue \in Note \/ voice \in {"first", "second", "last", "armed"} => busy
  /\ busy => caller[1] \in {"claimed", "refused"} \/ queue \in Note
             \/ voice \in {"first", "second", "last", "armed"} \/ step = "again"
             \/ applier \in {"sending", "waiting"}

\* A sounder that is off has given everything back (Buzzer.h:50-54), and one
\* that is up can be heard (Buzzer.h:57).
GivenBack == Sound /\ applier \in {"idle", "apply"} =>
  /\ ~up => ~ready /\ queue = Gone /\ ~tone /\ voice = "none"
  /\ up  => ready /\ voice # "none" /\ (speaker => queue # Gone)

\* A pin with nothing to play is quiet.
Silent == ~speaker /\ voice # "armed" /\ step = "none" => ~tone

\* No note lasts for ever, and a switch is carried out.
Concludes ==
  /\ busy ~> (~busy \/ ~Sound)
  /\ (applier # "idle") ~> (~Sound \/ (applier = "idle" /\ (up = enabled \/ faults > 0)))
=============================================================================
