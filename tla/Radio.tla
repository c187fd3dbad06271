---------------------------------- MODULE Radio ----------------------------------
(***************************************************************************)
(* The radio task of src/radio/LoRaRadio.cpp: one task owns the chip, and  *)
(* everybody else reaches it through a ring, two flags and a notification. *)
(*                                                                         *)
(* taskLoop() is cut where another task or the air can come between two of *)
(* its statements; pc is where it stands.  A packet is a model value with  *)
(* a number of fragments; a foreign one has the four bits of sequence its  *)
(* sender drew.  Time is what the waits give up on, never a clock.         *)
(***************************************************************************)
EXTENDS Integers, Sequences, TLAPS

CONSTANTS Mine,        \* packets this node's tasks will queue
          Other,       \* packets other nodes send
          Parts,       \* fragments of each packet: 1, or 2 when it is split
          Nibble,      \* the sequence bits of each foreign packet
          Channel,     \* settings the radio may be asked for
          Stored,      \* those it starts on
          Ring,        \* packets the transmit ring holds
          Patience,    \* CSMA_MAX_WAIT_MS, in probes of the channel
          MaxAsks      \* bound: reconfigurations asked for

ASSUME PacketAssumption ==
    /\ Mine \cap Other = {}
    /\ Parts \in [Mine \cup Other -> {1, 2}]
ASSUME BoundAssumption ==
    /\ Ring \in Nat \ {0} /\ Patience \in Nat \ {0} /\ Stored \in Channel /\ MaxAsks \in Nat

VARIABLES
    pc,         \* where taskLoop() stands; "gone" when begin() found no chip
    irq, work,  \* the task's two notification bits
    parked,     \* _parked
    idle,       \* the park it chose is the long one
    waking,     \* a caller is between what it set and wake()
    sleepReq,   \* _sleepRequest
    asleep,     \* _asleep
    chip,       \* what the transceiver is doing
    frame,      \* the frame it holds, as a sequence of at most one
    half,       \* _rxBuf and _rxSeq: the fragment that waits for its second
    got,        \* history: what this pass delivered, by whose fragments
    due,        \* a beacon is due: the hello, a reply or the interval's
    txq,        \* the transmit ring
    toQueue,    \* packets of Mine not yet queued
    cur,        \* what is being transmitted, or "none"
    sent,       \* fragments of cur on the air
    waited,     \* probes csmaWait() has made
    reconf,     \* _reconfigure
    pending,    \* _pending
    active,     \* _active
    tuned,      \* the settings the chip is really on, or "mixed"
    applyErr,   \* g_stats.radioApplyError # 0
    asks,       \* reconfigurations asked for so far
    over,       \* the hour's budget is used up
    locked      \* g_stats.dutyLocked

park  == <<parked, idle>>
sleep == <<sleepReq, asleep>>
radio == <<chip, frame>>
rx    == <<half, got>>
queue == <<txq, toQueue>>
tx    == <<cur, sent, waited>>
conf  == <<pending, active, tuned, applyErr, asks>>
duty  == <<over, locked>>
vars  == <<pc, irq, work, park, waking, sleep, radio, rx, due, queue, tx, reconf, conf, duty>>

online   == pc # "gone"
Split(p) == Parts[p] = 2

-----------------------------------------------------------------------------
(* Everybody else: each sets something first, then calls wake().            *)

Wakes == ~waking /\ waking' = TRUE

Queue(p) ==
    /\ p \in toQueue /\ Len(txq) < Ring /\ Wakes
    /\ txq' = Append(txq, p) /\ toQueue' = toQueue \ {p}
    /\ UNCHANGED <<pc, irq, work, park, sleep, radio, rx, due, tx, reconf, conf, duty>>

requestReconfigure(s) ==
    /\ asks < MaxAsks /\ s # pending /\ Wakes
    /\ asks' = asks + 1 /\ pending' = s /\ reconf' = TRUE
    /\ UNCHANGED <<pc, irq, work, park, sleep, radio, rx, due, queue, tx, active, tuned,
                   applyErr, duty>>

requestSleep ==
    /\ ~sleepReq /\ ~asleep /\ Wakes
    /\ sleepReq' = TRUE
    /\ UNCHANGED <<pc, irq, work, park, asleep, radio, rx, due, queue, tx, reconf, conf, duty>>

(* wake() notifies only a task that says it is parked.                      *)
wake ==
    /\ waking /\ waking' = FALSE
    /\ work' = (work \/ parked)
    /\ UNCHANGED <<pc, irq, park, sleep, radio, rx, due, queue, tx, reconf, conf, duty>>

-----------------------------------------------------------------------------
(* The air, and onRadioIrq().                                               *)

(* A fragment of a foreign packet, the first or the second, taken by a chip *)
(* that listens on a channel; others are lost and leave nothing.            *)
Arrive(p) ==
    /\ chip = "rx" /\ frame = <<>> /\ tuned # "mixed"
    /\ frame' = <<p>> /\ irq' = TRUE
    /\ UNCHANGED <<pc, work, park, waking, sleep, chip, rx, due, queue, tx, reconf, conf, duty>>

(* A false preamble or a damaged frame interrupts as well, and so does the  *)
(* end of a transmission; told apart only by the flags of the chip.         *)
Interrupt ==
    /\ ~irq /\ irq' = TRUE
    /\ \/ chip = "rx" /\ pc \in {"wait", "quiet"}
       \/ chip = "tx" /\ pc = "air"
    /\ UNCHANGED <<pc, work, park, waking, sleep, radio, rx, due, queue, tx, reconf, conf,
                   duty>>

-----------------------------------------------------------------------------
(* handleRadioIrq().                                                        *)

(* A split fragment joins the one that waits if it carries its nibble; any  *)
(* other frame drops what waits.                                            *)
joins(p) == half # <<>> /\ Split(p) /\ Nibble[half[1]] = Nibble[p]

(* deliverPacket() may find the receive ring full and count a drop.         *)
deliver(ps) == got' \in {ps, got}

Read(p) ==
    /\ half' = IF Split(p) /\ ~joins(p) THEN <<p>> ELSE <<>>
    /\ IF joins(p) THEN deliver(half \o <<p>>)
       ELSE IF Split(p) THEN UNCHANGED got
       ELSE deliver(<<p>>)

(* armReceive(), whether the driver takes the duty-cycled plan or not.      *)
armReceive == chip' = "rx" /\ frame' = <<>>

(* Ends armed whatever was found.                                           *)
handleRadioIrq ==
    /\ IF frame # <<>> THEN Read(frame[1]) ELSE UNCHANGED rx
    /\ armReceive

-----------------------------------------------------------------------------
(* The top of the loop.                                                     *)

enterSleep ==
    /\ pc = "top" /\ sleepReq
    /\ sleepReq' = FALSE /\ asleep' = TRUE /\ chip' = "asleep" /\ frame' = <<>>
    /\ UNCHANGED <<pc, irq, work, park, waking, rx, due, queue, tx, reconf, conf, duty>>

(* applySettings() stops at the first step the chip refuses; the roll back  *)
(* may be refused as well, and its answer is not looked at.                 *)
applySettings ==
    \/ active' = pending /\ tuned' = pending /\ applyErr' = FALSE
    \/ active' = active /\ tuned' \in {active, "mixed"} /\ applyErr' = TRUE

(* The copy and the flag are one critical section.                          *)
Reconfigure ==
    /\ pc = "top" /\ ~sleepReq /\ ~asleep /\ reconf
    /\ reconf' = FALSE /\ applySettings
    /\ half' = <<>> /\ armReceive /\ pc' = "park"
    /\ UNCHANGED <<irq, work, park, waking, sleep, got, due, queue, tx, pending, asks, duty>>

Steady ==
    /\ pc = "top" /\ ~sleepReq /\ ~asleep /\ ~reconf /\ pc' = "park"
    /\ UNCHANGED <<irq, work, park, waking, sleep, radio, rx, due, queue, tx, reconf, conf,
                   duty>>

-----------------------------------------------------------------------------
(* The park: say so, look, wait.  RadioPark::waitMs() decides how long.     *)

waitIdle == ~(sleepReq \/ reconf) /\ (locked \/ txq = <<>>)

Park ==
    /\ pc = "park" /\ parked' = TRUE /\ pc' = "look" /\ got' = <<>>
    /\ UNCHANGED <<irq, work, idle, waking, sleep, radio, half, due, queue, tx, reconf, conf,
                   duty>>

Look ==
    /\ pc = "look" /\ idle' = waitIdle /\ pc' = "wait"
    /\ UNCHANGED <<irq, work, parked, waking, sleep, radio, rx, due, queue, tx, reconf, conf,
                   duty>>

(* Notified, or the wait ran out: on an interrupt the frame is read.        *)
Woken ==
    /\ pc = "wait" /\ pc' = "work"
    /\ parked' = FALSE /\ idle' = FALSE /\ irq' = FALSE /\ work' = FALSE
    /\ IF irq THEN handleRadioIrq ELSE UNCHANGED radio /\ UNCHANGED rx
    /\ UNCHANGED <<waking, sleep, due, queue, tx, reconf, conf, duty>>

-----------------------------------------------------------------------------
(* refreshAirtimeStats(), here in every pass; then a beacon that is due;    *)
(* then one packet of the ring.                                             *)

(* transmitPacket(p) begins.                                                *)
Begins(p) == cur' = p /\ pc' = "csma" /\ UNCHANGED <<sent, waited>>

TakeOne(l) ==
    IF ~l /\ txq # <<>>
    THEN Begins(Head(txq)) /\ txq' = Tail(txq)
    ELSE pc' = "top" /\ UNCHANGED <<tx, txq>>

Work ==
    /\ pc = "work" /\ locked' = over
    /\ IF ~over /\ due THEN Begins("beacon") /\ due' = FALSE /\ UNCHANGED txq
                        ELSE TakeOne(over) /\ UNCHANGED due
    /\ UNCHANGED <<irq, work, park, waking, sleep, radio, rx, toQueue, reconf, conf, over>>

Take ==
    /\ pc = "ring" /\ TakeOne(locked)
    /\ UNCHANGED <<irq, work, park, waking, sleep, radio, rx, due, toQueue, reconf, conf, duty>>

(* The beacon's interval runs out, or somebody's hello is heard and is owed *)
(* a reply.                                                                 *)
BeaconDue ==
    /\ online /\ ~due /\ due' = TRUE
    /\ UNCHANGED <<pc, irq, work, park, waking, sleep, radio, rx, queue, tx, reconf, conf, duty>>

-----------------------------------------------------------------------------
(* transmitPacket().                                                        *)

(* csmaWait() goes on while nobody asked for sleep and time is left.        *)
mayDefer == ~sleepReq /\ waited < Patience

(* mediumFree() takes what was received first, scans, and arms again; a     *)
(* scan that is refused, times out or hears something is a busy channel.    *)
Probe ==
    /\ pc = "csma" /\ mayDefer
    /\ waited' = IF waited < Patience THEN waited + 1 ELSE waited
    /\ handleRadioIrq /\ irq' = FALSE
    /\ pc' \in {"csma", "quiet"}
    /\ UNCHANGED <<work, park, waking, sleep, due, queue, cur, sent, reconf, conf, duty>>

(* DIFS and the contention slots: an interrupt starts over.                 *)
Quiet ==
    /\ pc = "quiet" /\ irq' = FALSE
    /\ IF irq THEN handleRadioIrq /\ pc' = "csma"
              ELSE UNCHANGED radio /\ UNCHANGED rx /\ pc' = "send"
    /\ UNCHANGED <<work, park, waking, sleep, due, queue, tx, reconf, conf, duty>>

GiveUp ==
    /\ pc = "csma" /\ ~mayDefer /\ pc' = "send"
    /\ UNCHANGED <<irq, work, park, waking, sleep, radio, rx, due, queue, tx, reconf, conf,
                   duty>>

(* A beacon is followed by the packet of the same pass.                     *)
Finished ==
    /\ pc' = IF cur = "beacon" THEN "ring" ELSE "top"
    /\ cur' = "none" /\ sent' = 0 /\ waited' = 0

(* A restart that is waiting outranks a fragment that has not started.      *)
Abandon ==
    /\ pc = "send" /\ sleepReq /\ Finished
    /\ UNCHANGED <<irq, work, park, waking, sleep, radio, rx, due, queue, reconf, conf, duty>>

(* sendFrame(): the stale interrupt is dropped, and with it a frame that    *)
(* came in since the channel was last probed; startTransmit() may refuse.   *)
Send ==
    /\ pc = "send" /\ ~sleepReq /\ irq' = FALSE
    /\ \/ chip' = "tx" /\ frame' = <<>> /\ pc' = "air" /\ UNCHANGED tx
       \/ armReceive /\ Finished
    /\ UNCHANGED <<work, park, waking, sleep, rx, due, queue, reconf, conf, duty>>

(* TxDone, or the eight seconds: either way the fragment counts as sent.    *)
fragmentsLeft == cur # "beacon" /\ sent + 1 < Parts[cur]

Sent ==
    /\ pc = "air" /\ irq' = FALSE /\ over' \in {over, TRUE}
    /\ IF fragmentsLeft
       THEN pc' = "send" /\ chip' = "standby" /\ frame' = <<>> /\ sent' = sent + 1
            /\ UNCHANGED <<cur, waited>>
       ELSE Finished /\ armReceive
    /\ UNCHANGED <<work, park, waking, sleep, rx, due, queue, reconf, conf, locked>>

-----------------------------------------------------------------------------
(* The oldest minutes leave the window of Airtime.                          *)
Expire ==
    /\ over /\ over' = FALSE
    /\ UNCHANGED <<pc, irq, work, park, waking, sleep, radio, rx, due, queue, tx, reconf,
                   conf, locked>>

(* Something the loop called threw: Diag::guard() counts it and taskLoop()  *)
(* is entered again, which lands at its top.  The mutant arms a radio that  *)
(* is asleep.                                                               *)
RearmAlways == armReceive

rearm == IF asleep THEN UNCHANGED radio ELSE armReceive

Throw ==
    /\ pc = "top" /\ rearm
    /\ UNCHANGED <<pc, irq, work, park, waking, sleep, rx, due, queue, tx, reconf, conf, duty>>

Task == \/ enterSleep \/ Reconfigure \/ Steady \/ Park \/ Look \/ Woken \/ Work \/ Take
        \/ Probe \/ Quiet \/ GiveUp \/ Abandon \/ Send \/ Sent

Callers == \/ \E p \in Mine : Queue(p)
           \/ \E s \in Channel : requestReconfigure(s)
           \/ requestSleep \/ wake

Air == (\E p \in Other : Arrive(p)) \/ Interrupt \/ BeaconDue \/ Expire

Next == Task \/ Callers \/ Air \/ Throw

(* begin() has run; without a chip the task ends at once.                   *)
Init ==
    /\ pc \in {"top", "gone"} /\ irq = FALSE /\ work = FALSE
    /\ parked = FALSE /\ idle = FALSE /\ waking = FALSE
    /\ sleepReq = FALSE /\ asleep = FALSE
    /\ chip = (IF online THEN "rx" ELSE "asleep") /\ frame = <<>>
    /\ half = <<>> /\ got = <<>>
    /\ due = TRUE /\ txq = <<>> /\ toQueue = Mine
    /\ cur = "none" /\ sent = 0 /\ waited = 0
    /\ reconf = FALSE /\ pending = Stored /\ active = Stored /\ tuned = Stored
    /\ applyErr = FALSE /\ asks = 0
    /\ over = FALSE /\ locked = FALSE

Spec == Init /\ [][Next]_vars

(* The task runs, a caller that has set something gets to wake(), and the   *)
(* window moves.  The air, and whoever might ask, owe nothing.              *)
FairSpec == Spec /\ WF_vars(Task) /\ WF_vars(wake) /\ WF_vars(Expire)
-----------------------------------------------------------------------------
(* Properties.                                                              *)

(* Every variable has its type.                                             *)
TypeOK ==
    /\ pc \in {"top", "park", "look", "wait", "work", "ring", "csma", "quiet", "send", "air", "gone"}
    /\ {irq, work, parked, idle, waking, sleepReq, asleep, due, reconf, applyErr, over, locked}
           \subseteq BOOLEAN
    /\ chip \in {"rx", "standby", "tx", "asleep"}
    /\ frame \in {<<>>} \cup {<<p>> : p \in Other}
    /\ half \in {<<>>} \cup {<<p>> : p \in Other}
    /\ got \in Seq(Other) /\ Len(got) <= 2
    /\ txq \in Seq(Mine) /\ Len(txq) <= Ring /\ toQueue \subseteq Mine
    /\ cur \in Mine \cup {"beacon", "none"} /\ sent \in 0 .. 1 /\ waited \in 0 .. Patience
    /\ {pending, active} \subseteq Channel /\ tuned \in Channel \cup {"mixed"} /\ asks \in 0 .. MaxAsks

(* No lost wake: a task that parked for the long wait with something to do  *)
(* has been notified, or its notifier is on the way.  A packet queued       *)
(* between the look and the park would otherwise sit out the wait.          *)
NoLostWake == pc = "wait" /\ idle /\ ~waitIdle => work \/ waking

(* A task that waits has a receiver that listens, or an interrupt that will *)
(* be served: no path through a probe, a refused transmission or a spurious *)
(* interrupt leaves the node deaf.                                          *)
Hears == pc = "wait" => chip = "rx" /\ (frame # <<>> => irq)

(* What is delivered is one unsplit frame, or two fragments that carried    *)
(* one nibble; with four random bits that is all a receiver can tell.       *)
Joined ==
    \A i \in DOMAIN got :
        /\ Split(got[i]) <=> Len(got) = 2
        /\ Nibble[got[i]] = Nibble[got[1]]

(* With nothing asked for, the node is on the settings last asked for, or   *)
(* it says that applying them failed; also when two requests race the task. *)
OnChannel == pc = "wait" /\ ~reconf => applyErr \/ (tuned = active /\ active = pending)

(* The task parks awake and listening, joins what belongs together, and is  *)
(* on the channel last asked for.                                           *)
Attentive == NoLostWake /\ Hears /\ Joined /\ OnChannel

(* Asleep for a restart, the radio stays so: neither a wake, a request nor  *)
(* an exception caught by the guard starts it again.                        *)
StaysAsleep == [][asleep => asleep' /\ chip' = chip]_vars

(* A restart that asks for sleep gets it, whatever the task was doing and   *)
(* however busy the channel is.                                             *)
Sleeps == sleepReq ~> (asleep \/ ~online)

(* A queued packet leaves the ring: the deferral is bounded, the lock lifts *)
(* and no beacon, request or interrupt starves it.                          *)
Drains == txq # <<>> ~> (txq = <<>> \/ asleep \/ ~online)

(* Both, of every behaviour: the task hears and acts until it sleeps.       *)
HearsOrSleeps == []Attentive /\ StaysAsleep

-----------------------------------------------------------------------------
(* Why.  What the chip is doing follows from where the task stands; it is   *)
(* left in standby only on the way to a sleep that was asked for.           *)

Listening ==
    /\ pc \in {"park", "look", "wait", "work", "ring", "csma", "quiet"} => chip = "rx"
    /\ pc = "send" => chip = "rx" \/ (chip = "standby" /\ cur # "beacon")
    /\ pc = "air" => chip = "tx"
    /\ pc = "top" /\ ~asleep => chip = "rx" \/ (chip = "standby" /\ sleepReq)
    /\ pc = "gone" => chip = "asleep"

Resting == asleep => pc = "top" /\ chip = "asleep" /\ frame = <<>>

(* A frame that is held has interrupted.                                    *)
Told == /\ {irq, work, parked, idle, waking, reconf, sleepReq, asleep} \subseteq BOOLEAN
        /\ frame \in {<<>>} \cup {<<p>> : p \in Other} /\ (frame # <<>> => irq)

(* The task says that it is parked before it looks and while it waits.      *)
Saying == (pc \in {"look", "wait"} => parked) /\ NoLostWake

Waiting == half \in {<<>>} \cup {<<p>> : p \in {x \in Other : Split(x)}} /\ Joined

Steered == ~reconf => applyErr \/ (tuned = active /\ active = pending)

CInv == Listening /\ Resting /\ Told /\ Saying /\ Waiting /\ Steered

-----------------------------------------------------------------------------
LEMMA RadioStarts == Init => CInv
<1> SUFFICES ASSUME Init
             PROVE  CInv
  OBVIOUS
<1>1. Listening
  BY DEF Init, online, Listening
<1>2. Resting /\ Told /\ Steered
  BY DEF Init, Resting, Told, Steered
<1>3. Saying
  BY DEF Init, Saying, NoLostWake
<1>4. DOMAIN got = {}
  BY DEF Init
<1>5. Waiting
  BY <1>4 DEF Init, Waiting, Joined
<1> QED
  BY <1>1, <1>2, <1>3, <1>5 DEF CInv

(* A frame that is read leaves one that waits for its second, and delivers  *)
(* what belongs together.                                                   *)
LEMMA ReadJoins ==
    ASSUME Waiting, NEW p \in Other, Read(p)
    PROVE  Waiting'
<1>1. CASE joins(p)
  <2>1. PICK q \in Other : half = <<q>> /\ Split(q)
    BY <1>1 DEF joins, Waiting
  <2>2. half' = <<>> /\ (got' = got \/ got' = <<q, p>>)
    BY <1>1, <2>1 DEF Read, deliver
  <2>3. Split(p) /\ Nibble[q] = Nibble[p]
    BY <1>1, <2>1 DEF joins
  <2>4. CASE got' = <<q, p>>
    BY <2>1, <2>2, <2>3, <2>4 DEF Waiting, Joined, Split
  <2>5. CASE got' = got
    BY <2>2, <2>5 DEF Waiting, Joined
  <2> QED
    BY <2>2, <2>4, <2>5
<1>2. CASE ~joins(p) /\ Split(p)
  BY <1>2 DEF Read, Waiting, Joined
<1>3. CASE ~joins(p) /\ ~Split(p)
  <2>1. half' = <<>> /\ (got' = got \/ got' = <<p>>)
    BY <1>3 DEF Read, deliver
  <2>2. CASE got' = <<p>>
    BY <1>3, <2>1, <2>2 DEF Waiting, Joined, Split
  <2>3. CASE got' = got
    BY <2>1, <2>3 DEF Waiting, Joined
  <2> QED
    BY <2>1, <2>2, <2>3
<1> QED
  BY <1>1, <1>2, <1>3

LEMMA IrqServed ==
    ASSUME Waiting, Told, handleRadioIrq
    PROVE  Waiting' /\ chip' = "rx" /\ frame' = <<>>
<1>1. chip' = "rx" /\ frame' = <<>>
  BY DEF handleRadioIrq, armReceive
<1>2. CASE frame = <<>>
  BY <1>1, <1>2 DEF handleRadioIrq, rx, Waiting, Joined
<1>3. CASE frame # <<>>
  <2>1. PICK p \in Other : frame = <<p>>
    BY <1>3 DEF Told
  <2>2. Read(p)
    BY <1>3, <2>1 DEF handleRadioIrq
  <2> QED
    BY <1>1, <2>2, ReadJoins
<1> QED
  BY <1>2, <1>3

LEMMA TaskKeeps ==
    ASSUME CInv, Task
    PROVE  CInv'
<1> USE DEF CInv
<1>1. CASE enterSleep
  BY <1>1 DEF enterSleep, Listening, Resting, Told, Saying, NoLostWake, waitIdle, Waiting, Joined, Steered,
     park, rx, queue, tx, conf, duty
<1>2. CASE Reconfigure
  BY <1>2 DEF Reconfigure, applySettings, armReceive, Listening, Resting, Told, Saying, NoLostWake, Waiting, Joined, Steered,
     park, sleep, queue, tx, duty
<1>3. CASE Steady
  BY <1>3 DEF Steady, Listening, Resting, Told, Saying, NoLostWake, Waiting, Joined, Steered,
     park, sleep, radio, rx, queue, tx, conf, duty
<1>4. CASE Park
  BY <1>4 DEF Park, Listening, Resting, Told, Saying, NoLostWake, Waiting, Joined, Steered,
     sleep, radio, queue, tx, conf, duty
<1>5. CASE Look
  BY <1>5 DEF Look, waitIdle, Listening, Resting, Told, Saying, NoLostWake, Waiting, Joined, Steered,
     sleep, radio, rx, queue, tx, conf, duty
<1>6. CASE Woken
  <2>1. Waiting' /\ chip' = "rx" /\ frame' = <<>>
    <3>1. CASE irq
      BY <1>6, <3>1, IrqServed DEF Woken
    <3>2. CASE ~irq
      BY <1>6, <3>2 DEF Woken, radio, rx, Told, Listening, Waiting, Joined
    <3> QED
      BY <3>1, <3>2
  <2>2. /\ pc = "wait" /\ pc' = "work" /\ parked' = FALSE /\ idle' = FALSE /\ irq' = FALSE /\ work' = FALSE
        /\ UNCHANGED <<waking, sleep, due, queue, tx, reconf, conf, duty>>
    BY <1>6 DEF Woken
  <2> QED
    BY <2>1, <2>2 DEF Listening, Resting, Told, Saying, NoLostWake, Steered, sleep, conf
<1>7. CASE Work
  BY <1>7 DEF Work, TakeOne, Begins, Listening, Resting, Told, Saying, NoLostWake, Waiting, Joined, Steered,
     park, sleep, radio, rx, tx, conf
<1>8. CASE Take
  BY <1>8 DEF Take, TakeOne, Begins, Listening, Resting, Told, Saying, NoLostWake, Waiting, Joined, Steered,
     park, sleep, radio, rx, tx, conf, duty
<1>9. CASE Probe
  <2>1. Waiting' /\ chip' = "rx" /\ frame' = <<>>
    BY <1>9, IrqServed DEF Probe
  <2>2. /\ pc = "csma" /\ pc' \in {"csma", "quiet"} /\ irq' = FALSE
        /\ UNCHANGED <<work, park, waking, sleep, due, queue, cur, sent, reconf, conf, duty>>
    BY <1>9 DEF Probe
  <2> QED
    BY <2>1, <2>2 DEF Listening, Resting, Told, Saying, NoLostWake, Steered, sleep, conf, park
<1>10. CASE Quiet
  <2>1. Waiting' /\ chip' = "rx" /\ frame' = <<>>
    <3>1. CASE irq
      BY <1>10, <3>1, IrqServed DEF Quiet
    <3>2. CASE ~irq
      BY <1>10, <3>2 DEF Quiet, radio, rx, Told, Listening, Waiting, Joined
    <3> QED
      BY <3>1, <3>2
  <2>2. /\ pc = "quiet" /\ pc' \in {"csma", "send"} /\ irq' = FALSE
        /\ UNCHANGED <<work, park, waking, sleep, due, queue, tx, reconf, conf, duty>>
    BY <1>10 DEF Quiet
  <2> QED
    BY <2>1, <2>2 DEF Listening, Resting, Told, Saying, NoLostWake, Steered, sleep, conf, park
<1>11. CASE GiveUp
  BY <1>11 DEF GiveUp, Listening, Resting, Told, Saying, NoLostWake, Waiting, Joined, Steered,
     park, sleep, radio, rx, queue, tx, conf, duty
<1>12. CASE Abandon
  BY <1>12 DEF Abandon, Finished, Listening, Resting, Told, Saying, NoLostWake, Waiting, Joined, Steered,
     park, sleep, radio, rx, queue, conf, duty
<1>13. CASE Send
  BY <1>13 DEF Send, armReceive, Finished, Listening, Resting, Told, Saying, NoLostWake, Waiting, Joined, Steered,
     park, sleep, rx, queue, tx, conf, duty
<1>14. CASE Sent
  BY <1>14 DEF Sent, fragmentsLeft, armReceive, Finished, Listening, Resting, Told, Saying, NoLostWake, Waiting, Joined, Steered,
     park, sleep, rx, queue, conf
<1> QED
  BY <1>1, <1>2, <1>3, <1>4, <1>5, <1>6, <1>7, <1>8, <1>9, <1>10, <1>11, <1>12, <1>13, <1>14 DEF Task

LEMMA OthersKeep ==
    ASSUME CInv, Callers \/ Air \/ Throw \/ UNCHANGED vars
    PROVE  CInv'
<1> USE DEF CInv, Listening, Resting, Told, Saying, NoLostWake, waitIdle, Waiting, Joined, Steered
<1>1. ASSUME NEW p \in Mine, Queue(p) PROVE CInv'
  BY <1>1 DEF Queue, Wakes, park, sleep, radio, rx, tx, conf, duty
<1>2. ASSUME NEW s \in Channel, requestReconfigure(s) PROVE CInv'
  BY <1>2 DEF requestReconfigure, Wakes, park, sleep, radio, rx, queue, tx, duty
<1>3. CASE requestSleep
  BY <1>3 DEF requestSleep, Wakes, park, radio, rx, queue, tx, conf, duty
<1>4. CASE wake
  BY <1>4 DEF wake, park, sleep, radio, rx, queue, tx, conf, duty
<1>5. ASSUME NEW p \in Other, Arrive(p) PROVE CInv'
  BY <1>5 DEF Arrive, park, sleep, rx, queue, tx, conf, duty
<1>6. CASE Interrupt
  BY <1>6 DEF Interrupt, park, sleep, radio, rx, queue, tx, conf, duty
<1>7. CASE BeaconDue
  BY <1>7 DEF BeaconDue, park, sleep, radio, rx, queue, tx, conf, duty
<1>8. CASE Expire
  BY <1>8 DEF Expire, park, sleep, radio, rx, queue, tx, conf
<1>9. CASE Throw
  BY <1>9 DEF Throw, rearm, armReceive, park, sleep, radio, rx, queue, tx, conf, duty
<1>10. CASE UNCHANGED vars
  BY <1>10 DEF vars, park, sleep, radio, rx, queue, tx, conf, duty
<1> QED
  BY <1>1, <1>2, <1>3, <1>4, <1>5, <1>6, <1>7, <1>8, <1>9, <1>10 DEF Callers, Air

(* For any packets, ring, patience and settings, whoever queues, asks for a *)
(* setting or for sleep, and whatever the air brings: the task never parks  *)
(* past what waits for it, listens while it waits, joins what belongs       *)
(* together, is on the channel it claims, and once asleep stays so.         *)
THEOREM RadioHearsOrSleeps == Spec => HearsOrSleeps
<1>1. CInv /\ [Next]_vars => CInv'
  BY TaskKeeps, OthersKeep DEF Next
<1>2. CInv => Attentive
  BY DEF CInv, Attentive, Saying, Hears, Listening, Told, Waiting, OnChannel, Steered
<1>3. CInv /\ [Next]_vars => [asleep => asleep' /\ chip' = chip]_vars
  <2> SUFFICES ASSUME CInv, Next, asleep PROVE asleep' /\ chip' = chip
    OBVIOUS
  <2>1. pc = "top" /\ chip = "asleep"
    BY DEF CInv, Resting
  <2>2. CASE Task
    BY <2>1, <2>2 DEF Task, enterSleep, Reconfigure, Steady, Park, Look, Woken, Work, Take, Probe, Quiet, GiveUp, Abandon, Send, Sent
  <2>3. CASE Callers
    BY <2>3 DEF Callers, Queue, requestReconfigure, requestSleep, wake, sleep, radio
  <2>4. CASE Air
    BY <2>1, <2>4 DEF Air, Arrive, Interrupt, BeaconDue, Expire, sleep, radio
  <2>5. CASE Throw
    BY <2>5 DEF Throw, rearm, sleep, radio
  <2> QED
    BY <2>2, <2>3, <2>4, <2>5 DEF Next
<1> QED
  BY <1>1, <1>2, <1>3, RadioStarts, PTL DEF Spec, HearsOrSleeps, StaysAsleep
=============================================================================
