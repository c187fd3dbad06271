------------------------------ MODULE UsbLink ------------------------------
(***************************************************************************)
(* The network over the USB cable (net/UsbNcm.cpp) and the link's phase    *)
(* machine (LocalLinkState.h, LocalLink.cpp): the interface and its ring   *)
(* of frames are built when the link is switched on and given back when it *)
(* is switched off, while four tasks use them:                             *)
(*   the loop     builds, raises, lowers and frees (poll);                 *)
(*   TCP/IP       fills the ring (transmit) and empties lwIP's mailbox;    *)
(*   USB          drains the ring (drain) and receives (recv_cb);          *)
(*   the timer    kicks a drain that found the driver busy.                *)
(* Each build is numbered: what a task holds is the build it read.         *)
(***************************************************************************)
EXTENDS Integers, Sequences

CONSTANTS
  kTxSlots,   \* frames the ring holds
  Mailbox,    \* messages lwIP's mailbox holds
  MaxBuilds,  \* interfaces built
  MaxFrames,  \* frames sent to the host
  MaxFlips,   \* times the operator and the cable change their mind
  MaxLost     \* kicks lost because the USB task's queue is full

VARIABLES
  enabled, mounted, flips,    \* the switch, the cable
  netif, slots, up,           \* sNetif, sTxSlots: the build, or 0; sUp
  sEnabled, sMounted, failed, \* as last applied, as last seen, LazyStart
  stop, stopping, freed,      \* the teardown's step, its build, builds given back
  asked, seen, mailbox,       \* the barrier through lwIP's mailbox
  builds, phase,
  tx, usb,                    \* where the TCP/IP and the USB task are, what they hold
  ringUsers, netifUsers,
  queue, deferred, retry,     \* frames waiting, drains deferred, the retry timer
  frames, lost
loopVars  == <<sEnabled, sMounted, failed, stop, stopping, freed, builds, phase>>
ringVars  == <<tx, ringUsers, queue, deferred, retry, frames, lost>>
vars == <<enabled, mounted, flips, netif, slots, up, loopVars, asked, seen,
          mailbox, usb, netifUsers, ringVars>>

-----------------------------------------------------------------------------
\* A frame waits in the ring as "fresh" until it has waited too long.
\* transmit: in, then the frame, then the kick, each between other tasks' steps.
Here == <<enabled, mounted, flips, netif, slots, up, loopVars, asked, seen, mailbox>>
TxEnter ==
  /\ tx.at = "idle" /\ frames < MaxFrames /\ (netif # 0 \/ stopping # 0)
  /\ tx' = [at |-> "in", hold |-> slots, waiting |-> FALSE]
  /\ ringUsers' = ringUsers + 1 /\ frames' = frames + 1
  /\ UNCHANGED <<Here, usb, netifUsers, queue, deferred, retry, lost>>
TxRefused ==
  /\ tx.at = "in" /\ (~up \/ tx.hold = 0 \/ Len(queue) >= kTxSlots)
  /\ tx' = [tx EXCEPT !.at = "idle", !.hold = 0] /\ ringUsers' = ringUsers - 1
  /\ UNCHANGED <<Here, usb, netifUsers, queue, deferred, retry, frames, lost>>
TxPut ==
  /\ tx.at = "in" /\ up /\ tx.hold # 0 /\ Len(queue) < kTxSlots
  /\ tx' = [tx EXCEPT !.at = "put", !.waiting = queue # <<>>]
  /\ queue' = Append(queue, "fresh")
  /\ UNCHANGED <<Here, usb, netifUsers, ringUsers, deferred, retry, frames, lost>>
Arm(asks) == retry' = (retry \/ asks)
TxKick(drops) ==
  /\ tx.at = "put" /\ (drops => lost < MaxLost)
  /\ deferred' = IF drops THEN deferred ELSE deferred + 1
  /\ lost' = IF drops THEN lost + 1 ELSE lost
  /\ Arm(tx.waiting)
  /\ tx' = [at |-> "idle", hold |-> 0, waiting |-> FALSE] /\ ringUsers' = ringUsers - 1
  /\ UNCHANGED <<Here, usb, netifUsers, queue, frames>>

\* A frame that waits on a host that has stopped reading goes stale.
Stale ==
  /\ queue # <<>> /\ Head(queue) = "fresh"
  /\ queue' = [queue EXCEPT ![1] = "stale"]
  /\ UNCHANGED <<Here, usb, netifUsers, tx, ringUsers, deferred, retry, frames, lost>>

\* The timer: another drain.
retryDrain ==
  /\ retry /\ retry' = FALSE /\ deferred' = deferred + 1
  /\ UNCHANGED <<Here, usb, netifUsers, tx, ringUsers, queue, frames, lost>>

\* drain, on the USB task.
DrainEnter ==
  /\ usb.at = "idle" /\ deferred > 0 /\ deferred' = deferred - 1
  /\ IF slots = 0 THEN UNCHANGED <<usb, ringUsers>>
     ELSE usb' = [at |-> "drain", hold |-> slots] /\ ringUsers' = ringUsers + 1
  /\ UNCHANGED <<Here, netifUsers, tx, queue, retry, frames, lost>>
DrainLeaves(arms) ==
  /\ usb' = [at |-> "idle", hold |-> 0] /\ ringUsers' = ringUsers - 1 /\ Arm(arms)
  /\ UNCHANGED <<Here, netifUsers, tx, queue, deferred, frames, lost>>
DrainEmpty == usb.at = "drain" /\ queue = <<>> /\ DrainLeaves(FALSE)

DrainBusy == usb.at = "drain" /\ queue # <<>> /\ up /\ Head(queue) = "fresh" /\ DrainLeaves(TRUE)

DrainOne ==
  /\ usb.at = "drain" /\ queue # <<>> /\ queue' = Tail(queue)
  /\ UNCHANGED <<Here, usb, netifUsers, tx, ringUsers, deferred, retry, frames, lost>>

\* tud_network_recv_cb, on the USB task: sUp is read, then the interface, and
\* the frame is posted to lwIP.
RecvEnter ==
  /\ usb.at = "idle" /\ up /\ netif # 0
  /\ usb' = [at |-> "recv", hold |-> netif] /\ netifUsers' = netifUsers + 1
  /\ UNCHANGED <<Here, ringVars>>
RecvPost ==
  /\ usb.at = "recv" /\ Len(mailbox) < Mailbox
  /\ mailbox' = Append(mailbox, usb.hold)
  /\ usb' = [at |-> "idle", hold |-> 0] /\ netifUsers' = netifUsers - 1
  /\ UNCHANGED <<enabled, mounted, flips, netif, slots, up, loopVars, asked, seen, ringVars>>
RecvDrops ==
  /\ usb.at = "recv"
  /\ usb' = [at |-> "idle", hold |-> 0] /\ netifUsers' = netifUsers - 1
  /\ UNCHANGED <<Here, ringVars>>

\* lwIP takes a message from its mailbox: a frame of a build, or the barrier.
Barrier == 0
lwip ==
  /\ tx.at = "idle" /\ mailbox # <<>> /\ mailbox' = Tail(mailbox)
  /\ seen' = IF Head(mailbox) = Barrier THEN asked ELSE seen
  /\ UNCHANGED <<enabled, mounted, flips, netif, slots, up, loopVars, asked, usb, netifUsers, ringVars>>

-----------------------------------------------------------------------------
\* LazyStart, and the phase machine the loop moves after the driver.
shouldStart == enabled /\ netif = 0 /\ stop = "idle" /\ ~failed
shouldStop  == ~enabled /\ netif # 0 /\ stop = "idle"
idle        == IF ~enabled /\ netif = 0 /\ stop = "idle" THEN FALSE ELSE failed

apply(p, event) ==
  CASE event = "enable" /\ p = "disabled"                  -> "down"
    [] event = "disable"                                   -> "disabled"
    [] event = "carrierUp" /\ p = "down"                   -> "up"
    [] event = "carrierDown" /\ p \in {"up", "ready"}      -> "down"
    [] event = "addressUp" /\ p \in {"down", "up"}         -> "ready"
    [] event = "addressDown" /\ p = "ready"                -> "up"
    [] OTHER -> p
Follow(carrier) ==
  phase' = IF ~enabled THEN apply(phase, "disable")
           ELSE LET on == apply(phase, "enable")
                IN  IF carrier THEN apply(apply(on, "carrierUp"), "addressUp")
                    ELSE apply(on, "carrierDown")

\* The teardown, a step to a pass. Asking again before it was seen asks the same.
\* Mutant: only the ring's users are waited for.
QuietForTheRing == ringUsers = 0

Quiet == ringUsers = 0 /\ netifUsers = 0

Quiesce ==
  /\ stop = "quiesce" /\ Quiet /\ asked' = seen + 1
  /\ IF Len(mailbox) < Mailbox
     THEN mailbox' = Append(mailbox, Barrier) /\ stop' = "lwip"
     ELSE UNCHANGED <<mailbox, stop>>
  /\ Follow(FALSE)
  /\ UNCHANGED <<enabled, mounted, flips, netif, slots, up, sEnabled, sMounted, failed, stopping,
                 freed, seen, builds, usb, netifUsers, ringVars>>
LwipSeen ==
  /\ stop = "lwip" /\ seen = asked /\ stop' = "finish" /\ Follow(FALSE)
  /\ UNCHANGED <<enabled, mounted, flips, netif, slots, up, sEnabled, sMounted, failed, stopping,
                 freed, asked, seen, mailbox, builds, usb, netifUsers, ringVars>>
Finish ==
  /\ stop = "finish" /\ stop' = "idle" /\ freed' = freed \cup {stopping} /\ stopping' = 0
  /\ Follow(FALSE)
  /\ UNCHANGED <<enabled, mounted, flips, netif, slots, up, sEnabled, sMounted, failed, asked,
                 seen, mailbox, builds, usb, netifUsers, ringVars>>

\* Switched off: the link is lowered, then, in the same pass, its handles taken.
Lower ==
  /\ shouldStop /\ stop' = "take" /\ up' = FALSE /\ sEnabled' = FALSE /\ retry' = FALSE
  /\ UNCHANGED <<enabled, mounted, flips, netif, slots, sMounted, failed, stopping, freed,
                 asked, seen, mailbox, builds, phase, usb, netifUsers, tx, ringUsers, queue,
                 deferred, frames, lost>>
Take ==
  /\ stop = "take" /\ stop' = "quiesce"
  /\ stopping' = netif /\ netif' = 0 /\ slots' = 0 /\ sMounted' = FALSE /\ Follow(FALSE)
  /\ UNCHANGED <<enabled, mounted, flips, up, sEnabled, failed, freed, asked, seen, mailbox,
                 builds, usb, netifUsers, ringVars>>

\* Built, or not: no memory for the ring or the interface, tried once.
startUsb ==
  /\ shouldStart /\ builds < MaxBuilds /\ builds' = builds + 1
  /\ netif' = builds' /\ slots' = builds' /\ queue' = <<>> /\ failed' = FALSE /\ Follow(up)
  /\ UNCHANGED <<enabled, mounted, flips, up, sEnabled, sMounted, stop, stopping, freed, asked,
                 seen, mailbox, usb, netifUsers, tx, ringUsers, deferred, retry, frames, lost>>
startFails ==
  /\ shouldStart /\ failed' = TRUE /\ Follow(up)
  /\ UNCHANGED <<enabled, mounted, flips, netif, slots, up, sEnabled, sMounted, stop, stopping,
                 freed, asked, seen, mailbox, builds, usb, netifUsers, ringVars>>

\* No build to begin or to end: the link follows the switch and the cable.
poll ==
  /\ stop = "idle" /\ ~shouldStart /\ ~shouldStop
  /\ failed' = idle
  /\ IF netif = 0 THEN UNCHANGED <<sEnabled, sMounted, up>>
     ELSE sEnabled' = enabled /\ sMounted' = mounted /\ up' = (enabled /\ mounted)
  /\ Follow(up')
  /\ UNCHANGED <<enabled, mounted, flips, netif, slots, stop, stopping, freed, asked, seen,
                 mailbox, builds, usb, netifUsers, ringVars>>
Poll == poll \/ startUsb \/ startFails \/ Lower \/ Take \/ Quiesce \/ LwipSeen \/ Finish

\* The operator's switch, the cable.
Flip ==
  /\ flips < MaxFlips /\ flips' = flips + 1
  /\ \/ enabled' = ~enabled /\ UNCHANGED mounted
     \/ mounted' = ~mounted /\ UNCHANGED enabled
  /\ UNCHANGED <<netif, slots, up, loopVars, asked, seen, mailbox, usb, netifUsers, ringVars>>

Init ==
  /\ enabled \in BOOLEAN /\ mounted = TRUE /\ flips = 0
  /\ netif = 0 /\ slots = 0 /\ up = FALSE /\ sEnabled = FALSE /\ sMounted = FALSE
  /\ failed = FALSE /\ stop = "idle" /\ stopping = 0 /\ freed = {} /\ asked = 0 /\ seen = 0
  /\ mailbox = <<>> /\ builds = 0 /\ phase = IF enabled THEN "down" ELSE "disabled"
  /\ tx = [at |-> "idle", hold |-> 0, waiting |-> FALSE] /\ usb = [at |-> "idle", hold |-> 0]
  /\ ringUsers = 0 /\ netifUsers = 0 /\ queue = <<>> /\ deferred = 0 /\ retry = FALSE
  /\ frames = 0 /\ lost = 0
Transmit == TxEnter \/ TxRefused \/ TxPut \/ \E drops \in BOOLEAN : TxKick(drops)
Drain == DrainEmpty \/ DrainBusy \/ DrainOne
Next ==
  \/ Transmit \/ Stale \/ retryDrain \/ DrainEnter \/ Drain
  \/ RecvEnter \/ RecvPost \/ RecvDrops \/ lwip \/ Poll \/ Flip

\* The loop goes round, the tasks run, the timer fires, what is deferred to
\* the USB task takes its turn among what the host sends, and a host that
\* keeps the driver busy makes its frames stale.
Usb  == Drain \/ RecvPost \/ RecvDrops
Fairness ==
  /\ WF_vars(Poll) /\ WF_vars(Transmit /\ tx.at # "idle") /\ WF_vars(Usb) /\ WF_vars(lwip)
  /\ WF_vars(retryDrain) /\ SF_vars(DrainEnter) /\ SF_vars(DrainOne)
Spec == Init /\ [][Next]_vars /\ Fairness

-----------------------------------------------------------------------------
\* Nothing is freed under whoever still uses it: a transmit, a drain or a
\* receive in progress, or a frame on its way through lwIP; and there is never
\* a second interface over the first (UsbNcm.cpp:465, stepStop).
NothingFreedInUse ==
  /\ tx.hold \notin freed /\ usb.hold \notin freed
  /\ \A i \in 1..Len(mailbox) : mailbox[i] \notin freed
  /\ netif # 0 => stopping = 0

\* A frame in the ring of a link that stays up goes out or is dropped.
QueueMoves == queue # <<>> ~> queue = <<>> \/ ~up

\* Switched off, the link is taken apart to its end and its memory given back.
GivenBack == ~enabled ~> enabled \/ (netif = 0 /\ stop = "idle" /\ phase = "disabled")
UsbConcludes == QueueMoves /\ GivenBack
=============================================================================
