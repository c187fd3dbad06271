---------------------------- MODULE MCSerial ----------------------------
(* The wired ports on small instances: the link's queue and its reader, the *)
(* framing, the arbiter that tells PPP from typing, the port they share;    *)
(* and the USB network link. A run explores one of them.                    *)
EXTENDS UartLink

\* The empty frame never happens; one is longer than the MTU.
SomeFrames == {<<1>>, <<1, 0>>, <<0, 1, 1>>, <<0, 0, 1, 1>>}

VARIABLE part   \* the component that runs

-----------------------------------------------------------------------------
\* Hdlc
\* Bytes that need an escape, bytes an escape turns into them, and a plain one;
\* one frame is longer than the buffer.
FramesOfBytes == {<<126>>, <<125, 93>>, <<94, 126, 65>>, <<65, 65, 65, 125>>}
VARIABLES
  buf, inFrame, escaped, overflow, delivered, sending, toSend, clean, faults, frames
H == INSTANCE Hdlc WITH
  Frames <- FramesOfBytes, Noise <- {126, 125, 93, 65}, Mtu <- 3, MaxFaults <- 3,
  MaxFrames <- 3
hdlcVars == <<
  buf, inFrame, escaped, overflow, delivered, sending, toSend, clean, faults, frames>>

-----------------------------------------------------------------------------
\* PppArbiter
\* The first bytes of a Configure-Request, with and without the address and
\* control field; flag, escape, those bytes, one of them as it comes escaped
\* (33 is 1 escaped and 1 is 33), and a letter.
Configure == {<<255, 3, 192, 33, 1>>, <<192, 33, 1>>}
VARIABLES
  arbiterOwner, allow, held, decoded, esc, routed
B == INSTANCE PppArbiter WITH
  Bytes <- {126, 125, 255, 3, 192, 33, 1, 35, 65}, HoldMax <- 16, Requests <- Configure,
  owner <- arbiterOwner
arbiterVars == <<
  arbiterOwner, allow, held, decoded, esc, routed>>

-----------------------------------------------------------------------------
\* PppPort
\* A request of one byte stands for both forms: the forms are the arbiter's
\* question.
VARIABLES
  portOwner, portAllow, portHeld, portDecoded, portEsc, portRouted, want, enabled, closing,
  tearing, netif, failed, teardown, portAlive, stopReader, portReader, port, started,
  stopping, dead, muted, stream, loop, session, deaths, silent, overdue, late, host, flips,
  sessions
P == INSTANCE PppPort WITH
  Bytes <- {126, 192}, HoldMax <- 2, Requests <- {<<192>>}, MaxFlips <- 3, MaxSessions <- 2,
  MaxEvents <- 4, BuildFails <- TRUE, owner <- portOwner, allow <- portAllow,
  held <- portHeld, decoded <- portDecoded, esc <- portEsc, routed <- portRouted,
  alive <- portAlive, reader <- portReader
portVars == <<
  portOwner, portAllow, portHeld, portDecoded, portEsc, portRouted, want, enabled, closing,
  tearing, netif, failed, teardown, portAlive, stopReader, portReader, port, started,
  stopping, dead, muted, stream, loop, session, deaths, silent, overdue, late, host, flips,
  sessions>>

-----------------------------------------------------------------------------
\* UsbLink
VARIABLES
  usbEnabled, mounted, usbFlips, usbNetif, usbSlots, usbUp, sEnabled, sMounted, usbFailed,
  usbStop, usbStopping, freed, usbAsked, seen, mailbox, builds, phase, tx, usb, ringUsers,
  netifUsers, usbQueue, deferred, retry, usbFrames, lost
U == INSTANCE UsbLink WITH
  kTxSlots <- 2, Mailbox <- 2, MaxBuilds <- 2, MaxFrames <- 2, MaxFlips <- 2, MaxLost <- 0,
  enabled <- usbEnabled, flips <- usbFlips, netif <- usbNetif, slots <- usbSlots,
  up <- usbUp, failed <- usbFailed, stop <- usbStop, stopping <- usbStopping,
  asked <- usbAsked, queue <- usbQueue, frames <- usbFrames
usbVars == <<
  usbEnabled, mounted, usbFlips, usbNetif, usbSlots, usbUp, sEnabled, sMounted, usbFailed,
  usbStop, usbStopping, freed, usbAsked, seen, mailbox, builds, phase, tx, usb, ringUsers,
  netifUsers, usbQueue, deferred, retry, usbFrames, lost>>

-----------------------------------------------------------------------------
\* One component runs; the others stay where one of their runs begins.
AllInit ==
  /\ part \in {"link", "hdlc", "arbiter", "port", "usb"}
  /\ Init
  /\ H!Init
  /\ B!ArbiterInit
  /\ P!Init
  /\ U!Init /\ (part # "usb" => usbEnabled)
AllNext ==
  \/ part = "link" /\ Next /\ UNCHANGED <<part, hdlcVars, arbiterVars, portVars, usbVars>>
  \/ part = "hdlc" /\ H!Next /\ UNCHANGED <<part, vars, arbiterVars, portVars, usbVars>>
  \/ part = "arbiter" /\ B!ArbiterNext /\ UNCHANGED <<part, vars, hdlcVars, portVars, usbVars>>
  \/ part = "port" /\ P!Next /\ UNCHANGED <<part, vars, hdlcVars, arbiterVars, usbVars>>
  \/ part = "usb" /\ U!Next /\ UNCHANGED <<part, vars, hdlcVars, arbiterVars, portVars>>
AllSpec ==
  /\ AllInit /\ [][AllNext]_<<part, vars, hdlcVars, arbiterVars, portVars, usbVars>>
  /\ WF_vars(part = "link" /\ Reader)
  /\ WF_vars(part = "link" /\ EndWaited)
  /\ WF_vars(part = "link" /\ EndReleases)
  /\ WF_vars(part = "link" /\ (owner = "again" /\ End))
  /\ WF_portVars(part = "port" /\ (loop # "down" /\ P!Poll))
  /\ WF_portVars(part = "port" /\ P!ShutdownDone)
  /\ WF_portVars(part = "port" /\ (loop # "down" /\ (P!Reader \/ P!Bridge)))
  /\ SF_portVars(part = "port" /\ (loop # "down" /\ P!EndOfRead))
  /\ WF_portVars(part = "port" /\ (loop # "down" /\ P!DeadEvent))
  /\ WF_portVars(part = "port" /\ (loop # "down" /\ P!Overdue))
  /\ WF_portVars(part = "port" /\ (loop # "down" /\ P!Silence))
  /\ WF_usbVars(part = "usb" /\ U!Poll)
  /\ WF_usbVars(part = "usb" /\ (U!Transmit /\ tx.at # "idle"))
  /\ WF_usbVars(part = "usb" /\ U!Usb)
  /\ WF_usbVars(part = "usb" /\ U!lwip)
  /\ WF_usbVars(part = "usb" /\ U!retryDrain)
  /\ SF_usbVars(part = "usb" /\ U!DrainEnter)
  /\ SF_usbVars(part = "usb" /\ U!DrainOne)

-----------------------------------------------------------------------------
\* Of Hdlc: a frame that arrives whole is delivered, whatever came before it.
Resynchronises == H!Resynchronises

\* Of PppArbiter: what opens no session reaches the console, in order.
NothingTypedIsLost == B!NothingTypedIsLost

\* Of PppPort: the reader, the console and the log never share the port, and
\* switched off or with its host gone it is the console's again.
PortShared == [](part = "port" => P!PortShared) /\ (part = "port" => P!GivenBack /\ P!NotHeldByTheDead)

\* Of UsbLink: nothing is freed under whoever uses it, what waits for the host
\* moves, and a link that is switched off is taken apart to its end.  Of
\* UartLink: so does an end() that has asked its reader to go.
LinksConclude ==
  /\ [](part = "usb" => U!NothingFreedInUse) /\ (part = "usb" => U!UsbConcludes)
  /\ part = "link" => EndCompletes
=============================================================================
