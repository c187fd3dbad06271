-------------------------------- MODULE Hdlc --------------------------------
(***************************************************************************)
(* The byte framing of every stream link (src/src/net/HDLC.h): frame() puts *)
(* a frame between two flags with its flags and escapes escaped, Deframer   *)
(* takes the stream apart again a byte at a time.  The wire between the two *)
(* loses bytes, adds noise and cuts a frame short; the deframer starts in   *)
(* the middle of whatever is passing.                                       *)
(***************************************************************************)
EXTENDS Integers, Sequences

CONSTANTS
  Frames,        \* what is sent, sequences of bytes
  Noise,         \* the bytes a wire may put in
  Mtu,           \* RNS_MTU: the deframer's buffer
  MaxFaults,     \* bound: bytes lost or added in one behaviour
  MaxFrames      \* bound: frames sent in one behaviour

FLAG == 126
ESC  == 125
\* b ^ ESC_MASK, for the bytes that occur: it flips the bit worth 32.
Masked(b) == IF (b \div 32) % 2 = 0 THEN b + 32 ELSE b - 32

VARIABLES
  buf, inFrame, escaped, overflow,     \* the Deframer
  delivered,     \* the frame the last byte completed, or <<>>
  sending,       \* the frame being sent
  toSend,        \* its bytes still to go, flags included
  clean,         \* since the last flag that arrived, only what was sent arrived, all of it
  faults, frames

deframer == <<buf, inFrame, escaped, overflow>>
vars == <<deframer, delivered, sending, toSend, clean, faults, frames>>

-----------------------------------------------------------------------------
\* frame()

Escape(b) == IF b \in {FLAG, ESC} THEN <<ESC, Masked(b)>> ELSE <<b>>

Framed(f) ==
  LET bytes[i \in 0..Len(f)] ==
        IF i = 0 THEN <<>> ELSE bytes[i - 1] \o Escape(f[i])
  IN  <<FLAG>> \o bytes[Len(f)] \o <<FLAG>>

-----------------------------------------------------------------------------
\* Deframer::feed: what one byte does to it.

\* Mutant: an escape that was the last byte before a flag is remembered.
FlagKeepsEscape ==
  /\ delivered' = IF inFrame /\ ~overflow THEN buf ELSE <<>>
  /\ buf' = <<>>
  /\ inFrame' = TRUE /\ overflow' = FALSE
  /\ UNCHANGED escaped

Flag ==
  /\ delivered' = IF inFrame /\ ~overflow THEN buf ELSE <<>>
  /\ buf' = <<>>
  /\ inFrame' = TRUE /\ escaped' = FALSE /\ overflow' = FALSE

Outside == delivered' = <<>> /\ UNCHANGED deframer

Escaped == /\ escaped' = TRUE
           /\ delivered' = <<>>
           /\ UNCHANGED <<buf, inFrame, overflow>>

Byte(b) ==
  /\ escaped' = FALSE
  /\ IF Len(buf) >= Mtu
     THEN overflow' = TRUE /\ UNCHANGED buf
     ELSE buf' = Append(buf, IF escaped THEN Masked(b) ELSE b) /\ UNCHANGED overflow
  /\ delivered' = <<>>
  /\ UNCHANGED inFrame

Feed(b) ==
  \/ b = FLAG /\ Flag
  \/ b # FLAG /\ ~inFrame /\ Outside
  \/ b = ESC /\ inFrame /\ Escaped
  \/ b \notin {FLAG, ESC} /\ inFrame /\ Byte(b)

-----------------------------------------------------------------------------
\* The wire.

\* A frame is sent when the one before it is out; a cut drops the rest of it.
Start ==
  /\ toSend = <<>> /\ frames < MaxFrames
  /\ \E f \in Frames: sending' = f /\ toSend' = Framed(f)
  /\ frames' = frames + 1
  /\ delivered' = <<>>
  /\ UNCHANGED <<deframer, clean, faults>>

\* One byte gets through.
Pass ==
  /\ toSend # <<>>
  /\ Feed(Head(toSend))
  /\ toSend' = Tail(toSend)
  /\ clean' = (clean \/ Head(toSend) = FLAG)
  /\ UNCHANGED <<sending, faults, frames>>

\* One is lost: the frame it belonged to, and the one after when it was the flag
\* between them, are damaged.
Lose ==
  /\ toSend # <<>> /\ faults < MaxFaults
  /\ toSend' = Tail(toSend)
  /\ clean' = FALSE
  /\ faults' = faults + 1
  /\ delivered' = <<>>
  /\ UNCHANGED <<deframer, sending, frames>>

\* One arrives that nobody sent.  A flag closes what was coming, and what
\* follows it is the rest of a frame, not a frame.
Disturb ==
  /\ faults < MaxFaults
  /\ \E b \in Noise: Feed(b)
  /\ clean' = FALSE
  /\ faults' = faults + 1
  /\ UNCHANGED <<sending, toSend, frames>>

Init ==
  /\ buf = <<>> /\ inFrame = FALSE /\ escaped = FALSE /\ overflow = FALSE
  /\ delivered = <<>> /\ sending = <<>> /\ toSend = <<>> /\ clean = FALSE
  /\ faults = 0 /\ frames = 0

Next == Start \/ Pass \/ Lose \/ Disturb

Spec == Init /\ [][Next]_vars

-----------------------------------------------------------------------------
\* What it promises.

\* Whatever went before -- noise, a lost escape, a frame too long, half a
\* frame -- one that itself arrives whole is delivered as it was sent when its
\* closing flag arrives, and one longer than the buffer is not delivered at all.
Resynchronises ==
  [][(Pass /\ clean /\ toSend = <<FLAG>>) =>
       delivered' = IF Len(sending) <= Mtu THEN sending ELSE <<>>]_vars
=============================================================================
