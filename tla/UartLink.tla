------------------------------ MODULE UartLink ------------------------------
(***************************************************************************)
(* The serial link (src/src/net/UartLink.cpp) with its transmit queue       *)
(* (src/src/net/UartTxQueue.h).  One task of the node starts and ends the   *)
(* link, any task sends, and the link's own task reads the port, takes one  *)
(* frame a pass off the queue and writes it.  The queue's memory exists     *)
(* only while the link is up, so every order of starting, sending, reading  *)
(* and ending must leave the reader with memory to read.                    *)
(*                                                                         *)
(* What arrives on the wire is not here: the deframer is in Hdlc.tla.       *)
(***************************************************************************)
EXTENDS Integers, Sequences, TLAPS

CONSTANTS
  Frames,        \* the frames a caller may send, sequences of bytes
  Mtu,           \* RNS_MTU: the reader's buffer and the longest frame sent
  Cap,           \* SERIAL_LINK_TX_BYTES
  SlotCap,       \* SERIAL_LINK_TX_FRAMES
  Bauds,         \* the speeds a caller may ask for
  Usable,        \* the ones the board is qualified at
  Retries        \* TRUE: after an end() that timed out the caller only calls end() again

ASSUME SizesAssumption == {Mtu, Cap, SlotCap} \subseteq Nat \ {0}
ASSUME FramesAssumption == Frames \subseteq Seq(Nat)

VARIABLES
  \* UartTxQueue: memory and bookkeeping
  cells,         \* the arena, Cap bytes; <<>> when the memory is not allocated
  attached,      \* the queue has been given the memory
  slots,         \* the frame table: [off, len] by index
  head, tail, depth, used,
  \* the link
  up, stop, alive, baud,         \* sUp, sStop, sTaskAlive, sBaud
  reader,        \* the task: "none", "top" or "popped"
  out,           \* the frame the reader took off the queue last
  owner,         \* where the task that owns the link is in begin() or end()
  asked          \* the baud of the begin() under way

queue == <<cells, attached, slots, head, tail, depth, used>>
link  == <<up, stop, alive, baud>>
vars  == <<queue, link, reader, out, owner, asked>>

-----------------------------------------------------------------------------
\* The queue.

Gone == <<>>                     \* memory that is not there
NoSlot == [off |-> 0, len |-> 0]
Fresh == [i \in 0..(Cap - 1) |-> 0]

\* Mutant: the next frame goes behind as many bytes as wait, not behind the last.
HeadByteByUse == used % Cap

\* _headByte: behind the last frame, or the start of an empty arena
HeadByte == IF depth = 0 THEN 0
            ELSE LET last == slots[(tail + SlotCap - 1) % SlotCap]
                 IN  (last.off + last.len) % Cap

\* The cells a frame at off takes, and the frame read back from them.
Cell(off, i) == (off + i - 1) % Cap
ReadWrapped(s) == [i \in 1..s.len |-> cells[Cell(s.off, i)]]
WriteWrapped(off, f) ==
  [c \in DOMAIN cells |->
     LET i == ((c - off + Cap) % Cap) + 1 IN IF i <= Len(f) THEN f[i] ELSE cells[c]]

Room(f) == attached /\ f # <<>> /\ depth < SlotCap /\ used + Len(f) <= Cap

Push(f) ==
  /\ Room(f)
  /\ cells' = WriteWrapped(HeadByte, f)
  /\ slots' = [slots EXCEPT ![tail] = [off |-> HeadByte, len |-> Len(f)]]
  /\ tail' = (tail + 1) % SlotCap
  /\ depth' = depth + 1
  /\ used' = used + Len(f)
  /\ UNCHANGED <<attached, head>>

\* The oldest frame; one longer than the caller's buffer is dropped instead.
Pop ==
  /\ attached /\ depth > 0
  /\ out' = IF slots[head].len > Mtu THEN <<>> ELSE ReadWrapped(slots[head])
  /\ head' = (head + 1) % SlotCap
  /\ depth' = depth - 1
  /\ used' = used - slots[head].len
  /\ UNCHANGED <<cells, attached, slots, tail>>

NothingQueued == head' = 0 /\ tail' = 0 /\ depth' = 0 /\ used' = 0
Attach == attached' = TRUE /\ NothingQueued
Detach == attached' = FALSE /\ NothingQueued

-----------------------------------------------------------------------------
\* begin() and end(), on the owner's task.  Each label is a point at which
\* another task can run in between.

Idle == owner = "idle"

\* Already up: a no-op for the same speed, a refusal for another.  The reader
\* of an earlier link that has not gone: a refusal.
BeginRefused(b) ==
  /\ Idle
  /\ up \/ alive \/ b \notin Usable
  /\ owner' = IF up /\ b = baud THEN "yes" ELSE "no"
  /\ UNCHANGED <<queue, link, reader, out, asked>>

\* The memory, or a refusal when there is none; then the queue gets it.
Begin(b) ==
  /\ Idle /\ ~up /\ ~alive /\ b \in Usable
  /\ \/ owner' = "no" /\ UNCHANGED queue
     \/ /\ cells' = Fresh
        /\ slots' = [i \in 0..(SlotCap - 1) |-> NoSlot]
        /\ Attach
        /\ owner' = "port"
  /\ asked' = b
  /\ UNCHANGED <<link, reader, out>>

\* The memory is given back and the link is not up.
Release == Detach /\ cells' = Gone /\ slots' = Gone

\* The port would not start, or the task would not: everything back.
BeginFails ==
  /\ owner \in {"port", "task"}
  /\ Release
  /\ alive' = FALSE
  /\ owner' = "no"
  /\ UNCHANGED <<up, stop, baud, reader, out, asked>>

\* The flag is raised before the task can run, so that an end() cannot miss it.
PortStarted ==
  /\ owner = "port"
  /\ stop' = FALSE /\ baud' = asked /\ alive' = TRUE
  /\ owner' = "task"
  /\ UNCHANGED <<queue, up, reader, out, asked>>

StartTask ==
  /\ owner = "task"
  /\ reader' = "top"
  /\ owner' = "started"
  /\ UNCHANGED <<queue, link, out, asked>>

Started ==
  /\ owner = "started"
  /\ up' = TRUE
  /\ owner' = "yes"
  /\ UNCHANGED <<queue, stop, alive, baud, reader, out, asked>>

\* end() of a link that is down answers at once; else it asks the reader to go.
End ==
  /\ Idle \/ owner = "again"
  /\ IF up THEN stop' = TRUE /\ owner' = "waiting" ELSE owner' = "yes" /\ UNCHANGED stop
  /\ UNCHANGED <<queue, up, alive, baud, reader, out, asked>>

\* The reader went in time.
EndWaited ==
  /\ owner = "waiting" /\ ~alive
  /\ up' = FALSE
  /\ owner' = "release"
  /\ UNCHANGED <<queue, stop, alive, baud, reader, out, asked>>

\* It did not inside a second: nothing is freed, and end() says so.
EndTimesOut ==
  /\ owner = "waiting" /\ alive
  /\ owner' = IF Retries THEN "again" ELSE "no"
  /\ UNCHANGED <<queue, link, reader, out, asked>>

EndReleases ==
  /\ owner = "release"
  /\ Release
  /\ baud' = 0
  /\ owner' = "yes"
  /\ UNCHANGED <<up, stop, alive, reader, out, asked>>

Answered == owner \in {"yes", "no"} /\ owner' = "idle"
            /\ UNCHANGED <<queue, link, reader, out, asked>>

-----------------------------------------------------------------------------
\* The reader's pass, and a sender on any other task.

Reading == reader # "none"

\* The top of the loop: asked to go, it lowers its flag and deletes itself.
Leave ==
  /\ reader = "top" /\ stop
  /\ reader' = "none"
  /\ alive' = FALSE
  /\ UNCHANGED <<queue, up, stop, baud, out, owner, asked>>

\* One frame a pass, taken under the lock.  A pass with nothing waiting, or
\* one whose sink throws, changes nothing.
Take ==
  /\ reader = "top" /\ ~stop
  /\ Pop
  /\ reader' = "popped"
  /\ UNCHANGED <<link, owner, asked>>

Write ==
  /\ reader = "popped"
  /\ reader' = "top"
  /\ UNCHANGED <<queue, link, out, owner, asked>>

\* A frame longer than the MTU is refused here; the rest is the queue's to take.
Send(f) ==
  /\ up /\ Len(f) <= Mtu
  /\ Push(f)
  /\ UNCHANGED <<link, reader, out, owner, asked>>

-----------------------------------------------------------------------------
Init ==
  /\ cells = Gone /\ slots = Gone /\ attached = FALSE
  /\ head = 0 /\ tail = 0 /\ depth = 0 /\ used = 0
  /\ up = FALSE /\ stop = FALSE /\ alive = FALSE /\ baud = 0
  /\ reader = "none" /\ out = <<>>
  /\ owner = "idle" /\ asked = 0

Owner == \/ \E b \in Bauds: BeginRefused(b) \/ Begin(b)
         \/ BeginFails \/ PortStarted \/ StartTask \/ Started
         \/ End \/ EndWaited \/ EndTimesOut \/ EndReleases \/ Answered
Reader == Leave \/ Take \/ Write

Next == Owner \/ Reader \/ \E f \in Frames: Send(f)

Spec == Init /\ [][Next]_vars

\* The reader's loop and the owner's calls run on; nobody need send.
FairSpec == Spec /\ WF_vars(Reader)
            /\ WF_vars(EndWaited) /\ WF_vars(EndReleases) /\ WF_vars(owner = "again" /\ End)

-----------------------------------------------------------------------------
\* What it promises.

\* The reader never runs on memory that has been given back, and there is
\* never a queue over memory that is gone: the "one ordering here that can
\* crash a node".  A reader is always announced before it runs.
MemoryOutlivesReader ==
  /\ Reading => alive /\ cells # Gone
  /\ attached => cells # Gone
  /\ cells = Gone => ~up

\* A link said to be up has a reader that will serve it.
UpIsServed == owner = "yes" /\ up => alive /\ ~stop

\* So nothing the reader uses goes away under it, and "up" is never a word only.
LinkSafe == MemoryOutlivesReader /\ UpIsServed

\* The queue is a queue: seen from outside the arena and the slots are a
\* sequence of frames, and one that send() took is never dropped short of end().
Waiting == [i \in 1..depth |-> ReadWrapped(slots[(head + i - 1) % SlotCap])]
F == INSTANCE Fifo WITH open <- attached, waiting <- Waiting, wire <- out
IsAFifo == F!Spec
QueueIsServed == []LinkSafe /\ IsAFifo

\* An end() that has asked the reader to go completes, however long it takes.
EndCompletes == (owner = "waiting" /\ Retries) ~> cells = Gone

-----------------------------------------------------------------------------
(* The invariant behind QueueIsServed.                                     *)

\* Where begin() and end() may be found, with the memory, the flags and the
\* reader as they are then.
Below == ~up /\ ~alive /\ reader = "none"
Serving == up /\ (reader # "none" <=> alive) /\ (~alive => stop)
Phase ==
  /\ reader \in {"none", "top", "popped"}
  /\ attached <=> up \/ owner \in {"port", "task", "started", "release"}
  /\ CASE owner \in {"port", "release"} -> Below
       [] owner = "task"    -> ~up /\ ~stop /\ alive /\ reader = "none"
       [] owner = "started" -> ~up /\ ~stop /\ alive /\ reader # "none"
       [] owner \in {"waiting", "again"} -> Serving /\ stop
       [] owner \in {"idle", "yes", "no"} -> Below \/ Serving
       [] OTHER -> FALSE
\* With callers that call end() again, one that timed out is the only way to a
\* link that is up and asked to go.
Asked == Retries /\ up /\ stop => owner \in {"waiting", "again"}

Slots == [off : 0 .. Cap - 1, len : 1 .. Mtu]
\* The i-th frame that waits, and its place in the table.
At(i) == (head + i - 1) % SlotCap
Memory ==
  IF attached THEN cells \in [0 .. Cap - 1 -> Nat] /\ DOMAIN slots = 0 .. SlotCap - 1
  ELSE cells = Gone /\ slots = Gone /\ depth = 0 /\ used = 0 /\ head = 0 /\ tail = 0
Table ==
  /\ head \in 0 .. SlotCap - 1 /\ depth \in 0 .. SlotCap /\ tail = (head + depth) % SlotCap
  /\ used \in 0 .. Cap
  /\ \A i \in 1 .. depth : slots[At(i)] \in Slots

\* The frames lie end to end round the arena from byte o on, the i-th of them
\* p[i] bytes behind it, and all of them within one round.
Layout(o, p) ==
  /\ o \in 0 .. Cap - 1 /\ p \in [1 .. depth + 1 -> 0 .. Cap]
  /\ p[1] = 0 /\ p[depth + 1] = used /\ \A i, j \in 1 .. depth + 1 : i <= j => p[i] <= p[j]
  /\ \A i \in 1 .. depth : /\ slots[At(i)].off = (o + p[i]) % Cap
                           /\ p[i + 1] = p[i] + slots[At(i)].len
Laid == \E o \in 0 .. Cap - 1, p \in [1 .. depth + 1 -> 0 .. Cap] : Layout(o, p)
Ring == Memory /\ Table /\ Laid
LInv == Phase /\ Asked /\ Ring

-----------------------------------------------------------------------------
(* Lemmas about going round, for the arena and for the table.               *)

LEMMA Round ==
  ASSUME NEW C \in Nat \ {0}
  PROVE  \A x \in 0 .. 2 * C - 1 : x % C = (IF x < C THEN x ELSE x - C) /\ x % C \in 0 .. C - 1
OBVIOUS

LEMMA RoundOn ==
  ASSUME NEW C \in Nat \ {0}, NEW x \in 0 .. 2 * C - 1, NEW y \in 0 .. C, x + y <= 2 * C - 1
  PROVE  ((x % C) + y) % C = (x + y) % C
<1>0. \A z \in 0 .. 2 * C - 1 : z % C = (IF z < C THEN z ELSE z - C) /\ z % C \in 0 .. C - 1
  BY Round
<1>1. x % C = IF x < C THEN x ELSE x - C
  BY <1>0
<1>2. (x + y) % C = IF x + y < C THEN x + y ELSE x + y - C
  BY <1>0
<1>3. (x % C) + y \in 0 .. 2 * C - 1
  BY <1>1
<1>4. ((x % C) + y) % C = IF (x % C) + y < C THEN (x % C) + y ELSE (x % C) + y - C
  BY <1>0, <1>3
<1> QED
  BY <1>1, <1>2, <1>4

LEMMA RoundBack ==
  ASSUME NEW C \in Nat \ {0}, NEW x \in 1 .. 2 * C - 1
  PROVE  ((x % C) + C - 1) % C = (x - 1) % C
<1>0. \A z \in 0 .. 2 * C - 1 : z % C = (IF z < C THEN z ELSE z - C) /\ z % C \in 0 .. C - 1
  BY Round
<1>1. x % C = IF x < C THEN x ELSE x - C
  BY <1>0
<1>2. (x - 1) % C = IF x - 1 < C THEN x - 1 ELSE x - 1 - C
  BY <1>0
<1>3. (x % C) + C - 1 \in 0 .. 2 * C - 1
  BY <1>1
<1>4. ((x % C) + C - 1) % C = IF (x % C) + C - 1 < C THEN (x % C) + C - 1 ELSE (x % C) + C - 1 - C
  BY <1>0, <1>3
<1> QED
  BY <1>1, <1>2, <1>4

\* The i-th cell from off on is the i-th cell from off on.
LEMMA ThereAndBack ==
  ASSUME NEW C \in Nat \ {0}, NEW off \in 0 .. C - 1, NEW i \in 1 .. C
  PROVE  ((((off + i - 1) % C) - off + C) % C) + 1 = i
<1>0. \A z \in 0 .. 2 * C - 1 : z % C = (IF z < C THEN z ELSE z - C) /\ z % C \in 0 .. C - 1
  BY Round
<1>1. (off + i - 1) % C = IF off + i - 1 < C THEN off + i - 1 ELSE off + i - 1 - C
  BY <1>0
<1> DEFINE x == ((off + i - 1) % C) - off + C
<1>2. x \in 0 .. 2 * C - 1 /\ (x = i - 1 + C \/ x = i - 1)
  BY <1>1
<1> HIDE DEF x
<1>3. x % C = IF x < C THEN x ELSE x - C
  BY <1>0, <1>2
<1>4. (x % C) + 1 = i
  BY <1>2, <1>3
<1> QED
  BY <1>4 DEF x

\* n cells behind u that are taken are none of those, while all fit.
LEMMA BehindIsFree ==
  ASSUME NEW C \in Nat \ {0}, NEW o \in 0 .. C - 1, NEW u \in 0 .. C, NEW n \in Nat, u + n <= C, NEW q \in 0 .. u - 1
  PROVE  ~ (((((o + q) % C) - ((o + u) % C) + C) % C) + 1 <= n)
<1>0. \A z \in 0 .. 2 * C - 1 : z % C = (IF z < C THEN z ELSE z - C) /\ z % C \in 0 .. C - 1
  BY Round
<1>1. (o + q) % C = (IF o + q < C THEN o + q ELSE o + q - C) /\ (o + q) % C \in 0 .. C - 1
  BY <1>0
<1>2. (o + u) % C = (IF o + u < C THEN o + u ELSE o + u - C) /\ (o + u) % C \in 0 .. C - 1
  BY <1>0
<1> DEFINE x == ((o + q) % C) - ((o + u) % C) + C
<1>3. x \in 0 .. 2 * C - 1 /\ (x = q - u + C \/ x = q - u + 2 * C)
  BY <1>1, <1>2
<1> HIDE DEF x
<1>4. x % C = IF x < C THEN x ELSE x - C
  BY <1>0, <1>3
<1>5. ~ ((x % C) + 1 <= n)
  BY <1>3, <1>4
<1> QED
  BY <1>5 DEF x

-----------------------------------------------------------------------------
(* The queue: what push() and pop() do to the frames that wait.             *)

LEMMA Sizes == Cap \in Nat \ {0} /\ SlotCap \in Nat \ {0} /\ Mtu \in Nat \ {0}
  BY SizesAssumption

\* The table's places for the frames that wait are places of the table, and none
\* of them is the next one to be taken.
LEMMA Places ==
  ASSUME Table
  PROVE  /\ \A i \in 1 .. depth : At(i) \in 0 .. SlotCap - 1 /\ (depth < SlotCap => At(i) # tail)
         /\ depth > 0 => (tail + SlotCap - 1) % SlotCap = At(depth)
         /\ tail \in 0 .. SlotCap - 1
<1>1. /\ SlotCap \in Nat \ {0} /\ head \in 0 .. SlotCap - 1 /\ depth \in 0 .. SlotCap
      /\ tail = (head + depth) % SlotCap
  BY Sizes DEF Table
<1>2. \A z \in 0 .. 2 * SlotCap - 1 : z % SlotCap = (IF z < SlotCap THEN z ELSE z - SlotCap) /\ z % SlotCap \in 0 .. SlotCap - 1
  BY <1>1, Round
<1>3. tail = (IF head + depth < SlotCap THEN head + depth ELSE head + depth - SlotCap) /\ tail \in 0 .. SlotCap - 1
  BY <1>1, <1>2
<1>4. ASSUME NEW i \in 1 .. depth PROVE At(i) \in 0 .. SlotCap - 1 /\ (depth < SlotCap => At(i) # tail)
  <2>1. At(i) = (IF head + i - 1 < SlotCap THEN head + i - 1 ELSE head + i - 1 - SlotCap) /\ At(i) \in 0 .. SlotCap - 1
    BY <1>1, <1>2 DEF At
  <2> QED
    BY <1>1, <1>3, <2>1
<1>5. ASSUME depth > 0 PROVE (tail + SlotCap - 1) % SlotCap = At(depth)
  <2>1. head + depth \in 1 .. 2 * SlotCap - 1
    BY <1>1, <1>5
  <2>2. (((head + depth) % SlotCap) + SlotCap - 1) % SlotCap = (head + depth - 1) % SlotCap
    BY <1>1, <2>1, RoundBack
  <2> QED
    BY <1>1, <2>2 DEF At
<1> QED
  BY <1>3, <1>4, <1>5

\* The next frame is put behind the last byte that waits.
LEMMA HeadIsBehind ==
  ASSUME Table, Laid
  PROVE  \E o \in 0 .. Cap - 1, p \in [1 .. depth + 1 -> 0 .. Cap] : Layout(o, p) /\ HeadByte = (o + used) % Cap
<1>0. Cap \in Nat \ {0} /\ depth \in Nat /\ used \in 0 .. Cap
  BY Sizes DEF Table
<1>1. PICK o \in 0 .. Cap - 1, p \in [1 .. depth + 1 -> 0 .. Cap] : Layout(o, p)
  BY DEF Laid
<1>2. CASE depth = 0
  <2>1. p[1] = 0 /\ used = 0 /\ HeadByte = 0
    BY <1>1, <1>2 DEF Layout, HeadByte
  <2>2. (0 + 0) % Cap = 0 /\ 0 \in 0 .. Cap - 1
    BY <1>0, Round
  <2>3. Layout(0, p)
    BY <1>1, <1>2, <2>2 DEF Layout
  <2> QED
    BY <1>1, <2>1, <2>2, <2>3
<1>3. CASE depth > 0
  <2> DEFINE last == slots[At(depth)]
  <2>1. /\ last.off = (o + p[depth]) % Cap /\ p[depth + 1] = p[depth] + last.len /\ p[depth + 1] = used
        /\ p[depth] \in 0 .. Cap /\ last \in Slots
    <3>1. depth \in 1 .. depth /\ depth \in 1 .. depth + 1
      BY <1>0, <1>3
    <3>2. last.off = (o + p[depth]) % Cap /\ p[depth + 1] = p[depth] + last.len /\ p[depth + 1] = used
      BY <1>1, <3>1 DEF Layout
    <3>3. last \in Slots
      BY <3>1 DEF Table
    <3> QED
      BY <3>1, <3>2, <3>3
  <2>2. last.len \in Nat
    BY <2>1, Sizes DEF Slots
  <2>3. HeadByte = (last.off + last.len) % Cap
    BY <1>3, Places DEF HeadByte
  <2> HIDE DEF last
  <2> DEFINE a == p[depth]
             l == last.len
  <2>4. a \in 0 .. Cap /\ l \in Nat /\ a + l = used
    BY <2>1, <2>2
  <2> HIDE DEF a, l
  <2>5. o + a \in 0 .. 2 * Cap - 1 /\ l \in 0 .. Cap /\ (o + a) + l = o + used /\ o + used <= 2 * Cap - 1
    BY <1>0, <2>4
  <2>6. (((o + a) % Cap) + l) % Cap = (o + used) % Cap
    BY <1>0, <2>5, RoundOn
  <2> QED
    BY <1>1, <2>1, <2>3, <2>6 DEF a, l
<1> QED
  BY <1>0, <1>2, <1>3

\* The cells of the frames that wait, seen from the byte the first begins at.
LEMMA CellsOf ==
  ASSUME Table, NEW o \in 0 .. Cap - 1, NEW p \in [1 .. depth + 1 -> 0 .. Cap], Layout(o, p),
         NEW i \in 1 .. depth, NEW k \in 1 .. slots[At(i)].len
  PROVE  \E q \in 0 .. used - 1 : Cell(slots[At(i)].off, k) = (o + q) % Cap
<1> DEFINE l == slots[At(i)].len
<1>0. Cap \in Nat \ {0} /\ depth \in Nat /\ used \in 0 .. Cap
  BY Sizes DEF Table
<1>1. /\ slots[At(i)].off = (o + p[i]) % Cap /\ p[i + 1] = p[i] + l /\ p[depth + 1] = used
      /\ p[i] \in 0 .. Cap /\ p[i + 1] \in 0 .. Cap /\ p[i + 1] <= p[depth + 1]
  BY <1>0 DEF Layout
<1>2. l \in Nat
  BY Sizes DEF Table, Slots
<1> HIDE DEF l
<1>3. k \in Nat \ {0} /\ k <= l
  BY <1>2 DEF l
<1> DEFINE a == p[i]
           b == p[i + 1]
           q == a + k - 1
<1>4. a \in 0 .. Cap /\ b \in 0 .. Cap /\ b = a + l /\ b <= used
  BY <1>1
<1> HIDE DEF a, b
<1>5. /\ q \in 0 .. used - 1 /\ o + a \in 0 .. 2 * Cap - 1 /\ k - 1 \in 0 .. Cap
      /\ (o + a) + (k - 1) = o + q /\ o + q <= 2 * Cap - 1
  BY <1>0, <1>2, <1>3, <1>4
<1>6. (((o + a) % Cap) + (k - 1)) % Cap = (o + q) % Cap
  BY <1>0, <1>5, RoundOn
<1>7. (o + a) % Cap \in Int
  BY <1>0, <1>5, Round
<1>8. (((o + a) % Cap) + (k - 1)) = ((o + a) % Cap) + k - 1
  BY <1>3, <1>7
<1>9. slots[At(i)].off = (o + a) % Cap
  BY <1>1 DEF a
<1> QED
  BY <1>5, <1>6, <1>8, <1>9 DEF Cell

\* A sequence given by its places, with one more at the end; and without its first.
LEMMA Appended ==
  ASSUME NEW n \in Nat, NEW g(_), NEW f
  PROVE  [i \in 1 .. n + 1 |-> IF i = n + 1 THEN f ELSE g(i)] = Append([i \in 1 .. n |-> g(i)], f)
<1> DEFINE s == [i \in 1 .. n |-> g(i)]
<1>1. Len(s) = n
  OBVIOUS
<1> QED
  OBVIOUS

LEMMA PushKeeps ==
  ASSUME Ring, NEW f \in Seq(Nat), Len(f) <= Mtu, Push(f)
  PROVE  Ring' /\ Waiting' = Append(Waiting, f)
<1> DEFINE n == Len(f)
           new == [off |-> HeadByte, len |-> n]
<1>1. /\ attached /\ depth < SlotCap /\ used + n <= Cap /\ n \in Nat \ {0} /\ n <= Mtu
      /\ cells \in [0 .. Cap - 1 -> Nat] /\ DOMAIN slots = 0 .. SlotCap - 1
      /\ Table /\ Laid /\ head \in 0 .. SlotCap - 1 /\ depth \in 0 .. SlotCap /\ used \in 0 .. Cap
      /\ Cap \in Nat \ {0} /\ SlotCap \in Nat \ {0} /\ Mtu \in Nat \ {0}
  BY Sizes DEF Ring, Memory, Table, Push, Room
<1>2. /\ cells' = WriteWrapped(HeadByte, f) /\ slots' = [slots EXCEPT ![tail] = new]
      /\ tail' = (tail + 1) % SlotCap /\ depth' = depth + 1 /\ used' = used + n
      /\ attached' = attached /\ head' = head
  BY DEF Push
<1>3. PICK o \in 0 .. Cap - 1, p \in [1 .. depth + 1 -> 0 .. Cap] : Layout(o, p) /\ HeadByte = (o + used) % Cap
  BY <1>1, HeadIsBehind
<1>4. HeadByte \in 0 .. Cap - 1
  <2>1. o + used \in 0 .. 2 * Cap - 1
    BY <1>1
  <2>2. (o + used) % Cap \in 0 .. Cap - 1
    BY <1>1, <2>1, Round
  <2> QED
    BY <1>3, <2>2
<1>5. /\ tail \in 0 .. SlotCap - 1 /\ slots'[tail] = new /\ At(depth + 1) = tail
      /\ \A i \in 1 .. depth : At(i) \in 0 .. SlotCap - 1 /\ slots'[At(i)] = slots[At(i)]
  <2>1. /\ tail \in 0 .. SlotCap - 1 /\ tail = (head + depth) % SlotCap
        /\ \A i \in 1 .. depth : At(i) \in 0 .. SlotCap - 1 /\ At(i) # tail
    BY <1>1, Places DEF Table
  <2>2. At(depth + 1) = tail
    BY <1>1, <2>1 DEF At
  <2> QED
    BY <1>1, <1>2, <2>1, <2>2
<1>6. new \in Slots /\ new.off = HeadByte /\ new.len = n
  BY <1>1, <1>4 DEF Slots
<1> HIDE DEF n, new
<1>7. \A i \in 1 .. depth + 1 : slots'[At(i)] = IF i = depth + 1 THEN new ELSE slots[At(i)]
  <2>1. TAKE i \in 1 .. depth + 1
  <2>2. i = depth + 1 \/ i \in 1 .. depth
    BY <1>1
  <2>3. i \in 1 .. depth => i # depth + 1
    BY <1>1
  <2> QED
    BY <1>5, <2>2, <2>3
<1>8. Memory'
  <2>1. \A c \in 0 .. Cap - 1 : ((c - HeadByte + Cap) % Cap) + 1 \in Nat \ {0}
    BY <1>1, <1>4
  <2>2. cells' \in [0 .. Cap - 1 -> Nat]
    <3>1. \A i \in Nat \ {0} : i <= Len(f) => f[i] \in Nat
      OBVIOUS
    <3>2. \A c \in 0 .. Cap - 1 : (LET i == ((c - HeadByte + Cap) % Cap) + 1 IN IF i <= Len(f) THEN f[i] ELSE cells[c]) \in Nat
      BY <1>1, <2>1, <3>1
    <3> QED
      BY <1>1, <1>2, <3>2 DEF WriteWrapped
  <2> QED
    BY <1>1, <1>2, <2>2 DEF Memory
<1>9. Table'
  <2>1. head + depth \in 0 .. 2 * SlotCap - 1 /\ 1 \in 0 .. SlotCap /\ (head + depth) + 1 <= 2 * SlotCap - 1
    BY <1>1
  <2>2. (((head + depth) % SlotCap) + 1) % SlotCap = ((head + depth) + 1) % SlotCap
    BY <1>1, <2>1, RoundOn
  <2>3. tail' = (head' + depth') % SlotCap
    BY <1>1, <1>2, <2>2 DEF Table
  <2>4. \A i \in 1 .. depth' : slots'[At(i)] \in Slots
    BY <1>1, <1>2, <1>6, <1>7 DEF Table
  <2>5. head' \in 0 .. SlotCap - 1 /\ depth' \in 0 .. SlotCap /\ used' \in 0 .. Cap
    BY <1>1, <1>2
  <2>6. \A i \in 1 .. depth' : slots'[At(i)'] \in Slots
    BY <1>2, <2>4 DEF At
  <2> QED
    BY <2>3, <2>5, <2>6 DEF Table
<1>10. Laid'
  <2> DEFINE r == [i \in 1 .. depth + 2 |-> IF i = depth + 2 THEN used + n ELSE p[i]]
  <2>1. /\ p[1] = 0 /\ p[depth + 1] = used /\ \A i, j \in 1 .. depth + 1 : i <= j => p[i] <= p[j]
        /\ \A i \in 1 .. depth : slots[At(i)].off = (o + p[i]) % Cap /\ p[i + 1] = p[i] + slots[At(i)].len
    BY <1>3 DEF Layout
  <2>2. r \in [1 .. depth + 2 -> 0 .. Cap] /\ r[1] = 0 /\ r[depth + 2] = used + n
    BY <1>1, <2>1
  <2>3. \A i \in 1 .. depth + 1 : r[i] = p[i] /\ p[i] \in 0 .. Cap
    BY <1>1
  <2> HIDE DEF r
  <2>4. \A i \in 1 .. depth + 1 : p[i] <= used
    BY <1>1, <2>1
  <2>5. \A i, j \in 1 .. depth + 2 : i <= j => r[i] <= r[j]
    <3>1. TAKE i, j \in 1 .. depth + 2
    <3>2. HAVE i <= j
    <3>3. CASE j = depth + 2
      <4>1. i = depth + 2 \/ i \in 1 .. depth + 1
        BY <1>1
      <4>2. used \in Nat /\ n \in Nat /\ r[j] = used + n
        BY <1>1, <2>2, <3>3
      <4>3. CASE i = depth + 2
        BY <3>3, <4>2, <4>3
      <4>4. CASE i \in 1 .. depth + 1
        <5>1. r[i] \in 0 .. Cap /\ r[i] <= used
          BY <2>3, <2>4, <4>4
        <5> QED
          BY <4>2, <5>1
      <4> QED
        BY <4>1, <4>3, <4>4
    <3>4. CASE j # depth + 2
      <4>1. j \in 1 .. depth + 1 /\ i \in 1 .. depth + 1
        BY <3>2, <3>4, <1>1
      <4> QED
        BY <3>2, <4>1, <2>1, <2>3
    <3> QED
      BY <3>3, <3>4
  <2>6. \A i \in 1 .. depth + 1 : slots'[At(i)].off = (o + r[i]) % Cap /\ r[i + 1] = r[i] + slots'[At(i)].len
    <3>1. TAKE i \in 1 .. depth + 1
    <3>2. CASE i = depth + 1
      <4>1. slots'[At(i)] = new /\ r[i] = used /\ r[i + 1] = used + n
        BY <3>2, <1>1, <1>7, <2>1, <2>2, <2>3
      <4> QED
        BY <4>1, <1>3, <1>6
    <3>3. CASE i # depth + 1
      <4>1. i \in 1 .. depth /\ i + 1 \in 1 .. depth + 1
        BY <3>3, <1>1
      <4>2. slots'[At(i)] = slots[At(i)] /\ r[i] = p[i] /\ r[i + 1] = p[i + 1]
        BY <4>1, <3>3, <1>7, <2>3
      <4> QED
        BY <4>1, <4>2, <2>1
    <3> QED
      BY <3>2, <3>3
  <2>7. depth' + 1 = depth + 2
    BY <1>1, <1>2
  <2>8. \A i \in 1 .. depth + 1 : slots'[At(i)'].off = (o + r[i]) % Cap /\ r[i + 1] = r[i] + slots'[At(i)'].len
    BY <1>2, <2>6 DEF At
  <2>9. /\ r \in [1 .. depth' + 1 -> 0 .. Cap] /\ r[1] = 0 /\ r[depth' + 1] = used'
        /\ \A i, j \in 1 .. depth' + 1 : i <= j => r[i] <= r[j]
        /\ \A i \in 1 .. depth' : slots'[At(i)'].off = (o + r[i]) % Cap /\ r[i + 1] = r[i] + slots'[At(i)'].len
    BY <1>2, <2>2, <2>5, <2>7, <2>8
  <2>10. PICK s \in [1 .. depth' + 1 -> 0 .. Cap] :
            /\ s[1] = 0 /\ s[depth' + 1] = used'
            /\ \A i, j \in 1 .. depth' + 1 : i <= j => s[i] <= s[j]
            /\ \A i \in 1 .. depth' : slots'[At(i)'].off = (o + s[i]) % Cap /\ s[i + 1] = s[i] + slots'[At(i)'].len
    BY <2>9
  <2>11. Layout(o, s)'
    BY <2>10 DEF Layout
  <2> QED
    BY <2>11 DEF Laid
<1>11. [k \in 1 .. new.len |-> cells'[Cell(new.off, k)]] = f
  <2>1. ASSUME NEW k \in 1 .. n PROVE cells'[Cell(HeadByte, k)] = f[k]
    <3>0. k \in 1 .. Cap /\ HeadByte + k - 1 \in 0 .. 2 * Cap - 1
      BY <1>1, <1>4
    <3>1. (HeadByte + k - 1) % Cap \in 0 .. Cap - 1
      BY <1>1, <3>0, Round
    <3>2. ((((HeadByte + k - 1) % Cap) - HeadByte + Cap) % Cap) + 1 = k
      BY <1>1, <1>4, <3>0, ThereAndBack
    <3> DEFINE c == Cell(HeadByte, k)
    <3>3. c \in 0 .. Cap - 1 /\ ((c - HeadByte + Cap) % Cap) + 1 = k
      BY <3>1, <3>2 DEF Cell
    <3> HIDE DEF c
    <3>4. k <= Len(f) /\ DOMAIN cells = 0 .. Cap - 1
      BY <1>1 DEF n
    <3>5. cells'[c] = f[k]
      BY <1>2, <3>3, <3>4 DEF WriteWrapped
    <3> QED
      BY <3>5 DEF c
  <2>2. f = [k \in 1 .. n |-> f[k]]
    BY DEF n
  <2> QED
    BY <1>6, <2>1, <2>2
<1>12. ASSUME NEW i \in 1 .. depth
       PROVE  [k \in 1 .. slots[At(i)].len |-> cells'[Cell(slots[At(i)].off, k)]] = ReadWrapped(slots[At(i)])
  <2>1. ASSUME NEW k \in 1 .. slots[At(i)].len
        PROVE  cells'[Cell(slots[At(i)].off, k)] = cells[Cell(slots[At(i)].off, k)]
    <3> DEFINE c == Cell(slots[At(i)].off, k)
    <3>1. PICK q \in 0 .. used - 1 : c = (o + q) % Cap
      BY <1>1, <1>3, CellsOf
    <3>2. c \in 0 .. Cap - 1
      <4>1. o + q \in 0 .. 2 * Cap - 1
        BY <1>1
      <4> QED
        BY <1>1, <3>1, <4>1, Round
    <3>3. ~ (((c - HeadByte + Cap) % Cap) + 1 <= n)
      <4>1. n \in Nat /\ used + n <= Cap /\ used \in 0 .. Cap /\ Cap \in Nat \ {0}
        BY <1>1
      <4>2. \A x, h : x = (o + q) % Cap /\ h = (o + used) % Cap => ~ (((x - h + Cap) % Cap) + 1 <= n)
        BY <4>1, BehindIsFree
      <4> QED
        BY <1>3, <3>1, <4>2
    <3> HIDE DEF c
    <3>4. cells'[c] = cells[c]
      BY <1>1, <1>2, <3>2, <3>3 DEF WriteWrapped, n
    <3> QED
      BY <3>4 DEF c
  <2> QED
    BY <2>1 DEF ReadWrapped
<1>13. Waiting' = Append(Waiting, f)
  <2>1. Waiting' = [i \in 1 .. depth + 1 |-> [k \in 1 .. slots'[At(i)].len |-> cells'[Cell(slots'[At(i)].off, k)]]]
    BY <1>2 DEF Waiting, ReadWrapped, At
  <2>2. \A i \in 1 .. depth + 1 : [k \in 1 .. slots'[At(i)].len |-> cells'[Cell(slots'[At(i)].off, k)]]
                                 = IF i = depth + 1 THEN f ELSE ReadWrapped(slots[At(i)])
    <3>1. TAKE i \in 1 .. depth + 1
    <3>2. CASE i = depth + 1
      BY <1>7, <1>11, <3>2
    <3>3. CASE i # depth + 1
      <4>1. i \in 1 .. depth /\ slots'[At(i)] = slots[At(i)]
        BY <1>1, <1>7, <3>3
      <4> QED
        BY <1>12, <3>3, <4>1
    <3> QED
      BY <3>2, <3>3
  <2>3. Waiting = [i \in 1 .. depth |-> ReadWrapped(slots[At(i)])]
    BY DEF Waiting, At
  <2> DEFINE g(i) == ReadWrapped(slots[At(i)])
  <2>4. depth \in Nat /\ Waiting = [i \in 1 .. depth |-> g(i)]
    BY <1>1, <2>3
  <2>5. Waiting' = [i \in 1 .. depth + 1 |-> IF i = depth + 1 THEN f ELSE g(i)]
    BY <2>1, <2>2
  <2> HIDE DEF g
  <2> QED
    BY <2>4, <2>5, Appended
<1> QED
  BY <1>8, <1>9, <1>10, <1>13 DEF Ring

LEMMA HeadAndTail ==
  ASSUME NEW n \in Nat, n > 0, NEW s, s = [i \in 1 .. n |-> s[i]]
  PROVE  s # <<>> /\ Head(s) = s[1] /\ Tail(s) = [i \in 1 .. n - 1 |-> s[i + 1]]
<1>1. Len(s) = n
  OBVIOUS
<1>2. s # <<>>
  BY <1>1
<1>3. Head(s) = s[1]
  BY <1>1
<1>4. Tail(s) = [i \in 1 .. n - 1 |-> s[i + 1]]
  BY <1>1
<1> QED
  BY <1>2, <1>3, <1>4

LEMMA PopKeeps ==
  ASSUME Ring, Pop
  PROVE  Ring' /\ Waiting # <<>> /\ out' = Head(Waiting) /\ Waiting' = Tail(Waiting)
<1>1. /\ attached /\ depth > 0 /\ Memory /\ Table /\ Laid
      /\ head \in 0 .. SlotCap - 1 /\ depth \in 0 .. SlotCap /\ used \in 0 .. Cap
      /\ tail = (head + depth) % SlotCap /\ \A i \in 1 .. depth : slots[At(i)] \in Slots
      /\ Cap \in Nat \ {0} /\ SlotCap \in Nat \ {0} /\ Mtu \in Nat \ {0}
  BY Sizes DEF Ring, Table, Pop
<1>2. /\ head' = (head + 1) % SlotCap /\ depth' = depth - 1 /\ used' = used - slots[head].len
      /\ cells' = cells /\ attached' = attached /\ slots' = slots /\ tail' = tail
  BY DEF Pop
<1>3. PICK o \in 0 .. Cap - 1, p \in [1 .. depth + 1 -> 0 .. Cap] : Layout(o, p)
  BY <1>1 DEF Laid
<1>4. /\ p[1] = 0 /\ p[depth + 1] = used /\ \A i, j \in 1 .. depth + 1 : i <= j => p[i] <= p[j]
      /\ \A i \in 1 .. depth : slots[At(i)].off = (o + p[i]) % Cap /\ p[i + 1] = p[i] + slots[At(i)].len
  BY <1>3 DEF Layout
<1>5. At(1) = head
  <2>1. head \in 0 .. 2 * SlotCap - 1 /\ head < SlotCap /\ head + 1 - 1 = head
    BY <1>1
  <2>2. head % SlotCap = head
    BY <1>1, <2>1, Round
  <2> QED
    BY <2>1, <2>2 DEF At
<1>6. PICK l \in 1 .. Mtu : l = slots[head].len
  <2>1. 1 \in 1 .. depth
    BY <1>1
  <2>2. slots[head] \in Slots
    BY <1>1, <1>5, <2>1
  <2> QED
    BY <2>2 DEF Slots
<1>7. p[2] = l /\ l <= used
  <2>1. p[1 + 1] = p[1] + l
    BY <1>1, <1>4, <1>5, <1>6
  <2>2. p[2] = l
    BY <1>4, <2>1
  <2>3. 2 \in 1 .. depth + 1 /\ depth + 1 \in 1 .. depth + 1 /\ 2 <= depth + 1
    BY <1>1
  <2> QED
    BY <1>4, <2>2, <2>3
<1>8. \A y \in 0 .. depth - 1 : (((head + 1) % SlotCap) + y) % SlotCap = (head + 1 + y) % SlotCap
  <2>1. TAKE y \in 0 .. depth - 1
  <2>2. head + 1 \in 0 .. 2 * SlotCap - 1 /\ y \in 0 .. SlotCap /\ (head + 1) + y <= 2 * SlotCap - 1
    BY <1>1
  <2>3. (((head + 1) % SlotCap) + y) % SlotCap = ((head + 1) + y) % SlotCap
    BY <1>1, <2>2, RoundOn
  <2> QED
    BY <2>3
<1>9. (head + 1) % SlotCap \in 0 .. SlotCap - 1
  <2>1. head + 1 \in 0 .. 2 * SlotCap - 1
    BY <1>1
  <2> QED
    BY <1>1, <2>1, Round
<1>10. \A i \in 1 .. depth - 1 : At(i)' = At(i + 1)
  <2>1. TAKE i \in 1 .. depth - 1
  <2>2. i - 1 \in 0 .. depth - 1 /\ head + 1 + (i - 1) = head + (i + 1) - 1
    BY <1>1
  <2>3. (((head + 1) % SlotCap) + (i - 1)) % SlotCap = (head + (i + 1) - 1) % SlotCap
    BY <1>8, <2>2
  <2>4. ((head + 1) % SlotCap) + i - 1 = ((head + 1) % SlotCap) + (i - 1)
    BY <1>1, <1>9
  <2> QED
    BY <1>2, <2>3, <2>4 DEF At
<1>11. Table'
  <2>1. depth - 1 \in 0 .. depth - 1 /\ head + 1 + (depth - 1) = head + depth
    BY <1>1
  <2>2. tail' = (head' + depth') % SlotCap
    BY <1>1, <1>2, <1>8, <2>1
  <2>3. head' \in 0 .. SlotCap - 1 /\ depth' \in 0 .. SlotCap /\ used' \in 0 .. Cap
    <3>1. l \in Nat /\ used \in 0 .. Cap /\ depth \in 0 .. SlotCap /\ depth > 0 /\ Cap \in Nat /\ SlotCap \in Nat
      BY <1>1, <1>6
    <3>2. used - l \in 0 .. Cap /\ depth - 1 \in 0 .. SlotCap
      BY <1>7, <3>1
    <3>3. used' = used - l /\ depth' = depth - 1
      BY <1>2, <1>6
    <3> QED
      BY <1>2, <1>9, <3>2, <3>3
  <2>4. \A i \in 1 .. depth' : slots'[At(i)'] \in Slots
    <3>1. TAKE i \in 1 .. depth'
    <3>2. i \in 1 .. depth - 1 /\ i + 1 \in 1 .. depth
      BY <1>1, <1>2
    <3> QED
      BY <1>1, <1>2, <1>10, <3>2
  <2> QED
    BY <2>2, <2>3, <2>4 DEF Table
<1>12. Laid'
  <2> DEFINE r == [i \in 1 .. depth |-> p[i + 1] - l]
  <2>1. \A i \in 1 .. depth : i + 1 \in 1 .. depth + 1 /\ p[i + 1] \in 0 .. Cap /\ l <= p[i + 1] /\ p[i + 1] <= used
    <3>1. TAKE i \in 1 .. depth
    <3>2. /\ i + 1 \in 1 .. depth + 1 /\ 2 \in 1 .. depth + 1 /\ depth + 1 \in 1 .. depth + 1
          /\ 2 <= i + 1 /\ i + 1 <= depth + 1
      BY <1>1
    <3> QED
      BY <1>4, <1>7, <3>2
  <2>2. r \in [1 .. depth -> 0 .. Cap] /\ \A i \in 1 .. depth : r[i] = p[i + 1] - l
    <3>1. l \in Nat /\ Cap \in Nat
      BY <1>1, <1>6
    <3>2. \A b : b \in 0 .. Cap /\ l <= b => b - l \in 0 .. Cap
      BY <3>1
    <3>3. \A i \in 1 .. depth : p[i + 1] - l \in 0 .. Cap
      BY <2>1, <3>2
    <3> QED
      BY <3>3
  <2> HIDE DEF r
  <2>3. r[1] = 0
    <3>1. 1 \in 1 .. depth /\ r[1] = p[1 + 1] - l
      BY <1>1, <2>2
    <3> QED
      BY <1>7, <3>1
  <2>4. r[depth] = used - l
    <3>1. depth \in 1 .. depth /\ r[depth] = p[depth + 1] - l
      BY <1>1, <2>2
    <3> QED
      BY <1>4, <3>1
  <2>5. \A i, j \in 1 .. depth : i <= j => r[i] <= r[j]
    <3>1. TAKE i, j \in 1 .. depth
    <3>2. HAVE i <= j
    <3>3. i + 1 <= j + 1
      BY <3>2
    <3>4. p[i + 1] <= p[j + 1]
      BY <1>4, <2>1, <3>3
    <3> QED
      BY <2>1, <2>2, <3>4
  <2>6. \A i \in 1 .. depth - 1 : slots[At(i + 1)].off = (((o + l) % Cap) + r[i]) % Cap /\ r[i + 1] = r[i] + slots[At(i + 1)].len
    <3>1. TAKE i \in 1 .. depth - 1
    <3> DEFINE a == p[i + 1]
    <3>1a. i \in 1 .. depth /\ i + 1 \in 1 .. depth
      BY <1>1
    <3>2. /\ i \in 1 .. depth /\ i + 1 \in 1 .. depth /\ a \in 0 .. Cap /\ l <= a
          /\ r[i] = a - l /\ r[i + 1] = p[(i + 1) + 1] - l
      BY <2>1, <2>2, <3>1a
    <3>3. slots[At(i + 1)].off = (o + a) % Cap /\ p[(i + 1) + 1] = a + slots[At(i + 1)].len
      BY <1>4, <3>2
    <3>4. slots[At(i + 1)].len \in Nat
      <4>1. slots[At(i + 1)] \in Slots
        BY <1>1, <3>1a
      <4>2. \A s \in Slots : s.len \in Nat
        BY <1>1 DEF Slots
      <4> QED
        BY <4>1, <4>2
    <3>5. r[i + 1] = r[i] + slots[At(i + 1)].len
      <4> DEFINE b == slots[At(i + 1)].len
      <4>1. a \in Int /\ b \in Int /\ l \in Int
        BY <1>6, <3>2, <3>4
      <4>2. r[i + 1] = (a + b) - l /\ r[i] = a - l
        BY <3>2, <3>3
      <4> HIDE DEF a, b
      <4>3. (a + b) - l = (a - l) + b
        BY <4>1
      <4>4. r[i + 1] = r[i] + b
        BY <4>2, <4>3
      <4> QED
        BY <4>4 DEF b
    <3> HIDE DEF a
    <3>6. o + l \in 0 .. 2 * Cap - 1 /\ a - l \in 0 .. Cap /\ (o + l) + (a - l) = o + a /\ o + a <= 2 * Cap - 1
      <4>1. a \in 0 .. Cap /\ l <= a /\ l \in Int /\ l >= 1 /\ Cap \in Nat /\ o \in 0 .. Cap - 1
        BY <1>1, <1>6, <3>2
      <4> QED
        BY <4>1
    <3>7. (((o + l) % Cap) + (a - l)) % Cap = (o + a) % Cap
      BY <1>1, <3>6, RoundOn
    <3> QED
      BY <3>2, <3>3, <3>5, <3>7
  <2>7. (o + l) % Cap \in 0 .. Cap - 1
    <3>0. l \in Nat /\ used \in 0 .. Cap /\ l <= used /\ Cap \in Nat \ {0}
      BY <1>1, <1>6, <1>7
    <3>1. o + l \in 0 .. 2 * Cap - 1
      BY <3>0
    <3> QED
      BY <1>1, <3>1, Round
  <2>8. PICK o2 \in 0 .. Cap - 1 : o2 = (o + l) % Cap
    BY <2>7
  <2>9. depth' + 1 = depth /\ depth \in Nat
    BY <1>1, <1>2
  <2>10. \A i \in 1 .. depth' : slots'[At(i)'].off = (o2 + r[i]) % Cap /\ r[i + 1] = r[i] + slots'[At(i)'].len
    BY <1>2, <1>10, <2>6, <2>8
  <2>11. PICK s \in [1 .. depth' + 1 -> 0 .. Cap] :
            /\ s[1] = 0 /\ s[depth' + 1] = used'
            /\ \A i, j \in 1 .. depth' + 1 : i <= j => s[i] <= s[j]
            /\ \A i \in 1 .. depth' : slots'[At(i)'].off = (o2 + s[i]) % Cap /\ s[i + 1] = s[i] + slots'[At(i)'].len
    <3>1. r[depth' + 1] = used'
      BY <1>2, <1>6, <2>4, <2>9
    <3> QED
      BY <2>2, <2>3, <2>5, <2>9, <2>10, <3>1
  <2>12. Layout(o2, s)'
    BY <2>11 DEF Layout
  <2> QED
    BY <2>12 DEF Laid
<1>13. Ring'
  <2>1. Memory'
    BY <1>1, <1>2 DEF Memory
  <2> QED
    BY <1>11, <1>12, <2>1 DEF Ring
<1>14. Waiting # <<>> /\ out' = Head(Waiting) /\ Waiting' = Tail(Waiting)
  <2> DEFINE g(i) == ReadWrapped(slots[At(i)])
  <2>1. depth \in Nat /\ depth > 0 /\ Waiting = [i \in 1 .. depth |-> g(i)]
    BY <1>1 DEF Waiting, At
  <2>2. Waiting' = [i \in 1 .. depth - 1 |-> ReadWrapped(slots[At(i)])']
    BY <1>2 DEF Waiting, At
  <2>3. \A i \in 1 .. depth - 1 : ReadWrapped(slots[At(i)])' = g(i + 1)
    BY <1>2, <1>10 DEF ReadWrapped
  <2>4. Waiting' = [i \in 1 .. depth - 1 |-> g(i + 1)]
    BY <2>2, <2>3
  <2>5. out' = g(1)
    BY <1>5, <1>6, <1>1 DEF Pop
  <2> HIDE DEF g
  <2>6. Waiting # <<>> /\ Head(Waiting) = g(1) /\ Tail(Waiting) = [i \in 1 .. depth - 1 |-> g(i + 1)]
    <3>1. Waiting = [i \in 1 .. depth |-> Waiting[i]] /\ \A i \in 1 .. depth : Waiting[i] = g(i)
      BY <2>1
    <3>2. Waiting # <<>> /\ Head(Waiting) = Waiting[1] /\ Tail(Waiting) = [i \in 1 .. depth - 1 |-> Waiting[i + 1]]
      BY <2>1, <3>1, HeadAndTail
    <3>3. 1 \in 1 .. depth /\ \A i \in 1 .. depth - 1 : i + 1 \in 1 .. depth
      BY <2>1
    <3>4. Waiting[1] = g(1) /\ \A i \in 1 .. depth - 1 : Waiting[i + 1] = g(i + 1)
      BY <3>1, <3>3
    <3> QED
      BY <3>2, <3>4
  <2> QED
    BY <2>4, <2>5, <2>6
<1> QED
  BY <1>13, <1>14

\* The memory is there or not, and nothing waits in it.
LEMMA EmptyKeeps ==
  ASSUME NothingQueued, Memory'
  PROVE  Ring' /\ Waiting' = <<>>
<1>1. Cap \in Nat \ {0} /\ SlotCap \in Nat \ {0}
  BY Sizes
<1>2. head' = 0 /\ tail' = 0 /\ depth' = 0 /\ used' = 0
  BY DEF NothingQueued
<1>3. 0 \in 0 .. SlotCap - 1 /\ 0 % SlotCap = 0 /\ 0 \in 0 .. Cap - 1 /\ 0 + 0 = 0
  BY <1>1, Round
<1>4. Table'
  BY <1>1, <1>2, <1>3 DEF Table
<1>5. Laid'
  <2> DEFINE p == [i \in 1 .. 1 |-> 0]
  <2>1. p \in [1 .. depth' + 1 -> 0 .. Cap] /\ p[1] = 0 /\ p[depth' + 1] = used' /\ \A i, j \in 1 .. depth' + 1 : i <= j => p[i] <= p[j]
    BY <1>1, <1>2
  <2>2. Layout(0, p)'
    BY <1>2, <1>3, <2>1 DEF Layout
  <2> QED
    BY <1>3, <2>1, <2>2 DEF Laid
<1>6. Waiting' = <<>>
  BY <1>2 DEF Waiting
<1> QED
  BY <1>4, <1>5, <1>6 DEF Ring

LEMMA LinkStarts == Init => LInv /\ F!Init
<1> SUFFICES ASSUME Init PROVE LInv /\ F!Init
  OBVIOUS
<1>1. Cap \in Nat \ {0} /\ SlotCap \in Nat \ {0}
  BY Sizes
<1>2. 0 \in 0 .. SlotCap - 1 /\ 0 % SlotCap = 0 /\ 0 \in 0 .. Cap - 1 /\ 0 + 0 = 0
  BY <1>1, Round
<1>3. Table
  BY <1>1, <1>2 DEF Init, Table
<1>4. Laid
  <2> DEFINE p == [i \in 1 .. 1 |-> 0]
  <2>1. p \in [1 .. depth + 1 -> 0 .. Cap] /\ p[1] = 0 /\ p[depth + 1] = used /\ \A i, j \in 1 .. depth + 1 : i <= j => p[i] <= p[j]
    BY <1>1 DEF Init
  <2>2. Layout(0, p)
    BY <1>2, <2>1 DEF Layout, Init
  <2> QED
    BY <1>2, <2>1, <2>2 DEF Laid
<1>5. Memory /\ Phase /\ Asked
  BY DEF Init, Memory, Phase, Asked, Below
<1>6. F!Init
  BY DEF Init, F!Init, Waiting
<1> QED
  BY <1>3, <1>4, <1>5, <1>6 DEF LInv, Ring

\* Where begin() and end() are, the reader and the flags go on together.
LEMMA PhaseKeeps == Phase /\ Asked /\ [Next]_vars => Phase' /\ Asked'
<1> SUFFICES ASSUME Phase, Asked, [Next]_vars PROVE Phase' /\ Asked'
  OBVIOUS
<1> USE DEF Phase, Asked, Below, Serving
<1>1. ASSUME NEW b \in Bauds, BeginRefused(b) PROVE Phase' /\ Asked'
  BY <1>1 DEF BeginRefused, Idle, queue, link
<1>2. ASSUME NEW b \in Bauds, Begin(b) PROVE Phase' /\ Asked'
  BY <1>2 DEF Begin, Idle, queue, link, Attach
<1>3. CASE BeginFails
  BY <1>3 DEF BeginFails, Release, Detach
<1>4. CASE PortStarted
  BY <1>4 DEF PortStarted, queue
<1>5. CASE StartTask
  BY <1>5 DEF StartTask, queue, link
<1>6. CASE Started
  BY <1>6 DEF Started, queue
<1>7. CASE End
  BY <1>7 DEF End, Idle, queue
<1>8. CASE EndWaited
  BY <1>8 DEF EndWaited, queue
<1>9. CASE EndTimesOut
  BY <1>9 DEF EndTimesOut, queue, link
<1>10. CASE EndReleases
  BY <1>10 DEF EndReleases, Release, Detach
<1>11. CASE Answered
  BY <1>11 DEF Answered, queue, link
<1>12. CASE Leave
  BY <1>12 DEF Leave, queue
<1>13. CASE Take
  BY <1>13 DEF Take, Pop, link
<1>14. CASE Write
  BY <1>14 DEF Write, queue, link
<1>15. ASSUME NEW f \in Frames, Send(f) PROVE Phase' /\ Asked'
  BY <1>15 DEF Send, Push, link
<1>16. CASE UNCHANGED vars
  BY <1>16 DEF vars, queue, link
<1> QED
  BY <1>1, <1>2, <1>3, <1>4, <1>5, <1>6, <1>7, <1>8, <1>9, <1>10, <1>11, <1>12, <1>13, <1>14, <1>15, <1>16
     DEF Next, Owner, Reader

\* A step leaves the queue alone, opens it empty, closes it, pushes or pops: the
\* ring is a ring after it, and the frames that wait are what a queue would hold.
LEMMA RingKeeps == Phase /\ Ring /\ [Next]_vars => Ring' /\ [F!Next]_(F!vars)
<1> SUFFICES ASSUME Phase, Ring, [Next]_vars PROVE Ring' /\ [F!Next]_(F!vars)
  OBVIOUS
<1>1. ASSUME UNCHANGED queue, UNCHANGED out PROVE Ring' /\ [F!Next]_(F!vars)
  <2>1. Ring'
    BY <1>1 DEF Ring, Memory, Table, Laid, Layout, At, queue
  <2>2. Waiting' = Waiting /\ attached' = attached
    BY <1>1 DEF Waiting, ReadWrapped, Cell, queue
  <2> QED
    BY <1>1, <2>1, <2>2 DEF F!vars
<1>2. ASSUME Release, UNCHANGED out PROVE Ring' /\ [F!Next]_(F!vars)
  <2>1. Memory' /\ NothingQueued
    BY <1>2 DEF Release, Detach, Memory, NothingQueued
  <2>2. Ring' /\ Waiting' = <<>>
    BY <2>1, EmptyKeeps
  <2>3. F!Close
    BY <1>2, <2>2 DEF F!Close, Release, Detach
  <2> QED
    BY <2>2, <2>3 DEF F!Next
<1>3. ASSUME NEW b \in Bauds, Begin(b) PROVE Ring' /\ [F!Next]_(F!vars)
  <2>1. CASE UNCHANGED queue
    BY <1>1, <1>3, <2>1 DEF Begin
  <2>2. CASE cells' = Fresh /\ slots' = [i \in 0 .. SlotCap - 1 |-> NoSlot] /\ Attach
    <3>1. Memory' /\ NothingQueued
      BY <2>2 DEF Attach, Memory, NothingQueued, Fresh
    <3>2. Ring' /\ Waiting' = <<>>
      BY <3>1, EmptyKeeps
    <3>3. ~ attached /\ attached' = TRUE /\ UNCHANGED out
      BY <1>3, <2>2 DEF Begin, Idle, Phase, Attach
    <3>4. F!Open
      BY <3>2, <3>3 DEF F!Open
    <3> QED
      BY <3>2, <3>4 DEF F!Next
  <2> QED
    BY <1>3, <2>1, <2>2 DEF Begin
<1>4. CASE Take
  <2>1. Ring' /\ Waiting # <<>> /\ out' = Head(Waiting) /\ Waiting' = Tail(Waiting)
    BY <1>4, PopKeeps DEF Take
  <2>2. F!Send
    BY <1>4, <2>1 DEF F!Send, Take, Pop
  <2> QED
    BY <2>1, <2>2 DEF F!Next
<1>5. ASSUME NEW f \in Frames, Send(f) PROVE Ring' /\ [F!Next]_(F!vars)
  <2>1. f \in Seq(Nat) /\ Len(f) <= Mtu /\ Push(f)
    BY <1>5, FramesAssumption DEF Send
  <2>2. Ring' /\ Waiting' = Append(Waiting, f)
    BY <2>1, PushKeeps
  <2>3. F!Accept(f)
    BY <1>5, <2>1, <2>2 DEF F!Accept, Send, Push, Room
  <2> QED
    BY <2>2, <2>3 DEF F!Next
<1>6. CASE \/ \E b \in Bauds : BeginRefused(b)
           \/ PortStarted \/ StartTask \/ Started \/ End \/ EndWaited \/ EndTimesOut \/ Answered
           \/ Leave \/ Write \/ UNCHANGED vars
  <2>1. UNCHANGED queue /\ UNCHANGED out
    BY <1>6 DEF BeginRefused, PortStarted, StartTask, Started, End, EndWaited, EndTimesOut, Answered, Leave, Write, vars
  <2> QED
    BY <1>1, <2>1
<1>7. CASE BeginFails \/ EndReleases
  BY <1>2, <1>7 DEF BeginFails, EndReleases
<1> QED
  BY <1>3, <1>4, <1>5, <1>6, <1>7 DEF Next, Owner, Reader

LEMMA LinkOutlives == LInv => MemoryOutlivesReader
<1> SUFFICES ASSUME LInv PROVE MemoryOutlivesReader
  OBVIOUS
<1>1. attached => cells # Gone
  <2>1. attached => cells \in [0 .. Cap - 1 -> Nat] /\ 0 \in 0 .. Cap - 1
    BY Sizes DEF LInv, Ring, Memory
  <2>2. 0 \notin DOMAIN Gone
    BY DEF Gone
  <2> QED
    BY <2>1, <2>2
<1>2. /\ Reading => alive /\ attached
      /\ up => attached
  BY DEF LInv, Phase, Below, Serving, Reading
<1> QED
  BY <1>1, <1>2 DEF MemoryOutlivesReader

\* The reader has its memory for as long as it runs, in every order of begin(),
\* end(), send() and the reader's own pass, whatever the caller does with an
\* end() that timed out.
THEOREM ReaderHasItsMemory == Spec => []MemoryOutlivesReader
<1>1. LInv /\ [Next]_vars => LInv'
  BY PhaseKeeps, RingKeeps DEF LInv
<1> QED
  BY <1>1, LinkStarts, LinkOutlives, PTL DEF Spec

\* The arena and the frame table are a queue: frames leave in the order and with
\* the bytes they were accepted, across every wrap of either ring, and only
\* the end of the link drops one.
THEOREM RingIsAFifo == Spec => IsAFifo
<1>1. LInv /\ [Next]_vars => LInv'
  BY PhaseKeeps, RingKeeps DEF LInv
<1>2. LInv /\ [Next]_vars => [F!Next]_(F!vars)
  BY RingKeeps DEF LInv
<1> QED
  BY <1>1, <1>2, LinkStarts, PTL DEF Spec, IsAFifo, F!Spec

\* And with callers that call end() again, a link said to be up has a reader.
THEOREM LinkServes ==
  ASSUME Retries
  PROVE  Spec => QueueIsServed
<1>1. LInv /\ [Next]_vars => LInv'
  BY PhaseKeeps, RingKeeps DEF LInv
<1>2. LInv => LinkSafe
  <2>1. LInv => UpIsServed
    BY DEF LInv, Phase, Asked, Below, Serving, UpIsServed
  <2> QED
    BY <2>1, LinkOutlives DEF LinkSafe
<1>3. Spec => []LinkSafe
  BY <1>1, <1>2, LinkStarts, PTL DEF Spec
<1> QED
  BY <1>3, RingIsAFifo DEF QueueIsServed
=============================================================================
