------------------------------- MODULE Bootloader -------------------------------
(***************************************************************************)
(* Every restart the node makes: the sequencer of src/sys/BootloaderPlan.h *)
(* and what src/sys/Bootloader.cpp hangs on it.                            *)
(*                                                                         *)
(* Callers on several tasks ask for a restart, into the application or     *)
(* into the ROM downloader; loop() ticks.  Arming the ROM happens after    *)
(* the sequencer has accepted, outside its lock.  The clock is millis():   *)
(* it wraps at W, and differences are read as signed.                      *)
(***************************************************************************)
EXTENDS Integers, TLAPS

CONSTANTS Caller,      \* tasks that may ask
          Board,       \* kinds of build: subset of {"none", "handler", "ncm"}
          W,           \* 2^32
          AckFloor,    \* kAckFloorMs
          Delay,       \* the delays callers ask for
          Lag,         \* bound: the longest loop() goes without a tick
          Slots,       \* entries in the shutdown table
          Wake,        \* readings of the clock the node may start from
          Patience     \* requests the callers make, or -1 for no end of them

ASSUME ClockAssumption == W \in Nat \ {0} /\ Wake \subseteq 0 .. W - 1
ASSUME DelayAssumption == Delay \subseteq Nat /\ AckFloor \in Nat \ {0} /\ Lag \in Nat \ {0}
(* No delay comes near the half range in which differences are read: the    *)
(* callers ask for seconds, of a clock that wraps after seven weeks.        *)
ASSUME HorizonAssumption ==
    \A d \in Delay \cup {AckFloor} : 2 * (d + AckFloor + Lag) < W
ASSUME BoardAssumption == Board \subseteq {"none", "handler", "ncm"} /\ Slots \in Nat
ASSUME PatienceAssumption == Patience \in Nat \cup {-1}

VARIABLES
    board,      \* which build this is
    now,        \* millis()
    state,      \* Sequencer._state, or down once esp_restart() ran
    target,     \* Sequencer._target
    due,        \* Sequencer._dueMs
    handler,    \* forceDownloadBootHandler is in the shutdown table
    others,     \* entries of the table somebody else holds
    caller,     \* callers still arming the ROM
    landed,     \* where the restart went
    left,       \* requests still to come
    sinceTick,  \* time since loop() ticked
    sinceAsk,   \* history: time since a request was accepted, up to AckFloor
    promise,    \* history: time to the earliest delay anybody was told
    loaderSaid  \* history: somebody was told 202 for the downloader

seq  == <<state, target, due>>
rom  == <<handler, others, caller>>
hist == <<sinceAsk, promise, loaderSaid>>
vars == <<board, now, seq, rom, landed, left, sinceTick, hist>>

Target == {"app", "loader"}
State  == {"idle", "armed", "quiescing", "restarting", "down"}

(* (int32_t)(a - b)                                                         *)
signed(a, b) == LET d == (a - b) % W IN IF 2 * d < W THEN d ELSE d - W

earlier(a, b) == IF a < b THEN a ELSE b
later(a, b)   == IF a < b THEN b ELSE a

-----------------------------------------------------------------------------
(* Sequencer::request().                                                    *)

(* Refused once quiescing, and a reboot never downgrades an entry into the  *)
(* downloader.  The mutant lets it.                                         *)
AcceptsAny(to) == state \in {"idle", "armed"}

accepts(to) == state = "idle" \/ (state = "armed" /\ ~(target = "loader" /\ to = "app"))

(* The earlier of the two deadlines, but never so near that this answer     *)
(* cannot leave.                                                            *)
floored(d) == IF signed(d, (now + AckFloor) % W) < 0 THEN (now + AckFloor) % W ELSE d

deadline(delay) ==
    LET asked == (now + delay) % W
    IN floored(IF state = "armed" /\ signed(due, asked) < 0 THEN due ELSE asked)

Request(c, to, delay) ==
    /\ state # "down" /\ c \notin caller
    /\ left # 0 /\ left' = IF left > 0 THEN left - 1 ELSE left
    /\ to = "loader" => board # "none"          \* CannotEnter, with nothing asked
    /\ accepts(to)
    /\ state' = "armed" /\ target' = to /\ due' = deadline(delay)
    /\ caller' = IF to = "loader" THEN caller \cup {c} ELSE caller
    /\ sinceAsk' = 0
    /\ promise' = IF state = "armed" THEN earlier(promise, delay) ELSE delay
    /\ UNCHANGED <<board, now, handler, others, landed, sinceTick, loaderSaid>>

(* armDownloadBoot(): the handler is registered, or found registered; the   *)
(* composite device only asks whether there is room.  Full is CannotArm.    *)
room == others + (IF handler THEN 1 ELSE 0) < Slots

Arm(c) ==
    /\ state # "down" /\ c \in caller
    /\ caller' = caller \ {c}
    /\ \/ /\ board = "handler" /\ (room \/ handler)
          /\ handler' = TRUE /\ loaderSaid' = TRUE
       \/ /\ board = "ncm" /\ room
          /\ loaderSaid' = TRUE /\ UNCHANGED handler
       \/ /\ ~room /\ ~handler
          /\ UNCHANGED <<handler, loaderSaid>>
    /\ UNCHANGED <<board, now, seq, others, landed, left, sinceTick, sinceAsk, promise>>

-----------------------------------------------------------------------------
(* tick(), from loop().                                                     *)

(* The mutant compares the readings as they stand.                          *)
DueUnsigned == now > due

isDue == signed(now, due) >= 0

Tick ==
    /\ \/ state = "idle" /\ UNCHANGED state
       \/ state = "armed" /\ ~isDue /\ UNCHANGED state
       \/ state = "armed" /\ isDue /\ state' = "quiescing"
       \/ state = "quiescing" /\ state' = "restarting"
    /\ sinceTick' = 0
    /\ UNCHANGED <<board, now, target, due, rom, landed, left, hist>>

(* restart(): a plain restart drops the download handler, and esp_restart() *)
(* runs the table; the composite device takes its slot of it only now.      *)
Restart ==
    /\ state = "restarting"
    /\ landed' = IF target = "loader" /\ (handler \/ (board = "ncm" /\ room)) THEN "rom" ELSE "app"
    /\ state' = "down" /\ handler' = FALSE
    /\ UNCHANGED <<board, now, target, due, others, caller, left, sinceTick, hist>>

-----------------------------------------------------------------------------
Pass ==
    /\ state # "down" /\ sinceTick < Lag
    /\ now' = (now + 1) % W
    /\ sinceTick' = sinceTick + 1
    /\ sinceAsk' = earlier(AckFloor, sinceAsk + 1)
    /\ promise' = IF state = "armed" THEN later(promise - 1, -(AckFloor + Lag)) ELSE promise
    /\ UNCHANGED <<board, seq, rom, landed, left, loaderSaid>>

(* Whatever else registers a shutdown handler, or takes one out.            *)
Others ==
    /\ state # "down"
    /\ others' \in 0 .. Slots - (IF handler THEN 1 ELSE 0)
    /\ others' # others
    /\ UNCHANGED <<board, now, seq, handler, caller, landed, left, sinceTick, hist>>

fresh ==
    /\ state' = "idle" /\ target' = "app" /\ due' = 0
    /\ handler' = FALSE /\ caller' = {}
    /\ landed' = "nowhere" /\ sinceTick' = 0
    /\ sinceAsk' = AckFloor /\ promise' = 0 /\ loaderSaid' = FALSE

(* The ROM clears its bit: whichever way it went, the application comes up. *)
ComeUp ==
    /\ state = "down"
    /\ fresh /\ now' \in Wake /\ others' \in 0 .. Slots
    /\ UNCHANGED <<board, left>>

Ask  == \E c \in Caller, to \in Target, delay \in Delay : Request(c, to, delay)

Next == Ask \/ (\E c \in Caller : Arm(c)) \/ Tick \/ Restart \/ Pass \/ Others \/ ComeUp

Init ==
    /\ board \in Board
    /\ now \in Wake /\ state = "idle" /\ target = "app" /\ due = 0
    /\ handler = FALSE /\ others \in 0 .. Slots /\ caller = {}
    /\ landed = "nowhere" /\ left = Patience
    /\ sinceTick = 0 /\ sinceAsk = AckFloor /\ promise = 0 /\ loaderSaid = FALSE

Spec == Init /\ [][Next]_vars

(* loop() goes on ticking, restart() does not return, and time passes.      *)
FairSpec == Spec /\ WF_vars(Tick) /\ WF_vars(Restart) /\ WF_vars(Pass)
-----------------------------------------------------------------------------
(* Properties.                                                              *)

(* Every variable has its type.                                             *)
TypeOK ==
    /\ board \in Board /\ now \in 0 .. W - 1
    /\ state \in State /\ target \in Target /\ due \in 0 .. W - 1
    /\ handler \in BOOLEAN /\ others \in 0 .. Slots /\ caller \subseteq Caller
    /\ landed \in {"nowhere", "app", "rom"}
    /\ left \in Nat \cup {-1} /\ sinceTick \in 0 .. Lag
    /\ sinceAsk \in 0 .. AckFloor /\ promise \in Int /\ loaderSaid \in BOOLEAN

(* No accepted request is restarted under: its answer has had AckFloor to   *)
(* leave, whoever else asked for what in the meantime, across a wrap.       *)
AckWindow == state \in {"quiescing", "restarting"} => sinceAsk = AckFloor

(* "Two callers were each told their own delay" (BootloaderPlan.h:289): an  *)
(* armed restart is never later than the earliest of them, except to let    *)
(* the last answer leave.                                                   *)
EarliestKept ==
    state = "armed" => signed(due, now) <= later(promise, AckFloor - sinceAsk)


(* A caller told 202 for the downloader gets the downloader, and a plain    *)
(* restart never lands there, however requests race and whoever fills the   *)
(* table.                                                                   *)
LandsWhereTold ==
    /\ landed = "app" /\ loaderSaid => board = "ncm"
    /\ landed = "rom" => target = "loader"

(* A restart is made when and where its callers were told: their answers    *)
(* leave, no delay is longer than they were told, the downloader is reached.*)
MadeAsTold == AckWindow /\ EarliestKept /\ LandsWhereTold

(* "a page that re-posts on every retry would keep a reboot from ever       *)
(* firing at all" (BootloaderPlan.h:291): an armed restart fires.           *)
RestartFires == state = "armed" ~> state = "down"

-----------------------------------------------------------------------------
(***************************************************************************)
(* The restart goes where its callers were told it goes, and when, for any  *)
(* number of callers, any delays, any shutdown table and any clock that is  *)
(* long enough for the delays.                                             *)
(*                                                                         *)
(* The first invariant is about what a request leaves behind.  One for     *)
(* the downloader is in three places before it is answered: the sequencer  *)
(* holds its target, the caller is still arming the ROM, and the table     *)
(* holds the handler.  None of the last two may outlive the first.         *)
(***************************************************************************)

(* What an accepted request for the downloader left implies that the        *)
(* sequencer still means the downloader.                                    *)
LoaderMeant ==
    caller # {} \/ handler \/ loaderSaid => target = "loader" /\ state # "idle"

(* An answer for the downloader is backed by a handler until the restart.   *)
AnswerBacked ==
    /\ loaderSaid => board \in {"handler", "ncm"}
    /\ loaderSaid /\ board = "handler" /\ state # "down" => handler

(* A landing is the end of a restart.                                       *)
LandedIsDown == landed # "nowhere" <=> state = "down"

Enums ==
    /\ board \in {"none", "handler", "ncm"}
    /\ state \in State /\ target \in Target
    /\ handler \in BOOLEAN /\ loaderSaid \in BOOLEAN
    /\ landed \in {"nowhere", "app", "rom"}
    /\ caller \subseteq Caller

IInv == Enums /\ LoaderMeant /\ AnswerBacked /\ LandedIsDown /\ LandsWhereTold

LEMMA InitHolds == Init => IInv
BY BoardAssumption
   DEF Init, IInv, Enums, LoaderMeant, AnswerBacked, LandedIsDown, LandsWhereTold, State, Target

(* A step that changes none of what the invariant is about.                 *)
LEMMA Elsewhere ==
    ASSUME IInv, UNCHANGED <<board, state, target, handler, caller, landed, loaderSaid>>
    PROVE  IInv'
BY DEF IInv, Enums, LoaderMeant, AnswerBacked, LandedIsDown, LandsWhereTold

LEMMA RequestKeeps ==
    ASSUME IInv, NEW c \in Caller, NEW to \in Target, NEW delay \in Delay, Request(c, to, delay)
    PROVE  IInv'
<1> USE DEF IInv, Enums, LoaderMeant, AnswerBacked, LandedIsDown, LandsWhereTold
<1>0. /\ state' = "armed" /\ target' = to
      /\ caller' = IF to = "loader" THEN caller \cup {c} ELSE caller
      /\ UNCHANGED <<board, handler, landed, loaderSaid>>
      /\ state = "idle" \/ (state = "armed" /\ ~(target = "loader" /\ to = "app"))
  BY DEF Request, accepts
<1>1. caller' # {} \/ handler' \/ loaderSaid' => to = "loader"
  BY <1>0 DEF Target
<1>2. LoaderMeant'
  BY <1>0, <1>1
<1>3. landed = "nowhere"
  BY <1>0
<1> QED
  BY <1>0, <1>1, <1>2, <1>3 DEF State, Target

LEMMA ArmKeeps ==
    ASSUME IInv, NEW c \in Caller, Arm(c)
    PROVE  IInv'
<1> USE DEF IInv, Enums, LoaderMeant, AnswerBacked, LandedIsDown, LandsWhereTold
<1>1. state # "down" /\ c \in caller /\ caller' = caller \ {c}
      /\ UNCHANGED <<board, state, target, landed>>
  BY DEF Arm, seq
<1>2. target = "loader" /\ state # "idle" /\ landed = "nowhere"
  BY <1>1
<1>3. \/ board = "handler" /\ handler' = TRUE /\ loaderSaid' = TRUE
      \/ board = "ncm" /\ loaderSaid' = TRUE /\ handler' = handler
      \/ handler' = handler /\ loaderSaid' = loaderSaid
  BY DEF Arm
<1>4. Enums'
  BY <1>1, <1>3
<1>5. LoaderMeant' /\ LandedIsDown' /\ LandsWhereTold'
  BY <1>1, <1>2
<1>6. AnswerBacked'
  BY <1>1, <1>3
<1> QED
  BY <1>4, <1>5, <1>6

LEMMA TickKeeps ==
    ASSUME IInv, Tick
    PROVE  IInv'
<1>1. /\ UNCHANGED <<board, target, handler, caller, landed, loaderSaid>>
      /\ state \in {"idle", "armed", "quiescing"}
      /\ state = "idle" => state' = "idle"
      /\ state # "idle" => state' \in {"armed", "quiescing", "restarting"}
  BY DEF Tick, rom, hist
<1> QED
  BY <1>1 DEF IInv, Enums, LoaderMeant, AnswerBacked, LandedIsDown, LandsWhereTold, State

LEMMA RestartKeeps ==
    ASSUME IInv, Restart
    PROVE  IInv'
<1> USE DEF IInv, Enums, LoaderMeant, AnswerBacked, LandedIsDown, LandsWhereTold
<1>1. /\ state = "restarting" /\ state' = "down" /\ handler' = FALSE
      /\ landed' = IF target = "loader" /\ (handler \/ (board = "ncm" /\ room)) THEN "rom" ELSE "app"
      /\ UNCHANGED <<board, target, caller, loaderSaid>>
  BY DEF Restart, hist
<1>2. CASE landed' = "rom"
  <2>1. target = "loader"
    BY <1>1, <1>2
  <2> QED
    BY <1>1, <1>2, <2>1 DEF State
<1>3. CASE landed' = "app"
  <2>1. loaderSaid => board = "ncm"
    <3>1. loaderSaid /\ board = "handler" => target = "loader" /\ handler
      BY <1>1
    <3> QED
      BY <1>1, <1>3, <3>1
  <2> QED
    BY <1>1, <1>3, <2>1 DEF State
<1> QED
  BY <1>1, <1>2, <1>3

LEMMA ComeUpKeeps ==
    ASSUME IInv, ComeUp
    PROVE  IInv'
BY DEF ComeUp, fresh, IInv, Enums, LoaderMeant, AnswerBacked, LandedIsDown, LandsWhereTold,
       State, Target

LEMMA NextKeeps == IInv /\ [Next]_vars => IInv'
<1> SUFFICES ASSUME IInv, [Next]_vars
             PROVE  IInv'
  OBVIOUS
<1>1. CASE Ask
  BY <1>1, RequestKeeps DEF Ask
<1>2. CASE \E c \in Caller : Arm(c)
  BY <1>2, ArmKeeps
<1>3. CASE Tick
  BY <1>3, TickKeeps
<1>4. CASE Restart
  BY <1>4, RestartKeeps
<1>5. CASE Pass
  BY <1>5, Elsewhere DEF Pass, seq, rom
<1>6. CASE Others
  BY <1>6, Elsewhere DEF Others, seq, hist
<1>7. CASE ComeUp
  BY <1>7, ComeUpKeeps
<1>8. CASE UNCHANGED vars
  BY <1>8, Elsewhere DEF vars, seq, rom, hist
<1> QED
  BY <1>1, <1>2, <1>3, <1>4, <1>5, <1>6, <1>7, <1>8 DEF Next

(* A caller told 202 for the downloader gets the downloader, and a plain    *)
(* restart never lands there: Bootloader.cpp arms after the sequencer has   *)
(* accepted, and the sequencer never lets a reboot replace an entry.        *)
THEOREM Lands == Spec => []LandsWhereTold
<1>1. IInv => LandsWhereTold
  BY DEF IInv
<1> QED
  BY InitHolds, NextKeeps, <1>1, PTL DEF Spec
-----------------------------------------------------------------------------
(***************************************************************************)
(* When the restart is made.  Readings of a clock that wraps are compared   *)
(* by their signed difference; what follows shows that, as far as delays    *)
(* reach, this is the distance in time, and then follows that distance.     *)
(***************************************************************************)

(* What % W is within one turn of the clock.                                *)
LEMMA OneTurn ==
    /\ \A x \in Int : x % W \in 0 .. W - 1
    /\ \A x \in 0 .. W - 1 : x % W = x
    /\ \A x \in W .. 2 * W - 1 : x % W = x - W
    /\ \A x \in -W .. -1 : x % W = x + W
BY ClockAssumption

(* The signed difference is the distance, whichever way the clock wrapped.  *)
LEMMA SignedOf ==
    ASSUME NEW x \in 0 .. W - 1, NEW y \in 0 .. W - 1
    PROVE  /\ signed(x, y) \in Int
           /\ -W <= 2 * signed(x, y) /\ 2 * signed(x, y) < W
           /\ \/ x = y + signed(x, y)
              \/ x = y + signed(x, y) + W
              \/ x = y + signed(x, y) - W
<1> DEFINE d == (x - y) % W
<1>1. /\ d \in 0 .. W - 1
      /\ x - y >= 0 => d = x - y
      /\ x - y < 0 => d = x - y + W
  <2>1. x - y \in Int
    OBVIOUS
  <2>2. x - y >= 0 => x - y \in 0 .. W - 1
    BY ClockAssumption
  <2>3. x - y < 0 => x - y \in -W .. -1
    BY ClockAssumption
  <2> QED
    BY <2>1, <2>2, <2>3, OneTurn
<1>2. signed(x, y) = IF 2 * d < W THEN d ELSE d - W
  BY DEF signed
<1> HIDE DEF d
<1>3. CASE 2 * d < W
  BY <1>1, <1>2, <1>3, ClockAssumption
<1>4. CASE ~(2 * d < W)
  BY <1>1, <1>2, <1>4, ClockAssumption
<1> QED
  BY <1>3, <1>4

(* A distance less than half a turn is determined by where it leads.        *)
LEMMA SignedIs ==
    ASSUME NEW x \in 0 .. W - 1, NEW y \in 0 .. W - 1, NEW e \in Int,
           -W < 2 * e, 2 * e < W,
           x = y + e \/ x = y + e + W \/ x = y + e - W
    PROVE  signed(x, y) = e
<1> DEFINE s == signed(x, y)
<1>1. /\ s \in Int
      /\ -W <= 2 * s /\ 2 * s < W
      /\ x = y + s \/ x = y + s + W \/ x = y + s - W
  BY SignedOf
<1> HIDE DEF s
<1>2. s - e < W /\ e - s < W
  BY <1>1, ClockAssumption
<1>3. s = e \/ s = e + W \/ s = e - W \/ s = e + 2 * W \/ s = e - 2 * W
  BY <1>1, ClockAssumption
<1>4. s = e
  BY <1>1, <1>2, <1>3, ClockAssumption
<1> QED
  BY <1>4 DEF s

(* Moving a reading by less than half a turn, forward or back.              *)
LEMMA Moved ==
    ASSUME NEW y \in 0 .. W - 1, NEW k \in 0 .. W - 1
    PROVE  /\ (y + k) % W \in 0 .. W - 1
           /\ (y + k) % W = y + k \/ (y + k) % W = y + k - W
<1>1. CASE y + k < W
  <2>1. y + k \in 0 .. W - 1
    BY <1>1, ClockAssumption
  <2> QED
    BY <2>1, OneTurn
<1>2. CASE y + k >= W
  <2>1. y + k \in W .. 2 * W - 1 /\ y + k - W \in 0 .. W - 1
    BY <1>2, ClockAssumption
  <2>2. (y + k) % W = y + k - W
    <3> DEFINE z == y + k
    <3> HIDE DEF z
    <3>1. z \in W .. 2 * W - 1
      BY <2>1 DEF z
    <3>2. z % W = z - W
      BY <3>1, OneTurn
    <3> QED
      BY <3>2, ClockAssumption DEF z
  <2> QED
    BY <2>1, <2>2
<1> QED
  BY <1>1, <1>2, ClockAssumption

LEMMA SignedAhead ==
    ASSUME NEW x \in 0 .. W - 1, NEW y \in 0 .. W - 1, NEW k \in 0 .. W - 1,
           -W < 2 * (signed(x, y) - k), 2 * (signed(x, y) - k) < W
    PROVE  signed(x, (y + k) % W) = signed(x, y) - k
<1> DEFINE z == (y + k) % W
           s == signed(x, y)
           e == s - k
<1>1. /\ z \in 0 .. W - 1
      /\ z = y + k \/ z = y + k - W
  BY Moved
<1>2. /\ s \in Int
      /\ x = y + s \/ x = y + s + W \/ x = y + s - W
  BY SignedOf
<1>3. /\ e \in Int
      /\ -W < 2 * e /\ 2 * e < W
  BY <1>2
<1> HIDE DEF z, s
<1>4. signed(x, z) = e
  <2>1. CASE z = y + k
    <3>1. x = z + e \/ x = z + e + W \/ x = z + e - W
      BY <1>1, <1>2, <1>3, <2>1, ClockAssumption
    <3> QED
      BY <1>1, <1>3, <3>1, SignedIs
  <2>2. CASE z = y + k - W
    <3>1. x = z + e \/ x = z + e + W \/ x = z + e - W \/ x = z + e + 2 * W
      BY <1>1, <1>2, <1>3, <2>2, ClockAssumption
    <3>2. x # z + e + 2 * W
      BY <1>1, <1>3, ClockAssumption
    <3> QED
      BY <1>1, <1>3, <3>1, <3>2, SignedIs
  <2> QED
    BY <1>1, <2>1, <2>2
<1> QED
  BY <1>4 DEF z, s

-----------------------------------------------------------------------------
(* The time to the restart that is armed, less than none when it is overdue.*)
Until == signed(due, now)

(* It is within what some request asked for; loop() finds it due before Lag  *)
(* has passed; what the last request was told is kept, and what the earliest *)
(* of them was told unless the last answer has yet to leave.                 *)
Timed ==
    /\ Until <= AckFloor \/ \E d \in Delay : Until <= d
    /\ 0 < Until + sinceTick
    /\ sinceAsk < AckFloor => AckFloor - sinceAsk <= Until
    /\ Until <= later(promise, AckFloor - sinceAsk)

Clocks ==
    /\ now \in 0 .. W - 1 /\ due \in 0 .. W - 1
    /\ sinceTick \in 0 .. Lag /\ sinceAsk \in 0 .. AckFloor /\ promise \in Int

TInv == Clocks /\ state \in State /\ (state = "armed" => Timed) /\ AckWindow

LEMMA TInitHolds == Init => TInv
BY ClockAssumption, DelayAssumption DEF Init, TInv, Clocks, AckWindow, State

(* A time that is not far off is read as it is.                             *)
LEMMA UntilIs ==
    ASSUME Clocks, Timed
    PROVE  /\ Until \in Int /\ 2 * Until < W
           /\ \A d \in Delay \cup {1, AckFloor} : -W < 2 * (Until - d)
<1>1. Until \in Int
  BY SignedOf DEF Until, Clocks
<1>2. -Lag < Until
  BY <1>1, DelayAssumption DEF Clocks, Timed
<1>3. 2 * Until < W
  <2>1. CASE Until <= AckFloor
    BY <1>1, <2>1, HorizonAssumption, DelayAssumption, ClockAssumption
  <2>2. CASE \E d \in Delay : Until <= d
    BY <1>1, <2>2, HorizonAssumption, DelayAssumption, ClockAssumption
  <2> QED
    BY <2>1, <2>2 DEF Timed
<1>4. ASSUME NEW d \in Delay \cup {1, AckFloor}
      PROVE  -W < 2 * (Until - d)
  <2>1. d \in Nat /\ 2 * (d + Lag) < W
    BY HorizonAssumption, DelayAssumption, ClockAssumption
  <2> QED
    BY <1>1, <1>2, <2>1, DelayAssumption, ClockAssumption
<1> QED
  BY <1>1, <1>3, <1>4

(* A reading so much ahead is at that distance, and another reading is that  *)
(* much nearer to it.                                                       *)
LEMMA Ahead ==
    ASSUME NEW y \in 0 .. W - 1, NEW k \in Delay \cup {AckFloor}
    PROVE  /\ k \in 0 .. W - 1
           /\ (y + k) % W \in 0 .. W - 1
           /\ signed((y + k) % W, y) = k
<1>1. k \in 0 .. W - 1 /\ -W < 2 * k /\ 2 * k < W
  BY HorizonAssumption, DelayAssumption, ClockAssumption
<1> DEFINE z == (y + k) % W
<1>2. z \in 0 .. W - 1 /\ (z = y + k \/ z = y + k - W)
  BY <1>1, Moved
<1> HIDE DEF z
<1>3. signed(z, y) = k
  BY <1>1, <1>2, SignedIs, ClockAssumption
<1> QED
  BY <1>1, <1>2, <1>3 DEF z

(* The deadline of a request: the earlier of the two there are, but not      *)
(* before the answer has left.                                              *)
LEMMA DeadlineIs ==
    ASSUME Clocks, state = "armed" => Timed, NEW delay \in Delay
    PROVE  /\ deadline(delay) \in 0 .. W - 1
           /\ signed(deadline(delay), now)
                = later(IF state = "armed" THEN earlier(Until, delay) ELSE delay, AckFloor)
<1> DEFINE asked == (now + delay) % W
           soon  == (now + AckFloor) % W
           first == IF state = "armed" /\ signed(due, asked) < 0 THEN due ELSE asked
           f     == IF state = "armed" THEN earlier(Until, delay) ELSE delay
<1>1. /\ asked \in 0 .. W - 1 /\ signed(asked, now) = delay
      /\ delay \in 0 .. W - 1 /\ delay \in Nat
  BY Ahead, DelayAssumption DEF Clocks
<1>2. /\ soon \in 0 .. W - 1 /\ signed(soon, now) = AckFloor
      /\ AckFloor \in 0 .. W - 1
  BY Ahead DEF Clocks
<1>3. state = "armed" => signed(due, asked) = Until - delay
  <2>1. SUFFICES ASSUME state = "armed"
                 PROVE  signed(due, asked) = Until - delay
    OBVIOUS
  <2>2. /\ Until \in Int /\ 2 * Until < W
        /\ -W < 2 * (Until - delay)
    BY <2>1, UntilIs
  <2>3. 2 * (Until - delay) < W
    BY <1>1, <2>2, ClockAssumption
  <2> QED
    BY <1>1, <2>2, <2>3, SignedAhead DEF Clocks, Until
<1>4. first \in 0 .. W - 1 /\ signed(first, now) = f /\ f \in Int
  <2>1. CASE state = "armed" /\ Until - delay < 0
    BY <1>1, <1>3, <2>1, UntilIs DEF Clocks, Until, earlier
  <2>2. CASE state = "armed" /\ ~(Until - delay < 0)
    BY <1>1, <1>3, <2>2, UntilIs DEF Clocks, Until, earlier
  <2>3. CASE state # "armed"
    BY <1>1, <2>3
  <2> QED
    BY <2>1, <2>2, <2>3
<1>5. 2 * f < W /\ -W < 2 * (f - AckFloor)
  <2>1. CASE state = "armed" /\ f = Until
    BY <2>1, UntilIs
  <2>2. CASE f = delay
    BY <2>2, HorizonAssumption, DelayAssumption, ClockAssumption
  <2> QED
    BY <2>1, <2>2 DEF earlier
<1> HIDE DEF first, f, soon, asked
<1>6. signed(first, soon) = f - AckFloor
  <2>1. 2 * (f - AckFloor) < W
    BY <1>2, <1>4, <1>5, ClockAssumption
  <2> QED
    BY <1>2, <1>4, <1>5, <2>1, SignedAhead DEF Clocks, soon
<1>7. deadline(delay) = IF f - AckFloor < 0 THEN soon ELSE first
  BY <1>6 DEF deadline, floored, first, soon, asked
<1>8. /\ deadline(delay) \in 0 .. W - 1
      /\ signed(deadline(delay), now) = later(f, AckFloor)
  BY <1>2, <1>4, <1>7, ClockAssumption DEF later
<1> QED
  BY <1>8 DEF f

LEMMA RequestKeepsTime ==
    ASSUME TInv, NEW c \in Caller, NEW to \in Target, NEW delay \in Delay, Request(c, to, delay)
    PROVE  TInv'
<1>1. /\ state \in {"idle", "armed"} /\ state' = "armed"
      /\ due' = deadline(delay) /\ now' = now /\ sinceTick' = sinceTick
      /\ sinceAsk' = 0
      /\ promise' = IF state = "armed" THEN earlier(promise, delay) ELSE delay
  BY DEF Request, accepts
<1> DEFINE f == IF state = "armed" THEN earlier(Until, delay) ELSE delay
<1>2. due' \in 0 .. W - 1 /\ signed(due', now) = later(f, AckFloor)
  BY <1>1, DeadlineIs DEF TInv
<1>3. Until' = later(f, AckFloor)
  BY <1>1, <1>2 DEF Until
<1>4. delay \in Nat /\ AckFloor \in Nat \ {0} /\ (state = "armed" => Until \in Int)
  BY UntilIs, DelayAssumption DEF TInv
<1>5. Clocks'
  BY <1>1, <1>2, <1>4, ClockAssumption, DelayAssumption DEF TInv, Clocks, earlier
<1>6. Timed'
  <2>1. f \in Int /\ f <= delay
    BY <1>4 DEF earlier
  <2>2. Until' <= AckFloor \/ Until' <= delay
    BY <1>3, <1>4, <2>1 DEF later
  <2>3. AckFloor <= Until'
    BY <1>3, <1>4, <2>1 DEF later
  <2>4. 0 < Until' + sinceTick'
    BY <1>1, <1>3, <1>4, <2>1, <2>3, DelayAssumption DEF TInv, Clocks, later
  <2>5. Until' <= later(promise', AckFloor)
    <3>1. CASE state = "armed"
      <4>1. Until <= promise \/ Until <= AckFloor
        BY <1>4, <3>1 DEF TInv, Clocks, Timed, later
      <4>2. f = earlier(Until, delay) /\ promise' = earlier(promise, delay)
        BY <1>1, <3>1
      <4>3. promise \in Int /\ Until \in Int /\ delay \in Nat /\ AckFloor \in Nat
        BY <1>4, <3>1 DEF TInv, Clocks
      <4>4. later(earlier(Until, delay), AckFloor) <= later(earlier(promise, delay), AckFloor)
        BY <4>1, <4>3 DEF earlier, later
      <4> HIDE DEF f
      <4> QED
        BY <1>3, <4>2, <4>4
    <3>2. CASE state # "armed"
      BY <1>1, <1>3, <1>4, <3>2 DEF later
    <3> QED
      BY <3>1, <3>2
  <2> QED
    BY <1>1, <1>4, <2>2, <2>3, <2>4, <2>5 DEF Timed
<1> QED
  BY <1>1, <1>5, <1>6 DEF TInv, State, AckWindow

LEMMA PassKeepsTime ==
    ASSUME TInv, Pass
    PROVE  TInv'
<1>1. /\ state \in State /\ state # "down" /\ sinceTick < Lag
      /\ now' = (now + 1) % W /\ sinceTick' = sinceTick + 1
      /\ sinceAsk' = earlier(AckFloor, sinceAsk + 1)
      /\ promise' = IF state = "armed" THEN later(promise - 1, -(AckFloor + Lag)) ELSE promise
      /\ state' = state /\ due' = due
  BY DEF Pass, seq, TInv
<1>2. 1 \in 0 .. W - 1
  BY HorizonAssumption, DelayAssumption, ClockAssumption
<1>3. Clocks'
  BY <1>1, <1>2, Moved, ClockAssumption, DelayAssumption DEF TInv, Clocks, earlier, later
<1>4. ASSUME state = "armed"
      PROVE  Timed'
  <2>1. Clocks /\ Timed
    BY <1>4 DEF TInv
  <2>2. Until \in Int /\ 2 * Until < W /\ -W < 2 * (Until - 1)
    BY <2>1, UntilIs
  <2>3. Until' = Until - 1
    BY <1>1, <1>2, <2>1, <2>2, SignedAhead, ClockAssumption DEF Until, Clocks
  <2>4. promise' = later(promise - 1, -(AckFloor + Lag))
    BY <1>1, <1>4
  <2>5. Until' <= AckFloor \/ \E d \in Delay : Until' <= d
    BY <2>1, <2>2, <2>3, DelayAssumption DEF Timed
  <2>6. 0 < Until' + sinceTick'
    BY <1>1, <2>1, <2>2, <2>3, DelayAssumption DEF Timed, Clocks
  <2>7. sinceAsk' < AckFloor => AckFloor - sinceAsk' <= Until'
    BY <1>1, <2>1, <2>2, <2>3, DelayAssumption DEF Timed, Clocks, earlier
  <2>8. Until' <= later(promise', AckFloor - sinceAsk')
    BY <1>1, <2>1, <2>2, <2>3, <2>4, DelayAssumption DEF Timed, Clocks, earlier, later
  <2> QED
    BY <2>5, <2>6, <2>7, <2>8 DEF Timed
<1>5. AckWindow'
  BY <1>1, DelayAssumption DEF TInv, AckWindow, earlier
<1> QED
  BY <1>1, <1>3, <1>4, <1>5 DEF TInv

LEMMA TickKeepsTime ==
    ASSUME TInv, Tick
    PROVE  TInv'
<1>1. /\ UNCHANGED <<now, due, sinceAsk, promise>> /\ sinceTick' = 0
      /\ \/ state = "idle" /\ state' = state
         \/ state = "armed" /\ ~isDue /\ state' = state
         \/ state = "armed" /\ isDue /\ state' = "quiescing"
         \/ state = "quiescing" /\ state' = "restarting"
  BY DEF Tick, hist
<1>2. Clocks' /\ state' \in State
  BY <1>1, DelayAssumption DEF TInv, Clocks, State
<1>3. state = "armed" => (isDue <=> Until <= 0)
  <2>1. SUFFICES ASSUME state = "armed"
                 PROVE  isDue <=> Until <= 0
    OBVIOUS
  <2>2. Clocks /\ Until \in Int /\ 2 * Until < W /\ -W < 2 * (Until - 1)
    BY <2>1, UntilIs DEF TInv
  <2>3. -W < 2 * Until /\ -Until \in Int /\ -W < 2 * (-Until) /\ 2 * (-Until) < W
    BY <2>2, UntilIs, <2>1, DelayAssumption, HorizonAssumption, ClockAssumption DEF TInv, Timed, Clocks
  <2>4. due = now + Until \/ due = now + Until + W \/ due = now + Until - W
    BY <2>2, SignedOf DEF Clocks, Until
  <2>5. \/ now = due + (-Until)
        \/ now = due + (-Until) + W
        \/ now = due + (-Until) - W
    BY <2>2, <2>4, ClockAssumption DEF Clocks
  <2>6. signed(now, due) = -Until
    BY <2>2, <2>3, <2>5, SignedIs DEF Clocks
  <2> QED
    BY <2>2, <2>6 DEF isDue
<1>4. state' = "armed" => Timed'
  <2>1. SUFFICES ASSUME state = "armed", ~isDue
                 PROVE  Timed'
    BY <1>1
  <2>2. Timed /\ Until \in Int /\ ~(Until <= 0) /\ Until' = Until
    BY <1>1, <1>3, <2>1, UntilIs DEF TInv, Until
  <2> QED
    BY <1>1, <2>2 DEF Timed
<1>5. AckWindow'
  <2>1. CASE state = "armed" /\ isDue
    <3>1. Timed /\ Until \in Int /\ Until <= 0
      BY <1>3, <2>1, UntilIs DEF TInv
    <3>2. sinceAsk = AckFloor
      BY <3>1, DelayAssumption DEF TInv, Clocks, Timed
    <3> QED
      BY <1>1, <3>2 DEF AckWindow
  <2>2. CASE state = "quiescing"
    BY <1>1, <2>2 DEF TInv, AckWindow
  <2>3. CASE state' \in {"idle", "armed"}
    BY <2>3 DEF AckWindow
  <2> QED
    BY <1>1, <2>1, <2>2, <2>3
<1> QED
  BY <1>2, <1>4, <1>5 DEF TInv

LEMMA NextKeepsTime == TInv /\ [Next]_vars => TInv'
<1> SUFFICES ASSUME TInv, [Next]_vars
             PROVE  TInv'
  OBVIOUS
<1>1. CASE Ask
  BY <1>1, RequestKeepsTime DEF Ask
<1>2. CASE \E c \in Caller : Arm(c)
  BY <1>2 DEF Arm, seq, TInv, Clocks, Timed, Until, AckWindow
<1>3. CASE Tick
  BY <1>3, TickKeepsTime
<1>4. CASE Restart
  BY <1>4 DEF Restart, hist, TInv, Clocks, AckWindow, State
<1>5. CASE Pass
  BY <1>5, PassKeepsTime
<1>6. CASE Others
  BY <1>6 DEF Others, seq, hist, TInv, Clocks, Timed, Until, AckWindow
<1>7. CASE ComeUp
  BY <1>7, ClockAssumption, DelayAssumption DEF ComeUp, fresh, TInv, Clocks, AckWindow, State
<1>8. CASE UNCHANGED vars
  BY <1>8 DEF vars, seq, hist, TInv, Clocks, Timed, Until, AckWindow
<1> QED
  BY <1>1, <1>2, <1>3, <1>4, <1>5, <1>6, <1>7, <1>8 DEF Next

(* "Two callers were each told their own delay": whoever asks for what, and  *)
(* across a wrap of the clock, no answer is cut off, no delay is longer than *)
(* its caller was told, and the restart goes where they were told.          *)
THEOREM MadeAsPromised == Spec => []MadeAsTold
<1>1. IInv /\ TInv => MadeAsTold
  BY DEF IInv, TInv, Timed, Until, MadeAsTold, EarliestKept
<1>2. Init => IInv /\ TInv
  BY InitHolds, TInitHolds
<1>3. IInv /\ TInv /\ [Next]_vars => IInv' /\ TInv'
  BY NextKeeps, NextKeepsTime
<1> QED
  BY <1>1, <1>2, <1>3, PTL DEF Spec
=============================================================================
