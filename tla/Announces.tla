----------------------------- MODULE Announces -----------------------------
(***************************************************************************)
(* When the node makes itself heard: the schedule of its announces         *)
(* (rns/RnsTransport.cpp, rns/RnsAnnounce.h) and the keys they are signed  *)
(* with (NodeIdentity, rns/RnsAnnounce.cpp).                               *)
(*                                                                         *)
(* One pass of the transport's task is one action; the clock is the        *)
(* controller's 32-bit count of milliseconds, wrapped at W, and times are  *)
(* compared by the sign of their difference, as the code compares them.    *)
(***************************************************************************)
EXTENDS Integers

CONSTANTS
  W,                          \* the clock's range
  Intervals,                  \* what the settings allow besides off, in ticks
  Spread,                     \* half the width of the scatter
  BootDelay, PeerDelay,       \* ANNOUNCE_BOOT_DELAY_MS, ANNOUNCE_ON_PEER_DELAY_MS
  MaxOff,                     \* bound: ticks with announces switched off
  LastPeer,                   \* bound: uptime at which the last peer comes
  MaxBoots, MaxErased         \* bounds: power cuts and restarts; keys destroyed

VARIABLES
  now,
  interval,                   \* settings.radio().announceInterval; 0 is off
  sNext, sFloor, sBookedFor, sForce,
  passed,                     \* the task has run since the clock moved
  up,                         \* ticks since the transport started, up to W
  off,                        \* ticks since a pass last saw announces on
  announcesTx, aired,         \* g_stats.announcesTx, and what went out
  xPrv, edSeed,               \* the two keys in flash; 0 is absent
  at, key,                    \* where start-up is; the pair of keys in use
  told,                       \* the pairs of keys others have heard announced
  erased, boots
clock == <<now, passed, up, off>>
schedule == <<sNext, sFloor, sBookedFor>>
stats == <<announcesTx, aired, told>>
flash == <<xPrv, edSeed>>
vars == <<clock, interval, schedule, sForce, stats, flash, at, key, erased, boots>>

\* (int32_t)(a - b)
Signed(a, b) == LET d == (a - b) % W IN IF d < W \div 2 THEN d ELSE d - W

-----------------------------------------------------------------------------
\* NodeIdentity::begin: the keys that are there, if both are; else a new pair,
\* written one at a time.
begin ==
  /\ at = "off"
  /\ IF xPrv # 0 /\ edSeed # 0
     THEN at' = "keyed" /\ key' = <<xPrv, edSeed>> /\ UNCHANGED xPrv
     ELSE at' = "second" /\ xPrv' = boots + 1 /\ key' = <<boots + 1, boots + 1>>
  /\ UNCHANGED <<clock, interval, schedule, sForce, stats, edSeed, erased, boots>>
putSeed ==
  /\ at = "second" /\ edSeed' = key[2] /\ at' = "keyed"
  /\ UNCHANGED <<clock, interval, schedule, sForce, stats, xPrv, key, erased, boots>>

\* NodeIdentity::destroy.
destroy ==
  /\ at = "up" /\ erased < MaxErased
  /\ xPrv' = 0 /\ edSeed' = 0 /\ erased' = erased + 1 /\ told' = {}
  /\ at' = "erased"
  /\ UNCHANGED <<clock, interval, schedule, sForce, announcesTx, aired, key, boots>>

\* RnsTransport::begin: nothing goes out before the radio had time to start.
start ==
  /\ at = "keyed" /\ at' = "up"
  /\ sFloor' = (now + BootDelay) % W /\ sNext' = (now + BootDelay) % W
  /\ up' = 0 /\ passed' = FALSE
  /\ UNCHANGED <<now, off, interval, sBookedFor, sForce, stats, flash, key, erased, boots>>

PowerCut ==
  /\ at # "off" /\ boots < MaxBoots /\ boots' = boots + 1
  /\ at' = "off" /\ key' = <<0, 0>> /\ now' = 0 /\ sBookedFor' = 0 /\ sForce' = FALSE
  /\ sNext' = 0 /\ sFloor' = 0 /\ up' = 0 /\ off' = 0 /\ passed' = FALSE
  /\ announcesTx' = 0 /\ aired' = 0
  /\ UNCHANGED <<interval, told, flash, erased>>

-----------------------------------------------------------------------------
\* Any task: the settings page, the panel's button.
SetInterval(i) ==
  /\ at = "up" /\ i # interval /\ interval' = i
  /\ UNCHANGED <<clock, schedule, sForce, stats, flash, at, key, erased, boots>>
announceNow ==
  /\ at = "up" /\ ~sForce /\ sForce' = TRUE
  /\ UNCHANGED <<clock, interval, schedule, stats, flash, at, key, erased, boots>>

\* A peer has come, seen early in a pass: forward, never back, never before the
\* floor.
announceSoon ==
  /\ at = "up" /\ ~passed /\ up <= LastPeer
  /\ LET soon == (now + PeerDelay) % W
         when == IF Signed(soon, sFloor) < 0 THEN sFloor ELSE soon
     IN  sNext' = IF Signed(when, sNext) < 0 THEN when ELSE sNext
  /\ UNCHANGED <<clock, interval, sFloor, sBookedFor, sForce, stats, flash, at, key, erased, boots>>

-----------------------------------------------------------------------------
\* Mutant: what was booked stays booked when the interval is lowered.
KeepBooked(booked, i) == booked

\* Rns::clampAnnounceTo
clampAnnounceTo(booked, i) == LET latest == (now + i) % W IN IF Signed(booked, latest) > 0 THEN latest ELSE booked

\* The announce that is booked, as this pass finds it.
Booked == IF interval # 0 /\ interval # sBookedFor THEN clampAnnounceTo(sNext, interval) ELSE sNext
Forced == sForce /\ Signed(now, sFloor) >= 0

\* Rns::nextAnnounceAt, with what esp_random may say.
nextAnnounceAt == IF interval = 0 THEN {now} ELSE {(now + interval + d) % W : d \in (0 - Spread)..Spread}

\* Booked before it is attempted; the delivery address, then the page, each
\* counted as it goes out. Either may throw, which ends the pass.
Announce ==
  /\ sNext' \in nextAnnounceAt
  /\ \E out \in 0..2 :
       /\ announcesTx' = (announcesTx + out) % 4 /\ aired' = (aired + out) % 4
       /\ told' = IF out > 0 THEN told \cup {key} ELSE told

loop ==
  /\ at = "up" /\ ~passed /\ passed' = TRUE
  /\ sBookedFor' = IF interval # 0 THEN interval ELSE sBookedFor
  /\ sForce' = (sForce /\ ~Forced)
  /\ IF Forced \/ (interval # 0 /\ Signed(now, Booked) >= 0)
     THEN Announce
     ELSE sNext' = Booked /\ UNCHANGED stats
  /\ off' = IF interval # 0 THEN 0 ELSE off
  /\ UNCHANGED <<now, up, interval, sFloor, flash, at, key, erased, boots>>

Tick ==
  /\ at = "up" /\ passed /\ passed' = FALSE
  /\ off < MaxOff
  /\ off' = off + 1
  /\ now' = (now + 1) % W /\ up' = IF up < W THEN up + 1 ELSE up
  /\ UNCHANGED <<interval, schedule, sForce, stats, flash, at, key, erased, boots>>

-----------------------------------------------------------------------------
Init ==
  /\ now = 0 /\ interval \in Intervals \cup {0} /\ sNext = 0 /\ sFloor = 0 /\ sBookedFor = 0
  /\ sForce = FALSE /\ passed = FALSE /\ up = 0 /\ off = 0
  /\ announcesTx = 0 /\ aired = 0 /\ told = {}
  /\ xPrv = 0 /\ edSeed = 0 /\ at = "off" /\ key = <<0, 0>> /\ erased = 0 /\ boots = 0

Next ==
  \/ begin \/ putSeed \/ start \/ destroy \/ PowerCut
  \/ \E i \in Intervals \cup {0} : SetInterval(i)
  \/ announceNow \/ announceSoon \/ loop \/ Tick
Spec == Init /\ [][Next]_vars

-----------------------------------------------------------------------------
\* RnsAnnounce.h:74-81: whatever the interval was, and however often it was
\* changed, after a pass the next announce is booked no further out than the
\* interval and its scatter, and is never left lying in the past.
BookedAhead ==
  at = "up" /\ passed /\ off = 0 /\ interval # 0 /\ interval = sBookedFor =>
    Signed(sNext, now) \in 1..(interval + Spread) \cup 1..BootDelay

\* The address others have heard is the one this node answers at until its keys
\* are destroyed, wherever power was cut while they were first written.
SameAddress == \A k \in told : (key # <<0, 0>> /\ at # "erased" => key = k) /\ (at # "erased" => flash = k)

\* RnsTransport.cpp:1822-1825: a pressed button that transmits nothing while
\* toasting success is a lie. A pass that runs once the floor is over takes it.
ForceTaken == at = "up" /\ passed /\ up >= BootDelay => ~sForce
=============================================================================
