--------------------------------- MODULE Airtime ---------------------------------
(***************************************************************************)
(* The duty-cycle limiter of src/radio/Airtime.cpp: which share of an hour *)
(* a channel may transmit, and the ring of one-minute bins that remembers  *)
(* how much it did.  The ring is indexed by a clock that wraps at W.       *)
(*                                                                         *)
(* Airtime is counted in basis points of the window, as the limits are.    *)
(***************************************************************************)
EXTENDS Integers, Functions

CONSTANTS Channel,   \* [freq (kHz), bw (kHz), manual (percent), region (or "")] to choose from
          Air,       \* airtimes of a frame
          Bins,      \* BINS
          Bin,       \* BIN_MS
          W,         \* 2^32
          Wake,      \* readings of the clock the node may start from
          Horizon    \* bound: how long it is watched

VARIABLES
    channel,  \* the radio's settings
    now,      \* millis()
    bins,     \* _bins
    last,     \* _lastBinStamp
    locked,   \* g_stats.dutyLocked
    age,      \* time since the start
    air       \* history: airtime sent in each of the last Bins * Bin units, 0 the newest

vars == <<channel, now, bins, last, locked, age, air>>

-----------------------------------------------------------------------------
(* The band plan.  Frequencies are doubled, so that half a bandwidth counts. *)

kEuBands == {
    [low |-> 863000, high |-> 865000, share |->   10],
    [low |-> 865000, high |-> 868000, share |->  100],
    [low |-> 868000, high |-> 868600, share |->  100],
    [low |-> 868600, high |-> 868700, share |->   10],
    [low |-> 868700, high |-> 869200, share |->   10],
    [low |-> 869200, high |-> 869400, share |->   10],
    [low |-> 869400, high |-> 869650, share |-> 1000],
    [low |-> 869650, high |-> 869700, share |->   10],
    [low |-> 869700, high |-> 870000, share |->  100]}

Regimes == [eu868 |-> "EuSrd868", us915 |-> "UsIsm915", ism2400 |-> "Ism2400", custom |-> "None"]

regionForFreq(f) ==
    IF 863000 <= f /\ f <= 870000 THEN "eu868"
    ELSE IF 902000 <= f /\ f <= 928000 THEN "us915"
    ELSE IF 2400000 <= f /\ f <= 2483500 THEN "ism2400" ELSE "custom"

(* A region that was chosen stands, whatever the frequency.                 *)
regimeOf(c) ==
    Regimes[IF c.region \in DOMAIN Regimes THEN c.region ELSE regionForFreq(c.freq)]

overlaps(b, c) ==
    \/ 2 * c.freq + c.bw > 2 * b.low /\ 2 * c.freq - c.bw < 2 * b.high
    \/ c.bw = 0 /\ b.low <= c.freq /\ c.freq <= b.high

touched(c) == {b \in kEuBands : overlaps(b, c)}

(* The strictest band the channel reaches into.                             *)
bandFor(c) == {b \in touched(c) : \A o \in touched(c) : b.share <= o.share}

(* 95 % of what the band allows, and a manual cap only where it is lower;   *)
(* outside the European plan the manual cap is all there is, and 0 is none. *)
effectiveBasisPoints(c) ==
    LET manual  == c.manual * 100
        share   == CHOOSE s \in {b.share : b \in bandFor(c)} : TRUE
        allowed == IF (share * 95) \div 100 = 0 THEN 1 ELSE (share * 95) \div 100
    IN IF regimeOf(c) # "EuSrd868" \/ bandFor(c) = {} THEN manual
       ELSE IF 0 < manual /\ manual < allowed THEN manual ELSE allowed

limit == effectiveBasisPoints(channel)

-----------------------------------------------------------------------------
(* The window.                                                              *)

stamp(t) == (t % W) \div Bin
Total(f) == FoldFunction(+, 0, f)

(* rollover(): every bin between the last one touched and now is emptied.   *)
(* The mutant forgets the bin that is being entered.                        *)
RolledShort(b, l, s) ==
    LET elapsed == (s - l) % W
    IN [i \in 0 .. Bins - 1 |->
            IF elapsed >= Bins \/ \E k \in 1 .. elapsed - 1 : (l + k) % Bins = i THEN 0 ELSE b[i]]

rolled(b, l, s) ==
    LET elapsed == (s - l) % W
    IN [i \in 0 .. Bins - 1 |->
            IF elapsed >= Bins \/ \E k \in 1 .. elapsed : (l + k) % Bins = i THEN 0 ELSE b[i]]

lockedAt(total) == limit > 0 /\ total >= limit

(* retryAfterS(): bins expire oldest first.                                 *)
retryAfter ==
    LET left(k) == Total([i \in 0 .. Bins - 1 |->
                       IF \E j \in 0 .. k : i = (stamp(now) + 1 + j) % Bins THEN 0 ELSE bins[i]])
        fits == {k \in 0 .. Bins - 1 : left(k) < limit}
        first == CHOOSE k \in fits : \A j \in fits : k <= j
    IN (Bin - (now % Bin)) + Bin * first

-----------------------------------------------------------------------------
(* addTx(), for a frame that was begun while the lock was off.              *)
Transmit(a) ==
    /\ ~locked /\ air[0] = 0
    /\ bins' = [rolled(bins, last, stamp(now)) EXCEPT ![stamp(now) % Bins] = @ + a]
    /\ last' = stamp(now)
    /\ air' = [air EXCEPT ![0] = a]
    /\ UNCHANGED <<channel, now, locked, age>>

(* A second passes; refreshAirtimeStats() looks at the window.              *)
Refresh ==
    /\ age < Horizon /\ age' = age + 1
    /\ now' = (now + 1) % W
    /\ bins' = rolled(bins, last, stamp(now')) /\ last' = stamp(now')
    /\ locked' = lockedAt(Total(bins'))
    /\ air' = [i \in DOMAIN air |-> IF i = 0 THEN 0 ELSE air[i - 1]]
    /\ UNCHANGED channel

Next == Refresh \/ \E a \in Air : Transmit(a)

Init ==
    /\ channel \in Channel /\ now \in Wake
    /\ bins = [i \in 0 .. Bins - 1 |-> 0] /\ last = stamp(now) /\ locked = FALSE
    /\ age = 0 /\ air = [i \in 0 .. Bins * Bin - 1 |-> 0]

Spec == Init /\ [][Next]_vars
-----------------------------------------------------------------------------
(* Properties.                                                              *)

(* Every variable has its type, and a bin holds no more than its minute can. *)
TypeOK ==
    /\ channel \in Channel /\ now \in 0 .. W - 1 /\ bins \in [0 .. Bins - 1 -> Nat]
    /\ \E a \in Air : \A i \in DOMAIN bins : bins[i] <= a * Bin
    /\ last \in 0 .. W /\ locked \in BOOLEAN /\ age \in 0 .. Horizon
    /\ air \in [0 .. Bins * Bin - 1 -> Air \cup {0}]

within(units) == Total([i \in 0 .. units - 1 |-> air[i]])

(* The bins are the last hour to within one minute: everything sent in      *)
(* fifty-nine minutes counts, and nothing older than sixty does.            *)
WindowCovers ==
    LET total == Total(rolled(bins, last, stamp(now)))
    IN within((Bins - 1) * Bin) <= total /\ total <= within(Bins * Bin)

(* "unsigned: survives millis() wrap" (Airtime.cpp:47): what was sent in    *)
(* the last minutes is remembered whatever the clock does.                  *)
SurvivesWrap == within((Bins - 1) * Bin) <= Total(rolled(bins, last, stamp(now)))

(* The window never holds more than the limit and the frame that crossed    *)
(* it.                                                                      *)
DutyHeld ==
    limit > 0 => \A a \in Air : (\A o \in Air : o <= a) => Total(bins) < limit + a

(* What a locked node says it must wait is right: silent for that long it   *)
(* is free, and not a second earlier.                                       *)
RetryHonest ==
    LET after(k) == Total(rolled(bins, last, stamp(now + k)))
    IN lockedAt(after(0)) => ~lockedAt(after(retryAfter)) /\ lockedAt(after(retryAfter - 1))

(* In the European plan no channel is held to more than any band it reaches *)
(* into allows, none goes unlimited, and a manual cap never raises one.     *)
LimitLegal ==
    regimeOf(channel) = "EuSrd868" =>
        /\ \A b \in kEuBands :
               ~(2 * channel.freq + channel.bw <= 2 * b.low \/ 2 * b.high <= 2 * channel.freq - channel.bw)
                   => limit <= b.share /\ limit > 0
        /\ channel.manual > 0 => limit <= channel.manual * 100
=============================================================================
