---------------------------- MODULE MCMesh ----------------------------
(* What the node says on the mesh, and the paths it keeps, on small         *)
(* instances: replies and their receipts, the airtime account and the list  *)
(* of paths. A run explores one of them.                                    *)
EXTENDS Replies

CONSTANTS m1, m2, m3, ann, bob
\* Two messages to one peer and one to another.
Messages == {m1, m2, m3}
Peers    == {ann, bob}
ToOf     == [m \in Messages |-> IF m = m3 THEN bob ELSE ann]

VARIABLE part   \* the component that runs

-----------------------------------------------------------------------------
\* Airtime
\* The default channel, one that reaches out of the 10 % band into two of
\* 0.1 %, one with a lower cap, one with a cap above its band's share, one
\* whose region was chosen against its frequency, and one without a band;
\* three bins of two units, on a clock that does not wrap.
Channels == {
    [freq |-> 869525, bw |-> 125, manual |-> 0, region |-> ""],
    [freq |-> 869425, bw |-> 125, manual |-> 0, region |-> "eu868"],
    [freq |-> 868300, bw |-> 125, manual |-> 0, region |-> ""],
    [freq |-> 869525, bw |-> 250, manual |-> 1, region |-> ""],
    [freq |-> 868300, bw |-> 125, manual |-> 5, region |-> "us915"],
    [freq |-> 906875, bw |-> 500, manual |-> 0, region |-> ""]}
VARIABLES
  channel, now, bins, last, locked, age, air
A == INSTANCE Airtime WITH
  Channel <- Channels, Air <- {4, 45, 100}, Bins <- 3, Bin <- 2, W <- 1024, Wake <- {0},
  Horizon <- 8
airtimeVars == <<
  channel, now, bins, last, locked, age, air>>

-----------------------------------------------------------------------------
\* Snapshot
VARIABLES
  table, dead, rows, rowPos, clean, sweepPos, due, published, at, sweeping, pos, spent,
  read, rowStop, rowsCut, stale, done, shifted, changes, throws
S == INSTANCE Snapshot WITH
  Paths <- 1..3, RowCap <- 2, Budget <- 4, Costs <- {1, 2}, MaxChanges <- 1, MaxThrows <- 1
snapshotVars == <<
  table, dead, rows, rowPos, clean, sweepPos, due, published, at, sweeping, pos, spent,
  read, rowStop, rowsCut, stale, done, shifted, changes, throws>>

-----------------------------------------------------------------------------
\* One component runs; the others stay where one of their runs begins.
AllInit ==
  /\ part \in {"replies", "airtime", "snapshot"}
  /\ Init /\ (part # "replies" => path = {})
  /\ A!Init /\ (part # "airtime" => channel = CHOOSE c \in Channels : c.freq = 869525 /\ c.bw = 125)
  /\ S!Init /\ (part # "snapshot" => table = <<>>)
AllNext ==
  \/ part = "replies" /\ Next /\ UNCHANGED <<part, airtimeVars, snapshotVars>>
  \/ part = "airtime" /\ A!Next /\ UNCHANGED <<part, vars, snapshotVars>>
  \/ part = "snapshot" /\ S!Next /\ UNCHANGED <<part, vars, airtimeVars>>
AllSpec ==
  /\ AllInit /\ [][AllNext]_<<part, vars, airtimeVars, snapshotVars>>
  /\ WF_vars(part = "replies" /\ Rns)
  /\ \A m \in Msg : WF_vars(part = "replies" /\ (Enqueue(m) \/ Refused(m)))
  /\ WF_snapshotVars(part = "snapshot" /\ S!Pass)
  /\ WF_snapshotVars(part = "snapshot" /\ S!Minute)

-----------------------------------------------------------------------------
\* Of Replies: a row says what became of its own message, and comes to its verdict.
LogConcludes == [](part = "replies" => RowsTrue) /\ (part = "replies" => RowsConclude)

\* Of Airtime: the duty cycle is that of the last hour, held, and told right.
WindowHonest == A!WindowCovers /\ A!DutyHeld /\ A!RetryHonest /\ A!LimitLegal

\* Of Snapshot: a list that is published was the table's, dead paths go, and
\* once the table rests its list is the one on the screens.
ListFollows == [](part = "snapshot" => S!ListIsTheTable) /\ (part = "snapshot" => S!SweptAndShown)
=============================================================================
