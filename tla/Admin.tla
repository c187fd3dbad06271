-------------------------------- MODULE Admin --------------------------------
(***************************************************************************)
(* Commands that come as messages: src/src/rns/RnsAdmin.h (judge, the list)  *)
(* and RnsAdmin.cpp (offer, reload, the floors, poll).  The Reticulum task   *)
(* offers each message that arrives; the loop task runs what was queued; the *)
(* settings are committed by the loop task or the web server's, each of      *)
(* which then rebuilds the list while messages go on arriving.  A message    *)
(* may be delivered any number of times, by anyone who kept a copy.          *)
(*                                                                         *)
(* A command is named by its sender and the sender's clock.  Its text, its   *)
(* length and the answers are left out; what running it does is the          *)
(* console's (Console).                                                     *)
(***************************************************************************)
EXTENDS Integers, Sequences, FiniteSets

CONSTANTS
  Senders,       \* who may be an administrator
  Times,         \* the senders' clocks: positive integers
  Depth,         \* the queue's depth
  Editors,       \* the tasks that commit settings
  Lists,         \* the lists an operator may set
  Returns,       \* whether a sender taken off the list may be put back
  Gaps,          \* whether power may fail between a command's place in the queue and its floor
  MaxEdits,      \* bound: settings committed in one behaviour
  MaxCuts        \* bound: restarts in one behaviour

ASSUME TimesAssumption == Times \subseteq Nat \ {0}
ASSUME ListsAssumption == Lists \subseteq SUBSET Senders

Commands == [from: Senders, sent: Times]
Nothing  == [from |-> "nobody", sent |-> 0]

VARIABLES
  wanted, on,    \* settings: rnsAdmins, rnsAdmin
  list, enabled, \* sList's hashes, sEnabled
  seen,          \* sList's lastSeen: sender -> newest accepted, 0 where there is none
  stored,        \* the floors in flash
  queue,
  saving,        \* the command queued whose floor is being written, under sLock
  edit,          \* editor -> where its commit is
  accepted,      \* commands that got a place in the queue
  runs,          \* command -> times it ran, counted to two
  off,           \* senders once taken off the list
  edits, cuts

settings == <<wanted, on>>
inRam    == <<list, enabled, seen>>
bounds   == <<edits, cuts>>
history  == <<accepted, runs, off>>
vars == <<settings, inRam, stored, queue, saving, edit, history, bounds>>

NoFloors == [s \in Senders |-> 0]
Later(a, b) == IF a > b THEN a ELSE b
Locked == saving # Nothing

Resting == [at |-> "none", next |-> {}, floors |-> NoFloors, on |-> FALSE]

-----------------------------------------------------------------------------
\* judge(): on, proved, an administrator, strictly newer.
Allows(c) == /\ enabled /\ list # {}
             /\ c.from \in list
             /\ c.sent > seen[c.from]

\* offer(): a verified message.  What is refused, and what finds the queue
\* full, leaves everything as it was; so does one whose signature did not match.
Offer(c) ==
  /\ ~Locked
  /\ Allows(c) /\ Len(queue) < Depth
  /\ queue' = Append(queue, c)
  /\ seen' = [seen EXCEPT ![c.from] = c.sent]
  /\ saving' = c
  /\ accepted' = accepted \cup {c}
  /\ UNCHANGED <<settings, list, enabled, stored, edit, runs, off, bounds>>

\* saveFloors(): the floors of those on the list, and nobody else's.
SaveFloors ==
  /\ Locked
  /\ stored' = [s \in Senders |-> IF s \in list THEN seen[s] ELSE 0]
  /\ saving' = Nothing
  /\ UNCHANGED <<settings, inRam, queue, edit, history, bounds>>

\* poll(): one queued command, on the loop task; it takes no lock.
Run ==
  /\ queue # <<>>
  /\ runs' = [runs EXCEPT ![Head(queue)] = IF @ = 0 THEN 1 ELSE 2]
  /\ queue' = Tail(queue)
  /\ UNCHANGED <<settings, inRam, stored, saving, edit, accepted, off, bounds>>

-----------------------------------------------------------------------------
\* commitMaintenance and reload(): the settings are saved, read back, the floors
\* in flash read beside them, and the list swapped in under the lock.

Commit(e) ==
  /\ edit[e].at = "none" /\ edits < MaxEdits /\ edits' = edits + 1
  /\ wanted' \in {l \in Lists: Returns \/ l \cap off = {}}
  /\ on' \in BOOLEAN
  /\ off' = off \cup (wanted \ wanted')
  /\ edit' = [edit EXCEPT ![e].at = "saved"]
  /\ UNCHANGED <<inRam, stored, queue, saving, accepted, runs, cuts>>

Floors(next) == [s \in Senders |-> IF s \in next THEN stored[s] ELSE 0]

Read(e) ==
  /\ edit[e].at = "saved"
  /\ edit' = [edit EXCEPT ![e] = [at |-> "read", next |-> wanted, floors |-> Floors(wanted), on |-> on]]
  /\ UNCHANGED <<settings, inRam, stored, queue, saving, history, bounds>>

\* Mutant: what was accepted since the floors were read is forgotten.
SwapLoaded(e) ==
  LET x == edit[e]
  IN  /\ x.at = "read" /\ ~Locked
      /\ seen' = x.floors
      /\ list' = x.next /\ enabled' = x.on
      /\ edit' = [edit EXCEPT ![e] = Resting]
      /\ UNCHANGED <<settings, stored, queue, saving, history, bounds>>

Swap(e) ==
  LET x == edit[e]
  IN  /\ x.at = "read" /\ ~Locked
      /\ seen' = [s \in Senders |-> IF s \in x.next /\ s \in list THEN Later(x.floors[s], seen[s])
                                    ELSE x.floors[s]]
      /\ list' = x.next /\ enabled' = x.on
      /\ edit' = [edit EXCEPT ![e] = Resting]
      /\ UNCHANGED <<settings, stored, queue, saving, history, bounds>>

-----------------------------------------------------------------------------
\* A restart: what was queued is gone, begin() reads the list and the floors.
Restart ==
  /\ cuts < MaxCuts /\ cuts' = cuts + 1
  /\ Gaps \/ ~Locked
  /\ list' = wanted /\ enabled' = on /\ seen' = Floors(wanted)
  /\ queue' = <<>> /\ saving' = Nothing
  /\ edit' = [e \in Editors |-> Resting]
  /\ UNCHANGED <<settings, stored, history, edits>>

Init ==
  /\ wanted \in Lists /\ on \in BOOLEAN
  /\ list = wanted /\ enabled = on
  /\ seen = NoFloors /\ stored = NoFloors
  /\ queue = <<>> /\ saving = Nothing
  /\ edit = [e \in Editors |-> Resting]
  /\ accepted = {} /\ runs = [c \in Commands |-> 0] /\ off = {}
  /\ edits = 0 /\ cuts = 0

Next == \/ \E c \in Commands: Offer(c)
        \/ SaveFloors \/ Run \/ Restart
        \/ \E e \in Editors: Commit(e) \/ Read(e) \/ Swap(e)

Spec == Init /\ [][Next]_vars

-----------------------------------------------------------------------------
\* A command runs once, however often its message is delivered, through
\* restarts and through every rebuilding of the list.
RunsOnce == \A c \in Commands: runs[c] <= 1

\* The floors are earned: none, in memory or in flash, is past the newest
\* command that got its place, so one that was turned away can be sent again.
FloorsEarned == \A s \in Senders: Later(seen[s], stored[s]) \in {0} \cup {c.sent: c \in {x \in accepted: x.from = s}}

\* Once a commit is over, orders are taken from those the settings name and
\* from nobody else: the change applies at once.
ListedNow ==
  [][Len(queue') > Len(queue) /\ (\A e \in Editors: edit[e].at = "none")
     => on /\ queue'[Len(queue')].from \in wanted]_vars

\* Orders are taken once, by floors that were earned, from those now listed.
OrdersOnce == [](RunsOnce /\ FloorsEarned) /\ ListedNow
=============================================================================
