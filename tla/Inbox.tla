------------------------------- MODULE Inbox -------------------------------
(***************************************************************************)
(* The messages the node keeps: src/src/rns/LxmfInbox.{h,cpp} and what       *)
(* RnsTransport.cpp (handleLxmfMessage) gives it.                           *)
(*                                                                         *)
(* A message is noted on the Reticulum task, into a short queue, and written *)
(* by the loop task into a ring of slots in one file; the screens and the    *)
(* portal read pages of it, newest first, and a screen erases a              *)
(* conversation.  A write may fail half way, the node may restart at any     *)
(* point.  What a message says, and who is believed, is left out.           *)
(***************************************************************************)
EXTENDS Integers, Sequences, FiniteSets, SequencesExt, FiniteSetsExt

CONSTANTS
  Messages,     \* the messages others send; each may come again
  SenderOf(_),  \* who sent it
  Slots,        \* kInboxSlots
  QueueCap,     \* the queue's depth
  RecentMax,    \* kInboxRecentSigs
  Burst,        \* kInboxBurst
  Wipes,        \* a conversation may be erased
  MaxSeq,       \* bound: messages written
  MaxFaults     \* bound: restarts and failed writes

VARIABLES
  queue,        \* sQueue
  ring,         \* the file: per slot the record, with its sequence number
  newest,       \* sNewest
  recent,       \* sRecent: what was taken last, newest last
  tokens,       \* sTokens
  taken,        \* the last that note() took in this run, one more than it remembers
  faults

ram == <<queue, recent, tokens, taken>>
vars == <<ram, ring, newest, faults>>

Empty == [seq |-> 0, msg |-> "none"]
Slot(seq) == (seq - 1) % Slots

-----------------------------------------------------------------------------
\* note()

Seen(m) == m \in Range(recent)

LastOf(n, s, m) == IF Len(s) < n THEN Append(s, m) ELSE Append(Tail(s), m)

\* A repeat costs nothing, a token goes before the queue is found full.
Note(m) ==
  /\ tokens' = IF Seen(m) \/ tokens = 0 THEN tokens ELSE tokens - 1
  /\ IF ~Seen(m) /\ tokens > 0 /\ Len(queue) < QueueCap
     THEN /\ queue' = Append(queue, m) /\ recent' = LastOf(RecentMax, recent, m)
          /\ taken' = LastOf(RecentMax + 1, taken, m)
     ELSE UNCHANGED <<queue, taken, recent>>
  /\ UNCHANGED <<ring, newest, faults>>

Refill ==
  /\ tokens < Burst /\ tokens' = tokens + 1
  /\ UNCHANGED <<queue, recent, taken, ring, newest, faults>>

-----------------------------------------------------------------------------
\* poll(), write()

Written == [seq |-> newest + 1, msg |-> Head(queue)]

Poll ==
  /\ newest < MaxSeq
  /\ queue # <<>> /\ queue' = Tail(queue)
  /\ ring' = [ring EXCEPT ![Slot(newest + 1)] = Written]
  /\ newest' = newest + 1
  /\ UNCHANGED <<recent, tokens, taken, faults>>

\* Mutant: the number is used up by a write that fails.
PollFailsNumbered ==
  /\ queue # <<>> /\ queue' = Tail(queue)
  /\ faults < MaxFaults /\ faults' = faults + 1
  /\ ring' \in {ring, [ring EXCEPT ![Slot(newest + 1)] = Empty]}
  /\ newest' = newest + 1
  /\ UNCHANGED <<recent, tokens, taken>>

\* The file does not open, or the slot is left neither the old record nor the new.
PollFails ==
  /\ queue # <<>> /\ queue' = Tail(queue)
  /\ faults < MaxFaults /\ faults' = faults + 1
  /\ ring' \in {ring, [ring EXCEPT ![Slot(newest + 1)] = Empty]}
  /\ UNCHANGED <<recent, tokens, taken, newest>>

-----------------------------------------------------------------------------
\* wipeSender(): the slots of one sender, zeroed in place.
Wipe(s) ==
  /\ Wipes
  /\ ring' = [k \in DOMAIN ring |-> IF ring[k].seq # 0 /\ SenderOf(ring[k].msg) = s THEN Empty ELSE ring[k]]
  /\ UNCHANGED <<ram, newest, faults>>

Restart ==
  /\ faults < MaxFaults /\ faults' = faults + 1
  /\ queue' = <<>> /\ recent' = <<>> /\ taken' = <<>> /\ tokens' = Burst
  /\ newest' = Max({ring[k].seq : k \in DOMAIN ring})
  /\ UNCHANGED ring

-----------------------------------------------------------------------------
\* readPage() from the newest, as long a page as there are slots.

InRing(seq) == seq \in 1..newest /\ seq > newest - Slots
Readable(seq) == InRing(seq) /\ ring[Slot(seq)].seq = seq

\* It ends at the first number it cannot read.
PageSeqs == {seq \in 1..newest : \A k \in seq..newest: Readable(k)}

-----------------------------------------------------------------------------
Init ==
  /\ queue = <<>> /\ recent = <<>> /\ tokens = Burst /\ taken = <<>>
  /\ ring = [k \in 0..(Slots - 1) |-> Empty] /\ newest = 0
  /\ faults = 0

Next == \/ \E m \in Messages: Note(m)
        \/ Refill \/ Poll \/ PollFails \/ Restart
        \/ \E s \in {SenderOf(m) : m \in Messages}: Wipe(s)

Spec == Init /\ [][Next]_vars

-----------------------------------------------------------------------------
\* Every message the file holds is on the pages, whatever writes failed.
NothingBuried == {ring[k].seq : k \in DOMAIN ring} \ {0} = PageSeqs

\* In one run a message is taken again only after RecentMax others.
RepeatsApart == \A i, j \in DOMAIN taken: taken[i] = taken[j] => i = j
=============================================================================
