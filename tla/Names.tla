------------------------------- MODULE Names -------------------------------
(***************************************************************************)
(* Who was heard, and under what name: the table of neighbours             *)
(* (rns/Neighbors.cpp), and the names kept in a file (rns/PeerNames.cpp).  *)
(*                                                                         *)
(* The transport's task remembers a name and writes the file; the panel's  *)
(* task looks names up, and empties the memory when the node is erased.    *)
(* Either may be the first to load the file.                               *)
(***************************************************************************)
EXTENDS Integers, Sequences, SequencesExt

CONSTANTS
  Heard,                 \* what announces carry: records [hash, name]
  NoOne,                 \* a free slot of the table
  kMax,                  \* names kept
  MAX_NEIGHBORS,
  MaxFaults              \* bound: times the file does not open for writing

VARIABLES
  n,           \* _n: per slot the hash and how many were heard since (lastSeen)
  recent,      \* the hashes heard, the newest first
  sCache, sNext, sLoaded,
  file,        \* the names in it; a file that is not there has none
  rns, ui,     \* where each task is, and what it holds
  gone,        \* what was erased and not heard since
  raced,       \* the memory was emptied while the file was open
  faults, behind         \* a save that failed: the file is behind
table == <<n, recent>>
names == <<sCache, sNext, sLoaded>>
vars == <<table, names, file, rns, ui, gone, raced, faults, behind>>

Slots == 1..MAX_NEIGHBORS
Idle == [at |-> "idle", what |-> [hash |-> NoOne, name |-> NoOne], scratch |-> << >>]

-----------------------------------------------------------------------------
\* Neighbors::seen: the slot it has, else a free one, else the oldest.
slotOf(h) ==
  IF \E i \in Slots : n[i].hash = h THEN CHOOSE i \in Slots : n[i].hash = h
  ELSE IF \E i \in Slots : n[i].hash = NoOne
       THEN CHOOSE i \in Slots : n[i].hash = NoOne /\ \A j \in Slots : j < i => n[j].hash # NoOne
  ELSE CHOOSE i \in Slots : \A j \in Slots : n[i].since >= n[j].since

\* Those heard since move back by one: up to where it was, or where the list ends.
upTo(h) ==
  IF \E k \in DOMAIN recent : recent[k] = h THEN CHOOSE k \in DOMAIN recent : recent[k] = h
  ELSE IF Len(recent) < MAX_NEIGHBORS THEN Len(recent) + 1 ELSE MAX_NEIGHBORS

seen(h) ==
  /\ n' = [i \in Slots |-> IF i = slotOf(h) THEN [hash |-> h, since |-> 0]
                           ELSE IF n[i].since < n[slotOf(h)].since \/ n[slotOf(h)].hash # h
                                THEN [n[i] EXCEPT !.since = IF n[i].hash = NoOne THEN 0 ELSE @ + 1] ELSE n[i]]
  /\ recent' = [k \in 1..(IF upTo(h) > Len(recent) THEN upTo(h) ELSE Len(recent)) |->
                 IF k = 1 THEN h ELSE IF k <= upTo(h) THEN recent[k - 1] ELSE recent[k]]
byHash(h) == \E i \in Slots : n[i].hash = h

\* An announce that is filed: seen, and its name is remembered.
received_announce(e) ==
  /\ rns.at = "idle" /\ seen(e.hash)
  /\ rns' = [at |-> "load", what |-> e, scratch |-> << >>]
  /\ UNCHANGED <<names, file, ui, gone, raced, faults, behind>>

-----------------------------------------------------------------------------
\* loadIfNeeded: the file is read into a scratch table without the lock.
Loads(t, next) == IF sLoaded THEN [t EXCEPT !.at = next] ELSE [t EXCEPT !.at = "read", !.scratch = file]

\* Mutant: whoever has read the file puts it in the memory.
PublishedAnyhow(t) ==
  sLoaded' = TRUE /\ sCache' = t.scratch /\ sNext' = Len(t.scratch) % kMax

\* It becomes the memory only if nobody filled or emptied it meanwhile.
Published(t) ==
  IF sLoaded THEN UNCHANGED names
  ELSE sLoaded' = TRUE /\ sCache' = t.scratch /\ sNext' = Len(t.scratch) % kMax

loadRns ==
  /\ \/ rns.at = "load" /\ rns' = Loads(rns, "remember") /\ UNCHANGED names
     \/ rns.at = "read" /\ Published(rns) /\ rns' = [rns EXCEPT !.at = "remember", !.scratch = << >>]
  /\ UNCHANGED <<table, file, ui, gone, raced, faults, behind>>

\* Under the lock: a new name for a hash replaces the old; a new hash takes the
\* next place, the place of another once there are kMax.
At(h) == {i \in DOMAIN sCache : sCache[i].hash = h}
remember ==
  LET e == rns.what
  IN  /\ rns.at = "remember"
      /\ \/ At(e.hash) = {} /\ Len(sCache) < kMax /\ sCache' = Append(sCache, e) /\ sNext' = sNext
         \/ At(e.hash) = {} /\ Len(sCache) = kMax
            /\ sCache' = [sCache EXCEPT ![sNext + 1] = e] /\ sNext' = (sNext + 1) % kMax
         \/ At(e.hash) # {}
            /\ sCache' = [i \in DOMAIN sCache |-> IF i \in At(e.hash) THEN e ELSE sCache[i]] /\ sNext' = sNext
      /\ rns' = IF sCache' # sCache THEN [rns EXCEPT !.at = "open"] ELSE Idle
      /\ gone' = gone \ {e}
      /\ UNCHANGED <<table, sLoaded, file, ui, raced, faults, behind>>

\* save: opened, copied under the lock, written and closed.
openSave ==
  /\ rns.at = "open"
  /\ \/ rns' = [rns EXCEPT !.at = "copy"] /\ UNCHANGED <<faults, behind>>
     \/ faults < MaxFaults /\ faults' = faults + 1 /\ behind' = TRUE /\ rns' = Idle
  /\ UNCHANGED <<table, names, file, ui, gone, raced>>
copySave ==
  /\ rns.at = "copy" /\ rns' = [rns EXCEPT !.at = "close", !.scratch = sCache]
  /\ UNCHANGED <<table, names, file, ui, gone, raced, faults, behind>>
closeSave ==
  /\ rns.at = "close" /\ file' = rns.scratch /\ rns' = Idle /\ behind' = FALSE
  /\ UNCHANGED <<table, names, ui, gone, raced, faults>>

-----------------------------------------------------------------------------
\* peerLabel: the neighbours first, then the names that were kept.
peerLabel(h) ==
  /\ ui.at = "idle" /\ ~byHash(h) /\ ~sLoaded
  /\ ui' = Loads(ui, "idle")
  /\ UNCHANGED <<table, names, file, rns, gone, raced, faults, behind>>
lookup ==
  /\ ui.at = "read" /\ Published(ui) /\ ui' = Idle
  /\ UNCHANGED <<table, file, rns, gone, raced, faults, behind>>

\* wipe: the memory, then the file; the node restarts when it is done.
wipe ==
  /\ ui.at = "idle" /\ ui' = [Idle EXCEPT !.at = "remove"]
  /\ sCache' = << >> /\ sNext' = 0 /\ sLoaded' = TRUE
  /\ gone' = (gone \cup ToSet(sCache) \cup ToSet(file)) \ (IF rns.at \in {"load", "read", "remember"} THEN {rns.what} ELSE {})
  /\ raced' = (raced \/ rns.at \in {"copy", "close"})
  /\ UNCHANGED <<table, file, rns, faults, behind>>
\* A file that is open elsewhere may or may not be removed.
removeFile ==
  /\ ui.at = "remove" /\ ui' = [Idle EXCEPT !.at = "restart"]
  /\ file' \in {<< >>} \cup (IF rns.at \in {"copy", "close"} THEN {file} ELSE {})
  /\ raced' = (raced \/ rns.at \in {"copy", "close"})
  /\ behind' = (sCache # << >>)
  /\ UNCHANGED <<table, names, rns, gone, faults>>
\* A file that was open is, on the flash, what it was before.
Restart ==
  /\ n' = [i \in Slots |-> [hash |-> NoOne, since |-> 0]] /\ recent' = << >>
  /\ sCache' = << >> /\ sNext' = 0 /\ sLoaded' = FALSE
  /\ rns' = Idle /\ ui' = Idle /\ behind' = FALSE
  /\ gone' = IF ui.at = "remove" THEN {} ELSE gone
  /\ UNCHANGED <<file, raced, faults>>

-----------------------------------------------------------------------------
Init ==
  /\ n = [i \in Slots |-> [hash |-> NoOne, since |-> 0]] /\ recent = << >>
  /\ sCache = << >> /\ sNext = 0 /\ sLoaded = FALSE /\ file = << >>
  /\ rns = Idle /\ ui = Idle /\ gone = {} /\ raced = FALSE /\ faults = 0 /\ behind = FALSE

Transport == (\E e \in Heard : received_announce(e)) \/ loadRns \/ remember \/ openSave \/ copySave \/ closeSave
Glass == (\E e \in Heard : peerLabel(e.hash)) \/ lookup \/ wipe \/ removeFile
Next == Transport \/ Glass \/ Restart
Spec == Init /\ [][Next]_vars

-----------------------------------------------------------------------------
\* Neighbors.cpp: the table holds those heard last, each once.
TableNewest ==
  /\ {n[i].hash : i \in Slots} \ {NoOne} = ToSet(recent)
  /\ \A i, j \in Slots : n[i].hash = n[j].hash /\ n[i].hash # NoOne => i = j

\* A name heard is a name kept: once nothing is under way, what is in memory is
\* what the file holds, and no hash has two names.
NamesKept ==
  /\ rns.at = "idle" /\ ui.at \in {"idle", "restart"} /\ sLoaded /\ ~behind /\ ~raced => file = sCache
  /\ \A i, j \in DOMAIN sCache : sCache[i].hash = sCache[j].hash => i = j

\* What was erased stays away until it is heard again, unless the file was open
\* at that moment.
StaysErased == raced \/ (gone \cap ToSet(sCache) = {} /\ (ui.at # "remove" => gone \cap ToSet(file) = {}))

\* UiIdentity.cpp:155: remembered names go with the keys.
NamesGoWithTheKeys == ui.at # "remove" => gone \cap (ToSet(sCache) \cup ToSet(file)) = {}

=============================================================================
