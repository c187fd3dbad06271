------------------------------ MODULE StoreHome ------------------------------
(***************************************************************************)
(* Where the Reticulum store lives and how it moves: src/sys/StoreHome.cpp *)
(* together with the card task of src/sys/SdCard.cpp and the file system   *)
(* the store is opened on (src/rns/RnsFileSystem.h).                       *)
(*                                                                         *)
(* Nodes run the boot of main.cpp one step at a time (pc), each step one   *)
(* durable effect of runPendingMigration() or chooseAtBoot(), so that a    *)
(* power cut, a pulled card or a failed write can fall between any two.    *)
(* The operator moves cards between slots, asks for moves and formats, and *)
(* renames nodes.                                                          *)
(*                                                                         *)
(* A store is abstracted to the node whose data it holds, a version no two *)
(* writes share, and whether the tree is whole.  The marker's generation   *)
(* decides nothing and is left out, as is all wording.                     *)
(***************************************************************************)
EXTENDS Naturals, FiniteSets

CONSTANTS Node,          \* the nodes (their identities)
          Name,          \* the names an operator gives a node
          NoMarker,      \* the marker file is not there
          Unreadable,    \* the marker file is there and says nothing
          Card,          \* the SD cards
          NoCard,        \* an empty slot
          NoTree,        \* no store directory
          LegacyCards,   \* cards that start with a store from before markers
          Faults,        \* which of FaultKinds the environment may produce
          MaxWrites,     \* bound: store writes in a behaviour
          MaxCuts,       \* bound: power cuts in a behaviour
          MaxRenames     \* bound: operator renames in a behaviour

FaultKinds == {"cut",         \* power cut, anywhere but while a marker is re-signed
               "cutInSign",   \* power cut while chooseAtBoot rewrites a marker
               "fsFail",      \* a copy, rename or verification fails
               "markerWrite", \* writeMarker() fails
               "nvsWrite",    \* Settings::saveTransport() reports a failed key
               "pullInMove",  \* the card is pulled while a boot is moving the store
               "hotSwap"}     \* a card is inserted into a node whose card was lost

ASSUME CardAssumption == NoCard \notin Card /\ LegacyCards \subseteq Card
ASSUME FlashIsNoCard == "flash" \notin Card
ASSUME NoTreeAssumption == NoTree \notin [owner : Node, ver : Nat, whole : BOOLEAN]
ASSUME BoundAssumption == MaxWrites \in Nat /\ MaxCuts \in Nat /\ MaxRenames \in Nat
ASSUME FaultAssumption == Faults \subseteq FaultKinds

-----------------------------------------------------------------------------
(***************************************************************************)
(* The pure rules of src/sys/StoreHome.h: what a card holds, where the     *)
(* Reticulum store belongs, which move the boot has to make first and when *)
(* a request is refused.  A marker is NoMarker, Unreadable, or a record    *)
(* naming the node that wrote it, that node's name at the time, and        *)
(* whether the card was released.                                          *)
(***************************************************************************)

Where == {"littlefs", "sd"}
Class == {"none", "blank", "ours", "foreign", "legacy"}
Move  == {"none", "adopt", "eject"}

Claim  == [node : Node, name : Name, released : BOOLEAN]
Marker == Claim \cup {NoMarker, Unreadable}

ASSUME MarkerAssumption == /\ NoMarker \notin Claim /\ Unreadable \notin Claim
                           /\ NoMarker # Unreadable

(***************************************************************************)
(* What the card holds, from the facts that can be read off it.            *)
(***************************************************************************)
classify(n, mounted, marker, storePresent) ==
    CASE ~mounted            -> "none"
      [] mounted /\ marker \in Claim /\ marker.released -> "blank"
      [] mounted /\ marker \in Claim /\ ~marker.released ->
            IF marker.node = n THEN "ours" ELSE "foreign"
      [] mounted /\ marker = Unreadable -> "foreign"
      [] mounted /\ marker = NoMarker -> IF storePresent THEN "legacy" ELSE "blank"

(***************************************************************************)
(* Where the store belongs, given the setting and what the card holds.     *)
(* The mutant opens whatever card is there.                                *)
(***************************************************************************)
DecideAnyCard(sdStore, mounted, c) ==
    IF sdStore /\ mounted THEN "sd" ELSE "littlefs"

decide(sdStore, mounted, c) ==
    IF sdStore /\ mounted /\ c \in {"ours", "legacy"} THEN "sd" ELSE "littlefs"

adoptable(c) == c \notin {"none", "foreign"}

(***************************************************************************)
(* The move the boot makes before the store is opened.                      *)
(***************************************************************************)
planAtBoot(requested, sdStore, mounted, c) ==
    LET usable == mounted /\ adoptable(c)
        home   == decide(sdStore, mounted, c)
    IN CASE requested = "adopt" -> IF usable /\ home # "sd" THEN "adopt" ELSE "none"
         [] requested = "eject" -> IF usable /\ home = "sd" THEN "eject" ELSE "none"
         [] requested = "none"  -> IF sdStore /\ mounted /\ c = "blank" THEN "adopt" ELSE "none"

(***************************************************************************)
(* When a request is taken.  The code answers with a sentence; only        *)
(* whether there is one matters here.                                      *)
(***************************************************************************)
ejectRefused(moveQueued, onSd, cardLost) == moveQueued \/ ~onSd \/ cardLost

adoptRefused(moveQueued, onSd, c, cardLost) ==
    moveQueued \/ cardLost \/ c = "none" \/ onSd \/ c = "foreign"

-----------------------------------------------------------------------------
VARIABLES
    nvs,        \* [Node -> Transport]: the settings in flash
    ram,        \* [Node -> Transport]: settings.transport(), the copy in memory
    flash,      \* [Node -> Fs]: the LittleFS partition
    card,       \* [Card -> CardFs]: what each card holds
    slot,       \* [Node -> Card or NoCard]: what is physically in the slot
    mounted,    \* [Node -> Card or NoCard]: SdCard::_mounted, and which card
    info,       \* [Node -> State]: SdCard::_info.state
    lost,       \* SdCard::_storageLost
    formatReq,  \* SdCard::_formatRequested
    onSd,       \* RnsFileSystem::onSd(), which is also SdCard::_reserved
    cache,      \* sCache.card, the class everyone but the card task is told
    name,       \* the node's name, as resolveNames() will find it
    pc,         \* where the node is in its boot
    move,       \* the move runPendingMigration() decided on
    haveSource, \* its local of that name
    result,     \* sResult, as far as a reader could be misled by it
    home,       \* history: where the rules above put the store of record
    record,     \* history: what the store of record holds
    writes, cuts, renames

disk == <<nvs, flash, card>>
slotVars == <<slot, mounted, info, lost, formatReq>>
bootVars == <<onSd, cache, pc, move, haveSource, result>>
counters == <<writes, cuts, renames>>
vars == <<disk, ram, slotVars, bootVars, name, home, record, counters>>

Transport == [sdStore : BOOLEAN, pendingMove : Move]

Tree == [owner : Node, ver : Nat, whole : BOOLEAN] \cup {NoTree}
Fs == [live : Tree, staging : Tree]
CardFs == [marker : Marker, live : Tree, staging : Tree]
State == {"absent", "mounted", "error"}
Pc == {"off", "plan", "clear", "copy", "drop", "place", "mark", "save",
           "remove", "choose", "sign", "run"}
Result == {"none", "queued", "ok", "failed", "stays"}

torn(t) == IF t = NoTree THEN NoTree ELSE [t EXCEPT !.whole = FALSE]

-----------------------------------------------------------------------------
(* Reading and writing the two file systems of a node.  Everything a node  *)
(* does to a card that has been pulled fails or has no effect.             *)

CardIn(n) == mounted[n] # NoCard /\ slot[n] = mounted[n]

fsAt(n, w) ==
    IF w = "littlefs" THEN flash[n]
    ELSE IF CardIn(n) THEN [live |-> card[slot[n]].live, staging |-> card[slot[n]].staging]
    ELSE [live |-> NoTree, staging |-> NoTree]

putLive(n, w, t) ==
    IF w = "littlefs"
    THEN flash' = [flash EXCEPT ![n].live = t] /\ UNCHANGED card
    ELSE /\ card' = IF CardIn(n) THEN [card EXCEPT ![slot[n]].live = t] ELSE card
         /\ UNCHANGED flash

putStaging(n, w, t) ==
    IF w = "littlefs"
    THEN flash' = [flash EXCEPT ![n].staging = t] /\ UNCHANGED card
    ELSE /\ card' = IF CardIn(n) THEN [card EXCEPT ![slot[n]].staging = t] ELSE card
         /\ UNCHANGED flash

renameStaging(n, w) ==
    IF w = "littlefs"
    THEN flash' = [flash EXCEPT ![n] = [live |-> @.staging, staging |-> NoTree]] /\ UNCHANGED card
    ELSE /\ card' = [card EXCEPT ![slot[n]] = [@ EXCEPT !.live = card[slot[n]].staging,
                                                      !.staging = NoTree]]
         /\ UNCHANGED flash

From(n) == IF move[n] = "adopt" THEN "littlefs" ELSE "sd"
To(n)   == IF move[n] = "adopt" THEN "sd" ELSE "littlefs"

(***************************************************************************)
(* readMarker() and classify(), as refreshCache() applies them: a card     *)
(* that was pulled but not yet noticed reads as having neither file.       *)
(***************************************************************************)
markerRead(n) == IF CardIn(n) THEN card[slot[n]].marker ELSE NoMarker

cardClass(n) ==
    classify(n, mounted[n] # NoCard, markerRead(n), fsAt(n, "sd").live # NoTree)

myMarker(n, released) == [node |-> n, name |-> name[n], released |-> released]

(***************************************************************************)
(* Settings::saveTransport(): memory first, then one key at a time.  When  *)
(* a key fails the caller is told, whichever of the two keys here stuck.   *)
(***************************************************************************)
saved(n, t) ==
    /\ ram' = [ram EXCEPT ![n] = t]
    /\ nvs' = [nvs EXCEPT ![n] = t]

saveFailed(n, t) ==
    /\ "nvsWrite" \in Faults
    /\ ram' = [ram EXCEPT ![n] = t]
    /\ \E s \in {nvs[n].sdStore, t.sdStore}, m \in {nvs[n].pendingMove, t.pendingMove} :
          nvs' = [nvs EXCEPT ![n] = [sdStore |-> s, pendingMove |-> m]]

remember(n, m) ==
    \/ saved(n, [ram[n] EXCEPT !.pendingMove = m])
    \/ saveFailed(n, [ram[n] EXCEPT !.pendingMove = m])

(* A move that did not work: said, taken off the books, and the boot goes on. *)
(* The mutant is the failure that stayed queued.                              *)
FailKeepingRequest(n, what) ==
    /\ result' = [result EXCEPT ![n] = what]
    /\ pc' = [pc EXCEPT ![n] = "choose"]
    /\ UNCHANGED <<ram, nvs>>

fail(n, what) ==
    /\ result' = [result EXCEPT ![n] = what]
    /\ remember(n, "none")
    /\ pc' = [pc EXCEPT ![n] = "choose"]

-----------------------------------------------------------------------------
(* The boot, one durable effect at a time.                                  *)

(* SdCard::begin(): the card is mounted, or six attempts at it fail.        *)
PowerOn(n) ==
    /\ pc[n] = "off"
    /\ ram' = [ram EXCEPT ![n] = nvs[n]]
    /\ \E ok \in BOOLEAN :
          /\ mounted' = [mounted EXCEPT ![n] = IF ok THEN slot[n] ELSE NoCard]
          /\ info' = [info EXCEPT ![n] = IF slot[n] = NoCard THEN "absent"
                                         ELSE IF ok THEN "mounted" ELSE "error"]
    /\ lost' = [lost EXCEPT ![n] = FALSE]
    /\ formatReq' = [formatReq EXCEPT ![n] = FALSE]
    /\ onSd' = [onSd EXCEPT ![n] = FALSE]
    /\ result' = [result EXCEPT ![n] = "none"]
    /\ pc' = [pc EXCEPT ![n] = "plan"]
    /\ UNCHANGED <<disk, slot, cache, move, haveSource, name>>

(* refreshCache(), planAtBoot(), and the request dropped when it came to nothing. *)
Plan(n) ==
    LET c == cardClass(n)
        m == planAtBoot(ram[n].pendingMove, ram[n].sdStore, mounted[n] # NoCard, c)
    IN /\ pc[n] = "plan"
       /\ cache' = [cache EXCEPT ![n] = c]
       /\ move' = [move EXCEPT ![n] = m]
       /\ \/ /\ m = "none" /\ ram[n].pendingMove # "none"
             /\ fail(n, "failed")
          \/ /\ m = "none" /\ ram[n].pendingMove = "none"
             /\ pc' = [pc EXCEPT ![n] = "choose"]
             /\ UNCHANGED <<ram, nvs, result>>
          \/ /\ m # "none"
             /\ pc' = [pc EXCEPT ![n] = "clear"]
             /\ UNCHANGED <<ram, nvs, result>>
       /\ UNCHANGED <<flash, card, slotVars, onSd, haveSource, name>>

(* Whatever an interrupted attempt left is cleared; is there a store to     *)
(* copy?                                                                    *)
Clear(n) ==
    /\ pc[n] = "clear"
    /\ putStaging(n, To(n), NoTree)
    /\ haveSource' = [haveSource EXCEPT ![n] = fsAt(n, From(n)).live # NoTree]
    /\ pc' = [pc EXCEPT ![n] = IF haveSource'[n] THEN "copy" ELSE "drop"]
    /\ UNCHANGED <<nvs, ram, slotVars, onSd, cache, move, result, name>>

(* copyTree() and treeMatches() into the staging tree, then the request     *)
(* kept on record across the window in which the destination is empty.      *)
Copy(n) ==
    /\ pc[n] = "copy"
    /\ CardIn(n)
    /\ putStaging(n, To(n), fsAt(n, From(n)).live)
    /\ remember(n, move[n])
    /\ pc' = [pc EXCEPT ![n] = "drop"]
    /\ UNCHANGED <<slotVars, onSd, cache, move, haveSource, result, name>>

CopyFails(n) ==
    /\ pc[n] = "copy"
    /\ "fsFail" \in Faults \/ ~CardIn(n)
    /\ putStaging(n, To(n), NoTree)
    /\ fail(n, "failed")
    /\ UNCHANGED <<slotVars, onSd, cache, move, haveSource, name>>

(* The destination's old tree goes, whether or not anything replaces it.    *)
Drop(n) ==
    /\ pc[n] = "drop"
    /\ putLive(n, To(n), NoTree)
    /\ pc' = [pc EXCEPT ![n] = IF haveSource[n] THEN "place" ELSE "mark"]
    /\ UNCHANGED <<nvs, ram, slotVars, onSd, cache, move, haveSource, result, name>>

(* rename() of the staging tree, verified once more where it now is.        *)
Place(n) ==
    /\ pc[n] = "place"
    /\ CardIn(n)
    /\ renameStaging(n, To(n))
    /\ pc' = [pc EXCEPT ![n] = "mark"]
    /\ UNCHANGED <<nvs, ram, slotVars, onSd, cache, move, haveSource, result, name>>

PlaceFails(n) ==
    /\ pc[n] = "place"
    /\ \/ /\ "fsFail" \in Faults \/ ~CardIn(n)         \* the rename failed
          /\ UNCHANGED <<flash, card>>
       \/ /\ "fsFail" \in Faults /\ CardIn(n)          \* ... or only its verification
          /\ renameStaging(n, To(n))
    /\ fail(n, "stays")
    /\ UNCHANGED <<slotVars, onSd, cache, move, haveSource, name>>

(* writeMarker().  Opening for writing empties the file, so a failed write  *)
(* leaves what was there or a marker nobody can read; move or not, the      *)
(* answer is not looked at.                                                 *)
putMarker(n, released) ==
    IF CardIn(n) THEN card' = [card EXCEPT ![slot[n]].marker = myMarker(n, released)]
                 ELSE UNCHANGED card

markerFails(n) ==
    /\ "markerWrite" \in Faults /\ CardIn(n)
    /\ \E m \in {card[slot[n]].marker, Unreadable} : card' = [card EXCEPT ![slot[n]].marker = m]

Mark(n) ==
    /\ pc[n] = "mark"
    /\ putMarker(n, move[n] = "eject") \/ markerFails(n)
    /\ pc' = [pc EXCEPT ![n] = "save"]
    /\ UNCHANGED <<nvs, ram, flash, slotVars, onSd, cache, move, haveSource, result, name>>

moved(n) == [sdStore |-> move[n] = "adopt", pendingMove |-> "none"]

Save(n) ==
    /\ pc[n] = "save"
    /\ saved(n, moved(n))
    /\ pc' = [pc EXCEPT ![n] = "remove"]
    /\ UNCHANGED <<flash, card, slotVars, onSd, cache, move, haveSource, result, name>>

(* The save failed, and fail() then saves what memory already holds.        *)
SaveFails(n) ==
    /\ pc[n] = "save"
    /\ "nvsWrite" \in Faults
    /\ ram' = [ram EXCEPT ![n] = moved(n)]
    /\ \E s \in {nvs[n].sdStore, moved(n).sdStore}, m \in {nvs[n].pendingMove, "none"} :
          nvs' = [nvs EXCEPT ![n] = [sdStore |-> s, pendingMove |-> m]]
    /\ result' = [result EXCEPT ![n] = "stays"]
    /\ pc' = [pc EXCEPT ![n] = "choose"]
    /\ UNCHANGED <<flash, card, slotVars, onSd, cache, move, haveSource, name>>

(* One home, not two: the source goes last.  The mutant leaves it.          *)
RemoveNothing(n) ==
    /\ pc[n] = "remove"
    /\ cache' = [cache EXCEPT ![n] = cardClass(n)]
    /\ result' = [result EXCEPT ![n] = "ok"]
    /\ pc' = [pc EXCEPT ![n] = "choose"]
    /\ UNCHANGED <<disk, ram, slotVars, onSd, move, haveSource, name>>

Remove(n) ==
    /\ pc[n] = "remove"
    /\ putLive(n, From(n), NoTree)
    /\ cache' = [cache EXCEPT ![n] =
                   classify(n, mounted[n] # NoCard, markerRead(n),
                            From(n) # "sd" /\ fsAt(n, "sd").live # NoTree)]
    /\ result' = [result EXCEPT ![n] = "ok"]
    /\ pc' = [pc EXCEPT ![n] = "choose"]
    /\ UNCHANGED <<nvs, ram, slotVars, onSd, move, haveSource, name>>

(* chooseAtBoot(): the home is chosen, and the card's own account of itself *)
(* is rewritten when it is missing or names the node by an old name.        *)
Choose(n) ==
    LET c == cardClass(n)
        w == decide(ram[n].sdStore, mounted[n] # NoCard, c)
        m == markerRead(n)
    IN /\ pc[n] = "choose"
       /\ cache' = [cache EXCEPT ![n] = c]
       /\ onSd' = [onSd EXCEPT ![n] = (w = "sd")]
       /\ pc' = [pc EXCEPT ![n] =
                   IF w = "sd" /\ (m \notin Claim \/ m.name # name[n]) THEN "sign" ELSE "run"]
       /\ UNCHANGED <<disk, ram, slotVars, move, haveSource, result, name>>

Sign(n) ==
    /\ pc[n] = "sign"
    /\ putMarker(n, FALSE) \/ markerFails(n)
    /\ cache' = [cache EXCEPT ![n] =
                   classify(n, mounted[n] # NoCard,
                            IF CardIn(n) THEN card'[slot[n]].marker ELSE NoMarker,
                            fsAt(n, "sd").live # NoTree)]
    /\ pc' = [pc EXCEPT ![n] = "run"]
    /\ UNCHANGED <<nvs, ram, flash, slotVars, onSd, move, haveSource, result, name>>

-----------------------------------------------------------------------------
(* The node running.                                                        *)

(* The transport library writes to the store, through RnsFileSystem, at     *)
(* whatever the backend's path resolves to: nothing there asks storageLost(). *)
Write(n) ==
    LET w == IF onSd[n] THEN "sd" ELSE "littlefs" IN
    /\ pc[n] = "run"
    /\ writes < MaxWrites
    /\ onSd[n] => CardIn(n)
    /\ lost[n] => fsAt(n, w).live # NoTree      \* the directory was made once, at start-up
    /\ putLive(n, w, [owner |-> n, ver |-> writes + 1, whole |-> TRUE])
    /\ writes' = writes + 1
    /\ UNCHANGED <<nvs, ram, slotVars, bootVars, name, cuts, renames>>

busy(n) == ram[n].pendingMove # "none"

(* queue(): remembered, and the restart armed.  A save that fails leaves    *)
(* memory holding the request all the same.                                 *)
queue(n, m) ==
    \/ /\ saved(n, [ram[n] EXCEPT !.pendingMove = m])
       /\ result' = [result EXCEPT ![n] = "queued"]
    \/ /\ saveFailed(n, [ram[n] EXCEPT !.pendingMove = m])
       /\ result' = [result EXCEPT ![n] = "failed"]

RequestAdopt(n) ==
    /\ pc[n] = "run"
    /\ ~adoptRefused(busy(n), onSd[n], cache[n], lost[n])
    /\ queue(n, "adopt")
    /\ UNCHANGED <<flash, card, slotVars, onSd, cache, pc, move, haveSource, name, counters>>

RequestEject(n) ==
    /\ pc[n] = "run"
    /\ ~ejectRefused(busy(n), onSd[n], lost[n])
    /\ queue(n, "eject")
    /\ UNCHANGED <<flash, card, slotVars, onSd, cache, pc, move, haveSource, name, counters>>

(* requestFormat(): formatRefusal(), then the flag and a poke of the task.  *)
(* The mutant does not ask whether the store is on the card.                *)
RequestFormatUnreserved(n) ==
    /\ pc[n] = "run"
    /\ ~formatReq[n] /\ info[n] # "absent" /\ ~busy(n)
    /\ formatReq' = [formatReq EXCEPT ![n] = TRUE]
    /\ UNCHANGED <<disk, ram, slot, mounted, info, lost, bootVars, name, counters>>

RequestFormat(n) ==
    /\ pc[n] = "run"
    /\ ~formatReq[n] /\ info[n] # "absent" /\ ~busy(n) /\ ~onSd[n]
    /\ formatReq' = [formatReq EXCEPT ![n] = TRUE]
    /\ UNCHANGED <<disk, ram, slot, mounted, info, lost, bootVars, name, counters>>

BlankCard == [marker |-> NoMarker, live |-> NoTree, staging |-> NoTree]

(* doFormat(), on the card task.  A format that fails is not modelled: it   *)
(* leaves a card with nothing on it that a later look finds unmountable.    *)
Format(n) ==
    /\ pc[n] = "run"
    /\ formatReq[n]
    /\ formatReq' = [formatReq EXCEPT ![n] = FALSE]
    /\ mounted' = [mounted EXCEPT ![n] = slot[n]]
    /\ info' = [info EXCEPT ![n] = IF slot[n] = NoCard THEN "absent" ELSE "mounted"]
    /\ card' = IF slot[n] = NoCard THEN card ELSE [card EXCEPT ![slot[n]] = BlankCard]
    /\ cache' = [cache EXCEPT ![n] = IF slot[n] = NoCard THEN "none" ELSE "blank"]
    /\ UNCHANGED <<nvs, flash, ram, slot, lost, onSd, pc, move, haveSource, result, name, counters>>

(* checkSlot() finds a mounted card gone; refreshCache() follows.  The      *)
(* mutant raises the alarm for a card nobody reserved.                      *)
PollLostAlways(n) ==
    /\ pc[n] = "run" /\ ~formatReq[n]
    /\ mounted[n] # NoCard /\ slot[n] # mounted[n]
    /\ mounted' = [mounted EXCEPT ![n] = NoCard]
    /\ info' = [info EXCEPT ![n] = "absent"]
    /\ lost' = [lost EXCEPT ![n] = TRUE]
    /\ cache' = [cache EXCEPT ![n] = "none"]
    /\ UNCHANGED <<disk, ram, slot, formatReq, onSd, pc, move, haveSource, result, name, counters>>

PollLost(n) ==
    /\ pc[n] = "run" /\ ~formatReq[n]
    /\ mounted[n] # NoCard /\ slot[n] # mounted[n]
    /\ mounted' = [mounted EXCEPT ![n] = NoCard]
    /\ info' = [info EXCEPT ![n] = "absent"]
    /\ lost' = [lost EXCEPT ![n] = onSd[n]]
    /\ cache' = [cache EXCEPT ![n] = "none"]
    /\ UNCHANGED <<disk, ram, slot, formatReq, onSd, pc, move, haveSource, result, name, counters>>

(* checkSlot() finds a card to mount, or one that will not mount; only the  *)
(* first is a change the marker is re-read for.                             *)
PollMount(n) ==
    /\ pc[n] = "run" /\ ~formatReq[n]
    /\ mounted[n] = NoCard /\ slot[n] # NoCard
    /\ mounted' = [mounted EXCEPT ![n] = slot[n]]
    /\ info' = [info EXCEPT ![n] = "mounted"]
    /\ cache' = [cache EXCEPT ![n] = classify(n, TRUE, card[slot[n]].marker,
                                              card[slot[n]].live # NoTree)]
    /\ UNCHANGED <<disk, ram, slot, lost, formatReq, onSd, pc, move, haveSource, result,
                   name, counters>>

PollStuck(n) ==
    /\ pc[n] = "run" /\ ~formatReq[n]
    /\ mounted[n] = NoCard
    /\ info' = [info EXCEPT ![n] = IF slot[n] = NoCard THEN "absent" ELSE "error"]
    /\ UNCHANGED <<disk, ram, slot, mounted, lost, formatReq, bootVars, name, counters>>

-----------------------------------------------------------------------------
(* The operator and the power supply.                                       *)

forgotten(n) ==      \* what a restart forgets
    /\ pc' = [pc EXCEPT ![n] = "off"]
    /\ mounted' = [mounted EXCEPT ![n] = NoCard]
    /\ move' = [move EXCEPT ![n] = "none"]
    /\ haveSource' = [haveSource EXCEPT ![n] = FALSE]
    /\ cache' = [cache EXCEPT ![n] = "none"]
    /\ onSd' = [onSd EXCEPT ![n] = FALSE]
    /\ formatReq' = [formatReq EXCEPT ![n] = FALSE]
    /\ lost' = [lost EXCEPT ![n] = FALSE]
    /\ info' = [info EXCEPT ![n] = "absent"]
    /\ result' = [result EXCEPT ![n] = "none"]
    /\ ram' = [ram EXCEPT ![n] = nvs'[n]]      \* what PowerOn will load
    /\ UNCHANGED <<slot, name>>

Restart(n) ==
    /\ pc[n] = "run"
    /\ UNCHANGED <<disk, counters>>
    /\ forgotten(n)

(* A power cut leaves the step it falls in half done.  A cut before a step  *)
(* or after it is the same cut with nothing half done.                      *)
halfway(n) ==
    \/ UNCHANGED disk
    \/ /\ pc[n] = "copy" /\ CardIn(n)
       /\ putStaging(n, To(n), torn(fsAt(n, From(n)).live))
       /\ UNCHANGED nvs
    \/ /\ pc[n] = "copy" /\ CardIn(n)
       /\ putStaging(n, To(n), fsAt(n, From(n)).live)
       /\ UNCHANGED nvs
    \/ /\ pc[n] = "drop"
       /\ putLive(n, To(n), torn(fsAt(n, To(n)).live))
       /\ UNCHANGED nvs
    \/ /\ pc[n] \in {"mark", "sign"} /\ CardIn(n)
       /\ card' = [card EXCEPT ![slot[n]].marker = Unreadable]
       /\ UNCHANGED <<nvs, flash>>
    \/ /\ pc[n] = "save"
       /\ nvs' = [nvs EXCEPT ![n].sdStore = moved(n).sdStore]
       /\ UNCHANGED <<flash, card>>
    \/ /\ pc[n] = "remove"
       /\ putLive(n, From(n), torn(fsAt(n, From(n)).live))
       /\ UNCHANGED nvs

PowerCut(n) ==
    /\ pc[n] # "off"
    /\ cuts < MaxCuts
    /\ (IF pc[n] = "sign" THEN "cutInSign" ELSE "cut") \in Faults
    /\ halfway(n)
    /\ forgotten(n)
    /\ cuts' = cuts + 1
    /\ UNCHANGED <<writes, renames>>

Pull(n) ==
    /\ slot[n] # NoCard
    /\ pc[n] \notin {"off", "run"} => "pullInMove" \in Faults
    /\ slot' = [slot EXCEPT ![n] = NoCard]
    /\ UNCHANGED <<disk, ram, mounted, info, lost, formatReq, bootVars, name, counters>>

(* A swap quicker than the card task's look is noticed as a removal first.  *)
Insert(n, c) ==
    /\ slot[n] = NoCard /\ \A m \in Node : slot[m] # c
    /\ pc[n] \in {"off", "run"}
    /\ mounted[n] = NoCard
    /\ lost[n] => "hotSwap" \in Faults
    /\ slot' = [slot EXCEPT ![n] = c]
    /\ UNCHANGED <<disk, ram, mounted, info, lost, formatReq, bootVars, name, counters>>

Rename(n) ==
    /\ renames < MaxRenames
    /\ pc[n] = "run"
    /\ \E x \in Name \ {name[n]} : name' = [name EXCEPT ![n] = x]
    /\ renames' = renames + 1
    /\ UNCHANGED <<disk, ram, slotVars, bootVars, writes, cuts>>

-----------------------------------------------------------------------------
(***************************************************************************)
(* History.  home[n] follows the rules: a card that becomes the one the    *)
(* rules would open is the home, and one that stops being it hands the     *)
(* home back to flash.  record[n] is what the store of record must hold: a *)
(* write changes it only at the home.  A home card that is out of the slot *)
(* while the operator settles the node elsewhere, or that somebody formats,*)
(* is given up by that decision.                                           *)
(***************************************************************************)
homeCard(n, s, k) == decide(s.sdStore, TRUE, classify(n, TRUE, k.marker, k.live # NoTree)) = "sd"

liveAt(n, h) == IF h = "flash" THEN flash'[n].live ELSE card'[h].live

Track(n) ==      \* n's own steps other than Format
    LET c  == mounted[n]
        up == c # NoCard /\ ~homeCard(n, nvs[n], card[c]) /\ homeCard(n, nvs'[n], card'[c])
        dn == c # NoCard /\ homeCard(n, nvs[n], card[c]) /\ ~homeCard(n, nvs'[n], card'[c])
        at == IF up THEN c ELSE IF dn THEN "flash" ELSE home[n]
        wroteHome == writes' # writes /\ at = (IF onSd[n] THEN c ELSE "flash")
        givenUp == (up \/ dn) /\ home[n] \notin {"flash", c}
    IN /\ home' = [home EXCEPT ![n] = at]
       /\ record' = [record EXCEPT ![n] = IF wroteHome \/ givenUp THEN liveAt(n, at) ELSE @]

TrackFormat(n) ==
    LET hit == {m \in Node : home[m] # "flash" /\ home[m] = slot[n]}
    IN /\ home' = [m \in Node |-> IF m \in hit THEN "flash" ELSE home[m]]
       /\ record' = [m \in Node |-> IF m \in hit THEN flash[m].live ELSE record[m]]

-----------------------------------------------------------------------------
BootStep(n) == \/ Plan(n) \/ Clear(n) \/ Copy(n) \/ CopyFails(n) \/ Drop(n) \/ Place(n)
               \/ PlaceFails(n) \/ Mark(n) \/ Save(n) \/ SaveFails(n) \/ Remove(n)
               \/ Choose(n) \/ Sign(n)

NodeStep(n) == \/ (PowerOn(n) \/ BootStep(n)) /\ UNCHANGED counters
               \/ Write(n) \/ RequestAdopt(n) \/ RequestEject(n) \/ RequestFormat(n)
               \/ PollLost(n) \/ PollMount(n) \/ PollStuck(n)
               \/ Restart(n) \/ PowerCut(n)

Operator(n) == Pull(n) \/ (\E c \in Card : Insert(n, c)) \/ Rename(n)

Next == \E n \in Node :
            \/ NodeStep(n) /\ Track(n)
            \/ Format(n) /\ TrackFormat(n)
            \/ Operator(n) /\ UNCHANGED <<home, record>>

(* A node starts with the factory settings, a store in flash or none, and a *)
(* card in its slot or none; a legacy card starts in the node that wrote it. *)
Init ==
    /\ nvs = [n \in Node |-> [sdStore |-> TRUE, pendingMove |-> "none"]]
    /\ ram = nvs
    /\ slot \in {f \in [Node -> Card \cup {NoCard}] :
                   /\ \A m, n \in Node : m # n /\ f[m] # NoCard => f[m] # f[n]
                   /\ \A c \in LegacyCards : \E n \in Node : f[n] = c}
    /\ card = [c \in Card |-> [BlankCard EXCEPT !.live =
                  IF c \in LegacyCards
                  THEN [owner |-> CHOOSE n \in Node : slot[n] = c, ver |-> 0, whole |-> TRUE]
                  ELSE NoTree]]
    /\ \E used \in SUBSET Node :
          flash = [n \in Node |-> [live |-> IF n \in used
                                           THEN [owner |-> n, ver |-> 0, whole |-> TRUE]
                                           ELSE NoTree,
                                  staging |-> NoTree]]
    /\ mounted = [n \in Node |-> NoCard]
    /\ info = [n \in Node |-> "absent"]
    /\ lost = [n \in Node |-> FALSE]
    /\ formatReq = [n \in Node |-> FALSE]
    /\ onSd = [n \in Node |-> FALSE]
    /\ cache = [n \in Node |-> "none"]
    /\ name \in [Node -> Name]
    /\ pc = [n \in Node |-> "off"]
    /\ move = [n \in Node |-> "none"]
    /\ haveSource = [n \in Node |-> FALSE]
    /\ result = [n \in Node |-> "none"]
    /\ home = [n \in Node |-> IF slot[n] \in LegacyCards THEN slot[n] ELSE "flash"]
    /\ record = [n \in Node |-> IF slot[n] \in LegacyCards THEN card[slot[n]].live ELSE flash[n].live]
    /\ writes = 0 /\ cuts = 0 /\ renames = 0

Spec == Init /\ [][Next]_vars

(* A boot runs to its end unless the power goes, and a queued move has a    *)
(* restart armed for it (Bootloader::reboot() in queue()).                  *)
Booting(n) == (PowerOn(n) \/ BootStep(n)) /\ UNCHANGED counters /\ Track(n)
ArmedRestart(n) == busy(n) /\ Restart(n) /\ Track(n)

FairSpec == Spec /\ \A n \in Node : WF_vars(Booting(n)) /\ WF_vars(ArmedRestart(n))

-----------------------------------------------------------------------------
(* Properties.                                                              *)

(* Every variable has its type; a card can only be lost where it was        *)
(* reserved.                                                                *)
TypeOK ==
    /\ nvs \in [Node -> Transport] /\ ram \in [Node -> Transport]
    /\ flash \in [Node -> Fs] /\ card \in [Card -> CardFs]
    /\ slot \in [Node -> Card \cup {NoCard}] /\ mounted \in [Node -> Card \cup {NoCard}]
    /\ info \in [Node -> State] 
    /\ lost \in [Node -> BOOLEAN] /\ \A n \in Node : lost[n] => onSd[n]
    /\ formatReq \in [Node -> BOOLEAN] /\ onSd \in [Node -> BOOLEAN]
    /\ cache \in [Node -> Class] /\ name \in [Node -> Name] /\ pc \in [Node -> Pc]
    /\ move \in [Node -> Move] /\ haveSource \in [Node -> BOOLEAN]
    /\ result \in [Node -> Result]
    /\ home \in [Node -> Card \cup {"flash"}] /\ record \in [Node -> Tree]
    /\ writes \in Nat /\ cuts \in Nat /\ renames \in Nat

(* Wherever the rules put a node's home, that medium holds the node's store *)
(* of record, whole, at every instant: the home never flips to a medium     *)
(* before the data is there, nor is the tree at the home touched by a move. *)
HomeHoldsRecord ==
    \A n \in Node :
        record[n] = (IF home[n] = "flash" THEN flash[n].live ELSE card[home[n]].live)

opened(n) == fsAt(n, IF onSd[n] THEN "sd" ELSE "littlefs").live

(* A node never runs on another node's store.                               *)
OwnStoreOnly ==
    \A n \in Node : pc[n] = "run" /\ opened(n) # NoTree => opened(n).owner = n

(* A card claimed by a node and not released is changed by that node alone, *)
(* or by a format somebody asked the node holding it for.                   *)
OthersCardsLeftAlone ==
    [][\A c \in Card :
          /\ card[c].marker \in Claim /\ ~card[c].marker.released
          /\ card'[c] # card[c]
          => \E n \in Node : /\ slot[n] = c
                             /\ n = card[c].marker.node \/ (formatReq[n] /\ ~formatReq'[n])]_vars

(* No format is ever pending against the card the store is open on.         *)
FormatSparesTheStore == \A n \in Node : formatReq[n] => ~onSd[n]

(* "One home, not two": once a move has been reported done, the store of    *)
(* record is on one medium, whatever was interrupted before.                *)
OneStoreAfterMove ==
    \A n \in Node : pc[n] = "run" /\ result[n] = "ok" /\ record[n] # NoTree =>
        ~(flash[n].live = record[n] /\ \E c \in Card : card[c].live = record[n])

(* The store of record is at home, and after a move on one medium only.     *)
StoreKept == HomeHoldsRecord /\ OneStoreAfterMove

(* A move that was queued is settled, one way or the other, by a later boot. *)
QueuedMoveSettles ==
    \A n \in Node : (nvs[n].pendingMove # "none") ~> (nvs[n].pendingMove = "none")

(* "never a node pointed at a home with nothing in it" (StoreHome.cpp:509). *)
NeverAnEmptyHome ==
    \A n \in Node : pc[n] = "run" /\ result[n] = "ok" /\ record[n] # NoTree =>
        opened(n) # NoTree \/ (onSd[n] /\ ~CardIn(n))

(* "the store still works where it was" (StoreHome.cpp:495 and 521).        *)
FailedMoveStaysPut ==
    \A n \in Node : pc[n] = "run" /\ result[n] = "stays" => onSd[n] = (From(n) = "sd")

(* "renaming has never risked the node disowning its own store"             *)
(* (StoreHome.cpp:580).                                                     *)
RenameNeverDisowns ==
    [][\A n \in Node : pc[n] = "sign" /\ home[n] = mounted[n] => home'[n] = home[n]]_vars

(* "path table and caches are frozen until the node reboots"                *)
(* (SdCard.cpp:356): a node whose card was lost writes to no card.          *)
FrozenOnceLost ==
    [][\A n \in Node : lost[n] /\ slot[n] # NoCard => card'[slot[n]] = card[slot[n]]]_vars
=============================================================================
