-------------------------- MODULE StoreHome_proofs --------------------------
(***************************************************************************)
(* What StoreHome guarantees beyond the instances TLC looks at: for any    *)
(* number of nodes, cards and faults its types, and that no format is      *)
(* pending against the card a store is open on; for a node and its card,   *)
(* that the store of record is at home however often the power fails; for  *)
(* any number of nodes and cards, that nobody changes another's card.      *)
(***************************************************************************)
EXTENDS StoreHome, TLAPS

(* What the helpers that read and write the file systems return.            *)
LEMMA TornType == ASSUME NEW t \in Tree PROVE torn(t) \in Tree
  BY DEF torn, Tree

LEMMA FsAtType ==
    ASSUME TypeOK, NEW n \in Node, NEW w
    PROVE  fsAt(n, w).live \in Tree /\ fsAt(n, w).staging \in Tree
  <1>1. NoTree \in Tree BY DEF Tree
  <1>2. flash[n] \in Fs BY DEF TypeOK
  <1>3. CardIn(n) => card[slot[n]] \in CardFs BY DEF TypeOK, CardIn
  <1> QED BY <1>1, <1>2, <1>3 DEF fsAt, Fs, CardFs

LEMMA PutLiveType ==
    ASSUME TypeOK, NEW n \in Node, NEW w, NEW t \in Tree, putLive(n, w, t)
    PROVE  flash' \in [Node -> Fs] /\ card' \in [Card -> CardFs]
  <1>1. CASE w = "littlefs"
    <2>1. flash' = [flash EXCEPT ![n].live = t] /\ card' = card BY <1>1 DEF putLive
    <2>0. flash[n] \in Fs BY DEF TypeOK
    <2>2. [flash[n] EXCEPT !.live = t] \in Fs BY <2>0 DEF Fs
    <2> QED BY <2>1, <2>2 DEF TypeOK
  <1>2. CASE w # "littlefs"
    <2>1. CASE CardIn(n)
      <3>1. card' = [card EXCEPT ![slot[n]].live = t] /\ flash' = flash BY <1>2, <2>1 DEF putLive
      <3>2. slot[n] \in Card BY <2>1 DEF TypeOK, CardIn
      <3>0. card[slot[n]] \in CardFs BY <3>2 DEF TypeOK
      <3>3. [card[slot[n]] EXCEPT !.live = t] \in CardFs BY <3>0 DEF CardFs
      <3> QED BY <3>1, <3>2, <3>3 DEF TypeOK
    <2>2. CASE ~CardIn(n)
      BY <1>2, <2>2 DEF putLive, TypeOK
    <2> QED BY <2>1, <2>2
  <1> QED BY <1>1, <1>2

LEMMA PutStagingType ==
    ASSUME TypeOK, NEW n \in Node, NEW w, NEW t \in Tree, putStaging(n, w, t)
    PROVE  flash' \in [Node -> Fs] /\ card' \in [Card -> CardFs]
  <1>1. CASE w = "littlefs"
    <2>1. flash' = [flash EXCEPT ![n].staging = t] /\ card' = card BY <1>1 DEF putStaging
    <2>0. flash[n] \in Fs BY DEF TypeOK
    <2>2. [flash[n] EXCEPT !.staging = t] \in Fs BY <2>0 DEF Fs
    <2> QED BY <2>1, <2>2 DEF TypeOK
  <1>2. CASE w # "littlefs"
    <2>1. CASE CardIn(n)
      <3>1. card' = [card EXCEPT ![slot[n]].staging = t] /\ flash' = flash
        BY <1>2, <2>1 DEF putStaging
      <3>2. slot[n] \in Card BY <2>1 DEF TypeOK, CardIn
      <3>0. card[slot[n]] \in CardFs BY <3>2 DEF TypeOK
      <3>3. [card[slot[n]] EXCEPT !.staging = t] \in CardFs BY <3>0 DEF CardFs
      <3> QED BY <3>1, <3>2, <3>3 DEF TypeOK
    <2>2. CASE ~CardIn(n)
      BY <1>2, <2>2 DEF putStaging, TypeOK
    <2> QED BY <2>1, <2>2
  <1> QED BY <1>1, <1>2

LEMMA RenameStagingType ==
    ASSUME TypeOK, NEW n \in Node, NEW w, CardIn(n), renameStaging(n, w)
    PROVE  flash' \in [Node -> Fs] /\ card' \in [Card -> CardFs]
  <1>0. NoTree \in Tree BY DEF Tree
  <1>1. CASE w = "littlefs"
    <2>1. flash' = [flash EXCEPT ![n] = [live |-> flash[n].staging, staging |-> NoTree]]
          /\ card' = card BY <1>1 DEF renameStaging
    <2>2. [live |-> flash[n].staging, staging |-> NoTree] \in Fs BY <1>0 DEF TypeOK, Fs
    <2> QED BY <2>1, <2>2 DEF TypeOK
  <1>2. CASE w # "littlefs"
    <2>1. slot[n] \in Card BY DEF TypeOK, CardIn
    <2> DEFINE k == [card[slot[n]] EXCEPT !.live = card[slot[n]].staging, !.staging = NoTree]
    <2>2. card' = [card EXCEPT ![slot[n]] = k] /\ flash' = flash BY <1>2 DEF renameStaging
    <2>3. card[slot[n]] \in CardFs BY <2>1 DEF TypeOK
    <2>4. k \in CardFs BY <1>0, <2>3 DEF CardFs
    <2> HIDE DEF k
    <2> QED BY <2>1, <2>2, <2>4 DEF TypeOK
  <1> QED BY <1>1, <1>2
(* The rules answer with a class and a move, whatever they are asked.       *)
LEMMA ClassifyType ==
    ASSUME NEW n \in Node, NEW b \in BOOLEAN, NEW m \in Marker, NEW p \in BOOLEAN
    PROVE  classify(n, b, m, p) \in Class
  BY MarkerAssumption DEF classify, Class, Marker

LEMMA MarkerReadType ==
    ASSUME TypeOK, NEW n \in Node PROVE markerRead(n) \in Marker
  <1>1. NoMarker \in Marker BY DEF Marker
  <1>2. CardIn(n) => card[slot[n]] \in CardFs BY DEF TypeOK, CardIn
  <1> QED BY <1>1, <1>2 DEF markerRead, CardFs

LEMMA CardClassType ==
    ASSUME TypeOK, NEW n \in Node PROVE cardClass(n) \in Class
  BY MarkerReadType, ClassifyType DEF cardClass

LEMMA PlanType ==
    ASSUME NEW r \in Move, NEW s \in BOOLEAN, NEW b \in BOOLEAN, NEW c
    PROVE  planAtBoot(r, s, b, c) \in Move
  BY DEF planAtBoot, Move

LEMMA MyMarkerType ==
    ASSUME TypeOK, NEW n \in Node, NEW r \in BOOLEAN PROVE myMarker(n, r) \in Marker
  BY DEF TypeOK, myMarker, Marker, Claim

(* The marker is written, or spoilt, and nothing else on the card changes.  *)
LEMMA PutMarkerType ==
    ASSUME TypeOK, NEW n \in Node, NEW r \in BOOLEAN, putMarker(n, r) \/ markerFails(n)
    PROVE  card' \in [Card -> CardFs]
  <1>1. CASE CardIn(n)
    <2>1. slot[n] \in Card BY <1>1 DEF TypeOK, CardIn
    <2>2. card[slot[n]] \in CardFs BY <2>1 DEF TypeOK
    <2>3. PICK m \in Marker : card' = [card EXCEPT ![slot[n]].marker = m]
      <3>1. Unreadable \in Marker BY DEF Marker
      <3>2. card[slot[n]].marker \in Marker BY <2>2 DEF CardFs
      <3> QED BY <1>1, <3>1, <3>2, MyMarkerType DEF putMarker, markerFails
    <2>4. [card[slot[n]] EXCEPT !.marker = m] \in CardFs BY <2>2, <2>3 DEF CardFs
    <2> QED BY <2>1, <2>3, <2>4 DEF TypeOK
  <1>2. CASE ~CardIn(n)
    BY <1>2 DEF putMarker, markerFails, TypeOK
  <1> QED BY <1>1, <1>2

SettingsOK == nvs \in [Node -> Transport] /\ ram \in [Node -> Transport]

LEMMA SavedType ==
    ASSUME TypeOK, NEW n \in Node, NEW t \in Transport, saved(n, t) \/ saveFailed(n, t)
    PROVE  SettingsOK'
  <1>1. CASE saved(n, t)
    BY <1>1 DEF saved, SettingsOK, TypeOK
  <1>2. CASE saveFailed(n, t)
    <2>1. PICK s \in {nvs[n].sdStore, t.sdStore}, m \in {nvs[n].pendingMove, t.pendingMove} :
             nvs' = [nvs EXCEPT ![n] = [sdStore |-> s, pendingMove |-> m]]
      BY <1>2 DEF saveFailed
    <2>2. nvs[n] \in Transport BY DEF TypeOK
    <2>3. [sdStore |-> s, pendingMove |-> m] \in Transport BY <2>1, <2>2 DEF Transport
    <2>4. ram' = [ram EXCEPT ![n] = t] BY <1>2 DEF saveFailed
    <2> QED BY <2>1, <2>3, <2>4 DEF SettingsOK, TypeOK
  <1> QED BY <1>1, <1>2

LEMMA PendingType ==
    ASSUME TypeOK, NEW n \in Node, NEW m \in Move
    PROVE  [ram[n] EXCEPT !.pendingMove = m] \in Transport
  <1>1. ram[n] \in Transport BY DEF TypeOK
  <1> QED BY <1>1 DEF Transport

LEMMA RememberType ==
    ASSUME TypeOK, NEW n \in Node, NEW m \in Move, remember(n, m)
    PROVE  SettingsOK'
  BY PendingType, SavedType DEF remember

LEMMA QueueType ==
    ASSUME TypeOK, NEW n \in Node, NEW m \in Move, queue(n, m)
    PROVE  SettingsOK' /\ result' \in [Node -> Result]
  <1>1. SettingsOK' BY PendingType, SavedType DEF queue
  <1>2. result' \in [Node -> Result] BY DEF queue, TypeOK, Result
  <1> QED BY <1>1, <1>2
LEMMA MovedType ==
    ASSUME NEW n \in Node PROVE moved(n) \in Transport
  BY DEF moved, Transport, Move

(* TypeOK in five parts, so that each step is asked only about the part it  *)
(* can disturb.                                                             *)
FsOK == flash \in [Node -> Fs] /\ card \in [Card -> CardFs]

SlotOK == /\ slot \in [Node -> Card \cup {NoCard}] /\ mounted \in [Node -> Card \cup {NoCard}]
          /\ info \in [Node -> State] /\ lost \in [Node -> BOOLEAN]
          /\ \A n \in Node : lost[n] => onSd[n]
          /\ formatReq \in [Node -> BOOLEAN] /\ onSd \in [Node -> BOOLEAN]

BootOK == /\ cache \in [Node -> Class] /\ name \in [Node -> Name] /\ pc \in [Node -> Pc]
          /\ move \in [Node -> Move] /\ haveSource \in [Node -> BOOLEAN]
          /\ result \in [Node -> Result]

HistoryOK == home \in [Node -> Card \cup {"flash"}] /\ record \in [Node -> Tree]

CountersOK == writes \in Nat /\ cuts \in Nat /\ renames \in Nat

Parts == SettingsOK /\ FsOK /\ SlotOK /\ BootOK /\ CountersOK

LEMMA TypeParts == TypeOK <=> Parts /\ HistoryOK
  BY DEF TypeOK, Parts, SettingsOK, FsOK, SlotOK, BootOK, HistoryOK, CountersOK

(* The history follows the types of what it copies.                         *)
LEMMA TrackTypes ==
    ASSUME TypeOK, NEW n \in Node, FsOK', Track(n) PROVE HistoryOK'
  <1>1. mounted[n] \in Card \cup {NoCard} /\ home[n] \in Card \cup {"flash"}
    BY DEF TypeOK
  <1>2. \A h \in Card \cup {"flash"} : liveAt(n, h) \in Tree
    BY DEF FsOK, liveAt, Fs, CardFs
  <1>3. PICK at \in Card \cup {"flash"}, b \in BOOLEAN :
           /\ home' = [home EXCEPT ![n] = at]
           /\ record' = [record EXCEPT ![n] = IF b THEN liveAt(n, at) ELSE @]
    <2> DEFINE c  == mounted[n]
               up == c # NoCard /\ ~homeCard(n, nvs[n], card[c]) /\ homeCard(n, nvs'[n], card'[c])
               dn == c # NoCard /\ homeCard(n, nvs[n], card[c]) /\ ~homeCard(n, nvs'[n], card'[c])
               at == IF up THEN c ELSE IF dn THEN "flash" ELSE home[n]
               b  == \/ writes' # writes /\ at = (IF onSd[n] THEN c ELSE "flash")
                     \/ (up \/ dn) /\ home[n] \notin {"flash", c}
    <2>1. at \in Card \cup {"flash"}
      BY <1>1
    <2>2. b \in BOOLEAN
      OBVIOUS
    <2>3. home' = [home EXCEPT ![n] = at]
      BY DEF Track
    <2>4. record' = [record EXCEPT ![n] = IF b THEN liveAt(n, at) ELSE @]
      BY DEF Track
    <2> HIDE DEF at, b
    <2> QED BY <2>1, <2>2, <2>3, <2>4
  <1>4. liveAt(n, at) \in Tree
    BY <1>2, <1>3
  <1> QED BY <1>3, <1>4 DEF HistoryOK, TypeOK
(* One lemma per action: its step leaves every part typed.                  *)

LEMMA PowerOnTypes ==
    ASSUME TypeOK, NEW n \in Node, PowerOn(n), UNCHANGED counters PROVE Parts'
  <1>1. FsOK' BY DEF PowerOn, TypeOK, FsOK, disk
  <1>2. SettingsOK' BY DEF PowerOn, TypeOK, SettingsOK, disk
  <1>3. SlotOK' BY DEF PowerOn, TypeOK, SlotOK, slotVars, bootVars, State
  <1>4. BootOK' BY DEF PowerOn, TypeOK, BootOK, Pc, Result
  <1>5. CountersOK' BY DEF PowerOn, TypeOK, CountersOK, counters
  <1> QED BY <1>1, <1>2, <1>3, <1>4, <1>5 DEF Parts

LEMMA PlanTypes ==
    ASSUME TypeOK, NEW n \in Node, Plan(n), UNCHANGED counters PROVE Parts'
  <1>1. FsOK' BY DEF Plan, TypeOK, FsOK, disk
  <1>2. SettingsOK' 
    <2>1. "none" \in Move BY DEF Move
    <2> QED BY <2>1, RememberType DEF Plan, fail, TypeOK, SettingsOK
  <1>3. SlotOK' BY DEF Plan, TypeOK, SlotOK, slotVars, bootVars, State, Plan
  <1>4. BootOK' 
    <2>1. cardClass(n) \in Class BY CardClassType
    <2>2. planAtBoot(ram[n].pendingMove, ram[n].sdStore, mounted[n] # NoCard, cardClass(n)) \in Move
      BY PlanType DEF TypeOK, Transport
    <2> QED BY <2>1, <2>2 DEF Plan, fail, TypeOK, BootOK, Pc, Result
  <1>5. CountersOK' BY DEF Plan, TypeOK, CountersOK, counters
  <1> QED BY <1>1, <1>2, <1>3, <1>4, <1>5 DEF Parts

LEMMA ClearTypes ==
    ASSUME TypeOK, NEW n \in Node, Clear(n), UNCHANGED counters PROVE Parts'
  <1>1. FsOK' 
    <2>1. NoTree \in Tree BY DEF Tree
    <2> QED BY <2>1, PutStagingType DEF Clear, FsOK
  <1>2. SettingsOK' BY DEF Clear, TypeOK, SettingsOK, disk
  <1>3. SlotOK' BY DEF Clear, TypeOK, SlotOK, slotVars, bootVars, State
  <1>4. BootOK' 
    <2>1. (fsAt(n, From(n)).live # NoTree) \in BOOLEAN OBVIOUS
    <2> QED BY <2>1 DEF Clear, TypeOK, BootOK, Pc
  <1>5. CountersOK' BY DEF Clear, TypeOK, CountersOK, counters
  <1> QED BY <1>1, <1>2, <1>3, <1>4, <1>5 DEF Parts

LEMMA CopyTypes ==
    ASSUME TypeOK, NEW n \in Node, Copy(n), UNCHANGED counters PROVE Parts'
  <1>1. FsOK' BY FsAtType, PutStagingType DEF Copy, FsOK
  <1>2. SettingsOK' BY RememberType DEF Copy, TypeOK
  <1>3. SlotOK' BY DEF Copy, TypeOK, SlotOK, slotVars, bootVars, State
  <1>4. BootOK' BY DEF Copy, TypeOK, BootOK, Pc
  <1>5. CountersOK' BY DEF Copy, TypeOK, CountersOK, counters
  <1> QED BY <1>1, <1>2, <1>3, <1>4, <1>5 DEF Parts

LEMMA CopyFailsTypes ==
    ASSUME TypeOK, NEW n \in Node, CopyFails(n), UNCHANGED counters PROVE Parts'
  <1>1. FsOK' 
    <2>1. NoTree \in Tree BY DEF Tree
    <2> QED BY <2>1, PutStagingType DEF CopyFails, FsOK
  <1>2. SettingsOK' 
    <2>1. "none" \in Move BY DEF Move
    <2> QED BY <2>1, RememberType DEF CopyFails, fail
  <1>3. SlotOK' BY DEF CopyFails, TypeOK, SlotOK, slotVars, bootVars, State
  <1>4. BootOK' BY DEF CopyFails, fail, TypeOK, BootOK, Pc, Result
  <1>5. CountersOK' BY DEF CopyFails, TypeOK, CountersOK, counters
  <1> QED BY <1>1, <1>2, <1>3, <1>4, <1>5 DEF Parts

LEMMA DropTypes ==
    ASSUME TypeOK, NEW n \in Node, Drop(n), UNCHANGED counters PROVE Parts'
  <1>1. FsOK' 
    <2>1. NoTree \in Tree BY DEF Tree
    <2> QED BY <2>1, PutLiveType DEF Drop, FsOK
  <1>2. SettingsOK' BY DEF Drop, TypeOK, SettingsOK, disk
  <1>3. SlotOK' BY DEF Drop, TypeOK, SlotOK, slotVars, bootVars, State
  <1>4. BootOK' BY DEF Drop, TypeOK, BootOK, Pc
  <1>5. CountersOK' BY DEF Drop, TypeOK, CountersOK, counters
  <1> QED BY <1>1, <1>2, <1>3, <1>4, <1>5 DEF Parts

LEMMA PlaceTypes ==
    ASSUME TypeOK, NEW n \in Node, Place(n), UNCHANGED counters PROVE Parts'
  <1>1. FsOK' BY RenameStagingType DEF Place, FsOK
  <1>2. SettingsOK' BY DEF Place, TypeOK, SettingsOK, disk
  <1>3. SlotOK' BY DEF Place, TypeOK, SlotOK, slotVars, bootVars, State
  <1>4. BootOK' BY DEF Place, TypeOK, BootOK, Pc
  <1>5. CountersOK' BY DEF Place, TypeOK, CountersOK, counters
  <1> QED BY <1>1, <1>2, <1>3, <1>4, <1>5 DEF Parts

LEMMA PlaceFailsTypes ==
    ASSUME TypeOK, NEW n \in Node, PlaceFails(n), UNCHANGED counters PROVE Parts'
  <1>1. FsOK' BY RenameStagingType DEF PlaceFails, FsOK, TypeOK
  <1>2. SettingsOK' 
    <2>1. "none" \in Move BY DEF Move
    <2> QED BY <2>1, RememberType DEF PlaceFails, fail
  <1>3. SlotOK' BY DEF PlaceFails, TypeOK, SlotOK, slotVars, bootVars, State
  <1>4. BootOK' BY DEF PlaceFails, fail, TypeOK, BootOK, Pc, Result
  <1>5. CountersOK' BY DEF PlaceFails, TypeOK, CountersOK, counters
  <1> QED BY <1>1, <1>2, <1>3, <1>4, <1>5 DEF Parts

LEMMA MarkTypes ==
    ASSUME TypeOK, NEW n \in Node, Mark(n), UNCHANGED counters PROVE Parts'
  <1>1. FsOK' 
    <2>1. (move[n] = "eject") \in BOOLEAN OBVIOUS
    <2>2. card' \in [Card -> CardFs] BY <2>1, PutMarkerType DEF Mark
    <2> QED BY <2>2 DEF Mark, TypeOK, FsOK
  <1>2. SettingsOK' BY DEF Mark, TypeOK, SettingsOK, disk
  <1>3. SlotOK' BY DEF Mark, TypeOK, SlotOK, slotVars, bootVars, State
  <1>4. BootOK' BY DEF Mark, TypeOK, BootOK, Pc
  <1>5. CountersOK' BY DEF Mark, TypeOK, CountersOK, counters
  <1> QED BY <1>1, <1>2, <1>3, <1>4, <1>5 DEF Parts

LEMMA SaveTypes ==
    ASSUME TypeOK, NEW n \in Node, Save(n), UNCHANGED counters PROVE Parts'
  <1>1. FsOK' BY DEF Save, TypeOK, FsOK, disk
  <1>2. SettingsOK' BY MovedType, SavedType DEF Save
  <1>3. SlotOK' BY DEF Save, TypeOK, SlotOK, slotVars, bootVars, State
  <1>4. BootOK' BY DEF Save, TypeOK, BootOK, Pc
  <1>5. CountersOK' BY DEF Save, TypeOK, CountersOK, counters
  <1> QED BY <1>1, <1>2, <1>3, <1>4, <1>5 DEF Parts

LEMMA SaveFailsTypes ==
    ASSUME TypeOK, NEW n \in Node, SaveFails(n), UNCHANGED counters PROVE Parts'
  <1>1. FsOK' BY DEF SaveFails, TypeOK, FsOK, disk
  <1>2. SettingsOK' 
    <2>1. PICK s \in {nvs[n].sdStore, moved(n).sdStore}, m \in {nvs[n].pendingMove, "none"} :
             nvs' = [nvs EXCEPT ![n] = [sdStore |-> s, pendingMove |-> m]]
      BY DEF SaveFails
    <2>2. nvs[n] \in Transport BY DEF TypeOK
    <2>3. [sdStore |-> s, pendingMove |-> m] \in Transport
      BY <2>1, <2>2, MovedType DEF Transport, Move
    <2>4. ram' = [ram EXCEPT ![n] = moved(n)] BY DEF SaveFails
    <2> QED BY <2>1, <2>3, <2>4, MovedType DEF SettingsOK, TypeOK
  <1>3. SlotOK' BY DEF SaveFails, TypeOK, SlotOK, slotVars, bootVars, State
  <1>4. BootOK' BY DEF SaveFails, TypeOK, BootOK, Pc, Result
  <1>5. CountersOK' BY DEF SaveFails, TypeOK, CountersOK, counters
  <1> QED BY <1>1, <1>2, <1>3, <1>4, <1>5 DEF Parts

LEMMA RemoveTypes ==
    ASSUME TypeOK, NEW n \in Node, Remove(n), UNCHANGED counters PROVE Parts'
  <1>1. FsOK' 
    <2>1. NoTree \in Tree BY DEF Tree
    <2> QED BY <2>1, PutLiveType DEF Remove, FsOK
  <1>2. SettingsOK' BY DEF Remove, TypeOK, SettingsOK, disk
  <1>3. SlotOK' BY DEF Remove, TypeOK, SlotOK, slotVars, bootVars, State
  <1>4. BootOK' 
    <2>1. classify(n, mounted[n] # NoCard, markerRead(n),
                   From(n) # "sd" /\ fsAt(n, "sd").live # NoTree) \in Class
      BY MarkerReadType, ClassifyType
    <2> QED BY <2>1 DEF Remove, TypeOK, BootOK, Pc, Result
  <1>5. CountersOK' BY DEF Remove, TypeOK, CountersOK, counters
  <1> QED BY <1>1, <1>2, <1>3, <1>4, <1>5 DEF Parts

LEMMA ChooseTypes ==
    ASSUME TypeOK, NEW n \in Node, Choose(n), lost[n] = FALSE, UNCHANGED counters PROVE Parts'
  <1>1. FsOK' BY DEF Choose, TypeOK, FsOK, disk
  <1>2. SettingsOK' BY DEF Choose, TypeOK, SettingsOK, disk
  <1>3. SlotOK' BY DEF Choose, TypeOK, SlotOK, slotVars, bootVars, State
  <1>4. BootOK' BY CardClassType DEF Choose, TypeOK, BootOK, Pc
  <1>5. CountersOK' BY DEF Choose, TypeOK, CountersOK, counters
  <1> QED BY <1>1, <1>2, <1>3, <1>4, <1>5 DEF Parts
LEMMA SignTypes ==
    ASSUME TypeOK, NEW n \in Node, Sign(n), UNCHANGED counters PROVE Parts'
  <1>1. FsOK' 
    <2>1. card' \in [Card -> CardFs] BY PutMarkerType DEF Sign
    <2> QED BY <2>1 DEF Sign, TypeOK, FsOK
  <1>2. SettingsOK' BY DEF Sign, TypeOK, SettingsOK, disk, slotVars, bootVars, counters
  <1>3. SlotOK' BY DEF Sign, TypeOK, SlotOK, disk, slotVars, bootVars, counters
  <1>4. BootOK' 
    <2>1. card' \in [Card -> CardFs] BY PutMarkerType DEF Sign
    <2>2. (IF CardIn(n) THEN card'[slot[n]].marker ELSE NoMarker) \in Marker
      BY <2>1 DEF CardIn, TypeOK, CardFs, Marker
    <2>3. (fsAt(n, "sd").live # NoTree) \in BOOLEAN OBVIOUS
    <2>4. classify(n, mounted[n] # NoCard, IF CardIn(n) THEN card'[slot[n]].marker ELSE NoMarker,
                   fsAt(n, "sd").live # NoTree) \in Class
      BY <2>2, <2>3, ClassifyType
    <2> QED BY <2>4 DEF Sign, TypeOK, BootOK, Pc
  <1>5. CountersOK' BY DEF Sign, TypeOK, CountersOK, disk, slotVars, bootVars, counters
  <1> QED BY <1>1, <1>2, <1>3, <1>4, <1>5 DEF Parts

LEMMA WriteTypes ==
    ASSUME TypeOK, NEW n \in Node, Write(n) PROVE Parts'
  <1>1. FsOK' 
    <2>1. [owner |-> n, ver |-> writes + 1, whole |-> TRUE] \in Tree BY DEF TypeOK, Tree
    <2> QED BY <2>1, PutLiveType DEF Write, FsOK
  <1>2. SettingsOK' BY DEF Write, TypeOK, SettingsOK, disk, slotVars, bootVars, counters
  <1>3. SlotOK' BY DEF Write, TypeOK, SlotOK, disk, slotVars, bootVars, counters
  <1>4. BootOK' BY DEF Write, TypeOK, BootOK, disk, slotVars, bootVars, counters
  <1>5. CountersOK' BY DEF Write, TypeOK, CountersOK, disk, slotVars, bootVars, counters
  <1> QED BY <1>1, <1>2, <1>3, <1>4, <1>5 DEF Parts

LEMMA RequestAdoptTypes ==
    ASSUME TypeOK, NEW n \in Node, RequestAdopt(n) PROVE Parts'
  <1>1. FsOK' BY DEF RequestAdopt, TypeOK, FsOK, disk, slotVars, bootVars, counters
  <1>2. SettingsOK' 
    <2>1. "adopt" \in Move BY DEF Move
    <2> QED BY <2>1, QueueType DEF RequestAdopt
  <1>3. SlotOK' BY DEF RequestAdopt, TypeOK, SlotOK, disk, slotVars, bootVars, counters
  <1>4. BootOK' 
    <2>1. "adopt" \in Move BY DEF Move
    <2> QED BY <2>1, QueueType DEF RequestAdopt, TypeOK, BootOK
  <1>5. CountersOK' BY DEF RequestAdopt, TypeOK, CountersOK, disk, slotVars, bootVars, counters
  <1> QED BY <1>1, <1>2, <1>3, <1>4, <1>5 DEF Parts

LEMMA RequestEjectTypes ==
    ASSUME TypeOK, NEW n \in Node, RequestEject(n) PROVE Parts'
  <1>1. FsOK' BY DEF RequestEject, TypeOK, FsOK, disk, slotVars, bootVars, counters
  <1>2. SettingsOK' 
    <2>1. "eject" \in Move BY DEF Move
    <2> QED BY <2>1, QueueType DEF RequestEject
  <1>3. SlotOK' BY DEF RequestEject, TypeOK, SlotOK, disk, slotVars, bootVars, counters
  <1>4. BootOK' 
    <2>1. "eject" \in Move BY DEF Move
    <2> QED BY <2>1, QueueType DEF RequestEject, TypeOK, BootOK
  <1>5. CountersOK' BY DEF RequestEject, TypeOK, CountersOK, disk, slotVars, bootVars, counters
  <1> QED BY <1>1, <1>2, <1>3, <1>4, <1>5 DEF Parts

LEMMA RequestFormatTypes ==
    ASSUME TypeOK, NEW n \in Node, RequestFormat(n) PROVE Parts'
  <1>1. FsOK' BY DEF RequestFormat, TypeOK, FsOK, disk, slotVars, bootVars, counters
  <1>2. SettingsOK' BY DEF RequestFormat, TypeOK, SettingsOK, disk, slotVars, bootVars, counters
  <1>3. SlotOK' BY DEF RequestFormat, TypeOK, SlotOK, disk, slotVars, bootVars, counters
  <1>4. BootOK' BY DEF RequestFormat, TypeOK, BootOK, disk, slotVars, bootVars, counters
  <1>5. CountersOK' BY DEF RequestFormat, TypeOK, CountersOK, disk, slotVars, bootVars, counters
  <1> QED BY <1>1, <1>2, <1>3, <1>4, <1>5 DEF Parts

LEMMA FormatTypes ==
    ASSUME TypeOK, NEW n \in Node, Format(n) PROVE Parts'
  <1>1. FsOK' 
    <2>1. BlankCard \in CardFs BY DEF BlankCard, CardFs, Marker, Tree
    <2> QED BY <2>1 DEF Format, TypeOK, FsOK
  <1>2. SettingsOK' BY DEF Format, TypeOK, SettingsOK, disk, slotVars, bootVars, counters
  <1>3. SlotOK' BY DEF Format, TypeOK, SlotOK, disk, slotVars, bootVars, counters, State
  <1>4. BootOK' BY DEF Format, TypeOK, BootOK, disk, slotVars, bootVars, counters, Class
  <1>5. CountersOK' BY DEF Format, TypeOK, CountersOK, disk, slotVars, bootVars, counters
  <1> QED BY <1>1, <1>2, <1>3, <1>4, <1>5 DEF Parts

LEMMA PollLostTypes ==
    ASSUME TypeOK, NEW n \in Node, PollLost(n) PROVE Parts'
  <1>1. FsOK' BY DEF PollLost, TypeOK, FsOK, disk, slotVars, bootVars, counters, State, Class
  <1>2. SettingsOK' BY DEF PollLost, TypeOK, SettingsOK, disk, slotVars, bootVars, counters, State, Class
  <1>3. SlotOK' BY DEF PollLost, TypeOK, SlotOK, disk, slotVars, bootVars, counters, State, Class
  <1>4. BootOK' BY DEF PollLost, TypeOK, BootOK, disk, slotVars, bootVars, counters, State, Class
  <1>5. CountersOK' BY DEF PollLost, TypeOK, CountersOK, disk, slotVars, bootVars, counters, State, Class
  <1> QED BY <1>1, <1>2, <1>3, <1>4, <1>5 DEF Parts

LEMMA PollMountTypes ==
    ASSUME TypeOK, NEW n \in Node, PollMount(n) PROVE Parts'
  <1>1. FsOK' BY DEF PollMount, TypeOK, FsOK, disk, slotVars, bootVars, counters
  <1>2. SettingsOK' BY DEF PollMount, TypeOK, SettingsOK, disk, slotVars, bootVars, counters
  <1>3. SlotOK' BY DEF PollMount, TypeOK, SlotOK, disk, slotVars, bootVars, counters, State
  <1>4. BootOK' 
    <2>1. card[slot[n]].marker \in Marker BY DEF PollMount, TypeOK, CardFs
    <2>2. classify(n, TRUE, card[slot[n]].marker, card[slot[n]].live # NoTree) \in Class
      BY <2>1, ClassifyType
    <2> QED BY <2>2 DEF PollMount, TypeOK, BootOK
  <1>5. CountersOK' BY DEF PollMount, TypeOK, CountersOK, disk, slotVars, bootVars, counters
  <1> QED BY <1>1, <1>2, <1>3, <1>4, <1>5 DEF Parts

LEMMA PollStuckTypes ==
    ASSUME TypeOK, NEW n \in Node, PollStuck(n) PROVE Parts'
  <1>1. FsOK' BY DEF PollStuck, TypeOK, FsOK, disk, slotVars, bootVars, counters, State
  <1>2. SettingsOK' BY DEF PollStuck, TypeOK, SettingsOK, disk, slotVars, bootVars, counters, State
  <1>3. SlotOK' BY DEF PollStuck, TypeOK, SlotOK, disk, slotVars, bootVars, counters, State
  <1>4. BootOK' BY DEF PollStuck, TypeOK, BootOK, disk, slotVars, bootVars, counters, State
  <1>5. CountersOK' BY DEF PollStuck, TypeOK, CountersOK, disk, slotVars, bootVars, counters, State
  <1> QED BY <1>1, <1>2, <1>3, <1>4, <1>5 DEF Parts

LEMMA ForgottenTypes ==
    ASSUME TypeOK, NEW n \in Node, forgotten(n), nvs' \in [Node -> Transport]
    PROVE  SettingsOK' /\ SlotOK' /\ BootOK'
  <1>1. SettingsOK' BY DEF forgotten, TypeOK, SettingsOK
  <1>2. SlotOK' BY DEF forgotten, TypeOK, SlotOK, State
  <1>3. BootOK' BY DEF forgotten, TypeOK, BootOK, Class, Pc, Move, Result
  <1> QED BY <1>1, <1>2, <1>3

LEMMA RestartTypes ==
    ASSUME TypeOK, NEW n \in Node, Restart(n) PROVE Parts'
  <1>1. FsOK' /\ CountersOK' /\ nvs' \in [Node -> Transport]
    BY DEF Restart, disk, counters, TypeOK, FsOK, CountersOK
  <1> QED BY <1>1, ForgottenTypes DEF Restart, Parts

(* What a power cut leaves half done is still a file system and a setting.  *)
LEMMA HalfwayTypes ==
    ASSUME TypeOK, NEW n \in Node, halfway(n) PROVE FsOK' /\ nvs' \in [Node -> Transport]
  <1>0. \A w : torn(fsAt(n, w).live) \in Tree BY FsAtType, TornType
  <1>1. CASE UNCHANGED disk BY <1>1 DEF disk, TypeOK, FsOK
  <1>2. CASE (\E t \in Tree : putStaging(n, To(n), t)) /\ UNCHANGED nvs
    BY <1>2, PutStagingType DEF FsOK, TypeOK
  <1>3. CASE (\E t \in Tree, w \in Where : putLive(n, w, t)) /\ UNCHANGED nvs
    BY <1>3, PutLiveType DEF FsOK, TypeOK
  <1>4. CASE CardIn(n) /\ card' = [card EXCEPT ![slot[n]].marker = Unreadable]
             /\ UNCHANGED <<nvs, flash>>
    <2>1. slot[n] \in Card BY <1>4 DEF TypeOK, CardIn
    <2>2. card[slot[n]] \in CardFs BY <2>1 DEF TypeOK
    <2>3. [card[slot[n]] EXCEPT !.marker = Unreadable] \in CardFs BY <2>2 DEF CardFs, Marker
    <2> QED BY <1>4, <2>1, <2>3 DEF TypeOK, FsOK
  <1>5. CASE nvs' = [nvs EXCEPT ![n].sdStore = moved(n).sdStore] /\ UNCHANGED <<flash, card>>
    <2>1. nvs[n] \in Transport BY DEF TypeOK
    <2>2. [nvs[n] EXCEPT !.sdStore = moved(n).sdStore] \in Transport
      BY <2>1, MovedType DEF Transport
    <2> QED BY <1>5, <2>2 DEF TypeOK, FsOK
  <1>6. From(n) \in Where /\ To(n) \in Where BY DEF From, To, Where
  <1> QED BY <1>0, <1>1, <1>2, <1>3, <1>4, <1>5, <1>6, FsAtType DEF halfway

LEMMA PowerCutTypes ==
    ASSUME TypeOK, NEW n \in Node, PowerCut(n) PROVE Parts'
  <1>1. FsOK' /\ nvs' \in [Node -> Transport] BY HalfwayTypes DEF PowerCut
  <1>2. CountersOK' BY DEF PowerCut, TypeOK, CountersOK
  <1> QED BY <1>1, <1>2, ForgottenTypes DEF PowerCut, Parts

LEMMA OperatorTypes ==
    ASSUME TypeOK, NEW n \in Node, Operator(n) PROVE Parts'
  <1>1. FsOK' BY DEF Operator, Pull, Insert, Rename, TypeOK, FsOK, disk, slotVars, bootVars, counters
  <1>2. SettingsOK' BY DEF Operator, Pull, Insert, Rename, TypeOK, SettingsOK, disk, slotVars, bootVars, counters
  <1>3. SlotOK' BY DEF Operator, Pull, Insert, Rename, TypeOK, SlotOK, disk, slotVars, bootVars, counters
  <1>4. BootOK' BY DEF Operator, Pull, Insert, Rename, TypeOK, BootOK, disk, slotVars, bootVars, counters
  <1>5. CountersOK' BY DEF Operator, Pull, Insert, Rename, TypeOK, CountersOK, disk, slotVars, bootVars, counters
  <1> QED BY <1>1, <1>2, <1>3, <1>4, <1>5 DEF Parts

(* What a running node's flags say about where it is in its boot.           *)
RunOnly ==
    \A n \in Node : /\ onSd[n] => pc[n] \in {"sign", "run"}
                    /\ pc[n] = "sign" => onSd[n]
                    /\ formatReq[n] => pc[n] = "run" /\ ~onSd[n]

IInv == TypeOK /\ RunOnly

LEMMA InitIInv == Init => IInv
  <1> SUFFICES ASSUME Init PROVE IInv OBVIOUS
  <1>1. NoTree \in Tree /\ BlankCard \in CardFs
    BY DEF Tree, BlankCard, CardFs, Marker
  <1>2. \A n \in Node : [owner |-> n, ver |-> 0, whole |-> TRUE] \in Tree BY DEF Tree
  <1>3. flash \in [Node -> Fs]
    <2>1. PICK used \in SUBSET Node :
             flash = [n \in Node |-> [live |-> IF n \in used
                                              THEN [owner |-> n, ver |-> 0, whole |-> TRUE]
                                              ELSE NoTree,
                                     staging |-> NoTree]]
      BY DEF Init
    <2> QED BY <1>1, <1>2, <2>1 DEF Fs
  <1>4. card \in [Card -> CardFs]
    <2> DEFINE t(c) == IF c \in LegacyCards
                       THEN [owner |-> CHOOSE n \in Node : slot[n] = c, ver |-> 0, whole |-> TRUE]
                       ELSE NoTree
    <2>1. card = [c \in Card |-> [BlankCard EXCEPT !.live = t(c)]] BY DEF Init
    <2>2. ASSUME NEW c \in Card PROVE t(c) \in Tree
      <3>1. CASE c \in LegacyCards
        <4>1. \E n \in Node : slot[n] = c BY <3>1 DEF Init
        <4>2. (CHOOSE n \in Node : slot[n] = c) \in Node BY <4>1
        <4> QED BY <3>1, <4>2, <1>2
      <3> QED BY <3>1, <1>1
    <2> HIDE DEF t
    <2>3. ASSUME NEW c \in Card PROVE [BlankCard EXCEPT !.live = t(c)] \in CardFs
      BY <1>1, <2>2 DEF CardFs
    <2> QED BY <2>1, <2>3
  <1>5. SettingsOK BY DEF Init, SettingsOK, Transport, Move
  <1>6. SlotOK BY DEF Init, SlotOK, State
  <1>7. BootOK BY DEF Init, BootOK, Class, Pc, Move, Result
  <1>8. HistoryOK
    <2>1. \A c \in Card : card[c].live \in Tree BY <1>4 DEF CardFs
    <2>2. \A n \in Node : flash[n].live \in Tree BY <1>3 DEF Fs
    <2>3. home \in [Node -> Card \cup {"flash"}] BY CardAssumption DEF Init
    <2>4. record \in [Node -> Tree] BY <2>1, <2>2, CardAssumption DEF Init
    <2> QED BY <2>3, <2>4 DEF HistoryOK
  <1>9. CountersOK BY DEF Init, CountersOK
  <1>10. TypeOK BY <1>3, <1>4, <1>5, <1>6, <1>7, <1>8, <1>9, TypeParts DEF Parts, FsOK
  <1>11. RunOnly BY DEF Init, RunOnly
  <1> QED BY <1>10, <1>11 DEF IInv


LEMMA BootRunOnly ==
    ASSUME IInv, NEW n \in Node, PowerOn(n) \/ BootStep(n) PROVE RunOnly'
  <1>1. CASE PowerOn(n)
    BY <1>1 DEF PowerOn, IInv, TypeOK, RunOnly, slotVars, bootVars, Pc
  <1>2. CASE Plan(n)
    BY <1>2 DEF Plan, IInv, TypeOK, RunOnly, slotVars, bootVars, Pc, fail
  <1>3. CASE Clear(n)
    BY <1>3 DEF Clear, IInv, TypeOK, RunOnly, slotVars, bootVars, Pc
  <1>4. CASE Copy(n)
    BY <1>4 DEF Copy, IInv, TypeOK, RunOnly, slotVars, bootVars, Pc
  <1>5. CASE CopyFails(n)
    BY <1>5 DEF CopyFails, IInv, TypeOK, RunOnly, slotVars, bootVars, Pc, fail
  <1>6. CASE Drop(n)
    BY <1>6 DEF Drop, IInv, TypeOK, RunOnly, slotVars, bootVars, Pc
  <1>7. CASE Place(n)
    BY <1>7 DEF Place, IInv, TypeOK, RunOnly, slotVars, bootVars, Pc
  <1>8. CASE PlaceFails(n)
    BY <1>8 DEF PlaceFails, IInv, TypeOK, RunOnly, slotVars, bootVars, Pc, fail
  <1>9. CASE Mark(n)
    BY <1>9 DEF Mark, IInv, TypeOK, RunOnly, slotVars, bootVars, Pc
  <1>10. CASE Save(n)
    BY <1>10 DEF Save, IInv, TypeOK, RunOnly, slotVars, bootVars, Pc
  <1>11. CASE SaveFails(n)
    BY <1>11 DEF SaveFails, IInv, TypeOK, RunOnly, slotVars, bootVars, Pc
  <1>12. CASE Remove(n)
    BY <1>12 DEF Remove, IInv, TypeOK, RunOnly, slotVars, bootVars, Pc
  <1>13. CASE Choose(n)
    BY <1>13 DEF Choose, IInv, TypeOK, RunOnly, slotVars, bootVars, Pc
  <1>14. CASE Sign(n)
    BY <1>14 DEF Sign, IInv, TypeOK, RunOnly, slotVars, bootVars, Pc
  <1> QED BY <1>1, <1>2, <1>3, <1>4, <1>5, <1>6, <1>7, <1>8, <1>9, <1>10, <1>11, <1>12, <1>13, <1>14 DEF BootStep

LEMMA ForgottenRunOnly ==
    ASSUME IInv, NEW n \in Node, forgotten(n) PROVE RunOnly'
  BY DEF forgotten, IInv, TypeOK, RunOnly

LEMMA NodeStepIInv ==
    ASSUME IInv, NEW n \in Node, NodeStep(n) PROVE Parts' /\ RunOnly'
  <1> USE DEF IInv
  <1>1. CASE (PowerOn(n) \/ BootStep(n)) /\ UNCHANGED counters
    <2>1. pc[n] = "choose" => lost[n] = FALSE BY DEF RunOnly, TypeOK
    <2>2. Parts'
      BY <1>1, <2>1, PowerOnTypes, PlanTypes, ClearTypes, CopyTypes, CopyFailsTypes, DropTypes, PlaceTypes, PlaceFailsTypes, MarkTypes, SaveTypes, SaveFailsTypes, RemoveTypes, ChooseTypes, SignTypes DEF BootStep, Choose
    <2> QED BY <1>1, <2>2, BootRunOnly
  <1>2. CASE Write(n)
    <2>1. Parts' BY <1>2, WriteTypes
    <2>2. RunOnly' BY <1>2 DEF Write, TypeOK, RunOnly, slotVars, bootVars
    <2> QED BY <2>1, <2>2
  <1>3. CASE RequestAdopt(n)
    <2>1. Parts' BY <1>3, RequestAdoptTypes
    <2>2. RunOnly' BY <1>3 DEF RequestAdopt, TypeOK, RunOnly, slotVars, bootVars
    <2> QED BY <2>1, <2>2
  <1>4. CASE RequestEject(n)
    <2>1. Parts' BY <1>4, RequestEjectTypes
    <2>2. RunOnly' BY <1>4 DEF RequestEject, TypeOK, RunOnly, slotVars, bootVars
    <2> QED BY <2>1, <2>2
  <1>5. CASE RequestFormat(n)
    <2>1. Parts' BY <1>5, RequestFormatTypes
    <2>2. RunOnly' BY <1>5 DEF RequestFormat, TypeOK, RunOnly, slotVars, bootVars
    <2> QED BY <2>1, <2>2
  <1>6. CASE PollLost(n)
    <2>1. Parts' BY <1>6, PollLostTypes
    <2>2. RunOnly' BY <1>6 DEF PollLost, TypeOK, RunOnly, slotVars, bootVars
    <2> QED BY <2>1, <2>2
  <1>7. CASE PollMount(n)
    <2>1. Parts' BY <1>7, PollMountTypes
    <2>2. RunOnly' BY <1>7 DEF PollMount, TypeOK, RunOnly, slotVars, bootVars
    <2> QED BY <2>1, <2>2
  <1>8. CASE PollStuck(n)
    <2>1. Parts' BY <1>8, PollStuckTypes
    <2>2. RunOnly' BY <1>8 DEF PollStuck, TypeOK, RunOnly, slotVars, bootVars
    <2> QED BY <2>1, <2>2
  <1>9. CASE Restart(n)
    BY <1>9, RestartTypes, ForgottenRunOnly DEF Restart
  <1>10. CASE PowerCut(n)
    BY <1>10, PowerCutTypes, ForgottenRunOnly DEF PowerCut
  <1> QED BY <1>1, <1>2, <1>3, <1>4, <1>5, <1>6, <1>7, <1>8, <1>9, <1>10 DEF NodeStep

LEMMA NextIInv == IInv /\ [Next]_vars => IInv'
  <1> SUFFICES ASSUME IInv, [Next]_vars PROVE IInv' OBVIOUS
  <1>1. ASSUME NEW n \in Node, NodeStep(n), Track(n) PROVE IInv'
    <2>1. Parts' /\ RunOnly' BY <1>1, NodeStepIInv
    <2>2. HistoryOK' BY <1>1, <2>1, TrackTypes DEF IInv, Parts
    <2>3. Parts' /\ HistoryOK' => TypeOK'
      BY DEF TypeOK, Parts, SettingsOK, FsOK, SlotOK, BootOK, HistoryOK, CountersOK
    <2> QED BY <2>1, <2>2, <2>3 DEF IInv
  <1>2. ASSUME NEW n \in Node, Format(n), TrackFormat(n) PROVE IInv'
    <2>1. Parts' BY <1>2, FormatTypes DEF IInv
    <2>2. HistoryOK'
      <3>1. \A m \in Node : flash[m].live \in Tree BY DEF IInv, TypeOK, Fs
      <3> QED BY <1>2, <3>1 DEF TrackFormat, HistoryOK, IInv, TypeOK
    <2>3. RunOnly' BY <1>2 DEF Format, IInv, TypeOK, RunOnly
    <2>4. Parts' /\ HistoryOK' => TypeOK'
      BY DEF TypeOK, Parts, SettingsOK, FsOK, SlotOK, BootOK, HistoryOK, CountersOK
    <2> QED BY <2>1, <2>2, <2>3, <2>4 DEF IInv
  <1>3. ASSUME NEW n \in Node, Operator(n), UNCHANGED <<home, record>> PROVE IInv'
    <2>1. Parts' BY <1>3, OperatorTypes DEF IInv
    <2>2. HistoryOK' BY <1>3 DEF HistoryOK, IInv, TypeOK
    <2>3. RunOnly' BY <1>3 DEF Operator, Pull, Insert, Rename, bootVars, slotVars, IInv, RunOnly
    <2>4. Parts' /\ HistoryOK' => TypeOK'
      BY DEF TypeOK, Parts, SettingsOK, FsOK, SlotOK, BootOK, HistoryOK, CountersOK
    <2> QED BY <2>1, <2>2, <2>3, <2>4 DEF IInv
  <1>4. CASE UNCHANGED vars
    BY <1>4 DEF vars, disk, slotVars, bootVars, counters, IInv, TypeOK, RunOnly
  <1> QED BY <1>1, <1>2, <1>3, <1>4 DEF Next

LEMMA SpecIInv == Spec => []IInv
  BY InitIInv, NextIInv, PTL DEF Spec

(* Every variable keeps its type, whatever the faults.                      *)
THEOREM TypeCorrect == Spec => []TypeOK
  <1>1. IInv => TypeOK BY DEF IInv
  <1> QED BY SpecIInv, <1>1, PTL

(* A format accepted by requestFormat() never runs against the card the     *)
(* store is open on: the reservation of chooseAtBoot() outlives it.         *)
THEOREM FormatIsSafe == Spec => []FormatSparesTheStore
  <1>1. IInv => FormatSparesTheStore BY DEF IInv, RunOnly, FormatSparesTheStore
  <1> QED BY SpecIInv, <1>1, PTL
-----------------------------------------------------------------------------
(***************************************************************************)
(* One node and its card.  Power cuts, copies and renames that fail and a  *)
(* card put back into a node that lost it never separate the store of      *)
(* record from its home.  (The other faults do, and so do a second card    *)
(* and a second node: the rules read a card by what is on it alone.)       *)
(***************************************************************************)
Mild == {"cut", "fsFail", "hotSwap"}

(* When the rules open a card: the setting and the card agree.              *)
Claimed(m)  == m \in Claim /\ ~m.released
Opens(s, k) == s.sdStore /\ (Claimed(k.marker) \/ (k.marker = NoMarker /\ k.live # NoTree))

HomeLive(n, c) == IF Opens(nvs[n], card[c]) THEN card[c].live ELSE flash[n].live

(* Memory is what is saved, the home is where the rules put it, and the     *)
(* store of record is there.                                                *)
AtHome(n, c) ==
    /\ ram[n] = nvs[n]
    /\ home[n] = IF Opens(nvs[n], card[c]) THEN c ELSE "flash"
    /\ record[n] = HomeLive(n, c)

Moving  == {"clear", "copy", "drop", "place", "mark", "save", "remove"}
Adds(n) == move[n] = "adopt"

(* A boot that has mounted the card has it until the node runs.             *)
Seated(n, c) ==
    /\ pc[n] = "off" => mounted[n] = NoCard
    /\ pc[n] \notin {"off", "run"} /\ mounted[n] # NoCard => slot[n] = c
    /\ pc[n] \in Moving \cup {"sign"} => mounted[n] = c
    /\ pc[n] \in Moving => move[n] \in {"adopt", "eject"}

(* What the steps of a move have established: it goes from the home to the  *)
(* other medium, stages a copy of the source before the destination's tree  *)
(* goes, and has the two agree from then until the source goes.             *)
Staged(n, c) ==
    /\ pc[n] \in {"clear", "copy", "drop", "place"} => (Adds(n) <=> ~Opens(nvs[n], card[c]))
    /\ pc[n] = "copy" => haveSource[n]
    /\ pc[n] = "place" \/ (pc[n] = "drop" /\ haveSource[n]) =>
          IF Adds(n) THEN card[c].staging = flash[n].live ELSE flash[n].staging = card[c].live
    /\ pc[n] = "drop" /\ ~haveSource[n] =>
          (IF Adds(n) THEN flash[n].live ELSE card[c].live) = NoTree
    /\ pc[n] \in {"mark", "save", "remove"} => card[c].live = flash[n].live
    /\ pc[n] \in {"save", "remove"} /\ Adds(n) => Claimed(card[c].marker)
    /\ pc[n] = "remove" => nvs[n].sdStore = Adds(n)
    /\ pc[n] = "sign" => onSd[n] /\ Opens(nvs[n], card[c])

(* After a move that was reported done, the medium it came from is empty.   *)
Single(n, c) ==
    result[n] = "ok" =>
        /\ pc[n] \in {"choose", "sign", "run"}
        /\ pc[n] = "choose" => \/ Opens(nvs[n], card[c]) /\ mounted[n] = c /\ flash[n].live = NoTree
                               \/ ~nvs[n].sdStore /\ card[c].live = NoTree
        /\ pc[n] = "sign" => flash[n].live = NoTree
        /\ pc[n] = "run" => (IF onSd[n] THEN flash[n].live ELSE card[c].live) = NoTree

Phase(n, c) == ram[n] = nvs[n] /\ Seated(n, c) /\ Staged(n, c) /\ Single(n, c)
KInv(n, c)  == AtHome(n, c) /\ Phase(n, c)
Alone(n, c) == Node = {n} /\ Card = {c} /\ Faults \subseteq Mild

(* How a node on its own reads a card, and so when the rules open it.       *)
LEMMA ClassRule ==
    ASSUME NEW n, Node = {n}, NEW m \in Marker, NEW p \in BOOLEAN
    PROVE  classify(n, TRUE, m, p) =
              IF Claimed(m) THEN "ours"
              ELSE IF m = NoMarker THEN (IF p THEN "legacy" ELSE "blank")
              ELSE IF m = Unreadable THEN "foreign" ELSE "blank"
<1>1. CASE m \in Claim
  <2>1. m # NoMarker /\ m # Unreadable /\ m.node = n /\ m.released \in BOOLEAN
    BY <1>1, MarkerAssumption DEF Claim
  <2> QED
    BY <1>1, <2>1 DEF classify, Claimed
<1>2. CASE m \notin Claim
  BY <1>2, MarkerAssumption DEF classify, Claimed, Marker
<1> QED
  BY <1>1, <1>2

LEMMA HomeRule ==
    ASSUME NEW n, Node = {n}, NEW s \in Transport, NEW k \in CardFs
    PROVE  homeCard(n, s, k) <=> Opens(s, k)
<1>1. k.marker \in Marker /\ s.sdStore \in BOOLEAN
  BY DEF CardFs, Transport
<1> DEFINE cl == classify(n, TRUE, k.marker, k.live # NoTree)
<1>2. cl = IF Claimed(k.marker) THEN "ours"
           ELSE IF k.marker = NoMarker THEN (IF k.live # NoTree THEN "legacy" ELSE "blank")
           ELSE IF k.marker = Unreadable THEN "foreign" ELSE "blank"
  BY <1>1, ClassRule
<1>3. homeCard(n, s, k) <=> s.sdStore /\ cl \in {"ours", "legacy"}
  BY <1>1 DEF homeCard, decide
<1> HIDE DEF cl
<1> QED
  BY <1>1, <1>2, <1>3 DEF Opens

(* What the variables of the one node and its card are.                     *)
LEMMA Scalars ==
    ASSUME TypeOK, NEW n, NEW c, Alone(n, c)
    PROVE  /\ n \in Node /\ c \in Card
           /\ nvs[n] \in Transport /\ flash[n] \in Fs /\ card[c] \in CardFs
           /\ slot[n] \in {c, NoCard} /\ mounted[n] \in {c, NoCard}
           /\ home[n] \in {c, "flash"} /\ c # "flash" /\ c # NoCard
  BY CardAssumption, FlashIsNoCard DEF TypeOK, Alone

(* What the steps of a move do to the one flash and the one card.           *)
LEMMA PutLiveDoes ==
    ASSUME TypeOK, NEW n, NEW c, Alone(n, c), mounted[n] = c, slot[n] = c,
           NEW w \in Where, NEW t, putLive(n, w, t)
    PROVE  /\ w = "littlefs" => /\ flash'[n].live = t /\ flash'[n].staging = flash[n].staging
                                /\ card'[c] = card[c]
           /\ w = "sd" => /\ card'[c].live = t /\ card'[c].staging = card[c].staging
                          /\ card'[c].marker = card[c].marker /\ flash'[n] = flash[n]
<1>1. n \in Node /\ c \in Card /\ flash[n] \in Fs /\ card[c] \in CardFs /\ CardIn(n)
  BY Scalars DEF CardIn
<1>2. CASE w = "littlefs"
  <2>1. flash'[n] = [flash[n] EXCEPT !.live = t] /\ card' = card
    BY <1>1, <1>2 DEF putLive, TypeOK
  <2> QED
    BY <1>1, <1>2, <2>1 DEF Fs
<1>3. CASE w = "sd"
  <2>1. card'[c] = [card[c] EXCEPT !.live = t] /\ flash' = flash
    BY <1>1, <1>3 DEF putLive, TypeOK
  <2> QED
    BY <1>1, <1>3, <2>1 DEF CardFs
<1> QED
  BY <1>2, <1>3 DEF Where

LEMMA PutStagingDoes ==
    ASSUME TypeOK, NEW n, NEW c, Alone(n, c), mounted[n] = c, slot[n] = c,
           NEW w \in Where, NEW t, putStaging(n, w, t)
    PROVE  /\ flash'[n].live = flash[n].live
           /\ card'[c].live = card[c].live /\ card'[c].marker = card[c].marker
           /\ w = "littlefs" => flash'[n].staging = t
           /\ w = "sd" => card'[c].staging = t
<1>1. n \in Node /\ c \in Card /\ flash[n] \in Fs /\ card[c] \in CardFs /\ CardIn(n)
  BY Scalars DEF CardIn
<1>2. CASE w = "littlefs"
  <2>1. flash'[n] = [flash[n] EXCEPT !.staging = t] /\ card' = card
    BY <1>1, <1>2 DEF putStaging, TypeOK
  <2> QED
    BY <1>1, <1>2, <2>1 DEF Fs
<1>3. CASE w = "sd"
  <2>1. card'[c] = [card[c] EXCEPT !.staging = t] /\ flash' = flash
    BY <1>1, <1>3 DEF putStaging, TypeOK
  <2> QED
    BY <1>1, <1>3, <2>1 DEF CardFs
<1> QED
  BY <1>2, <1>3 DEF Where

LEMMA RenameStagingDoes ==
    ASSUME TypeOK, NEW n, NEW c, Alone(n, c), mounted[n] = c, slot[n] = c,
           NEW w \in Where, renameStaging(n, w)
    PROVE  /\ w = "littlefs" => flash'[n].live = flash[n].staging /\ card'[c] = card[c]
           /\ w = "sd" => /\ card'[c].live = card[c].staging /\ card'[c].marker = card[c].marker
                          /\ flash'[n] = flash[n]
<1>1. n \in Node /\ c \in Card /\ flash[n] \in Fs /\ card[c] \in CardFs
  BY Scalars
<1>2. CASE w = "littlefs"
  BY <1>1, <1>2 DEF renameStaging, TypeOK
<1>3. CASE w = "sd"
  <2> DEFINE k == [card[c] EXCEPT !.live = card[c].staging, !.staging = NoTree]
  <2>1. card' = [card EXCEPT ![c] = k] /\ flash' = flash
    BY <1>3 DEF renameStaging
  <2>2. card'[c] = k
    BY <1>1, <2>1 DEF TypeOK
  <2>3. k.live = card[c].staging /\ k.marker = card[c].marker
    BY <1>1 DEF CardFs
  <2> QED
    BY <1>3, <2>1, <2>2, <2>3
<1> QED
  BY <1>2, <1>3 DEF Where

LEMMA PutMarkerDoes ==
    ASSUME TypeOK, NEW n, NEW c, Alone(n, c), NEW r \in BOOLEAN,
           putMarker(n, r) \/ markerFails(n)
    PROVE  /\ mounted[n] = c /\ slot[n] = c =>
                card'[c] = [card[c] EXCEPT !.marker = myMarker(n, r)]
           /\ ~(mounted[n] = c /\ slot[n] = c) => card'[c] = card[c]
  BY Scalars DEF putMarker, markerFails, CardIn, TypeOK, Alone, Mild

LEMMA MyMarkerClaims ==
    ASSUME TypeOK, NEW n \in Node, NEW r \in BOOLEAN PROVE Claimed(myMarker(n, r)) <=> ~r
  BY DEF TypeOK, myMarker, Claim, Claimed

(* Settings that are saved are what memory holds.                           *)
LEMMA RememberDoes ==
    ASSUME TypeOK, NEW n, NEW c, Alone(n, c), ram[n] = nvs[n], NEW m \in Move, remember(n, m)
    PROVE  ram'[n] = nvs'[n] /\ nvs'[n].sdStore = nvs[n].sdStore
  BY Scalars DEF remember, saved, saveFailed, TypeOK, Alone, Mild, Transport

(* What a step must do to keep the store: touch the card or the setting     *)
(* only with the card mounted, leave what the home holds, and hand on.      *)
Keeps(n, c) ==
    /\ mounted[n] = c \/ (card'[c] = card[c] /\ nvs'[n].sdStore = nvs[n].sdStore)
    /\ HomeLive(n, c)' = HomeLive(n, c)
    /\ Phase(n, c)'

(* The history follows the rules: it has the home where they put it.        *)
LEMMA TrackHomes ==
    ASSUME TypeOK, TypeOK', NEW n, NEW c, Alone(n, c), AtHome(n, c), Track(n),
           mounted[n] = c \/ (card'[c] = card[c] /\ nvs'[n].sdStore = nvs[n].sdStore)
    PROVE  /\ home'[n] = IF Opens(nvs'[n], card'[c]) THEN c ELSE "flash"
           /\ record'[n] = IF writes' # writes /\ home'[n] = (IF onSd[n] THEN mounted[n] ELSE "flash")
                           THEN HomeLive(n, c)' ELSE record[n]
<1>1. /\ n \in Node /\ c \in Card /\ c # "flash" /\ c # NoCard
      /\ nvs[n] \in Transport /\ card[c] \in CardFs /\ home[n] \in {c, "flash"}
      /\ mounted[n] \in {c, NoCard}
  BY Scalars
<1>2. nvs'[n] \in Transport /\ card'[c] \in CardFs
  BY <1>1 DEF TypeOK
<1>3. /\ homeCard(n, nvs[n], card[c]) <=> Opens(nvs[n], card[c])
      /\ homeCard(n, nvs'[n], card'[c]) <=> Opens(nvs'[n], card'[c])
  BY <1>1, <1>2, HomeRule DEF Alone
<1> DEFINE was == Opens(nvs[n], card[c])
           is  == Opens(nvs'[n], card'[c])
           up  == mounted[n] # NoCard /\ ~homeCard(n, nvs[n], card[mounted[n]])
                                      /\ homeCard(n, nvs'[n], card'[mounted[n]])
           dn  == mounted[n] # NoCard /\ homeCard(n, nvs[n], card[mounted[n]])
                                      /\ ~homeCard(n, nvs'[n], card'[mounted[n]])
           at  == IF up THEN mounted[n] ELSE IF dn THEN "flash" ELSE home[n]
           wrote == writes' # writes /\ at = (IF onSd[n] THEN mounted[n] ELSE "flash")
           given == (up \/ dn) /\ home[n] \notin {"flash", mounted[n]}
<1>4. home[n] = IF was THEN c ELSE "flash"
  BY DEF AtHome
<1>6. at = IF is THEN c ELSE "flash"
  <2>1. CASE mounted[n] = c
    <3>1. (up <=> ~was /\ is) /\ (dn <=> was /\ ~is)
      BY <1>1, <1>3, <2>1
    <3> QED
      BY <1>4, <2>1, <3>1
  <2>2. CASE mounted[n] # c
    <3>1. ~up /\ ~dn
      BY <1>1, <2>2
    <3>2. is <=> was
      BY <2>2 DEF Opens
    <3> QED
      BY <1>4, <3>1, <3>2
  <2> QED
    BY <2>1, <2>2
<1>7. ~given
  BY <1>1
<1>8. home'[n] = at /\ record'[n] = IF wrote \/ given THEN liveAt(n, at) ELSE record[n]
  BY <1>1 DEF Track, TypeOK
<1>9. liveAt(n, at) = HomeLive(n, c)'
  BY <1>1, <1>6 DEF liveAt, HomeLive
<1> HIDE DEF at, given, is, was, up, dn
<1> QED
  BY <1>6, <1>7, <1>8, <1>9 DEF is

LEMMA KeepsStore ==
    ASSUME TypeOK, TypeOK', NEW n, NEW c, Alone(n, c), AtHome(n, c), Track(n),
           Keeps(n, c), writes' = writes
    PROVE  KInv(n, c)'
<1>1. AtHome(n, c)'
  BY TrackHomes DEF Keeps, AtHome, Phase
<1> QED
  BY <1>1 DEF Keeps, KInv

(* Where the card is in the slot, the boot reads it and nothing else.       *)
LEMMA SeatedReads ==
    ASSUME TypeOK, NEW n, NEW c, Alone(n, c), mounted[n] = c, slot[n] = c
    PROVE  /\ CardIn(n) /\ markerRead(n) = card[c].marker
           /\ fsAt(n, "sd").live = card[c].live /\ fsAt(n, "littlefs").live = flash[n].live
           /\ cardClass(n) = classify(n, TRUE, card[c].marker, card[c].live # NoTree)
<1>1. c # NoCard
  BY Scalars
<1>2. CardIn(n) /\ markerRead(n) = card[c].marker
  BY <1>1 DEF CardIn, markerRead
<1>3. fsAt(n, "sd").live = card[c].live /\ fsAt(n, "littlefs").live = flash[n].live
  BY <1>2 DEF fsAt
<1> QED
  BY <1>1, <1>2, <1>3 DEF cardClass

LEMMA DecideRule ==
    ASSUME TypeOK, NEW n, NEW c, Alone(n, c), mounted[n] = c, slot[n] = c
    PROVE  decide(nvs[n].sdStore, TRUE, cardClass(n)) = "sd" <=> Opens(nvs[n], card[c])
<1>1. homeCard(n, nvs[n], card[c]) <=> Opens(nvs[n], card[c])
  BY Scalars, HomeRule DEF Alone
<1> QED
  BY <1>1, SeatedReads DEF homeCard

(* A boot moves the store from its home, and only with the card there.      *)
LEMMA PlanRule ==
    ASSUME TypeOK, NEW n, NEW c, Alone(n, c), NEW r \in Move,
           mounted[n] # NoCard => slot[n] = c,
           NEW m, m = planAtBoot(r, nvs[n].sdStore, mounted[n] # NoCard, cardClass(n)), m # "none"
    PROVE  /\ mounted[n] = c /\ slot[n] = c /\ m \in {"adopt", "eject"}
           /\ m = "adopt" <=> ~Opens(nvs[n], card[c])
<1>1. mounted[n] # NoCard /\ m \in {"adopt", "eject"}
  BY DEF planAtBoot, Move
<1>2. mounted[n] = c /\ slot[n] = c
  BY <1>1, Scalars
<1>3. decide(nvs[n].sdStore, TRUE, cardClass(n)) = "sd" <=> Opens(nvs[n], card[c])
  BY <1>2, DecideRule
<1>4. decide(nvs[n].sdStore, TRUE, "blank") # "sd"
  BY DEF decide
<1> QED
  BY <1>1, <1>2, <1>3, <1>4 DEF planAtBoot, Move

(* A failure is taken off the books and the boot goes on to its choice.     *)
LEMMA FailDoes ==
    ASSUME TypeOK, NEW n, NEW c, Alone(n, c), ram[n] = nvs[n], NEW what \in {"failed", "stays"},
           fail(n, what)
    PROVE  /\ ram'[n] = nvs'[n] /\ nvs'[n].sdStore = nvs[n].sdStore
           /\ pc'[n] = "choose" /\ result'[n] = what
<1>1. "none" \in Move /\ n \in Node
  BY Scalars DEF Move
<1>2. ram'[n] = nvs'[n] /\ nvs'[n].sdStore = nvs[n].sdStore
  BY <1>1, RememberDoes DEF fail
<1> QED
  BY <1>1, <1>2 DEF fail, TypeOK

(* With the card mounted at its choice, the boot has not failed the store.  *)
LEMMA ChoiceHolds ==
    ASSUME NEW n, NEW c, pc'[n] = "choose", result'[n] # "ok", ram'[n] = nvs'[n],
           Seated(n, c), pc[n] \notin {"off", "run"}, slot'[n] = slot[n], mounted'[n] = mounted[n]
    PROVE  Phase(n, c)'
  BY DEF Phase, Seated, Staged, Single, Moving

(* The steps of a boot, one by one.                                         *)
LEMMA PowerOnKeeps ==
    ASSUME TypeOK, NEW n, NEW c, Alone(n, c), KInv(n, c), PowerOn(n)
    PROVE  Keeps(n, c)
<1>1. n \in Node /\ pc[n] = "off" /\ pc'[n] = "plan" /\ result'[n] = "none"
  BY Scalars DEF PowerOn, TypeOK
<1>2. nvs' = nvs /\ flash' = flash /\ card' = card /\ slot' = slot /\ ram'[n] = nvs[n]
  BY <1>1 DEF PowerOn, disk, TypeOK
<1>3. mounted'[n] \in {slot[n], NoCard} /\ slot[n] \in {c, NoCard}
  BY <1>1, Scalars DEF PowerOn, TypeOK
<1> QED
  BY <1>1, <1>2, <1>3 DEF Keeps, HomeLive, Phase, Seated, Staged, Single, Moving

LEMMA PlanKeeps ==
    ASSUME TypeOK, NEW n, NEW c, Alone(n, c), KInv(n, c), Plan(n)
    PROVE  Keeps(n, c)
<1>1. /\ n \in Node /\ pc[n] = "plan" /\ flash' = flash /\ card' = card
      /\ slot' = slot /\ mounted' = mounted /\ ram[n] = nvs[n]
  BY Scalars DEF Plan, slotVars, KInv, Phase
<1>2. mounted[n] # NoCard => slot[n] = c
  BY <1>1 DEF KInv, Phase, Seated
<1> DEFINE m == planAtBoot(ram[n].pendingMove, ram[n].sdStore, mounted[n] # NoCard, cardClass(n))
<1>3. CASE fail(n, "failed")
  <2>1. /\ ram'[n] = nvs'[n] /\ nvs'[n].sdStore = nvs[n].sdStore
        /\ pc'[n] = "choose" /\ result'[n] = "failed"
    BY <1>1, <1>3, FailDoes
  <2>2. Phase(n, c)'
    BY <1>1, <2>1, ChoiceHolds DEF KInv, Phase
  <2> QED
    BY <1>1, <2>1, <2>2 DEF Keeps, HomeLive, Opens
<1>4. CASE m = "none" /\ ~fail(n, "failed")
  <2>1. pc'[n] = "choose" /\ nvs' = nvs /\ ram' = ram /\ result' = result
    BY <1>1, <1>4 DEF Plan, TypeOK
  <2>2. result'[n] # "ok"
    BY <1>1, <2>1 DEF KInv, Phase, Single
  <2>3. Phase(n, c)'
    BY <1>1, <2>1, <2>2, ChoiceHolds DEF KInv, Phase
  <2> QED
    BY <1>1, <2>1, <2>3 DEF Keeps, HomeLive
<1>5. CASE m # "none" /\ ~fail(n, "failed")
  <2>1. pc'[n] = "clear" /\ nvs' = nvs /\ ram' = ram /\ result' = result /\ move'[n] = m
    BY <1>1, <1>5 DEF Plan, TypeOK
  <2>2. ram[n].pendingMove \in Move
    BY <1>1, Scalars DEF Transport
  <2>3. mounted[n] = c /\ slot[n] = c /\ m \in {"adopt", "eject"}
        /\ (m = "adopt" <=> ~Opens(nvs[n], card[c]))
    BY <1>1, <1>2, <1>5, <2>2, PlanRule
  <2>4. result[n] # "ok"
    BY <1>1 DEF KInv, Phase, Single
  <2> HIDE DEF m
  <2> QED
    BY <1>1, <2>1, <2>3, <2>4 DEF Keeps, HomeLive, Phase, Seated, Staged, Single, Moving, Adds
<1> QED
  BY <1>3, <1>4, <1>5


(* Of a step that leaves the boot in its move: nothing forgotten.           *)
LEMMA ClearKeeps ==
    ASSUME TypeOK, NEW n, NEW c, Alone(n, c), KInv(n, c), Clear(n)
    PROVE  Keeps(n, c)
<1>1. /\ n \in Node /\ c \in Card /\ pc[n] = "clear" /\ flash[n] \in Fs /\ card[c] \in CardFs
      /\ mounted[n] = c /\ slot[n] = c /\ move[n] \in {"adopt", "eject"} /\ result[n] # "ok"
      /\ ram[n] = nvs[n]
  BY Scalars DEF Clear, KInv, Phase, Seated, Single, Moving
<1>2. nvs' = nvs /\ ram' = ram /\ slot' = slot /\ mounted' = mounted /\ move' = move /\ result' = result
  BY DEF Clear, slotVars
<1>3. flash'[n].live = flash[n].live /\ card'[c].live = card[c].live
      /\ card'[c].marker = card[c].marker
  <2>1. To(n) \in Where /\ putStaging(n, To(n), NoTree)
    BY DEF To, Where, Clear
  <2> QED
    BY <1>1, <2>1, PutStagingDoes
<1>4. /\ haveSource'[n] <=> (IF Adds(n) THEN flash[n].live ELSE card[c].live) # NoTree
      /\ pc'[n] = IF haveSource'[n] THEN "copy" ELSE "drop"
  <2>1. haveSource'[n] = (fsAt(n, From(n)).live # NoTree)
        /\ pc'[n] = IF haveSource'[n] THEN "copy" ELSE "drop"
    BY <1>1 DEF Clear, TypeOK
  <2> QED
    BY <1>1, <2>1, SeatedReads DEF From, Adds
<1>5. Adds(n) <=> ~Opens(nvs[n], card[c])
  BY <1>1 DEF KInv, Phase, Staged
<1> QED
  BY <1>1, <1>2, <1>3, <1>4, <1>5
     DEF Keeps, HomeLive, Opens, Phase, Seated, Staged, Single, Moving, Adds

LEMMA CopyKeeps ==
    ASSUME TypeOK, NEW n, NEW c, Alone(n, c), KInv(n, c), Copy(n)
    PROVE  Keeps(n, c)
<1>1. /\ n \in Node /\ c \in Card /\ pc[n] = "copy" /\ flash[n] \in Fs /\ card[c] \in CardFs
      /\ mounted[n] = c /\ slot[n] = c /\ move[n] \in {"adopt", "eject"} /\ result[n] # "ok"
      /\ ram[n] = nvs[n] /\ haveSource[n]
  BY Scalars DEF Copy, KInv, Phase, Seated, Single, Staged, Moving
<1>2. slot' = slot /\ mounted' = mounted /\ move' = move /\ result' = result
      /\ haveSource' = haveSource /\ pc'[n] = "drop"
  BY <1>1 DEF Copy, slotVars, TypeOK
<1>3. ram'[n] = nvs'[n] /\ nvs'[n].sdStore = nvs[n].sdStore
  BY <1>1, RememberDoes DEF Copy, Move
<1>4. /\ flash'[n].live = flash[n].live /\ card'[c].live = card[c].live
      /\ card'[c].marker = card[c].marker
      /\ IF Adds(n) THEN card'[c].staging = flash[n].live ELSE flash'[n].staging = card[c].live
  <2>1. To(n) \in Where /\ putStaging(n, To(n), fsAt(n, From(n)).live)
    BY DEF To, Where, Copy
  <2>2. fsAt(n, From(n)).live = IF Adds(n) THEN flash[n].live ELSE card[c].live
    BY <1>1, SeatedReads DEF From, Adds
  <2>3. To(n) = IF Adds(n) THEN "sd" ELSE "littlefs"
    BY DEF To, Adds
  <2> QED
    BY <1>1, <2>1, <2>2, <2>3, PutStagingDoes
<1>5. Adds(n) <=> ~Opens(nvs[n], card[c])
  BY <1>1 DEF KInv, Phase, Staged
<1> QED
  BY <1>1, <1>2, <1>3, <1>4, <1>5
     DEF Keeps, HomeLive, Opens, Phase, Seated, Staged, Single, Moving, Adds

LEMMA CopyFailsKeeps ==
    ASSUME TypeOK, NEW n, NEW c, Alone(n, c), KInv(n, c), CopyFails(n)
    PROVE  Keeps(n, c)
<1>1. /\ n \in Node /\ c \in Card /\ pc[n] = "copy" /\ flash[n] \in Fs /\ card[c] \in CardFs
      /\ mounted[n] = c /\ slot[n] = c /\ ram[n] = nvs[n]
  BY Scalars DEF CopyFails, KInv, Phase, Seated, Moving
<1>2. slot' = slot /\ mounted' = mounted
  BY DEF CopyFails, slotVars
<1>3. /\ ram'[n] = nvs'[n] /\ nvs'[n].sdStore = nvs[n].sdStore
      /\ pc'[n] = "choose" /\ result'[n] = "failed"
  BY <1>1, FailDoes DEF CopyFails
<1>4. flash'[n].live = flash[n].live /\ card'[c].live = card[c].live
      /\ card'[c].marker = card[c].marker
  <2>1. To(n) \in Where /\ putStaging(n, To(n), NoTree)
    BY DEF To, Where, CopyFails
  <2> QED
    BY <1>1, <2>1, PutStagingDoes
<1>5. Phase(n, c)'
  BY <1>1, <1>2, <1>3, ChoiceHolds DEF KInv, Phase
<1> QED
  BY <1>1, <1>3, <1>4, <1>5 DEF Keeps, HomeLive, Opens

LEMMA DropKeeps ==
    ASSUME TypeOK, NEW n, NEW c, Alone(n, c), KInv(n, c), Drop(n)
    PROVE  Keeps(n, c)
<1>1. /\ n \in Node /\ c \in Card /\ pc[n] = "drop" /\ flash[n] \in Fs /\ card[c] \in CardFs
      /\ mounted[n] = c /\ slot[n] = c /\ move[n] \in {"adopt", "eject"} /\ result[n] # "ok"
      /\ ram[n] = nvs[n]
  BY Scalars DEF Drop, KInv, Phase, Seated, Single, Moving
<1>2. nvs' = nvs /\ ram' = ram /\ slot' = slot /\ mounted' = mounted /\ move' = move
      /\ result' = result /\ haveSource' = haveSource
      /\ pc'[n] = IF haveSource[n] THEN "place" ELSE "mark"
  BY <1>1 DEF Drop, slotVars, TypeOK
<1>3. To(n) \in Where /\ putLive(n, To(n), NoTree) /\ (To(n) = "sd" <=> Adds(n))
  BY DEF To, Where, Drop, Adds
<1>4. CASE Adds(n)
  <2>1. flash'[n] = flash[n]
    BY <1>1, <1>3, <1>4, PutLiveDoes
  <2>2. card'[c].live = NoTree /\ card'[c].marker = card[c].marker
        /\ card'[c].staging = card[c].staging
    BY <1>1, <1>3, <1>4, PutLiveDoes
  <2>3. ~Opens(nvs[n], card[c]) /\ ~Opens(nvs[n], card'[c])
    BY <1>1, <1>4, <2>2 DEF KInv, Phase, Staged, Opens
  <2>4. IF haveSource[n] THEN card[c].staging = flash[n].live ELSE flash[n].live = NoTree
    BY <1>1, <1>4 DEF KInv, Phase, Staged
  <2> QED
    BY <1>1, <1>2, <1>4, <2>1, <2>2, <2>3, <2>4
       DEF Keeps, HomeLive, Phase, Seated, Staged, Single, Moving, Adds
<1>5. CASE ~Adds(n)
  <2>1. card'[c] = card[c]
    BY <1>1, <1>3, <1>5, PutLiveDoes DEF Where
  <2>2. flash'[n].live = NoTree /\ flash'[n].staging = flash[n].staging
    BY <1>1, <1>3, <1>5, PutLiveDoes DEF Where
  <2>3. Opens(nvs[n], card[c])
    BY <1>1, <1>5 DEF KInv, Phase, Staged
  <2>4. IF haveSource[n] THEN flash[n].staging = card[c].live ELSE card[c].live = NoTree
    BY <1>1, <1>5 DEF KInv, Phase, Staged
  <2> QED
    BY <1>1, <1>2, <1>5, <2>1, <2>2, <2>3, <2>4
       DEF Keeps, HomeLive, Phase, Seated, Staged, Single, Moving, Adds
<1> QED
  BY <1>4, <1>5

(* The staged copy is put in place, and the two media agree.                *)
LEMMA RenameAgrees ==
    ASSUME TypeOK, NEW n, NEW c, Alone(n, c), KInv(n, c), pc[n] = "place",
           mounted[n] = c, slot[n] = c,
           renameStaging(n, To(n)), nvs'[n].sdStore = nvs[n].sdStore
    PROVE  card'[c].live = flash'[n].live /\ HomeLive(n, c)' = HomeLive(n, c)
<1>1. /\ Adds(n) <=> ~Opens(nvs[n], card[c])
      /\ IF Adds(n) THEN card[c].staging = flash[n].live ELSE flash[n].staging = card[c].live
  BY DEF KInv, Phase, Staged
<1>2. To(n) \in Where /\ (To(n) = "sd" <=> Adds(n))
  BY DEF To, Where, Adds
<1>3. CASE Adds(n)
  <2>1. card'[c].live = card[c].staging /\ flash'[n] = flash[n]
    BY <1>1, <1>2, <1>3, RenameStagingDoes
  <2> QED
    BY <1>1, <1>3, <2>1 DEF HomeLive
<1>4. CASE ~Adds(n)
  <2>1. flash'[n].live = flash[n].staging /\ card'[c] = card[c]
    BY <1>1, <1>2, <1>4, RenameStagingDoes DEF Where
  <2> QED
    BY <1>1, <1>4, <2>1 DEF HomeLive
<1> QED
  BY <1>3, <1>4

LEMMA PlaceKeeps ==
    ASSUME TypeOK, NEW n, NEW c, Alone(n, c), KInv(n, c), Place(n)
    PROVE  Keeps(n, c)
<1>1. /\ n \in Node /\ pc[n] = "place" /\ mounted[n] = c /\ slot[n] = c
      /\ move[n] \in {"adopt", "eject"} /\ result[n] # "ok" /\ ram[n] = nvs[n]
  BY Scalars DEF Place, KInv, Phase, Seated, Single, Moving
<1>2. nvs' = nvs /\ ram' = ram /\ slot' = slot /\ mounted' = mounted /\ move' = move
      /\ result' = result /\ pc'[n] = "mark"
  BY <1>1 DEF Place, slotVars, TypeOK
<1>3. card'[c].live = flash'[n].live /\ HomeLive(n, c)' = HomeLive(n, c)
  BY <1>1, <1>2, RenameAgrees DEF Place
<1> QED
  BY <1>1, <1>2, <1>3 DEF Keeps, Phase, Seated, Staged, Single, Moving

LEMMA PlaceFailsKeeps ==
    ASSUME TypeOK, NEW n, NEW c, Alone(n, c), KInv(n, c), PlaceFails(n)
    PROVE  Keeps(n, c)
<1>1. /\ n \in Node /\ pc[n] = "place" /\ mounted[n] = c /\ slot[n] = c /\ ram[n] = nvs[n]
  BY Scalars DEF PlaceFails, KInv, Phase, Seated, Moving
<1>2. slot' = slot /\ mounted' = mounted
  BY DEF PlaceFails, slotVars
<1>3. /\ ram'[n] = nvs'[n] /\ nvs'[n].sdStore = nvs[n].sdStore
      /\ pc'[n] = "choose" /\ result'[n] = "stays"
  BY <1>1, FailDoes DEF PlaceFails
<1>4. HomeLive(n, c)' = HomeLive(n, c)
  <2>1. CASE UNCHANGED <<flash, card>>
    BY <1>3, <2>1 DEF HomeLive, Opens
  <2>2. CASE renameStaging(n, To(n))
    BY <1>1, <1>3, <2>2, RenameAgrees
  <2> QED
    BY <2>1, <2>2 DEF PlaceFails
<1>5. Phase(n, c)'
  BY <1>1, <1>2, <1>3, ChoiceHolds DEF KInv, Phase
<1> QED
  BY <1>1, <1>4, <1>5 DEF Keeps

LEMMA MarkKeeps ==
    ASSUME TypeOK, NEW n, NEW c, Alone(n, c), KInv(n, c), Mark(n)
    PROVE  Keeps(n, c)
<1>1. /\ n \in Node /\ c \in Card /\ pc[n] = "mark" /\ mounted[n] = c /\ slot[n] = c
      /\ move[n] \in {"adopt", "eject"} /\ result[n] # "ok" /\ ram[n] = nvs[n]
      /\ card[c].live = flash[n].live /\ card[c] \in CardFs
  BY Scalars DEF Mark, KInv, Phase, Seated, Single, Staged, Moving
<1>2. nvs' = nvs /\ ram' = ram /\ flash' = flash /\ slot' = slot /\ mounted' = mounted
      /\ move' = move /\ result' = result /\ pc'[n] = "save"
  BY <1>1 DEF Mark, slotVars, TypeOK
<1>3. card'[c] = [card[c] EXCEPT !.marker = myMarker(n, move[n] = "eject")]
  BY <1>1, PutMarkerDoes DEF Mark
<1>4. card'[c].live = card[c].live /\ card'[c].marker = myMarker(n, move[n] = "eject")
  BY <1>1, <1>3 DEF CardFs
<1>5. Claimed(card'[c].marker) <=> Adds(n)
  BY <1>1, <1>4, MyMarkerClaims DEF Adds
<1> QED
  BY <1>1, <1>2, <1>4, <1>5 DEF Keeps, HomeLive, Phase, Seated, Staged, Single, Moving, Adds

LEMMA SaveKeeps ==
    ASSUME TypeOK, NEW n, NEW c, Alone(n, c), KInv(n, c), Save(n) \/ SaveFails(n)
    PROVE  Keeps(n, c)
<1>1. Save(n)
  BY DEF SaveFails, Alone, Mild
<1>2. /\ n \in Node /\ pc[n] = "save" /\ mounted[n] = c /\ slot[n] = c
      /\ move[n] \in {"adopt", "eject"} /\ result[n] # "ok"
      /\ card[c].live = flash[n].live /\ (Adds(n) => Claimed(card[c].marker))
  BY <1>1, Scalars DEF Save, KInv, Phase, Seated, Single, Staged, Moving
<1>3. flash' = flash /\ card' = card /\ slot' = slot /\ mounted' = mounted
      /\ move' = move /\ result' = result /\ pc'[n] = "remove"
      /\ ram'[n] = moved(n) /\ nvs'[n] = moved(n)
  BY <1>1, <1>2 DEF Save, saved, slotVars, TypeOK
<1>4. nvs'[n].sdStore = Adds(n)
  BY <1>3 DEF moved, Adds
<1> QED
  BY <1>2, <1>3, <1>4 DEF Keeps, HomeLive, Phase, Seated, Staged, Single, Moving, Adds

LEMMA RemoveKeeps ==
    ASSUME TypeOK, NEW n, NEW c, Alone(n, c), KInv(n, c), Remove(n)
    PROVE  Keeps(n, c)
<1>1. /\ n \in Node /\ c \in Card /\ pc[n] = "remove" /\ mounted[n] = c /\ slot[n] = c
      /\ move[n] \in {"adopt", "eject"} /\ ram[n] = nvs[n] /\ card[c] \in CardFs /\ flash[n] \in Fs
      /\ (Adds(n) => Claimed(card[c].marker)) /\ nvs[n].sdStore = Adds(n)
  BY Scalars DEF Remove, KInv, Phase, Seated, Staged, Moving
<1>2. nvs' = nvs /\ ram' = ram /\ slot' = slot /\ mounted' = mounted
      /\ move' = move /\ pc'[n] = "choose"
  BY <1>1 DEF Remove, slotVars, TypeOK
<1>3. From(n) \in Where /\ putLive(n, From(n), NoTree) /\ (From(n) = "littlefs" <=> Adds(n))
  BY DEF From, Where, Remove, Adds
<1>4. CASE Adds(n)
  <2>1. card'[c] = card[c]
    BY <1>1, <1>3, <1>4, PutLiveDoes
  <2>2. flash'[n].live = NoTree
    BY <1>1, <1>3, <1>4, PutLiveDoes
  <2>3. Opens(nvs[n], card[c])
    BY <1>1, <1>4 DEF Opens
  <2> QED
    BY <1>1, <1>2, <2>1, <2>2, <2>3 DEF Keeps, HomeLive, Phase, Seated, Staged, Single, Moving
<1>5. CASE ~Adds(n)
  <2>1. flash'[n] = flash[n]
    BY <1>1, <1>3, <1>5, PutLiveDoes DEF Where
  <2>2. card'[c].live = NoTree
    BY <1>1, <1>3, <1>5, PutLiveDoes DEF Where
  <2>3. ~nvs[n].sdStore
    BY <1>1, <1>5
  <2> QED
    BY <1>1, <1>2, <2>1, <2>2, <2>3
       DEF Keeps, HomeLive, Opens, Phase, Seated, Staged, Single, Moving
<1> QED
  BY <1>4, <1>5


LEMMA ChooseKeeps ==
    ASSUME TypeOK, NEW n, NEW c, Alone(n, c), KInv(n, c), Choose(n)
    PROVE  Keeps(n, c)
<1>1. /\ n \in Node /\ c # NoCard /\ pc[n] = "choose" /\ ram[n] = nvs[n]
      /\ mounted[n] \in {c, NoCard} /\ (mounted[n] # NoCard => slot[n] = c)
  BY Scalars DEF Choose, KInv, Phase, Seated
<1>2. nvs' = nvs /\ ram' = ram /\ flash' = flash /\ card' = card /\ slot' = slot
      /\ mounted' = mounted /\ result' = result
  BY DEF Choose, disk, slotVars
<1> DEFINE w == decide(ram[n].sdStore, mounted[n] # NoCard, cardClass(n))
<1>3. onSd'[n] = (w = "sd") /\ pc'[n] \in {"sign", "run"} /\ (pc'[n] = "sign" => w = "sd")
  BY <1>1 DEF Choose, TypeOK
<1>4. w = "sd" <=> mounted[n] = c /\ Opens(nvs[n], card[c])
  <2>1. CASE mounted[n] = c
    BY <1>1, <2>1, DecideRule
  <2>2. CASE mounted[n] = NoCard
    BY <1>1, <2>2 DEF decide
  <2> QED
    BY <1>1, <2>1, <2>2
<1>5. result[n] = "ok" =>
         \/ Opens(nvs[n], card[c]) /\ mounted[n] = c /\ flash[n].live = NoTree
         \/ ~nvs[n].sdStore /\ card[c].live = NoTree
  BY <1>1 DEF KInv, Phase, Single
<1>6. ~nvs[n].sdStore => ~Opens(nvs[n], card[c])
  BY DEF Opens
<1> HIDE DEF w
<1>7. Seated(n, c)' /\ Staged(n, c)'
  BY <1>1, <1>2, <1>3, <1>4 DEF Seated, Staged, Moving
<1>8. Single(n, c)'
  BY <1>1, <1>2, <1>3, <1>4, <1>5, <1>6 DEF Single
<1> QED
  BY <1>1, <1>2, <1>7, <1>8 DEF Keeps, HomeLive, Phase

LEMMA SignKeeps ==
    ASSUME TypeOK, NEW n, NEW c, Alone(n, c), KInv(n, c), Sign(n)
    PROVE  Keeps(n, c)
<1>1. /\ n \in Node /\ c \in Card /\ c # NoCard /\ pc[n] = "sign" /\ ram[n] = nvs[n]
      /\ mounted[n] = c /\ slot[n] = c /\ onSd[n] /\ Opens(nvs[n], card[c])
      /\ card[c] \in CardFs /\ (result[n] = "ok" => flash[n].live = NoTree)
  BY Scalars DEF Sign, KInv, Phase, Seated, Staged, Single
<1>2. nvs' = nvs /\ ram' = ram /\ flash' = flash /\ slot' = slot /\ mounted' = mounted
      /\ result' = result /\ onSd' = onSd /\ pc'[n] = "run"
  BY <1>1 DEF Sign, slotVars, TypeOK
<1>3. card'[c] = [card[c] EXCEPT !.marker = myMarker(n, FALSE)]
  BY <1>1, PutMarkerDoes DEF Sign
<1>4. card'[c].live = card[c].live /\ card'[c].marker = myMarker(n, FALSE)
  BY <1>1, <1>3 DEF CardFs
<1>5. Claimed(card'[c].marker)
  BY <1>1, <1>4, MyMarkerClaims
<1>6. Opens(nvs'[n], card'[c])
  BY <1>1, <1>2, <1>5 DEF Opens
<1> QED
  BY <1>1, <1>2, <1>4, <1>6 DEF Keeps, HomeLive, Phase, Seated, Staged, Single, Moving

(* The node running.  A write goes where the boot chose, and counts as the  *)
(* store of record only at home.                                            *)
LEMMA WriteKeeps ==
    ASSUME TypeOK, TypeOK', NEW n, NEW c, Alone(n, c), KInv(n, c), Write(n), Track(n)
    PROVE  KInv(n, c)'
<1> DEFINE t == [owner |-> n, ver |-> writes + 1, whole |-> TRUE]
           w == IF onSd[n] THEN "sd" ELSE "littlefs"
<1>1. /\ n \in Node /\ c \in Card /\ c # NoCard /\ c # "flash" /\ pc[n] = "run" /\ ram[n] = nvs[n]
      /\ card[c] \in CardFs /\ flash[n] \in Fs /\ mounted[n] \in {c, NoCard}
      /\ (onSd[n] => mounted[n] = c /\ slot[n] = c)
  BY Scalars DEF Write, KInv, Phase, CardIn
<1>2. nvs' = nvs /\ ram' = ram /\ slot' = slot /\ mounted' = mounted /\ pc' = pc
      /\ result' = result /\ onSd' = onSd /\ writes' = writes + 1 /\ putLive(n, w, t)
  BY DEF Write, slotVars, bootVars
<1>3. t # NoTree
  <2>1. t \in [owner : Node, ver : Nat, whole : BOOLEAN]
    BY <1>1 DEF TypeOK
  <2> QED
    BY <2>1, NoTreeAssumption
<1>4. result[n] = "ok" => (IF onSd[n] THEN flash[n].live ELSE card[c].live) = NoTree
  BY <1>1 DEF KInv, Phase, Single
<1>5. writes' # writes
  BY <1>2 DEF TypeOK
<1>6. home[n] = (IF Opens(nvs[n], card[c]) THEN c ELSE "flash") /\ record[n] = HomeLive(n, c)
  BY DEF KInv, AtHome
<1> HIDE DEF t
<1>7. CASE onSd[n]
  <2>1. card'[c].live = t /\ card'[c].marker = card[c].marker /\ flash'[n] = flash[n]
    BY <1>1, <1>2, <1>7, PutLiveDoes DEF Where
  <2>2. /\ home'[n] = IF Opens(nvs'[n], card'[c]) THEN c ELSE "flash"
        /\ record'[n] = IF writes' # writes /\ home'[n] = (IF onSd[n] THEN mounted[n] ELSE "flash")
                        THEN HomeLive(n, c)' ELSE record[n]
    BY <1>1, <1>7, TrackHomes DEF KInv
  <2>3. Opens(nvs[n], card[c]) => Opens(nvs'[n], card'[c])
    BY <1>2, <1>3, <2>1 DEF Opens
  <2>4. AtHome(n, c)'
    BY <1>1, <1>2, <1>5, <1>6, <1>7, <2>1, <2>2, <2>3 DEF AtHome, HomeLive
  <2>5. Phase(n, c)'
    BY <1>1, <1>2, <1>4, <1>7, <2>1 DEF Phase, Seated, Staged, Single, Moving
  <2> QED
    BY <2>4, <2>5 DEF KInv
<1>8. CASE ~onSd[n]
  <2>1. card' = card /\ flash'[n].live = t
    <3>1. w = "littlefs"
      BY <1>8
    <3>2. card' = card /\ flash' = [flash EXCEPT ![n].live = t]
      BY <1>2, <3>1 DEF putLive
    <3>3. flash'[n] = [flash[n] EXCEPT !.live = t]
      BY <1>1, <3>2 DEF TypeOK
    <3> QED
      BY <1>1, <3>2, <3>3 DEF Fs
  <2>2. /\ home'[n] = IF Opens(nvs'[n], card'[c]) THEN c ELSE "flash"
        /\ record'[n] = IF writes' # writes /\ home'[n] = (IF onSd[n] THEN mounted[n] ELSE "flash")
                        THEN HomeLive(n, c)' ELSE record[n]
    BY <1>2, <2>1, TrackHomes DEF KInv
  <2>3. AtHome(n, c)'
    BY <1>1, <1>2, <1>5, <1>6, <1>8, <2>1, <2>2 DEF AtHome, HomeLive
  <2>4. Phase(n, c)'
    BY <1>1, <1>2, <1>4, <1>8, <2>1 DEF Phase, Seated, Staged, Single, Moving
  <2> QED
    BY <2>3, <2>4 DEF KInv
<1> QED
  BY <1>7, <1>8

(* A running node that leaves both media and the setting alone.             *)
LEMMA RunningKeeps ==
    ASSUME NEW n, NEW c, KInv(n, c), pc[n] = "run", pc' = pc, flash' = flash, card' = card,
           ram'[n] = nvs'[n], nvs'[n].sdStore = nvs[n].sdStore, onSd' = onSd,
           result'[n] \in {result[n], "queued", "failed"}
    PROVE  Keeps(n, c)
<1>1. Single(n, c)
  BY DEF KInv, Phase
<1> QED
  BY <1>1 DEF Keeps, HomeLive, Opens, Phase, Seated, Staged, Single, Moving

LEMMA RequestKeeps ==
    ASSUME TypeOK, NEW n, NEW c, Alone(n, c), KInv(n, c), RequestAdopt(n) \/ RequestEject(n)
    PROVE  Keeps(n, c) /\ writes' = writes
<1>1. /\ n \in Node /\ pc[n] = "run" /\ pc' = pc /\ flash' = flash /\ card' = card /\ onSd' = onSd
      /\ ram[n] = nvs[n] /\ writes' = writes
  BY Scalars DEF RequestAdopt, RequestEject, KInv, Phase, counters
<1>2. PICK m \in Move : queue(n, m)
  BY DEF RequestAdopt, RequestEject, Move
<1>3. remember(n, m)
  BY <1>2 DEF queue, remember
<1>4. ram'[n] = nvs'[n] /\ nvs'[n].sdStore = nvs[n].sdStore
  BY <1>1, <1>3, RememberDoes
<1>5. result'[n] \in {"queued", "failed"}
  BY <1>1, <1>2 DEF queue, TypeOK
<1> QED
  BY <1>1, <1>4, <1>5, RunningKeeps

LEMMA PollKeeps ==
    ASSUME TypeOK, NEW n, NEW c, Alone(n, c), KInv(n, c),
           RequestFormat(n) \/ PollLost(n) \/ PollMount(n) \/ PollStuck(n)
    PROVE  Keeps(n, c) /\ writes' = writes
<1>1. /\ pc[n] = "run" /\ pc' = pc /\ flash' = flash /\ card' = card /\ onSd' = onSd
      /\ nvs' = nvs /\ ram' = ram /\ result' = result /\ writes' = writes
  BY DEF RequestFormat, PollLost, PollMount, PollStuck, disk, bootVars, counters
<1>2. ram[n] = nvs[n]
  BY DEF KInv, Phase
<1> QED
  BY <1>1, <1>2, RunningKeeps

(* A format takes the store with it only where the rules say it was.        *)
LEMMA FormatKeeps ==
    ASSUME TypeOK, NEW n, NEW c, Alone(n, c), KInv(n, c), Format(n), TrackFormat(n)
    PROVE  KInv(n, c)'
<1>1. /\ n \in Node /\ c \in Card /\ c # NoCard /\ c # "flash" /\ pc[n] = "run" /\ ram[n] = nvs[n]
      /\ slot[n] \in {c, NoCard}
  BY Scalars DEF Format, KInv, Phase
<1>2. nvs' = nvs /\ ram' = ram /\ flash' = flash /\ slot' = slot /\ pc' = pc
      /\ result' = result /\ onSd' = onSd
  BY DEF Format
<1>3. /\ home[n] = IF Opens(nvs[n], card[c]) THEN c ELSE "flash"
      /\ record[n] = HomeLive(n, c)
  BY DEF KInv, AtHome
<1>4. result[n] = "ok" => (IF onSd[n] THEN flash[n].live ELSE card[c].live) = NoTree
  BY <1>1 DEF KInv, Phase, Single
<1>5. CASE slot[n] = c
  <2>1. card'[c] = BlankCard
    BY <1>1, <1>5 DEF Format, TypeOK
  <2>2. card'[c].live = NoTree /\ card'[c].marker = NoMarker
    BY <2>1 DEF BlankCard
  <2>3. ~Opens(nvs'[n], card'[c])
    BY <2>2, MarkerAssumption DEF Opens, Claimed
  <2>4. home'[n] = "flash" /\ record'[n] = flash[n].live
    BY <1>1, <1>3, <1>5 DEF TrackFormat, HomeLive
  <2>5. AtHome(n, c)'
    BY <1>1, <1>2, <2>3, <2>4 DEF AtHome, HomeLive
  <2>6. Phase(n, c)'
    BY <1>1, <1>2, <1>4, <2>2 DEF Phase, Seated, Staged, Single, Moving
  <2> QED
    BY <2>5, <2>6 DEF KInv
<1>6. CASE slot[n] = NoCard
  <2>1. card' = card
    BY <1>1, <1>6 DEF Format
  <2>2. home'[n] = home[n] /\ record'[n] = record[n]
    BY <1>1, <1>3, <1>6 DEF TrackFormat
  <2>3. AtHome(n, c)'
    BY <1>1, <1>2, <1>3, <2>1, <2>2 DEF AtHome, HomeLive
  <2>4. Phase(n, c)'
    BY <1>1, <1>2, <1>4, <2>1 DEF Phase, Seated, Staged, Single, Moving
  <2> QED
    BY <2>3, <2>4 DEF KInv
<1> QED
  BY <1>1, <1>5, <1>6


(* A restart or a cut forgets where the boot was, and nothing on a medium.  *)
LEMMA ForgottenPhase ==
    ASSUME TypeOK, NEW n, NEW c, Alone(n, c), forgotten(n)
    PROVE  Phase(n, c)'
<1>1. n \in Node
  BY Scalars
<1>2. pc'[n] = "off" /\ mounted'[n] = NoCard /\ ram'[n] = nvs'[n] /\ result'[n] = "none"
  BY <1>1 DEF forgotten, TypeOK
<1> QED
  BY <1>2 DEF Phase, Seated, Staged, Single, Moving

LEMMA RestartKeeps ==
    ASSUME TypeOK, NEW n, NEW c, Alone(n, c), KInv(n, c), Restart(n)
    PROVE  Keeps(n, c) /\ writes' = writes
<1>1. nvs' = nvs /\ flash' = flash /\ card' = card /\ writes' = writes
  BY DEF Restart, disk, counters
<1>2. Phase(n, c)'
  BY ForgottenPhase DEF Restart
<1> QED
  BY <1>1, <1>2 DEF Keeps, HomeLive

(* What a cut leaves half done is never at the home, nor does it move the   *)
(* home before the two media agree.                                         *)
LEMMA TornEmpty == ASSUME NEW t \in Tree PROVE torn(t) = NoTree <=> t = NoTree
<1>1. CASE t = NoTree
  BY <1>1 DEF torn
<1>2. CASE t \in [owner : Node, ver : Nat, whole : BOOLEAN]
  <2>1. torn(t) = [t EXCEPT !.whole = FALSE]
    BY <1>2, NoTreeAssumption DEF torn
  <2>2. torn(t) \in [owner : Node, ver : Nat, whole : BOOLEAN]
    BY <1>2, <2>1
  <2> QED
    BY <1>2, <2>2, NoTreeAssumption
<1> QED
  BY <1>1, <1>2 DEF Tree

LEMMA HalfwayKeeps ==
    ASSUME TypeOK, NEW n, NEW c, Alone(n, c), KInv(n, c), halfway(n), pc[n] # "sign"
    PROVE  /\ mounted[n] = c \/ (card'[c] = card[c] /\ nvs'[n].sdStore = nvs[n].sdStore)
           /\ HomeLive(n, c)' = HomeLive(n, c)
<1> USE DEF KInv, Phase
<1>1. /\ n \in Node /\ c \in Card /\ c # NoCard /\ card[c] \in CardFs /\ flash[n] \in Fs
      /\ (pc[n] \in Moving => mounted[n] = c /\ slot[n] = c)
  BY Scalars DEF Seated, Moving
<1>2. CASE UNCHANGED disk
  BY <1>2 DEF disk, HomeLive
<1>3. CASE pc[n] = "copy" /\ UNCHANGED nvs /\ \E t : putStaging(n, To(n), t)
  <2>1. PICK t : putStaging(n, To(n), t)
    BY <1>3
  <2>2. To(n) \in Where /\ mounted[n] = c /\ slot[n] = c
    BY <1>1, <1>3 DEF To, Where, Moving
  <2>3. flash'[n].live = flash[n].live /\ card'[c].live = card[c].live
        /\ card'[c].marker = card[c].marker
    BY <2>1, <2>2, PutStagingDoes
  <2> QED
    BY <1>3, <2>2, <2>3 DEF HomeLive, Opens
<1>4. CASE pc[n] = "drop" /\ UNCHANGED nvs /\ putLive(n, To(n), torn(fsAt(n, To(n)).live))
  <2>1. To(n) \in Where /\ (To(n) = "sd" <=> Adds(n)) /\ mounted[n] = c /\ slot[n] = c
    BY <1>1, <1>4 DEF To, Where, Moving, Adds
  <2>2. Adds(n) <=> ~Opens(nvs[n], card[c])
    BY <1>4 DEF Staged
  <2>3. CASE Adds(n)
    <3>1. putLive(n, "sd", torn(card[c].live))
      <4>1. To(n) = "sd" /\ fsAt(n, "sd").live = card[c].live
        BY <2>1, <2>3, SeatedReads
      <4> QED
        BY <1>4, <4>1
    <3>2. card'[c].live = torn(card[c].live) /\ card'[c].marker = card[c].marker
          /\ flash'[n] = flash[n]
      BY <2>1, <3>1, PutLiveDoes DEF Where
    <3>3. card[c].live \in Tree
      BY <1>1 DEF CardFs
    <3>4. ~Opens(nvs'[n], card'[c])
      BY <1>4, <2>2, <2>3, <3>2, <3>3, TornEmpty DEF Opens
    <3> QED
      BY <2>1, <2>2, <2>3, <3>2, <3>4 DEF HomeLive
  <2>4. CASE ~Adds(n)
    <3>1. card'[c] = card[c]
      BY <1>4, <2>1, <2>4, PutLiveDoes DEF Where
    <3> QED
      BY <1>4, <2>1, <2>2, <2>4, <3>1 DEF HomeLive
  <2> QED
    BY <2>3, <2>4
<1>5. CASE /\ pc[n] = "mark" /\ UNCHANGED <<nvs, flash>>
           /\ card' = [card EXCEPT ![slot[n]].marker = Unreadable]
  <2>1. card[c].live = flash[n].live /\ mounted[n] = c /\ slot[n] = c
    BY <1>1, <1>5 DEF Staged, Moving
  <2>2. card'[c] = [card[c] EXCEPT !.marker = Unreadable]
    BY <1>1, <1>5, <2>1 DEF TypeOK
  <2>3. card'[c].live = card[c].live
    BY <1>1, <2>2 DEF CardFs
  <2> QED
    BY <1>5, <2>1, <2>3 DEF HomeLive
<1>6. CASE pc[n] = "save" /\ UNCHANGED <<flash, card>>
  <2>1. card[c].live = flash[n].live /\ mounted[n] = c
    BY <1>1, <1>6 DEF Staged, Moving
  <2> QED
    BY <1>6, <2>1 DEF HomeLive
<1>7. CASE pc[n] = "remove" /\ UNCHANGED nvs /\ putLive(n, From(n), torn(fsAt(n, From(n)).live))
  <2>1. /\ From(n) \in Where /\ (From(n) = "littlefs" <=> Adds(n))
        /\ mounted[n] = c /\ slot[n] = c
    BY <1>1, <1>7 DEF From, Where, Moving, Adds
  <2>2. (Adds(n) => Claimed(card[c].marker)) /\ nvs[n].sdStore = Adds(n)
    BY <1>7 DEF Staged
  <2>3. CASE Adds(n)
    <3>1. card'[c] = card[c]
      BY <1>7, <2>1, <2>3, PutLiveDoes
    <3>2. Opens(nvs[n], card[c])
      BY <2>2, <2>3 DEF Opens
    <3> QED
      BY <1>7, <2>1, <3>1, <3>2 DEF HomeLive
  <2>4. CASE ~Adds(n)
    <3>1. flash'[n] = flash[n]
      BY <1>7, <2>1, <2>4, PutLiveDoes DEF Where
    <3>2. ~nvs[n].sdStore
      BY <2>2, <2>4
    <3> QED
      BY <1>7, <2>1, <3>1, <3>2 DEF HomeLive, Opens
  <2> QED
    BY <2>3, <2>4
<1> QED
  BY <1>2, <1>3, <1>4, <1>5, <1>6, <1>7 DEF halfway

LEMMA PowerCutKeeps ==
    ASSUME TypeOK, NEW n, NEW c, Alone(n, c), KInv(n, c), PowerCut(n)
    PROVE  Keeps(n, c) /\ writes' = writes
<1>1. pc[n] # "sign"
  BY DEF PowerCut, Alone, Mild
<1>2. Phase(n, c)'
  BY ForgottenPhase DEF PowerCut
<1> QED
  BY <1>1, <1>2, HalfwayKeeps DEF PowerCut, Keeps

(* The operator's hands change neither medium.                              *)
LEMMA OperatorKeeps ==
    ASSUME TypeOK, NEW n, NEW c, Alone(n, c), KInv(n, c), Operator(n), UNCHANGED <<home, record>>
    PROVE  KInv(n, c)'
<1>1. /\ nvs' = nvs /\ ram' = ram /\ flash' = flash /\ card' = card /\ mounted' = mounted
      /\ pc' = pc /\ move' = move /\ haveSource' = haveSource /\ onSd' = onSd /\ result' = result
  BY DEF Operator, Pull, Insert, Rename, disk, slotVars, bootVars
<1>2. slot'[n] = slot[n] \/ pc[n] \in {"off", "run"}
  BY DEF Operator, Pull, Insert, Rename, slotVars, Alone, Mild
<1> QED
  BY <1>1, <1>2 DEF KInv, AtHome, HomeLive, Phase, Seated, Staged, Single, Moving, Adds

LEMMA InitKInv ==
    ASSUME Init, NEW n, NEW c, Alone(n, c)
    PROVE  KInv(n, c)
<1>1. n \in Node /\ c \in Card /\ c # NoCard
  BY CardAssumption DEF Alone
<1>2. /\ nvs[n] = [sdStore |-> TRUE, pendingMove |-> "none"] /\ ram = nvs
      /\ pc[n] = "off" /\ mounted[n] = NoCard /\ result[n] = "none"
  BY <1>1 DEF Init
<1>3. Phase(n, c)
  BY <1>2 DEF Phase, Seated, Staged, Single, Moving
<1>4. slot[n] \in {c, NoCard} /\ (c \in LegacyCards => slot[n] = c)
  BY DEF Init, Alone
<1>5. c \in LegacyCards <=> slot[n] \in LegacyCards
  BY <1>4, CardAssumption
<1> DEFINE old == IF c \in LegacyCards
                  THEN [owner |-> CHOOSE m \in Node : slot[m] = c, ver |-> 0, whole |-> TRUE]
                  ELSE NoTree
<1>6. old # NoTree <=> c \in LegacyCards
  <2>1. CASE c \in LegacyCards
    <3>1. (CHOOSE m \in Node : slot[m] = c) \in Node
      BY <1>1, <1>4, <2>1
    <3>2. old \in [owner : Node, ver : Nat, whole : BOOLEAN]
      BY <2>1, <3>1
    <3> QED
      BY <2>1, <3>2, NoTreeAssumption
  <2> QED
    BY <2>1
<1>7. card[c] = [BlankCard EXCEPT !.live = old]
  BY <1>1 DEF Init
<1> HIDE DEF old
<1>8. card[c].marker = NoMarker /\ card[c].live = old
  BY <1>7 DEF BlankCard
<1>9. Opens(nvs[n], card[c]) <=> c \in LegacyCards
  BY <1>2, <1>6, <1>8, MarkerAssumption DEF Opens, Claimed
<1>10. /\ home[n] = IF slot[n] \in LegacyCards THEN slot[n] ELSE "flash"
       /\ record[n] = IF slot[n] \in LegacyCards THEN card[slot[n]].live ELSE flash[n].live
  BY <1>1 DEF Init
<1>11. AtHome(n, c)
  BY <1>2, <1>4, <1>5, <1>9, <1>10 DEF AtHome, HomeLive
<1> QED
  BY <1>3, <1>11 DEF KInv


LEMMA BootKeeps ==
    ASSUME TypeOK, NEW n, NEW c, Alone(n, c), KInv(n, c), PowerOn(n) \/ BootStep(n)
    PROVE  Keeps(n, c)
  BY PowerOnKeeps, PlanKeeps, ClearKeeps, CopyKeeps, CopyFailsKeeps, DropKeeps, PlaceKeeps,
     PlaceFailsKeeps, MarkKeeps, SaveKeeps, RemoveKeeps, ChooseKeeps, SignKeeps DEF BootStep

LEMMA NextKInv ==
    ASSUME TypeOK, TypeOK', NEW n, NEW c, Alone(n, c), KInv(n, c), [Next]_vars
    PROVE  KInv(n, c)'
<1>1. CASE NodeStep(n) /\ Track(n)
  <2>1. CASE Write(n)
    BY <1>1, <2>1, WriteKeeps
  <2>2. CASE ~Write(n)
    <3>1. Keeps(n, c) /\ writes' = writes
      <4>1. CASE (PowerOn(n) \/ BootStep(n)) /\ UNCHANGED counters
        BY <4>1, BootKeeps DEF counters
      <4> QED
        BY <1>1, <2>2, <4>1, RequestKeeps, PollKeeps, RestartKeeps, PowerCutKeeps DEF NodeStep
    <3> QED
      BY <1>1, <3>1, KeepsStore DEF KInv
  <2> QED
    BY <2>1, <2>2
<1>2. CASE Format(n) /\ TrackFormat(n)
  BY <1>2, FormatKeeps
<1>3. CASE Operator(n) /\ UNCHANGED <<home, record>>
  BY <1>3, OperatorKeeps
<1>4. CASE UNCHANGED vars
  BY <1>4 DEF vars, disk, slotVars, bootVars, counters, KInv, AtHome, HomeLive, Phase, Seated,
              Staged, Single, Moving, Adds
<1> QED
  BY <1>1, <1>2, <1>3, <1>4 DEF Next, Alone

LEMMA KInvKeepsStore ==
    ASSUME TypeOK, NEW n, NEW c, Alone(n, c), KInv(n, c)
    PROVE  StoreKept
<1>1. n \in Node /\ c # "flash" /\ home[n] \in {c, "flash"}
  BY Scalars
<1>2. HomeHoldsRecord
  BY <1>1 DEF HomeHoldsRecord, KInv, AtHome, HomeLive, Alone
<1>3. OneStoreAfterMove
  <2>1. result[n] = "ok" /\ pc[n] = "run" => flash[n].live = NoTree \/ card[c].live = NoTree
    BY DEF KInv, Phase, Single
  <2> QED
    BY <2>1 DEF OneStoreAfterMove, Alone
<1> QED
  BY <1>2, <1>3 DEF StoreKept

(* A node and its card, for any number of power cuts, writes, renames and   *)
(* moves, with copies and renames that fail at any step and a card put back *)
(* into a node that lost it: the medium the rules of StoreHome.h open holds *)
(* the store of record at every instant, and after a move that was reported *)
(* done no other does.                                                      *)
THEOREM StoreIsKept ==
    ASSUME NEW n, NEW c, Node = {n}, Card = {c}, Faults \subseteq {"cut", "fsFail", "hotSwap"}
    PROVE  Spec => []StoreKept
<1>1. Alone(n, c)
  BY DEF Alone, Mild
<1>2. Init => KInv(n, c)
  BY <1>1, InitKInv
<1>3. IInv /\ IInv' /\ KInv(n, c) /\ [Next]_vars => KInv(n, c)'
  BY <1>1, NextKInv DEF IInv
<1>4. IInv /\ KInv(n, c) => StoreKept
  BY <1>1, KInvKeepsStore DEF IInv
<1> QED
  BY SpecIInv, <1>2, <1>3, <1>4, PTL DEF Spec

-----------------------------------------------------------------------------
(***************************************************************************)
(* Cards that wander.  Any number of nodes and cards, and every fault but  *)
(* a card put into a node that has lost its own: a node changes a card     *)
(* only when its boot, reading that card in that slot, did not find        *)
(* another's claim on it.                                                  *)
(***************************************************************************)
ClaimOfOther(n, m) == m \in Claim /\ ~m.released /\ m.node # n

(* A card is in one slot, and a node that has mounted one has it or none.   *)
OneSlot ==
    /\ \A m, n \in Node : m # n /\ slot[m] # NoCard => slot[m] # slot[n]
    /\ \A n \in Node : /\ mounted[n] # NoCard => slot[n] \in {mounted[n], NoCard}
                       /\ lost[n] => mounted[n] = NoCard /\ slot[n] = NoCard
                       /\ pc[n] = "off" => mounted[n] = NoCard /\ ~lost[n]
                       /\ pc[n] \in {"sign", "run"} /\ onSd[n] /\ mounted[n] = NoCard => lost[n]

(* A node at work on a card has not got another's.                          *)
Working(n) == pc[n] \in Moving \cup {"sign"} \/ (pc[n] = "run" /\ onSd[n])

HandsOff == \A n \in Node :
    Working(n) /\ CardIn(n) => ~ClaimOfOther(n, card[slot[n]].marker)

HInv == OneSlot /\ HandsOff


(* The classes a node may move to or open are not those of another's card.  *)
LEMMA ForeignRule ==
    ASSUME NEW n, NEW m, NEW p, ClaimOfOther(n, m)
    PROVE  classify(n, TRUE, m, p) = "foreign"
  BY MarkerAssumption DEF ClaimOfOther, classify, Claim

LEMMA ReadRule ==
    ASSUME NEW n \in Node, CardIn(n), cardClass(n) # "foreign"
    PROVE  ~ClaimOfOther(n, card[slot[n]].marker)
<1>1. cardClass(n) = classify(n, TRUE, card[slot[n]].marker, fsAt(n, "sd").live # NoTree)
  BY DEF cardClass, markerRead, CardIn
<1> QED
  BY <1>1, ForeignRule

(* A step touches at most the card in the slot it has mounted, while the    *)
(* node works on it, and leaves no claim of another on it.                  *)
Touched(n) ==
    \/ card' = card
    \/ /\ CardIn(n) /\ Working(n)
       /\ \E k : /\ card' = [card EXCEPT ![slot[n]] = k]
                 /\ ~ClaimOfOther(n, k.marker)

LEMMA PutTouches ==
    ASSUME TypeOK, HandsOff, NEW n \in Node, NEW w, NEW t, Working(n),
           putLive(n, w, t) \/ putStaging(n, w, t)
    PROVE  Touched(n)
<1>1. CASE card' = card
  BY <1>1 DEF Touched
<1>2. CASE card' # card
  <2>1. CardIn(n) /\ (\/ card' = [card EXCEPT ![slot[n]].live = t]
                      \/ card' = [card EXCEPT ![slot[n]].staging = t])
    BY <1>2 DEF putLive, putStaging
  <2>2. card[slot[n]] \in CardFs
    BY <2>1 DEF TypeOK, CardIn
  <2> DEFINE k1 == [card[slot[n]] EXCEPT !.live = t]
             k2 == [card[slot[n]] EXCEPT !.staging = t]
  <2>3. k1.marker = card[slot[n]].marker /\ k2.marker = card[slot[n]].marker
    BY <2>2 DEF CardFs
  <2>4. ~ClaimOfOther(n, k1.marker) /\ ~ClaimOfOther(n, k2.marker)
    BY <2>1, <2>3 DEF HandsOff
  <2>5. card' = [card EXCEPT ![slot[n]] = k1] \/ card' = [card EXCEPT ![slot[n]] = k2]
    BY <2>1
  <2> HIDE DEF k1, k2
  <2> QED
    BY <2>1, <2>4, <2>5 DEF Touched
<1> QED
  BY <1>1, <1>2

LEMMA RenameTouches ==
    ASSUME TypeOK, HandsOff, NEW n \in Node, NEW w, Working(n), CardIn(n), renameStaging(n, w)
    PROVE  Touched(n)
<1>1. CASE card' = card
  BY <1>1 DEF Touched
<1>2. CASE card' # card
  <2> DEFINE k == [card[slot[n]] EXCEPT !.live = card[slot[n]].staging, !.staging = NoTree]
  <2>1. card' = [card EXCEPT ![slot[n]] = k]
    BY <1>2 DEF renameStaging
  <2>2. card[slot[n]] \in CardFs
    BY DEF TypeOK, CardIn
  <2>3. k.marker = card[slot[n]].marker
    BY <2>2 DEF CardFs
  <2>4. ~ClaimOfOther(n, k.marker)
    BY <2>3 DEF HandsOff
  <2> HIDE DEF k
  <2> QED
    BY <2>1, <2>4 DEF Touched
<1> QED
  BY <1>1, <1>2

(* Its own mark, the old one or one nobody can read.                        *)
LEMMA MarkerTouches ==
    ASSUME TypeOK, HandsOff, NEW n \in Node, Working(n),
           \/ \E r \in BOOLEAN : putMarker(n, r) \/ markerFails(n)
           \/ CardIn(n) /\ card' = [card EXCEPT ![slot[n]].marker = Unreadable]
    PROVE  Touched(n)
<1>1. CASE card' = card
  BY <1>1 DEF Touched
<1>2. CASE card' # card
  <2>1. CardIn(n)
    BY <1>2 DEF putMarker, markerFails
  <2>2. PICK m : /\ card' = [card EXCEPT ![slot[n]].marker = m]
                 /\ \/ m = Unreadable \/ m = card[slot[n]].marker
                    \/ \E r \in BOOLEAN : m = myMarker(n, r)
    BY <1>2, <2>1 DEF putMarker, markerFails
  <2>3. ~ClaimOfOther(n, m)
    <3>1. CASE m = Unreadable
      BY <3>1, MarkerAssumption DEF ClaimOfOther
    <3>2. CASE m = card[slot[n]].marker
      BY <2>1, <3>2 DEF HandsOff
    <3>3. CASE \E r \in BOOLEAN : m = myMarker(n, r)
      BY <3>3 DEF ClaimOfOther, myMarker
    <3> QED
      BY <2>2, <3>1, <3>2, <3>3
  <2>4. card[slot[n]] \in CardFs
    BY <2>1 DEF TypeOK, CardIn
  <2> DEFINE k == [card[slot[n]] EXCEPT !.marker = m]
  <2>5. k.marker = m
    BY <2>4 DEF CardFs
  <2>6. card' = [card EXCEPT ![slot[n]] = k]
    BY <2>2
  <2> HIDE DEF k
  <2> QED
    BY <2>1, <2>3, <2>5, <2>6 DEF Touched
<1> QED
  BY <1>1, <1>2

LEMMA BootTouches ==
    ASSUME TypeOK, HandsOff, NEW n \in Node, PowerOn(n) \/ BootStep(n)
    PROVE  Touched(n)
<1>1. CASE \/ PowerOn(n) \/ Plan(n) \/ Save(n) \/ SaveFails(n) \/ Choose(n)
  BY <1>1 DEF PowerOn, Plan, Save, SaveFails, Choose, disk, Touched
<1>2. CASE Clear(n) \/ Copy(n) \/ CopyFails(n) \/ Drop(n) \/ Remove(n)
  <2>1. Working(n)
    BY <1>2 DEF Clear, Copy, CopyFails, Drop, Remove, Working, Moving
  <2> QED
    BY <1>2, <2>1, PutTouches DEF Clear, Copy, CopyFails, Drop, Remove
<1>3. CASE Place(n) \/ PlaceFails(n)
  <2>1. Working(n)
    BY <1>3 DEF Place, PlaceFails, Working, Moving
  <2>2. card' = card \/ (CardIn(n) /\ renameStaging(n, To(n)))
    BY <1>3 DEF Place, PlaceFails
  <2> QED
    BY <2>1, <2>2, RenameTouches DEF Touched
<1>4. CASE Mark(n)
  <2>1. Working(n) /\ (putMarker(n, move[n] = "eject") \/ markerFails(n))
    BY <1>4 DEF Mark, Working, Moving
  <2> QED
    BY <2>1, MarkerTouches
<1>5. CASE Sign(n)
  <2>1. Working(n) /\ (putMarker(n, FALSE) \/ markerFails(n))
    BY <1>5 DEF Sign, Working
  <2> QED
    BY <2>1, MarkerTouches
<1> QED
  BY <1>1, <1>2, <1>3, <1>4, <1>5 DEF BootStep

LEMMA CutTouches ==
    ASSUME TypeOK, HandsOff, NEW n \in Node, PowerCut(n)
    PROVE  Touched(n)
<1>1. halfway(n)
  BY DEF PowerCut
<1>2. CASE card' = card
  BY <1>2 DEF Touched
<1>3. CASE card' # card
  <2>1. Working(n)
    BY <1>1, <1>3 DEF halfway, disk, Working, Moving
  <2>2. \/ \E w, t : putLive(n, w, t) \/ putStaging(n, w, t)
        \/ CardIn(n) /\ card' = [card EXCEPT ![slot[n]].marker = Unreadable]
    BY <1>1, <1>3 DEF halfway, disk
  <2> QED
    BY <2>1, <2>2, PutTouches, MarkerTouches
<1> QED
  BY <1>2, <1>3

LEMMA NodeTouches ==
    ASSUME TypeOK, HandsOff, NEW n \in Node, NodeStep(n)
    PROVE  Touched(n)
<1>1. CASE Write(n)
  <2>1. card' = card \/ (onSd[n] /\ pc[n] = "run")
    BY <1>1 DEF Write, putLive
  <2>2. PICK w, t : putLive(n, w, t)
    BY <1>1 DEF Write
  <2> QED
    BY <2>1, <2>2, PutTouches DEF Touched, Working
<1>2. CASE \/ RequestAdopt(n) \/ RequestEject(n) \/ RequestFormat(n)
           \/ PollLost(n) \/ PollMount(n) \/ PollStuck(n) \/ Restart(n)
  BY <1>2 DEF RequestAdopt, RequestEject, RequestFormat, PollLost, PollMount, PollStuck, Restart,
              disk, Touched
<1> QED
  BY <1>1, <1>2, BootTouches, CutTouches DEF NodeStep


(* A step of one node leaves every other where it was.                      *)
LEMMA OthersAsBefore ==
    ASSUME TypeOK, NEW n \in Node, NodeStep(n), NEW m \in Node, m # n
    PROVE  mounted'[m] = mounted[m] /\ lost'[m] = lost[m] /\ pc'[m] = pc[m] /\ onSd'[m] = onSd[m]
<1>0. pc \in [Node -> Pc] /\ mounted \in [Node -> Card \cup {NoCard}] /\ lost \in [Node -> BOOLEAN] /\ onSd \in [Node -> BOOLEAN]
  BY DEF TypeOK
<1>1. CASE PowerOn(n)
  BY <1>0, <1>1 DEF PowerOn, fail, slotVars
<1>2. CASE Plan(n)
  BY <1>0, <1>2 DEF Plan, fail, slotVars
<1>3. CASE Clear(n)
  BY <1>0, <1>3 DEF Clear, fail, slotVars
<1>4. CASE Copy(n)
  BY <1>0, <1>4 DEF Copy, fail, slotVars
<1>5. CASE CopyFails(n)
  BY <1>0, <1>5 DEF CopyFails, fail, slotVars
<1>6. CASE Drop(n)
  BY <1>0, <1>6 DEF Drop, fail, slotVars
<1>7. CASE Place(n)
  BY <1>0, <1>7 DEF Place, fail, slotVars
<1>8. CASE PlaceFails(n)
  BY <1>0, <1>8 DEF PlaceFails, fail, slotVars
<1>9. CASE Mark(n)
  BY <1>0, <1>9 DEF Mark, fail, slotVars
<1>10. CASE Save(n)
  BY <1>0, <1>10 DEF Save, fail, slotVars
<1>11. CASE SaveFails(n)
  BY <1>0, <1>11 DEF SaveFails, fail, slotVars
<1>12. CASE Remove(n)
  BY <1>0, <1>12 DEF Remove, fail, slotVars
<1>13. CASE Choose(n)
  BY <1>0, <1>13 DEF Choose, fail, slotVars
<1>14. CASE Sign(n)
  BY <1>0, <1>14 DEF Sign, fail, slotVars
<1>15. CASE Write(n)
  BY <1>0, <1>15 DEF Write, slotVars, bootVars
<1>16. CASE RequestAdopt(n)
  BY <1>0, <1>16 DEF RequestAdopt, slotVars, bootVars
<1>17. CASE RequestEject(n)
  BY <1>0, <1>17 DEF RequestEject, slotVars, bootVars
<1>18. CASE RequestFormat(n)
  BY <1>0, <1>18 DEF RequestFormat, slotVars, bootVars
<1>19. CASE PollLost(n)
  BY <1>0, <1>19 DEF PollLost, slotVars, bootVars
<1>20. CASE PollMount(n)
  BY <1>0, <1>20 DEF PollMount, slotVars, bootVars
<1>21. CASE PollStuck(n)
  BY <1>0, <1>21 DEF PollStuck, slotVars, bootVars
<1>22. CASE Restart(n) \/ PowerCut(n)
  BY <1>0, <1>22 DEF Restart, PowerCut, forgotten
<1> QED
  BY <1>1, <1>2, <1>3, <1>4, <1>5, <1>6, <1>7, <1>8, <1>9, <1>10, <1>11,
     <1>12, <1>13, <1>14, <1>15, <1>16, <1>17, <1>18, <1>19, <1>20, <1>21, <1>22 DEF NodeStep, BootStep

(* What a step of one node does to the slots.                               *)
LEMMA NodeSlots ==
    ASSUME IInv, OneSlot, NEW n \in Node, NodeStep(n)
    PROVE  OneSlot' /\ slot' = slot
<1> USE DEF IInv
<1>1. slot' = slot
  BY DEF NodeStep, PowerOn, BootStep, Plan, Clear, Copy, CopyFails, Drop, Place, PlaceFails, Mark,
         Save, SaveFails, Remove, Choose, Sign, Write, RequestAdopt, RequestEject, RequestFormat,
         PollLost, PollMount, PollStuck, Restart, PowerCut, forgotten, slotVars
<1>2. ASSUME NEW m \in Node, m # n
      PROVE  mounted'[m] = mounted[m] /\ lost'[m] = lost[m] /\ pc'[m] = pc[m] /\ onSd'[m] = onSd[m]
  BY <1>2, OthersAsBefore
<1>3. /\ mounted'[n] # NoCard => slot[n] \in {mounted'[n], NoCard}
      /\ lost'[n] => mounted'[n] = NoCard /\ slot[n] = NoCard
      /\ pc'[n] = "off" => mounted'[n] = NoCard /\ ~lost'[n]
      /\ pc'[n] \in {"sign", "run"} /\ onSd'[n] /\ mounted'[n] = NoCard => lost'[n]
  <2>1. CASE PowerOn(n)
    BY <2>1 DEF PowerOn, TypeOK, OneSlot
  <2>2. CASE Choose(n)
    <3>1. mounted' = mounted /\ lost' = lost /\ (onSd'[n] => mounted[n] # NoCard) /\ pc'[n] # "off"
      BY <2>2 DEF Choose, slotVars, TypeOK, decide
    <3> QED
      BY <3>1 DEF OneSlot
  <2>3. CASE BootStep(n) /\ ~Choose(n)
    <3>1. mounted' = mounted /\ lost' = lost /\ onSd' = onSd /\ pc'[n] # "off"
          /\ (pc[n] = "sign" \/ pc'[n] \notin {"sign", "run"})
      <4>0. pc \in [Node -> Pc]
        BY DEF TypeOK
      <4>1. CASE Plan(n)
        BY <4>0, <4>1 DEF Plan, fail, slotVars
      <4>2. CASE Clear(n)
        BY <4>0, <4>2 DEF Clear, fail, slotVars
      <4>3. CASE Copy(n)
        BY <4>0, <4>3 DEF Copy, fail, slotVars
      <4>4. CASE CopyFails(n)
        BY <4>0, <4>4 DEF CopyFails, fail, slotVars
      <4>5. CASE Drop(n)
        BY <4>0, <4>5 DEF Drop, fail, slotVars
      <4>6. CASE Place(n)
        BY <4>0, <4>6 DEF Place, fail, slotVars
      <4>7. CASE PlaceFails(n)
        BY <4>0, <4>7 DEF PlaceFails, fail, slotVars
      <4>8. CASE Mark(n)
        BY <4>0, <4>8 DEF Mark, fail, slotVars
      <4>9. CASE Save(n)
        BY <4>0, <4>9 DEF Save, fail, slotVars
      <4>10. CASE SaveFails(n)
        BY <4>0, <4>10 DEF SaveFails, fail, slotVars
      <4>11. CASE Remove(n)
        BY <4>0, <4>11 DEF Remove, fail, slotVars
      <4>12. CASE Sign(n)
        BY <4>0, <4>12 DEF Sign, fail, slotVars
      <4> QED
        BY <2>3, <4>1, <4>2, <4>3, <4>4, <4>5, <4>6, <4>7, <4>8, <4>9, <4>10, <4>11, <4>12 DEF BootStep
    <3> QED
      BY <3>1 DEF OneSlot
  <2>4. CASE \/ Write(n) \/ RequestAdopt(n) \/ RequestEject(n) \/ RequestFormat(n) \/ PollStuck(n)
    <3>1. mounted' = mounted /\ lost' = lost /\ onSd' = onSd /\ pc' = pc
      BY <2>4 DEF Write, RequestAdopt, RequestEject, RequestFormat, PollStuck, slotVars, bootVars
    <3> QED
      BY <3>1 DEF OneSlot
  <2>5. CASE PollLost(n)
    <3>1. pc[n] = "run" /\ slot[n] = NoCard
      BY <2>5 DEF PollLost, OneSlot
    <3> QED
      BY <2>5, <3>1 DEF PollLost, TypeOK, OneSlot
  <2>6. CASE PollMount(n)
    BY <2>6 DEF PollMount, TypeOK, OneSlot
  <2>7. CASE Restart(n) \/ PowerCut(n)
    <3>1. forgotten(n)
      BY <2>7 DEF Restart, PowerCut
    <3> QED
      BY <3>1 DEF forgotten, TypeOK
  <2> QED
    BY <2>1, <2>2, <2>3, <2>4, <2>5, <2>6, <2>7 DEF NodeStep
<1> QED
  BY <1>1, <1>2, <1>3 DEF OneSlot

(* A node begins to work on a card only after its boot has read it.         *)
LEMMA BeginsToWork ==
    ASSUME IInv, OneSlot, NEW n \in Node, NodeStep(n), Working(n)', CardIn(n)', slot' = slot
    PROVE  \/ Working(n) /\ CardIn(n)
           \/ card' = card /\ CardIn(n) /\ cardClass(n) # "foreign"
<1> USE DEF IInv
<1>1. CASE PowerOn(n)
  BY <1>1 DEF PowerOn, Working, Moving, TypeOK
<1>2. CASE Plan(n)
  <2>1. mounted' = mounted /\ card' = card /\ onSd' = onSd /\ CardIn(n)
    BY <1>2 DEF Plan, slotVars, CardIn
  <2>2. pc'[n] = "clear"
    BY <1>2 DEF Plan, fail, TypeOK, Working, Moving
  <2>3. planAtBoot(ram[n].pendingMove, ram[n].sdStore, mounted[n] # NoCard, cardClass(n)) # "none"
    BY <1>2, <2>2 DEF Plan, fail, TypeOK
  <2>4. ram[n].pendingMove \in Move
    BY DEF TypeOK, Transport
  <2>5. cardClass(n) # "foreign"
    BY <2>3, <2>4 DEF planAtBoot, adoptable, Move
  <2> QED
    BY <2>1, <2>5
<1>3. CASE Choose(n)
  <2>1. mounted' = mounted /\ card' = card /\ CardIn(n)
    BY <1>3 DEF Choose, disk, slotVars, CardIn
  <2>2. onSd'[n]
    BY <1>3 DEF Choose, TypeOK, Working, Moving
  <2>3. cardClass(n) # "foreign"
    BY <1>3, <2>2 DEF Choose, TypeOK, decide
  <2> QED
    BY <2>1, <2>3
<1>4. CASE BootStep(n) /\ ~Plan(n) /\ ~Choose(n)
  <2>1. mounted' = mounted
    BY <1>4 DEF BootStep, Clear, Copy, CopyFails, Drop, Place, PlaceFails, Mark, Save, SaveFails,
       Remove, Sign, slotVars
  <2>2. pc[n] \in Moving \cup {"sign"}
    BY <1>4 DEF BootStep, Clear, Copy, CopyFails, Drop, Place, PlaceFails, Mark, Save, SaveFails,
       Remove, Sign, Moving
  <2> QED
    BY <2>1, <2>2 DEF Working, CardIn
<1>5. CASE \/ Write(n) \/ RequestAdopt(n) \/ RequestEject(n) \/ RequestFormat(n) \/ PollStuck(n)
  <2>1. mounted' = mounted /\ onSd' = onSd /\ pc' = pc
    BY <1>5 DEF Write, RequestAdopt, RequestEject, RequestFormat, PollStuck, slotVars, bootVars
  <2> QED
    BY <2>1 DEF Working, CardIn
<1>6. CASE PollLost(n)
  BY <1>6 DEF PollLost, CardIn, TypeOK
<1>7. CASE PollMount(n)
  <2>1. pc[n] = "run" /\ onSd[n] /\ mounted[n] = NoCard /\ slot[n] # NoCard
    BY <1>7 DEF PollMount, Working, Moving
  <2> QED
    BY <2>1 DEF OneSlot
<1>8. CASE Restart(n) \/ PowerCut(n)
  <2>1. forgotten(n)
    BY <1>8 DEF Restart, PowerCut
  <2> QED
    BY <2>1 DEF forgotten, TypeOK, CardIn
<1> QED
  BY <1>1, <1>2, <1>3, <1>4, <1>5, <1>6, <1>7, <1>8 DEF NodeStep

LEMMA NodeHands ==
    ASSUME IInv, HInv, NEW n \in Node, NodeStep(n)
    PROVE  HInv'
<1>1. OneSlot' /\ slot' = slot
  BY NodeSlots DEF HInv
<1>2. Touched(n)
  BY NodeTouches DEF IInv, HInv
<1>3. ASSUME NEW m \in Node, Working(m)', CardIn(m)'
      PROVE  ~ClaimOfOther(m, card'[slot'[m]].marker)
  <2>1. CASE m # n
    <3>1. mounted'[m] = mounted[m] /\ pc'[m] = pc[m] /\ onSd'[m] = onSd[m]
      BY <2>1, OthersAsBefore DEF IInv
    <3>2. Working(m) /\ CardIn(m)
      BY <1>1, <1>3, <3>1 DEF Working, CardIn
    <3>3. slot[m] # NoCard /\ slot[m] # slot[n] /\ slot[m] \in Card
      BY <2>1, <3>2 DEF HInv, OneSlot, CardIn, IInv, TypeOK
    <3>4. card'[slot[m]] = card[slot[m]]
      BY <1>2, <3>3 DEF Touched, IInv, TypeOK
    <3> QED
      BY <1>1, <3>2, <3>4 DEF HInv, HandsOff
  <2>2. CASE m = n
    <3>1. CASE card' = card
      <4>1. (Working(n) /\ CardIn(n)) \/ (CardIn(n) /\ cardClass(n) # "foreign")
        BY <1>1, <1>3, <2>2, BeginsToWork DEF HInv
      <4> QED
        BY <1>1, <2>2, <3>1, <4>1, ReadRule DEF HInv, HandsOff
    <3>2. CASE card' # card
      <4>1. PICK k : /\ card' = [card EXCEPT ![slot[n]] = k] /\ CardIn(n)
                     /\ ~ClaimOfOther(n, k.marker)
        BY <1>2, <3>2 DEF Touched
      <4>2. card'[slot[n]] = k
        BY <4>1 DEF IInv, TypeOK, CardIn
      <4> QED
        BY <1>1, <2>2, <4>1, <4>2
    <3> QED
      BY <3>1, <3>2
  <2> QED
    BY <2>1, <2>2
<1> QED
  BY <1>1, <1>3 DEF HInv, HandsOff

LEMMA FormatHands ==
    ASSUME IInv, HInv, NEW n \in Node, Format(n)
    PROVE  HInv'
<1> USE DEF IInv, HInv
<1>1. slot' = slot /\ lost' = lost /\ onSd' = onSd /\ pc' = pc /\ pc[n] = "run"
      /\ ~onSd[n] /\ ~lost[n] /\ mounted'[n] = slot[n]
      /\ \A m \in Node : m # n => mounted'[m] = mounted[m]
  BY DEF Format, RunOnly, TypeOK
<1>2. OneSlot'
  BY <1>1 DEF OneSlot
<1>3. ASSUME NEW m \in Node, Working(m)', CardIn(m)'
      PROVE  ~ClaimOfOther(m, card'[slot'[m]].marker)
  <2>1. m # n /\ Working(m) /\ CardIn(m)
    BY <1>1, <1>3 DEF Working, CardIn, Moving
  <2>2. slot[m] # NoCard /\ slot[m] # slot[n] /\ slot[m] \in Card
    BY <2>1 DEF OneSlot, CardIn, TypeOK
  <2>3. card'[slot[m]] = card[slot[m]]
    BY <2>2 DEF Format, TypeOK
  <2> QED
    BY <1>1, <2>1, <2>3 DEF HandsOff
<1> QED
  BY <1>2, <1>3 DEF HandsOff

LEMMA OperatorHands ==
    ASSUME IInv, HInv, "hotSwap" \notin Faults, NEW n \in Node, Operator(n)
    PROVE  HInv'
<1> USE DEF IInv, HInv
<1>1. mounted' = mounted /\ lost' = lost /\ onSd' = onSd /\ pc' = pc /\ card' = card
  BY DEF Operator, Pull, Insert, Rename, disk, slotVars, bootVars
<1>2. CASE Pull(n)
  <2>1. slot'[n] = NoCard /\ \A m \in Node : m # n => slot'[m] = slot[m]
    BY <1>2 DEF Pull, TypeOK
  <2> QED
    BY <1>1, <2>1 DEF OneSlot, HandsOff, Working, CardIn
<1>3. ASSUME NEW c \in Card, Insert(n, c) PROVE HInv'
  <2>1. slot'[n] = c /\ \A m \in Node : slot[m] # c /\ (m # n => slot'[m] = slot[m])
    BY <1>3 DEF Insert, TypeOK
  <2>2. mounted[n] = NoCard /\ ~lost[n] /\ c # NoCard
    BY <1>3, CardAssumption DEF Insert
  <2> QED
    BY <1>1, <2>1, <2>2 DEF OneSlot, HandsOff, Working, CardIn
<1>4. CASE Rename(n)
  BY <1>1, <1>4 DEF Rename, slotVars, OneSlot, HandsOff, Working, CardIn
<1> QED
  BY <1>2, <1>3, <1>4 DEF Operator

LEMMA InitHInv == Init => HInv
<1> SUFFICES ASSUME Init PROVE HInv
  OBVIOUS
<1>1. OneSlot
  BY DEF Init, OneSlot
<1>2. \A n \in Node : ~Working(n)
  BY DEF Init, Working, Moving
<1> QED
  BY <1>1, <1>2 DEF HInv, HandsOff

LEMMA NextHInv ==
    ASSUME IInv, HInv, "hotSwap" \notin Faults, [Next]_vars
    PROVE  HInv'
<1>1. CASE UNCHANGED vars
  BY <1>1 DEF vars, disk, slotVars, bootVars, HInv, OneSlot, HandsOff, Working, CardIn
<1> QED
  BY <1>1, NodeHands, FormatHands, OperatorHands DEF Next

(* A card that a node claims and has not released is changed by that node   *)
(* alone, or by a format asked of the node that holds it: for any number of *)
(* nodes and cards and every fault but a card put into a node that has lost *)
(* its own (SdCard.cpp:356, where the store stays open).                    *)
THEOREM CardsLeftAlone ==
    ASSUME "hotSwap" \notin Faults
    PROVE  Spec => OthersCardsLeftAlone
<1>1. ASSUME IInv, HInv, [Next]_vars, NEW c \in Card, card[c].marker \in Claim,
             ~card[c].marker.released, card'[c] # card[c]
      PROVE  \E n \in Node : /\ slot[n] = c
                             /\ n = card[c].marker.node \/ (formatReq[n] /\ ~formatReq'[n])
  <2>1. CASE \E n \in Node : NodeStep(n)
    <3>1. PICK n \in Node : NodeStep(n)
      BY <2>1
    <3>2. Touched(n)
      BY <1>1, <3>1, NodeTouches DEF IInv, HInv
    <3>3. slot[n] = c /\ CardIn(n) /\ Working(n)
      BY <1>1, <3>2 DEF Touched, IInv, TypeOK
    <3>4. ~ClaimOfOther(n, card[c].marker)
      BY <1>1, <3>3 DEF HInv, HandsOff
    <3> QED
      BY <1>1, <3>3, <3>4 DEF ClaimOfOther
  <2>2. CASE \E n \in Node : Format(n)
    <3>1. PICK n \in Node : Format(n)
      BY <2>2
    <3>2. slot[n] = c /\ formatReq[n] /\ ~formatReq'[n]
      BY <1>1, <3>1 DEF Format, IInv, TypeOK
    <3> QED
      BY <3>2
  <2>3. CASE card' = card
    BY <1>1, <2>3
  <2>4. \/ card' = card \/ \E n \in Node : NodeStep(n) \/ Format(n)
    BY <1>1 DEF Next, Operator, Pull, Insert, Rename, vars, disk
  <2> QED
    BY <2>1, <2>2, <2>3, <2>4
<1>2. IInv /\ HInv /\ [Next]_vars => HInv'
  BY NextHInv
<1> DEFINE Spares == \A c \in Card :
             /\ card[c].marker \in Claim /\ ~card[c].marker.released
             /\ card'[c] # card[c]
             => \E n \in Node : /\ slot[n] = c
                                /\ n = card[c].marker.node \/ (formatReq[n] /\ ~formatReq'[n])
<1>3. IInv /\ HInv /\ [Next]_vars => [Spares]_vars
  BY <1>1
<1> QED
  BY SpecIInv, InitHInv, <1>2, <1>3, PTL DEF Spec, OthersCardsLeftAlone

=============================================================================
