----------------------------- MODULE Ota_proofs -----------------------------
EXTENDS Ota, TLAPS

Pc == {"idle", "open", "check", "begin", "write", "verify", "switch", "stageVer", "stageSlot", "say", "finish"}
Job == [pc : Pc, bundle : Bundle \cup {NoFile}, tainted : BOOLEAN]
Request == [posting : BOOLEAN, bundle : Bundle, sent : 0 .. Chunks]
Staged == [bundle : Bundle, chunks : 0 .. Chunks, mixed : BOOLEAN]

TypedTask == task \in [Task -> Job]
TypedUpload ==
  /\ stage \in Stage /\ received \in 0 .. Chunks
  /\ owner \in Client \cup {NoOne} /\ web \in Client \cup {NoOne} /\ quiet \in BOOLEAN
  /\ client \in [Client -> Request] /\ file \in Staged \cup {NoFile}
TypedFlash ==
  /\ slot \in [Slot -> Bundle \cup {NoImage, Garbage}]
  /\ slotState \in [Slot -> {"new", "pending", "valid", "aborted"}]
  /\ boot \in Slot /\ running \in Slot
TypedRest ==
  /\ floor \in Version /\ stagedVer \in Version \cup {NoVersion} /\ stagedSlot \in Slot \cup {NoVersion}
  /\ node \in {"off", "setup", "floor", "confirm", "settle", "dropVer", "dropSlot", "up"} /\ armed \in BOOLEAN
  /\ earned \in [ver : Version, slot : Slot] \cup {NoVersion}
  /\ cuts \in Nat /\ posts \in Nat

LEMMA TypeParts == TypeOK <=> TypedTask /\ TypedUpload /\ TypedFlash /\ TypedRest
BY DEF TypeOK, TypedTask, TypedUpload, TypedFlash, TypedRest, Pc, Job, Request, Staged

\* What the helpers do to the install tasks.
LEMMA Advanced ==
  ASSUME TypedTask, NEW t \in Task, NEW to \in Pc, advance(t, to)
  PROVE  /\ TypedTask' /\ task'[t].pc = to /\ task'[t].bundle = task[t].bundle
         /\ \A u \in Task : u # t => task'[u] = task[u]
BY DEF TypedTask, advance, Job

LEMMA GaveUp ==
  ASSUME TypedTask, NEW t \in Task, gaveUp(t)
  PROVE  /\ TypedTask' /\ task'[t].pc = "idle" /\ stage' = "failed"
         /\ \A u \in Task : u # t => task'[u] = task[u]
BY DEF TypedTask, gaveUp, Job, Idle, Pc

LEMMA Touched ==
  ASSUME TypedTask
  PROVE  /\ touched \in [Task -> Job]
         /\ \A u \in Task : touched[u].pc = task[u].pc /\ touched[u].bundle = task[u].bundle
BY DEF TypedTask, touched, Job

LEMMA Opened ==
  ASSUME TypedTask, TypedUpload, NEW t \in Task, Open(t)
  PROVE  /\ TypedTask'
         /\ \/ task'[t].pc = "check" /\ task'[t].bundle \in Bundle /\ stage' = "installing"
            \/ task'[t].pc = "idle" /\ stage' = "failed"
         /\ \A u \in Task : u # t => task'[u] = task[u]
<1>1. CASE gaveUp(t)
  BY <1>1, GaveUp
<1>2. CASE ~gaveUp(t)
  <2> DEFINE read == IF file.mixed THEN [file.bundle EXCEPT !.kind = "tampered"] ELSE file.bundle
             job == [pc |-> "check", tainted |-> FALSE, bundle |-> read]
  <2>1. file # NoFile /\ stage' = "installing" /\ task' = [task EXCEPT ![t] = job]
    BY <1>2 DEF Open
  <2>2. file.bundle \in Bundle
    BY <2>1 DEF TypedUpload, Staged
  <2>3. read \in Bundle
    <3>1. [file.bundle EXCEPT !.kind = "tampered"] \in Bundle
      BY <2>2 DEF Bundle
    <3> QED BY <2>2, <3>1
  <2>4. job \in Job /\ job.pc = "check" /\ job.bundle = read
    BY <2>3 DEF Job, Pc
  <2> HIDE DEF job, read
  <2> QED BY <2>1, <2>3, <2>4 DEF TypedTask
<1> QED BY <1>1, <1>2

LEMMA Forgotten ==
  ASSUME forgotten, TypedUpload
  PROVE  /\ TypedTask' /\ \A t \in Task : task'[t].pc = "idle"
         /\ node' = "off" /\ armed' = FALSE /\ stage' = "idle" /\ received' = 0 /\ owner' = NoOne
         /\ quiet' = FALSE /\ web' = NoOne
         /\ client' \in [Client -> Request] /\ \A c \in Client : ~client'[c].posting
<1>1. TypedTask' /\ \A t \in Task : task'[t].pc = "idle"
  BY DEF forgotten, TypedTask, Job, Pc, Idle
<1>2. \A c \in Client : [posting |-> FALSE, bundle |-> client[c].bundle, sent |-> 0] \in Request
  BY ChunksAssumption DEF TypedUpload, Request
<1>3. client' \in [Client -> Request] /\ \A c \in Client : ~client'[c].posting
  BY <1>2 DEF forgotten
<1> QED BY <1>1, <1>3 DEF forgotten

-----------------------------------------------------------------------------
(* How far a body got.  A chunk is taken only where the count and the       *)
(* request agree, and the count is the file's but while an install uses it. *)
Received ==
  /\ \A c \in Client : client[c].posting => client[c].sent < Chunks
  /\ owner # NoOne /\ file # NoFile =>
       /\ file.chunks = received \/ received \in {0, Chunks}
       /\ client[owner].posting /\ client[owner].sent = 0 => file.chunks = 0
  /\ StagedIsWhole
  /\ stage = "staged" => owner = NoOne

LEMMA Undisturbed ==
  ASSUME Received, client' = client, owner' = owner, file' \in {file, NoFile},
         received' \in {received, 0, Chunks}, stage' # stage => stage' # "staged"
  PROVE  Received'
BY DEF Received, StagedIsWhole

(* An install past its file holds a bundle.                                 *)
Carrying == \A t \in Task : task[t].pc \notin {"idle", "open"} => task[t].bundle \in Bundle
Typed == TypedTask /\ Carrying /\ TypedUpload /\ TypedFlash /\ TypedRest

LEMMA UploadInit == Init => Typed /\ Received
<1> SUFFICES ASSUME Init PROVE Typed /\ Received
  OBVIOUS
<1>1. Factory \in Bundle
  BY VersionAssumption DEF Factory, Bundle
<1>2. TypedTask /\ Carrying
  BY DEF Init, TypedTask, Job, Pc, Idle, Carrying
<1>3. TypedUpload
  <2>1. 0 \in 0 .. Chunks
    BY ChunksAssumption
  <2>2. client \in [Client -> Request]
    BY <1>1, <2>1 DEF Init, Request
  <2> QED BY <2>1, <2>2 DEF Init, TypedUpload, Stage
<1>4. TypedFlash /\ TypedRest
  BY <1>1, VersionAssumption DEF Init, TypedFlash, TypedRest, Slot
<1>5. Received
  BY ChunksAssumption DEF Init, Received, StagedIsWhole
<1> QED BY <1>2, <1>3, <1>4, <1>5 DEF Typed

\* The install tasks.
LEMMA InstallTyped ==
  ASSUME Typed, NEW t \in Task, Install(t) \/ Throw(t)
  PROVE  /\ Typed' /\ client' = client /\ owner' = owner /\ file' \in {file, NoFile}
         /\ received' \in {received, 0, Chunks} /\ (stage' # stage => stage' # "staged")
<1> USE DEF Typed
<1>0. ASSUME gaveUp(t) PROVE TypedTask' /\ Carrying' /\ stage' \in Stage /\ stage' # "staged"
  BY <1>0, GaveUp DEF Stage, Carrying
<1>1. CASE Open(t)
  BY <1>1, Opened DEF Open, Carrying, TypedUpload, TypedFlash, TypedRest, flash, nvs, bounds, Stage
<1>2. CASE Check(t)
  <2>1. TypedTask' /\ Carrying' /\ stage' \in Stage /\ (stage' # stage => stage' # "staged")
    BY <1>0, <1>2, Advanced DEF Check, Pc, TypedUpload, Carrying
  <2> QED BY <1>2, <2>1 DEF Check, TypedUpload, TypedFlash, TypedRest, flash, nvs, bounds
<1>3. CASE Begin(t)
  <2>1. TypedTask' /\ Carrying' /\ stage' \in Stage /\ (stage' # stage => stage' # "staged")
    BY <1>0, <1>3, Advanced DEF Begin, Pc, TypedUpload, Carrying
  <2>2. slot' \in [Slot -> Bundle \cup {NoImage, Garbage}]
    BY <1>3 DEF Begin, TypedFlash, other, Slot
  <2>3. received' \in {received, 0, Chunks} /\ received' \in 0 .. Chunks
    BY <1>3, ChunksAssumption DEF Begin, TypedUpload
  <2> QED BY <1>3, <2>1, <2>2, <2>3 DEF Begin, TypedUpload, TypedFlash, TypedRest, nvs, bounds
<1>4. CASE Write(t)
  <2>1. TypedTask' /\ Carrying' /\ stage' \in Stage /\ (stage' # stage => stage' # "staged")
    BY <1>0, <1>4, Advanced DEF Write, Pc, TypedUpload, Carrying
  <2>2. slot' \in [Slot -> Bundle \cup {NoImage, Garbage}]
    BY <1>4 DEF Write, TypedFlash, Carrying
  <2>3. received' \in {received, 0, Chunks} /\ received' \in 0 .. Chunks
    BY <1>4, ChunksAssumption DEF Write, TypedUpload
  <2> QED BY <1>4, <2>1, <2>2, <2>3 DEF Write, TypedUpload, TypedFlash, TypedRest, nvs, bounds
<1>5. CASE Verify(t)
  <2>1. TypedTask' /\ Carrying' /\ stage' \in Stage /\ (stage' # stage => stage' # "staged")
    BY <1>0, <1>5, Advanced DEF Verify, Pc, Stage, Carrying
  <2>2. received' \in 0 .. Chunks
    BY <1>5, ChunksAssumption DEF Verify
  <2> QED BY <1>5, <2>1, <2>2 DEF Verify, TypedUpload, TypedFlash, TypedRest, flash, nvs, bounds
<1>6. CASE Switch(t)
  <2>1. TypedTask' /\ Carrying' /\ stage' \in Stage /\ (stage' # stage => stage' # "staged")
    BY <1>0, <1>6, Advanced DEF Switch, Pc, TypedUpload, Carrying
  <2>2. boot' \in Slot /\ slotState' \in [Slot -> {"new", "pending", "valid", "aborted"}]
    BY <1>6 DEF Switch, TypedFlash, other, Slot
  <2> QED BY <1>6, <2>1, <2>2 DEF Switch, TypedUpload, TypedFlash, TypedRest, nvs, bounds
<1>7. CASE StageVer(t)
  <2>1. TypedTask' /\ Carrying'
    BY <1>7, Advanced DEF StageVer, Pc, Carrying
  <2>2. stagedVer' \in Version
    BY <1>7 DEF StageVer, Carrying, Bundle
  <2> QED BY <1>7, <2>1, <2>2 DEF StageVer, upload, TypedUpload, TypedFlash, TypedRest, flash, bounds
<1>8. CASE StageSlot(t)
  <2>1. TypedTask' /\ Carrying'
    BY <1>8, Advanced DEF StageSlot, Pc, Carrying
  <2>2. other(running) \in Slot /\ task[t].bundle.ver \in Version
    BY <1>8 DEF StageSlot, Carrying, Bundle, other, Slot
  <2>3. stagedSlot' \in Slot /\ earned' \in [ver : Version, slot : Slot]
    BY <1>8, <2>2 DEF StageSlot
  <2> QED BY <1>8, <2>1, <2>3 DEF StageSlot, upload, TypedUpload, TypedFlash, TypedRest, flash, bounds
<1>9. CASE Say(t)
  <2>1. TypedTask' /\ Carrying'
    BY <1>9, Advanced DEF Say, Pc, Carrying
  <2> QED BY <1>9, <2>1 DEF Say, TypedUpload, TypedFlash, TypedRest, flash, nvs, bounds, Stage
<1>10. CASE Finish(t)
  <2>1. TypedTask' /\ Carrying'
    BY <1>10, Touched DEF Finish, TypedTask, Job, Idle, Pc, Carrying
  <2> QED BY <1>10, <2>1 DEF Finish, TypedUpload, TypedFlash, TypedRest, flash, nvs, bounds
<1>11. CASE Throw(t)
  BY <1>11, <1>0 DEF Throw, TypedUpload, TypedFlash, TypedRest, flash, nvs, bounds
<1> QED BY <1>1, <1>2, <1>3, <1>4, <1>5, <1>6, <1>7, <1>8, <1>9, <1>10, <1>11 DEF Install

\* The web task.
LEMMA PostTyped ==
  ASSUME Typed, Received, NEW c \in Client, NEW b \in Offered, Post(c, b)
  PROVE  Typed' /\ Received'
<1> USE DEF Typed
<1>1. b \in Bundle /\ TypedFlash' /\ TypedRest'
  BY DEF Post, Offered, flash, nvs, TypedFlash, TypedRest
<1>2. 0 \in 0 .. Chunks /\ 1 \in 0 .. Chunks
  BY ChunksAssumption
<1>3. ASSUME task' \in {task, touched} PROVE TypedTask' /\ Carrying'
  BY <1>3, Touched DEF TypedTask, Carrying
<1>4. ASSUME turnedAway(c, b)
      PROVE  /\ client' \in [Client -> Request]
             /\ \A d \in Client : client'[d].posting => client'[d].sent < Chunks
             /\ client'[c].sent # 0 /\ \A d \in Client \ {c} : client'[d] = client[d]
  <2> DEFINE r == [posting |-> Chunks > 1, bundle |-> b, sent |-> 1]
  <2>1. (Chunks > 1) \in BOOLEAN
    OBVIOUS
  <2>2. r \in Request
    BY <1>1, <1>2, <2>1 DEF Request
  <2>3. r.sent = 1 /\ (r.posting <=> Chunks > 1)
    OBVIOUS
  <2>4. client' = [client EXCEPT ![c] = r]
    BY <1>4 DEF turnedAway
  <2> HIDE DEF r
  <2> QED BY <2>2, <2>3, <2>4, ChunksAssumption DEF TypedUpload, Received
<1>5. CASE refusedQuietly(c, b)
  BY <1>1, <1>3, <1>4, <1>5 DEF refusedQuietly, Post, TypedUpload, Received, StagedIsWhole
<1>6. CASE refusedAloud(c, b)
  <2>1. task' \in {task, touched} /\ file' \in {file, NoFile}
    BY <1>6 DEF refusedAloud
  <2> QED BY <1>1, <1>3, <1>4, <1>6, <2>1 DEF refusedAloud, Post, TypedUpload, Received, StagedIsWhole, Stage
<1>7. CASE accepted(c, b)
  <2>1. /\ client' \in [Client -> Request]
        /\ \A d \in Client : client'[d].posting => client'[d].sent < Chunks
    BY <1>1, <1>2, <1>7, ChunksAssumption DEF accepted, posted, TypedUpload, Request, Received
  <2>2. file' \in Staged /\ file'.chunks = 0
    BY <1>1, <1>2, <1>7 DEF accepted, Staged
  <2>3. TypedUpload'
    BY <1>2, <1>7, <2>1, <2>2 DEF accepted, TypedUpload, Stage
  <2>4. Received'
    BY <1>7, <2>1, <2>2 DEF accepted, Received, StagedIsWhole
  <2> QED BY <1>1, <1>3, <1>7, <2>3, <2>4 DEF accepted
<1> QED BY <1>5, <1>6, <1>7 DEF Post

\* The chunk that is taken is the next one of the file.
LEMMA Appended ==
  ASSUME Typed, Received, NEW c \in Client, client[c].posting, owner = c, client[c].sent = received
  PROVE  /\ appended(client[c].bundle) \in Staged \cup {NoFile}
         /\ file # NoFile => appended(client[c].bundle).chunks = received + 1
         /\ received < Chunks /\ received + 1 \in 0 .. Chunks
         /\ file = NoFile <=> appended(client[c].bundle) = NoFile
<1> USE DEF Typed
<1>1. received \in Nat /\ received < Chunks /\ received + 1 \in 0 .. Chunks
  BY ChunksAssumption DEF TypedUpload, Received
<1>2. CASE file = NoFile
  BY <1>1, <1>2 DEF appended
<1>3. CASE file # NoFile
  <2>1. file \in Staged /\ c # NoOne
    BY <1>3, NoOneAssumption DEF TypedUpload
  <2>2. file.chunks = received
    BY <1>1, <1>3, <2>1, ChunksAssumption DEF Received
  <2> DEFINE more == [file EXCEPT !.chunks = @ + 1, !.mixed = @ \/ file.bundle # client[c].bundle]
  <2>3. more \in Staged /\ more.chunks = received + 1
    BY <1>1, <2>1, <2>2 DEF Staged
  <2>4. NoFile \notin Staged
    BY NoFileAssumption DEF Staged, Bundle
  <2> QED BY <1>1, <1>3, <2>3, <2>4 DEF appended
<1> QED BY <1>2, <1>3

LEMMA SendTyped ==
  ASSUME Typed, Received, NEW c \in Client, Send(c)
  PROVE  Typed' /\ Received'
<1> USE DEF Typed
<1>1. TypedFlash' /\ TypedRest'
  BY DEF Send, flash, nvs, bounds, TypedFlash, TypedRest
<1>2. client[c].sent \in 0 .. Chunks /\ client[c].sent < Chunks /\ client[c].sent + 1 \in 1 .. Chunks
  BY ChunksAssumption DEF Send, TypedUpload, Request, Received
<1>3. /\ client' \in [Client -> Request] /\ \A d \in Client \ {c} : client'[d] = client[d]
      /\ client'[c].sent = client[c].sent + 1 /\ (client'[c].posting => client'[c].sent < Chunks)
  <2> DEFINE r == [posting |-> client[c].sent + 1 < Chunks, bundle |-> client[c].bundle, sent |-> client[c].sent + 1]
  <2>1. (client[c].sent + 1 < Chunks) \in BOOLEAN /\ client[c].bundle \in Bundle
    BY DEF TypedUpload, Request
  <2>2. r \in Request
    BY <1>2, <2>1, ChunksAssumption DEF Request
  <2>3. client' = [client EXCEPT ![c] = r]
    BY DEF Send
  <2>4. r.sent = client[c].sent + 1 /\ (r.posting <=> client[c].sent + 1 < Chunks)
    OBVIOUS
  <2> HIDE DEF r
  <2> QED BY <2>2, <2>3, <2>4 DEF TypedUpload
<1>4. \A d \in Client : client'[d].posting => client'[d].sent < Chunks
  BY <1>3 DEF Received
<1>5. web' = NoOne
  BY DEF Send
<1>6. ASSUME UNCHANGED <<file, owner, stage, received, quiet, task>>, owner # c
      PROVE  Typed' /\ Received'
  BY <1>1, <1>3, <1>4, <1>5, <1>6 DEF TypedTask, Carrying, TypedUpload, Received, StagedIsWhole
<1>7. ASSUME dropFile("failed"), quiet' = FALSE, received' \in 0 .. Chunks
      PROVE  Typed' /\ Received'
  BY <1>1, <1>3, <1>4, <1>5, <1>7, Touched
     DEF dropFile, TypedTask, Carrying, TypedUpload, Received, StagedIsWhole, Stage
<1>8. ASSUME owner = c, client[c].sent = received, taken(c, received), ~dropFile("failed")
      PROVE  Typed' /\ Received'
  <2>1. /\ file' \in Staged \cup {NoFile} /\ (file' # NoFile => file'.chunks = received + 1)
        /\ received < Chunks /\ received + 1 \in 0 .. Chunks /\ received' = received + 1 /\ quiet' = FALSE
    BY <1>8, Appended DEF taken, Send
  <2>2. CASE UNCHANGED <<owner, stage, task>>
    BY <1>1, <1>2, <1>3, <1>4, <1>5, <1>8, <2>1, <2>2, NoOneAssumption
       DEF TypedTask, Carrying, TypedUpload, Received, StagedIsWhole
  <2>3. CASE received + 1 = Chunks /\ handOver
    <3> DEFINE opened == [Idle EXCEPT !.pc = "open"]
    <3>0. opened \in Job /\ opened.pc = "open"
      BY DEF Job, Idle, Pc
    <3> HIDE DEF opened
    <3>1. TypedTask' /\ Carrying'
      <4>1. PICK t \in Task : task' = [task EXCEPT ![t] = opened]
        BY <2>3 DEF handOver, opened
      <4>2. task' \in [Task -> Job] /\ task'[t] = opened /\ \A u \in Task \ {t} : task'[u] = task[u]
        BY <3>0, <4>1 DEF TypedTask
      <4> QED
        BY <3>0, <4>2 DEF TypedTask, Carrying
    <3> QED BY <1>1, <1>3, <1>4, <1>5, <2>1, <2>3, <3>1 DEF handOver, TypedUpload, Received, StagedIsWhole, Stage
  <2> QED BY <1>8, <2>2, <2>3 DEF taken
<1>9. received + 1 \in 0 .. Chunks \/ owner # c \/ client[c].sent # received
  BY <1>2, ChunksAssumption
<1> QED BY <1>6, <1>7, <1>8, <1>9 DEF Send, chunk, taken, TypedUpload

LEMMA UploadStep ==
  ASSUME Typed, Received, [Next]_vars
  PROVE  Typed' /\ Received'
<1> USE DEF Typed
<1>1. ASSUME NEW c \in Client, NEW b \in Offered, Post(c, b) PROVE Typed' /\ Received'
  BY <1>1, PostTyped
<1>2. ASSUME NEW c \in Client, Send(c) PROVE Typed' /\ Received'
  BY <1>2, SendTyped
<1>3. ASSUME NEW c \in Client, Leave(c) PROVE Typed' /\ Received'
  <2> DEFINE r == [client[c] EXCEPT !.posting = FALSE]
  <2>1. r \in Request /\ ~r.posting
    BY DEF TypedUpload, Request
  <2>2. client' = [client EXCEPT ![c] = r]
    BY <1>3 DEF Leave
  <2> HIDE DEF r
  <2>3. /\ client' \in [Client -> Request] /\ ~client'[c].posting
        /\ \A d \in Client \ {c} : client'[d] = client[d]
    BY <2>1, <2>2 DEF TypedUpload
  <2> QED BY <1>3, <2>3
             DEF Leave, TypedTask, Carrying, TypedUpload, TypedFlash, TypedRest, Received, StagedIsWhole, flash, nvs, bounds
<1>4. ASSUME NEW t \in Task, Install(t) \/ Throw(t) PROVE Typed' /\ Received'
  BY <1>4, InstallTyped, Undisturbed
<1>5. ASSUME forgotten, UNCHANGED <<file, flash, nvs, earned>>, cuts' \in Nat, posts' = posts
      PROVE  Typed' /\ Received'
  <2>1. TypedTask' /\ Carrying' /\ TypedFlash' /\ TypedRest'
    BY <1>5, Forgotten DEF Carrying, TypedFlash, TypedRest, flash, nvs
  <2>2. 0 \in 0 .. Chunks
    BY ChunksAssumption
  <2>3. TypedUpload' /\ Received'
    BY <1>5, <2>2, Forgotten DEF TypedUpload, Received, StagedIsWhole, Stage
  <2> QED BY <2>1, <2>3
<1>6. CASE Restart \/ PowerCut \/ Crash
  BY <1>5, <1>6 DEF Restart, PowerCut, Crash, bounds, TypedRest
<1>7. CASE Boot
  <2>1. TypedFlash'
    BY <1>7 DEF Boot, TypedFlash, other, Slot
  <2>2. TypedUpload' /\ Received'
    BY <1>7 DEF Boot, upload, TypedUpload, Received, StagedIsWhole
  <2> QED BY <1>7, <2>1, <2>2 DEF Boot, TypedTask, Carrying, TypedRest, nvs, bounds
<1>8. CASE MarkValid
  <2>1. TypedFlash'
    BY <1>8 DEF MarkValid, TypedFlash, Slot
  <2>2. TypedUpload' /\ Received'
    BY <1>8 DEF MarkValid, upload, TypedUpload, Received, StagedIsWhole
  <2> QED BY <1>8, <2>1, <2>2 DEF MarkValid, TypedTask, Carrying, TypedRest, nvs, bounds
<1>9. CASE Settle
  <2>1. floor' \in Version
    BY <1>9 DEF Settle, settled, settle, TypedRest
  <2>2. TypedUpload' /\ Received'
    BY <1>9 DEF Settle, upload, TypedUpload, Received, StagedIsWhole
  <2> QED BY <1>9, <2>1, <2>2 DEF Settle, TypedTask, Carrying, TypedFlash, TypedRest, flash, bounds
<1>10. CASE Stall \/ BeginFloor \/ BeginClear \/ DropVer \/ DropSlot
  <2>1. TypedTask' /\ Carrying' /\ TypedFlash'
    BY <1>10 DEF Stall, BeginFloor, BeginClear, DropVer, DropSlot, flash, TypedTask, Carrying, TypedFlash
  <2>2. TypedRest'
    BY <1>10 DEF Stall, BeginFloor, BeginClear, DropVer, DropSlot, nvs, bounds, TypedRest
  <2>3. /\ UNCHANGED <<stage, received, owner, client, web>> /\ quiet' \in BOOLEAN
        /\ file' \in {file, NoFile}
    BY <1>10 DEF Stall, BeginFloor, BeginClear, DropVer, DropSlot, upload, TypedUpload
  <2>4. TypedUpload'
    BY <2>3 DEF TypedUpload
  <2>5. Received'
    BY <2>3 DEF Received, StagedIsWhole
  <2> QED BY <2>1, <2>2, <2>4, <2>5
<1>11. CASE UNCHANGED vars
  BY <1>11 DEF vars, upload, flash, nvs, bounds,
               TypedTask, Carrying, TypedUpload, TypedFlash, TypedRest, Received, StagedIsWhole
<1> QED BY <1>1, <1>2, <1>3, <1>4, <1>6, <1>7, <1>8, <1>9, <1>10, <1>11 DEF Next, Setup

(* Every variable keeps its type, and what is staged is whole: nobody's     *)
(* chunk lands in a body it does not continue, whatever is posted while an  *)
(* install runs and whatever fails.                                         *)
THEOREM StagedWhole == Spec => [](TypeOK /\ StagedIsWhole)
<1>1. Init => Typed /\ Received
  BY UploadInit
<1>2. Typed /\ Received /\ [Next]_vars => (Typed /\ Received)'
  BY UploadStep
<1>3. Typed /\ Received => TypeOK /\ StagedIsWhole
  BY TypeParts DEF Typed, Received
<1> QED BY <1>1, <1>2, <1>3, PTL DEF Spec

-----------------------------------------------------------------------------
(* Nobody posts while an install runs, and none throws after it switched.   *)
Patient == ~Impatient /\ "late" \notin Faults

(* So there is one install at a time, none beside an upload or an armed     *)
(* restart, and none goes further than its start before the node is up.     *)
Alone ==
  /\ \A t, u \in Task : task[t].pc # "idle" /\ task[u].pc # "idle" => t = u
  /\ Installing => owner = NoOne
  /\ armed => node = "up" /\ ~Installing /\ owner = NoOne
  /\ node \in {"off", "setup"} => ~Installing /\ owner = NoOne
  /\ node # "up" => \A t \in Task : task[t].pc \in {"idle", "open"}

\* What one step of an install, which is the only one, does to the tasks.
LEMMA InstallSteps ==
  ASSUME Typed, NEW t \in Task, Install(t) \/ Throw(t)
  PROVE  /\ task[t].pc # "idle" /\ \A u \in Task : u # t => task'[u].pc = task[u].pc
         /\ armed' = armed \/ (armed' /\ task[t].pc = "finish" /\ task'[t].pc = "idle")
         /\ node' = node /\ owner' = owner /\ running' = running /\ floor' = floor /\ cuts' = cuts
         /\ task'[t].pc = "idle" \/ task'[t].bundle = task[t].bundle \/ Open(t)
<1> USE DEF Typed
<1>1. CASE Open(t)
  BY <1>1, Opened DEF Open, flash, nvs, bounds
<1>2. CASE Check(t) \/ Verify(t) \/ Say(t) \/ Throw(t)
  BY <1>2, Advanced, GaveUp DEF Check, Verify, Say, Throw, flash, nvs, bounds, Pc
<1>3. CASE Begin(t) \/ Write(t) \/ Switch(t)
  BY <1>3, Advanced, GaveUp DEF Begin, Write, Switch, nvs, bounds, Pc
<1>4. CASE StageVer(t) \/ StageSlot(t)
  BY <1>4, Advanced DEF StageVer, StageSlot, upload, flash, bounds, Pc
<1>5. CASE Finish(t)
  <2>1. task'[t].pc = "idle" /\ \A u \in Task : u # t => task'[u].pc = task[u].pc
    BY <1>5, Touched DEF Finish, TypedTask, Idle
  <2> QED BY <1>5, <2>1 DEF Finish, flash, nvs, bounds
<1> QED BY <1>1, <1>2, <1>3, <1>4, <1>5 DEF Install

LEMMA AloneKept ==
  ASSUME Alone, \A t \in Task : task'[t].pc = task[t].pc, armed' = armed, node' = node,
         owner' \in {owner, NoOne} \/ (~Installing /\ ~armed /\ Listening)
  PROVE  Alone'
BY DEF Alone, Installing, Listening

LEMMA AloneStep ==
  ASSUME Patient, Typed, Alone, [Next]_vars
  PROVE  Alone'
<1> USE DEF Typed
<1>1. ASSUME NEW c \in Client, NEW b \in Offered, Post(c, b) PROVE Alone'
  <2>1. ~Installing /\ Listening
    BY <1>1 DEF Post, Patient
  <2>2. \A t \in Task : task'[t].pc = task[t].pc
    BY <1>1, Touched DEF Post, refusedQuietly, refusedAloud, accepted
  <2> QED BY AloneKept, <1>1, <2>1, <2>2 DEF Post, refusedQuietly, refusedAloud, accepted
<1>2. ASSUME NEW c \in Client, Send(c) PROVE Alone'
  <2>1. CASE handOver /\ owner = c
    <3>1. PICK t \in Task : task[t].pc = "idle" /\ task' = [task EXCEPT ![t] = [Idle EXCEPT !.pc = "open"]]
      BY <2>1 DEF handOver
    <3>2. ~Installing /\ node \notin {"off", "setup"} /\ ~armed
      BY <1>2, <2>1, NoOneAssumption DEF Alone, Send, Listening
    <3>3. task'[t].pc = "open" /\ \A u \in Task : u # t => task'[u].pc = "idle"
      BY <3>1, <3>2 DEF Idle, Installing, TypedTask
    <3> QED BY <1>2, <2>1, <3>2, <3>3 DEF Send, handOver, Alone, Installing
  <2>2. CASE ~(handOver /\ owner = c)
    <3>1. \A t \in Task : task'[t].pc = task[t].pc
      BY <1>2, <2>2, Touched DEF Send, chunk, taken, dropFile
    <3> QED BY AloneKept, <1>2, <2>2, <3>1 DEF Send, chunk, taken, dropFile
  <2> QED BY <2>1, <2>2
<1>3. ASSUME NEW c \in Client, Leave(c) PROVE Alone'
  BY AloneKept, <1>3 DEF Leave
<1>4. ASSUME NEW t \in Task, node = "up", Install(t) \/ Throw(t) PROVE Alone'
  <2>1. \A u \in Task : task'[u].pc # "idle" => task[u].pc # "idle"
    BY <1>4, InstallSteps
  <2>2. \A u \in Task : u # t => task[u].pc = "idle"
    BY <1>4, InstallSteps DEF Alone
  <2> QED BY <1>4, <2>1, <2>2, InstallSteps DEF Alone, Installing
<1>5. CASE Restart \/ PowerCut \/ Crash
  BY <1>5, Forgotten DEF Restart, PowerCut, Crash, Alone, Installing
<1>6. CASE Boot \/ BeginFloor \/ BeginClear \/ MarkValid \/ Settle \/ DropVer \/ DropSlot
  BY <1>6 DEF Boot, BeginFloor, BeginClear, MarkValid, Settle, DropVer, DropSlot, upload, Alone, Installing
<1>7. CASE Stall \/ UNCHANGED vars
  BY AloneKept, <1>7 DEF Stall, vars, upload
<1> QED BY <1>1, <1>2, <1>3, <1>4, <1>5, <1>6, <1>7 DEF Next, Setup

-----------------------------------------------------------------------------
(* An image that was signed and found whole in flash.                       *)
Whole(s) == slot[s] \in Bundle /\ slot[s].kind = "good"

(* The slot to boot is one that came up before, or has the other to fall    *)
(* back on.                                                                 *)
Fallback == comesUp(other(boot)) /\ slotState[other(boot)] = "valid"
BootKept ==
  /\ slotState[boot] = "valid" => comesUp(boot)
  /\ slotState[boot] # "valid" => Fallback
  /\ slotState[boot] = "new" => Whole(boot)

(* What runs is what was booted, until an install switches the slots, which *)
(* is then at its end or has armed the restart.                             *)
Came ==
  /\ node # "off" => Whole(running)
  /\ node \in {"setup", "floor", "confirm"} => running = boot /\ slotState[boot] \in {"valid", "pending"}
  /\ node \notin {"off", "setup"} => comesUp(running)
  /\ node \in {"settle", "dropVer", "dropSlot"} => running = boot
  /\ node \in {"settle", "dropVer", "dropSlot", "up"} => slotState[running] = "valid"
  /\ node = "up" /\ boot # running => slotState[boot] = "new" /\ (armed \/ \E t \in Task : switched(t))

(* From the hash on, the far slot holds the image that was hashed.          *)
Hashed == \A t \in Task :
  /\ task[t].pc = "switch" \/ switched(t) => slot[other(running)] = task[t].bundle /\ Whole(other(running))
  /\ switched(t) => boot = other(running)

Bootable == BootKept /\ Came /\ Hashed

LEMMA Others == \A s \in Slot : other(s) \in Slot /\ other(s) # s /\ other(other(s)) = s /\ Slot = {s, other(s)}
BY DEF Slot, other

\* While the node is up and no install has switched, the slot it runs from is
\* the one it would boot.
LEMMA NotSwitched ==
  ASSUME Alone, Came, node = "up", ~armed, NEW t \in Task, task[t].pc # "idle", ~switched(t)
  PROVE  boot = running
BY DEF Alone, Came, switched

\* Nothing of it changes, or only what an install that gives up leaves.
LEMMA BootableKept ==
  ASSUME Bootable, UNCHANGED <<flash, node, armed>>,
         \A t \in Task : \/ task'[t].pc = task[t].pc /\ task'[t].bundle = task[t].bundle
                         \/ task'[t].pc \in {"idle", "open", "check", "begin"} /\ ~switched(t)
  PROVE  Bootable'
BY DEF Bootable, BootKept, Fallback, comesUp, Whole, Came, Hashed, switched, flash

\* An install that has the node to itself and fills the far slot.
LEMMA FarSlotFilled ==
  ASSUME Typed, Alone, Bootable, NEW t \in Task, node = "up", task[t].pc \in {"begin", "write"}, UNCHANGED <<slotState, boot, running, node, armed>>,
         slot'[running] = slot[running], task'[t].pc \notin {"switch", "stageVer", "stageSlot", "say", "finish"},
         \A u \in Task : u # t => task'[u].pc = task[u].pc
  PROVE  Bootable'
<1> USE DEF Typed, Alone, Bootable
<1>1. ~armed /\ ~switched(t)
  BY DEF Installing, switched
<1>2. boot = running /\ slotState[boot] = "valid"
  BY <1>1, NotSwitched DEF Came
<1>3. \A u \in Task : task'[u].pc # "switch" /\ ~switched(u)'
  BY DEF switched
<1> QED BY <1>2, <1>3 DEF BootKept, comesUp, Whole, Came, Hashed

LEMMA InstallBootable ==
  ASSUME Patient, Typed, Alone, Bootable, NEW t \in Task, node = "up", Install(t) \/ Throw(t)
  PROVE  Bootable'
<1> USE DEF Typed
<1>1. task[t].pc # "idle" /\ \A u \in Task : u # t => task[u].pc = "idle" /\ task'[u].pc = "idle"
  BY InstallSteps DEF Alone
<1>2. ~armed /\ running \in Slot /\ boot \in Slot
  BY <1>1 DEF Alone, Installing, TypedFlash
<1>3. CASE Open(t)
  BY <1>1, <1>3, Opened, BootableKept DEF Open, switched, flash
<1>4. CASE Check(t)
  <2>1. task'[t].pc \in {"begin", "idle"} /\ UNCHANGED <<flash, node, armed>>
    BY <1>4, Advanced, GaveUp DEF Check, Pc
  <2> QED BY <1>1, <1>4, <2>1 DEF Check, Bootable, BootKept, Fallback, comesUp, Whole, Came, Hashed, switched, flash
<1>5. CASE Begin(t)
  <2>1. slot'[running] = slot[running]
    BY <1>2, <1>5, Others DEF Begin, TypedFlash
  <2>2. task'[t].pc \in {"write", "idle"}
    BY <1>5, Advanced, GaveUp DEF Begin, Pc
  <2> QED BY <1>1, <1>5, <2>1, <2>2, FarSlotFilled DEF Begin, nvs
<1>6. CASE Write(t)
  <2>1. slot'[running] = slot[running]
    BY <1>2, <1>6, Others DEF Write, TypedFlash
  <2>2. task'[t].pc \in {"verify", "idle"}
    BY <1>6, Advanced, GaveUp DEF Write, Pc
  <2> QED BY <1>1, <1>6, <2>1, <2>2, FarSlotFilled DEF Write, nvs
<1>7. CASE Verify(t)
  <2>1. UNCHANGED <<flash, node, armed>>
    BY <1>7 DEF Verify
  <2>2. CASE task'[t].pc = "idle"
    BY <1>1, <1>7, <2>1, <2>2, BootableKept DEF Verify, switched
  <2>3. CASE task'[t].pc # "idle"
    <3>1. /\ slot[other(running)] = task[t].bundle /\ task[t].bundle.kind = "good" /\ task[t].bundle \in Bundle
          /\ task'[t].pc = "switch" /\ task'[t].bundle = task[t].bundle
      BY <1>7, <2>3, Advanced, GaveUp DEF Verify, Pc, Carrying
    <3> QED BY <1>1, <1>7, <2>1, <3>1 DEF Verify, Bootable, BootKept, Fallback, comesUp, Whole, Came, Hashed, switched, flash
  <2> QED BY <2>2, <2>3
<1>8. CASE Switch(t)
  <2>1. UNCHANGED <<slot, running, node, armed>> /\ boot = running /\ ~switched(t)
    BY <1>1, <1>2, <1>8, NotSwitched DEF Switch, switched, nvs, Bootable
  <2>2. Whole(other(running)) /\ slot[other(running)] = task[t].bundle
    BY <1>8 DEF Switch, Bootable, Hashed
  <2>3. CASE gaveUp(t) /\ UNCHANGED <<boot, slotState>>
    <3>1. task'[t].pc = "idle"
      BY <2>3, GaveUp
    <3> QED BY <1>1, <2>1, <2>3, <3>1, BootableKept DEF flash, switched
  <2>4. CASE /\ boot' = other(running) /\ slotState' = [slotState EXCEPT ![other(running)] = "new"]
             /\ advance(t, "stageVer")
    <3>1. task'[t].pc = "stageVer" /\ task'[t].bundle = task[t].bundle
      BY <2>4, Advanced DEF Pc
    <3>2. slotState'[running] = "valid" /\ slotState'[other(running)] = "new" /\ comesUp(running)
      BY <1>2, <2>1, <2>4, Others DEF TypedFlash, Bootable, Came
    <3>3. BootKept'
      BY <1>2, <2>1, <2>2, <2>4, <3>2, Others DEF BootKept, Fallback, comesUp, Whole
    <3>4. Came'
      BY <1>2, <2>1, <2>2, <2>4, <3>1, <3>2 DEF Bootable, Came, comesUp, Whole, switched
    <3>5. Hashed'
      BY <1>1, <2>1, <2>2, <2>4, <3>1 DEF Hashed, Whole, switched
    <3> QED BY <3>3, <3>4, <3>5 DEF Bootable
  <2> QED BY <1>8, <2>3, <2>4 DEF Switch
<1>9. ASSUME switched(t), UNCHANGED <<flash, node, armed>>, task'[t].bundle = task[t].bundle,
             task'[t].pc \in {"stageSlot", "say", "finish"}
      PROVE  Bootable'
  BY <1>1, <1>9 DEF Bootable, BootKept, Fallback, comesUp, Whole, Came, Hashed, switched, flash
<1>10. CASE StageVer(t) \/ StageSlot(t) \/ Say(t)
  BY <1>9, <1>10, Advanced DEF StageVer, StageSlot, Say, switched, Pc
<1>11. CASE Finish(t)
  <2>1. task'[t].pc = "idle" /\ UNCHANGED <<flash, node>> /\ armed'
    BY <1>11 DEF Finish, TypedTask, Touched, touched, Idle
  <2> QED BY <1>1, <2>1 DEF Bootable, BootKept, Fallback, comesUp, Whole, Came, Hashed, switched, flash
<1>12. CASE Throw(t)
  <2>1. ~switched(t) /\ task'[t].pc = "idle"
    BY <1>12, GaveUp DEF Throw, Patient
  <2> QED BY <1>1, <1>12, <2>1, BootableKept DEF Throw, switched
<1> QED BY <1>3, <1>4, <1>5, <1>6, <1>7, <1>8, <1>10, <1>11, <1>12 DEF Install

LEMMA BootableStep ==
  ASSUME Patient, Typed, Alone, Bootable, [Next]_vars
  PROVE  Bootable'
<1> USE DEF Typed
<1>1. ASSUME UNCHANGED <<flash, node, armed>>, \A t \in Task : task'[t].pc = task[t].pc /\ task'[t].bundle = task[t].bundle
      PROVE  Bootable'
  BY <1>1, BootableKept
<1>2. ASSUME NEW c \in Client, NEW b \in Offered, Post(c, b) PROVE Bootable'
  BY <1>1, <1>2, Touched DEF Post, refusedQuietly, refusedAloud, accepted
<1>3. ASSUME NEW c \in Client, Send(c) PROVE Bootable'
  <2>1. \A t \in Task : \/ task'[t].pc = "open" /\ task[t].pc = "idle"
                        \/ task'[t].pc = task[t].pc /\ task'[t].bundle = task[t].bundle
    BY <1>3, Touched DEF Send, chunk, taken, dropFile, handOver, TypedTask, Idle
  <2> QED BY <1>3, <2>1, BootableKept DEF Send, switched
<1>4. ASSUME NEW c \in Client, Leave(c) PROVE Bootable'
  BY <1>1, <1>4 DEF Leave
<1>5. CASE Stall \/ UNCHANGED vars
  BY <1>1, <1>5 DEF Stall, vars, upload
<1>6. ASSUME NEW t \in Task, node = "up", Install(t) \/ Throw(t) PROVE Bootable'
  BY <1>6, InstallBootable
<1>7. CASE Restart \/ PowerCut \/ Crash
  <2>1. flash' = flash /\ node' = "off" /\ \A t \in Task : task'[t].pc = "idle"
    BY <1>7, Forgotten DEF Restart, PowerCut, Crash
  <2> QED BY <2>1 DEF Bootable, BootKept, Fallback, comesUp, Whole, Came, Hashed, switched, flash
<1>8. CASE Boot
  <2> DEFINE usable == slot[boot] \in Bundle /\ slotState[boot] \in {"new", "valid"}
  <2>1. boot \in Slot /\ slot' = slot /\ node' = "setup" /\ task' = task /\ running' = boot'
    BY <1>8 DEF Boot, TypedFlash
  <2>2. Hashed'
    BY <1>8, <2>1 DEF Boot, Hashed, switched, Alone, Installing
  <2>3. CASE usable
    <3>1. /\ boot' = boot /\ slotState'[other(boot)] = slotState[other(boot)]
          /\ slotState'[boot] = IF slotState[boot] = "new" THEN "pending" ELSE slotState[boot]
      BY <1>8, <2>1, <2>3, Others DEF Boot
    <3>2. Whole(boot)
      BY <2>3 DEF Bootable, BootKept, comesUp, Whole
    <3>3. BootKept'
      BY <2>1, <2>3, <3>1, <3>2 DEF Bootable, BootKept, Fallback, comesUp, Whole
    <3>4. Came'
      BY <2>1, <2>3, <3>1, <3>2 DEF Came, Whole
    <3> QED BY <2>2, <3>3, <3>4 DEF Bootable
  <2>4. CASE ~usable
    <3>1. slotState[boot] # "valid" /\ Fallback
      BY <2>4 DEF Bootable, BootKept, comesUp
    <3>2. boot' = other(boot) /\ slotState'[other(boot)] = "valid"
      BY <1>8, <2>1, <2>4, <3>1, Others DEF Boot, Fallback
    <3>3. BootKept'
      BY <2>1, <3>1, <3>2 DEF BootKept, Fallback, comesUp
    <3>4. Came'
      BY <2>1, <3>1, <3>2 DEF Came, Whole, Fallback, comesUp
    <3> QED BY <2>2, <3>3, <3>4 DEF Bootable
  <2> QED BY <2>3, <2>4
<1>9. CASE BeginFloor
  BY <1>9 DEF BeginFloor, upload, flash, Bootable, BootKept, Fallback, comesUp, Whole, Came, Hashed, switched
<1>10. CASE MarkValid
  <2>1. running = boot /\ running \in Slot /\ slotState'[running] = "valid" /\ comesUp(running)
    BY <1>10 DEF MarkValid, Bootable, Came, TypedFlash
  <2> QED BY <1>10, <2>1 DEF MarkValid, upload, Bootable, BootKept, Fallback, comesUp, Whole, Came, Hashed, switched
<1>11. CASE BeginClear \/ Settle \/ DropVer \/ DropSlot
  BY <1>11 DEF BeginClear, Settle, DropVer, DropSlot, upload, flash,
               Bootable, BootKept, Fallback, comesUp, Whole, Came, Hashed, switched
<1> QED BY <1>2, <1>3, <1>4, <1>5, <1>6, <1>7, <1>8, <1>9, <1>10, <1>11 DEF Next, Setup

-----------------------------------------------------------------------------
(* What was staged to the end is in NVS until a boot settles it: then the   *)
(* floor has moved, or the other slot was fallen back on for good.          *)
Staging == \A t \in Task :
  /\ task[t].pc \in {"write", "verify", "switch", "stageVer", "stageSlot"} => earned = NoVersion
  /\ task[t].pc = "stageSlot" => stagedVer = task[t].bundle.ver
Pending  == /\ stagedVer = earned.ver /\ stagedSlot = earned.slot
            /\ node \in {"up", "dropVer", "dropSlot"} => running # earned.slot
Passed   == running # earned.slot /\ boot # earned.slot /\ slotState[boot] = "valid"
Credit   == earned # NoVersion => floor >= earned.ver \/ Pending \/ Passed
Credited == Staging /\ Credit

LEMMA CreditedKept ==
  ASSUME Credited, UNCHANGED <<flash, nvs, earned>>, node' = node \/ node' \notin {"up", "dropVer", "dropSlot"},
         \A t \in Task : \/ task'[t].pc = task[t].pc /\ task'[t].bundle = task[t].bundle
                         \/ task'[t].pc \in {"idle", "open", "check", "begin", "say", "finish"}
                         \/ task[t].pc \in {"write", "verify", "switch"} /\ task'[t].pc \in {"verify", "switch", "stageVer"}
  PROVE  Credited'
BY DEF Credited, Staging, Credit, Pending, Passed, flash, nvs

LEMMA InstallCredited ==
  ASSUME Patient, Typed, Alone, Bootable, Credited, NEW t \in Task, node = "up", Install(t) \/ Throw(t)
  PROVE  Credited'
<1> USE DEF Typed
<1>1. task[t].pc # "idle" /\ \A u \in Task : u # t => task[u].pc = "idle" /\ task'[u].pc = "idle"
  BY InstallSteps DEF Alone
<1>2. CASE Open(t) \/ Check(t) \/ Verify(t) \/ Say(t) \/ Throw(t)
  <2>1. \/ task'[t].pc \in {"idle", "check", "begin", "finish"}
        \/ task[t].pc = "verify" /\ task'[t].pc = "switch"
    BY <1>2, Opened, Advanced, GaveUp DEF Check, Verify, Say, Throw, Pc
  <2> QED BY <1>1, <1>2, <2>1, CreditedKept DEF Open, Check, Verify, Say, Throw
<1>3. CASE Begin(t)
  <2>1. task'[t].pc \in {"write", "idle"} /\ earned' = NoVersion
    BY <1>3, Advanced, GaveUp DEF Begin, Pc
  <2> QED BY <1>1, <2>1 DEF Credited, Staging, Credit
<1>4. CASE Write(t) \/ Switch(t)
  <2>1. task'[t].pc \in {"verify", "stageVer", "idle"} /\ earned' = earned /\ earned = NoVersion
    BY <1>4, Advanced, GaveUp DEF Write, Switch, Pc, Credited, Staging
  <2> QED BY <1>1, <2>1 DEF Credited, Staging, Credit
<1>5. CASE StageVer(t)
  <2>1. /\ task'[t].pc = "stageSlot" /\ task'[t].bundle = task[t].bundle /\ earned' = earned /\ earned = NoVersion
        /\ stagedVer' = task[t].bundle.ver
    BY <1>5, Advanced DEF StageVer, Pc, Credited, Staging
  <2> QED BY <1>1, <2>1 DEF Credited, Staging, Credit
<1>6. CASE StageSlot(t)
  <2>1. task'[t].pc = "say" /\ stagedVer' = task[t].bundle.ver
    BY <1>6, Advanced DEF StageSlot, Pc, Credited, Staging
  <2>2. /\ earned' = [ver |-> task[t].bundle.ver, slot |-> other(running)] /\ stagedSlot' = other(running)
        /\ other(running) # running /\ running' = running
    BY <1>6, Others DEF StageSlot, TypedFlash, flash
  <2>3. Pending'
    BY <2>1, <2>2 DEF Pending
  <2> QED BY <1>1, <2>1, <2>3 DEF Credited, Staging, Credit
<1>7. CASE Finish(t)
  <2>1. task'[t].pc = "idle"
    BY <1>7, Touched DEF Finish, TypedTask, Idle
  <2> QED BY <1>1, <1>7, <2>1, CreditedKept DEF Finish
<1> QED BY <1>2, <1>3, <1>4, <1>5, <1>6, <1>7 DEF Install

LEMMA CreditedStep ==
  ASSUME Patient, Typed, Alone, Bootable, Credited, [Next]_vars
  PROVE  Credited'
<1> USE DEF Typed
<1>1. ASSUME UNCHANGED <<flash, nvs, earned, node>>,
             \A t \in Task : \/ task'[t].pc = task[t].pc /\ task'[t].bundle = task[t].bundle
                             \/ task'[t].pc = "open"
      PROVE  Credited'
  BY <1>1, CreditedKept
<1>2. ASSUME NEW c \in Client, NEW b \in Offered, Post(c, b) PROVE Credited'
  BY <1>1, <1>2, Touched DEF Post, refusedQuietly, refusedAloud, accepted
<1>3. ASSUME NEW c \in Client, Send(c) PROVE Credited'
  BY <1>1, <1>3, Touched DEF Send, chunk, taken, dropFile, handOver, TypedTask, Idle
<1>4. ASSUME NEW c \in Client, Leave(c) PROVE Credited'
  BY <1>1, <1>4 DEF Leave
<1>5. CASE Stall \/ UNCHANGED vars
  BY <1>1, <1>5 DEF Stall, vars, upload
<1>6. ASSUME NEW t \in Task, node = "up", Install(t) \/ Throw(t) PROVE Credited'
  BY <1>6, InstallCredited
<1>7. CASE Restart \/ PowerCut \/ Crash \/ BeginFloor \/ BeginClear
  <2>1. UNCHANGED <<flash, nvs, earned>> /\ node' \in {"off", "floor", "confirm"}
    BY <1>7, Forgotten DEF Restart, PowerCut, Crash, BeginFloor, BeginClear
  <2>2. \A t \in Task : task'[t].pc = "idle" \/ task'[t] = task[t]
    BY <1>7, Forgotten DEF Restart, PowerCut, Crash, BeginFloor, BeginClear
  <2> QED BY <2>1, <2>2, CreditedKept
<1>8. \A t \in Task : node # "up" => task[t].pc \in {"idle", "open"}
  BY DEF Alone
<1>9. CASE Boot
  <2>1. UNCHANGED <<nvs, earned, task>> /\ node' = "setup" /\ boot \in Slot
    BY <1>9 DEF Boot, TypedFlash
  <2>2. Staging'
    BY <1>8, <1>9, <2>1 DEF Boot, Staging, nvs
  <2>3. ASSUME Passed PROVE Passed'
    <3>1. slot[boot] \in Bundle /\ slotState[boot] = "valid"
      BY <2>3 DEF Bootable, BootKept, comesUp, Passed
    <3>2. boot' = boot /\ running' = boot /\ slotState'[boot] = "valid"
      BY <1>9, <2>1, <3>1 DEF Boot
    <3> QED BY <2>1, <2>3, <3>2 DEF Passed
  <2> QED BY <2>1, <2>2, <2>3 DEF Credited, Credit, Pending, nvs
<1>10. CASE MarkValid
  <2>1. UNCHANGED <<nvs, earned, task, boot, running>> /\ node' = "settle" /\ running = boot /\ slotState'[boot] = "valid"
    BY <1>10 DEF MarkValid, Bootable, Came, TypedFlash
  <2> QED BY <1>8, <1>10, <2>1 DEF MarkValid, Credited, Staging, Credit, Pending, Passed, nvs
<1>11. CASE Settle
  <2>1. UNCHANGED <<flash, stagedVer, stagedSlot, earned, task>> /\ floor \in Nat /\ running \in Slot
    BY <1>11, VersionAssumption DEF Settle, TypedRest, TypedFlash
  <2>2. floor' = IF stagedVer # NoVersion /\ stagedSlot = running /\ stagedVer > floor THEN stagedVer ELSE floor
    BY <1>11 DEF Settle, settled, settle
  <2>3. floor' >= floor /\ floor' \in Nat /\ (stagedVer # NoVersion /\ stagedSlot = running => floor' >= stagedVer)
    BY <2>1, <2>2, VersionAssumption DEF TypedRest
  <2>4. ASSUME earned # NoVersion, Pending PROVE floor' >= earned.ver \/ Pending'
    <3>1. earned.ver \in Version /\ stagedVer # NoVersion
      BY <2>4, NoVersionAssumption DEF TypedRest, Pending
    <3> QED BY <2>1, <2>3, <2>4, <3>1 DEF Pending, flash
  <2>5. ASSUME earned # NoVersion, floor >= earned.ver PROVE floor' >= earned.ver
    <3>1. earned.ver \in Nat
      BY <2>5, VersionAssumption DEF TypedRest
    <3> QED BY <2>1, <2>3, <2>5, <3>1
  <2> QED BY <1>8, <1>11, <2>1, <2>4, <2>5 DEF Settle, Credited, Staging, Credit, Passed, flash
<1>12. CASE DropVer \/ DropSlot
  <2>1. UNCHANGED <<flash, floor, earned, task>> /\ running = boot /\ slotState[boot] = "valid" /\ node # "up"
        /\ node \in {"dropVer", "dropSlot"}
    BY <1>12 DEF DropVer, DropSlot, Bootable, Came
  <2> QED BY <1>8, <2>1 DEF Credited, Staging, Credit, Pending, Passed, flash
<1> QED BY <1>2, <1>3, <1>4, <1>5, <1>6, <1>7, <1>9, <1>10, <1>11, <1>12 DEF Next, Setup

-----------------------------------------------------------------------------
(* No image the node may come up with is below the floor, and what NVS says *)
(* was staged is what the slot it names holds: a power cut between the two  *)
(* keys leaves the slot's behind, and the second cut this takes to do harm  *)
(* is the one that is not there (MaxCuts <= 1).                             *)
OneCut == MaxCuts <= 1

FloorKept ==
  /\ slotState[boot] \in {"valid", "new", "pending"} => slot[boot].ver >= floor
  /\ slotState[boot] # "valid" => slot[other(boot)].ver >= floor
  /\ \A t \in Task : task[t].pc \notin {"idle", "open", "check"} => task[t].bundle.ver >= floor

Recorded ==
  /\ node = "up" /\ stagedVer # NoVersion => armed \/ \E t \in Task : task[t].pc \in {"stageSlot", "say", "finish"}
  /\ node = "dropSlot" => stagedVer = NoVersion
  /\ stagedVer = NoVersion /\ stagedSlot # NoVersion => node = "dropSlot" \/ cuts >= 1
  /\ stagedVer # NoVersion /\ stagedSlot # NoVersion =>
       \/ slot[stagedSlot] \in Bundle /\ slot[stagedSlot].ver = stagedVer
       \/ cuts >= 1 /\ \E t \in Task : task[t].pc = "stageSlot"

Floored == FloorKept /\ Recorded

LEMMA FlooredKept ==
  ASSUME Floored, UNCHANGED <<flash, nvs, node, armed, cuts>>,
         \A t \in Task : \/ task'[t].pc = task[t].pc /\ task'[t].bundle = task[t].bundle
                         \/ /\ task'[t].pc \in {"idle", "open", "check"}
                            /\ task[t].pc \notin {"stageSlot", "say", "finish"}
  PROVE  Floored'
BY DEF Floored, FloorKept, Recorded, flash, nvs

LEMMA InstallFloored ==
  ASSUME Patient, OneCut, Typed, Alone, Bootable, Credited, Floored, NEW t \in Task, node = "up", Install(t) \/ Throw(t)
  PROVE  Floored'
<1> USE DEF Typed
<1>1. task[t].pc # "idle" /\ \A u \in Task : u # t => task[u].pc = "idle" /\ task'[u].pc = "idle"
  BY InstallSteps DEF Alone
<1>2. ~armed /\ running \in Slot /\ boot \in Slot /\ UNCHANGED <<node, running, floor, cuts>> /\ cuts \in Nat
  BY <1>1, InstallSteps DEF Alone, Installing, TypedFlash, TypedRest
<1>3. ~switched(t) => boot = running /\ slotState[boot] = "valid" /\ slot[boot].ver >= floor /\ stagedVer = NoVersion
  <2>1. ~switched(t) => boot = running /\ slotState[boot] = "valid"
    BY <1>1, <1>2, NotSwitched DEF Bootable, Came
  <2>2. ~switched(t) => stagedVer = NoVersion
    BY <1>1, <1>2 DEF Floored, Recorded, switched
  <2> QED BY <2>1, <2>2 DEF Floored, FloorKept
<1>4. CASE Open(t)
  BY <1>1, <1>2, <1>4, Opened, FlooredKept DEF Open
<1>5. CASE Check(t)
  <2>1. \/ task'[t].pc = "idle"
        \/ task'[t].pc = "begin" /\ task'[t].bundle = task[t].bundle /\ task[t].bundle.ver >= floor
    BY <1>5, Advanced, GaveUp DEF Check, check, Pc
  <2> QED BY <1>1, <1>2, <1>5, <2>1 DEF Check, Floored, FloorKept, Recorded, flash, nvs
<1>6. ASSUME task[t].pc \in {"begin", "write", "verify"}, UNCHANGED <<slotState, boot, nvs, armed>>,
             slot'[running] = slot[running], task'[t].pc \in {"idle", "write", "verify", "switch"},
             task'[t].pc # "idle" => task'[t].bundle = task[t].bundle
      PROVE  Floored'
  <2>1. ~switched(t) /\ stagedVer = NoVersion
    BY <1>3, <1>6 DEF switched
  <2>2. FloorKept'
    BY <1>1, <1>2, <1>3, <1>6, <2>1 DEF Floored, FloorKept, nvs
  <2>3. Recorded'
    BY <1>1, <1>2, <1>6, <2>1 DEF Floored, Recorded, nvs
  <2> QED BY <2>2, <2>3 DEF Floored
<1>7. CASE Begin(t) \/ Write(t) \/ Verify(t)
  <2>1. slot'[running] = slot[running] /\ UNCHANGED <<slotState, boot, nvs, armed>>
    BY <1>2, <1>7, Others DEF Begin, Write, Verify, TypedFlash, flash
  <2>2. /\ task[t].pc \in {"begin", "write", "verify"} /\ task'[t].pc \in {"idle", "write", "verify", "switch"}
        /\ task'[t].pc # "idle" => task'[t].bundle = task[t].bundle
    BY <1>7, Advanced, GaveUp DEF Begin, Write, Verify, Pc
  <2> QED BY <1>6, <2>1, <2>2
<1>8. CASE Switch(t)
  <2>1. ~switched(t) /\ UNCHANGED <<slot, nvs, armed>> /\ stagedVer = NoVersion /\ boot = running
    BY <1>3, <1>8 DEF Switch, switched
  <2>2. CASE UNCHANGED <<boot, slotState>>
    <3>1. task'[t].pc \in {"idle", "stageVer"} /\ (task'[t].pc = "stageVer" => task'[t].bundle = task[t].bundle)
      BY <1>8, Advanced, GaveUp DEF Switch, Pc
    <3> QED BY <1>1, <1>2, <1>8, <2>1, <2>2, <3>1 DEF Switch, Floored, FloorKept, Recorded, nvs
  <2>3. CASE /\ boot' = other(running) /\ slotState' = [slotState EXCEPT ![other(running)] = "new"]
             /\ advance(t, "stageVer")
    <3>1. task'[t].pc = "stageVer" /\ task'[t].bundle = task[t].bundle
      BY <2>3, Advanced DEF Pc
    <3>2. slot[other(running)].ver >= floor /\ slot[running].ver >= floor
      BY <1>3, <1>8, <2>1 DEF Switch, Floored, FloorKept, Bootable, Hashed
    <3>3. FloorKept'
      BY <1>1, <1>2, <1>8, <2>1, <2>3, <3>1, <3>2, Others DEF Switch, Floored, FloorKept
    <3>4. Recorded'
      BY <1>1, <1>2, <2>1, <3>1 DEF Floored, Recorded, nvs
    <3> QED BY <3>3, <3>4 DEF Floored
  <2> QED BY <1>8, <2>2, <2>3 DEF Switch
<1>9. CASE StageVer(t)
  <2>1. task'[t].pc = "stageSlot" /\ task'[t].bundle = task[t].bundle /\ UNCHANGED <<flash, stagedSlot, armed>>
    BY <1>9, Advanced DEF StageVer, Pc
  <2>2. FloorKept'
    BY <1>1, <1>2, <1>9, <2>1 DEF StageVer, Floored, FloorKept, flash
  <2>3. stagedSlot # NoVersion => cuts >= 1
    <3>1. stagedVer = NoVersion
      BY <1>1, <1>2, <1>9 DEF StageVer, Floored, Recorded
    <3> QED BY <1>2, <3>1 DEF Floored, Recorded
  <2>4. Recorded'
    BY <1>2, <2>1, <2>3 DEF Recorded
  <2> QED BY <2>2, <2>4 DEF Floored
<1>10. CASE StageSlot(t)
  <2>1. task'[t].pc = "say" /\ task'[t].bundle = task[t].bundle /\ UNCHANGED <<flash, stagedVer, armed>>
        /\ stagedSlot' = other(running)
    BY <1>10, Advanced DEF StageSlot, Pc
  <2>2. FloorKept'
    BY <1>1, <1>2, <1>10, <2>1 DEF StageSlot, Floored, FloorKept, flash
  <2>3. /\ slot[other(running)] \in Bundle /\ slot[other(running)].ver = task[t].bundle.ver
        /\ stagedVer = task[t].bundle.ver /\ stagedVer # NoVersion
    BY <1>10, NoVersionAssumption DEF StageSlot, Bootable, Hashed, Whole, switched, Credited, Staging, Bundle
  <2>4. Recorded'
    BY <1>2, <2>1, <2>3 DEF Recorded, flash
  <2> QED BY <2>2, <2>4 DEF Floored
<1>11. CASE Say(t)
  <2>1. task'[t].pc = "finish" /\ task'[t].bundle = task[t].bundle
    BY <1>11, Advanced DEF Say, Pc
  <2> QED BY <1>1, <1>2, <1>11, <2>1 DEF Say, Floored, FloorKept, Recorded, flash, nvs
<1>12. CASE Finish(t)
  <2>1. task'[t].pc = "idle" /\ armed'
    BY <1>12, Touched DEF Finish, TypedTask, Idle
  <2> QED BY <1>1, <1>2, <1>12, <2>1 DEF Finish, Floored, FloorKept, Recorded, flash, nvs
<1>13. CASE Throw(t)
  <2>1. ~switched(t) /\ task'[t].pc = "idle"
    BY <1>13, GaveUp DEF Throw, Patient
  <2> QED BY <1>1, <1>2, <1>13, <2>1, FlooredKept DEF Throw, switched
<1> QED BY <1>4, <1>5, <1>7, <1>8, <1>9, <1>10, <1>11, <1>12, <1>13 DEF Install

LEMMA FlooredStep ==
  ASSUME Patient, OneCut, Typed, Alone, Bootable, Credited, Floored, [Next]_vars
  PROVE  Floored'
<1> USE DEF Typed
<1>1. ASSUME UNCHANGED <<flash, nvs, node, armed, cuts>>,
             \A t \in Task : \/ task'[t].pc = task[t].pc /\ task'[t].bundle = task[t].bundle
                             \/ task'[t].pc = "open" /\ task[t].pc = "idle"
      PROVE  Floored'
  BY <1>1, FlooredKept
<1>2. ASSUME NEW c \in Client, NEW b \in Offered, Post(c, b) PROVE Floored'
  BY <1>1, <1>2, Touched DEF Post, refusedQuietly, refusedAloud, accepted
<1>3. ASSUME NEW c \in Client, Send(c) PROVE Floored'
  BY <1>1, <1>3, Touched DEF Send, chunk, taken, dropFile, handOver, TypedTask, Idle, bounds
<1>4. ASSUME NEW c \in Client, Leave(c) PROVE Floored'
  BY <1>1, <1>4 DEF Leave, bounds
<1>5. CASE Stall \/ UNCHANGED vars
  BY <1>1, <1>5 DEF Stall, vars, upload, bounds
<1>6. ASSUME NEW t \in Task, node = "up", Install(t) \/ Throw(t) PROVE Floored'
  BY <1>6, InstallFloored
<1>7. \A t \in Task : node # "up" => task[t].pc \in {"idle", "open"}
  BY DEF Alone
<1>8. CASE Restart \/ Crash
  <2>1. UNCHANGED <<flash, nvs, cuts>> /\ node' = "off" /\ \A t \in Task : task'[t].pc = "idle" /\ task[t].pc \in {"idle", "open"}
    BY <1>7, <1>8, Forgotten DEF Restart, Crash, bounds, Alone, Installing
  <2>2. node # "dropSlot"
    BY <1>8 DEF Restart, Crash
  <2> QED BY <2>1, <2>2 DEF Floored, FloorKept, Recorded, flash, nvs
<1>9. CASE PowerCut
  <2>1. cuts \in Nat /\ cuts = 0 /\ cuts' = 1
    BY <1>9, BoundsAssumption DEF PowerCut, TypedRest, OneCut
  <2>2. UNCHANGED <<flash, nvs>> /\ node' = "off" /\ \A t \in Task : task'[t].pc = "idle"
    BY <1>9, Forgotten DEF PowerCut
  <2> QED BY <2>1, <2>2 DEF Floored, FloorKept, Recorded, flash, nvs
<1>10. CASE Boot
  <2> DEFINE usable == slot[boot] \in Bundle /\ slotState[boot] \in {"new", "valid"}
  <2>1. UNCHANGED <<slot, nvs, task, armed, cuts>> /\ node = "off" /\ node' = "setup" /\ boot \in Slot
    BY <1>10 DEF Boot, TypedFlash, bounds
  <2>2. Recorded'
    BY <1>7, <2>1 DEF Floored, Recorded, nvs
  <2>3. CASE usable
    <3>1. boot' = boot /\ slotState'[boot] = IF slotState[boot] = "new" THEN "pending" ELSE slotState[boot]
      BY <1>10, <2>1, <2>3 DEF Boot
    <3>2. FloorKept'
      BY <1>7, <2>1, <2>3, <3>1 DEF Floored, FloorKept, nvs
    <3> QED BY <2>2, <3>2 DEF Floored
  <2>4. CASE ~usable
    <3>1. slotState[boot] # "valid" /\ slotState[other(boot)] = "valid"
      BY <2>4 DEF Bootable, BootKept, comesUp, Fallback
    <3>2. boot' = other(boot) /\ slotState'[other(boot)] = "valid"
      BY <1>10, <2>1, <2>4, <3>1, Others DEF Boot
    <3>3. FloorKept'
      BY <1>7, <2>1, <3>1, <3>2 DEF Floored, FloorKept, nvs
    <3> QED BY <2>2, <3>3 DEF Floored
  <2> QED BY <2>3, <2>4
<1>11. CASE BeginFloor \/ BeginClear
  BY <1>7, <1>11 DEF BeginFloor, BeginClear, upload, bounds, Floored, FloorKept, Recorded, flash, nvs
<1>12. CASE MarkValid
  <2>1. /\ UNCHANGED <<nvs, task, boot, slot, armed, cuts>> /\ node' = "settle" /\ node = "confirm"
        /\ slotState'[boot] = "valid" /\ slotState[boot] \in {"valid", "pending"}
    BY <1>12 DEF MarkValid, Bootable, Came, TypedFlash, upload, bounds
  <2> QED BY <1>7, <2>1 DEF Floored, FloorKept, Recorded, nvs
<1>13. CASE Settle
  <2>1. /\ UNCHANGED <<flash, stagedVer, stagedSlot, task, armed, cuts>> /\ running = boot /\ slotState[boot] = "valid"
        /\ node = "settle" /\ node' = IF stagedVer # NoVersion THEN "dropVer" ELSE "up"
    BY <1>13 DEF Settle, settled, settle, Bootable, Came, upload, bounds
  <2>2. floor' = IF stagedVer # NoVersion /\ stagedSlot = running /\ stagedVer > floor THEN stagedVer ELSE floor
    BY <1>13 DEF Settle, settled, settle
  <2>3. running \in Slot /\ running # NoVersion
    BY NoVersionAssumption DEF TypedFlash, Slot
  <2>4. stagedVer # NoVersion /\ stagedSlot = running => slot[boot].ver = stagedVer
    BY <1>7, <2>1, <2>3 DEF Floored, Recorded
  <2>5. slot[boot].ver \in Nat /\ floor \in Nat /\ slot[boot].ver >= floor
    BY <2>1, VersionAssumption DEF Bootable, BootKept, comesUp, Bundle, TypedRest, Floored, FloorKept
  <2>6. slot[boot].ver >= floor'
    BY <2>2, <2>4, <2>5
  <2>7. FloorKept'
    BY <1>7, <2>1, <2>6 DEF FloorKept, flash
  <2>8. Recorded'
    BY <1>7, <2>1 DEF Floored, Recorded, flash
  <2> QED BY <2>7, <2>8 DEF Floored
<1>14. CASE DropVer \/ DropSlot
  <2>1. UNCHANGED <<flash, floor, task, armed, cuts>> /\ node \in {"dropVer", "dropSlot"}
    BY <1>14 DEF DropVer, DropSlot, upload, bounds
  <2>2. FloorKept'
    BY <1>7, <2>1 DEF Floored, FloorKept, flash
  <2>3. Recorded'
    BY <1>14, <2>1 DEF DropVer, DropSlot, Floored, Recorded
  <2> QED BY <2>2, <2>3 DEF Floored
<1> QED BY <1>2, <1>3, <1>4, <1>5, <1>6, <1>8, <1>9, <1>10, <1>11, <1>12, <1>13, <1>14 DEF Next, Setup

LEMMA OthersInit == Init => Alone /\ Bootable /\ Credited /\ Floored
<1> SUFFICES ASSUME Init PROVE Alone /\ Bootable /\ Credited /\ Floored
  OBVIOUS
<1>1. Factory \in Bundle /\ Factory.kind = "good" /\ Factory.boots /\ Factory.ver = 0
  BY VersionAssumption DEF Factory, Bundle
<1>2. Alone
  BY DEF Init, Alone, Installing, Idle
<1>3. Bootable
  BY <1>1 DEF Init, Bootable, BootKept, Came, Hashed, comesUp, switched, Idle, Slot
<1>4. Credited
  BY DEF Init, Credited, Staging, Credit, Idle
<1>5. Floored
  BY <1>1 DEF Init, Floored, FloorKept, Recorded, Idle, Slot
<1> QED BY <1>2, <1>3, <1>4, <1>5

-----------------------------------------------------------------------------
LEMMA Invariant ==
  ASSUME Patient
  PROVE  Spec => [](Typed /\ Received /\ Alone /\ Bootable /\ Credited)
<1>1. Init => Typed /\ Received /\ Alone /\ Bootable /\ Credited
  BY UploadInit, OthersInit
<1>2. Typed /\ Received /\ Alone /\ Bootable /\ Credited /\ [Next]_vars
        => (Typed /\ Received /\ Alone /\ Bootable /\ Credited)'
  BY UploadStep, AloneStep, BootableStep, CreditedStep
<1> QED BY <1>1, <1>2, PTL DEF Spec

(* Whatever is uploaded, refused, thrown or rolled back, and however often  *)
(* the power is cut, the node comes up again and runs only what was signed  *)
(* and found whole in flash.  Patient: nobody posts during an install, and  *)
(* none throws after it switched the slots.                                 *)
THEOREM AlwaysComesUp ==
  ASSUME Patient
  PROVE  Spec => [](NeverBricked /\ OnlyVerifiedRuns)
<1>1. Typed /\ Alone /\ Bootable => NeverBricked /\ OnlyVerifiedRuns
  BY Others DEF Typed, TypedFlash, TypedRest, Bootable, BootKept, Fallback, Came, Whole, comesUp,
                NeverBricked, OnlyVerifiedRuns, Alone
<1> QED BY <1>1, Invariant, PTL

(* With one power cut at the most it is not below the floor either: the two *)
(* keys of Floor::stage() are two writes, and so are those of confirm().    *)
THEOREM NeverBelowFloor ==
  ASSUME Patient, OneCut
  PROVE  Spec => []BootsVerified
<1>1. Init => Floored
  BY OthersInit
<1>2. Typed /\ Alone /\ Bootable /\ Credited /\ Floored /\ [Next]_vars => Floored'
  BY FlooredStep
<1>3. Typed /\ Alone /\ Bootable /\ Floored => RunningNotBelowFloor
  <2>1. ASSUME Typed, Bootable, Floored, node = "up" PROVE slot[running].ver >= floor
    <3>1. running = boot \/ running = other(boot)
      BY <2>1, Others DEF Typed, TypedFlash
    <3>2. running # boot => slotState[boot] = "new"
      BY <2>1 DEF Bootable, Came
    <3>3. running = boot => slotState[boot] = "valid"
      BY <2>1 DEF Bootable, Came
    <3> QED BY <2>1, <3>1, <3>2, <3>3 DEF Floored, FloorKept
  <2> QED BY <2>1 DEF RunningNotBelowFloor
<1> QED BY <1>1, <1>2, <1>3, Invariant, AlwaysComesUp, PTL DEF Spec, BootsVerified

(* No request touches the transfer of another that is still arriving.       *)
LEMMA InFlight ==
  ASSUME Typed, [Next]_vars, owner # NoOne, ~quiet, NEW d \in Client \ {owner}, client'[d] # client[d], node' = node
  PROVE  UNCHANGED <<file, owner, received, stage>>
<1> USE DEF Typed
<1>1. ASSUME NEW c \in Client, NEW b \in Offered, Post(c, b) PROVE UNCHANGED <<file, owner, received, stage>>
  BY <1>1 DEF Post, refusedQuietly, refusedAloud, accepted
<1>2. ASSUME NEW c \in Client, Send(c) PROVE UNCHANGED <<file, owner, received, stage>>
  <2>1. c = d
    BY <1>2 DEF Send, TypedUpload
  <2> QED BY <1>2, <2>1 DEF Send, chunk
<1>3. ASSUME NEW c \in Client, Leave(c) PROVE UNCHANGED <<file, owner, received, stage>>
  BY <1>3 DEF Leave
<1>4. ASSUME NEW t \in Task, Install(t) \/ Throw(t) PROVE FALSE
  BY <1>4, InstallTyped
<1>5. CASE Restart \/ PowerCut \/ Crash
  BY <1>5 DEF Restart, PowerCut, Crash, forgotten, TypedRest
<1>6. CASE Stall \/ Boot \/ BeginFloor \/ BeginClear \/ MarkValid \/ Settle \/ DropVer \/ DropSlot \/ UNCHANGED vars
  BY <1>6 DEF Stall, Boot, BeginFloor, BeginClear, MarkValid, Settle, DropVer, DropSlot, vars, upload
<1> QED BY <1>1, <1>2, <1>3, <1>4, <1>5, <1>6 DEF Next, Setup

(* A version that was staged to the end and runs has moved the floor,       *)
(* wherever the power was cut; what is staged is whole; and a transfer      *)
(* that arrives is left alone by every other request.                       *)
THEOREM UploadsKept ==
  ASSUME Patient
  PROVE  Spec => UploadKept
<1>1. Typed /\ Credited => EarnedIsCredited
  <2> SUFFICES ASSUME Typed, Credited, node = "up", earned # NoVersion, earned.slot = running
               PROVE  floor >= earned.ver
    BY DEF EarnedIsCredited
  <2> QED BY DEF Credited, Credit, Pending, Passed
<1>2. Typed /\ [Next]_vars => [owner # NoOne /\ ~quiet /\ (\E c \in Client \ {owner} : client'[c] # client[c])
                                  /\ node' = node => UNCHANGED <<file, owner, received, stage>>]_vars
  BY InFlight
<1>3. Received => StagedIsWhole
  BY DEF Received
<1> QED BY <1>1, <1>2, <1>3, Invariant, PTL DEF Spec, UploadKept, InFlightKept
=============================================================================
