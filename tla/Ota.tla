---------------------------------- MODULE Ota ----------------------------------
(***************************************************************************)
(* How a node takes an update: the upload of src/sys/OtaUpdate.cpp, the    *)
(* install of src/sys/OtaInstaller.h, the version floor of                 *)
(* src/sys/OtaFloor.h and the boot that settles it (src/main.cpp).         *)
(*                                                                         *)
(* Three tasks share this state: the web task carries the requests, an     *)
(* install task per staged bundle does the flash work, and setup() settles *)
(* the floor at boot.  Any of them can be cut short.  A bundle is its      *)
(* version, whether its image boots, and which of the checks it passes; a  *)
(* body is Chunks chunks long, the first holding the manifest.             *)
(***************************************************************************)
EXTENDS Naturals

CONSTANTS Client,      \* request objects: the tokens receiveStart() is given
          NoOne,       \* no token
          Version,     \* secure_version numbers
          Chunks,      \* chunks in a body
          Task,        \* install tasks
          NoFile,      \* nothing staged
          NoImage,     \* a slot that was erased
          Garbage,     \* a slot holding what no manifest describes
          NoVersion,   \* the NVS key is not there
          Impatient,   \* whether somebody posts while an install is running
          Faults,      \* which of FaultKinds happen
          MaxCuts,     \* bound: power cuts
          MaxPosts     \* bound: uploads begun

FaultKinds == {"storage",   \* the staging file system or the update slot refuses
               "memory",    \* a buffer or a task cannot be had, or the task throws
               "late",      \* it throws after the boot slot was switched
               "badImage"}  \* a signed image that does not come up

ASSUME VersionAssumption == Version \subseteq Nat /\ 0 \in Version
ASSUME ChunksAssumption == Chunks \in Nat \ {0}
ASSUME BoundsAssumption == MaxCuts \in Nat /\ MaxPosts \in Nat /\ Impatient \in BOOLEAN
ASSUME NoOneAssumption == NoOne \notin Client
ASSUME NoVersionAssumption == NoVersion \notin Version /\ NoVersion \notin {"A", "B"}
ASSUME NoFileAssumption == NoFile \notin [bundle : [ver : Version, boots : BOOLEAN, kind : {"good", "unsigned", "tampered"}],
                                          chunks : 0 .. Chunks, mixed : BOOLEAN]

Bundle == [ver : Version, boots : BOOLEAN, kind : {"good", "unsigned", "tampered"}]
Slot   == {"A", "B"}
other(s) == IF s = "A" THEN "B" ELSE "A"

Stage == {"idle", "receiving", "staged", "installing", "installed", "failed"}

VARIABLES
    stage,      \* sProgress.stage
    received,   \* sProgress.received, in chunks; the installer counts here too
    owner,      \* sOwner
    quiet,      \* nothing came from the owner for STALL_MS
    file,       \* the staging file
    client,     \* the requests: is a body arriving, what is in it, how far it got
    web,        \* the request whose first chunk the web task is still in
    task,       \* the install tasks
    slot,       \* what each app slot holds
    slotState,  \* otadata's word on each slot
    boot,       \* the slot otadata points at
    running,    \* the slot this boot came up in
    floor, stagedVer, stagedSlot,   \* NVS "ota": ota_floor, ota_staged, ota_slot
    node,       \* where setup() is, or up, or off
    armed,      \* Bootloader::pending()
    earned,     \* history: the last install that was staged to the end
    cuts, posts

upload == <<stage, received, owner, quiet, file, client, web>>
flash  == <<slot, slotState, boot, running>>
nvs    == <<floor, stagedVer, stagedSlot>>
bounds == <<cuts, posts>>
vars   == <<upload, task, flash, nvs, node, armed, earned, bounds>>

Idle == [pc |-> "idle", bundle |-> NoFile, tainted |-> FALSE]
Installing == \E t \in Task : task[t].pc # "idle"
Listening == node \notin {"off", "setup"}     \* sFloor is set
-----------------------------------------------------------------------------
(* settle(): what a boot concludes about the floor, from what was staged    *)
(* and whether that is what came up.                                        *)
settle(stored, have, ver, isRunning) ==
    [floor |-> IF have /\ isRunning /\ ver > stored THEN ver ELSE stored, clear |-> have]

(* FirmwareManifest::check(), as far as its verdict: a chain that verifies, *)
(* for this node, not below the floor.                                      *)
check(b) == b.kind # "unsigned" /\ b.ver >= floor

(* uploadRefusal(): a stage in which no upload may begin, or nowhere to put *)
(* one.                                                                     *)
uploadRefused(ready, s) == ~ready \/ s \in {"receiving", "staged", "installing", "installed"}

(* progress().stage calls a transfer that went quiet failed, and by the     *)
(* time receiveStart() reads it, it has said so.                            *)
progressStage == IF stage = "receiving" /\ quiet THEN "failed" ELSE stage

stageSeen == IF owner # NoOne THEN "failed" ELSE stage

-----------------------------------------------------------------------------
(* The web task.                                                            *)

(* Replacing or removing the file under an install that is reading it.      *)
touched == [t \in Task |-> [task[t] EXCEPT !.tainted = @ \/ task[t].pc \in {"check", "begin", "write"}]]

posted(c, b) == client' = [client EXCEPT ![c] = [posting |-> TRUE, bundle |-> b, sent |-> 0]]

turnedAway(c, b) == client' = [client EXCEPT ![c] = [posting |-> Chunks > 1, bundle |-> b, sent |-> 1]]

refusedQuietly(c, b) ==      \* 503 while a restart is armed, or somebody else's transfer is live
    /\ armed \/ (owner # NoOne /\ ~quiet)
    /\ turnedAway(c, b)
    /\ UNCHANGED <<stage, received, owner, quiet, file, web, task>>

(* A refusal - the uploadRefusal() of the stage, of storage that is not     *)
(* there, of a size - or a staging file that would not open or memory that  *)
(* was not there: all end in Failed, a transfer that went quiet abandoned.  *)
refusedAloud(c, b) ==
    /\ ~armed /\ (owner = NoOne \/ quiet)
    /\ \/ IF owner = NoOne THEN UNCHANGED <<file, task>> ELSE file' = NoFile /\ task' = touched
       \/ /\ ~uploadRefused(TRUE, stageSeen)
          /\ Faults \cap {"storage", "memory"} # {}
          /\ file' = NoFile /\ task' = touched
    /\ owner' = NoOne /\ stage' = "failed"
    /\ turnedAway(c, b)
    /\ UNCHANGED <<received, quiet, web>>

\* Mutant: whoever comes last has the transfer.
AcceptedAnyway(c, b) ==
    /\ ~armed /\ ~uploadRefused(TRUE, stageSeen)
    /\ file' = [bundle |-> b, chunks |-> 0, mixed |-> FALSE]
    /\ task' = touched
    /\ owner' = c /\ quiet' = FALSE /\ received' = 0 /\ stage' = "receiving"
    /\ posted(c, b) /\ web' = c

accepted(c, b) ==
    /\ ~armed /\ (owner = NoOne \/ quiet)
    /\ ~uploadRefused(TRUE, stageSeen)
    /\ file' = [bundle |-> b, chunks |-> 0, mixed |-> FALSE]
    /\ task' = touched
    /\ owner' = c /\ quiet' = FALSE /\ received' = 0 /\ stage' = "receiving"
    /\ posted(c, b) /\ web' = c

(* receiveStart(), reached with the first chunk of a body.                  *)
Post(c, b) ==
    /\ Listening /\ web = NoOne /\ ~client[c].posting /\ posts < MaxPosts
    /\ Installing => Impatient
    /\ refusedQuietly(c, b) \/ refusedAloud(c, b) \/ accepted(c, b)
    /\ posts' = posts + 1
    /\ UNCHANGED <<flash, nvs, node, armed, earned, cuts>>

dropFile(what) ==       \* abandon(true), and the reason said
    /\ file' = NoFile /\ owner' = NoOne /\ stage' = what
    /\ task' = touched

(* receiveEnd(): the token is put down and an install task started.         *)
handOver ==
    /\ owner' = NoOne
    /\ \E t \in Task : /\ task[t].pc = "idle"
                       /\ task' = [task EXCEPT ![t] = [Idle EXCEPT !.pc = "open"]]
    /\ stage' = "staged"

appended(b) ==
    IF file = NoFile THEN NoFile
    ELSE [file EXCEPT !.chunks = @ + 1, !.mixed = @ \/ file.bundle # b]

taken(c, i) ==
    /\ quiet' = FALSE /\ received' = received + 1
    /\ \/ /\ i + 1 < Chunks
          /\ file' = appended(client[c].bundle)
          /\ UNCHANGED <<owner, stage, task>>
       \/ /\ i + 1 = Chunks
          /\ file' = appended(client[c].bundle)
          /\ handOver
       \/ /\ i + 1 = Chunks /\ Faults \cap {"storage", "memory"} # {}
          /\ dropFile("failed")

(* receiveChunk(): a chunk that carries the owner's token and follows the   *)
(* last one is written; anything else the owner sends ends the transfer,    *)
(* and what anybody else sends is dropped.                                  *)
chunk(c, i) ==
    \/ /\ owner # c
       /\ UNCHANGED <<file, owner, stage, received, quiet, task>>
    \/ /\ owner = c
       /\ i # received \/ Faults \cap {"storage"} # {}
       /\ dropFile("failed")
       /\ quiet' = FALSE /\ UNCHANGED received
    \/ /\ owner = c /\ i = received
       /\ taken(c, i)

Send(c) ==
    /\ Listening /\ web \in {NoOne, c}
    /\ client[c].posting
    /\ chunk(c, client[c].sent)
    /\ web' = NoOne
    /\ client' = [client EXCEPT ![c] = [posting |-> @.sent + 1 < Chunks, bundle |-> @.bundle,
                                         sent |-> @.sent + 1]]
    /\ UNCHANGED <<flash, nvs, node, armed, earned, bounds>>

(* The client goes; nothing tells the node.  Its request object may be the  *)
(* next request's.                                                          *)
Leave(c) ==
    /\ client[c].posting /\ web = NoOne
    /\ client' = [client EXCEPT ![c].posting = FALSE]
    /\ UNCHANGED <<stage, received, owner, quiet, file, web, task, flash, nvs, node, armed, earned,
                   bounds>>

Stall ==
    /\ owner # NoOne /\ web = NoOne /\ ~quiet
    /\ quiet' = TRUE
    /\ UNCHANGED <<stage, received, owner, file, client, web, task, flash, nvs, node, armed, earned,
                   bounds>>

-----------------------------------------------------------------------------
(* The install task: runInstall() and Installer::install().                 *)

advance(t, to) == task' = [task EXCEPT ![t].pc = to]
gaveUp(t)      == task' = [task EXCEPT ![t] = Idle] /\ stage' = "failed"

Open(t) ==
    /\ task[t].pc = "open"
    /\ \/ /\ file # NoFile
          /\ task' = [task EXCEPT ![t] =
               [pc |-> "check", tainted |-> FALSE,
                bundle |-> IF file.mixed THEN [file.bundle EXCEPT !.kind = "tampered"]
                           ELSE file.bundle]]
          /\ stage' = "installing"
       \/ /\ file = NoFile \/ "storage" \in Faults
          /\ gaveUp(t)
    /\ UNCHANGED <<received, owner, quiet, file, client, web, flash, nvs, node, armed, earned, bounds>>

Check(t) ==
    /\ task[t].pc = "check"
    /\ IF check(task[t].bundle) THEN advance(t, "begin") /\ UNCHANGED stage ELSE gaveUp(t)
    /\ UNCHANGED <<received, owner, quiet, file, client, web, flash, nvs, node, armed, earned, bounds>>

(* Target::begin() erases the far slot.  The mutant writes the near one.    *)
BeginHere(t) ==
    /\ task[t].pc = "begin"
    /\ slot' = [slot EXCEPT ![running] = NoImage]
    /\ received' = 0 /\ advance(t, "write")
    /\ earned' = NoVersion
    /\ UNCHANGED <<stage, owner, quiet, file, client, web, slotState, boot, running, nvs, node, armed,
                   bounds>>

Begin(t) ==
    /\ task[t].pc = "begin"
    /\ \/ /\ slot' = [slot EXCEPT ![other(running)] = NoImage]
          /\ received' = 0 /\ advance(t, "write") /\ UNCHANGED stage
       \/ /\ "storage" \in Faults
          /\ \E left \in {NoImage, slot[other(running)]} :
                slot' = [slot EXCEPT ![other(running)] = left]
          /\ gaveUp(t) /\ UNCHANGED received
    /\ earned' = NoVersion
    /\ UNCHANGED <<owner, quiet, file, client, web, slotState, boot, running, nvs, node, armed, bounds>>

(* The image is written and esp_ota_end() looks at it.  A file replaced     *)
(* under the reader, or a second writer in the slot, can leave anything.    *)
clean(t) == ~task[t].tainted /\ \A u \in Task \ {t} : task[u].pc # "write"

Write(t) ==
    /\ task[t].pc = "write"
    /\ \/ /\ slot' = [slot EXCEPT ![other(running)] = task[t].bundle]
          /\ received' = Chunks /\ advance(t, "verify") /\ UNCHANGED stage
       \/ /\ "storage" \in Faults \/ ~clean(t)
          /\ slot' = [slot EXCEPT ![other(running)] = Garbage]
          /\ \/ gaveUp(t) /\ UNCHANGED received
             \/ received' = Chunks /\ advance(t, "verify") /\ UNCHANGED stage
    /\ UNCHANGED <<owner, quiet, file, client, web, slotState, boot, running, nvs, node, armed, earned,
                   bounds>>

(* The hash of what is in flash against the manifest's.                     *)
Verify(t) ==
    /\ task[t].pc = "verify"
    /\ received' = Chunks
    /\ \/ /\ slot[other(running)] = task[t].bundle /\ task[t].bundle.kind = "good"
          /\ advance(t, "switch") /\ stage' = "installing"
       \/ /\ \/ slot[other(running)] # task[t].bundle
             \/ task[t].bundle.kind # "good"
             \/ "storage" \in Faults
          /\ gaveUp(t)
    /\ UNCHANGED <<owner, quiet, file, client, web, flash, nvs, node, armed, earned, bounds>>

Switch(t) ==
    /\ task[t].pc = "switch"
    /\ \/ /\ slot[other(running)] \in Bundle
          /\ boot' = other(running)
          /\ slotState' = [slotState EXCEPT ![other(running)] = "new"]
          /\ advance(t, "stageVer") /\ UNCHANGED stage
       \/ /\ slot[other(running)] \notin Bundle \/ "storage" \in Faults
          /\ gaveUp(t)
          /\ UNCHANGED <<boot, slotState>>
    /\ UNCHANGED <<received, owner, quiet, file, client, web, slot, running, nvs, node, armed, earned,
                   bounds>>

(* Floor::stage(), one key at a time.                                       *)
StageVer(t) ==
    /\ task[t].pc = "stageVer"
    /\ stagedVer' = task[t].bundle.ver
    /\ advance(t, "stageSlot")
    /\ UNCHANGED <<upload, flash, floor, stagedSlot, node, armed, earned, bounds>>

StageSlot(t) ==
    /\ task[t].pc = "stageSlot"
    /\ stagedSlot' = other(running)
    /\ earned' = [ver |-> task[t].bundle.ver, slot |-> other(running)]
    /\ advance(t, "say")
    /\ UNCHANGED <<upload, flash, floor, stagedVer, node, armed, bounds>>

Say(t) ==
    /\ task[t].pc = "say"
    /\ stage' = "installed"
    /\ advance(t, "finish")
    /\ UNCHANGED <<received, owner, quiet, file, client, web, flash, nvs, node, armed, earned, bounds>>

Finish(t) ==
    /\ task[t].pc = "finish"
    /\ file' = NoFile
    /\ armed' = TRUE
    /\ task' = [touched EXCEPT ![t] = Idle]
    /\ UNCHANGED <<stage, received, owner, quiet, client, web, flash, nvs, node, earned, bounds>>

switched(t) == task[t].pc \in {"stageVer", "stageSlot", "say", "finish"}

(* Diag::guard() catches what the install throws.                           *)
Throw(t) ==
    /\ "memory" \in Faults /\ (switched(t) => "late" \in Faults)
    /\ task[t].pc # "idle"
    /\ gaveUp(t)
    /\ UNCHANGED <<received, owner, quiet, file, client, web, flash, nvs, node, armed, earned, bounds>>

-----------------------------------------------------------------------------
(* Restarting and coming up.                                                *)

forgotten ==
    /\ node' = "off" /\ armed' = FALSE
    /\ stage' = "idle" /\ received' = 0 /\ owner' = NoOne /\ quiet' = FALSE /\ web' = NoOne
    /\ client' = [c \in Client |-> [posting |-> FALSE, bundle |-> client[c].bundle, sent |-> 0]]
    /\ task' = [t \in Task |-> Idle]

Restart ==
    /\ armed /\ node = "up"
    /\ forgotten
    /\ UNCHANGED <<file, flash, nvs, earned, bounds>>

PowerCut ==
    /\ node # "off" /\ cuts < MaxCuts
    /\ cuts' = cuts + 1
    /\ forgotten
    /\ UNCHANGED <<file, flash, nvs, earned, posts>>

(* The second-stage bootloader: an image never tried is tried once, one     *)
(* tried and not confirmed is put aside, and one that is not whole is       *)
(* passed over.                                                             *)
Boot ==
    /\ node = "off"
    /\ LET usable == slot[boot] \in Bundle /\ slotState[boot] \in {"new", "valid"}
           s == IF usable THEN boot ELSE other(boot)
       IN /\ boot' = s /\ running' = s
          /\ slotState' =
               [x \in Slot |-> IF x = boot /\ ~usable THEN "aborted"
                               ELSE IF x = s /\ slotState[x] = "new" THEN "pending"
                               ELSE slotState[x]]
    /\ node' = "setup"
    /\ UNCHANGED <<upload, task, slot, nvs, armed, earned, bounds>>

(* An image that does not come up panics, and the bootloader is asked again. *)
Crash ==
    /\ node = "setup" /\ ~slot[running].boots
    /\ forgotten
    /\ UNCHANGED <<file, flash, nvs, earned, bounds>>

(* Ota::begin(): the floor first, and with it the door for uploads; then    *)
(* whatever a previous run left staged goes.                                *)
BeginFloor ==
    /\ node = "setup" /\ slot[running].boots
    /\ node' = "floor"
    /\ UNCHANGED <<upload, task, flash, nvs, armed, earned, bounds>>

BeginClear ==
    /\ node = "floor"
    /\ file' = NoFile /\ node' = "confirm"
    /\ UNCHANGED <<stage, received, owner, quiet, client, web, task, flash, nvs, armed, earned, bounds>>

(* confirmBoot(): the image is good, then Floor::confirm() one key at a     *)
(* time.  An upload takes longer than this, so an install waits for it.     *)
MarkValid ==
    /\ node = "confirm"
    /\ slotState' = [slotState EXCEPT ![running] = "valid"]
    /\ node' = "settle"
    /\ UNCHANGED <<upload, task, slot, boot, running, nvs, armed, earned, bounds>>

settled == settle(floor, stagedVer # NoVersion, stagedVer, stagedSlot = running)

Settle ==
    /\ node = "settle"
    /\ floor' = settled.floor
    /\ node' = IF settled.clear THEN "dropVer" ELSE "up"
    /\ UNCHANGED <<upload, task, flash, stagedVer, stagedSlot, armed, earned, bounds>>

DropVer ==
    /\ node = "dropVer"
    /\ stagedVer' = NoVersion
    /\ node' = "dropSlot"
    /\ UNCHANGED <<upload, task, flash, floor, stagedSlot, armed, earned, bounds>>

DropSlot ==
    /\ node = "dropSlot"
    /\ stagedSlot' = NoVersion
    /\ node' = "up"
    /\ UNCHANGED <<upload, task, flash, floor, stagedVer, armed, earned, bounds>>

-----------------------------------------------------------------------------
Offered == {b \in Bundle : b.boots \/ (b.kind = "good" /\ "badImage" \in Faults)}

Install(t) ==
    \/ Open(t) \/ Check(t) \/ Begin(t) \/ Write(t) \/ Verify(t) \/ Switch(t)
    \/ StageVer(t) \/ StageSlot(t) \/ Say(t) \/ Finish(t)

Setup == Boot \/ Crash \/ BeginFloor \/ BeginClear \/ MarkValid \/ Settle \/ DropVer \/ DropSlot

Next ==
    \/ \E c \in Client : (\E b \in Offered : Post(c, b)) \/ Send(c) \/ Leave(c)
    \/ Stall
    \/ node = "up" /\ \E t \in Task : Install(t) \/ Throw(t)
    \/ Restart \/ PowerCut \/ Setup

Factory == [ver |-> 0, boots |-> TRUE, kind |-> "good"]

Init ==
    /\ stage = "idle" /\ received = 0 /\ owner = NoOne /\ quiet = FALSE
    /\ file = NoFile /\ web = NoOne
    /\ client = [c \in Client |-> [posting |-> FALSE, bundle |-> Factory, sent |-> 0]]
    /\ task = [t \in Task |-> Idle]
    /\ slot = [s \in Slot |-> IF s = "A" THEN Factory ELSE NoImage]
    /\ slotState = [s \in Slot |-> "valid"]
    /\ boot = "A" /\ running = "A"
    /\ floor = 0 /\ stagedVer = NoVersion /\ stagedSlot = NoVersion
    /\ node = "off" /\ armed = FALSE
    /\ earned = NoVersion
    /\ cuts = 0 /\ posts = 0

Spec == Init /\ [][Next]_vars

(* The tasks run, a callback of the web task returns, and time passes for a *)
(* transfer nobody feeds.  No client owes the node anything.                *)
FairSpec ==
    /\ Spec
    /\ WF_vars(Stall) /\ WF_vars(Setup) /\ WF_vars(Restart)
    /\ WF_vars(\E c \in Client : web = c /\ Send(c))
    /\ \A t \in Task : WF_vars(node = "up" /\ Install(t))
-----------------------------------------------------------------------------
(* Properties.                                                              *)

(* Every variable has its type.                                             *)
TypeOK ==
    /\ stage \in Stage /\ received \in 0 .. Chunks
    /\ owner \in Client \cup {NoOne} /\ web \in Client \cup {NoOne}
    /\ quiet \in BOOLEAN /\ armed \in BOOLEAN
    /\ client \in [Client -> [posting : BOOLEAN, bundle : Bundle, sent : 0 .. Chunks]]
    /\ file \in [bundle : Bundle, chunks : 0 .. Chunks, mixed : BOOLEAN] \cup {NoFile}
    /\ task \in [Task -> [pc : {"idle", "open", "check", "begin", "write", "verify", "switch",
                                "stageVer", "stageSlot", "say", "finish"},
                          bundle : Bundle \cup {NoFile}, tainted : BOOLEAN]]
    /\ slot \in [Slot -> Bundle \cup {NoImage, Garbage}]
    /\ slotState \in [Slot -> {"new", "pending", "valid", "aborted"}]
    /\ boot \in Slot /\ running \in Slot
    /\ floor \in Version /\ stagedVer \in Version \cup {NoVersion}
    /\ stagedSlot \in Slot \cup {NoVersion}
    /\ node \in {"off", "setup", "floor", "confirm", "settle", "dropVer", "dropSlot", "up"}
    /\ earned \in [ver : Version, slot : Slot] \cup {NoVersion}
    /\ cuts \in Nat /\ posts \in Nat

comesUp(s) == slot[s] \in Bundle /\ slot[s].kind = "good" /\ slot[s].boots

(* Whatever is uploaded, refused, cut or rolled back, the node comes up     *)
(* again: the slot the bootloader ends at holds a verified image that runs. *)
NeverBricked ==
    \/ comesUp(boot) /\ slotState[boot] \in {"new", "valid"}
    \/ comesUp(running) /\ node \in {"floor", "confirm"}
    \/ comesUp(other(boot)) /\ slotState[other(boot)] = "valid"

(* Nothing runs that was not signed and hashed in flash first.              *)
OnlyVerifiedRuns == node # "off" => slot[running] \in Bundle /\ slot[running].kind = "good"

(* "a node ... sitting at a floor above the firmware it is running"         *)
(* (OtaFloor.h:34): the floor is only ever earned by an image that came up. *)
RunningNotBelowFloor == node = "up" => slot[running].ver >= floor

(* An update staged to the end and running has moved the floor, whatever    *)
(* was cut between the two.                                                 *)
EarnedIsCredited ==
    node = "up" /\ earned # NoVersion /\ earned.slot = running => floor >= earned.ver

(* "A refusal never touches a transfer already in flight - except one that  *)
(* has stopped arriving" (OtaUpdate.h): what another request does leaves    *)
(* the staging file, its owner, its count and its stage alone.              *)
InFlightKept ==
    [][owner # NoOne /\ ~quiet /\ (\E c \in Client \ {owner} : client'[c] # client[c])
          /\ node' = node
       => UNCHANGED <<file, owner, received, stage>>]_vars

(* What is handed to the installer is a whole body: no chunk of it is       *)
(* missing, whichever requests had the same token and however they ended.   *)
StagedIsWhole == stage = "staged" /\ file # NoFile => file.chunks = Chunks

(* Of the node that takes an update: it comes up, on what was verified.     *)
BootsVerified == NeverBricked /\ OnlyVerifiedRuns /\ RunningNotBelowFloor

(* Of those who upload: what was earned is credited, what is staged is      *)
(* whole, and nobody disturbs somebody else's transfer.                     *)
UploadKept == [](EarnedIsCredited /\ StagedIsWhole) /\ InFlightKept

(* "Letting a second upload in here deletes that file out from under the    *)
(* task about to read it" (OtaUpdatePlan.h:75): no request does.            *)
StagedBundleKept ==
    [][(\E t \in Task : task[t].pc \in {"open", "check", "begin", "write"}) /\ client' # client
          /\ node' = node
       => file' = file]_vars

(* "A bundle left by a transfer that died, or by a node that lost power"    *)
(* (OtaUpdate.cpp:246): begin() clears no other.                            *)
ClearsOnlyLeftovers == [][node = "floor" /\ node' = "confirm" => owner = NoOne]_vars

(* "the install was abandoned; the node is unchanged" (OtaUpdate.cpp:219):  *)
(* an install that failed, and nothing uploaded since, left the boot slot   *)
(* where it was.                                                            *)
FailedIsUnchanged == stage = "failed" /\ node = "up" => boot = running

(* An update in progress is not in progress for ever: whichever client      *)
(* goes, whatever fails, the portal ends at a failure it can be retried     *)
(* after or at a restart.                                                   *)
Concluded == progressStage \in {"idle", "failed"}

UploadConcludes == ~Concluded ~> Concluded
=============================================================================
