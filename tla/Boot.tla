---------------------------------- MODULE Boot ----------------------------------
(***************************************************************************)
(* Start-up and what one run leaves for the next: the order of setup() and *)
(* loop() in src/main.cpp, the counted restarts of a node whose Reticulum  *)
(* task could not be created, the record in RTC memory (src/sys/Diag.cpp,  *)
(* BootRecord.h) and the task watchdog (src/sys/Watchdog.cpp).             *)
(*                                                                         *)
(* A run ends in a deliberate restart, in a fault that keeps RTC memory,   *)
(* or in a cut that does not; each may come at any point of it.            *)
(***************************************************************************)
EXTENDS Integers, Sequences

CONSTANTS Retries,    \* REQUIRED_TASK_RETRIES
          Supervised, \* tasks that subscribe to the watchdog, "rns" and "loop" among them
          MaxFails,   \* bound: allocation failures in one run
          Faulty,     \* NVS may refuse to open or to write
          Atomic      \* nothing comes between the load and the store of mirrorFaults()

VARIABLES
    at,         \* the step of setup() that is next; past the last of them, loop()
    rtc,        \* sRtc, noise once the rail dropped
    prev,       \* sBoot: what this boot says of the run before it
    failures,   \* sAllocFailures
    mirror,     \* of each task inside mirrorFaults(), what it loaded; -1 outside
    tries,      \* "rns" in the namespace "bootfault", on flash
    scheduled,  \* restarts asked for
    trial,      \* the image: "settled", "new", "pending", "rolledBack"
    task,       \* of each supervised task: "none", "runs", "long", "hung", "ended"
    watched,    \* tasks subscribed to the watchdog
    queue,      \* the transport's event queue exists
    left,       \* history: what the last run that claimed the record went through
    inRow       \* history: restarts for the missing task since it last came up

record == <<rtc, prev, failures, mirror>>
fault  == <<tries, scheduled, inRow>>
tasks  == <<task, watched>>
vars   == <<at, record, fault, trial, tasks, queue, left>>

(* The order of setup().                                                    *)
Setup ==
    <<"board", "record", "watchdog", "settings", "store", "web", "console", "radio",
      "transport", "server", "tasks", "required", "confirm", "watch">>

looping  == at > Len(Setup)
step(s)  == ~looping /\ Setup[at] = s
past(s)  == \E i \in 1 .. at - 1 : i <= Len(Setup) /\ Setup[i] = s
advance  == at' = at + 1

noise == [layout |-> "noise", fails |-> 0, marked |-> FALSE]
fresh == [layout |-> "RTM3", fails |-> 0, marked |-> FALSE]
nothing == [known |-> FALSE, faultsKnown |-> FALSE, fails |-> 0, marked |-> FALSE]

-----------------------------------------------------------------------------
(* setup(), in its order.                                                   *)

(* Steps that begin a service and change nothing followed here.             *)
Begin ==
    /\ \E s \in {"board", "watchdog", "settings", "store", "web", "console", "radio", "server"} : step(s)
    /\ advance /\ UNCHANGED <<record, fault, trial, tasks, queue, left>>

(* readPrevious(): only an RTM3 record has counts, an RTM2 one has the run  *)
(* length and the marks, and memory that lost power has neither.            *)
previous(r) ==
    IF r.layout = "noise" THEN nothing
    ELSE [known |-> TRUE, faultsKnown |-> r.layout = "RTM3",
          fails |-> IF r.layout = "RTM3" THEN r.fails ELSE 0, marked |-> r.marked]

(* claimRun(), in one call: taken, then claimed.                            *)
Claim ==
    /\ step("record") /\ advance
    /\ prev' = previous(rtc) /\ rtc' = fresh /\ failures' = 0
    /\ left' = [known |-> TRUE, faultsKnown |-> TRUE, fails |-> 0, marked |-> FALSE]
    /\ UNCHANGED <<mirror, fault, trial, tasks, queue>>

Transport ==
    /\ step("transport") /\ advance /\ queue' = TRUE
    /\ UNCHANGED <<record, fault, trial, tasks, left>>

(* The tasks that are subscribed: each that could be created, and of those  *)
(* whichever could subscribe.                                               *)
StartTasks ==
    /\ step("tasks") /\ advance
    /\ \E S \in SUBSET (Supervised \ {"loop"}), W \in SUBSET (Supervised \ {"loop"}) :
           /\ task' = [t \in Supervised |-> IF t \in S THEN "runs" ELSE "none"]
           /\ watched' = S \cap W
    /\ UNCHANGED <<record, fault, trial, queue, left>>

(* The restart is offered once the count is known to be written.            *)
Required ==
    /\ step("required") /\ advance
    /\ \E opens, writes \in {TRUE, ~Faulty} :
           IF task["rns"] = "none"
           THEN LET again == opens /\ tries < Retries /\ writes
                IN /\ tries' = IF again THEN tries + 1 ELSE tries
                   /\ scheduled' = IF again THEN scheduled \cup {"fault"} ELSE scheduled
           ELSE /\ tries' = IF opens /\ tries # 0 /\ writes THEN 0 ELSE tries
                /\ UNCHANGED scheduled
    /\ inRow' = IF task["rns"] = "none" THEN inRow ELSE 0
    /\ UNCHANGED <<record, trial, tasks, queue, left>>

Confirm ==
    /\ step("confirm") /\ advance
    /\ trial' = IF trial = "pending" THEN "settled" ELSE trial
    /\ UNCHANGED <<record, fault, tasks, queue, left>>

Watch ==
    /\ step("watch") /\ advance
    /\ task' = [task EXCEPT !["loop"] = "runs"]
    /\ watched' \in {watched, watched \cup {"loop"}}
    /\ UNCHANGED <<record, fault, trial, queue, left>>

-----------------------------------------------------------------------------
(* Memory runs out: onAllocationFailed() counts and mirrors before it       *)
(* throws; tick() mirrors on every pass of loop().  The load and the store  *)
(* are two steps, and two tasks may be between them.                        *)

mirrors(t, count) ==
    IF Atomic THEN mirror' = mirror /\ rtc' = [rtc EXCEPT !.fails = count]
    ELSE mirror' = [mirror EXCEPT ![t] = count] /\ rtc' = rtc

Fail(t) ==
    /\ past("record") /\ mirror[t] = -1 /\ failures < MaxFails
    /\ failures' = failures + 1 /\ mirrors(t, failures')
    /\ left' = [left EXCEPT !.fails = @ + 1]
    /\ UNCHANGED <<at, prev, fault, trial, tasks, queue>>

Tick ==
    /\ looping /\ task["loop"] = "runs" /\ mirror["loop"] = -1 /\ mirrors("loop", failures)
    /\ UNCHANGED <<at, prev, failures, fault, trial, tasks, queue, left>>

Store(t) ==
    /\ mirror[t] # -1
    /\ rtc' = [rtc EXCEPT !.fails = mirror[t]] /\ mirror' = [mirror EXCEPT ![t] = -1]
    /\ UNCHANGED <<at, prev, failures, fault, trial, tasks, queue, left>>

-----------------------------------------------------------------------------
(* The watchdog.                                                            *)

(* Work longer than the timeout: Watchdog::Pause takes the task off the     *)
(* list, and its destructor puts it back however the work ends.             *)
Long(t) ==
    /\ task[t] = "runs" /\ t # "loop"
    /\ task' = [task EXCEPT ![t] = "long"] /\ watched' = watched \ {t}
    /\ UNCHANGED <<at, record, fault, trial, queue, left>>

Resume(t) ==
    /\ task[t] = "long"
    /\ task' = [task EXCEPT ![t] = "runs"] /\ watched' \in {watched, watched \cup {t}}
    /\ UNCHANGED <<at, record, fault, trial, queue, left>>

(* A task that ends itself leaves the list first.                           *)
Ends(t) ==
    /\ task[t] = "runs" /\ t \notin {"loop", "rns"}
    /\ task' = [task EXCEPT ![t] = "ended"] /\ watched' = watched \ {t}
    /\ UNCHANGED <<at, record, fault, trial, queue, left>>

Hang(t) ==
    /\ task[t] \in {"runs", "long"} /\ task' = [task EXCEPT ![t] = "hung"]
    /\ UNCHANGED <<at, record, fault, trial, watched, queue, left>>

(* Nobody feeds for a task that hangs, nor for one that is no more.         *)
starves(t) == t \in watched /\ task[t] \in {"hung", "ended", "none"}

-----------------------------------------------------------------------------
(* How a run ends.                                                          *)

(* The bootloader starts a new image once, and puts the old one back if it  *)
(* finds it started and not confirmed.                                      *)
bootloader == [settled |-> "settled", new |-> "pending", pending |-> "rolledBack",
               rolledBack |-> "rolledBack"]

Reset ==
    /\ at' = 1 /\ mirror' = [t \in Supervised |-> -1] /\ failures' = 0 /\ prev' = nothing
    /\ scheduled' = {} /\ trial' = bootloader[trial]
    /\ task' = [t \in Supervised |-> "none"] /\ watched' = {} /\ queue' = FALSE

(* A request from the web, a console or a message.                          *)
Ask ==
    /\ past("web") /\ scheduled' = scheduled \cup {"asked"}
    /\ UNCHANGED <<at, record, tries, inRow, trial, tasks, queue, left>>

(* Bootloader::tick(), which only loop() calls.  The mutant restarts from   *)
(* wherever it was asked.                                                   *)
RestartAtOnce ==
    /\ scheduled # {}
    /\ Reset /\ rtc' = [rtc EXCEPT !.marked = TRUE]
    /\ left' = [left EXCEPT !.marked = TRUE]
    /\ inRow' = IF "fault" \in scheduled THEN inRow + 1 ELSE inRow
    /\ UNCHANGED tries

Restart ==
    /\ looping /\ task["loop"] = "runs" /\ scheduled # {}
    /\ Reset /\ rtc' = [rtc EXCEPT !.marked = TRUE]
    /\ left' = [left EXCEPT !.marked = TRUE]
    /\ inRow' = IF "fault" \in scheduled THEN inRow + 1 ELSE inRow
    /\ UNCHANGED tries

Panic ==
    /\ Reset /\ UNCHANGED <<rtc, tries, inRow, left>>

(* An exception nobody caught: onTerminate() mirrors once more.             *)
Abort ==
    /\ past("record") /\ rtc' = [rtc EXCEPT !.fails = failures]
    /\ Reset /\ UNCHANGED <<tries, inRow, left>>

Bite == (\E t \in Supervised : starves(t)) /\ Panic

Cut ==
    /\ Reset /\ rtc' = noise /\ left' = nothing
    /\ UNCHANGED <<tries, inRow>>

-----------------------------------------------------------------------------
OnGoing == Begin \/ Claim \/ Transport \/ StartTasks \/ Required \/ Confirm \/ Watch
Memory  == Tick \/ \E t \in Supervised : Fail(t) \/ Store(t)
Work    == \E t \in Supervised : Long(t) \/ Resume(t) \/ Ends(t) \/ Hang(t)
Next    == OnGoing \/ Memory \/ Work \/ Ask \/ Restart \/ Panic \/ Abort \/ Bite \/ Cut

(* A node that was just switched on or updated: its memory is noise, or an  *)
(* older firmware's record, whose last bytes are whatever they are.         *)
Init ==
    /\ at = 1 /\ prev = nothing /\ failures = 0 /\ mirror = [t \in Supervised |-> -1]
    /\ rtc \in {noise} \cup [layout : {"RTM2"}, fails : {MaxFails}, marked : {FALSE}]
    /\ tries = 0 /\ scheduled = {} /\ inRow = 0 /\ trial \in {"settled", "new"}
    /\ task = [t \in Supervised |-> "none"] /\ watched = {} /\ queue = FALSE
    /\ left = [nothing EXCEPT !.known = rtc # noise]

Spec == Init /\ [][Next]_vars
-----------------------------------------------------------------------------
(* Properties.                                                              *)

(* Every variable has its type.                                             *)
TypeOK ==
    /\ at \in 1 .. Len(Setup) + 1 /\ failures \in 0 .. MaxFails
    /\ rtc \in [layout : {"noise", "RTM2", "RTM3"}, fails : 0 .. MaxFails, marked : BOOLEAN]
    /\ {prev, left} \subseteq [known : BOOLEAN, faultsKnown : BOOLEAN, fails : 0 .. MaxFails,
                               marked : BOOLEAN]
    /\ mirror \in [Supervised -> -1 .. MaxFails] /\ tries \in 0 .. Retries
    /\ scheduled \subseteq {"fault", "asked"} /\ trial \in DOMAIN bootloader
    /\ task \in [Supervised -> {"none", "runs", "long", "hung", "ended"}]
    /\ watched \subseteq Supervised /\ queue \in BOOLEAN /\ inRow \in Nat

(* A board that can never fit the task is not restarted for ever, whatever  *)
(* flash refuses and whoever cuts the power when.                           *)
RestartsBounded == inRow <= Retries

(* What a boot says of the run before it is what that run left: nothing     *)
(* after a cut, no counts after a firmware that kept none, and its own      *)
(* figures not overwritten by this run's.                                   *)
ToldTruly == [][Claim => prev' = left]_vars

(* A restart the node decides on, for whatever reason, never makes the      *)
(* bootloader take the image back that is running.                          *)
KeepsImage == [][Restart => trial # "pending"]_vars

(* The watchdog waits for nobody who is no more: a node is restarted by it  *)
(* only when a task really hangs.                                           *)
BitesOnlyHung == \A t \in watched : task[t] \notin {"ended", "none"}

(* Nobody's arrival is announced on a queue that is not there yet.          *)
QueueFirst == past("server") => queue

(* "a count going backwards past what the record already holds — cannot"    *)
(* (Diag.cpp:105).                                                          *)
NeverBackwards == [][at' # 1 /\ ~step("record") => rtc'.fails >= rtc.fails]_vars
=============================================================================
