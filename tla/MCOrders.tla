---------------------------- MODULE MCOrders ----------------------------
(* Who may tell the node what, and what it keeps of it, on small instances: *)
(* commands by message, the console's callers, settings, and the boot. A    *)
(* run explores one of them.                                                *)
EXTENDS Admin, TLC

CONSTANTS ann, bob, c1, c2
TwoSenders == {ann, bob}
SomeLists  == {{ann, bob}, {ann}, {}}
TwoTimes   == 1..2
OneEditor  == {"web"}

VARIABLE part   \* the component that runs

-----------------------------------------------------------------------------
\* Console
\* Two callers, one session for them and one for a message.
SomeLetters == {"s", "g", "w", "n"}
VARIABLES
  consoleOn, tcp, listening, client, late, io, line, dropping, authed, closing, failures,
  locked, at, nested, orders, hands, proved, guesses, typed, events
C == INSTANCE Console WITH
  Callers <- {c1, c2}, Slots <- 2, Reserved <- 1, MaxLine <- 2, MaxFailures <- 2,
  MaxBytes <- 5, MaxEvents <- 1, Letters <- SomeLetters, on <- consoleOn
consoleVars == <<
  consoleOn, tcp, listening, client, late, io, line, dropping, authed, closing, failures,
  locked, at, nested, orders, hands, proved, guesses, typed, events>>

-----------------------------------------------------------------------------
\* Settings
\* Requests that cross: a switch going one way while another goes the other,
\* in one request and from two tasks.
set(w, s, f)      == [by |-> w, kind |-> "set", parts |-> <<[secs |-> <<s>>, asks |-> f]>>]
onForm(fs)        == [by |-> "glass", kind |-> "form", parts |-> [i \in DOMAIN fs |-> [secs |-> <<fs[i][1]>>, asks |-> fs[i][2]]]]
file(a, b)        == [by |-> "web", kind |-> "import",
                      parts |-> <<[secs |-> <<"radio">>, asks |-> a], [secs |-> <<"links", "maintenance">>, asks |-> b]>>]
wipe              == [by |-> "web", kind |-> "reset", parts |-> <<[secs |-> <<>>, asks |-> <<>>]>>]

Ways == {set("web", "links", "ap" :> FALSE @@ "usb" :> TRUE), set("web", "links", "usb" :> FALSE),
         set("console", "links", "ap" :> TRUE), set("console", "maintenance", "console" :> FALSE),
         set("web", "maintenance", "console" :> TRUE @@ "web" :> FALSE @@ "admins" :> TRUE)}

Rest == {set("web", "transport", "mode" :> TRUE), set("console", "transport", "mode" :> FALSE),
         set("console", "radio", "freq" :> TRUE), set("web", "admin", "password" :> TRUE),
         onForm(<< <<"wifi", "shape" :> TRUE>>, <<"wifi", "power" :> TRUE>> >>),
         file("freq" :> TRUE @@ "region" :> TRUE, "ap" :> FALSE @@ "console" :> TRUE), wipe}

All == Ways \cup Rest

CONSTANTS Requests, MaxAsks, MaxLosses, FlashRefuses, Updated
VARIABLES
  ram, flash, running, pending, batch, jobs, asked, settingsCuts, kept, astray
K == INSTANCE Settings WITH
  MaxCuts <- MaxLosses, Faulty <- FlashRefuses, Overlap <- FALSE, Aged <- Updated,
  cuts <- settingsCuts
\* A request asks for fields of the sections it saves.
ASSUME RequestsAssumption ==
  \A r \in Requests :
    /\ r.by \in K!Tasks /\ r.kind \in {"set", "form", "import", "reset"} /\ Len(r.parts) \in Nat \ {0}
    /\ DOMAIN r.parts = 1..Len(r.parts)
    /\ \A i \in DOMAIN r.parts :
         LET p == r.parts[i]
         IN  /\ p.secs \in Seq(K!Sections) /\ (p.secs = <<>> => r.kind = "reset")
             /\ DOMAIN p.asks \subseteq UNION {K!Fields(p.secs[n]) : n \in DOMAIN p.secs}
settingsVars == <<
  ram, flash, running, pending, batch, jobs, asked, settingsCuts, kept, astray>>

-----------------------------------------------------------------------------
\* Boot
CONSTANTS Retries, Supervised, MaxFails
ASSUME BootAssumption == Retries \in Nat /\ MaxFails \in Nat /\ {"rns", "loop"} \subseteq Supervised
VARIABLES
  bootAt, rtc, prev, bootFailures, mirror, tries, scheduled, trial, task, watched,
  bootQueue, left, inRow
T == INSTANCE Boot WITH
  Faulty <- TRUE, Atomic <- TRUE, at <- bootAt, failures <- bootFailures, queue <- bootQueue
bootVars == <<
  bootAt, rtc, prev, bootFailures, mirror, tries, scheduled, trial, task, watched,
  bootQueue, left, inRow>>

-----------------------------------------------------------------------------
\* One component runs; the others stay where one of their runs begins.
AllInit ==
  /\ part \in {"admin", "console", "settings", "boot"}
  /\ Init /\ (part # "admin" => wanted = {} /\ ~on)
  /\ C!Init
  /\ K!Init
  /\ T!Init /\ (part # "boot" => rtc = T!noise /\ trial = "new")
AllNext ==
  \/ part = "admin" /\ Next /\ UNCHANGED <<part, consoleVars, settingsVars, bootVars>>
  \/ part = "console" /\ C!Next /\ UNCHANGED <<part, vars, settingsVars, bootVars>>
  \/ part = "settings" /\ K!Next /\ UNCHANGED <<part, vars, consoleVars, bootVars>>
  \/ part = "boot" /\ T!Next /\ UNCHANGED <<part, vars, consoleVars, settingsVars>>
AllSpec ==
  /\ AllInit /\ [][AllNext]_<<part, vars, consoleVars, settingsVars, bootVars>>
  /\ WF_consoleVars(part = "console" /\ C!Turn)
  /\ WF_consoleVars(part = "console" /\ (C!DropClient /\ C!MustGo))
  /\ WF_consoleVars(part = "console" /\ C!Deadline)

-----------------------------------------------------------------------------
\* Of Console: one hand types a line and has proved itself, guesses are counted,
\* a message finds a session to run in, and a caller that proves nothing goes.
OneProvedHand == [](C!OneProvedHand /\ C!GuessesBounded /\ C!MessageFindsASession)
  /\ (part = "console" => C!SilentCallerGoes)

\* Of Settings: nobody is locked out, what was said to be saved is, and the node
\* runs what its settings say.
SavedAndRun == K!Reachable /\ K!Kept /\ K!RunsWhatItSays

\* Of Boot: a node that cannot work is not restarted for ever, nor bitten by a
\* watchdog that waits for nobody; it is told truly how its last run ended, and
\* no restart of its own takes its image back.
BootsTrue == [](T!RestartsBounded /\ T!BitesOnlyHung /\ T!QueueFirst) /\ T!ToldTruly /\ T!KeepsImage
=============================================================================
