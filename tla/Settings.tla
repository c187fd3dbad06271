-------------------------------- MODULE Settings --------------------------------
(***************************************************************************)
(* The settings: the structs in RAM, their keys on flash                   *)
(* (src/sys/Settings.cpp), the one funnel the console and the screen use   *)
(* (src/sys/SettingsFields.cpp), the handlers of the web API               *)
(* (src/net/WifiManager.cpp), and the rule that a node keeps some way in   *)
(* (src/net/LocalLink.cpp, LocalLinkState.h).                              *)
(*                                                                         *)
(* Three tasks write: "web", "console" (the loop, which also restarts the  *)
(* node) and "glass" (the screen's form).  A save is RAM first, then one   *)
(* key after the other; the power may go, or a restart come, in between.   *)
(***************************************************************************)
EXTENDS Integers, FiniteSets, SequencesExt

CONSTANTS Requests,  \* what may be asked: [by, kind, parts]
          MaxAsks,   \* bound: requests in one behaviour
          MaxCuts,   \* bound: power cuts
          Faulty,    \* flash may refuse a key
          Overlap,   \* requests that concern each other may be served at once
          Aged       \* the flash was written by firmware with one Wi-Fi switch

Tasks    == {"web", "console", "glass"}
Sections == {"radio", "wifi", "transport", "links", "maintenance", "admin"}

(* The keys of a section, in the order they are written.  "l_wifi" is the   *)
(* switch of older firmware, kept beside the two that replaced it.          *)
keys(s) == CASE s = "radio"       -> <<"freq", "region">>
             [] s = "wifi"        -> <<"shape", "power">>
             [] s = "transport"   -> <<"mode", "move">>
             [] s = "links"       -> <<"l_wifi", "ap", "sta", "usb">>
             [] s = "maintenance" -> <<"console", "web", "admins">>
             [] s = "admin"       -> <<"password">>

Fields(s) == ToSet(keys(s)) \ {"l_wifi"}
AllFields == UNION {Fields(s) : s \in Sections}

(* Fields read where they are used; the others act once they are applied.   *)
ReadLive == {"usb", "console", "admins", "password", "region"}
Applied  == AllFields \ ReadLive

(* Fields that are only applied at a boot.                                  *)
RestartFields == {"shape", "mode", "move", "sta", "web"}

Default == [f \in AllFields |-> f \in {"ap", "console", "web"}]

VARIABLES
    ram,      \* the structs
    flash,    \* the keys that are there, with their values
    running,  \* what the node acts on, of the applied fields
    pending,  \* a restart is armed
    batch,    \* sBatch, sWantRestart: a form is being saved, and wants a restart
    jobs,     \* of each task, the request it serves
    asked, cuts, \* bounds
    kept,     \* history: of each field, the last value somebody was told is saved
    astray    \* history: a save was torn, refused by flash, or given up half way

store == <<ram, flash, running>>
past  == <<kept, astray>>
vars  == <<store, pending, batch, jobs, asked, cuts, past>>

\* A request is [by, kind, parts], each part the sections one save covers and the fields asked for.
Idle     == [at |-> "idle"]
busy(w)  == jobs[w].at # "idle"
now(w)   == jobs[w].req.parts[jobs[w].part]
secs(w)  == ToSet(now(w).secs)
asks(w)  == DOMAIN now(w).asks
form(w)  == jobs[w].req.kind = "form"
import(w) == jobs[w].req.kind = "import"

Over(f, g) == [x \in DOMAIN g |-> IF x \in DOMAIN f THEN f[x] ELSE g[x]]
section(v, s) == [f \in Fields(s) |-> v[f]]

(* Settings::load: what is there is taken, the rest keeps its default; the  *)
(* old switch seeds the two new ones, and a node from before the regions    *)
(* takes the one its frequency lies in.                                     *)
Load(k) ==
    LET base   == Over(k, Default)
        switch == IF "l_wifi" \in DOMAIN k THEN [x \in {"ap", "sta"} |-> k["l_wifi"]] ELSE Default
        region == IF "region" \in DOMAIN k THEN base["region"] ELSE base["freq"]
    IN  [f \in AllFields |-> IF f \in DOMAIN k THEN k[f]
                            ELSE CASE f = "region" -> region
                                   [] f \in {"ap", "sta"} -> switch[f]
                                   [] OTHER -> base[f]]

Put(k, f, v) == [x \in DOMAIN k \cup {f} |-> IF x = f THEN v ELSE k[x]]

(* wouldLockOut: with the console off, a link has to be on and the portal   *)
(* has to answer on it.                                                     *)
lockedOut(v) == ~v["console"] /\ ~((v["ap"] \/ v["sta"] \/ v["usb"]) /\ v["web"])

\* validateRadio, of which the rule that relates two fields is kept.
legal(v) == v["freq"] = v["region"]

-----------------------------------------------------------------------------
(* A task takes up a request.  The web refuses all but nothing while a      *)
(* restart is on its way; a form opens a batch.  Unless requests overlap,   *)
(* two at once concern different things, and a form comes alone.            *)
ground(r) == LET s == UNION {ToSet(p.secs) : p \in ToSet(r.parts)}
             IN  IF s \cap {"links", "maintenance"} # {} THEN s \cup {"links", "maintenance"} ELSE s

apart(r) ==
    \A w \in Tasks : busy(w) =>
        /\ r.kind \notin {"form", "reset"} /\ jobs[w].req.kind \notin {"form", "reset"}
        /\ ground(r) \cap ground(jobs[w].req) = {}

Receive(w, r) ==
    /\ r.by = w /\ ~busy(w) /\ asked < MaxAsks
    /\ Overlap \/ apart(r)
    /\ w = "web" => ~pending
    /\ jobs' = [jobs EXCEPT ![w] = [at |-> IF r.kind = "reset" THEN "reset" ELSE "copy", req |-> r, part |-> 1,
                                    next |-> <<>>, need |-> FALSE, todo |-> <<>>, left |-> <<>>,
                                    ok |-> TRUE, saved |-> FALSE]]
    /\ batch' = IF r.kind = "form" THEN [open |-> TRUE, wish |-> FALSE] ELSE batch
    /\ asked' = asked + 1
    /\ UNCHANGED <<store, pending, cuts, past>>

\* The sections are copied out, and what was asked for is laid over the copy.
Copy(w) ==
    /\ jobs[w].at = "copy"
    /\ jobs' = [jobs EXCEPT ![w] = [@ EXCEPT !.at = "judge", !.need = FALSE, !.ok = TRUE,
                  !.next = Over(now(w).asks, [f \in UNION {Fields(s) : s \in secs(w)} |-> ram[f]])]]
    /\ UNCHANGED <<store, pending, batch, asked, cuts, past>>

\* Where the commit itself asks whether a restart is on its way; the web asked at its gate.
rechecks(w) == ~import(w) /\ (w # "web" \/ secs(w) \cap {"wifi", "maintenance", "links"} # {})

(* What would be in force after this save.  A change of links is laid over  *)
(* the links of this moment; an import judges its own copy of both.         *)
wanted(w) == IF secs(w) = {"links"} THEN Over(now(w).asks, ram) ELSE Over(jobs[w].next, ram)

(* The rule that spans links and maintenance, asked where either is         *)
(* written.                                                                 *)
LocksOut(w) == secs(w) \cap {"links", "maintenance"} # {} /\ lockedOut(wanted(w))

refused(w) ==
    \/ rechecks(w) /\ pending
    \/ "radio" \in secs(w) /\ ~legal(wanted(w))
    \/ LocksOut(w)

\* The next part, or the end of the request.
goesOn(w, j) ==
    IF j.part < Len(j.req.parts) THEN [j EXCEPT !.at = "copy", !.part = @ + 1] ELSE [j EXCEPT !.at = "end"]

(* validate*, and the judgement in applyLinks: a refusal writes nothing;    *)
(* links that stay as they are write nothing.                               *)
Judge(w) ==
    /\ jobs[w].at = "judge"
    /\ LET same == secs(w) = {"links"} /\ \A f \in Fields("links") : wanted(w)[f] = ram[f]
           j == jobs[w]
       IN  IF refused(w)
           THEN /\ jobs' = [jobs EXCEPT ![w] = IF form(w) THEN goesOn(w, j) ELSE Idle]
                /\ astray' = (astray \/ (import(w) /\ j.saved))
                /\ UNCHANGED kept
           ELSE IF same
           THEN /\ jobs' = [jobs EXCEPT ![w] = goesOn(w, j)]
                /\ UNCHANGED past
           ELSE /\ jobs' = [jobs EXCEPT ![w] = [j EXCEPT !.at = "save", !.todo = now(w).secs,
                              !.next = [f \in DOMAIN @ |-> wanted(w)[f]],
                              !.need = \E f \in DOMAIN j.next \cap RestartFields : wanted(w)[f] # ram[f]]]
                /\ UNCHANGED past
    /\ UNCHANGED <<store, pending, batch, asked, cuts>>

\* saveRadio and its kin begin with the struct.
Adopt(w) ==
    /\ jobs[w].at = "save" /\ jobs[w].left = <<>> /\ jobs[w].todo # <<>>
    /\ LET s == Head(jobs[w].todo)
       IN  /\ ram' = Over(section(jobs[w].next, s), ram)
           /\ jobs' = [jobs EXCEPT ![w].left = keys(s), ![w].todo = Tail(@)]
           /\ kept' = Restrict(kept, DOMAIN kept \ (Fields(s) \cap asks(w)))
    /\ UNCHANGED <<flash, running, pending, batch, asked, cuts, astray>>

(* One key after the other.  Most sections go on past a key that flash      *)
(* refused; the links stop at it, and the administrators are skipped.       *)
after(k, rest, ok) ==
    IF ok THEN rest
    ELSE IF k \in ToSet(keys("links")) THEN <<>>
    ELSE IF rest # <<>> /\ Last(rest) = "admins" THEN Front(rest) ELSE rest

(* The results are collected.  The mutant keeps the last one.               *)
collectLast(ok, landed) == landed
collect(ok, landed) == ok /\ landed

value(j, k) == IF k = "l_wifi" THEN j.next["ap"] \/ j.next["sta"] ELSE j.next[k]

Write(w) ==
    /\ jobs[w].at = "save" /\ jobs[w].left # <<>>
    /\ LET k == Head(jobs[w].left)
       IN  \E landed \in {TRUE} \cup (IF Faulty THEN {FALSE} ELSE {}) :
             /\ flash' = IF landed THEN Put(flash, k, value(jobs[w], k)) ELSE flash
             /\ jobs' = [jobs EXCEPT ![w].left = after(k, Tail(@), landed), ![w].ok = collect(@, landed), ![w].saved = TRUE]
             /\ astray' = (astray \/ ~landed)
    /\ UNCHANGED <<ram, running, pending, batch, asked, cuts, kept>>

(* Asks for the restart: as a wish while a form is being saved.  The links  *)
(* and the web's transport handler arm it themselves.  The mutant leaves it *)
(* to a form that is not there.                                             *)
direct(w) == secs(w) = {"links"} \/ (w = "web" /\ secs(w) = {"transport"})

AskRestart(w) ==
    IF batch.open /\ ~direct(w)
    THEN batch' = [batch EXCEPT !.wish = TRUE] /\ UNCHANGED pending
    ELSE pending' = TRUE /\ UNCHANGED batch

(* What a save does beyond saving: the live fields act, the others ask for  *)
(* the restart, and the caller is told.  An import looks at neither the     *)
(* result nor the fields, and restarts at its end.                          *)
Apply(w) ==
    /\ jobs[w].at = "save" /\ jobs[w].left = <<>> /\ jobs[w].todo = <<>>
    /\ LET j == jobs[w]
       IN  /\ jobs' = [jobs EXCEPT ![w] = goesOn(w, j)]
           /\ running' = IF j.ok /\ ~import(w)
                         THEN [f \in Applied |-> IF f \in DOMAIN j.next \ RestartFields THEN j.next[f] ELSE running[f]]
                         ELSE running
           /\ kept' = IF j.ok THEN [f \in DOMAIN kept \cup asks(w) |-> IF f \in asks(w) THEN j.next[f] ELSE kept[f]]
                            ELSE kept
           /\ IF j.ok /\ j.need /\ ~import(w) THEN AskRestart(w) ELSE UNCHANGED <<pending, batch>>
    /\ UNCHANGED <<ram, flash, asked, cuts, astray>>

(* The answer. endBatch arms the one restart, if any key asked; an import   *)
(* always restarts.                                                         *)
End(w) ==
    /\ jobs[w].at = "end"
    /\ jobs' = [jobs EXCEPT ![w] = Idle]
    /\ pending' = (pending \/ import(w) \/ (form(w) /\ batch.wish))
    /\ batch' = IF form(w) THEN [open |-> FALSE, wish |-> FALSE] ELSE batch
    /\ UNCHANGED <<store, asked, cuts, past>>

\* factoryReset, from the web or from the screen: everything goes, and the node restarts.
FactoryReset(w) ==
    /\ jobs[w].at = "reset"
    /\ flash' = <<>>
    /\ ram' = Default
    /\ pending' = TRUE
    /\ kept' = <<>>
    /\ jobs' = [jobs EXCEPT ![w] = Idle]
    /\ UNCHANGED <<running, batch, asked, cuts, astray>>

-----------------------------------------------------------------------------
midSave(w) == busy(w) /\ jobs[w].at = "save"

Boot ==
    /\ ram' = Load(flash)
    /\ running' = [f \in Applied |-> Load(flash)[f]]
    /\ pending' = FALSE
    /\ batch' = [open |-> FALSE, wish |-> FALSE]
    /\ jobs' = [w \in Tasks |-> Idle]
    /\ astray' = (astray \/ \E w \in Tasks : midSave(w) \/ (busy(w) /\ jobs[w].at # "reset" /\ jobs[w].saved))
    /\ UNCHANGED <<flash, asked, kept>>

\* The loop restarts the node between two of its own requests, whatever the other tasks are at.
Restart == pending /\ ~busy("console") /\ Boot /\ UNCHANGED cuts
Cut     == cuts < MaxCuts /\ cuts' = cuts + 1 /\ Boot

Step(w) == \/ Copy(w) \/ Judge(w) \/ Adopt(w) \/ Write(w) \/ Apply(w) \/ End(w) \/ FactoryReset(w)

oldFlash == [k \in {"l_wifi"} |-> TRUE]

Init ==
    /\ flash \in (IF Aged THEN {oldFlash} ELSE {<<>>})
    /\ ram = Load(flash)
    /\ running = [f \in Applied |-> Load(flash)[f]]
    /\ pending = FALSE
    /\ batch = [open |-> FALSE, wish |-> FALSE]
    /\ jobs = [w \in Tasks |-> Idle]
    /\ asked = 0 /\ cuts = 0
    /\ kept = <<>>
    /\ astray = FALSE

Next ==
    \/ \E w \in Tasks : Step(w)
    \/ \E w \in Tasks, r \in Requests : Receive(w, r)
    \/ Restart
    \/ Cut

Spec == Init /\ [][Next]_vars

-----------------------------------------------------------------------------
Quiet == ~pending /\ ~batch.open /\ \A w \in Tasks : ~busy(w)

(* Between two saves the settings in force are ones the rules allow: the    *)
(* channel lies in its region, and there is a way into the node; and so are *)
(* those the next boot will read.                                           *)
Reachable ==
    ~astray /\ (\A w \in Tasks : ~midSave(w)) =>
        \A v \in {ram, Load(flash)} : legal(v) /\ ~lockedOut(v)

(* What somebody was told is saved is what the next boot reads, until       *)
(* somebody asks for something else.  An import is told so whatever flash   *)
(* did, and counts where flash took it.                                     *)
Kept == \A f \in DOMAIN kept : f \in DOMAIN flash /\ flash[f] = kept[f]

(* Once no request is being served and no restart is on its way, the node   *)
(* runs what its settings say.                                              *)
RunsWhatItSays == Quiet /\ ~astray => \A f \in Applied : running[f] = ram[f]

(* Reachable, of any flash a boot may find: what the comment above          *)
(* wouldLockOut says is refused wherever settings are written.              *)
NeverLockedOut == ~lockedOut(ram)

(* A form is saved whole: none of its keys is refused for a restart that    *)
(* an earlier one of them asked for (SettingsFields.h:104-108).             *)
FormWhole ==
    \A w \in Tasks : (busy(w) /\ form(w) /\ jobs[w].at = "judge" /\ jobs[w].saved) => ~pending

=============================================================================
