--------------------------- MODULE Orders_proofs ---------------------------
(***************************************************************************)
(* Who may tell the node what, and how it comes up, proved of the          *)
(* components of MCOrders one by one: commands by message, the boot, and   *)
(* the settings.                                                           *)
(***************************************************************************)
EXTENDS MCOrders, TLAPS

-----------------------------------------------------------------------------
(* Why: with one task that edits, a sender that ordered something is on the *)
(* list with a floor at that order or past it, or is off the list for good. *)

Typed ==
  /\ {list, wanted} \subseteq SUBSET Senders /\ queue \in Seq(Commands)
  /\ {seen, stored} \subseteq [Senders -> Nat]
  /\ {on, enabled} \subseteq BOOLEAN
  /\ accepted \subseteq Commands /\ saving \in Commands \cup {Nothing}
  /\ runs \in [Commands -> 0 .. 2]
  /\ edit \in [Editors -> [at : {"none", "saved", "read"}, next : SUBSET Senders,
                           floors : [Senders -> Nat], on : BOOLEAN]]

\* The list in memory is the one that was saved, once nobody edits.
Listed ==
  /\ list \subseteq wanted \cup off /\ wanted \cap off = {}
  /\ \A e \in Editors : edit[e].at = "read" => edit[e].next = wanted /\ edit[e].on = on
  /\ (\A e \in Editors : edit[e].at = "none") => list = wanted /\ enabled = on

Answered == \A c \in accepted : IF c.from \in list THEN c.sent <= seen[c.from] ELSE c.from \in off
Written == ~Locked => \A c \in accepted : c.from \in wanted => c.sent <= stored[c.from]

\* What was accepted waits or has run, and nothing else did either.
Counted ==
  /\ \A i \in DOMAIN queue : queue[i] \in accepted /\ runs[queue[i]] = 0
  /\ \A i, j \in DOMAIN queue : queue[i] = queue[j] => i = j
  /\ \A c \in Commands : runs[c] <= 1 /\ (runs[c] = 1 => c \in accepted)

Earned(s) == {0} \cup {c.sent : c \in {x \in accepted : x.from = s}}
Fair == \A s \in Senders : /\ seen[s] \in Earned(s) /\ stored[s] \in Earned(s)
                           /\ \A e \in Editors : edit[e].floors[s] \in Earned(s)

AInv == Typed /\ Listed /\ Answered /\ Written /\ Counted /\ Fair

-----------------------------------------------------------------------------
EditsAlone == \A e, f \in Editors : e = f

LEMMA OrdersStart == Init => AInv
<1> SUFFICES ASSUME Init PROVE AInv
  OBVIOUS
<1>1. NoFloors \in [Senders -> Nat] /\ \A s \in Senders : NoFloors[s] = 0
  BY DEF NoFloors
<1>2. Typed
  BY <1>1, ListsAssumption DEF Init, Typed, Resting
<1>3. Listed /\ Answered /\ Written /\ Counted
  BY DEF Init, Listed, Answered, Written, Counted, Resting
<1>4. Fair
  BY <1>1 DEF Init, Fair, Earned, Resting
<1> QED
  BY <1>2, <1>3, <1>4 DEF AInv

\* What may be taken was never taken before: its floor stands in front of it.
LEMMA FreshOnly ==
  ASSUME AInv, NEW c \in Commands, Allows(c)
  PROVE  c \notin accepted /\ c.from \in Senders /\ c.sent \in Nat \ {0} /\ c # Nothing
<1>1. c.from \in Senders /\ c.sent \in Nat \ {0}
  BY TimesAssumption DEF Commands
<1>2. seen[c.from] \in Nat
  BY <1>1 DEF AInv, Typed
<1>3. c \notin accepted
  BY <1>1, <1>2 DEF Allows, AInv, Answered
<1>4. Nothing.sent = 0
  BY DEF Nothing
<1> QED
  BY <1>1, <1>3, <1>4

LEMMA OfferKeeps ==
  ASSUME AInv, NEW c \in Commands, Offer(c)
  PROVE  AInv'
<1> USE DEF AInv
<1>1. c \notin accepted /\ c.from \in Senders /\ c.sent \in Nat \ {0} /\ c # Nothing
  BY FreshOnly DEF Offer
<1>2. /\ queue' = Append(queue, c) /\ seen' = [seen EXCEPT ![c.from] = c.sent]
      /\ saving' = c /\ accepted' = accepted \cup {c}
      /\ UNCHANGED <<settings, list, enabled, stored, edit, runs, off, bounds>>
      /\ c.sent > seen[c.from] /\ c.from \in list
  BY DEF Offer, Allows
<1>3. Typed'
  BY <1>1, <1>2 DEF Typed, settings
<1>4. Listed'
  BY <1>2 DEF Listed, settings
<1>5. Answered'
  <2>1. ASSUME NEW d \in accepted PROVE d.from \in Senders /\ d.sent \in Int
    <3>1. d.from \in Senders /\ d.sent \in Times
      BY DEF Typed, Commands
    <3>2. d.sent \in Nat \ {0}
      BY <3>1, TimesAssumption
    <3> QED
      BY <3>1, <3>2
  <2>2. \A s \in Senders : seen[s] \in Nat
    BY DEF Typed
  <2>3. ASSUME NEW d \in accepted' PROVE IF d.from \in list' THEN d.sent <= seen'[d.from] ELSE d.from \in off'
    <3>1. CASE d = c
      BY <1>1, <1>2, <3>1 DEF Typed, settings
    <3>2. CASE d \in accepted
      <4>1. IF d.from \in list THEN d.sent <= seen[d.from] ELSE d.from \in off
        BY <3>2 DEF Answered
      <4> QED
        BY <1>1, <1>2, <2>1, <2>2, <3>2, <4>1 DEF Typed, settings
    <3> QED
      BY <1>2, <2>3, <3>1, <3>2
  <2> QED
    BY <2>3 DEF Answered
<1>6. Written'
  BY <1>1, <1>2 DEF Written, Locked
<1>7. Counted'
  <2>1. queue \in Seq(Commands)
    BY DEF Typed
  <2>2. Len(queue) \in Nat /\ DOMAIN queue = 1 .. Len(queue)
    BY <2>1
  <2>0. queue' = Append(queue, c)
    BY <1>2
  <2>3. DOMAIN queue' = 1 .. Len(queue) + 1 /\ queue'[Len(queue) + 1] = c /\ \A i \in DOMAIN queue : queue'[i] = queue[i]
    BY <2>0, <2>1, <2>2
  <2>4. \A i \in DOMAIN queue : queue[i] \in accepted /\ queue[i] # c /\ runs[queue[i]] = 0
    BY <1>1 DEF Counted
  <2>5. runs[c] = 0
    BY <1>1 DEF Counted, Typed
  <2>6. \A i \in DOMAIN queue' : i \in DOMAIN queue \/ (i = Len(queue) + 1 /\ i \notin DOMAIN queue)
    BY <2>2, <2>3
  <2>7. \A i \in DOMAIN queue' : queue'[i] \in accepted' /\ runs'[queue'[i]] = 0
    BY <1>2, <2>3, <2>4, <2>5, <2>6
  <2>8. \A i, j \in DOMAIN queue' : queue'[i] = queue'[j] => i = j
    BY <2>3, <2>4, <2>6 DEF Counted
  <2>9. \A d \in Commands : runs'[d] <= 1 /\ (runs'[d] = 1 => d \in accepted')
    BY <1>2 DEF Counted
  <2> QED
    BY <2>7, <2>8, <2>9 DEF Counted
<1>8. Fair'
  <2>1. \A s \in Senders : Earned(s) \subseteq Earned(s)'
    BY <1>2 DEF Earned
  <2>2. c.sent \in Earned(c.from)'
    BY <1>2 DEF Earned
  <2> QED
    BY <1>1, <1>2, <2>1, <2>2 DEF Fair, Typed
<1> QED
  BY <1>3, <1>4, <1>5, <1>6, <1>7, <1>8

LEMMA SaveKeeps ==
  ASSUME AInv, SaveFloors
  PROVE  AInv'
<1> USE DEF AInv
<1>1. /\ stored' = [s \in Senders |-> IF s \in list THEN seen[s] ELSE 0] /\ saving' = Nothing
      /\ UNCHANGED <<settings, inRam, queue, edit, history, bounds>>
  BY DEF SaveFloors
<1>2. Typed'
  BY <1>1 DEF Typed, settings, inRam, history
<1>3. Listed' /\ Answered' /\ Counted'
  BY <1>1 DEF Listed, Answered, Counted, settings, inRam, history
<1>4. Written'
  <2>1. ASSUME NEW c \in accepted, c.from \in wanted PROVE c.sent <= stored'[c.from]
    <3>1. c.from \in Senders /\ c.from \notin off
      BY <2>1 DEF Typed, Commands, Listed
    <3>2. c.from \in list /\ c.sent <= seen[c.from]
      BY <3>1 DEF Answered
    <3> QED
      BY <1>1, <3>1, <3>2
  <2> QED
    BY <1>1, <2>1 DEF Written, settings, history
<1>5. Fair'
  BY <1>1 DEF Fair, Earned, inRam, history
<1> QED
  BY <1>2, <1>3, <1>4, <1>5

LEMMA RunKeeps ==
  ASSUME AInv, Run
  PROVE  AInv'
<1> USE DEF AInv
<1> DEFINE h == Head(queue)
<1>1. /\ queue # <<>> /\ runs' = [runs EXCEPT ![h] = IF runs[h] = 0 THEN 1 ELSE 2] /\ queue' = Tail(queue)
      /\ UNCHANGED <<settings, inRam, stored, saving, edit, accepted, off, bounds>>
  BY DEF Run
<1>2. queue \in Seq(Commands) /\ Len(queue) \in Nat \ {0} /\ DOMAIN queue = 1 .. Len(queue) /\ h = queue[1]
      /\ h \in Commands
  BY <1>1 DEF Typed
<1>3. /\ Tail(queue) \in Seq(Commands) /\ DOMAIN Tail(queue) = 1 .. Len(queue) - 1
      /\ \A i \in 1 .. Len(queue) - 1 : Tail(queue)[i] = queue[i + 1] /\ i + 1 \in DOMAIN queue
  BY <1>1, <1>2
<1>4. 1 \in DOMAIN queue /\ h \in accepted /\ runs[h] = 0
  BY <1>2 DEF Counted
<1> HIDE DEF h
<1>5. runs' = [runs EXCEPT ![h] = 1]
  BY <1>1, <1>4
<1>6. Typed'
  BY <1>1, <1>2, <1>3, <1>5 DEF Typed, settings, inRam
<1>7. Listed' /\ Answered' /\ Written'
  BY <1>1 DEF Listed, Answered, Written, Locked, settings, inRam
<1>8. Counted'
  <2>1. \A i \in DOMAIN queue' : queue'[i] \in accepted' /\ runs'[queue'[i]] = 0
    <3>1. TAKE i \in DOMAIN queue'
    <3>2. queue'[i] = queue[i + 1] /\ i + 1 \in DOMAIN queue /\ i + 1 # 1
      BY <1>1, <1>3, <1>2
    <3>3. queue[i + 1] \in accepted /\ runs[queue[i + 1]] = 0 /\ queue[i + 1] # h
      BY <1>2, <1>4, <3>2 DEF Counted
    <3>4. queue[i + 1] \in Commands
      BY <3>3 DEF Typed
    <3> QED
      BY <1>1, <1>5, <3>2, <3>3, <3>4 DEF Typed
  <2>2. \A i, j \in DOMAIN queue' : queue'[i] = queue'[j] => i = j
    <3>1. TAKE i, j \in DOMAIN queue'
    <3>2. /\ queue'[i] = queue[i + 1] /\ i + 1 \in DOMAIN queue /\ queue'[j] = queue[j + 1] /\ j + 1 \in DOMAIN queue
          /\ i \in Int /\ j \in Int
      BY <1>1, <1>2, <1>3
    <3>3. queue[i + 1] = queue[j + 1] => i + 1 = j + 1
      BY <3>2 DEF Counted
    <3> QED
      BY <3>2, <3>3
  <2>3. \A d \in Commands : runs'[d] <= 1 /\ (runs'[d] = 1 => d \in accepted')
    BY <1>1, <1>2, <1>4, <1>5 DEF Counted, Typed
  <2> QED
    BY <2>1, <2>2, <2>3 DEF Counted
<1>9. Fair'
  BY <1>1 DEF Fair, Earned, inRam
<1> QED
  BY <1>6, <1>7, <1>8, <1>9

LEMMA CommitKeeps ==
  ASSUME AInv, EditsAlone, ~Returns, NEW e \in Editors, Commit(e)
  PROVE  AInv'
<1> USE DEF AInv
<1>1. /\ edit[e].at = "none" /\ wanted' \in Lists /\ wanted' \cap off = {}
      /\ on' \in BOOLEAN /\ off' = off \cup (wanted \ wanted')
      /\ edit' = [edit EXCEPT ![e].at = "saved"]
      /\ UNCHANGED <<inRam, stored, queue, saving, accepted, runs, cuts>>
  BY DEF Commit
<1>2. /\ edit'[e].at = "saved" /\ edit'[e].next = edit[e].next /\ edit'[e].floors = edit[e].floors
         /\ edit'[e].on = edit[e].on
      /\ \A f \in Editors : f = e
  BY <1>1 DEF Typed, EditsAlone
<1>3. Typed'
  <2>1. wanted' \in SUBSET Senders
    BY <1>1, ListsAssumption
  <2>2. [edit[e] EXCEPT !.at = "saved"] \in [at : {"none", "saved", "read"}, next : SUBSET Senders, floors : [Senders -> Nat], on : BOOLEAN]
    BY DEF Typed
  <2>3. edit' \in [Editors -> [at : {"none", "saved", "read"}, next : SUBSET Senders, floors : [Senders -> Nat], on : BOOLEAN]]
    BY <1>1, <2>2 DEF Typed
  <2> QED
    BY <1>1, <2>1, <2>3 DEF Typed, inRam
<1>4. list = wanted
  BY <1>1, <1>2 DEF Listed
<1>5. Listed'
  BY <1>1, <1>2, <1>4 DEF Listed, inRam
<1>6. Answered' /\ Counted'
  BY <1>1 DEF Answered, Counted, inRam
<1>7. Written'
  <2>1. ASSUME ~ Locked, NEW c \in accepted, c.from \in wanted' PROVE c.sent <= stored[c.from]
    <3>1. c.from \in wanted
      BY <1>1, <1>4, <2>1 DEF Answered
    <3> QED
      BY <2>1, <3>1 DEF Written
  <2> QED
    BY <1>1, <2>1 DEF Written, Locked
<1>8. Fair'
  BY <1>1, <1>2 DEF Fair, Earned, inRam
<1> QED
  BY <1>3, <1>5, <1>6, <1>7, <1>8

LEMMA ReadKeeps ==
  ASSUME AInv, EditsAlone, NEW e \in Editors, Read(e)
  PROVE  AInv'
<1> USE DEF AInv
<1> DEFINE new == [at |-> "read", next |-> wanted, floors |-> Floors(wanted), on |-> on]
<1>1. /\ edit' = [edit EXCEPT ![e] = new]
      /\ UNCHANGED <<settings, inRam, stored, queue, saving, history, bounds>>
  BY DEF Read
<1>2. on \in BOOLEAN /\ Floors(wanted) \in [Senders -> Nat] /\ \A s \in Senders : Floors(wanted)[s] \in {0, stored[s]}
  BY DEF Typed, Floors
<1>3. /\ new \in [at : {"none", "saved", "read"}, next : SUBSET Senders, floors : [Senders -> Nat], on : BOOLEAN]
      /\ new.at = "read" /\ new.next = wanted /\ new.on = on /\ new.floors = Floors(wanted)
  BY <1>2 DEF Typed
<1> HIDE DEF new
<1>4. edit'[e] = new /\ \A f \in Editors : f = e
  BY <1>1 DEF Typed, EditsAlone
<1>5. Typed'
  BY <1>1, <1>3 DEF Typed, settings, inRam, history
<1>6. Listed'
  BY <1>1, <1>3, <1>4 DEF Listed, settings, inRam, history
<1>7. Answered' /\ Counted' /\ Written'
  BY <1>1 DEF Answered, Counted, Written, Locked, settings, inRam, history
<1>8. Fair'
  BY <1>1, <1>2, <1>3, <1>4 DEF Fair, Earned, inRam, history
<1> QED
  BY <1>5, <1>6, <1>7, <1>8

LEMMA SwapKeeps ==
  ASSUME AInv, EditsAlone, NEW e \in Editors, Swap(e)
  PROVE  AInv'
<1> USE DEF AInv
<1> DEFINE x == edit[e]
<1>1. /\ x.at = "read" /\ ~ Locked
      /\ seen' = [s \in Senders |-> IF s \in x.next /\ s \in list THEN Later(x.floors[s], seen[s]) ELSE x.floors[s]]
      /\ list' = x.next /\ enabled' = x.on /\ edit' = [edit EXCEPT ![e] = Resting]
      /\ UNCHANGED <<settings, stored, queue, saving, history, bounds>>
  BY DEF Swap
<1>2. x.next = wanted /\ x.on = on /\ x.floors \in [Senders -> Nat] /\ \A s \in Senders : x.floors[s] \in Earned(s)
  BY <1>1 DEF Listed, Typed, Fair
<1> HIDE DEF x
<1>3. /\ edit'[e] = Resting /\ (\A f \in Editors : f = e)
      /\ Resting \in [at : {"none", "saved", "read"}, next : SUBSET Senders, floors : [Senders -> Nat], on : BOOLEAN]
      /\ Resting.at = "none" /\ \A s \in Senders : Resting.floors[s] = 0
  BY <1>1 DEF Typed, EditsAlone, Resting, NoFloors
<1>4. \A s \in Senders : /\ seen'[s] \in {x.floors[s], seen[s]}
                         /\ s \in wanted /\ s \in list => seen[s] <= seen'[s]
  BY <1>1, <1>2 DEF Typed, Later
<1>5. seen' \in [Senders -> Nat]
  BY <1>1, <1>2 DEF Typed, Later
<1>6. Typed'
  BY <1>1, <1>2, <1>3, <1>5 DEF Typed, settings, history
<1>7. Listed'
  BY <1>1, <1>2, <1>3 DEF Listed, settings, history
<1>8. Answered'
  <2>1. ASSUME NEW c \in accepted PROVE IF c.from \in wanted THEN c.sent <= seen'[c.from] ELSE c.from \in off
    <3>1. c.from \in Senders /\ c.sent \in Nat /\ seen[c.from] \in Nat /\ seen'[c.from] \in Nat
      BY <1>5, TimesAssumption DEF Typed, Commands
    <3>2. CASE c.from \in wanted
      <4>1. c.from \notin off
        BY <3>2 DEF Listed
      <4>2. c.from \in list /\ c.sent <= seen[c.from]
        BY <4>1 DEF Answered
      <4> QED
        BY <1>4, <3>1, <3>2, <4>2
    <3>3. CASE c.from \notin wanted
      BY <3>3 DEF Answered, Listed
    <3> QED
      BY <3>2, <3>3
  <2> QED
    BY <1>1, <1>2, <2>1 DEF Answered, settings, history
<1>9. Written' /\ Counted'
  BY <1>1 DEF Written, Locked, Counted, settings, history
<1>10. Fair'
  BY <1>1, <1>2, <1>3, <1>4 DEF Fair, Earned, history
<1> QED
  BY <1>6, <1>7, <1>8, <1>9, <1>10

LEMMA RestartKeeps ==
  ASSUME AInv, ~Gaps, Restart
  PROVE  AInv'
<1> USE DEF AInv
<1>1. /\ ~ Locked
      /\ list' = wanted /\ enabled' = on /\ seen' = Floors(wanted) /\ queue' = <<>> /\ saving' = Nothing
      /\ edit' = [e \in Editors |-> Resting]
      /\ UNCHANGED <<settings, stored, history, edits>>
  BY DEF Restart
<1>2. /\ Floors(wanted) \in [Senders -> Nat]
      /\ \A s \in Senders : /\ s \in wanted => Floors(wanted)[s] = stored[s]
                            /\ s \notin wanted => Floors(wanted)[s] = 0
  BY DEF Typed, Floors
<1>3. /\ Resting \in [at : {"none", "saved", "read"}, next : SUBSET Senders, floors : [Senders -> Nat], on : BOOLEAN]
      /\ Resting.at = "none" /\ \A s \in Senders : Resting.floors[s] = 0
  BY DEF Resting, NoFloors
<1>4. Typed'
  BY <1>1, <1>2, <1>3 DEF Typed, settings, history
<1>5. Listed'
  BY <1>1, <1>3 DEF Listed, settings, history
<1>6. Answered'
  <2>1. ASSUME NEW c \in accepted PROVE IF c.from \in wanted THEN c.sent <= seen'[c.from] ELSE c.from \in off
    <3>1. c.from \in Senders
      BY DEF Typed, Commands
    <3>2. c.from \in wanted => c.sent <= stored[c.from]
      BY <1>1 DEF Written
    <3> QED
      BY <1>1, <1>2, <3>1, <3>2 DEF Answered, Listed
  <2> QED
    BY <1>1, <2>1 DEF Answered, settings, history
<1>7. Written' /\ Counted'
  BY <1>1 DEF Written, Locked, Counted, settings, history
<1>8. Fair'
  BY <1>1, <1>2, <1>3 DEF Fair, Earned, history
<1> QED
  BY <1>4, <1>5, <1>6, <1>7, <1>8

\* With one task that edits, no sender put back and no cut between a command's
\* place in the queue and its floor: every command runs at most once through
\* any number of deliveries, edits and restarts, a floor is never past what was
\* taken, and once an edit is over only those it names may order.
THEOREM OrdersAreTakenOnce ==
  ASSUME EditsAlone, ~Returns, ~Gaps
  PROVE  Spec => OrdersOnce
<1>1. AInv /\ [Next]_vars => AInv'
  <2> SUFFICES ASSUME AInv, [Next]_vars PROVE AInv'
    OBVIOUS
  <2>1. ASSUME NEW c \in Commands, Offer(c) PROVE AInv'
    BY <2>1, OfferKeeps
  <2>2. CASE SaveFloors
    BY <2>2, SaveKeeps
  <2>3. CASE Run
    BY <2>3, RunKeeps
  <2>4. CASE Restart
    BY <2>4, RestartKeeps
  <2>5. ASSUME NEW e \in Editors, Commit(e) PROVE AInv'
    BY <2>5, CommitKeeps
  <2>6. ASSUME NEW e \in Editors, Read(e) PROVE AInv'
    BY <2>6, ReadKeeps
  <2>7. ASSUME NEW e \in Editors, Swap(e) PROVE AInv'
    BY <2>7, SwapKeeps
  <2>8. CASE UNCHANGED vars
    BY <2>8 DEF AInv, Typed, Listed, Answered, Written, Locked, Counted, Fair, Earned, vars, settings, inRam, history
  <2> QED
    BY <2>1, <2>2, <2>3, <2>4, <2>5, <2>6, <2>7, <2>8 DEF Next
<1>2. AInv => RunsOnce /\ FloorsEarned
  BY DEF AInv, Counted, RunsOnce, Fair, FloorsEarned, Earned, Later
<1>3. AInv /\ [Next]_vars
        => [Len(queue') > Len(queue) /\ (\A e \in Editors : edit[e].at = "none")
            => on /\ queue'[Len(queue')].from \in wanted]_vars
  <2> SUFFICES ASSUME AInv, Next, Len(queue') > Len(queue), \A e \in Editors : edit[e].at = "none"
               PROVE  on /\ queue'[Len(queue')].from \in wanted
    BY DEF Next
  <2>1. queue \in Seq(Commands) /\ Len(queue) \in Nat /\ list = wanted /\ enabled = on
    BY DEF AInv, Typed, Listed
  <2>2. ASSUME NEW c \in Commands, Offer(c) PROVE on /\ queue'[Len(queue')].from \in wanted
    BY <2>1, <2>2 DEF Offer, Allows
  <2>3. ~ Run
    BY <2>1 DEF Run
  <2>4. ~ Restart
    BY <2>1 DEF Restart
  <2>5. ~ UNCHANGED queue
    BY <2>1
  <2> QED
    BY <2>2, <2>3, <2>4, <2>5 DEF Next, SaveFloors, Commit, Read, Swap
<1> QED
  BY <1>1, <1>2, <1>3, OrdersStart, PTL DEF Spec, OrdersOnce, ListedNow

-----------------------------------------------------------------------------
(* Boot: what was asked for is counted on flash, what a run went through is *)
(* in the record, and each step comes in its place.                        *)

\* Which step is next, as its place in the order.
LEMMA StepIs ==
  ASSUME bootAt \in 1 .. 15
  PROVE  /\ T!looping <=> bootAt = 15
         /\ T!step("record") <=> bootAt = 2
         /\ T!step("transport") <=> bootAt = 9
         /\ T!step("tasks") <=> bootAt = 11
         /\ T!step("required") <=> bootAt = 12
         /\ T!step("confirm") <=> bootAt = 13
         /\ T!step("watch") <=> bootAt = 14
         /\ (\E s \in {"board", "watchdog", "settings", "store", "web", "console", "radio", "server"} : T!step(s))
              => bootAt \in {1, 3, 4, 5, 6, 7, 8, 10}
<1>1. Len(T!Setup) = 14
  BY DEF T!Setup
<1>2. /\ T!Setup[1] = "board" /\ T!Setup[2] = "record" /\ T!Setup[3] = "watchdog" /\ T!Setup[4] = "settings"
         /\ T!Setup[5] = "store"
      /\ T!Setup[6] = "web" /\ T!Setup[7] = "console" /\ T!Setup[8] = "radio" /\ T!Setup[9] = "transport"
         /\ T!Setup[10] = "server"
      /\ T!Setup[11] = "tasks" /\ T!Setup[12] = "required" /\ T!Setup[13] = "confirm" /\ T!Setup[14] = "watch"
  BY DEF T!Setup
<1>3. bootAt = 1 \/ bootAt = 2 \/ bootAt = 3 \/ bootAt = 4 \/ bootAt = 5 \/ bootAt = 6 \/ bootAt = 7 \/ bootAt = 8 \/ bootAt = 9 \/ bootAt = 10
      \/ bootAt = 11 \/ bootAt = 12 \/ bootAt = 13 \/ bootAt = 14 \/ bootAt = 15
  OBVIOUS
<1> QED
  BY <1>1, <1>2, <1>3 DEF T!looping, T!step

LEMMA PastIs ==
  ASSUME bootAt \in 1 .. 15
  PROVE  /\ T!past("record") <=> bootAt > 2
         /\ T!past("server") <=> bootAt > 10
<1>1. Len(T!Setup) = 14
  BY DEF T!Setup
<1>2. /\ T!Setup[1] = "board" /\ T!Setup[2] = "record" /\ T!Setup[3] = "watchdog" /\ T!Setup[4] = "settings"
         /\ T!Setup[5] = "store"
      /\ T!Setup[6] = "web" /\ T!Setup[7] = "console" /\ T!Setup[8] = "radio" /\ T!Setup[9] = "transport"
         /\ T!Setup[10] = "server"
      /\ T!Setup[11] = "tasks" /\ T!Setup[12] = "required" /\ T!Setup[13] = "confirm" /\ T!Setup[14] = "watch"
  BY DEF T!Setup
<1>3. \A i \in 1 .. 14 : (T!Setup[i] = "record" <=> i = 2) /\ (T!Setup[i] = "server" <=> i = 10)
  <2> TAKE i \in 1 .. 14
  <2>1. i = 1 \/ i = 2 \/ i = 3 \/ i = 4 \/ i = 5 \/ i = 6 \/ i = 7 \/ i = 8 \/ i = 9 \/ i = 10
        \/ i = 11 \/ i = 12 \/ i = 13 \/ i = 14
    OBVIOUS
  <2> QED
    BY <1>2, <2>1
<1> QED
  BY <1>1, <1>3 DEF T!past

-----------------------------------------------------------------------------
Figures == [known : BOOLEAN, faultsKnown : BOOLEAN, fails : Nat, marked : BOOLEAN]
BootTypes ==
  /\ bootAt \in 1 .. 15 /\ tries \in 0 .. Retries /\ inRow \in Nat
  /\ task \in [Supervised -> {"none", "runs", "long", "hung", "ended"}] /\ watched \subseteq Supervised
  /\ rtc \in [layout : {"noise", "RTM2", "RTM3"}, fails : Nat, marked : BOOLEAN] /\ left \in Figures
  /\ bootFailures \in Nat /\ mirror = [t \in Supervised |-> -1]

\* A restart that was asked for the missing task is one that was counted.
Restarts ==
  /\ inRow <= tries
  /\ "fault" \in scheduled => bootAt > 12 /\ inRow < tries
\* Until the record is claimed it says what the last run left; from then on what
\* this run leaves, were it to end here.
Recorded ==
  /\ bootAt <= 2 => T!previous(rtc) = left
  /\ bootAt > 2 => /\ left.known /\ left.faultsKnown /\ ~left.marked /\ left.fails = bootFailures
               /\ rtc.layout = "RTM3" /\ ~rtc.marked /\ rtc.fails = bootFailures
InOrder == (bootAt > 9 => bootQueue) /\ (bootAt > 13 => trial # "pending")

BootInv == BootTypes /\ Restarts /\ Recorded /\ InOrder /\ T!BitesOnlyHung

LEMMA BootInit == T!Init => BootInv
<1> SUFFICES ASSUME T!Init PROVE BootInv
  OBVIOUS
<1>0. /\ left = [T!nothing EXCEPT !.known = (rtc # T!noise)]
      /\ rtc \in {T!noise} \cup [layout : {"RTM2"}, fails : {MaxFails}, marked : {FALSE}]
  BY DEF T!Init
<1>f. /\ bootAt = 1 /\ bootFailures = 0 /\ mirror = [t \in Supervised |-> -1] /\ tries = 0 /\ scheduled = {} /\ inRow = 0
      /\ task = [t \in Supervised |-> "none"] /\ watched = {}
  BY Zenon DEF T!Init
<1>r. Restarts /\ InOrder /\ T!BitesOnlyHung
  BY <1>f DEF Restarts, InOrder, T!BitesOnlyHung
<1>1. CASE rtc = T!noise
  <2>1. (rtc # T!noise) = FALSE
    BY <1>1
  <2>2. left = [T!nothing EXCEPT !.known = FALSE]
    BY <1>0, <2>1, Zenon
  <2>3. left = T!nothing
    BY <2>2 DEF T!nothing
  <2>4. BootTypes
    BY <1>f, <1>1, <2>3, BootAssumption DEF BootTypes, Figures, T!noise, T!nothing
  <2>5. Recorded
    BY <1>f, <1>1, <2>3 DEF Recorded, T!previous, T!noise, T!nothing
  <2> QED
    BY <1>r, <2>4, <2>5 DEF BootInv
<1>2. CASE rtc # T!noise
  <2>1. (rtc # T!noise) = TRUE
    BY <1>2
  <2>2. left = [T!nothing EXCEPT !.known = TRUE]
    BY <1>0, <2>1, Zenon
  <2>3. left = [known |-> TRUE, faultsKnown |-> FALSE, fails |-> 0, marked |-> FALSE]
    BY <2>2 DEF T!nothing
  <2>4. rtc \in [layout : {"RTM2"}, fails : {MaxFails}, marked : {FALSE}]
    BY <1>0, <1>2
  <2>5. rtc = [layout |-> "RTM2", fails |-> MaxFails, marked |-> FALSE]
    BY <2>4
  <2>6. ("RTM2" = "RTM3") = FALSE
    OBVIOUS
  <2>7. T!previous(rtc) = [known |-> TRUE, faultsKnown |-> FALSE, fails |-> 0, marked |-> FALSE]
    BY <2>5, <2>6 DEF T!previous
  <2>8. BootTypes
    BY <1>f, <2>3, <2>5, BootAssumption DEF BootTypes, Figures
  <2>9. Recorded
    BY <1>f, <2>3, <2>7 DEF Recorded
  <2> QED
    BY <1>r, <2>8, <2>9 DEF BootInv
<1> QED
  BY <1>1, <1>2

\* What a run leaves, once it has claimed the record, is what the next will read.
LEMMA LeftIsRecorded ==
  ASSUME BootInv
  PROVE  T!previous(rtc) = left
<1>1. CASE bootAt > 2
  <2>1. left = [known |-> TRUE, faultsKnown |-> TRUE, fails |-> bootFailures, marked |-> FALSE]
    BY <1>1 DEF BootInv, BootTypes, Recorded, Figures
  <2> QED
    BY <1>1, <2>1 DEF BootInv, BootTypes, Recorded, T!previous
<1> QED
  BY <1>1 DEF BootInv, BootTypes, Recorded

LEMMA ResetKeeps ==
  ASSUME BootInv, T!Reset, T!previous(rtc)' = left', tries' = tries,
         rtc' \in [layout : {"noise", "RTM2", "RTM3"}, fails : Nat, marked : BOOLEAN], left' \in Figures,
         inRow' \in Nat, inRow' <= tries
  PROVE  BootInv'
<1>1. /\ bootAt' = 1 /\ mirror' = [t \in Supervised |-> -1] /\ bootFailures' = 0 /\ scheduled' = {}
      /\ task' = [t \in Supervised |-> "none"] /\ watched' = {}
  BY DEF T!Reset
<1>2. BootTypes'
  BY <1>1 DEF BootInv, BootTypes
<1> QED
  BY <1>1, <1>2 DEF BootInv, Restarts, Recorded, InOrder, T!BitesOnlyHung

LEMMA BootNext == BootInv /\ [T!Next]_T!vars => BootInv'
<1> SUFFICES ASSUME BootInv, [T!Next]_T!vars PROVE BootInv'
  OBVIOUS
<1>a. /\ bootAt \in 1 .. 15 /\ tries \in 0 .. Retries /\ inRow \in Nat /\ Retries \in Nat
      /\ task \in [Supervised -> {"none", "runs", "long", "hung", "ended"}] /\ watched \subseteq Supervised
      /\ rtc \in [layout : {"noise", "RTM2", "RTM3"}, fails : Nat, marked : BOOLEAN] /\ left \in Figures
      /\ bootFailures \in Nat /\ mirror = [t \in Supervised |-> -1]
  BY BootAssumption DEF BootInv, BootTypes
<1>1. CASE T!Begin
  <2>1. bootAt \in {1, 3, 4, 5, 6, 7, 8, 10} /\ bootAt' = bootAt + 1
        /\ UNCHANGED <<T!record, T!fault, trial, T!tasks, bootQueue, left>>
    BY <1>1, <1>a, StepIs DEF T!Begin, T!advance
  <2> QED
    BY <1>a, <2>1 DEF BootInv, BootTypes, Restarts, Recorded, InOrder, T!BitesOnlyHung, T!record, T!fault,
         T!tasks, T!previous
<1>2. CASE T!Claim
  <2>1. bootAt = 2 /\ bootAt' = 3 /\ rtc' = T!fresh /\ bootFailures' = 0
        /\ left' = [known |-> TRUE, faultsKnown |-> TRUE, fails |-> 0, marked |-> FALSE]
        /\ UNCHANGED <<mirror, T!fault, trial, T!tasks, bootQueue>>
    BY <1>2, <1>a, StepIs DEF T!Claim, T!advance
  <2>2. BootTypes'
    BY <1>a, <2>1 DEF BootTypes, T!fault, T!tasks, T!fresh, Figures
  <2>3. Recorded'
    BY <2>1 DEF Recorded, T!fresh
  <2> QED
    BY <1>a, <2>1, <2>2, <2>3 DEF BootInv, Restarts, InOrder, T!BitesOnlyHung, T!fault, T!tasks
<1>3. CASE T!Transport
  <2>1. bootAt = 9 /\ bootAt' = 10 /\ bootQueue' = TRUE /\ UNCHANGED <<T!record, T!fault, trial, T!tasks, left>>
    BY <1>3, <1>a, StepIs DEF T!Transport, T!advance
  <2> QED
    BY <1>a, <2>1 DEF BootInv, BootTypes, Restarts, Recorded, InOrder, T!BitesOnlyHung, T!record, T!fault,
         T!tasks, T!previous
<1>4. CASE T!StartTasks
  <2>1. bootAt = 11 /\ bootAt' = 12 /\ UNCHANGED <<T!record, T!fault, trial, bootQueue, left>>
    BY <1>4, <1>a, StepIs DEF T!StartTasks, T!advance
  <2>2. PICK S \in SUBSET (Supervised \ {"loop"}), W \in SUBSET (Supervised \ {"loop"}) :
           task' = [t \in Supervised |-> IF t \in S THEN "runs" ELSE "none"] /\ watched' = S \cap W
    BY <1>4 DEF T!StartTasks
  <2>3. task' \in [Supervised -> {"none", "runs", "long", "hung", "ended"}] /\ watched' \subseteq Supervised
        /\ T!BitesOnlyHung'
    BY <2>2 DEF T!BitesOnlyHung
  <2> QED
    BY <1>a, <2>1, <2>3 DEF BootInv, BootTypes, Restarts, Recorded, InOrder, T!record, T!fault, T!previous
<1>5. CASE T!Required
  <2>1. bootAt = 12 /\ bootAt' = 13 /\ UNCHANGED <<T!record, trial, T!tasks, bootQueue, left>>
    BY <1>5, <1>a, StepIs DEF T!Required, T!advance
  <2>2. "fault" \notin scheduled /\ inRow <= tries
    BY <2>1 DEF BootInv, Restarts
  <2>3. \/ tries' = tries + 1 /\ tries < Retries /\ inRow' = inRow
        \/ tries' = tries /\ scheduled' = scheduled /\ inRow' \in {inRow, 0}
        \/ tries' = 0 /\ inRow' = 0 /\ scheduled' = scheduled
    BY <1>5 DEF T!Required
  <2>4. Restarts' /\ tries' \in 0 .. Retries /\ inRow' \in Nat
    BY <1>a, <2>1, <2>2, <2>3 DEF Restarts
  <2> QED
    BY <1>a, <2>1, <2>4 DEF BootInv, BootTypes, Recorded, InOrder, T!BitesOnlyHung, T!record, T!tasks, T!previous
<1>6. CASE T!Confirm
  <2>1. bootAt = 13 /\ bootAt' = 14 /\ trial' # "pending" /\ UNCHANGED <<T!record, T!fault, T!tasks, bootQueue, left>>
    BY <1>6, <1>a, StepIs DEF T!Confirm, T!advance
  <2> QED
    BY <1>a, <2>1 DEF BootInv, BootTypes, Restarts, Recorded, InOrder, T!BitesOnlyHung, T!record, T!fault,
         T!tasks, T!previous
<1>7. CASE T!Watch
  <2>1. bootAt = 14 /\ bootAt' = 15 /\ UNCHANGED <<T!record, T!fault, trial, bootQueue, left>>
        /\ task' = [task EXCEPT !["loop"] = "runs"] /\ watched' \in {watched, watched \cup {"loop"}}
    BY <1>7, <1>a, StepIs DEF T!Watch, T!advance
  <2>2. task' \in [Supervised -> {"none", "runs", "long", "hung", "ended"}] /\ watched' \subseteq Supervised
        /\ T!BitesOnlyHung'
    BY <1>a, <2>1, BootAssumption DEF T!BitesOnlyHung, BootInv
  <2> QED
    BY <1>a, <2>1, <2>2 DEF BootInv, BootTypes, Restarts, Recorded, InOrder, T!record, T!fault, T!previous
<1>8. CASE T!Tick
  <2>1. bootAt = 15 /\ rtc' = [rtc EXCEPT !.fails = bootFailures]
        /\ UNCHANGED <<bootAt, mirror, prev, bootFailures, T!fault, trial, T!tasks, bootQueue, left>>
    BY <1>8, <1>a, StepIs, BootAssumption DEF T!Tick, T!mirrors
  <2>2. rtc' = rtc
    BY <1>a, <2>1 DEF BootInv, Recorded
  <2> QED
    BY <1>a, <2>1, <2>2 DEF BootInv, BootTypes, Restarts, Recorded, InOrder, T!BitesOnlyHung, T!fault, T!tasks, T!previous
<1>9. ASSUME NEW t \in Supervised, T!Fail(t) PROVE BootInv'
  <2>1. bootAt > 2 /\ bootFailures' = bootFailures + 1 /\ mirror' = mirror /\ rtc' = [rtc EXCEPT !.fails = bootFailures']
        /\ left' = [left EXCEPT !.fails = @ + 1] /\ UNCHANGED <<bootAt, prev, T!fault, trial, T!tasks, bootQueue>>
    BY <1>9, <1>a, PastIs, BootAssumption DEF T!Fail, T!mirrors
  <2>2. /\ rtc' \in [layout : {"noise", "RTM2", "RTM3"}, fails : Nat, marked : BOOLEAN] /\ left' \in Figures
           /\ bootFailures' \in Nat
        /\ rtc'.fails = bootFailures' /\ rtc'.layout = rtc.layout /\ rtc'.marked = rtc.marked
        /\ left'.fails = left.fails + 1 /\ left'.known = left.known /\ left'.faultsKnown = left.faultsKnown
           /\ left'.marked = left.marked
    BY <1>a, <2>1 DEF Figures
  <2>3. Recorded'
    BY <2>1, <2>2, <1>a DEF BootInv, Recorded
  <2> QED
    BY <1>a, <2>1, <2>2, <2>3 DEF BootInv, BootTypes, Restarts, InOrder, T!BitesOnlyHung, T!fault, T!tasks
<1>10. ASSUME NEW t \in Supervised, T!Store(t) PROVE BootInv'
  BY <1>10, <1>a DEF T!Store
<1>11. CASE T!Work
  <2>1. PICK t \in Supervised : T!Long(t) \/ T!Resume(t) \/ T!Ends(t) \/ T!Hang(t)
    BY <1>11 DEF T!Work
  <2>2. UNCHANGED <<bootAt, T!record, T!fault, trial, bootQueue, left>>
    BY <2>1 DEF T!Long, T!Resume, T!Ends, T!Hang
  <2>3. task' \in [Supervised -> {"none", "runs", "long", "hung", "ended"}] /\ watched' \subseteq Supervised
        /\ T!BitesOnlyHung'
    BY <1>a, <2>1 DEF BootInv, T!BitesOnlyHung, T!Long, T!Resume, T!Ends, T!Hang
  <2> QED
    BY <1>a, <2>2, <2>3 DEF BootInv, BootTypes, Restarts, Recorded, InOrder, T!record, T!fault, T!previous
<1>12. CASE T!Ask
  <2>1. scheduled' = scheduled \cup {"asked"}
        /\ UNCHANGED <<bootAt, T!record, tries, inRow, trial, T!tasks, bootQueue, left>>
    BY <1>12 DEF T!Ask
  <2> QED
    BY <1>a, <2>1 DEF BootInv, BootTypes, Restarts, Recorded, InOrder, T!BitesOnlyHung, T!record, T!tasks, T!previous
<1>13. CASE T!Restart
  <2>1. bootAt = 15 /\ T!Reset /\ rtc' = [rtc EXCEPT !.marked = TRUE]
        /\ left' = [left EXCEPT !.marked = TRUE] /\ tries' = tries
        /\ inRow' = (IF "fault" \in scheduled THEN inRow + 1 ELSE inRow)
    BY <1>13, <1>a, StepIs DEF T!Restart
  <2>2. left = [known |-> TRUE, faultsKnown |-> TRUE, fails |-> bootFailures, marked |-> FALSE]
        /\ rtc = [layout |-> "RTM3", fails |-> bootFailures, marked |-> FALSE]
    BY <1>a, <2>1 DEF BootInv, Recorded, Figures
  <2>3. left' = [known |-> TRUE, faultsKnown |-> TRUE, fails |-> bootFailures, marked |-> TRUE]
        /\ rtc' = [layout |-> "RTM3", fails |-> bootFailures, marked |-> TRUE]
    BY <2>1, <2>2
  <2>4. T!previous(rtc)' = left' /\ left' \in Figures
        /\ rtc' \in [layout : {"noise", "RTM2", "RTM3"}, fails : Nat, marked : BOOLEAN]
    BY <1>a, <2>3 DEF T!previous, Figures
  <2>5. inRow' \in Nat /\ inRow' <= tries
    BY <1>a, <2>1 DEF BootInv, Restarts
  <2> QED
    BY <2>1, <2>4, <2>5, ResetKeeps
<1>14. CASE T!Panic
  <2>1. T!Reset /\ UNCHANGED <<rtc, tries, inRow, left>>
    BY <1>14 DEF T!Panic
  <2>2. T!previous(rtc)' = left' /\ inRow' <= tries
    BY <1>a, <2>1, LeftIsRecorded DEF T!previous, BootInv, Restarts
  <2> QED
    BY <1>a, <2>1, <2>2, ResetKeeps
<1>15. CASE T!Abort
  <2>1. bootAt > 2 /\ T!Reset /\ rtc' = [rtc EXCEPT !.fails = bootFailures] /\ UNCHANGED <<tries, inRow, left>>
    BY <1>15, <1>a, PastIs DEF T!Abort
  <2>2. rtc' = rtc
    BY <1>a, <2>1 DEF BootInv, Recorded
  <2>3. T!previous(rtc)' = left' /\ inRow' <= tries
    BY <1>a, <2>1, <2>2, LeftIsRecorded DEF T!previous, BootInv, Restarts
  <2> QED
    BY <1>a, <2>1, <2>2, <2>3, ResetKeeps
<1>16. CASE T!Cut
  <2>1. T!Reset /\ rtc' = T!noise /\ left' = T!nothing /\ UNCHANGED <<tries, inRow>>
    BY <1>16 DEF T!Cut
  <2>2. T!previous(rtc)' = left' /\ left' \in Figures /\ inRow' <= tries
        /\ rtc' \in [layout : {"noise", "RTM2", "RTM3"}, fails : Nat, marked : BOOLEAN]
    BY <1>a, <2>1 DEF T!previous, T!noise, T!nothing, Figures, BootInv, Restarts
  <2> QED
    BY <1>a, <2>1, <2>2, ResetKeeps
<1>17. CASE UNCHANGED T!vars
  BY <1>17 DEF T!vars, BootInv, BootTypes, Restarts, Recorded, InOrder, T!BitesOnlyHung, T!record, T!fault,
       T!tasks, T!previous
<1> QED
  BY <1>1, <1>2, <1>3, <1>4, <1>5, <1>6, <1>7, <1>8, <1>9, <1>10, <1>11, <1>12, <1>13, <1>14, <1>15, <1>16, <1>17
     DEF T!Next, T!OnGoing, T!Memory, T!Bite

\* Of main.cpp, Diag.cpp, BootRecord.h and Watchdog.cpp: for any number of
\* retries, of failed allocations and of supervised tasks, in whatever order
\* faults, restarts and cuts fall, the restarts for a missing task are bounded,
\* the watchdog bites a task that hangs and no other, the queue is there before
\* the server, the run is told what the last one left, and no restart of the
\* node's own meets an image on trial.
THEOREM BootsAlwaysTrue == T!Spec => BootsTrue
<1>1. BootInv => T!RestartsBounded /\ T!BitesOnlyHung /\ T!QueueFirst
  BY PastIs, BootAssumption DEF BootInv, BootTypes, Restarts, InOrder, T!RestartsBounded, T!QueueFirst
<1>2. BootInv => (T!Claim => prev' = left)
  BY LeftIsRecorded DEF T!Claim
<1>3. BootInv => (T!Restart => trial # "pending")
  BY StepIs DEF BootInv, BootTypes, InOrder, T!Restart
<1> QED
  BY <1>1, <1>2, <1>3, BootInit, BootNext, PTL DEF T!Spec, BootsTrue, T!ToldTruly, T!KeepsImage

-----------------------------------------------------------------------------
(* Settings: what a job has copied, judged and put on flash so far, and     *)
(* that what two jobs are about does not meet.                              *)

Keys == UNION {K!ToSet(K!keys(s)) : s \in K!Sections}
Spans(S) == UNION {K!Fields(s) : s \in S}
Part(j) == j.req.parts[j.part]
SecsOf(j) == K!ToSet(Part(j).secs)
Grounds(j) == K!ground(j.req)
Waits(v, w) == v.at # "idle" /\ w.at # "idle"

Job(j) ==
  /\ j \in [at : {"copy", "judge", "save", "end", "reset"}, req : Requests, part : Nat,
            next : {j.next}, need : BOOLEAN, todo : Seq(K!Sections), left : Seq(Keys),
            ok : BOOLEAN, saved : BOOLEAN]
  /\ j.part \in 1 .. Len(j.req.parts) /\ (j.req.kind = "reset" <=> j.at = "reset")

\* The copy is the section, but for what was asked; v is the memory.
Copied(j, v) ==
  /\ DOMAIN j.next = Spans(SecsOf(j)) /\ DOMAIN Part(j).asks \subseteq Spans(SecsOf(j))
  /\ \A f \in Spans(SecsOf(j)) \ DOMAIN Part(j).asks : j.next[f] = v[f]

\* What a save has done: sections in memory, keys on flash (k).
Saves(j, v, k) ==
  /\ K!ToSet(j.todo) \subseteq SecsOf(j)
  /\ \A x \in K!ToSet(j.left) :
       (\E s \in SecsOf(j) : x \in K!ToSet(K!keys(s))) /\ (x # "l_wifi" => v[x] = j.next[x])
  /\ \A s \in SecsOf(j) \ K!ToSet(j.todo) :
       /\ \A f \in K!Fields(s) : v[f] = j.next[f]
       /\ j.ok => \A x \in K!ToSet(K!keys(s)) \ K!ToSet(j.left) :
                    x \in DOMAIN k /\ (x # "l_wifi" => k[x] = j.next[x])
  /\ j.saved \/ j.left # <<>> \/ j.todo # <<>>

\* What was judged: it holds of what will be in force.
Doors == {"links", "maintenance"}
Judged(j, v) ==
  /\ "radio" \in SecsOf(j) => K!legal(K!Over(j.next, v))
  /\ SecsOf(j) \cap Doors # {} => ~K!lockedOut(K!Over(j.next, v))

\* A restart is asked for where a field needs one (r is what the node runs).
Asks(j, r, armed) ==
  j.req.kind # "import" /\ ~j.need /\ ~armed =>
    \A f \in K!RestartFields \cap Spans(SecsOf(j)) : r[f] = j.next[f]

JobInv(j, v, k, r, armed, lost) ==
  j # K!Idle =>
    /\ Job(j)
    /\ j.at \in {"judge", "save"} => Copied(j, v)
    /\ j.at \in {"copy", "judge"} => j.left = << >>
    /\ j.at = "judge" => j.ok
    /\ j.at = "save" => Saves(j, v, k) /\ (j.ok \/ lost) /\ (lost \/ (Judged(j, v) /\ Asks(j, r, armed)))

Armed == pending \/ batch.wish
AtSave(s, j) == j.at = "save" /\ s \in SecsOf(j)
Loose(f, j) ==
  \/ j.at = "save" /\ f \in Spans(SecsOf(j))
  \/ j.at # "idle" /\ j.req.kind = "import" /\ j.saved /\ f \in Spans(Grounds(j))

Jobs == /\ DOMAIN jobs = K!Tasks
        /\ \A w \in K!Tasks : JobInv(jobs[w], ram, flash, running, Armed, astray)
Lone(j) == j.req.kind \in {"form", "reset"}
Aside(i, j) == ~Lone(i) /\ ~Lone(j) /\ Grounds(i) \cap Grounds(j) = {}
JobsApart == \A w, x \in K!Tasks : w # x /\ K!busy(w) /\ K!busy(x) => Aside(jobs[w], jobs[x])

Forms ==
  /\ batch \in [open : BOOLEAN, wish : BOOLEAN] /\ (batch.wish => batch.open)
  /\ batch.open => \E w \in K!Tasks : K!busy(w) /\ K!form(w)

\* What was told is in memory and on flash.
Holds ==
  /\ pending \in BOOLEAN /\ astray \in BOOLEAN
  /\ ram = [f \in K!AllFields |-> ram[f]] /\ running = [f \in K!Applied |-> running[f]]
  /\ \A f \in DOMAIN kept : f \in K!AllFields /\ kept[f] = ram[f] /\ f \in DOMAIN flash /\ flash[f] = kept[f]

\* Where nobody saves, flash is what memory is; memory keeps the rules; and
\* what runs is memory, but where a restart or a job will still see to it.
Settled == astray \/ \A s \in K!Sections :
  (\A w \in K!Tasks : ~AtSave(s, jobs[w])) => \A f \in K!Fields(s) : K!Load(flash)[f] = ram[f]
Sane ==
  /\ astray \/ K!legal(ram) \/ \E w \in K!Tasks : AtSave("radio", jobs[w])
  /\ astray \/ ~K!lockedOut(ram) \/ \E w \in K!Tasks, s \in Doors : AtSave(s, jobs[w])
Runs == astray \/ Armed \/ \A f \in K!Applied : running[f] = ram[f] \/ \E w \in K!Tasks : Loose(f, jobs[w])

SettingsInv == Jobs /\ JobsApart /\ Forms /\ Holds /\ Settled /\ Sane /\ Runs

LEMMA KeysAre ==
  /\ K!keys("radio") = <<"freq", "region">> /\ K!ToSet(K!keys("radio")) = {"freq", "region"}
  /\ K!keys("wifi") = <<"shape", "power">> /\ K!ToSet(K!keys("wifi")) = {"shape", "power"}
  /\ K!keys("transport") = <<"mode", "move">> /\ K!ToSet(K!keys("transport")) = {"mode", "move"}
  /\ K!keys("links") = <<"l_wifi", "ap", "sta", "usb">> /\ K!ToSet(K!keys("links")) = {"l_wifi", "ap", "sta", "usb"}
  /\ K!keys("maintenance") = <<"console", "web", "admins">> /\ K!ToSet(K!keys("maintenance")) = {"console", "web", "admins"}
  /\ K!keys("admin") = <<"password">> /\ K!ToSet(K!keys("admin")) = {"password"}
<1>1. K!keys("radio") = <<"freq", "region">>
  BY DEF K!keys
<1>2. K!keys("wifi") = <<"shape", "power">>
  BY DEF K!keys
<1>3. K!keys("transport") = <<"mode", "move">>
  BY DEF K!keys
<1>4. K!keys("links") = <<"l_wifi", "ap", "sta", "usb">>
  BY DEF K!keys
<1>5. K!keys("maintenance") = <<"console", "web", "admins">>
  BY DEF K!keys
<1>6. K!keys("admin") = <<"password">>
  BY DEF K!keys
<1> QED
  BY <1>1, <1>2, <1>3, <1>4, <1>5, <1>6 DEF K!ToSet

\* What the rest needs of them.
LEMMA KeysSound ==
  /\ \A s \in K!Sections : K!keys(s) \in Seq(Keys) /\ K!keys(s) # <<>>
  /\ \A s, t \in K!Sections : s # t => K!ToSet(K!keys(s)) \cap K!ToSet(K!keys(t)) = {}
  /\ \A s \in K!Sections : K!Fields(s) \subseteq K!AllFields /\ K!Fields(s) = K!ToSet(K!keys(s)) \ {"l_wifi"}
  /\ \A f \in K!AllFields : \E s \in K!Sections : f \in K!Fields(s)
  /\ "l_wifi" \notin K!AllFields
  /\ K!Applied \subseteq K!AllFields
<1>1. \A s \in K!Sections : K!keys(s) # <<>>
  BY DEF K!Sections, K!keys
<1>2. {"freq", "region", "shape", "power", "mode", "move", "l_wifi", "ap", "sta", "usb",
       "console", "web", "admins", "password"} \subseteq Keys
  BY KeysAre DEF Keys, K!Sections
<1>3. \A s \in K!Sections : K!keys(s) \in Seq(Keys)
  <2>1. <<"freq", "region">> \in Seq(Keys)
    BY <1>2
  <2>2. <<"shape", "power">> \in Seq(Keys)
    BY <1>2
  <2>3. <<"mode", "move">> \in Seq(Keys)
    BY <1>2
  <2>4. <<"l_wifi", "ap", "sta", "usb">> \in Seq(Keys)
    BY <1>2
  <2>5. <<"console", "web", "admins">> \in Seq(Keys)
    BY <1>2
  <2>6. <<"password">> \in Seq(Keys)
    BY <1>2
  <2> QED
    BY <2>1, <2>2, <2>3, <2>4, <2>5, <2>6, KeysAre DEF K!Sections
<1>5. \A s, t \in K!Sections : s # t => K!ToSet(K!keys(s)) \cap K!ToSet(K!keys(t)) = {}
  BY KeysAre DEF K!Sections
<1> QED
  BY <1>1, <1>3, <1>5 DEF K!Fields, K!AllFields, K!Applied

\* Load: a key that is there is taken, and the rest of a section depends on
\* that section's keys alone.
LEMMA LoadIs ==
  ASSUME NEW k
  PROVE  /\ DOMAIN K!Load(k) = K!AllFields
         /\ K!Load(k) = [f \in K!AllFields |-> K!Load(k)[f]]
         /\ \A f \in K!AllFields \cap DOMAIN k : K!Load(k)[f] = k[f]
BY DEF K!Load

Agree(k, l, S) == \A x \in S : (x \in DOMAIN k <=> x \in DOMAIN l) /\ (x \in DOMAIN k => k[x] = l[x])

LEMMA LoadLocal ==
  ASSUME NEW k, NEW l, NEW s \in K!Sections, Agree(k, l, K!ToSet(K!keys(s)))
  PROVE  \A f \in K!Fields(s) : K!Load(k)[f] = K!Load(l)[f]
<1>0. DOMAIN K!Default = K!AllFields
  BY DEF K!Default
<1>1. CASE s = "links"
  BY <1>0, <1>1, KeysAre, KeysSound DEF Agree, K!Load, K!Over, K!Default
<1>2. CASE s = "radio"
  BY <1>0, <1>2, KeysAre, KeysSound DEF Agree, K!Load, K!Over, K!Default
<1>3. CASE s \notin {"links", "radio"}
  <2>1. \A f \in K!Fields(s) : f \in K!AllFields /\ f \notin {"region", "ap", "sta"} /\ f \in K!ToSet(K!keys(s))
    BY <1>3, KeysAre, KeysSound DEF K!Sections
  <2> QED
    BY <1>0, <2>1 DEF Agree, K!Load, K!Over
<1> QED
  BY <1>1, <1>2, <1>3

\* What the two rules read.
LEMMA RulesLocal ==
  ASSUME NEW v, NEW w
  PROVE  /\ (\A f \in K!Fields("radio") : v[f] = w[f]) => (K!legal(v) <=> K!legal(w))
         /\ (\A s \in Doors : \A f \in K!Fields(s) : v[f] = w[f]) => (K!lockedOut(v) <=> K!lockedOut(w))
<1>1. {"freq", "region"} \subseteq K!Fields("radio") /\ {"ap", "sta", "usb"} \subseteq K!Fields("links")
      /\ {"console", "web"} \subseteq K!Fields("maintenance")
  BY KeysAre, KeysSound DEF K!Sections
<1>2. (\A f \in K!Fields("radio") : v[f] = w[f]) => (K!legal(v) <=> K!legal(w))
  BY <1>1 DEF K!legal
<1>3. ASSUME \A s \in Doors : \A f \in K!Fields(s) : v[f] = w[f] PROVE K!lockedOut(v) <=> K!lockedOut(w)
  <2>1. v["ap"] = w["ap"] /\ v["sta"] = w["sta"] /\ v["usb"] = w["usb"]
        /\ v["console"] = w["console"] /\ v["web"] = w["web"]
    BY <1>1, <1>3 DEF Doors
  <2> QED
    BY <2>1 DEF K!lockedOut
<1> QED
  BY <1>2, <1>3

LEMMA JobFacts ==
  ASSUME NEW j, Job(j)
  PROVE  /\ SecsOf(j) \subseteq K!Sections /\ SecsOf(j) \subseteq Grounds(j)
         /\ Spans(SecsOf(j)) \subseteq K!AllFields /\ Spans(SecsOf(j)) \subseteq Spans(Grounds(j))
         /\ DOMAIN Part(j).asks \subseteq Spans(SecsOf(j))
         /\ SecsOf(j) \cap Doors # {} => Doors \subseteq Grounds(j)
         /\ j.at # "reset" => Part(j).secs # << >> /\ Part(j).secs \in Seq(K!Sections)
<1>1. /\ j.req \in Requests /\ j.part \in DOMAIN j.req.parts
      /\ (j.req.kind = "reset" <=> j.at = "reset")
  BY RequestsAssumption DEF Job
<1>2. /\ Part(j).secs \in Seq(K!Sections) /\ (Part(j).secs = << >> => j.req.kind = "reset")
      /\ DOMAIN Part(j).asks \subseteq UNION {K!Fields(Part(j).secs[n]) : n \in DOMAIN Part(j).secs}
  BY <1>1, RequestsAssumption DEF Part
<1>3. SecsOf(j) \subseteq K!Sections
  BY <1>2 DEF SecsOf, K!ToSet
<1>4. DOMAIN Part(j).asks \subseteq Spans(SecsOf(j))
  BY <1>2 DEF Spans, SecsOf, K!ToSet
<1>5. Spans(SecsOf(j)) \subseteq K!AllFields
  BY <1>3, KeysSound DEF Spans
<1>6. SecsOf(j) \subseteq UNION {K!ToSet(p.secs) : p \in K!ToSet(j.req.parts)}
  BY <1>1 DEF SecsOf, Part, K!ToSet
<1>7. SecsOf(j) \subseteq Grounds(j) /\ (SecsOf(j) \cap Doors # {} => Doors \subseteq Grounds(j))
  BY <1>6 DEF Grounds, K!ground, Doors
<1>8. Spans(SecsOf(j)) \subseteq Spans(Grounds(j))
  BY <1>7 DEF Spans
<1> QED
  BY <1>1, <1>2, <1>3, <1>4, <1>5, <1>7, <1>8

LEMMA GroundsIn ==
  ASSUME NEW j, Job(j)
  PROVE  Grounds(j) \subseteq K!Sections
<1>1. j.req \in Requests /\ \A i \in DOMAIN j.req.parts : j.req.parts[i].secs \in Seq(K!Sections)
  BY RequestsAssumption DEF Job
<1>2. \A i \in DOMAIN j.req.parts : K!ToSet(j.req.parts[i].secs) \subseteq K!Sections
  BY <1>1 DEF K!ToSet
<1>3. UNION {K!ToSet(p.secs) : p \in K!ToSet(j.req.parts)} \subseteq K!Sections
  BY <1>2 DEF K!ToSet
<1> QED
  BY <1>3 DEF Grounds, K!ground, K!Sections

\* A job sees nothing of what happens outside the ground of its request.
LEMMA JobStays ==
  ASSUME NEW j, NEW v, NEW k, NEW r, NEW armed, NEW lost, NEW v2, NEW k2, NEW r2, NEW armed2, NEW lost2,
         armed \in BOOLEAN, lost \in BOOLEAN, armed2 \in BOOLEAN, lost2 \in BOOLEAN,
         JobInv(j, v, k, r, armed, lost), armed => armed2, lost => lost2,
         DOMAIN v = K!AllFields, DOMAIN v2 = K!AllFields,
         \A s \in Grounds(j) \cap K!Sections :
           /\ \A f \in K!Fields(s) : v2[f] = v[f] /\ (f \in K!Applied => r2[f] = r[f])
           /\ Agree(k, k2, K!ToSet(K!keys(s)))
  PROVE  JobInv(j, v2, k2, r2, armed2, lost2)
<1> SUFFICES ASSUME j # K!Idle PROVE JobInv(j, v2, k2, r2, armed2, lost2)
  BY DEF JobInv
<1>1. Job(j)
  BY DEF JobInv
<1>2. /\ SecsOf(j) \subseteq Grounds(j) \cap K!Sections
      /\ (SecsOf(j) \cap Doors # {} => Doors \subseteq Grounds(j) \cap K!Sections)
  BY <1>1, JobFacts DEF Doors, K!Sections
<1>3. \A f \in Spans(SecsOf(j)) : v2[f] = v[f] /\ (f \in K!Applied => r2[f] = r[f])
  BY <1>2 DEF Spans
<1>4. Copied(j, v) => Copied(j, v2)
  BY <1>3 DEF Copied
<1>5. Saves(j, v, k) => Saves(j, v2, k2)
  <2> SUFFICES ASSUME Saves(j, v, k) PROVE Saves(j, v2, k2)
    OBVIOUS
  <2>1. ASSUME NEW x \in K!ToSet(j.left), x # "l_wifi" PROVE v2[x] = j.next[x]
    <3>1. PICK s \in SecsOf(j) : x \in K!ToSet(K!keys(s))
      BY <2>1 DEF Saves
    <3>2. x \in K!Fields(s)
      BY <1>2, <2>1, <3>1, KeysSound
    <3> QED
      BY <1>2, <2>1, <3>2 DEF Saves
  <2>2. ASSUME NEW s \in SecsOf(j) \ K!ToSet(j.todo) PROVE \A f \in K!Fields(s) : v2[f] = j.next[f]
    BY <1>2 DEF Saves
  <2>3. ASSUME NEW s \in SecsOf(j) \ K!ToSet(j.todo), j.ok, NEW x \in K!ToSet(K!keys(s)) \ K!ToSet(j.left)
        PROVE  x \in DOMAIN k2 /\ (x # "l_wifi" => k2[x] = j.next[x])
    BY <1>2, <2>3 DEF Saves, Agree
  <2> QED
    BY <2>1, <2>2, <2>3 DEF Saves
<1>6. Judged(j, v) => Judged(j, v2)
  <2>1. \A f \in K!AllFields : v2[f] = v[f] => K!Over(j.next, v2)[f] = K!Over(j.next, v)[f]
    BY DEF K!Over
  <2>2. \A s \in Grounds(j) \cap K!Sections : \A f \in K!Fields(s) : K!Over(j.next, v2)[f] = K!Over(j.next, v)[f]
    BY <2>1, KeysSound
  <2> DEFINE o == K!Over(j.next, v)  p == K!Over(j.next, v2)
  <2> HIDE DEF o, p
  <2>3. \A s \in Grounds(j) \cap K!Sections : \A f \in K!Fields(s) : p[f] = o[f]
    BY <2>2 DEF o, p
  <2>4. "radio" \in SecsOf(j) => (K!legal(p) <=> K!legal(o))
    BY <1>2, <2>3, RulesLocal
  <2>5. SecsOf(j) \cap Doors # {} => (K!lockedOut(p) <=> K!lockedOut(o))
    BY <1>2, <2>3, RulesLocal
  <2> QED
    BY <2>4, <2>5 DEF Judged, o, p
<1>7. Asks(j, r, armed) => Asks(j, r2, armed2)
  <2>1. K!RestartFields \cap Spans(SecsOf(j)) \subseteq K!Applied
    BY <1>1, JobFacts DEF K!RestartFields, K!Applied, K!ReadLive
  <2> QED
    BY <1>3, <2>1 DEF Asks
<1> QED
  BY <1>1, <1>4, <1>5, <1>6, <1>7 DEF JobInv

LEMMA JobIs ==
  ASSUME SettingsInv, NEW w \in K!Tasks
  PROVE  /\ JobInv(jobs[w], ram, flash, running, Armed, astray)
         /\ (jobs[w] = K!Idle <=> ~K!busy(w)) /\ (K!busy(w) => Job(jobs[w]))
         /\ K!now(w) = Part(jobs[w]) /\ K!secs(w) = SecsOf(jobs[w]) /\ K!asks(w) = DOMAIN Part(jobs[w]).asks
         /\ DOMAIN jobs = K!Tasks /\ {Armed, astray, pending} \subseteq BOOLEAN /\ DOMAIN ram = K!AllFields
<1>1. JobInv(jobs[w], ram, flash, running, Armed, astray)
  BY DEF SettingsInv, Jobs
<1>2. Job(jobs[w]) => jobs[w].at # "idle"
  BY DEF Job
<1>3. K!Idle.at = "idle"
  BY DEF K!Idle
<1>4. /\ K!now(w) = Part(jobs[w]) /\ K!secs(w) = SecsOf(jobs[w])
      /\ K!asks(w) = DOMAIN Part(jobs[w]).asks
  BY DEF K!now, Part, K!secs, SecsOf, K!asks
<1>5. DOMAIN jobs = K!Tasks /\ {Armed, astray, pending} \subseteq BOOLEAN /\ DOMAIN ram = K!AllFields
  BY DEF SettingsInv, Jobs, Forms, Holds, Armed
<1> QED
  BY <1>1, <1>2, <1>3, <1>4, <1>5 DEF JobInv, K!busy

\* What a job saves is on nobody else's ground.
LEMMA Elsewhere ==
  ASSUME SettingsInv, NEW w \in K!Tasks, NEW x \in K!Tasks, x # w, K!busy(w), K!busy(x),
         NEW s \in Grounds(jobs[x]) \cap K!Sections
  PROVE  /\ s \notin SecsOf(jobs[w])
         /\ \A f \in K!Fields(s) : f \notin Spans(SecsOf(jobs[w]))
<1>1. Grounds(jobs[x]) \cap Grounds(jobs[w]) = {}
  BY DEF SettingsInv, JobsApart, Aside
<1>2. SecsOf(jobs[w]) \subseteq Grounds(jobs[w]) \cap K!Sections
  BY JobIs, JobFacts
<1>3. s \notin SecsOf(jobs[w])
  BY <1>1, <1>2
<1> QED
  BY <1>2, <1>3, KeysSound DEF Spans

LEMMA OneMoves ==
  ASSUME SettingsInv, NEW w \in K!Tasks, NEW j, jobs' = [jobs EXCEPT ![w] = j],
         JobInv(j, ram', flash', running', Armed', astray'),
         Armed => Armed', astray => astray', {Armed', astray'} \subseteq BOOLEAN,
         DOMAIN ram' = K!AllFields,
         K!busy(w) \/ UNCHANGED <<ram, flash, running>>,
         \A s \in K!Sections \ SecsOf(jobs[w]) :
           /\ \A f \in K!Fields(s) : ram'[f] = ram[f] /\ (f \in K!Applied => running'[f] = running[f])
           /\ Agree(flash, flash', K!ToSet(K!keys(s)))
  PROVE  Jobs'
<1>1. DOMAIN jobs' = K!Tasks /\ jobs'[w] = j /\ \A x \in K!Tasks : x # w => jobs'[x] = jobs[x]
  BY JobIs
<1>2. ASSUME NEW x \in K!Tasks, x # w, jobs[x] # K!Idle
      PROVE  JobInv(jobs[x], ram', flash', running', Armed', astray')
  <2>1. JobInv(jobs[x], ram, flash, running, Armed, astray) /\ K!busy(x) /\ DOMAIN ram = K!AllFields
        /\ {Armed, astray} \subseteq BOOLEAN
    BY <1>2, JobIs
  <2>2. ASSUME NEW s \in Grounds(jobs[x]) \cap K!Sections
        PROVE  /\ \A f \in K!Fields(s) : ram'[f] = ram[f] /\ (f \in K!Applied => running'[f] = running[f])
               /\ Agree(flash, flash', K!ToSet(K!keys(s)))
    <3>1. CASE K!busy(w)
      BY <1>2, <2>1, <2>2, <3>1, Elsewhere
    <3>2. CASE UNCHANGED <<ram, flash, running>>
      BY <3>2 DEF Agree
    <3> QED
      BY <3>1, <3>2
  <2> QED
    BY <2>1, <2>2, JobStays
<1>3. \A x \in K!Tasks : JobInv(jobs'[x], ram', flash', running', Armed', astray')
  BY <1>1, <1>2 DEF JobInv
<1> QED
  BY <1>1, <1>3 DEF Jobs

LEMMA ApartStays ==
  ASSUME SettingsInv, NEW w \in K!Tasks, NEW j, jobs' = [jobs EXCEPT ![w] = j],
         j = K!Idle \/ (K!busy(w) /\ j.req = jobs[w].req)
  PROVE  JobsApart'
<1>1. jobs'[w] = j /\ \A x \in K!Tasks : x # w => jobs'[x] = jobs[x]
  BY JobIs
<1>2. K!Idle.at = "idle"
  BY DEF K!Idle
<1>3. ASSUME NEW x \in K!Tasks, NEW y \in K!Tasks, x # y, jobs'[x].at # "idle", jobs'[y].at # "idle"
      PROVE  Aside(jobs'[x], jobs'[y])
  <2>1. /\ K!busy(x) /\ K!busy(y)
        /\ jobs'[x].req = jobs[x].req /\ jobs'[y].req = jobs[y].req
    BY <1>1, <1>2, <1>3 DEF K!busy
  <2>2. Aside(jobs[x], jobs[y])
    BY <1>3, <2>1 DEF SettingsInv, JobsApart
  <2> QED
    BY <2>1, <2>2 DEF Aside, Lone, Grounds
<1> QED
  BY <1>3 DEF JobsApart, K!busy

LEMMA FormsStay ==
  ASSUME SettingsInv, NEW w \in K!Tasks, K!busy(w), NEW j, jobs' = [jobs EXCEPT ![w] = j],
         IF j = K!Idle
         THEN batch' = IF K!form(w) THEN [open |-> FALSE, wish |-> FALSE] ELSE batch
         ELSE /\ j.at # "idle" /\ j.req = jobs[w].req
              /\ batch' = batch \/ (batch.open /\ batch' = [batch EXCEPT !.wish = TRUE])
  PROVE  Forms'
<1>1. jobs'[w] = j /\ \A x \in K!Tasks : x # w => jobs'[x] = jobs[x]
  BY JobIs
<1>2. Forms /\ \A x \in K!Tasks : K!busy(x) /\ K!form(x) => x = w
  <2>1. ASSUME NEW x \in K!Tasks, K!busy(x), K!form(x), x # w PROVE FALSE
    <3>1. Aside(jobs[w], jobs[x])
      BY <2>1 DEF SettingsInv, JobsApart
    <3> QED
      BY <2>1, <3>1 DEF Aside, Lone, K!form
  <2> QED
    BY <2>1 DEF SettingsInv
<1>3. CASE j = K!Idle
  <2>1. CASE K!form(w)
    <3>1. batch' = [open |-> FALSE, wish |-> FALSE]
      BY <1>3, <2>1
    <3>2. batch'.open = FALSE /\ batch'.wish = FALSE /\ batch' \in [open : BOOLEAN, wish : BOOLEAN]
      BY <3>1
    <3> QED
      BY <3>2 DEF Forms
  <2>2. CASE ~K!form(w)
    <3>1. ~batch.open /\ batch' = batch
      BY <1>2, <1>3, <2>2 DEF Forms
    <3> QED
      BY <1>2, <3>1 DEF Forms
  <2> QED
    BY <2>1, <2>2
<1>4. CASE j # K!Idle
  <2>1. batch' \in [open : BOOLEAN, wish : BOOLEAN] /\ (batch'.wish => batch'.open) /\ batch'.open = batch.open
    BY <1>2, <1>4 DEF Forms
  <2>2. batch.open => K!busy(w)' /\ K!form(w)'
    BY <1>1, <1>2, <1>4 DEF Forms, K!busy, K!form
  <2> QED
    BY <2>1, <2>2 DEF Forms
<1> QED
  BY <1>3, <1>4

\* What was not being saved and is touched by nobody is as settled as it was.
LEMMA NothingStored ==
  ASSUME SettingsInv, NEW w \in K!Tasks, NEW j, jobs' = [jobs EXCEPT ![w] = j],
         UNCHANGED <<ram, flash, running, kept>>, jobs[w].at # "save",
         Armed => Armed', astray => astray', {pending', astray'} \subseteq BOOLEAN,
         \A f : Loose(f, jobs[w]) => Loose(f, j) \/ Armed' \/ astray'
  PROVE  Holds' /\ Settled' /\ Sane' /\ Runs'
<1>1. jobs'[w] = j /\ \A x \in K!Tasks : x # w => jobs'[x] = jobs[x]
  BY JobIs
<1>2. Holds'
  BY DEF SettingsInv, Holds
<1>3. \A s, x : x \in K!Tasks /\ AtSave(s, jobs[x]) => AtSave(s, jobs'[x])
  BY <1>1 DEF AtSave
<1>4. Settled'
  BY <1>3 DEF SettingsInv, Settled
<1>5. Sane'
  BY <1>3 DEF SettingsInv, Sane
<1>6. Runs'
  <2> SUFFICES ASSUME ~astray', ~Armed', NEW f \in K!Applied
               PROVE  running[f] = ram[f] \/ \E x \in K!Tasks : Loose(f, jobs'[x])
    BY DEF Runs
  <2>1. running[f] = ram[f] \/ \E x \in K!Tasks : Loose(f, jobs[x])
    BY DEF SettingsInv, Runs
  <2> QED
    BY <1>1, <2>1
<1> QED
  BY <1>2, <1>4, <1>5, <1>6

LEMMA CopyKeeps ==
  ASSUME SettingsInv, NEW w \in K!Tasks, K!Copy(w)
  PROVE  SettingsInv'
<1> DEFINE o == jobs[w]
           n == K!Over(Part(o).asks, [f \in Spans(SecsOf(o)) |-> ram[f]])
           j == [o EXCEPT !.at = "judge", !.need = FALSE, !.ok = TRUE, !.next = n]
<1>1. o.at = "copy" /\ K!busy(w) /\ Job(o) /\ o.left = << >> /\ o # K!Idle
  BY JobIs DEF K!Copy, K!busy, JobInv
<1>2. jobs' = [jobs EXCEPT ![w] = j] /\ UNCHANGED <<ram, flash, running, pending, batch, kept, astray>>
  BY JobIs DEF K!Copy, K!store, K!past, Spans
<1>3. Armed' = Armed
  BY <1>2 DEF Armed
<1> HIDE DEF n
<1>4. /\ j.at = "judge" /\ j.left = << >> /\ j.ok /\ j.req = o.req /\ j.part = o.part /\ j.next = n /\ j.saved = o.saved
      /\ Job(j) /\ j # K!Idle
  BY <1>1 DEF Job, K!Idle
<1> HIDE DEF j
<1>5. SecsOf(j) = SecsOf(o) /\ Part(j) = Part(o)
  BY <1>4 DEF SecsOf, Part
<1>6. Copied(j, ram)
  <2>1. DOMAIN n = Spans(SecsOf(o)) /\ \A f \in Spans(SecsOf(o)) \ DOMAIN Part(o).asks : n[f] = ram[f]
    BY DEF n, K!Over
  <2> QED
    BY <1>1, <1>4, <1>5, <2>1, JobFacts DEF Copied
<1>7. JobInv(j, ram, flash, running, Armed, astray)
  BY <1>4, <1>6 DEF JobInv
<1>8. Jobs'
  <2>1. \A s \in K!Sections : Agree(flash, flash, K!ToSet(K!keys(s)))
    BY DEF Agree
  <2> QED
    BY <1>1, <1>2, <1>3, <1>7, <2>1, OneMoves, JobIs
<1>9. JobsApart' /\ Forms'
  BY <1>1, <1>2, <1>4, ApartStays, FormsStay
<1>10. Holds' /\ Settled' /\ Sane' /\ Runs'
  <2>1. \A f : Loose(f, o) => Loose(f, j)
    BY <1>1, <1>4 DEF Loose, Grounds
  <2> QED
    BY <1>1, <1>2, <1>3, <2>1, NothingStored, JobIs
<1> QED
  BY <1>8, <1>9, <1>10 DEF SettingsInv

\* What would be in force: what was asked over what is there.
LEMMA WantedIs ==
  ASSUME SettingsInv, NEW w \in K!Tasks, jobs[w].at = "judge"
  PROVE  LET o == jobs[w]
             n == [f \in DOMAIN o.next |-> K!wanted(w)[f]]
         IN  /\ \A f \in K!AllFields : K!Over(n, ram)[f] = K!wanted(w)[f]
             /\ \A f \in Spans(SecsOf(o)) \ DOMAIN Part(o).asks : n[f] = ram[f]
             /\ DOMAIN n = Spans(SecsOf(o))
<1> DEFINE o == jobs[w]
           n == [f \in DOMAIN o.next |-> K!wanted(w)[f]]
<1>1. Job(o) /\ K!busy(w) /\ o # K!Idle /\ Copied(o, ram) /\ DOMAIN ram = K!AllFields
  BY JobIs DEF JobInv, K!busy
<1>2. K!wanted(w) = IF SecsOf(o) = {"links"} THEN K!Over(Part(o).asks, ram) ELSE K!Over(o.next, ram)
  BY JobIs DEF K!wanted
<1>3. /\ DOMAIN o.next = Spans(SecsOf(o)) /\ DOMAIN Part(o).asks \subseteq Spans(SecsOf(o))
      /\ \A f \in Spans(SecsOf(o)) \ DOMAIN Part(o).asks : o.next[f] = ram[f]
      /\ Spans(SecsOf(o)) \subseteq K!AllFields
  BY <1>1, JobFacts DEF Copied
<1> HIDE DEF o
<1>4. /\ DOMAIN K!wanted(w) = K!AllFields
      /\ \A f \in K!AllFields \ DOMAIN o.next : K!wanted(w)[f] = ram[f]
      /\ \A f \in Spans(SecsOf(o)) \ DOMAIN Part(o).asks : K!wanted(w)[f] = ram[f]
  BY <1>1, <1>2, <1>3 DEF K!Over
<1>5. /\ \A f \in K!AllFields : K!Over(n, ram)[f] = K!wanted(w)[f]
      /\ \A f \in Spans(SecsOf(o)) \ DOMAIN Part(o).asks : n[f] = ram[f]
      /\ DOMAIN n = Spans(SecsOf(o))
  <2>1. DOMAIN n = DOMAIN o.next /\ \A f \in DOMAIN o.next : n[f] = K!wanted(w)[f]
    OBVIOUS
  <2> HIDE DEF n
  <2>2. ASSUME NEW f \in K!AllFields PROVE K!Over(n, ram)[f] = K!wanted(w)[f]
    BY <1>1, <1>4, <2>1 DEF K!Over
  <2> QED
    BY <1>3, <1>4, <2>1, <2>2
<1> QED
  BY <1>5 DEF o

\* A judgement that lets a save go on.
LEMMA SaveStarts ==
  ASSUME SettingsInv, NEW w \in K!Tasks, K!Judge(w), ~K!refused(w),
         jobs'[w].at = "save"
  PROVE  SettingsInv'
<1> DEFINE o == jobs[w]
           n == [f \in DOMAIN o.next |-> K!wanted(w)[f]]
           d == \E f \in DOMAIN o.next \cap K!RestartFields : K!wanted(w)[f] # ram[f]
           j == [o EXCEPT !.at = "save", !.todo = Part(o).secs, !.next = n, !.need = d]
<1>1. o.at = "judge" /\ K!busy(w) /\ Job(o) /\ o.left = << >> /\ o # K!Idle /\ o.ok /\ Copied(o, ram)
  BY JobIs DEF K!Judge, K!busy, JobInv
<1>2. /\ jobs' = [jobs EXCEPT ![w] = j]
      /\ UNCHANGED <<ram, flash, running, pending, batch, kept, astray>>
  <2>1. K!goesOn(w, o).at # "save"
    BY <1>1 DEF Job, K!goesOn
  <2> QED
    BY <2>1, JobIs DEF K!Judge, K!store, K!past
<1>3. Armed' = Armed
  BY <1>2 DEF Armed
<1>4. /\ \A f \in K!AllFields : K!Over(n, ram)[f] = K!wanted(w)[f]
      /\ \A f \in Spans(SecsOf(o)) \ DOMAIN Part(o).asks : n[f] = ram[f]
      /\ DOMAIN n = Spans(SecsOf(o))
  BY <1>1, WantedIs
<1> HIDE DEF n
<1>5. \A f \in K!RestartFields \cap Spans(SecsOf(o)) : ~d => n[f] = ram[f]
  BY <1>1 DEF n, Copied
<1> HIDE DEF d
<1>6. d \in BOOLEAN /\ Part(o).secs \in Seq(K!Sections) /\ Part(o).secs # << >>
  BY <1>1, JobFacts DEF d
<1>7. /\ j.at = "save" /\ j.left = << >> /\ j.ok /\ j.req = o.req /\ j.part = o.part /\ j.next = n
      /\ j.todo = Part(o).secs /\ j.need = d /\ j.saved = o.saved
      /\ Job(j) /\ j # K!Idle
  BY <1>1, <1>6 DEF Job, K!Idle
<1> HIDE DEF j
<1>8. SecsOf(j) = SecsOf(o) /\ Part(j) = Part(o)
  BY <1>7 DEF SecsOf, Part
<1>9. Copied(j, ram)
  BY <1>1, <1>4, <1>7, <1>8, JobFacts DEF Copied
<1>10. Saves(j, ram, flash)
  BY <1>6, <1>7, <1>8 DEF Saves, SecsOf, K!ToSet
<1>11. Judged(j, ram)
  <2>1. /\ "radio" \in SecsOf(o) => K!legal(K!wanted(w))
        /\ SecsOf(o) \cap Doors # {} => ~K!lockedOut(K!wanted(w))
    BY JobIs DEF K!refused, K!LocksOut, Doors
  <2> DEFINE p == K!Over(n, ram)  q == K!wanted(w)
  <2> HIDE DEF p, q
  <2>2. \A s \in K!Sections : \A f \in K!Fields(s) : p[f] = q[f]
    BY <1>4, KeysSound DEF p, q
  <2>3. "radio" \in K!Sections /\ Doors \subseteq K!Sections
    BY DEF K!Sections, Doors
  <2>4. (K!legal(p) <=> K!legal(q)) /\ (K!lockedOut(p) <=> K!lockedOut(q))
    BY <2>2, <2>3, RulesLocal
  <2> QED
    BY <1>7, <1>8, <2>1, <2>4 DEF Judged, p, q
<1>12. astray \/ Asks(j, running, Armed)
  <2> SUFFICES ASSUME ~astray, o.req.kind # "import", ~d, ~Armed, NEW f \in K!RestartFields \cap Spans(SecsOf(o))
               PROVE  running[f] = n[f]
    BY <1>7, <1>8 DEF Asks
  <2>1. f \in K!Applied
    BY <1>1, JobFacts DEF K!RestartFields, K!Applied, K!ReadLive
  <2>2. running[f] = ram[f] \/ \E x \in K!Tasks : Loose(f, jobs[x])
    BY <2>1 DEF SettingsInv, Runs
  <2>3. ASSUME NEW x \in K!Tasks, Loose(f, jobs[x]) PROVE FALSE
    <3>1. x # w
      BY <1>1, <2>3 DEF Loose
    <3>2. K!busy(x)
      BY <2>3 DEF Loose, K!busy
    <3>3. f \in Spans(Grounds(jobs[x])) /\ f \in Spans(SecsOf(o))
      BY <2>3, <3>2, JobIs, JobFacts DEF Loose
    <3>4. PICK s \in SecsOf(o) : f \in K!Fields(s)
      BY <3>3 DEF Spans
    <3>5. s \in K!Sections /\ s \in Grounds(o)
      BY <1>1, JobFacts
    <3>6. Grounds(jobs[x]) \cap Grounds(o) = {}
      BY <1>1, <3>1, <3>2 DEF SettingsInv, JobsApart, Aside
    <3>7. PICK t \in Grounds(jobs[x]) : f \in K!Fields(t)
      BY <3>3 DEF Spans
    <3> QED
      BY <3>2, <3>4, <3>5, <3>6, <3>7, GroundsIn, JobIs, KeysSound
  <2> QED
    BY <1>5, <2>2, <2>3
<1>13. JobInv(j, ram, flash, running, Armed, astray)
  BY <1>7, <1>9, <1>10, <1>11, <1>12 DEF JobInv
<1>14. Jobs'
  <2>1. \A s \in K!Sections : Agree(flash, flash, K!ToSet(K!keys(s)))
    BY DEF Agree
  <2> QED
    BY <1>1, <1>2, <1>3, <1>13, <2>1, OneMoves, JobIs
<1>15. JobsApart' /\ Forms'
  BY <1>1, <1>2, <1>7, ApartStays, FormsStay
<1>16. Holds' /\ Settled' /\ Sane' /\ Runs'
  <2>1. \A f : Loose(f, o) => Loose(f, j)
    BY <1>1, <1>7 DEF Loose, Grounds
  <2> QED
    BY <1>1, <1>2, <1>3, <2>1, NothingStored, JobIs
<1> QED
  BY <1>14, <1>15, <1>16 DEF SettingsInv

LEMMA GoesOnIs ==
  ASSUME NEW w, NEW o, Job(o), o.at \in {"judge", "save"}, o.left = << >>
  PROVE  LET j == K!goesOn(w, o)
         IN  /\ Job(j) /\ j.at \in {"copy", "end"} /\ j # K!Idle
             /\ j.left = << >> /\ j.req = o.req /\ j.saved = o.saved
<1> DEFINE j == K!goesOn(w, o)
<1>0. o.part \in 1 .. Len(o.req.parts) /\ Len(o.req.parts) \in Nat
  BY RequestsAssumption DEF Job
<1>1. CASE o.part < Len(o.req.parts)
  <2>1. j = [o EXCEPT !.at = "copy", !.part = o.part + 1]
    BY <1>1 DEF K!goesOn
  <2> HIDE DEF j
  <2>2. o.part + 1 \in 1 .. Len(o.req.parts) /\ o.part + 1 \in Nat
    BY <1>0, <1>1
  <2>3. /\ j.at = "copy" /\ j.part = o.part + 1 /\ j.req = o.req /\ j.next = o.next /\ j.left = o.left
        /\ j.saved = o.saved /\ DOMAIN j = DOMAIN o
    BY <2>1 DEF Job
  <2>4. Job(j)
    BY <2>1, <2>2, <2>3 DEF Job
  <2> QED
    BY <2>3, <2>4 DEF K!Idle, j
<1>2. CASE ~(o.part < Len(o.req.parts))
  <2>1. j = [o EXCEPT !.at = "end"]
    BY <1>2 DEF K!goesOn
  <2> QED
    BY <2>1 DEF Job, K!Idle
<1> QED
  BY <1>1, <1>2

LEMMA JudgeKeeps ==
  ASSUME SettingsInv, NEW w \in K!Tasks, K!Judge(w)
  PROVE  SettingsInv'
<1> DEFINE o == jobs[w]
           j == K!goesOn(w, o)
<1>1. o.at = "judge" /\ K!busy(w) /\ Job(o) /\ o.left = << >> /\ o # K!Idle
  BY JobIs DEF K!Judge, K!busy, JobInv
<1>2. UNCHANGED <<ram, flash, running, pending, batch, kept>>
  BY DEF K!Judge, K!store, K!past
<1>3. Armed' = Armed
  BY <1>2 DEF Armed
<1>4. /\ Job(j) /\ j.at \in {"copy", "end"} /\ j # K!Idle
      /\ j.left = << >> /\ j.req = o.req /\ j.saved = o.saved
  BY <1>1, GoesOnIs
<1> HIDE DEF j
<1>5. ASSUME NEW i, i \in {j, K!Idle}, jobs' = [jobs EXCEPT ![w] = i], astray => astray', astray' \in BOOLEAN,
             i = K!Idle => ~K!form(w) /\ (K!import(w) /\ o.saved => astray')
      PROVE  SettingsInv'
  <2>1. JobInv(i, ram', flash', running', Armed', astray')
    BY <1>4, <1>5 DEF JobInv
  <2>2. \A s \in K!Sections : Agree(flash, flash, K!ToSet(K!keys(s)))
    BY DEF Agree
  <2>3. Jobs'
    BY <1>1, <1>2, <1>3, <1>5, <2>1, <2>2, OneMoves, JobIs
  <2>4. JobsApart'
    BY <1>1, <1>4, <1>5, ApartStays
  <2>5. Forms'
    BY <1>1, <1>2, <1>4, <1>5, FormsStay
  <2>6. \A f : Loose(f, o) => Loose(f, i) \/ astray'
    BY <1>1, <1>4, <1>5 DEF Loose, Grounds, K!import
  <2>7. Holds' /\ Settled' /\ Sane' /\ Runs'
    BY <1>1, <1>2, <1>3, <1>5, <2>6, NothingStored, JobIs
  <2> QED
    BY <2>3, <2>4, <2>5, <2>7 DEF SettingsInv
<1>6. CASE K!refused(w)
  <2>1. jobs' = [jobs EXCEPT ![w] = IF K!form(w) THEN j ELSE K!Idle] /\ astray' = (astray \/ (K!import(w) /\ o.saved))
    BY <1>6 DEF K!Judge, j
  <2>2. astray' \in BOOLEAN /\ (astray => astray') /\ (K!import(w) /\ o.saved => astray')
    BY <1>1, <2>1, JobIs DEF Job
  <2>3. CASE K!form(w)
    BY <1>4, <1>5, <2>1, <2>2, <2>3
  <2>4. CASE ~K!form(w)
    BY <1>5, <2>1, <2>2, <2>4
  <2> QED
    BY <2>3, <2>4
<1>7. CASE ~K!refused(w)
  <2>1. CASE jobs' = [jobs EXCEPT ![w] = j] /\ astray' = astray
    BY <1>4, <1>5, <2>1, JobIs
  <2>2. CASE ~(jobs' = [jobs EXCEPT ![w] = j] /\ astray' = astray)
    <3> DEFINE n == [f \in DOMAIN o.next |-> K!wanted(w)[f]]
               d == \E f \in DOMAIN o.next \cap K!RestartFields : K!wanted(w)[f] # ram[f]
    <3>1. jobs' = [jobs EXCEPT ![w] = [o EXCEPT !.at = "save", !.todo = Part(o).secs, !.next = n, !.need = d]]
      BY <1>7, <2>2, JobIs DEF K!Judge, K!past, j
    <3> HIDE DEF n, d
    <3>2. jobs'[w].at = "save"
      BY <1>1, <3>1, JobIs DEF Job
    <3> QED
      BY <1>7, <3>2, SaveStarts
  <2> QED
    BY <2>1, <2>2
<1> QED
  BY <1>6, <1>7

LEMMA AdoptKeeps ==
  ASSUME SettingsInv, NEW w \in K!Tasks, K!Adopt(w)
  PROVE  SettingsInv'
<1> DEFINE o == jobs[w]
           s == Head(o.todo)
           j == [o EXCEPT !.left = K!keys(s), !.todo = Tail(o.todo)]
<1>1. /\ o.at = "save" /\ K!busy(w) /\ Job(o) /\ o.left = << >> /\ o # K!Idle /\ o.todo # << >>
      /\ Copied(o, ram) /\ Saves(o, ram, flash) /\ (o.ok \/ astray)
      /\ (astray \/ (Judged(o, ram) /\ Asks(o, running, Armed)))
  BY JobIs DEF K!Adopt, K!busy, JobInv
<1>2. /\ jobs' = [jobs EXCEPT ![w] = j]
      /\ ram' = K!Over(K!section(o.next, s), ram)
      /\ kept' = K!Restrict(kept, DOMAIN kept \ (K!Fields(s) \cap DOMAIN Part(o).asks))
      /\ UNCHANGED <<flash, running, pending, batch, astray>>
  BY <1>1, JobIs DEF K!Adopt, Job
<1>3. Armed' = Armed
  BY <1>2 DEF Armed
<1>4. /\ s \in SecsOf(o) /\ s \in K!Sections /\ K!keys(s) \in Seq(Keys) /\ K!keys(s) # << >>
      /\ Tail(o.todo) \in Seq(K!Sections) /\ K!ToSet(Tail(o.todo)) \subseteq K!ToSet(o.todo)
      /\ K!ToSet(o.todo) \subseteq K!ToSet(Tail(o.todo)) \cup {s}
  <2>1. o.todo \in Seq(K!Sections) /\ K!ToSet(o.todo) \subseteq SecsOf(o)
    BY <1>1 DEF Job, Saves
  <2>2. s \in K!ToSet(o.todo) /\ s \in K!Sections /\ Tail(o.todo) \in Seq(K!Sections)
    BY <1>1, <2>1 DEF K!ToSet
  <2>3. K!ToSet(Tail(o.todo)) \subseteq K!ToSet(o.todo)
    BY <1>1, <2>1 DEF K!ToSet
  <2>4. K!ToSet(o.todo) \subseteq K!ToSet(Tail(o.todo)) \cup {s}
    <3> SUFFICES ASSUME NEW n \in 1 .. Len(o.todo), n # 1 PROVE o.todo[n] \in K!ToSet(Tail(o.todo))
      BY <2>1 DEF K!ToSet
    <3>1. n - 1 \in DOMAIN Tail(o.todo) /\ Tail(o.todo)[n - 1] = o.todo[n]
      BY <1>1, <2>1
    <3> QED
      BY <3>1 DEF K!ToSet
  <2> QED
    BY <2>1, <2>2, <2>3, <2>4, KeysSound
<1> HIDE DEF s
<1>5. /\ j.at = "save" /\ j.left = K!keys(s) /\ j.ok = o.ok /\ j.req = o.req /\ j.part = o.part
      /\ j.next = o.next /\ j.todo = Tail(o.todo) /\ j.need = o.need /\ j.saved = o.saved
      /\ Job(j) /\ j # K!Idle
  BY <1>1, <1>4 DEF Job, K!Idle
<1> HIDE DEF j
<1>6. SecsOf(j) = SecsOf(o) /\ Part(j) = Part(o)
  BY <1>5 DEF SecsOf, Part
<1>7. /\ DOMAIN ram' = K!AllFields /\ ram' = [f \in K!AllFields |-> ram'[f]]
      /\ \A f \in K!Fields(s) : ram'[f] = o.next[f]
      /\ \A f \in K!AllFields \ K!Fields(s) : ram'[f] = ram[f]
      /\ K!Fields(s) \subseteq DOMAIN o.next
      /\ K!Fields(s) \subseteq Spans(SecsOf(o)) /\ Spans(SecsOf(o)) \subseteq K!AllFields
  <2>1. K!Fields(s) \subseteq Spans(SecsOf(o)) /\ DOMAIN o.next = Spans(SecsOf(o)) /\ DOMAIN ram = K!AllFields
        /\ Spans(SecsOf(o)) \subseteq K!AllFields
    BY <1>1, <1>4, JobIs, JobFacts DEF Copied, Spans
  <2> QED
    BY <1>2, <2>1 DEF K!Over, K!section
<1>8. Copied(j, ram')
  BY <1>1, <1>5, <1>6, <1>7 DEF Copied
<1>9. Saves(j, ram', flash)
  <2>1. K!ToSet(j.todo) \subseteq SecsOf(j)
    BY <1>1, <1>4, <1>5, <1>6 DEF Saves
  <2>2. \A x \in K!ToSet(j.left) : x \in K!ToSet(K!keys(s)) /\ (x # "l_wifi" => x \in K!Fields(s))
    BY <1>4, <1>5, KeysSound
  <2>3. ASSUME NEW t \in SecsOf(j) \ K!ToSet(j.todo)
        PROVE  /\ \A f \in K!Fields(t) : ram'[f] = o.next[f]
               /\ o.ok => \A x \in K!ToSet(K!keys(t)) \ K!ToSet(j.left) :
                            x \in DOMAIN flash /\ (x # "l_wifi" => flash[x] = o.next[x])
    <3>1. CASE t = s
      BY <1>5, <1>7, <3>1
    <3>2. CASE t # s
      <4>0. K!ToSet(o.left) = {}
        BY <1>1 DEF K!ToSet
      <4>1. t \in SecsOf(o) \ K!ToSet(o.todo) /\ K!ToSet(o.left) = {}
        BY <1>4, <1>5, <1>6, <2>3, <3>2, <4>0
      <4>2. \A f \in K!Fields(t) : f \in K!AllFields /\ ram[f] = o.next[f]
        BY <1>1, <4>1, JobFacts, KeysSound DEF Saves
      <4> QED
        BY <1>1, <1>7, <4>1, <4>2 DEF Saves
    <3> QED
      BY <3>1, <3>2
  <2> QED
    BY <1>4, <1>5, <1>6, <1>7, <2>1, <2>2, <2>3 DEF Saves
<1>10. Judged(o, ram) => Judged(j, ram')
  <2>1. K!Over(j.next, ram') = K!Over(o.next, ram)
    BY <1>5, <1>7, JobIs DEF K!Over
  <2> QED
    BY <1>6, <2>1 DEF Judged
<1>11. Asks(o, running, Armed) => Asks(j, running, Armed)
  BY <1>5, <1>6 DEF Asks
<1>12. JobInv(j, ram', flash', running', Armed', astray')
  BY <1>1, <1>2, <1>3, <1>5, <1>8, <1>9, <1>10, <1>11 DEF JobInv
<1>13. ASSUME NEW t \in K!Sections \ SecsOf(o)
       PROVE  /\ \A f \in K!Fields(t) : f \in K!AllFields /\ ram'[f] = ram[f]
              /\ Agree(flash, flash', K!ToSet(K!keys(t)))
  BY <1>2, <1>4, <1>7, KeysSound DEF Agree
<1>14. Jobs'
  BY <1>1, <1>2, <1>3, <1>7, <1>12, <1>13, OneMoves, JobIs
<1>15. JobsApart' /\ Forms'
  BY <1>1, <1>2, <1>5, ApartStays, FormsStay
<1>16. Holds'
  <2>1. /\ DOMAIN kept' = DOMAIN kept \ (K!Fields(s) \cap DOMAIN Part(o).asks)
        /\ \A f \in DOMAIN kept' : kept'[f] = kept[f]
    BY <1>2 DEF K!Restrict
  <2>2. ASSUME NEW f \in DOMAIN kept' PROVE f \in K!AllFields /\ kept'[f] = ram'[f] /\ f \in DOMAIN flash /\ flash[f] = kept'[f]
    <3>1. f \in K!AllFields /\ kept[f] = ram[f] /\ f \in DOMAIN flash /\ flash[f] = kept[f]
      BY <2>1 DEF SettingsInv, Holds
    <3>2. f \in K!Fields(s) => o.next[f] = ram[f]
      BY <1>1, <1>7, <2>1 DEF Copied
    <3> QED
      BY <1>7, <2>1, <3>1, <3>2
  <2> QED
    BY <1>2, <1>7, <2>2 DEF SettingsInv, Holds
<1>17. \A t, x : x \in K!Tasks => (AtSave(t, jobs'[x]) <=> AtSave(t, jobs[x])) /\ (Loose(t, jobs'[x]) <=> Loose(t, jobs[x]))
  BY <1>1, <1>2, <1>5, <1>6, JobIs DEF AtSave, Loose, Grounds
<1>18. Settled' /\ Sane'
  <2>1. AtSave(s, o)
    BY <1>1, <1>4 DEF AtSave
  <2>2. Settled'
    <3> SUFFICES ASSUME ~astray, NEW t \in K!Sections, \A x \in K!Tasks : ~AtSave(t, jobs'[x]), NEW f \in K!Fields(t)
                 PROVE  K!Load(flash)[f] = ram'[f]
      BY <1>2 DEF Settled
    <3>1. (\A x \in K!Tasks : ~AtSave(t, jobs[x])) /\ t # s
      BY <1>17, <2>1
    <3>2. K!Load(flash)[f] = ram[f]
      BY <3>1 DEF SettingsInv, Settled
    <3>3. f \in K!AllFields \ K!Fields(s)
      BY <1>4, <3>1, KeysSound
    <3> QED
      BY <1>7, <3>2, <3>3
  <2>3. \A t \in K!Sections : t # s => \A f \in K!Fields(t) : ram'[f] = ram[f]
    BY <1>4, <1>7, KeysSound
  <2>4. s # "radio" => (K!legal(ram') <=> K!legal(ram))
    BY <2>3, RulesLocal DEF K!Sections
  <2>5. s \notin Doors => (K!lockedOut(ram') <=> K!lockedOut(ram))
    BY <2>3, RulesLocal DEF K!Sections, Doors
  <2> QED
    BY <1>2, <1>17, <2>1, <2>2, <2>4, <2>5 DEF SettingsInv, Sane
<1>19. Runs'
  <2>1. \A f \in K!Fields(s) : Loose(f, jobs[w])
    BY <1>1, <1>7 DEF Loose
  <2>2. K!Applied \subseteq K!AllFields
    BY DEF K!Applied
  <2> QED
    BY <1>2, <1>3, <1>7, <1>17, <2>1, <2>2 DEF SettingsInv, Runs
<1> QED
  BY <1>14, <1>15, <1>16, <1>18, <1>19 DEF SettingsInv

\* What is left of a section after a key: some of the rest.
LEMMA AfterIs ==
  ASSUME NEW q \in Seq(Keys), q # << >>, NEW ok \in BOOLEAN
  PROVE  LET r == K!after(Head(q), Tail(q), ok)
         IN  /\ r \in Seq(Keys) /\ K!ToSet(r) \subseteq K!ToSet(q)
             /\ ok => K!ToSet(q) \subseteq K!ToSet(r) \cup {Head(q)}
<1> DEFINE t == Tail(q)  r == K!after(Head(q), t, ok)
<1>1. t \in Seq(Keys) /\ K!ToSet(t) \subseteq K!ToSet(q) /\ Len(t) = Len(q) - 1
  BY DEF K!ToSet
<1>2. K!ToSet(q) \subseteq K!ToSet(t) \cup {Head(q)}
  <2> SUFFICES ASSUME NEW n \in 1 .. Len(q), n # 1 PROVE q[n] \in K!ToSet(t)
    BY DEF K!ToSet
  <2>1. n - 1 \in DOMAIN t /\ t[n - 1] = q[n]
    OBVIOUS
  <2> QED
    BY <2>1 DEF K!ToSet
<1>3. r = t \/ (~ok /\ r = << >>) \/ (~ok /\ t # << >> /\ r = K!Front(t))
  BY DEF K!after
<1> HIDE DEF t, r
<1>4. r \in Seq(Keys) /\ K!ToSet(r) \subseteq K!ToSet(q) /\ (ok => K!ToSet(q) \subseteq K!ToSet(r) \cup {Head(q)})
  <2>1. CASE ~ok /\ r = << >>
    <3>1. << >> \in Seq(Keys) /\ K!ToSet(<< >>) = {}
      BY DEF K!ToSet
    <3> QED
      BY <2>1, <3>1
  <2>2. CASE ~ok /\ t # << >> /\ r = K!Front(t)
    <3>1. r = SubSeq(t, 1, Len(t) - 1) /\ Len(t) \in Nat \ {0}
      BY <1>1, <2>2 DEF K!Front
    <3>2. r \in Seq(Keys) /\ Len(r) = Len(t) - 1 /\ \A n \in 1 .. Len(r) : r[n] = t[n]
      BY <1>1, <3>1
    <3>3. K!ToSet(r) \subseteq K!ToSet(t)
      BY <1>1, <3>1, <3>2 DEF K!ToSet
    <3> QED
      BY <1>1, <2>2, <3>2, <3>3
  <2> QED
    BY <1>1, <1>2, <1>3, <2>1, <2>2
<1> QED
  BY <1>4 DEF t, r

LEMMA WriteKeeps ==
  ASSUME SettingsInv, NEW w \in K!Tasks, K!Write(w)
  PROVE  SettingsInv'
<1> DEFINE o == jobs[w]
           k == Head(o.left)
<1>1. /\ o.at = "save" /\ K!busy(w) /\ Job(o) /\ o.left # << >> /\ o # K!Idle
      /\ Copied(o, ram) /\ Saves(o, ram, flash) /\ (o.ok \/ astray)
      /\ (astray \/ (Judged(o, ram) /\ Asks(o, running, Armed)))
  BY JobIs DEF K!Write, K!busy, JobInv
<1>2. PICK landed \in BOOLEAN :
        /\ flash' = IF landed THEN K!Put(flash, k, K!value(o, k)) ELSE flash
        /\ jobs' = [jobs EXCEPT ![w].left = K!after(k, Tail(@), landed), ![w].ok = K!collect(@, landed), ![w].saved = TRUE]
        /\ astray' = (astray \/ ~landed)
  BY JobIs DEF K!Write
<1>3. UNCHANGED <<ram, running, pending, batch, kept>>
  BY DEF K!Write
<1> DEFINE l == K!after(k, Tail(o.left), landed)
           j == [o EXCEPT !.left = l, !.ok = (o.ok /\ landed), !.saved = TRUE]
<1>4. jobs' = [jobs EXCEPT ![w] = j]
  BY <1>1, <1>2, JobIs DEF Job, K!collect
<1>5. Armed' = Armed /\ astray' \in BOOLEAN /\ (astray => astray') /\ o.left \in Seq(Keys) /\ o.ok \in BOOLEAN
  BY <1>1, <1>2, <1>3, JobIs DEF Armed, Job
<1>6. /\ l \in Seq(Keys) /\ K!ToSet(l) \subseteq K!ToSet(o.left)
      /\ landed => K!ToSet(o.left) \subseteq K!ToSet(l) \cup {k}
  BY <1>1, <1>5, AfterIs
<1> HIDE DEF l
<1>7. /\ j.at = "save" /\ j.left = l /\ j.ok = (o.ok /\ landed) /\ j.req = o.req /\ j.part = o.part
      /\ j.next = o.next /\ j.todo = o.todo /\ j.need = o.need /\ j.saved
      /\ Job(j) /\ j # K!Idle
  BY <1>1, <1>6 DEF Job, K!Idle
<1> HIDE DEF j
<1>8. SecsOf(j) = SecsOf(o) /\ Part(j) = Part(o)
  BY <1>7 DEF SecsOf, Part
<1>9. /\ k \in K!ToSet(o.left)
      /\ k # "l_wifi" => K!value(o, k) = o.next[k]
  BY <1>1, <1>5 DEF K!ToSet, K!value
<1>10. PICK t \in SecsOf(o) : k \in K!ToSet(K!keys(t))
  BY <1>1, <1>9 DEF Saves
<1>11. /\ k # "l_wifi" => ram[k] = o.next[k]
       /\ t \in K!Sections
  BY <1>1, <1>9, JobFacts DEF Saves
<1>12. /\ \A x \in DOMAIN flash : x \in DOMAIN flash' /\ (x # k => flash'[x] = flash[x])
       /\ \A x \in DOMAIN flash' : x = k \/ x \in DOMAIN flash
       /\ landed => k \in DOMAIN flash' /\ flash'[k] = K!value(o, k)
       /\ ~landed => flash' = flash
  BY <1>2 DEF K!Put
<1>13. Saves(j, ram, flash')
  <2>1. ASSUME NEW s \in SecsOf(j) \ K!ToSet(j.todo), j.ok, NEW x \in K!ToSet(K!keys(s)) \ K!ToSet(j.left)
        PROVE  x \in DOMAIN flash' /\ (x # "l_wifi" => flash'[x] = o.next[x])
    <3>1. CASE x = k
      BY <1>7, <1>9, <1>12, <2>1, <3>1
    <3>2. CASE x # k
      <4>1. x \in K!ToSet(K!keys(s)) \ K!ToSet(o.left) /\ o.ok
        BY <1>6, <1>7, <2>1, <3>2
      <4>2. x \in DOMAIN flash /\ (x # "l_wifi" => flash[x] = o.next[x])
        BY <1>1, <1>7, <1>8, <2>1, <4>1 DEF Saves
      <4> QED
        BY <1>12, <3>2, <4>2
    <3> QED
      BY <3>1, <3>2
  <2> QED
    BY <1>1, <1>6, <1>7, <1>8, <2>1 DEF Saves
<1>14. JobInv(j, ram', flash', running', Armed', astray')
  <2>1. Copied(j, ram) /\ (Judged(o, ram) => Judged(j, ram)) /\ (Asks(o, running, Armed) => Asks(j, running, Armed))
    BY <1>1, <1>7, <1>8 DEF Copied, Judged, Asks
  <2>2. j.ok \/ astray'
    BY <1>1, <1>2, <1>7
  <2> QED
    BY <1>1, <1>3, <1>5, <1>7, <1>13, <2>1, <2>2 DEF JobInv
<1>15. ASSUME NEW s \in K!Sections, s # t PROVE Agree(flash, flash', K!ToSet(K!keys(s)))
  <2>1. \A x \in K!ToSet(K!keys(s)) : x # k
    BY <1>10, <1>11, <1>15, KeysSound
  <2> QED
    BY <1>12, <2>1 DEF Agree
<1>16. Jobs'
  BY <1>1, <1>3, <1>4, <1>5, <1>10, <1>14, <1>15, OneMoves, JobIs
<1>17. JobsApart' /\ Forms'
  BY <1>1, <1>3, <1>4, <1>7, ApartStays, FormsStay
<1>18. Holds'
  <2>1. ASSUME NEW f \in DOMAIN kept PROVE f \in DOMAIN flash' /\ flash'[f] = kept[f]
    <3>1. f \in K!AllFields /\ kept[f] = ram[f] /\ f \in DOMAIN flash /\ flash[f] = kept[f] /\ f # "l_wifi"
      BY KeysSound DEF SettingsInv, Holds
    <3> QED
      BY <1>9, <1>11, <1>12, <3>1
  <2> QED
    BY <1>3, <1>5, <2>1 DEF SettingsInv, Holds
<1>19. \A s, x : x \in K!Tasks => (AtSave(s, jobs'[x]) <=> AtSave(s, jobs[x]))
  BY <1>1, <1>4, <1>7, <1>8, JobIs DEF AtSave
<1>20. Settled'
  <2> SUFFICES ASSUME ~astray, NEW s \in K!Sections, \A x \in K!Tasks : ~AtSave(s, jobs[x]), NEW f \in K!Fields(s)
               PROVE  K!Load(flash')[f] = ram[f]
    BY <1>3, <1>5, <1>19 DEF Settled
  <2>1. s # t
    BY <1>1, <1>10 DEF AtSave
  <2>2. K!Load(flash)[f] = ram[f]
    BY DEF SettingsInv, Settled
  <2> QED
    BY <1>15, <2>1, <2>2, LoadLocal
<1>21. Sane'
  BY <1>3, <1>5, <1>19 DEF SettingsInv, Sane
<1>22. Runs'
  <2>1. \A f, x : x \in K!Tasks /\ Loose(f, jobs[x]) => Loose(f, jobs'[x])
    BY <1>1, <1>4, <1>7, <1>8, JobIs DEF Loose, Grounds
  <2> QED
    BY <1>3, <1>5, <2>1 DEF SettingsInv, Runs
<1> QED
  BY <1>16, <1>17, <1>18, <1>20, <1>21, <1>22 DEF SettingsInv

LEMMA ApplyKeeps ==
  ASSUME SettingsInv, NEW w \in K!Tasks, K!Apply(w)
  PROVE  SettingsInv'
<1> DEFINE o == jobs[w]
           j == K!goesOn(w, o)
<1>1. /\ o.at = "save" /\ K!busy(w) /\ Job(o) /\ o.left = << >> /\ o.todo = << >> /\ o # K!Idle
      /\ Copied(o, ram) /\ Saves(o, ram, flash) /\ (o.ok \/ astray)
      /\ (astray \/ (Judged(o, ram) /\ Asks(o, running, Armed)))
  BY JobIs DEF K!Apply, K!busy, JobInv
<1>2. /\ jobs' = [jobs EXCEPT ![w] = j]
      /\ running' = IF o.ok /\ ~K!import(w)
                    THEN [f \in K!Applied |-> IF f \in DOMAIN o.next \ K!RestartFields THEN o.next[f] ELSE running[f]]
                    ELSE running
      /\ kept' = IF o.ok THEN [f \in DOMAIN kept \cup DOMAIN Part(o).asks |->
                                 IF f \in DOMAIN Part(o).asks THEN o.next[f] ELSE kept[f]]
                         ELSE kept
      /\ IF o.ok /\ o.need /\ ~K!import(w) THEN K!AskRestart(w) ELSE UNCHANGED <<pending, batch>>
      /\ UNCHANGED <<ram, flash, astray>>
  BY <1>1, JobIs DEF K!Apply
<1>3. /\ pending' \in BOOLEAN /\ (pending => pending')
      /\ batch' = batch \/ (batch.open /\ batch' = [batch EXCEPT !.wish = TRUE])
      /\ Armed' \in BOOLEAN /\ (Armed => Armed')
      /\ (o.ok /\ o.need /\ ~K!import(w) => Armed')
  BY <1>2, JobIs DEF K!AskRestart, Armed, SettingsInv, Forms
<1>4. /\ Job(j) /\ j.at \in {"copy", "end"} /\ j # K!Idle
      /\ j.left = << >> /\ j.req = o.req /\ j.saved = o.saved
  BY <1>1, GoesOnIs
<1> HIDE DEF j
<1>5. \A x : x \notin K!ToSet(<< >>)
  BY DEF K!ToSet
<1>6. \A s \in SecsOf(o) : /\ \A f \in K!Fields(s) : ram[f] = o.next[f]
                           /\ o.ok => \A x \in K!ToSet(K!keys(s)) :
                                x \in DOMAIN flash /\ (x # "l_wifi" => flash[x] = o.next[x])
  BY <1>1, <1>5 DEF Saves
<1>7. /\ \A f \in Spans(SecsOf(o)) : ram[f] = o.next[f] /\ f \in K!AllFields
      /\ DOMAIN o.next = Spans(SecsOf(o)) /\ DOMAIN Part(o).asks \subseteq Spans(SecsOf(o))
      /\ \A f \in Spans(SecsOf(o)) : o.ok => f \in DOMAIN flash /\ flash[f] = o.next[f]
  <2>1. SecsOf(o) \subseteq K!Sections /\ Spans(SecsOf(o)) \subseteq K!AllFields
    BY <1>1, JobFacts
  <2>2. \A s \in SecsOf(o) : \A f \in K!Fields(s) : f \in K!ToSet(K!keys(s)) /\ f # "l_wifi"
    BY <2>1, KeysSound
  <2> QED
    BY <1>1, <1>6, <2>1, <2>2 DEF Copied, Spans
<1>8. JobInv(j, ram', flash', running', Armed', astray')
  BY <1>4 DEF JobInv
<1>9. running = [f \in K!Applied |-> running[f]] /\ running' = [f \in K!Applied |-> running'[f]]
  BY <1>2 DEF SettingsInv, Holds
<1>10. \A f \in K!Applied \ Spans(SecsOf(o)) : running'[f] = running[f]
  BY <1>2, <1>7
<1>11. Jobs'
  <2>1. ASSUME NEW s \in K!Sections \ SecsOf(o)
        PROVE  /\ \A f \in K!Fields(s) : f \notin Spans(SecsOf(o))
               /\ Agree(flash, flash, K!ToSet(K!keys(s)))
    BY <1>1, JobFacts, KeysSound DEF Spans, Agree
  <2> QED
    BY <1>1, <1>2, <1>3, <1>8, <1>10, <2>1, OneMoves, JobIs
<1>12. JobsApart' /\ Forms'
  BY <1>1, <1>2, <1>3, <1>4, ApartStays, FormsStay DEF Job
<1>13. Holds'
  <2>1. ASSUME NEW f \in DOMAIN kept' PROVE f \in K!AllFields /\ kept'[f] = ram[f] /\ f \in DOMAIN flash /\ flash[f] = kept'[f]
    <3>1. CASE o.ok /\ f \in DOMAIN Part(o).asks
      BY <1>2, <1>7, <3>1
    <3>2. CASE ~(o.ok /\ f \in DOMAIN Part(o).asks)
      <4>1. f \in DOMAIN kept /\ kept'[f] = kept[f]
        BY <1>2, <2>1, <3>2
      <4> QED
        BY <4>1 DEF SettingsInv, Holds
    <3> QED
      BY <3>1, <3>2
  <2> QED
    BY <1>2, <1>3, <1>9, <2>1, JobIs DEF SettingsInv, Holds
<1>14. \A s, x : x \in K!Tasks /\ AtSave(s, jobs[x]) => AtSave(s, jobs'[x]) \/ s \in SecsOf(o)
  BY <1>1, <1>2, JobIs DEF AtSave
<1>15. Settled'
  <2> SUFFICES ASSUME ~astray, NEW s \in K!Sections, \A x \in K!Tasks : ~AtSave(s, jobs'[x]), NEW f \in K!Fields(s)
               PROVE  K!Load(flash)[f] = ram[f]
    BY <1>2 DEF Settled
  <2>1. CASE s \in SecsOf(o)
    <3>1. f \in Spans(SecsOf(o))
      BY <2>1 DEF Spans
    <3> QED
      BY <1>1, <1>7, <3>1, LoadIs
  <2>2. CASE s \notin SecsOf(o)
    BY <1>14, <2>2 DEF SettingsInv, Settled
  <2> QED
    BY <2>1, <2>2
<1>16. Sane'
  <2> SUFFICES ASSUME ~astray
               PROVE  /\ K!legal(ram) \/ \E x \in K!Tasks : AtSave("radio", jobs'[x])
                      /\ ~K!lockedOut(ram) \/ \E x \in K!Tasks, s \in Doors : AtSave(s, jobs'[x])
    BY <1>2 DEF Sane
  <2> DEFINE v == K!Over(o.next, ram)
  <2>1. \A f \in K!AllFields : v[f] = ram[f]
    BY <1>7, JobIs DEF K!Over
  <2> HIDE DEF v
  <2>2. (K!legal(v) <=> K!legal(ram)) /\ (K!lockedOut(v) <=> K!lockedOut(ram))
    <3>1. "radio" \in K!Sections /\ Doors \subseteq K!Sections
      BY DEF K!Sections, Doors
    <3> QED
      BY <2>1, <3>1, RulesLocal, KeysSound
  <2>3. /\ "radio" \in SecsOf(o) => K!legal(ram)
        /\ SecsOf(o) \cap Doors # {} => ~K!lockedOut(ram)
    BY <1>1, <2>2 DEF Judged, v
  <2>4. /\ K!legal(ram) \/ \E x \in K!Tasks : AtSave("radio", jobs[x])
        /\ ~K!lockedOut(ram) \/ \E x \in K!Tasks, s \in Doors : AtSave(s, jobs[x])
    BY DEF SettingsInv, Sane
  <2> QED
    BY <1>14, <2>3, <2>4
<1>17. Runs'
  <2> SUFFICES ASSUME ~astray, ~Armed', NEW f \in K!Applied
               PROVE  running'[f] = ram[f] \/ \E x \in K!Tasks : Loose(f, jobs'[x])
    BY <1>2 DEF Runs
  <2>1. jobs'[w] = j /\ \A x \in K!Tasks : x # w => jobs'[x] = jobs[x]
    BY <1>2, JobIs
  <2>2. o.saved
    BY <1>1 DEF Saves
  <2>3. CASE K!import(w)
    <3>1. running' = running /\ Spans(SecsOf(o)) \subseteq Spans(Grounds(o))
      BY <1>1, <1>2, <2>3, JobFacts
    <3>2. Loose(f, o) => Loose(f, j)
      BY <1>4, <2>2, <2>3, <3>1 DEF Loose, Grounds, K!import
    <3>3. running[f] = ram[f] \/ \E x \in K!Tasks : Loose(f, jobs[x])
      BY <1>3 DEF SettingsInv, Runs
    <3> QED
      BY <2>1, <3>1, <3>2, <3>3
  <2>4. CASE ~K!import(w) /\ f \in Spans(SecsOf(o))
    <3>1. o.ok /\ ~o.need /\ ram[f] = o.next[f] /\ f \in DOMAIN o.next
      BY <1>1, <1>3, <1>7, <2>4
    <3>2. f \in K!RestartFields => running[f] = o.next[f]
      BY <1>1, <1>3, <2>4, <3>1 DEF Asks, K!import
    <3> QED
      BY <1>2, <2>4, <3>1, <3>2
  <2>5. CASE ~K!import(w) /\ f \notin Spans(SecsOf(o))
    <3>1. ~Loose(f, o)
      BY <2>5 DEF Loose, K!import
    <3>2. running[f] = ram[f] \/ \E x \in K!Tasks : Loose(f, jobs[x])
      BY <1>3 DEF SettingsInv, Runs
    <3> QED
      BY <1>10, <2>1, <2>5, <3>1, <3>2
  <2> QED
    BY <2>3, <2>4, <2>5
<1> QED
  BY <1>11, <1>12, <1>13, <1>15, <1>16, <1>17 DEF SettingsInv

LEMMA EndKeeps ==
  ASSUME SettingsInv, NEW w \in K!Tasks, K!End(w)
  PROVE  SettingsInv'
<1> DEFINE o == jobs[w]
<1>1. o.at = "end" /\ K!busy(w) /\ Job(o)
  BY JobIs DEF K!End, K!busy
<1>2. /\ jobs' = [jobs EXCEPT ![w] = K!Idle]
      /\ pending' = (pending \/ K!import(w) \/ (K!form(w) /\ batch.wish))
      /\ batch' = IF K!form(w) THEN [open |-> FALSE, wish |-> FALSE] ELSE batch
      /\ UNCHANGED <<ram, flash, running, kept, astray>>
  BY DEF K!End, K!store, K!past
<1>3. /\ pending' \in BOOLEAN /\ Armed' \in BOOLEAN /\ (Armed => Armed')
      /\ (K!import(w) => Armed')
  <2>1. batch \in [open : BOOLEAN, wish : BOOLEAN] /\ pending \in BOOLEAN
    BY DEF SettingsInv, Forms, Holds
  <2> QED
    BY <1>2, <2>1 DEF Armed, K!import, K!form
<1>4. JobInv(K!Idle, ram', flash', running', Armed', astray')
  BY DEF JobInv
<1>5. Jobs'
  <2>1. \A s \in K!Sections : Agree(flash, flash, K!ToSet(K!keys(s)))
    BY DEF Agree
  <2> QED
    BY <1>1, <1>2, <1>3, <1>4, <2>1, OneMoves, JobIs
<1>6. JobsApart' /\ Forms'
  BY <1>1, <1>2, ApartStays, FormsStay
<1>7. Holds' /\ Settled' /\ Sane' /\ Runs'
  <2>1. \A f : Loose(f, o) => K!import(w)
    BY <1>1 DEF Loose, K!import
  <2> QED
    BY <1>1, <1>2, <1>3, <2>1, NothingStored, JobIs
<1> QED
  BY <1>5, <1>6, <1>7 DEF SettingsInv

LEMMA DefaultIs ==
  /\ K!Load(<< >>) = K!Default /\ K!Default = [f \in K!AllFields |-> K!Default[f]]
  /\ K!legal(K!Default) /\ ~K!lockedOut(K!Default) /\ K!Default["console"]
  /\ K!Default["freq"] = K!Default["region"]
<1> DEFINE base == K!Over(<< >>, K!Default)
<1>1. {"freq", "region", "console", "ap", "sta", "web"} \subseteq K!AllFields
  BY KeysAre, KeysSound DEF K!Sections
<1>2. K!Default = [f \in K!AllFields |-> K!Default[f]] /\ DOMAIN K!Default = K!AllFields
  BY DEF K!Default
<1>3. K!Default["console"] /\ K!Default["freq"] = K!Default["region"]
  <2>1. \A f \in K!AllFields : K!Default[f] = (f \in {"ap", "console", "web"})
    BY DEF K!Default
  <2>2. /\ ("freq" \in {"ap", "console", "web"}) = ("region" \in {"ap", "console", "web"})
        /\ "console" \in {"ap", "console", "web"}
    OBVIOUS
  <2>3. /\ K!Default["freq"] = ("freq" \in {"ap", "console", "web"})
        /\ K!Default["region"] = ("region" \in {"ap", "console", "web"})
        /\ K!Default["console"] = ("console" \in {"ap", "console", "web"})
    BY <1>1, <2>1, Zenon
  <2> QED
    BY <2>2, <2>3, Zenon
<1>4. K!legal(K!Default) /\ ~K!lockedOut(K!Default)
  BY <1>3 DEF K!legal, K!lockedOut
<1>5. \A f \in K!AllFields : K!Load(<< >>)[f] = K!Default[f]
  <2>1. DOMAIN << >> = {}
    OBVIOUS
  <2>2. \A f \in K!AllFields : base[f] = K!Default[f]
    BY <1>2, <2>1 DEF K!Over
  <2>3. ASSUME NEW f \in K!AllFields PROVE K!Load(<< >>)[f] = K!Default[f]
    <3>1. CASE f = "region"
      BY <1>1, <1>3, <2>1, <2>2, <3>1 DEF K!Load
    <3>2. CASE f \in {"ap", "sta"}
      BY <2>1, <3>2 DEF K!Load
    <3>3. CASE f \notin {"region", "ap", "sta"}
      BY <2>1, <2>2, <3>3 DEF K!Load
    <3> QED
      BY <3>1, <3>2, <3>3
  <2> QED
    BY <2>3
<1>6. K!Load(<< >>) = K!Default
  BY <1>2, <1>5, LoadIs
<1> QED
  BY <1>2, <1>3, <1>4, <1>6

LEMMA WipeKeeps ==
  ASSUME SettingsInv, NEW w \in K!Tasks, K!FactoryReset(w)
  PROVE  SettingsInv'
<1> DEFINE o == jobs[w]
<1>1. o.at = "reset" /\ K!busy(w) /\ Job(o) /\ Lone(o)
  BY JobIs DEF K!FactoryReset, K!busy, Job, Lone
<1>2. /\ jobs' = [jobs EXCEPT ![w] = K!Idle]
      /\ flash' = << >> /\ ram' = K!Default /\ pending' = TRUE /\ kept' = << >>
      /\ UNCHANGED <<running, batch, astray>>
  BY DEF K!FactoryReset
<1>3. \A x \in K!Tasks : jobs'[x] = K!Idle
  <2>1. \A x \in K!Tasks : x # w => ~K!busy(x)
    BY <1>1 DEF SettingsInv, JobsApart, Aside
  <2> QED
    BY <1>2, <2>1, JobIs
<1>4. Armed'
  BY <1>2 DEF Armed
<1>5. Jobs' /\ JobsApart'
  <2>1. K!Idle.at = "idle" /\ DOMAIN jobs' = K!Tasks
    BY <1>2, JobIs DEF K!Idle
  <2> QED
    BY <1>3, <2>1 DEF Jobs, JobInv, JobsApart, K!busy
<1>6. Forms'
  <2>1. ~K!form(w)
    BY <1>1 DEF K!form, Job
  <2> QED
    BY <1>1, <1>2, <2>1, FormsStay
<1>7. Holds'
  BY <1>2, DefaultIs DEF SettingsInv, Holds
<1>8. Settled' /\ Sane' /\ Runs'
  BY <1>2, <1>4, DefaultIs DEF Settled, Sane, Runs
<1> QED
  BY <1>5, <1>6, <1>7, <1>8 DEF SettingsInv

LEMMA ReceiveKeeps ==
  ASSUME SettingsInv, NEW w \in K!Tasks, NEW r \in Requests, K!Receive(w, r)
  PROVE  SettingsInv'
<1> DEFINE j == [at |-> IF r.kind = "reset" THEN "reset" ELSE "copy", req |-> r, part |-> 1,
                 next |-> << >>, need |-> FALSE, todo |-> << >>, left |-> << >>,
                 ok |-> TRUE, saved |-> FALSE]
<1>1. /\ ~K!busy(w) /\ jobs[w] = K!Idle /\ jobs[w].at = "idle" /\ K!apart(r)
      /\ jobs' = [jobs EXCEPT ![w] = j]
      /\ batch' = IF r.kind = "form" THEN [open |-> TRUE, wish |-> FALSE] ELSE batch
      /\ UNCHANGED <<ram, flash, running, pending, kept, astray>>
  BY JobIs DEF K!Receive, K!store, K!past, K!Idle
<1>2. Job(j) /\ j # K!Idle
  <2>1. 1 \in 1 .. Len(r.parts) /\ << >> \in Seq(K!Sections) /\ << >> \in Seq(Keys)
    BY RequestsAssumption
  <2> QED
    BY <2>1 DEF Job, K!Idle
<1>3. /\ j.at \in {"copy", "reset"} /\ j.left = << >> /\ j.req = r /\ ~j.saved
  OBVIOUS
<1> HIDE DEF j
<1>4. jobs'[w] = j /\ \A x \in K!Tasks : x # w => jobs'[x] = jobs[x]
  BY <1>1, JobIs
<1>5. r.kind = "form" => ~batch.open /\ ~batch.wish
  <2>1. r.kind = "form" => \A x \in K!Tasks : ~K!busy(x)
    BY <1>1 DEF K!apart
  <2> QED
    BY <2>1 DEF SettingsInv, Forms
<1>6. batch'.wish = batch.wish /\ Armed' = Armed
  BY <1>1, <1>5, JobIs DEF Armed, SettingsInv, Forms
<1>7. Jobs'
  <2>1. JobInv(j, ram', flash', running', Armed', astray')
    BY <1>2, <1>3 DEF JobInv
  <2>2. \A s \in K!Sections : Agree(flash, flash, K!ToSet(K!keys(s)))
    BY DEF Agree
  <2> QED
    BY <1>1, <1>6, <2>1, <2>2, OneMoves, JobIs
<1>8. JobsApart'
  <2>1. ASSUME NEW x \in K!Tasks, x # w, K!busy(x) PROVE Aside(j, jobs[x]) /\ Aside(jobs[x], j)
    BY <1>1, <1>3, <2>1 DEF K!apart, Aside, Lone, Grounds
  <2>2. ASSUME NEW x \in K!Tasks, NEW y \in K!Tasks, x # y, jobs'[x].at # "idle", jobs'[y].at # "idle"
        PROVE  Aside(jobs'[x], jobs'[y])
    <3>1. CASE x = w
      BY <1>4, <2>1, <2>2, <3>1 DEF K!busy
    <3>2. CASE y = w
      BY <1>4, <2>1, <2>2, <3>2 DEF K!busy
    <3>3. CASE x # w /\ y # w
      BY <1>4, <2>2, <3>3 DEF SettingsInv, JobsApart, K!busy
    <3> QED
      BY <3>1, <3>2, <3>3
  <2> QED
    BY <2>2 DEF JobsApart, K!busy
<1>9. Forms'
  <2>1. CASE r.kind = "form"
    <3>1. K!busy(w)' /\ K!form(w)'
      BY <1>3, <1>4, <2>1 DEF K!busy, K!form
    <3>2. batch' = [open |-> TRUE, wish |-> FALSE]
      BY <1>1, <2>1
    <3> QED
      BY <3>1, <3>2 DEF Forms
  <2>2. CASE r.kind # "form"
    <3>1. batch' = batch /\ Forms
      BY <1>1, <2>2 DEF SettingsInv
    <3>2. \A x \in K!Tasks : K!busy(x) /\ K!form(x) => K!busy(x)' /\ K!form(x)'
      BY <1>1, <1>4 DEF K!busy, K!form
    <3> QED
      BY <3>1, <3>2 DEF Forms
  <2> QED
    BY <2>1, <2>2
<1>10. Holds' /\ Settled' /\ Sane' /\ Runs'
  <2>1. \A f : ~Loose(f, jobs[w])
    BY <1>1 DEF Loose
  <2> QED
    BY <1>1, <1>6, <2>1, NothingStored, JobIs
<1> QED
  BY <1>7, <1>8, <1>9, <1>10 DEF SettingsInv

LEMMA BootKeeps ==
  ASSUME SettingsInv, K!Boot
  PROVE  SettingsInv'
<1>1. /\ ram' = K!Load(flash) /\ running' = [f \in K!Applied |-> K!Load(flash)[f]]
      /\ pending' = FALSE /\ batch' = [open |-> FALSE, wish |-> FALSE]
      /\ jobs' = [w \in K!Tasks |-> K!Idle] /\ UNCHANGED <<flash, kept>>
      /\ astray' = (astray \/ \E w \in K!Tasks : K!midSave(w) \/ (K!busy(w) /\ jobs[w].at # "reset" /\ jobs[w].saved))
  BY DEF K!Boot
<1>2. Jobs' /\ JobsApart'
  <2>1. K!Idle.at = "idle"
    BY DEF K!Idle
  <2> QED
    BY <1>1, <2>1 DEF Jobs, JobInv, JobsApart, K!busy
<1>3. Forms'
  BY <1>1 DEF Forms
<1>4. Holds'
  <2>1. \A f \in DOMAIN kept : f \in K!AllFields /\ f \in DOMAIN flash /\ flash[f] = kept[f] /\ kept[f] = K!Load(flash)[f]
    BY LoadIs DEF SettingsInv, Holds
  <2>2. astray' \in BOOLEAN /\ pending' \in BOOLEAN
    <3>1. \A w \in K!Tasks : K!busy(w) => jobs[w].saved \in BOOLEAN
      BY JobIs DEF Job
    <3> QED
      BY <1>1, <3>1 DEF SettingsInv, Holds
  <2>3. ram' = [f \in K!AllFields |-> ram'[f]] /\ running' = [f \in K!Applied |-> running'[f]]
    BY <1>1, LoadIs
  <2> QED
    BY <1>1, <2>1, <2>2, <2>3 DEF Holds
<1>5. Settled' /\ Runs'
  BY <1>1, LoadIs DEF Settled, Runs, K!Applied
<1>6. Sane'
  <2> SUFFICES ASSUME ~astray' PROVE K!legal(K!Load(flash)) /\ ~K!lockedOut(K!Load(flash))
    BY <1>1 DEF Sane
  <2>1. ~astray /\ \A w \in K!Tasks : \A s : ~AtSave(s, jobs[w])
    BY <1>1 DEF K!midSave, K!busy, AtSave
  <2>2. K!legal(ram) /\ ~K!lockedOut(ram)
    BY <2>1 DEF SettingsInv, Sane
  <2>3. \A s \in K!Sections : \A f \in K!Fields(s) : K!Load(flash)[f] = ram[f]
    BY <2>1 DEF SettingsInv, Settled
  <2>4. "radio" \in K!Sections /\ Doors \subseteq K!Sections
    BY DEF K!Sections, Doors
  <2> QED
    BY <2>2, <2>3, <2>4, RulesLocal
<1> QED
  BY <1>2, <1>3, <1>4, <1>5, <1>6 DEF SettingsInv

LEMMA SettingsStart == K!Init => SettingsInv
<1> SUFFICES ASSUME K!Init PROVE SettingsInv
  OBVIOUS
<1>1. /\ ram = K!Load(flash) /\ running = [f \in K!Applied |-> K!Load(flash)[f]]
      /\ pending = FALSE /\ batch = [open |-> FALSE, wish |-> FALSE]
      /\ jobs = [w \in K!Tasks |-> K!Idle] /\ kept = << >> /\ astray = FALSE
      /\ flash \in {K!oldFlash, << >>}
  BY DEF K!Init
<1>2. Jobs /\ JobsApart
  <2>1. K!Idle.at = "idle"
    BY DEF K!Idle
  <2> QED
    BY <1>1, <2>1 DEF Jobs, JobInv, JobsApart, K!busy
<1>3. Forms
  BY <1>1 DEF Forms
<1>4. Holds
  <2>1. ram = [f \in K!AllFields |-> ram[f]] /\ running = [f \in K!Applied |-> running[f]]
    BY <1>1, LoadIs
  <2>2. DOMAIN kept = {}
    BY <1>1
  <2>3. pending \in BOOLEAN /\ astray \in BOOLEAN /\ batch.open \in BOOLEAN /\ batch.wish \in BOOLEAN
    BY <1>1
  <2> QED
    BY <1>1, <2>1, <2>2, <2>3 DEF Holds
<1>5. Settled /\ Runs
  BY <1>1, LoadIs DEF Settled, Runs, K!Applied
<1>6. K!legal(ram) /\ ~K!lockedOut(ram)
  <2>1. CASE flash = << >>
    BY <1>1, <2>1, DefaultIs
  <2>2. CASE flash = K!oldFlash
    <3>1. {"freq", "region", "console"} \subseteq K!AllFields /\ DOMAIN flash = {"l_wifi"}
          /\ DOMAIN K!Default = K!AllFields
      BY <2>2, KeysAre, KeysSound DEF K!Sections, K!oldFlash, K!Default
    <3>2. ram["console"] = K!Default["console"] /\ ram["region"] = K!Default["freq"] /\ ram["freq"] = K!Default["freq"]
      BY <1>1, <3>1 DEF K!Load, K!Over
    <3> QED
      BY <3>2, DefaultIs DEF K!legal, K!lockedOut
  <2> QED
    BY <1>1, <2>1, <2>2
<1>7. Sane
  BY <1>6 DEF Sane
<1> QED
  BY <1>2, <1>3, <1>4, <1>5, <1>7 DEF SettingsInv

LEMMA SettingsNext == SettingsInv /\ [K!Next]_K!vars => SettingsInv'
<1> SUFFICES ASSUME SettingsInv, [K!Next]_K!vars PROVE SettingsInv'
  OBVIOUS
<1>1. ASSUME NEW w \in K!Tasks, K!Step(w) PROVE SettingsInv'
  BY <1>1, CopyKeeps, JudgeKeeps, AdoptKeeps, WriteKeeps, ApplyKeeps, EndKeeps, WipeKeeps DEF K!Step
<1>2. ASSUME NEW w \in K!Tasks, NEW r \in Requests, K!Receive(w, r) PROVE SettingsInv'
  BY <1>2, ReceiveKeeps
<1>3. ASSUME K!Restart \/ K!Cut PROVE SettingsInv'
  BY <1>3, BootKeeps DEF K!Restart, K!Cut
<1>4. ASSUME UNCHANGED K!vars PROVE SettingsInv'
  BY <1>4 DEF K!vars, K!store, K!past, SettingsInv, Jobs, Armed, JobsApart, Forms, Holds, Settled, Sane, Runs,
     K!busy, K!form
<1> QED
  BY <1>1, <1>2, <1>3, <1>4 DEF K!Next

\* Of Settings.cpp, SettingsFields.cpp, WifiManager.cpp and LocalLink.cpp: for
\* any requests that ask for fields of the sections they save, as long as two
\* that concern each other are not served at once, and wherever flash refuses
\* a key, the power is cut or a restart falls, what somebody was told is saved
\* is what the next boot reads; and until a save is torn or refused, nobody is
\* locked out between two saves and a node at rest runs what its settings say.
THEOREM SettingsAlwaysTrue == K!Spec => []SavedAndRun
<1>1. SettingsInv => K!Reachable
  <2> SUFFICES ASSUME SettingsInv, ~astray, \A w \in K!Tasks : ~K!midSave(w), NEW v \in {ram, K!Load(flash)}
               PROVE  K!legal(v) /\ ~K!lockedOut(v)
    BY DEF K!Reachable
  <2>1. \A w \in K!Tasks : \A s : ~AtSave(s, jobs[w])
    BY DEF K!midSave, K!busy, AtSave
  <2>2. K!legal(ram) /\ ~K!lockedOut(ram)
    BY <2>1 DEF SettingsInv, Sane
  <2>3. \A s \in K!Sections : \A f \in K!Fields(s) : v[f] = ram[f]
    BY <2>1 DEF SettingsInv, Settled
  <2>4. "radio" \in K!Sections /\ Doors \subseteq K!Sections
    BY DEF K!Sections, Doors
  <2> QED
    BY <2>2, <2>3, <2>4, RulesLocal
<1>2. SettingsInv => K!Kept
  BY DEF SettingsInv, Holds, K!Kept
<1>3. SettingsInv => K!RunsWhatItSays
  <2> SUFFICES ASSUME SettingsInv, K!Quiet, ~astray, NEW f \in K!Applied PROVE running[f] = ram[f]
    BY DEF K!RunsWhatItSays
  <2>1. ~Armed
    BY DEF K!Quiet, Armed, SettingsInv, Forms
  <2>2. \A w \in K!Tasks : ~Loose(f, jobs[w])
    BY DEF K!Quiet, K!busy, Loose
  <2> QED
    BY <2>1, <2>2 DEF SettingsInv, Runs
<1> QED
  BY <1>1, <1>2, <1>3, SettingsStart, SettingsNext, PTL DEF K!Spec, SavedAndRun
=============================================================================
