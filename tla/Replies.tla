--------------------------------- MODULE Replies ---------------------------------
(***************************************************************************)
(* LXMF messages on their way out of src/rns/RnsTransport.cpp: several     *)
(* tasks queue them, the RNS task sends them when there is a path and      *)
(* holds at most one that has none (src/rns/PathWait.h), and a log of rows *)
(* tells the display what became of each.                                  *)
(*                                                                         *)
(* A row is matched to a message by destination alone, so each keeps, as   *)
(* history, whose row it is and whose outcome it shows.                    *)
(***************************************************************************)
EXTENDS Integers, FiniteSets, Sequences, SequencesExt

CONSTANTS Msg,         \* messages to be sent
          Dest,        \* their destinations
          To,          \* the destination of each message
          Telemetry,   \* messages that carry readings: the log has no row for them
          Depth,       \* sReplyQueue
          Rows,        \* sOutLog
          WaitMax,     \* kPathWaitMs, in passes of the loop
          AskEvery,    \* kPathRequestMinIntervalMs, in passes
          Collide,     \* two tasks may queue for one destination at the same time
          MaxThrows    \* bound: sends and requests that throw

ASSUME MessageAssumption ==
    /\ To \in [Msg -> Dest] /\ Telemetry \subseteq Msg
    /\ Collide \in BOOLEAN /\ MaxThrows \in Nat
ASSUME RoomAssumption == {Depth, Rows, WaitMax, AskEvery} \subseteq Nat \ {0}

VARIABLES
    stage,     \* of each message's caller: "new", "logged", "refused", "done"
    queue,     \* sReplyQueue
    log,       \* sOutLog and sOutCount: every row written, the last Rows of them there
    pc,        \* where the RNS task is in its pass
    held,      \* sHeld, as a sequence of at most one
    waiting,   \* passes since sHeldWait.startedMs
    asked,     \* sHeldWait.asked
    sinceAsk,  \* passes since a path to each destination was asked for
    path,      \* destinations there is a path to
    sends,     \* history: how often each message went on the air
    receipts,  \* messages whose proof is awaited
    proofs,    \* history: receipts concluded for each destination, proved and not
    thrown     \* throws so far

calls == <<stage, queue>>
hold  == <<held, waiting, asked>>
net   == <<sinceAsk, path>>
wire  == <<sends, receipts>>
vars  == <<calls, log, pc, hold, net, wire, proofs, thrown>>

NewRow(m) == [of |-> m, to |-> To[m], sent |-> "no", whose |-> m, proof |-> "none"]

(* Rows the log still holds.                                                *)
there == {i \in DOMAIN log : i > Len(log) - Rows}

oldest(S) == CHOOSE i \in S : \A j \in S : i <= j

-----------------------------------------------------------------------------
(* queueLxmfTelemetry(), by whichever task: the row, then the queue, then   *)
(* the verdict when the queue was full.                                     *)

mayCall(m) ==
    \/ Collide
    \/ \A o \in Msg : To[o] = To[m] => stage[o] \in {"new", "done"}

Log(m) ==
    /\ stage[m] = "new" /\ mayCall(m)
    /\ stage' = [stage EXCEPT ![m] = "logged"]
    /\ log' = IF m \in Telemetry THEN log ELSE Append(log, NewRow(m))
    /\ UNCHANGED <<queue, pc, hold, net, wire, proofs, thrown>>

Enqueue(m) ==
    /\ stage[m] = "logged"
    /\ IF Len(queue) < Depth
       THEN queue' = Append(queue, m) /\ stage' = [stage EXCEPT ![m] = "done"]
       ELSE stage' = [stage EXCEPT ![m] = "refused"] /\ UNCHANGED queue
    /\ UNCHANGED <<log, pc, hold, net, wire, proofs, thrown>>

(* The row in the slot the caller wrote, if it is still to the same         *)
(* destination and has no verdict.                                          *)
slotOf(m) == {i \in there : \E j \in DOMAIN log : log[j].of = m /\ i % Rows = j % Rows}

Refused(m) ==
    /\ stage[m] = "refused"
    /\ stage' = [stage EXCEPT ![m] = "done"]
    /\ log' = [i \in DOMAIN log |->
                  IF i \in slotOf(m) /\ log[i].to = To[m] /\ log[i].sent = "no"
                  THEN [log[i] EXCEPT !.sent = "failed", !.whose = m] ELSE log[i]]
    /\ UNCHANGED <<queue, pc, hold, net, wire, proofs, thrown>>

-----------------------------------------------------------------------------
(* deliverAndStamp(): the oldest row to this destination without a verdict  *)
(* gets it.                                                                 *)
stamped(m, ok) ==
    LET open == {i \in there : log[i].sent = "no" /\ log[i].to = To[m]}
    IN IF m \in Telemetry \/ open = {} THEN log
       ELSE [log EXCEPT ![oldest(open)] =
                 [@ EXCEPT !.sent = IF ok THEN "ok" ELSE "failed", !.whose = m]]

(* sendLxmf() sends, refuses (no key, no room), or throws after or before   *)
(* the packet left; the guard inside keeps the verdict.                     *)
Deliver(m) ==
    \/ /\ sends' = [sends EXCEPT ![m] = @ + 1] /\ log' = stamped(m, TRUE)
       /\ receipts' = receipts \cup ({m} \ Telemetry) /\ UNCHANGED thrown
    \/ log' = stamped(m, FALSE) /\ UNCHANGED <<wire, thrown>>
    \/ /\ thrown < MaxThrows /\ thrown' = thrown + 1
       /\ sends' = [sends EXCEPT ![m] = @ + 1] /\ log' = stamped(m, FALSE) /\ UNCHANGED receipts

GiveUp(m) == log' = stamped(m, FALSE) /\ UNCHANGED <<wire, thrown>>

-----------------------------------------------------------------------------
(* The pass: the head of the queue goes into the slot.  The mutant takes it *)
(* whether or not the slot is taken.                                        *)
TakeOver ==
    /\ pc = "take" /\ pc' = "decide"
    /\ IF queue # <<>>
       THEN held' = <<Head(queue)>> /\ queue' = Tail(queue) /\ waiting' = 0 /\ asked' = FALSE
       ELSE UNCHANGED <<queue, hold>>
    /\ UNCHANGED <<stage, log, net, wire, proofs, thrown>>

Take ==
    /\ pc = "take" /\ pc' = "decide"
    /\ IF held = <<>> /\ queue # <<>>
       THEN held' = <<Head(queue)>> /\ queue' = Tail(queue) /\ waiting' = 0 /\ asked' = FALSE
       ELSE UNCHANGED <<queue, hold>>
    /\ UNCHANGED <<stage, log, net, wire, proofs, thrown>>

(* pathAction().  A path is looked for before the clock.                    *)
action(d) ==
    IF d \in path THEN "send"
    ELSE IF waiting >= WaitMax THEN "giveUp"
    ELSE IF ~asked /\ sinceAsk[d] >= AskEvery THEN "request" ELSE "wait"

(* The slot is emptied before the work that can throw.                      *)
Conclude(m, act) ==
    /\ held' = <<>>
    /\ IF act = "send" THEN Deliver(m) ELSE GiveUp(m)

(* A request that throws abandons the pass with nothing written down.       *)
Decide ==
    /\ pc = "decide"
    /\ IF held = <<>> THEN pc' = "rest" /\ UNCHANGED <<log, hold, net, wire, thrown>>
       ELSE LET m == held[1]
                act == action(To[m])
            IN \/ /\ act \in {"send", "giveUp"} /\ Conclude(m, act) /\ pc' = "rest"
                  /\ UNCHANGED <<waiting, asked, net>>
               \/ /\ act = "request" /\ pc' = "overtake"
                  /\ asked' = TRUE /\ sinceAsk' = [sinceAsk EXCEPT ![To[m]] = 0]
                  /\ UNCHANGED <<log, held, waiting, path, wire, thrown>>
               \/ /\ act = "request" /\ pc' = "rest"
                  /\ thrown < MaxThrows /\ thrown' = thrown + 1
                  /\ UNCHANGED <<log, hold, net, wire>>
               \/ /\ act = "wait" /\ pc' = "overtake"
                  /\ UNCHANGED <<log, hold, net, wire, thrown>>
    /\ UNCHANGED <<calls, proofs>>

(* The next message passes the held one if it is to somebody else there is  *)
(* a path to.                                                               *)
overtakes(m) == To[m] # To[held[1]] /\ To[m] \in path

Overtake ==
    /\ pc = "overtake" /\ pc' = "rest"
    /\ IF queue # <<>> /\ overtakes(Head(queue))
       THEN queue' = Tail(queue) /\ Deliver(Head(queue))
       ELSE UNCHANGED <<queue, log, wire, thrown>>
    /\ UNCHANGED <<stage, hold, net, proofs>>

-----------------------------------------------------------------------------
(* reticulum.loop(): paths come and age out, time passes.                   *)
Loop ==
    /\ pc = "rest" /\ pc' = "take"
    /\ path' \in SUBSET Dest
    /\ waiting' = IF held # <<>> /\ waiting < WaitMax THEN waiting + 1 ELSE waiting
    /\ sinceAsk' = [d \in Dest |-> IF sinceAsk[d] < AskEvery THEN sinceAsk[d] + 1 ELSE AskEvery]
    /\ UNCHANGED <<calls, log, held, asked, wire, proofs, thrown>>

(* stampProof(): the receipt knows its destination and nothing else; the    *)
(* oldest row that was sent and has no proof verdict takes it.              *)
awaiting(d) == {i \in there : log[i].sent = "ok" /\ log[i].proof = "none" /\ log[i].to = d}

Receipt(m, verdict) ==
    /\ pc = "rest" /\ m \in receipts
    /\ receipts' = receipts \ {m}
    /\ log' = IF awaiting(To[m]) = {} THEN log
              ELSE [log EXCEPT ![oldest(awaiting(To[m]))].proof = verdict]
    /\ proofs' = [proofs EXCEPT ![To[m]][verdict] = @ + 1]
    /\ UNCHANGED <<calls, pc, hold, net, sends, thrown>>

Rns  == Take \/ Decide \/ Overtake \/ Loop
Call == \E m \in Msg : Log(m) \/ Enqueue(m) \/ Refused(m)
Next == Rns \/ Call \/ \E m \in Msg, v \in {"proved", "unproved"} : Receipt(m, v)

Init ==
    /\ stage = [m \in Msg |-> "new"] /\ queue = <<>> /\ log = <<>>
    /\ pc = "take" /\ held = <<>> /\ waiting = 0 /\ asked = FALSE
    /\ sinceAsk = [d \in Dest |-> AskEvery] /\ path \in SUBSET Dest
    /\ sends = [m \in Msg |-> 0] /\ receipts = {} /\ thrown = 0
    /\ proofs = [d \in Dest |-> [proved |-> 0, unproved |-> 0]]

Spec == Init /\ [][Next]_vars

(* The loop goes on and a call that began returns; nobody need call.        *)
FairSpec == Spec /\ WF_vars(Rns) /\ \A m \in Msg : WF_vars(Enqueue(m) \/ Refused(m))
-----------------------------------------------------------------------------
(* Properties.                                                              *)

(* Every variable has its type; the slot and the queue keep their room.     *)
TypeOK ==
    /\ stage \in [Msg -> {"new", "logged", "refused", "done"}]
    /\ queue \in Seq(Msg) /\ Len(queue) <= Depth /\ held \in Seq(Msg) /\ Len(held) <= 1
    /\ \A i \in DOMAIN log :
           log[i] \in [of : Msg, to : Dest, sent : {"no", "ok", "failed"}, whose : Msg,
                       proof : {"none", "proved", "unproved"}]
    /\ pc \in {"take", "decide", "overtake", "rest"} /\ waiting \in 0 .. WaitMax
    /\ asked \in BOOLEAN /\ sinceAsk \in [Dest -> 0 .. AskEvery] /\ path \subseteq Dest
    /\ sends \in [Msg -> Nat] /\ receipts \subseteq Msg /\ thrown \in 0 .. MaxThrows

(* No message goes on the air twice, whatever throws where.                 *)
SentOnce == \A m \in Msg : sends[m] <= 1

(* A verdict in the log is that of the message it stands beside: a message  *)
(* that overtakes another does not take its row, nor does one that was      *)
(* refused.                                                                 *)
OwnVerdict == \A i \in there : log[i].sent # "no" => log[i].whose = log[i].of

(* Each receipt that concluded is beside one sent message to its            *)
(* destination, and nothing that failed is shown as delivered.              *)
ProofsAddUp ==
    \A d \in Dest, v \in {"proved", "unproved"} :
        Len(log) <= Rows =>
            Cardinality({i \in there : log[i].to = d /\ log[i].sent = "ok" /\ log[i].proof = v}) = proofs[d][v]

(* Sent once, and every verdict and proof beside its own message.           *)
RowsTrue == SentOnce /\ OwnVerdict /\ ProofsAddUp

(* No row says "queued" for ever: with or without a path, refused, held,    *)
(* overtaken or thrown out of, a message gets its verdict.                  *)
RowsConclude ==
    \A m \in Msg \ Telemetry :
        stage[m] = "logged" ~> ~\E i \in there : log[i].of = m /\ log[i].sent = "no"
=============================================================================
