----------------------------- MODULE Messages ------------------------------
(***************************************************************************)
(* What arrives by radio or over a link, and what this node answers        *)
(* (rns/RnsTransport.cpp, rns/LxmfCommands.h, sys/RingDrain.h): frames are  *)
(* drained from the radio's ring with the reading taken of each, announces  *)
(* and links teach keys, a message is weighed by the key held for the       *)
(* address it claims, and a command in it may be answered, within a budget. *)
(*                                                                         *)
(* All of it runs on the transport's task; the radio's task fills the ring, *)
(* the main loop puts its own answers in the same queue.                    *)
(***************************************************************************)
EXTENDS Integers, Sequences

CONSTANTS
  Senders, NoOne,
  Frames,                \* what a frame may carry, see Announced.. below
  Transfers,             \* messages that come as a resource
  Readings, NaN,         \* signal readings; none
  kBatch,                \* frames one pass takes
  RingSlots, ReplySlots,
  kProven,               \* keys remembered from links
  kSeen,                 \* senders remembered as answered
  kCommandBurst, kCommandRefill, kCommandCooldown,
  kMaxPositions,
  MaxThrows              \* bound: failed allocations

Message == Transfers \cup {f.message : f \in {g \in Frames : g.is = "message"}}

ASSUME SendersAssumption == \A m \in Message : {m.from, m.signer} \subseteq Senders
ASSUME FramesAssumption == \A f \in Frames : f.is \in {"announce", "identify", "message", "short"}
ASSUME BatchAssumption == kBatch \in Nat \ {0}
\* Four answers, one more every fifteen seconds, ten seconds between two to one
\* sender, and eight senders remembered: RnsTransport.cpp:593-627.
ASSUME BudgetAssumption ==
  /\ {kCommandBurst, kCommandRefill, kCommandCooldown, kSeen} \subseteq Nat \ {0}
  /\ kCommandCooldown <= kCommandRefill
  /\ kCommandBurst <= kSeen
ASSUME PositionsAssumption == kMaxPositions \in Nat \ {0}

VARIABLES
  ring,                  \* frames as the radio took them
  drained,               \* frames this pass took; kBatch + 1 between passes
  reading,               \* r_stat_rssi and the rest: of the last frame
  heard, proven,         \* known by announce; by link, [who], the oldest first
  tokens,                \* sCommandTokens
  due, filled,           \* since sCommandFilledMs: refills, to the burst, and ticks
  seenBy,                \* sCommandSeen: [who, age], the oldest first
  queue,                 \* sReplyQueue
  positions,             \* PeerPositions: whose are kept, the oldest first
  past,                  \* [who, age] of the answers given, the newest last
  throws
keys == <<heard, proven>>
budget == <<tokens, due, filled, seenBy, past>>
vars == <<ring, drained, reading, keys, budget, queue, positions, throws>>

Resting == drained = kBatch + 1
Aged(rows, cap) == [i \in DOMAIN rows |-> [rows[i] EXCEPT !.age = IF @ < cap THEN @ + 1 ELSE @]]
\* A table of n places: x takes the place of the row of its name, a free one,
\* or that of the oldest row, and is the newest.
Slot(rows, who, n) ==
  IF \E i \in DOMAIN rows : rows[i].who = who THEN CHOOSE i \in DOMAIN rows : rows[i].who = who
  ELSE IF Len(rows) < n THEN 0 ELSE 1
Without(rows, i) == [j \in 1 .. Len(rows) - 1 |-> rows[IF j < i THEN j ELSE j + 1]]
Kept(rows, x, n) ==
  LET i == Slot(rows, x.who, n) IN Append(IF i = 0 THEN rows ELSE Without(rows, i), x)

-----------------------------------------------------------------------------
\* The radio's task. A ring without room drops the frame.
Post(f, r) ==
  /\ Len(ring) < RingSlots
  /\ ring' = Append(ring, [frame |-> f, rssi |-> r])
  /\ UNCHANGED <<drained, reading, keys, budget, queue, positions, throws>>

\* parseLxmf: the envelope and at least time, title and content. A single
\* packet comes without the address it was sent to, which is put back.
parseLxmf(m) == m.elements >= 3 /\ m.addressed

\* lxmfSignedSpans: addresses and the first four elements, whatever follows.
lxmfSignedSpans(m) == [from |-> m.from, elements |-> IF m.elements > 4 THEN 4 ELSE m.elements]
Signs(who, m) == m.signer = who /\ m.signed = lxmfSignedSpans(m)

\* senderKey: heard announcing, or proved on a link.
senderKey(who) == who \in heard \/ \E i \in DOMAIN proven : proven[i].who = who
Verified(m) == senderKey(m.from) /\ Signs(m.from, m)

\* Rns::Commands::answers and reply: an echo of nothing is no answer.
answers(c) == IF c \in {"ping", "signal", "echo"} THEN "text" ELSE IF c = "telemetry" THEN "readings" ELSE "none"
Answerable(c) == answers(c) # "none" /\ c # "echo nothing"

\* refillCommandBudget: what is due since it was filled, up to the burst; the
\* remainder is kept.
Refilled == IF tokens + due > kCommandBurst THEN kCommandBurst ELSE tokens + due
commandCooldownActive(who) == \E i \in DOMAIN seenBy : seenBy[i].who = who /\ seenBy[i].age < kCommandCooldown

\* Mutant: one sender's cooldown is all there is.
MayByName(who) == ~commandCooldownActive(who)

mayAnswerCommand(who) == Refilled > 0 /\ ~commandCooldownActive(who)

\* noteCommandAnswered, and the answer given.
noteCommandAnswered(who) ==
  /\ tokens' = IF Refilled > 0 THEN Refilled - 1 ELSE 0
  /\ seenBy' = Kept(seenBy, [who |-> who, age |-> 0], kSeen)
  /\ past' = LET all == Append(past, [who |-> who, age |-> 0])
             IN  IF Len(all) > kCommandBurst + 2 THEN Tail(all) ELSE all

\* The commands of a verified message: the first this node answers is.
Asks(m) == SelectSeq(m.commands, LAMBDA c : Answerable(c))
Answers(m, signal) ==
  IF ~(Verified(m) /\ m.commands # << >>) THEN UNCHANGED <<budget, queue>>
  ELSE /\ due' = 0 /\ filled' = filled
       /\ IF mayAnswerCommand(m.from) /\ Asks(m) # << >> /\ Len(queue) < ReplySlots
          THEN /\ queue' = Append(queue, [to |-> m.from, kind |-> answers(Head(Asks(m))), signal |-> signal,
                                          asker |-> m.signer,
                                          took |-> IF Resting THEN NaN ELSE Head(ring).rssi])
               /\ noteCommandAnswered(m.from)
          ELSE tokens' = Refilled /\ UNCHANGED <<seenBy, past, queue>>

\* PeerPositions::seen
seen(who, by) == positions' = Kept(positions, [who |-> who, by |-> by], kMaxPositions)

\* handleLxmfMessage; what it keeps of it is in the inbox's module, what it
\* offers to the administrator's gate in that module.
handleLxmfMessage(m, signal) ==
  IF ~parseLxmf(m) THEN UNCHANGED <<budget, queue, positions>>
  ELSE /\ IF Verified(m) /\ m.position THEN seen(m.from, m.signer) ELSE UNCHANGED positions
       /\ Answers(m, signal)

-----------------------------------------------------------------------------
\* rememberProvenKey; handle_incoming for what a frame may be.
Announces(who) == heard' = heard \cup {who} /\ UNCHANGED <<proven, budget, queue, positions>>
onLxmfIdentified(who) ==
  /\ proven' = Kept(proven, [who |-> who], kProven)
  /\ UNCHANGED <<heard, budget, queue, positions>>
handle_incoming(f, signal) ==
  CASE f.is = "announce" -> Announces(f.who)
    [] f.is = "identify" -> onLxmfIdentified(f.who)
    [] f.is = "message"  -> handleLxmfMessage(f.message, signal) /\ UNCHANGED keys
    [] f.is = "short"    -> UNCHANGED <<keys, budget, queue, positions>>

StartPass ==
  /\ Resting /\ drained' = 0
  /\ UNCHANGED <<ring, reading, keys, budget, queue, positions, throws>>

\* One frame: its own reading is set before it is handed on. A frame without a
\* body is only counted. What is thrown while it
\* is handled ends the pass; the frame's room in the ring comes back either way.
Receive ==
  /\ drained < kBatch /\ ring # << >>
  /\ LET f == Head(ring)
     IN  /\ ring' = Tail(ring)
         /\ reading' = IF f.frame.is = "short" THEN reading ELSE f.rssi
         /\ \/ drained' = drained + 1 /\ throws' = throws /\ handle_incoming(f.frame, reading')
            \/ /\ throws < MaxThrows /\ throws' = throws + 1 /\ drained' = kBatch + 1
               /\ UNCHANGED <<keys, budget, queue, positions>>

EndPass ==
  /\ ~Resting /\ (ring = << >> \/ drained = kBatch) /\ drained' = kBatch + 1
  /\ UNCHANGED <<ring, reading, keys, budget, queue, positions, throws>>

\* onLxmfResourceConcluded: a transfer has no reading of its own; one that is
\* too large was cancelled when it started.
onLxmfResourceConcluded(m) ==
  /\ Resting /\ handleLxmfMessage(m, NaN)
  /\ UNCHANGED <<ring, drained, reading, keys, throws>>

\* The table of known senders is the library's, and culled by it.
Forget(who) ==
  /\ Resting /\ who \in heard /\ heard' = heard \ {who}
  /\ UNCHANGED <<ring, drained, reading, proven, budget, queue, positions, throws>>

\* queueLxmfReply from the main loop; loop() takes the next answer.
queueLxmfReply ==
  /\ Len(queue) < ReplySlots
  /\ queue' = Append(queue, [to |-> NoOne, kind |-> "admin", signal |-> NaN, asker |-> NoOne, took |-> NaN])
  /\ UNCHANGED <<ring, drained, reading, keys, budget, positions, throws>>
TakeReply ==
  /\ Resting /\ queue # << >> /\ queue' = Tail(queue)
  /\ UNCHANGED <<ring, drained, reading, keys, budget, positions, throws>>

\* What falls due past a full budget changes nothing but the remainder.
Tick ==
  /\ IF filled + 1 < kCommandRefill THEN filled' = filled + 1 /\ due' = due
     ELSE filled' = 0 /\ due' = IF due < kCommandBurst THEN due + 1 ELSE due
  /\ seenBy' = Aged(seenBy, kCommandCooldown)
  /\ past' = Aged(past, kCommandCooldown + kCommandRefill)
  /\ UNCHANGED <<ring, drained, reading, keys, tokens, queue, positions, throws>>

-----------------------------------------------------------------------------
Init ==
  /\ ring = << >> /\ drained = kBatch + 1 /\ reading = NaN
  /\ heard = {} /\ proven = << >>
  /\ tokens = kCommandBurst /\ due = 0 /\ filled = 0 /\ seenBy = << >> /\ past = << >>
  /\ queue = << >> /\ positions = << >> /\ throws = 0

Next ==
  \/ \E f \in Frames, r \in Readings : Post(f, r)
  \/ StartPass \/ Receive \/ EndPass
  \/ \E m \in Transfers : onLxmfResourceConcluded(m)
  \/ \E who \in Senders : Forget(who)
  \/ queueLxmfReply \/ TakeReply \/ Tick
Spec == Init /\ [][Next]_vars

-----------------------------------------------------------------------------
\* An answer goes to whoever asked, proved to be who the message named, and
\* carries the reading of the frame that asked, not of one heard since.
AnswersEarned ==
  \A i \in DOMAIN queue : queue[i].to # NoOne =>
    /\ queue[i].asker = queue[i].to
    /\ queue[i].signal = queue[i].took
\* A position is kept only for someone who proved to be its sender.
PositionsProved == \A i \in DOMAIN positions : positions[i].by = positions[i].who

\* RnsTransport.cpp:622-624, 587-589: however many names a flood wears, the
\* answers of any refill's length are the burst and one more; and no sender is
\* answered twice within the cooldown, though the table forgets the oldest.
Budgeted ==
  /\ Len(past) = kCommandBurst + 2 => past[1].age >= kCommandRefill
  /\ \A i, j \in DOMAIN past : i < j /\ past[i].who = past[j].who => past[i].age - past[j].age >= kCommandCooldown
                                                                     \/ past[i].age = kCommandCooldown + kCommandRefill

\* An answer is earned by a message that proved its sender, a position is kept
\* for one only, and answers stay in budget.
MessagesTrue == AnswersEarned /\ PositionsProved /\ Budgeted
=============================================================================
