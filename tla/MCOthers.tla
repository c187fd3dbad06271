---------------------------- MODULE MCOthers ----------------------------
(* What the node takes from other nodes and what it tells them, on small    *)
(* instances: messages and their answers, names, its own announces, the     *)
(* formats, its screens, the panel under them and its inbox; and a card     *)
(* that two nodes share. A run explores one of them.                        *)
EXTENDS Messages

CONSTANTS ann, bob, cid
Msg(from, signer, elements, signed, commands, position) ==
  [from |-> from, signer |-> signer, elements |-> elements, addressed |-> TRUE,
   signed |-> [from |-> from, elements |-> signed], commands |-> commands, position |-> position]
\* One in order with a stamp, one whose signer is not its sender; a transfer that asks twice.
SomeMessages  == {Msg(ann, ann, 5, 4, <<"other", "telemetry", "signal">>, TRUE),
                  Msg(bob, ann, 4, 4, <<"ping">>, TRUE)}
SomeFrames    == {[is |-> "message", who |-> NoOne, message |-> m] : m \in SomeMessages}
          \cup {[is |-> "announce", who |-> ann, message |-> NoOne],
                [is |-> "identify", who |-> bob, message |-> NoOne],
                [is |-> "short", who |-> NoOne, message |-> NoOne]}
SomeTransfers == {Msg(bob, bob, 4, 4, <<"echo nothing", "signal">>, FALSE)}

VARIABLE part   \* the component that runs

-----------------------------------------------------------------------------
\* Names
CONSTANTS
  Heard, kMax, MAX_NEIGHBORS, MaxFaults
\* Three who announce, one under two names.
SomeHeard == {[hash |-> ann, name |-> "x"], [hash |-> ann, name |-> "y"], [hash |-> bob, name |-> "x"], [hash |-> cid, name |-> "x"]}
ASSUME NamesAssumption ==
  /\ \A e \in Heard : e.hash # NoOne
  /\ kMax \in Nat \ {0} /\ MAX_NEIGHBORS \in Nat \ {0}
VARIABLES
  n, recent, sCache, sNext, sLoaded, file, rns, ui, gone, raced, faults, behind
N == INSTANCE Names
namesVars == <<
  n, recent, sCache, sNext, sLoaded, file, rns, ui, gone, raced, faults, behind>>

-----------------------------------------------------------------------------
\* Announces
CONSTANTS
  W, Intervals, Spread, BootDelay, PeerDelay, MaxOff, LastPeer, MaxBoots, MaxErased
ASSUME ClockAssumption ==
  /\ W \in Nat \ {0} /\ Spread \in Nat /\ Intervals \subseteq Nat
  /\ {BootDelay, PeerDelay, LastPeer, MaxOff} \subseteq Nat
\* The clock goes round in 49.7 days: no interval comes near the half of that.
ASSUME HorizonAssumption ==
  /\ \A i \in Intervals : Spread < i /\ i + Spread < W \div 2 /\ i + MaxOff <= W \div 2
  /\ BootDelay + MaxOff < W \div 2 /\ PeerDelay + MaxOff < W \div 2 /\ PeerDelay + LastPeer < W \div 2
VARIABLES
  now, interval, announcesSNext, sFloor, sBookedFor, sForce, passed, up, off, announcesTx,
  aired, xPrv, edSeed, at, key, told, erased, boots
A == INSTANCE Announces WITH
  sNext <- announcesSNext
announcesVars == <<
  now, interval, announcesSNext, sFloor, sBookedFor, sForce, passed, up, off, announcesTx,
  aired, xPrv, edSeed, at, key, told, erased, boots>>

-----------------------------------------------------------------------------
\* Format
VARIABLES
  kind, buf, read
F == INSTANCE Format WITH
  Bytes <- {"k2", "k9", "str1", "map1", "map2", "arr2"}, TextBytes <- {"A", "two", "bidi",
  "cont"}, MaxLen <- 5, Depth <- 3
formatVars == <<
  kind, buf, read>>

-----------------------------------------------------------------------------
\* StoreHome
CONSTANTS n1, n2, c1, NoCard, NoTree, NoMarker, Unreadable
VARIABLES
  nvs, ram, flash, card, slot, mounted, info, lost, formatReq, onSd, cache, name, pc, move,
  haveSource, result, home, record, writes, cuts, renames
T == INSTANCE StoreHome WITH
  Node <- {n1, n2}, Card <- {c1}, Name <- {"alpha"}, LegacyCards <- {}, Faults <- {},
  MaxWrites <- 0, MaxCuts <- 0, MaxRenames <- 0
cardVars == <<
  nvs, ram, flash, card, slot, mounted, info, lost, formatReq, onSd, cache, name, pc, move,
  haveSource, result, home, record, writes, cuts, renames>>

-----------------------------------------------------------------------------
\* Shell
CONSTANT kStack
ASSUME StackAssumption == kStack \in Nat \ {0}
VARIABLES
  stack, active, dying, sThreadDest, sBearingHash, sThreadCol, kb, box, alert, idle, fresh
G == INSTANCE Shell WITH
  Peers <- Senders, None <- "none"
shellVars == <<
  stack, active, dying, sThreadDest, sBearingHash, sThreadCol, kb, box, alert, idle, fresh>>

-----------------------------------------------------------------------------
\* Inbox
CONSTANTS Letters, Writer(_), InboxSlots, QueueCap, RecentMax, Burst, MaxSeq, MaxLosses
\* Three messages, two of them from one sender.
SomeWriter(m) == IF m = 3 THEN bob ELSE ann
ASSUME InboxAssumption == {InboxSlots, RecentMax} \subseteq Nat \ {0}
VARIABLES
  inboxQueue, inboxRing, newest, inboxRecent, inboxTokens, taken, inboxFaults
I == INSTANCE Inbox WITH
  Messages <- Letters, SenderOf <- Writer, Slots <- InboxSlots, Wipes <- FALSE,
  MaxFaults <- MaxLosses, queue <- inboxQueue, ring <- inboxRing, recent <- inboxRecent,
  tokens <- inboxTokens, faults <- inboxFaults
inboxVars == <<
  inboxQueue, inboxRing, newest, inboxRecent, inboxTokens, taken, inboxFaults>>

-----------------------------------------------------------------------------
\* Panel
CONSTANTS
  Contexts, Watched, Long, PageTimeout, Sleep, RestEvery, TurnedEvery, Bright, Profile, Floor,
  FullEvery, Oldest
\* A node with most pages, one with a small panel; the frame counter is watched.
Nodes == {{"gps", "env", "radio", "heard", "wifi", "joined", "receiver", "sensor", "reading", "battery"},
          {"compact", "radio"}}
ASSUME PanelAssumption ==
  /\ {Long, PageTimeout, Sleep, FullEvery, Profile} \subseteq Nat
  /\ {RestEvery, TurnedEvery, Bright, Floor} \subseteq Nat \ {0}
  /\ Oldest \in Nat /\ \A age \in {4 * Sleep + 1, PageTimeout + 1, RestEvery, TurnedEvery} : age <= Oldest
VARIABLES
  panelKind, shell, context, watched, value, busy, notice, d, unseen
D == INSTANCE Panel WITH
  Kinds <- {"oled", "eink", "tft"}, kind <- panelKind
panelVars == <<
  panelKind, shell, context, watched, value, busy, notice, d, unseen>>

-----------------------------------------------------------------------------
\* One component runs; the others stay where one of their runs begins.
AllInit ==
  /\ part \in {"messages", "names", "announces", "format", "card", "shell", "inbox", "panel"}
  /\ Init /\ (part # "messages" => TRUE)
  /\ N!Init
  /\ A!Init /\ (part # "announces" => interval = 0)
  /\ F!Init /\ (part # "format" => kind = "text" /\ buf = << >>)
  /\ T!Init /\ (part # "card" => slot = [x \in {n1, n2} |-> NoCard] /\ flash = [x \in {n1, n2} |-> [live |-> NoTree, staging |-> NoTree]])
  /\ G!Init
  /\ I!Init
  /\ D!Init /\ (part # "panel" => panelKind = "oled" /\ "compact" \in context)
AllNext ==
  \/ part = "messages" /\ Next /\ UNCHANGED <<part, namesVars, announcesVars, formatVars, cardVars, shellVars, inboxVars, panelVars>>
  \/ part = "names" /\ N!Next /\ UNCHANGED <<part, vars, announcesVars, formatVars, cardVars, shellVars, inboxVars, panelVars>>
  \/ part = "announces" /\ A!Next /\ UNCHANGED <<part, vars, namesVars, formatVars, cardVars, shellVars, inboxVars, panelVars>>
  \/ part = "format" /\ F!Next /\ UNCHANGED <<part, vars, namesVars, announcesVars, cardVars, shellVars, inboxVars, panelVars>>
  \/ part = "card" /\ T!Next /\ UNCHANGED <<part, vars, namesVars, announcesVars, formatVars, shellVars, inboxVars, panelVars>>
  \/ part = "shell" /\ G!Next /\ UNCHANGED <<part, vars, namesVars, announcesVars, formatVars, cardVars, inboxVars, panelVars>>
  \/ part = "inbox" /\ I!Next /\ UNCHANGED <<part, vars, namesVars, announcesVars, formatVars, cardVars, shellVars, panelVars>>
  \/ part = "panel" /\ D!Next /\ UNCHANGED <<part, vars, namesVars, announcesVars, formatVars, cardVars, shellVars, inboxVars>>
AllSpec ==
  /\ AllInit /\ [][AllNext]_<<part, vars, namesVars, announcesVars, formatVars, cardVars, shellVars, inboxVars, panelVars>>

-----------------------------------------------------------------------------
\* Of Names: the table holds the newest, the file what it should, and what was
\* erased stays away.
NamesTrue == N!TableNewest /\ N!NamesKept /\ N!StaysErased

\* Of Announces: the next announce is booked ahead, and after a restart it goes
\* out from the same address.
Announced == A!BookedAhead /\ A!SameAddress

\* Of Format: a walk over fields stops where the buffer does, a cut leaves whole
\* characters.
ReadsTrue == F!WalksRight /\ F!CutsRight /\ F!SpansAgree

\* Of Inbox: every message in the file is on the pages, and none is taken twice.
NothingBuried == I!NothingBuried /\ I!RepeatsApart

\* Of Shell, two peers and a stack of two: the screens stack, and the statics
\* agree with the glass.
ScreensTrue == G!StackSound /\ G!GlassTrue

\* Of StoreHome, two nodes: none runs on the other's store, and a card that is
\* claimed is changed by its owner alone, or formatted for whoever holds it.
OthersLeftAlone == [](T!HomeHoldsRecord /\ T!OwnStoreOnly) /\ T!OthersCardsLeftAlone

\* Of Panel: the glass says what its page says, and is lit when somebody needs it.
PanelHonest == D!PanelHonest
=============================================================================
