---------------------------------- MODULE Peers ----------------------------------
(***************************************************************************)
(* From a connection to an interface: how a client on :4242                *)
(* (src/net/RetiTransportServer.cpp, src/net/ClientAdmit.h) and a peer the *)
(* AutoInterface heard (src/rns/AutoInterface.cpp) become interfaces of    *)
(* the Reticulum transport, and stop being interfaces when they go         *)
(* (src/rns/RnsTransport.cpp).                                             *)
(*                                                                         *)
(* Two tasks on one core list the peers and post what happened to them in  *)
(* a queue; what the peers say goes into a ring beside it.  The RNS task,  *)
(* on the other core, takes the queue and then a batch off the ring in     *)
(* every pass.  Both ways are full at times and both then drop.  A peer    *)
(* here is one connection: ids are never used twice.                       *)
(***************************************************************************)
EXTENDS Naturals, Sequences, FiniteSets, SequenceTheorems, FiniteSetTheorems, TLAPS

CONSTANTS Tcp, AutoPeer, \* connections: clients of :4242, AutoInterface peers
          NameOf,        \* the name a peer's interface is hashed by
          MaxClients,    \* RNS_MAX_CLIENTS
          MaxPeers,      \* AUTOIF_MAX_PEERS
          EventRoom,     \* RNS_MAX_INTERFACES + 8
          RingRoom,      \* items the inbound ring takes
          Batch,         \* RingDrain::kBatch
          Faults         \* may hold "memory": an allocation fails or throws

Peer == Tcp \cup AutoPeer

ASSUME PeerAssumption == Tcp \cap AutoPeer = {}
ASSUME RoomAssumption == {MaxClients, MaxPeers, EventRoom, RingRoom, Batch} \subseteq Nat \ {0}

VARIABLES
    link,       \* what became of each connection
    listed,     \* _clients and sPeers
    posting,    \* what the listening tasks are still posting
    events,     \* sEvents
    ring,       \* the inbound ring
    pass,       \* where the RNS task is in its pass
    taken,      \* items this pass took off the ring
    tcpIfaces,  \* peers with an interface registered with Transport
    restarting, \* Bootloader::pending()
    strayed,    \* history: an event about it was dropped, threw, or evicted it
    cutOff      \* history: a packet the batch had left for later was discarded

vars == <<link, listed, posting, events, ring, pass, taken, tcpIfaces, restarting, strayed, cutOff>>
rns  == <<pass, taken, tcpIfaces, cutOff>>

Source == {"tcp", "auto"}
SourceOf(p) == IF p \in Tcp THEN "tcp" ELSE "auto"
Event == [id : Peer, connect : BOOLEAN]

joined(p) == [id |-> p, connect |-> TRUE]
left(p)   == [id |-> p, connect |-> FALSE]

Free(p) == posting[SourceOf(p)] = <<>>     \* its task is not in another call
-----------------------------------------------------------------------------
(* The listening tasks.                                                     *)

(* onClient() through ClientAdmit::admit(): a restart, the cap, and memory, *)
(* in that order; a client that is listed is posted, and any other is gone. *)
Admit(c) ==
    /\ link[c] = "new" /\ Free(c)
    /\ \/ /\ ~restarting /\ Cardinality(listed \cap Tcp) < MaxClients
          /\ link' = [link EXCEPT ![c] = "open"]
          /\ listed' = listed \cup {c}
          /\ posting' = [posting EXCEPT !["tcp"] = <<joined(c)>>]
       \/ /\ \/ restarting
             \/ Cardinality(listed \cap Tcp) >= MaxClients
             \/ "memory" \in Faults
          /\ link' = [link EXCEPT ![c] = "gone"]
          /\ UNCHANGED <<listed, posting>>
    /\ UNCHANGED <<events, ring, rns, restarting, strayed>>

(* touchPeer(): a peer heard for the first time takes a free slot, or the   *)
(* slot of the one silent longest.                                          *)
Hear(a) ==
    /\ link[a] = "new" /\ Free(a)
    /\ \/ /\ Cardinality(listed \cap AutoPeer) < MaxPeers
          /\ link' = [link EXCEPT ![a] = "open"]
          /\ listed' = listed \cup {a}
          /\ posting' = [posting EXCEPT !["auto"] = <<joined(a)>>]
       \/ /\ Cardinality(listed \cap AutoPeer) >= MaxPeers
          /\ \E o \in listed \cap AutoPeer :
               /\ link' = [link EXCEPT ![a] = "open", ![o] = "gone"]
               /\ listed' = (listed \ {o}) \cup {a}
               /\ posting' = [posting EXCEPT !["auto"] = <<left(o), joined(a)>>]
    /\ UNCHANGED <<events, ring, rns, restarting, strayed>>

(* onDisconnect(), expirePeers(), endTask(): off the list, then posted.     *)
Leave(p) ==
    /\ p \in listed /\ Free(p)
    /\ listed' = listed \ {p}
    /\ link' = [link EXCEPT ![p] = "gone"]
    /\ posting' = [posting EXCEPT ![SourceOf(p)] = <<left(p)>>]
    /\ UNCHANGED <<events, ring, rns, restarting, strayed>>

(* onData(), handleData(): a packet of a listed peer goes into the ring, or *)
(* is dropped when there has been no room in it for 20 ms.                  *)
Say(p) ==
    /\ p \in listed /\ Free(p)
    /\ Len(ring) < RingRoom
    /\ ring' = Append(ring, [id |-> p, deferred |-> FALSE])
    /\ UNCHANGED <<link, listed, posting, events, rns, restarting, strayed>>

(* postEvent(), outside every lock: a full queue is waited on for 20 ms.    *)
Post(s) ==
    /\ posting[s] # <<>>
    /\ Len(events) < EventRoom
    /\ events' = Append(events, Head(posting[s]))
    /\ posting' = [posting EXCEPT ![s] = Tail(@)]
    /\ UNCHANGED <<link, listed, ring, rns, restarting, strayed>>

Drop(s) ==
    /\ posting[s] # <<>>
    /\ Len(events) = EventRoom
    /\ strayed' = strayed \cup {Head(posting[s]).id}
    /\ posting' = [posting EXCEPT ![s] = Tail(@)]
    /\ UNCHANGED <<link, listed, events, ring, rns, restarting>>

-----------------------------------------------------------------------------
(* A pass of the RNS task: loop().                                          *)

(* evictCollision(): whoever holds the name goes.                           *)
evicted(p) == {o \in tcpIfaces : NameOf[o] = NameOf[p]}

(* processEvents(), one event.  A throw while an interface is brought up    *)
(* leaves nothing of it and ends the pass.                                  *)
TakeJoined ==
    /\ pass = "events" /\ events # <<>> /\ Head(events).connect
    /\ LET p == Head(events).id
       IN \/ /\ tcpIfaces' = (tcpIfaces \ evicted(p)) \cup {p}
             /\ strayed' = strayed \cup evicted(p)
             /\ UNCHANGED pass
          \/ /\ "memory" \in Faults
             /\ \E gone \in {{}, evicted(p)} :
                  /\ tcpIfaces' = tcpIfaces \ gone
                  /\ strayed' = strayed \cup gone \cup {p}
             /\ pass' = "abandoned"
    /\ events' = Tail(events)
    /\ UNCHANGED <<link, listed, posting, ring, taken, restarting, cutOff>>

(* The mutant leaves the interface registered.                              *)
TakeLeftQuietly ==
    /\ pass = "events" /\ events # <<>> /\ ~Head(events).connect
    /\ events' = Tail(events)
    /\ UNCHANGED <<link, listed, posting, ring, rns, restarting, strayed>>

TakeLeft ==
    /\ pass = "events" /\ events # <<>> /\ ~Head(events).connect
    /\ tcpIfaces' = tcpIfaces \ {Head(events).id}
    /\ events' = Tail(events)
    /\ UNCHANGED <<link, listed, posting, ring, pass, taken, restarting, strayed, cutOff>>

EventsTaken ==
    /\ pass = "events" /\ events = <<>>
    /\ pass' = "drain" /\ taken' = 0
    /\ UNCHANGED <<link, listed, posting, events, ring, tcpIfaces, restarting, strayed, cutOff>>

(* drainTcp(), one item: routed when its peer has an interface, discarded   *)
(* when not.  Routing may throw.  One mutant takes an item too many, the    *)
(* other counts none and goes on for as long as there are any.              *)
routed(item) ==
    IF item.id \in tcpIfaces
    THEN /\ UNCHANGED cutOff
         /\ pass' = pass \/ ("memory" \in Faults /\ pass' = "abandoned")
    ELSE /\ cutOff' = (cutOff \/ (item.deferred /\ item.id \notin strayed))
         /\ UNCHANGED pass

DrainOneMore ==
    /\ pass = "drain" /\ ring # <<>> /\ taken <= Batch
    /\ ring' = Tail(ring) /\ taken' = taken + 1
    /\ routed(Head(ring))
    /\ UNCHANGED <<link, listed, posting, events, tcpIfaces, restarting, strayed>>

DrainUncapped ==
    /\ pass = "drain" /\ ring # <<>>
    /\ ring' = Tail(ring) /\ UNCHANGED taken
    /\ routed(Head(ring))
    /\ UNCHANGED <<link, listed, posting, events, tcpIfaces, restarting, strayed>>

Drain ==
    /\ pass = "drain" /\ ring # <<>> /\ taken < Batch
    /\ ring' = Tail(ring) /\ taken' = taken + 1
    /\ routed(Head(ring))
    /\ UNCHANGED <<link, listed, posting, events, tcpIfaces, restarting, strayed>>

(* RingDrain::drain() ends at an empty ring or a full batch.                *)
Drained ==
    /\ pass = "drain" /\ (ring = <<>> \/ taken = Batch)
    /\ pass' = "library"
    /\ ring' = [i \in DOMAIN ring |-> [ring[i] EXCEPT !.deferred = TRUE]]
    /\ UNCHANGED <<link, listed, posting, events, taken, tcpIfaces, restarting, strayed, cutOff>>

(* reticulum.loop(), the announces and the snapshots, or the back-off after *)
(* a pass that threw.                                                       *)
Rest ==
    /\ pass \in {"library", "abandoned"}
    /\ pass' = "events"
    /\ UNCHANGED <<link, listed, posting, events, ring, taken, tcpIfaces, restarting, strayed, cutOff>>

ArmRestart ==
    /\ ~restarting /\ restarting' = TRUE
    /\ UNCHANGED <<link, listed, posting, events, ring, rns, strayed>>
-----------------------------------------------------------------------------
Listen(p) == (p \in Tcp /\ Admit(p)) \/ (p \in AutoPeer /\ Hear(p)) \/ Leave(p) \/ Say(p)

Pass == TakeJoined \/ TakeLeft \/ EventsTaken \/ Drain \/ Drained \/ Rest

Next == (\E p \in Peer : Listen(p)) \/ (\E s \in Source : Post(s) \/ Drop(s)) \/ Pass \/ ArmRestart

Init ==
    /\ link = [p \in Peer |-> "new"]
    /\ listed = {} /\ posting = [s \in Source |-> <<>>]
    /\ events = <<>> /\ ring = <<>>
    /\ pass = "events" /\ taken = 0
    /\ tcpIfaces = {} /\ restarting = FALSE
    /\ strayed = {} /\ cutOff = FALSE

Spec == Init /\ [][Next]_vars

(* The RNS task's passes go on, and a call to postEvent() returns.          *)
FairSpec == Spec /\ WF_vars(Pass) /\ \A s \in Source : WF_vars(Post(s) \/ Drop(s))
-----------------------------------------------------------------------------
(* Properties.                                                              *)

(* Every variable has its type.                                             *)
TypeOK ==
    /\ link \in [Peer -> {"new", "open", "gone"}]
    /\ listed \subseteq Peer
    /\ posting \in [Source -> Seq(Event)]
    /\ events \in Seq(Event) /\ Len(events) <= EventRoom
    /\ ring \in Seq([id : Peer, deferred : BOOLEAN]) /\ Len(ring) <= RingRoom
    /\ pass \in {"events", "drain", "library", "abandoned"}
    /\ taken \in 0 .. Batch
    /\ tcpIfaces \subseteq Peer /\ strayed \subseteq Peer
    /\ restarting \in BOOLEAN /\ cutOff \in BOOLEAN

holds(seq, e) == \E i \in DOMAIN seq : seq[i] = e
pending(e) == holds(events, e) \/ \E s \in Source : holds(posting[s], e)

(* The interfaces follow the list: once what is under way has been taken,   *)
(* the peers with an interface are exactly the peers that are there, less   *)
(* those about whom something was dropped, threw or collided.  No interface *)
(* stays registered that nothing can ever remove, and nobody goes unheard.  *)
InterfacesFollow ==
    \A p \in Peer \ strayed :
        p \in listed <=> (p \in tcpIfaces \/ pending(joined(p))) /\ ~pending(left(p))

(* "two interfaces that Transport cannot tell apart" (Config.h:439): no two *)
(* interfaces are registered under one name.                                *)
NamesUnique == \A p, q \in tcpIfaces : p # q => NameOf[p] # NameOf[q]

(* Neither list outgrows what was set aside for it.                         *)
ListsBounded ==
    Cardinality(listed \cap Tcp) <= MaxClients /\ Cardinality(listed \cap AutoPeer) <= MaxPeers

(* Interfaces follow the lists under names of their own, and the lists their *)
(* room.                                                                    *)
PeersTrue == InterfacesFollow /\ NamesUnique /\ ListsBounded

(* "nothing the batch defers is lost" (docs/api.md:320): a packet the cap   *)
(* left in the ring is routed when its turn comes.                          *)
DeferredIsRouted == ~cutOff

(* However fast the peers talk, one that is there is given its interface    *)
(* and one that went loses it, unless something about it was dropped.       *)
Settles ==
    \A p \in Peer :
        (p \in listed /\ p \notin tcpIfaces) ~> (p \in tcpIfaces \/ p \notin listed \/ p \in strayed)

Clears ==
    \A p \in Peer :
        (p \in tcpIfaces /\ p \notin listed) ~> (p \notin tcpIfaces \/ p \in strayed)

-----------------------------------------------------------------------------
(***************************************************************************)
(* The interfaces follow the peers, for any number of peers and any room   *)
(* in the lists, the queue and the ring.                                   *)
(*                                                                         *)
(* A peer's connect and disconnect travel through its task's hands and the *)
(* queue.  What keeps the promise is that they travel in order: behind a   *)
(* peer's disconnect there is never a connect of the same peer, because an *)
(* id is used once and every event of it goes through one task.            *)
(***************************************************************************)

(* Behind a disconnect of p in a sequence there is no connect of p.         *)
inOrder(seq, p) ==
    \A i, j \in DOMAIN seq : i < j /\ seq[i] = left(p) => seq[j] # joined(p)

(* A task posts the events of its own peers.                                *)
OwnPeers ==
    \A s \in Source, p \in Peer :
        holds(posting[s], joined(p)) \/ holds(posting[s], left(p)) => SourceOf(p) = s

(* What is known of a peer: its events are in order, nothing is known of it *)
(* before it was heard of, and its interface follows it.                    *)
Fine(p) ==
    LET hand == posting[SourceOf(p)]
    IN /\ inOrder(events, p) /\ inOrder(hand, p)
       /\ holds(events, left(p)) => ~holds(hand, joined(p))
       /\ link[p] = "new" =>
            /\ p \notin listed /\ p \notin tcpIfaces
            /\ ~holds(events, joined(p)) /\ ~holds(hand, joined(p))
            /\ ~holds(events, left(p)) /\ ~holds(hand, left(p))
       /\ p \notin strayed =>
            (p \in listed <=>
               /\ p \in tcpIfaces \/ holds(events, joined(p)) \/ holds(hand, joined(p))
               /\ ~holds(events, left(p)) /\ ~holds(hand, left(p)))

IInv == TypeOK /\ OwnPeers /\ \A p \in Peer : Fine(p)

-----------------------------------------------------------------------------
(* What appending to a queue and taking its head do to what it holds and to *)
(* the order it holds it in.                                                *)
LEMMA HoldsAppend ==
    ASSUME NEW seq \in Seq(Event), NEW e \in Event, NEW f \in Event
    PROVE  holds(Append(seq, f), e) <=> holds(seq, e) \/ e = f
  <1> DEFINE app == Append(seq, f)
  <1>1. /\ app \in Seq(Event) /\ Len(app) = Len(seq) + 1
        /\ \A i \in 1 .. Len(seq) : app[i] = seq[i]
        /\ app[Len(seq) + 1] = f
    BY AppendProperties
  <1>2. Len(seq) \in Nat /\ DOMAIN seq = 1 .. Len(seq) /\ DOMAIN app = 1 .. Len(seq) + 1
    BY <1>1, LenProperties
  <1> HIDE DEF app
  <1>3. holds(app, e) => holds(seq, e) \/ e = f BY <1>1, <1>2 DEF holds
  <1>4. holds(seq, e) => holds(app, e)
    <2> SUFFICES ASSUME NEW i \in DOMAIN seq, seq[i] = e PROVE holds(app, e) BY DEF holds
    <2>1. i \in DOMAIN app /\ app[i] = e BY <1>1, <1>2
    <2> QED BY <2>1 DEF holds
  <1>5. e = f => holds(app, e)
    <2>1. Len(seq) + 1 \in DOMAIN app BY <1>2
    <2> QED BY <2>1, <1>1 DEF holds
  <1> QED BY <1>3, <1>4, <1>5 DEF app

LEMMA HoldsTail ==
    ASSUME NEW seq \in Seq(Event), seq # <<>>, NEW e \in Event
    PROVE  holds(seq, e) <=> holds(Tail(seq), e) \/ e = Head(seq)
  <1>1. /\ Tail(seq) \in Seq(Event) /\ Len(Tail(seq)) = Len(seq) - 1
        /\ \A i \in 1 .. Len(Tail(seq)) : Tail(seq)[i] = seq[i + 1]
        /\ Head(seq) = seq[1]
    BY HeadTailProperties
  <1>2. Len(seq) \in Nat \ {0} /\ DOMAIN seq = 1 .. Len(seq) /\ DOMAIN Tail(seq) = 1 .. Len(seq) - 1
    BY <1>1, EmptySeq, LenProperties
  <1>3. holds(seq, e) => holds(Tail(seq), e) \/ e = Head(seq)
    <2> SUFFICES ASSUME NEW i \in DOMAIN seq, seq[i] = e, i # 1
                 PROVE  holds(Tail(seq), e)
      BY <1>1 DEF holds
    <2>1. i - 1 \in DOMAIN Tail(seq) /\ Tail(seq)[i - 1] = e BY <1>1, <1>2
    <2> QED BY <2>1 DEF holds
  <1>4. holds(Tail(seq), e) => holds(seq, e)
    <2> SUFFICES ASSUME NEW i \in DOMAIN Tail(seq), Tail(seq)[i] = e PROVE holds(seq, e)
      BY DEF holds
    <2>1. i + 1 \in DOMAIN seq /\ seq[i + 1] = e BY <1>1, <1>2
    <2> QED BY <2>1 DEF holds
  <1>5. e = Head(seq) => holds(seq, e)
    <2>1. 1 \in DOMAIN seq BY <1>2
    <2> QED BY <2>1, <1>1 DEF holds
  <1> QED BY <1>3, <1>4, <1>5

LEMMA InOrderAppend ==
    ASSUME NEW seq \in Seq(Event), NEW p \in Peer, NEW f \in Event, inOrder(seq, p),
           holds(seq, left(p)) => f # joined(p)
    PROVE  inOrder(Append(seq, f), p)
  <1> DEFINE app == Append(seq, f)
  <1>1. /\ Len(app) = Len(seq) + 1
        /\ \A i \in 1 .. Len(seq) : app[i] = seq[i]
        /\ app[Len(seq) + 1] = f /\ app \in Seq(Event)
    BY AppendProperties
  <1>2. Len(seq) \in Nat /\ DOMAIN seq = 1 .. Len(seq) /\ DOMAIN app = 1 .. Len(seq) + 1
    BY <1>1, LenProperties
  <1> HIDE DEF app
  <1> SUFFICES ASSUME NEW i \in DOMAIN app, NEW j \in DOMAIN app, i < j, app[i] = left(p)
               PROVE  app[j] # joined(p)
    BY DEF inOrder, app
  <1>3. i \in DOMAIN seq /\ seq[i] = left(p) BY <1>1, <1>2
  <1>4. CASE j = Len(seq) + 1 BY <1>1, <1>3, <1>4 DEF holds
  <1>5. CASE j # Len(seq) + 1 BY <1>1, <1>2, <1>3, <1>5 DEF inOrder
  <1> QED BY <1>4, <1>5

LEMMA InOrderTail ==
    ASSUME NEW seq \in Seq(Event), seq # <<>>, NEW p \in Peer, inOrder(seq, p)
    PROVE  /\ inOrder(Tail(seq), p)
           /\ Head(seq) = left(p) => ~holds(Tail(seq), joined(p))
  <1>1. /\ Tail(seq) \in Seq(Event) /\ Len(Tail(seq)) = Len(seq) - 1
        /\ \A i \in 1 .. Len(Tail(seq)) : Tail(seq)[i] = seq[i + 1]
        /\ Head(seq) = seq[1]
    BY HeadTailProperties
  <1>2. Len(seq) \in Nat \ {0} /\ DOMAIN seq = 1 .. Len(seq) /\ DOMAIN Tail(seq) = 1 .. Len(seq) - 1
    BY <1>1, EmptySeq, LenProperties
  <1>3. \A i \in DOMAIN Tail(seq) : i \in Nat /\ i + 1 \in DOMAIN seq /\ Tail(seq)[i] = seq[i + 1]
    BY <1>1, <1>2
  <1>4. inOrder(Tail(seq), p) BY <1>3 DEF inOrder
  <1>5. Head(seq) = left(p) => ~holds(Tail(seq), joined(p))
    <2> SUFFICES ASSUME seq[1] = left(p), NEW i \in DOMAIN Tail(seq), Tail(seq)[i] = joined(p)
                 PROVE  FALSE
      BY <1>1 DEF holds
    <2>1. 1 \in DOMAIN seq /\ i + 1 \in DOMAIN seq /\ 1 < i + 1 /\ seq[i + 1] = joined(p)
      BY <1>2, <1>3
    <2> QED BY <2>1 DEF inOrder
  <1> QED BY <1>4, <1>5

(* What a task starts to post: nothing, one event, or a disconnect and a    *)
(* connect.                                                                 *)
LEMMA HoldsFew ==
    ASSUME NEW e \in Event, NEW f \in Event, NEW g \in Event
    PROVE  /\ ~holds(<<>>, e)
           /\ holds(<<f>>, e) <=> e = f
           /\ holds(<<f, g>>, e) <=> e = f \/ e = g
BY DEF holds

(* Events of one peer are told from each other and from other peers'.       *)
LEMMA Events ==
    ASSUME NEW p \in Peer
    PROVE  /\ joined(p) \in Event /\ left(p) \in Event /\ joined(p) # left(p)
           /\ joined(p).id = p /\ joined(p).connect /\ left(p).id = p /\ ~left(p).connect
           /\ \A q \in Peer : q # p => joined(p) # joined(q) /\ left(p) # left(q)
           /\ \A e \in Event : e.id = p => e = joined(p) \/ e = left(p)
           /\ SourceOf(p) \in Source
BY DEF joined, left, Event, SourceOf, Source

LEMMA HoldsOwn ==
    ASSUME NEW q \in Peer, NEW o \in Peer, NEW p \in Peer
    PROVE  /\ holds(<<joined(q)>>, joined(p)) <=> p = q
           /\ ~holds(<<joined(q)>>, left(p))
           /\ holds(<<left(q)>>, left(p)) <=> p = q
           /\ ~holds(<<left(q)>>, joined(p))
           /\ holds(<<left(o), joined(q)>>, joined(p)) <=> p = q
           /\ holds(<<left(o), joined(q)>>, left(p)) <=> p = o
  <1>1. /\ joined(p) = joined(q) <=> p = q
        /\ left(p) = left(q) <=> p = q
        /\ left(p) = left(o) <=> p = o
        /\ joined(p) # left(q) /\ joined(p) # left(o) /\ left(p) # joined(q)
    BY DEF joined, left
  <1>2. /\ joined(p) \in Event /\ left(p) \in Event /\ joined(q) \in Event
        /\ left(q) \in Event /\ left(o) \in Event
    BY Events
  <1> QED BY <1>1, <1>2, HoldsFew

-----------------------------------------------------------------------------
LEMMA Implied == IInv => InterfacesFollow
  <1> SUFFICES ASSUME IInv, NEW p \in Peer, p \notin strayed
               PROVE  p \in listed <=> (p \in tcpIfaces \/ pending(joined(p))) /\ ~pending(left(p))
    BY DEF InterfacesFollow
  <1>1. SourceOf(p) \in Source BY Events
  <1>2. pending(joined(p)) <=> holds(events, joined(p)) \/ holds(posting[SourceOf(p)], joined(p))
    BY <1>1 DEF IInv, OwnPeers, pending
  <1>3. pending(left(p)) <=> holds(events, left(p)) \/ holds(posting[SourceOf(p)], left(p))
    BY <1>1 DEF IInv, OwnPeers, pending
  <1> QED BY <1>2, <1>3 DEF IInv, Fine

LEMMA InitHolds == Init => IInv
  <1> SUFFICES ASSUME Init PROVE IInv OBVIOUS
  <1>1. <<>> \in Seq(Event) /\ <<>> \in Seq([id : Peer, deferred : BOOLEAN]) /\ Len(<<>>) = 0
    OBVIOUS
  <1>2. TypeOK
    <2>1. posting \in [Source -> Seq(Event)] BY <1>1 DEF Init
    <2>2. Batch \in Nat /\ EventRoom \in Nat /\ RingRoom \in Nat BY RoomAssumption
    <2>3. taken \in 0 .. Batch BY <2>2 DEF Init
    <2>4. events \in Seq(Event) /\ Len(events) <= EventRoom BY <1>1, <2>2 DEF Init
    <2>5. ring \in Seq([id : Peer, deferred : BOOLEAN]) /\ Len(ring) <= RingRoom
      BY <1>1, <2>2 DEF Init
    <2> QED BY <2>1, <2>3, <2>4, <2>5 DEF Init, TypeOK
  <1>3. OwnPeers BY DEF Init, OwnPeers, holds
  <1>4. ASSUME NEW p \in Peer PROVE Fine(p)
    <2>1. SourceOf(p) \in Source BY Events
    <2> QED BY <2>1 DEF Init, Fine, holds, inOrder
  <1> QED BY <1>2, <1>3, <1>4 DEF IInv

(* A peer none of whose facts a step changes.                               *)
LEMMA Untouched ==
    ASSUME NEW p \in Peer, Fine(p),
           UNCHANGED events, posting'[SourceOf(p)] = posting[SourceOf(p)],
           link'[p] = link[p], p \in listed' <=> p \in listed,
           p \in tcpIfaces' <=> p \in tcpIfaces, strayed \subseteq strayed'
    PROVE  Fine(p)'
BY DEF Fine

LEMMA Quiet ==
    ASSUME IInv, UNCHANGED <<link, listed, posting, events, tcpIfaces, strayed>>
    PROVE  OwnPeers' /\ \A p \in Peer : Fine(p)'
  <1>1. OwnPeers' BY DEF IInv, OwnPeers
  <1>2. ASSUME NEW p \in Peer PROVE Fine(p)'
    BY Untouched DEF IInv
  <1> QED BY <1>1, <1>2

(* A task takes on what it will post: only a peer it has an event of, or    *)
(* that it takes off its list or puts on it, is concerned.                  *)
LEMMA TakenOn ==
    ASSUME IInv, NEW s \in Source, NEW new, posting[s] = <<>>,
           posting' = [posting EXCEPT ![s] = new], UNCHANGED <<events, tcpIfaces, strayed>>,
           NEW p \in Peer, link'[p] = link[p], p \in listed' <=> p \in listed,
           ~holds(new, joined(p)), ~holds(new, left(p)), inOrder(new, p)
    PROVE  Fine(p)'
  <1>1. CASE SourceOf(p) = s
    <2>1. posting'[SourceOf(p)] = new BY <1>1 DEF IInv, TypeOK
    <2>2. ~holds(posting[SourceOf(p)], joined(p)) /\ ~holds(posting[SourceOf(p)], left(p))
      BY <1>1 DEF holds
    <2> QED BY <2>1, <2>2 DEF IInv, Fine
  <1>2. CASE SourceOf(p) # s
    <2>1. posting'[SourceOf(p)] = posting[SourceOf(p)] BY <1>2, Events DEF IInv, TypeOK
    <2> QED BY <2>1, Untouched DEF IInv
  <1> QED BY <1>1, <1>2

LEMMA OwnTakenOn ==
    ASSUME IInv, NEW s \in Source, NEW new,
           posting' = [posting EXCEPT ![s] = new],
           \A p \in Peer : holds(new, joined(p)) \/ holds(new, left(p)) => SourceOf(p) = s
    PROVE  OwnPeers'
BY DEF IInv, OwnPeers, TypeOK

LEMMA AdmitKeeps ==
    ASSUME IInv, NEW c \in Tcp, Admit(c)
    PROVE  IInv'
  <1>0. c \in Peer /\ SourceOf(c) = "tcp" /\ "tcp" \in Source BY DEF Peer, SourceOf, Source
  <1>e. joined(c) \in Event /\ left(c) \in Event BY <1>0, Events
  <1>1. CASE link' = [link EXCEPT ![c] = "gone"] /\ UNCHANGED <<listed, posting>>
    <2>1. TypeOK' BY <1>0, <1>1 DEF Admit, IInv, TypeOK, rns
    <2>2. OwnPeers' BY <1>1 DEF IInv, OwnPeers
    <2>3. ASSUME NEW p \in Peer, p # c PROVE Fine(p)'
      BY <1>1, <2>3, Untouched DEF Admit, IInv, TypeOK, rns
    <2>4. Fine(c)'
      <3>1. link[c] = "new" /\ link'[c] # "new" /\ UNCHANGED <<events, tcpIfaces, strayed>>
        BY <1>0, <1>1 DEF Admit, IInv, TypeOK, rns
      <3> QED BY <1>0, <1>1, <3>1 DEF IInv, Fine
    <2> QED BY <2>1, <2>2, <2>3, <2>4 DEF IInv
  <1>2. CASE /\ link' = [link EXCEPT ![c] = "open"] /\ listed' = listed \cup {c}
             /\ posting' = [posting EXCEPT !["tcp"] = <<joined(c)>>]
    <2>0. /\ link[c] = "new" /\ posting["tcp"] = <<>> /\ UNCHANGED <<events, tcpIfaces, strayed>>
          /\ \A p \in Peer : link'[p] = IF p = c THEN "open" ELSE link[p]
      BY <1>0, <1>2 DEF Admit, Free, IInv, TypeOK, rns
    <2>1. TypeOK'
      <3>1. <<joined(c)>> \in Seq(Event) BY <1>e
      <3> QED BY <1>0, <1>2, <3>1 DEF Admit, IInv, TypeOK, rns
    <2>2. \A p \in Peer : holds(<<joined(c)>>, joined(p)) \/ holds(<<joined(c)>>, left(p)) => p = c
      BY <1>0, HoldsOwn
    <2>3. OwnPeers' BY <1>0, <1>2, <2>2, OwnTakenOn
    <2>4. \A p \in Peer : inOrder(<<joined(c)>>, p) BY DEF inOrder
    <2>5. ASSUME NEW p \in Peer, p # c PROVE Fine(p)'
      BY <1>0, <1>2, <2>0, <2>2, <2>4, <2>5, TakenOn
    <2>6. Fine(c)'
      <3>1. posting'[SourceOf(c)] = <<joined(c)>> /\ posting[SourceOf(c)] = <<>>
        BY <1>0, <1>2, <2>0 DEF IInv, TypeOK
      <3>2. holds(<<joined(c)>>, joined(c)) /\ ~holds(<<joined(c)>>, left(c))
        BY <1>0, HoldsOwn
      <3> QED BY <1>0, <1>2, <2>0, <2>4, <3>1, <3>2 DEF IInv, Fine
    <2> QED BY <2>1, <2>3, <2>5, <2>6 DEF IInv
  <1> QED BY <1>1, <1>2 DEF Admit

LEMMA HearKeeps ==
    ASSUME IInv, NEW a \in AutoPeer, Hear(a)
    PROVE  IInv'
  <1>0. a \in Peer /\ SourceOf(a) = "auto" /\ "auto" \in Source
    <2>1. a \notin Tcp BY PeerAssumption
    <2> QED BY <2>1 DEF Peer, SourceOf, Source
  <1>1. /\ link[a] = "new" /\ posting["auto"] = <<>> /\ UNCHANGED <<events, tcpIfaces, strayed>>
        /\ UNCHANGED <<ring, pass, taken, restarting, cutOff>>
    BY <1>0 DEF Hear, Free, rns
  <1>2. a \notin listed /\ a \notin tcpIfaces BY <1>0, <1>1 DEF IInv, Fine
  <1>3. CASE /\ link' = [link EXCEPT ![a] = "open"] /\ listed' = listed \cup {a}
             /\ posting' = [posting EXCEPT !["auto"] = <<joined(a)>>]
    <2>1. TypeOK'
      <3>1. <<joined(a)>> \in Seq(Event) BY <1>0, Events
      <3> QED BY <1>0, <1>1, <1>3, <3>1 DEF IInv, TypeOK
    <2>h. \A p \in Peer : (holds(<<joined(a)>>, joined(p)) <=> p = a) /\ ~holds(<<joined(a)>>, left(p))
      BY <1>0, HoldsOwn
    <2>2. OwnPeers' BY <1>0, <1>3, <2>h, OwnTakenOn
    <2>3. \A p \in Peer : inOrder(<<joined(a)>>, p) BY DEF inOrder
    <2>4. ASSUME NEW p \in Peer, p # a PROVE Fine(p)'
      <3>1. link'[p] = link[p] /\ (p \in listed' <=> p \in listed)
        BY <1>3, <2>4 DEF IInv, TypeOK
      <3> QED BY <1>0, <1>1, <1>3, <2>h, <2>3, <2>4, <3>1, TakenOn
    <2>5. Fine(a)'
      <3>1. posting'[SourceOf(a)] = <<joined(a)>> /\ posting[SourceOf(a)] = <<>> /\ link'[a] = "open"
        BY <1>0, <1>1, <1>3 DEF IInv, TypeOK
      <3>2. holds(<<joined(a)>>, joined(a)) /\ ~holds(<<joined(a)>>, left(a))
        BY <1>0, HoldsOwn
      <3> QED BY <1>0, <1>1, <1>3, <2>3, <3>1, <3>2 DEF IInv, Fine
    <2> QED BY <2>1, <2>2, <2>4, <2>5 DEF IInv
  <1>4. ASSUME NEW o \in listed \cap AutoPeer,
               link' = [link EXCEPT ![a] = "open", ![o] = "gone"],
               listed' = (listed \ {o}) \cup {a},
               posting' = [posting EXCEPT !["auto"] = <<left(o), joined(a)>>]
        PROVE  IInv'
    <2>0. o \in Peer /\ SourceOf(o) = "auto" /\ o # a
      <3>1. o \notin Tcp BY PeerAssumption
      <3> QED BY <1>2, <3>1 DEF Peer, SourceOf
    <2>h. \A p \in Peer : /\ holds(<<left(o), joined(a)>>, joined(p)) <=> p = a
                          /\ holds(<<left(o), joined(a)>>, left(p)) <=> p = o
      BY <1>0, <2>0, HoldsOwn
    <2>1. TypeOK'
      <3>1. <<left(o), joined(a)>> \in Seq(Event) BY <1>0, <2>0, Events
      <3> QED BY <1>0, <1>1, <1>4, <2>0, <3>1 DEF IInv, TypeOK
    <2>2. OwnPeers' BY <1>0, <1>4, <2>0, <2>h, OwnTakenOn
    <2>3. \A p \in Peer : inOrder(<<left(o), joined(a)>>, p)
      <3> SUFFICES ASSUME NEW p \in Peer, left(o) = left(p), joined(a) = joined(p)
                   PROVE  FALSE
        BY DEF inOrder
      <3> QED BY <1>0, <2>0 DEF left, joined
    <2>4. ASSUME NEW p \in Peer, p # a, p # o PROVE Fine(p)'
      <3>1. link'[p] = link[p] /\ (p \in listed' <=> p \in listed)
        BY <1>4, <2>4 DEF IInv, TypeOK
      <3> QED BY <1>0, <1>1, <1>4, <2>h, <2>3, <2>4, <3>1, TakenOn
    <2>5. /\ posting'["auto"] = <<left(o), joined(a)>> /\ posting["auto"] = <<>>
          /\ link'[a] = "open" /\ link'[o] = "gone"
      BY <1>0, <1>1, <1>4, <2>0 DEF IInv, TypeOK
    <2>6. Fine(a)'
      <3>1. holds(<<left(o), joined(a)>>, joined(a)) /\ ~holds(<<left(o), joined(a)>>, left(a))
        BY <1>0, <2>0, HoldsOwn
      <3> QED BY <1>0, <1>1, <1>4, <2>3, <2>5, <3>1 DEF IInv, Fine
    <2>7. Fine(o)'
      <3>1. holds(<<left(o), joined(a)>>, left(o)) /\ ~holds(<<left(o), joined(a)>>, joined(o))
        BY <1>0, <2>0, HoldsOwn
      <3> QED BY <1>0, <1>1, <1>4, <2>0, <2>3, <2>5, <3>1 DEF IInv, Fine
    <2> QED BY <2>1, <2>2, <2>4, <2>6, <2>7 DEF IInv
  <1>5. \/ /\ link' = [link EXCEPT ![a] = "open"] /\ listed' = listed \cup {a}
           /\ posting' = [posting EXCEPT !["auto"] = <<joined(a)>>]
        \/ \E o \in listed \cap AutoPeer :
             /\ link' = [link EXCEPT ![a] = "open", ![o] = "gone"]
             /\ listed' = (listed \ {o}) \cup {a}
             /\ posting' = [posting EXCEPT !["auto"] = <<left(o), joined(a)>>]
    BY DEF Hear
  <1> QED BY <1>3, <1>4, <1>5

LEMMA LeaveKeeps ==
    ASSUME IInv, NEW q \in Peer, Leave(q)
    PROVE  IInv'
  <1> DEFINE s == SourceOf(q)
  <1>0. s \in Source BY Events
  <1>1. /\ q \in listed /\ posting[s] = <<>> /\ listed' = listed \ {q}
        /\ link' = [link EXCEPT ![q] = "gone"]
        /\ posting' = [posting EXCEPT ![s] = <<left(q)>>]
        /\ UNCHANGED <<events, tcpIfaces, strayed>>
        /\ UNCHANGED <<ring, pass, taken, restarting, cutOff>>
    BY DEF Leave, Free, rns
  <1> HIDE DEF s
  <1>2. TypeOK'
    <2>1. <<left(q)>> \in Seq(Event) BY Events
    <2> QED BY <1>0, <1>1, <2>1 DEF IInv, TypeOK
  <1>h. \A p \in Peer : (holds(<<left(q)>>, left(p)) <=> p = q) /\ ~holds(<<left(q)>>, joined(p))
    BY HoldsOwn
  <1>3. OwnPeers' BY <1>0, <1>1, <1>h, OwnTakenOn DEF s
  <1>4. \A p \in Peer : inOrder(<<left(q)>>, p) BY DEF inOrder
  <1>5. ASSUME NEW p \in Peer, p # q PROVE Fine(p)'
    <2>1. link'[p] = link[p] /\ (p \in listed' <=> p \in listed)
      BY <1>1, <1>5 DEF IInv, TypeOK
    <2> QED BY <1>0, <1>1, <1>h, <1>4, <1>5, <2>1, TakenOn
  <1>6. Fine(q)'
    <2>1. posting'[SourceOf(q)] = <<left(q)>> /\ link'[q] = "gone"
      BY <1>0, <1>1 DEF IInv, TypeOK, s
    <2>2. holds(<<left(q)>>, left(q)) /\ ~holds(<<left(q)>>, joined(q)) BY HoldsOwn
    <2> QED BY <1>1, <1>4, <2>1, <2>2 DEF IInv, Fine
  <1> QED BY <1>2, <1>3, <1>5, <1>6 DEF IInv

-----------------------------------------------------------------------------
(* Posting moves an event from a task's hands to the end of the queue.      *)
LEMMA PostKeeps ==
    ASSUME IInv, NEW s \in Source, Post(s)
    PROVE  IInv'
  <1> DEFINE e == Head(posting[s])
  <1>1. /\ posting[s] \in Seq(Event) /\ posting[s] # <<>> /\ events \in Seq(Event)
        /\ events' = Append(events, e)
        /\ posting' = [posting EXCEPT ![s] = Tail(posting[s])]
        /\ UNCHANGED <<link, listed, tcpIfaces, strayed>>
        /\ UNCHANGED <<ring, pass, taken, restarting, cutOff>>
    BY DEF Post, IInv, TypeOK, rns
  <1>2. e \in Event /\ Tail(posting[s]) \in Seq(Event) BY <1>1, HeadTailProperties
  <1>3. \A t \in Source : posting'[t] = IF t = s THEN Tail(posting[s]) ELSE posting[t]
    BY <1>1 DEF IInv, TypeOK
  <1> HIDE DEF e
  <1>4. TypeOK'
    <2>1. events' \in Seq(Event) /\ Len(events') = Len(events) + 1
      BY <1>1, <1>2, AppendProperties
    <2>2. Len(events) \in Nat /\ EventRoom \in Nat /\ Len(events) < EventRoom
      BY <1>1, LenProperties, RoomAssumption DEF Post
    <2>3. posting' \in [Source -> Seq(Event)] BY <1>1, <1>2 DEF IInv, TypeOK
    <2> QED BY <1>1, <2>1, <2>2, <2>3 DEF IInv, TypeOK
  <1>5. \A p \in Peer : \A f \in {joined(p), left(p)} :
           /\ f \in Event
           /\ holds(posting[s], f) <=> holds(Tail(posting[s]), f) \/ f = e
           /\ holds(events', f) <=> holds(events, f) \/ f = e
    BY <1>1, <1>2, HoldsTail, HoldsAppend, Events DEF e
  <1>6. OwnPeers' BY <1>3, <1>5 DEF IInv, OwnPeers
  <1>7. ASSUME NEW p \in Peer PROVE Fine(p)'
    <2>0. SourceOf(p) \in Source BY Events
    <2>1. CASE SourceOf(p) = s
      <3>1. /\ inOrder(posting'[s], p)
            /\ e = left(p) => ~holds(posting'[s], joined(p))
        BY <1>1, <1>3, <2>1, InOrderTail DEF IInv, Fine, e
      <3>2. holds(events, left(p)) => e # joined(p)
        BY <1>5, <2>1 DEF IInv, Fine
      <3>3. inOrder(events', p)
        BY <1>1, <1>2, <3>2, InOrderAppend DEF IInv, Fine
      <3>4. posting'[s] = Tail(posting[s]) BY <1>3
      <3> QED BY <1>1, <1>5, <2>1, <3>1, <3>2, <3>3, <3>4 DEF IInv, Fine
    <2>2. CASE SourceOf(p) # s
      <3>1. e # joined(p) /\ e # left(p) BY <1>5, <2>2 DEF IInv, OwnPeers
      <3>2. inOrder(events', p) BY <1>1, <1>2, <3>1, InOrderAppend DEF IInv, Fine
      <3>3. posting'[SourceOf(p)] = posting[SourceOf(p)] BY <1>3, <2>0, <2>2
      <3> QED BY <1>1, <1>5, <3>1, <3>2, <3>3 DEF IInv, Fine
    <2> QED BY <2>1, <2>2
  <1> QED BY <1>4, <1>6, <1>7 DEF IInv

(* A dropped event's peer has strayed; for the others nothing changes.      *)
LEMMA DropKeeps ==
    ASSUME IInv, NEW s \in Source, Drop(s)
    PROVE  IInv'
  <1> DEFINE e == Head(posting[s])
  <1>1. /\ posting[s] \in Seq(Event) /\ posting[s] # <<>>
        /\ strayed' = strayed \cup {e.id}
        /\ posting' = [posting EXCEPT ![s] = Tail(posting[s])]
        /\ UNCHANGED <<link, listed, events, tcpIfaces>>
        /\ UNCHANGED <<ring, pass, taken, restarting, cutOff>>
    BY DEF Drop, IInv, TypeOK, rns
  <1>2. e \in Event /\ Tail(posting[s]) \in Seq(Event) BY <1>1, HeadTailProperties
  <1>3. \A t \in Source : posting'[t] = IF t = s THEN Tail(posting[s]) ELSE posting[t]
    BY <1>1 DEF IInv, TypeOK
  <1> HIDE DEF e
  <1>4. TypeOK'
    <2>1. e.id \in Peer BY <1>2 DEF Event
    <2>2. posting' \in [Source -> Seq(Event)] BY <1>1, <1>2 DEF IInv, TypeOK
    <2> QED BY <1>1, <2>1, <2>2 DEF IInv, TypeOK
  <1>5. \A p \in Peer : \A f \in {joined(p), left(p)} :
           /\ f \in Event
           /\ holds(posting[s], f) <=> holds(Tail(posting[s]), f) \/ f = e
    BY <1>1, <1>2, HoldsTail, Events DEF e
  <1>6. OwnPeers' BY <1>3, <1>5 DEF IInv, OwnPeers
  <1>7. ASSUME NEW p \in Peer PROVE Fine(p)'
    <2>0. SourceOf(p) \in Source BY Events
    <2>1. CASE SourceOf(p) = s
      <3>1. inOrder(posting'[s], p) BY <1>1, <1>3, <2>1, InOrderTail DEF IInv, Fine
      <3>2. posting'[s] = Tail(posting[s]) BY <1>3
      <3>3. p \notin strayed' => p \notin strayed /\ e # joined(p) /\ e # left(p)
        BY <1>1, Events
      <3> QED BY <1>1, <1>5, <2>1, <3>1, <3>2, <3>3 DEF IInv, Fine
    <2>2. CASE SourceOf(p) # s
      <3>1. posting'[SourceOf(p)] = posting[SourceOf(p)] BY <1>3, <2>0, <2>2
      <3> QED BY <1>1, <3>1, Untouched DEF IInv
    <2> QED BY <2>1, <2>2
  <1> QED BY <1>4, <1>6, <1>7 DEF IInv

-----------------------------------------------------------------------------
(* The head of the queue is taken: whatever else happens, the event's peer  *)
(* is the only one about whom the queue now holds something else.           *)
LEMMA HeadTaken ==
    ASSUME IInv, events # <<>>, events' = Tail(events)
    PROVE  /\ Head(events) \in Event /\ events' \in Seq(Event) /\ Len(events') <= EventRoom
           /\ \A p \in Peer :
                /\ inOrder(events', p)
                /\ Head(events) = left(p) => ~holds(events', joined(p))
                /\ holds(events, joined(p)) <=> holds(events', joined(p)) \/ joined(p) = Head(events)
                /\ holds(events, left(p)) <=> holds(events', left(p)) \/ left(p) = Head(events)
  <1>1. events \in Seq(Event) /\ Len(events) <= EventRoom BY DEF IInv, TypeOK
  <1>2. Head(events) \in Event /\ events' \in Seq(Event) /\ Len(events') = Len(events) - 1
    BY <1>1, HeadTailProperties
  <1>3. Len(events) \in Nat /\ EventRoom \in Nat BY <1>1, LenProperties, RoomAssumption
  <1>4. ASSUME NEW p \in Peer
        PROVE  /\ inOrder(events', p)
               /\ Head(events) = left(p) => ~holds(events', joined(p))
               /\ holds(events, joined(p)) <=> holds(events', joined(p)) \/ joined(p) = Head(events)
               /\ holds(events, left(p)) <=> holds(events', left(p)) \/ left(p) = Head(events)
    <2>1. inOrder(events, p) BY DEF IInv, Fine
    <2>2. joined(p) \in Event /\ left(p) \in Event BY Events
    <2> QED BY <1>1, <2>1, <2>2, InOrderTail, HoldsTail
  <1> QED BY <1>1, <1>2, <1>3, <1>4

(* A peer the head is not about, whose interface stays or who has strayed.  *)
LEMMA HeadOfAnother ==
    ASSUME IInv, events # <<>>, events' = Tail(events), UNCHANGED <<link, listed, posting>>,
           NEW p \in Peer, Head(events).id # p, strayed \subseteq strayed',
           link[p] = "new" => p \notin tcpIfaces',
           p \notin strayed' => (p \in tcpIfaces' <=> p \in tcpIfaces)
    PROVE  Fine(p)'
  <1>1. joined(p) # Head(events) /\ left(p) # Head(events) BY Events
  <1> QED BY <1>1, HeadTaken DEF IInv, Fine

LEMMA TakeJoinedKeeps ==
    ASSUME IInv, TakeJoined
    PROVE  IInv'
  <1>1. /\ events # <<>> /\ Head(events).connect /\ events' = Tail(events)
        /\ UNCHANGED <<link, listed, posting, ring, taken, restarting, cutOff>>
    BY DEF TakeJoined
  <1>2. PICK p \in Peer : Head(events) = joined(p) /\ Head(events).id = p
    <2>1. Head(events) \in Event BY <1>1, HeadTaken
    <2> QED BY <1>1, <2>1 DEF Event, joined
  <1>3. OwnPeers' BY <1>1 DEF IInv, OwnPeers
  <1>4. link[p] # "new" /\ Head(events) # left(p)
    <2>1. holds(events, joined(p)) BY <1>1, <1>2, HeadTaken
    <2> QED BY <1>2, <2>1, Events DEF IInv, Fine
  <1>5. evicted(p) \subseteq tcpIfaces BY DEF evicted
  <1>6. CASE /\ tcpIfaces' = (tcpIfaces \ evicted(p)) \cup {p}
             /\ strayed' = strayed \cup evicted(p) /\ UNCHANGED pass
    <2>1. TypeOK' BY <1>1, <1>2, <1>5, <1>6, HeadTaken DEF IInv, TypeOK
    <2>2. ASSUME NEW q \in Peer, q # p PROVE Fine(q)'
      <3>1. link[q] = "new" => q \notin tcpIfaces' BY <1>6, <2>2 DEF IInv, Fine
      <3> QED BY <1>1, <1>2, <1>6, <2>2, <3>1, HeadOfAnother
    <2>3. Fine(p)'
      <3>1. p \in tcpIfaces' /\ strayed \subseteq strayed' BY <1>6
      <3> QED BY <1>1, <1>2, <1>4, <3>1, HeadTaken DEF IInv, Fine
    <2> QED BY <1>3, <2>1, <2>2, <2>3 DEF IInv
  <1>7. ASSUME NEW gone \in {{}, evicted(p)}, tcpIfaces' = tcpIfaces \ gone,
               strayed' = strayed \cup gone \cup {p}, pass' = "abandoned"
        PROVE  IInv'
    <2>1. TypeOK' BY <1>1, <1>2, <1>5, <1>7, HeadTaken DEF IInv, TypeOK
    <2>2. ASSUME NEW q \in Peer, q # p PROVE Fine(q)'
      <3>1. link[q] = "new" => q \notin tcpIfaces' BY <1>7 DEF IInv, Fine
      <3> QED BY <1>1, <1>2, <1>7, <2>2, <3>1, HeadOfAnother
    <2>3. Fine(p)'
      <3>1. p \in strayed' BY <1>7
      <3> QED BY <1>1, <1>2, <1>4, <3>1, HeadTaken DEF IInv, Fine
    <2> QED BY <1>3, <2>1, <2>2, <2>3 DEF IInv
  <1> QED BY <1>2, <1>6, <1>7 DEF TakeJoined

LEMMA TakeLeftKeeps ==
    ASSUME IInv, TakeLeft
    PROVE  IInv'
  <1>1. /\ events # <<>> /\ ~Head(events).connect /\ events' = Tail(events)
        /\ tcpIfaces' = tcpIfaces \ {Head(events).id}
        /\ UNCHANGED <<link, listed, posting, ring, pass, taken, restarting, strayed, cutOff>>
    BY DEF TakeLeft
  <1>2. PICK p \in Peer : Head(events) = left(p) /\ Head(events).id = p
    <2>1. Head(events) \in Event BY <1>1, HeadTaken
    <2> QED BY <1>1, <2>1 DEF Event, left
  <1>3. OwnPeers' BY <1>1 DEF IInv, OwnPeers
  <1>4. TypeOK' BY <1>1, <1>2, HeadTaken DEF IInv, TypeOK
  <1>5. ASSUME NEW q \in Peer, q # p PROVE Fine(q)'
    <2>1. q \in tcpIfaces' <=> q \in tcpIfaces BY <1>1, <1>2, <1>5
    <2>2. link[q] = "new" => q \notin tcpIfaces' BY <2>1 DEF IInv, Fine
    <2> QED BY <1>1, <1>2, <1>5, <2>1, <2>2, HeadOfAnother
  <1>6. Fine(p)'
    <2>1. p \notin tcpIfaces' BY <1>1, <1>2
    <2>2. holds(events, left(p)) /\ ~holds(events', joined(p)) BY <1>1, <1>2, HeadTaken
    <2> QED BY <1>1, <1>2, <2>1, <2>2, HeadTaken DEF IInv, Fine
  <1> QED BY <1>3, <1>4, <1>5, <1>6 DEF IInv

-----------------------------------------------------------------------------
(* Packets, the rest of a pass and restarts touch no peer.                  *)
LEMMA RestKeeps ==
    ASSUME IInv,
           (\E p \in Peer : Say(p)) \/ EventsTaken \/ Drain \/ Drained \/ Rest \/ ArmRestart
             \/ UNCHANGED vars
    PROVE  IInv'
  <1>1. UNCHANGED <<link, listed, posting, events, tcpIfaces, strayed>>
    <2>1. CASE \E p \in Peer : Say(p) BY <2>1 DEF Say, rns
    <2>2. CASE EventsTaken BY <2>2 DEF EventsTaken
    <2>3. CASE Drain BY <2>3 DEF Drain
    <2>4. CASE Drained BY <2>4 DEF Drained
    <2>5. CASE Rest BY <2>5 DEF Rest
    <2>6. CASE ArmRestart BY <2>6 DEF ArmRestart, rns
    <2>7. CASE UNCHANGED vars BY <2>7 DEF vars
    <2> QED BY <2>1, <2>2, <2>3, <2>4, <2>5, <2>6, <2>7
  <1>2. Batch \in Nat \ {0} /\ RingRoom \in Nat \ {0} BY RoomAssumption
  <1>3. TypeOK'
    <2> DEFINE Item == [id : Peer, deferred : BOOLEAN]
    <2> SUFFICES /\ ring' \in Seq(Item) /\ Len(ring') <= RingRoom
                 /\ pass' \in {"events", "drain", "library", "abandoned"}
                 /\ taken' \in 0 .. Batch /\ restarting' \in BOOLEAN /\ cutOff' \in BOOLEAN
      BY <1>1 DEF IInv, TypeOK
    <2>0. /\ ring \in Seq(Item) /\ Len(ring) <= RingRoom /\ Len(ring) \in Nat
          /\ pass \in {"events", "drain", "library", "abandoned"}
          /\ taken \in 0 .. Batch /\ restarting \in BOOLEAN /\ cutOff \in BOOLEAN
      BY LenProperties DEF IInv, TypeOK
    <2>1. ASSUME NEW p \in Peer, Say(p)
          PROVE  ring' \in Seq(Item) /\ Len(ring') <= RingRoom
                 /\ UNCHANGED <<pass, taken, restarting, cutOff>>
      <3>1. [id |-> p, deferred |-> FALSE] \in Item OBVIOUS
      <3>2. ring' \in Seq(Item) /\ Len(ring') = Len(ring) + 1
        BY <2>0, <2>1, <3>1, AppendProperties DEF Say
      <3> QED BY <1>2, <2>0, <2>1, <3>2 DEF Say, rns
    <2>2. CASE EventsTaken BY <1>2, <2>0, <2>2 DEF EventsTaken
    <2>3. CASE Drain
      <3>1. ring' \in Seq(Item) /\ Len(ring') = Len(ring) - 1
        BY <2>0, <2>3, HeadTailProperties DEF Drain
      <3>2. taken' \in 0 .. Batch BY <1>2, <2>0, <2>3 DEF Drain
      <3>3. Head(ring) \in Item BY <2>0, <2>3, HeadTailProperties DEF Drain
      <3>4. cutOff' \in BOOLEAN /\ pass' \in {"events", "drain", "library", "abandoned"}
        BY <2>0, <2>3, <3>3 DEF Drain, routed
      <3> QED BY <1>2, <2>0, <2>3, <3>1, <3>2, <3>4 DEF Drain
    <2>4. CASE Drained
      <3>1. DOMAIN ring = 1 .. Len(ring) BY <2>0, LenProperties
      <3>2. \A i \in DOMAIN ring : [ring[i] EXCEPT !.deferred = TRUE] \in Item
        <4> SUFFICES ASSUME NEW i \in 1 .. Len(ring) PROVE [ring[i] EXCEPT !.deferred = TRUE] \in Item
          BY <3>1
        <4>1. ring[i] \in Item BY <2>0, ElementOfSeq
        <4> QED BY <4>1
      <3>3. ring' \in [1 .. Len(ring) -> Item] BY <2>4, <3>1, <3>2 DEF Drained
      <3>4. ring' \in Seq(Item) /\ Len(ring') = Len(ring) BY <2>0, <3>3
      <3> QED BY <2>0, <2>4, <3>4 DEF Drained
    <2>5. CASE Rest BY <2>0, <2>5 DEF Rest
    <2>6. CASE ArmRestart BY <2>0, <2>6 DEF ArmRestart, rns
    <2>7. CASE UNCHANGED vars BY <2>0, <2>7 DEF vars
    <2> QED BY <2>0, <2>1, <2>2, <2>3, <2>4, <2>5, <2>6, <2>7
  <1> QED BY <1>1, <1>3, Quiet DEF IInv

LEMMA StepKeeps == IInv /\ [Next]_vars => IInv'
  <1> SUFFICES ASSUME IInv, [Next]_vars PROVE IInv' OBVIOUS
  <1>1. ASSUME NEW p \in Peer, Listen(p) PROVE IInv'
    BY <1>1, AdmitKeeps, HearKeeps, LeaveKeeps, RestKeeps DEF Listen
  <1>2. ASSUME NEW s \in Source, Post(s) \/ Drop(s) PROVE IInv'
    BY <1>2, PostKeeps, DropKeeps
  <1>3. CASE Pass BY <1>3, TakeJoinedKeeps, TakeLeftKeeps, RestKeeps DEF Pass
  <1>4. CASE ArmRestart \/ UNCHANGED vars BY <1>4, RestKeeps
  <1> QED BY <1>1, <1>2, <1>3, <1>4 DEF Next

(* Every variable keeps its type, for any peers and any room: the queue and *)
(* the ring never hold more than they take, nor a pass more than its batch. *)
THEOREM TypeCorrect == Spec => []TypeOK
  <1>1. IInv => TypeOK BY DEF IInv
  <1> QED BY InitHolds, StepKeeps, <1>1, PTL DEF Spec

(* The interfaces of the RNS task follow the clients and peers the          *)
(* listening tasks hold, whatever is in between, for any number of them.    *)
THEOREM Follow == Spec => []InterfacesFollow
  <1> QED BY InitHolds, StepKeeps, Implied, PTL DEF Spec

-----------------------------------------------------------------------------
(* Names and room.  A list is a finite set that was counted before a peer   *)
(* went into it, on the task whose list it is; a name is taken from whoever *)
(* has it before it is given.                                               *)
RInv == IsFiniteSet(listed) /\ listed \subseteq Peer /\ ListsBounded /\ NamesUnique

(* A list with a peer more, with one less, and with one in another's place. *)
LEMMA CountedIn ==
    ASSUME NEW S, IsFiniteSet(S), NEW K, NEW x, NEW n \in Nat,
           Cardinality(S \cap K) < n
    PROVE  IsFiniteSet(S \cup {x}) /\ Cardinality((S \cup {x}) \cap K) <= n
  <1>1. IsFiniteSet(S \cup {x}) BY FS_AddElement
  <1>2. IsFiniteSet(S \cap K) BY FS_Intersection
  <1>3. Cardinality(S \cap K) \in Nat BY <1>2, FS_CardinalityType
  <1>4. Cardinality((S \cap K) \cup {x}) <= Cardinality(S \cap K) + 1
    <2>1. Cardinality((S \cap K) \cup {x})
            = IF x \in S \cap K THEN Cardinality(S \cap K) ELSE Cardinality(S \cap K) + 1
      BY <1>2, FS_AddElement
    <2> QED BY <1>3, <2>1
  <1>5. IsFiniteSet((S \cap K) \cup {x}) BY <1>2, FS_AddElement
  <1>6. (S \cup {x}) \cap K \subseteq (S \cap K) \cup {x} OBVIOUS
  <1>7. Cardinality((S \cup {x}) \cap K) <= Cardinality((S \cap K) \cup {x})
        /\ IsFiniteSet((S \cup {x}) \cap K)
    BY <1>5, <1>6, FS_Subset
  <1>8. Cardinality((S \cup {x}) \cap K) \in Nat /\ Cardinality((S \cap K) \cup {x}) \in Nat
    BY <1>5, <1>7, FS_CardinalityType
  <1> QED BY <1>1, <1>3, <1>4, <1>7, <1>8

LEMMA CountedOut ==
    ASSUME NEW S, IsFiniteSet(S), NEW K, NEW x, NEW n \in Nat,
           Cardinality(S \cap K) <= n
    PROVE  /\ IsFiniteSet(S \ {x}) /\ Cardinality((S \ {x}) \cap K) <= n
           /\ x \in S \cap K => Cardinality((S \ {x}) \cap K) < n
  <1>1. IsFiniteSet(S \ {x}) BY FS_RemoveElement
  <1>2. IsFiniteSet(S \cap K) BY FS_Intersection
  <1>3. (S \ {x}) \cap K = (S \cap K) \ {x} OBVIOUS
  <1>4. /\ Cardinality(S \cap K) \in Nat
        /\ IsFiniteSet((S \cap K) \ {x}) /\ Cardinality((S \cap K) \ {x}) \in Nat
    BY <1>2, FS_RemoveElement, FS_CardinalityType
  <1>5. Cardinality((S \cap K) \ {x})
          = IF x \in S \cap K THEN Cardinality(S \cap K) - 1 ELSE Cardinality(S \cap K)
    BY <1>2, FS_RemoveElement
  <1> QED BY <1>1, <1>3, <1>4, <1>5

(* A peer of the other kind leaves a list's count alone.                    *)
LEMMA NotCounted ==
    ASSUME NEW S, NEW K, NEW x, x \notin K
    PROVE  (S \cup {x}) \cap K = S \cap K /\ (S \ {x}) \cap K = S \cap K
  OBVIOUS

LEMMA RInitHolds == Init => RInv
  <1> SUFFICES ASSUME Init PROVE RInv OBVIOUS
  <1>1. listed = {} /\ tcpIfaces = {} BY DEF Init
  <1>2. IsFiniteSet(listed) BY <1>1, FS_EmptySet
  <1>3. listed \cap Tcp = {} /\ listed \cap AutoPeer = {} BY <1>1
  <1>4. ListsBounded BY <1>3, FS_EmptySet, RoomAssumption DEF ListsBounded
  <1> QED BY <1>1, <1>2, <1>4 DEF RInv, NamesUnique

LEMMA RAdmitKeeps ==
    ASSUME RInv, NEW c \in Tcp, Admit(c)
    PROVE  RInv'
  <1>1. UNCHANGED tcpIfaces BY DEF Admit, rns
  <1>2. CASE listed' = listed BY <1>1, <1>2 DEF RInv, ListsBounded, NamesUnique
  <1>3. CASE listed' = listed \cup {c} /\ Cardinality(listed \cap Tcp) < MaxClients
    <2>1. c \notin AutoPeer /\ c \in Peer BY PeerAssumption DEF Peer
    <2>2. IsFiniteSet(listed') /\ Cardinality(listed' \cap Tcp) <= MaxClients
      BY <1>3, CountedIn, RoomAssumption DEF RInv
    <2>3. listed' \cap AutoPeer = listed \cap AutoPeer BY <1>3, <2>1, NotCounted
    <2> QED BY <1>1, <1>3, <2>1, <2>2, <2>3 DEF RInv, ListsBounded, NamesUnique
  <1> QED BY <1>2, <1>3 DEF Admit

LEMMA RHearKeeps ==
    ASSUME RInv, NEW a \in AutoPeer, Hear(a)
    PROVE  RInv'
  <1>1. UNCHANGED tcpIfaces BY DEF Hear, rns
  <1>2. a \notin Tcp /\ a \in Peer BY PeerAssumption DEF Peer
  <1>3. CASE listed' = listed \cup {a} /\ Cardinality(listed \cap AutoPeer) < MaxPeers
    <2>1. IsFiniteSet(listed') /\ Cardinality(listed' \cap AutoPeer) <= MaxPeers
      BY <1>3, CountedIn, RoomAssumption DEF RInv
    <2>2. listed' \cap Tcp = listed \cap Tcp BY <1>2, <1>3, NotCounted
    <2> QED BY <1>1, <1>2, <1>3, <2>1, <2>2 DEF RInv, ListsBounded, NamesUnique
  <1>4. CASE \E o \in listed \cap AutoPeer : listed' = (listed \ {o}) \cup {a}
    <2>1. PICK o \in listed \cap AutoPeer : listed' = (listed \ {o}) \cup {a} BY <1>4
    <2>2. IsFiniteSet(listed \ {o}) /\ Cardinality((listed \ {o}) \cap AutoPeer) < MaxPeers
      BY <2>1, CountedOut, RoomAssumption DEF RInv, ListsBounded
    <2>3. IsFiniteSet(listed') /\ Cardinality(listed' \cap AutoPeer) <= MaxPeers
      BY <2>1, <2>2, CountedIn, RoomAssumption
    <2>4. o \notin Tcp BY <2>1, PeerAssumption
    <2>5. listed' \cap Tcp = listed \cap Tcp BY <1>2, <2>1, <2>4
    <2> QED BY <1>1, <1>2, <2>1, <2>3, <2>5 DEF RInv, ListsBounded, NamesUnique
  <1> QED BY <1>3, <1>4 DEF Hear

LEMMA RLeaveKeeps ==
    ASSUME RInv, NEW p \in Peer, Leave(p)
    PROVE  RInv'
  <1>1. listed' = listed \ {p} /\ UNCHANGED tcpIfaces BY DEF Leave, rns
  <1>2. /\ IsFiniteSet(listed')
        /\ Cardinality(listed' \cap Tcp) <= MaxClients
        /\ Cardinality(listed' \cap AutoPeer) <= MaxPeers
    BY <1>1, CountedOut, RoomAssumption DEF RInv, ListsBounded
  <1> QED BY <1>1, <1>2 DEF RInv, ListsBounded, NamesUnique

(* Giving an interface takes the name from every other first.               *)
LEMMA RTakeJoinedKeeps ==
    ASSUME RInv, TakeJoined
    PROVE  RInv'
  <1>1. listed' = listed BY DEF TakeJoined
  <1>2. CASE tcpIfaces' = (tcpIfaces \ evicted(Head(events).id)) \cup {Head(events).id}
    BY <1>1, <1>2 DEF RInv, ListsBounded, NamesUnique, evicted
  <1>3. CASE tcpIfaces' \subseteq tcpIfaces
    BY <1>1, <1>3 DEF RInv, ListsBounded, NamesUnique
  <1> QED BY <1>2, <1>3 DEF TakeJoined

LEMMA RStepKeeps == RInv /\ [Next]_vars => RInv'
  <1> SUFFICES ASSUME RInv, [Next]_vars PROVE RInv' OBVIOUS
  <1>1. CASE listed' = listed /\ tcpIfaces' \subseteq tcpIfaces
    BY <1>1 DEF RInv, ListsBounded, NamesUnique
  <1>2. ASSUME NEW p \in Peer, Listen(p) PROVE RInv'
    <2>1. CASE Say(p) BY <1>1, <2>1 DEF Say, rns
    <2> QED BY <1>2, <2>1, RAdmitKeeps, RHearKeeps, RLeaveKeeps DEF Listen
  <1>3. ASSUME NEW s \in Source, Post(s) \/ Drop(s) PROVE RInv'
    BY <1>1, <1>3 DEF Post, Drop, rns
  <1>4. CASE Pass
    <2>1. CASE TakeJoined BY <2>1, RTakeJoinedKeeps
    <2>2. CASE TakeLeft BY <1>1, <2>2 DEF TakeLeft
    <2>3. CASE EventsTaken \/ Drain \/ Drained \/ Rest
      BY <1>1, <2>3 DEF EventsTaken, Drain, Drained, Rest
    <2> QED BY <1>4, <2>1, <2>2, <2>3 DEF Pass
  <1>5. CASE ArmRestart \/ UNCHANGED vars BY <1>1, <1>5 DEF ArmRestart, rns, vars
  <1> QED BY <1>2, <1>3, <1>4, <1>5 DEF Next

(* "two interfaces that Transport cannot tell apart" (Config.h:439) are      *)
(* never registered at once, no list outgrows its room, and the interfaces  *)
(* follow the lists: for any names, peers and sizes.                        *)
THEOREM Followed == Spec => []PeersTrue
  <1>1. IInv /\ RInv => PeersTrue BY Implied DEF RInv, PeersTrue
  <1>2. Init => IInv /\ RInv BY InitHolds, RInitHolds
  <1>3. IInv /\ RInv /\ [Next]_vars => IInv' /\ RInv' BY StepKeeps, RStepKeeps
  <1> QED BY <1>1, <1>2, <1>3, PTL DEF Spec
=============================================================================
