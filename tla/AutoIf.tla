------------------------------- MODULE AutoIf -------------------------------
(***************************************************************************)
(* AutoInterface's place in its multicast group: src/src/rns/               *)
(* AutoInterface.cpp.                                                       *)
(*                                                                         *)
(* Every Wi-Fi link that has an address is joined to the group on the        *)
(* discovery socket, once a second, by AutoInterface's own task; the loop    *)
(* task leaves the group on a link it is about to take down.  lwIP keeps a   *)
(* membership slot per join on the socket and cannot free the slot of a      *)
(* network interface that has gone: only closing the socket does.  An        *)
(* interface that comes back has a new index.                               *)
(***************************************************************************)
EXTENDS Integers, FiniteSets

CONSTANTS
  Links,       \* 1..n: sLinks, in the order the task takes them
  MaxSlots,    \* memberships a socket holds (CONFIG_LWIP_MAX_SOCKETS)
  MaxIndex,    \* bound: interfaces that come up in one behaviour
  MaxRefusals, \* bound: binds and task starts that fail
  MaxEnds      \* bound: times the loop ends the task

VARIABLES
  netif,       \* per link: the index of its interface, 0 while there is none
  addr,        \* per link: it has its link-local address
  last,        \* the last index given out
  going,       \* the link the loop is about to take down, 0 for none
  link,        \* sLinks: the index joined (0 for none), and whether it was left early
  disc,        \* the discovery socket is open
  slots,       \* the indexes registered on it
  at, cur, got, \* the task: where it is, at which link, what it read
  stop, selfStopped, alive,
  refusals, ends

lwip  == <<netif, addr, last>>
task  == <<at, cur, got>>
flags == <<stop, selfStopped, alive>>
bounds == <<refusals, ends>>
vars  == <<lwip, going, link, disc, slots, task, flags, bounds>>

Unjoined == [index |-> 0, early |-> FALSE]
Joined(l) == link[l].index # 0
Stands(i) == \E l \in Links: netif[l] = i

-----------------------------------------------------------------------------
\* refreshLinks(), one link after another.

NextLink == IF cur + 1 \in Links THEN cur' = cur + 1 /\ at' = "look" ELSE cur' = 0 /\ at' = "top"

Second ==
  /\ at = "top" /\ ~stop
  /\ at' = "look" /\ cur' = 1
  /\ UNCHANGED <<lwip, going, link, disc, slots, got, flags, bounds>>

\* Still the interface that was joined?
Same(l) == netif[l] = link[l].index /\ addr[l]

Look ==
  /\ at = "look"
  /\ IF Joined(cur)
     THEN IF Same(cur) THEN NextLink /\ UNCHANGED got
          ELSE at' = (IF link[cur].early THEN "drop" ELSE "leave") /\ UNCHANGED <<cur, got>>
     ELSE IF addr[cur] THEN at' = "join" /\ got' = netif[cur] /\ UNCHANGED cur
          ELSE NextLink /\ UNCHANGED got
  /\ UNCHANGED <<lwip, going, link, disc, slots, flags, bounds>>

\* Given back if the interface still stands; else its slot is stranded.
Leave ==
  /\ at = "leave"
  /\ IF Stands(link[cur].index) \/ ~disc
     THEN slots' = slots \ {link[cur].index} /\ at' = "drop"
     ELSE at' = "stranded" /\ UNCHANGED slots
  /\ UNCHANGED <<lwip, going, link, disc, cur, got, flags, bounds>>

Drop ==
  /\ at \in {"drop", "stranded"}
  /\ link' = [link EXCEPT ![cur] = Unjoined]
  /\ IF at = "drop" THEN NextLink ELSE at' = "rebuild" /\ UNCHANGED cur
  /\ UNCHANGED <<lwip, going, disc, slots, got, flags, bounds>>

\* rebuildDiscovery: all under one hold of the lock.
Rebuild(bound) ==
  /\ at = "rebuild"
  /\ slots' = {} /\ link' = [l \in Links |-> Unjoined]
  /\ disc' = bound
  /\ IF bound THEN UNCHANGED <<stop, selfStopped, refusals>>
     ELSE /\ refusals < MaxRefusals /\ refusals' = refusals + 1
          /\ selfStopped' = TRUE /\ stop' = TRUE
  /\ NextLink
  /\ UNCHANGED <<lwip, going, got, alive, ends>>

\* The join, outside the lock; refused for an interface that has gone, on a
\* socket that is not there, or with every slot taken.
Join ==
  /\ at = "join"
  /\ IF disc /\ Stands(got) /\ Cardinality(slots) < MaxSlots
     THEN slots' = slots \cup {got} /\ at' = "commit" /\ UNCHANGED cur
     ELSE UNCHANGED slots /\ NextLink
  /\ UNCHANGED <<lwip, going, link, disc, got, flags, bounds>>

Commit ==
  /\ at = "commit"
  /\ link' = [link EXCEPT ![cur] = [index |-> got, early |-> FALSE]]
  /\ NextLink
  /\ UNCHANGED <<lwip, going, disc, slots, got, flags, bounds>>

\* endTask: the sockets closed, then the links cleared, then the last word.
Close ==
  /\ at = "top" /\ stop /\ at' = "clear"
  /\ disc' = FALSE /\ slots' = {}
  /\ UNCHANGED <<lwip, going, link, cur, got, flags, bounds>>

Clear ==
  /\ at = "clear" /\ at' = "gone"
  /\ link' = [l \in Links |-> Unjoined]
  /\ alive' = FALSE
  /\ UNCHANGED <<lwip, going, disc, slots, cur, got, stop, selfStopped, bounds>>

-----------------------------------------------------------------------------
\* The loop task.

\* Mutant: the membership is given back and the task not told.
LinkDownUntold(l) ==
  /\ going = 0 /\ netif[l] # 0 /\ going' = l
  /\ slots' = IF Joined(l) THEN slots \ {link[l].index} ELSE slots
  /\ UNCHANGED <<lwip, link, disc, task, flags, bounds>>

\* linkDown: under the lock, on the interface while it stands.
LinkDown(l) ==
  /\ going = 0 /\ netif[l] # 0 /\ going' = l
  /\ IF disc /\ Joined(l) /\ ~link[l].early /\ link[l].index \in slots /\ Stands(link[l].index)
     THEN /\ slots' = slots \ {link[l].index}
          /\ link' = [link EXCEPT ![l].early = TRUE]
     ELSE UNCHANGED <<slots, link>>
  /\ UNCHANGED <<lwip, disc, task, flags, bounds>>

Goes(l) == netif' = [netif EXCEPT ![l] = 0] /\ addr' = [addr EXCEPT ![l] = FALSE]

Strip ==
  /\ going # 0 /\ Goes(going) /\ going' = 0
  /\ UNCHANGED <<last, link, disc, slots, task, flags, bounds>>

End ==
  /\ alive /\ ~stop /\ ends < MaxEnds
  /\ stop' = TRUE /\ ends' = ends + 1
  /\ UNCHANGED <<lwip, going, link, disc, slots, task, selfStopped, alive, refusals>>

\* begin: a task that stopped, by itself or not, is started again; it ends at
\* once if a socket is refused.
Begin ==
  /\ ~alive
  /\ stop' = FALSE /\ selfStopped' = FALSE
  /\ \/ alive' = TRUE /\ at' = "top" /\ disc' = TRUE /\ UNCHANGED refusals
     \/ refusals < MaxRefusals /\ refusals' = refusals + 1 /\ UNCHANGED <<alive, at, disc>>
  /\ UNCHANGED <<lwip, going, link, slots, cur, got, ends>>

-----------------------------------------------------------------------------
\* The driver.

\* The interface goes with nobody told: the radio was taken down under the task.
Vanish(l) ==
  /\ netif[l] # 0 /\ going # l /\ Goes(l)
  /\ UNCHANGED <<last, going, link, disc, slots, task, flags, bounds>>

Arrive(l) ==
  /\ netif[l] = 0 /\ last < MaxIndex
  /\ last' = last + 1 /\ netif' = [netif EXCEPT ![l] = last + 1]
  /\ UNCHANGED <<addr, going, link, disc, slots, task, flags, bounds>>

Address(l) ==
  /\ netif[l] # 0 /\ addr' = [addr EXCEPT ![l] = TRUE]
  /\ UNCHANGED <<netif, last, going, link, disc, slots, task, flags, bounds>>

-----------------------------------------------------------------------------
Init ==
  /\ netif = [l \in Links |-> 0] /\ addr = [l \in Links |-> FALSE] /\ last = 0 /\ going = 0
  /\ link = [l \in Links |-> Unjoined]
  /\ disc = TRUE /\ slots = {}
  /\ at = "top" /\ cur = 0 /\ got = 0
  /\ stop = FALSE /\ selfStopped = FALSE /\ alive = TRUE
  /\ refusals = 0 /\ ends = 0

Task == \/ Second \/ Look \/ Leave \/ Drop \/ Join \/ Commit \/ Close \/ Clear
        \/ \E bound \in BOOLEAN: Rebuild(bound)
Next == \/ Task \/ Strip \/ End \/ Begin
        \/ \E l \in Links: LinkDown(l) \/ Vanish(l) \/ Arrive(l) \/ Address(l)

Spec == Init /\ [][Next]_vars
FairSpec == /\ Spec /\ WF_vars(Task) /\ WF_vars(Begin) /\ WF_vars(Strip)
            /\ \A l \in Links: WF_vars(Address(l))

-----------------------------------------------------------------------------
\* A link the task takes for joined, on the interface that stands, is registered.
JoinedIsMember ==
  \A l \in Links: Joined(l) /\ ~link[l].early /\ netif[l] = link[l].index /\ disc => netif[l] \in slots

\* Once the interfaces rest, every one with an address is joined and no slot is
\* held by one that has gone.
PeersEverywhere == <>[](alive /\ slots = {netif[l] : l \in {k \in Links: addr[k]}})
=============================================================================
