---------------------------- MODULE MCInterfaces ----------------------------
(* The radio task and the membership of AutoInterface on small instances:   *)
(* one split packet of ours, two foreign split ones and one that is not;    *)
(* two links. A run explores one of them.                                   *)
EXTENDS Radio, TLC

CONSTANTS m, p, q, u, one, two
OneMine  == {m}
Foreign  == {p, q, u}
Two      == {one, two}
PartsOf  == [x \in Mine \cup Other |-> IF x = u THEN 1 ELSE 2]
NibbleOf == [x \in Other |-> IF x = q THEN 2 ELSE 1]

VARIABLE part   \* the component that runs

-----------------------------------------------------------------------------
\* AutoIf
VARIABLES
  netif, addr, last, going, link, disc, slots, at, linksCur, linksGot, stop, selfStopped,
  alive, refusals, ends
L == INSTANCE AutoIf WITH
  Links <- 1..2, MaxSlots <- 2, MaxIndex <- 3, MaxRefusals <- 1, MaxEnds <- 1,
  cur <- linksCur, got <- linksGot
linksVars == <<
  netif, addr, last, going, link, disc, slots, at, linksCur, linksGot, stop, selfStopped,
  alive, refusals, ends>>

-----------------------------------------------------------------------------
\* One component runs; the others stay where one of their runs begins.
AllInit ==
  /\ part \in {"radio", "links"}
  /\ Init /\ (part # "radio" => pc = "top")
  /\ L!Init
AllNext ==
  \/ part = "radio" /\ Next /\ UNCHANGED <<part, linksVars>>
  \/ part = "links" /\ L!Next /\ UNCHANGED <<part, vars>>
AllSpec ==
  /\ AllInit /\ [][AllNext]_<<part, vars, linksVars>>
  /\ WF_vars(part = "radio" /\ Task)
  /\ WF_vars(part = "radio" /\ wake)
  /\ WF_vars(part = "radio" /\ Expire)
  /\ WF_linksVars(part = "links" /\ L!Task)
  /\ WF_linksVars(part = "links" /\ L!Begin)
  /\ WF_linksVars(part = "links" /\ L!Strip)
  /\ \A l \in 1..2 : WF_linksVars(part = "links" /\ L!Address(l))

-----------------------------------------------------------------------------
\* Of both: a restart's sleep is reached and a queued packet leaves; what is taken
\* for joined is registered, and once the links rest each is joined and none that
\* has gone holds a slot.
TasksSettle ==
  /\ (part = "radio" => Sleeps /\ Drains)
  /\ [](part = "links" => L!JoinedIsMember)
  /\ (part = "links" => L!PeersEverywhere)
=============================================================================
