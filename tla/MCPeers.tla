--------------------------------- MODULE MCPeers ---------------------------------
(* A small instance of Peers for TLC: two clients of the server, two peers of  *)
(* AutoInterface; in one run either the second client or the second peer       *)
(* comes.                                                                      *)
EXTENDS Peers

CONSTANTS c1, c2, a1, a2

TwoTcp   == {c1, c2}
TwoAuto  == {a1, a2}
\* Two sockets of one IPv6 host, whose names are cut before the port.
CutNames == [p \in {c1, c2, a1, a2} |-> IF p = c2 THEN c1 ELSE p]
Memory   == {"memory"}

Few      == link'[c2] = "new" \/ link'[a2] = "new"
FewSpec  == /\ Init /\ [][Next /\ Few]_vars
            /\ WF_vars(Pass) /\ \A s \in Source : WF_vars(Post(s) \/ Drop(s))

\* A peer that a task lists is given its interface, and one it no longer lists
\* loses it, however much the others have to say.
Served == Settles /\ Clears
=============================================================================
