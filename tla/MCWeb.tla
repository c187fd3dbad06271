---------------------------- MODULE MCWeb ----------------------------
(* What the web side of the node does on small instances: an update with    *)
(* two uploaders that come, go and come back, images that do not come up,   *)
(* storage and memory that fail, and a power cut; and the shape of the WiFi *)
(* radio, with two requests of the operator and a host that comes. A run    *)
(* explores one of them.                                                    *)
EXTENDS Ota

CONSTANTS c1, c2, t1
TwoClients    == {c1, c2}
OneTask       == {t1}
ThreeVersions == {0, 1, 2}
AllButLate    == FaultKinds \ {"late"}

VARIABLE part   \* the component that runs

-----------------------------------------------------------------------------
\* WifiShape
VARIABLES
  apOn, staOn, net, mode, visitor, joined, scan, sync, wake, joinReq, scanReq, scanActive,
  joining, late, wifiQuiet, latched, suppressed, staged, dns, auto, selfStopped, fails, at,
  glass, timedOut, asks, visits, faults
W == INSTANCE WifiShape WITH
  MaxAsks <- 2, MaxVisits <- 1, MaxFaults <- 1, MaxEvents <- 2, EndFailsMax <- 2,
  MidJoin <- FALSE, quiet <- wifiQuiet
wifiVars == <<
  apOn, staOn, net, mode, visitor, joined, scan, sync, wake, joinReq, scanReq, scanActive,
  joining, late, wifiQuiet, latched, suppressed, staged, dns, auto, selfStopped, fails, at,
  glass, timedOut, asks, visits, faults>>

-----------------------------------------------------------------------------
\* One component runs; the others stay where one of their runs begins.
AllInit ==
  /\ part \in {"ota", "wifi"}
  /\ Init /\ (part # "ota" => TRUE)
  /\ W!Init /\ (part # "wifi" => ~apOn /\ ~staOn /\ ~net)
AllNext ==
  \/ part = "ota" /\ Next /\ UNCHANGED <<part, wifiVars>>
  \/ part = "wifi" /\ W!Next /\ UNCHANGED <<part, vars>>
AllSpec ==
  /\ AllInit /\ [][AllNext]_<<part, vars, wifiVars>>
  /\ WF_vars(part = "ota" /\ Stall)
  /\ WF_vars(part = "ota" /\ Setup)
  /\ WF_vars(part = "ota" /\ Restart)
  /\ WF_vars(part = "ota" /\ (\E c \in Client : web = c /\ Send(c)))
  /\ \A t \in Task : WF_vars(part = "ota" /\ (node = "up" /\ Install(t)))
  /\ WF_wifiVars(part = "wifi" /\ W!Loop)
  /\ WF_wifiVars(part = "wifi" /\ W!Glass)
  /\ WF_wifiVars(part = "wifi" /\ W!AutoEnds)
  /\ WF_wifiVars(part = "wifi" /\ W!ScanFinishes)
  /\ WF_wifiVars(part = "wifi" /\ W!JoinTimesOut)
  /\ WF_wifiVars(part = "wifi" /\ W!GraceOver)

-----------------------------------------------------------------------------
\* Of WifiShape: the resolver answers where there is an access point, a point
\* that is wanted is not taken from under a host that is on it; once nobody asks
\* for anything the radio is what the settings want and peering runs with it,
\* and a scan somebody waits for has ended. Of Ota: an upload comes to an end.
WebSettles ==
  [](part = "wifi" => W!ServicesFollow) /\ W!CommittedEmpty
  /\ (part = "wifi" => W!ShapeSettles /\ W!PeeringReturns /\ W!ScanEnds)
  /\ (part = "ota" => UploadConcludes)
=============================================================================
