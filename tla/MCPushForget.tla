------------------------------ MODULE MCPushForget ------------------------------
(* The push hub over two starts of a server without a snapshot path, with what *)
(* the devices were sent before the last start.                                *)
EXTENDS MCPushHub

VARIABLE past

MCInit == Init /\ past = NoneSent
MCNext ==
  /\ Next
  /\ past' = IF up' THEN past ELSE [a \in Alerts |-> [d \in Devices |-> past[a][d] + sent[a][d]]]
MCSpec == MCInit /\ [][MCNext]_<<vars, past>>

(* No alert reaches a device twice, whatever the feed, the visits, lost        *)
(* endpoints and concurrent requests do (runPushWatch, broadcast; README:      *)
(* "a restart never repeats old alerts").                                      *)
AtMostOnce == \A a \in Alerts, d \in Devices : past[a][d] + sent[a][d] <= 1
=============================================================================
