------------------------------ MODULE MCPushHub ------------------------------
(* Small instances of PushHub for TLC.                                        *)
EXTENDS PushHub, TLC

CONSTANTS d1, d2, a1, a2, k1, k2

\* The administrator changes the key at most once, from k1 to k2, and then a single
\* browser at a time holds a subscription: two browsers share the hub with one key.
FewChanges ==
  /\ fileKey' # fileKey => fileKey = k1
  /\ fileKey' = k2 => Cardinality({d \in Devices : page'[d] # None}) <= 1

MCSymmetry == Permutations(Devices) \union Permutations(Alerts)
=============================================================================
