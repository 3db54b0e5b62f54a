----------------------------- MODULE TokenBuckets -----------------------------
(* What the per-IP token bucket promises (panels.go, "Per-IP token bucket,     *)
(* applied only to requests that cause an upstream fetch"): every address has  *)
(* Burst requests at once and one more per time unit, whatever other addresses *)
(* do.  Only while the table is crowded may everybody get a full burst again.  *)
EXTENDS Integers

CONSTANTS Addrs, Burst

VARIABLES
  level,   \* the tokens of each address
  crowded  \* whether the table of addresses is beyond its limit

vars == <<level, crowded>>

Init == level = [a \in Addrs |-> Burst] /\ crowded = FALSE

Full == [a \in Addrs |-> Burst]
Grant(a, from)  == from[a] > 0 /\ level' = [from EXCEPT ![a] = @ - 1]
Refuse(a, from) == from[a] = 0 /\ level' = from

Ask(a) ==
  /\ \E from \in IF crowded THEN {level, Full} ELSE {level} : Grant(a, from) \/ Refuse(a, from)
  /\ crowded' \in BOOLEAN

Elapse ==
  /\ level' = [a \in Addrs |-> IF level[a] < Burst THEN level[a] + 1 ELSE Burst]
  /\ UNCHANGED crowded

Next == Elapse \/ \E a \in Addrs : Ask(a)

Spec == Init /\ [][Next]_vars
=============================================================================
