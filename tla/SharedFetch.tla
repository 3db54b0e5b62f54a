----------------------------- MODULE SharedFetch -----------------------------
(***************************************************************************)
(* What the comment on ttlCache.get promises to the upstream servers, seen *)
(* from outside: per key at most one request is under way at a time, and   *)
(* none starts while the last good answer is younger than the caller's     *)
(* ttl.  Callers, entries and locks do not appear; TTLCache implements     *)
(* this specification as long as it never has to evict.                    *)
(***************************************************************************)
EXTENDS Integers

CONSTANTS
    Keys,   \* cache keys
    TTLs,   \* the lifetimes callers ask for
    Never   \* not a time

VARIABLES
    now,      \* the clock
    inflight, \* keys with a request under way
    lastOK    \* when the last good answer per key was stored

absVars == <<now, inflight, lastOK>>

AbsInit ==
    /\ now = 0
    /\ inflight = {}
    /\ lastOK = [k \in Keys |-> Never]

(* A request may start when no good answer is younger than some ttl. *)
Begin(k) ==
    /\ k \notin inflight
    /\ lastOK[k] = Never \/ \E ttl \in TTLs : now - lastOK[k] >= ttl
    /\ inflight' = inflight \cup {k}
    /\ UNCHANGED <<now, lastOK>>

Succeed(k) ==
    /\ k \in inflight
    /\ inflight' = inflight \ {k}
    /\ lastOK' = [lastOK EXCEPT ![k] = now]
    /\ UNCHANGED now

Fail(k) ==
    /\ k \in inflight
    /\ inflight' = inflight \ {k}
    /\ UNCHANGED <<now, lastOK>>

Pass == now' > now /\ UNCHANGED <<inflight, lastOK>>

AbsNext == Pass \/ \E k \in Keys : Begin(k) \/ Succeed(k) \/ Fail(k)

AbsSpec == AbsInit /\ [][AbsNext]_absVars
=============================================================================
