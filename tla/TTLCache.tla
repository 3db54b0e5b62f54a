------------------------------ MODULE TTLCache ------------------------------
(***************************************************************************)
(* ttlCache of panels.go: the in-memory cache behind the weather, waste,   *)
(* alarm, tide and about fifteen other handlers.  A map lock guards the    *)
(* map; each entry has a lock of its own that a caller holds while it      *)
(* fetches, so later callers of the same key wait for the result.          *)
(*                                                                         *)
(* Entries are heap objects: a caller keeps the pointer it looked up, and  *)
(* the entry may leave the map meanwhile.  Objects are named by Ids; an id *)
(* that neither the map nor a caller refers to is free for the next        *)
(* allocation (garbage collection).                                        *)
(*                                                                         *)
(* evictOldest reads e.at under the map lock only, while get writes it     *)
(* under the entry lock: a data race.  A caller between the return of its  *)
(* fetch and its unlock is at "store"; the three words of a time.Time      *)
(* under such a write may be read in any mix, so that entry can be taken   *)
(* for the oldest or passed over.                                          *)
(***************************************************************************)
EXTENDS Integers, FiniteSets

CONSTANTS
    Callers,    \* goroutines that call get
    Keys,       \* cache keys
    Ids,        \* names of entry objects
    None,       \* no key, no caller, the nil pointer, the zero time.Time
    MaxEntries, \* c.max
    TTLs,       \* the ttl arguments in use
    MaxStale,   \* maxStale
    MaxTime     \* bound of the model: the clock stops here

ASSUME TTLCacheAssumption ==
    /\ IsFiniteSet(Callers) /\ IsFiniteSet(Keys)
    /\ None \notin Ids \cup Callers \cup Keys \cup (0..MaxTime)
    /\ MaxEntries \in Nat \ {0}
    /\ TTLs \subseteq Nat
    /\ MaxStale \in Nat
    /\ MaxTime \in Nat

VARIABLES
    now,    \* the clock
    m,      \* c.m: the entry of each key, or None
    at,     \* e.at of each entry; e.ok is at # None
    owner,  \* the caller that holds e.mu, or None
    pc,     \* where each caller is in get
    key,    \* its key argument
    ttl,    \* its ttl argument
    ref,    \* the entry it looked up
    res,    \* what its last call returned
    lastOK  \* history: when a fetch of each key last succeeded

vars == <<now, m, at, owner, pc, key, ttl, ref, res, lastOK>>

Time == 0..MaxTime
PCs == {"idle", "wait", "fetch", "store"}
Results == {"none", "fresh", "stale", "error", "limited"}

Cached == {k \in Keys : m[k] # None}
Younger(i, age) == at[i] # None /\ now - at[i] < age
Free == {i \in Ids : /\ \A k \in Keys : m[k] # i
                     /\ \A c \in Callers : ref[c] # i}

(* Entries whose e.at is being written while evictOldest may read it. *)
Racing == {k \in Cached : \E c \in Callers : pc[c] = "store" /\ ref[c] = m[k]}

(* e.at.Before: the zero time precedes every other. *)
NoLater(s, t) == s = None \/ (t # None /\ s =< t)

(* The keys evictOldest can delete.  Map order decides between equals. *)
Victims ==
    Racing \cup {k \in Cached : \A j \in Cached \ Racing : NoLater(at[m[k]], at[m[j]])}

Init ==
    /\ now = 0
    /\ m = [k \in Keys |-> None]
    /\ at = [i \in Ids |-> None]
    /\ owner = [i \in Ids |-> None]
    /\ pc = [c \in Callers |-> "idle"]
    /\ key = [c \in Callers |-> None]
    /\ ttl = [c \in Callers |-> 0]
    /\ ref = [c \in Callers |-> None]
    /\ res = [c \in Callers |-> "none"]
    /\ lastOK = [k \in Keys |-> None]
-----------------------------------------------------------------------------
Tick ==
    /\ now < MaxTime
    /\ now' = now + 1
    /\ UNCHANGED <<m, at, owner, pc, key, ttl, ref, res, lastOK>>

(* The arguments of a call, set when it starts. *)
Call(c, k, t) ==
    /\ pc[c] = "idle"
    /\ pc' = [pc EXCEPT ![c] = "wait"]
    /\ key' = [key EXCEPT ![c] = k]
    /\ ttl' = [ttl EXCEPT ![c] = t]
    /\ res' = [res EXCEPT ![c] = "none"]
    /\ UNCHANGED <<now, owner, lastOK>>

(* Under c.mu: the key has an entry. *)
LookupHit(c, k, t) ==
    /\ Call(c, k, t)
    /\ m[k] # None
    /\ ref' = [ref EXCEPT ![c] = m[k]]
    /\ UNCHANGED <<m, at>>

(* Mutant of LookupMiss: the new entry goes in without making room. *)
LookupMissNoEvict(c, k, t) ==
    /\ Call(c, k, t)
    /\ m[k] = None
    /\ Free # {}
    /\ LET e == CHOOSE i \in Free : TRUE IN
         /\ at' = [at EXCEPT ![e] = None]
         /\ ref' = [ref EXCEPT ![c] = e]
         /\ m' = [m EXCEPT ![k] = e]

(* Under c.mu: a new entry, after evicting one when the map is full. *)
LookupMiss(c, k, t) ==
    /\ Call(c, k, t)
    /\ m[k] = None
    /\ Free # {}
    /\ LET e == CHOOSE i \in Free : TRUE IN
         /\ at' = [at EXCEPT ![e] = None]
         /\ ref' = [ref EXCEPT ![c] = e]
         /\ IF Cardinality(Cached) >= MaxEntries
            THEN \E v \in Victims : m' = [m EXCEPT ![v] = None, ![k] = e]
            ELSE m' = [m EXCEPT ![k] = e]

(* get returns r; the caller's arguments and its pointer go away. *)
Return(c, r) ==
    /\ pc' = [pc EXCEPT ![c] = "idle"]
    /\ key' = [key EXCEPT ![c] = None]
    /\ ttl' = [ttl EXCEPT ![c] = 0]
    /\ ref' = [ref EXCEPT ![c] = None]
    /\ res' = [res EXCEPT ![c] = r]

(* e.mu is acquired and the value is younger than ttl: return it. *)
ReturnCached(c) ==
    /\ pc[c] = "wait"
    /\ owner[ref[c]] = None
    /\ Younger(ref[c], ttl[c])
    /\ Return(c, "fresh")
    /\ UNCHANGED <<now, m, at, owner, lastOK>>

(* Mutant of StartFetch: the entry lock is not taken before the fetch. *)
StartFetchUnlocked(c) ==
    /\ pc[c] = "wait"
    /\ ~Younger(ref[c], ttl[c])
    /\ owner' = [owner EXCEPT ![ref[c]] = c]
    /\ pc' = [pc EXCEPT ![c] = "fetch"]
    /\ UNCHANGED <<now, m, at, key, ttl, ref, res, lastOK>>

(* e.mu is acquired and there is no such value: fetch, holding e.mu. *)
StartFetch(c) ==
    /\ pc[c] = "wait"
    /\ owner[ref[c]] = None
    /\ ~Younger(ref[c], ttl[c])
    /\ owner' = [owner EXCEPT ![ref[c]] = c]
    /\ pc' = [pc EXCEPT ![c] = "fetch"]
    /\ UNCHANGED <<now, m, at, key, ttl, ref, res, lastOK>>

(* fetch returned a value; the stores to e.val, e.at, e.ok come next. *)
FetchOK(c) ==
    /\ pc[c] = "fetch"
    /\ pc' = [pc EXCEPT ![c] = "store"]
    /\ UNCHANGED <<now, m, at, owner, key, ttl, ref, res, lastOK>>

(* The three stores, the deferred unlock and the return. *)
Store(c) ==
    /\ pc[c] = "store"
    /\ at' = [at EXCEPT ![ref[c]] = now]
    /\ lastOK' = [lastOK EXCEPT ![key[c]] = now]
    /\ owner' = [owner EXCEPT ![ref[c]] = None]
    /\ Return(c, "fresh")
    /\ UNCHANGED <<now, m>>

(* What a failed fetch returns: the old value while it is younger than     *)
(* MaxStale, except when the error is errRateLimited.                      *)
FailureResult(c, limited) ==
    IF limited THEN "limited"
    ELSE IF Younger(ref[c], MaxStale) THEN "stale" ELSE "error"

(* Mutant of FetchFail: the entry forgets its value when a fetch fails. *)
FetchFailForget(c, limited) ==
    /\ pc[c] = "fetch"
    /\ Return(c, FailureResult(c, limited))
    /\ at' = [at EXCEPT ![ref[c]] = None]
    /\ owner' = [owner EXCEPT ![ref[c]] = None]
    /\ UNCHANGED <<now, m, lastOK>>

(* Mutant of FetchFail: the entry is dated back, so that it counts as old. *)
FetchFailBackdated(c, limited) ==
    /\ pc[c] = "fetch"
    /\ Return(c, FailureResult(c, limited))
    /\ at' = [at EXCEPT ![ref[c]] = now - MaxStale]
    /\ owner' = [owner EXCEPT ![ref[c]] = None]
    /\ UNCHANGED <<now, m, lastOK>>

(* Mutant of FetchFail: the caller tries again instead of returning. *)
FetchFailRetry(c, limited) ==
    /\ pc[c] = "fetch"
    /\ pc' = [pc EXCEPT ![c] = "wait"]
    /\ owner' = [owner EXCEPT ![ref[c]] = None]
    /\ UNCHANGED <<now, m, at, key, ttl, ref, res, lastOK>>

(* fetch failed: the entry keeps its old value. *)
FetchFail(c, limited) ==
    /\ pc[c] = "fetch"
    /\ Return(c, FailureResult(c, limited))
    /\ owner' = [owner EXCEPT ![ref[c]] = None]
    /\ UNCHANGED <<now, m, at, lastOK>>

Finish(c) == Store(c) \/ \E limited \in BOOLEAN : FetchFail(c, limited)

Next ==
    \/ Tick
    \/ \E c \in Callers :
         \/ \E k \in Keys, t \in TTLs : LookupHit(c, k, t) \/ LookupMiss(c, k, t)
         \/ ReturnCached(c)
         \/ StartFetch(c)
         \/ FetchOK(c)
         \/ Finish(c)

Spec == Init /\ [][Next]_vars

(* Fairness.  sync.Mutex hands a lock that keeps coming free to every      *)
(* waiter (its starvation mode), hence strong fairness of the two steps    *)
(* that acquire e.mu; a fetch ends because Fetcher.Do does.                *)
Fairness ==
    \A c \in Callers :
        /\ SF_vars(ReturnCached(c) \/ StartFetch(c))
        /\ WF_vars(FetchOK(c) \/ Finish(c))

FairSpec == Spec /\ Fairness
-----------------------------------------------------------------------------
(* Every variable has its type. *)
TypeOK ==
    /\ now \in Time
    /\ m \in [Keys -> Ids \cup {None}]
    /\ at \in [Ids -> Time \cup {None}]
    /\ owner \in [Ids -> Callers \cup {None}]
    /\ pc \in [Callers -> PCs]
    /\ key \in [Callers -> Keys \cup {None}]
    /\ ttl \in [Callers -> TTLs \cup {0}]
    /\ ref \in [Callers -> Ids \cup {None}]
    /\ res \in [Callers -> Results]
    /\ lastOK \in [Keys -> Time \cup {None}]

(* "Every cache has a fixed maximum": no order of lookups, evictions and   *)
(* late fetches leaves more than MaxEntries entries in the map.            *)
SizeBound == Cardinality(Cached) =< MaxEntries

(* An entry lock has one holder, and who fetches or stores holds the lock  *)
(* of the entry it looked up, in the map or evicted.                       *)
LockDiscipline ==
    \A c \in Callers :
        /\ pc[c] = "idle" <=> ref[c] = None
        /\ \A i \in Ids : owner[i] = c <=> (pc[c] \in {"fetch", "store"} /\ ref[c] = i)

(* Evictions race with lookups and late fetches, and neither the bound nor   *)
(* the locks of the entries suffer (get, evictOldest).                       *)
CacheSound == SizeBound /\ LockDiscipline

(* "Concurrent callers for the same key share one fetch." *)
SingleFlight ==
    \A c, d \in Callers :
        pc[c] = "fetch" /\ pc[d] = "fetch" /\ key[c] = key[d] => c = d

(* "If fetch fails, a value up to 6 h old is returned with stale=true":    *)
(* measured against what was ever fetched for the key, not against what    *)
(* this entry still holds, a caller sees the upstream's error only when    *)
(* the last good answer is at least MaxStale old.                          *)
NoNeedlessError ==
    [][\A c \in Callers :
         res'[c] = "error" /\ res[c] # "error"
            => lastOK[key[c]] = None \/ now - lastOK[key[c]] >= MaxStale]_vars

(* Every call returns, also when fetches fail and others queue. *)
EveryGetReturns == \A c \in Callers : pc[c] # "idle" ~> pc[c] = "idle"

(* The promise to the upstream servers, with "a request is under way" from *)
(* the start of the fetch to the store of its result.                      *)
Inflight == {key[c] : c \in {d \in Callers : pc[d] \in {"fetch", "store"}}}
Abs == INSTANCE SharedFetch WITH Never <- None, inflight <- Inflight
ImplementsSharedFetch == Abs!AbsSpec
=============================================================================
