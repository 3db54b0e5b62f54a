--------------------------- MODULE TTLCacheProofs ---------------------------
(* Theorems about TTLCache for every set of callers, keys and entry names, *)
(* every size, every ttl and every bound of the clock.                     *)
EXTENDS TTLCache, FiniteSetTheorems, TLAPS

(* No two keys share an entry and a caller's entry never serves another    *)
(* key: an id is not reused while a pointer to it is left.                 *)
NoAliasing ==
    /\ \A j, k \in Cached : m[j] = m[k] => j = k
    /\ \A c \in Callers, k \in Cached : ref[c] = m[k] => key[c] = k

(* The type invariant. *)
THEOREM TypeCorrect == Spec => []TypeOK
<1> USE TTLCacheAssumption
<1>1. Init => TypeOK
  BY DEF Init, TypeOK, Time, PCs, Results
<1>2. TypeOK /\ [Next]_vars => TypeOK'
  <2> SUFFICES ASSUME TypeOK, [Next]_vars PROVE TypeOK'
    OBVIOUS
  <2> USE DEF TypeOK, Time, PCs, Results
  <2>1. CASE Tick
    BY <2>1 DEF Tick
  <2>2. ASSUME NEW c \in Callers, NEW k \in Keys, NEW t \in TTLs,
               LookupHit(c, k, t)
        PROVE  TypeOK'
    BY <2>2 DEF LookupHit, Call
  <2>3. ASSUME NEW c \in Callers, NEW k \in Keys, NEW t \in TTLs,
               LookupMiss(c, k, t)
        PROVE  TypeOK'
    <3> DEFINE e == CHOOSE i \in Free : TRUE
    <3>1. e \in Ids
      BY <2>3 DEF LookupMiss, Free
    <3>2. m' \in [Keys -> Ids \cup {None}]
      <4> HIDE DEF e
      <4>1. (\E v \in Victims : m' = [m EXCEPT ![v] = None, ![k] = e])
              \/ m' = [m EXCEPT ![k] = e]
        BY <2>3 DEF LookupMiss, e
      <4>2. QED BY <3>1, <4>1
    <3>3. at' \in [Ids -> Time \cup {None}] /\ ref' \in [Callers -> Ids \cup {None}]
      BY <3>1, <2>3 DEF LookupMiss
    <3>4. /\ pc' \in [Callers -> PCs] /\ key' \in [Callers -> Keys \cup {None}]
          /\ ttl' \in [Callers -> TTLs \cup {0}] /\ res' \in [Callers -> Results]
          /\ UNCHANGED <<now, owner, lastOK>>
      BY <2>3 DEF LookupMiss, Call
    <3>5. QED BY <3>2, <3>3, <3>4
  <2>4. ASSUME NEW c \in Callers, ReturnCached(c) PROVE TypeOK'
    BY <2>4 DEF ReturnCached, Return
  <2>5. ASSUME NEW c \in Callers, StartFetch(c) PROVE TypeOK'
    BY <2>5 DEF StartFetch
  <2>6. ASSUME NEW c \in Callers, FetchOK(c) PROVE TypeOK'
    BY <2>6 DEF FetchOK
  <2>7. ASSUME NEW c \in Callers, Store(c) PROVE TypeOK'
    BY <2>7 DEF Store, Return
  <2>8. ASSUME NEW c \in Callers, NEW l \in BOOLEAN, FetchFail(c, l) PROVE TypeOK'
    BY <2>8 DEF FetchFail, FailureResult, Return
  <2>9. CASE UNCHANGED vars
    BY <2>9 DEF vars
  <2>10. QED
    BY <2>1, <2>2, <2>3, <2>4, <2>5, <2>6, <2>7, <2>8, <2>9 DEF Next, Finish
<1>3. QED BY <1>1, <1>2, PTL DEF Spec
-----------------------------------------------------------------------------
(* Only a missed lookup writes the map, and there the evicted key makes    *)
(* room for the new one.                                                   *)
LEMMA MissKeepsSize ==
    ASSUME TypeOK, SizeBound,
           NEW c \in Callers, NEW k \in Keys, NEW t \in TTLs, LookupMiss(c, k, t)
    PROVE  SizeBound'
<1> USE TTLCacheAssumption
<1> DEFINE e == CHOOSE i \in Free : TRUE
<1>1. e \in Ids /\ e # None /\ k \notin Cached
  BY DEF LookupMiss, Free, Cached
<1>2. IsFiniteSet(Cached) /\ Cardinality(Cached) \in Nat
  BY FS_Subset, FS_CardinalityType DEF Cached
<1>3. CASE Cardinality(Cached) >= MaxEntries
  <2>1. PICK v \in Victims : m' = [m EXCEPT ![v] = None, ![k] = e]
    BY <1>3 DEF LookupMiss
  <2>2. v \in Cached /\ v # k
    BY <1>1 DEF Victims, Racing
  <2>3. Cached' = (Cached \ {v}) \cup {k}
    BY <2>1, <2>2, <1>1 DEF Cached, TypeOK
  <2>4. /\ IsFiniteSet(Cached \ {v})
        /\ Cardinality(Cached \ {v}) = Cardinality(Cached) - 1
    BY <2>2, <1>2, FS_RemoveElement
  <2>5. Cardinality((Cached \ {v}) \cup {k}) = Cardinality(Cached \ {v}) + 1
    BY <2>4, <1>1, FS_AddElement
  <2>6. QED BY <2>3, <2>4, <2>5, <1>2 DEF SizeBound
<1>4. CASE ~(Cardinality(Cached) >= MaxEntries)
  <2>1. m' = [m EXCEPT ![k] = e]
    BY <1>4 DEF LookupMiss
  <2>2. Cached' = Cached \cup {k}
    BY <2>1, <1>1 DEF Cached, TypeOK
  <2>3. Cardinality(Cached \cup {k}) = Cardinality(Cached) + 1
    BY <1>1, <1>2, FS_AddElement
  <2>4. QED BY <2>2, <2>3, <1>2, <1>4 DEF SizeBound
<1>5. QED BY <1>3, <1>4

LEMMA SameMap ==
    ASSUME SizeBound, UNCHANGED m PROVE SizeBound'
<1>1. Cached' = Cached
  BY DEF Cached
<1>2. QED BY <1>1 DEF SizeBound

(* The map never holds more than MaxEntries entries. *)
THEOREM CacheBounded == Spec => []SizeBound
<1> USE TTLCacheAssumption
<1>1. Init => SizeBound
  <2> SUFFICES ASSUME Init PROVE SizeBound
    OBVIOUS
  <2>1. Cached = {}
    BY DEF Init, Cached
  <2>2. QED BY <2>1, FS_EmptySet DEF SizeBound
<1>2. TypeOK /\ SizeBound /\ [Next]_vars => SizeBound'
  <2> SUFFICES ASSUME TypeOK, SizeBound, [Next]_vars PROVE SizeBound'
    OBVIOUS
  <2>1. CASE \E c \in Callers, k \in Keys, t \in TTLs : LookupMiss(c, k, t)
    BY <2>1, MissKeepsSize
  <2>2. CASE ~\E c \in Callers, k \in Keys, t \in TTLs : LookupMiss(c, k, t)
    <3>1. UNCHANGED m
      BY <2>2 DEF Next, Tick, LookupHit, ReturnCached, StartFetch, FetchOK,
                  Finish, Store, FetchFail, vars
    <3>2. QED BY <3>1, SameMap
  <2>3. QED BY <2>1, <2>2
<1>3. QED BY <1>1, <1>2, TypeCorrect, PTL DEF Spec
-----------------------------------------------------------------------------
(* Entry locks and entry names.  The two invariants are inductive together *)
(* with the types: a pointer keeps its entry from being allocated again,   *)
(* so the lock a caller waits for stays the lock of its key's entry.       *)
Locking == TypeOK /\ LockDiscipline /\ NoAliasing

LEMMA LockingStep == Locking /\ [Next]_vars /\ TypeOK' => Locking'
<1> USE TTLCacheAssumption
<1> SUFFICES ASSUME Locking, [Next]_vars, TypeOK'
             PROVE  LockDiscipline' /\ NoAliasing'
  BY DEF Locking
<1> USE DEF Locking, TypeOK, PCs
<1>1. CASE Tick
  BY <1>1 DEF Tick, LockDiscipline, NoAliasing, Cached
<1>2. ASSUME NEW c \in Callers, NEW k \in Keys, NEW t \in TTLs, LookupHit(c, k, t)
      PROVE  LockDiscipline' /\ NoAliasing'
  <2>1. LockDiscipline'
    BY <1>2 DEF LookupHit, Call, LockDiscipline
  <2>2. NoAliasing'
    BY <1>2 DEF LookupHit, Call, NoAliasing, Cached
  <2>3. QED BY <2>1, <2>2
<1>3. ASSUME NEW c \in Callers, NEW k \in Keys, NEW t \in TTLs, LookupMiss(c, k, t)
      PROVE  LockDiscipline' /\ NoAliasing'
  <2> DEFINE e == CHOOSE i \in Free : TRUE
  <2>1. /\ e \in Ids /\ e # None
        /\ \A j \in Keys : m[j] # e
        /\ \A d \in Callers : ref[d] # e
    BY <1>3 DEF LookupMiss, Free
  <2> HIDE DEF e
  <2>2. /\ ref' = [ref EXCEPT ![c] = e] /\ key' = [key EXCEPT ![c] = k]
        /\ pc' = [pc EXCEPT ![c] = "wait"] /\ pc[c] = "idle" /\ owner' = owner
    BY <1>3 DEF LookupMiss, Call, e
  <2>3. m'[k] = e /\ \A j \in Keys \ {k} : m'[j] \in {m[j], None}
    BY <1>3, <2>1 DEF LookupMiss, e, Victims, Cached, Racing
  <2>4. LockDiscipline'
    BY <2>1, <2>2 DEF LockDiscipline
  <2>5. NoAliasing'
    BY <2>1, <2>2, <2>3 DEF NoAliasing, Cached
  <2>6. QED BY <2>4, <2>5
<1>4. ASSUME NEW c \in Callers, ReturnCached(c) PROVE LockDiscipline' /\ NoAliasing'
  <2>1. LockDiscipline'
    BY <1>4 DEF ReturnCached, Return, LockDiscipline
  <2>2. NoAliasing'
    BY <1>4 DEF ReturnCached, Return, NoAliasing, Cached
  <2>3. QED BY <2>1, <2>2
<1>5. ASSUME NEW c \in Callers, StartFetch(c) PROVE LockDiscipline' /\ NoAliasing'
  <2>1. ref[c] \in Ids
    BY <1>5 DEF StartFetch, LockDiscipline
  <2>2. LockDiscipline'
    BY <1>5, <2>1 DEF StartFetch, LockDiscipline
  <2>3. NoAliasing'
    BY <1>5 DEF StartFetch, NoAliasing, Cached
  <2>4. QED BY <2>2, <2>3
<1>6. ASSUME NEW c \in Callers, FetchOK(c) PROVE LockDiscipline' /\ NoAliasing'
  <2>1. LockDiscipline'
    BY <1>6 DEF FetchOK, LockDiscipline
  <2>2. NoAliasing'
    BY <1>6 DEF FetchOK, NoAliasing, Cached
  <2>3. QED BY <2>1, <2>2
<1>7. ASSUME NEW c \in Callers,
             pc[c] \in {"fetch", "store"}, UNCHANGED m,
             owner' = [owner EXCEPT ![ref[c]] = None],
             pc' = [pc EXCEPT ![c] = "idle"], key' = [key EXCEPT ![c] = None],
             ref' = [ref EXCEPT ![c] = None]
      PROVE  LockDiscipline' /\ NoAliasing'
  <2>1. ref[c] \in Ids
    BY <1>7 DEF LockDiscipline
  <2>2. \A d \in Callers \ {c} : owner[ref[c]] # d
    BY <1>7, <2>1 DEF LockDiscipline
  <2>3. LockDiscipline'
    BY <1>7, <2>1, <2>2 DEF LockDiscipline
  <2>4. NoAliasing'
    BY <1>7 DEF NoAliasing, Cached
  <2>5. QED BY <2>3, <2>4
<1>8. ASSUME NEW c \in Callers, Store(c) PROVE LockDiscipline' /\ NoAliasing'
  BY <1>8, <1>7 DEF Store, Return
<1>9. ASSUME NEW c \in Callers, NEW l \in BOOLEAN, FetchFail(c, l)
      PROVE  LockDiscipline' /\ NoAliasing'
  BY <1>9, <1>7 DEF FetchFail, Return
<1>10. CASE UNCHANGED vars
  BY <1>10 DEF vars, LockDiscipline, NoAliasing, Cached
<1>11. QED
  BY <1>1, <1>2, <1>3, <1>4, <1>5, <1>6, <1>8, <1>9, <1>10 DEF Next, Finish

LEMMA LockingInvariant == Spec => []Locking
<1>1. Init => TypeOK
  BY TTLCacheAssumption DEF Init, TypeOK, Time, PCs, Results
<1>2. Init => LockDiscipline /\ NoAliasing
  BY TTLCacheAssumption DEF Init, LockDiscipline, NoAliasing, Cached
<1>3. QED
  BY <1>1, <1>2, LockingStep, TypeCorrect, PTL DEF Spec, Locking

(* Who fetches or stores holds the lock of the entry it looked up. *)
THEOREM LocksHeld == Spec => []LockDiscipline
BY LockingInvariant, PTL DEF Locking

(* Both, for every number of callers, keys and entries. *)
THEOREM EvictionSound == Spec => []CacheSound
BY CacheBounded, LocksHeld, PTL DEF CacheSound

(* No entry ever serves two keys. *)
THEOREM EntriesDistinct == Spec => []NoAliasing
BY LockingInvariant, PTL DEF Locking
-----------------------------------------------------------------------------
(* The case without evictions: room for every key.  A caller's entry is    *)
(* then the one its key has in the map, and that entry carries the time of *)
(* the key's last good answer.                                             *)
Room == Cardinality(Keys) =< MaxEntries

Mapped ==
    /\ \A c \in Callers : pc[c] # "idle" =>
          /\ key[c] \in Keys /\ ttl[c] \in TTLs
          /\ m[key[c]] = ref[c] /\ ref[c] \in Ids
    /\ \A k \in Keys : lastOK[k] = IF m[k] = None THEN None ELSE at[m[k]]

LEMMA RoomNeverEvicts ==
    ASSUME Room, TypeOK,
           NEW c \in Callers, NEW k \in Keys, NEW t \in TTLs, LookupMiss(c, k, t)
    PROVE  m' = [m EXCEPT ![k] = CHOOSE i \in Free : TRUE]
<1> USE TTLCacheAssumption
<1>1. Cached \subseteq Keys \ {k}
  BY DEF LookupMiss, Cached
<1>2. /\ IsFiniteSet(Keys \ {k})
      /\ Cardinality(Keys \ {k}) = Cardinality(Keys) - 1
  BY FS_RemoveElement
<1>3. Cardinality(Cached) =< Cardinality(Keys \ {k})
  BY <1>1, <1>2, FS_Subset
<1>4. Cardinality(Keys) \in Nat /\ Cardinality(Cached) \in Nat
  BY <1>1, <1>2, FS_Subset, FS_CardinalityType
<1>5. ~(Cardinality(Cached) >= MaxEntries)
  BY <1>2, <1>3, <1>4 DEF Room
<1>6. QED BY <1>5 DEF LookupMiss

LEMMA MappedStep == Room /\ Locking /\ Mapped /\ [Next]_vars => Mapped'
<1> USE TTLCacheAssumption
<1> SUFFICES ASSUME Room, Locking, Mapped, [Next]_vars PROVE Mapped'
  OBVIOUS
<1> USE DEF Locking, TypeOK, PCs
<1>1. CASE Tick
  BY <1>1 DEF Tick, Mapped
<1>2. ASSUME NEW c \in Callers, NEW k \in Keys, NEW t \in TTLs, LookupHit(c, k, t)
      PROVE  Mapped'
  BY <1>2 DEF LookupHit, Call, Mapped
<1>3. ASSUME NEW c \in Callers, NEW k \in Keys, NEW t \in TTLs, LookupMiss(c, k, t)
      PROVE  Mapped'
  <2> DEFINE e == CHOOSE i \in Free : TRUE
  <2>1. /\ e \in Ids /\ e # None
        /\ \A j \in Keys : m[j] # e
    BY <1>3 DEF LookupMiss, Free
  <2>2. m' = [m EXCEPT ![k] = e]
    BY <1>3, RoomNeverEvicts
  <2> HIDE DEF e
  <2>3. /\ ref' = [ref EXCEPT ![c] = e] /\ key' = [key EXCEPT ![c] = k]
        /\ ttl' = [ttl EXCEPT ![c] = t] /\ pc' = [pc EXCEPT ![c] = "wait"]
        /\ at' = [at EXCEPT ![e] = None] /\ lastOK' = lastOK /\ m[k] = None
    BY <1>3 DEF LookupMiss, Call, e
  <2>4. \A d \in Callers : pc'[d] # "idle" =>
          /\ key'[d] \in Keys /\ ttl'[d] \in TTLs
          /\ m'[key'[d]] = ref'[d] /\ ref'[d] \in Ids
    BY <2>1, <2>2, <2>3 DEF Mapped
  <2>5. \A j \in Keys : lastOK'[j] = IF m'[j] = None THEN None ELSE at'[m'[j]]
    BY <2>1, <2>2, <2>3 DEF Mapped
  <2>6. QED BY <2>4, <2>5 DEF Mapped
<1>4. ASSUME NEW c \in Callers, ReturnCached(c) PROVE Mapped'
  BY <1>4 DEF ReturnCached, Return, Mapped
<1>5. ASSUME NEW c \in Callers, StartFetch(c) PROVE Mapped'
  BY <1>5 DEF StartFetch, Mapped
<1>6. ASSUME NEW c \in Callers, FetchOK(c) PROVE Mapped'
  BY <1>6 DEF FetchOK, Mapped
<1>7. ASSUME NEW c \in Callers, Store(c) PROVE Mapped'
  <2>1. key[c] \in Keys /\ m[key[c]] = ref[c] /\ ref[c] \in Ids /\ ref[c] # None
    BY <1>7 DEF Store, Mapped
  <2>2. \A j \in Keys : m[j] = ref[c] => j = key[c]
    BY <2>1 DEF NoAliasing, Cached
  <2>3. \A d \in Callers : pc'[d] # "idle" =>
          /\ key'[d] \in Keys /\ ttl'[d] \in TTLs
          /\ m'[key'[d]] = ref'[d] /\ ref'[d] \in Ids
    BY <1>7 DEF Store, Return, Mapped
  <2>4. now # None
    BY DEF Time
  <2>5. \A j \in Keys : lastOK'[j] = IF m'[j] = None THEN None ELSE at'[m'[j]]
    BY <1>7, <2>1, <2>2, <2>4 DEF Store, Return, Mapped
  <2>6. QED BY <2>3, <2>5 DEF Mapped
<1>8. ASSUME NEW c \in Callers, NEW l \in BOOLEAN, FetchFail(c, l) PROVE Mapped'
  BY <1>8 DEF FetchFail, Return, Mapped
<1>9. CASE UNCHANGED vars
  BY <1>9 DEF vars, Mapped
<1>10. QED
  BY <1>1, <1>2, <1>3, <1>4, <1>5, <1>6, <1>7, <1>8, <1>9 DEF Next, Finish

LEMMA MappedInvariant == ASSUME Room PROVE Spec => []Mapped
<1>1. Init => Mapped
  BY TTLCacheAssumption DEF Init, Mapped
<1>2. Locking /\ Mapped /\ [Next]_vars => Mapped'
  BY MappedStep
<1>3. QED BY <1>1, <1>2, LockingInvariant, PTL DEF Spec

(* With room for every key, callers of one key never fetch at the same     *)
(* time: the comment on get holds as far as evictions do not break it.     *)
THEOREM RoomMeansSingleFlight == ASSUME Room PROVE Spec => []SingleFlight
<1>1. Locking /\ Mapped => SingleFlight
  BY DEF Locking, Mapped, LockDiscipline, SingleFlight
<1>2. QED BY <1>1, LockingInvariant, MappedInvariant, PTL

(* With room for every key, a caller sees the upstream's error only when   *)
(* the last good answer for its key is MaxStale old.                       *)
THEOREM RoomMeansNoNeedlessError == ASSUME Room PROVE Spec => NoNeedlessError
<1> DEFINE Late == \A c \in Callers :
         res'[c] = "error" /\ res[c] # "error"
            => lastOK[key[c]] = None \/ now - lastOK[key[c]] >= MaxStale
<1>1. Locking /\ Mapped /\ [Next]_vars => Late
  <2> SUFFICES ASSUME Locking, Mapped, [Next]_vars, NEW d \in Callers,
                      res'[d] = "error", res[d] # "error"
               PROVE  lastOK[key[d]] = None \/ now - lastOK[key[d]] >= MaxStale
    OBVIOUS
  <2>1. PICK l \in BOOLEAN : FetchFail(d, l)
    BY DEF Locking, TypeOK, Next, Tick, LookupHit, LookupMiss, Call, Finish,
           ReturnCached, StartFetch, FetchOK, Store, FetchFail, Return, vars
  <2>2. ~Younger(ref[d], MaxStale)
    BY <2>1 DEF FetchFail, Return, FailureResult, Locking, TypeOK
  <2>3. key[d] \in Keys /\ m[key[d]] = ref[d] /\ ref[d] # None /\ ref[d] \in Ids
    BY <2>1, TTLCacheAssumption DEF FetchFail, Mapped
  <2>4. lastOK[key[d]] = at[ref[d]]
    BY <2>3 DEF Mapped
  <2>5. at[ref[d]] = None \/ (at[ref[d]] \in Nat /\ now \in Nat)
    BY <2>3, TTLCacheAssumption DEF Locking, TypeOK, Time
  <2>6. QED BY <2>2, <2>4, <2>5, TTLCacheAssumption DEF Younger
<1>2. QED BY <1>1, LockingInvariant, MappedInvariant, PTL DEF Spec, NoNeedlessError
-----------------------------------------------------------------------------
(* The refinement.  A fetch starts where Begin is allowed, because nobody  *)
(* else holds the lock of the key's one entry and the entry shows the last *)
(* good answer; its end removes the key from the requests under way.       *)
LEMMA InflightEnds ==
    ASSUME Locking, Mapped, NEW c \in Callers, pc[c] \in {"fetch", "store"},
           pc' = [pc EXCEPT ![c] = "idle"], key' = [key EXCEPT ![c] = None]
    PROVE  key[c] \in Inflight /\ Inflight' = Inflight \ {key[c]}
<1>1. \A d \in Callers \ {c} :
         pc[d] \in {"fetch", "store"} => key[d] # key[c]
  BY DEF Locking, Mapped, LockDiscipline
<1>2. \A d \in Callers : pc'[d] \in {"fetch", "store"} <=>
         pc[d] \in {"fetch", "store"} /\ d # c
  BY DEF Locking, TypeOK
<1>3. \A d \in Callers \ {c} : key'[d] = key[d]
  BY DEF Locking, TypeOK
<1>4. QED BY <1>1, <1>2, <1>3 DEF Inflight

LEMMA InflightKept ==
    ASSUME Locking, NEW c \in Callers, pc[c] \notin {"fetch", "store"},
           pc'[c] \notin {"fetch", "store"},
           \A d \in Callers \ {c} : pc'[d] = pc[d] /\ key'[d] = key[d]
    PROVE  Inflight' = Inflight
BY DEF Inflight

LEMMA AbstractStep ==
    ASSUME Room, Locking, Mapped, [Next]_vars
    PROVE  [Abs!AbsNext]_(Abs!absVars)
<1> USE TTLCacheAssumption DEF Locking, TypeOK
<1>1. CASE Tick
  BY <1>1 DEF Tick, Time, Abs!AbsNext, Abs!Pass, Inflight
<1>2. ASSUME NEW c \in Callers, NEW k \in Keys, NEW t \in TTLs,
             LookupHit(c, k, t) \/ LookupMiss(c, k, t)
      PROVE  UNCHANGED <<now, Inflight, lastOK>>
  <2>1. /\ UNCHANGED <<now, lastOK>>
        /\ pc[c] = "idle" /\ pc' = [pc EXCEPT ![c] = "wait"]
        /\ key' = [key EXCEPT ![c] = k]
    BY <1>2 DEF LookupHit, LookupMiss, Call
  <2>2. QED BY <2>1, InflightKept
<1>3. ASSUME NEW c \in Callers, ReturnCached(c)
      PROVE  UNCHANGED <<now, Inflight, lastOK>>
  <2>1. /\ UNCHANGED <<now, lastOK>>
        /\ pc[c] = "wait" /\ pc' = [pc EXCEPT ![c] = "idle"]
        /\ key' = [key EXCEPT ![c] = None]
    BY <1>3 DEF ReturnCached, Return
  <2>2. QED BY <2>1, InflightKept
<1>4. ASSUME NEW c \in Callers, StartFetch(c) PROVE Abs!Begin(key[c])
  <2>1. /\ key[c] \in Keys /\ ttl[c] \in TTLs /\ m[key[c]] = ref[c]
        /\ ref[c] \in Ids /\ ref[c] # None /\ owner[ref[c]] = None
    BY <1>4 DEF StartFetch, Mapped
  <2>2. key[c] \notin Inflight
    BY <2>1 DEF Inflight, Mapped, LockDiscipline
  <2>3. lastOK[key[c]] = at[ref[c]]
    BY <2>1 DEF Mapped
  <2>4. at[ref[c]] = None \/ now - at[ref[c]] >= ttl[c]
    <3>1. ~Younger(ref[c], ttl[c])
      BY <1>4 DEF StartFetch
    <3>2. at[ref[c]] = None \/ at[ref[c]] \in Nat
      <4>1. at[ref[c]] \in Time \cup {None}
        BY <2>1
      <4>2. QED BY <4>1 DEF Time
    <3>3. now \in Nat /\ ttl[c] \in Nat
      <4>1. now \in 0..MaxTime
        BY DEF Time
      <4>2. ttl[c] \in Nat
        BY <2>1
      <4>3. QED BY <4>1, <4>2
    <3>4. QED BY <3>1, <3>2, <3>3 DEF Younger
  <2>5. pc' = [pc EXCEPT ![c] = "fetch"] /\ UNCHANGED <<now, key, lastOK>>
    BY <1>4 DEF StartFetch
  <2>6. Inflight' = Inflight \cup {key[c]}
    <3>1. \A d \in Callers : pc'[d] \in {"fetch", "store"} <=>
             d = c \/ pc[d] \in {"fetch", "store"}
      BY <2>5
    <3>2. QED BY <3>1, <2>5 DEF Inflight
  <2>7. QED BY <2>1, <2>2, <2>3, <2>4, <2>5, <2>6 DEF Abs!Begin
<1>5. ASSUME NEW c \in Callers, FetchOK(c)
      PROVE  UNCHANGED <<now, Inflight, lastOK>>
  <2>1. /\ pc[c] = "fetch" /\ pc' = [pc EXCEPT ![c] = "store"]
        /\ UNCHANGED <<now, key, lastOK>>
    BY <1>5 DEF FetchOK
  <2>2. \A d \in Callers :
           pc'[d] \in {"fetch", "store"} <=> pc[d] \in {"fetch", "store"}
    BY <2>1
  <2>3. QED BY <2>1, <2>2 DEF Inflight
<1>6. ASSUME NEW c \in Callers, Store(c) PROVE Abs!Succeed(key[c])
  BY <1>6, InflightEnds DEF Store, Return, Abs!Succeed
<1>7. ASSUME NEW c \in Callers, NEW l \in BOOLEAN, FetchFail(c, l)
      PROVE  Abs!Fail(key[c])
  BY <1>7, InflightEnds DEF FetchFail, Return, Abs!Fail
<1>8. \A c \in Callers : pc[c] # "idle" => key[c] \in Keys
  BY DEF Mapped
<1>9. CASE UNCHANGED vars
  BY <1>9 DEF vars, Inflight, Abs!absVars
<1>10. CASE \E c \in Callers : StartFetch(c)
  BY <1>10, <1>4, <1>8 DEF StartFetch, Abs!AbsNext
<1>11. CASE \E c \in Callers : Finish(c)
  <2>1. PICK c \in Callers : Finish(c)
    BY <1>11
  <2>2. key[c] \in Keys
    BY <2>1, <1>8 DEF Finish, Store, FetchFail
  <2>3. Abs!Succeed(key[c]) \/ Abs!Fail(key[c])
    BY <2>1, <1>6, <1>7 DEF Finish
  <2>4. QED BY <2>2, <2>3 DEF Abs!AbsNext
<1>12. QED
  BY <1>1, <1>2, <1>3, <1>5, <1>9, <1>10, <1>11 DEF Next, Abs!absVars

(* With room for every key, the cache implements SharedFetch: per key one  *)
(* request at a time, and none while a good answer is younger than a ttl.  *)
THEOREM RoomMeansSharedFetch == ASSUME Room PROVE Spec => ImplementsSharedFetch
<1>1. Init => Abs!AbsInit
  BY TTLCacheAssumption DEF Init, Abs!AbsInit, Inflight
<1>2. QED
  BY <1>1, AbstractStep, LockingInvariant, MappedInvariant, PTL
     DEF Spec, ImplementsSharedFetch, Abs!AbsSpec
=============================================================================
