--------------------------- MODULE NewsFetchProofs ---------------------------
(* Proofs about the news sources, for any number of sources, URLs, reloads    *)
(* and restarts.                                                              *)
EXTENDS NewsFetch, TLAPS

\* A cache whose entries each hold the validator of their items.
Paired(cache) == \A s \in Sources : cache[s] # None => cache[s].etag = cache[s].items

\* The cache, the copy on its way to the disk and the file are all paired, and so is
\* what the model's entries rely on: None is not an entry.
CoherentInv ==
  /\ DOMAIN news = Sources
  /\ Paired(news)
  /\ image # None => Paired(image)
  /\ disk # None => Paired(disk)

LEMMA StoredPaired ==
  ASSUME CoherentInv, NEW r, r.src \in Sources, NEW entry, entry.etag = entry.items,
         Stored(r, entry)
  PROVE  CoherentInv'
BY DEF CoherentInv, Paired, Stored

LEMMA KeptPaired ==
  ASSUME CoherentInv, NEW s \in Sources, NEW b \in BOOLEAN
  PROVE  [Kept(s) EXCEPT !.ok = b].etag = [Kept(s) EXCEPT !.ok = b].items
BY DEF CoherentInv, Paired, Kept, NoEntry

LEMMA CoherentStep ==
  ASSUME CoherentInv, [Next]_vars
  PROVE  CoherentInv'
<1>1. ASSUME NEW u \in URLs, Publish(u) PROVE CoherentInv'
  BY <1>1 DEF Publish, CoherentInv, Paired
<1>2. ASSUME NEW s \in Sources, Tick(s) PROVE CoherentInv'
  BY <1>2 DEF Tick, CoherentInv, Paired
<1>3. ASSUME NEW s \in Sources, NEW r \in runs, r.src = s,
             Respond(r) \/ Break(r) \/ StoreNew(r) \/ StoreSame(r) \/ StoreError(r)
      PROVE  CoherentInv'
  <2>1. CASE Respond(r) \/ Break(r)
    BY <2>1 DEF Respond, Break, Answered, CoherentInv, Paired
  <2>2. CASE StoreNew(r)
    BY <1>3, <2>2, StoredPaired DEF StoreNew
  <2>3. CASE StoreSame(r)
    BY <1>3, <2>3, StoredPaired, KeptPaired DEF StoreSame
  <2>4. CASE StoreError(r)
    BY <1>3, <2>4, StoredPaired, KeptPaired DEF StoreError
  <2> QED
    BY <1>3, <2>1, <2>2, <2>3, <2>4
<1>4. ASSUME NEW c \in Configs, Install(c) PROVE CoherentInv'
  BY <1>4 DEF Install, CoherentInv, Paired
<1>5. ASSUME NEW c \in Configs, Restart(c) PROVE CoherentInv'
  <2>1. /\ news' = [s \in Sources |-> IF disk = None \/ c[s] = None THEN None
                                       ELSE IF disk[s] = None THEN None
                                       ELSE [disk[s] EXCEPT !.ok = TRUE]]
        /\ image' = None /\ disk' = disk
    BY <1>5 DEF Restart
  <2>2. Paired(news)'
    <3>1. ASSUME NEW s \in Sources, news'[s] # None PROVE news'[s].etag = news'[s].items
      <4>1. disk # None /\ disk[s] # None /\ news'[s] = [disk[s] EXCEPT !.ok = TRUE]
        BY <2>1, <3>1
      <4>2. disk[s].etag = disk[s].items
        BY <4>1 DEF CoherentInv, Paired
      <4> QED
        BY <4>1, <4>2
    <3> QED
      BY <3>1 DEF Paired
  <2> QED
    BY <2>1, <2>2 DEF CoherentInv, Paired
<1>6. ASSUME Prune PROVE CoherentInv'
  BY <1>6 DEF Prune, CoherentInv, Paired
<1>7. ASSUME SetJobs PROVE CoherentInv'
  BY <1>7 DEF SetJobs, CoherentInv, Paired
<1>8. ASSUME SnapshotTake PROVE CoherentInv'
  BY <1>8 DEF SnapshotTake, CoherentInv, Paired
<1>9. ASSUME SnapshotWrite PROVE CoherentInv'
  BY <1>9 DEF SnapshotWrite, CoherentInv, Paired
<1>10. ASSUME UNCHANGED vars PROVE CoherentInv'
  BY <1>10 DEF vars, CoherentInv, Paired
<1> QED
  BY <1>1, <1>2, <1>3, <1>4, <1>5, <1>6, <1>7, <1>8, <1>9, <1>10 DEF Next, Fetch

(* The validator kept of a source is always that of the items kept of it, for  *)
(* every order of answers, reloads, snapshots and restarts.                   *)
THEOREM CacheCoherent == Spec => []Coherent
<1>1. Init => CoherentInv
  BY DEF Init, CoherentInv, Paired, Empty
<1>2. CoherentInv /\ [Next]_vars => CoherentInv'
  BY CoherentStep
<1>3. CoherentInv => Coherent
  BY DEF CoherentInv, Paired, Coherent
<1> QED
  BY <1>1, <1>2, <1>3, PTL DEF Spec

-----------------------------------------------------------------------------
\* The scheduler's jobs and the configuration agree between two reloads.
JobsInv == cfg \in Configs /\ reloads \in Nat /\ JobsMatchConfig

LEMMA ScheduledMatches ==
  ASSUME NEW old, NEW c \in Configs, NEW gen \in Nat, NEW s \in Sources
  PROVE  c[s] = (IF Scheduled(old, c, gen)[s] = None THEN None ELSE Scheduled(old, c, gen)[s].url)
<1>1. CASE c[s] = None
  BY <1>1 DEF Scheduled
<1>2. CASE c[s] # None /\ old[s] # None /\ old[s].url = c[s]
  BY <1>2 DEF Scheduled
<1>3. CASE c[s] # None /\ ~(old[s] # None /\ old[s].url = c[s])
  <2>1. Scheduled(old, c, gen)[s] = [url |-> c[s], gen |-> gen]
    BY <1>3 DEF Scheduled
  <2>2. [url |-> c[s], gen |-> gen] # None
    BY <1>3, NewsFetchAssumption DEF Configs
  <2> QED
    BY <1>3, <2>1, <2>2
<1> QED
  BY <1>1, <1>2, <1>3

(* Between two reloads the scheduler fetches exactly what the configuration    *)
(* names.                                                                     *)
THEOREM JobsFollowConfig == Spec => []JobsMatchConfig
<1>1. Init => JobsInv
  <2>1. SUFFICES ASSUME Init PROVE JobsInv
    OBVIOUS
  <2>2. cfg \in Configs /\ reloads = 0 /\ sched = Scheduled(Empty, cfg, 0)
    BY <2>1 DEF Init
  <2> QED
    BY <2>2, ScheduledMatches DEF JobsInv, JobsMatchConfig
<1>2. JobsInv /\ [Next]_vars => JobsInv'
  <2> SUFFICES ASSUME JobsInv, [Next]_vars PROVE JobsInv'
    OBVIOUS
  <2>1. CASE UNCHANGED <<cfg, reload, reloads, sched>>
    BY <2>1 DEF JobsInv, JobsMatchConfig
  <2>2. CASE \E c \in Configs : Install(c)
    BY <2>2 DEF Install, JobsInv, JobsMatchConfig
  <2>3. ASSUME NEW c \in Configs, Restart(c) PROVE JobsInv'
    <3>1. cfg' = c /\ sched' = Scheduled(Empty, c, reloads') /\ reloads' \in Nat
      BY <2>3 DEF Restart, JobsInv
    <3> QED
      BY <3>1, ScheduledMatches DEF JobsInv, JobsMatchConfig
  <2>4. CASE Prune
    BY <2>4 DEF Prune, JobsInv, JobsMatchConfig
  <2>5. CASE SetJobs
    <3>1. cfg' = cfg /\ sched' = Scheduled(sched, cfg, reloads) /\ reloads' = reloads
      BY <2>5 DEF SetJobs
    <3> QED
      BY <3>1, ScheduledMatches DEF JobsInv, JobsMatchConfig
  <2>6. (\E u \in URLs : Publish(u)) \/ (\E s \in Sources : Fetch(s))
          \/ SnapshotTake \/ SnapshotWrite \/ UNCHANGED vars
        => UNCHANGED <<cfg, reload, reloads, sched>>
    BY DEF Publish, Fetch, Tick, Respond, Break, Answered, StoreNew, StoreSame, StoreError, Stored,
           SnapshotTake, SnapshotWrite, vars
  <2> QED
    BY <2>1, <2>2, <2>3, <2>4, <2>5, <2>6 DEF Next
<1>3. JobsInv => JobsMatchConfig
  BY DEF JobsInv
<1> QED
  BY <1>1, <1>2, <1>3, PTL DEF Spec

-----------------------------------------------------------------------------
LEMMA ScheduledType ==
  ASSUME NEW old \in [Sources -> Jobs \union {None}], NEW c \in Configs, NEW gen \in Nat
  PROVE  Scheduled(old, c, gen) \in [Sources -> Jobs \union {None}]
BY DEF Scheduled, Configs, Jobs

LEMMA EmptyType == Empty \in [Sources -> Jobs \union {None}] /\ Empty \in Caches
BY DEF Empty, Caches

LEMMA KeptType ==
  ASSUME TypeOK, NEW s \in Sources
  PROVE  Kept(s) \in Entry
BY DEF TypeOK, Kept, NoEntry, Caches, Entry

LEMMA StoredType ==
  ASSUME TypeOK, NEW r, NEW entry \in Entry, Stored(r, entry)
  PROVE  TypeOK'
<1>1. r.src \in Sources
  BY DEF Stored, TypeOK, Runs
<1>2. news' \in Caches
  BY <1>1 DEF Stored, TypeOK, Caches
<1>3. runs' \subseteq runs
  BY DEF Stored
<1> QED BY <1>2, <1>3 DEF Stored, TypeOK

\* A run that is answered stays the only one of its job.
LEMMA AnsweredType ==
  ASSUME TypeOK, NEW r, NEW st \in {"new", "same", "failed"}, NEW body \in Content \union {None},
         Answered(r, st, body)
  PROVE  TypeOK'
<1> DEFINE q == [r EXCEPT !.st = st, !.body = body]
<1>1. r \in runs /\ r \in Runs
  BY DEF Answered, TypeOK
<1>2. q \in Runs /\ q.src = r.src /\ q.gen = r.gen
  BY <1>1 DEF Runs
<1>3. runs' = (runs \ {r}) \union {q}
  BY DEF Answered
<1> HIDE DEF q
<1>4. \A x, y \in runs' : x.src = y.src /\ x.gen = y.gen => x = y
  BY <1>1, <1>2, <1>3 DEF TypeOK
<1>5. runs' \in SUBSET Runs
  BY <1>2, <1>3 DEF TypeOK
<1> QED BY <1>4, <1>5 DEF Answered, TypeOK

LEMMA TickType ==
  ASSUME TypeOK, NEW s \in Sources, Tick(s)
  PROVE  TypeOK'
<1> DEFINE q == [src |-> s, url |-> sched[s].url, gen |-> sched[s].gen,
                 etag |-> IF news[s] = None THEN None ELSE news[s].etag, st |-> "asked", body |-> None]
<1>1. sched[s] \in Jobs
  BY DEF Tick, TypeOK
<1>2. (IF news[s] = None THEN None ELSE news[s].etag) \in Content \union {None}
  BY DEF TypeOK, Caches, Entry
<1>3. q \in Runs /\ q.src = s /\ q.gen = sched[s].gen
  BY <1>1, <1>2 DEF Runs, Jobs
<1>4. runs' = runs \union {q} /\ \A r \in runs : r.src = s => r.gen # sched[s].gen
  BY DEF Tick
<1> HIDE DEF q
<1>5. runs' \in SUBSET Runs /\ \A x, y \in runs' : x.src = y.src /\ x.gen = y.gen => x = y
  BY <1>3, <1>4 DEF TypeOK
<1> QED BY <1>5 DEF Tick, TypeOK

LEMMA FetchType ==
  ASSUME TypeOK, NEW s \in Sources, Fetch(s)
  PROVE  TypeOK'
<1>1. CASE Tick(s)
  BY <1>1, TickType
<1>2. ASSUME NEW r \in runs, r.src = s, Respond(r) PROVE TypeOK'
  <2>1. Now(r.url) \in Content
    BY DEF TypeOK, Runs, Now, Content
  <2> QED BY <1>2, <2>1, AnsweredType DEF Respond
<1>3. ASSUME NEW r \in runs, Break(r) PROVE TypeOK'
  BY <1>3, AnsweredType DEF Break
<1>4. ASSUME NEW r \in runs, r.src = s, StoreNew(r) PROVE TypeOK'
  <2>1. [items |-> r.body, etag |-> r.body, ok |-> TRUE] \in Entry
    BY DEF TypeOK, Runs, Entry
  <2> QED BY <1>4, <2>1, StoredType DEF StoreNew
<1>5. ASSUME NEW r \in runs, r.src = s, StoreSame(r) \/ StoreError(r) PROVE TypeOK'
  <2>1. \A b \in BOOLEAN : [Kept(r.src) EXCEPT !.ok = b] \in Entry
    BY <1>5, KeptType DEF Entry
  <2> QED BY <1>5, <2>1, StoredType DEF StoreSame, StoreError
<1> QED BY <1>1, <1>2, <1>3, <1>4, <1>5 DEF Fetch

LEMMA InitType == Init => TypeOK
<1>1. SUFFICES ASSUME Init PROVE TypeOK
  OBVIOUS
<1>2. sched \in [Sources -> Jobs \union {None}]
  BY <1>1, ScheduledType, EmptyType DEF Init
<1> QED BY <1>1, <1>2, EmptyType DEF Init, TypeOK

LEMMA TypeStep == TypeOK /\ [Next]_vars => TypeOK'
<1> SUFFICES ASSUME TypeOK, [Next]_vars PROVE TypeOK'
  OBVIOUS
<1>1. ASSUME NEW u \in URLs, Publish(u) PROVE TypeOK'
  BY <1>1 DEF Publish, TypeOK
<1>2. ASSUME NEW c \in Configs, Install(c) PROVE TypeOK'
  BY <1>2 DEF Install, TypeOK
<1>3. ASSUME NEW c \in Configs, Restart(c) PROVE TypeOK'
  <2>1. reloads' \in Nat /\ starts' \in Nat
    BY <1>3 DEF Restart, TypeOK
  <2>2. sched' \in [Sources -> Jobs \union {None}]
    BY <1>3, <2>1, ScheduledType, EmptyType DEF Restart
  <2>3. news' \in Caches
    <3>1. ASSUME NEW s \in Sources, disk # None, disk[s] # None
          PROVE  [disk[s] EXCEPT !.ok = TRUE] \in Entry
      BY <3>1 DEF TypeOK, Caches, Entry
    <3> QED BY <1>3, <3>1 DEF Restart, Caches
  <2> QED BY <1>3, <2>1, <2>2, <2>3 DEF Restart, TypeOK
<1>4. CASE Prune
  BY <1>4 DEF Prune, TypeOK, Caches
<1>5. CASE SetJobs
  <2>1. sched' \in [Sources -> Jobs \union {None}]
    BY <1>5, ScheduledType DEF SetJobs, TypeOK
  <2> QED BY <1>5, <2>1 DEF SetJobs, TypeOK
<1>6. CASE SnapshotTake
  <2>1. image' \in Caches
    BY <1>6 DEF SnapshotTake, TypeOK, Caches
  <2> QED BY <1>6, <2>1 DEF SnapshotTake, TypeOK
<1>7. CASE SnapshotWrite
  BY <1>7 DEF SnapshotWrite, TypeOK
<1>8. CASE UNCHANGED vars
  BY <1>8 DEF vars, TypeOK
<1> QED BY <1>1, <1>2, <1>3, <1>4, <1>5, <1>6, <1>7, <1>8, FetchType DEF Next

(* Every variable keeps its type, and a job never has two runs under way, with *)
(* any sources, URLs and bounds and through restarts (Scheduler.Loop, Set).   *)
THEOREM TypeCorrect == Spec => []TypeOK
BY InitType, TypeStep, PTL DEF Spec

-----------------------------------------------------------------------------
\* Why the items of a source never go back: up to the first reload, the runs of a
\* source all have URLs of their own.  A job that stays keeps its generation, a job
\* that is replaced leaves runs of an older one with another URL behind.
RunsApart ==
  /\ \A s \in Sources : sched[s] # None => sched[s].gen <= reloads
  /\ \A r \in runs : r.gen <= reloads
  /\ reload # "idle" => /\ reloads >= 1
                        /\ \A s \in Sources : sched[s] # None => sched[s].gen < reloads
                        /\ \A r \in runs : r.gen < reloads
  /\ reloads <= 1 =>
       /\ \A r \in runs : sched[r.src] # None => (r.gen = sched[r.src].gen <=> r.url = sched[r.src].url)
       /\ reloads = 0 \/ reload # "idle" => \A r \in runs : sched[r.src] # None
       /\ \A r, q \in runs : r.src = q.src /\ r.url = q.url => r = q

\* A job that gets a new generation has another URL than before, or had none.
LEMMA ScheduledGen ==
  ASSUME NEW old \in [Sources -> Jobs \union {None}], NEW c \in Configs, NEW gen \in Nat,
         NEW s \in Sources, Scheduled(old, c, gen)[s] # None
  PROVE  \/ old[s] # None /\ Scheduled(old, c, gen)[s] = old[s]
         \/ /\ Scheduled(old, c, gen)[s].gen = gen
            /\ old[s] # None => Scheduled(old, c, gen)[s].url # old[s].url
BY DEF Scheduled, Configs

LEMMA RunsApartTick ==
  ASSUME TypeOK, RunsApart, NEW s \in Sources, Tick(s)
  PROVE  RunsApart'
<1> DEFINE q == [src |-> s, url |-> sched[s].url, gen |-> sched[s].gen,
                 etag |-> IF news[s] = None THEN None ELSE news[s].etag, st |-> "asked", body |-> None]
<1>1. q.src = s /\ q.url = sched[s].url /\ q.gen = sched[s].gen
  OBVIOUS
<1>2. /\ runs' = runs \union {q} /\ sched[s] # None
      /\ \A r \in runs : r.src = s => r.gen # sched[s].gen
      /\ UNCHANGED <<sched, reloads, reload>>
  BY DEF Tick
<1> HIDE DEF q
<1>3. reloads <= 1 => \A r \in runs : r.src = s => r.url # q.url
  BY <1>1, <1>2 DEF RunsApart
<1>4. reloads <= 1 => \A r, x \in runs' : r.src = x.src /\ r.url = x.url => r = x
  BY <1>1, <1>2, <1>3 DEF RunsApart
<1> QED BY <1>1, <1>2, <1>4 DEF RunsApart

LEMMA RunsApartAnswered ==
  ASSUME TypeOK, RunsApart, NEW r, NEW st, NEW body, Answered(r, st, body)
  PROVE  RunsApart'
<1> DEFINE q == [r EXCEPT !.st = st, !.body = body]
<1>1. r \in runs /\ q.src = r.src /\ q.gen = r.gen /\ q.url = r.url
  BY DEF Answered, TypeOK, Runs
<1>2. runs' = (runs \ {r}) \union {q} /\ UNCHANGED <<sched, reloads, reload>>
  BY DEF Answered
<1> HIDE DEF q
<1>3. reloads <= 1 => \A x, y \in runs' : x.src = y.src /\ x.url = y.url => x = y
  BY <1>1, <1>2 DEF RunsApart
<1> QED BY <1>1, <1>2, <1>3 DEF RunsApart

LEMMA RunsApartSetJobs ==
  ASSUME TypeOK, RunsApart, SetJobs
  PROVE  RunsApart'
<1>1. /\ sched' = Scheduled(sched, cfg, reloads) /\ reload = "set" /\ reload' = "idle"
      /\ UNCHANGED <<runs, reloads>>
  BY DEF SetJobs
<1>2. /\ sched \in [Sources -> Jobs \union {None}] /\ cfg \in Configs /\ reloads \in Nat
      /\ \A r \in runs : r.src \in Sources /\ r.gen \in Nat
      /\ \A s \in Sources : sched[s] # None => sched[s].gen \in Nat
  BY DEF TypeOK, Runs, Jobs
<1>3. ASSUME NEW s \in Sources, sched'[s] # None PROVE sched'[s].gen <= reloads'
  BY <1>1, <1>2, <1>3, ScheduledGen DEF RunsApart
<1>4. ASSUME reloads <= 1, NEW r \in runs, sched'[r.src] # None
      PROVE  r.gen = sched'[r.src].gen <=> r.url = sched'[r.src].url
  <2>1. CASE sched'[r.src] = sched[r.src]
    BY <1>4, <2>1 DEF RunsApart
  <2>2. CASE sched'[r.src] # sched[r.src]
    <3>1. sched[r.src] # None /\ r.gen < reloads /\ sched[r.src].gen < reloads
      BY <1>1, <1>2, <1>4 DEF RunsApart
    <3>2. sched'[r.src].gen = reloads /\ sched'[r.src].url # sched[r.src].url
      BY <1>1, <1>2, <1>4, <2>2, <3>1, ScheduledGen
    <3>3. r.gen = 0 /\ sched[r.src].gen = 0 /\ reloads = 1
      BY <1>2, <1>4, <3>1
    <3>4. r.url = sched[r.src].url
      BY <1>4, <3>1, <3>3 DEF RunsApart
    <3> QED BY <3>2, <3>3, <3>4
  <2> QED BY <2>1, <2>2
<1>5. ~ (reloads' = 0 \/ reload' # "idle")
  BY <1>1, <1>2 DEF RunsApart
<1> QED BY <1>1, <1>2, <1>3, <1>4, <1>5 DEF RunsApart

LEMMA RunsApartStored ==
  ASSUME RunsApart, NEW r, NEW entry, Stored(r, entry)
  PROVE  RunsApart'
BY DEF Stored, RunsApart

LEMMA RunsApartInstall ==
  ASSUME TypeOK, RunsApart, NEW c \in Configs, Install(c)
  PROVE  RunsApart'
<1>1. /\ reload = "idle" /\ reload' = "prune" /\ reloads' = reloads + 1 /\ reloads \in Nat
      /\ UNCHANGED <<sched, runs>>
  BY DEF Install, TypeOK
<1>2. /\ \A r \in runs : r.src \in Sources /\ r.gen \in Nat
      /\ \A s \in Sources : sched[s] # None => sched[s].gen \in Nat
  BY DEF TypeOK, Runs, Jobs
<1>3. reloads' <= 1 => reloads = 0
  BY <1>1
<1> QED BY <1>1, <1>2, <1>3 DEF RunsApart

LEMMA RunsApartRestart ==
  ASSUME TypeOK, RunsApart, NEW c \in Configs, Restart(c)
  PROVE  RunsApart'
<1>1. /\ runs' = {} /\ reload' = "idle" /\ sched' = Scheduled(Empty, c, reloads') /\ reloads' \in Nat
  BY DEF Restart, TypeOK
<1>2. ASSUME NEW s \in Sources, sched'[s] # None PROVE sched'[s].gen <= reloads'
  <2>1. sched'[s].gen = reloads'
    BY <1>1, <1>2, EmptyType, ScheduledGen DEF Empty
  <2> QED BY <1>1, <2>1
<1> QED BY <1>1, <1>2 DEF RunsApart

LEMMA RunsApartStep ==
  ASSUME TypeOK, RunsApart, [Next]_vars
  PROVE  RunsApart'
<1>1. CASE UNCHANGED <<reloads, reload, sched, runs>>
  BY <1>1 DEF RunsApart
<1>2. CASE Prune
  BY <1>2 DEF Prune, RunsApart
<1>3. ASSUME NEW s \in Sources, Fetch(s) PROVE RunsApart'
  BY <1>3, RunsApartTick, RunsApartAnswered, RunsApartStored
     DEF Fetch, Respond, Break, StoreNew, StoreSame, StoreError
<1>4. (\E u \in URLs : Publish(u)) \/ SnapshotTake \/ SnapshotWrite \/ UNCHANGED vars
        => UNCHANGED <<reloads, reload, sched, runs>>
  BY DEF Publish, SnapshotTake, SnapshotWrite, vars
<1> QED
  BY <1>1, <1>2, <1>3, <1>4, RunsApartSetJobs, RunsApartInstall, RunsApartRestart DEF Next

-----------------------------------------------------------------------------
\* What a cache holds of a source.
Items(cache, s) == IF cache[s] = None THEN None ELSE cache[s].items

\* Nothing that is kept or copied is newer than what its site serves.
NoneNewer(cache) ==
  \A s \in Sources : Items(cache, s) # None => Items(cache, s).at <= served[Items(cache, s).url]

\* Nor is an answer; and, up to the first reload, an answer is no older than what is
\* kept of its source, because no other run of the same URL can store before it.
EditionInv ==
  /\ NoneNewer(news)
  /\ image # None => NoneNewer(image)
  /\ disk # None => NoneNewer(disk)
  /\ \A u \in URLs : served[u] <= clock
  /\ \A r \in runs : r.st = "new" => r.body \in Content /\ r.body.url = r.url /\ r.body.at <= served[r.url]
  /\ reloads <= 1 => \A r \in runs :
       (r.st = "new" /\ Items(news, r.src) # None /\ Items(news, r.src).url = r.url)
         => Items(news, r.src).at <= r.body.at

LEMMA ItemsType ==
  ASSUME TypeOK, NEW s \in Sources
  PROVE  /\ Items(news, s) \in Content \union {None}
         /\ Items(news, s) # None => Items(news, s).at \in Nat
BY DEF Items, TypeOK, Caches, Entry, Content

LEMMA KeptItems ==
  ASSUME NEW s \in Sources
  PROVE  /\ Kept(s).items = Items(news, s)
         /\ Kept(s)'.items = Items(news', s)
BY DEF Kept, Items, NoEntry

\* A fetch that brings an edition puts it in the place of what its source had; the
\* others leave every source what it had.
LEMMA ItemsNew ==
  ASSUME TypeOK, NEW r, StoreNew(r), NEW s \in Sources
  PROVE  \/ Items(news', s) \in {None, Items(news, s)}
         \/ s = r.src /\ Items(news', s) = r.body
BY DEF StoreNew, Stored, Items, TypeOK, Caches

LEMMA ItemsSame ==
  ASSUME TypeOK, NEW r, StoreSame(r) \/ StoreError(r), NEW s \in Sources
  PROVE  Items(news', s) \in {None, Items(news, s)}
<1>1. r.src \in Sources
  BY DEF StoreSame, StoreError, Stored, TypeOK, Runs
<1>2. \A b \in BOOLEAN : [Kept(r.src) EXCEPT !.ok = b].items = Items(news, r.src)
  BY <1>1, KeptType, KeptItems DEF Entry
<1>3. PICK b \in BOOLEAN : news' = [news EXCEPT ![r.src] = [Kept(r.src) EXCEPT !.ok = b]]
  BY DEF StoreSame, StoreError, Stored
<1> DEFINE e == [Kept(r.src) EXCEPT !.ok = b]
<1>4. e.items = Items(news, r.src) /\ news' = [news EXCEPT ![r.src] = e]
  BY <1>2, <1>3
<1> HIDE DEF e
<1> QED BY <1>1, <1>4 DEF Items, TypeOK, Caches

LEMMA EditionNew ==
  ASSUME TypeOK, RunsApart, EditionInv, NEW r, StoreNew(r)
  PROVE  EditionInv'
<1>1. /\ r \in runs /\ r.st = "new" /\ r.src \in Sources /\ runs' = runs \ {r}
      /\ UNCHANGED <<served, clock, reloads, image, disk>>
  BY DEF StoreNew, Stored, TypeOK, Runs
<1>2. r.body.url = r.url /\ r.body.at <= served[r.url]
  BY <1>1 DEF EditionInv
<1>3. NoneNewer(news)'
  BY <1>1, <1>2, ItemsNew DEF EditionInv, NoneNewer
<1>4. ASSUME reloads <= 1, NEW q \in runs', q.st = "new", Items(news', q.src) # None,
             Items(news', q.src).url = q.url
      PROVE  Items(news', q.src).at <= q.body.at
  <2>1. q \in runs /\ q # r /\ q.src \in Sources
    BY <1>1, <1>4 DEF TypeOK, Runs
  <2>2. ~ (q.src = r.src /\ Items(news', q.src) = r.body)
    BY <1>1, <1>2, <1>4, <2>1 DEF RunsApart
  <2>3. Items(news', q.src) = Items(news, q.src)
    BY <1>4, <2>1, <2>2, ItemsNew
  <2> QED BY <1>4, <2>1, <2>3 DEF EditionInv
<1> QED BY <1>1, <1>3, <1>4 DEF EditionInv, NoneNewer

LEMMA EditionSame ==
  ASSUME TypeOK, EditionInv, NEW r, StoreSame(r) \/ StoreError(r)
  PROVE  EditionInv'
<1>1. /\ runs' \subseteq runs /\ \A q \in runs : q.src \in Sources
      /\ UNCHANGED <<served, clock, reloads, image, disk>>
  BY DEF StoreSame, StoreError, Stored, TypeOK, Runs
<1>2. \A s \in Sources : Items(news', s) \in {None, Items(news, s)}
  BY ItemsSame
<1> QED BY <1>1, <1>2 DEF EditionInv, NoneNewer

LEMMA EditionAnswered ==
  ASSUME TypeOK, EditionInv, NEW r, Respond(r) \/ Break(r)
  PROVE  EditionInv'
<1>1. /\ r \in runs /\ r.src \in Sources /\ r.url \in URLs
      /\ UNCHANGED <<served, clock, reloads, news, image, disk>>
  BY DEF Respond, Break, Answered, TypeOK, Runs
<1>2. PICK st \in {"new", "same", "failed"}, body \in Content \union {None} :
        /\ st = "new" => body = Now(r.url)
        /\ runs' = (runs \ {r}) \union {[r EXCEPT !.st = st, !.body = body]}
  <2>1. Now(r.url) \in Content
    BY <1>1 DEF Now, Content, TypeOK
  <2> QED BY <2>1 DEF Respond, Break, Answered
<1> DEFINE q == [r EXCEPT !.st = st, !.body = body]
<1>3. q.src = r.src /\ q.url = r.url /\ q.st = st /\ q.body = body
  BY <1>1 DEF TypeOK, Runs
<1>4. runs' = (runs \ {r}) \union {q}
  BY <1>2
<1> HIDE DEF q
<1>5. st = "new" => body \in Content /\ body.url = r.url /\ body.at = served[r.url] /\ served[r.url] \in Nat
  BY <1>1, <1>2 DEF Now, Content, TypeOK
<1>6. Items(news, r.src) # None /\ Items(news, r.src).url = r.url => Items(news, r.src).at <= served[r.url]
  BY <1>1 DEF EditionInv, NoneNewer
<1> QED BY <1>1, <1>3, <1>4, <1>5, <1>6 DEF EditionInv, NoneNewer

LEMMA EditionRestart ==
  ASSUME TypeOK, EditionInv, NEW c \in Configs, Restart(c)
  PROVE  EditionInv'
<1>1. /\ runs' = {} /\ image' = None /\ UNCHANGED <<served, clock, disk>>
      /\ news' = [s \in Sources |-> IF disk = None \/ c[s] = None THEN None
                                    ELSE IF disk[s] = None THEN None ELSE [disk[s] EXCEPT !.ok = TRUE]]
  BY DEF Restart
<1>2. ASSUME NEW s \in Sources, Items(news', s) # None
      PROVE  disk # None /\ Items(news', s) = Items(disk, s)
  <2>1. disk # None /\ disk[s] # None /\ news'[s] = [disk[s] EXCEPT !.ok = TRUE]
    BY <1>1, <1>2 DEF Items
  <2>2. [disk[s] EXCEPT !.ok = TRUE].items = disk[s].items
    BY <2>1 DEF TypeOK, Caches, Entry
  <2> QED BY <1>2, <2>1, <2>2 DEF Items
<1>3. NoneNewer(news)'
  BY <1>1, <1>2 DEF EditionInv, NoneNewer
<1> QED BY <1>1, <1>3 DEF EditionInv, NoneNewer

LEMMA EditionPublish ==
  ASSUME TypeOK, EditionInv, NEW u \in URLs, Publish(u)
  PROVE  EditionInv'
<1>1. /\ clock' = clock + 1 /\ served' = [served EXCEPT ![u] = clock + 1]
      /\ UNCHANGED <<reloads, runs, news, image, disk>>
  BY DEF Publish
<1>2. served \in [URLs -> Nat] /\ clock \in Nat /\ \A x \in URLs : served[x] <= clock
  BY DEF TypeOK, EditionInv
<1>3. \A x \in URLs : served[x] <= served'[x] /\ served'[x] <= clock' /\ served'[x] \in Nat
  BY <1>1, <1>2
<1>4. ASSUME NEW cache \in Caches, NoneNewer(cache) PROVE NoneNewer(cache)'
  <2>1. ASSUME NEW s \in Sources, Items(cache, s) # None
        PROVE  Items(cache, s).at <= served'[Items(cache, s).url]
    <3>1. Items(cache, s) \in Content
      BY <1>4, <2>1 DEF Items, Caches, Entry
    <3>2. Items(cache, s).url \in URLs /\ Items(cache, s).at \in Nat
      BY <3>1 DEF Content
    <3>3. Items(cache, s).at <= served[Items(cache, s).url]
      BY <1>4, <2>1 DEF NoneNewer
    <3> QED BY <1>2, <1>3, <3>2, <3>3
  <2> QED BY <2>1 DEF NoneNewer
<1>5. NoneNewer(news)' /\ (image # None => NoneNewer(image)') /\ (disk # None => NoneNewer(disk)')
  <2>1. news \in Caches /\ (image # None => image \in Caches) /\ (disk # None => disk \in Caches)
    BY DEF TypeOK
  <2> QED BY <1>1, <1>4, <2>1 DEF EditionInv, NoneNewer
<1>6. ASSUME NEW r \in runs, r.st = "new"
      PROVE  r.body \in Content /\ r.body.url = r.url /\ r.body.at <= served'[r.url]
  <2>1. r.body \in Content /\ r.body.url = r.url /\ r.body.at <= served[r.url] /\ r.url \in URLs
    BY <1>6 DEF EditionInv, TypeOK, Runs
  <2> QED BY <1>2, <1>3, <2>1 DEF Content
<1> QED BY <1>1, <1>3, <1>5, <1>6 DEF EditionInv

LEMMA EditionStep ==
  ASSUME TypeOK, RunsApart, EditionInv, [Next]_vars
  PROVE  EditionInv'
<1>1. ASSUME NEW s \in Sources, Tick(s) PROVE EditionInv'
  <2>1. /\ UNCHANGED <<served, clock, reloads, news, image, disk>>
        /\ \A r \in runs' : r.st = "new" => r \in runs
    BY <1>1 DEF Tick
  <2> QED BY <2>1 DEF EditionInv, NoneNewer
<1>2. ASSUME NEW s \in Sources, Fetch(s) PROVE EditionInv'
  BY <1>1, <1>2, EditionNew, EditionSame, EditionAnswered DEF Fetch
<1>3. ASSUME NEW c \in Configs, Install(c) PROVE EditionInv'
  <2>1. reloads' <= 1 => reloads <= 1
    BY <1>3 DEF Install, TypeOK
  <2> QED BY <1>3, <2>1 DEF Install, EditionInv, NoneNewer
<1>4. CASE Prune
  <2>1. \A s \in Sources : Items(news', s) \in {None, Items(news, s)}
    BY <1>4 DEF Prune, Items
  <2>2. UNCHANGED <<served, clock, reloads, runs, image, disk>> /\ \A r \in runs : r.src \in Sources
    BY <1>4 DEF Prune, TypeOK, Runs
  <2> QED BY <2>1, <2>2 DEF EditionInv, NoneNewer
<1>5. CASE SnapshotTake
  <2>1. \A s \in Sources : Items(image', s) \in {None, Items(news, s)}
    BY <1>5 DEF SnapshotTake, Items
  <2>2. UNCHANGED <<served, clock, reloads, runs, news, disk>>
    BY <1>5 DEF SnapshotTake
  <2> QED BY <2>1, <2>2 DEF EditionInv, NoneNewer
<1>6. CASE SnapshotWrite
  BY <1>6 DEF SnapshotWrite, EditionInv, NoneNewer
<1>7. CASE SetJobs
  BY <1>7 DEF SetJobs, EditionInv, NoneNewer
<1>8. CASE UNCHANGED vars
  BY <1>8 DEF vars, EditionInv, NoneNewer
<1> QED
  BY <1>2, <1>3, <1>4, <1>5, <1>6, <1>7, <1>8, EditionRestart, EditionPublish DEF Next

-----------------------------------------------------------------------------
BackInv == TypeOK /\ RunsApart /\ EditionInv

\* No step of one process, up to the first reload, puts older items of the same URL
\* in the place of newer ones.
LEMMA BackStep ==
  ASSUME BackInv, [Next]_vars, NEW s \in Sources, starts' = starts, reloads' <= 1,
         Items(news, s) # None, Items(news', s) # None, Items(news, s).url = Items(news', s).url
  PROVE  Items(news, s).at <= Items(news', s).at
<1> USE DEF BackInv
<1>1. Items(news, s).at \in Nat
  BY ItemsType
<1>2. CASE Items(news', s) = Items(news, s)
  BY <1>1, <1>2
<1>3. ASSUME NEW r, StoreNew(r) PROVE Items(news, s).at <= Items(news', s).at
  <2>1. r \in runs /\ r.st = "new" /\ r.body.url = r.url /\ reloads <= 1
    BY <1>3 DEF StoreNew, Stored, EditionInv
  <2>2. CASE s = r.src /\ Items(news', s) = r.body
    BY <2>1, <2>2 DEF EditionInv
  <2> QED BY <1>2, <1>3, <2>2, ItemsNew
<1>4. ASSUME NEW t \in Sources, Fetch(t) PROVE Items(news, s).at <= Items(news', s).at
  <2>1. CASE UNCHANGED news
    BY <1>2, <2>1
  <2>2. ASSUME NEW r, StoreSame(r) \/ StoreError(r) PROVE Items(news, s).at <= Items(news', s).at
    BY <1>2, <2>2, ItemsSame
  <2> QED BY <1>3, <1>4, <2>1, <2>2 DEF Fetch, Tick, Respond, Break, Answered
<1>5. CASE Prune
  BY <1>2, <1>5 DEF Prune, Items
<1>6. ASSUME NEW c \in Configs, Restart(c) PROVE FALSE
  BY <1>6 DEF Restart, TypeOK
<1>7. CASE UNCHANGED news
  BY <1>2, <1>7
<1>8. (\E u \in URLs : Publish(u)) \/ (\E c \in Configs : Install(c)) \/ SetJobs
        \/ SnapshotTake \/ SnapshotWrite \/ UNCHANGED vars => UNCHANGED news
  BY DEF Publish, Install, SetJobs, SnapshotTake, SnapshotWrite, vars
<1> QED BY <1>4, <1>5, <1>6, <1>7, <1>8 DEF Next

LEMMA BackInit == Init => BackInv
<1> SUFFICES ASSUME Init PROVE BackInv
  OBVIOUS
<1>1. TypeOK
  BY InitType
<1>2. runs = {} /\ reloads = 0 /\ reload = "idle" /\ sched = Scheduled(Empty, cfg, 0) /\ cfg \in Configs
  BY DEF Init
<1>3. \A s \in Sources : sched[s] # None => sched[s].gen = 0
  BY <1>2, EmptyType, ScheduledGen DEF Empty
<1>4. RunsApart
  BY <1>2, <1>3 DEF RunsApart
<1>5. EditionInv
  BY <1>2 DEF Init, EditionInv, NoneNewer, Items, Empty
<1> QED BY <1>1, <1>4, <1>5 DEF BackInv

(* As long as the process runs and the configuration was reloaded at most once, *)
(* the items of a source never go back to an older edition of the same feed,    *)
(* with any sources and URLs, however late answers come (fetchSource, Set).     *)
THEOREM NewsNeverBack == Spec => NeverBack
<1>1. BackInv /\ [Next]_vars => BackInv'
  BY TypeStep, RunsApartStep, EditionStep DEF BackInv
<1> DEFINE Forward ==
      \A s \in Sources :
        (starts' = starts /\ reloads' <= 1 /\ Kept(s).items # None /\ Kept(s)'.items # None)
          => (Kept(s).items.url = Kept(s)'.items.url => Kept(s).items.at <= Kept(s)'.items.at)
<1>2. BackInv /\ [Next]_vars => [Forward]_vars
  BY KeptItems, BackStep
<1> QED BY BackInit, <1>1, <1>2, PTL DEF Spec, NeverBack
=============================================================================
