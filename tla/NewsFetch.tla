------------------------------ MODULE NewsFetch ------------------------------
(* The news sources: the scheduler that starts one fetch per source (feeds.go *)
(* Scheduler), the conditional fetch itself (fetchSource), the cache that     *)
(* keeps the items of every source (NewsCache), the configuration that names  *)
(* the sources (main.go applyConfig) and the warm-start snapshot.             *)
(* A fetch runs without any lock between the moment it reads the cached       *)
(* validators and the moment it stores its result; meanwhile a reload can     *)
(* drop the source, or give it another URL and a second fetch of its own.     *)
(* What a site publishes is the pair of its URL and a publication time; the   *)
(* pair also stands for the validators the site sends with it, an ETag that   *)
(* is its own and a Last-Modified date that may say something to another site. *)
EXTENDS Integers, FiniteSets

CONSTANTS
  Sources,      \* source ids a configuration may hold
  URLs,         \* feed URLs it may give them
  MaxEdits,     \* bound: how often a site publishes
  MaxReloads,   \* bound: how often the configuration changes
  MaxStarts,    \* bound: how often the process is started
  None

ASSUME NewsFetchAssumption ==
  /\ MaxEdits \in Nat /\ MaxReloads \in Nat /\ MaxStarts \in Nat \ {0}
  /\ None \notin URLs
  /\ None \notin [url : URLs, gen : Nat]

VARIABLES
  served,   \* what each URL serves now: the time it was published
  clock,    \* publication times handed out
  cfg,      \* the active configuration: a URL for every enabled source
  reloads,  \* configuration changes so far
  reload,   \* the step of applyConfig the reloading goroutine is at
  sched,    \* the scheduler's job of each source: its URL and its generation
  runs,     \* fetches under way
  news,     \* the cache: what is kept of each source
  image,    \* the copy saveSnapshot took under the read lock, until it is on disk
  disk,     \* the snapshot file
  starts    \* starts of the process

vars == <<served, clock, cfg, reloads, reload, sched, runs, news, image, disk, starts>>

Configs  == [Sources -> URLs \union {None}]
Content  == [url : URLs, at : Nat]
Entry    == [items : Content \union {None}, etag : Content \union {None}, ok : BOOLEAN]
NoEntry  == [items |-> None, etag |-> None, ok |-> FALSE]
Caches   == [Sources -> Entry \union {None}]
Jobs     == [url : URLs, gen : Nat]
Runs     == [src : Sources, url : URLs, gen : Nat, etag : Content \union {None},
             st : {"asked", "new", "same", "failed"}, body : Content \union {None}]

TypeOK ==
  /\ served \in [URLs -> Nat] /\ clock \in Nat
  /\ cfg \in Configs /\ reloads \in Nat /\ reload \in {"idle", "prune", "set"}
  /\ sched \in [Sources -> Jobs \union {None}]
  /\ runs \in SUBSET Runs
  /\ \A r, q \in runs : r.src = q.src /\ r.gen = q.gen => r = q
  /\ news \in Caches /\ image \in Caches \union {None} /\ disk \in Caches \union {None}
  /\ starts \in Nat

Empty == [s \in Sources |-> None]

\* The generation of a job tells its jobState apart from later ones of the source.
Scheduled(old, c, gen) ==
  [s \in Sources |->
     IF c[s] = None THEN None
     ELSE IF old[s] # None /\ old[s].url = c[s] THEN old[s]
     ELSE [url |-> c[s], gen |-> gen]]

Init ==
  /\ served = [u \in URLs |-> 0] /\ clock = 0
  /\ cfg \in Configs /\ reloads = 0 /\ reload = "idle"
  /\ sched = Scheduled(Empty, cfg, 0)
  /\ runs = {} /\ news = Empty /\ image = None /\ disk = None /\ starts = 1

-----------------------------------------------------------------------------
\* A site publishes.
Publish(u) ==
  /\ clock < MaxEdits
  /\ clock' = clock + 1
  /\ served' = [served EXCEPT ![u] = clock + 1]
  /\ UNCHANGED <<cfg, reloads, reload, sched, runs, news, image, disk, starts>>

\* Mutant of Tick: the loop does not look at jobState.running.
TickTwice(s) ==
  /\ sched[s] # None
  /\ Cardinality({r \in runs : r.src = s}) < 2
  /\ runs' = runs \union {[src |-> s, url |-> sched[s].url, gen |-> sched[s].gen,
                           etag |-> IF news[s] = None THEN None ELSE news[s].etag,
                           st |-> "asked", body |-> None]}
  /\ UNCHANGED <<served, clock, cfg, reloads, reload, sched, news, image, disk, starts>>

\* The loop starts a job that is due and not running; its fetch reads the cached
\* validator.  A job that a reload replaced keeps running beside its successor.
Tick(s) ==
  /\ sched[s] # None
  /\ \A r \in runs : r.src = s => r.gen # sched[s].gen
  /\ runs' = runs \union {[src |-> s, url |-> sched[s].url, gen |-> sched[s].gen,
                           etag |-> IF news[s] = None THEN None ELSE news[s].etag,
                           st |-> "asked", body |-> None]}
  /\ UNCHANGED <<served, clock, cfg, reloads, reload, sched, news, image, disk, starts>>

Now(u) == [url |-> u, at |-> served[u]]

Answered(r, st, body) ==
  /\ r \in runs /\ r.st = "asked"
  /\ runs' = (runs \ {r}) \union {[r EXCEPT !.st = st, !.body = body]}
  /\ UNCHANGED <<served, clock, cfg, reloads, reload, sched, news, image, disk, starts>>

\* A validator that the site of a URL may answer with 304: the current one; or, after
\* the source was given this URL, one of its old feed, whose date is not before that of
\* what the site serves, if the site goes by dates.
Confirms(v, u) == v = Now(u) \/ (v # None /\ v.url # u /\ v.at >= served[u])

\* The site answers 304 or with its feed.
Respond(r) ==
  \/ Confirms(r.etag, r.url) /\ Answered(r, "same", None)
  \/ r.etag # Now(r.url) /\ Answered(r, "new", Now(r.url))

\* A timeout, an error status, or a body that does not parse.
Break(r) == Answered(r, "failed", None)

Stored(r, entry) ==
  /\ r \in runs
  /\ runs' = runs \ {r}
  /\ news' = [news EXCEPT ![r.src] = entry]
  /\ UNCHANGED <<served, clock, cfg, reloads, reload, sched, image, disk, starts>>

\* NewsCache.update makes the entry when there is none, whoever asks.
Kept(s) == IF news[s] = None THEN NoEntry ELSE news[s]

StoreNew(r) ==
  /\ r.st = "new"
  /\ Stored(r, [items |-> r.body, etag |-> r.body, ok |-> TRUE])

\* Mutant of StoreSame: a 304 puts the validator of the request back.
StoreSameEtag(r) ==
  /\ r.st = "same"
  /\ Stored(r, [Kept(r.src) EXCEPT !.ok = TRUE, !.etag = r.etag])

\* A 304 keeps the items and the validator the cache has by now.
StoreSame(r) ==
  /\ r.st = "same"
  /\ Stored(r, [Kept(r.src) EXCEPT !.ok = TRUE])

StoreError(r) ==
  /\ r.st = "failed"
  /\ Stored(r, [Kept(r.src) EXCEPT !.ok = FALSE])

-----------------------------------------------------------------------------
\* applyConfig in the goroutine of watchConfig: the configuration, the cache, the jobs.
Install(c) ==
  /\ reload = "idle" /\ reloads < MaxReloads /\ c # cfg
  /\ cfg' = c /\ reloads' = reloads + 1 /\ reload' = "prune"
  /\ UNCHANGED <<served, clock, sched, runs, news, image, disk, starts>>

Prune ==
  /\ reload = "prune"
  /\ news' = [s \in Sources |-> IF cfg[s] = None THEN None ELSE news[s]]
  /\ reload' = "set"
  /\ UNCHANGED <<served, clock, cfg, reloads, sched, runs, image, disk, starts>>

\* Mutant of SetJobs: a source that has a job keeps it, whatever its URL is now.
SetJobsById ==
  /\ reload = "set"
  /\ sched' = [s \in Sources |-> IF cfg[s] # None /\ sched[s] # None THEN sched[s]
                                 ELSE Scheduled(Empty, cfg, reloads)[s]]
  /\ reload' = "idle"
  /\ UNCHANGED <<served, clock, cfg, reloads, runs, news, image, disk, starts>>

\* Scheduler.Set: a job whose signature (URL and type) did not change stays.
SetJobs ==
  /\ reload = "set"
  /\ sched' = Scheduled(sched, cfg, reloads)
  /\ reload' = "idle"
  /\ UNCHANGED <<served, clock, cfg, reloads, runs, news, image, disk, starts>>

-----------------------------------------------------------------------------
\* saveSnapshot copies the sources that have items under the read lock, and replaces
\* the file in one rename of a temporary file of its own.
SnapshotTake ==
  /\ image = None
  /\ image' = [s \in Sources |-> IF Kept(s).items = None THEN None ELSE news[s]]
  /\ UNCHANGED <<served, clock, cfg, reloads, reload, sched, runs, news, disk, starts>>

SnapshotWrite ==
  /\ image # None
  /\ disk' = image /\ image' = None
  /\ UNCHANGED <<served, clock, cfg, reloads, reload, sched, runs, news, starts>>

\* The process ends at any step and starts again, with the configuration file as it is
\* by then: loadSnapshot restores the sources it still names, then applyConfig.
Restart(c) ==
  /\ starts < MaxStarts
  /\ reloads' = IF c = cfg THEN reloads ELSE reloads + 1
  /\ reloads' <= MaxReloads
  /\ starts' = starts + 1 /\ cfg' = c /\ reload' = "idle"
  /\ runs' = {} /\ image' = None
  /\ sched' = Scheduled(Empty, c, reloads')
  /\ news' = [s \in Sources |-> IF disk = None \/ c[s] = None THEN None
                                ELSE IF disk[s] = None THEN None
                                ELSE [disk[s] EXCEPT !.ok = TRUE]]
  /\ UNCHANGED <<served, clock, disk>>

-----------------------------------------------------------------------------
Fetch(s) ==
  \/ Tick(s)
  \/ \E r \in runs : r.src = s /\ (Respond(r) \/ Break(r) \/ StoreNew(r) \/ StoreSame(r) \/ StoreError(r))

Next ==
  \/ \E u \in URLs : Publish(u)
  \/ \E s \in Sources : Fetch(s)
  \/ \E c \in Configs : Install(c) \/ Restart(c)
  \/ Prune \/ SetJobs
  \/ SnapshotTake \/ SnapshotWrite

Spec == Init /\ [][Next]_vars

\* Due jobs start, a fetch ends (its timeout sees to that) and stores its result, a
\* reload goes on; a site that is asked again and again does not fail every time.
\* The snapshot is owed nothing.
FairSpec ==
  /\ Spec
  /\ WF_vars(Prune) /\ WF_vars(SetJobs)
  /\ \A s \in Sources :
       /\ WF_vars(Tick(s))
       /\ WF_vars(\E r \in runs : r.src = s /\ (StoreNew(r) \/ StoreSame(r) \/ StoreError(r)))
       /\ SF_vars(\E r \in runs : r.src = s /\ sched[s] # None /\ r.gen = sched[s].gen /\ Respond(r))
       /\ WF_vars(\E r \in runs : r.src = s /\ (Respond(r) \/ Break(r)))

-----------------------------------------------------------------------------
(* The validator kept of a source belongs to the items kept of it: otherwise a *)
(* site that knows the validator answers 304 and the page shows other items    *)
(* from then on.  Two fetches of one source may end in either order, a reload  *)
(* or a restart may come in between (fetchSource, prune, loadSnapshot).        *)
Coherent ==
  \A s \in Sources : news[s] # None => news[s].etag = news[s].items

(* The items of a source never go back to an older edition of the same feed,   *)
(* as long as the process runs (Scheduler: one run of a job at a time).  Only *)
(* a change of URL that is taken back leaves two runs of one feed side by     *)
(* side; hence at most one reload.                                            *)
NeverBack ==
  [][\A s \in Sources :
       (starts' = starts /\ reloads' <= 1 /\ Kept(s).items # None /\ Kept(s)'.items # None)
         => (Kept(s).items.url = Kept(s)'.items.url => Kept(s).items.at <= Kept(s)'.items.at)]_vars

(* The scheduler fetches, outside a reload, exactly the sources and URLs of the *)
(* active configuration.                                                      *)
JobsMatchConfig ==
  reload = "idle" =>
    \A s \in Sources : cfg[s] = (IF sched[s] = None THEN None ELSE sched[s].url)

(* When the sites and the configuration stay as they are, every source shows   *)
(* what its URL serves, whatever reloads, failures, late answers of replaced  *)
(* jobs and restarts came before; or, after a change of its URL, it stays at   *)
(* the items of the old feed, as long as what the new one serves is not of a   *)
(* later date: fetchSource sends the old feed's validators to the new URL.     *)
Fresh(s)  == Kept(s).items = Now(cfg[s]) /\ Kept(s).etag = Now(cfg[s])
OldURL(s) == Kept(s).items # None /\ Kept(s).items.url # cfg[s] /\ Kept(s).items.at >= served[cfg[s]]

EventuallyFresh ==
  \A s \in Sources : <>[](cfg[s] = None \/ Fresh(s) \/ OldURL(s))
=============================================================================
