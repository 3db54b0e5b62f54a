----------------------------- MODULE PanelFetch -----------------------------
(* The jobs behind the panels and the store they write to (panels.go          *)
(* stateStore).  A job asks its sites one request after the other, without a  *)
(* lock, and stores the whole panel in one call of ok, or an error in one     *)
(* call of fail; what a failed request means differs from job to job.         *)
(* Jobs share no state, so a behaviour is the life of one panel.  A reload    *)
(* that changes the signature of the job replaces it: a run of the old job    *)
(* goes on beside the runs of the new one.                                    *)
(* What a site serves is an edition number; the edition is its ETag too.      *)
EXTENDS Integers, FiniteSets

CONSTANTS
  Jobs,        \* the jobs to consider, described as below
  MaxEdits,    \* bound: editions published over all sites
  MaxFails,    \* bound: requests that fail
  MaxReloads   \* bound: reloads that replace the job

(* A job is described by the number of its requests ("n"), the sets of        *)
(* requests of which one must succeed ("needs"), whether it gives up at the   *)
(* first such set without success ("quits"), the requests whose failure the   *)
(* panel reports ("tells"), whether a failed request leaves the data of the   *)
(* run before in place ("keeps"), whether it sends validators ("cond"), and   *)
(* the requests that only fill in what the one before them has listed         *)
(* ("details"): they are not made when that one fails, and when they fail     *)
(* themselves nobody is told.                                                 *)
Shape(n, needs, quits, tells, keeps, cond) ==
  [n |-> n, needs |-> needs, quits |-> quits, tells |-> tells, keeps |-> keeps, cond |-> cond,
   details |-> {}]

AllOf(n)   == Shape(n, {{p} : p \in 1..n}, TRUE, {}, FALSE, FALSE)
FirstOf(n) == Shape(n, {{1}}, TRUE, {}, FALSE, FALSE)

FetchJob   == Shape(1, {{1}}, TRUE, {}, FALSE, TRUE)   \* one conditional request
Traffic    == FetchJob                          \* the road names are not part of the answer
TopPorts   == AllOf(1)                          \* today's list, or yesterday's when it is empty
URLhausNL  == AllOf(1)
ThreatFox  == AllOf(1)
Quakes     == AllOf(1)
Waste      == AllOf(1)
OnThisDay  == AllOf(1)
Politics   == AllOf(2)                          \* agenda, votes
Energy     == AllOf(2)                          \* electricity, gas
EPSS       == AllOf(2)                          \* this week's file, an older one
AirLKI     == AllOf(2)                          \* pages
F1         == AllOf(3)                          \* schedule, last race, standings
Radar      == AllOf(5)                          \* trend, vectors, origins, hijacks, leaks
Water      == FirstOf(4)                        \* sector codes; peak, barriers, outlook
Space      == FirstOf(2)                        \* scales; flares
EnergyMix  == FirstOf(2)                        \* mix; forecast
GasStorage == FirstOf(2)                        \* NL; EU
Markets    == Shape(3, {{1, 2}, {3}}, TRUE, {}, FALSE, FALSE)  \* two batches of indices, stocks
Economy    == Shape(4, {{1, 3}}, FALSE, {1, 3, 4}, FALSE, FALSE)
              \* inflation, euro area inflation, rates (and the like), mortgages (and the like)
Internet   == Shape(2, {{1, 2}}, FALSE, {1, 2}, FALSE, FALSE)  \* one request per network
Utilities  == [Shape(4, {{1, 3}}, FALSE, {1, 3}, TRUE, FALSE) EXCEPT !.details = {2, 4}]
              \* Liander's outages, its count of solved ones; Stedin's places, the outages of one

\* threatJobs, without the jobs that keep more than a panel (icons, bridges, satellite
\* image, phishing list, counts, push).  Jobs of the same shape are the same record.
AllJobs == {FetchJob, Traffic, TopPorts, URLhausNL, ThreatFox, Quakes, Waste, OnThisDay,
            Politics, Energy, EPSS, AirLKI, F1, Radar, Water, Space, EnergyMix, GasStorage,
            Markets, Economy, Internet, Utilities}

Parts(j) == 1 .. j.n

ASSUME PanelFetchAssumption ==
  /\ MaxEdits \in Nat /\ MaxFails \in Nat /\ MaxReloads \in Nat
  /\ \A j \in Jobs :
       /\ j \in [n : Nat \ {0}, needs : SUBSET SUBSET Parts(j), quits : BOOLEAN,
                 tells : SUBSET Parts(j), keeps : BOOLEAN, cond : BOOLEAN,
                 details : SUBSET Parts(j)]
       /\ \A p \in j.details : p - 1 \in Parts(j) \ j.details /\ {p} \notin j.needs
       /\ j.keeps => j.tells = Parts(j) \ j.details /\ ~j.quits
       /\ j.cond => j.n = 1 /\ ~j.keeps /\ {1} \in j.needs

VARIABLES
  job,      \* whose panel this is; never changes
  served,   \* what the site of each request serves now
  edits,    \* editions published so far
  fails,    \* failed requests so far
  gen,      \* the settings the current job was made with, counted
  panel,    \* the entry of the store
  runs      \* the runs under way, at most one of each job
vars == <<job, served, edits, fails, gen, panel, runs>>

Nothing == [at |-> 0, err |-> FALSE]
Data    == [Parts(job) -> [at : Nat, err : BOOLEAN]]
Panels  == [data : Data, some : BOOLEAN, gen : Nat, err : BOOLEAN, floor : [Parts(job) -> Nat]]
Runs    == [gen : Nat, prev : Panels, pos : 1 .. job.n + 1, got : [Parts(job) -> Nat],
            missed : SUBSET Parts(job), again : BOOLEAN, floor : [Parts(job) -> Nat]]

NoPanel == [data |-> [p \in Parts(job) |-> Nothing], some |-> FALSE, gen |-> 0, err |-> FALSE,
            floor |-> [p \in Parts(job) |-> 0]]

TypeOK ==
  /\ job \in Jobs
  /\ served \in [Parts(job) -> Nat \ {0}]
  /\ edits \in Nat /\ fails \in Nat /\ gen \in Nat
  /\ panel \in Panels
  /\ runs \in SUBSET Runs
  /\ \A r, q \in runs : r.gen = q.gen => r = q

Init ==
  /\ job \in Jobs
  /\ served = [p \in Parts(job) |-> 1]
  /\ edits = 0 /\ fails = 0 /\ gen = 0
  /\ panel = NoPanel
  /\ runs = {}

-----------------------------------------------------------------------------
Publish(p) ==
  /\ edits < MaxEdits
  /\ edits' = edits + 1
  /\ served' = [served EXCEPT ![p] = @ + 1]
  /\ UNCHANGED <<job, fails, gen, panel, runs>>

\* A reload with other settings: Scheduler.Set puts a new job in the place of the old.
Reload ==
  /\ gen < MaxReloads
  /\ gen' = gen + 1
  /\ UNCHANGED <<job, served, edits, fails, panel, runs>>

\* Mutant of Start: the loop does not look at jobState.running.
StartTwice ==
  /\ Cardinality(runs) < 2
  /\ runs' = runs \union {[gen |-> gen, prev |-> NoPanel, pos |-> 1,
                           got |-> [p \in Parts(job) |-> 0], missed |-> {},
                           again |-> FALSE, floor |-> served]}
  /\ UNCHANGED <<job, served, edits, fails, gen, panel>>

\* The scheduler starts the job.  fetchJob, runTraffic and runUtilities read the panel
\* first; no other job looks at it.
Start ==
  /\ \A r \in runs : r.gen # gen
  /\ runs' = runs \union {[gen |-> gen,
                           prev |-> IF job.cond \/ job.keeps THEN panel ELSE NoPanel,
                           pos |-> 1, got |-> [p \in Parts(job) |-> 0], missed |-> {},
                           again |-> FALSE, floor |-> served]}
  /\ UNCHANGED <<job, served, edits, fails, gen, panel>>

\* The request that a detail fills in; every other request stands for itself.
Lead(p) == IF p \in job.details THEN p - 1 ELSE p

\* The request that comes after one that failed.
After(p) == IF p + 1 \in job.details THEN p + 2 ELSE p + 1

Hopeless(r) == \E g \in job.needs : g \subseteq r.missed
Asking(r)   == r.pos <= job.n /\ ~(job.quits /\ Hopeless(r))

Becomes(r, q) == r \in runs /\ runs' = (runs \ {r}) \union {q}

\* The next request is answered: with the edition served, or with 304 by a site that
\* still serves the edition of the validator.
Answer(r) ==
  /\ Asking(r)
  /\ Becomes(r, [r EXCEPT !.pos = @ + 1, !.got[r.pos] = served[r.pos]])
  /\ UNCHANGED <<job, served, edits, fails, gen, panel>>

\* It fails: no answer, an error status, or a body that does not parse.  Its detail is
\* missed with it.
Fail(r) ==
  /\ Asking(r) /\ fails < MaxFails
  /\ fails' = fails + 1
  /\ Becomes(r, [r EXCEPT !.pos = After(r.pos), !.missed = @ \union (r.pos .. After(r.pos) - 1)])
  /\ UNCHANGED <<job, served, edits, gen, panel>>

NotModified(r) == job.cond /\ r.prev.some /\ r.got[1] = r.prev.data[1].at

\* Mutant of Shown: the data of the run before without the error.
ShownSilently(r, p) ==
  IF p \notin r.missed THEN [at |-> r.got[p], err |-> FALSE]
  ELSE IF job.keeps /\ Lead(p) \in r.missed THEN r.prev.data[p]
  ELSE [at |-> 0, err |-> p \in job.tells]

\* What a run puts on the panel for one request.
Shown(r, p) ==
  IF p \notin r.missed THEN [at |-> r.got[p], err |-> FALSE]
  ELSE IF job.keeps /\ Lead(p) \in r.missed THEN [at |-> r.prev.data[p].at, err |-> TRUE]
  ELSE [at |-> 0, err |-> p \in job.tells]

Done(r)  == r \in runs /\ ~Asking(r) /\ ~r.again
Ended(r) == runs' = runs \ {r}
Rest     == <<job, served, edits, fails, gen>>

\* Mutant of Ok: the error of an earlier run stays.
OkKeepsError(r, data, g) ==
  /\ panel' = [data |-> data, some |-> TRUE, gen |-> g, err |-> panel.err, floor |-> r.floor]
  /\ Ended(r) /\ UNCHANGED Rest

\* stateStore.ok: a panel without an error.
Ok(r, data, g) ==
  /\ panel' = [data |-> data, some |-> TRUE, gen |-> g, err |-> FALSE, floor |-> r.floor]
  /\ Ended(r) /\ UNCHANGED Rest

\* A 304 confirms what the panel held when the run began, under the settings of then.
StoreSame(r) ==
  /\ Done(r) /\ ~Hopeless(r) /\ NotModified(r)
  /\ Ok(r, r.prev.data, r.prev.gen)

StoreNew(r) ==
  /\ Done(r) /\ ~Hopeless(r) /\ ~NotModified(r)
  /\ Ok(r, [p \in Parts(job) |-> Shown(r, p)], r.gen)

\* Mutant of StoreError: the entry is replaced by one that holds the error only.
StoreErrorOnly(r) ==
  /\ Done(r) /\ Hopeless(r)
  /\ panel' = [NoPanel EXCEPT !.err = TRUE]
  /\ IF job.keeps /\ r.prev.some THEN Becomes(r, [r EXCEPT !.again = TRUE]) ELSE Ended(r)
  /\ UNCHANGED Rest

\* stateStore.fail adds the error and keeps the rest.  runUtilities goes on when it had
\* read a panel before, and shows the error of each operator instead.
StoreError(r) ==
  /\ Done(r) /\ Hopeless(r)
  /\ panel' = [panel EXCEPT !.err = TRUE]
  /\ IF job.keeps /\ r.prev.some THEN Becomes(r, [r EXCEPT !.again = TRUE]) ELSE Ended(r)
  /\ UNCHANGED Rest

StoreAnyway(r) ==
  /\ r \in runs /\ r.again
  /\ Ok(r, [p \in Parts(job) |-> Shown(r, p)], r.gen)

-----------------------------------------------------------------------------
Step(r) == Answer(r) \/ Fail(r) \/ StoreSame(r) \/ StoreNew(r) \/ StoreError(r) \/ StoreAnyway(r)

Next ==
  \/ \E p \in Parts(job) : Publish(p)
  \/ Reload
  \/ Start
  \/ \E r \in runs : Step(r)

Spec == Init /\ [][Next]_vars

\* The current job is started again and again, and the goroutine of every run goes on:
\* a request ends because the gate gives it a timeout.
FairSpec ==
  /\ Spec
  /\ WF_vars(Start)
  /\ \A g \in 0 .. MaxReloads : WF_vars(\E r \in runs : r.gen = g /\ Step(r))

-----------------------------------------------------------------------------
(* What a panel shows of a request without an error of its own is at least as  *)
(* new as what the site served when the run that set fetched_at began, also   *)
(* after a 304 and when runs of an old and a new job overlap (ok, fail,       *)
(* fetchJob, runUtilities).                                                   *)
NoSilentStale ==
  \A p \in Parts(job) :
    (panel.data[p].at # 0 /\ ~panel.data[p].err) => panel.data[p].at >= panel.floor[p]

(* While one job runs, no run takes away what the panel shows or puts an older *)
(* edition there, except for requests the job may do without: those the panel *)
(* then reports, or whose loss the job accepts (needs, tells).  An operator   *)
(* of runUtilities that cannot be reached keeps its last good data; when it is *)
(* reached, the outages of a place whose own request fails, and Liander's     *)
(* count, go without a word (fetchStedin, fetchLiander).                      *)
MayLack(p) == {p} \notin job.needs /\ (~job.keeps \/ p \in job.details)
NothingLost ==
  [][gen' = 0 => \A p \in Parts(job) :
       \/ panel.data[p].at <= panel'.data[p].at
       \/ MayLack(p) /\ (p \in job.tells => panel'.data[p].err)]_vars

(* When the sites and the settings stay as they are and requests stop failing, *)
(* the panel shows what the sites serve, with no error, and as the settings   *)
(* ask; only a conditional job may go on confirming data of older settings.   *)
EventuallyCurrent ==
  <>[](/\ \A p \in Parts(job) : panel.data[p] = [at |-> served[p], err |-> FALSE]
       /\ ~panel.err
       /\ job.cond \/ panel.gen = gen)
=============================================================================
