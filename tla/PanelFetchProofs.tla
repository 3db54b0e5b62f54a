--------------------------- MODULE PanelFetchProofs --------------------------
(* Proofs about the panels, for any jobs of the shapes PanelFetch describes   *)
(* and any number of editions, failures and reloads; about the list of a news *)
(* source, for any answers of its site; and about the tables of sources,      *)
(* panels and settings, for any configuration and any reloads.                *)
EXTENDS MCPanelFetch, OrderLemmas, Sequences

\* Every answer a run has in hand is at least as new as what was served when it began,
\* and that is what a store puts on the panel.
FreshInv ==
  /\ \A r \in runs : \A p \in Parts(job) :
       /\ r.floor[p] <= served[p]
       /\ r.got[p] = 0 \/ r.got[p] >= r.floor[p]
  /\ NoSilentStale

LEMMA JobShape ==
  ASSUME TypeOK
  PROVE  /\ job \in [n : Nat \ {0}, needs : SUBSET SUBSET Parts(job), quits : BOOLEAN,
                     tells : SUBSET Parts(job), keeps : BOOLEAN, cond : BOOLEAN,
                     details : SUBSET Parts(job)]
         /\ job.n \in Nat \ {0}
         /\ job.cond => job.n = 1 /\ {1} \in job.needs
         /\ job.keeps => ~job.quits
         /\ job.details \subseteq Parts(job)
BY PanelFetchAssumption DEF TypeOK

\* A request that fails takes its detail with it, and no request that does not exist.
LEMMA AfterFacts ==
  ASSUME TypeOK, NEW p \in Parts(job)
  PROVE  /\ After(p) \in 1 .. job.n + 1 /\ After(p) > p
         /\ p .. After(p) - 1 \subseteq Parts(job)
<1>1. p \in 1 .. job.n /\ job.n \in Nat
  BY JobShape DEF Parts
<1>2. p + 1 \in job.details => p + 1 \in 1 .. job.n
  BY JobShape DEF Parts
<1>3. After(p) \in {p + 1, p + 2} /\ After(p) \in 1 .. job.n + 1
  BY <1>1, <1>2 DEF After
<1> QED
  BY <1>1, <1>3 DEF Parts

\* A job that stays the same leaves the types as they are.
LEMMA SameTypes ==
  ASSUME job' = job
  PROVE  Parts(job)' = Parts(job) /\ Panels' = Panels /\ Runs' = Runs
BY DEF Parts, Data, Panels, Runs

LEMMA NoPanelType ==
  ASSUME TypeOK
  PROVE  NoPanel \in Panels
BY DEF NoPanel, Panels, Data, Nothing

\* Replacing a run by one of the same job keeps the runs in order.
LEMMA BecomesType ==
  ASSUME TypeOK, NEW r \in runs, NEW q \in Runs, q.gen = r.gen, Becomes(r, q), job' = job
  PROVE  /\ (runs \in SUBSET Runs)'
         /\ (\A a, b \in runs : a.gen = b.gen => a = b)'
<1>1. runs' = (runs \ {r}) \union {q} /\ r \in runs
  BY DEF Becomes
<1>2. Runs' = Runs
  BY DEF Runs, Panels, Data, Parts
<1>3. runs' \in SUBSET Runs
  BY <1>1 DEF TypeOK
<1>4. ASSUME NEW a \in runs', NEW b \in runs', a.gen = b.gen PROVE a = b
  <2>1. \A c, d \in runs : c.gen = d.gen => c = d
    BY DEF TypeOK
  <2> QED
    BY <1>1, <1>4, <2>1
<1> QED
  BY <1>2, <1>3, <1>4

LEMMA ShownType ==
  ASSUME TypeOK, NEW r \in Runs, NEW p \in Parts(job)
  PROVE  Shown(r, p) \in [at : Nat, err : BOOLEAN]
BY JobShape DEF Shown, Runs, Panels, Data

LEMMA OkType ==
  ASSUME TypeOK, NEW r \in runs, NEW data \in Data, NEW g \in Nat, Ok(r, data, g)
  PROVE  TypeOK'
<1>1. r \in Runs
  BY DEF TypeOK
<1>2. r.floor \in [Parts(job) -> Nat]
  BY <1>1 DEF Runs
<1>3. /\ job' = job /\ served' = served /\ edits' = edits /\ fails' = fails /\ gen' = gen
      /\ runs' = runs \ {r}
      /\ panel' = [data |-> data, some |-> TRUE, gen |-> g, err |-> FALSE, floor |-> r.floor]
  BY DEF Ok, Rest, Ended
<1>4. panel' \in Panels
  BY <1>2, <1>3 DEF Panels
<1> QED
  BY <1>3, <1>4 DEF TypeOK, Runs, Panels, Data, Parts

LEMMA TypeStep ==
  ASSUME TypeOK, [Next]_vars
  PROVE  TypeOK'
<1> USE JobShape
<1>1. ASSUME NEW p \in Parts(job), Publish(p) PROVE TypeOK'
  <2>1. served' \in [Parts(job) -> Nat \ {0}] /\ edits' \in Nat
    BY <1>1 DEF Publish, TypeOK
  <2>2. UNCHANGED <<job, fails, gen, panel, runs>>
    BY <1>1 DEF Publish
  <2> QED
    BY <2>1, <2>2, SameTypes DEF TypeOK
<1>2. CASE Reload
  BY <1>2, SMTT(30) DEF Reload, TypeOK, Runs, Panels, Data, Parts
<1>3. CASE Start
  <2> DEFINE q == [gen |-> gen, prev |-> IF job.cond \/ job.keeps THEN panel ELSE NoPanel,
                   pos |-> 1, got |-> [p \in Parts(job) |-> 0], missed |-> {},
                   again |-> FALSE, floor |-> served]
  <2>1. q \in Runs
    <3>1. q.prev \in Panels
      BY NoPanelType DEF TypeOK
    <3>2. 1 \in 1 .. job.n + 1
      OBVIOUS
    <3> QED
      BY <3>1, <3>2 DEF Runs, TypeOK
  <2>2. runs' = runs \union {q} /\ job' = job /\ gen' = gen /\ served' = served
        /\ edits' = edits /\ fails' = fails /\ panel' = panel
    BY <1>3 DEF Start
  <2>3. \A r \in runs : r.gen # q.gen
    BY <1>3 DEF Start
  <2>4. runs' \in SUBSET Runs
    BY <2>1, <2>2 DEF TypeOK
  <2>5. ASSUME NEW a \in runs', NEW b \in runs', a.gen = b.gen PROVE a = b
    <3>1. \A c, d \in runs : c.gen = d.gen => c = d
      BY DEF TypeOK
    <3> HIDE DEF q
    <3> QED
      BY <2>2, <2>3, <2>5, <3>1
  <2>6. Runs' = Runs /\ Panels' = Panels /\ Parts(job)' = Parts(job)
    BY <2>2, SameTypes
  <2> QED
    BY <2>2, <2>4, <2>5, <2>6 DEF TypeOK
<1>4. ASSUME NEW r \in runs, Step(r) PROVE TypeOK'
  <2>0. r \in Runs
    BY DEF TypeOK
  <2>1. CASE Answer(r)
    <3> DEFINE q == [r EXCEPT !.pos = @ + 1, !.got[r.pos] = served[r.pos]]
    <3>1. r.pos \in Parts(job) /\ Becomes(r, q) /\ UNCHANGED <<job, served, edits, fails, gen, panel>>
      BY <2>0, <2>1 DEF Answer, Asking, Runs, Parts
    <3>2. served[r.pos] \in Nat
      BY <3>1 DEF TypeOK
    <3>3. r.pos + 1 \in 1 .. job.n + 1
      BY <3>1 DEF Parts
    <3>4. q \in Runs /\ q.gen = r.gen
      BY <2>0, <3>1, <3>2, <3>3 DEF Runs
    <3> HIDE DEF q
    <3> QED
      BY <3>1, <3>4, BecomesType DEF TypeOK, Panels, Data, Parts
  <2>2. CASE Fail(r)
    <3> DEFINE lost == r.pos .. After(r.pos) - 1
               q == [r EXCEPT !.pos = After(r.pos), !.missed = @ \union lost]
    <3>1. r.pos \in Parts(job) /\ Becomes(r, q) /\ UNCHANGED <<job, served, edits, gen, panel>>
          /\ fails' = fails + 1
      BY <2>0, <2>2 DEF Fail, Asking, Runs, Parts
    <3>2. r.missed \union lost \in SUBSET Parts(job)
      BY <2>0, <3>1, AfterFacts DEF Runs
    <3>3. After(r.pos) \in 1 .. job.n + 1
      BY <3>1, AfterFacts
    <3>4. q \in Runs /\ q.gen = r.gen
      BY <2>0, <3>1, <3>2, <3>3 DEF Runs
    <3> HIDE DEF q
    <3> QED
      BY <3>1, <3>4, BecomesType DEF TypeOK, Panels, Data, Parts
  <2>3. CASE StoreSame(r)
    <3>1. r.prev \in Panels
      BY <2>0 DEF Runs
    <3>2. r.prev.data \in Data /\ r.prev.gen \in Nat
      BY <3>1 DEF Panels
    <3>3. Ok(r, r.prev.data, r.prev.gen)
      BY <2>3 DEF StoreSame
    <3> QED
      BY <3>2, <3>3, OkType
  <2>4. CASE StoreNew(r) \/ StoreAnyway(r)
    <3> DEFINE data == [p \in Parts(job) |-> Shown(r, p)]
    <3>1. data \in Data
      BY <2>0, ShownType DEF Data
    <3>2. Ok(r, data, r.gen)
      BY <2>4 DEF StoreNew, StoreAnyway
    <3>3. r.gen \in Nat
      BY <2>0 DEF Runs
    <3> HIDE DEF data
    <3> QED
      BY <3>1, <3>2, <3>3, OkType
  <2>5. CASE StoreError(r)
    <3> DEFINE q == [r EXCEPT !.again = TRUE]
    <3>1. q \in Runs /\ q.gen = r.gen
      BY <2>0 DEF Runs
    <3>2. UNCHANGED Rest /\ panel' = [panel EXCEPT !.err = TRUE]
      BY <2>5 DEF StoreError
    <3>3. panel' \in Panels
      BY <3>2 DEF TypeOK, Panels
    <3>4. /\ (runs \in SUBSET Runs)'
          /\ (\A a, b \in runs : a.gen = b.gen => a = b)'
      <4>1. CASE Becomes(r, q)
        BY <3>1, <3>2, <4>1, BecomesType DEF Rest
      <4>2. CASE Ended(r)
        BY <3>2, <4>2 DEF Rest, Ended, TypeOK, Runs, Panels, Data, Parts
      <4> QED
        BY <2>5, <4>1, <4>2 DEF StoreError
    <3> QED
      BY <3>2, <3>3, <3>4 DEF Rest, TypeOK, Panels, Data, Parts
  <2> QED
    BY <1>4, <2>1, <2>2, <2>3, <2>4, <2>5 DEF Step
<1>5. CASE UNCHANGED vars
  BY <1>5 DEF vars, TypeOK, Runs, Panels, Data, Parts
<1> QED
  BY <1>1, <1>2, <1>3, <1>4, <1>5 DEF Next

(* The types of TypeOK, and that every job has at most one run under way.      *)
THEOREM TypeCorrect == Spec => []TypeOK
<1>1. Init => TypeOK
  <2> SUFFICES ASSUME Init PROVE TypeOK
    OBVIOUS
  <2>1. /\ job \in Jobs /\ served = [p \in Parts(job) |-> 1]
        /\ edits = 0 /\ fails = 0 /\ gen = 0 /\ panel = NoPanel /\ runs = {}
    BY DEF Init
  <2>2. NoPanel \in Panels
    BY DEF NoPanel, Panels, Data, Nothing
  <2> QED
    BY <2>1, <2>2 DEF TypeOK
<1> QED
  BY <1>1, TypeStep, PTL DEF Spec

-----------------------------------------------------------------------------
LEMMA FreshStep ==
  ASSUME TypeOK, FreshInv, [Next]_vars
  PROVE  FreshInv'
<1> USE JobShape
<1>1. ASSUME NEW p \in Parts(job), Publish(p) PROVE FreshInv'
  <2>1. /\ job' = job /\ runs' = runs /\ panel' = panel
        /\ \A q \in Parts(job) : served[q] \in Nat /\ served'[q] \in Nat /\ served[q] <= served'[q]
    BY <1>1 DEF Publish, TypeOK
  <2>2. \A r \in runs : \A q \in Parts(job) : r.floor[q] \in Nat
    BY DEF TypeOK, Runs
  <2>3. ASSUME NEW r \in runs, NEW q \in Parts(job) PROVE r.floor[q] <= served'[q]
    BY <2>1, <2>2, <2>3 DEF FreshInv
  <2>4. Parts(job)' = Parts(job)
    BY <2>1, SameTypes
  <2>5. ASSUME NEW r \in runs, NEW q \in Parts(job) PROVE r.got[q] = 0 \/ r.got[q] >= r.floor[q]
    BY DEF FreshInv
  <2>6. NoSilentStale'
    BY <2>1, <2>4 DEF FreshInv, NoSilentStale
  <2>7. \A r \in runs' : \A q \in Parts(job)' :
          r.floor[q] <= served'[q] /\ (r.got[q] = 0 \/ r.got[q] >= r.floor[q])
    BY <2>1, <2>3, <2>4, <2>5
  <2> QED
    BY <2>6, <2>7, Zenon DEF FreshInv
<1>2. CASE Reload
  BY <1>2 DEF Reload, FreshInv, NoSilentStale, Parts
<1>3. CASE Start
  <2> DEFINE q == [gen |-> gen, prev |-> IF job.cond \/ job.keeps THEN panel ELSE NoPanel,
                   pos |-> 1, got |-> [p \in Parts(job) |-> 0], missed |-> {},
                   again |-> FALSE, floor |-> served]
  <2>1. runs' = runs \union {q} /\ q.got = [p \in Parts(job) |-> 0] /\ q.floor = served
    BY <1>3 DEF Start
  <2>2. job' = job /\ served' = served /\ panel' = panel
    BY <1>3 DEF Start
  <2>3. \A p \in Parts(job) : served[p] \in Nat
    BY DEF TypeOK
  <2> HIDE DEF q
  <2>4. \A p \in Parts(job) : q.floor[p] <= served[p] /\ q.got[p] = 0
    BY <2>1, <2>3
  <2> QED
    BY <2>1, <2>2, <2>4 DEF FreshInv, NoSilentStale, Parts
<1>4. ASSUME NEW r \in runs, Step(r) PROVE FreshInv'
  <2>0. r \in Runs
    BY DEF TypeOK
  <2>a. ASSUME NEW q, Becomes(r, q), UNCHANGED <<job, served>>, q.floor = r.floor,
               panel'.data = panel.data, panel'.floor = panel.floor,
               \A p \in Parts(job) : q.got[p] = r.got[p] \/ q.got[p] = served[p]
        PROVE  FreshInv'
    <3>1. \A p \in Parts(job) : q.floor[p] <= served[p] /\ (q.got[p] = 0 \/ q.got[p] >= q.floor[p])
      <4>1. \A p \in Parts(job) : r.floor[p] \in Nat /\ served[p] \in Nat
        BY <2>0 DEF Runs, TypeOK
      <4> QED
        BY <2>a, <4>1 DEF FreshInv
    <3> QED
      BY <2>a, <3>1 DEF FreshInv, NoSilentStale, Becomes, Parts
  <2>b. ASSUME NEW data, NEW g, Ok(r, data, g),
               \A p \in Parts(job) : data[p].at # 0 /\ ~data[p].err => data[p].at >= r.floor[p]
        PROVE  FreshInv'
    BY <2>b DEF FreshInv, NoSilentStale, Ok, Ended, Rest, Parts
  <2>1. CASE Answer(r)
    <3> DEFINE q == [r EXCEPT !.pos = @ + 1, !.got[r.pos] = served[r.pos]]
    <3>1. Becomes(r, q) /\ UNCHANGED <<job, served, panel>>
      BY <2>1 DEF Answer
    <3>2. q.floor = r.floor /\ q.got = [r.got EXCEPT ![r.pos] = served[r.pos]]
      BY <2>0 DEF Runs
    <3>3. \A p \in Parts(job) : q.got[p] = r.got[p] \/ q.got[p] = served[p]
      BY <2>0, <3>2 DEF Runs
    <3> HIDE DEF q
    <3> QED
      BY <2>a, <3>1, <3>2, <3>3
  <2>2. CASE Fail(r)
    <3> DEFINE q == [r EXCEPT !.pos = After(r.pos), !.missed = @ \union (r.pos .. After(r.pos) - 1)]
    <3>1. Becomes(r, q) /\ UNCHANGED <<job, served, panel>>
      BY <2>2 DEF Fail
    <3>2. q.floor = r.floor /\ q.got = r.got
      BY <2>0 DEF Runs
    <3> HIDE DEF q
    <3> QED
      BY <2>a, <3>1, <3>2
  <2>3. CASE StoreSame(r)
    <3>1. Ok(r, r.prev.data, r.prev.gen) /\ r.got[1] = r.prev.data[1].at /\ job.cond
      BY <2>3 DEF StoreSame, NotModified
    <3>2. Parts(job) = {1}
      BY <3>1 DEF Parts
    <3>3. r.got[1] = 0 \/ r.got[1] >= r.floor[1]
      BY <3>2 DEF FreshInv
    <3> QED
      BY <2>b, <3>1, <3>2, <3>3
  <2>4. CASE StoreNew(r) \/ StoreAnyway(r)
    <3> DEFINE data == [p \in Parts(job) |-> Shown(r, p)]
    <3>1. Ok(r, data, r.gen)
      BY <2>4 DEF StoreNew, StoreAnyway
    <3>2. ASSUME NEW p \in Parts(job), data[p].at # 0, ~data[p].err
          PROVE  data[p].at >= r.floor[p]
      <4>1. data[p] = [at |-> r.got[p], err |-> FALSE]
        BY <3>2 DEF Shown
      <4> QED
        BY <3>2, <4>1 DEF FreshInv
    <3> HIDE DEF data
    <3> QED
      BY <2>b, <3>1, <3>2
  <2>5. CASE StoreError(r)
    <3>1. /\ UNCHANGED <<job, served>> /\ panel'.data = panel.data /\ panel'.floor = panel.floor
      BY <2>5 DEF StoreError, Rest, TypeOK, Panels
    <3>2. CASE Ended(r)
      BY <3>1, <3>2 DEF FreshInv, NoSilentStale, Ended, Parts
    <3>3. CASE Becomes(r, [r EXCEPT !.again = TRUE])
      <4> DEFINE q == [r EXCEPT !.again = TRUE]
      <4>1. q.floor = r.floor /\ q.got = r.got
        BY <2>0 DEF Runs
      <4> HIDE DEF q
      <4>2. Becomes(r, q)
        BY <3>3 DEF q
      <4> QED
        BY <2>a, <3>1, <4>1, <4>2
    <3> QED
      BY <2>5, <3>2, <3>3 DEF StoreError
  <2> QED
    BY <1>4, <2>1, <2>2, <2>3, <2>4, <2>5 DEF Step
<1>5. CASE UNCHANGED vars
  BY <1>5 DEF vars, FreshInv, NoSilentStale, Parts
<1> QED
  BY <1>1, <1>2, <1>3, <1>4, <1>5 DEF Next

(* What a panel shows of a request without an error is as new as the run that  *)
(* set fetched_at (ok, fail, fetchJob, runUtilities), for any job, however    *)
(* many runs of replaced jobs overlap.                                        *)
THEOREM ShownIsFresh == Spec => []NoSilentStale
<1>1. Init => FreshInv
  BY DEF Init, FreshInv, NoSilentStale, NoPanel, Nothing
<1>2. FreshInv => NoSilentStale
  BY DEF FreshInv
<1> QED
  BY <1>1, <1>2, FreshStep, TypeCorrect, PTL DEF Spec

-----------------------------------------------------------------------------
\* Nothing a run has in hand, has read, or has put on the panel is newer than what is
\* served; before the first reload the panel is what the one run found when it began.
Known(r) ==
  \A p \in Parts(job) :
    /\ r.floor[p] <= served[p] /\ r.got[p] <= served[p] /\ r.prev.data[p].at <= served[p]
    /\ p < r.pos => p \in r.missed \/ r.got[p] >= r.floor[p]
Undisturbed(r) ==
  /\ \A p \in Parts(job) : panel.data[p].at <= r.floor[p]
  /\ job.cond \/ job.keeps => r.prev.data = panel.data
OrderInv ==
  /\ \A r \in runs : r.gen <= gen /\ Known(r) /\ (r.again => job.keeps /\ r.pos > job.n)
  /\ \A p \in Parts(job) : panel.data[p].at <= served[p]
  /\ gen = 0 => \A r \in runs : Undisturbed(r)

\* The numbers in the state are numbers.
LEMMA Numbers ==
  ASSUME TypeOK
  PROVE  /\ \A p \in Parts(job) : served[p] \in Nat /\ panel.data[p].at \in Nat /\ p \in Nat
         /\ \A r \in runs : /\ r \in Runs /\ r.gen \in Nat /\ r.pos \in Nat
                            /\ \A p \in Parts(job) : r.floor[p] \in Nat /\ r.got[p] \in Nat
                                                     /\ r.prev.data[p].at \in Nat
         /\ gen \in Nat /\ job.n \in Nat
<1>1. job.n \in Nat /\ \A p \in Parts(job) : p \in Nat
  BY JobShape DEF Parts
<1>2. \A d \in Data : \A p \in Parts(job) : d[p].at \in Nat
  BY DEF Data
<1>3. panel.data \in Data /\ gen \in Nat /\ \A p \in Parts(job) : served[p] \in Nat
  BY DEF TypeOK, Panels
<1>4. ASSUME NEW r \in runs
      PROVE  /\ r \in Runs /\ r.gen \in Nat /\ r.pos \in Nat /\ r.prev.data \in Data
             /\ \A p \in Parts(job) : r.floor[p] \in Nat /\ r.got[p] \in Nat
  <2>1. r \in Runs
    BY DEF TypeOK
  <2>2. r.prev \in Panels /\ r.pos \in 1 .. job.n + 1 /\ r.gen \in Nat
    BY <2>1 DEF Runs
  <2>3. r.got \in [Parts(job) -> Nat] /\ r.floor \in [Parts(job) -> Nat]
    BY <2>1 DEF Runs
  <2> QED
    BY <1>1, <2>1, <2>2, <2>3 DEF Panels
<1> QED
  BY <1>1, <1>2, <1>3, <1>4

\* Before the first reload there is at most one run.
LEMMA OneRun ==
  ASSUME TypeOK, OrderInv, gen = 0, NEW r \in runs
  PROVE  runs = {r}
<1>1. \A q \in runs : q.gen = 0
  BY Numbers DEF OrderInv
<1> QED
  BY <1>1 DEF TypeOK

\* What a store that is not a 304 puts on the panel.
LEMMA StoredPart ==
  ASSUME TypeOK, OrderInv, NEW r \in runs, StoreNew(r) \/ StoreAnyway(r), NEW p \in Parts(job)
  PROVE  /\ Shown(r, p).at <= served[p]
         /\ gen = 0 => \/ panel.data[p].at <= Shown(r, p).at
                       \/ MayLack(p) /\ (p \in job.tells => Shown(r, p).err)
<1>1. r.pos > job.n
  <2>1. CASE StoreAnyway(r)
    BY <2>1 DEF StoreAnyway, OrderInv
  <2>2. CASE StoreNew(r)
    BY <2>2, Numbers, JobShape DEF StoreNew, Done, Asking
  <2> QED
    BY <2>1, <2>2
<1>2. p < r.pos
  BY <1>1, Numbers, JobShape DEF Parts
<1>3. CASE p \notin r.missed
  <2>1. Shown(r, p) = [at |-> r.got[p], err |-> FALSE]
    BY <1>3 DEF Shown
  <2>2. r.got[p] <= served[p] /\ r.got[p] >= r.floor[p]
    BY <1>2, <1>3 DEF OrderInv, Known
  <2>3. gen = 0 => panel.data[p].at <= r.floor[p]
    BY DEF OrderInv, Undisturbed
  <2> QED
    BY <2>1, <2>2, <2>3, Numbers
<1>4. CASE p \in r.missed /\ job.keeps /\ Lead(p) \in r.missed
  <2>1. Shown(r, p).at = r.prev.data[p].at
    BY <1>4 DEF Shown
  <2>2. r.prev.data[p].at <= served[p]
    BY DEF OrderInv, Known
  <2>3. gen = 0 => r.prev.data = panel.data
    BY <1>4 DEF OrderInv, Undisturbed
  <2> QED
    BY <2>1, <2>2, <2>3, Numbers
<1>5. CASE p \in r.missed /\ ~(job.keeps /\ Lead(p) \in r.missed)
  <2>1. Shown(r, p) = [at |-> 0, err |-> p \in job.tells]
    BY <1>5 DEF Shown
  <2>2. job.keeps => p \in job.details
    BY <1>5 DEF Lead
  <2>3. {p} \notin job.needs
    <3>1. CASE job.keeps
      BY <2>2, <3>1, PanelFetchAssumption DEF TypeOK
    <3>2. CASE ~job.keeps
      <4>1. ~Hopeless(r)
        BY <3>2 DEF StoreNew, StoreAnyway, OrderInv
      <4> QED
        BY <1>5, <4>1 DEF Hopeless
    <3> QED
      BY <3>1, <3>2
  <2>4. MayLack(p)
    BY <2>2, <2>3 DEF MayLack
  <2>5. Shown(r, p).at <= served[p]
    BY <2>1, Numbers
  <2>6. ASSUME p \in job.tells PROVE Shown(r, p).err
    <3>1. Shown(r, p).err = (p \in job.tells)
      BY <2>1
    <3> QED
      BY <2>6, <3>1
  <2> QED
    BY <2>4, <2>5, <2>6
<1> QED
  BY <1>3, <1>4, <1>5

LEMMA OrderStep ==
  ASSUME TypeOK, OrderInv, [Next]_vars
  PROVE  OrderInv'
<1> USE JobShape, Numbers
<1>1. ASSUME NEW x \in Parts(job), Publish(x) PROVE OrderInv'
  <2>1. /\ job' = job /\ runs' = runs /\ panel' = panel /\ gen' = gen
        /\ \A p \in Parts(job) : served'[p] \in Nat /\ served[p] <= served'[p]
    BY <1>1 DEF Publish, TypeOK
  <2>2. ASSUME NEW r \in runs PROVE Known(r)'
    <3>1. \A p \in Parts(job) :
            /\ r.floor[p] <= served[p] /\ r.got[p] <= served[p] /\ r.prev.data[p].at <= served[p]
            /\ p < r.pos => p \in r.missed \/ r.got[p] >= r.floor[p]
      BY DEF OrderInv, Known
    <3>2. \A p \in Parts(job) :
            r.floor[p] <= served'[p] /\ r.got[p] <= served'[p] /\ r.prev.data[p].at <= served'[p]
      BY <2>1, <3>1
    <3> QED
      BY <2>1, <3>1, <3>2 DEF Known, Parts
  <2>3. \A p \in Parts(job) : panel.data[p].at <= served'[p]
    BY <2>1 DEF OrderInv
  <2>4. \A r \in runs : Undisturbed(r)' <=> Undisturbed(r)
    BY <2>1 DEF Undisturbed, Parts
  <2> QED
    BY <2>1, <2>2, <2>3, <2>4 DEF OrderInv, Parts
<1>2. CASE Reload
  <2>1. gen' = gen + 1 /\ UNCHANGED <<job, served, panel, runs>>
    BY <1>2 DEF Reload
  <2>2. \A r \in runs : r.gen <= gen + 1
    BY DEF OrderInv
  <2>3. gen' # 0
    BY <2>1
  <2> QED
    BY <2>1, <2>2, <2>3 DEF OrderInv, Known, Parts
<1>3. CASE Start
  <2> DEFINE q == [gen |-> gen, prev |-> IF job.cond \/ job.keeps THEN panel ELSE NoPanel,
                   pos |-> 1, got |-> [p \in Parts(job) |-> 0], missed |-> {},
                   again |-> FALSE, floor |-> served]
  <2>1. /\ runs' = runs \union {q} /\ UNCHANGED <<job, served, gen, panel>>
        /\ \A r \in runs : r.gen # gen
    BY <1>3 DEF Start
  <2>2. /\ q.gen = gen /\ q.pos = 1 /\ q.floor = served /\ ~q.again
        /\ \A p \in Parts(job) : q.got[p] = 0
    OBVIOUS
  <2>3. \A p \in Parts(job) : q.prev.data[p].at <= served[p]
    BY DEF OrderInv, NoPanel, Nothing
  <2>4. job.cond \/ job.keeps => q.prev = panel
    OBVIOUS
  <2> HIDE DEF q
  <2>5. Known(q)
    BY <2>2, <2>3 DEF Known, Parts
  <2>6. Undisturbed(q)
    BY <2>2, <2>4 DEF Undisturbed, OrderInv
  <2>7. \A r \in runs' : r.gen <= gen /\ Known(r) /\ (r.again => job.keeps /\ r.pos > job.n)
    BY <2>1, <2>2, <2>5 DEF OrderInv
  <2>8. gen = 0 => \A r \in runs' : Undisturbed(r)
    BY <2>1, <2>6 DEF OrderInv
  <2>9. /\ \A r \in runs' : Known(r)' /\ (Undisturbed(r)' <=> Undisturbed(r))
        /\ gen' = gen /\ (\A p \in Parts(job) : panel.data[p].at <= served[p])'
    BY <2>1, <2>7 DEF OrderInv, Known, Undisturbed, Parts
  <2> QED
    BY <2>1, <2>7, <2>8, <2>9 DEF OrderInv
<1>4. ASSUME NEW r \in runs, Step(r) PROVE OrderInv'
  <2>0. /\ r.gen <= gen /\ Known(r) /\ (r.again => job.keeps /\ r.pos > job.n)
        /\ gen = 0 => Undisturbed(r)
    BY DEF OrderInv
  <2>a. ASSUME NEW q, Becomes(r, q), UNCHANGED <<job, served, gen>>, panel'.data = panel.data,
               q.gen = r.gen, q.floor = r.floor, q.prev = r.prev, Known(q),
               q.again => job.keeps /\ q.pos > job.n
        PROVE  OrderInv'
    <3>1. \A x \in runs' : x.gen <= gen /\ Known(x) /\ (x.again => job.keeps /\ x.pos > job.n)
      BY <2>0, <2>a DEF OrderInv, Becomes
    <3>2. gen = 0 => \A x \in runs' : Undisturbed(x)
      BY <2>0, <2>a DEF OrderInv, Becomes, Undisturbed
    <3> QED
      BY <2>a, <3>1, <3>2 DEF OrderInv, Known, Undisturbed, Parts
  <2>b. ASSUME NEW data, NEW g, Ok(r, data, g), \A p \in Parts(job) : data[p].at <= served[p]
        PROVE  OrderInv'
    <3>1. panel'.data = data /\ runs' = runs \ {r} /\ UNCHANGED <<job, served, gen>>
      BY <2>b DEF Ok, Ended, Rest
    <3>2. gen = 0 => runs' = {}
      BY <3>1, OneRun
    <3> QED
      BY <2>b, <3>1, <3>2 DEF OrderInv, Known, Parts
  <2>1. CASE Answer(r)
    <3> DEFINE q == [r EXCEPT !.pos = @ + 1, !.got[r.pos] = served[r.pos]]
    <3>1. r.pos \in Parts(job) /\ Becomes(r, q) /\ UNCHANGED <<job, served, gen, panel>> /\ ~r.again
      BY <2>0, <2>1 DEF Answer, Asking, Runs, Parts
    <3>2. /\ q.gen = r.gen /\ q.floor = r.floor /\ q.prev = r.prev /\ q.again = r.again
          /\ q.missed = r.missed /\ q.pos = r.pos + 1
          /\ q.got = [r.got EXCEPT ![r.pos] = served[r.pos]]
      BY DEF Runs
    <3>3. \A p \in Parts(job) : q.got[p] = IF p = r.pos THEN served[p] ELSE r.got[p]
      BY <3>1, <3>2 DEF Runs
    <3> HIDE DEF q
    <3>4. Known(q)
      BY <2>0, <3>2, <3>3, SMTT(30) DEF Known
    <3> QED
      BY <2>a, <3>1, <3>2, <3>4
  <2>2. CASE Fail(r)
    <3> DEFINE q == [r EXCEPT !.pos = After(r.pos), !.missed = @ \union (r.pos .. After(r.pos) - 1)]
    <3>1. r.pos \in Parts(job) /\ Becomes(r, q) /\ UNCHANGED <<job, served, gen, panel>> /\ ~r.again
      BY <2>0, <2>2 DEF Fail, Asking, Runs, Parts
    <3>2. /\ q.gen = r.gen /\ q.floor = r.floor /\ q.prev = r.prev /\ q.again = r.again
          /\ q.missed = r.missed \union (r.pos .. After(r.pos) - 1) /\ q.pos = After(r.pos)
          /\ q.got = r.got
      BY DEF Runs
    <3>3. \A p \in Parts(job) : p < After(r.pos) => p < r.pos \/ p \in r.pos .. After(r.pos) - 1
      BY <3>1, AfterFacts
    <3> HIDE DEF q
    <3>4. Known(q)
      BY <2>0, <3>2, <3>3 DEF Known
    <3> QED
      BY <2>a, <3>1, <3>2, <3>4
  <2>3. CASE StoreSame(r)
    <3>1. Ok(r, r.prev.data, r.prev.gen)
      BY <2>3 DEF StoreSame
    <3> QED
      BY <2>0, <2>b, <3>1 DEF Known
  <2>4. CASE StoreNew(r) \/ StoreAnyway(r)
    <3> DEFINE data == [p \in Parts(job) |-> Shown(r, p)]
    <3>1. Ok(r, data, r.gen)
      BY <2>4 DEF StoreNew, StoreAnyway
    <3>2. \A p \in Parts(job) : data[p].at <= served[p]
      BY <2>4, StoredPart
    <3> HIDE DEF data
    <3> QED
      BY <2>b, <3>1, <3>2
  <2>5. CASE StoreError(r)
    <3>1. UNCHANGED <<job, served, gen>> /\ panel'.data = panel.data
      BY <2>5 DEF StoreError, Rest, TypeOK, Panels
    <3>2. CASE Ended(r)
      BY <3>1, <3>2 DEF OrderInv, Known, Undisturbed, Ended, Parts
    <3>3. CASE job.keeps /\ Becomes(r, [r EXCEPT !.again = TRUE])
      <4> DEFINE q == [r EXCEPT !.again = TRUE]
      <4>1. /\ q.gen = r.gen /\ q.floor = r.floor /\ q.prev = r.prev
            /\ q.missed = r.missed /\ q.pos = r.pos /\ q.got = r.got
        BY DEF Runs
      <4>2. r.pos > job.n
        BY <2>5, <3>3 DEF StoreError, Done, Asking
      <4> HIDE DEF q
      <4>3. Becomes(r, q)
        BY <3>3 DEF q
      <4>4. Known(q)
        BY <2>0, <4>1 DEF Known
      <4> QED
        BY <2>a, <3>1, <3>3, <4>1, <4>2, <4>3, <4>4
    <3> QED
      BY <2>5, <3>2, <3>3 DEF StoreError
  <2> QED
    BY <1>4, <2>1, <2>2, <2>3, <2>4, <2>5 DEF Step
<1>5. CASE UNCHANGED vars
  BY <1>5 DEF vars, OrderInv, Known, Undisturbed, Parts
<1> QED
  BY <1>1, <1>2, <1>3, <1>4, <1>5 DEF Next

\* No step of the only run takes away what its job needs.
LEMMA LostStep ==
  ASSUME TypeOK, OrderInv, Next, gen' = 0, NEW p \in Parts(job)
  PROVE  \/ panel.data[p].at <= panel'.data[p].at
         \/ MayLack(p) /\ (p \in job.tells => panel'.data[p].err)
<1> USE JobShape, Numbers
<1>1. CASE panel'.data = panel.data
  BY <1>1
<1>2. CASE Reload
  BY <1>2 DEF Reload
<1>3. ASSUME NEW r \in runs, StoreSame(r)
      PROVE  panel.data[p].at <= panel'.data[p].at
  <2>1. job.cond /\ panel'.data = r.prev.data /\ gen = 0
    BY <1>3 DEF StoreSame, NotModified, Ok, Rest
  <2>2. Undisturbed(r)
    BY <2>1 DEF OrderInv
  <2> QED
    BY <2>1, <2>2 DEF Undisturbed
<1>4. ASSUME NEW r \in runs, StoreNew(r) \/ StoreAnyway(r)
      PROVE  \/ panel.data[p].at <= panel'.data[p].at
             \/ MayLack(p) /\ (p \in job.tells => panel'.data[p].err)
  <2>1. panel'.data[p] = Shown(r, p) /\ gen = 0
    BY <1>4 DEF StoreNew, StoreAnyway, Ok, Rest
  <2>2. gen = 0 => \/ panel.data[p].at <= Shown(r, p).at
                   \/ MayLack(p) /\ (p \in job.tells => Shown(r, p).err)
    BY <1>4, StoredPart
  <2> QED
    BY <2>1, <2>2
<1>5. ASSUME NEW r \in runs, Answer(r) \/ Fail(r) \/ StoreError(r) PROVE panel'.data = panel.data
  BY <1>5 DEF Answer, Fail, StoreError, TypeOK, Panels
<1>6. ASSUME (\E x \in Parts(job) : Publish(x)) \/ Start PROVE panel'.data = panel.data
  BY <1>6 DEF Publish, Start
<1> QED
  BY <1>1, <1>2, <1>3, <1>4, <1>5, <1>6 DEF Next, Step

(* While the first job of a panel runs, a store never takes away what the panel *)
(* shows or puts an older edition there, except for what the job may do        *)
(* without (ok, fail, fetchJob, runUtilities): no two runs overlap, so the    *)
(* panel a run read is still the panel it writes to.                           *)
THEOREM PanelKeeps == Spec => NothingLost
<1>1. Init => OrderInv
  BY DEF Init, OrderInv, NoPanel, Nothing
<1>2. TypeOK /\ OrderInv /\ [Next]_vars =>
        [gen' = 0 => \A p \in Parts(job) :
           \/ panel.data[p].at <= panel'.data[p].at
           \/ MayLack(p) /\ (p \in job.tells => panel'.data[p].err)]_vars
  BY LostStep
<1> QED
  BY <1>1, <1>2, OrderStep, TypeCorrect, PTL DEF Spec, NothingLost

------------------------------------------------------------------------------
(* The list of a news source, for any articles and titles, any dates that its *)
(* site gives them and any of its answers.                                    *)

(* What is assumed of the constants of the list.                              *)
LEMMA ListConstants ==
  /\ Clocks \subseteq Int /\ Offsets \subseteq Int /\ NoDate \notin Int
  /\ Zone \in Nat /\ Zone > 0 /\ Slack \in Nat
  /\ MaxAge \in Nat /\ MaxItems \in Nat /\ MostEntries \in Nat /\ MaxTime \in Nat
BY ListAssumption DEF Items!NewsItemsAssumption

(* The types of the list, and where a date in it comes from: the date that    *)
(* the site gives, or its clock read as Dutch time, if that came first, or    *)
(* the time of an earlier fetch, which was before either.                     *)
ListTyped ==
  /\ now \in Nat /\ title \in [Articles -> Titles] /\ date \in [Articles -> Items!Dates]
  /\ items \in Seq(Items!Item)

Dutch(a) == date[a].clock - Zone

Given(a, t) ==
  LET d == Items!parseDate(date[a]) IN
  d # NoDate => \/ t = d
                \/ t = Dutch(a) /\ Dutch(a) < d
                \/ t < d /\ t < Dutch(a)

ListInv ==
  /\ ListTyped /\ Items!ListSound
  /\ \A i \in 1 .. Len(items) : Given(items[i].canon, items[i].at)

(* A date that can be read is a number, in its own zone and in Dutch time.    *)
LEMMA Parsed ==
  ASSUME ListTyped, NEW a \in Articles
  PROVE  Items!parseDate(date[a]) \in Int \union {NoDate} /\ Dutch(a) \in Int
<1>1. date[a] \in Items!Dates
  BY DEF ListTyped
<1>2. date[a].clock \in Int /\ date[a].offset \in Int \union {NoDate}
  <2>1. date[a].clock \in Clocks /\ date[a].offset \in Offsets \union {Zone, NoDate}
    BY <1>1 DEF Items!Dates
  <2>2. Clocks \subseteq Int /\ Offsets \union {Zone, NoDate} \subseteq Int \union {NoDate}
    <3>1. Clocks \subseteq Int /\ Offsets \subseteq Int /\ Zone \in Int
      BY ListConstants
    <3> QED
      BY <3>1, Zenon
  <2> QED
    BY <2>1, <2>2, Zenon
<1>3. date[a].clock - Zone \in Int
  BY <1>2, ListConstants
<1> QED
  BY <1>2, <1>3 DEF Items!parseDate, Dutch

(* What an article is known by: its date in the list, or now.                 *)
LEMMA KnownFacts ==
  ASSUME ListInv, NEW a \in Articles
  PROVE  /\ Items!Known(a) \in Int /\ Items!Known(a) <= now + Slack
         /\ \/ /\ Items!Known(a) = now
               /\ \A i \in 1 .. Len(items) : items[i].canon # a
            \/ \E i \in 1 .. Len(items) : items[i].canon = a /\ items[i].at = Items!Known(a)
         /\ \A i \in 1 .. Len(items) : items[i].canon = a => items[i].at = Items!Known(a)
<1>1. /\ \A i \in 1 .. Len(items) : items[i] \in Items!Item
      /\ \A x : x \in Items!Range(items) <=> \E i \in 1 .. Len(items) : items[i] = x
  BY DEF ListInv, ListTyped, Items!Range
<1>2. /\ \A x \in Items!Range(items) : x.at <= now + Slack
      /\ \A i, j \in 1 .. Len(items) : items[i].canon = items[j].canon => i = j
  <2>1. DOMAIN items = 1 .. Len(items) /\ Len(items) \in Nat
    BY DEF ListInv, ListTyped
  <2>2. \A i, j \in 1 .. Len(items) : i < j => items[i].canon # items[j].canon
    BY <2>1 DEF ListInv, Items!ListSound
  <2> QED
    BY <2>1, <2>2 DEF ListInv, Items!ListSound
<1>3. now \in Int /\ now <= now + Slack
  BY ListConstants DEF ListInv, ListTyped
<1>4. CASE \E x \in Items!Range(items) : x.canon = a
  <2> DEFINE y == CHOOSE x \in Items!Range(items) : x.canon = a
  <2>1. y \in Items!Range(items) /\ y.canon = a
    BY <1>4
  <2>2. Items!Known(a) = y.at
    BY <1>4 DEF Items!Known
  <2> HIDE DEF y
  <2>3. PICK k \in 1 .. Len(items) : items[k] = y
    BY <1>1, <2>1
  <2>4. y.at \in Int
    BY <1>1, <2>3 DEF Items!Item
  <2>5. \A i \in 1 .. Len(items) : items[i].canon = a => i = k
    BY <1>2, <2>1, <2>3
  <2>6. y.at <= now + Slack
    BY <1>2, <2>1
  <2> QED
    BY <2>1, <2>2, <2>3, <2>4, <2>5, <2>6
<1>5. CASE ~ \E x \in Items!Range(items) : x.canon = a
  <2>1. Items!Known(a) = now
    BY <1>5 DEF Items!Known
  <2>2. \A i \in 1 .. Len(items) : items[i].canon # a
    BY <1>1, <1>5
  <2> QED
    BY <1>3, <2>1, <2>2
<1> QED
  BY <1>4, <1>5

(* When an article counts as published: hardly ever in the future, and as far *)
(* as the site's date can be read, by that date, by its clock in Dutch time   *)
(* or before both.                                                            *)
LEMMA PublishedFacts ==
  ASSUME ListInv, NEW a \in Articles
  PROVE  /\ Items!Published(a) \in Int /\ Items!Published(a) <= now + Slack
         /\ Given(a, Items!Published(a))
         /\ \A i \in 1 .. Len(items) : items[i].canon = a =>
              \/ Items!Published(a) = items[i].at
              \/ LET t == Items!parseDate(date[a]) IN
                 /\ t # NoDate /\ Items!Published(a) > items[i].at
                 /\ Items!Published(a) \in {date[a].clock - Zone, t}
<1> DEFINE t == Items!parseDate(date[a])
           l == Dutch(a)
           k == Items!Known(a)
           p == Items!Published(a)
<1>1. /\ k \in Int /\ k <= now + Slack
      /\ (k = now /\ \A i \in 1 .. Len(items) : items[i].canon # a)
           \/ \E i \in 1 .. Len(items) : items[i].canon = a /\ items[i].at = k
      /\ \A i \in 1 .. Len(items) : items[i].canon = a => items[i].at = k
  BY KnownFacts
<1>2. t \in Int \union {NoDate} /\ l \in Int
  BY Parsed DEF ListInv
<1>3. p = IF t = NoDate THEN k
          ELSE IF t > now + Slack THEN IF l <= now + Slack THEN l ELSE k ELSE t
  BY DEF Items!Published, Items!fixFutureDate, Dutch
<1>4. now \in Nat /\ Slack \in Nat /\ NoDate \notin Int
  BY ListConstants DEF ListInv, ListTyped
<1>5. \A i \in 1 .. Len(items) : items[i].canon = a =>
        (t # NoDate => \/ items[i].at = t
                       \/ items[i].at = l /\ l < t
                       \/ items[i].at < t /\ items[i].at < l)
  BY DEF ListInv, Given
<1>6. l = date[a].clock - Zone
  BY DEF Dutch
<1> HIDE DEF t, l, k, p
<1>7. CASE t = NoDate
  BY <1>1, <1>3, <1>7 DEF Given, t, p
<1>8. CASE t # NoDate
  <2>1. t \in Int
    BY <1>2, <1>8
  <2>2. p \in Int /\ p <= now + Slack
    BY <1>1, <1>2, <1>3, <1>4, <1>8, <2>1
  <2>3. p = t \/ (p = l /\ l < t) \/ (p < t /\ p < l)
    <3>1. CASE k = now /\ \A i \in 1 .. Len(items) : items[i].canon # a
      BY <1>1, <1>2, <1>3, <1>4, <1>8, <2>1, <3>1
    <3>2. CASE \E i \in 1 .. Len(items) : items[i].canon = a /\ items[i].at = k
      BY <1>1, <1>2, <1>3, <1>4, <1>5, <1>8, <2>1, <3>2
    <3> QED
      BY <1>1, <3>1, <3>2
  <2>4. Given(a, p)
    BY <2>3 DEF Given, t, l
  <2>5. ASSUME NEW i \in 1 .. Len(items), items[i].canon = a
        PROVE  p = items[i].at \/ (p > items[i].at /\ p \in {l, t})
    <3>1. items[i].at = k /\ (k = t \/ (k = l /\ l < t) \/ (k < t /\ k < l))
      BY <1>1, <1>5, <1>8, <2>5
    <3> QED
      BY <1>1, <1>2, <1>3, <1>4, <1>8, <2>1, <3>1
  <2> QED
    BY <1>6, <1>8, <2>2, <2>4, <2>5 DEF t, p
<1> QED
  BY <1>7, <1>8 DEF p, t

(* The entries that are taken are of different articles and titles.           *)
LEMMA UniqueFacts ==
  ASSUME NEW n \in Nat, NEW entries \in [1 .. n -> Items!Entries], NEW root
  PROVE  /\ Items!Unique(entries, root) \in SUBSET (1 .. n)
         /\ \A j, k \in Items!Unique(entries, root) : j < k =>
              /\ entries[j].canon # entries[k].canon
              /\ title[entries[j].canon] # title[entries[k].canon]
<1> DEFINE usable == {k \in DOMAIN entries : Items!Usable(entries[k], root)}
           R == {p \in (1 .. n) \X (1 .. n) : p[1] < p[2]}
           Fits == {o \in (SUBSET usable) \X usable :
                    \A j \in o[1] : /\ entries[j].canon # entries[o[2]].canon
                                    /\ title[entries[j].canon] # title[entries[o[2]].canon]}
           Q(K) == \A k \in usable :
                     k \in K <=> \A j \in K : j < k => /\ entries[j].canon # entries[k].canon
                                                     /\ title[entries[j].canon] # title[entries[k].canon]
           K0 == Items!Unique(entries, root)
<1>1. usable \in SUBSET (1 .. n)
  OBVIOUS
<1>2. K0 = CHOOSE K \in SUBSET usable : Q(K)
  BY DEF Items!Unique
<1>3. IsFiniteSet(usable) /\ Orders(R, usable)
  <2>1. IsFiniteSet(1 .. n)
    BY UpTo
  <2>2. IsFiniteSet(usable)
    BY <1>1, <2>1, FS_Subset
  <2>3. \A j, k \in usable : j \in Int /\ k \in Int /\ (<<j, k>> \in R <=> j < k)
    BY <1>1
  <2> HIDE DEF usable, R
  <2>4. Orders(R, usable)
    BY <2>3 DEF Orders
  <2> QED
    BY <2>2, <2>4
<1>4. PICK K \in SUBSET usable : Taken(K, usable, R, Fits)
  BY <1>3, TakenExists
<1>5. Q(K)
  <2> SUFFICES ASSUME NEW k \in usable
               PROVE  k \in K <=> \A j \in K : j < k => /\ entries[j].canon # entries[k].canon
                                                       /\ title[entries[j].canon] # title[entries[k].canon]
    OBVIOUS
  <2>1. k \in K <=> <<Under(K, R, k), k>> \in Fits
    BY <1>4 DEF Taken
  <2>2. Under(K, R, k) = {j \in K : j < k}
    BY <1>1 DEF Under
  <2>3. Under(K, R, k) \in SUBSET usable
    BY <2>2
  <2> HIDE DEF usable, R
  <2> QED
    BY <2>1, <2>2, <2>3
<1> HIDE DEF Q
<1>6. K0 \in SUBSET usable /\ Q(K0)
  BY <1>2, <1>4, <1>5
<1> HIDE DEF K0
<1> QED
  BY <1>1, <1>6 DEF K0, Q

(* What is made of an answer: a list of different articles and titles, newest *)
(* first, each with the date it counts as published.                          *)
LEMMA NormalFacts ==
  ASSUME ListInv, NEW n \in Nat, NEW entries \in [1 .. n -> Items!Entries], NEW root,
         NEW most \in Nat, NEW made, made = Items!normalizeItems(entries, root, most)
  PROVE  /\ made \in Seq(Items!Item) /\ Len(made) <= most
         /\ \A i \in 1 .. Len(made) : made[i].at = Items!Published(made[i].canon)
         /\ \A i, j \in 1 .. Len(made) : i < j =>
              /\ made[i].at >= made[j].at
              /\ made[i].canon # made[j].canon
              /\ title[made[i].canon] # title[made[j].canon]
<1> DEFINE K  == Items!Unique(entries, root)
           at == [k \in K |-> Items!Published(entries[k].canon)]
           young == {k \in DOMAIN at : at[k] >= now - MaxAge}
           R == {p \in young \X young : \/ at[p[1]] > at[p[2]]
                                        \/ at[p[1]] = at[p[2]] /\ p[1] < p[2]}
           Newer(k) == {j \in young : at[j] > at[k] \/ (at[j] = at[k] /\ j < k)}
           Nth(m) == CHOOSE k \in young : Items!Cardinality(Newer(k)) = m - 1
           len == IF Items!Cardinality(young) < most THEN Items!Cardinality(young) ELSE most
<1>1. made = [m \in 1 .. len |-> [canon |-> entries[Nth(m)].canon, at |-> at[Nth(m)]]]
  BY DEF Items!normalizeItems
<1>2. /\ K \in SUBSET (1 .. n)
      /\ \A j, k \in K : j < k => /\ entries[j].canon # entries[k].canon
                                  /\ title[entries[j].canon] # title[entries[k].canon]
  BY UniqueFacts
<1> HIDE DEF K
<1>3. \A k \in 1 .. n : entries[k].canon \in Articles
  <2> SUFFICES ASSUME NEW k \in 1 .. n PROVE entries[k].canon \in Articles
    OBVIOUS
  <2>1. entries[k] \in Items!Entries
    OBVIOUS
  <2> QED
    BY <2>1 DEF Items!Entries
<1>4. \A k \in K : /\ k \in 1 .. n /\ entries[k].canon \in Articles /\ at[k] \in Int
                   /\ at[k] = Items!Published(entries[k].canon)
  BY <1>2, <1>3, PublishedFacts
<1>5. young \in SUBSET K
  OBVIOUS
<1>6. \A j, k \in young : <<j, k>> \in R <=> at[j] > at[k] \/ (at[j] = at[k] /\ j < k)
  OBVIOUS
<1> HIDE DEF at, young, R
<1>7. \A k \in young : Newer(k) = Under(young, R, k)
  BY <1>6 DEF Under
<1>8. \A j, k \in young : at[j] \in Int /\ at[k] \in Int /\ j \in Int /\ k \in Int
  BY <1>4, <1>5
<1>9. Orders(R, young)
  BY <1>6, <1>8 DEF Orders
<1>10. IsFiniteSet(young)
  <2>1. young \in SUBSET (1 .. n)
    BY <1>2, <1>5
  <2>2. IsFiniteSet(1 .. n)
    BY UpTo
  <2> QED
    BY <2>1, <2>2, FS_Subset
<1>11. Cardinality(young) \in Nat /\ \A S : Items!Cardinality(S) = Cardinality(S)
  BY <1>10, FS_CardinalityType DEF Items!Cardinality, Cardinality
<1>12. /\ \A m \in 0 .. Cardinality(young) - 1 : \E k \in young : Cardinality(Under(young, R, k)) = m
       /\ \A j, k \in young : Cardinality(Under(young, R, j)) < Cardinality(Under(young, R, k))
                                <=> <<j, k>> \in R
  BY <1>9, <1>10, Ranks
<1>13. len \in Nat /\ len <= most /\ len <= Cardinality(young)
  BY <1>11
<1> HIDE DEF len
<1>14. \A m \in 1 .. len : Nth(m) \in young /\ Cardinality(Under(young, R, Nth(m))) = m - 1
  <2> SUFFICES ASSUME NEW m \in 1 .. len
               PROVE  Nth(m) \in young /\ Cardinality(Under(young, R, Nth(m))) = m - 1
    OBVIOUS
  <2>1. m - 1 \in 0 .. Cardinality(young) - 1
    BY <1>11, <1>13
  <2>2. PICK k \in young : Cardinality(Under(young, R, k)) = m - 1
    BY <1>12, <2>1
  <2>3. Items!Cardinality(Newer(k)) = m - 1
    BY <1>7, <1>11, <2>2
  <2> HIDE DEF Newer
  <2>4. Nth(m) \in young /\ Items!Cardinality(Newer(Nth(m))) = m - 1
    BY <2>3
  <2> HIDE DEF Nth
  <2> QED
    BY <1>7, <1>11, <2>4
<1> HIDE DEF Nth
<1>15. Len(made) = len /\ \A m \in 1 .. len : made[m] = [canon |-> entries[Nth(m)].canon, at |-> at[Nth(m)]]
  BY <1>1, <1>13
<1>16. \A m \in 1 .. len : /\ Nth(m) \in K
                           /\ made[m].canon = entries[Nth(m)].canon /\ made[m].at = at[Nth(m)]
                           /\ made[m] \in Items!Item
                           /\ made[m].at = Items!Published(made[m].canon)
  <2> SUFFICES ASSUME NEW m \in 1 .. len
               PROVE  /\ Nth(m) \in K
                      /\ made[m].canon = entries[Nth(m)].canon /\ made[m].at = at[Nth(m)]
                      /\ made[m] \in Items!Item
                      /\ made[m].at = Items!Published(made[m].canon)
    OBVIOUS
  <2>1. Nth(m) \in K
    BY <1>5, <1>14
  <2>2. made[m].canon = entries[Nth(m)].canon /\ made[m].at = at[Nth(m)]
    BY <1>15
  <2>3. entries[Nth(m)].canon \in Articles /\ at[Nth(m)] \in Int
    BY <1>4, <2>1
  <2>4. made[m] \in Items!Item
    BY <1>15, <2>3 DEF Items!Item
  <2> QED
    BY <1>4, <2>1, <2>2, <2>4
<1>17. made \in Seq(Items!Item)
  BY <1>1, <1>13, <1>15, <1>16
<1>18. ASSUME NEW i \in 1 .. len, NEW j \in 1 .. len, i < j
       PROVE  /\ made[i].at >= made[j].at
              /\ made[i].canon # made[j].canon
              /\ title[made[i].canon] # title[made[j].canon]
  <2>1. <<Nth(i), Nth(j)>> \in R
    <3>1. Cardinality(Under(young, R, Nth(i))) < Cardinality(Under(young, R, Nth(j)))
      BY <1>13, <1>14, <1>18
    <3> QED
      BY <1>12, <1>14, <3>1
  <2>2. Nth(i) \in young /\ Nth(j) \in young
    BY <1>14
  <2>3. at[Nth(i)] \in Int /\ at[Nth(j)] \in Int /\ Nth(i) \in Int /\ Nth(j) \in Int
    BY <1>8, <2>2
  <2>4. at[Nth(i)] > at[Nth(j)] \/ (at[Nth(i)] = at[Nth(j)] /\ Nth(i) < Nth(j))
    BY <1>6, <2>1, <2>2
  <2>5. at[Nth(i)] >= at[Nth(j)]
    BY <2>3, <2>4
  <2>6. Nth(i) < Nth(j) \/ Nth(j) < Nth(i)
    BY <2>3, <2>4
  <2>7. Nth(i) \in K /\ Nth(j) \in K
    BY <1>16
  <2>8. /\ entries[Nth(i)].canon # entries[Nth(j)].canon
        /\ title[entries[Nth(i)].canon] # title[entries[Nth(j)].canon]
    BY <1>2, <2>6, <2>7
  <2> QED
    BY <1>16, <2>5, <2>8
<1> QED
  BY <1>13, <1>15, <1>16, <1>17, <1>18, SMTT(30)

(* A date moves only when what the site wrote has come, in Dutch time or in   *)
(* the zone it is written with.                                               *)
DateStep ==
  \A i \in Items!Range(items), j \in Items!Range(items') : i.canon = j.canon =>
    \/ j.at = i.at
    \/ LET t == Items!parseDate(date[i.canon]) IN
       t # NoDate /\ j.at > i.at /\ j.at \in {date[i.canon].clock - Zone, t}

(* A step of the list keeps it sound, and moves a date only so.               *)
LEMMA ListStep ==
  ASSUME ListInv, [Items!Next]_list
  PROVE  ListInv' /\ [DateStep]_list
<1>t. /\ ListTyped /\ Items!ListSound
      /\ \A i \in 1 .. Len(items) : Given(items[i].canon, items[i].at)
  BY DEF ListInv
<1>d. DOMAIN items = 1 .. Len(items) /\ Len(items) \in Nat /\ \A i \in 1 .. Len(items) : items[i] \in Items!Item
  BY <1>t DEF ListTyped
<1>s. /\ Len(items) <= MaxItems
      /\ \A i, j \in 1 .. Len(items) : i < j =>
           /\ items[i].at >= items[j].at
           /\ items[i].canon # items[j].canon /\ title[items[i].canon] # title[items[j].canon]
      /\ \A i \in 1 .. Len(items) : items[i].at <= now + Slack
  BY <1>d, <1>t DEF Items!ListSound, Items!Range
<1>1. CASE Items!Tick
  <2>1. now' = now + 1 /\ title' = title /\ date' = date /\ items' = items
    BY <1>1 DEF Items!Tick
  <2>2. ListTyped'
    BY <1>t, <2>1 DEF ListTyped, Items!Dates, Items!Item
  <2>3. \A i \in 1 .. Len(items) : items[i].at <= now' + Slack
    BY <1>d, <1>s, <1>t, <2>1, ListConstants DEF ListTyped, Items!Item
  <2>4. Items!ListSound'
    BY <1>d, <1>s, <2>1, <2>3 DEF Items!ListSound, Items!Range
  <2>5. (\A i \in 1 .. Len(items) : Given(items[i].canon, items[i].at))'
    BY <1>t, <2>1 DEF Given, Dutch, Items!parseDate
  <2>6. DateStep
    <3>1. \A i, j \in 1 .. Len(items) : items[i].canon = items[j].canon => i = j
      BY <1>d, <1>s
    <3> QED
      BY <1>d, <2>1, <3>1 DEF DateStep, Items!Range
  <2> QED
    BY <2>2, <2>4, <2>5, <2>6 DEF ListInv
<1>2. CASE Items!Fetch
  <2>1. PICK root \in Items!Roots, n \in 0 .. MostEntries, most \in 1 .. MaxItems :
          \E entries \in [1 .. n -> Items!Entries] : items' = Items!normalizeItems(entries, root, most)
    BY <1>2 DEF Items!Fetch
  <2>2. PICK entries \in [1 .. n -> Items!Entries] : items' = Items!normalizeItems(entries, root, most)
    BY <2>1
  <2>3. now' = now /\ title' = title /\ date' = date
    BY <1>2 DEF Items!Fetch
  <2>4. n \in Nat /\ most \in Nat /\ most <= MaxItems /\ MaxItems \in Nat
    BY ListConstants
  <2>5. /\ items' \in Seq(Items!Item) /\ Len(items') <= most
        /\ \A i \in 1 .. Len(items') : items'[i].at = Items!Published(items'[i].canon)
        /\ \A i, j \in 1 .. Len(items') : i < j =>
             /\ items'[i].at >= items'[j].at
             /\ items'[i].canon # items'[j].canon
             /\ title[items'[i].canon] # title[items'[j].canon]
    BY <2>2, <2>4, NormalFacts
  <2>6. /\ DOMAIN items' = 1 .. Len(items') /\ Len(items') \in Nat
        /\ \A i \in 1 .. Len(items') : items'[i].canon \in Articles
    <3>1. /\ DOMAIN items' = 1 .. Len(items') /\ Len(items') \in Nat
          /\ \A i \in 1 .. Len(items') : items'[i] \in Items!Item
      BY <2>5
    <3>2. \A x \in Items!Item : x.canon \in Articles
      BY DEF Items!Item
    <3> QED
      BY <3>1, <3>2
  <2>7. \A i \in 1 .. Len(items') : /\ items'[i].at <= now + Slack
                                    /\ Given(items'[i].canon, items'[i].at)
    BY <2>5, <2>6, PublishedFacts
  <2>8. Len(items') <= MaxItems
    BY <2>4, <2>5, <2>6
  <2>9. ListTyped'
    BY <1>t, <2>3, <2>5 DEF ListTyped, Items!Dates, Items!Item
  <2>10. Items!ListSound'
    BY <2>3, <2>5, <2>6, <2>7, <2>8 DEF Items!ListSound, Items!Range
  <2>11. (\A i \in 1 .. Len(items) : Given(items[i].canon, items[i].at))'
    BY <2>3, <2>7 DEF Given, Dutch, Items!parseDate
  <2>12. DateStep
    <3> SUFFICES ASSUME NEW i \in 1 .. Len(items), NEW j \in 1 .. Len(items'),
                        items[i].canon = items'[j].canon
                 PROVE  \/ items'[j].at = items[i].at
                        \/ LET t == Items!parseDate(date[items[i].canon]) IN
                           /\ t # NoDate /\ items'[j].at > items[i].at
                           /\ items'[j].at \in {date[items[i].canon].clock - Zone, t}
      BY <1>d, <2>6 DEF DateStep, Items!Range
    <3>1. items'[j].canon \in Articles /\ items'[j].at = Items!Published(items'[j].canon)
      BY <2>5, <2>6
    <3> QED
      BY <3>1, PublishedFacts
  <2> QED
    BY <2>9, <2>10, <2>11, <2>12 DEF ListInv
<1>3. CASE UNCHANGED list
  <2>1. UNCHANGED <<now, title, date, items>>
    BY <1>3 DEF list
  <2>2. ListTyped' /\ Items!ListSound'
    BY <1>t, <2>1 DEF ListTyped, Items!ListSound, Items!Dates, Items!Item, Items!Range
  <2>3. (\A i \in 1 .. Len(items) : Given(items[i].canon, items[i].at))'
    BY <1>t, <2>1 DEF Given, Dutch, Items!parseDate
  <2> QED
    BY <1>3, <2>2, <2>3 DEF ListInv
<1> QED
  BY <1>1, <1>2, <1>3 DEF Items!Next

(* The list is empty at the start.                                            *)
LEMMA ListInit ==
  ASSUME Items!Init
  PROVE  ListInv
<1>1. /\ now = 0 /\ items = <<>>
      /\ title \in [Articles -> Titles] /\ date \in [Articles -> Items!Dates]
  BY DEF Items!Init
<1>2. Len(items) = 0 /\ DOMAIN items = {} /\ items \in Seq(Items!Item)
  BY <1>1
<1>3. Items!Range(items) = {}
  BY <1>2 DEF Items!Range
<1> QED
  BY <1>1, <1>2, <1>3, ListConstants DEF ListInv, ListTyped, Items!ListSound

(* The list of a source has every article once, newest first, and an article  *)
(* keeps its date or moves forward to the one its site wrote, for any dates,  *)
(* zones, titles and answers of the site (normalizeItems, fixFutureDate).     *)
THEOREM ListStaysSound == MCFairSpec => ItemsSound
<1>1. MCInit => ListInv
  BY ListInit DEF MCInit
<1>2. [MCNext]_MCvars => [Items!Next]_list
  BY DEF MCNext, MCvars
<1>3. ListInv /\ [Items!Next]_list => ListInv'
  BY ListStep
<1>4. ListInv /\ [Items!Next]_list => [DateStep]_list
  BY ListStep
<1>5. ListInv => Items!ListSound
  BY DEF ListInv
<1>6. Items!DatesKept <=> [][DateStep]_list
  BY DEF Items!DatesKept, DateStep, Items!vars, list
<1> QED
  BY <1>1, <1>2, <1>3, <1>4, <1>5, <1>6, PTL DEF MCFairSpec, ItemsSound

------------------------------------------------------------------------------
(* The tables of sources and panels (PanelTables), for any configuration.     *)

(* A job is there if all the switches of one of its rows are on.              *)
LEMMA Rows ==
  ASSUME NEW c
  PROVE  /\ \A row \in Tables!JobTable : row[2] \subseteq c => row[1] \in Tables!JobKeys(c)
         /\ \A k \in Tables!JobKeys(c) : \E row \in Tables!JobTable : row[1] = k /\ row[2] \subseteq c
BY DEF Tables!JobKeys, Tables!Keys

(* Every listed source has a job, with the same switches; the jobs which are  *)
(* not listed are the ones ListsAgree names.                                  *)
LEMMA ListedRows ==
  /\ Tables!FeedTable \subseteq Tables!JobTable
  /\ \A row \in Tables!JobTable :
       \/ row \in Tables!FeedTable \/ row[1] \in {"icons", "push:watch", "ndw:bridgeplan"}
       \/ row = <<"ndw:traffic", {"bridges"}>>
BY DEF Tables!FeedTable, Tables!JobTable, Tables!CyberJobs, Tables!DailyJobs, Tables!OtherJobs, Tables!p2kJobs

(* A reload leaves no source on the list without a job.                       *)
LEMMA ListedAgree ==
  ASSUME jobs = Tables!JobKeys(on)
  PROVE  Tables!ListsAgree
<1>1. \A k : k \in Tables!otherFeeds <=> \E row \in Tables!FeedTable : row[1] = k /\ row[2] \subseteq on
  BY DEF Tables!otherFeeds, Tables!Keys
<1>2. Tables!otherFeeds \subseteq jobs
  BY <1>1, Rows, ListedRows
<1>3. ASSUME NEW k \in jobs, k \notin Tables!otherFeeds
      PROVE  k \in {"icons", "push:watch", "ndw:bridgeplan"} \union Tables!When({"bridges"}, {"ndw:traffic"})
  <2>1. PICK row \in Tables!JobTable : row[1] = k /\ row[2] \subseteq on
    BY <1>3, Rows
  <2>2. row \notin Tables!FeedTable
    BY <1>1, <1>3, <2>1
  <2>3. CASE row = <<"ndw:traffic", {"bridges"}>>
    BY <2>1, <2>3 DEF Tables!When
  <2> QED
    BY <2>1, <2>2, <2>3, ListedRows
<1> QED
  BY <1>2, <1>3 DEF Tables!ListsAgree

(* The answer a of the panel p is there when the panel is offered. What it    *)
(* shows has a job, and comes with its error if the source fails, but in the  *)
(* places of Silent.                                                          *)
Offers(p, a) == a.enabled <=> p \in on
Sound(p, a) ==
  \A k \in a.shows : k \in Tables!JobKeys(on) /\ (k \in a.tells \/ <<p, k>> \in Tables!Silent)

(* So it is for every handler; the exploits panel has a mark of its own.      *)
LEMMA HandlersSound ==
  /\ Sound("threats", Tables!handleThreats)
  /\ Sound("advisories", Tables!handleAdvisories)
  /\ Sound("alerts", Tables!handleAlerts)
  /\ Sound("traffic", Tables!handleTraffic)
  /\ Sound("breaches", Tables!handleBreaches)
  /\ Sound("outages", Tables!handleOutages)
  /\ Sound("energy", Tables!handleEnergy)
  /\ Sound("air", Tables!handleAir)
  /\ Sound("trains", Tables!handleTrains)
  /\ Sound("politics", Tables!handlePolitics)
  /\ Sound("today", Tables!handleToday)
  /\ Sound("ransomware", Tables!handleRansomware)
  /\ Sound("utilities", Tables!handleUtilities)
  /\ Sound("quakes", Tables!handleQuakes)
  /\ Sound("economy", Tables!handleEconomy)
  /\ Sound("markets", Tables!handleMarkets)
  /\ Sound("amber", Tables!handleAmber)
  /\ Sound("recalls", Tables!handleRecalls)
  /\ Sound("nlalert", Tables!handleNLAlert)
  /\ Sound("fuel", Tables!handleFuel)
  /\ Sound("waste", Tables!handleWaste)
  /\ Sound("radiation", Tables!handleRadiation)
  /\ Sound("satellite", Tables!handleSatellite)
  /\ Sound("sports", Tables!handleSports)
  /\ Sound("world", Tables!handleWorld)
  /\ Sound("nlthreat", Tables!handleNLThreat)
  /\ Sound("sky", Tables!handleSky)
  /\ Sound("bridges", Tables!handleBridges)
  /\ \A k \in Tables!handleExploits.shows :
       /\ k \in Tables!JobKeys(on) \/ k = "cisa:kev"
       /\ k \in Tables!handleExploits.tells \/ <<"exploits", k>> \in Tables!Silent
BY Rows DEF Sound, Tables!Panel, Tables!Answer, Tables!When, Tables!Silent,
   Tables!JobTable, Tables!CyberJobs, Tables!DailyJobs, Tables!OtherJobs, Tables!p2kJobs,
   Tables!handleThreats, Tables!handleAdvisories, Tables!handleAlerts, Tables!handleTraffic,
   Tables!handleBreaches, Tables!handleOutages, Tables!handleEnergy, Tables!handleAir,
   Tables!handleTrains, Tables!handlePolitics, Tables!handleToday, Tables!handleRansomware,
   Tables!handleUtilities, Tables!handleQuakes, Tables!handleEconomy, Tables!handleMarkets,
   Tables!handleAmber, Tables!handleRecalls, Tables!handleNLAlert, Tables!handleFuel,
   Tables!handleWaste, Tables!handleRadiation, Tables!handleSatellite, Tables!handleSports,
   Tables!handleWorld, Tables!handleExploits, Tables!handleNLThreat, Tables!handleSky,
   Tables!handleBridges

(* A panel that the page offers is one whose handler answers.                 *)
LEMMA HandlersOffer ==
  /\ Offers("threats", Tables!handleThreats)
  /\ Offers("traffic", Tables!handleTraffic)
  /\ Offers("breaches", Tables!handleBreaches)
  /\ Offers("outages", Tables!handleOutages)
  /\ Offers("energy", Tables!handleEnergy)
  /\ Offers("air", Tables!handleAir)
  /\ Offers("trains", Tables!handleTrains)
  /\ Offers("politics", Tables!handlePolitics)
  /\ Offers("today", Tables!handleToday)
  /\ Offers("ransomware", Tables!handleRansomware)
  /\ Offers("utilities", Tables!handleUtilities)
  /\ Offers("quakes", Tables!handleQuakes)
  /\ Offers("economy", Tables!handleEconomy)
  /\ Offers("markets", Tables!handleMarkets)
  /\ Offers("amber", Tables!handleAmber)
  /\ Offers("recalls", Tables!handleRecalls)
  /\ Offers("nlalert", Tables!handleNLAlert)
  /\ Offers("fuel", Tables!handleFuel)
  /\ Offers("waste", Tables!handleWaste)
  /\ Offers("radiation", Tables!handleRadiation)
  /\ Offers("satellite", Tables!handleSatellite)
  /\ Offers("sports", Tables!handleSports)
  /\ Offers("world", Tables!handleWorld)
  /\ Offers("sky", Tables!handleSky)
  /\ Offers("bridges", Tables!handleBridges)
BY ZenonT(60) DEF Offers, Tables!Panel, Tables!Answer,
   Tables!handleThreats, Tables!handleTraffic, Tables!handleBreaches, Tables!handleOutages,
   Tables!handleEnergy, Tables!handleAir, Tables!handleTrains, Tables!handlePolitics,
   Tables!handleToday, Tables!handleRansomware, Tables!handleUtilities, Tables!handleQuakes,
   Tables!handleEconomy, Tables!handleMarkets, Tables!handleAmber, Tables!handleRecalls,
   Tables!handleNLAlert, Tables!handleFuel, Tables!handleWaste, Tables!handleRadiation,
   Tables!handleSatellite, Tables!handleSports, Tables!handleWorld, Tables!handleSky,
   Tables!handleBridges

(* The same for the panels by their names, and what they show.                *)
LEMMA OffersKept == Tables!OfferIsKept
<1> SUFFICES ASSUME NEW p \in Tables!Offered PROVE Offers(p, Tables!Panels[p])
  BY DEF Tables!OfferIsKept, Tables!handleCatalog, Offers, Tables!Offered
<1> QED
  BY HandlersOffer DEF Tables!Offered, Tables!Panels

LEMMA PanelsSound ==
  ASSUME NEW p \in DOMAIN Tables!Panels, NEW k \in Tables!Panels[p].shows
  PROVE  /\ k \in Tables!JobKeys(on) \/ <<p, k>> = <<"exploits", "cisa:kev">>
         /\ k \in Tables!Panels[p].tells \/ <<p, k>> \in Tables!Silent
BY HandlersSound DEF Sound, Tables!Panels

(* Whoever is shown the traffic download has it often enough.                 *)
LEMMA Often ==
  ASSUME Tables!TypeOK
  PROVE  Tables!OftenEnough
<1>1. every.traffic \in 1 .. 2 /\ every.bridges \in 1 .. 2
  BY DEF Tables!TypeOK
<1> QED
  BY <1>1 DEF Tables!OftenEnough, Tables!TrafficInterval

(* The jobs are those of the configuration: that is what makes the tables     *)
(* agree while data of earlier configurations stays in the store.             *)
TablesInv == Tables!TypeOK /\ jobs = Tables!JobKeys(on)

(* With these jobs the tables agree.                                          *)
LEMMA TablesInOrder ==
  ASSUME TablesInv
  PROVE  Tables!TablesAgree
<1>1. Tables!ShownIsFetched /\ Tables!StaleIsSaid
  BY PanelsSound DEF TablesInv, Tables!ShownIsFetched, Tables!StaleIsSaid, Tables!Shown
<1> QED
  BY <1>1, ListedAgree, OffersKept, Often DEF TablesInv, Tables!TablesAgree

(* A reload makes the jobs anew; runs and answers leave them alone.           *)
LEMMA TablesStep ==
  ASSUME TablesInv, [Tables!Next]_tables
  PROVE  TablesInv'
<1>1. focus' = focus /\ every' = every
  BY DEF Tables!Next, Tables!Reload, Tables!Start, Tables!Succeed, Tables!Fail, tables
<1>2. Tables!Relevant' = Tables!Relevant
  BY <1>1 DEF Tables!Relevant
<1>3. \A c : Tables!JobKeys(c) \subseteq Tables!Sources
  BY Rows DEF Tables!Sources
<1>4. CASE Tables!Reload
  BY <1>1, <1>2, <1>3, <1>4 DEF Tables!Reload, TablesInv, Tables!TypeOK
<1>5. CASE ~ Tables!Reload
  <2>1. UNCHANGED <<on, jobs>> /\ running' \in BOOLEAN /\ has' \in BOOLEAN /\ failing' \in BOOLEAN
    BY <1>5 DEF Tables!Next, Tables!Start, Tables!Succeed, Tables!Fail, tables, TablesInv, Tables!TypeOK
  <2> QED
    BY <1>1, <1>2, <2>1 DEF TablesInv, Tables!TypeOK
<1> QED
  BY <1>4, <1>5

(* The jobs, /healthz, the page and the handlers agree on the sources,        *)
(* whatever is configured and however it is reloaded (threatJobs, otherFeeds, *)
(* handleCatalog and the handlers of the panels).                             *)
THEOREM TablesStayInOrder == MCFairSpec => []TablesAgree
<1>1. MCInit => TablesInv
  <2>1. \A c : Tables!JobKeys(c) \subseteq Tables!Sources
    BY Rows DEF Tables!Sources
  <2> QED
    BY <2>1 DEF MCInit, Tables!Init, TablesInv, Tables!TypeOK
<1>2. [MCNext]_MCvars => [Tables!Next]_tables
  BY DEF MCNext, MCvars
<1>3. TablesInv /\ [Tables!Next]_tables => TablesInv'
  BY TablesStep
<1>4. TablesInv => TablesAgree
  BY TablesInOrder DEF TablesInv, TablesAgree
<1> QED
  BY <1>1, <1>2, <1>3, <1>4, PTL DEF MCFairSpec

------------------------------------------------------------------------------
(* The checks of the configuration (ConfigRules).                             *)

(* A row of validate looks at every setting that a job or a handler uses,     *)
(* under the same switches or fewer, but at one.                              *)
LEMMA UsesAreChecked ==
  \A row \in Config!JobUses \union Config!HandlerUses : \A s \in row[1] :
    \/ \E k \in Config!Checks : s \in k[1] /\ k[2] \subseteq row[2]
    \/ s = "traffic.vild_base"
BY DEF Config!JobUses, Config!HandlerUses, Config!Checks, Config!GeneralChecks, Config!PanelChecks,
   Config!OtherChecks

(* That one is looked at with the panel of the traffic.                       *)
LEMMA BaseIsChecked ==
  \E k \in Config!Checks : "traffic.vild_base" \in k[1] /\ k[2] = {"traffic"}
<1>1. <<{"traffic.url", "traffic.vild_base", "traffic.interval"}, {"traffic"}>> \in Config!Checks
  BY DEF Config!Checks, Config!GeneralChecks
<1> QED
  BY <1>1

(* So what is in use has been looked at, in any configuration.                *)
LEMMA InUseChecked ==
  ASSUME NEW s, NEW c, Config!InUse(s, c)
  PROVE  Config!Uses(Config!Checks, s, c) \/ (s = "traffic.vild_base" /\ "traffic" \notin c)
<1>1. PICK row \in Config!JobUses \union Config!HandlerUses : s \in row[1] /\ row[2] \subseteq c
  BY DEF Config!InUse, Config!Uses
<1>2. CASE \E k \in Config!Checks : s \in k[1] /\ k[2] \subseteq row[2]
  BY <1>1, <1>2 DEF Config!Uses
<1>3. CASE s = "traffic.vild_base" /\ "traffic" \in c
  BY <1>3, BaseIsChecked DEF Config!Uses
<1> QED
  BY <1>1, <1>2, <1>3, UsesAreChecked

(* The configuration that runs has passed.                                    *)
ConfigInv == Config!TypeOK /\ Config!validate(cfg)

(* A file that does not pass leaves the configuration as it is.               *)
LEMMA ConfigStep ==
  ASSUME ConfigInv, [Config!Next]_config
  PROVE  ConfigInv'
<1>1. setting' = setting /\ env' = env
  BY DEF Config!Next, Config!Edit, Config!Reload, config
<1>2. Config!Relevant' = Config!Relevant /\ Config!Configs' = Config!Configs
  BY <1>1 DEF Config!Relevant, Config!Configs
<1>3. \A c : Config!validate(c)' <=> Config!validate(c)
  BY <1>1 DEF Config!validate
<1>4. CASE Config!Reload
  <2>1. Config!applyEnv(file) \in Config!Configs
    BY DEF ConfigInv, Config!TypeOK, Config!applyEnv, Config!Configs
  <2>2. file' = file /\ cfg' = Config!applyEnv(file) /\ Config!validate(cfg')
    BY <1>4 DEF Config!Reload, Config!Accepted
  <2> QED
    BY <1>1, <1>2, <1>3, <2>1, <2>2 DEF ConfigInv, Config!TypeOK
<1>5. CASE Config!Edit \/ UNCHANGED config
  BY <1>1, <1>2, <1>3, <1>5 DEF Config!Edit, config, ConfigInv, Config!TypeOK
<1> QED
  BY <1>4, <1>5 DEF Config!Next

(* No job and no handler uses a bad setting that validate has not looked at,  *)
(* whatever the file and the environment say and however they change          *)
(* (parseConfig, applyEnv, validate, threatJobs).                             *)
THEOREM UsesAreValid == MCFairSpec => []UsedIsChecked
<1>1. MCInit => ConfigInv
  <2> SUFFICES ASSUME Config!Init PROVE ConfigInv
    BY DEF MCInit
  <2>1. Config!applyEnv(file) \in Config!Configs
    BY DEF Config!Init, Config!applyEnv, Config!Configs
  <2>2. env \in [keys : SUBSET Config!KeySwitches, gives : {"good", "bad", "nothing"}]
    BY DEF Config!Init
  <2> QED
    BY <2>1, <2>2 DEF Config!Init, Config!Accepted, ConfigInv, Config!TypeOK
<1>2. [MCNext]_MCvars => [Config!Next]_config
  BY DEF MCNext, MCvars
<1>3. ConfigInv /\ [Config!Next]_config => ConfigInv'
  BY ConfigStep
<1>4. ConfigInv => UsedIsChecked
  BY InUseChecked DEF ConfigInv, Config!validate, UsedIsChecked, Config!UsedIsChecked
<1> QED
  BY <1>1, <1>2, <1>3, <1>4, PTL DEF MCFairSpec
==============================================================================
