------------------------------ MODULE IconCache ------------------------------
(* The icons of the news sites (icons.go iconCache, iconJob, saveIcons,        *)
(* loadIcons): once an hour a job fetches the icons that are missing or due, a *)
(* few sites at a time, keeps the last good one when a site fails, and writes  *)
(* the good ones to a file of their own.                                       *)
EXTENDS Integers, FiniteSets, Functions

CONSTANTS
  Hosts,     \* the sites of the sources
  NoIcon,    \* an entry without an icon (png is nil)
  Slots,     \* sites at a time (4)
  Refresh,   \* age at which a good icon is fetched again (a week)
  Retry,     \* age at which a failed one is (an hour)
  MaxTime    \* bound of the model

IconCacheAssumption ==
  /\ Slots \in Nat \ {0} /\ Refresh \in Nat /\ Retry \in Nat /\ MaxTime \in Nat
  /\ NoIcon \notin 0 .. MaxTime

VARIABLES
  now,
  m,       \* c.m: the icon, by the time it was fetched, and the time of the entry
  dirty,
  pc,      \* the job
  todo,    \* sites this run has still to look at
  busy,    \* sites it fetches
  copy,    \* what it writes
  disk     \* the file

vars == <<now, m, dirty, pc, todo, busy, copy, disk>>

Icons == 0 .. MaxTime
Entry == [png : Icons \union {NoIcon}, at : Icons]
Files == UNION {[s -> Icons] : s \in SUBSET Hosts}

TypeOK ==
  /\ now \in 0 .. MaxTime
  /\ DOMAIN m \subseteq Hosts /\ m \in [DOMAIN m -> Entry]
  /\ dirty \in BOOLEAN
  /\ pc \in {"idle", "run", "write"}
  /\ todo \subseteq Hosts /\ busy \subseteq Hosts /\ Cardinality(busy) <= Slots
  /\ copy \in Files /\ disk \in Files

Good == {h \in DOMAIN m : m[h].png # NoIcon}

\* The good icons, with the times they were fetched.
Snapshot == [h \in Good |-> m[h].at]

Init ==
  /\ now = 0 /\ m = [h \in {} |-> 0] /\ dirty = FALSE
  /\ pc = "idle" /\ todo = {} /\ busy = {}
  /\ copy = [h \in {} |-> 0] /\ disk = [h \in {} |-> 0]

Tick ==
  /\ now < MaxTime /\ now' = now + 1
  /\ UNCHANGED <<m, dirty, pc, todo, busy, copy, disk>>

\* The sources change with the configuration: a run takes those of its start.
Start ==
  /\ pc = "idle" /\ pc' = "run"
  /\ todo' \in SUBSET Hosts
  /\ UNCHANGED <<now, m, dirty, busy, copy, disk>>

Due(h) == IF h \in DOMAIN m THEN now - m[h].at >= (IF h \in Good THEN Refresh ELSE Retry) ELSE TRUE

Skip(h) ==
  /\ pc = "run" /\ h \in todo /\ ~Due(h)
  /\ todo' = todo \ {h}
  /\ UNCHANGED <<now, m, dirty, pc, busy, copy, disk>>

Ask(h) ==
  /\ pc = "run" /\ h \in todo /\ Due(h) /\ Cardinality(busy) < Slots
  /\ todo' = todo \ {h} /\ busy' = busy \union {h}
  /\ UNCHANGED <<now, m, dirty, pc, copy, disk>>

set(h, png) ==
  /\ m' = [g \in DOMAIN m \union {h} |-> IF g = h THEN [png |-> png, at |-> now] ELSE m[g]]
  /\ dirty' = TRUE

Found(h) ==
  /\ h \in busy /\ busy' = busy \ {h}
  /\ set(h, now)
  /\ UNCHANGED <<now, pc, todo, copy, disk>>

\* Mutant of NotFound: what the last run found is forgotten.
NotFoundForget(h) ==
  /\ h \in busy /\ busy' = busy \ {h}
  /\ set(h, NoIcon)
  /\ UNCHANGED <<now, pc, todo, copy, disk>>

\* The last good icon is kept, with its old time.
NotFound(h) ==
  /\ h \in busy /\ busy' = busy \ {h}
  /\ IF h \in Good THEN UNCHANGED <<m, dirty>> ELSE set(h, NoIcon)
  /\ UNCHANGED <<now, pc, todo, copy, disk>>

-----------------------------------------------------------------------------
(* saveIcons when all sites are done *)

AllDone == pc = "run" /\ todo = {} /\ busy = {}

Unchanged ==
  /\ AllDone /\ ~dirty /\ pc' = "idle"
  /\ UNCHANGED <<now, m, dirty, todo, busy, copy, disk>>

Save ==
  /\ AllDone /\ dirty /\ pc' = "write"
  /\ copy' = Snapshot /\ dirty' = FALSE
  /\ UNCHANGED <<now, m, todo, busy, disk>>

Written ==
  /\ pc = "write" /\ pc' = "idle"
  /\ disk' = copy
  /\ UNCHANGED <<now, m, dirty, todo, busy, copy>>

\* The temporary file, or its rename, fails: the icons count as changed again.
NotWritten ==
  /\ pc = "write" /\ pc' = "idle"
  /\ dirty' = TRUE
  /\ UNCHANGED <<now, m, todo, busy, copy, disk>>

\* loadIcons.
Loaded == [h \in DOMAIN disk |-> [png |-> disk[h], at |-> disk[h]]]

\* The process starts anew.
Restart ==
  /\ m' = Loaded
  /\ dirty' = FALSE /\ pc' = "idle" /\ todo' = {} /\ busy' = {}
  /\ UNCHANGED <<now, copy, disk>>

Next ==
  \/ Tick \/ Start \/ Unchanged \/ Save \/ Written \/ NotWritten \/ Restart
  \/ \E h \in Hosts : Skip(h) \/ Ask(h) \/ Found(h) \/ NotFound(h)

Spec == Init /\ [][Next]_vars

-----------------------------------------------------------------------------
(* While the process runs, a site that ever gave an icon keeps one, however    *)
(* often it fails afterwards, and never an older one (iconJob: "keep the last  *)
(* good icon").                                                                *)
IconKept ==
  [][\A h \in Good : \/ m' = Loaded
                     \/ h \in DOMAIN m' /\ m'[h].png # NoIcon /\ m'[h].at >= m[h].at]_vars

(* Between two runs the file holds exactly the good icons, unless the icons    *)
(* count as changed, also after a write has failed (saveIcons), so that the    *)
(* next run of the job brings it up to date.                                   *)
IconsSaved == (pc = "idle" /\ ~dirty) => disk = Snapshot
=============================================================================
