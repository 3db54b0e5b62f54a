----------------------------- MODULE BridgeStore -----------------------------
(* The bridges of bridges.go: a list of bridges (FIS, and those only NDW       *)
(* knows) with indexes into it, the openings now and planned that two jobs     *)
(* report by ISRS code, and which bridges NDW ever reported.  The list is      *)
(* replaced once a day while the openings and the visitors' snapshots refer    *)
(* to it.  Which bridges were reported outlives a restart in a file, written   *)
(* when a bridge is reported that was not for a day; here in one step, and     *)
(* step by step in BridgeFile.                                                 *)
EXTENDS Integers, Sequences, SequencesExt, FiniteSets, Functions

CONSTANTS
  Codes,      \* ISRS codes of NDW
  FIS,        \* FIS bridges
  Near,       \* the FIS bridge within 150 m of the point of a code, or None
  Lists,      \* the lists of FIS bridges that may come in
  None,       \* no bridge
  Fresh,      \* how long a report of openings says something about now (15 minutes)
  OpenMax,    \* an opening without an end is a missed close after this (2 hours)
  Day,
  Keep,       \* how long ago a bridge may have been reported to be loaded (90 days)
  PerFav,     \* planned openings shown of a favourite (3)
  MostPlans,  \* planned openings shown of the others (60)
  OpenSizes, PlanSizes,  \* bounds of the model: how many openings a report holds,
  MaxTime                \* and the clock

BridgeStoreAssumption ==
  /\ IsFiniteSet(Codes) /\ Near \in [Codes -> FIS \union {None}]
  /\ None \notin FIS \union Codes /\ FIS \intersect Codes = {}
  /\ \A l \in Lists : l \in Seq(FIS) /\ l # <<>> /\ IsInjective(l)
  /\ Day \in Nat /\ Keep \in Nat /\ Day < Keep /\ MaxTime \in Nat

VARIABLES
  now,
  all,      \* s.all: FIS bridges, then those only NDW knows
  fisN,     \* how many of them come from FIS
  fisAt,    \* when the list came in
  byID,     \* id -> index in all
  ndwIdx,   \* code -> index in all
  seen,     \* id -> when NDW last reported it
  dirty,    \* the state file is to be written
  disk,     \* what is in it
  missed,   \* history: the last write of it failed
  since,    \* history: from when on NDW reported a bridge at least every day
  open, openAt,   \* the openings now, and when they were reported; -1 before that
  planned         \* the planned openings

saved == <<disk, missed>>
store == <<all, fisN, fisAt, byID, ndwIdx, seen, since, dirty, saved, open, openAt, planned>>
vars  == <<now, store>>

Ids   == FIS \union Codes
Empty == [i \in {} |-> 0]

\* An opening; end 0 is none.
Recs == [code : Codes, start : 0 .. MaxTime + 2, end : 0 .. MaxTime + 2]

TypeOK ==
  /\ now \in 0 .. MaxTime
  /\ all \in Seq(Ids) /\ fisN \in 0 .. Len(all) /\ fisAt \in -1 .. now
  /\ DOMAIN byID \subseteq Ids /\ DOMAIN ndwIdx \subseteq Codes
  /\ \A f \in {seen, since, disk} : DOMAIN f \subseteq Ids /\ \A b \in DOMAIN f : f[b] \in 0 .. now
  /\ DOMAIN since = DOMAIN seen
  /\ dirty \in BOOLEAN /\ missed \in BOOLEAN
  /\ open \subseteq Recs /\ planned \subseteq Recs /\ openAt \in -1 .. now

Init ==
  /\ now = 0
  /\ all = <<>> /\ fisN = 0 /\ fisAt = -1 /\ byID = Empty /\ ndwIdx = Empty
  /\ disk \in {[b \in s |-> 0] : s \in {{}, Codes}} /\ missed = FALSE
  /\ seen = disk /\ since = disk /\ dirty = FALSE
  /\ open = {} /\ openAt = -1 /\ planned = {}

-----------------------------------------------------------------------------
(* idx and what it changes: the list and the two indexes, as one table *)

Table == [all |-> all, byID |-> byID, ndwIdx |-> ndwIdx]

\* nearestFIS: the bridge of the list at the point of a code.
NearestFIS(c) == {i \in 1 .. fisN : all[i] = Near[c]}

\* The index of the bridge of a code in a table; a bridge nobody knows has the next one.
IndexIn(t, c) ==
  IF c \in DOMAIN t.ndwIdx THEN t.ndwIdx[c]
  ELSE IF NearestFIS(c) # {} THEN CHOOSE i \in NearestFIS(c) : TRUE
  ELSE IF c \in DOMAIN t.byID THEN t.byID[c] ELSE Len(t.all) + 1

\* The table after idx for one record after the other: unknown bridges are added, and the
\* matches are kept once there is a list. What a code is matched with does not depend on
\* the other codes, so the order of the records decides over the order of the new bridges
\* only, which matters to nothing.
idxAll(t, codes) ==
  LET new   == {c \in codes : IndexIn(t, c) > Len(t.all)}
      order == SetToSeq(new)
      At(c) == IF c \in new THEN Len(t.all) + (CHOOSE i \in DOMAIN order : order[i] = c)
               ELSE IndexIn(t, c)
  IN  [all    |-> t.all \o order,
       byID   |-> [b \in DOMAIN t.byID \union new |-> IF b \in new THEN At(b) ELSE t.byID[b]],
       ndwIdx |-> IF fisN > 0 THEN [c \in DOMAIN t.ndwIdx \union codes |-> At(c)] ELSE t.ndwIdx]

CodesOf(recs) == {r.code : r \in recs}

SetTable(t) == all' = t.all /\ byID' = t.byID /\ ndwIdx' = t.ndwIdx

-----------------------------------------------------------------------------
(* markSeen and the two jobs *)

\* The bridges of the records, and what is noted of them.
Reported(recs) == LET t == idxAll(Table, CodesOf(recs)) IN {t.all[IndexIn(t, c)] : c \in CodesOf(recs)}

\* Not reported for a day, or never.
Lately(b) == b \in DOMAIN seen /\ now - seen[b] <= Day

Note(ids) ==
  /\ seen'  = [b \in DOMAIN seen \union ids |-> IF b \in ids THEN now ELSE seen[b]]
  /\ since' = [b \in DOMAIN seen \union ids |-> IF b \in ids /\ ~Lately(b) THEN now ELSE since[b]]

\* Mutant of markSeen: only a bridge that is new makes the file out of date.
markSeenOnce(recs) ==
  /\ SetTable(idxAll(Table, CodesOf(recs)))
  /\ Note(Reported(recs))
  /\ dirty' = (dirty \/ ~Reported(recs) \subseteq DOMAIN seen)

markSeen(recs) ==
  /\ SetTable(idxAll(Table, CodesOf(recs)))
  /\ Note(Reported(recs))
  /\ dirty' = (dirty \/ \E b \in Reported(recs) : ~Lately(b))

\* What NDW may report: openings that began now or before, with or without an end.
OpenReports ==
  LET Now == [code : Codes, start : {now}, end : {0}]
  IN  {s \in SUBSET Now : Cardinality(s) \in OpenSizes}
PlanReports ==
  LET Soon == [code : Codes, start : {now, now + 1}, end : {now + 2}]
  IN  {s \in SUBSET Soon : Cardinality(s) \in PlanSizes}

setBridgesOpen(recs) ==
  /\ markSeen(recs)
  /\ open' = recs /\ openAt' = now
  /\ UNCHANGED <<now, fisN, fisAt, saved, planned>>

\* The second part of the plan job.
runBridgePlan(recs) ==
  /\ markSeen(recs)
  /\ planned' = recs
  /\ UNCHANGED <<now, fisN, fisAt, saved, open, openAt>>

NeedFIS == fisN = 0 \/ now - fisAt > Day

\* The first part of the plan job: the list of bridges, with new indexes.
loadFISBridges(list) ==
  /\ NeedFIS
  /\ all' = list /\ fisN' = Len(list) /\ fisAt' = now
  /\ byID' = [b \in ToSet(list) |-> CHOOSE i \in DOMAIN list : list[i] = b]
  /\ ndwIdx' = Empty
  /\ UNCHANGED <<now, seen, since, dirty, saved, open, openAt, planned>>

\* saveBridgeState: a write that fails is only logged.
Saved ==
  /\ dirty /\ dirty' = FALSE
  /\ \/ disk' = seen /\ missed' = FALSE
     \/ missed' = TRUE /\ UNCHANGED disk
  /\ UNCHANGED <<now, all, fisN, fisAt, byID, ndwIdx, seen, since, open, openAt, planned>>

\* loadBridgeState takes what is in the file and not too old; the rest is lost.
Loaded == Restrict(disk, {b \in DOMAIN disk : now - disk[b] < Keep})

Restart ==
  /\ all' = <<>> /\ fisN' = 0 /\ fisAt' = -1 /\ byID' = Empty /\ ndwIdx' = Empty
  /\ seen' = Loaded /\ since' = Loaded /\ dirty' = FALSE
  /\ open' = {} /\ openAt' = -1 /\ planned' = {}
  /\ UNCHANGED <<now, saved>>

Tick == now < MaxTime /\ now' = now + 1 /\ UNCHANGED store

-----------------------------------------------------------------------------
(* snapshot: what a visitor with some favourites is shown *)

\* A favourite that is the code of a bridge of the list is that bridge.
Favourites(fav) == {IF c \in DOMAIN ndwIdx THEN all[ndwIdx[c]] ELSE c : c \in fav}

Lapsed(r) == r.start > now \/ now - r.start > OpenMax \/ (r.end > 0 /\ r.end < now)
ShownOpen  == IF openAt < 0 \/ now - openAt >= Fresh THEN {} ELSE {r \in open : ~Lapsed(r)}
ShownPlans == {r \in planned : r.end > now /\ r.start <= now + Day}

\* The table after the openings now and the planned ones were looked up.
After == idxAll(idxAll(Table, CodesOf(ShownOpen)), CodesOf(ShownPlans))

snapshot == SetTable(After) /\ UNCHANGED <<now, fisN, fisAt, seen, since, dirty, saved, open, openAt, planned>>

\* What the answer shows a visitor with these favourites, and which bridges it describes:
\* the favourites the list knew before, and what the openings of other bridges refer to.
\* Openings planned for the same time come in any order, here that of the list.
Answer(fav) ==
  LET after == After
      Id(r) == after.all[IndexIn(after, r.code)]
      mine  == Favourites(fav)
      plans == {[id |-> Id(r), start |-> r.start] : r \in ShownPlans}
      rest  == {p \in plans : p.id \notin mine}
      Sooner(p, q) == p.start < q.start \/ (p.start = q.start /\ after.byID[p.id] < after.byID[q.id])
      opened == {Id(r) : r \in ShownOpen}
      others == {p \in rest : Cardinality({q \in rest : Sooner(q, p)}) < MostPlans}
  IN  [opened  |-> opened,
       favs    |-> {p \in plans : /\ p.id \in mine
                                 /\ Cardinality({q \in plans : q.id = p.id /\ q.start < p.start}) < PerFav},
       others  |-> others,
       bridges |-> (mine \intersect DOMAIN byID) \union opened \union {p.id : p \in others}]

-----------------------------------------------------------------------------
Next ==
  \/ \E recs \in OpenReports : setBridgesOpen(recs)
  \/ \E recs \in PlanReports : runBridgePlan(recs)
  \/ \E list \in Lists : loadFISBridges(list)
  \/ Saved \/ Restart \/ snapshot \/ Tick

Spec == Init /\ [][Next]_vars

-----------------------------------------------------------------------------
(* Every index refers to the bridge it was made for in the list that is there  *)
(* now, although the list is replaced under the feet of the openings           *)
(* (loadFISBridges, idx): otherwise an opening is shown at another bridge, or  *)
(* the handler reads past the end of the list.                                 *)
IndexesValid ==
  /\ IsInjective(all)
  /\ \A b \in DOMAIN byID : byID[b] \in DOMAIN all /\ all[byID[b]] = b
  /\ \A c \in DOMAIN ndwIdx :
       /\ ndwIdx[c] \in DOMAIN all
       /\ all[ndwIdx[c]] = IF \E i \in 1 .. fisN : all[i] = Near[c] THEN Near[c] ELSE c

(* A planned opening of a favourite, asked for by the id of the bridge or by a *)
(* code that was matched with it, never ends up among those of the other       *)
(* bridges, where it may be cut off, and the answer describes every bridge it  *)
(* shows an opening of, but for favourites that only NDW knows (snapshot).     *)
SnapshotComplete ==
  \A i \in Ids :
    LET a == Answer({i}) IN
      /\ \A p \in a.others : p.id # i /\ (i \in DOMAIN ndwIdx => all[ndwIdx[i]] # p.id)
      /\ \A p \in a.favs : p.id \in a.bridges \/ p.id \in Codes
      /\ a.opened \subseteq a.bridges

(* "Bridges NDW has reported are remembered": one is forgotten only by a       *)
(* restart, and then only when a report was not saved yet, the last write      *)
(* failed, or NDW has reported it every day for as long as a bridge is kept.   *)
(* Such a bridge never makes the file out of date, and what the file says of   *)
(* it grows older and older (markSeen, saveBridgeState, loadBridgeState).      *)
Remembered ==
  [][\A b \in DOMAIN seen \ DOMAIN seen' : dirty \/ missed \/ now - since[b] >= Keep]_vars
=============================================================================
