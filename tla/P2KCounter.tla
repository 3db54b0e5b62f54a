----------------------------- MODULE P2KCounter -----------------------------
(* The P2000 counts of the top bar (panels.go p2kCounter): one city feed that *)
(* holds its newest alerts, polled now and then; the ids seen are kept, and a *)
(* count over the last hour is called complete when the polls leave no gap.   *)
(* Time is in ticks from 1 on; at most one alert is raised per tick, and its  *)
(* time is its id.  The services, which only split the count, are left out.   *)
EXTENDS Integers, FiniteSets, FiniteSetsExt

CONSTANTS
  Room,      \* alerts a feed holds (50)
  Hour,      \* ticks in the counted window
  Recent,    \* ticks a poll stays recent enough (15 minutes)
  MaxTime,   \* bound: the last tick
  Latency,   \* can time pass between the feed's answer and add?
  None

P2KCounterAssumption ==
  /\ Room \in Nat \ {0} /\ Hour \in Nat \ {0} /\ Recent \in Nat \ {0} /\ MaxTime \in Nat \ {0}
  /\ Latency \in BOOLEAN

VARIABLES
  now,
  alerts,     \* the times at which the area had an alert
  answer,     \* the feed a poll received and has not added yet
  asked,      \* when the feed gave that answer
  polled,     \* when the feed gave the answer added last
  seen,       \* c.seen
  covered,    \* c.covered, 0 for the zero time
  lastFetch   \* c.lastFetch, 0 for the zero time

vars == <<now, alerts, answer, asked, polled, seen, covered, lastFetch>>
Times == 1 .. MaxTime

Feed == {t \in alerts : Cardinality({u \in alerts : u > t}) < Room}

TypeOK ==
  /\ now \in Times /\ alerts \subseteq 1 .. now
  /\ answer \in (SUBSET alerts) \union {None}
  /\ asked \in 0 .. now /\ polled \in 0 .. asked
  /\ seen \subseteq alerts /\ \A t \in seen : lastFetch - t <= 2 * Hour
  /\ covered \in 0 .. now /\ lastFetch \in 0 .. now

Init ==
  /\ now = 1 /\ alerts = {} /\ answer = None /\ asked = 0 /\ polled = 0
  /\ seen = {} /\ covered = 0 /\ lastFetch = 0

Tick ==
  /\ now < MaxTime /\ (Latency \/ answer = None)
  /\ now' = now + 1
  /\ UNCHANGED <<alerts, answer, asked, polled, seen, covered, lastFetch>>

\* A feed shows an alert from the tick it is raised; a poll in the same tick sees it.
Raise ==
  /\ now \notin alerts /\ asked < now
  /\ alerts' = alerts \union {now}
  /\ UNCHANGED <<now, answer, asked, polled, seen, covered, lastFetch>>

\* fetchAlarmFeed reads the feed.
Poll ==
  /\ answer = None
  /\ answer' = Feed /\ asked' = now
  /\ UNCHANGED <<now, alerts, polled, seen, covered, lastFetch>>

Fail ==
  /\ answer # None
  /\ answer' = None
  /\ UNCHANGED <<now, alerts, asked, polled, seen, covered, lastFetch>>

\* Mutant of Add: a full feed is not taken for a gap.
AddTrusting ==
  LET oldest == Min(answer \union {now})
  IN  /\ answer # None
      /\ covered' = IF lastFetch = 0 /\ Cardinality(answer) >= Room THEN oldest ELSE covered
      /\ seen' = {t \in seen \union answer : now - t <= 2 * Hour}
      /\ lastFetch' = now /\ polled' = asked /\ answer' = None
      /\ UNCHANGED <<now, alerts, asked>>

\* Mutant of Add: alerts are never dropped, and no gap is looked for.
AddKeepsAll ==
  /\ answer # None
  /\ seen' = seen \union answer
  /\ lastFetch' = now /\ polled' = asked /\ answer' = None
  /\ UNCHANGED <<now, alerts, asked, covered>>

\* c.add(items, time.Now()): the time is taken when the answer is in.
Add ==
  LET oldest == Min(answer \union {now})
      full   == Cardinality(answer) >= Room
  IN  /\ answer # None
      /\ covered' = IF full /\ (lastFetch = 0 \/ oldest > lastFetch) THEN oldest
                    ELSE IF lastFetch = 0 THEN 0 ELSE covered
      /\ seen' = {t \in seen \union answer : now - t <= 2 * Hour}
      /\ lastFetch' = now /\ polled' = asked /\ answer' = None
      /\ UNCHANGED <<now, alerts, asked>>

Next == Tick \/ Raise \/ Poll \/ Fail \/ Add
Spec == Init /\ [][Next]_vars

\* count: the alerts of the hour before now, and whether they are all of them.
Window   == {t \in Times : t > now - Hour /\ t <= now}
Counted  == seen \intersect Window
Complete == lastFetch # 0 /\ covered <= now - Hour /\ now - lastFetch < Recent

-----------------------------------------------------------------------------
(* A count called complete misses no alert the feed had shown by the last poll *)
(* ("complete only when the polls cover the whole hour without a gap"): polls *)
(* may fail, come late, and find a feed that has dropped alerts.              *)
CompleteIsExact ==
  Complete => Counted = {t \in alerts \intersect Window : t <= polled}
=============================================================================
