------------------------------ MODULE WatchRules -----------------------------
(* What a run of the watcher takes for news (push.go runPushWatch and the      *)
(* functions it calls; alarmwatch.go, radiation.go, knmiSummary): each kind of *)
(* event has a memory of its own in pushState, and a message goes out for a    *)
(* change since the last run. The kinds share nothing but st.Init, so that a   *)
(* behaviour follows one of them, the `rule'; PushHub has what becomes of a    *)
(* message. What is remembered stays remembered: the forgetting of entries of  *)
(* 60 days and more (of stories, 72 hours) is left out.                        *)
EXTENDS Integers, Sequences, FiniteSets, FiniteSetsExt, Functions

CONSTANTS
  Levels,        \* threat levels of the NCTV
  Codes,         \* codes of a water sector
  Stations,      \* radiation stations
  AlertStations, \* stations that make an episode (radiation.alert_stations)
  Articles,      \* articles, as positive numbers
  Need,          \* articles that make a story (push.breaking_sources)
  Days, Hours,   \* when the watcher can run
  WasteHour,     \* push.waste_hour
  None,          \* nothing has been fetched, or nothing known
  MaxRuns        \* bound of the model

\* What a run can find, for each kind of event.
Findings(r) ==
  CASE r = "nctv"      -> Levels
    [] r = "nlalert"   -> {"absent", "waiting", "active"}
    [] r = "amber"     -> {"absent", "listed"}
    [] r = "radiation" -> [Stations -> {"old", "low", "high"}]
    [] r = "water"     -> [code : Codes, open : BOOLEAN]
    [] r = "quake"     -> {"absent", "unsized", "small", "big", "late"}
    [] r = "knmi"      -> SUBSET (1 .. 3)
    [] r = "alarm"     -> [alert : {"absent", "old", "calm", "urgent"}, rules : SUBSET {"any", "urgent"}]
    [] r = "story"     -> UNION {[g -> {0, 4}] : g \in SUBSET Articles}
    [] r = "waste"     -> [day : Days, hour : Hours]

Rules == {"nctv", "nlalert", "amber", "radiation", "water", "quake", "knmi",
          "alarm", "story", "waste"}

WatchRulesAssumption ==
  /\ Levels \subseteq 1 .. 9 /\ Codes \subseteq 1 .. 4
  /\ Days \subseteq Nat \ {0} /\ Hours \subseteq 0 .. 23 /\ MaxRuns \in Nat
  /\ \A r \in Rules : \A o \in Findings(r) : o # None

VARIABLES
  rule,    \* the kind of event
  init,    \* st.Init
  level,   \* st.NCTV, st.KNMI or st.WasteDay
  keys,    \* st.Alerts, st.Quakes or st.Stories
  obs,     \* history: what each run found
  told     \* history: whether it made a message of it

vars == <<rule, init, level, keys, obs, told>>

TypeOK ==
  /\ rule \in Rules /\ init \in BOOLEAN /\ level \in 0 .. 9 \union Days
  /\ keys \subseteq {"event", "barrier"} \X {0} \union {"sector"} \X Codes \union {"story"} \X Articles
  /\ told \in Seq(BOOLEAN) /\ Len(obs) = Len(told) /\ Len(told) <= MaxRuns

Init ==
  /\ rule \in Rules /\ init = FALSE /\ level = 0 /\ keys = {}
  /\ obs = <<>> /\ told = <<>>

\* A run found o; message says whether it goes out if this is not the first run.
Run(o, message) ==
  /\ Len(obs) < MaxRuns /\ init' = TRUE
  /\ obs' = Append(obs, o) /\ told' = Append(told, init /\ message)
  /\ UNCHANGED rule

Event == <<"event", 0>>
Remember(new) == keys' = keys \union new /\ UNCHANGED level

------------------------------------------------------------------------------
\* The last fetch failed, or there has been none.
Missed ==
  /\ rule \in {"nctv", "radiation", "water", "knmi"}
  /\ Run(None, FALSE) /\ UNCHANGED <<level, keys>>

NCTV == rule = "nctv" /\ \E v \in Findings("nctv") :
  /\ Run(v, level > 0 /\ v # level)
  /\ level' = v /\ UNCHANGED keys

\* An alert is looked at when it is first listed, whether it is active yet or not.
NLAlert == rule = "nlalert" /\ \E o \in Findings("nlalert") :
  /\ Run(o, Event \notin keys /\ o = "active")
  /\ Remember(IF o = "absent" THEN {} ELSE {Event})

Amber == rule = "amber" /\ \E o \in Findings("amber") :
  /\ Run(o, Event \notin keys /\ o = "listed")
  /\ Remember(IF o = "absent" THEN {} ELSE {Event})

\* summarizeRadiation: only stations with a value of the last 12 hours count,
\* and without any there is no news. An episode that ends can come again.
Fresh(o)  == {s \in Stations : o[s] # "old"}
Raised(o) == Cardinality({s \in Stations : o[s] = "high"}) >= AlertStations

Radiation == rule = "radiation" /\ \E o \in Findings("radiation") :
  /\ Run(o, Fresh(o) # {} /\ Raised(o) /\ Event \notin keys)
  /\ keys' = (IF Fresh(o) = {} THEN keys ELSE {e \in {Event} : Raised(o)})
  /\ UNCHANGED level

\* waterPush: sectors at code 3 or 4 and closed barriers; one message for all
\* that is new, and what is over is forgotten.
Current(o) ==
  {<<"sector", c>> : c \in {o.code} \ {1, 2}} \union {<<"barrier", 0>> : c \in {o.open} \ {TRUE}}

\* Mutant of WaterKeys: what is over stays.
WaterKeysKept(o) == keys \union Current(o)

WaterKeys(o) == Current(o)

Water == rule = "water" /\ \E o \in Findings("water") :
  /\ Run(o, ~ (Current(o) \subseteq keys))
  /\ keys' = WaterKeys(o) /\ UNCHANGED level

\* An earthquake is judged when it is first listed: its magnitude and its age.
Quake == rule = "quake" /\ \E o \in Findings("quake") :
  /\ Run(o, Event \notin keys /\ o = "big")
  /\ Remember(IF o = "absent" THEN {} ELSE {Event})

\* The highest of the codes: 0 for none, 1 yellow, 2 orange, 3 red.
knmiSummary(ws) == Max(ws \union {0})

KNMI == rule = "knmi" /\ \E ws \in Findings("knmi") :
  /\ Run(ws, knmiSummary(ws) >= 2 /\ knmiSummary(ws) > level)
  /\ level' = knmiSummary(ws) /\ UNCHANGED keys

\* An alert of the past half hour in a street that somebody watches. The rules
\* are those of all subscribers together and change between runs.
matchAlarms(o) == o.alert \in {"calm", "urgent"} /\ {"any", o.alert} \intersect o.rules # {}

alarmWatchPush == rule = "alarm" /\ \E o \in Findings("alarm") :
  /\ Run(o, Event \notin keys /\ matchAlarms(o))
  /\ Remember({e \in {Event} : matchAlarms(o)})

\* breakingPush: a group of articles, as the two groupings leave it (NewsMerge),
\* with their ages in half hours. It is news if the Need'th came within an hour of
\* the first and in the past half hour.
StoryKeys(o) == {<<"story", x>> : x \in DOMAIN o}
Big(o) == Cardinality(DOMAIN o) >= Need

Timely(o) ==
  LET nth == Max({n \in Range(o) : Cardinality({x \in DOMAIN o : o[x] >= n}) >= Need})
  IN  Max(Range(o)) - nth <= 2 /\ nth <= 1

breakingPush == rule = "story" /\ \E o \in Findings("story") :
  /\ Run(o, Big(o) /\ StoryKeys(o) \intersect keys = {} /\ Timely(o))
  /\ Remember(IF Big(o) THEN StoryKeys(o) ELSE {})

\* The reminder goes out in the first run of its hour, be it the very first run.
InOrder(o) ==
  \A p \in Range(obs) : p.day < o.day \/ (p.day = o.day /\ p.hour <= o.hour)

Waste == rule = "waste" /\ \E o \in Findings("waste") :
  LET due == o.hour = WasteHour /\ level # o.day IN
  /\ Len(obs) < MaxRuns /\ InOrder(o)
  /\ init' = TRUE /\ level' = (IF due THEN o.day ELSE level)
  /\ obs' = Append(obs, o) /\ told' = Append(told, due)
  /\ UNCHANGED <<rule, keys>>

Next ==
  \/ Missed \/ NCTV \/ NLAlert \/ Amber \/ Radiation \/ Water \/ Quake \/ KNMI
  \/ alarmWatchPush \/ breakingPush \/ Waste

Spec == Init /\ [][Next]_vars

------------------------------------------------------------------------------
\* What the history s of the runs of rule r calls for, without the memory the
\* code keeps.

Before(s, i, Test(_)) == \E j \in 1 .. i - 1 : Test(s[j])

\* What was known before run i: the last of the earlier runs which passes Test.
Known(s, i, Test(_)) ==
  {s[k] : k \in {k \in 1 .. i - 1 : Test(s[k]) /\ \A l \in k + 1 .. i - 1 : ~ Test(s[l])}}

Fetched(o)  == o # None
Measured(o) == IF o = None THEN FALSE ELSE Fresh(o) # {}

Changed(r, s, i) ==
  LET o == s[i] IN
  CASE r = "nctv"      -> \E p \in Known(s, i, Fetched) : p # o
    [] r = "nlalert"   -> o = "active" /\ ~ Before(s, i, LAMBDA p : p # "absent")
    [] r = "amber"     -> o = "listed" /\ ~ Before(s, i, LAMBDA p : p = "listed")
    [] r = "quake"     -> o = "big" /\ ~ Before(s, i, LAMBDA p : p # "absent")
    [] r = "radiation" -> Measured(o) /\ Raised(o) /\ \A p \in Known(s, i, Measured) : ~ Raised(p)
    [] r = "water"     -> \/ o.code >= 3 /\ \A p \in Known(s, i, Fetched) : p.code # o.code
                          \/ ~ o.open /\ \A p \in Known(s, i, Fetched) : p.open
    [] r = "knmi"      -> \E c \in o \ {1} : \A p \in Known(s, i, Fetched) : \A d \in p : d < c
    [] r = "alarm"     -> matchAlarms(o) /\ ~ Before(s, i, matchAlarms)
    [] r = "story"     -> /\ Big(o) /\ Timely(o)
                          /\ ~ Before(s, i, LAMBDA p : Big(p) /\ DOMAIN p \intersect DOMAIN o # {})

CalledFor(r, s, i) ==
  IF r = "waste" THEN s[i].hour = WasteHour /\ ~ Before(s, i, LAMBDA p : p = s[i])
  ELSE i > 1 /\ s[i] # None /\ Changed(r, s, i)

\* A message goes out exactly when the history of what the runs found calls for
\* one: for each change, once, and again for an episode that returns; never for
\* the state of the first run (runPushWatch: "The first run only records the
\* current state, so a restart never replays old events"). A run in which a
\* source failed is no change, nor is the first answer of the NCTV; of the other
\* sources, the first answer that comes after the first run is one.
AsTheHistorySays == \A i \in DOMAIN told : told[i] <=> CalledFor(rule, obs, i)

=============================================================================
