----------------------------- MODULE PanelTables -----------------------------
(* Which sources the server fetches, lists and shows under a configuration.   *)
(* Four tables of the code have to agree and are kept by hand: the jobs       *)
(* (panels.go threatJobs), the sources of /healthz and /metrics (main.go      *)
(* otherFeeds), the panels that the page offers (main.go handleCatalog) and   *)
(* the entries of the state store that each panel's handler reads. A reload   *)
(* replaces the jobs; the store keeps what it holds of a job that is gone.    *)
(* A configuration is the set of its switches: an `enabled', an option of a   *)
(* panel, a key that has been filled in, a provider or advisory that is on.   *)
EXTENDS Naturals, FiniteSets

VARIABLES
  focus,    \* the source a behaviour follows; nothing of the others matters to it
  on,       \* the configuration
  every,    \* the intervals of traffic and of bridges
  jobs,     \* the scheduler's jobs
  running,  \* a run of focus is under way
  has,      \* the store has data of focus
  failing   \* the last run of focus failed

vars == <<focus, on, every, jobs, running, has, failing>>

When(S, T) == IF S \subseteq on THEN T ELSE {}
Keys(table, c) == {row[1] : row \in {r \in table : r[2] \subseteq c}}

------------------------------------------------------------------------------
(* threatJobs: a row has the key of a job and what has to be on.              *)

CyberJobs == {
  <<"isc:infocon", {"threats"}>>, <<"isc:topports", {"threats"}>>, <<"isc:daily", {"threats"}>>,
  <<"isc:topips", {"threats"}>>, <<"abusech:feodo", {"threats"}>>, <<"cisa:kev", {"threats", "kev"}>>,
  <<"nctv", {"nctv"}>>,
  <<"ndw:traffic", {"traffic"}>>, <<"ndw:traffic", {"bridges"}>>, <<"ndw:bridgeplan", {"bridges"}>>,
  <<"energyzero", {"energy"}>>, <<"ec:mix", {"energy", "mix"}>>,
  <<"agsi:storage", {"energy", "gas", "gas_key"}>>,
  <<"nvwa:recalls", {"recalls"}>>, <<"lml:stations", {"air"}>>, <<"lml:lki", {"air"}>>,
  <<"ns:disruptions", {"trains", "ns_key"}>>, <<"rw:nl", {"ransomware", "rw_nl"}>> }

DailyJobs == {
  <<"econ:figures", {"economy"}>>, <<"yahoo:markets", {"markets"}>>, <<"grid:outages", {"utilities"}>>,
  <<"nlalert", {"nlalert"}>>, <<"fuel:gla", {"fuel"}>>, <<"waste:calendar", {"waste", "waste_default"}>>,
  <<"burgernet:amber", {"amber"}>>, <<"icons", {"icons"}>>, <<"eurdep:nl", {"radiation"}>>,
  <<"eumetsat:satellite", {"satellite"}>>, <<"ll2:launches", {"sky", "launches"}>>,
  <<"usgs:world", {"world"}>>, <<"eonet:events", {"world"}>>,
  <<"brandweer:firerisk", {"world", "firerisk"}>>, <<"rws:water", {"world", "water"}>>,
  <<"urlhaus:nl", {"threats", "urlhaus"}>>, <<"threatfox:iocs", {"threats", "threatfox", "abusech_key"}>> }

OtherJobs == {
  <<"exploitdb", {"exploits"}>>, <<"epss:risers", {"exploits"}>>, <<"radar:nl", {"nlthreat", "radar_key"}>>,
  <<"noaa:kp", {"sky"}>>, <<"noaa:space", {"sky", "space"}>>, <<"f1:jolpica", {"sports", "f1"}>>,
  <<"push:watch", {"push"}>>, <<"knmi:quakes", {"quakes"}>>, <<"ioda:internet", {"outages", "internet"}>>,
  <<"rijk:schoolholidays", {"today"}>>, <<"wiki:onthisday", {"today", "onthisday"}>>,
  <<"tk:politics", {"politics"}>>, <<"hibp:breaches", {"breaches"}>>,
  <<"phish:nl", {"breaches", "phishing_nl"}>>, <<"fhd:alerts", {"breaches", "phishing"}>>,
  <<"outage:p", {"outages", "provider"}>>, <<"adv:s", {"advisory"}>> }

p2kJobs == {<<"p2k:city", {"alarms", "counts", "city"}>>}

JobTable == CyberJobs \union DailyJobs \union OtherJobs \union p2kJobs
JobKeys(c)  == Keys(JobTable, c)

\* One download serves traffic and the bridges, at the shorter of their intervals.
TrafficInterval ==
  IF "bridges" \in on /\ ("traffic" \notin on \/ every.bridges < every.traffic)
  THEN every.bridges ELSE every.traffic

------------------------------------------------------------------------------
(* otherFeeds                                                                 *)

FeedTable == {
  <<"isc:infocon", {"threats"}>>, <<"isc:topports", {"threats"}>>, <<"isc:daily", {"threats"}>>,
  <<"isc:topips", {"threats"}>>, <<"abusech:feodo", {"threats"}>>,
  <<"urlhaus:nl", {"threats", "urlhaus"}>>, <<"threatfox:iocs", {"threats", "threatfox", "abusech_key"}>>,
  <<"cisa:kev", {"threats", "kev"}>>, <<"exploitdb", {"exploits"}>>, <<"epss:risers", {"exploits"}>>,
  <<"radar:nl", {"nlthreat", "radar_key"}>>, <<"adv:s", {"advisory"}>>, <<"nctv", {"nctv"}>>,
  <<"p2k:city", {"alarms", "counts", "city"}>>, <<"ndw:traffic", {"traffic"}>>,
  <<"hibp:breaches", {"breaches"}>>, <<"fhd:alerts", {"breaches", "phishing"}>>,
  <<"phish:nl", {"breaches", "phishing_nl"}>>, <<"energyzero", {"energy"}>>, <<"ec:mix", {"energy", "mix"}>>,
  <<"agsi:storage", {"energy", "gas", "gas_key"}>>, <<"nvwa:recalls", {"recalls"}>>,
  <<"lml:stations", {"air"}>>, <<"lml:lki", {"air"}>>, <<"ns:disruptions", {"trains", "ns_key"}>>,
  <<"tk:politics", {"politics"}>>, <<"rijk:schoolholidays", {"today"}>>,
  <<"wiki:onthisday", {"today", "onthisday"}>>, <<"rw:nl", {"ransomware", "rw_nl"}>>,
  <<"grid:outages", {"utilities"}>>, <<"knmi:quakes", {"quakes"}>>, <<"econ:figures", {"economy"}>>,
  <<"yahoo:markets", {"markets"}>>, <<"nlalert", {"nlalert"}>>, <<"fuel:gla", {"fuel"}>>,
  <<"waste:calendar", {"waste", "waste_default"}>>, <<"burgernet:amber", {"amber"}>>,
  <<"eumetsat:satellite", {"satellite"}>>, <<"usgs:world", {"world"}>>, <<"eonet:events", {"world"}>>,
  <<"brandweer:firerisk", {"world", "firerisk"}>>, <<"rws:water", {"world", "water"}>>,
  <<"eurdep:nl", {"radiation"}>>, <<"noaa:kp", {"sky"}>>, <<"noaa:space", {"sky", "space"}>>,
  <<"ll2:launches", {"sky", "launches"}>>, <<"f1:jolpica", {"sports", "f1"}>>,
  <<"ioda:internet", {"outages", "internet"}>>, <<"outage:p", {"outages", "provider"}>> }

\* Mutant of otherFeeds: ThreatFox is listed without a key.
otherFeedsKeyless == Keys(FeedTable \union {<<"threatfox:iocs", {"threats", "threatfox"}>>}, on)

otherFeeds == Keys(FeedTable, on)

------------------------------------------------------------------------------
(* What the page offers (handleCatalog), and the answer of each panel: whether *)
(* it is enabled, the sources whose data it shows when the store has them, and *)
(* the sources whose error it passes on (feedEntry, stateStore.info).          *)

Offered == {
  "threats", "traffic", "outages", "breaches", "energy", "air", "trains", "politics", "today",
  "ransomware", "utilities", "quakes", "economy", "markets", "nlalert", "fuel", "waste", "amber",
  "satellite", "radiation", "sky", "world", "sports", "bridges", "recalls" }

handleCatalog == Offered \intersect on

Answer(enabled, shows, tells) ==
  [enabled |-> enabled, shows |-> IF enabled THEN shows ELSE {}, tells |-> IF enabled THEN tells ELSE {}]

\* The usual handler: one source, with its status next to the data.
Panel(switch, sources) == Answer(switch \in on, sources, sources)

handleThreats ==
  LET parts == When({"kev"}, {"cisa:kev"}) \union When({"urlhaus"}, {"urlhaus:nl"})
                 \union When({"threatfox", "abusech_key"}, {"threatfox:iocs"})
  IN  Answer("threats" \in on,
             {"isc:infocon", "isc:topports", "isc:daily", "isc:topips", "abusech:feodo"} \union parts,
             {"isc:topports", "isc:daily", "abusech:feodo"} \union parts)

handleAdvisories == Panel("advisory", {"adv:s"})

handleAlerts ==
  LET parts == When({"nctv"}, {"nctv"}) \union When({"world", "water"}, {"rws:water"})
  IN  Answer(TRUE, parts, parts)

handleTraffic  == Panel("traffic", {"ndw:traffic"})
handleBreaches == Panel("breaches", {"hibp:breaches"}
                    \union When({"phishing"}, {"fhd:alerts"}) \union When({"phishing_nl"}, {"phish:nl"}))
handleOutages  == Panel("outages", When({"provider"}, {"outage:p"}) \union When({"internet"}, {"ioda:internet"}))
handleEnergy   == Panel("energy", {"energyzero"} \union When({"mix"}, {"ec:mix"})
                    \union When({"gas", "gas_key"}, {"agsi:storage"}))

\* The stations are only heard of when there are none.
handleAir       == Answer("air" \in on, {"lml:stations", "lml:lki"}, {"lml:lki"})
handleTrains    == Panel("trains", When({"ns_key"}, {"ns:disruptions"}))
handlePolitics  == Panel("politics", {"tk:politics"})
handleToday     == Panel("today", {"rijk:schoolholidays"} \union When({"onthisday"}, {"wiki:onthisday"}))
handleRansomware == Panel("ransomware", When({"rw_nl"}, {"rw:nl"}))
handleUtilities == Panel("utilities", {"grid:outages"})
handleQuakes    == Panel("quakes", {"knmi:quakes"})
handleEconomy   == Panel("economy", {"econ:figures"})
handleMarkets   == Panel("markets", {"yahoo:markets"})
handleAmber     == Panel("amber", {"burgernet:amber"})
handleRecalls   == Panel("recalls", {"nvwa:recalls"})
handleNLAlert   == Panel("nlalert", {"nlalert"})
handleFuel      == Panel("fuel", {"fuel:gla"})
handleWaste     == Panel("waste", When({"waste_default"}, {"waste:calendar"}))
handleRadiation == Panel("radiation", {"eurdep:nl"})
handleSatellite == Panel("satellite", {"eumetsat:satellite"})
handleSports    == Panel("sports", When({"f1"}, {"f1:jolpica"}))
handleWorld     == Panel("world", {"usgs:world", "eonet:events"} \union When({"firerisk"}, {"brandweer:firerisk"}))

\* The risers of EPSS are marked with what the catalogue of CISA last held.
handleExploits == Answer("exploits" \in on, {"exploitdb", "epss:risers", "cisa:kev"}, {"exploitdb", "epss:risers"})

\* With no token the entry is there, without data.
handleNLThreat == Panel("nlthreat", When({"radar_key"}, {"radar:nl"}))

\* Of the northern lights only the time of the last answer is passed on.
handleSky ==
  LET parts == When({"launches"}, {"ll2:launches"}) \union When({"space"}, {"noaa:space"})
  IN  Answer("sky" \in on, {"noaa:kp"} \union parts, parts)

\* The open bridges come out of the traffic download.
handleBridges == Answer("bridges" \in on, {"ndw:traffic", "ndw:bridgeplan"}, {"ndw:bridgeplan"})

Panels == [
  threats |-> handleThreats, advisories |-> handleAdvisories, alerts |-> handleAlerts,
  traffic |-> handleTraffic, breaches |-> handleBreaches, outages |-> handleOutages,
  energy |-> handleEnergy, air |-> handleAir, trains |-> handleTrains, politics |-> handlePolitics,
  today |-> handleToday, ransomware |-> handleRansomware, utilities |-> handleUtilities,
  quakes |-> handleQuakes, economy |-> handleEconomy, markets |-> handleMarkets,
  amber |-> handleAmber, recalls |-> handleRecalls, nlalert |-> handleNLAlert, fuel |-> handleFuel,
  waste |-> handleWaste, radiation |-> handleRadiation, satellite |-> handleSatellite,
  sports |-> handleSports, world |-> handleWorld, exploits |-> handleExploits,
  nlthreat |-> handleNLThreat, sky |-> handleSky, bridges |-> handleBridges ]

------------------------------------------------------------------------------
(* The switches that decide over the source followed: those of its rows, and   *)
(* the panels that show it. The others are off.                                *)
Sources == {row[1] : row \in JobTable}

Relevant == UNION {row[2] : row \in {r \in JobTable : r[1] = focus}}
              \union (IF focus = "cisa:kev" THEN {"exploits"} ELSE {})

TypeOK ==
  /\ focus \in Sources /\ on \subseteq Relevant
  /\ every \in [traffic : 1 .. 2, bridges : 1 .. 2]
  /\ jobs \subseteq Sources
  /\ running \in BOOLEAN /\ has \in BOOLEAN /\ failing \in BOOLEAN

Init ==
  /\ focus \in Sources /\ on \in SUBSET Relevant
  /\ every \in [traffic : 1 .. 2, bridges : 1 .. 2]
  /\ focus # "ndw:traffic" => every = [traffic |-> 1, bridges |-> 1]
  /\ jobs = JobKeys(on) /\ running = FALSE /\ has = FALSE /\ failing = FALSE

\* applyConfig, Scheduler.Set: a job that goes leaves its data, and the run that
\* is under way; one that stays keeps its time.
Reload ==
  /\ on' \in SUBSET Relevant /\ jobs' = JobKeys(on')
  /\ UNCHANGED <<focus, every, running, has, failing>>

Start ==
  /\ focus \in jobs /\ ~running /\ running' = TRUE
  /\ UNCHANGED <<focus, on, every, jobs, has, failing>>

\* stateStore.ok and stateStore.fail.
Succeed ==
  /\ running /\ running' = FALSE /\ has' = TRUE /\ failing' = FALSE
  /\ UNCHANGED <<focus, on, every, jobs>>

Fail ==
  /\ running /\ running' = FALSE /\ failing' = TRUE
  /\ UNCHANGED <<focus, on, every, jobs, has>>

Next == Reload \/ Start \/ Succeed \/ Fail
Spec == Init /\ [][Next]_vars

------------------------------------------------------------------------------
\* What a panel shows of the source that is followed.
Shown(p) == Panels[p].shows \intersect {k \in {focus} : has}

\* Every source that /healthz and /metrics list is fetched, so that its status is
\* not that of a job which is gone, and every source is listed but the ones which
\* are no source of data of their own (main_test.go TestEveryFeedHasAJob; README:
\* "/healthz returns 200 with the status of every source"). Left out by the code:
\* the plan of the bridges, and the traffic download when only bridges want it.
ListsAgree ==
  /\ otherFeeds \subseteq jobs
  /\ jobs \ otherFeeds \subseteq {"icons", "push:watch", "ndw:bridgeplan"}
                                   \union When({"bridges"}, {"ndw:traffic"})

\* The page offers a panel exactly when its handler answers with data.
OfferIsKept == \A p \in Offered : p \in handleCatalog <=> Panels[p].enabled

\* Nothing on the page comes from a job that a reload has ended, but for the mark
\* which the exploits panel takes from the catalogue of CISA.
ShownIsFetched ==
  \A p \in DOMAIN Panels : \A k \in Shown(p) : k \in jobs \/ <<p, k>> = <<"exploits", "cisa:kev">>

\* Data of a source that fails now is shown with its error, but in these places
\* (README: "per source ok or niet bereikbaar").
Silent == {<<"threats", "isc:infocon">>, <<"threats", "isc:topips">>, <<"air", "lml:stations">>,
           <<"exploits", "cisa:kev">>, <<"sky", "noaa:kp">>, <<"bridges", "ndw:traffic">>}

StaleIsSaid ==
  failing => \A p \in DOMAIN Panels : \A k \in Shown(p) : k \in Panels[p].tells \/ <<p, k>> \in Silent

\* Whoever is shown the traffic download has it as often as its own interval says.
OftenEnough ==
  \A s \in {"traffic", "bridges"} \intersect on : TrafficInterval <= every[s]

TablesAgree == ListsAgree /\ OfferIsKept /\ ShownIsFetched /\ StaleIsSaid /\ OftenEnough

=============================================================================
