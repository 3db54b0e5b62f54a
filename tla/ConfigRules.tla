----------------------------- MODULE ConfigRules -----------------------------
(* What a configuration has to pass before it runs (main.go parseConfig,       *)
(* applyEnv, validate), next to what is done with the settings once it runs    *)
(* (panels.go threatJobs, p2kJobs and the handlers). The two are tables kept   *)
(* by hand: a setting is looked at when certain switches are on, and is used   *)
(* when certain switches are on. A behaviour follows one setting, which is     *)
(* good or bad (no URL, an interval below the minimum that its source asks     *)
(* for, a number out of range); of the switches, those that matter to it.      *)
EXTENDS FiniteSets

VARIABLES
  focus,  \* the setting
  file,   \* what config.yaml says now
  env,    \* the environment of the process
  cfg     \* the configuration that runs

vars == <<focus, file, env, cfg>>

------------------------------------------------------------------------------
(* validate: the settings of a row are looked at when all its switches are on. *)

GeneralChecks == {
  <<{"refresh", "server.listen", "server.log_level", "server.trusted_proxies", "fetch.user_agent",
     "fetch.default_interval", "fetch.timeout", "fetch.max_concurrent", "cache.max_items_per_source",
     "cache.max_age", "weather.location", "weather.interval", "weather.meteoalarm",
     "threats.interval", "threats.daily_interval"}, {}>>,
  <<{"nctv.url", "nctv.interval"}, {"nctv"}>>,
  <<{"traffic.url", "traffic.vild_base", "traffic.interval"}, {"traffic"}>>,
  <<{"traffic.url", "bridges.planned_url", "bridges.interval", "bridges.planned_interval"}, {"bridges"}>>,
  <<{"bridges.names_url"}, {"bridges", "names"}>>,
  <<{"alarms.city", "alarms.base", "alarms.interval"}, {"alarms"}>>,
  <<{"counts.interval", "counts.cities"}, {"counts"}>>,
  <<{"threats.urlhaus_url"}, {"threats", "urlhaus"}>>,
  <<{"threats.threatfox_url"}, {"threats", "threatfox"}>>,
  <<{"exploits.exploitdb_url", "exploits.epss_url"}, {"exploits"}>>,
  <<{"nlthreat.radar_url", "nlthreat.country", "nlthreat.interval"}, {"nlthreat"}>>,
  <<{"energy.interval", "energy.url", "energy.vat"}, {"energy"}>>,
  <<{"air.interval", "air.base", "air.stations_url"}, {"air"}>>,
  <<{"trains.interval", "trains.url"}, {"trains"}>>,
  <<{"ransomware.interval", "ransomware.base", "ransomware.countries"}, {"ransomware"}>> }

PanelChecks == {
  <<{"economy.interval", "economy.urls"}, {"economy"}>>,
  <<{"energy.mix_url"}, {"energy", "mix"}>>, <<{"energy.gas_url"}, {"energy", "gas"}>>,
  <<{"energy.grid_url"}, {"energy", "grid"}>>,
  <<{"breaches.phish_urls", "breaches.brands"}, {"breaches", "phishing_nl"}>>,
  <<{"adsb.url"}, {"adsb"}>>, <<{"recalls.url", "recalls.interval"}, {"recalls"}>>,
  <<{"notices.url", "notices.days", "notices.radius", "notices.ttl"}, {"notices"}>>,
  <<{"markets.interval", "markets.url", "markets.symbols"}, {"markets"}>>,
  <<{"pollen.url"}, {"pollen"}>>,
  <<{"utilities.interval", "utilities.urls"}, {"utilities"}>>,
  <<{"quakes.interval", "quakes.url", "quakes.days"}, {"quakes"}>>,
  <<{"nlalert.interval", "nlalert.url"}, {"nlalert"}>>, <<{"fuel.interval", "fuel.url"}, {"fuel"}>>,
  <<{"waste.interval", "waste.providers"}, {"waste"}>>, <<{"waste.address"}, {"waste", "address"}>>,
  <<{"waste.ics_url"}, {"waste", "ics"}>>, <<{"waste.home_assistant"}, {"waste", "ha"}>>,
  <<{"wikipedia.url"}, {"wikipedia"}>> }

OtherChecks == {
  <<{"satellite.url", "satellite.layer", "satellite.interval"}, {"satellite"}>>,
  <<{"amber.interval", "amber.url"}, {"amber"}>>,
  <<{"radiation.url", "radiation.interval", "radiation.alert"}, {"radiation"}>>,
  <<{"solar.url", "solar.plant"}, {"solar"}>>, <<{"insects.url"}, {"insects"}>>,
  <<{"sky.kp_url", "sky.clouds_url"}, {"sky"}>>, <<{"sky.launches_url"}, {"sky", "launches"}>>,
  <<{"world.usgs_url", "world.eonet_url", "world.thresholds", "world.hours", "world.interval"}, {"world"}>>,
  <<{"world.firerisk_url"}, {"world", "firerisk"}>>, <<{"world.water_url"}, {"world", "water"}>>,
  <<{"sky.space_url"}, {"sky", "space"}>>, <<{"sky.launches_hours"}, {"launches"}>>,
  <<{"sports.interval", "sports.f1_url", "sports.events"}, {"sports"}>>,
  <<{"push.key", "push.subject", "push.limits"}, {"push"}>>,
  <<{"internet.interval", "internet.base", "internet.networks"}, {"outages", "internet"}>>,
  <<{"today.wiki_url"}, {"today", "onthisday"}>>, <<{"breaches.phishing_url"}, {"breaches", "phishing"}>>,
  <<{"weather.tides_url", "weather.marine_url"}, {"sea"}>>, <<{"today.school_url"}, {"today"}>>,
  <<{"politics.interval", "politics.base"}, {"politics"}>>,
  <<{"breaches.interval", "breaches.url"}, {"breaches"}>>,
  <<{"outages.interval", "outages.providers"}, {}>>, <<{"advisories.url"}, {"advisory"}>>,
  <<{"advisories.interval", "categories", "sources.id", "presets"}, {}>>,
  <<{"sources.url"}, {"source"}>>, <<{"sources.interval", "sources.max_age"}, {}>> }

Checks   == GeneralChecks \union PanelChecks \union OtherChecks
Settings == UNION {row[1] : row \in Checks}

Uses(table, setting, on) == \E row \in table : setting \in row[1] /\ row[2] \subseteq on

validate(c) == c.bad => ~ Uses(Checks, focus, c.on)

------------------------------------------------------------------------------
(* What the running server does: the jobs, and then the handlers that fetch.   *)

JobUses == {
  <<{"threats.interval", "threats.daily_interval"}, {"threats"}>>,
  <<{"threats.urlhaus_url"}, {"threats", "urlhaus"}>>,
  <<{"threats.threatfox_url"}, {"threats", "threatfox", "abusech_key"}>>,
  <<{"nctv.url", "nctv.interval"}, {"nctv"}>>,
  <<{"traffic.url", "traffic.vild_base", "traffic.interval"}, {"traffic"}>>,
  <<{"traffic.url", "traffic.vild_base", "bridges.interval", "bridges.planned_url",
     "bridges.planned_interval"}, {"bridges"}>>,
  <<{"bridges.names_url"}, {"bridges", "names"}>>,
  <<{"energy.url", "energy.vat", "energy.interval"}, {"energy"}>>, <<{"energy.mix_url"}, {"energy", "mix"}>>,
  <<{"energy.gas_url"}, {"energy", "gas", "gas_key"}>>, <<{"recalls.url", "recalls.interval"}, {"recalls"}>>,
  <<{"air.stations_url", "air.base", "air.interval"}, {"air"}>>,
  <<{"trains.url", "trains.interval"}, {"trains", "ns_key"}>>,
  <<{"ransomware.base", "ransomware.countries", "ransomware.interval"}, {"ransomware"}>>,
  <<{"economy.urls", "economy.interval"}, {"economy"}>>,
  <<{"markets.url", "markets.symbols", "markets.interval"}, {"markets"}>>,
  <<{"utilities.urls", "utilities.interval"}, {"utilities"}>>,
  <<{"nlalert.url", "nlalert.interval"}, {"nlalert"}>>, <<{"fuel.url", "fuel.interval"}, {"fuel"}>>,
  <<{"waste.interval", "waste.providers", "waste.address"}, {"waste", "address"}>>,
  <<{"waste.interval", "waste.ics_url"}, {"waste", "ics"}>>,
  <<{"waste.interval", "waste.home_assistant"}, {"waste", "ha"}>>,
  <<{"amber.url", "amber.interval"}, {"amber"}>>,
  <<{"radiation.url", "radiation.interval", "radiation.alert"}, {"radiation"}>>,
  <<{"satellite.url", "satellite.layer", "satellite.interval"}, {"satellite"}>>,
  <<{"sky.launches_url"}, {"sky", "launches"}>>,
  <<{"world.usgs_url", "world.eonet_url", "world.thresholds", "world.interval"}, {"world"}>>,
  <<{"world.firerisk_url"}, {"world", "firerisk"}>>, <<{"world.water_url"}, {"world", "water"}>>,
  <<{"exploits.exploitdb_url", "exploits.epss_url"}, {"exploits"}>>,
  <<{"nlthreat.radar_url", "nlthreat.country", "nlthreat.interval"}, {"nlthreat", "radar_key"}>>,
  <<{"sky.kp_url"}, {"sky"}>>, <<{"sky.space_url"}, {"sky", "space"}>>,
  <<{"sports.f1_url", "sports.interval"}, {"sports", "f1"}>>,
  <<{"push.key", "push.subject", "push.limits"}, {"push"}>>,
  <<{"quakes.url", "quakes.days", "quakes.interval"}, {"quakes"}>>,
  <<{"internet.base", "internet.networks", "internet.interval"}, {"outages", "internet"}>>,
  <<{"today.school_url"}, {"today"}>>, <<{"today.wiki_url"}, {"today", "onthisday"}>>,
  <<{"politics.base", "politics.interval"}, {"politics"}>>,
  <<{"breaches.url", "breaches.interval"}, {"breaches"}>>,
  <<{"breaches.phish_urls", "breaches.brands"}, {"breaches", "phishing_nl"}>>,
  <<{"breaches.phishing_url"}, {"breaches", "phishing"}>>,
  <<{"outages.interval", "outages.providers"}, {"outages", "provider"}>>,
  <<{"advisories.url", "advisories.interval"}, {"advisory"}>>,
  <<{"counts.interval", "counts.cities", "alarms.base"}, {"alarms", "counts"}>>,
  <<{"sources.url", "sources.interval", "sources.max_age"}, {"source"}>>,
  <<{"fetch.default_interval", "fetch.timeout", "fetch.max_concurrent", "fetch.user_agent"}, {}>> }

HandlerUses == {
  <<{"weather.location", "weather.interval", "weather.meteoalarm", "refresh"}, {}>>,
  <<{"weather.tides_url", "weather.marine_url"}, {"sea"}>>,
  <<{"alarms.city", "alarms.base", "alarms.interval"}, {"alarms"}>>,
  <<{"energy.grid_url"}, {"energy", "grid"}>>, <<{"pollen.url"}, {"pollen"}>>,
  <<{"notices.url", "notices.days", "notices.radius", "notices.ttl"}, {"notices"}>>,
  <<{"insects.url"}, {"insects"}>>, <<{"solar.url", "solar.plant"}, {"solar"}>>,
  <<{"sky.clouds_url"}, {"sky"}>>, <<{"sky.launches_hours"}, {"sky", "launches"}>>,
  <<{"world.hours"}, {"world"}>>, <<{"sports.events"}, {"sports"}>>, <<{"adsb.url"}, {"adsb"}>>,
  <<{"waste.providers"}, {"waste"}>>, <<{"wikipedia.url"}, {"trending", "wikipedia"}>> }

InUse(setting, on) == Uses(JobUses \union HandlerUses, setting, on)

------------------------------------------------------------------------------
\* The switches that decide whether the setting is looked at or used.
Relevant ==
  UNION {row[2] : row \in {r \in Checks \union JobUses \union HandlerUses : focus \in r[1]}}

KeySwitches == {"abusech_key", "gas_key", "ns_key", "radar_key"}
FromEnv == {"server.listen", "server.log_level", "server.trusted_proxies", "fetch.user_agent",
            "push.key"}

Configs == [on : SUBSET Relevant, bad : BOOLEAN]

TypeOK ==
  /\ focus \in Settings
  /\ file \in Configs /\ cfg \in Configs
  /\ env \in [keys : SUBSET KeySwitches, gives : {"good", "bad", "nothing"}]

\* A key or a setting in the environment goes before that of the file.
applyEnv(f) ==
  [on  |-> f.on \union (env.keys \intersect Relevant),
   bad |-> IF env.gives = "nothing" THEN f.bad ELSE env.gives = "bad"]

\* Mutant of Accepted: the file is looked at before the environment is applied.
AcceptedEarly(f) == validate(f)

Accepted(f) == validate(applyEnv(f))

\* At the start a configuration that does not pass ends the program.
Init ==
  /\ focus \in Settings
  /\ env \in [keys : SUBSET (KeySwitches \intersect Relevant),
              gives : IF focus \in FromEnv THEN {"good", "bad", "nothing"} ELSE {"nothing"}]
  /\ file \in Configs /\ Accepted(file)
  /\ cfg = applyEnv(file)

Edit == file' \in Configs /\ UNCHANGED <<focus, env, cfg>>

\* A configuration that does not pass leaves the running one as it is.
Reload == Accepted(file) /\ cfg' = applyEnv(file) /\ UNCHANGED <<focus, file, env>>

Next == Edit \/ Reload
Spec == Init /\ [][Next]_vars

------------------------------------------------------------------------------
\* The server never uses a bad setting, whatever the file and the environment
\* say and however they change: whenever a job or a handler uses a setting,
\* validate has looked at it. Left out by the code: the place of the road tables
\* when only the bridges want the traffic download.
UsedIsChecked ==
  cfg.bad /\ InUse(focus, cfg.on) => focus = "traffic.vild_base" /\ "traffic" \notin cfg.on

=============================================================================
