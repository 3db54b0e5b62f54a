---------------------------- MODULE MCPanelFetch -----------------------------
(* The panels, each matter on a small instance: the jobs and what they store,  *)
(* the tables of sources and panels, the checks of the configuration, and the  *)
(* items of a news source. which says whose steps a behaviour takes.           *)
EXTENDS PanelFetch, TLC

CONSTANTS  \* NewsItems
  Articles, Titles, Clocks, Offsets, NoDate, Zone, Slack, MaxAge, MaxItems, MostEntries, MaxTime

VARIABLES
  which,
  focus, on, every, jobs, running, has, failing,  \* PanelTables
  setting, file, env, cfg,                        \* ConfigRules
  now, title, date, items                         \* NewsItems

tables == <<focus, on, every, jobs, running, has, failing>>
config == <<setting, file, env, cfg>>
list   == <<now, title, date, items>>

Tables == INSTANCE PanelTables

Config == INSTANCE ConfigRules WITH focus <- setting

Items == INSTANCE NewsItems

ASSUME ListAssumption == Items!NewsItemsAssumption

\* A part whose turn it is not is in one of its initial states.
MCInit ==
  /\ which \in {"panel", "tables", "config", "items"}
  /\ which = "panel" \/ job = FetchJob
  /\ Init
  /\ which = "tables" \/ (focus = "nctv" /\ on = {} /\ every = [traffic |-> 1, bridges |-> 1])
  /\ Tables!Init
  /\ which = "config" \/ (setting = "pollen.url" /\ file = [on |-> {}, bad |-> FALSE]
                           /\ env = [keys |-> {}, gives |-> "nothing"])
  /\ Config!Init
  /\ which = "items" \/ (title = [a \in Articles |-> CHOOSE t \in Titles : TRUE]
                          /\ date = [a \in Articles |-> CHOOSE d \in Items!Dates : TRUE])
  /\ Items!Init

MCNext ==
  \/ which = "panel"  /\ Next        /\ UNCHANGED <<tables, config, list, which>>
  \/ which = "tables" /\ Tables!Next /\ UNCHANGED <<vars, config, list, which>>
  \/ which = "config" /\ Config!Next /\ UNCHANGED <<vars, tables, list, which>>
  \/ which = "items"  /\ Items!Next  /\ UNCHANGED <<vars, tables, config, which>>

MCvars == <<vars, tables, config, list, which>>

\* The fairness of PanelFetch; the others need none.
MCFairSpec ==
  /\ MCInit /\ [][MCNext]_MCvars
  /\ WF_MCvars(which = "panel" /\ Start /\ UNCHANGED <<tables, config, list, which>>)
  /\ \A g \in 0 .. MaxReloads :
       WF_MCvars(/\ which = "panel" /\ \E r \in runs : r.gen = g /\ Step(r)
                 /\ UNCHANGED <<tables, config, list, which>>)

(* A panel whose site answers shows what it serves, in the end (fetchJob, ok).     *)
BecomesCurrent == which = "panel" => EventuallyCurrent

(* The jobs, /healthz, the page and the handlers agree on the sources, whatever  *)
(* is configured (threatJobs, otherFeeds, handleCatalog).                        *)
TablesAgree == which = "tables" => Tables!TypeOK /\ Tables!TablesAgree

(* No setting is used that validate has not looked at.                           *)
UsedIsChecked == which = "config" => Config!TypeOK /\ Config!UsedIsChecked

(* The list of a source, whatever its site makes of dates and titles: sound, and *)
(* an article keeps its first date (normalizeItems).                             *)
ItemsSound == []Items!ListSound /\ Items!DatesKept
=============================================================================
