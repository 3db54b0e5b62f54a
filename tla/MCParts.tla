------------------------------- MODULE MCParts --------------------------------
(* Parts of the server which share nothing: the buckets of the rate limiter,   *)
(* the counts of P2000 alerts, the bridges and their file, the icons and       *)
(* theirs, the rules of the watcher, the page of news and the waste calendars, *)
(* each on a small instance. which says whose steps a behaviour takes, so that *)
(* the state space is the sum of theirs and not the product.                   *)
EXTENDS RateLimiter, TLC

CONSTANTS
  v1, v2, v3, v4, n1, n2, f1, f2, None, Partial,
  ISRS, FIS, Near, FISLists, FreshFor, OpenMax, Day, Keep, PerFav, MostPlans, OpenSizes, PlanSizes,
  BridgeTime,                         \* BridgeStore
  Room, Hour, Recent, CounterTime,    \* P2KCounter
  Jobs, MaxChanges,                   \* BridgeFile
  Hosts, Slots, Refresh, Retry, IconTime, \* IconCache
  NewsArticles, SourceOf, Canon, Title, Words, Lang, Sources, DefaultOn, Requests, StoryWindow, Extra,
  MostRelated, NewsHour, HalfHour, LookBack, MaxLimit, MaxPer, NewsTime,  \* NewsMerge
  Levels, Codes, Stations, AlertStations, Articles, Need, Days, Hours, WasteHour, MaxRuns, \* WatchRules
  Callers, Own, Elsewhere, Regional, Ending, MaxMoves, MaxReloads  \* WasteLookup

VARIABLES
  which,
  pNow, alerts, answer, asked, polled, pSeen, covered, lastFetch,         \* P2KCounter
  bNow, all, fisN, fisAt, byID, ndwIdx, seen, bSince, bDirty, bDisk, missed,
  open, openAt, planned,                                                  \* BridgeStore
  mem, fDirty, fpc, fCopy, tmp, fDisk, failed, met,                      \* BridgeFile
  iNow, m, iDirty, ipc, todo, busy, iCopy, iDisk,                         \* IconCache
  rule, init, level, keys, obs, told,                                     \* WatchRules
  pub, nAsked, page, nTold,                                               \* NewsMerge
  enabled, knows, idx, look, wAnswer, moves, reloads                      \* WasteLookup

p2k    == <<pNow, alerts, answer, asked, polled, pSeen, covered, lastFetch>>
bridge == <<bNow, all, fisN, fisAt, byID, ndwIdx, seen, bSince, bDirty, <<bDisk, missed>>, open, openAt, planned>>
file   == <<mem, fDirty, fpc, fCopy, tmp, fDisk, failed, met>>
icon   == <<iNow, m, iDirty, ipc, todo, busy, iCopy, iDisk>>
rules  == <<rule, init, level, keys, obs, told>>
news   == <<pub, nAsked, page, nTold>>
waste  == <<enabled, knows, idx, look, wAnswer, moves, reloads>>
others == <<p2k, bridge, file, icon, rules, news, waste, which>>

P2K == INSTANCE P2KCounter WITH
  now <- pNow, seen <- pSeen, MaxTime <- CounterTime, Latency <- FALSE

Bridges == INSTANCE BridgeStore WITH
  now <- bNow, dirty <- bDirty, disk <- bDisk, since <- bSince,
  Codes <- ISRS, Lists <- FISLists, Fresh <- FreshFor, MaxTime <- BridgeTime

\* A code at the place of a bridge of both lists, and one that only NDW knows.
MCNear     == n1 :> f1 @@ n2 :> None
MCFISLists == {<<f1>>, <<f2, f1>>}

File == INSTANCE BridgeFile WITH
  dirty <- fDirty, pc <- fpc, copy <- fCopy, disk <- fDisk,
  NoFile <- None

Icon == INSTANCE IconCache WITH
  now <- iNow, dirty <- iDirty, pc <- ipc, copy <- iCopy, disk <- iDisk,
  NoIcon <- None, MaxTime <- IconTime

Rules == INSTANCE WatchRules

\* Three sources and one that is off by default, which writes another language; the
\* second has two articles, one of them at an address of the first.
MCSourceOf == <<1, 2, 3, 2, 4>>
MCCanon    == <<1, 2, 2, 4, 5>>
MCTitle    == <<1, 1, 3, 4, 1>>
MCWords    == <<{1, 2, 3}, {1, 2, 3, 4}, {1, 2, 3, 4}, {2, 3, 4, 5}, {1, 2, 3}>>
MCLang     == <<"nl", "nl", "nl", "en">>
MCRequests == {<<>>, <<3, 9, 2, 3, 1>>, <<1, 2, 3, 4>>, <<9>>}

News == INSTANCE NewsMerge WITH
  asked <- nAsked, told <- nTold, Articles <- NewsArticles, TitleWords <- Words,
  Enabled <- Sources, Lists <- Requests, Window <- StoryWindow,
  Hour <- NewsHour, MaxTime <- NewsTime

\* One calendar of the municipality, a regional one and one of another municipality.
TwoSteps == [known |-> {"list", "half", "error"}, other |-> {"unknown", "error"}]
OneStep  == [known |-> {"list", "error"}, other |-> {"unknown", "error"}]
MCEnding == <<TwoSteps, TwoSteps, OneStep>>
Waste == INSTANCE WasteLookup WITH answer <- wAnswer

Formats == INSTANCE WasteFormats

MCSymmetry == Permutations(Addrs)

ASSUME StoresAssumption ==
  /\ P2K!P2KCounterAssumption /\ File!BridgeFileAssumption
  /\ Bridges!BridgeStoreAssumption /\ Icon!IconCacheAssumption /\ News!NewsMergeAssumption
  /\ Rules!WatchRulesAssumption /\ Waste!WasteLookupAssumption

\* The readers of the waste calendars, over all the answers that a site can give.
ASSUME FormatsAssumption ==
  /\ Formats!ReadersSound
  /\ \A knows_ \in BOOLEAN :
       LET ends(e) == IF knows_ THEN e.known ELSE e.other
       IN  /\ Formats!Ends("opzet", knows_) = ends(TwoSteps)
           /\ Formats!Ends("ximmio", knows_) = ends(TwoSteps)
           /\ Formats!Ends("amsterdam", knows_) = ends(OneStep)

\* A part whose turn it is not is in one of its initial states.
MCInit ==
  /\ which \in {"rate", "p2k", "bridges", "restarts", "file", "icons", "rules", "news", "waste"}
  /\ Init /\ P2K!Init /\ File!Init /\ Icon!Init
  /\ Bridges!Init /\ (which = "restarts" \/ DOMAIN seen = {})
  /\ Rules!Init   /\ (which = "rules" \/ rule = "nctv")
  /\ News!Init    /\ (which = "news" \/ \A a \in DOMAIN pub : pub[a] = 0)
  /\ Waste!Init   /\ (which = "waste" \/ (enabled = Own /\ knows = {}))

MCNext ==
  \/ which = "rate"    /\ Next         /\ UNCHANGED others
  \/ which = "p2k"     /\ P2K!Next     /\ UNCHANGED <<vars, bridge, file, icon, rules, news, waste, which>>
  \/ which \in {"bridges", "restarts"} /\ Bridges!Next
                       /\ UNCHANGED <<vars, p2k, file, icon, rules, news, waste, which>>
  \/ which = "file"    /\ File!Next    /\ UNCHANGED <<vars, p2k, bridge, icon, rules, news, waste, which>>
  \/ which = "icons"   /\ Icon!Next    /\ UNCHANGED <<vars, p2k, bridge, file, rules, news, waste, which>>
  \/ which = "rules"   /\ Rules!Next   /\ UNCHANGED <<vars, p2k, bridge, file, icon, news, waste, which>>
  \/ which = "news"    /\ News!Next    /\ UNCHANGED <<vars, p2k, bridge, file, icon, rules, waste, which>>
  \/ which = "waste"   /\ Waste!Next   /\ UNCHANGED <<vars, p2k, bridge, file, icon, rules, news, which>>

MCSpec == MCInit /\ [][MCNext]_<<vars, others>>

\* Bounds the run: what matters to the bridges' file is that a bridge is reported, and not
\* what is planned or what it is called; so the two are followed one at a time.
BridgeTurn ==
  /\ which = "bridges"  => UNCHANGED <<bDisk, missed>>
  /\ which = "restarts" => UNCHANGED <<fisAt, planned>>

\* Bounds the run: a reload adds waste calendars to a short list or takes some from the
\* whole one.
WasteTurn == which = "waste" /\ reloads = 0 => enabled \in {Own, Waste!Providers}

MCTypeOK ==
  CASE which = "rate" -> TypeOK            [] which = "p2k" -> P2K!TypeOK
    [] which = "bridges" -> Bridges!TypeOK [] which = "restarts" -> Bridges!TypeOK
    [] which = "file" -> File!TypeOK
    [] which = "icons" -> Icon!TypeOK      [] which = "rules" -> Rules!TypeOK
    [] which = "news" -> News!TypeOK       [] which = "waste" -> Waste!TypeOK

CompleteIsExact == which = "p2k" => P2K!CompleteIsExact

(* The indexes survive the daily list, what a visitor is shown is complete, and *)
(* a restart forgets no bridge but those the file cannot have (bridges.go).     *)
BridgesSound == []Bridges!IndexesValid /\ []Bridges!SnapshotComplete /\ Bridges!Remembered

(* What the two bridge jobs save is not lost, and the file is never half        *)
(* written, but in the cases BridgeFile names (saveBridgeState).                *)
FileSound == which = "file" => File!NothingUnsaved /\ File!NeverHalf

(* A site keeps its icon, and the file holds every icon (iconJob, saveIcons).   *)
IconsSound == Icon!IconKept /\ []Icon!IconsSaved

(* What the watcher sends is what has changed since its last run (runPushWatch). *)
AsTheHistorySays == which = "rules" => Rules!AsTheHistorySays

(* The page that a request names, whole and without anything twice (handleNews,  *)
(* mergeItems, groupStories).                                                    *)
PageSound == which = "news" => News!PageSound

(* The calendar that an address is given (wasteForAddress).                      *)
WasteSound == which = "waste" => Waste!WasteSound

=============================================================================
