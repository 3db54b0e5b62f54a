# Verification of the news dashboard server

TLA+ models, TLC runs and TLAPS proofs for the Go server in `src/`
(`main.go`, `feeds.go`, `panels.go`, `push.go`, `bridges.go`, `icons.go`, `waste.go`,
`alarmwatch.go` and the panel files). One process
fetches some hundred upstream sources on a schedule, keeps everything in
memory, serves it to browsers as JSON, sends Web Push messages, and writes a few
small files so that a restart is warm.

## Inventory

| Component | State | Operations | Shared with | What makes it correct |
|---|---|---|---|---|
| Outbound gate (`Fetcher`, feeds.go 46-208) | one channel per host, one global channel | `Do`, `acquire`, release | every goroutine that talks to the outside | no slot lost or doubled, both limits kept, nobody starves, a dead host does not block the rest |
| Scheduler (feeds.go 213-296) | jobs by key with `running`, `next`, `failures` | `Set`, `Loop`, `run` | config reload, every fetch job | one run of a job at a time; jobs follow the configuration |
| News cache (feeds.go 326-467) | items, validators, error state per source | `fetchSource`, `update`, `prune`, `state`, `collect` | scheduler, reload, handlers, snapshot | validators belong to the items; items never go back; eventually fresh |
| Snapshot (feeds.go 673-748, main.go 1421-1444) | one gzip file | `saveSnapshot`, `loadSnapshot` | news cache | a restart restores a state the cache was in |
| Configuration (main.go 665-671, 1296-1419) | active config, remembered mtime, SIGHUP channel | `run`, `reload`, `watchConfig`, `applyConfig` | everything | an invalid file changes nothing; a signal is never lost |
| TTL cache (panels.go 45-110) | map of entries, each with a lock | `get`, `has`, `evictOldest` | about twenty handlers, the push watcher | bounded; one fetch per key; last good value for six hours |
| Panel state (panels.go 920-1018) | data, validators, error per key | `ok`, `fail`, `get`, `fetchJob` | jobs, handlers, push watcher | nothing stale without an error; a store never takes away what is still good; in the end current |
| Push hub (push.go) | subscriptions, watcher memory, `dirty`, key, state file | subscribe, unsubscribe, test, `runPushWatch`, `broadcast`, `savePushState`, `loadPushState`, `setKey` | scheduler, handlers, reload | no alert twice in one start; every device that stays is posted to; on stays on, off stays off |
| Street alerts (alarmwatch.go) | rules in the subscriptions | `alarmWatchPush` | watcher, TTL cache | one message per alert, to the devices whose rules match |
| P2000 counts (panels.go 3406-3530) | ids seen, coverage, last poll per city | `add`, `count` | jobs, handlers | a count called complete is complete |
| Rate limiter (panels.go 115-161) | a bucket per address | `allow` | handlers, image proxy | bounded table, bounded rate |
| Image proxy (main.go 2389-2570) | LRU list and map, byte count, semaphore | `cached`, `store`, `get` | handlers | byte count exact, budget kept |
| Geolocation (panels.go 1302-1471) | LRU cache, next allowed time, lookup lock | `get`, `put`, `geolocate` | threat jobs, a handler | at most 15 requests a minute, no address asked for that the cache knows, no private address |
| Icons (icons.go 45-330) | a map by site with a dirty flag, one file | `get`, `set`, `iconJob`, `saveIcons`, `loadIcons` | scheduler, handlers | a site keeps its icon; the file has every icon |
| Bridges (bridges.go) | list, three indexes into it, openings, plans, ids seen, one file | `loadFISBridges`, `setBridgesOpen`, `runBridgePlan`, `snapshot`, `saveBridgeState` | two jobs, handlers | indexes valid after every replacement; bridges reported are remembered |
| Watcher rules (push.go 339-640, alarmwatch.go, radiation.go, amber.go) | a memory per kind of event in the push state | the ten rules of `runPushWatch` | panel state, TTL cache, news cache | a message for every change and for nothing else |
| Tables of sources (panels.go 1739-1990, main.go) | none, four tables kept by hand | `threatJobs`, `otherFeeds`, `handleCatalog`, the panel handlers | scheduler, panel state, `/healthz` | they name the same sources under the same switches |
| Checks of the configuration (main.go 687-1290) | none, a table of checks | `parseConfig`, `applyEnv`, `validate` | everything that uses a setting | nothing is used that was not looked at |
| News lists and page (feeds.go 469-670, 803-1100, main.go 2016-2096) | the lists of the sources | `normalizeItems`, `mergeItems`, `groupStories`, `topUpPerSource`, `breakingPush` | news cache, handlers, watcher | nothing told twice or lost; dates do not move |
| Trends (extras.go), satellite (satellite.go) | a cache each | refresh jobs, handlers | scheduler, handlers | bounded |
| Waste calendars (waste.go) | the index of addresses, TTL cache | `wasteForAddress`, `discoverWaste`, fifteen readers | handlers, panel job, push | the calendar named knows the address |
| Parsers, handlers, HTTP layer, page | none beyond the above | conversions | | data only |

Interaction. The scheduler starts every job in a goroutine of its own; a job calls
the gate, and stores its result under the lock of the cache it fills. Handlers read
these caches, or fetch through a TTL cache in the request's goroutine. A reload runs
in the goroutine of `watchConfig` and goes through configuration, push key, news
cache and scheduler in turn, each under its own lock, so every other goroutine can
see the steps in between. The push watcher is a job: it reads the panel state, the
alarm cache and the news cache, and sends through the gate.

Hard behaviours. State read before a network call and used after it (conditional
fetches, the copy of the broadcast's targets); two locks where one would be needed
(TTL cache entry and map, hub mutex and state file); replaced jobs that keep
running; a process that can stop between any two steps while it holds state that
matters only after the restart; evictions of what is in use; times taken after
the event they stand for. `PROJECT.json` lists each one at its line.

## Modules

| Module | Models | State | Actions |
|---|---|---|---|
| `Fetcher` | the gate | program counter per call, tokens in both kinds of channel, cancelled contexts | one per `select` case of `acquire`, the end of the exchange, the two receives of release |
| `SharedFetch` | abstract: what the comment of `ttlCache.get` promises upstream | requests under way, last good answer per key | begin, succeed, fail |
| `TTLCache` | `ttlCache` | map, entry objects with lock and time, callers inside `get` | lookup (hit, or insert with eviction), wait, return cached, fetch, store, fail |
| `PushHub` | the hub, its watcher, its file, restarts, key changes | hub fields, the watcher's and every saver's position, file and temporary file with the inode each saver has open, browsers, history of what was sent in this start, of the POSTs that failed and of what was acknowledged | every critical section of watcher and handlers, every POST and its failure, every file operation, stop and start |
| `WatchRules` | what a run of the watcher takes for news | the memory of one kind of event, history of what each run found and told | one run of each of ten rules, and the run that finds its source failed |
| `NewsFetch` | scheduler, fetches, news cache, reload, snapshot | what sites serve, configuration, jobs with a generation, runs under way, cache, snapshot | tick, answer, the three stores, the three steps of `applyConfig`, the two of the snapshot, restart |
| `NewsItems` | from the answer of a site to the list of one source | the site's titles, and dates with their zones; the list | fetch, tick |
| `NewsMerge` | from the lists to the page, and to the watcher's big news | publication times, the page a request got, the messages | `handleNews`, `breakingPush` |
| `PanelFetch` | `stateStore` and the 22 scheduled panel jobs that keep nothing else | one panel: what its sites serve, settings, the entry, the runs under way | start, answer or failure of one request, the four stores, publication, reload |
| `PanelTables` | the tables of jobs, of `/healthz`, of the page and of the handlers | the source that is followed, the switches, the intervals, the jobs, the store | reload, start, succeed, fail |
| `ConfigRules` | `parseConfig`, `applyEnv` and `validate` next to the use of every setting | the setting that is followed, file, environment, running configuration | edit, reload |
| `ConfigReload` | how the file becomes the active configuration | version on disk, remembered time, pending signal, position in `reload` | write, signal, read, stat, apply |
| `TokenBuckets` | abstract: a bucket per address, kept for ever | tokens per address | ask, elapse |
| `RateLimiter` | `rateLimiter` | table of buckets, time of the last prune, history of grants | `allow` with the prune and the reset, tick |
| `ImageProxy` | `imageProxy` | list, map, byte count, requests inside `get` | look up, wait for a slot, fetch, decode, succeed, fail, leave |
| `GeoLookup` | `geoCache` and `geolocate` | list, map, lookup lock, the batch of the run, the wait, history of what the site told | lock, look up, send, answer, failure, put, show, give up, tick |
| `BridgeStore` | `bridgeStore` | list, its indexes, ids seen, the file, openings and plans, history of the reports | the daily list, a report of openings, a report of plans, save or failure to, restart, snapshot, tick |
| `BridgeFile` | `saveBridgeState`, `loadBridgeState` | memory, dirty, position of both jobs, temporary file, file | change, copy, truncate, fill, rename, failure, restart |
| `IconCache` | `iconCache`, `iconJob` and its file | map, dirty, sites of the run, file | start, skip, ask, found, not found, save, restart, tick |
| `WasteFormats` | how each of the fifteen readers ends | none: operators over the answers a site can give | |
| `WasteLookup` | `wasteForAddress`, `discoverWaste`, `wasteIndex` | calendars enabled, those that know the address, the index, lookups under way | start, ask a calendar, ask the municipality's, ask the regional ones, reload, move |
| `P2KCounter` | the counter of one city | alerts raised, answer in hand, ids seen, coverage | raise, poll, fail, add, tick |

`XProofs` modules hold the theorems of `X`: `PartsProofs` and `QueuesProofs` those of the components that
`MCParts` and `MCQueues` put side by side, `PanelFetchProofs` those of `PanelFetch` and of the other parts of
`MCPanelFetch`. `OrderLemmas` has the facts about finite orders, least elements and greedy choices that several of
them cite. `MCX` modules hold what a `.cfg` cannot write; `MCPushForget` adds to the push hub what
earlier starts of the server have sent. Definitions whose comment begins "Mutant of" are plausible bugs: with one of
them in place of the definition it names, TLC finds the property it is paired with
(in `PROJECT.json`) violated.

Four `MC` modules put several components side by side: `MCCaches` (TTL cache, push hub),
`MCPanelFetch` (panels, tables, checks, items of a source), `MCQueues` (configuration,
images, geolocation) and `MCParts` (the nine others). The components of one module share
nothing in the code either. The variable `which` says whose steps a behaviour takes, and the
others stay in one initial state, so the state space is the sum of theirs and not the
product; every property of a component is checked over all of its behaviours. The parameters of the components
are constants of these modules too, under the assumptions of the components (`StoresAssumption`,
`QueuesAssumption`, `ListAssumption`), so the theorems are about any values of them.

### Reading the models

*Fetcher.* A buffered channel is the number of its tokens. A call that has returned
may call again. What the upstream answers only ends the exchange.

*TTLCache.* Entries have identities, because a caller keeps a pointer to an entry that
has left the map. `evictOldest` compares `e.at` under the map lock while `get` writes it
under the entry lock; between the end of a fetch and the unlock (`pc = "store"`) the entry
may be taken for the oldest or be passed over, which are the outcomes that race can have.

*PushHub.* An alert is one id of the Burgernet feed (the AMBER rule of `runPushWatch`,
which records an id unconditionally and sends unless it is the first run). `subs` is the
map ordered by `Seen`. `savePushState` is four steps: the copy under the mutex, the
opening and truncation of `<path>.push.json.tmp`, the write, and the rename; a writer
follows the inode it opened, so a rename by another saver moves it onto the real file.
A POST may deliver when the browser still holds the endpoint and the key that signs is the
endpoint's; an endpoint the browser dropped may be answered 404 or 410, which removes it. Any POST may
also fail (a refusal, a server error, no answer): `broadcast` only logs that, and nothing is posted
again, since the alert is in `seen` already. `failed` records it until the run ends: `EveryAlertPushed` (in `AlertsReachAll`)
says that a device which stays registered goes without an alert only if its POST failed. `sent` counts
what each device got in this start. The action constraint `Apart` is the same
program restricted to saves that do not overlap.

*WatchRules.* The kinds of event share only `st.Init`, so a behaviour follows one of them.
`obs` is what each run found (or that its source had failed) and `told` whether a message
came of it. `AsTheHistorySays` computes from `obs` alone what should have been told, without the
memory that the code keeps, and compares.

*NewsFetch.* What a site serves is the pair of its URL and a publication time; the pair
also is the validator. A site answers 304 to its current one. After a change of URL the fetch sends the validators
of the old feed, and the new site may confirm them too, if it goes by `Last-Modified` and serves nothing of
a later date (`Confirms`). The generation of
a job tells it from the job that replaces it when the URL changes: the two run side by
side. An entry in the cache records items, validator and whether the last attempt
succeeded; the age limit on items is left out.

*NewsItems.* The list that `normalizeItems` makes is given by the rank of each article in the order of the
dates. A date is the time of day as the site writes it (`clock`) and how far the zone written with it is ahead of UTC
(`offset`): Dutch time (`Zone`) when there is none, and `NoDate` when the date is unreadable; then the article counts as published
when it was first seen, and that date is taken over from the last list. `parseDate` subtracts the offset. A date more than
`Slack` (five minutes) ahead goes through `fixFutureDate`, which takes the clock for Dutch time whatever its zone:
a date without a zone stays what it is, Dutch time given as UTC moves back by `Zone`. One that still lies too far ahead gets the date of the last
list, or now.

*NewsMerge.* Source, address, title and words of an article are fixed, the publication times
are any. A page is made of sets of groups, and the code's greedy passes over a sorted list are the one set in which
an article is taken exactly if nothing taken before it excludes it; the order comes in at the end
(`Sorted`). `PageSound` compares the page with what the request asks for: merge, age, grouping by
common words, the least number per source.

*PanelFetch.* Panel jobs share no state, so a behaviour is one panel, of any of the jobs in
`AllJobs`. A job is described by the order of its requests and what the failure of each means;
jobs that treat failures alike have the same description. `details` are requests that only fill in what
the one before has listed and whose failure is told nobody: of `Utilities` (`runUtilities`) the outages of each Stedin place and Liander's
count of solved ones. What a site serves is an edition
number, which is its validator too; 0 is no data. `gen` counts the settings: a run of the job of
older settings goes on beside the new one. `floor` is what the sites served when the run
began that stored the panel, so it stands for `fetched_at`.

*PanelTables* and *ConfigRules.* The tables are the code's `if cfg.X.Enabled` blocks as rows of
keys and switches. A behaviour follows one source, or one setting, under every combination of
the switches that matter to it, through reloads, runs under way and failures. The exceptions the code has
are named in the properties (see the limits below).

*ConfigReload.* A version of the file is its modification time. Which versions are valid
is chosen at the start.

*RateLimiter.* Time is counted in tokens. `granted` and `resetAt` are history. The mapping to
`TokenBuckets` reads an address that is not in the table as a full bucket.

*ImageProxy.* The list is in order of use; an entry has a size or is a failure. An element is taken out of the
list by its place, and the bytes held are counted as pairs of a place and a byte. A fetch needs one of the
slots, decoding is one at a time. A visitor who leaves cancels the context of its request.

*GeoLookup.* There is no clock: an entry has an age and the site a wait that is left.
`asked` is the batch that was sent. `nextAllowed` is the program's wait; `rest` is history, the time the site is to be left
alone: what its last answer told (`X-Rl`, `X-Ttl`, 429), or four seconds after a request that told nothing, a failed one among them.

*BridgeStore* and *BridgeFile.* The list is a sequence, and the indexes hold places in it, as in
the code; `snapshot` is what a visitor gets. The place of a code that only NDW knows
is given by the places before it (`idxAll`), and planned openings of equal time come in the order of the list. In `BridgeStore` a save is one step that succeeds or fails, a restart
takes from the file what is younger than `Keep`, and `since` and `missed` are history: from when on each bridge was
reported at least every day, and whether the last write failed. The steps of a save have a module of their own, since only the dirty
bit and the file matter to them; memory there is the number of its changes.

*IconCache.* An icon is the time it was fetched. A failed site keeps its last good icon with the
time of the failure.

*WasteLookup* and *WasteFormats.* A lookup at a calendar ends with a list, with `found` and an error
("half"), with an unknown address, or with an error; `WasteFormats` derives which of these each
reader can give, and the run evaluates that `Ending` in `MCParts` agrees. An answer has what was asked for, has not,
is refused, is JSON of another shape ("odd"), is something else, or does not come.

*P2KCounter.* The feed shows its newest `Room` alerts (50 in the code), an hour is `Hour`
ticks. `Latency = FALSE` is a feed whose answer is added in the tick it was given.

## Runs

| Run | Bounds | Question |
|---|---|---|
| `MCFetcher_gate` | 4 calls (2 to the slow host), 3 hosts, one slot per host, pool of 2 | is a slot ever lost, doubled, or a limit passed? does a host that never answers stop a call to another? |
| `MCTTLCache_room` | 3 callers, 2 keys, 2 entries, ttl 1 and 2, clock to 3 | single flight, stale values, refinement of `SharedFetch` |
| `MCCaches_evict` | cache: 2 callers, 2 keys, 1 entry, clock to 2; push: 2 devices, 1 alert, 2 keys, room for 1, one start, no file | size bound and lock discipline under eviction, does every `get` return? is every device that stays sent each alert, unless its POST fails, and none twice? |
| `MCPushHub_durable` | 2 devices, 1 alert, 2 keys (one change), room for 4 endpoints, 2 starts, file, saves apart | what the file and the devices know after every stop; is an alert sent twice in any one start? |
| `MCNewsFetch_sources` | 1 source, 2 URLs, 1 publication, 2 reloads, 2 starts | coherence of cache and jobs; items never go back; eventually fresh |
| `MCPanelFetch_panels` | panels: 22 jobs, 1 publication, 2 failures, 1 reload; tables: each source with all its switches; checks: each setting with all its switches; items: 2 articles, 2 titles, times of day 3 and 4 in three zones or without a date, clock to 3, Dutch time 1 ahead, a tolerance of 1, age 2, a list of 2 | does a panel ever show old data without an error, or lose good data, and is it current in the end? do the tables agree? is a setting used that was not checked? does the date of an article move? |
| `MCQueues_small` | images: 2 requests, 2 URLs, 2 slots, budget 2, clock to 2; locations: 2 callers, 3 addresses (2 public), room for 2, batches of 1; configuration: 3 writes | do list, map and byte count agree? is anything asked for that is known, or too early? is everybody served? does the configuration only go forward, and no signal get lost? |
| `MCParts_small` | limiter: 4 addresses, burst 2, pruned from 2 on, emptied from 3 on, clock to 5; P2000: room for 2, hour of 3, clock to 8; bridges: 2 codes, 2 FIS bridges, 2 lists, kept for 2 days, clock to 2; file: 2 jobs, 3 changes; icons: 2 sites, clock to 3; rules: 3 runs; page: 5 articles of 4 sources at any times; waste: 3 calendars, 1 lookup beside others, 1 move, 1 reload | one question per component, the properties of the same names |
| `MCTTLCache_flight` | 3 callers, 2 keys, 1 entry | *violated*: eviction breaks single flight |
| `MCPushForget` | 1 device, 1 alert, 2 starts, no file | *violated*: old alerts after the first run |
| `MCP2KCounter_slow` | 9 ticks, hour of 4 | *violated* when the answer takes time |
| `MCNewsMerge_big` | 2 articles of 2 sources | *violated*: big news that is grouped twice |

Why the bounds are enough. Sources are independent of each other (every action of
`NewsFetch` but the reload touches one), so one source with two URLs has every
interaction of a reload with a fetch; two reloads are a change and the change back, and one
publication gives an old and a new edition. For a panel, two failures are enough to fail both
requests of a pair of which one must succeed, and one reload is what makes two runs overlap.
Callers of different hosts meet only in the global pool and
callers of different keys only in the map lock, so two of a kind and one more than the limit
show every contention: three hosts could use three slots of the pool of two, and one host has
two calls for its one slot. Two devices are what an eviction and two overlapping handlers
take, and the watcher is the third saver; each alert has its own id, message and record, so a
second one adds no interaction, and the theorem covers any number. The window of the counter is
passed more than twice. Four addresses are what it takes to prune and then to empty the table of the
limiter while one of them comes back. Two image URLs of sizes 1 and 2 overfill a budget of 2, and
a third address overfills the table of locations. A third run of the watcher shows an event that ends
and returns. In the page of news two articles share an address, three a title, and every number of
common words around the limit occurs. `PanelTables` and `ConfigRules` have no bound at all: the
switches are finite.

`MCParts_small` follows the bridges twice, since their file and their list do not matter to each other: as "bridges", without changes of the file,
and as "restarts", without the list of FIS bridges and plans; the action constraint `BridgeTurn` says so, and
the specification the theorems are about does not. `WasteTurn` lets the list of waste calendars begin short or whole until
a reload, which may leave any list. A bridge is kept for two ticks there and reported in each of
them, which is enough for the file to grow too old. A time of day of 3 or 4 and a clock up to 3 put dates
before, within and beyond the tolerance, in Dutch time, UTC and a zone further east.

Three runs switch deadlock checking off. In `MCQueues_small` an invalid file at startup ends the process,
and images stop at the bound of their clock; in `MCParts_small` and `MCNewsMerge_big` the parts stop at
their bounds. Every other run checks it.

`MCPushHub_durable` has three action constraints. `Apart` is the same next-state relation, restricted to saves
that do not overlap: with overlapping saves `OffStaysOff` and `Settled` are false, see the limits below. `NewKey` says
that a key the administrator installs is a new one: with a return to a key that the file, the hub or a browser still
knows, `KeptOn` is false, since `setKey` has dropped what was acknowledged under it. Both are hypotheses of the
theorem. `FewChanges` only bounds the run: one change of key, after which one browser at a time
holds a subscription; two browsers share the hub as long as the key stays.

`NeverBack` speaks of at most one reload: with a change of URL and its reversal within the time of one fetch two runs of the same feed overlap and the older can store last;
the next fetch repairs it (`EventuallyFresh`, two reloads).

### Fairness

- `Fetcher`: weak fairness of the goroutine's own steps; strong fairness of the two channel
  sends, because the Go runtime queues blocked senders in order. An exchange ends because `Do`
  sets a timeout on its context; of the slow host not even that is assumed.
- `TTLCache`: strong fairness of acquiring an entry lock (`sync.Mutex` goes over to
  first-in-first-out when a waiter starves); a fetch ends because the gate's does.
- `PushHub`: the watcher's steps and the savers' steps go on. Nothing is assumed of the feed,
  the browsers, the administrator, or of restarts.
- `NewsFetch`: due jobs start, fetches end and store, a reload goes on; a site that is asked
  for ever is at some time not failing (strong fairness of its answer to the current job).
- `PanelFetch`: the current job starts again and again, and every run goes on: a request ends
  because the gate gives it a timeout. Failures are bounded by `MaxFails`, so `EventuallyCurrent`
  speaks of sites that stop failing.
- `ImageProxy`: strong fairness of the goroutine of each request: the client's timeout ends a fetch, decoding
  ends, and the channels that hand out the slots serve their waiters in order.
- `GeoLookup`: time passes, the run that holds the lookup lock goes on, and the mutex serves
  every waiter in the end.
- `ConfigReload`: the one goroutine goes on, and its `select` takes a pending signal in the end.

## Findings

1. *Single flight and eviction* (`MCTTLCache_flight`, panels.go:69). "Concurrent callers for the
   same key share one fetch": a full map evicts first of all an entry that is being filled for
   the first time, because its time is still zero.
2. *The first run can come too early* (`MCPushForget`, push.go:463). "The first run only
   records the current state, so a restart never replays old events": jobs start in random order
   within 20 seconds, so the watcher can set `Init` before the feed was fetched; without a state
   file its second run takes the old alerts for new ones.
3. *A gap that is not seen* (`MCP2KCounter_slow`, panels.go:3524): the time given to `add` is
   taken after the answer came in.
4. *Big news grouped twice* (`MCNewsMerge_big`, push.go:577). `latestNews` already groups the articles,
   and `breakingPush` groups its answer again, of which the related articles are no longer part:
   a story of two sources has one article left and is never big.

### Limits met while modelling

No property contradicts these and no run shows them; where a property would, it names the exception.

Push and watcher.
- The watcher broadcasts before it saves (push.go:468-474), and shutdown does not save: with a
  state file, a stop in between sends the alert again after the restart. `OncePerStart`
  therefore counts what one start sends, each by itself.
- A POST that fails is only logged (push.go:315-318), and the alert is marked by then: it is lost to that device.
  `EveryAlertPushed` names the case.
- `savePushState` clears `dirty` before it writes (push.go:642), so a write that fails is not repeated
  before the next change; an overlapping caller finds nothing to do and answers before the file
  is in place, and two writers share one temporary name. The action constraint `Apart` excludes the overlap.
- `setKey` drops the subscriptions of an old key on a reload (push.go:98), but a restart with
  another key restores them (push.go:671), and the reload does not mark the state for saving. An endpoint
  of the old key that is turned off after the reload stays in the file for the same reason and comes back
  with the next start; nothing can be sent to it. `Settled`, `KeptOn` and `OffStaysOff` therefore
  speak of the endpoints of the key that signs now.
- Push switched off and on within a run of the watcher starts a second watcher beside it (feeds.go:241).
- An earthquake first listed without its magnitude, and an NL-Alert listed before it starts, are
  recorded at once and never pushed. A change of a water sector's code notifies again. A source
  other than NCTV that is first heard of after the first run counts as a change. An alarm seen for
  an earlier rule is not sent to a later subscriber. Memory older than 60 days is forgotten, so an
  event that lasts longer is sent again (push.go:440).

Fetching and reloading.
- `reload` and `run` read the file before they take its time (main.go:1378-1387,
  1447-1460): a version written in between waits for the next write or signal.
- A 304 writes back the data read before the request (panels.go:994-1001), and a replaced
  conditional job leaves its validators: after a reload, data parsed under the old settings can
  be confirmed until the site publishes. `EventuallyCurrent` exempts conditional jobs from the
  settings for this reason.
- After a change of URL the old validators go to the new site, and one that answers 304 by date
  alone (`Last-Modified`) confirms the items of the old one (feeds.go:417), until it publishes something of a later
  date. `EventuallyFresh` allows this state (`OldURL`) and no other.
- When every operator fails, `runUtilities` stores the error and then overwrites it by a panel
  with the last good data and an error per operator (panels.go:4938), so the panel as a whole
  shows no error; `NoSilentStale` holds because each part has its own. A grid operator's answer is
  taken although some of its places were skipped (panels.go:4883), or the count of solved outages (panels.go:4849): what was there before is
  gone without an error. `NothingLost` excepts these details (`MayLack`).
- `NothingLost` speaks of the settings before the first reload: later a run of a replaced job can
  store last, as in `NeverBack`.
- A reload adds a city to the map of P2000 counters without a lock (panels.go:3513), beside handlers that
  read it, which the Go runtime may end the process for.

Tables and checks.
- `/healthz` lists neither `ndw:bridgeplan` nor, when only the bridges want it, `ndw:traffic`.
- Six parts of panels show data of a source that fails without saying so (`Silent` in
  `PanelTables`): `isc:infocon` and `isc:topips` of the threats, `lml:stations` of the air, `cisa:kev`
  of the exploits, `noaa:kp` of the sky and `ndw:traffic` of the bridges. The exploits panel goes on
  using a `cisa:kev` that a reload has ended.
- A traffic download that is unchanged (304) does not tell the bridges that it was looked at.
- The watcher reads NCTV, NL-Alert, AMBER, earthquakes and radiation from the store without looking whether
  they are still enabled.
- `traffic.vild_base` is not looked at when only the bridges are on. An advisory without an interval of
  its own runs at `fetch.default_interval`, a minute at least.

News.
- An undated article that was cut off by the limit of items or by its age comes back as new. A date more than five
  minutes ahead counts as the time it was first seen, and jumps once or twice, when its clock is reached as Dutch time
  or in the zone it is written with (`DatesKept`). One less than five minutes ahead is shown as it is (`ListSound`).
- `normalizeItems` takes two articles without a normalised title for the same one, `mergeItems` does not.

Waste.
- `discoverWaste` looks at `found` before the error: a calendar found by a search whose dates fail is
  shown empty (`DatesComeAlong`).
- A calendar that a reload removed stays in the index until it is asked for. The index is emptied as a
  whole at 5000 addresses. A regional calendar is remembered when the municipality's own one failed.
- "Not found" is told also when some calendars failed. The straatbeeld, ical, circulus and omrin readers
  take an unreadable answer for an unknown address, mijnafvalwijzer JSON of another shape, burgerportaal a refused calendar for one without dates.

Bridges, icons, images.
- A bridge that is reported at least once a day never makes the file out of date (bridges.go:158-166), so that what
  the file says of it grows old without bound, and a restart after 90 days of such reports
  forgets it although "bridges NDW has reported are remembered" (bridges.go:33-35), until it is reported again. `Remembered` names the case.
- Both bridge jobs write one temporary name and clear `dirty` before they write; the icons use a
  temporary file of their own for each write and restore `dirty` when it fails. A favourite that only NDW
  knows is listed among the planned openings without its description.
- A visitor who leaves while an image is fetched stores a failure of ten minutes for everybody; of two
  requests that fetch one image side by side, a failure that ends later replaces the good entry, if its request had looked before that was stored (`GoodKept` allows
  no other case).

## Proofs

TLAPS checks these for every value of the constants.

- `FetcherProofs`: `TypeCorrect`, `GateSound`. The inductive invariant is
  type correctness with `SlotAccounting`: the counters equal the cardinalities of the
  sets of calls that hold a token. Each action adds one call to such a set or takes one out,
  and the limits then follow because the calls in flight are among the holders. Assumes finitely
  many calls and positive limits.
- `TTLCacheProofs`: `TypeCorrect`, `EvictionSound`, `EntriesDistinct`, and, with
  room for every key, `RoomMeansSingleFlight`, `RoomMeansNoNeedlessError` and
  `RoomMeansSharedFetch` (the refinement). That two keys never share an entry and that an entry
  a caller refers to is not reused is what makes the lock discipline inductive; with room,
  nothing is evicted, so the entry of a key is the one every caller of the key holds.
- `PushHubProofs`: `TypeCorrect`, for overlapping saves as well. `PushDurable` states the whole of `Durable` for saves
  apart and new keys. Its invariant `DurableInv` says, at every step of a save and with the server up or down, what the
  image of the saver that writes, the temporary file, the file and the hub have in common (`Turns`, `OnFile`, `Current`);
  that an endpoint of the key in use which was told "on" is in each of those that a restart can still
  come to read, and one told "off" in none (`On`, `Off`); and that only endpoints of
  known keys are about (`FreshKey`, `Pages`). `SentOncePerStart` holds with new keys, whatever overlaps: the strengthening
  says where an alert that was not yet sent to a device in this start still is, in the messages of the run, in its
  targets, or not seen. A start begins its count anew, which is why nothing has to be said
  about the file; a key that came back during a broadcast could reach a device by two endpoints.
- `NewsFetchProofs`: `TypeCorrect`; `CacheCoherent` (with the same statement about the snapshot, the copy on
  its way to it and every answer under way); `JobsFollowConfig`; and `NewsNeverBack`. The last needs two
  invariants. `RunsApart`: up to the first reload two runs of one source are of
  different URLs, because the scheduler starts no second run of a job. `EditionInv`: nothing kept or
  answered is newer than what is served, and an answer under way is no older than what is kept of its URL.
- `QueuesProofs`: `ConfigOnlyForward` (the version read is at least the active one and at most the one on disk).
  `LocationsSound`, in both parts of `GeoSound`: who looks up holds the lookup lock, what is still to be asked is not
  known to the cache, and the program's wait is at least what is left of `rest`. `ImagesStaySound`: list and map have one entry for
  each URL, the byte count is the size of the list, and an entry is never older than the look of a
  request that finds it there, so that only a request which looked before can replace it. `QueuesTyped` follows
  from the three.
- `PanelFetchProofs`: `TypeCorrect`, `ShownIsFresh` and `PanelKeeps`, for any set of jobs that
  fit the description. `NoSilentStale` is inductive together with a statement about each run:
  what it got is at least as new as what was served when it began. `NothingLost` needs two more
  facts: nothing a run has read or got is newer than what is served, and, before the first
  reload, the panel is still the one the only run found when it began, because the scheduler
  starts no second run of a job. A detail is missed with the request it fills in or by itself, and only by itself
  is it lost.
  Of the other parts, `ListStaysSound`: the date in the list is the one the site writes, its clock as Dutch time when that is earlier, or one before
  both, so an article met again moves only forward and to one of the two, and the list is the first of an order. `TablesStayInOrder`
  rests on one fact about reloads (the jobs are those of the configuration that runs) and else compares the tables row by
  row: every source that is listed or shown is that of a job with the same switches. `UsesAreValid`: the
  configuration that runs has passed `validate`, and every use of a setting has a check that is made
  under the same switches.
- `PartsProofs`, component by component.
  - `CountsExact`: every alert since `covered` that the last poll could see and `prune` has no reason to forget is in `seen`.
    This is the counter whose answers are added in the tick they were given; with `Latency` it is false (finding 3).
  - `FileNeverLost`: unless two writers have met, one job writes at a time, and its copy is the state in memory or the
    state has been marked dirty since. `IconsNeverLost` is alike, with a copy for each write.
  - `WasteNamed`: a lookup keeps to the calendars it began with, and those which knew the address all the
    time and are passed over have failed; asked alone is only the calendar chosen or, with none chosen, the remembered one.
  - `SaysWhatChanged`: the memory of each of the ten rules is what the history of its findings says it should
    be, so what it tells is what that history calls for.
  - `BridgesInOrder`: the FIS bridges come first and in place, then the codes that have no bridge at their place, each once;
    `byID` is the inverse of the list, and an index refers to what its code stands for, also in the table that replaces another. For `Remembered`: with nothing to save and
    the last write done, the file has every bridge of the memory, dated no earlier than its daily reports began.
  - `PageStaysSound`: a greedy choice exists and is unique, groups are apart and cover the merged articles, and the
    last article taken of a source bounds how many it has.
  - `RateTyped`, `RateIsBounded` and `RefinesTokenBuckets` (a refinement). The invariant `Budget` says
    that what was granted to an address since the table was last emptied, and what it has left, are together at most
    the burst and one per unit of time. Pruning takes away only full buckets, since `Burst <= Idle` (ten minutes
    fill any bucket), so an address that is pruned and comes back is treated as if it had stayed.
  - `PartsTyped`: the part that a behaviour follows keeps its types.
- `OrderLemmas`: a finite set that is totally ordered has a least element, ranks that count it off, and a set of its first
  `n`; and of a rule that admits an element or not by what was admitted before it, exactly one set fits.

With these, every safety property of a run that passes is stated by a theorem; the mutants show what breaks it on the
small instance. Only model-checked are the properties under fairness: `EveryGetReturns`, `AlertsReachAll`, `EventuallyFresh`,
`BecomesCurrent`, `EverybodyServed`, `HangupApplies` and `MCIsolation`, because the prover has no rules for fairness or
ENABLED. Induction over numbers is done with the least element of a set, since the library's rule takes an operator;
what a fold, `SelectSeq` or `SortSeq` computes has no such way around it, so the models say by positions, ranks and sets
what the code does with loops and sorts. No module with a theorem declares or reaches a recursive operator.

## Not modelled

- Parsers (XML, HTML, JSON, DATEX), rendering, the HTTP layer, encryption and signing of messages, and the page:
  they convert data and share no state beyond the caches above.
- The cache of trends and the satellite tiles: caches without concurrency of their own beyond what
  `TTLCache` and `ImageProxy` show.
- The phishing list, which is a panel with a file beside it.
- The test message, the personal waste reminder, and the choice of the targets of a message by topic and place.
- The forgetting of the watcher's memory (72 hours, 60 and 400 days).
- Delays (jitter, stagger, backoff): they only make steps rarer.
- Write errors of the push state and of the snapshot; a 304 by date for an edition of the feed's own that changed within the second
  of its `Last-Modified`.

## Plan

The next steps, in order:

1. The forgetting in `WatchRules`, with a clock in days.
2. The choice of a message's targets by topic and place in `PushHub`.
3. The phishing list and the satellite images.
4. An abstract specification of the panels that `PanelFetch` implements, and of the image cache.
