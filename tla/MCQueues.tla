----------------------------- MODULE MCQueues -----------------------------
(* Parts of the server in which somebody waits and which share nothing: the    *)
(* image proxy, the geolocation and the reload of the configuration, each on a *)
(* small instance.  which says whose steps a behaviour takes, so that the      *)
(* state space is the sum of theirs and not the product.                       *)
EXTENDS ConfigReload

CONSTANTS
  None,
  Reqs, URLs, Sizes, Slots, Budget, NegTTL, MaxTime,      \* ImageProxy
  Callers, Addrs, Public, Most, Batch, Day, Gap, Window   \* GeoLookup

VARIABLES
  which,
  iNow, ill, im, bytes, ipc, url, since,                       \* ImageProxy
  gll, gm, holder, gpc, pending, todo, asked, answers, nextAllowed, rest   \* GeoLookup

images  == <<iNow, ill, im, bytes, ipc, url, since>>
geo     == <<gll, gm, holder, gpc, pending, todo, asked, answers, nextAllowed, rest>>
others  == <<images, geo, which>>

Images == INSTANCE ImageProxy WITH
  now <- iNow, ll <- ill, m <- im, pc <- ipc

Geo == INSTANCE GeoLookup WITH
  ll <- gll, m <- gm, pc <- gpc

ASSUME QueuesAssumption == Images!ImageProxyAssumption /\ Geo!GeoLookupAssumption

MCInit ==
  /\ which \in {"images", "geo", "config"}
  /\ Images!Init /\ Geo!Init
  /\ \/ which = "config" /\ Init
     \/ /\ which # "config"   \* started with an invalid file
        /\ file = 0 /\ valid = {1} /\ cfg = NoVersion /\ cfgMod = NoVersion /\ hup = FALSE
        /\ pc = "ended" /\ read = NoVersion

MCNext ==
  \/ which = "images" /\ Images!Next /\ UNCHANGED <<vars, geo, which>>
  \/ which = "geo" /\ Geo!Next /\ UNCHANGED <<vars, images, which>>
  \/ which = "config" /\ Next /\ UNCHANGED others

MCSpec ==
  /\ MCInit /\ [][MCNext]_<<vars, others>>
  /\ Images!Fairness /\ Geo!Fairness /\ Fairness

MCTypeOK == TypeOK /\ Images!TypeOK /\ Geo!TypeOK

(* The cache of images: the list and the map agree, the bytes counted are those held, *)
(* and a good image is replaced by a failure only when the request that failed had    *)
(* looked for it before it was stored (cached, store, get).                           *)
ImagesSound == []Images!Coherent /\ []Images!BytesExact /\ Images!GoodKept

(* Locations: list and map agree, no address is asked for that the cache knows, and   *)
(* the site is left alone for as long as it told, or four seconds (geolocate).        *)
GeoSound == []Geo!CacheCoherent /\ []Geo!AskOnce /\ Geo!Polite

(* Whoever waits for an image, a location or the lock of either gets an answer.       *)
EverybodyServed == Images!EveryRequestEnds /\ Geo!EveryLookupEnds
=============================================================================
