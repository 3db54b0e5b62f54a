------------------------------ MODULE ImageProxy ------------------------------
(* The image proxy of main.go (imageProxy, thumbnail, handleImage): news       *)
(* images are fetched for the visitors, made smaller, and kept in a list in    *)
(* order of use beside a map by URL, with a byte budget.  A failure is kept    *)
(* for ten minutes.  Requests share four slots for the fetch and one for       *)
(* decoding.                                                                   *)
EXTENDS Integers, Sequences, SequencesExt, FiniteSets

CONSTANTS
  Reqs,      \* goroutines of handleImage; one that has answered may serve again
  URLs,      \* image addresses, all signed by the server
  Sizes,     \* sizes a thumbnail may have
  None,      \* no entry, no URL
  Slots,     \* capacity of p.sem (4)
  Budget,    \* imgCacheBytes
  NegTTL,    \* how long a failure is kept (ten minutes)
  MaxTime    \* bound of the model

Entries == [url : URLs, size : Nat, err : BOOLEAN, at : 0 .. MaxTime]

ImageProxyAssumption ==
  /\ Slots \in Nat \ {0} /\ Budget \in Nat /\ NegTTL \in Nat /\ MaxTime \in Nat
  /\ Sizes \subseteq Nat
  /\ None \notin URLs \union Entries

VARIABLES
  now,     \* the clock
  ll,      \* p.ll, the most recently used first
  m,       \* p.m: the element of each URL, or None
  bytes,   \* p.bytes
  pc,      \* where each request is
  url,     \* what it asks for
  since    \* history: when it looked in the cache without finding anything

vars == <<now, ll, m, bytes, pc, url, since>>

\* "slot" waits for p.sem, "turn" for decodeSem; the others do what they are named for.
PCs     == {"idle", "limit", "slot", "fetch", "turn", "decode"}
Holding == {r \in Reqs : pc[r] \in {"fetch", "turn", "decode"}}

TypeOK ==
  /\ now \in 0 .. MaxTime
  /\ ll \in Seq(Entries)
  /\ m \in [URLs -> Entries \union {None}]
  /\ bytes \in Int
  /\ pc \in [Reqs -> PCs]
  /\ url \in [Reqs -> URLs \union {None}]
  /\ since \in [Reqs -> 0 .. MaxTime]

Init ==
  /\ now = 0
  /\ ll = <<>> /\ m = [u \in URLs |-> None] /\ bytes = 0
  /\ pc = [r \in Reqs |-> "idle"] /\ url = [r \in Reqs |-> None]
  /\ since = [r \in Reqs |-> 0]

Become(r, p) == pc' = [pc EXCEPT ![r] = p]

-----------------------------------------------------------------------------
(* cached: the first critical section of get *)

\* The list without the element of a URL.
Element(u) == CHOOSE i \in DOMAIN ll : ll[i].url = u
Without(u) == RemoveAt(ll, Element(u))

Expired(e) == e.err /\ now - e.at > NegTTL

Look(r, u) ==
  /\ Become(r, "limit")
  /\ url' = [url EXCEPT ![r] = u] /\ since' = [since EXCEPT ![r] = now]

\* A fresh entry moves to the front and answers the request: the image, or "unavailable".
Hit(r, u) ==
  /\ pc[r] = "idle" /\ m[u] # None /\ ~Expired(m[u])
  /\ ll' = <<m[u]>> \o Without(u)
  /\ UNCHANGED <<now, m, bytes, pc, url, since>>

\* An old failure is dropped; it has no bytes.
Lapse(r, u) ==
  /\ pc[r] = "idle" /\ m[u] # None /\ Expired(m[u])
  /\ ll' = Without(u) /\ m' = [m EXCEPT ![u] = None]
  /\ Look(r, u)
  /\ UNCHANGED <<now, bytes>>

\* Mutant of Miss: the cache is not asked.
MissAlways(r, u) ==
  /\ pc[r] = "idle"
  /\ Look(r, u)
  /\ UNCHANGED <<now, ll, m, bytes>>

Miss(r, u) ==
  /\ pc[r] = "idle" /\ m[u] = None
  /\ Look(r, u)
  /\ UNCHANGED <<now, ll, m, bytes>>

-----------------------------------------------------------------------------
(* the limiter, the slot and the fetch *)

Drop(r) == Become(r, "idle") /\ url' = [url EXCEPT ![r] = None] /\ since' = [since EXCEPT ![r] = 0]

\* RateLimiter decides.
Allowed(r) ==
  /\ pc[r] = "limit" /\ Become(r, "slot")
  /\ UNCHANGED <<now, ll, m, bytes, url, since>>
Limited(r) ==
  /\ pc[r] = "limit" /\ Drop(r)
  /\ UNCHANGED <<now, ll, m, bytes>>

Enter(r) ==
  /\ pc[r] = "slot" /\ Cardinality(Holding) < Slots
  /\ Become(r, "fetch")
  /\ UNCHANGED <<now, ll, m, bytes, url, since>>

\* The visitor leaves while the request waits for a slot.
Leave(r) ==
  /\ pc[r] = "slot" /\ Drop(r)
  /\ UNCHANGED <<now, ll, m, bytes>>

\* An image that must be made smaller waits for its turn to be decoded.
Received(r) ==
  /\ pc[r] = "fetch" /\ Become(r, "turn")
  /\ UNCHANGED <<now, ll, m, bytes, url, since>>

Decode(r) ==
  /\ pc[r] = "turn" /\ \A q \in Reqs : pc[q] # "decode"
  /\ Become(r, "decode")
  /\ UNCHANGED <<now, ll, m, bytes, url, since>>

-----------------------------------------------------------------------------
(* store: the second critical section *)

\* The bytes of the entries of a list, one by one.
BytesOf(s) == UNION {{i} \X (1 .. s[i].size) : i \in DOMAIN s}
SumOf(s)   == Cardinality(BytesOf(s))

Freed(u) == IF m[u] = None THEN 0 ELSE m[u].size

store(e) ==
  LET added == <<e>> \o (IF m[e.url] = None THEN ll ELSE Without(e.url))
      count == bytes - Freed(e.url) + e.size
      Beyond(k) == SumOf(SubSeq(added, k + 1, Len(added)))
      \* the last entries go until the count fits or one is left
      kept  == CHOOSE k \in 1 .. Len(added) :
                 /\ k = 1 \/ count - Beyond(k) <= Budget
                 /\ \A j \in k + 1 .. Len(added) : count - Beyond(j) > Budget
      Gone(u) == \E i \in kept + 1 .. Len(added) : added[i].url = u
  IN  /\ ll' = SubSeq(added, 1, kept)
      /\ m' = [u \in URLs |-> IF Gone(u) THEN None ELSE IF u = e.url THEN e ELSE m[u]]
      /\ bytes' = count - Beyond(kept)

\* The thumbnail, or a small image as it came.
Succeed(r) ==
  /\ pc[r] \in {"fetch", "decode"}
  /\ \E n \in Sizes : store([url |-> url[r], size |-> n, err |-> FALSE, at |-> now])
  /\ Drop(r)
  /\ UNCHANGED now

\* No answer, an error status, not an image, too large; also when the visitor leaves while
\* the image is fetched, since the fetch runs under the context of the request.
Fail(r) ==
  /\ pc[r] \in {"fetch", "decode"}
  /\ store([url |-> url[r], size |-> 0, err |-> TRUE, at |-> now])
  /\ Drop(r)
  /\ UNCHANGED now

Tick ==
  /\ now < MaxTime /\ now' = now + 1
  /\ UNCHANGED <<ll, m, bytes, pc, url, since>>

-----------------------------------------------------------------------------
Begin(r) == \E u \in URLs : Hit(r, u) \/ Lapse(r, u) \/ Miss(r, u)
Go(r)    == Allowed(r) \/ Limited(r) \/ Enter(r) \/ Received(r) \/ Decode(r) \/ Succeed(r) \/ Fail(r)

Next == Tick \/ \E r \in Reqs : Begin(r) \/ Go(r) \/ Leave(r)

Spec == Init /\ [][Next]_vars

\* The goroutine of a request goes on: the client's timeout ends a fetch, decoding ends, and
\* a channel serves the goroutines that wait for it in turn.
Fairness == \A r \in Reqs : SF_vars(Go(r))

FairSpec == Spec /\ Fairness

-----------------------------------------------------------------------------
(* The list and the map hold the same entries, each URL once (cached, store):  *)
(* an element that is in one of them only would never be evicted, or would be  *)
(* evicted twice.                                                              *)
Coherent ==
  /\ \A u \in URLs : m[u] # None => m[u].url = u /\ m[u] \in ToSet(ll)
  /\ \A i \in DOMAIN ll : m[ll[i].url] = ll[i]
  /\ \A i, j \in DOMAIN ll : ll[i].url = ll[j].url => i = j

(* The byte count is what the entries take, after every replacement, eviction  *)
(* and expiry, and within the budget unless a single image is larger (store).  *)
BytesExact == bytes = SumOf(ll) /\ (bytes <= Budget \/ Len(ll) = 1)

(* A thumbnail is replaced by a failure only when the request that failed had  *)
(* looked before the thumbnail was stored: two requests for one image fetch it *)
(* side by side (get).                                                         *)
GoodKept ==
  [][\A u \in URLs :
       (m[u] # None /\ ~m[u].err /\ m'[u] # None /\ m'[u].err) =>
         \E r \in Reqs : url[r] = u /\ url'[r] = None /\ since[r] <= m[u].at]_vars

(* Every request is answered, although it may hold a slot of the fetches while *)
(* it waits for its turn to decode (get, thumbnail).                           *)
EveryRequestEnds == \A r \in Reqs : pc[r] # "idle" ~> pc[r] = "idle"
=============================================================================
