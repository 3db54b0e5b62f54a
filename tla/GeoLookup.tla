------------------------------ MODULE GeoLookup ------------------------------
(* The geolocation of addresses by ip-api.com (panels.go geoCache, geolocate): *)
(* a list in order of use beside a map, with a maximum, and lookup runs that   *)
(* hold lookupMu from the first look in the cache to the last answer, waiting  *)
(* for the site's rate-limit window in between.  There is no clock: an entry   *)
(* has an age, and nextAllowed is what is left of the wait.                    *)
EXTENDS Integers, Sequences, SequencesExt, FiniteSets

CONSTANTS
  Callers,  \* goroutines that call geolocate
  Addrs,    \* addresses
  Public,   \* those of them that publicIP lets through
  None,     \* nobody
  Most,     \* g.max
  Batch,    \* addresses per request (100)
  Day,      \* age after which an entry is of no use (24 hours)
  Gap,      \* the wait after every request (4 seconds)
  Window    \* the longest time until the site's window reopens (X-Ttl)

GeoLookupAssumption ==
  /\ Public \subseteq Addrs /\ None \notin Callers
  /\ Most \in Nat \ {0} /\ Batch \in Nat \ {0}
  /\ Day \in Nat /\ Gap \in Nat /\ Window \in Nat /\ Gap <= Window

VARIABLES
  ll,           \* g.ll, the most recently used first: address and age
  m,            \* the addresses in g.m
  holder,       \* who holds lookupMu
  pc,           \* where each caller is
  pending,      \* addresses of the run not yet looked up in the cache
  todo,         \* addresses still to ask
  asked,        \* the batch that is under way
  answers,      \* answered addresses not yet put
  nextAllowed,  \* the wait until the next request
  rest          \* history: how long the site is to be left alone: what it told, or Gap

vars == <<ll, m, holder, pc, pending, todo, asked, answers, nextAllowed, rest>>

PCs == {"idle", "queue", "run", "asked", "put"}

TypeOK ==
  /\ ll \in Seq([ip : Addrs, age : 0 .. Day + 1]) /\ m \subseteq Addrs
  /\ holder \in Callers \union {None}
  /\ pc \in [Callers -> PCs]
  /\ pending \subseteq Addrs /\ todo \subseteq Public
  /\ asked \subseteq todo /\ answers \subseteq asked
  /\ nextAllowed \in 0 .. Window + 1 /\ rest \in 0 .. Window

Init ==
  /\ ll = <<>> /\ m = {} /\ holder = None
  /\ pc = [c \in Callers |-> "idle"]
  /\ pending = {} /\ todo = {} /\ asked = {} /\ answers = {}
  /\ nextAllowed = 0 /\ rest = 0

Become(c, p) == pc' = [pc EXCEPT ![c] = p]

\* The element of an address that is in g.m, its entry, and the list without it.
Element(a) == CHOOSE i \in DOMAIN ll : ll[i].ip = a
Entry(a)   == ll[Element(a)]
Without(a) == RemoveAt(ll, Element(a))
Fresh(a)   == a \in m /\ Entry(a).age <= Day

-----------------------------------------------------------------------------
(* get and put under g.mu *)

get(a) ==
  \/ /\ Fresh(a)
     /\ ll' = <<Entry(a)>> \o Without(a) /\ UNCHANGED m
  \/ /\ a \in m /\ ~Fresh(a)
     /\ ll' = Without(a) /\ m' = m \ {a}
  \/ a \notin m /\ UNCHANGED <<ll, m>>

put(a) ==
  LET s    == <<[ip |-> a, age |-> 0]>> \o (IF a \in m THEN Without(a) ELSE ll)
      kept == IF a \in m \/ Len(s) <= Most THEN Len(s) ELSE Most
  IN  /\ ll' = SubSeq(s, 1, kept)
      /\ m' = (m \union {a}) \ {s[i].ip : i \in kept + 1 .. Len(s)}

\* handleThreats shows what is known of an address.
Show(a) == get(a) /\ UNCHANGED <<holder, pc, pending, todo, asked, answers, nextAllowed, rest>>

-----------------------------------------------------------------------------
(* geolocate *)

Call(c) ==
  /\ pc[c] = "idle" /\ Become(c, "queue")
  /\ UNCHANGED <<ll, m, holder, pending, todo, asked, answers, nextAllowed, rest>>

\* Mutant of Lock: nobody holds lookupMu.
LockNot(c, ips) ==
  /\ pc[c] = "queue" /\ pending = {} /\ answers = {}
  /\ holder' = c /\ Become(c, "run")
  /\ pending' = ips /\ todo' = {}
  /\ UNCHANGED <<ll, m, asked, answers, nextAllowed, rest>>

Lock(c, ips) ==
  /\ pc[c] = "queue" /\ holder = None
  /\ holder' = c /\ Become(c, "run")
  /\ pending' = ips /\ todo' = {}
  /\ UNCHANGED <<ll, m, asked, answers, nextAllowed, rest>>

Unlock(c) ==
  /\ holder' = None /\ Become(c, "idle")
  /\ pending' = {} /\ todo' = {} /\ asked' = {} /\ answers' = {}

Known(c, a) ==
  /\ pc[c] = "run" /\ a \in pending /\ Fresh(a)
  /\ get(a) /\ pending' = pending \ {a}
  /\ UNCHANGED <<holder, pc, todo, asked, answers, nextAllowed, rest>>

\* A private address is put with no data.  The get before it may have dropped an old
\* entry; put does the same and makes it anew.
Private(c, a) ==
  /\ pc[c] = "run" /\ a \in pending \ Public /\ ~Fresh(a)
  /\ put(a) /\ pending' = pending \ {a}
  /\ UNCHANGED <<holder, pc, todo, asked, answers, nextAllowed, rest>>

ToAsk(c, a) ==
  /\ pc[c] = "run" /\ a \in pending \intersect Public /\ ~Fresh(a)
  /\ get(a) /\ pending' = pending \ {a} /\ todo' = todo \union {a}
  /\ UNCHANGED <<holder, pc, asked, answers, nextAllowed, rest>>

AllKnown(c) ==
  /\ pc[c] = "run" /\ pending = {} /\ todo = {}
  /\ Unlock(c)
  /\ UNCHANGED <<ll, m, nextAllowed, rest>>

Ready(c) == pc[c] = "run" /\ pending = {} /\ todo # {}

\* Mutant of Send: nextAllowed is not waited for.
SendNow(c) ==
  /\ Ready(c)
  /\ \E b \in SUBSET todo : Cardinality(b) = 1 /\ asked' = b
  /\ Become(c, "asked")
  /\ UNCHANGED <<ll, m, holder, pending, todo, answers, nextAllowed, rest>>

Send(c) ==
  /\ Ready(c) /\ nextAllowed = 0
  /\ \E b \in SUBSET todo :
       /\ Cardinality(b) = Batch \/ (b = todo /\ Cardinality(b) < Batch)
       /\ asked' = b
  /\ Become(c, "asked")
  /\ UNCHANGED <<ll, m, holder, pending, todo, answers, nextAllowed, rest>>

\* The context ends while the run waits.
GiveUp(c) ==
  /\ Ready(c) /\ nextAllowed > 0
  /\ Unlock(c)
  /\ UNCHANGED <<ll, m, nextAllowed, rest>>

\* An answer tells whether the site's window is used up (X-Rl, 429), and how long until it
\* opens again (X-Ttl): the program waits a second longer. Otherwise it waits four seconds.
Told(used, ttl) ==
  IF used THEN nextAllowed' = ttl + 1 /\ rest' = ttl ELSE nextAllowed' = Gap /\ rest' = Gap

\* No response tells nothing, whatever the window of the site; one that is refused or
\* cannot be read may tell.
Failed(c) ==
  /\ pc[c] = "asked"
  /\ \/ Told(FALSE, 0)
     \/ \E used \in BOOLEAN, ttl \in 0 .. Window : Told(used, ttl)
  /\ Unlock(c)
  /\ UNCHANGED <<ll, m>>

Answered(c) ==
  /\ pc[c] = "asked"
  /\ \E used \in BOOLEAN, ttl \in 0 .. Window : Told(used, ttl)
  /\ answers' \in SUBSET asked
  /\ Become(c, "put")
  /\ UNCHANGED <<ll, m, holder, pending, todo, asked>>

PutOne(c, a) ==
  /\ pc[c] = "put" /\ a \in answers
  /\ put(a) /\ answers' = answers \ {a}
  /\ UNCHANGED <<holder, pc, pending, todo, asked, nextAllowed, rest>>

\* Mutant of NextBatch: the loop does not move on.
SameBatch(c) ==
  /\ pc[c] = "put" /\ answers = {}
  /\ asked' = {} /\ Become(c, "run")
  /\ UNCHANGED <<ll, m, holder, pending, todo, answers, nextAllowed, rest>>

NextBatch(c) ==
  /\ pc[c] = "put" /\ answers = {}
  /\ todo' = todo \ asked /\ asked' = {} /\ Become(c, "run")
  /\ UNCHANGED <<ll, m, holder, pending, answers, nextAllowed, rest>>

Less(n) == IF n > 0 THEN n - 1 ELSE 0

Tick ==
  /\ ll' = [i \in DOMAIN ll |-> [ll[i] EXCEPT !.age = IF @ > Day THEN @ ELSE @ + 1]]
  /\ nextAllowed' = Less(nextAllowed) /\ rest' = Less(rest)
  /\ UNCHANGED <<m, holder, pc, pending, todo, asked, answers>>

-----------------------------------------------------------------------------
Run(c) ==
  \/ \E a \in Addrs : Known(c, a) \/ Private(c, a) \/ ToAsk(c, a) \/ PutOne(c, a)
  \/ AllKnown(c) \/ Send(c) \/ Failed(c) \/ Answered(c) \/ NextBatch(c)

Locks(c) == \E ips \in SUBSET Addrs : Lock(c, ips)

Next ==
  \/ Tick
  \/ \E a \in Addrs : Show(a)
  \/ \E c \in Callers : Call(c) \/ Locks(c) \/ Run(c) \/ GiveUp(c)

Spec == Init /\ [][Next]_vars

\* Time passes; the run that holds the lock goes on; a mutex serves its waiters in the end.
Fairness == WF_vars(Tick) /\ \A c \in Callers : SF_vars(Run(c) \/ Locks(c))

FairSpec == Spec /\ Fairness

-----------------------------------------------------------------------------
(* The list and the map hold the same addresses, each once and at most Most    *)
(* (get, put), whatever handlers and lookup runs do in between.                *)
CacheCoherent ==
  /\ m = {e.ip : e \in ToSet(ll)}
  /\ \A i, j \in DOMAIN ll : ll[i].ip = ll[j].ip => i = j
  /\ Len(ll) <= Most

(* No address is asked for that the cache knows: what a run saw missing is    *)
(* still missing when its turn comes, although other runs put addresses before *)
(* it and handlers read them (geolocate: one lookup run at a time). An address *)
(* that was evicted or that the site left out of its answer is asked again.    *)
AskOnce == \A a \in todo \ (asked \ answers) : (\E c \in Callers : pc[c] = "run") => ~Fresh(a)

(* A request is sent only when the time is over which the site told last until *)
(* its window opens again, or four seconds after a request that did not have   *)
(* it told so, however many runs followed each other and whether they failed   *)
(* (geolocate: "stay within 15 requests/min even when headers are missing;     *)
(* wait for reset when exhausted").                                            *)
Polite == [][\A c \in Callers : (pc[c] = "run" /\ pc'[c] = "asked") => rest = 0]_vars

(* Every call of geolocate returns, also one that queues behind runs that wait *)
(* for the rate-limit window.                                                  *)
EveryLookupEnds == \A c \in Callers : pc[c] # "idle" ~> pc[c] = "idle"
=============================================================================
