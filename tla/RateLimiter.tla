----------------------------- MODULE RateLimiter -----------------------------
(* The token buckets per address of panels.go (rateLimiter): what each        *)
(* visitor may make the server fetch.  Time is counted in the time one token  *)
(* takes.  Buckets of addresses that were idle are pruned once in a while,    *)
(* and a flood of addresses empties the table.                                *)
EXTENDS Integers, FiniteSets, Functions

CONSTANTS
  Addrs,       \* addresses
  Burst,       \* l.burst
  PruneAt,     \* size of the table beyond which it is pruned (10000)
  PruneEvery,  \* the least time between two prunes (a minute)
  Idle,        \* idle time after which a bucket may go (ten minutes)
  ResetAt,     \* size beyond which the table is emptied (50000)
  MaxTime      \* bound of the model

\* Ten minutes fill any bucket: 10 * perMin is 120, 200 and 2400 against 20, 30 and 120.
ASSUME RateLimiterAssumption ==
  /\ Burst \in Nat \ {0} /\ PruneAt \in Nat /\ PruneEvery \in Nat /\ Idle \in Nat
  /\ ResetAt \in Nat /\ MaxTime \in Nat
  /\ Burst <= Idle
  /\ IsFiniteSet(Addrs)

VARIABLES
  now,        \* the clock
  buckets,    \* the table: tokens and the time they were counted, per address
  lastPrune,  \* when the table was last pruned
  granted,    \* history: requests granted to each address since the table was emptied
  resetAt     \* history: when that was

vars == <<now, buckets, lastPrune, granted, resetAt>>

Bucket == [tokens : 0 .. Burst, last : Nat]

TypeOK ==
  /\ now \in Nat /\ resetAt \in 0 .. now
  /\ lastPrune \in Int
  /\ DOMAIN buckets \subseteq Addrs
  /\ buckets \in [DOMAIN buckets -> Bucket]
  /\ \A a \in DOMAIN buckets : buckets[a].last <= now
  /\ granted \in [Addrs -> Nat]

Init ==
  /\ now = 0
  /\ buckets = [a \in {} |-> [tokens |-> 0, last |-> 0]]
  /\ lastPrune = -1 - PruneEvery     \* the zero time
  /\ granted = [a \in Addrs |-> 0]
  /\ resetAt = 0

Lower(x, y) == IF x < y THEN x ELSE y

\* The tokens an address has: what its bucket held and the time since, up to the burst.
Tokens(table, a) ==
  IF a \in DOMAIN table THEN Lower(Burst, table[a].tokens + (now - table[a].last)) ELSE Burst

PruneDue == Cardinality(DOMAIN buckets) > PruneAt /\ now - lastPrune > PruneEvery

\* Mutant of Busy: every bucket that was not used just now goes.
BusyNow(a) == now - buckets[a].last < 1
Busy(a) == now - buckets[a].last <= Idle

Pruned == IF PruneDue THEN Restrict(buckets, {a \in DOMAIN buckets : Busy(a)}) ELSE buckets

Crowded(table) == Cardinality(DOMAIN table) > ResetAt

Put(table, a, b) == [x \in DOMAIN table \union {a} |-> IF x = a THEN b ELSE table[x]]

\* Mutant of Charged: a refused request costs nothing, but neither does a granted one of
\* a new bucket.
ChargedLater(table, a) ==
  IF a \in DOMAIN table /\ Tokens(table, a) > 0 THEN Tokens(table, a) - 1 ELSE Tokens(table, a)
Charged(table, a) == IF Tokens(table, a) > 0 THEN Tokens(table, a) - 1 ELSE 0

\* allow: prune, empty when there are too many, count the tokens, take one.
allow(a) ==
  LET flood == Crowded(Pruned)
      table == IF flood THEN [x \in {} |-> [tokens |-> 0, last |-> 0]] ELSE Pruned
      ok    == Tokens(table, a) > 0
      since == IF flood THEN [x \in Addrs |-> 0] ELSE granted
  IN  /\ buckets' = Put(table, a, [tokens |-> Charged(table, a), last |-> now])
      /\ lastPrune' = IF PruneDue THEN now ELSE lastPrune
      /\ granted' = IF ok THEN [since EXCEPT ![a] = @ + 1] ELSE since
      /\ resetAt' = IF flood THEN now ELSE resetAt
      /\ UNCHANGED now

Tick ==
  /\ now < MaxTime
  /\ now' = now + 1
  /\ UNCHANGED <<buckets, lastPrune, granted, resetAt>>

Next == Tick \/ \E a \in Addrs : allow(a)

Spec == Init /\ [][Next]_vars

-----------------------------------------------------------------------------
(* However many addresses come by, the table stays bounded (the comment of     *)
(* allow: "start over rather than grow without bound").                        *)
TableBounded == Cardinality(DOMAIN buckets) <= ResetAt + 1

(* Since the table was last emptied no address was granted more than its burst *)
(* and a request per time unit, although its bucket may have been pruned and   *)
(* made anew in between (allow).                                               *)
RateBound == \A a \in Addrs : granted[a] <= Burst + (now - resetAt)

(* Both: neither the table nor what an address is granted grows without bound. *)
Bounded == TableBounded /\ RateBound

(* The table with its pruning behaves as if every address had a bucket of its  *)
(* own for ever (allow); only an overfull table fills them all again.          *)
Abstract == INSTANCE TokenBuckets WITH
              level <- [a \in Addrs |-> Tokens(buckets, a)],
              crowded <- Crowded(buckets)
ImplementsTokenBuckets == Abstract!Spec
=============================================================================
