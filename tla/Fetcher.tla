------------------------------- MODULE Fetcher -------------------------------
(***************************************************************************)
(* The outbound HTTP gate of feeds.go: every upstream request of the       *)
(* server (news feeds, panels, push messages, icons) goes through          *)
(* Fetcher.Do, which takes a slot of the host it calls, then a slot of     *)
(* the process-wide pool, talks to the server, and gives both back.        *)
(*                                                                         *)
(* The two buffered channels are counters of the slots in use.  A call is  *)
(* one goroutine inside Do; when it has returned its goroutine may call    *)
(* again.  What the server answers (200, 304, an error status, a body that *)
(* is too large, a timeout) does not matter here: each ends the call.      *)
(***************************************************************************)
EXTENDS Integers, FiniteSets

CONSTANTS
    Calls,          \* goroutines that call Do
    Hosts,          \* upstream host names
    HostOf,         \* the host each goroutine calls
    PerHostLimit,   \* perHostLimit
    MaxConcurrent   \* fetch.max_concurrent, 1..32 after validation

ASSUME FetcherAssumption ==
    /\ IsFiniteSet(Calls)
    /\ HostOf \in [Calls -> Hosts]
    /\ PerHostLimit \in Nat \ {0}
    /\ MaxConcurrent \in Nat \ {0}

VARIABLES
    pc,         \* where each goroutine is in Do
    hostUsed,   \* len(f.perHost[h])
    globalUsed, \* len(f.global)
    cancelled   \* ctx.Done() of the call is closed

vars == <<pc, hostUsed, globalUsed, cancelled>>

PCs == {"idle", "waitHost", "waitGlobal", "busy", "freeHost"}

(* The calls that hold a slot of host h, and those that hold a global one. *)
HoldsHost(h) ==
    {c \in Calls : HostOf[c] = h /\ pc[c] \in {"waitGlobal", "busy", "freeHost"}}
HoldsGlobal == {c \in Calls : pc[c] = "busy"}

Init ==
    /\ pc = [c \in Calls |-> "idle"]
    /\ hostUsed = [h \in Hosts |-> 0]
    /\ globalUsed = 0
    /\ cancelled = [c \in Calls |-> FALSE]
-----------------------------------------------------------------------------
(* Do enters acquire with a live context and waits for its host. *)
Do(c) ==
    /\ pc[c] = "idle"
    /\ pc' = [pc EXCEPT ![c] = "waitHost"]
    /\ cancelled' = [cancelled EXCEPT ![c] = FALSE]
    /\ UNCHANGED <<hostUsed, globalUsed>>

(* The caller's context ends: the client went away, or the server stops. *)
Cancel(c) ==
    /\ pc[c] \in {"waitHost", "waitGlobal", "busy"}
    /\ ~cancelled[c]
    /\ cancelled' = [cancelled EXCEPT ![c] = TRUE]
    /\ UNCHANGED <<pc, hostUsed, globalUsed>>

(* Mutant of TakeHost: the channel is one slot too large. *)
TakeHostOffByOne(c) ==
    /\ pc[c] = "waitHost"
    /\ hostUsed[HostOf[c]] =< PerHostLimit
    /\ hostUsed' = [hostUsed EXCEPT ![HostOf[c]] = @ + 1]
    /\ pc' = [pc EXCEPT ![c] = "waitGlobal"]
    /\ UNCHANGED <<globalUsed, cancelled>>

(* case h <- struct{}{}: *)
TakeHost(c) ==
    /\ pc[c] = "waitHost"
    /\ hostUsed[HostOf[c]] < PerHostLimit
    /\ hostUsed' = [hostUsed EXCEPT ![HostOf[c]] = @ + 1]
    /\ pc' = [pc EXCEPT ![c] = "waitGlobal"]
    /\ UNCHANGED <<globalUsed, cancelled>>

(* case <-ctx.Done(): of the first select; nothing is held yet. *)
AbandonHost(c) ==
    /\ pc[c] = "waitHost"
    /\ cancelled[c]
    /\ pc' = [pc EXCEPT ![c] = "idle"]
    /\ UNCHANGED <<hostUsed, globalUsed, cancelled>>

(* Mutant of TakeGlobal: go on when the context is done, slot or no slot. *)
TakeGlobalOnCancel(c) ==
    /\ pc[c] = "waitGlobal"
    /\ globalUsed < MaxConcurrent \/ cancelled[c]
    /\ globalUsed' = IF globalUsed < MaxConcurrent THEN globalUsed + 1 ELSE globalUsed
    /\ pc' = [pc EXCEPT ![c] = "busy"]
    /\ UNCHANGED <<hostUsed, cancelled>>

(* case f.global <- struct{}{}: *)
TakeGlobal(c) ==
    /\ pc[c] = "waitGlobal"
    /\ globalUsed < MaxConcurrent
    /\ globalUsed' = globalUsed + 1
    /\ pc' = [pc EXCEPT ![c] = "busy"]
    /\ UNCHANGED <<hostUsed, cancelled>>

(* Mutant of AbandonGlobal: return without taking the host token back. *)
AbandonGlobalLeak(c) ==
    /\ pc[c] = "waitGlobal"
    /\ cancelled[c]
    /\ pc' = [pc EXCEPT ![c] = "idle"]
    /\ UNCHANGED <<hostUsed, globalUsed, cancelled>>

(* case <-ctx.Done(): of the second select; the host slot goes back next. *)
AbandonGlobal(c) ==
    /\ pc[c] = "waitGlobal"
    /\ cancelled[c]
    /\ pc' = [pc EXCEPT ![c] = "freeHost"]
    /\ UNCHANGED <<hostUsed, globalUsed, cancelled>>

(* The answer, the per-request timeout or the cancelled context ends the   *)
(* exchange; the deferred release takes its token out of f.global first.   *)
Finish(c) ==
    /\ pc[c] = "busy"
    /\ globalUsed > 0
    /\ globalUsed' = globalUsed - 1
    /\ pc' = [pc EXCEPT ![c] = "freeHost"]
    /\ UNCHANGED <<hostUsed, cancelled>>

(* <-h, the last statement of release and of the abandoned wait. *)
FreeHost(c) ==
    /\ pc[c] = "freeHost"
    /\ hostUsed[HostOf[c]] > 0
    /\ hostUsed' = [hostUsed EXCEPT ![HostOf[c]] = @ - 1]
    /\ pc' = [pc EXCEPT ![c] = "idle"]
    /\ UNCHANGED <<globalUsed, cancelled>>

Step(c) ==
    \/ Do(c) \/ Cancel(c)
    \/ TakeHost(c) \/ AbandonHost(c)
    \/ TakeGlobal(c) \/ AbandonGlobal(c)
    \/ Finish(c) \/ FreeHost(c)

Next == \E c \in Calls : Step(c)

Spec == Init /\ [][Next]_vars
-----------------------------------------------------------------------------
(* Fairness.  A goroutine that can run does run.  The Go runtime serves    *)
(* the senders blocked on a channel in the order they came, so a slot that *)
(* keeps coming free reaches every waiter: strong fairness for the two     *)
(* sends.  An exchange ends because http.Client enforces the timeout that  *)
(* Do sets once it holds both slots.                                       *)
Fair(c) ==
    /\ SF_vars(TakeHost(c))
    /\ SF_vars(TakeGlobal(c))
    /\ WF_vars(FreeHost(c))

(* The extreme of a slow upstream: the exchanges with host slow may never  *)
(* end, those with every other host do.                                    *)
SlowHostFairness(slow) ==
    /\ \A c \in Calls : Fair(c)
    /\ \A c \in Calls : HostOf[c] # slow => WF_vars(Finish(c))
-----------------------------------------------------------------------------
(* Every variable has its type, and no channel holds more than it can. *)
TypeOK ==
    /\ pc \in [Calls -> PCs]
    /\ hostUsed \in [Hosts -> 0..PerHostLimit]
    /\ globalUsed \in 0..MaxConcurrent
    /\ cancelled \in [Calls -> BOOLEAN]

(* Every token in a channel belongs to one call that is past that send and *)
(* will take it out again: no path through acquire, Do and release loses a *)
(* slot or gives one back twice, however cancellations interleave.         *)
SlotAccounting ==
    /\ globalUsed = Cardinality(HoldsGlobal)
    /\ \A h \in Hosts : hostUsed[h] = Cardinality(HoldsHost(h))

(* "polite outbound HTTP with global and per-host concurrency limits":     *)
(* the requests really in flight, not the counters, stay within both.      *)
PoliteLimits ==
    /\ Cardinality({c \in Calls : pc[c] = "busy"}) =< MaxConcurrent
    /\ \A h \in Hosts :
          Cardinality({c \in Calls : pc[c] = "busy" /\ HostOf[c] = h})
              =< PerHostLimit

(* Both: the tokens are right, and so the limits hold (acquire, release).  *)
SlotsSound == SlotAccounting /\ PoliteLimits

(* A busy host does not hold up the others: the reason acquire takes the   *)
(* host slot first ("goroutines queued behind a busy host never hold a     *)
(* global slot").  Every call to another host returns: neither wait can    *)
(* starve it, whoever is cancelled meanwhile.  Meant for                   *)
(* SlowHostFairness(slow) and a global limit above the per-host one.       *)
HostIsolation(slow) ==
    \A c \in Calls : HostOf[c] # slow => (pc[c] # "idle" ~> pc[c] = "idle")
=============================================================================
