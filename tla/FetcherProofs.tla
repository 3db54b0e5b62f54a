---------------------------- MODULE FetcherProofs ----------------------------
(* Type correctness, slot accounting and the two limits of Fetcher, for    *)
(* every finite set of callers, every assignment of hosts and all limits.  *)
EXTENDS Fetcher, FiniteSetTheorems, TLAPS

(* The variables have their types, Cardinality aside: the step from a      *)
(* counter to the calls it counts needs the counters to be integers first. *)
LEMMA HoldersFinite ==
    /\ IsFiniteSet(HoldsGlobal)
    /\ \A h \in Hosts : IsFiniteSet(HoldsHost(h))
<1>1. HoldsGlobal \subseteq Calls
  BY DEF HoldsGlobal
<1>2. \A h \in Hosts : HoldsHost(h) \subseteq Calls
  BY DEF HoldsHost
<1>3. QED BY <1>1, <1>2, FetcherAssumption, FS_Subset

(* The type invariant: no counter leaves 0..limit. *)
THEOREM TypeCorrect == Spec => []TypeOK
<1> USE FetcherAssumption
<1>1. Init => TypeOK
  BY DEF Init, TypeOK, PCs
<1>2. TypeOK /\ [Next]_vars => TypeOK'
  <2> SUFFICES ASSUME TypeOK, [Next]_vars PROVE TypeOK'
    OBVIOUS
  <2> USE DEF TypeOK, PCs
  <2>1. ASSUME NEW c \in Calls, Do(c) PROVE TypeOK'
    BY <2>1 DEF Do
  <2>2. ASSUME NEW c \in Calls, Cancel(c) PROVE TypeOK'
    BY <2>2 DEF Cancel
  <2>3. ASSUME NEW c \in Calls, TakeHost(c) PROVE TypeOK'
    BY <2>3 DEF TakeHost
  <2>4. ASSUME NEW c \in Calls, AbandonHost(c) PROVE TypeOK'
    BY <2>4 DEF AbandonHost
  <2>5. ASSUME NEW c \in Calls, TakeGlobal(c) PROVE TypeOK'
    BY <2>5 DEF TakeGlobal
  <2>6. ASSUME NEW c \in Calls, AbandonGlobal(c) PROVE TypeOK'
    BY <2>6 DEF AbandonGlobal
  <2>7. ASSUME NEW c \in Calls, Finish(c) PROVE TypeOK'
    BY <2>7 DEF Finish
  <2>8. ASSUME NEW c \in Calls, FreeHost(c) PROVE TypeOK'
    BY <2>8 DEF FreeHost
  <2>9. CASE UNCHANGED vars
    BY <2>9 DEF vars
  <2>10. QED
    BY <2>1, <2>2, <2>3, <2>4, <2>5, <2>6, <2>7, <2>8, <2>9 DEF Next, Step
<1>3. QED BY <1>1, <1>2, PTL DEF Spec
-----------------------------------------------------------------------------
(* A call that takes or returns a slot of its host moves that host's count *)
(* of holders by one and leaves the other hosts' holders alone.            *)
LEMMA HostMoves ==
    ASSUME TypeOK, NEW c \in Calls, NEW h \in Hosts,
           NEW p \in PCs, pc' = [pc EXCEPT ![c] = p]
    PROVE  /\ HostOf[c] # h => HoldsHost(h)' = HoldsHost(h)
           /\ HostOf[c] = h /\ p \in {"waitGlobal", "busy", "freeHost"}
                => HoldsHost(h)' = HoldsHost(h) \cup {c}
           /\ p \notin {"waitGlobal", "busy", "freeHost"}
                => HoldsHost(h)' = HoldsHost(h) \ {c}
  BY FetcherAssumption DEF HoldsHost, TypeOK, PCs

LEMMA GlobalMoves ==
    ASSUME TypeOK, NEW c \in Calls, NEW p \in PCs, pc' = [pc EXCEPT ![c] = p]
    PROVE  /\ p = "busy" => HoldsGlobal' = HoldsGlobal \cup {c}
           /\ p # "busy" => HoldsGlobal' = HoldsGlobal \ {c}
  BY DEF HoldsGlobal, TypeOK, PCs

(* A step that keeps each call on its side of both channels keeps the      *)
(* counters and the holders they count.                                    *)
LEMMA SameHolders ==
    ASSUME SlotAccounting, UNCHANGED <<hostUsed, globalUsed>>,
           HoldsGlobal' = HoldsGlobal,
           \A h \in Hosts : HoldsHost(h)' = HoldsHost(h)
    PROVE  SlotAccounting'
<1>1. globalUsed' = Cardinality(HoldsGlobal')
  BY DEF SlotAccounting
<1>2. \A h \in Hosts : hostUsed'[h] = Cardinality(HoldsHost(h)')
  BY DEF SlotAccounting
<1>3. QED BY <1>1, <1>2 DEF SlotAccounting

LEMMA TakeHostCounts ==
    ASSUME TypeOK, SlotAccounting, NEW c \in Calls, TakeHost(c)
    PROVE  SlotAccounting'
<1> USE FetcherAssumption
<1>1. pc' = [pc EXCEPT ![c] = "waitGlobal"] /\ "waitGlobal" \in PCs
  BY DEF TakeHost, PCs
<1>2. HoldsGlobal' = HoldsGlobal
  BY <1>1, GlobalMoves DEF TakeHost, HoldsGlobal
<1>3. ASSUME NEW h \in Hosts PROVE hostUsed'[h] = Cardinality(HoldsHost(h)')
  <2>1. CASE HostOf[c] # h
    <3>1. HoldsHost(h)' = HoldsHost(h)
      BY <2>1, <1>1, HostMoves
    <3>2. hostUsed'[h] = hostUsed[h]
      BY <2>1 DEF TakeHost, TypeOK
    <3>3. QED BY <3>1, <3>2 DEF SlotAccounting
  <2>2. CASE HostOf[c] = h
    <3>1. HoldsHost(h)' = HoldsHost(h) \cup {c}
      BY <2>2, <1>1, HostMoves
    <3>2. c \notin HoldsHost(h)
      BY DEF TakeHost, HoldsHost
    <3>3. Cardinality(HoldsHost(h) \cup {c}) = Cardinality(HoldsHost(h)) + 1
      BY <3>2, HoldersFinite, FS_AddElement
    <3>4. hostUsed'[h] = hostUsed[h] + 1
      BY <2>2 DEF TakeHost, TypeOK
    <3>5. QED BY <3>1, <3>3, <3>4 DEF SlotAccounting
  <2>3. QED BY <2>1, <2>2
<1>4. globalUsed' = Cardinality(HoldsGlobal')
  BY <1>2 DEF TakeHost, SlotAccounting
<1>5. QED BY <1>3, <1>4 DEF SlotAccounting

LEMMA FreeHostCounts ==
    ASSUME TypeOK, SlotAccounting, NEW c \in Calls, FreeHost(c)
    PROVE  SlotAccounting'
<1> USE FetcherAssumption
<1>1. pc' = [pc EXCEPT ![c] = "idle"] /\ "idle" \in PCs
  BY DEF FreeHost, PCs
<1>2. HoldsGlobal' = HoldsGlobal
  BY <1>1, GlobalMoves DEF FreeHost, HoldsGlobal
<1>3. ASSUME NEW h \in Hosts PROVE hostUsed'[h] = Cardinality(HoldsHost(h)')
  <2>1. CASE HostOf[c] # h
    <3>1. HoldsHost(h)' = HoldsHost(h)
      BY <2>1, <1>1, HostMoves
    <3>2. hostUsed'[h] = hostUsed[h]
      BY <2>1 DEF FreeHost, TypeOK
    <3>3. QED BY <3>1, <3>2 DEF SlotAccounting
  <2>2. CASE HostOf[c] = h
    <3>1. HoldsHost(h)' = HoldsHost(h) \ {c}
      BY <1>1, HostMoves, ZenonT(30)
    <3>2. c \in HoldsHost(h)
      BY <2>2 DEF FreeHost, HoldsHost
    <3>3. Cardinality(HoldsHost(h) \ {c}) = Cardinality(HoldsHost(h)) - 1
      BY <3>2, HoldersFinite, FS_RemoveElement
    <3>4. hostUsed'[h] = hostUsed[h] - 1
      BY <2>2 DEF FreeHost, TypeOK
    <3>5. QED BY <3>1, <3>3, <3>4 DEF SlotAccounting
  <2>3. QED BY <2>1, <2>2
<1>4. globalUsed' = Cardinality(HoldsGlobal')
  BY <1>2 DEF FreeHost, SlotAccounting
<1>5. QED BY <1>3, <1>4 DEF SlotAccounting

LEMMA TakeGlobalCounts ==
    ASSUME TypeOK, SlotAccounting, NEW c \in Calls, TakeGlobal(c)
    PROVE  SlotAccounting'
<1> USE FetcherAssumption
<1>1. pc' = [pc EXCEPT ![c] = "busy"] /\ "busy" \in PCs
  BY DEF TakeGlobal, PCs
<1>2. HoldsGlobal' = HoldsGlobal \cup {c} /\ c \notin HoldsGlobal
  BY <1>1, GlobalMoves DEF TakeGlobal, HoldsGlobal
<1>3. Cardinality(HoldsGlobal') = Cardinality(HoldsGlobal) + 1
  BY <1>2, HoldersFinite, FS_AddElement
<1>4. \A h \in Hosts : HoldsHost(h)' = HoldsHost(h)
  BY <1>1 DEF TakeGlobal, HoldsHost, TypeOK
<1>5. \A h \in Hosts : hostUsed'[h] = Cardinality(HoldsHost(h)')
  BY <1>4 DEF TakeGlobal, SlotAccounting
<1>6. QED BY <1>3, <1>5 DEF TakeGlobal, SlotAccounting

LEMMA FinishCounts ==
    ASSUME TypeOK, SlotAccounting, NEW c \in Calls, Finish(c)
    PROVE  SlotAccounting'
<1> USE FetcherAssumption
<1>1. pc' = [pc EXCEPT ![c] = "freeHost"] /\ "freeHost" \in PCs
  BY DEF Finish, PCs
<1>2. HoldsGlobal' = HoldsGlobal \ {c} /\ c \in HoldsGlobal
  BY <1>1, GlobalMoves DEF Finish, HoldsGlobal
<1>3. Cardinality(HoldsGlobal') = Cardinality(HoldsGlobal) - 1
  BY <1>2, HoldersFinite, FS_RemoveElement
<1>4. \A h \in Hosts : HoldsHost(h)' = HoldsHost(h)
  BY <1>1 DEF Finish, HoldsHost, TypeOK
<1>5. \A h \in Hosts : hostUsed'[h] = Cardinality(HoldsHost(h)')
  BY <1>4 DEF Finish, SlotAccounting
<1>6. QED BY <1>3, <1>5 DEF Finish, SlotAccounting

(* No interleaving of calls and cancellations loses a slot or returns one  *)
(* twice.                                                                  *)
THEOREM SlotsCorrect == Spec => []SlotAccounting
<1> USE FetcherAssumption
<1>1. Init => SlotAccounting
  <2> SUFFICES ASSUME Init PROVE SlotAccounting
    OBVIOUS
  <2>1. HoldsGlobal = {} /\ \A h \in Hosts : HoldsHost(h) = {}
    BY DEF Init, HoldsGlobal, HoldsHost
  <2>2. QED BY <2>1, FS_EmptySet DEF Init, SlotAccounting
<1>2. TypeOK /\ SlotAccounting /\ [Next]_vars => SlotAccounting'
  <2> SUFFICES ASSUME TypeOK, SlotAccounting, [Next]_vars PROVE SlotAccounting'
    OBVIOUS
  <2>1. ASSUME NEW c \in Calls, Do(c) PROVE SlotAccounting'
    <3>1. HoldsGlobal' = HoldsGlobal /\ \A h \in Hosts : HoldsHost(h)' = HoldsHost(h)
      BY <2>1 DEF Do, HoldsGlobal, HoldsHost, TypeOK
    <3>2. QED BY <3>1, <2>1, SameHolders DEF Do
  <2>2. ASSUME NEW c \in Calls, Cancel(c) PROVE SlotAccounting'
    <3>1. HoldsGlobal' = HoldsGlobal /\ \A h \in Hosts : HoldsHost(h)' = HoldsHost(h)
      BY <2>2 DEF Cancel, HoldsGlobal, HoldsHost
    <3>2. QED BY <3>1, <2>2, SameHolders DEF Cancel
  <2>3. ASSUME NEW c \in Calls, AbandonHost(c) PROVE SlotAccounting'
    <3>1. HoldsGlobal' = HoldsGlobal /\ \A h \in Hosts : HoldsHost(h)' = HoldsHost(h)
      BY <2>3 DEF AbandonHost, HoldsGlobal, HoldsHost, TypeOK
    <3>2. QED BY <3>1, <2>3, SameHolders DEF AbandonHost
  <2>4. ASSUME NEW c \in Calls, AbandonGlobal(c) PROVE SlotAccounting'
    <3>1. HoldsGlobal' = HoldsGlobal /\ \A h \in Hosts : HoldsHost(h)' = HoldsHost(h)
      BY <2>4 DEF AbandonGlobal, HoldsGlobal, HoldsHost, TypeOK
    <3>2. QED BY <3>1, <2>4, SameHolders DEF AbandonGlobal
  <2>5. CASE UNCHANGED vars
    <3>1. HoldsGlobal' = HoldsGlobal /\ \A h \in Hosts : HoldsHost(h)' = HoldsHost(h)
      BY <2>5 DEF vars, HoldsGlobal, HoldsHost
    <3>2. QED BY <3>1, <2>5, SameHolders DEF vars
  <2>6. QED
    BY <2>1, <2>2, <2>3, <2>4, <2>5, TakeHostCounts, TakeGlobalCounts,
       FinishCounts, FreeHostCounts DEF Next, Step
<1>3. QED BY <1>1, <1>2, TypeCorrect, PTL DEF Spec
-----------------------------------------------------------------------------
(* The requests in flight stay within the per-host and the global limit:   *)
(* they are among the holders, and a counter within its limit counts those. *)
THEOREM LimitsHold == Spec => []PoliteLimits
<1>1. TypeOK /\ SlotAccounting => PoliteLimits
  <2> SUFFICES ASSUME TypeOK, SlotAccounting PROVE PoliteLimits
    OBVIOUS
  <2> USE FetcherAssumption
  <2>1. Cardinality({c \in Calls : pc[c] = "busy"}) =< MaxConcurrent
    BY DEF SlotAccounting, HoldsGlobal, TypeOK
  <2>2. ASSUME NEW h \in Hosts
        PROVE  Cardinality({c \in Calls : pc[c] = "busy" /\ HostOf[c] = h})
                 =< PerHostLimit
    <3> DEFINE B == {c \in Calls : pc[c] = "busy" /\ HostOf[c] = h}
    <3>1. B \subseteq HoldsHost(h)
      BY DEF HoldsHost
    <3>2. Cardinality(B) =< Cardinality(HoldsHost(h)) /\ Cardinality(B) \in Nat
      BY <3>1, HoldersFinite, FS_Subset, FS_CardinalityType
    <3>3. Cardinality(HoldsHost(h)) \in 0..PerHostLimit
      BY DEF SlotAccounting, TypeOK
    <3>4. QED BY <3>2, <3>3
  <2>3. QED BY <2>1, <2>2 DEF PoliteLimits
<1>2. QED BY <1>1, TypeCorrect, SlotsCorrect, PTL
-----------------------------------------------------------------------------
(* Both, for every number of calls and hosts and all limits.               *)
THEOREM GateSound == Spec => []SlotsSound
BY SlotsCorrect, LimitsHold, PTL DEF SlotsSound
=============================================================================
