----------------------------- MODULE PartsProofs -----------------------------
(* Proofs about the parts of MCParts, for any values of their constants.      *)
(*   CountsExact     a complete count of P2000 alerts is the exact one        *)
(*   FileNeverLost   the file of the bridges loses nothing and is whole       *)
(*   IconsNeverLost  icons stay, and the file has them                        *)
(*   WasteNamed      the calendar that an address is given                    *)
(*   SaysWhatChanged what the watcher sends is what has changed               *)
(*   BridgesInOrder  the bridges, their indexes and what a visitor is shown   *)
(*   PageStaysSound  the page of news that a request names                    *)
(*   RateIsBounded, RefinesTokenBuckets  what an address is granted           *)
(*   PartsTyped      the types of all of them                                 *)
(* A behaviour of MCSpec takes the steps of one part, so that the invariant   *)
(* of a part need only be kept by its own steps.                              *)
EXTENDS MCParts, OrderLemmas, Sequences

------------------------------------------------------------------------------
(* The counts of P2000 alerts (P2KCounter).                                   *)

(* The Min of the library is that least element.                              *)
LEMMA MinIsLeast ==
  ASSUME NEW T \in SUBSET Nat, T # {}
  PROVE  P2K!Min(T) \in T /\ \A y \in T : P2K!Min(T) <= y
BY LeastOf DEF P2K!Min

\* The operators that the counter takes from the library are those of the library.
LEMMA SameCount == \A S : P2K!Cardinality(S) = Cardinality(S)
BY DEF P2K!Cardinality, Cardinality

(* The types of the counter.                                                  *)
CounterTyped ==
  /\ pNow \in P2K!Times /\ alerts \subseteq 1 .. pNow
  /\ answer \in (SUBSET alerts) \union {None}
  /\ asked \in 0 .. pNow /\ polled \in 0 .. asked
  /\ covered \in 0 .. pNow /\ lastFetch \in 0 .. pNow

(* Every alert since `covered' that the last poll could see, and that prune has *)
(* no reason to forget, is in seen; an answer on its way is the feed of now.  *)
CounterInv ==
  /\ CounterTyped
  /\ pSeen \subseteq alerts /\ \A t \in pSeen : t <= polled
  /\ answer # None => asked = pNow /\ answer = P2K!Feed
  /\ polled = lastFetch
  /\ lastFetch # 0 =>
       \A t \in alerts : covered <= t /\ t <= polled /\ lastFetch - t <= 2 * Hour => t \in pSeen

(* What is assumed of the constants of the counter.                           *)
LEMMA CounterConstants ==
  /\ Room \in Nat \ {0} /\ Hour \in Nat \ {0} /\ Recent \in Nat \ {0} /\ CounterTime \in Nat \ {0}
BY StoresAssumption DEF P2K!P2KCounterAssumption

(* The feed holds the newest Room of the alerts: an alert it has not is older *)
(* than Room others (panels.go poll).                                          *)
LEMMA FeedFacts ==
  ASSUME CounterTyped
  PROVE  /\ P2K!Feed \subseteq alerts /\ IsFiniteSet(P2K!Feed) /\ Cardinality(P2K!Feed) \in Nat
         /\ Cardinality(P2K!Feed) < Room => P2K!Feed = alerts
         /\ \A t \in P2K!Feed, u \in alerts : t <= u => u \in P2K!Feed
         /\ Cardinality(P2K!Feed) >= Room => P2K!Feed # {}
<1> DEFINE Later(t) == {u \in alerts : u > t}
           F == P2K!Feed
<1>1. pNow \in Nat /\ alerts \subseteq Nat /\ alerts \subseteq 0 .. pNow
  BY CounterConstants DEF CounterTyped, P2K!Times
<1>2. IsFiniteSet(alerts)
  <2>1. IsFiniteSet(0 .. pNow)
    BY <1>1, FS_Interval
  <2> QED
    BY <1>1, <2>1, FS_Subset
<1>3. F = {t \in alerts : Cardinality(Later(t)) < Room}
  BY SameCount DEF P2K!Feed
<1>4. IsFiniteSet(F) /\ Cardinality(F) \in Nat /\ F \subseteq alerts
  BY <1>2, <1>3, FS_Subset, FS_CardinalityType
<1>5. ASSUME NEW t \in alerts PROVE IsFiniteSet(Later(t)) /\ Cardinality(Later(t)) \in Nat
  BY <1>2, FS_Subset, FS_CardinalityType
<1>6. ASSUME NEW t \in F, NEW u \in alerts, t <= u PROVE u \in F
  <2>0. t \in alerts /\ \A w \in alerts : w \in Nat
    BY <1>1, <1>4
  <2>1. Later(u) \subseteq Later(t)
    BY <1>6, <2>0
  <2>2. Cardinality(Later(u)) <= Cardinality(Later(t))
    BY <1>3, <1>5, <2>1, FS_Subset
  <2>3. Cardinality(Later(t)) < Room
    BY <1>3
  <2> HIDE DEF F, Later
  <2>4. Cardinality(Later(u)) < Room
    BY <1>3, <1>4, <1>5, <2>2, <2>3, CounterConstants
  <2> QED
    BY <1>3, <2>4
<1>7. ASSUME Cardinality(F) < Room, F # alerts PROVE FALSE
  <2> DEFINE Lost == alerts \ F
  <2>1. Lost # {} /\ Lost \in SUBSET (0 .. pNow)
    BY <1>1, <1>4, <1>7
  <2>2. PICK t \in Lost : \A u \in Lost : u <= t
    BY <1>1, <2>1, GreatestOf
  <2>3. Later(t) \subseteq F
    <3> SUFFICES ASSUME NEW u \in alerts, u > t, u \notin F PROVE FALSE
      OBVIOUS
    <3>1. u \in Lost /\ u \in Nat /\ t \in Nat
      BY <1>1
    <3> QED
      BY <2>2, <3>1
  <2>4. Cardinality(Later(t)) <= Cardinality(F)
    BY <1>4, <2>3, FS_Subset
  <2>5. Cardinality(Later(t)) \in Nat
    BY <1>5, <2>2
  <2> HIDE DEF F, Later
  <2>6. Cardinality(Later(t)) < Room
    BY <1>4, <1>7, <2>4, <2>5, CounterConstants
  <2> QED
    BY <1>3, <2>2, <2>6
<1>8. ASSUME Cardinality(F) >= Room PROVE F # {}
  <2>1. Cardinality({}) = 0
    BY FS_EmptySet
  <2> HIDE DEF F
  <2> QED
    BY <2>1, <1>8, CounterConstants
<1> QED
  BY <1>4, <1>6, <1>7, <1>8

(* Every step of the counter keeps its invariant.                             *)
LEMMA CounterStep ==
  ASSUME CounterInv, [P2K!Next]_p2k
  PROVE  CounterInv'
<1> USE CounterConstants
<1>0. pNow \in 1 .. CounterTime /\ asked \in 0 .. pNow /\ polled \in 0 .. asked /\ covered \in 0 .. pNow
      /\ lastFetch \in 0 .. pNow /\ alerts \subseteq 1 .. pNow
  BY DEF CounterInv, CounterTyped, P2K!Times
<1>1. CASE P2K!Tick
  <2>1. answer = None /\ pNow' = pNow + 1 /\ pNow < CounterTime
        /\ UNCHANGED <<alerts, answer, asked, polled, pSeen, covered, lastFetch>>
    BY <1>1 DEF P2K!Tick
  <2>2. CounterTyped'
    BY <1>0, <2>1 DEF CounterInv, CounterTyped, P2K!Times
  <2> QED
    BY <2>1, <2>2 DEF CounterInv
<1>2. CASE P2K!Raise
  <2>1. /\ pNow \notin alerts /\ asked < pNow /\ alerts' = alerts \union {pNow}
        /\ UNCHANGED <<pNow, answer, asked, polled, pSeen, covered, lastFetch>>
    BY <1>2 DEF P2K!Raise
  <2>2. answer = None
    BY <1>0, <2>1 DEF CounterInv
  <2>3. CounterTyped'
    BY <1>0, <2>1, <2>2 DEF CounterInv, CounterTyped, P2K!Times
  <2> QED
    BY <1>0, <2>1, <2>2, <2>3 DEF CounterInv
<1>3. CASE P2K!Poll
  <2>1. /\ answer' = P2K!Feed /\ asked' = pNow
        /\ UNCHANGED <<pNow, alerts, polled, pSeen, covered, lastFetch>>
    BY <1>3 DEF P2K!Poll
  <2>2. P2K!Feed \subseteq alerts /\ (P2K!Feed)' = P2K!Feed
    BY <2>1 DEF P2K!Feed
  <2>3. CounterTyped'
    BY <1>0, <2>1, <2>2 DEF CounterInv, CounterTyped, P2K!Times
  <2> QED
    BY <2>1, <2>2, <2>3 DEF CounterInv
<1>4. CASE P2K!Fail
  <2>1. answer' = None /\ UNCHANGED <<pNow, alerts, asked, polled, pSeen, covered, lastFetch>>
    BY <1>4 DEF P2K!Fail
  <2>2. CounterTyped'
    BY <1>0, <2>1 DEF CounterInv, CounterTyped, P2K!Times
  <2> QED
    BY <2>1, <2>2 DEF CounterInv
<1>5. CASE P2K!Add
  <2> DEFINE oldest == P2K!Min(answer \union {pNow})
             full   == Cardinality(answer) >= Room
  <2>1. /\ answer # None
        /\ covered' = IF full /\ (lastFetch = 0 \/ oldest > lastFetch) THEN oldest
                      ELSE IF lastFetch = 0 THEN 0 ELSE covered
        /\ pSeen' = {t \in pSeen \union answer : pNow - t <= 2 * Hour}
        /\ lastFetch' = pNow /\ polled' = asked /\ answer' = None
        /\ UNCHANGED <<pNow, alerts, asked>>
    BY <1>5, SameCount DEF P2K!Add
  <2>2. asked = pNow /\ answer = P2K!Feed /\ CounterTyped
    BY <2>1 DEF CounterInv
  <2>3. answer \subseteq alerts /\ answer \union {pNow} \in SUBSET Nat /\ answer \union {pNow} # {}
    <3>1. answer \subseteq alerts
      BY <2>2, FeedFacts
    <3>2. \A t \in alerts : t \in Nat
      BY <1>0
    <3> QED
      BY <1>0, <3>1, <3>2
  <2>4. oldest \in answer \union {pNow} /\ \A t \in answer \union {pNow} : oldest <= t
    BY <2>3, MinIsLeast
  <2>5. full => \A t \in alerts : oldest <= t => t \in answer
    <3>1. full => answer # {}
      BY <2>2, FeedFacts
    <3>2. full => oldest \in answer
      <4> SUFFICES ASSUME full PROVE oldest \in answer
        OBVIOUS
      <4>1. PICK t \in answer : TRUE
        BY <3>1
      <4>2. t \in alerts /\ t <= pNow /\ oldest <= t /\ t \in Nat
        BY <1>0, <2>3, <2>4, <4>1
      <4>3. oldest = pNow => t = pNow
        BY <1>0, <4>2
      <4> QED
        BY <2>4, <4>1, <4>3
    <3> QED
      BY <2>2, <3>2, FeedFacts
  <2>6. ~full => answer = alerts
    <3>1. Cardinality(answer) \in Nat
      BY <2>2, FeedFacts
    <3> QED
      BY <2>2, <3>1, FeedFacts
  <2> HIDE DEF oldest, full
  <2>7. oldest \in 0 .. pNow /\ covered' \in 0 .. pNow
    BY <1>0, <2>1, <2>3, <2>4
  <2>8. CounterTyped'
    BY <1>0, <2>1, <2>2, <2>7 DEF CounterTyped, P2K!Times
  <2>9. pSeen' \subseteq alerts' /\ \A t \in pSeen' : t <= polled'
    <3>1. \A t \in pSeen \union answer : t \in alerts /\ t <= pNow
      BY <1>0, <2>3 DEF CounterInv
    <3>2. \A t \in pSeen' : t \in pSeen \union answer
      BY <2>1
    <3> QED
      BY <2>1, <2>2, <3>1, <3>2
  <2>10. ASSUME NEW t \in alerts, covered' <= t, pNow - t <= 2 * Hour PROVE t \in pSeen \union answer
    <3>1. CASE ~full
      BY <2>6, <3>1
    <3>2. CASE full /\ oldest <= t
      BY <2>5, <3>2
    <3>3. CASE full /\ ~ (oldest <= t)
      <4>1. t \in Nat /\ t <= pNow
        BY <1>0
      <4>2. lastFetch # 0 /\ covered' = covered /\ oldest <= lastFetch
        BY <1>0, <2>1, <2>7, <2>10, <3>3, <4>1
      <4>3. t <= polled /\ lastFetch - t <= 2 * Hour
        BY <1>0, <2>7, <2>10, <3>3, <4>1, <4>2 DEF CounterInv
      <4> QED
        BY <2>10, <4>2, <4>3 DEF CounterInv
    <3> QED
      BY <3>1, <3>2, <3>3
  <2> QED
    BY <2>1, <2>2, <2>8, <2>9, <2>10 DEF CounterInv
<1>6. CASE UNCHANGED p2k
  BY <1>6 DEF p2k, CounterInv, CounterTyped, P2K!Times, P2K!Feed
<1> QED
  BY <1>1, <1>2, <1>3, <1>4, <1>5, <1>6 DEF P2K!Next

(* The invariant holds when the server starts.                                *)
LEMMA CounterInit ==
  ASSUME P2K!Init
  PROVE  CounterInv
BY CounterConstants DEF P2K!Init, CounterInv, CounterTyped, P2K!Times

(* The invariant makes a complete count the exact one.                        *)
LEMMA CounterExact ==
  ASSUME CounterInv
  PROVE  P2K!CompleteIsExact
<1> SUFFICES ASSUME P2K!Complete PROVE P2K!Counted = {t \in alerts \intersect P2K!Window : t <= polled}
  BY DEF P2K!CompleteIsExact
<1>0. pNow \in 1 .. CounterTime /\ polled \in 0 .. pNow /\ covered \in 0 .. pNow /\ lastFetch \in 0 .. pNow
      /\ alerts \subseteq 1 .. pNow
  BY CounterConstants DEF CounterInv, CounterTyped, P2K!Times
<1>1. lastFetch # 0 /\ covered <= pNow - Hour
  BY DEF P2K!Complete
<1>2. ASSUME NEW t \in alerts, t \in P2K!Window, t <= polled PROVE t \in pSeen
  <2>1. t > pNow - Hour /\ t <= pNow /\ t \in Nat
    BY <1>0, <1>2 DEF P2K!Window
  <2>2. covered <= t /\ lastFetch - t <= 2 * Hour
    BY <1>0, <1>1, <2>1, CounterConstants
  <2> QED
    BY <1>1, <1>2, <2>2 DEF CounterInv
<1> QED
  BY <1>2 DEF CounterInv, P2K!Counted

(* A count that covers its whole window is exact: the alerts of the window that *)
(* the last poll had, neither one less nor one twice (add and count of the     *)
(* P2000 counter, panels.go), as long as an answer is added in the tick it was *)
(* given (Latency is FALSE in MCParts).                                       *)
THEOREM CountsExact == MCSpec => []CompleteIsExact
<1> DEFINE Inv == which = "p2k" => CounterInv
<1>1. MCInit => Inv
  BY CounterInit DEF MCInit
<1>2. Inv /\ [MCNext]_<<vars, others>> => Inv'
  <2> SUFFICES ASSUME Inv, [MCNext]_<<vars, others>>, which' = "p2k" PROVE CounterInv'
    OBVIOUS
  <2>1. which = "p2k" /\ [P2K!Next]_p2k
    BY DEF MCNext, others
  <2> QED
    BY <2>1, CounterStep
<1>3. Inv => CompleteIsExact
  BY CounterExact DEF CompleteIsExact
<1> QED
  BY <1>1, <1>2, <1>3, PTL DEF MCSpec

------------------------------------------------------------------------------
(* The two bridge jobs and their file (BridgeFile).                           *)

(* Unless two writers have met, one of the jobs writes at a time, the temporary *)
(* file holds its copy when it renames it, and its copy is the state in memory *)
(* or the state has been marked dirty since.                                  *)
FileInv ==
  /\ File!TypeOK
  /\ ~ met => \A i, j \in Jobs : File!Writing(i) /\ File!Writing(j) => i = j
  /\ ~ met => \A j \in Jobs : fpc[j] = "rename" => tmp = fCopy[j]
  /\ ~ met => \A j \in Jobs : File!Writing(j) => fCopy[j] = mem \/ fDirty
  /\ File!NothingUnsaved /\ File!NeverHalf

(* What is assumed of the constants of the bridge file.                       *)
LEMMA FileConstants ==
  /\ MaxChanges \in Nat /\ Partial \notin File!Versions /\ 0 \in File!Versions
  /\ \A n \in File!Versions : n < MaxChanges => n + 1 \in File!Versions
BY StoresAssumption DEF File!BridgeFileAssumption, File!Versions

(* Every step of the bridge jobs keeps the types.                             *)
LEMMA FileTyped ==
  ASSUME File!TypeOK, [File!Next]_file
  PROVE  File!TypeOK'
<1> USE FileConstants DEF File!TypeOK, File!Become
<1>1. CASE File!Restart
  <2>1. mem' \in File!Versions /\ fDisk' = mem'
    BY <1>1 DEF File!Restart
  <2>2. fpc' = [j \in Jobs |-> "idle"] /\ fDirty' = FALSE /\ UNCHANGED <<fCopy, tmp>>
    BY <1>1 DEF File!Restart
  <2>3. failed' = FALSE /\ met' = FALSE
    BY <1>1 DEF File!Restart
  <2> QED
    BY <2>1, <2>2, <2>3
<1>2. ASSUME NEW j \in Jobs, File!Change(j) PROVE File!TypeOK'
  BY <1>2 DEF File!Change
<1>3. ASSUME NEW j \in Jobs, File!Nothing(j) PROVE File!TypeOK'
  BY <1>3 DEF File!Nothing
<1>4. ASSUME NEW j \in Jobs, File!Copy(j) PROVE File!TypeOK'
  <2>1. met' \in BOOLEAN
    BY <1>4 DEF File!Copy
  <2> QED
    BY <1>4, <2>1 DEF File!Copy
<1>5. ASSUME NEW j \in Jobs, File!Truncate(j) PROVE File!TypeOK'
  BY <1>5 DEF File!Truncate
<1>6. ASSUME NEW j \in Jobs, File!Fill(j) PROVE File!TypeOK'
  BY <1>6 DEF File!Fill
<1>7. ASSUME NEW j \in Jobs, File!Rename(j) PROVE File!TypeOK'
  BY <1>7 DEF File!Rename
<1>8. ASSUME NEW j \in Jobs, File!Fails(j) PROVE File!TypeOK'
  BY <1>8 DEF File!Fails
<1>9. CASE UNCHANGED file
  BY <1>9 DEF file
<1> QED
  BY <1>1, <1>2, <1>3, <1>4, <1>5, <1>6, <1>7, <1>8, <1>9 DEF File!Next

(* Every step of the bridge jobs keeps the invariant.                         *)
LEMMA FileStep ==
  ASSUME FileInv, [File!Next]_file
  PROVE  FileInv'
<1> USE FileConstants DEF File!Become, File!Writing
<1>0. File!TypeOK /\ File!TypeOK'
  BY FileTyped DEF FileInv
<1>t. /\ fpc \in [Jobs -> {"idle", "save", "write", "fill", "rename"}] /\ fDirty \in BOOLEAN
      /\ fCopy \in [Jobs -> File!Versions] /\ mem \in File!Versions
  BY <1>0 DEF File!TypeOK
<1> DEFINE Rest == /\ ~ met => \A i, j \in Jobs : File!Writing(i) /\ File!Writing(j) => i = j
                   /\ ~ met => \A j \in Jobs : fpc[j] = "rename" => tmp = fCopy[j]
                   /\ ~ met => \A j \in Jobs : File!Writing(j) => fCopy[j] = mem \/ fDirty
                   /\ File!NothingUnsaved /\ File!NeverHalf
<1>r. Rest
  BY DEF FileInv
<1>1. ASSUME File!Restart PROVE Rest'
  <2>1. fDisk' = mem' /\ fDisk' \in File!Versions /\ \A j \in Jobs : fpc'[j] = "idle"
    BY <1>1 DEF File!Restart
  <2> QED
    BY <2>1 DEF File!NothingUnsaved, File!NeverHalf
<1>2. ASSUME NEW j \in Jobs, File!Change(j) PROVE Rest'
  BY <1>2, <1>t, <1>r DEF File!Change, File!NothingUnsaved, File!NeverHalf
<1>3. ASSUME NEW j \in Jobs, File!Nothing(j) PROVE Rest'
  BY <1>3, <1>t, <1>r DEF File!Nothing, File!NothingUnsaved, File!NeverHalf
<1>4. ASSUME NEW j \in Jobs, File!Copy(j) PROVE Rest'
  BY <1>4, <1>t, <1>r DEF File!Copy, File!NothingUnsaved, File!NeverHalf
<1>5. ASSUME NEW j \in Jobs, File!Truncate(j) PROVE Rest'
  BY <1>5, <1>t, <1>r DEF File!Truncate, File!NothingUnsaved, File!NeverHalf
<1>6. ASSUME NEW j \in Jobs, File!Fill(j) PROVE Rest'
  BY <1>6, <1>t, <1>r DEF File!Fill, File!NothingUnsaved, File!NeverHalf
<1>7. ASSUME NEW j \in Jobs, File!Rename(j) PROVE Rest'
  BY <1>7, <1>t, <1>r DEF File!Rename, File!NothingUnsaved, File!NeverHalf
<1>8. ASSUME NEW j \in Jobs, File!Fails(j) PROVE Rest'
  BY <1>8, <1>t, <1>r DEF File!Fails, File!NothingUnsaved, File!NeverHalf
<1>9. CASE UNCHANGED file
  BY <1>9 DEF file, FileInv, File!NothingUnsaved, File!NeverHalf, File!TypeOK
<1> QED
  BY <1>0, <1>1, <1>2, <1>3, <1>4, <1>5, <1>6, <1>7, <1>8, <1>9 DEF File!Next, FileInv

(* The invariant holds when the server starts.                                *)
LEMMA FileInit ==
  ASSUME File!Init
  PROVE  FileInv
BY FileConstants DEF File!Init, FileInv, File!TypeOK, File!Writing, File!NothingUnsaved,
   File!NeverHalf

(* What the bridge jobs save is not lost, and the file is never half written, *)
(* unless a write failed or two writers met (bridges.go saveBridgeState).     *)
THEOREM FileNeverLost == MCSpec => []FileSound
<1> DEFINE Inv == which = "file" => FileInv
<1>1. MCInit => Inv
  BY FileInit DEF MCInit
<1>2. Inv /\ [MCNext]_<<vars, others>> => Inv'
  <2> SUFFICES ASSUME Inv, [MCNext]_<<vars, others>>, which' = "file" PROVE FileInv'
    OBVIOUS
  <2>1. which = "file" /\ [File!Next]_file
    BY DEF MCNext, others
  <2> QED
    BY <2>1, FileStep
<1>3. Inv => FileSound
  BY DEF FileSound, FileInv
<1> QED
  BY <1>1, <1>2, <1>3, PTL DEF MCSpec

------------------------------------------------------------------------------
(* The icons and their file (IconCache).                                      *)

(* The icons of the file f are of known hosts, and no younger than now.       *)
Dated(f) == DOMAIN f \subseteq Hosts /\ \A h \in DOMAIN f : f[h] \in Icon!Icons /\ f[h] <= iNow

(* The types of the icon cache.                                               *)
IconTyped ==
  /\ iNow \in Icon!Icons
  /\ DOMAIN m \subseteq Hosts
  /\ m = [h \in DOMAIN m |-> [png |-> m[h].png, at |-> m[h].at]]
  /\ \A h \in DOMAIN m : m[h].png \in Icon!Icons \union {None} /\ m[h].at \in Icon!Icons /\ m[h].at <= iNow
  /\ iDirty \in BOOLEAN /\ ipc \in {"idle", "run", "write"}
  /\ iCopy = [h \in DOMAIN iCopy |-> iCopy[h]] /\ Dated(iCopy)
  /\ iDisk = [h \in DOMAIN iDisk |-> iDisk[h]] /\ Dated(iDisk)

(* Icons are fetched only while the job runs, and what is not dirty is in the *)
(* file, or in the copy that is about to be written to it.                    *)
IconInv ==
  /\ IconTyped
  /\ ipc # "run" => todo = {} /\ busy = {}
  /\ ipc # "write" /\ ~ iDirty => iDisk = Icon!Snapshot
  /\ ipc = "write" /\ ~ iDirty => iCopy = Icon!Snapshot

(* What is assumed of the constants of the icon cache.                        *)
LEMMA IconConstants ==
  /\ IconTime \in Nat /\ None \notin Icon!Icons /\ 0 \in Icon!Icons
  /\ \A t \in Icon!Icons : t \in Nat /\ (t < IconTime => t + 1 \in Icon!Icons)
BY StoresAssumption DEF Icon!IconCacheAssumption, Icon!Icons

(* What saveIcons copies: the icons that are there, of known hosts.           *)
LEMMA SnapshotDated ==
  ASSUME IconTyped
  PROVE  /\ Dated(Icon!Snapshot) /\ Icon!Snapshot = [h \in DOMAIN Icon!Snapshot |-> Icon!Snapshot[h]]
         /\ DOMAIN Icon!Snapshot = Icon!Good
BY DEF IconTyped, Dated, Icon!Snapshot, Icon!Good

(* No icon is lost or replaced by an older one, but where the file is loaded. *)
IconKeeps == \A h \in Icon!Good : \/ m' = Icon!Loaded
                                  \/ h \in DOMAIN m' /\ m'[h].png # None /\ m'[h].at >= m[h].at

(* A step that leaves the icons alone keeps them and their snapshot.          *)
LEMMA IconSame ==
  ASSUME IconInv, m' = m
  PROVE  IconKeeps /\ Icon!Snapshot' = Icon!Snapshot
<1>1. Icon!Good' = Icon!Good
  BY DEF Icon!Good
<1>2. Icon!Snapshot' = Icon!Snapshot
  BY <1>1 DEF Icon!Snapshot
<1>3. ASSUME NEW h \in Icon!Good PROVE h \in DOMAIN m' /\ m'[h].png # None /\ m'[h].at >= m[h].at
  <2>1. h \in DOMAIN m /\ m[h].png # None /\ m[h].at \in Nat
    BY IconConstants DEF IconInv, IconTyped, Icon!Good
  <2> QED
    BY <2>1
<1> QED
  BY <1>2, <1>3 DEF IconKeeps

(* A fetch that ends (set) keeps the icons and the types: a failure leaves the *)
(* icon that is there.                                                        *)
LEMMA SetKeeps ==
  ASSUME IconInv, NEW h \in Hosts, NEW png \in {iNow, None}, Icon!set(h, png), iNow' = iNow,
         h \in Icon!Good => png = iNow
  PROVE  /\ IconKeeps
         /\ DOMAIN m' \subseteq Hosts
         /\ m' = [g \in DOMAIN m' |-> [png |-> m'[g].png, at |-> m'[g].at]]
         /\ \A g \in DOMAIN m' : /\ m'[g].png \in Icon!Icons \union {None}
                                /\ m'[g].at \in Icon!Icons /\ m'[g].at <= iNow'
<1>1. m' = [g \in DOMAIN m \union {h} |-> IF g = h THEN [png |-> png, at |-> iNow] ELSE m[g]]
  BY DEF Icon!set
<1>2. DOMAIN m' = DOMAIN m \union {h}
  BY <1>1
<1>3. m'[h] = [png |-> png, at |-> iNow] /\ \A g \in DOMAIN m \ {h} : m'[g] = m[g]
  BY <1>1
<1>4. IconTyped /\ iNow \in Nat /\ png \in Icon!Icons \union {None}
  BY IconConstants DEF IconInv, IconTyped
<1>5. ASSUME NEW g \in DOMAIN m'
      PROVE  /\ m'[g].png \in Icon!Icons \union {None} /\ m'[g].at \in Icon!Icons /\ m'[g].at <= iNow'
             /\ m'[g] = [png |-> m'[g].png, at |-> m'[g].at]
  <2>1. CASE g = h
    BY <1>3, <1>4, <2>1 DEF IconTyped
  <2>2. CASE g # h
    <3>1. g \in DOMAIN m /\ m'[g] = m[g]
      BY <1>2, <1>3, <2>2
    <3>2. m[g] = [png |-> m[g].png, at |-> m[g].at]
      BY <1>4, <3>1 DEF IconTyped
    <3> QED
      BY <1>4, <3>1, <3>2 DEF IconTyped
  <2> QED
    BY <2>1, <2>2
<1>6. ASSUME NEW g \in Icon!Good PROVE g \in DOMAIN m' /\ m'[g].png # None /\ m'[g].at >= m[g].at
  <2>1. g \in DOMAIN m /\ m[g].png # None /\ m[g].at \in Nat /\ m[g].at <= iNow
    BY <1>4, IconConstants DEF Icon!Good, IconTyped
  <2>2. CASE g = h
    <3>1. png = iNow /\ iNow # None
      BY <2>2, <1>4, IconConstants DEF IconTyped
    <3> QED
      BY <1>2, <1>3, <1>4, <2>1, <2>2, <3>1
  <2>3. CASE g # h
    BY <1>2, <1>3, <2>1, <2>3
  <2> QED
    BY <2>2, <2>3
<1>7. m' = [g \in DOMAIN m' |-> [png |-> m'[g].png, at |-> m'[g].at]]
  <2>1. m' = [g \in DOMAIN m' |-> m'[g]]
    BY <1>1
  <2>2. [g \in DOMAIN m' |-> m'[g]] = [g \in DOMAIN m' |-> [png |-> m'[g].png, at |-> m'[g].at]]
    BY <1>5
  <2> QED
    BY <2>1, <2>2, Zenon
<1> QED
  BY <1>2, <1>4, <1>5, <1>6, <1>7 DEF IconKeeps, IconTyped

(* Every step of the icon cache keeps its invariant and its icons.            *)
LEMMA IconStep ==
  ASSUME IconInv, [Icon!Next]_icon
  PROVE  IconInv' /\ (icon' # icon => IconKeeps)
<1> USE IconConstants
<1>t. IconTyped
  BY DEF IconInv
<1>1. CASE Icon!Tick
  <2>1. iNow' = iNow + 1 /\ iNow < IconTime /\ UNCHANGED <<m, iDirty, ipc, todo, busy, iCopy, iDisk>>
    BY <1>1 DEF Icon!Tick
  <2>2. iNow' \in Icon!Icons /\ \A t \in Icon!Icons : t <= iNow => t <= iNow'
    <3>1. iNow \in Icon!Icons /\ iNow \in Nat /\ \A t \in Icon!Icons : t \in Nat
      BY <1>t DEF IconTyped
    <3>2. iNow' \in Icon!Icons
      BY <2>1, <3>1
    <3>3. \A t \in Nat : t <= iNow => t <= iNow + 1
      BY <3>1
    <3> QED
      BY <2>1, <3>1, <3>2, <3>3
  <2>3. /\ \A h \in DOMAIN m : m[h].at <= iNow'
        /\ \A h \in DOMAIN iCopy : iCopy[h] <= iNow'
        /\ \A h \in DOMAIN iDisk : iDisk[h] <= iNow'
    BY <1>t, <2>2 DEF IconTyped, Dated
  <2>4. IconTyped'
    BY <1>t, <2>1, <2>2, <2>3 DEF IconTyped, Dated
  <2> QED
    BY <2>1, <2>4, IconSame DEF IconInv
<1>2. CASE Icon!Start
  <2>1. ipc = "idle" /\ ipc' = "run" /\ UNCHANGED <<iNow, m, iDirty, busy, iCopy, iDisk>>
    BY <1>2 DEF Icon!Start
  <2>2. IconTyped'
    BY <1>t, <2>1 DEF IconTyped, Dated
  <2> QED
    BY <2>1, <2>2, IconSame DEF IconInv
<1>3. CASE Icon!Unchanged
  <2>1. /\ ipc = "run" /\ todo = {} /\ busy = {} /\ ~iDirty /\ ipc' = "idle"
        /\ UNCHANGED <<iNow, m, iDirty, todo, busy, iCopy, iDisk>>
    BY <1>3 DEF Icon!Unchanged, Icon!AllDone
  <2>2. IconTyped'
    BY <1>t, <2>1 DEF IconTyped, Dated
  <2> QED
    BY <2>1, <2>2, IconSame DEF IconInv
<1>4. CASE Icon!Save
  <2>1. /\ ipc = "run" /\ todo = {} /\ busy = {} /\ ipc' = "write" /\ iCopy' = Icon!Snapshot /\ iDirty' = FALSE
        /\ UNCHANGED <<iNow, m, todo, busy, iDisk>>
    BY <1>4 DEF Icon!Save, Icon!AllDone
  <2>2. IconTyped'
    <3>1. iCopy' = [h \in DOMAIN iCopy' |-> iCopy'[h]] /\ Dated(iCopy')
      BY <1>t, <2>1, SnapshotDated
    <3> QED
      BY <1>t, <2>1, <3>1 DEF IconTyped, Dated
  <2> QED
    BY <2>1, <2>2, IconSame DEF IconInv
<1>5. CASE Icon!Written
  <2>1. ipc = "write" /\ ipc' = "idle" /\ iDisk' = iCopy /\ UNCHANGED <<iNow, m, iDirty, todo, busy, iCopy>>
    BY <1>5 DEF Icon!Written
  <2>2. IconTyped'
    BY <1>t, <2>1 DEF IconTyped, Dated
  <2> QED
    BY <2>1, <2>2, IconSame DEF IconInv
<1>6. CASE Icon!NotWritten
  <2>1. ipc = "write" /\ ipc' = "idle" /\ iDirty' = TRUE /\ UNCHANGED <<iNow, m, todo, busy, iCopy, iDisk>>
    BY <1>6 DEF Icon!NotWritten
  <2>2. IconTyped'
    BY <1>t, <2>1 DEF IconTyped, Dated
  <2> QED
    BY <2>1, <2>2, IconSame DEF IconInv
<1>7. CASE Icon!Restart
  <2>1. /\ m' = Icon!Loaded /\ iDirty' = FALSE /\ ipc' = "idle" /\ todo' = {} /\ busy' = {}
        /\ UNCHANGED <<iNow, iCopy, iDisk>>
    BY <1>7 DEF Icon!Restart
  <2>2. m' = [h \in DOMAIN iDisk |-> [png |-> iDisk[h], at |-> iDisk[h]]]
    BY <2>1 DEF Icon!Loaded
  <2>3. DOMAIN m' = DOMAIN iDisk
    BY <2>2
  <2>4. \A h \in DOMAIN iDisk : m'[h].png = iDisk[h] /\ m'[h].at = iDisk[h]
    BY <2>2
  <2>5. Icon!Good' = DOMAIN iDisk
    <3>1. \A h \in DOMAIN iDisk : iDisk[h] # None
      BY <1>t DEF IconTyped, Dated
    <3> QED
      BY <2>3, <2>4, <3>1 DEF Icon!Good
  <2>6. Icon!Snapshot' = iDisk'
    <3>1. Icon!Snapshot' = [h \in DOMAIN iDisk |-> m'[h].at]
      BY <2>5 DEF Icon!Snapshot
    <3>2. @ = [h \in DOMAIN iDisk |-> iDisk[h]]
      BY <2>4
    <3> QED
      BY <1>t, <2>1, <3>1, <3>2 DEF IconTyped
  <2>7. IconTyped'
    <3>1. m' = [h \in DOMAIN m' |-> [png |-> m'[h].png, at |-> m'[h].at]]
      BY <2>2, <2>3, <2>4
    <3> QED
      BY <1>t, <2>1, <2>3, <2>4, <3>1, ZenonT(30) DEF IconTyped, Dated
  <2> QED
    BY <2>1, <2>6, <2>7 DEF IconInv, IconKeeps
<1>8. ASSUME NEW h \in Hosts, Icon!Skip(h) \/ Icon!Ask(h) PROVE IconInv' /\ IconKeeps
  <2>1. ipc = "run" /\ UNCHANGED <<iNow, m, iDirty, ipc, iCopy, iDisk>>
    BY <1>8 DEF Icon!Skip, Icon!Ask
  <2>2. IconTyped'
    BY <1>t, <2>1 DEF IconTyped, Dated
  <2> QED
    BY <2>1, <2>2, IconSame DEF IconInv
<1>9. ASSUME NEW h \in Hosts, Icon!Found(h) \/ Icon!NotFound(h) PROVE IconInv' /\ IconKeeps
  <2>1. h \in busy /\ ipc = "run" /\ UNCHANGED <<iNow, ipc, todo, iCopy, iDisk>>
    BY <1>9 DEF Icon!Found, Icon!NotFound, IconInv
  <2>2. CASE h \in Icon!Good /\ UNCHANGED <<m, iDirty>>
    <3>1. IconTyped'
      BY <1>t, <2>1, <2>2 DEF IconTyped, Dated
    <3> QED
      BY <2>1, <2>2, <3>1, IconSame DEF IconInv
  <2>3. CASE \E png \in {iNow, None} : Icon!set(h, png) /\ (h \in Icon!Good => png = iNow)
    <3>1. iDirty' = TRUE
      BY <2>3 DEF Icon!set
    <3>2. /\ IconKeeps
          /\ DOMAIN m' \subseteq Hosts
          /\ m' = [g \in DOMAIN m' |-> [png |-> m'[g].png, at |-> m'[g].at]]
          /\ \A g \in DOMAIN m' : /\ m'[g].png \in Icon!Icons \union {None}
                                /\ m'[g].at \in Icon!Icons /\ m'[g].at <= iNow'
      BY <2>1, <2>3, SetKeeps
    <3>3. IconTyped'
      BY <1>t, <2>1, <3>1, <3>2 DEF IconTyped, Dated
    <3> QED
      BY <2>1, <3>1, <3>2, <3>3 DEF IconInv
  <2> QED
    BY <1>9, <2>2, <2>3 DEF Icon!Found, Icon!NotFound
<1>10. CASE UNCHANGED icon
  BY <1>10, IconSame DEF icon, IconInv, IconTyped, Dated
<1> QED
  BY <1>1, <1>2, <1>3, <1>4, <1>5, <1>6, <1>7, <1>8, <1>9, <1>10 DEF Icon!Next

(* The invariant holds when the server starts.                                *)
LEMMA IconInit ==
  ASSUME Icon!Init
  PROVE  IconInv
BY IconConstants DEF Icon!Init, IconInv, IconTyped, Dated, Icon!Snapshot, Icon!Good

(* An icon stays until a younger one replaces it, and outside a save the file *)
(* holds every icon that is not marked to be saved (icons.go).                *)
THEOREM IconsNeverLost == MCSpec => IconsSound
<1>1. MCInit => IconInv
  BY IconInit DEF MCInit
<1>2. [MCNext]_<<vars, others>> => [Icon!Next]_icon
  BY DEF MCNext, others
<1>3. IconInv /\ [Icon!Next]_icon => IconInv'
  BY IconStep
<1>4. IconInv /\ [Icon!Next]_icon => [IconKeeps]_icon
  BY IconStep
<1>5. IconInv => Icon!IconsSaved
  BY DEF IconInv, Icon!IconsSaved
<1>6. Icon!IconKept <=> [][IconKeeps]_icon
  BY DEF Icon!IconKept, IconKeeps, Icon!vars, icon
<1> QED
  BY <1>1, <1>2, <1>3, <1>4, <1>5, <1>6, PTL DEF MCSpec, IconsSound

------------------------------------------------------------------------------
(* The calendar of an address (WasteLookup).                                  *)

(* A lookup, and the answer that its caller is given.                         *)
Looks ==
  [pc : {"idle", "ask", "own", "regional"},
   chosen : Waste!Providers \union {None}, id : Waste!Providers \union {None},
   list : SUBSET Waste!Providers, heard : BOOLEAN, asked : BOOLEAN,
   knew : SUBSET Waste!Providers, always : SUBSET Waste!Providers, missed : SUBSET Waste!Providers]

(* The answers that wasteForAddress gives.                                    *)
Answers ==
  [how : {"none", "found", "gone", "unreachable", "unknown", "error"},
   by : Waste!Providers \union {None}, dates : BOOLEAN]

(* A calendar that is named has known the address; without a remembered       *)
(* calendar, the ones before it that always knew it have failed; and only the *)
(* remembered calendar is named without dates asked for.                      *)
FoundSound(l, a) ==
  /\ a.by \in l.knew /\ l.chosen \in {a.by, None}
  /\ l.id = None => \A p \in l.always \intersect (Own \union Regional) :
                      Waste!Before(p, a.by) => p \in l.missed
  /\ ~ a.dates => l.id = None

(* "Unknown" means that every calendar that always knew the address has failed. *)
UnknownSound(l) ==
  IF l.chosen # None THEN l.chosen \notin l.always \ l.missed
  ELSE l.always \intersect (Own \union Regional) \subseteq l.missed

(* A lookup that is under way keeps to its list and remembers what failed.    *)
LookSound(l, a) ==
  /\ l.pc # "idle" => /\ l.always \subseteq l.list /\ l.always \subseteq knows
                      /\ knows \intersect l.list \subseteq l.knew
  /\ l.pc = "ask" => l.id # None /\ l.id \in l.list /\ l.chosen \in {l.id, None}
  /\ l.pc \in {"own", "regional"} => l.chosen = None /\ l.id = None
  /\ l.pc = "regional" => l.always \intersect Own \subseteq l.missed
  /\ l.pc = "idle" /\ a.how = "found" => FoundSound(l, a)
  /\ l.pc = "idle" /\ a.how = "unknown" => UnknownSound(l)

(* The types of the waste lookup.                                             *)
WasteTyped ==
  /\ enabled \subseteq Waste!Providers /\ knows \subseteq Waste!Providers
  /\ idx \in Waste!Providers \union {None}
  /\ look \in [Callers -> Looks] /\ wAnswer \in [Callers -> Answers]

(* The types, and a sound lookup for every caller.                            *)
WasteInv == WasteTyped /\ \A c \in Callers : LookSound(look[c], wAnswer[c])

(* What is assumed of the constants of the waste lookup.                      *)
LEMMA WasteConstants ==
  /\ Waste!Providers \subseteq Nat /\ None \notin Waste!Providers
  /\ Own \subseteq Waste!Providers /\ Regional \subseteq Waste!Providers /\ Elsewhere \subseteq Waste!Providers
  /\ Regional \intersect (Own \union Elsewhere) = {}
  /\ \A p \in Waste!Providers : Ending[p].other \subseteq {"unknown", "error"}
BY StoresAssumption DEF Waste!WasteLookupAssumption, Waste!Providers

(* A calendar lists dates only for an address that it knows (Replied).        *)
LEMMA RepliedFacts ==
  ASSUME NEW group \in SUBSET Waste!Providers, NEW out \in Waste!Replied(group)
  PROVE  /\ DOMAIN out = group /\ \A p \in group : out[p] \in Waste!Outcomes
         /\ \A p \in group : out[p] \in {"list", "half"} => p \in knows
<1>1. /\ out \in [group -> Waste!Outcomes]
      /\ \A p \in group : out[p] \in IF p \in knows THEN Ending[p].known ELSE Ending[p].other
  BY DEF Waste!Replied
<1>2. ASSUME NEW p \in group, p \notin knows PROVE out[p] \notin {"list", "half"}
  BY <1>1, <1>2, WasteConstants
<1> QED
  BY <1>1, <1>2

(* A step of one caller, which leaves the calendars alone, keeps the invariant *)
(* if its own lookup is sound after it.                                       *)
LEMMA OneLook ==
  ASSUME WasteInv, NEW c \in Callers, NEW l \in Looks, NEW a \in Answers, LookSound(l, a),
         look' = [look EXCEPT ![c] = l], wAnswer' = [wAnswer EXCEPT ![c] = a],
         idx' \in Waste!Providers \union {None}, UNCHANGED <<enabled, knows>>
  PROVE  WasteInv'
<1>1. look' \in [Callers -> Looks] /\ wAnswer' \in [Callers -> Answers]
  BY DEF WasteInv, WasteTyped
<1>2. look'[c] = l /\ wAnswer'[c] = a /\ \A d \in Callers \ {c} : look'[d] = look[d] /\ wAnswer'[d] = wAnswer[d]
  BY DEF WasteInv, WasteTyped
<1>3. ASSUME NEW d \in Callers PROVE LookSound(look[d], wAnswer[d])'
  <2>1. LookSound(look'[d], wAnswer'[d])
    BY <1>2 DEF WasteInv
  <2> QED
    BY <2>1 DEF LookSound, FoundSound, UnknownSound, Waste!Before
<1> QED
  BY <1>1, <1>3 DEF WasteInv, WasteTyped

(* Done ends a lookup and forgets nothing of it.                              *)
LEMMA DoneFields ==
  ASSUME NEW l \in Looks
  PROVE  /\ Waste!Done(l) \in Looks /\ Waste!Done(l).pc = "idle"
         /\ Waste!Done(l).chosen = l.chosen /\ Waste!Done(l).id = l.id
         /\ Waste!Done(l).knew = l.knew /\ Waste!Done(l).always = l.always /\ Waste!Done(l).missed = l.missed
BY DEF Waste!Done, Looks

(* A lookup that starts is sound.                                             *)
LEMMA WasteStart ==
  ASSUME WasteInv, NEW c \in Callers, Waste!Start(c)
  PROVE  WasteInv'
<1> USE DEF WasteTyped
<1>0. WasteTyped
  BY DEF WasteInv
<1>1. PICK chosen \in Waste!Providers \union {None} :
        LET id  == IF chosen = None THEN idx ELSE chosen
            new == [Waste!NoLookup EXCEPT !.chosen = chosen, !.id = id, !.list = enabled,
                                !.knew = knows \intersect enabled, !.always = knows \intersect enabled]
        IN  IF id # None /\ id \notin enabled
            THEN /\ look' = [look EXCEPT ![c] = Waste!Done(new)]
                 /\ wAnswer' = [wAnswer EXCEPT ![c] = Waste!Failed("gone")]
            ELSE /\ look' = [look EXCEPT ![c] = [new EXCEPT !.pc = IF id = None THEN "own" ELSE "ask"]]
                 /\ UNCHANGED wAnswer
  BY DEF Waste!Start
<1> DEFINE id  == IF chosen = None THEN idx ELSE chosen
           new == [Waste!NoLookup EXCEPT !.chosen = chosen, !.id = id, !.list = enabled,
                                !.knew = knows \intersect enabled, !.always = knows \intersect enabled]
           next == [new EXCEPT !.pc = IF id = None THEN "own" ELSE "ask"]
<1>2. UNCHANGED <<enabled, knows, idx>>
  BY DEF Waste!Start
<1>3. id \in Waste!Providers \union {None}
  BY <1>0
<1> HIDE DEF id
<1>b. /\ Waste!NoLookup \in Looks /\ Waste!NoLookup.pc = "idle" /\ Waste!NoLookup.missed = {}
      /\ knows \intersect enabled \in SUBSET Waste!Providers /\ enabled \in SUBSET Waste!Providers
  BY <1>0 DEF Waste!NoLookup, Looks
<1>4. new \in Looks
  BY <1>b, <1>3 DEF Looks
<1>5. /\ new.chosen = chosen /\ new.id = id /\ new.list = enabled
      /\ new.knew = knows \intersect enabled /\ new.always = knows \intersect enabled
  BY <1>b DEF Looks
<1> HIDE DEF new
<1>6. /\ next \in Looks /\ next.pc = IF id = None THEN "own" ELSE "ask"
      /\ next.chosen = chosen /\ next.id = id /\ next.list = enabled
      /\ next.knew = knows \intersect enabled /\ next.always = knows \intersect enabled
  BY <1>4, <1>5 DEF Looks
<1> HIDE DEF next
<1>7. CASE id # None /\ id \notin enabled
  <2>1. look' = [look EXCEPT ![c] = Waste!Done(new)] /\ wAnswer' = [wAnswer EXCEPT ![c] = Waste!Failed("gone")]
    BY <1>1, <1>7 DEF id, new
  <2>2. Waste!Failed("gone") \in Answers /\ Waste!Failed("gone").how = "gone"
    BY DEF Waste!Failed, Answers
  <2>3. Waste!Done(new) \in Looks /\ Waste!Done(new).pc = "idle"
    BY <1>4, DoneFields
  <2>4. LookSound(Waste!Done(new), Waste!Failed("gone"))
    BY <2>2, <2>3 DEF LookSound
  <2> QED
    BY <1>0, <1>2, <2>1, <2>2, <2>3, <2>4, OneLook
<1>8. CASE ~ (id # None /\ id \notin enabled)
  <2>1. look' = [look EXCEPT ![c] = next] /\ UNCHANGED wAnswer
    BY <1>1, <1>8 DEF id, new, next
  <2>2. wAnswer' = [wAnswer EXCEPT ![c] = wAnswer[c]] /\ wAnswer[c] \in Answers
    BY <1>0, <2>1
  <2>3. chosen \in {id, None}
    BY DEF id
  <2>4. id = None => chosen = None
    BY WasteConstants DEF id
  <2>5. LookSound(next, wAnswer[c])
    BY <1>0, <1>6, <1>8, <2>3, <2>4 DEF LookSound
  <2> QED
    BY <1>0, <1>2, <1>6, <2>1, <2>2, <2>5, OneLook
<1> QED
  BY <1>7, <1>8

(* A lookup that asks one calendar, the chosen or the remembered one, stays sound. *)
LEMMA WasteAskOne ==
  ASSUME WasteInv, NEW c \in Callers, Waste!AskOne(c)
  PROVE  WasteInv'
<1>0. WasteTyped /\ look[c] \in Looks /\ wAnswer[c] \in Answers /\ LookSound(look[c], wAnswer[c])
      /\ look[c].pc = "ask"
  BY DEF WasteInv, WasteTyped, Waste!AskOne
<1> DEFINE id == look[c].id
<1>1. id \in look[c].list /\ id \in Waste!Providers /\ look[c].chosen \in {id, None} /\ id # None
  BY <1>0 DEF LookSound, Looks
<1>2. PICK out \in Waste!Replied({id}) :
       LET end == out[look[c].id]
           l   == [look[c] EXCEPT !.missed = @ \union Waste!Missed(c, out)]
           how == IF end = "list" THEN Waste!Found(look[c].id, TRUE)
                  ELSE Waste!Failed(IF end = "unknown" THEN "unknown" ELSE "error")
       IN  IF end = "unknown" /\ look[c].chosen = None
           THEN /\ look' = [look EXCEPT ![c] = [l EXCEPT !.pc = "own", !.id = None]]
                /\ idx' = Waste!Forgotten(c) /\ UNCHANGED wAnswer
           ELSE /\ look' = [look EXCEPT ![c] = Waste!Done(l)]
                /\ wAnswer' = [wAnswer EXCEPT ![c] = how]
                /\ idx' = IF end = "unknown" THEN Waste!Forgotten(c) ELSE idx
  BY DEF Waste!AskOne
<1> DEFINE l == [look[c] EXCEPT !.missed = @ \union Waste!Missed(c, out)]
           how == IF out[id] = "list" THEN Waste!Found(id, TRUE)
                  ELSE Waste!Failed(IF out[id] = "unknown" THEN "unknown" ELSE "error")
           own == [l EXCEPT !.pc = "own", !.id = None]
<1>3. UNCHANGED <<enabled, knows>>
  BY DEF Waste!AskOne
<1>4. /\ DOMAIN out = {id} /\ out[id] \in Waste!Outcomes /\ (out[id] = "list" => id \in knows)
  BY <1>1, RepliedFacts
<1>5. Waste!Missed(c, out) = {p \in {id} \intersect look[c].always : out[p] # "list"}
  BY <1>4 DEF Waste!Missed
<1>6. /\ l \in Looks /\ own \in Looks
      /\ l.missed = look[c].missed \union Waste!Missed(c, out) /\ l.chosen = look[c].chosen /\ l.id = id
      /\ l.knew = look[c].knew /\ l.always = look[c].always
      /\ own.pc = "own" /\ own.id = None /\ own.chosen = look[c].chosen /\ own.knew = look[c].knew
      /\ own.always = look[c].always /\ own.list = look[c].list
  <2>1. Waste!Missed(c, out) \subseteq Waste!Providers
    BY <1>1, <1>5
  <2> QED
    BY <1>0, <2>1 DEF Looks
<1>7. idx' \in Waste!Providers \union {None}
  BY <1>0, <1>2 DEF Waste!Forgotten, WasteTyped
<1>8. how \in Answers
  BY <1>1 DEF Waste!Found, Waste!Failed, Answers
<1>9. CASE out[id] = "unknown" /\ look[c].chosen = None
  <2>1. look' = [look EXCEPT ![c] = own] /\ wAnswer' = wAnswer
    BY <1>2, <1>9
  <2> HIDE DEF own, l
  <2>2. wAnswer' = [wAnswer EXCEPT ![c] = wAnswer[c]]
    BY <1>0, <2>1 DEF WasteTyped
  <2>3. LookSound(own, wAnswer[c])
    BY <1>0, <1>6, <1>9 DEF LookSound
  <2> QED
    BY <1>0, <1>3, <1>6, <1>7, <2>1, <2>2, <2>3, OneLook
<1>10. CASE ~ (out[id] = "unknown" /\ look[c].chosen = None)
  <2>1. look' = [look EXCEPT ![c] = Waste!Done(l)] /\ wAnswer' = [wAnswer EXCEPT ![c] = how]
    BY <1>2, <1>10
  <2> HIDE DEF own, l, id
  <2>2. /\ Waste!Done(l) \in Looks /\ Waste!Done(l).pc = "idle" /\ Waste!Done(l).chosen = look[c].chosen
        /\ Waste!Done(l).id = id /\ Waste!Done(l).knew = look[c].knew /\ Waste!Done(l).always = look[c].always
        /\ Waste!Done(l).missed = look[c].missed \union Waste!Missed(c, out)
    BY <1>6, DoneFields
  <2>3. how.how = "found" => out[id] = "list" /\ how.by = id /\ how.dates = TRUE
    BY DEF Waste!Found, Waste!Failed
  <2>4. how.how = "unknown" => out[id] = "unknown"
    BY DEF Waste!Found, Waste!Failed
  <2> HIDE DEF how
  <2>5. how.how = "found" => FoundSound(Waste!Done(l), how)
    <3>1. how.how = "found" => id \in look[c].knew
      BY <1>0, <1>1, <1>4, <2>3 DEF LookSound
    <3> QED
      BY <1>1, <2>2, <2>3, <3>1 DEF FoundSound
  <2>6. how.how = "unknown" => UnknownSound(Waste!Done(l))
    <3> SUFFICES ASSUME how.how = "unknown" PROVE UnknownSound(Waste!Done(l))
      OBVIOUS
    <3>1. look[c].chosen = id /\ out[id] = "unknown"
      BY <1>1, <1>10, <2>4
    <3>2. id \in look[c].always => id \in Waste!Missed(c, out)
      BY <1>5, <3>1
    <3> QED
      BY <1>1, <2>2, <3>1, <3>2 DEF UnknownSound
  <2>7. LookSound(Waste!Done(l), how)
    BY <2>2, <2>5, <2>6 DEF LookSound
  <2> QED
    BY <1>3, <1>7, <1>8, <2>1, <2>2, <2>7, OneLook
<1> QED
  BY <1>9, <1>10

(* The first of the calendars that answered is the least of them.             *)
LEMMA FirstFacts ==
  ASSUME NEW hits \in SUBSET Waste!Providers, hits # {}
  PROVE  Waste!First(hits) \in hits /\ \A p \in hits : Waste!First(hits) <= p
<1>1. hits \in SUBSET Nat
  BY WasteConstants
<1> QED
  BY <1>1, LeastOf DEF Waste!First, Waste!Min

(* A lookup that asks a group of calendars at once stays sound.               *)
LEMMA WasteAskGroup ==
  ASSUME WasteInv, NEW c \in Callers, look[c].pc \in {"own", "regional"},
         NEW group \in SUBSET Waste!Providers, group \subseteq look[c].list,
         look[c].pc = "own" => Own \intersect look[c].list \subseteq group /\ group \intersect Regional = {},
         look[c].pc = "regional" => group = Regional \intersect look[c].list,
         NEW out \in Waste!Replied(group), Waste!AskGroup(c, group, out), UNCHANGED <<enabled, knows>>
  PROVE  WasteInv'
<1>0. WasteTyped /\ look[c] \in Looks /\ wAnswer[c] \in Answers /\ LookSound(look[c], wAnswer[c])
  BY DEF WasteInv, WasteTyped
<1> DEFINE hits == {p \in group : out[p] \in {"list", "half"}}
           l    == [look[c] EXCEPT !.asked = @ \/ group # {}, !.heard = @ \/ \E p \in group : out[p] # "error",
                                   !.missed = @ \union Waste!Missed(c, out)]
           last == look[c].pc = "regional"
           miss == Waste!Missed(c, out)
           by   == Waste!First(hits)
           none == Waste!Failed(IF l.asked /\ ~ l.heard THEN "unreachable" ELSE "unknown")
<1>1. IF hits # {}
      THEN /\ wAnswer' = [wAnswer EXCEPT ![c] = Waste!Found(by, out[by] = "list")]
           /\ idx' = by
           /\ look' = [look EXCEPT ![c] = Waste!Done(l)]
      ELSE /\ look' = [look EXCEPT ![c] = IF last THEN Waste!Done(l) ELSE [l EXCEPT !.pc = "regional"]]
           /\ wAnswer' = IF ~ last THEN wAnswer
                        ELSE [wAnswer EXCEPT ![c] = none]
           /\ UNCHANGED idx
  BY DEF Waste!AskGroup
<1>2. DOMAIN out = group /\ \A p \in group : out[p] \in {"list", "half"} => p \in knows
  BY RepliedFacts
<1>3. miss = {p \in group \intersect look[c].always : out[p] # "list"}
  BY <1>2 DEF Waste!Missed
<1> HIDE DEF miss
<1>4. /\ l \in Looks /\ l.pc = look[c].pc /\ l.chosen = look[c].chosen /\ l.id = look[c].id
      /\ l.knew = look[c].knew /\ l.always = look[c].always /\ l.list = look[c].list
      /\ l.missed = look[c].missed \union miss
  <2>1. miss \subseteq Waste!Providers
    BY <1>3
  <2>2. l = [look[c] EXCEPT !.asked = l.asked, !.heard = l.heard, !.missed = look[c].missed \union miss]
    BY <1>0 DEF miss, Looks
  <2>3. l.asked \in BOOLEAN /\ l.heard \in BOOLEAN
    BY <1>0 DEF Looks
  <2> HIDE DEF l
  <2> QED
    BY <1>0, <2>1, <2>2, <2>3, ZenonT(30) DEF Looks
<1> HIDE DEF l
<1>5. /\ look[c].chosen = None /\ look[c].id = None
      /\ look[c].always \subseteq look[c].list /\ look[c].always \subseteq knows
      /\ knows \intersect look[c].list \subseteq look[c].knew
      /\ last => look[c].always \intersect Own \subseteq look[c].missed
  BY <1>0 DEF LookSound
<1>d. /\ Waste!Done(l) \in Looks /\ Waste!Done(l).pc = "idle"
      /\ Waste!Done(l).chosen = None /\ Waste!Done(l).id = None
      /\ Waste!Done(l).knew = look[c].knew /\ Waste!Done(l).always = look[c].always
      /\ Waste!Done(l).missed = look[c].missed \union miss
  BY <1>4, <1>5, DoneFields
<1>6. CASE hits # {}
  <2> DEFINE a == Waste!Found(by, out[by] = "list")
  <2>1. by \in hits /\ \A p \in hits : by <= p
    BY <1>6, FirstFacts
  <2>2. by \in group /\ by \in knows /\ by \in look[c].knew /\ by \in Waste!Providers
    BY <1>2, <1>5, <2>1
  <2>3. a \in Answers /\ a.how = "found" /\ a.by = by
    BY <2>2 DEF Waste!Found, Answers
  <2>4. ASSUME NEW p \in look[c].always \intersect (Own \union Regional), Waste!Before(p, by)
        PROVE  p \in look[c].missed \union miss
    <3>1. p < by => p \notin hits
      <4>1. p \in Nat /\ by \in Nat
        BY <2>2, WasteConstants
      <4> HIDE DEF by, hits
      <4> QED
        BY <2>1, <4>1
    <3>2. p \in group /\ p < by => p \in miss
      BY <1>3, <3>1
    <3>3. p \in look[c].list
      BY <1>5
    <3>4. CASE look[c].pc = "own"
      <4>1. by \notin Regional
        BY <2>2, <3>4
      <4>2. p \notin Regional /\ p < by
        BY <2>4, <4>1 DEF Waste!Before
      <4> QED
        BY <3>2, <3>3, <3>4, <4>2
    <3>5. CASE look[c].pc = "regional"
      <4>1. CASE p \in Regional
        BY <2>2, <2>4, <3>2, <3>3, <3>5, <4>1 DEF Waste!Before
      <4>2. CASE p \in Own
        BY <1>5, <3>5, <4>2
      <4> QED
        BY <4>1, <4>2
    <3> QED
      BY <3>4, <3>5
  <2> HIDE DEF hits, by
  <2>5. FoundSound(Waste!Done(l), a)
    BY <1>d, <2>2, <2>3, <2>4 DEF FoundSound
  <2>6. LookSound(Waste!Done(l), a)
    BY <1>d, <2>3, <2>5 DEF LookSound
  <2>7. wAnswer' = [wAnswer EXCEPT ![c] = a] /\ idx' = by /\ look' = [look EXCEPT ![c] = Waste!Done(l)]
    BY <1>1, <1>6
  <2> HIDE DEF a
  <2> QED
    BY <1>d, <2>2, <2>3, <2>6, <2>7, OneLook
<1>7. \A p \in look[c].always \intersect group : hits = {} => p \in miss
  BY <1>3
<1>8. CASE hits = {} /\ last
  <2>1. look' = [look EXCEPT ![c] = Waste!Done(l)] /\ wAnswer' = [wAnswer EXCEPT ![c] = none] /\ idx' = idx
    BY <1>1, <1>8
  <2>2. none \in Answers /\ none.how \in {"unreachable", "unknown"}
    BY DEF Waste!Failed, Answers
  <2>3. look[c].always \intersect (Own \union Regional) \subseteq look[c].missed \union miss
    BY <1>5, <1>7, <1>8
  <2>4. LookSound(Waste!Done(l), none)
    <3>1. UnknownSound(Waste!Done(l))
      BY <1>d, <2>3 DEF UnknownSound
    <3> QED
      BY <1>d, <2>2, <3>1 DEF LookSound
  <2> HIDE DEF none
  <2> QED
    BY <1>0, <1>d, <2>1, <2>2, <2>4, OneLook DEF WasteTyped
<1>9. CASE hits = {} /\ ~ last
  <2> DEFINE n == [l EXCEPT !.pc = "regional"]
  <2>1. look' = [look EXCEPT ![c] = n] /\ wAnswer' = wAnswer /\ idx' = idx
    BY <1>1, <1>9
  <2>2. /\ n \in Looks /\ n.pc = "regional" /\ n.chosen = None /\ n.id = None /\ n.knew = look[c].knew
        /\ n.always = look[c].always /\ n.list = look[c].list /\ n.missed = look[c].missed \union miss
    BY <1>4, <1>5 DEF Looks
  <2> HIDE DEF n
  <2>3. wAnswer' = [wAnswer EXCEPT ![c] = wAnswer[c]]
    BY <1>0, <2>1 DEF WasteTyped
  <2>4. look[c].always \intersect Own \subseteq look[c].missed \union miss
    BY <1>5, <1>7, <1>9
  <2>5. LookSound(n, wAnswer[c])
    BY <1>5, <2>2, <2>4 DEF LookSound
  <2> QED
    BY <1>0, <2>1, <2>2, <2>3, <2>5, OneLook DEF WasteTyped
<1> QED
  BY <1>6, <1>8, <1>9

(* Every step of the callers and of the calendars keeps the invariant.        *)
LEMMA WasteStep ==
  ASSUME WasteInv, [Waste!Next]_waste
  PROVE  WasteInv'
<1> USE WasteConstants
<1>1. CASE Waste!Reload \/ Waste!Elsewise
  <2>1. UNCHANGED <<knows, look, wAnswer>> /\ WasteTyped'
    BY <1>1 DEF Waste!Reload, Waste!Elsewise, WasteInv, WasteTyped
  <2> QED
    BY <2>1 DEF WasteInv, LookSound, FoundSound, UnknownSound, Waste!Before
<1>2. CASE Waste!Move
  <2>1. PICK p \in Waste!Providers : knows' = IF p \in knows THEN knows \ {p} ELSE knows \union {p}
    BY <1>2 DEF Waste!Move
  <2>2. /\ look' = [c \in Callers |-> IF look[c].pc = "idle" THEN look[c]
             ELSE [look[c] EXCEPT !.knew = @ \union (knows' \intersect look[c].list),
                                  !.always = @ \intersect knows']]
        /\ UNCHANGED <<enabled, idx, wAnswer>>
    BY <1>2 DEF Waste!Move
  <2>3. knows' \subseteq Waste!Providers /\ WasteTyped
    BY <2>1 DEF WasteInv, WasteTyped
  <2>4. ASSUME NEW c \in Callers PROVE look'[c] \in Looks /\ LookSound(look[c], wAnswer[c])'
    <3>0. look[c] \in Looks /\ LookSound(look[c], wAnswer[c]) /\ wAnswer'[c] = wAnswer[c]
      BY <2>2, <2>3 DEF WasteInv, WasteTyped
    <3>1. CASE look[c].pc = "idle"
      <4>1. look'[c] = look[c]
        BY <2>2, <3>1
      <4> QED
        BY <3>0, <3>1, <4>1 DEF LookSound, FoundSound, UnknownSound, Waste!Before
    <3>2. CASE look[c].pc # "idle"
      <4>1. look'[c] = [look[c] EXCEPT !.knew = @ \union (knows' \intersect look[c].list),
                                       !.always = @ \intersect knows']
        BY <2>2, <3>2
      <4>2. /\ look'[c] \in Looks /\ look'[c].pc = look[c].pc /\ look'[c].chosen = look[c].chosen
            /\ look'[c].id = look[c].id /\ look'[c].list = look[c].list /\ look'[c].missed = look[c].missed
            /\ look'[c].knew = look[c].knew \union (knows' \intersect look[c].list)
            /\ look'[c].always = look[c].always \intersect knows'
        <5>1. look[c].knew \union (knows' \intersect look[c].list) \in SUBSET Waste!Providers
          BY <2>3, <3>0 DEF Looks
        <5>2. look[c].always \intersect knows' \in SUBSET Waste!Providers
          BY <2>3, <3>0 DEF Looks
        <5> QED
          BY <3>0, <4>1, <5>1, <5>2, ZenonT(30) DEF Looks
      <4> QED
        BY <3>0, <3>2, <4>2 DEF LookSound
    <3> QED
      BY <3>1, <3>2
  <2>5. look' \in [Callers -> Looks]
    BY <2>2, <2>4
  <2> QED
    BY <2>2, <2>3, <2>4, <2>5 DEF WasteInv, WasteTyped
<1>3. ASSUME NEW c \in Callers, Waste!Start(c) PROVE WasteInv'
  BY <1>3, WasteStart
<1>4. ASSUME NEW c \in Callers, Waste!AskOne(c) PROVE WasteInv'
  BY <1>4, WasteAskOne
<1>5. ASSUME NEW c \in Callers, Waste!AskOwn(c) PROVE WasteInv'
  <2>0. look[c] \in Looks
    BY DEF WasteInv, WasteTyped
  <2>1. look[c].pc = "own" /\ UNCHANGED <<enabled, knows>>
    BY <1>5 DEF Waste!AskOwn
  <2>2. PICK group \in {Own \intersect look[c].list, (Own \union Elsewhere) \intersect look[c].list} :
          \E out \in Waste!Replied(group) : Waste!AskGroup(c, group, out)
    BY <1>5 DEF Waste!AskOwn
  <2>3. group \in SUBSET Waste!Providers /\ group \subseteq look[c].list
        /\ Own \intersect look[c].list \subseteq group /\ group \intersect Regional = {}
    BY <2>2
  <2> QED
    BY <2>1, <2>2, <2>3, WasteAskGroup
<1>6. ASSUME NEW c \in Callers, Waste!AskRegional(c) PROVE WasteInv'
  <2>1. look[c].pc = "regional" /\ UNCHANGED <<enabled, knows>>
    BY <1>6 DEF Waste!AskRegional
  <2>2. PICK out \in Waste!Replied(Regional \intersect look[c].list) :
          Waste!AskGroup(c, Regional \intersect look[c].list, out)
    BY <1>6 DEF Waste!AskRegional
  <2>3. Regional \intersect look[c].list \in SUBSET Waste!Providers
    OBVIOUS
  <2> QED
    BY <2>1, <2>2, <2>3, WasteAskGroup
<1>7. CASE UNCHANGED waste
  BY <1>7 DEF waste, WasteInv, WasteTyped, LookSound, FoundSound, UnknownSound, Waste!Before
<1> QED
  BY <1>1, <1>2, <1>3, <1>4, <1>5, <1>6, <1>7 DEF Waste!Next

(* The invariant holds when the server starts.                                *)
LEMMA WasteInit ==
  ASSUME Waste!Init
  PROVE  WasteInv
<1>1. Waste!NoLookup \in Looks /\ Waste!NoLookup.pc = "idle"
  BY DEF Waste!NoLookup, Looks
<1>2. Waste!NoAnswer \in Answers /\ Waste!NoAnswer.how = "none"
  BY DEF Waste!NoAnswer, Answers
<1>3. /\ enabled \subseteq Waste!Providers /\ knows \subseteq Waste!Providers /\ idx = None
      /\ look = [c \in Callers |-> Waste!NoLookup] /\ wAnswer = [c \in Callers |-> Waste!NoAnswer]
  BY DEF Waste!Init
<1> QED
  BY <1>1, <1>2, <1>3 DEF WasteInv, WasteTyped, LookSound

(* The invariant makes the answers sound.                                     *)
LEMMA WasteIsSound ==
  ASSUME WasteInv
  PROVE  Waste!WasteSound
<1>1. ASSUME NEW c \in Callers, look[c].pc = "idle"
      PROVE  /\ wAnswer[c].how = "found" => FoundSound(look[c], wAnswer[c])
             /\ wAnswer[c].how = "unknown" => UnknownSound(look[c])
  BY <1>1 DEF WasteInv, LookSound
<1> QED
  BY <1>1 DEF Waste!WasteSound, Waste!NamesAKnower, Waste!UnknownIsSo, Waste!TheFirstThatKnows,
     Waste!DatesComeAlong, Waste!Ended, FoundSound, UnknownSound

(* The calendar that an address is given knows it, is the first that does, and *)
(* comes with its dates; unknown means that all who know it failed (waste.go). *)
THEOREM WasteNamed == MCSpec => []WasteSound
<1> DEFINE Inv == WasteInv
<1>1. MCInit => WasteInv
  BY WasteInit DEF MCInit
<1>2. WasteInv /\ [MCNext]_<<vars, others>> => WasteInv'
  <2> SUFFICES ASSUME WasteInv, [MCNext]_<<vars, others>> PROVE WasteInv'
    OBVIOUS
  <2>1. [Waste!Next]_waste
    BY DEF MCNext, others
  <2> QED
    BY <2>1, WasteStep
<1>3. WasteInv => WasteSound
  BY WasteIsSound DEF WasteSound
<1> QED
  BY <1>1, <1>2, <1>3, PTL DEF MCSpec

------------------------------------------------------------------------------
(* The rules of the watcher (WatchRules).                                     *)

(* What is known before run i: what the last run with an answer found.        *)
LastFetched(s, i) ==
  {s[k] : k \in {k \in 1 .. i - 1 : s[k] # None /\ \A l \in k + 1 .. i - 1 : s[l] = None}}

(* The same of the last run with a fresh radiation value.                     *)
LastMeasured(s, i) ==
  {s[k] : k \in {k \in 1 .. i - 1 :
     Rules!Measured(s[k]) /\ \A l \in k + 1 .. i - 1 : ~ Rules!Measured(s[l])}}

(* What the history calls for, rule by rule, in words of the runs before. A   *)
(* threat level: it differs from the last one fetched.                        *)
LEMMA CalledNCTV ==
  ASSUME NEW s, NEW i
  PROVE  Rules!CalledFor("nctv", s, i) <=>
           i > 1 /\ s[i] # None /\ \E p \in LastFetched(s, i) : p # s[i]
BY DEF Rules!CalledFor, Rules!Changed, Rules!Known, Rules!Fetched, LastFetched

(* An NL-Alert: active, and never listed before.                              *)
LEMMA CalledNLAlert ==
  ASSUME NEW s, NEW i
  PROVE  Rules!CalledFor("nlalert", s, i) <=>
           /\ i > 1 /\ s[i] # None /\ s[i] = "active"
           /\ \A j \in 1 .. i - 1 : s[j] = "absent"
BY DEF Rules!CalledFor, Rules!Changed, Rules!Before, Rules!Known, Rules!Fetched

(* An AMBER Alert: listed for the first time.                                 *)
LEMMA CalledAmber ==
  ASSUME NEW s, NEW i
  PROVE  Rules!CalledFor("amber", s, i) <=>
           /\ i > 1 /\ s[i] # None /\ s[i] = "listed"
           /\ \A j \in 1 .. i - 1 : s[j] # "listed"
BY DEF Rules!CalledFor, Rules!Changed, Rules!Before, Rules!Known, Rules!Fetched

(* An earthquake: big when it is listed for the first time.                   *)
LEMMA CalledQuake ==
  ASSUME NEW s, NEW i
  PROVE  Rules!CalledFor("quake", s, i) <=>
           /\ i > 1 /\ s[i] # None /\ s[i] = "big"
           /\ \A j \in 1 .. i - 1 : s[j] = "absent"
BY DEF Rules!CalledFor, Rules!Changed, Rules!Before, Rules!Known, Rules!Fetched

(* Radiation: enough stations are high, and were not at the last measurement. *)
LEMMA CalledRadiation ==
  ASSUME NEW s, NEW i
  PROVE  Rules!CalledFor("radiation", s, i) <=>
           /\ i > 1 /\ s[i] # None /\ Rules!Measured(s[i]) /\ Rules!Raised(s[i])
           /\ \A p \in LastMeasured(s, i) : ~ Rules!Raised(p)
BY DEF Rules!CalledFor, Rules!Changed, Rules!Before, Rules!Known, LastMeasured

(* Water: a code 3 or 4, or a closed barrier, that the last answer did not have. *)
LEMMA CalledWater ==
  ASSUME NEW s, NEW i
  PROVE  Rules!CalledFor("water", s, i) <=>
           /\ i > 1 /\ s[i] # None
           /\ \/ s[i].code >= 3 /\ \A p \in LastFetched(s, i) : p.code # s[i].code
              \/ ~ s[i].open /\ \A p \in LastFetched(s, i) : p.open
BY DEF Rules!CalledFor, Rules!Changed, Rules!Known, Rules!Fetched, LastFetched

(* Weather: a code of orange or red above all those of the last answer.       *)
LEMMA CalledKNMI ==
  ASSUME NEW s, NEW i
  PROVE  Rules!CalledFor("knmi", s, i) <=>
           /\ i > 1 /\ s[i] # None
           /\ \E c \in s[i] \ {1} : \A p \in LastFetched(s, i) : \A d \in p : d < c
BY DEF Rules!CalledFor, Rules!Changed, Rules!Known, Rules!Fetched, LastFetched

(* Alarmeringen: it matches, for the first time.                              *)
LEMMA CalledAlarm ==
  ASSUME NEW s, NEW i
  PROVE  Rules!CalledFor("alarm", s, i) <=>
           /\ i > 1 /\ s[i] # None /\ Rules!matchAlarms(s[i])
           /\ \A j \in 1 .. i - 1 : ~ Rules!matchAlarms(s[j])
BY DEF Rules!CalledFor, Rules!Changed, Rules!Before, Rules!Known, Rules!Fetched

(* A story: big and timely, without an article of a big story before.         *)
LEMMA CalledStory ==
  ASSUME NEW s, NEW i
  PROVE  Rules!CalledFor("story", s, i) <=>
           /\ i > 1 /\ s[i] # None /\ Rules!Big(s[i]) /\ Rules!Timely(s[i])
           /\ \A j \in 1 .. i - 1 :
                ~ (Rules!Big(s[j]) /\ DOMAIN s[j] \intersect DOMAIN s[i] # {})
BY DEF Rules!CalledFor, Rules!Changed, Rules!Before, Rules!Known, Rules!Fetched

(* Waste: the first run in its hour of the day.                               *)
LEMMA CalledWaste ==
  ASSUME NEW s, NEW i
  PROVE  Rules!CalledFor("waste", s, i) <=>
           s[i].hour = WasteHour /\ \A j \in 1 .. i - 1 : s[j] # s[i]
BY DEF Rules!CalledFor, Rules!Before

(* What a run of rule r can leave in the history.                             *)
Hist(r) == Rules!Findings(r) \union {None}

(* What is assumed of the constants of the watcher.                           *)
LEMMA RulesConstants == Rules!WatchRulesAssumption
BY StoresAssumption

(* A sequence with one element more.                                          *)
LEMMA AppendFacts ==
  ASSUME NEW S, NEW s \in Seq(S), NEW o \in S
  PROVE  /\ Append(s, o) \in Seq(S) /\ Len(s) \in Nat /\ Len(Append(s, o)) = Len(s) + 1
         /\ \A j \in 1 .. Len(s) : Append(s, o)[j] = s[j] /\ s[j] \in S
         /\ Append(s, o)[Len(s) + 1] = o
OBVIOUS

(* One more run changes what is known after it: to what it found, if it found *)
(* anything.                                                                  *)
LEMMA LastFetchedAppend ==
  ASSUME NEW S, NEW s \in Seq(S), NEW o \in S
  PROVE  /\ \A i \in 1 .. Len(s) + 1 : LastFetched(Append(s, o), i) = LastFetched(s, i)
         /\ o = None => LastFetched(Append(s, o), Len(s) + 2) = LastFetched(s, Len(s) + 1)
         /\ o # None => LastFetched(Append(s, o), Len(s) + 2) = {o}
<1> DEFINE t == Append(s, o)  n == Len(s)
<1>1. /\ n \in Nat /\ t[n + 1] = o
      /\ \A j \in 1 .. n : t[j] = s[j]
  BY AppendFacts
<1> HIDE DEF t, n
<1>2. ASSUME NEW i \in 1 .. n + 1 PROVE LastFetched(t, i) = LastFetched(s, i)
  <2>1. \A k \in 1 .. i - 1 : t[k] = s[k] /\ \A l \in k + 1 .. i - 1 : t[l] = s[l]
    BY <1>1
  <2> QED
    BY <2>1 DEF LastFetched
<1>3. CASE o = None
  <2>1. \A p : p \in LastFetched(t, n + 2) => p \in LastFetched(s, n + 1)
    <3>1. ASSUME NEW k \in 1 .. n + 1, t[k] # None, \A l \in k + 1 .. n + 1 : t[l] = None
          PROVE  t[k] \in LastFetched(s, n + 1)
      <4>1. k \in 1 .. n /\ t[k] = s[k] /\ \A l \in k + 1 .. n : s[l] = None
        BY <1>1, <1>3, <3>1
      <4> QED
        BY <1>1, <3>1, <4>1 DEF LastFetched
    <3> QED
      BY <1>1, <3>1 DEF LastFetched
  <2>2. \A p : p \in LastFetched(s, n + 1) => p \in LastFetched(t, n + 2)
    <3>1. ASSUME NEW k \in 1 .. n, s[k] # None, \A l \in k + 1 .. n : s[l] = None
          PROVE  s[k] \in LastFetched(t, n + 2)
      <4>1. k \in 1 .. n + 1 /\ t[k] = s[k] /\ \A l \in k + 1 .. n + 1 : t[l] = None
        BY <1>1, <1>3, <3>1
      <4> QED
        BY <1>1, <3>1, <4>1 DEF LastFetched
    <3> QED
      BY <1>1, <3>1 DEF LastFetched
  <2> QED
    BY <1>2, <1>3, <2>1, <2>2 DEF t, n
<1>4. CASE o # None
  <2>1. \A p : p \in LastFetched(t, n + 2) => p = o
    <3>1. ASSUME NEW k \in 1 .. n + 1, \A l \in k + 1 .. n + 1 : t[l] = None
          PROVE  t[k] = o
      BY <1>1, <1>4, <3>1
    <3> QED
      BY <1>1, <3>1 DEF LastFetched
  <2>2. o \in LastFetched(t, n + 2)
    <3>1. n + 1 \in 1 .. n + 1 /\ t[n + 1] = o /\ \A l \in (n + 1) + 1 .. n + 1 : FALSE
      BY <1>1
    <3> QED
      BY <1>1, <1>4, <3>1 DEF LastFetched
  <2> QED
    BY <1>2, <1>4, <2>1, <2>2 DEF t, n
<1> QED
  BY <1>3, <1>4

(* The same for the measurements.                                             *)
LEMMA LastMeasuredAppend ==
  ASSUME NEW S, NEW s \in Seq(S), NEW o \in S
  PROVE  /\ \A i \in 1 .. Len(s) + 1 : LastMeasured(Append(s, o), i) = LastMeasured(s, i)
         /\ ~ Rules!Measured(o) =>
              LastMeasured(Append(s, o), Len(s) + 2) = LastMeasured(s, Len(s) + 1)
         /\ Rules!Measured(o) => LastMeasured(Append(s, o), Len(s) + 2) = {o}
<1> DEFINE t == Append(s, o)  n == Len(s)
<1>1. /\ n \in Nat /\ t[n + 1] = o
      /\ \A j \in 1 .. n : t[j] = s[j]
  BY AppendFacts
<1> HIDE DEF t, n
<1>2. ASSUME NEW i \in 1 .. n + 1 PROVE LastMeasured(t, i) = LastMeasured(s, i)
  <2>1. \A k \in 1 .. i - 1 : t[k] = s[k] /\ \A l \in k + 1 .. i - 1 : t[l] = s[l]
    BY <1>1
  <2> QED
    BY <2>1 DEF LastMeasured
<1>3. CASE ~ Rules!Measured(o)
  <2>1. \A p : p \in LastMeasured(t, n + 2) => p \in LastMeasured(s, n + 1)
    <3>1. ASSUME NEW k \in 1 .. n + 1, Rules!Measured(t[k]),
                 \A l \in k + 1 .. n + 1 : ~ Rules!Measured(t[l])
          PROVE  t[k] \in LastMeasured(s, n + 1)
      <4>1. k \in 1 .. n /\ t[k] = s[k] /\ \A l \in k + 1 .. n : ~ Rules!Measured(s[l])
        BY <1>1, <1>3, <3>1
      <4>2. k \in 1 .. (n + 1) - 1 /\ \A l \in k + 1 .. (n + 1) - 1 : ~ Rules!Measured(s[l])
        BY <1>1, <4>1
      <4>3. Rules!Measured(s[k]) /\ s[k] = t[k]
        BY <3>1, <4>1
      <4> QED
        BY <4>2, <4>3 DEF LastMeasured
    <3> QED
      BY <1>1, <3>1 DEF LastMeasured
  <2>2. \A p : p \in LastMeasured(s, n + 1) => p \in LastMeasured(t, n + 2)
    <3>1. ASSUME NEW k \in 1 .. n, Rules!Measured(s[k]),
                 \A l \in k + 1 .. n : ~ Rules!Measured(s[l])
          PROVE  s[k] \in LastMeasured(t, n + 2)
      <4>1. k \in 1 .. n + 1 /\ t[k] = s[k] /\ \A l \in k + 1 .. n + 1 : ~ Rules!Measured(t[l])
        BY <1>1, <1>3, <3>1
      <4> QED
        BY <1>1, <3>1, <4>1 DEF LastMeasured
    <3> QED
      BY <1>1, <3>1 DEF LastMeasured
  <2> QED
    BY <1>2, <1>3, <2>1, <2>2 DEF t, n
<1>4. CASE Rules!Measured(o)
  <2>1. \A p : p \in LastMeasured(t, n + 2) => p = o
    <3>1. ASSUME NEW k \in 1 .. n + 1, \A l \in k + 1 .. n + 1 : ~ Rules!Measured(t[l])
          PROVE  t[k] = o
      BY <1>1, <1>4, <3>1
    <3> QED
      BY <1>1, <3>1 DEF LastMeasured
  <2>2. o \in LastMeasured(t, n + 2)
    <3>1. n + 1 \in 1 .. n + 1 /\ t[n + 1] = o /\ \A l \in (n + 1) + 1 .. n + 1 : FALSE
      BY <1>1
    <3> QED
      BY <1>1, <1>4, <3>1 DEF LastMeasured
  <2> QED
    BY <1>2, <1>4, <2>1, <2>2 DEF t, n
<1> QED
  BY <1>3, <1>4

(* What the history calls for at run i depends on the runs up to i alone.     *)
LEMMA CalledPrefix ==
  ASSUME NEW r \in Rules!Rules, NEW S, NEW s \in Seq(S), NEW o \in S, NEW i \in 1 .. Len(s)
  PROVE  Rules!CalledFor(r, Append(s, o), i) <=> Rules!CalledFor(r, s, i)
<1> DEFINE t == Append(s, o)
<1>1. Len(s) \in Nat /\ \A j \in 1 .. Len(s) : t[j] = s[j]
  BY AppendFacts
<1>2. LastFetched(t, i) = LastFetched(s, i)
  <2>1. \A k \in 1 .. Len(s) + 1 : LastFetched(t, k) = LastFetched(s, k)
    BY LastFetchedAppend
  <2>2. i \in 1 .. Len(s) + 1
    BY <1>1
  <2> QED
    BY <2>1, <2>2
<1>3. LastMeasured(t, i) = LastMeasured(s, i)
  <2>1. \A k \in 1 .. Len(s) + 1 : LastMeasured(t, k) = LastMeasured(s, k)
    BY LastMeasuredAppend
  <2>2. i \in 1 .. Len(s) + 1
    BY <1>1
  <2> QED
    BY <2>1, <2>2
<1>4. t[i] = s[i] /\ \A j \in 1 .. i - 1 : t[j] = s[j]
  BY <1>1
<1> HIDE DEF t
<1> SUFFICES Rules!CalledFor(r, t, i) <=> Rules!CalledFor(r, s, i)
  BY DEF t
<1>5. CASE r = "nctv"
  BY <1>2, <1>4, <1>5, CalledNCTV
<1>6. CASE r = "nlalert"
  BY <1>4, <1>6, CalledNLAlert
<1>7. CASE r = "amber"
  BY <1>4, <1>7, CalledAmber
<1>8. CASE r = "quake"
  BY <1>4, <1>8, CalledQuake
<1>9. CASE r = "radiation"
  BY <1>3, <1>4, <1>9, CalledRadiation
<1>10. CASE r = "water"
  BY <1>2, <1>4, <1>10, CalledWater
<1>11. CASE r = "knmi"
  BY <1>2, <1>4, <1>11, CalledKNMI
<1>12. CASE r = "alarm"
  BY <1>4, <1>12, CalledAlarm
<1>13. CASE r = "story"
  BY <1>4, <1>13, CalledStory
<1>14. CASE r = "waste"
  BY <1>4, <1>14, CalledWaste
<1> QED
  BY <1>5, <1>6, <1>7, <1>8, <1>9, <1>10, <1>11, <1>12, <1>13, <1>14 DEF Rules!Rules

(* A run that tells what the history calls for keeps the history right.       *)
LEMMA RunKeeps ==
  ASSUME NEW r \in Rules!Rules, NEW S, NEW s \in Seq(S), NEW o \in S,
         NEW q \in Seq(BOOLEAN), Len(q) = Len(s), NEW w \in BOOLEAN,
         \A i \in DOMAIN q : q[i] <=> Rules!CalledFor(r, s, i),
         w <=> Rules!CalledFor(r, Append(s, o), Len(s) + 1)
  PROVE  /\ Append(q, w) \in Seq(BOOLEAN) /\ Len(Append(q, w)) = Len(Append(s, o))
         /\ Append(s, o) \in Seq(S) /\ Len(Append(s, o)) = Len(s) + 1
         /\ \A i \in DOMAIN Append(q, w) :
              Append(q, w)[i] <=> Rules!CalledFor(r, Append(s, o), i)
<1>1. /\ Len(s) \in Nat /\ DOMAIN q = 1 .. Len(s) /\ DOMAIN Append(q, w) = 1 .. Len(s) + 1
      /\ Append(q, w)[Len(s) + 1] = w /\ \A i \in 1 .. Len(s) : Append(q, w)[i] = q[i]
  OBVIOUS
<1>2. ASSUME NEW i \in 1 .. Len(s)
      PROVE  Append(q, w)[i] <=> Rules!CalledFor(r, Append(s, o), i)
  BY <1>1, CalledPrefix
<1>3. Append(q, w)[Len(s) + 1] <=> Rules!CalledFor(r, Append(s, o), Len(s) + 1)
  BY <1>1
<1>4. \A i \in 1 .. Len(s) + 1 : i \in 1 .. Len(s) \/ i = Len(s) + 1
  BY <1>1
<1>5. \A i \in DOMAIN Append(q, w) :
        Append(q, w)[i] <=> Rules!CalledFor(r, Append(s, o), i)
  BY <1>1, <1>2, <1>3, <1>4
<1> QED
  BY <1>5

(* What the memory of a rule holds, after the runs s. st.NCTV: the last level *)
(* fetched, 0 for none.                                                       *)
MemNCTV(l, s) ==
  \/ l = 0 /\ LastFetched(s, Len(s) + 1) = {}
  \/ l \in Levels /\ LastFetched(s, Len(s) + 1) = {l}

(* st.Alerts of an NL-Alert, and st.Quakes: it has been listed.               *)
MemListed(k, s) == Rules!Event \in k <=> \E j \in 1 .. Len(s) : s[j] # "absent"

(* st.Alerts of an AMBER Alert: it has been listed.                           *)
MemAmber(k, s) == Rules!Event \in k <=> \E j \in 1 .. Len(s) : s[j] = "listed"

(* st.Alerts of an episode of radiation: there was one at the last measurement. *)
MemRadiation(k, s) ==
  Rules!Event \in k <=> \E p \in LastMeasured(s, Len(s) + 1) : Rules!Raised(p)

(* st.Alerts of the water: the sectors and barriers of the last answer.       *)
MemWater(k, s) == k = UNION {Rules!Current(p) : p \in LastFetched(s, Len(s) + 1)}

(* st.KNMI: the highest code of the last answer, 0 for none.                  *)
MemKNMI(l, s) ==
  /\ l \in 0 .. 3
  /\ \A p \in LastFetched(s, Len(s) + 1) : \A d \in p : d <= l
  /\ l = 0 \/ \E p \in LastFetched(s, Len(s) + 1) : l \in p

(* st.Alerts of an alarmering: it has matched.                                *)
MemAlarm(k, s) == Rules!Event \in k <=> \E j \in 1 .. Len(s) : Rules!matchAlarms(s[j])

(* st.Stories: the articles of every big story.                               *)
MemStory(k, s) ==
  \A x : <<"story", x>> \in k <=> \E j \in 1 .. Len(s) : Rules!Big(s[j]) /\ x \in DOMAIN s[j]

(* st.WasteDay: the last day with a run in the hour of the waste.             *)
MemWaste(l, s) ==
  /\ l \in Nat
  /\ \A j \in 1 .. Len(s) : s[j].hour = WasteHour => s[j].day <= l
  /\ l = 0 \/ \E j \in 1 .. Len(s) : s[j].hour = WasteHour /\ s[j].day = l

(* Each rule tells what its history calls for, and its memory stays right. The *)
(* threat level.                                                              *)
LEMMA StepNCTV ==
  ASSUME NEW s \in Seq(Hist("nctv")), NEW l, NEW v \in Levels, MemNCTV(l, s)
  PROVE  /\ (Len(s) > 0 /\ l > 0 /\ v # l)
              <=> Rules!CalledFor("nctv", Append(s, v), Len(s) + 1)
         /\ MemNCTV(v, Append(s, v))
<1> DEFINE t == Append(s, v)  n == Len(s)
<1>1. v \in Hist("nctv") /\ v # None /\ \A w \in Levels : w \in Nat /\ w > 0
  BY RulesConstants DEF Hist, Rules!Findings, Rules!WatchRulesAssumption, Rules!Rules
<1>2. n \in Nat /\ Len(t) = n + 1 /\ t[n + 1] = v
  BY <1>1, AppendFacts
<1>3. LastFetched(t, n + 2) = {v}
  BY <1>1, LastFetchedAppend
<1>4. LastFetched(t, n + 1) = LastFetched(s, n + 1)
  BY <1>1, <1>2, LastFetchedAppend
<1>5. Rules!CalledFor("nctv", t, n + 1) <=>
        n + 1 > 1 /\ t[n + 1] # None /\ \E p \in LastFetched(t, n + 1) : p # t[n + 1]
  BY CalledNCTV
<1> HIDE DEF t, n
<1>6. (n > 0 /\ l > 0 /\ v # l) <=> Rules!CalledFor("nctv", t, n + 1)
  <2>1. Rules!CalledFor("nctv", t, n + 1) <=> n > 0 /\ \E p \in LastFetched(s, n + 1) : p # v
    BY <1>1, <1>2, <1>4, <1>5
  <2>2. CASE l = 0 /\ LastFetched(s, n + 1) = {}
    BY <2>1, <2>2
  <2>3. CASE l \in Levels /\ LastFetched(s, n + 1) = {l}
    BY <1>1, <2>1, <2>3
  <2> QED
    BY <2>2, <2>3 DEF MemNCTV, n
<1>7. MemNCTV(v, t)
  BY <1>1, <1>2, <1>3 DEF MemNCTV
<1> QED
  BY <1>6, <1>7 DEF t, n

(* NL-Alerts.                                                                 *)
LEMMA StepNLAlert ==
  ASSUME NEW s \in Seq(Hist("nlalert")), NEW k, NEW o \in Rules!Findings("nlalert"), MemListed(k, s)
  PROVE  /\ (Len(s) > 0 /\ Rules!Event \notin k /\ o = "active")
              <=> Rules!CalledFor("nlalert", Append(s, o), Len(s) + 1)
         /\ MemListed(k \union (IF o = "absent" THEN {} ELSE {Rules!Event}), Append(s, o))
<1> DEFINE t == Append(s, o)  n == Len(s)
<1>1. o \in Hist("nlalert") /\ o # None
  BY RulesConstants DEF Hist, Rules!WatchRulesAssumption, Rules!Rules
<1>2. n \in Nat /\ Len(t) = n + 1 /\ t[n + 1] = o /\ \A j \in 1 .. n : t[j] = s[j]
  BY <1>1, AppendFacts
<1> HIDE DEF t, n
<1>3. (n > 0 /\ Rules!Event \notin k /\ o = "active") <=> Rules!CalledFor("nlalert", t, n + 1)
  BY <1>1, <1>2, CalledNLAlert DEF MemListed, n
<1>4. MemListed(k \union (IF o = "absent" THEN {} ELSE {Rules!Event}), t)
  <2>1. \A j \in 1 .. n + 1 : j \in 1 .. n \/ j = n + 1
    BY <1>2
  <2>2. n + 1 \in 1 .. n + 1 /\ \A j \in 1 .. n : j \in 1 .. n + 1
    BY <1>2
  <2> QED
    BY <1>2, <2>1, <2>2 DEF MemListed, n
<1> QED
  BY <1>3, <1>4 DEF t, n

(* AMBER Alerts.                                                              *)
LEMMA StepAmber ==
  ASSUME NEW s \in Seq(Hist("amber")), NEW k, NEW o \in Rules!Findings("amber"), MemAmber(k, s)
  PROVE  /\ (Len(s) > 0 /\ Rules!Event \notin k /\ o = "listed")
              <=> Rules!CalledFor("amber", Append(s, o), Len(s) + 1)
         /\ MemAmber(k \union (IF o = "absent" THEN {} ELSE {Rules!Event}), Append(s, o))
<1> DEFINE t == Append(s, o)  n == Len(s)
<1>1. o \in Hist("amber") /\ o # None
  BY RulesConstants DEF Hist, Rules!WatchRulesAssumption, Rules!Rules
<1>2. n \in Nat /\ Len(t) = n + 1 /\ t[n + 1] = o /\ \A j \in 1 .. n : t[j] = s[j]
  BY <1>1, AppendFacts
<1> HIDE DEF t, n
<1>3. (n > 0 /\ Rules!Event \notin k /\ o = "listed") <=> Rules!CalledFor("amber", t, n + 1)
  BY <1>1, <1>2, CalledAmber DEF MemAmber, n
<1>4. MemAmber(k \union (IF o = "absent" THEN {} ELSE {Rules!Event}), t)
  <2>1. \A j \in 1 .. n + 1 : j \in 1 .. n \/ j = n + 1
    BY <1>2
  <2>2. n + 1 \in 1 .. n + 1 /\ \A j \in 1 .. n : j \in 1 .. n + 1
    BY <1>2
  <2>3. o = "absent" \/ o = "listed"
    BY DEF Rules!Findings
  <2> QED
    BY <1>2, <2>1, <2>2, <2>3 DEF MemAmber, n
<1> QED
  BY <1>3, <1>4 DEF t, n

(* Earthquakes.                                                               *)
LEMMA StepQuake ==
  ASSUME NEW s \in Seq(Hist("quake")), NEW k, NEW o \in Rules!Findings("quake"), MemListed(k, s)
  PROVE  /\ (Len(s) > 0 /\ Rules!Event \notin k /\ o = "big")
              <=> Rules!CalledFor("quake", Append(s, o), Len(s) + 1)
         /\ MemListed(k \union (IF o = "absent" THEN {} ELSE {Rules!Event}), Append(s, o))
<1> DEFINE t == Append(s, o)  n == Len(s)
<1>1. o \in Hist("quake") /\ o # None
  BY RulesConstants DEF Hist, Rules!WatchRulesAssumption, Rules!Rules
<1>2. n \in Nat /\ Len(t) = n + 1 /\ t[n + 1] = o /\ \A j \in 1 .. n : t[j] = s[j]
  BY <1>1, AppendFacts
<1> HIDE DEF t, n
<1>3. (n > 0 /\ Rules!Event \notin k /\ o = "big") <=> Rules!CalledFor("quake", t, n + 1)
  BY <1>1, <1>2, CalledQuake DEF MemListed, n
<1>4. MemListed(k \union (IF o = "absent" THEN {} ELSE {Rules!Event}), t)
  <2>1. \A j \in 1 .. n + 1 : j \in 1 .. n \/ j = n + 1
    BY <1>2
  <2>2. n + 1 \in 1 .. n + 1 /\ \A j \in 1 .. n : j \in 1 .. n + 1
    BY <1>2
  <2> QED
    BY <1>2, <2>1, <2>2 DEF MemListed, n
<1> QED
  BY <1>3, <1>4 DEF t, n

(* Alarmeringen.                                                              *)
LEMMA StepAlarm ==
  ASSUME NEW s \in Seq(Hist("alarm")), NEW k, NEW o \in Rules!Findings("alarm"), MemAlarm(k, s)
  PROVE  /\ (Len(s) > 0 /\ Rules!Event \notin k /\ Rules!matchAlarms(o))
              <=> Rules!CalledFor("alarm", Append(s, o), Len(s) + 1)
         /\ MemAlarm(k \union {e \in {Rules!Event} : Rules!matchAlarms(o)}, Append(s, o))
<1> DEFINE t == Append(s, o)  n == Len(s)
<1>1. o \in Hist("alarm") /\ o # None
  BY RulesConstants DEF Hist, Rules!WatchRulesAssumption, Rules!Rules
<1>2. n \in Nat /\ Len(t) = n + 1 /\ t[n + 1] = o /\ \A j \in 1 .. n : t[j] = s[j]
  BY <1>1, AppendFacts
<1> HIDE DEF t, n
<1>3. (n > 0 /\ Rules!Event \notin k /\ Rules!matchAlarms(o)) <=> Rules!CalledFor("alarm", t, n + 1)
  BY <1>1, <1>2, CalledAlarm DEF MemAlarm, n
<1>4. MemAlarm(k \union {e \in {Rules!Event} : Rules!matchAlarms(o)}, t)
  <2>1. \A j \in 1 .. n + 1 : j \in 1 .. n \/ j = n + 1
    BY <1>2
  <2>2. n + 1 \in 1 .. n + 1 /\ \A j \in 1 .. n : j \in 1 .. n + 1
    BY <1>2
  <2> QED
    BY <1>2, <2>1, <2>2 DEF MemAlarm, n
<1> QED
  BY <1>3, <1>4 DEF t, n

(* Radiation.                                                                 *)
LEMMA StepRadiation ==
  ASSUME NEW s \in Seq(Hist("radiation")), NEW k,
         NEW o \in Rules!Findings("radiation"), MemRadiation(k, s)
  PROVE  /\ (Len(s) > 0 /\ Rules!Fresh(o) # {} /\ Rules!Raised(o) /\ Rules!Event \notin k)
              <=> Rules!CalledFor("radiation", Append(s, o), Len(s) + 1)
         /\ MemRadiation(IF Rules!Fresh(o) = {} THEN k ELSE {e \in {Rules!Event} : Rules!Raised(o)},
                         Append(s, o))
<1> DEFINE t == Append(s, o)  n == Len(s)
<1>1. o \in Hist("radiation") /\ o # None /\ (Rules!Measured(o) <=> Rules!Fresh(o) # {})
  BY RulesConstants DEF Hist, Rules!WatchRulesAssumption, Rules!Rules, Rules!Measured
<1>2. n \in Nat /\ Len(t) = n + 1 /\ t[n + 1] = o
  BY <1>1, AppendFacts
<1>3. LastMeasured(t, n + 1) = LastMeasured(s, n + 1)
  BY <1>1, <1>2, LastMeasuredAppend
<1>4. /\ Rules!Measured(o) => LastMeasured(t, n + 2) = {o}
      /\ ~ Rules!Measured(o) => LastMeasured(t, n + 2) = LastMeasured(s, n + 1)
  BY <1>1, LastMeasuredAppend
<1>5. Rules!CalledFor("radiation", t, n + 1) <=>
        /\ n + 1 > 1 /\ t[n + 1] # None /\ Rules!Measured(t[n + 1]) /\ Rules!Raised(t[n + 1])
        /\ \A p \in LastMeasured(t, n + 1) : ~ Rules!Raised(p)
  BY CalledRadiation
<1> HIDE DEF t, n
<1>6. (n > 0 /\ Rules!Fresh(o) # {} /\ Rules!Raised(o) /\ Rules!Event \notin k)
        <=> Rules!CalledFor("radiation", t, n + 1)
  BY <1>1, <1>2, <1>3, <1>5 DEF MemRadiation, n
<1>7. MemRadiation(IF Rules!Fresh(o) = {} THEN k ELSE {e \in {Rules!Event} : Rules!Raised(o)}, t)
  <2>1. n + 1 + 1 = n + 2
    BY <1>2
  <2>2. CASE Rules!Fresh(o) = {}
    BY <1>1, <1>2, <1>4, <2>1, <2>2 DEF MemRadiation, n
  <2>3. CASE Rules!Fresh(o) # {}
    BY <1>1, <1>2, <1>4, <2>1, <2>3 DEF MemRadiation, n
  <2> QED
    BY <2>2, <2>3
<1> QED
  BY <1>6, <1>7 DEF t, n

(* Water.                                                                     *)
LEMMA StepWater ==
  ASSUME NEW s \in Seq(Hist("water")), NEW k, NEW o \in Rules!Findings("water"), MemWater(k, s)
  PROVE  /\ (Len(s) > 0 /\ ~ (Rules!Current(o) \subseteq k))
              <=> Rules!CalledFor("water", Append(s, o), Len(s) + 1)
         /\ MemWater(Rules!Current(o), Append(s, o))
<1> DEFINE t == Append(s, o)  n == Len(s)
<1>1. /\ o \in Hist("water") /\ o # None
      /\ o.code \in Codes /\ o.open \in BOOLEAN
  BY RulesConstants DEF Hist, Rules!Findings, Rules!WatchRulesAssumption, Rules!Rules
<1>2. n \in Nat /\ Len(t) = n + 1 /\ t[n + 1] = o
  BY <1>1, AppendFacts
<1>3. LastFetched(t, n + 1) = LastFetched(s, n + 1)
  BY <1>1, <1>2, LastFetchedAppend
<1>4. LastFetched(t, n + 2) = {o}
  BY <1>1, LastFetchedAppend
<1>5. Rules!CalledFor("water", t, n + 1) <=>
        /\ n + 1 > 1 /\ t[n + 1] # None
        /\ \/ t[n + 1].code >= 3 /\ \A p \in LastFetched(t, n + 1) : p.code # t[n + 1].code
           \/ ~ t[n + 1].open /\ \A p \in LastFetched(t, n + 1) : p.open
  BY CalledWater
<1>6. ASSUME NEW p \in LastFetched(s, n + 1) PROVE p.code \in Codes /\ p.open \in BOOLEAN
  <2>1. PICK j \in 1 .. n : p = s[j] /\ s[j] # None
    BY <1>2, <1>6 DEF LastFetched
  <2>2. s[j] \in Hist("water")
    BY <1>2
  <2> QED
    BY <2>1, <2>2 DEF Hist, Rules!Findings
<1>7. \A c \in Codes : c \in 1 .. 4
  BY RulesConstants DEF Rules!WatchRulesAssumption
<1> HIDE DEF t, n
<1> DEFINE L == LastFetched(s, n + 1)
<1> HIDE DEF L
<1>8. /\ o.code >= 3 => (<<"sector", o.code>> \in k <=> \E p \in L : p.code = o.code)
      /\ ~ o.open => (<<"barrier", 0>> \in k <=> \E p \in L : ~ p.open)
  <2>1. \A p : /\ \A c : <<"sector", c>> \in Rules!Current(p) <=> c = p.code /\ c \notin {1, 2}
               /\ <<"barrier", 0>> \in Rules!Current(p) <=> p.open # TRUE
    BY DEF Rules!Current
  <2>2. \A e : e \in k <=> \E p \in L : e \in Rules!Current(p)
    BY DEF MemWater, n, L
  <2>3. \A p \in L : p.open \in BOOLEAN
    BY <1>6 DEF L
  <2>4. ASSUME o.code >= 3
        PROVE  <<"sector", o.code>> \in k <=> \E p \in L : p.code = o.code
    <3>1. o.code \notin {1, 2}
      BY <1>1, <1>7, <2>4
    <3>2. <<"sector", o.code>> \in k <=> \E p \in L : <<"sector", o.code>> \in Rules!Current(p)
      BY <2>2
    <3> QED
      BY <2>1, <3>1, <3>2
  <2>5. <<"barrier", 0>> \in k <=> \E p \in L : ~ p.open
    BY <2>1, <2>2, <2>3
  <2> QED
    BY <2>4, <2>5
<1>9. Rules!Current(o) \subseteq k <=>
        /\ o.code >= 3 => <<"sector", o.code>> \in k
        /\ ~ o.open => <<"barrier", 0>> \in k
  <2>1. \A e : e \in Rules!Current(o) <=>
          \/ e = <<"sector", o.code>> /\ o.code \notin {1, 2}
          \/ e = <<"barrier", 0>> /\ o.open # TRUE
    BY DEF Rules!Current
  <2>2. o.code \notin {1, 2} <=> o.code >= 3
    BY <1>1, <1>7
  <2>3. o.open # TRUE <=> ~ o.open
    BY <1>1
  <2> QED
    BY <2>1, <2>2, <2>3
<1>10. (n > 0 /\ ~ (Rules!Current(o) \subseteq k)) <=> Rules!CalledFor("water", t, n + 1)
  <2>1. Rules!CalledFor("water", t, n + 1) <=>
          /\ n > 0
          /\ \/ o.code >= 3 /\ \A p \in L : p.code # o.code
             \/ ~ o.open /\ \A p \in L : p.open
    BY <1>1, <1>2, <1>3, <1>5 DEF L
  <2>2. \A p \in L : p.open \in BOOLEAN
    BY <1>6 DEF L
  <2> QED
    BY <1>1, <1>8, <1>9, <2>1, <2>2
<1>11. MemWater(Rules!Current(o), t)
  <2>1. n + 1 + 1 = n + 2
    BY <1>2
  <2> QED
    BY <1>2, <1>4, <2>1 DEF MemWater
<1> QED
  BY <1>10, <1>11 DEF t, n

(* Weather warnings.                                                          *)
LEMMA StepKNMI ==
  ASSUME NEW s \in Seq(Hist("knmi")), NEW l, NEW o \in SUBSET (1 .. 3), MemKNMI(l, s)
  PROVE  /\ (Len(s) > 0 /\ Rules!knmiSummary(o) >= 2 /\ Rules!knmiSummary(o) > l)
              <=> Rules!CalledFor("knmi", Append(s, o), Len(s) + 1)
         /\ MemKNMI(Rules!knmiSummary(o), Append(s, o))
<1> DEFINE t == Append(s, o)  n == Len(s)  top == Rules!knmiSummary(o)
<1>1. o \in Hist("knmi") /\ o # None
  BY RulesConstants DEF Hist, Rules!Findings, Rules!WatchRulesAssumption, Rules!Rules
<1>2. n \in Nat /\ Len(t) = n + 1 /\ t[n + 1] = o
  BY <1>1, AppendFacts
<1>3. LastFetched(t, n + 1) = LastFetched(s, n + 1)
  BY <1>1, <1>2, LastFetchedAppend
<1>4. LastFetched(t, n + 2) = {o}
  BY <1>1, LastFetchedAppend
<1>5. Rules!CalledFor("knmi", t, n + 1) <=>
        /\ n + 1 > 1 /\ t[n + 1] # None
        /\ \E c \in t[n + 1] \ {1} : \A p \in LastFetched(t, n + 1) : \A d \in p : d < c
  BY CalledKNMI
<1>6. top \in o \union {0} /\ \A d \in o \union {0} : d <= top
  <2>1. o \union {0} \in SUBSET (0 .. 3)
    OBVIOUS
  <2>2. PICK x \in o \union {0} : \A d \in o \union {0} : d <= x
    BY <2>1, GreatestOf
  <2>3. \A d \in o \union {0} : d \in Nat
    BY <2>1
  <2> QED
    BY <2>2, <2>3 DEF Rules!knmiSummary, Rules!Max
<1>7. \A d \in o : d \in 1 .. 3
  OBVIOUS
<1>8. ASSUME NEW p \in LastFetched(s, n + 1), NEW d \in p PROVE d \in 1 .. 3
  <2>1. PICK j \in 1 .. n : p = s[j] /\ s[j] # None
    BY <1>2, <1>8 DEF LastFetched
  <2>2. s[j] \in Hist("knmi")
    BY <1>2
  <2>3. s[j] \in SUBSET (1 .. 3)
    BY <2>1, <2>2 DEF Hist, Rules!Findings
  <2> QED
    BY <1>8, <2>1, <2>3
<1> HIDE DEF t, n, top
<1>9. (n > 0 /\ top >= 2 /\ top > l) <=> Rules!CalledFor("knmi", t, n + 1)
  <2> DEFINE L == LastFetched(s, n + 1)
  <2>1. Rules!CalledFor("knmi", t, n + 1) <=>
          n > 0 /\ \E c \in o \ {1} : \A p \in L : \A d \in p : d < c
    <3>1. n + 1 > 1 <=> n > 0
      BY <1>2
    <3> QED
      BY <1>1, <1>2, <1>3, <1>5, <3>1, Zenon
  <2>2. /\ l \in 0 .. 3 /\ \A p \in L : \A d \in p : d <= l
        /\ l = 0 \/ \E p \in L : l \in p
    BY DEF MemKNMI, n
  <2> HIDE DEF L
  <2>3. ASSUME top >= 2, top > l
        PROVE  \E c \in o \ {1} : \A p \in L : \A d \in p : d < c
    <3>1. top \in o \ {1} /\ top \in 0 .. 3
      BY <1>6, <1>7, <2>3
    <3>2. \A p \in L : \A d \in p : d < top
      BY <1>8, <2>2, <2>3, <3>1 DEF L
    <3> QED
      BY <3>1, <3>2
  <2>4. ASSUME NEW c \in o \ {1}, \A p \in L : \A d \in p : d < c
        PROVE  top >= 2 /\ top > l
    <3>1. c \in 2 .. 3 /\ c <= top /\ top \in 0 .. 3
      BY <1>6, <1>7
    <3>2. l < c
      BY <2>2, <2>4, <3>1
    <3> QED
      BY <2>2, <3>1, <3>2
  <2> QED
    BY <2>1, <2>3, <2>4
<1>10. MemKNMI(top, t)
  <2>1. n + 1 + 1 = n + 2
    BY <1>2
  <2>2. top \in 0 .. 3 /\ (top = 0 \/ top \in o) /\ \A d \in o : d <= top
    BY <1>6, <1>7
  <2> QED
    BY <1>2, <1>4, <2>1, <2>2 DEF MemKNMI
<1> QED
  BY <1>9, <1>10 DEF t, n, top

(* A run without an answer calls for nothing and changes nothing that is known. *)
LEMMA Miss ==
  ASSUME NEW r \in {"nctv", "radiation", "water", "knmi"}, NEW s \in Seq(Hist(r))
  PROVE  /\ ~ Rules!CalledFor(r, Append(s, None), Len(s) + 1)
         /\ Len(Append(s, None)) + 1 = Len(s) + 2
         /\ LastFetched(Append(s, None), Len(s) + 2) = LastFetched(s, Len(s) + 1)
         /\ LastMeasured(Append(s, None), Len(s) + 2) = LastMeasured(s, Len(s) + 1)
<1>1. None \in Hist(r) /\ ~ Rules!Measured(None)
  BY DEF Hist, Rules!Measured
<1>2. Len(s) \in Nat /\ Len(Append(s, None)) = Len(s) + 1 /\ Append(s, None)[Len(s) + 1] = None
  BY <1>1, AppendFacts
<1>3. Len(s) + 1 + 1 = Len(s) + 2
  BY <1>2
<1>4. LastFetched(Append(s, None), Len(s) + 2) = LastFetched(s, Len(s) + 1)
  BY <1>1, LastFetchedAppend
<1>5. LastMeasured(Append(s, None), Len(s) + 2) = LastMeasured(s, Len(s) + 1)
  BY <1>1, LastMeasuredAppend
<1>6. ~ Rules!CalledFor(r, Append(s, None), Len(s) + 1)
  <2> DEFINE t == Append(s, None)  i == Len(s) + 1
  <2>1. t[i] = None
    BY <1>2
  <2> HIDE DEF t, i
  <2>2. ~ Rules!CalledFor("nctv", t, i)
    BY <2>1, CalledNCTV
  <2>3. ~ Rules!CalledFor("radiation", t, i)
    BY <2>1, CalledRadiation
  <2>4. ~ Rules!CalledFor("water", t, i)
    BY <2>1, CalledWater
  <2>5. ~ Rules!CalledFor("knmi", t, i)
    BY <2>1, CalledKNMI
  <2>6. ~ Rules!CalledFor(r, t, i)
    <3>1. r = "nctv" \/ r = "radiation" \/ r = "water" \/ r = "knmi"
      OBVIOUS
    <3> QED
      BY <2>2, <2>3, <2>4, <2>5, <3>1
  <2> QED
    BY <2>6 DEF t, i
<1> QED
  BY <1>2, <1>3, <1>4, <1>5, <1>6

(* Stories.                                                                   *)
LEMMA StepStory ==
  ASSUME NEW s \in Seq(Hist("story")), NEW k, NEW o \in Rules!Findings("story"), MemStory(k, s)
  PROVE  /\ (/\ Len(s) > 0 /\ Rules!Big(o)
             /\ Rules!StoryKeys(o) \intersect k = {} /\ Rules!Timely(o))
              <=> Rules!CalledFor("story", Append(s, o), Len(s) + 1)
         /\ MemStory(k \union (IF Rules!Big(o) THEN Rules!StoryKeys(o) ELSE {}), Append(s, o))
<1> DEFINE t == Append(s, o)  n == Len(s)
           after == k \union (IF Rules!Big(o) THEN Rules!StoryKeys(o) ELSE {})
<1>1. o \in Hist("story") /\ o # None
  BY RulesConstants DEF Hist, Rules!WatchRulesAssumption, Rules!Rules
<1>2. n \in Nat /\ Len(t) = n + 1 /\ t[n + 1] = o /\ \A j \in 1 .. n : t[j] = s[j]
  BY <1>1, AppendFacts
<1>3. \A x : <<"story", x>> \in Rules!StoryKeys(o) <=> x \in DOMAIN o
  BY DEF Rules!StoryKeys
<1>4. Rules!StoryKeys(o) \intersect k = {} <=> \A x \in DOMAIN o : <<"story", x>> \notin k
  BY DEF Rules!StoryKeys
<1>5. \A x : <<"story", x>> \in after <=> <<"story", x>> \in k \/ (Rules!Big(o) /\ x \in DOMAIN o)
  <2>1. \A e : e \in after <=> e \in k \/ (Rules!Big(o) /\ e \in Rules!StoryKeys(o))
    OBVIOUS
  <2> HIDE DEF after
  <2> QED
    BY <1>3, <2>1, Zenon
<1>6. Rules!CalledFor("story", t, n + 1) <=>
        /\ n + 1 > 1 /\ t[n + 1] # None /\ Rules!Big(t[n + 1]) /\ Rules!Timely(t[n + 1])
        /\ \A j \in 1 .. (n + 1) - 1 :
             ~ (Rules!Big(t[j]) /\ DOMAIN t[j] \intersect DOMAIN t[n + 1] # {})
  BY CalledStory
<1> HIDE DEF t, n, after
<1>7. (n > 0 /\ Rules!Big(o) /\ Rules!StoryKeys(o) \intersect k = {} /\ Rules!Timely(o))
        <=> Rules!CalledFor("story", t, n + 1)
  <2>1. (n + 1) - 1 = n /\ (n + 1 > 1 <=> n > 0)
    BY <1>2
  <2>2. Rules!CalledFor("story", t, n + 1) <=>
          /\ n > 0 /\ Rules!Big(o) /\ Rules!Timely(o)
          /\ \A j \in 1 .. n : ~ (Rules!Big(s[j]) /\ DOMAIN s[j] \intersect DOMAIN o # {})
    BY <1>1, <1>2, <1>6, <2>1, Zenon
  <2>3. (\A x \in DOMAIN o : <<"story", x>> \notin k) <=>
          \A j \in 1 .. n : ~ (Rules!Big(s[j]) /\ DOMAIN s[j] \intersect DOMAIN o # {})
    BY DEF MemStory, n
  <2> QED
    BY <1>4, <2>2, <2>3
<1>8. MemStory(after, t)
  <2>1. \A j \in 1 .. n + 1 : j \in 1 .. n \/ j = n + 1
    BY <1>2
  <2>2. n + 1 \in 1 .. n + 1 /\ \A j \in 1 .. n : j \in 1 .. n + 1
    BY <1>2
  <2>3. \A x : <<"story", x>> \in k <=> \E j \in 1 .. n : Rules!Big(s[j]) /\ x \in DOMAIN s[j]
    BY DEF MemStory, n
  <2>4. ASSUME NEW x
        PROVE  <<"story", x>> \in after
                 <=> \E j \in 1 .. n + 1 : Rules!Big(t[j]) /\ x \in DOMAIN t[j]
    <3>1. (\E j \in 1 .. n + 1 : Rules!Big(t[j]) /\ x \in DOMAIN t[j]) <=>
            \/ \E j \in 1 .. n : Rules!Big(s[j]) /\ x \in DOMAIN s[j]
            \/ Rules!Big(o) /\ x \in DOMAIN o
      BY <1>2, <2>1, <2>2, Zenon
    <3>2. <<"story", x>> \in after <=> <<"story", x>> \in k \/ (Rules!Big(o) /\ x \in DOMAIN o)
      BY <1>5
    <3>3. <<"story", x>> \in k <=> \E j \in 1 .. n : Rules!Big(s[j]) /\ x \in DOMAIN s[j]
      BY <2>3
    <3> QED
      BY <3>1, <3>2, <3>3
  <2> QED
    BY <1>2, <2>4 DEF MemStory
<1> QED
  BY <1>7, <1>8 DEF t, n, after

(* The waste reminder; the runs are in order of time.                         *)
LEMMA StepWaste ==
  ASSUME NEW s \in Seq(Hist("waste")), NEW l, NEW o \in Rules!Findings("waste"), MemWaste(l, s),
         \A j \in 1 .. Len(s) : s[j] # None,
         \A j \in 1 .. Len(s) : s[j].day < o.day \/ (s[j].day = o.day /\ s[j].hour <= o.hour)
  PROVE  /\ (o.hour = WasteHour /\ l # o.day)
              <=> Rules!CalledFor("waste", Append(s, o), Len(s) + 1)
         /\ MemWaste(IF o.hour = WasteHour /\ l # o.day THEN o.day ELSE l, Append(s, o))
         /\ \A j \in 1 .. Len(s) + 1 : Append(s, o)[j] # None
<1> DEFINE t == Append(s, o)  n == Len(s)
           due == o.hour = WasteHour /\ l # o.day
<1>1. o \in Hist("waste") /\ o # None /\ o.day \in Nat /\ o.day > 0
  BY RulesConstants DEF Hist, Rules!Findings, Rules!WatchRulesAssumption, Rules!Rules
<1>2. n \in Nat /\ Len(t) = n + 1 /\ t[n + 1] = o /\ \A j \in 1 .. n : t[j] = s[j]
  BY <1>1, AppendFacts
<1>3. ASSUME NEW j \in 1 .. n
      PROVE  /\ s[j].day \in Nat
             /\ s[j].hour = o.hour /\ s[j].day = o.day => s[j] = o
  <2>1. s[j] \in [day : Days, hour : Hours] /\ o \in [day : Days, hour : Hours]
    BY DEF Hist, Rules!Findings
  <2>2. s[j].day \in Nat
    BY <2>1, RulesConstants DEF Rules!WatchRulesAssumption
  <2>3. \A a, b \in [day : Days, hour : Hours] : a.hour = b.hour /\ a.day = b.day => a = b
    OBVIOUS
  <2> QED
    BY <2>1, <2>2, <2>3
<1>4. Rules!CalledFor("waste", t, n + 1) <=>
        t[n + 1].hour = WasteHour /\ \A j \in 1 .. (n + 1) - 1 : t[j] # t[n + 1]
  BY CalledWaste
<1> HIDE DEF t, n, due
<1>5. (n + 1) - 1 = n
  BY <1>2
<1>6. Rules!CalledFor("waste", t, n + 1) <=> o.hour = WasteHour /\ \A j \in 1 .. n : s[j] # o
  BY <1>2, <1>4, <1>5, Zenon
<1>7. /\ l \in Nat
      /\ \A j \in 1 .. n : s[j].hour = WasteHour => s[j].day <= l
      /\ l = 0 \/ \E j \in 1 .. n : s[j].hour = WasteHour /\ s[j].day = l
  BY DEF MemWaste, n
<1>8. \A j \in 1 .. n : s[j].day <= o.day
  BY <1>1, <1>3 DEF n
<1>9. o.hour = WasteHour => (l # o.day <=> \A j \in 1 .. n : s[j] # o)
  BY <1>1, <1>3, <1>7, <1>8
<1>10. due <=> Rules!CalledFor("waste", t, n + 1)
  BY <1>6, <1>9 DEF due
<1>11. \A j \in 1 .. n + 1 : j \in 1 .. n \/ j = n + 1
  BY <1>2
<1>12. n + 1 \in 1 .. n + 1 /\ \A j \in 1 .. n : j \in 1 .. n + 1
  BY <1>2
<1>13. MemWaste(IF due THEN o.day ELSE l, t)
  <2>1. CASE due
    <3>1. \A j \in 1 .. n + 1 : t[j].hour = WasteHour => t[j].day <= o.day
      BY <1>1, <1>2, <1>8, <1>11
    <3>2. \E j \in 1 .. n + 1 : t[j].hour = WasteHour /\ t[j].day = o.day
      BY <1>2, <1>12, <2>1 DEF due
    <3> QED
      BY <1>1, <1>2, <2>1, <3>1, <3>2 DEF MemWaste
  <2>2. CASE ~ due
    <3>1. o.hour = WasteHour => o.day <= l
      BY <1>1, <2>2 DEF due
    <3>2. \A j \in 1 .. n + 1 : t[j].hour = WasteHour => t[j].day <= l
      BY <1>2, <1>7, <1>11, <3>1
    <3>3. l = 0 \/ \E j \in 1 .. n + 1 : t[j].hour = WasteHour /\ t[j].day = l
      BY <1>2, <1>7, <1>12
    <3> QED
      BY <1>2, <1>7, <2>2, <3>2, <3>3 DEF MemWaste
  <2> QED
    BY <2>1, <2>2
<1>14. \A j \in 1 .. n + 1 : t[j] # None
  BY <1>1, <1>2, <1>11 DEF n
<1> QED
  BY <1>10, <1>13, <1>14 DEF t, n, due

(* The memory of the rule that is followed.                                   *)
Memory(r, l, k, s) ==
  /\ r = "nctv" => MemNCTV(l, s)
  /\ r \in {"nlalert", "quake"} => MemListed(k, s)
  /\ r = "amber" => MemAmber(k, s)
  /\ r = "radiation" => MemRadiation(k, s)
  /\ r = "water" => MemWater(k, s)
  /\ r = "knmi" => MemKNMI(l, s)
  /\ r = "alarm" => MemAlarm(k, s)
  /\ r = "story" => MemStory(k, s)
  /\ r = "waste" => MemWaste(l, s) /\ \A j \in 1 .. Len(s) : s[j] # None

(* The types of the watcher.                                                  *)
RulesTyped ==
  /\ rule \in Rules!Rules /\ init \in BOOLEAN
  /\ obs \in Seq(Hist(rule)) /\ told \in Seq(BOOLEAN) /\ Len(told) = Len(obs)
  /\ init <=> Len(obs) > 0

(* What was told is what the history calls for, and the memory is what the    *)
(* history says: the second is what makes the first inductive.                *)
RulesInv == RulesTyped /\ Rules!AsTheHistorySays /\ Memory(rule, level, keys, obs)

(* The step of a run, from what its rule tells and remembers.                 *)
LEMMA RulesStep ==
  ASSUME RulesTyped, Rules!AsTheHistorySays,
         NEW o \in Hist(rule), NEW w \in BOOLEAN,
         w <=> Rules!CalledFor(rule, Append(obs, o), Len(obs) + 1),
         init' = TRUE, rule' = rule, obs' = Append(obs, o), told' = Append(told, w),
         Memory(rule, level', keys', Append(obs, o))
  PROVE  RulesInv'
<1>1. /\ rule \in Rules!Rules /\ obs \in Seq(Hist(rule)) /\ told \in Seq(BOOLEAN)
      /\ Len(told) = Len(obs) /\ \A i \in DOMAIN told : told[i] <=> Rules!CalledFor(rule, obs, i)
  BY DEF RulesTyped, Rules!AsTheHistorySays
<1>2. /\ Append(told, w) \in Seq(BOOLEAN) /\ Len(Append(told, w)) = Len(Append(obs, o))
      /\ Append(obs, o) \in Seq(Hist(rule)) /\ Len(Append(obs, o)) = Len(obs) + 1
      /\ \A i \in DOMAIN Append(told, w) :
           Append(told, w)[i] <=> Rules!CalledFor(rule, Append(obs, o), i)
  BY <1>1, RunKeeps, SMTT(30)
<1>3. Len(obs) + 1 > 0
  BY <1>1
<1>4. RulesTyped'
  BY <1>1, <1>2, <1>3 DEF RulesTyped
<1>5. Rules!AsTheHistorySays'
  BY <1>2 DEF Rules!AsTheHistorySays
<1>6. Memory(rule, level, keys, obs)'
  OBVIOUS
<1> QED
  BY <1>4, <1>5, <1>6 DEF RulesInv

(* A run without an answer keeps the invariant.                               *)
LEMMA RulesMissed ==
  ASSUME RulesInv, Rules!Missed
  PROVE  RulesInv'
<1>1. /\ rule \in {"nctv", "radiation", "water", "knmi"}
      /\ init' = TRUE /\ rule' = rule /\ level' = level /\ keys' = keys
      /\ obs' = Append(obs, None) /\ told' = Append(told, init /\ FALSE)
  BY DEF Rules!Missed, Rules!Run
<1>2. RulesTyped /\ Rules!AsTheHistorySays /\ Memory(rule, level, keys, obs)
  BY DEF RulesInv
<1>3. obs \in Seq(Hist(rule)) /\ None \in Hist(rule) /\ init \in BOOLEAN
  BY <1>2 DEF RulesTyped, Hist
<1>4. /\ ~ Rules!CalledFor(rule, Append(obs, None), Len(obs) + 1)
      /\ Len(Append(obs, None)) + 1 = Len(obs) + 2
      /\ LastFetched(Append(obs, None), Len(obs) + 2) = LastFetched(obs, Len(obs) + 1)
      /\ LastMeasured(Append(obs, None), Len(obs) + 2) = LastMeasured(obs, Len(obs) + 1)
  BY <1>1, <1>3, Miss
<1>5. /\ LastFetched(Append(obs, None), Len(Append(obs, None)) + 1) = LastFetched(obs, Len(obs) + 1)
      /\ LastMeasured(Append(obs, None), Len(Append(obs, None)) + 1) = LastMeasured(obs, Len(obs) + 1)
  BY <1>4
<1>6. Memory(rule, level', keys', Append(obs, None))
  BY <1>1, <1>2, <1>5 DEF Memory, MemNCTV, MemRadiation, MemWater, MemKNMI
<1>7. told' = Append(told, FALSE)
  BY <1>1
<1> QED
  BY <1>1, <1>2, <1>3, <1>4, <1>6, <1>7, RulesStep

(* So does a run of each rule. The threat level.                              *)
LEMMA RulesNCTV ==
  ASSUME RulesInv, Rules!NCTV
  PROVE  RulesInv'
<1>1. rule = "nctv"
  BY DEF Rules!NCTV
<1> DEFINE Says(o) == level > 0 /\ o # level
<1>2. PICK o \in Rules!Findings("nctv") :
        /\ init' = TRUE /\ rule' = rule
        /\ obs' = Append(obs, o) /\ told' = Append(told, init /\ Says(o))
        /\ level' = o /\ keys' = keys
  BY DEF Rules!NCTV, Rules!Run, Rules!Remember
<1>3. RulesTyped /\ Rules!AsTheHistorySays /\ MemNCTV(level, obs)
  BY <1>1 DEF RulesInv, Memory
<1>4. /\ obs \in Seq(Hist("nctv")) /\ o \in Hist("nctv") /\ init \in BOOLEAN
      /\ init <=> Len(obs) > 0
  BY <1>1, <1>3 DEF RulesTyped, Hist
<1>5. /\ (Len(obs) > 0 /\ Says(o)) <=> Rules!CalledFor("nctv", Append(obs, o), Len(obs) + 1)
      /\ MemNCTV(level', Append(obs, o))
  BY <1>2, <1>3, <1>4, StepNCTV DEF Rules!Findings
<1>6. (init /\ Says(o)) \in BOOLEAN
  OBVIOUS
<1>7. (init /\ Says(o)) <=> Rules!CalledFor(rule, Append(obs, o), Len(obs) + 1)
  BY <1>1, <1>4, <1>5
<1>8. Memory(rule, level', keys', Append(obs, o))
  BY <1>1, <1>5 DEF Memory
<1>9. o \in Hist(rule)
  BY <1>1, <1>4
<1> QED
  BY <1>2, <1>3, <1>6, <1>7, <1>8, <1>9, RulesStep

(* NL-Alerts.                                                                 *)
LEMMA RulesNLAlert ==
  ASSUME RulesInv, Rules!NLAlert
  PROVE  RulesInv'
<1>1. rule = "nlalert"
  BY DEF Rules!NLAlert
<1> DEFINE Says(o) == Rules!Event \notin keys /\ o = "active"
<1>2. PICK o \in Rules!Findings("nlalert") :
        /\ init' = TRUE /\ rule' = rule
        /\ obs' = Append(obs, o) /\ told' = Append(told, init /\ Says(o))
        /\ keys' = keys \union (IF o = "absent" THEN {} ELSE {Rules!Event}) /\ level' = level
  BY DEF Rules!NLAlert, Rules!Run, Rules!Remember
<1>3. RulesTyped /\ Rules!AsTheHistorySays /\ MemListed(keys, obs)
  BY <1>1 DEF RulesInv, Memory
<1>4. /\ obs \in Seq(Hist("nlalert")) /\ o \in Hist("nlalert") /\ init \in BOOLEAN
      /\ init <=> Len(obs) > 0
  BY <1>1, <1>3 DEF RulesTyped, Hist
<1>5. /\ (Len(obs) > 0 /\ Says(o)) <=> Rules!CalledFor("nlalert", Append(obs, o), Len(obs) + 1)
      /\ MemListed(keys', Append(obs, o))
  BY <1>2, <1>3, <1>4, StepNLAlert
<1>6. (init /\ Says(o)) \in BOOLEAN
  OBVIOUS
<1>7. (init /\ Says(o)) <=> Rules!CalledFor(rule, Append(obs, o), Len(obs) + 1)
  BY <1>1, <1>4, <1>5
<1>8. Memory(rule, level', keys', Append(obs, o))
  BY <1>1, <1>5 DEF Memory
<1>9. o \in Hist(rule)
  BY <1>1, <1>4
<1> QED
  BY <1>2, <1>3, <1>6, <1>7, <1>8, <1>9, RulesStep

(* AMBER Alerts.                                                              *)
LEMMA RulesAmber ==
  ASSUME RulesInv, Rules!Amber
  PROVE  RulesInv'
<1>1. rule = "amber"
  BY DEF Rules!Amber
<1> DEFINE Says(o) == Rules!Event \notin keys /\ o = "listed"
<1>2. PICK o \in Rules!Findings("amber") :
        /\ init' = TRUE /\ rule' = rule
        /\ obs' = Append(obs, o) /\ told' = Append(told, init /\ Says(o))
        /\ keys' = keys \union (IF o = "absent" THEN {} ELSE {Rules!Event}) /\ level' = level
  BY DEF Rules!Amber, Rules!Run, Rules!Remember
<1>3. RulesTyped /\ Rules!AsTheHistorySays /\ MemAmber(keys, obs)
  BY <1>1 DEF RulesInv, Memory
<1>4. /\ obs \in Seq(Hist("amber")) /\ o \in Hist("amber") /\ init \in BOOLEAN
      /\ init <=> Len(obs) > 0
  BY <1>1, <1>3 DEF RulesTyped, Hist
<1>5. /\ (Len(obs) > 0 /\ Says(o)) <=> Rules!CalledFor("amber", Append(obs, o), Len(obs) + 1)
      /\ MemAmber(keys', Append(obs, o))
  BY <1>2, <1>3, <1>4, StepAmber
<1>6. (init /\ Says(o)) \in BOOLEAN
  OBVIOUS
<1>7. (init /\ Says(o)) <=> Rules!CalledFor(rule, Append(obs, o), Len(obs) + 1)
  BY <1>1, <1>4, <1>5
<1>8. Memory(rule, level', keys', Append(obs, o))
  BY <1>1, <1>5 DEF Memory
<1>9. o \in Hist(rule)
  BY <1>1, <1>4
<1> QED
  BY <1>2, <1>3, <1>6, <1>7, <1>8, <1>9, RulesStep

(* Earthquakes.                                                               *)
LEMMA RulesQuake ==
  ASSUME RulesInv, Rules!Quake
  PROVE  RulesInv'
<1>1. rule = "quake"
  BY DEF Rules!Quake
<1> DEFINE Says(o) == Rules!Event \notin keys /\ o = "big"
<1>2. PICK o \in Rules!Findings("quake") :
        /\ init' = TRUE /\ rule' = rule
        /\ obs' = Append(obs, o) /\ told' = Append(told, init /\ Says(o))
        /\ keys' = keys \union (IF o = "absent" THEN {} ELSE {Rules!Event}) /\ level' = level
  BY DEF Rules!Quake, Rules!Run, Rules!Remember
<1>3. RulesTyped /\ Rules!AsTheHistorySays /\ MemListed(keys, obs)
  BY <1>1 DEF RulesInv, Memory
<1>4. /\ obs \in Seq(Hist("quake")) /\ o \in Hist("quake") /\ init \in BOOLEAN
      /\ init <=> Len(obs) > 0
  BY <1>1, <1>3 DEF RulesTyped, Hist
<1>5. /\ (Len(obs) > 0 /\ Says(o)) <=> Rules!CalledFor("quake", Append(obs, o), Len(obs) + 1)
      /\ MemListed(keys', Append(obs, o))
  BY <1>2, <1>3, <1>4, StepQuake
<1>6. (init /\ Says(o)) \in BOOLEAN
  OBVIOUS
<1>7. (init /\ Says(o)) <=> Rules!CalledFor(rule, Append(obs, o), Len(obs) + 1)
  BY <1>1, <1>4, <1>5
<1>8. Memory(rule, level', keys', Append(obs, o))
  BY <1>1, <1>5 DEF Memory
<1>9. o \in Hist(rule)
  BY <1>1, <1>4
<1> QED
  BY <1>2, <1>3, <1>6, <1>7, <1>8, <1>9, RulesStep

(* Radiation.                                                                 *)
LEMMA RulesRadiation ==
  ASSUME RulesInv, Rules!Radiation
  PROVE  RulesInv'
<1>1. rule = "radiation"
  BY DEF Rules!Radiation
<1> DEFINE Says(o) == Rules!Fresh(o) # {} /\ Rules!Raised(o) /\ Rules!Event \notin keys
<1>2. PICK o \in Rules!Findings("radiation") :
        /\ init' = TRUE /\ rule' = rule
        /\ obs' = Append(obs, o) /\ told' = Append(told, init /\ Says(o))
        /\ keys' = (IF Rules!Fresh(o) = {} THEN keys ELSE {e \in {Rules!Event} : Rules!Raised(o)})
        /\ level' = level
  BY DEF Rules!Radiation, Rules!Run, Rules!Remember
<1>3. RulesTyped /\ Rules!AsTheHistorySays /\ MemRadiation(keys, obs)
  BY <1>1 DEF RulesInv, Memory
<1>4. /\ obs \in Seq(Hist("radiation")) /\ o \in Hist("radiation") /\ init \in BOOLEAN
      /\ init <=> Len(obs) > 0
  BY <1>1, <1>3 DEF RulesTyped, Hist
<1>5. /\ (Len(obs) > 0 /\ Says(o)) <=> Rules!CalledFor("radiation", Append(obs, o), Len(obs) + 1)
      /\ MemRadiation(keys', Append(obs, o))
  BY <1>2, <1>3, <1>4, StepRadiation
<1>6. (init /\ Says(o)) \in BOOLEAN
  OBVIOUS
<1>7. (init /\ Says(o)) <=> Rules!CalledFor(rule, Append(obs, o), Len(obs) + 1)
  BY <1>1, <1>4, <1>5
<1>8. Memory(rule, level', keys', Append(obs, o))
  BY <1>1, <1>5 DEF Memory
<1>9. o \in Hist(rule)
  BY <1>1, <1>4
<1> QED
  BY <1>2, <1>3, <1>6, <1>7, <1>8, <1>9, RulesStep

(* Water.                                                                     *)
LEMMA RulesWater ==
  ASSUME RulesInv, Rules!Water
  PROVE  RulesInv'
<1>1. rule = "water"
  BY DEF Rules!Water
<1> DEFINE Says(o) == ~ (Rules!Current(o) \subseteq keys)
<1>2. PICK o \in Rules!Findings("water") :
        /\ init' = TRUE /\ rule' = rule
        /\ obs' = Append(obs, o) /\ told' = Append(told, init /\ Says(o))
        /\ keys' = Rules!Current(o) /\ level' = level
  BY DEF Rules!Water, Rules!Run, Rules!Remember, Rules!WaterKeys
<1>3. RulesTyped /\ Rules!AsTheHistorySays /\ MemWater(keys, obs)
  BY <1>1 DEF RulesInv, Memory
<1>4. /\ obs \in Seq(Hist("water")) /\ o \in Hist("water") /\ init \in BOOLEAN
      /\ init <=> Len(obs) > 0
  BY <1>1, <1>3 DEF RulesTyped, Hist
<1>5. /\ (Len(obs) > 0 /\ Says(o)) <=> Rules!CalledFor("water", Append(obs, o), Len(obs) + 1)
      /\ MemWater(keys', Append(obs, o))
  BY <1>2, <1>3, <1>4, StepWater
<1>6. (init /\ Says(o)) \in BOOLEAN
  OBVIOUS
<1>7. (init /\ Says(o)) <=> Rules!CalledFor(rule, Append(obs, o), Len(obs) + 1)
  BY <1>1, <1>4, <1>5
<1>8. Memory(rule, level', keys', Append(obs, o))
  BY <1>1, <1>5 DEF Memory
<1>9. o \in Hist(rule)
  BY <1>1, <1>4
<1> QED
  BY <1>2, <1>3, <1>6, <1>7, <1>8, <1>9, RulesStep

(* Weather warnings.                                                          *)
LEMMA RulesKNMI ==
  ASSUME RulesInv, Rules!KNMI
  PROVE  RulesInv'
<1>1. rule = "knmi"
  BY DEF Rules!KNMI
<1> DEFINE Says(o) == Rules!knmiSummary(o) >= 2 /\ Rules!knmiSummary(o) > level
<1>2. PICK o \in Rules!Findings("knmi") :
        /\ init' = TRUE /\ rule' = rule
        /\ obs' = Append(obs, o) /\ told' = Append(told, init /\ Says(o))
        /\ level' = Rules!knmiSummary(o) /\ keys' = keys
  BY DEF Rules!KNMI, Rules!Run, Rules!Remember
<1>3. RulesTyped /\ Rules!AsTheHistorySays /\ MemKNMI(level, obs)
  BY <1>1 DEF RulesInv, Memory
<1>4. /\ obs \in Seq(Hist("knmi")) /\ o \in Hist("knmi") /\ init \in BOOLEAN
      /\ init <=> Len(obs) > 0
  BY <1>1, <1>3 DEF RulesTyped, Hist
<1>5. /\ (Len(obs) > 0 /\ Says(o)) <=> Rules!CalledFor("knmi", Append(obs, o), Len(obs) + 1)
      /\ MemKNMI(level', Append(obs, o))
  BY <1>2, <1>3, <1>4, StepKNMI DEF Rules!Findings
<1>6. (init /\ Says(o)) \in BOOLEAN
  OBVIOUS
<1>7. (init /\ Says(o)) <=> Rules!CalledFor(rule, Append(obs, o), Len(obs) + 1)
  BY <1>1, <1>4, <1>5
<1>8. Memory(rule, level', keys', Append(obs, o))
  BY <1>1, <1>5 DEF Memory
<1>9. o \in Hist(rule)
  BY <1>1, <1>4
<1> QED
  BY <1>2, <1>3, <1>6, <1>7, <1>8, <1>9, RulesStep

(* Alarmeringen.                                                              *)
LEMMA RulesAlarm ==
  ASSUME RulesInv, Rules!alarmWatchPush
  PROVE  RulesInv'
<1>1. rule = "alarm"
  BY DEF Rules!alarmWatchPush
<1> DEFINE Says(o) == Rules!Event \notin keys /\ Rules!matchAlarms(o)
<1>2. PICK o \in Rules!Findings("alarm") :
        /\ init' = TRUE /\ rule' = rule
        /\ obs' = Append(obs, o) /\ told' = Append(told, init /\ Says(o))
        /\ keys' = keys \union {e \in {Rules!Event} : Rules!matchAlarms(o)} /\ level' = level
  BY DEF Rules!alarmWatchPush, Rules!Run, Rules!Remember
<1>3. RulesTyped /\ Rules!AsTheHistorySays /\ MemAlarm(keys, obs)
  BY <1>1 DEF RulesInv, Memory
<1>4. /\ obs \in Seq(Hist("alarm")) /\ o \in Hist("alarm") /\ init \in BOOLEAN
      /\ init <=> Len(obs) > 0
  BY <1>1, <1>3 DEF RulesTyped, Hist
<1>5. /\ (Len(obs) > 0 /\ Says(o)) <=> Rules!CalledFor("alarm", Append(obs, o), Len(obs) + 1)
      /\ MemAlarm(keys', Append(obs, o))
  BY <1>2, <1>3, <1>4, StepAlarm
<1>6. (init /\ Says(o)) \in BOOLEAN
  OBVIOUS
<1>7. (init /\ Says(o)) <=> Rules!CalledFor(rule, Append(obs, o), Len(obs) + 1)
  BY <1>1, <1>4, <1>5
<1>8. Memory(rule, level', keys', Append(obs, o))
  BY <1>1, <1>5 DEF Memory
<1>9. o \in Hist(rule)
  BY <1>1, <1>4
<1> QED
  BY <1>2, <1>3, <1>6, <1>7, <1>8, <1>9, RulesStep

(* Stories.                                                                   *)
LEMMA RulesStory ==
  ASSUME RulesInv, Rules!breakingPush
  PROVE  RulesInv'
<1>1. rule = "story"
  BY DEF Rules!breakingPush
<1> DEFINE Says(o) == Rules!Big(o) /\ Rules!StoryKeys(o) \intersect keys = {} /\ Rules!Timely(o)
<1>2. PICK o \in Rules!Findings("story") :
        /\ init' = TRUE /\ rule' = rule
        /\ obs' = Append(obs, o) /\ told' = Append(told, init /\ Says(o))
        /\ keys' = keys \union (IF Rules!Big(o) THEN Rules!StoryKeys(o) ELSE {}) /\ level' = level
  BY DEF Rules!breakingPush, Rules!Run, Rules!Remember
<1>3. RulesTyped /\ Rules!AsTheHistorySays /\ MemStory(keys, obs)
  BY <1>1 DEF RulesInv, Memory
<1>4. /\ obs \in Seq(Hist("story")) /\ o \in Hist("story") /\ init \in BOOLEAN
      /\ init <=> Len(obs) > 0
  BY <1>1, <1>3 DEF RulesTyped, Hist
<1>5. /\ (Len(obs) > 0 /\ Says(o)) <=> Rules!CalledFor("story", Append(obs, o), Len(obs) + 1)
      /\ MemStory(keys', Append(obs, o))
  BY <1>2, <1>3, <1>4, StepStory
<1>6. (init /\ Says(o)) \in BOOLEAN
  OBVIOUS
<1>7. (init /\ Says(o)) <=> Rules!CalledFor(rule, Append(obs, o), Len(obs) + 1)
  BY <1>1, <1>4, <1>5
<1>8. Memory(rule, level', keys', Append(obs, o))
  BY <1>1, <1>5 DEF Memory
<1>9. o \in Hist(rule)
  BY <1>1, <1>4
<1> QED
  BY <1>2, <1>3, <1>6, <1>7, <1>8, <1>9, RulesStep

(* The waste reminder.                                                        *)
LEMMA RulesWaste ==
  ASSUME RulesInv, Rules!Waste
  PROVE  RulesInv'
<1>1. rule = "waste"
  BY DEF Rules!Waste
<1>2. PICK o \in Rules!Findings("waste") :
        /\ Rules!InOrder(o) /\ init' = TRUE /\ rule' = rule
        /\ obs' = Append(obs, o) /\ told' = Append(told, o.hour = WasteHour /\ level # o.day)
        /\ level' = (IF o.hour = WasteHour /\ level # o.day THEN o.day ELSE level)
  BY DEF Rules!Waste
<1>3. /\ RulesTyped /\ Rules!AsTheHistorySays /\ MemWaste(level, obs)
      /\ \A j \in 1 .. Len(obs) : obs[j] # None
  BY <1>1 DEF RulesInv, Memory
<1>4. obs \in Seq(Hist("waste")) /\ o \in Hist("waste")
  BY <1>1, <1>3 DEF RulesTyped, Hist
<1>5. \A j \in 1 .. Len(obs) : obs[j].day < o.day \/ (obs[j].day = o.day /\ obs[j].hour <= o.hour)
  <2>1. \A j \in 1 .. Len(obs) : obs[j] \in Rules!Range(obs)
    BY <1>4 DEF Rules!Range
  <2> QED
    BY <1>2, <2>1 DEF Rules!InOrder
<1>6. /\ (o.hour = WasteHour /\ level # o.day) <=> Rules!CalledFor("waste", Append(obs, o), Len(obs) + 1)
      /\ MemWaste(IF o.hour = WasteHour /\ level # o.day THEN o.day ELSE level, Append(obs, o))
      /\ \A j \in 1 .. Len(obs) + 1 : Append(obs, o)[j] # None
  BY <1>3, <1>4, <1>5, StepWaste
<1>7. (o.hour = WasteHour /\ level # o.day) \in BOOLEAN
  OBVIOUS
<1>8. (o.hour = WasteHour /\ level # o.day) <=> Rules!CalledFor(rule, Append(obs, o), Len(obs) + 1)
  BY <1>1, <1>6
<1>9. Len(Append(obs, o)) = Len(obs) + 1
  BY <1>4, AppendFacts
<1>10. Memory(rule, level', keys', Append(obs, o))
  BY <1>1, <1>2, <1>6, <1>9 DEF Memory
<1>11. o \in Hist(rule)
  BY <1>1, <1>4
<1> QED
  BY <1>2, <1>3, <1>7, <1>8, <1>10, <1>11, RulesStep

(* The invariant holds when the server starts.                                *)
LEMMA RulesInit ==
  ASSUME Rules!Init
  PROVE  RulesInv
<1>1. /\ rule \in Rules!Rules /\ init = FALSE /\ level = 0 /\ keys = {} /\ obs = <<>> /\ told = <<>>
  BY DEF Rules!Init
<1>2. Len(obs) = 0 /\ 1 .. Len(obs) = {} /\ 1 .. Len(obs) + 1 - 1 = {} /\ DOMAIN told = {}
  BY <1>1
<1>3. RulesTyped
  <2>1. <<>> \in Seq(Hist(rule)) /\ <<>> \in Seq(BOOLEAN) /\ Len(told) = Len(obs)
    BY <1>1
  <2>2. init <=> Len(obs) > 0
    BY <1>1, <1>2
  <2> QED
    BY <1>1, <2>1, <2>2 DEF RulesTyped
<1>4. Rules!AsTheHistorySays
  BY <1>2 DEF Rules!AsTheHistorySays
<1>5. LastFetched(obs, Len(obs) + 1) = {} /\ LastMeasured(obs, Len(obs) + 1) = {}
  BY <1>2 DEF LastFetched, LastMeasured
<1>6. Memory(rule, level, keys, obs)
  BY <1>1, <1>2, <1>5 DEF Memory, MemNCTV, MemListed, MemAmber, MemRadiation, MemWater, MemKNMI,
     MemAlarm, MemStory, MemWaste
<1> QED
  BY <1>3, <1>4, <1>6 DEF RulesInv

(* A run of the watcher tells a change since the last run, once, and nothing  *)
(* else: for each of its ten rules (push.go runPushWatch).                    *)
THEOREM SaysWhatChanged == MCSpec => []AsTheHistorySays
<1>1. MCInit => RulesInv
  BY RulesInit DEF MCInit
<1>2. RulesInv /\ [MCNext]_<<vars, others>> => RulesInv'
  <2> SUFFICES ASSUME RulesInv, [MCNext]_<<vars, others>> PROVE RulesInv'
    OBVIOUS
  <2>1. CASE Rules!Next
    BY <2>1, RulesMissed, RulesNCTV, RulesNLAlert, RulesAmber, RulesRadiation, RulesWater,
       RulesQuake, RulesKNMI, RulesAlarm, RulesStory, RulesWaste DEF Rules!Next
  <2>2. CASE UNCHANGED rules
    BY <2>2 DEF rules, RulesInv, RulesTyped, Rules!AsTheHistorySays
  <2> QED
    BY <2>1, <2>2 DEF MCNext, others
<1>3. RulesInv => AsTheHistorySays
  BY DEF RulesInv, AsTheHistorySays
<1> QED
  BY <1>1, <1>2, <1>3, PTL DEF MCSpec

------------------------------------------------------------------------------
(* The bridges (BridgeStore). What a code stands for: the bridge of the list  *)
(* at its place, or itself.                                                   *)
Stands(c) == IF \E i \in 1 .. fisN : all[i] = Near[c] THEN Near[c] ELSE c

(* A table of bridges in order: the bridges of the list come first, then the  *)
(* codes with no bridge at their place; byID has the place of each, and       *)
(* ndwIdx that of what a code stands for.                                     *)
TableSound(t) ==
  /\ t.all \in Seq(Bridges!Ids) /\ fisN \in 0 .. Len(t.all)
  /\ \A i \in 1 .. fisN : t.all[i] = all[i] /\ t.all[i] \in FIS
  /\ \A i \in 1 .. Len(t.all) : i > fisN => t.all[i] \in ISRS /\ Stands(t.all[i]) = t.all[i]
  /\ DOMAIN t.byID \subseteq Bridges!Ids /\ DOMAIN t.ndwIdx \subseteq ISRS
  /\ \A b \in DOMAIN t.byID : t.byID[b] \in 1 .. Len(t.all) /\ t.all[t.byID[b]] = b
  /\ \A i \in 1 .. Len(t.all) : t.all[i] \in DOMAIN t.byID /\ t.byID[t.all[i]] = i
  /\ \A c \in DOMAIN t.ndwIdx :
       t.ndwIdx[c] \in 1 .. Len(t.all) /\ t.all[t.ndwIdx[c]] = Stands(c)

(* What is assumed of the constants of the bridges.                           *)
LEMMA BridgeConstants == Bridges!BridgeStoreAssumption
BY StoresAssumption

(* A set in some order: each of its elements once.                            *)
LEMMA InOrder ==
  ASSUME NEW S, IsFiniteSet(S)
  PROVE  \E n \in Nat :
           /\ Bridges!SetToSeq(S) \in [1 .. n -> S]
           /\ \A i, j \in 1 .. n : Bridges!SetToSeq(S)[i] = Bridges!SetToSeq(S)[j] => i = j
           /\ \A x \in S : \E i \in 1 .. n : Bridges!SetToSeq(S)[i] = x
<1> DEFINE n == Cardinality(S)
           s == Bridges!SetToSeq(S)
<1>1. n \in Nat /\ ExistsBijection(1 .. n, S)
  BY FS_CardinalityType
<1>2. \E f \in [1 .. n -> S] : \A a, b \in DOMAIN f : f[a] = f[b] => a = b
  BY <1>1 DEF ExistsBijection, Bijection, Injection, IsInjective
<1>3. s = CHOOSE f \in [1 .. n -> S] : \A a, b \in DOMAIN f : f[a] = f[b] => a = b
  BY DEF Bridges!SetToSeq, Bridges!IsInjective, Bridges!Cardinality, Cardinality
<1>4. s \in [1 .. n -> S] /\ \A a, b \in DOMAIN s : s[a] = s[b] => a = b
  BY <1>2, <1>3
<1>5. s \in Injection(1 .. n, S)
  BY <1>4 DEF Injection, IsInjective
<1>6. IsFiniteSet(1 .. n) /\ Cardinality(1 .. n) = n
  BY <1>1, FS_Interval
<1>7. s \in Surjection(1 .. n, S)
  BY <1>5, <1>6, FS_Injection
<1> QED
  BY <1>1, <1>4, <1>7 DEF Surjection

(* Where a code is looked up: at what it stands for, or, when nobody knows    *)
(* it, past the end.                                                          *)
LEMMA IndexFacts ==
  ASSUME NEW t, TableSound(t), NEW c \in ISRS
  PROVE  \/ /\ Bridges!IndexIn(t, c) \in 1 .. Len(t.all)
            /\ t.all[Bridges!IndexIn(t, c)] = Stands(c)
         \/ /\ Bridges!IndexIn(t, c) = Len(t.all) + 1
            /\ c \notin DOMAIN t.byID /\ c \notin DOMAIN t.ndwIdx /\ Stands(c) = c
<1> USE DEF TableSound
<1>0. Len(t.all) \in Nat
  OBVIOUS
<1>1. CASE c \in DOMAIN t.ndwIdx
  <2>1. Bridges!IndexIn(t, c) = t.ndwIdx[c]
    BY <1>1 DEF Bridges!IndexIn
  <2> QED
    BY <1>1, <2>1
<1>2. CASE c \notin DOMAIN t.ndwIdx /\ Bridges!NearestFIS(c) # {}
  <2> DEFINE i == CHOOSE j \in Bridges!NearestFIS(c) : TRUE
  <2>1. Bridges!IndexIn(t, c) = i
    BY <1>2 DEF Bridges!IndexIn
  <2>2. i \in Bridges!NearestFIS(c)
    BY <1>2
  <2> HIDE DEF i
  <2>3. i \in 1 .. fisN /\ all[i] = Near[c]
    BY <2>2 DEF Bridges!NearestFIS
  <2>4. i \in 1 .. Len(t.all) /\ t.all[i] = Near[c] /\ Stands(c) = Near[c]
    BY <1>0, <2>3 DEF Stands
  <2> QED
    BY <2>1, <2>4
<1>3. CASE c \notin DOMAIN t.ndwIdx /\ Bridges!NearestFIS(c) = {}
  <2>1. Stands(c) = c
    BY <1>3 DEF Stands, Bridges!NearestFIS
  <2>2. Bridges!IndexIn(t, c) = IF c \in DOMAIN t.byID THEN t.byID[c] ELSE Len(t.all) + 1
    BY <1>3 DEF Bridges!IndexIn
  <2> QED
    BY <1>3, <2>1, <2>2
<1> QED
  BY <1>1, <1>2, <1>3

(* A code whose bridge is in the table is found.                              *)
LEMMA IndexFound ==
  ASSUME NEW t, TableSound(t), NEW c \in ISRS, Stands(c) \in DOMAIN t.byID
  PROVE  /\ Bridges!IndexIn(t, c) \in 1 .. Len(t.all)
         /\ t.all[Bridges!IndexIn(t, c)] = Stands(c)
BY IndexFacts

(* One sequence after the other.                                              *)
LEMMA Joined ==
  ASSUME NEW S, NEW s \in Seq(S), NEW r \in Seq(S)
  PROVE  /\ s \o r \in Seq(S) /\ Len(s \o r) = Len(s) + Len(r)
         /\ \A i \in 1 .. Len(s) : (s \o r)[i] = s[i]
         /\ \A i \in 1 .. Len(r) : (s \o r)[Len(s) + i] = r[i]
OBVIOUS

(* idx for any records: the table stays sound, what was in it stays where it  *)
(* was, and every code is known.                                              *)
LEMMA IdxFacts ==
  ASSUME NEW t, TableSound(t), NEW codes \in SUBSET ISRS,
         NEW u, u = Bridges!idxAll(t, codes)
  PROVE  /\ TableSound(u)
         /\ DOMAIN t.byID \subseteq DOMAIN u.byID
         /\ \A c \in codes : Stands(c) \in DOMAIN u.byID
<1> DEFINE new   == {c \in codes : Bridges!IndexIn(t, c) > Len(t.all)}
           order == Bridges!SetToSeq(new)
           L     == Len(t.all)
           At(c) == IF c \in new THEN L + (CHOOSE i \in DOMAIN order : order[i] = c)
                    ELSE Bridges!IndexIn(t, c)
<1>1. /\ u.all = t.all \o order
      /\ u.byID = [b \in DOMAIN t.byID \union new |-> IF b \in new THEN At(b) ELSE t.byID[b]]
      /\ u.ndwIdx = IF fisN > 0 THEN [c \in DOMAIN t.ndwIdx \union codes |-> At(c)] ELSE t.ndwIdx
  BY DEF Bridges!idxAll
<1>2. L \in Nat /\ t.all \in Seq(Bridges!Ids) /\ fisN \in 0 .. L
  BY DEF TableSound
<1>3. \A c \in ISRS :
        \/ Bridges!IndexIn(t, c) \in 1 .. L /\ t.all[Bridges!IndexIn(t, c)] = Stands(c)
        \/ /\ Bridges!IndexIn(t, c) = L + 1
           /\ c \notin DOMAIN t.byID /\ c \notin DOMAIN t.ndwIdx /\ Stands(c) = c
  BY IndexFacts
<1>4. \A c \in new : c \in ISRS /\ c \notin DOMAIN t.byID /\ c \notin DOMAIN t.ndwIdx /\ Stands(c) = c
  BY <1>2, <1>3
<1>5. \A c \in ISRS : (c \in codes /\ c \notin new) \/ c \in DOMAIN t.ndwIdx =>
        Bridges!IndexIn(t, c) \in 1 .. L /\ t.all[Bridges!IndexIn(t, c)] = Stands(c)
  BY <1>2, <1>3
<1>6. IsFiniteSet(new)
  <2>1. IsFiniteSet(ISRS)
    BY BridgeConstants DEF Bridges!BridgeStoreAssumption, Bridges!IsFiniteSet, IsFiniteSet
  <2>2. new \in SUBSET ISRS
    OBVIOUS
  <2> HIDE DEF new
  <2> QED
    BY <2>1, <2>2, FS_Subset
<1>7. PICK n \in Nat :
           /\ order \in [1 .. n -> new]
           /\ \A i, j \in 1 .. n : order[i] = order[j] => i = j
           /\ \A x \in new : \E i \in 1 .. n : order[i] = x
  BY <1>6, InOrder
<1> HIDE DEF order, new
<1>8. order \in Seq(new) /\ Len(order) = n /\ DOMAIN order = 1 .. n
  BY <1>7
<1>9. /\ u.all \in Seq(Bridges!Ids) /\ Len(u.all) = L + n
      /\ \A i \in 1 .. L : u.all[i] = t.all[i]
      /\ \A i \in 1 .. n : u.all[L + i] = order[i]
  <2>1. new \subseteq Bridges!Ids
    BY <1>4 DEF Bridges!Ids
  <2>2. order \in Seq(Bridges!Ids)
    BY <1>8, <2>1
  <2>3. /\ t.all \o order \in Seq(Bridges!Ids) /\ Len(t.all \o order) = L + Len(order)
        /\ \A i \in 1 .. L : (t.all \o order)[i] = t.all[i]
        /\ \A i \in 1 .. Len(order) : (t.all \o order)[L + i] = order[i]
    BY <1>2, <2>2, Joined
  <2> QED
    BY <1>1, <1>8, <2>3
<1>10. \A c \in new : At(c) \in (L + 1) .. (L + n) /\ u.all[At(c)] = c
  <2> SUFFICES ASSUME NEW c \in new PROVE At(c) \in (L + 1) .. (L + n) /\ u.all[At(c)] = c
    OBVIOUS
  <2> DEFINE k == CHOOSE i \in DOMAIN order : order[i] = c
  <2>1. k \in 1 .. n /\ order[k] = c
    BY <1>7, <1>8
  <2>2. At(c) = L + k
    OBVIOUS
  <2> HIDE DEF k, At
  <2> QED
    BY <1>2, <1>9, <2>1, <2>2
<1>11. \A c : c \notin new => At(c) = Bridges!IndexIn(t, c)
  OBVIOUS
<1> HIDE DEF At
<1>12. DOMAIN u.byID = DOMAIN t.byID \union new
  BY <1>1
<1>13. \A b \in DOMAIN u.byID : u.byID[b] = IF b \in new THEN At(b) ELSE t.byID[b]
  BY <1>1
<1>14. \A i \in 1 .. fisN : u.all[i] = all[i] /\ u.all[i] \in FIS
  BY <1>2, <1>9, SMTT(30) DEF TableSound
<1>15. \A i \in 1 .. (L + n) : i \in 1 .. L \/ (i - L \in 1 .. n /\ u.all[i] = order[i - L] /\ order[i - L] \in new)
  BY <1>2, <1>7, <1>9, SMTT(30)
<1>16. \A i \in 1 .. (L + n) : i > fisN => u.all[i] \in ISRS /\ Stands(u.all[i]) = u.all[i]
  BY <1>2, <1>4, <1>9, <1>15 DEF TableSound
<1>17. DOMAIN u.byID \subseteq Bridges!Ids
  BY <1>4, <1>12 DEF TableSound, Bridges!Ids
<1>18. \A b \in DOMAIN u.byID : u.byID[b] \in 1 .. (L + n) /\ u.all[u.byID[b]] = b
  <2> SUFFICES ASSUME NEW b \in DOMAIN u.byID
               PROVE  u.byID[b] \in 1 .. (L + n) /\ u.all[u.byID[b]] = b
    OBVIOUS
  <2>1. CASE b \in new
    BY <1>2, <1>10, <1>13, <2>1
  <2>2. CASE b \notin new
    <3>1. b \in DOMAIN t.byID /\ u.byID[b] = t.byID[b]
      BY <1>12, <1>13, <2>2
    <3>2. t.byID[b] \in 1 .. L /\ t.all[t.byID[b]] = b
      BY <3>1 DEF TableSound
    <3> QED
      BY <1>2, <1>9, <3>1, <3>2
  <2> QED
    BY <2>1, <2>2
<1>19. \A i \in 1 .. (L + n) : u.all[i] \in DOMAIN u.byID /\ u.byID[u.all[i]] = i
  <2> SUFFICES ASSUME NEW i \in 1 .. (L + n)
               PROVE  u.all[i] \in DOMAIN u.byID /\ u.byID[u.all[i]] = i
    OBVIOUS
  <2>1. CASE i \in 1 .. L
    <3>1. t.all[i] \in DOMAIN t.byID /\ t.byID[t.all[i]] = i
      BY <2>1 DEF TableSound
    <3>2. t.all[i] \notin new
      BY <1>4, <3>1
    <3> QED
      BY <1>9, <1>12, <1>13, <2>1, <3>1, <3>2
  <2>2. CASE i \notin 1 .. L
    <3>1. u.all[i] = order[i - L] /\ i - L \in 1 .. n /\ order[i - L] \in new
      BY <1>15, <2>2
    <3>2. u.byID[u.all[i]] = At(u.all[i])
      BY <1>12, <1>13, <3>1
    <3>3. At(u.all[i]) \in (L + 1) .. (L + n) /\ u.all[At(u.all[i])] = u.all[i]
      BY <1>10, <3>1
    <3>4. \A k \in 1 .. (L + n) : u.all[k] = u.all[i] /\ k > L => k = i
      <4> SUFFICES ASSUME NEW k \in 1 .. (L + n), u.all[k] = u.all[i], k > L PROVE k = i
        OBVIOUS
      <4>1. k - L \in 1 .. n /\ u.all[k] = order[k - L]
        BY <1>2, <1>15
      <4>2. k - L = i - L
        BY <1>7, <3>1, <4>1
      <4> QED
        BY <1>2, <4>2
    <3> QED
      BY <1>2, <1>12, <3>1, <3>2, <3>3, <3>4
  <2> QED
    BY <2>1, <2>2
<1>20. /\ DOMAIN u.ndwIdx \subseteq ISRS
       /\ \A c \in DOMAIN u.ndwIdx : u.ndwIdx[c] \in 1 .. (L + n) /\ u.all[u.ndwIdx[c]] = Stands(c)
  <2>1. CASE fisN > 0
    <3>1. /\ DOMAIN u.ndwIdx = DOMAIN t.ndwIdx \union codes
          /\ \A c \in DOMAIN u.ndwIdx : u.ndwIdx[c] = At(c)
      BY <1>1, <2>1
    <3>2. DOMAIN u.ndwIdx \subseteq ISRS
      BY <3>1 DEF TableSound
    <3>3. ASSUME NEW c \in DOMAIN u.ndwIdx
          PROVE  At(c) \in 1 .. (L + n) /\ u.all[At(c)] = Stands(c)
      <4>1. CASE c \in new
        BY <1>2, <1>4, <1>10, <4>1
      <4>2. CASE c \notin new
        <5>1. At(c) \in 1 .. L /\ t.all[At(c)] = Stands(c)
          BY <1>5, <1>11, <3>1, <3>2, <4>2
        <5> QED
          BY <1>2, <1>9, <5>1
      <4> QED
        BY <4>1, <4>2
    <3> QED
      BY <3>1, <3>2, <3>3
  <2>2. CASE ~ (fisN > 0)
    <3>1. u.ndwIdx = t.ndwIdx
      BY <1>1, <2>2
    <3>2. \A c \in DOMAIN t.ndwIdx : t.ndwIdx[c] \in 1 .. L /\ t.all[t.ndwIdx[c]] = Stands(c)
      BY DEF TableSound
    <3> QED
      BY <1>2, <1>9, <3>1, <3>2 DEF TableSound
  <2> QED
    BY <2>1, <2>2
<1>21. TableSound(u)
  <2>1. fisN \in 0 .. Len(u.all)
    BY <1>2, <1>9
  <2> QED
    BY <1>9, <1>14, <1>16, <1>17, <1>18, <1>19, <1>20, <2>1 DEF TableSound
<1>22. \A c \in codes : Stands(c) \in DOMAIN u.byID
  <2> SUFFICES ASSUME NEW c \in codes PROVE Stands(c) \in DOMAIN u.byID
    OBVIOUS
  <2>1. CASE c \in new
    BY <1>4, <1>12, <2>1
  <2>2. CASE c \notin new
    <3>1. Bridges!IndexIn(t, c) \in 1 .. L /\ t.all[Bridges!IndexIn(t, c)] = Stands(c)
      BY <1>5, <2>2
    <3> QED
      BY <1>12, <3>1 DEF TableSound
  <2> QED
    BY <2>1, <2>2
<1> QED
  BY <1>12, <1>21, <1>22

(* The times in memory and in the file.                                       *)
Times(f) == DOMAIN f \subseteq Bridges!Ids /\ \A b \in DOMAIN f : f[b] \in 0 .. bNow

BridgeTimes ==
  /\ Times(seen) /\ Times(bSince) /\ Times(bDisk)
  /\ DOMAIN bSince = DOMAIN seen /\ bDirty \in BOOLEAN /\ missed \in BOOLEAN

(* What a restart would find of a bridge: unless the file is still to be      *)
(* written, or could not be, a report of it that is no older than when NDW    *)
(* began to report it every day.                                              *)
InFile ==
  \A b \in DOMAIN seen :
    /\ bSince[b] <= seen[b]
    /\ bDirty \/ missed \/ (b \in DOMAIN bDisk /\ bSince[b] <= bDisk[b])

(* The invariant of the bridges: the types, the table of the list and its     *)
(* indexes is in order, whatever list came in and whoever looked bridges up,  *)
(* and the file has what it must.                                             *)
BridgeInv == Bridges!TypeOK /\ TableSound(Bridges!Table) /\ InFile

(* The types of the times are part of those of the bridges.                   *)
LEMMA TimesTyped ==
  ASSUME Bridges!TypeOK
  PROVE  BridgeTimes
<1>1. \A f \in {seen, bSince, bDisk} : Times(f)
  BY DEF Bridges!TypeOK, Times
<1> QED
  BY <1>1 DEF Bridges!TypeOK, BridgeTimes

(* A table that takes the place of the other one is in order as it was.       *)
LEMMA TableTaken ==
  ASSUME NEW u, TableSound(u), Bridges!SetTable(u), fisN' = fisN
  PROVE  TableSound(Bridges!Table)'
<1>1. all' = u.all /\ byID' = u.byID /\ ndwIdx' = u.ndwIdx
  BY DEF Bridges!SetTable
<1>2. \A c : Stands(c)' = Stands(c)
  <2> SUFFICES ASSUME NEW c PROVE Stands(c)' = Stands(c)
    OBVIOUS
  <2>1. \A i \in 1 .. fisN : all'[i] = all[i]
    BY <1>1 DEF TableSound
  <2>2. (\E i \in 1 .. fisN : all'[i] = Near[c]) <=> (\E i \in 1 .. fisN : all[i] = Near[c])
    BY <2>1
  <2> QED
    BY <2>2 DEF Stands
<1>3. Bridges!Table' = [all |-> u.all, byID |-> u.byID, ndwIdx |-> u.ndwIdx]
  BY <1>1 DEF Bridges!Table
<1>4. \A i \in 1 .. Len(u.all) : i > fisN => Stands(u.all[i])' = u.all[i]
  BY <1>1, <1>2 DEF TableSound
<1>5. \A c \in DOMAIN u.ndwIdx : u.all[u.ndwIdx[c]] = Stands(c)'
  BY <1>1, <1>2 DEF TableSound
<1> QED
  BY <1>1, <1>3, <1>4, <1>5 DEF TableSound

(* What the types say of the table follows from its order.                    *)
LEMMA TableTyped ==
  ASSUME TableSound(Bridges!Table)'
  PROVE  /\ all' \in Seq(Bridges!Ids) /\ fisN' \in 0 .. Len(all')
         /\ DOMAIN byID' \subseteq Bridges!Ids /\ DOMAIN ndwIdx' \subseteq ISRS
BY DEF TableSound, Bridges!Table

(* A report of openings: the table takes up its codes, no bridge is           *)
(* forgotten, and what the file must have it has or is to be given.           *)
LEMMA Marked ==
  ASSUME BridgeInv, NEW recs \in SUBSET Bridges!Recs, Bridges!markSeen(recs),
         UNCHANGED <<bNow, fisN, bDisk, missed>>
  PROVE  /\ TableSound(Bridges!Table)' /\ BridgeTimes' /\ InFile'
         /\ DOMAIN seen \subseteq DOMAIN seen'
<1> DEFINE codes == Bridges!CodesOf(recs)
           u     == Bridges!idxAll(Bridges!Table, codes)
           ids   == Bridges!Reported(recs)
<1>1. /\ Bridges!SetTable(u)
      /\ seen'  = [b \in DOMAIN seen \union ids |-> IF b \in ids THEN bNow ELSE seen[b]]
      /\ bSince' = [b \in DOMAIN seen \union ids |->
                     IF b \in ids /\ ~Bridges!Lately(b) THEN bNow ELSE bSince[b]]
      /\ bDirty' = (bDirty \/ \E b \in ids : ~Bridges!Lately(b))
  BY DEF Bridges!markSeen, Bridges!Note
<1>2. codes \in SUBSET ISRS
  BY DEF Bridges!CodesOf, Bridges!Recs
<1>3. ids = {u.all[Bridges!IndexIn(u, c)] : c \in codes}
  BY DEF Bridges!Reported
<1> HIDE DEF codes, ids
<1>4. /\ TableSound(u) /\ \A c \in codes : Stands(c) \in DOMAIN u.byID
  BY <1>2, IdxFacts DEF BridgeInv
<1> HIDE DEF u
<1>5. \A c \in codes : u.all[Bridges!IndexIn(u, c)] = Stands(c)
  BY <1>2, <1>4, IndexFound
<1>6. ids \subseteq Bridges!Ids
  BY <1>3, <1>4, <1>5 DEF TableSound
<1>7. BridgeTimes /\ InFile /\ bNow \in Nat
  BY BridgeConstants, TimesTyped DEF BridgeInv, Bridges!TypeOK, Bridges!BridgeStoreAssumption
<1>8. \A b : Bridges!Lately(b) => b \in DOMAIN seen
  BY DEF Bridges!Lately
<1>9. /\ DOMAIN seen' = DOMAIN seen \union ids /\ DOMAIN bSince' = DOMAIN seen \union ids
      /\ \A b \in DOMAIN seen \union ids :
           /\ seen'[b] = IF b \in ids THEN bNow ELSE seen[b]
           /\ bSince'[b] = IF b \in ids /\ ~Bridges!Lately(b) THEN bNow ELSE bSince[b]
  BY <1>1
<1>10. ASSUME NEW b \in DOMAIN seen \union ids
       PROVE  seen'[b] \in 0 .. bNow /\ bSince'[b] \in 0 .. bNow /\ bSince'[b] <= seen'[b]
  <2>1. CASE b \in DOMAIN seen
    <3>1. seen[b] \in 0 .. bNow /\ bSince[b] \in 0 .. bNow /\ bSince[b] <= seen[b]
      BY <1>7, <2>1 DEF BridgeTimes, Times, InFile
    <3> QED
      BY <1>7, <1>9, <3>1
  <2>2. CASE b \notin DOMAIN seen
    <3>1. seen'[b] = bNow /\ bSince'[b] = bNow
      BY <1>8, <1>9, <2>2
    <3> QED
      BY <1>7, <3>1
  <2> QED
    BY <2>1, <2>2
<1>11. Bridges!Ids' = Bridges!Ids /\ bNow' = bNow /\ bDisk' = bDisk /\ missed' = missed
  BY DEF Bridges!Ids
<1>12. BridgeTimes'
  <2>1. bDirty' \in BOOLEAN
    BY <1>1, <1>7 DEF BridgeTimes
  <2>2. Times(seen)' /\ Times(bSince)'
    BY <1>6, <1>7, <1>9, <1>10, <1>11 DEF Times, BridgeTimes
  <2>3. Times(bDisk)' /\ missed' \in BOOLEAN
    BY <1>7, <1>11 DEF Times, BridgeTimes
  <2> QED
    BY <1>9, <2>1, <2>2, <2>3 DEF BridgeTimes
<1>13. ASSUME NEW b \in DOMAIN seen', ~bDirty', ~missed'
       PROVE  b \in DOMAIN bDisk' /\ bSince'[b] <= bDisk'[b]
  <2>1. ~bDirty /\ ~missed /\ \A c \in ids : Bridges!Lately(c)
    <3>1. ~ (bDirty \/ \E c \in ids : ~Bridges!Lately(c))
      BY <1>1, <1>13, Zenon
    <3>2. ~missed
      <4>1. missed' = missed /\ ~missed'
        BY <1>11, <1>13
      <4> QED
        BY <4>1
    <3> QED
      BY <3>1, <3>2, Zenon
  <2>2. b \in DOMAIN seen /\ bSince'[b] = bSince[b]
    BY <1>8, <1>9, <1>13, <2>1
  <2> QED
    BY <1>7, <1>11, <2>1, <2>2 DEF InFile
<1>14. InFile'
  BY <1>9, <1>10, <1>13 DEF InFile
<1>15. TableSound(Bridges!Table)'
  BY <1>1, <1>4, TableTaken
<1> QED
  BY <1>9, <1>12, <1>14, <1>15

(* What the two jobs report are openings.                                     *)
LEMMA Reported ==
  ASSUME BridgeInv
  PROVE  /\ \A recs \in Bridges!OpenReports : recs \in SUBSET Bridges!Recs
         /\ \A recs \in Bridges!PlanReports : recs \in SUBSET Bridges!Recs
<1>1. bNow \in 0 .. BridgeTime /\ BridgeTime \in Nat
  BY BridgeConstants DEF BridgeInv, Bridges!TypeOK, Bridges!BridgeStoreAssumption
<1>2. /\ bNow \in 0 .. BridgeTime + 2 /\ bNow + 1 \in 0 .. BridgeTime + 2
      /\ bNow + 2 \in 0 .. BridgeTime + 2 /\ 0 \in 0 .. BridgeTime + 2
  BY <1>1
<1>3. [code : ISRS, start : {bNow}, end : {0}] \subseteq Bridges!Recs
  BY <1>2 DEF Bridges!Recs
<1>4. [code : ISRS, start : {bNow, bNow + 1}, end : {bNow + 2}] \subseteq Bridges!Recs
  BY <1>2 DEF Bridges!Recs
<1> QED
  BY <1>3, <1>4 DEF Bridges!OpenReports, Bridges!PlanReports

(* The daily list: a new table, of its bridges only.                          *)
LEMMA Listed ==
  ASSUME BridgeInv, NEW list \in FISLists, Bridges!loadFISBridges(list)
  PROVE  TableSound(Bridges!Table)'
<1>1. list \in Seq(FIS) /\ \A i, j \in DOMAIN list : list[i] = list[j] => i = j
  BY BridgeConstants DEF Bridges!BridgeStoreAssumption, Bridges!IsInjective
<1>2. /\ all' = list /\ fisN' = Len(list) /\ ndwIdx' = Bridges!Empty
      /\ byID' = [b \in Bridges!ToSet(list) |-> CHOOSE i \in DOMAIN list : list[i] = b]
  BY DEF Bridges!loadFISBridges
<1>3. DOMAIN list = 1 .. Len(list) /\ Len(list) \in Nat /\ \A i \in DOMAIN list : list[i] \in FIS
  BY <1>1
<1>4. \A b : b \in Bridges!ToSet(list) <=> \E i \in DOMAIN list : list[i] = b
  BY DEF Bridges!ToSet
<1>5. \A i \in DOMAIN list : list[i] \in DOMAIN byID' /\ byID'[list[i]] = i
  BY <1>1, <1>2, <1>4
<1>6. \A b \in DOMAIN byID' : byID'[b] \in DOMAIN list /\ list[byID'[b]] = b
  BY <1>2, <1>4
<1>7. DOMAIN byID' \subseteq Bridges!Ids /\ list \in Seq(Bridges!Ids)
  <2>1. FIS \subseteq Bridges!Ids
    BY DEF Bridges!Ids
  <2> QED
    BY <1>1, <1>2, <1>3, <1>4, <2>1
<1>8. DOMAIN ndwIdx' = {}
  BY <1>2 DEF Bridges!Empty
<1>9. Bridges!Table' = [all |-> list, byID |-> byID', ndwIdx |-> ndwIdx']
  BY <1>2 DEF Bridges!Table
<1> QED
  BY <1>2, <1>3, <1>5, <1>6, <1>7, <1>8, <1>9, SMTT(30) DEF TableSound

(* The openings that the answer is about are some of those reported.          *)
LEMMA ShownFacts ==
  ASSUME BridgeInv
  PROVE  /\ Bridges!CodesOf(Bridges!ShownOpen) \in SUBSET ISRS
         /\ Bridges!CodesOf(Bridges!ShownPlans) \in SUBSET ISRS
BY DEF BridgeInv, Bridges!TypeOK, Bridges!CodesOf, Bridges!ShownOpen, Bridges!ShownPlans, Bridges!Recs

(* The table after a snapshot: in order, what was in it stays, and what the   *)
(* answer is about is in it.                                                  *)
LEMMA AfterFacts ==
  ASSUME BridgeInv
  PROVE  /\ TableSound(Bridges!After)
         /\ DOMAIN byID \subseteq DOMAIN Bridges!After.byID
         /\ \A c \in Bridges!CodesOf(Bridges!ShownOpen) \union Bridges!CodesOf(Bridges!ShownPlans) :
              Stands(c) \in DOMAIN Bridges!After.byID
<1> DEFINE c1 == Bridges!CodesOf(Bridges!ShownOpen)
           c2 == Bridges!CodesOf(Bridges!ShownPlans)
           u  == Bridges!idxAll(Bridges!Table, c1)
           w  == Bridges!idxAll(u, c2)
<1>1. c1 \in SUBSET ISRS /\ c2 \in SUBSET ISRS
  BY ShownFacts
<1>2. w = Bridges!After
  BY DEF Bridges!After
<1> HIDE DEF c1, c2
<1>3. /\ TableSound(u) /\ DOMAIN Bridges!Table.byID \subseteq DOMAIN u.byID
      /\ \A c \in c1 : Stands(c) \in DOMAIN u.byID
  BY <1>1, IdxFacts DEF BridgeInv
<1> HIDE DEF u
<1>4. /\ TableSound(w) /\ DOMAIN u.byID \subseteq DOMAIN w.byID
      /\ \A c \in c2 : Stands(c) \in DOMAIN w.byID
  BY <1>1, <1>3, IdxFacts
<1> HIDE DEF w
<1>5. Bridges!Table.byID = byID
  BY DEF Bridges!Table
<1> QED
  BY <1>2, <1>3, <1>4, <1>5 DEF c1, c2

(* A bridge is forgotten only when the file cannot have it.                   *)
Forgotten == \A b \in DOMAIN seen \ DOMAIN seen' : bDirty \/ missed \/ bNow - bSince[b] >= Keep

(* A restart: what is in the file is loaded, but for what is too old.         *)
LEMMA Restarted ==
  ASSUME BridgeInv, Bridges!Restart
  PROVE  BridgeInv' /\ Forgotten
<1>1. /\ all' = <<>> /\ fisN' = 0 /\ fisAt' = -1 /\ DOMAIN byID' = {} /\ DOMAIN ndwIdx' = {}
      /\ bDirty' = FALSE /\ open' = {} /\ openAt' = -1 /\ planned' = {}
      /\ bNow' = bNow /\ bDisk' = bDisk /\ missed' = missed
  BY DEF Bridges!Restart, Bridges!Empty, Bridges!saved
<1>2. /\ DOMAIN seen' = {b \in DOMAIN bDisk : bNow - bDisk[b] < Keep} /\ bSince' = seen'
      /\ \A b \in DOMAIN seen' : seen'[b] = bDisk[b]
  BY DEF Bridges!Restart, Bridges!Loaded, Bridges!Restrict
<1>3. BridgeTimes /\ InFile /\ bNow \in 0 .. BridgeTime /\ BridgeTime \in Nat /\ Keep \in Nat
  BY BridgeConstants, TimesTyped DEF BridgeInv, Bridges!TypeOK, Bridges!BridgeStoreAssumption
<1>4. Bridges!Ids' = Bridges!Ids
  BY DEF Bridges!Ids
<1>5. BridgeTimes'
  BY <1>1, <1>2, <1>3, <1>4 DEF BridgeTimes, Times
<1>6. InFile'
  <2> SUFFICES ASSUME NEW b \in DOMAIN seen'
               PROVE  /\ b \in DOMAIN bDisk /\ bSince'[b] = bDisk[b] /\ seen'[b] = bDisk[b]
                      /\ bDisk[b] \in 0 .. bNow
    BY <1>1, <1>3 DEF InFile
  <2> QED
    BY <1>2, <1>3 DEF BridgeTimes, Times
<1>7. Bridges!TypeOK'
  <2>1. fisAt' \in -1 .. bNow' /\ openAt' \in -1 .. bNow' /\ bNow' \in 0 .. BridgeTime
    BY <1>1, <1>3
  <2>2. all' \in Seq(Bridges!Ids) /\ fisN' \in 0 .. Len(all')
    BY <1>1
  <2> QED
    BY <1>1, <1>5, <2>1, <2>2 DEF Bridges!TypeOK, BridgeTimes, Times
<1>8. TableSound(Bridges!Table)'
  <2>1. Bridges!Table' = [all |-> <<>>, byID |-> byID', ndwIdx |-> ndwIdx']
    BY <1>1 DEF Bridges!Table
  <2> QED
    BY <1>1, <2>1 DEF TableSound
<1>9. ASSUME NEW b \in DOMAIN seen, b \notin DOMAIN seen', ~bDirty, ~missed
      PROVE  bNow - bSince[b] >= Keep
  <2>1. b \in DOMAIN bDisk /\ bSince[b] <= bDisk[b]
    BY <1>3, <1>9 DEF InFile
  <2>2. bDisk[b] \in 0 .. bNow /\ bSince[b] \in 0 .. bNow
    BY <1>3, <2>1 DEF BridgeTimes, Times
  <2>3. ~(bNow - bDisk[b] < Keep)
    BY <1>2, <1>9, <2>1
  <2> QED
    BY <1>3, <2>1, <2>2, <2>3
<1> QED
  BY <1>6, <1>7, <1>8, <1>9 DEF BridgeInv, Forgotten

(* Every step keeps the invariant, and forgets no bridge that the file has.   *)
LEMMA BridgeStep ==
  ASSUME BridgeInv, [Bridges!Next]_bridge
  PROVE  BridgeInv' /\ [Forgotten]_bridge
<1>t. /\ Bridges!TypeOK /\ TableSound(Bridges!Table) /\ InFile /\ BridgeTimes
      /\ BridgeTime \in Nat /\ Day \in Nat
  BY BridgeConstants, TimesTyped DEF BridgeInv, Bridges!BridgeStoreAssumption
<1>s. ASSUME DOMAIN seen \subseteq DOMAIN seen' PROVE Forgotten
  BY <1>s DEF Forgotten
<1>i. Bridges!Ids' = Bridges!Ids /\ Bridges!Recs' = Bridges!Recs
  BY DEF Bridges!Ids, Bridges!Recs
<1>k. ASSUME UNCHANGED <<seen, bSince, bDirty, bDisk, missed>>, bNow' = bNow
      PROVE  BridgeTimes' /\ InFile' /\ Forgotten
  BY <1>t, <1>s, <1>i, <1>k DEF BridgeTimes, Times, InFile
<1>1. ASSUME NEW recs \in Bridges!OpenReports, Bridges!setBridgesOpen(recs) PROVE BridgeInv' /\ Forgotten
  <2>1. /\ Bridges!markSeen(recs) /\ open' = recs /\ openAt' = bNow
        /\ UNCHANGED <<bNow, fisN, fisAt, bDisk, missed, planned>>
    BY <1>1 DEF Bridges!setBridgesOpen, Bridges!saved
  <2>2. recs \in SUBSET Bridges!Recs
    BY Reported
  <2>3. /\ TableSound(Bridges!Table)' /\ BridgeTimes' /\ InFile'
        /\ DOMAIN seen \subseteq DOMAIN seen'
    BY <2>1, <2>2, Marked
  <2>4. /\ all' \in Seq(Bridges!Ids) /\ fisN' \in 0 .. Len(all')
        /\ DOMAIN byID' \subseteq Bridges!Ids /\ DOMAIN ndwIdx' \subseteq ISRS
    BY <2>3, TableTyped
  <2>5. bNow' = bNow /\ fisAt' = fisAt /\ planned' = planned /\ openAt' \in -1 .. bNow
    BY <1>t, <2>1 DEF Bridges!TypeOK
  <2>6. Bridges!TypeOK'
    BY <1>t, <1>i, <2>1, <2>2, <2>3, <2>4, <2>5 DEF Bridges!TypeOK, BridgeTimes, Times
  <2> QED
    BY <1>s, <2>3, <2>6 DEF BridgeInv
<1>2. ASSUME NEW recs \in Bridges!PlanReports, Bridges!runBridgePlan(recs) PROVE BridgeInv' /\ Forgotten
  <2>1. /\ Bridges!markSeen(recs) /\ planned' = recs
        /\ UNCHANGED <<bNow, fisN, fisAt, bDisk, missed, open, openAt>>
    BY <1>2 DEF Bridges!runBridgePlan, Bridges!saved
  <2>2. recs \in SUBSET Bridges!Recs
    BY Reported
  <2>3. /\ TableSound(Bridges!Table)' /\ BridgeTimes' /\ InFile'
        /\ DOMAIN seen \subseteq DOMAIN seen'
    BY <2>1, <2>2, Marked
  <2>4. /\ all' \in Seq(Bridges!Ids) /\ fisN' \in 0 .. Len(all')
        /\ DOMAIN byID' \subseteq Bridges!Ids /\ DOMAIN ndwIdx' \subseteq ISRS
    BY <2>3, TableTyped
  <2>5. Bridges!TypeOK'
    BY <1>t, <1>i, <2>1, <2>2, <2>3, <2>4 DEF Bridges!TypeOK, BridgeTimes, Times
  <2> QED
    BY <1>s, <2>3, <2>5 DEF BridgeInv
<1>3. ASSUME NEW list \in FISLists, Bridges!loadFISBridges(list) PROVE BridgeInv' /\ Forgotten
  <2>1. fisAt' = bNow /\ UNCHANGED <<bNow, seen, bSince, bDirty, bDisk, missed, open, openAt, planned>>
    BY <1>3 DEF Bridges!loadFISBridges, Bridges!saved
  <2>2. TableSound(Bridges!Table)'
    BY <1>3, Listed
  <2>3. /\ all' \in Seq(Bridges!Ids) /\ fisN' \in 0 .. Len(all')
        /\ DOMAIN byID' \subseteq Bridges!Ids /\ DOMAIN ndwIdx' \subseteq ISRS
    BY <2>2, TableTyped
  <2>4. BridgeTimes' /\ InFile' /\ Forgotten
    BY <1>k, <2>1
  <2>5. Bridges!TypeOK'
    BY <1>t, <1>i, <2>1, <2>3, <2>4 DEF Bridges!TypeOK, BridgeTimes, Times
  <2> QED
    BY <2>2, <2>4, <2>5 DEF BridgeInv
<1>4. CASE Bridges!snapshot
  <2>1. /\ Bridges!SetTable(Bridges!After)
        /\ UNCHANGED <<bNow, fisN, fisAt, seen, bSince, bDirty, bDisk, missed, open, openAt, planned>>
    BY <1>4 DEF Bridges!snapshot, Bridges!saved
  <2>2. TableSound(Bridges!Table)'
    BY <2>1, AfterFacts, TableTaken
  <2>3. /\ all' \in Seq(Bridges!Ids) /\ fisN' \in 0 .. Len(all')
        /\ DOMAIN byID' \subseteq Bridges!Ids /\ DOMAIN ndwIdx' \subseteq ISRS
    BY <2>2, TableTyped
  <2>4. BridgeTimes' /\ InFile' /\ Forgotten
    BY <1>k, <2>1
  <2>5. Bridges!TypeOK'
    BY <1>t, <1>i, <2>1, <2>3, <2>4 DEF Bridges!TypeOK, BridgeTimes, Times
  <2> QED
    BY <2>2, <2>4, <2>5 DEF BridgeInv
<1>5. ASSUME UNCHANGED <<all, fisN, byID, ndwIdx>> PROVE TableSound(Bridges!Table)'
  <2>1. Bridges!Table' = Bridges!Table /\ \A c : Stands(c)' = Stands(c)
    BY <1>5 DEF Bridges!Table, Stands
  <2> QED
    BY <1>t, <1>5, <2>1 DEF TableSound
<1>6. CASE Bridges!Saved
  <2>1. /\ UNCHANGED <<bNow, all, fisN, fisAt, byID, ndwIdx, seen, bSince, open, openAt, planned>>
        /\ bDirty' = FALSE
        /\ \/ bDisk' = seen /\ missed' = FALSE
           \/ bDisk' = bDisk /\ missed' = TRUE
    BY <1>6 DEF Bridges!Saved
  <2>2. BridgeTimes' /\ InFile'
    <3>1. CASE bDisk' = seen /\ missed' = FALSE
      BY <1>t, <1>i, <2>1, <3>1 DEF BridgeTimes, Times, InFile
    <3>2. CASE bDisk' = bDisk /\ missed' = TRUE
      BY <1>t, <1>i, <2>1, <3>2 DEF BridgeTimes, Times, InFile
    <3> QED
      BY <2>1, <3>1, <3>2
  <2>3. Bridges!TypeOK'
    BY <1>t, <1>i, <2>1, <2>2 DEF Bridges!TypeOK, BridgeTimes, Times
  <2> QED
    BY <1>s, <1>5, <2>1, <2>2, <2>3 DEF BridgeInv
<1>7. CASE Bridges!Tick
  <2>1. /\ bNow < BridgeTime /\ bNow' = bNow + 1
        /\ UNCHANGED <<all, fisN, fisAt, byID, ndwIdx, seen, bSince, bDirty, bDisk, missed, open, openAt, planned>>
    BY <1>7 DEF Bridges!Tick, Bridges!store, Bridges!saved
  <2>2. 0 .. bNow \subseteq 0 .. bNow'
    BY <1>t, <2>1 DEF Bridges!TypeOK
  <2>3. BridgeTimes' /\ InFile'
    BY <1>t, <1>i, <2>1, <2>2 DEF BridgeTimes, Times, InFile
  <2>4. Bridges!TypeOK'
    BY <1>t, <1>i, <2>1, <2>3 DEF Bridges!TypeOK, BridgeTimes, Times
  <2> QED
    BY <1>s, <1>5, <2>1, <2>3, <2>4 DEF BridgeInv
<1>8. CASE UNCHANGED bridge
  <2>1. UNCHANGED <<bNow, all, fisN, fisAt, byID, ndwIdx, seen, bSince, bDirty, bDisk, missed, open, openAt, planned>>
    BY <1>8 DEF bridge
  <2>2. BridgeTimes' /\ InFile'
    BY <1>k, <2>1
  <2>3. Bridges!TypeOK'
    BY <1>t, <1>i, <2>1, <2>2 DEF Bridges!TypeOK, BridgeTimes, Times
  <2> QED
    BY <1>5, <1>8, <2>1, <2>2, <2>3 DEF BridgeInv
<1>9. CASE Bridges!Restart
  BY <1>9, Restarted
<1> QED
  BY <1>1, <1>2, <1>3, <1>4, <1>6, <1>7, <1>8, <1>9 DEF Bridges!Next

(* The invariant holds when the server starts.                                *)
LEMMA BridgeInit ==
  ASSUME Bridges!Init
  PROVE  BridgeInv
<1>1. /\ bNow = 0 /\ all = <<>> /\ fisN = 0 /\ fisAt = -1 /\ DOMAIN byID = {} /\ DOMAIN ndwIdx = {}
      /\ bDirty = FALSE /\ open = {} /\ openAt = -1 /\ planned = {}
  BY DEF Bridges!Init, Bridges!Empty
<1>2. /\ seen = bDisk /\ bSince = bDisk /\ missed = FALSE
      /\ DOMAIN bDisk \subseteq Bridges!Ids /\ \A b \in DOMAIN bDisk : bDisk[b] = 0
  BY DEF Bridges!Init, Bridges!Ids
<1>3. BridgeTime \in Nat
  BY BridgeConstants DEF Bridges!BridgeStoreAssumption
<1>4. Bridges!TypeOK
  <2>1. fisAt \in -1 .. bNow /\ openAt \in -1 .. bNow /\ bNow \in 0 .. BridgeTime
    BY <1>1, <1>3
  <2>2. all \in Seq(Bridges!Ids) /\ fisN \in 0 .. Len(all)
    BY <1>1
  <2>3. \A b \in DOMAIN bDisk : bDisk[b] \in 0 .. bNow
    BY <1>1, <1>2
  <2> QED
    BY <1>1, <1>2, <2>1, <2>2, <2>3 DEF Bridges!TypeOK
<1>5. TableSound(Bridges!Table)
  BY <1>1 DEF TableSound, Bridges!Table
<1>6. InFile
  BY <1>2 DEF InFile
<1> QED
  BY <1>4, <1>5, <1>6 DEF BridgeInv

(* Indexes that are in order are valid.                                       *)
LEMMA IndexesAreValid ==
  ASSUME BridgeInv
  PROVE  Bridges!IndexesValid
<1>1. TableSound([all |-> all, byID |-> byID, ndwIdx |-> ndwIdx])
  BY DEF BridgeInv, Bridges!Table
<1>2. /\ all \in Seq(Bridges!Ids) /\ DOMAIN all = 1 .. Len(all)
      /\ \A b \in DOMAIN byID : byID[b] \in 1 .. Len(all) /\ all[byID[b]] = b
      /\ \A i \in 1 .. Len(all) : byID[all[i]] = i
      /\ \A c \in DOMAIN ndwIdx : ndwIdx[c] \in 1 .. Len(all) /\ all[ndwIdx[c]] = Stands(c)
  BY <1>1 DEF TableSound
<1>3. Bridges!IsInjective(all)
  BY <1>2 DEF Bridges!IsInjective
<1> QED
  BY <1>2, <1>3 DEF Bridges!IndexesValid, Stands

(* A bridge is shown under what its code stands for; and a favourite is taken *)
(* for what it stands for, as far as it was matched.                          *)
LEMMA AnswerComplete ==
  ASSUME BridgeInv
  PROVE  Bridges!SnapshotComplete
<1> DEFINE after == Bridges!After
           Id(r) == after.all[Bridges!IndexIn(after, r.code)]
           plans == {[id |-> Id(r), start |-> r.start] : r \in Bridges!ShownPlans}
           opened == {Id(r) : r \in Bridges!ShownOpen}
<1>1. /\ TableSound(after) /\ DOMAIN byID \subseteq DOMAIN after.byID
      /\ \A c \in Bridges!CodesOf(Bridges!ShownOpen) \union Bridges!CodesOf(Bridges!ShownPlans) :
           Stands(c) \in DOMAIN after.byID
  BY AfterFacts
<1> HIDE DEF after
<1>2. \A p \in plans : \E c \in ISRS : p.id = Stands(c) /\ p.id \in DOMAIN after.byID
  <2> SUFFICES ASSUME NEW r \in Bridges!ShownPlans
               PROVE  \E c \in ISRS : Id(r) = Stands(c) /\ Id(r) \in DOMAIN after.byID
    OBVIOUS
  <2>1. r.code \in ISRS /\ Stands(r.code) \in DOMAIN after.byID
    BY <1>1, ShownFacts DEF Bridges!CodesOf
  <2>2. Id(r) = Stands(r.code)
    BY <1>1, <2>1, IndexFound
  <2> QED
    BY <2>1, <2>2
<1> HIDE DEF plans, opened
<1> SUFFICES ASSUME NEW i \in Bridges!Ids
             PROVE  LET a == Bridges!Answer({i}) IN
                      /\ \A p \in a.others : p.id # i /\ (i \in DOMAIN ndwIdx => all[ndwIdx[i]] # p.id)
                      /\ \A p \in a.favs : p.id \in a.bridges \/ p.id \in ISRS
                      /\ a.opened \subseteq a.bridges
  BY DEF Bridges!SnapshotComplete
<1> DEFINE a == Bridges!Answer({i})
           mine == Bridges!Favourites({i})
<1>3. /\ \A p \in a.others : p \in plans /\ p.id \notin mine
      /\ \A p \in a.favs : p \in plans /\ p.id \in mine
      /\ a.opened = opened /\ opened \subseteq a.bridges
      /\ mine \intersect DOMAIN byID \subseteq a.bridges
  BY DEF Bridges!Answer, plans, opened, after
<1>4. mine = {IF i \in DOMAIN ndwIdx THEN all[ndwIdx[i]] ELSE i}
  BY DEF Bridges!Favourites
<1> HIDE DEF a, mine
<1>5. TableSound([all |-> all, byID |-> byID, ndwIdx |-> ndwIdx])
  BY DEF BridgeInv, Bridges!Table
<1>6. ASSUME NEW p \in a.others, i \in DOMAIN ndwIdx PROVE p.id # i
  <2>1. i \in ISRS /\ all[ndwIdx[i]] = Stands(i)
    BY <1>5, <1>6 DEF TableSound
  <2>2. PICK c \in ISRS : p.id = Stands(c) /\ p.id \in DOMAIN after.byID
    BY <1>2, <1>3
  <2>3. p.id # Stands(i)
    BY <1>3, <1>4, <1>6, <2>1
  <2>4. ASSUME p.id = i PROVE FALSE
    <3>1. i \notin FIS
      BY <2>1, BridgeConstants DEF Bridges!BridgeStoreAssumption
    <3>2. after.byID[i] \in 1 .. Len(after.all) /\ after.all[after.byID[i]] = i
      BY <1>1, <2>2, <2>4 DEF TableSound
    <3>3. \A j \in 1 .. fisN : after.all[j] \in FIS
      BY <1>1 DEF TableSound
    <3>4. after.byID[i] \notin 1 .. fisN
      BY <3>1, <3>2, <3>3
    <3>5. fisN \in 0 .. Len(after.all)
      BY <1>1 DEF TableSound
    <3>6. after.byID[i] > fisN
      BY <3>2, <3>4, <3>5
    <3>7. Stands(i) = i
      BY <1>1, <3>2, <3>6 DEF TableSound
    <3> QED
      BY <2>3, <2>4, <3>7
  <2> QED
    BY <2>4
<1>7. ASSUME NEW p \in a.others
      PROVE  p.id # i /\ (i \in DOMAIN ndwIdx => all[ndwIdx[i]] # p.id)
  BY <1>3, <1>4, <1>6
<1>8. ASSUME NEW p \in a.favs, p.id \notin ISRS PROVE p.id \in a.bridges
  <2>1. p.id \in mine /\ p.id \in DOMAIN after.byID
    BY <1>2, <1>3
  <2>2. after.byID[p.id] \in 1 .. Len(after.all) /\ after.all[after.byID[p.id]] = p.id
    BY <1>1, <2>1 DEF TableSound
  <2>3. fisN \in 0 .. Len(after.all) /\ \A j \in 1 .. Len(after.all) : j > fisN => after.all[j] \in ISRS
    BY <1>1 DEF TableSound
  <2>4. after.byID[p.id] \in 1 .. fisN
    BY <1>8, <2>2, <2>3
  <2>5. all[after.byID[p.id]] = p.id
    BY <1>1, <2>2, <2>4 DEF TableSound
  <2>6. after.byID[p.id] \in 1 .. Len(all)
    BY <1>5, <2>4 DEF TableSound
  <2>7. p.id \in DOMAIN byID
    BY <1>5, <2>5, <2>6 DEF TableSound
  <2> QED
    BY <1>3, <2>1, <2>7
<1> QED
  BY <1>3, <1>7, <1>8 DEF a

(* The indexes stay valid when the list of bridges is replaced under the      *)
(* openings, the answer to a visitor is whole, and a restart forgets no       *)
(* bridge but those that the file cannot have, for any lists, codes and       *)
(* reports (bridges.go).                                                      *)
THEOREM BridgesInOrder == MCSpec => BridgesSound
<1>1. MCInit => BridgeInv
  BY BridgeInit DEF MCInit
<1>2. [MCNext]_<<vars, others>> => [Bridges!Next]_bridge
  BY DEF MCNext, others
<1>3. BridgeInv /\ [Bridges!Next]_bridge => BridgeInv'
  BY BridgeStep
<1>4. BridgeInv /\ [Bridges!Next]_bridge => [Forgotten]_bridge
  BY BridgeStep
<1>5. BridgeInv => Bridges!IndexesValid /\ Bridges!SnapshotComplete
  BY IndexesAreValid, AnswerComplete
<1>6. [Forgotten]_bridge => [Forgotten]_<<bNow, Bridges!store>>
  BY DEF bridge, Bridges!store, Bridges!saved
<1>7. Bridges!Remembered <=> [][Forgotten]_<<bNow, Bridges!store>>
  BY DEF Bridges!Remembered, Forgotten, Bridges!vars
<1> QED
  BY <1>1, <1>2, <1>3, <1>4, <1>5, <1>6, <1>7, PTL DEF MCSpec, BridgesSound

------------------------------------------------------------------------------
(* The page of news (NewsMerge).                                              *)

(* What is assumed of its constants.                                          *)
LEMMA NewsConstants ==
  /\ NewsArticles \in SUBSET Nat /\ IsFiniteSet(NewsArticles) /\ Sources \in SUBSET Nat
  /\ SourceOf \in [NewsArticles -> Nat]
  /\ \A a, b \in NewsArticles : a # b /\ SourceOf[a] = SourceOf[b] =>
       Canon[a] # Canon[b] /\ Title[a] # Title[b]
  /\ Requests \in SUBSET Seq(Nat)
  /\ Extra \in Nat /\ MostRelated \in Nat /\ MaxLimit \in Nat /\ MaxPer \in Nat /\ NewsTime \in Nat
BY StoresAssumption DEF News!NewsMergeAssumption, News!IsFiniteSet, IsFiniteSet

LEMMA NewsCardinality == \A S : News!Cardinality(S) = Cardinality(S)
BY DEF News!Cardinality, Cardinality

Published == pub \in [NewsArticles -> 0 .. NewsTime]

(* The articles, newest first, are in a strict total order.                   *)
Newer == {p \in NewsArticles \X NewsArticles : News!Before(p[1], p[2])}

LEMMA NewsOrder ==
  ASSUME Published
  PROVE  /\ Orders(Newer, NewsArticles)
         /\ \A a, b \in NewsArticles : <<a, b>> \in Newer <=> News!Before(a, b)
         /\ \A a, b \in NewsArticles : <<a, b>> \in Newer => pub[a] >= pub[b]
<1>1. \A a, b \in NewsArticles : <<a, b>> \in Newer <=> News!Before(a, b)
  BY DEF Newer
<1>2. \A a \in NewsArticles : a \in Nat /\ pub[a] \in Nat /\ SourceOf[a] \in Nat
  BY NewsConstants DEF Published
<1>3. \A a \in NewsArticles : ~ News!Before(a, a)
  BY <1>2 DEF News!Before
<1>4. \A a, b, c \in NewsArticles : News!Before(a, b) /\ News!Before(b, c) => News!Before(a, c)
  BY <1>2 DEF News!Before
<1>5. \A a, b \in NewsArticles : a = b \/ News!Before(a, b) \/ News!Before(b, a)
  BY <1>2 DEF News!Before
<1>6. \A a, b \in NewsArticles : News!Before(a, b) => pub[a] >= pub[b]
  BY <1>2 DEF News!Before
<1> QED
  BY <1>1, <1>3, <1>4, <1>5, <1>6 DEF Orders

(* What is earlier and first, in terms of that order.                         *)
LEMMA NewsFirst ==
  ASSUME Published, NEW S \in SUBSET NewsArticles
  PROVE  /\ IsFiniteSet(S) /\ Orders(Newer, S) /\ Cardinality(S) \in Nat
         /\ \A a \in NewsArticles : News!Earlier(S, a) = Under(S, Newer, a)
         /\ \A n : News!First(n, S) = Lowest(S, Newer, n)
<1>1. IsFiniteSet(S) /\ Cardinality(S) \in Nat
  BY NewsConstants, FS_Subset, FS_CardinalityType
<1>2. Orders(Newer, S)
  BY NewsOrder, OrdersPart
<1>3. \A a \in NewsArticles : News!Earlier(S, a) = Under(S, Newer, a)
  <2> SUFFICES ASSUME NEW a \in NewsArticles, NEW b
               PROVE  b \in News!Earlier(S, a) <=> b \in Under(S, Newer, a)
    OBVIOUS
  <2> QED
    BY NewsOrder DEF News!Earlier, Under
<1>4. ASSUME NEW n PROVE News!First(n, S) = Lowest(S, Newer, n)
  <2>1. \A a \in S : News!Cardinality(News!Earlier(S, a)) = Cardinality(Under(S, Newer, a))
    BY <1>3, NewsCardinality
  <2>2. News!First(n, S) = {a \in S : News!Cardinality(News!Earlier(S, a)) < n}
    BY DEF News!First
  <2>3. Lowest(S, Newer, n) = {a \in S : Cardinality(Under(S, Newer, a)) < n}
    BY DEF Lowest
  <2> QED
    BY ONLY <2>1, <2>2, <2>3
<1> QED
  BY <1>1, <1>2, <1>3, <1>4

(* Two articles that count as one have one address.                           *)
LEMMA TwiceFacts ==
  ASSUME NEW a \in NewsArticles, NEW b \in NewsArticles
  PROVE  /\ News!Twice(a, b) <=> News!Twice(b, a)
         /\ News!Twice(a, b) => Canon[a] = Canon[b]
         /\ a # b /\ ~ News!Twice(a, b) =>
              Canon[a] # Canon[b] /\ (SourceOf[a] = SourceOf[b] => Title[a] # Title[b])
BY NewsConstants DEF News!Twice

(* The articles that are left when each is taken once.                        *)
LEMMA UniqueArticles ==
  ASSUME Published, NEW W \in SUBSET NewsArticles, NEW U, U = News!Unique(W)
  PROVE  /\ U \in SUBSET W
         /\ \A a, b \in U : a # b => ~ News!Twice(a, b)
         /\ \A a \in W : \E b \in U : (b = a \/ <<b, a>> \in Newer) /\ Canon[b] = Canon[a]
<1> DEFINE Ok == {o \in (SUBSET W) \X W : \A b \in o[1] : ~ News!Twice(b, o[2])}
           Q(K) == \A a \in W : a \in K <=> \A b \in News!Earlier(K, a) : ~ News!Twice(b, a)
<1>1. IsFiniteSet(W) /\ Orders(Newer, W)
  BY NewsFirst
<1>2. PICK K \in SUBSET W : Taken(K, W, Newer, Ok)
  BY <1>1, TakenExists
<1>3. ASSUME NEW a \in W
      PROVE  a \in K <=> \A b \in News!Earlier(K, a) : ~ News!Twice(b, a)
  <2>1. News!Earlier(K, a) = Under(K, Newer, a)
    BY NewsFirst
  <2>2. Under(K, Newer, a) \in SUBSET W
    BY DEF Under
  <2>3. a \in K <=> <<Under(K, Newer, a), a>> \in Ok
    BY <1>2 DEF Taken
  <2> HIDE DEF Taken
  <2> QED
    BY <2>1, <2>2, <2>3
<1>4. Q(K)
  BY <1>3
<1>5. U = CHOOSE L \in SUBSET W : Q(L)
  BY DEF News!Unique
<1> HIDE DEF Q
<1>6. U \in SUBSET W /\ Q(U)
  BY <1>4, <1>5
<1>7. \A a \in W : News!Earlier(U, a) = Under(U, Newer, a)
  BY <1>6, NewsFirst
<1>8. \A a \in W : a \in U <=> \A b \in Under(U, Newer, a) : ~ News!Twice(b, a)
  BY <1>6, <1>7 DEF Q
<1>9. ASSUME NEW a \in U, NEW b \in U, a # b PROVE ~ News!Twice(a, b)
  <2>1. <<a, b>> \in Newer \/ <<b, a>> \in Newer
    BY <1>1, <1>6, <1>9 DEF Orders
  <2>2. a \in Under(U, Newer, b) \/ b \in Under(U, Newer, a)
    BY <2>1 DEF Under
  <2>3. ~ News!Twice(a, b) \/ ~ News!Twice(b, a)
    BY <1>6, <1>8, <2>2
  <2> QED
    BY <1>6, <2>3, TwiceFacts
<1>10. ASSUME NEW a \in W, a \notin U
       PROVE  \E b \in U : <<b, a>> \in Newer /\ Canon[b] = Canon[a]
  <2>1. PICK b \in Under(U, Newer, a) : News!Twice(b, a)
    BY <1>8, <1>10
  <2>2. b \in U /\ b \in NewsArticles /\ <<b, a>> \in Newer
    BY <1>6, <2>1 DEF Under
  <2>3. b # a
    BY <1>10, <2>2
  <2> QED
    BY <2>1, <2>2, <2>3, TwiceFacts
<1> QED
  BY <1>6, <1>9, <1>10

(* A group as a visitor should see it.                                        *)
Grouped(g) ==
  /\ g \in [lead : NewsArticles, related : SUBSET NewsArticles]
  /\ \A a \in g.related : News!sameStory(g.lead, a) /\ pub[a] <= pub[g.lead]
  /\ \A a, b \in News!Members(g) : a # b => SourceOf[a] # SourceOf[b]

Apart(gs) == \A g, h \in gs : g # h => News!Members(g) \intersect News!Members(h) = {}

LEMMA AloneFacts ==
  ASSUME NEW a \in NewsArticles
  PROVE  /\ Grouped(News!Alone(a)) /\ News!Members(News!Alone(a)) = {a}
         /\ News!Alone(a).lead = a
BY DEF Grouped, News!Alone, News!Members

(* The group of the first article that is left.                               *)
LEMMA OneGroup ==
  ASSUME Published, NEW R \in SUBSET NewsArticles, R # {}, NEW g, g = News!GroupOf(R)
  PROVE  /\ Grouped(g) /\ News!Members(g) \in SUBSET R /\ g.lead \in R
<1> DEFINE lead   == CHOOSE a \in R : News!Earlier(R, a) = {}
           alike  == {b \in R : SourceOf[b] # SourceOf[lead] /\ News!sameStory(lead, b)}
           firsts == {b \in alike : \A c \in News!Earlier(alike, b) : SourceOf[c] # SourceOf[b]}
           some   == News!First(MostRelated, firsts)
<1>1. g = [lead |-> lead, related |-> some]
  BY DEF News!GroupOf
<1>2. lead \in R /\ News!Earlier(R, lead) = {}
  <2>1. IsFiniteSet(R) /\ Orders(Newer, R)
    BY NewsFirst
  <2>2. PICK k \in R : Under(R, Newer, k) = {}
    BY <2>1, FirstAndLast
  <2>3. News!Earlier(R, k) = {}
    BY <2>2, NewsFirst
  <2> QED
    BY <2>3
<1> HIDE DEF lead
<1>3. \A b \in R : b = lead \/ <<lead, b>> \in Newer
  <2>1. Under(R, Newer, lead) = {}
    BY <1>2, NewsFirst
  <2>2. Orders(Newer, R)
    BY NewsFirst
  <2> QED
    BY <1>2, <2>1, <2>2 DEF Orders, Under
<1>4. \A b \in R : pub[b] <= pub[lead]
  <2> SUFFICES ASSUME NEW b \in R PROVE pub[b] <= pub[lead]
    OBVIOUS
  <2>1. pub[b] \in Nat
    BY NewsConstants DEF Published
  <2>2. CASE b = lead
    BY <2>1, <2>2
  <2>3. CASE <<lead, b>> \in Newer
    <3>1. pub[lead] >= pub[b] /\ pub[lead] \in Nat
      BY <1>2, <2>3, NewsConstants, NewsOrder DEF Published
    <3> QED
      BY <2>1, <3>1
  <2> QED
    BY <1>3, <2>2, <2>3
<1>5. \A b \in alike : b \in R /\ SourceOf[b] # SourceOf[lead] /\ News!sameStory(lead, b)
  OBVIOUS
<1>6. \A b, c \in firsts : b # c => SourceOf[b] # SourceOf[c]
  <2> SUFFICES ASSUME NEW b \in firsts, NEW c \in firsts, b # c PROVE SourceOf[b] # SourceOf[c]
    OBVIOUS
  <2>1. alike \in SUBSET NewsArticles /\ b \in alike /\ c \in alike
    OBVIOUS
  <2>2. <<b, c>> \in Newer \/ <<c, b>> \in Newer
    BY <2>1, NewsOrder DEF Orders
  <2>3. News!Before(b, c) \/ News!Before(c, b)
    BY <2>1, <2>2, NewsOrder
  <2>4. b \in News!Earlier(alike, c) \/ c \in News!Earlier(alike, b)
    BY <2>1, <2>3 DEF News!Earlier
  <2> QED
    BY <2>4
<1>7. firsts \in SUBSET alike
  OBVIOUS
<1> HIDE DEF firsts, alike
<1>8. some \in SUBSET firsts
  BY DEF News!First
<1> HIDE DEF some
<1>9. News!Members(g) = {lead} \union some
  BY <1>1 DEF News!Members
<1>10. g.lead = lead /\ g.related = some
  BY <1>1
<1>11. \A b \in some : b \in R /\ SourceOf[b] # SourceOf[lead] /\ News!sameStory(lead, b)
  BY <1>5, <1>7, <1>8
<1>12. \A b, c \in some : b # c => SourceOf[b] # SourceOf[c]
  BY <1>6, <1>8
<1>13. g \in [lead : NewsArticles, related : SUBSET NewsArticles]
  BY <1>1, <1>2, <1>11
<1>14. \A a \in g.related : News!sameStory(g.lead, a) /\ pub[a] <= pub[g.lead]
  BY <1>4, <1>10, <1>11
<1>15. \A a, b \in News!Members(g) : a # b => SourceOf[a] # SourceOf[b]
  BY <1>9, <1>11, <1>12
<1>16. News!Members(g) \in SUBSET R /\ g.lead \in R
  BY <1>2, <1>9, <1>10, <1>11
<1> QED
  BY <1>13, <1>14, <1>15, <1>16 DEF Grouped

(* What is left after each group.                                             *)
Rests(items, f) ==
  f = [n \in 0 .. News!Cardinality(items) |->
         IF n = 0 THEN items
         ELSE IF f[n - 1] = {} THEN {} ELSE f[n - 1] \ News!Members(News!GroupOf(f[n - 1]))]

LEMMA StoriesByRests ==
  ASSUME NEW items, \E h : Rests(items, h)
  PROVE  \E f : /\ Rests(items, f)
                /\ News!groupStories(items) =
                     {News!GroupOf(f[n]) : n \in {n \in DOMAIN f : f[n] # {}}}
<1> DEFINE f == CHOOSE f : Rests(items, f)
<1>1. Rests(items, f)
  OBVIOUS
<1>2. News!groupStories(items) = {News!GroupOf(f[n]) : n \in {n \in DOMAIN f : f[n] # {}}}
  BY DEF News!groupStories, Rests
<1> QED
  BY <1>1, <1>2

LEMMA RestsExist ==
  ASSUME Published, NEW items \in SUBSET NewsArticles
  PROVE  \E h : Rests(items, h)
<1> DEFINE N == Cardinality(items)
           H == [r \in SUBSET items |->
                   IF r = {} THEN {} ELSE r \ News!Members(News!GroupOf(r))]
<1>1. N \in Nat /\ News!Cardinality(items) = N
  BY NewsFirst, NewsCardinality
<1>2. H \in [SUBSET items -> SUBSET items]
  OBVIOUS
<1>3. \A r \in SUBSET items : H[r] = IF r = {} THEN {} ELSE r \ News!Members(News!GroupOf(r))
  OBVIOUS
<1> HIDE DEF H, N
<1>4. PICK X : X = SUBSET items
  OBVIOUS
<1>5. items \in X /\ H \in [X -> X]
  BY <1>2, <1>4
<1>6. PICK h : History(h, N, X, items, H)
  BY <1>1, <1>5, HistoryExists
<1>7. /\ h \in [0 .. N -> SUBSET items] /\ h[0] = items
      /\ \A k \in 1 .. N : h[k] = H[h[k - 1]]
  BY <1>4, <1>6 DEF History
<1>8. \A n \in 0 .. N :
        h[n] = IF n = 0 THEN items
               ELSE IF h[n - 1] = {} THEN {} ELSE h[n - 1] \ News!Members(News!GroupOf(h[n - 1]))
  <2> SUFFICES ASSUME NEW n \in 0 .. N, n # 0 PROVE h[n] = H[h[n - 1]] /\ h[n - 1] \in SUBSET items
    BY <1>3, <1>7
  <2>1. n \in 1 .. N /\ n - 1 \in 0 .. N
    BY <1>1
  <2> QED
    BY <1>7, <2>1
<1>9. Rests(items, h)
  BY <1>1, <1>7, <1>8 DEF Rests
<1> QED
  BY <1>9

LEMMA RestsFacts ==
  ASSUME Published, NEW items \in SUBSET NewsArticles, NEW f, Rests(items, f)
  PROVE  /\ DOMAIN f = 0 .. Cardinality(items) /\ f[0] = items
         /\ \A k \in 1 .. Cardinality(items) :
              f[k] = IF f[k - 1] = {} THEN {} ELSE f[k - 1] \ News!Members(News!GroupOf(f[k - 1]))
<1> DEFINE N == Cardinality(items)
<1>1. N \in Nat /\ News!Cardinality(items) = N
  BY NewsFirst, NewsCardinality
<1>2. f = [n \in 0 .. N |->
             IF n = 0 THEN items
             ELSE IF f[n - 1] = {} THEN {} ELSE f[n - 1] \ News!Members(News!GroupOf(f[n - 1]))]
  BY <1>1 DEF Rests
<1> HIDE DEF N
<1>3. /\ DOMAIN f = 0 .. N
      /\ \A n \in 0 .. N : f[n] = IF n = 0 THEN items
             ELSE IF f[n - 1] = {} THEN {} ELSE f[n - 1] \ News!Members(News!GroupOf(f[n - 1]))
  BY ONLY <1>2
<1>4. 0 \in 0 .. N /\ \A k \in 1 .. N : k \in 0 .. N /\ k # 0
  BY <1>1
<1> QED
  BY <1>1, <1>3, <1>4 DEF N

(* Groups of articles hold them all, each once.                               *)
LEMMA Stories ==
  ASSUME Published, NEW items \in SUBSET NewsArticles, NEW gs, gs = News!groupStories(items)
  PROVE  /\ \A g \in gs : Grouped(g)
         /\ Apart(gs)
         /\ News!Shown(gs) = items
<1> DEFINE N == Cardinality(items)
<1>1. PICK f : /\ Rests(items, f)
               /\ News!groupStories(items) =
                    {News!GroupOf(f[n]) : n \in {n \in DOMAIN f : f[n] # {}}}
  BY RestsExist, StoriesByRests
<1>2. gs = {News!GroupOf(f[n]) : n \in {n \in DOMAIN f : f[n] # {}}}
  BY <1>1
<1>3. /\ N \in Nat /\ DOMAIN f = 0 .. N /\ f[0] = items
      /\ \A k \in 1 .. N :
           f[k] = IF f[k - 1] = {} THEN {} ELSE f[k - 1] \ News!Members(News!GroupOf(f[k - 1]))
  BY <1>1, RestsFacts, NewsFirst
<1> HIDE DEF N
<1>4. \A k \in 0 .. N : f[k] \in SUBSET items /\ IsFiniteSet(f[k]) /\ Cardinality(f[k]) <= N - k
  <2> DEFINE G == {k \in Nat : k <= N => /\ f[k] \in SUBSET items /\ IsFiniteSet(f[k])
                                         /\ Cardinality(f[k]) <= N - k}
  <2>1. 0 \in G
    BY <1>3, NewsFirst DEF N
  <2>2. ASSUME NEW k \in G PROVE k + 1 \in G
    <3> SUFFICES ASSUME k + 1 <= N
                 PROVE  /\ f[k + 1] \in SUBSET items /\ IsFiniteSet(f[k + 1])
                        /\ Cardinality(f[k + 1]) <= N - (k + 1)
      OBVIOUS
    <3>1. k \in Nat /\ k + 1 \in 1 .. N /\ (k + 1) - 1 = k /\ k <= N
      BY <1>3
    <3>2. f[k] \in SUBSET items /\ IsFiniteSet(f[k]) /\ Cardinality(f[k]) <= N - k
      BY <3>1
    <3>3. CASE f[k] = {}
      <4>1. f[k + 1] = {}
        BY <1>3, <3>1, <3>3
      <4>2. Cardinality(f[k + 1]) = 0 /\ IsFiniteSet(f[k + 1])
        BY <4>1, FS_EmptySet
      <4> QED
        BY <1>3, <3>1, <4>1, <4>2
    <3>4. CASE f[k] # {}
      <4> DEFINE g == News!GroupOf(f[k])
      <4>1. f[k + 1] = f[k] \ News!Members(g)
        BY <1>3, <3>1, <3>4
      <4>2. g.lead \in f[k] /\ g.lead \in News!Members(g)
        BY <3>2, <3>4, OneGroup DEF News!Members
      <4>3. f[k + 1] \in SUBSET f[k] /\ f[k + 1] # f[k]
        BY <4>1, <4>2
      <4>4. IsFiniteSet(f[k + 1]) /\ Cardinality(f[k + 1]) <= Cardinality(f[k])
            /\ (Cardinality(f[k]) = Cardinality(f[k + 1]) => f[k] = f[k + 1])
        BY <3>2, <4>3, FS_Subset
      <4>5. Cardinality(f[k]) \in Nat /\ Cardinality(f[k + 1]) \in Nat
        BY <3>2, <4>4, FS_CardinalityType
      <4> HIDE DEF g
      <4>6. Cardinality(f[k + 1]) < Cardinality(f[k])
        BY <4>3, <4>4, <4>5
      <4>7. f[k + 1] \in SUBSET items
        BY <3>2, <4>3
      <4> QED
        BY <1>3, <3>1, <3>2, <4>4, <4>5, <4>6, <4>7
    <3> QED
      BY <3>3, <3>4
  <2>3. G \in SUBSET Nat
    OBVIOUS
  <2> HIDE DEF G
  <2>4. \A k \in Nat : k \in G
    BY <2>1, <2>2, <2>3, AllNumbers
  <2> QED
    BY <1>3, <2>4 DEF G
<1>5. f[N] = {}
  <2>1. N \in 0 .. N /\ N - N = 0
    BY <1>3
  <2>2. IsFiniteSet(f[N]) /\ Cardinality(f[N]) <= 0
    BY <1>4, <2>1
  <2>3. Cardinality(f[N]) = 0
    BY <2>2, FS_CardinalityType
  <2> QED
    BY <2>2, <2>3, FS_EmptySet
<1>6. \A k \in 0 .. N : f[k] # {} =>
        /\ Grouped(News!GroupOf(f[k])) /\ News!Members(News!GroupOf(f[k])) \in SUBSET f[k]
  <2> SUFFICES ASSUME NEW k \in 0 .. N, f[k] # {}
               PROVE  /\ Grouped(News!GroupOf(f[k]))
                      /\ News!Members(News!GroupOf(f[k])) \in SUBSET f[k]
    OBVIOUS
  <2>1. f[k] \in SUBSET NewsArticles
    BY <1>4
  <2> QED
    BY <2>1, OneGroup
<1>7. ASSUME NEW i \in 0 .. N, NEW j \in 0 .. N, i < j
      PROVE  f[j] \in SUBSET f[i + 1]
  <2> DEFINE G == {d \in Nat : i + 1 + d <= N => f[i + 1 + d] \in SUBSET f[i + 1]}
  <2>1. 0 \in G
    <3>1. i + 1 + 0 = i + 1
      BY <1>3
    <3> QED
      BY <3>1
  <2>2. ASSUME NEW d \in G PROVE d + 1 \in G
    <3> DEFINE k == i + 1 + d
    <3>1. d \in Nat /\ i \in Nat /\ i + 1 + (d + 1) = k + 1 /\ (k + 1) - 1 = k
      BY <1>3
    <3> SUFFICES ASSUME k + 1 <= N PROVE f[k + 1] \in SUBSET f[i + 1]
      BY <3>1
    <3>2. k <= N /\ k + 1 \in 1 .. N
      BY <1>3, <3>1
    <3>3. f[k] \in SUBSET f[i + 1]
      BY <3>2
    <3> HIDE DEF k
    <3>4. f[k + 1] = IF f[k] = {} THEN {} ELSE f[k] \ News!Members(News!GroupOf(f[k]))
      BY <1>3, <3>1, <3>2
    <3> QED
      BY <3>3, <3>4
  <2>3. G \in SUBSET Nat
    OBVIOUS
  <2> HIDE DEF G
  <2>4. \A d \in Nat : d \in G
    BY <2>1, <2>2, <2>3, AllNumbers
  <2>5. j - i - 1 \in Nat /\ i + 1 + (j - i - 1) = j /\ j <= N
    BY <1>3, <1>7
  <2>6. j - i - 1 \in G
    BY <2>4, <2>5
  <2> QED
    BY <2>5, <2>6 DEF G
<1>8. ASSUME NEW i \in 0 .. N, NEW j \in 0 .. N, i < j, f[i] # {}, f[j] # {}
      PROVE  News!Members(News!GroupOf(f[i])) \intersect News!Members(News!GroupOf(f[j])) = {}
  <2>1. i + 1 \in 1 .. N /\ (i + 1) - 1 = i
    BY <1>3, <1>8
  <2>2. f[i + 1] = f[i] \ News!Members(News!GroupOf(f[i]))
    BY <1>3, <1>8, <2>1
  <2>3. f[j] \in SUBSET f[i + 1]
    BY <1>7, <1>8
  <2>4. News!Members(News!GroupOf(f[j])) \in SUBSET f[j]
    BY <1>6, <1>8
  <2> QED
    BY <2>2, <2>3, <2>4
<1>9. \A g \in gs : Grouped(g)
  BY <1>2, <1>3, <1>6
<1>10. Apart(gs)
  <2> SUFFICES ASSUME NEW g \in gs, NEW h \in gs, g # h
               PROVE  News!Members(g) \intersect News!Members(h) = {}
    BY DEF Apart
  <2>1. PICK i \in 0 .. N : f[i] # {} /\ g = News!GroupOf(f[i])
    BY <1>2, <1>3
  <2>2. PICK j \in 0 .. N : f[j] # {} /\ h = News!GroupOf(f[j])
    BY <1>2, <1>3
  <2>3. i < j \/ j < i
    BY <1>3, <2>1, <2>2
  <2>4. CASE i < j
    BY <1>8, <2>1, <2>2, <2>4
  <2>5. CASE j < i
    <3>1. News!Members(h) \intersect News!Members(g) = {}
      BY <1>8, <2>1, <2>2, <2>5
    <3> QED
      BY <3>1
  <2> QED
    BY <2>3, <2>4, <2>5
<1>11. News!Shown(gs) = items
  <2>1. ASSUME NEW g \in gs PROVE News!Members(g) \in SUBSET items
    <3>1. PICK i \in 0 .. N : f[i] # {} /\ g = News!GroupOf(f[i])
      BY <1>2, <1>3
    <3> QED
      BY <1>4, <1>6, <3>1
  <2>2. ASSUME NEW a \in items PROVE \E g \in gs : a \in News!Members(g)
    <3> DEFINE T == {k \in 0 .. N : a \notin f[k]}
    <3>1. T \in SUBSET Nat /\ N \in T
      BY <1>3, <1>5
    <3>2. PICK k \in T : \A l \in T : k <= l
      BY <3>1, LeastOf
    <3>3. k \in 0 .. N /\ k # 0
      BY <1>3, <2>2
    <3>4. k \in 1 .. N /\ k - 1 \in 0 .. N /\ ~ (k <= k - 1)
      BY <1>3, <3>3
    <3>5. a \in f[k - 1]
      BY <3>2, <3>4
    <3>6. f[k] = f[k - 1] \ News!Members(News!GroupOf(f[k - 1])) /\ f[k - 1] # {}
      BY <1>3, <3>4, <3>5
    <3>7. a \in News!Members(News!GroupOf(f[k - 1]))
      BY <3>5, <3>6
    <3> QED
      BY <1>2, <1>3, <3>4, <3>6, <3>7
  <2> QED
    BY <2>1, <2>2 DEF News!Shown
<1> QED
  BY <1>9, <1>10, <1>11

(* Articles of which no two count as one.                                     *)
Once(S) == \A a, b \in S : a # b => ~ News!Twice(a, b)

LEMMA InGroup ==
  ASSUME NEW g, Grouped(g)
  PROVE  /\ g.lead \in News!Members(g) /\ News!Members(g) \in SUBSET NewsArticles
         /\ g.lead \in NewsArticles
         /\ \A a \in News!Members(g) : pub[a] <= pub[g.lead] \/ a = g.lead
BY DEF Grouped, News!Members

LEMMA ShownArticles ==
  ASSUME NEW gs, \A g \in gs : Grouped(g)
  PROVE  /\ News!Shown(gs) \in SUBSET NewsArticles
         /\ News!Leads(gs) \in SUBSET News!Shown(gs)
         /\ \A g \in gs : g.lead \in News!Leads(gs) /\ News!Members(g) \in SUBSET News!Shown(gs)
         /\ \A l \in News!Leads(gs) : \E g \in gs : l = g.lead
<1>1. \A g \in gs : g.lead \in News!Members(g) /\ News!Members(g) \in SUBSET NewsArticles
  BY InGroup
<1>2. \A a : a \in News!Shown(gs) <=> \E g \in gs : a \in News!Members(g)
  BY DEF News!Shown
<1>3. \A a : a \in News!Leads(gs) <=> \E g \in gs : a = g.lead
  BY DEF News!Leads
<1> QED
  BY <1>1, <1>2, <1>3

(* The merged lists, or those of them that a page has room for.               *)
LEMMA Merged ==
  ASSUME Published, NEW sources, NEW since, NEW limit \in Nat, NEW group \in BOOLEAN,
         NEW W, W = News!Wanted(sources, since),
         NEW gs, gs = News!mergeItems(sources, since, limit, group)
  PROVE  /\ W \in SUBSET NewsArticles
         /\ \A g \in gs : Grouped(g)
         /\ Apart(gs)
         /\ News!Shown(gs) \in SUBSET W /\ Once(News!Shown(gs))
         /\ \A a \in W : \/ \E k \in News!Shown(gs) : Canon[k] = Canon[a]
                         \/ /\ \A l \in News!Leads(gs) : pub[l] >= pub[a]
                            /\ \/ Cardinality(News!Leads(gs)) = limit
                               \/ group /\ Cardinality(News!Shown(gs)) = limit * 2 + Extra
<1> DEFINE U      == News!Unique(W)
           room   == IF group THEN limit * 2 + Extra ELSE limit
           I      == News!First(room, U)
           groups == IF group THEN News!groupStories(I) ELSE {News!Alone(a) : a \in I}
           top    == News!First(limit, News!Leads(groups))
<1>1. gs = {g \in groups : g.lead \in top}
  BY DEF News!mergeItems
<1>2. W \in SUBSET NewsArticles
  BY DEF News!Wanted
<1>3. PICK V : V = U
  OBVIOUS
<1>4. /\ V \in SUBSET W /\ Once(V)
      /\ \A a \in W : \E b \in V : (b = a \/ <<b, a>> \in Newer) /\ Canon[b] = Canon[a]
  BY <1>2, <1>3, UniqueArticles DEF Once
<1>5. room \in Nat
  BY NewsConstants
<1>6. I = Lowest(V, Newer, room)
  BY <1>2, <1>3, <1>4, NewsFirst
<1> HIDE DEF U, room
<1>7. /\ I \in SUBSET V
      /\ \A a \in I, b \in V \ I : <<a, b>> \in Newer
      /\ I = V \/ Cardinality(I) = room
  <2>1. V \in SUBSET NewsArticles
    BY <1>2, <1>4
  <2>2. IsFiniteSet(V) /\ Orders(Newer, V)
    BY <2>1, NewsFirst
  <2> QED
    BY <1>5, <1>6, <2>2, LowestFacts
<1> HIDE DEF I
<1>8. I \in SUBSET NewsArticles
  BY <1>2, <1>4, <1>7
<1>9. /\ \A g \in groups : Grouped(g)
      /\ Apart(groups)
      /\ News!Shown(groups) = I
  <2>1. CASE group
    <3>1. groups = News!groupStories(I)
      BY <2>1
    <3> QED
      BY <1>8, <3>1, Stories
  <2>2. CASE ~ group
    <3>1. groups = {News!Alone(a) : a \in I}
      BY <2>2
    <3>2. \A a \in I : /\ Grouped(News!Alone(a)) /\ News!Members(News!Alone(a)) = {a}
                       /\ News!Alone(a).lead = a
      BY <1>8, AloneFacts
    <3> HIDE DEF groups
    <3>3. Apart(groups)
      BY <3>1, <3>2 DEF Apart
    <3>4. News!Shown(groups) = I
      BY <3>1, <3>2 DEF News!Shown
    <3> QED
      BY <3>1, <3>2, <3>3, <3>4
  <2> QED
    BY <2>1, <2>2
<1>10. ~ group => \A a \in I : \E g \in groups : g.lead = a /\ News!Members(g) = {a}
  BY <1>8, AloneFacts
<1> HIDE DEF groups
<1>11. News!Leads(groups) \in SUBSET I
  BY <1>9, ShownArticles
<1>12. /\ top \in SUBSET News!Leads(groups)
       /\ \A a \in top, b \in News!Leads(groups) \ top : <<a, b>> \in Newer
       /\ top = News!Leads(groups) \/ Cardinality(top) = limit
  <2>1. News!Leads(groups) \in SUBSET NewsArticles
    BY <1>8, <1>11
  <2>2. IsFiniteSet(News!Leads(groups)) /\ Orders(Newer, News!Leads(groups))
        /\ top = Lowest(News!Leads(groups), Newer, limit)
    BY <2>1, NewsFirst
  <2> QED
    BY <2>2, LowestFacts
<1> HIDE DEF top
<1>13. gs \in SUBSET groups /\ News!Leads(gs) = top
  <2>1. \A l \in top : \E g \in groups : l = g.lead
    BY <1>9, <1>12, ShownArticles
  <2> QED
    BY <1>1, <2>1 DEF News!Leads
<1>14. /\ \A g \in gs : Grouped(g)
       /\ Apart(gs)
  BY <1>9, <1>13 DEF Apart
<1>15. News!Shown(gs) \in SUBSET I
  BY <1>9, <1>13 DEF News!Shown
<1>16. News!Shown(gs) \in SUBSET W /\ Once(News!Shown(gs))
  BY <1>4, <1>7, <1>15 DEF Once
<1>17. ASSUME NEW a \in W, \A k \in News!Shown(gs) : Canon[k] # Canon[a]
       PROVE  /\ \A l \in News!Leads(gs) : pub[l] >= pub[a]
              /\ \/ Cardinality(News!Leads(gs)) = limit
                 \/ group /\ Cardinality(News!Shown(gs)) = limit * 2 + Extra
  <2>1. PICK b \in V : (b = a \/ <<b, a>> \in Newer) /\ Canon[b] = Canon[a]
    BY <1>4
  <2>2. \A c \in NewsArticles : pub[c] \in Nat
    BY NewsConstants DEF Published
  <2>3. a \in NewsArticles /\ b \in NewsArticles /\ top \in SUBSET NewsArticles
    BY <1>2, <1>4, <1>8, <1>11, <1>12
  <2>4. pub[b] >= pub[a]
    BY <2>1, <2>2, <2>3, NewsOrder
  <2>5. b \notin News!Shown(gs)
    BY <1>17, <2>1
  <2>6. CASE b \notin I
    <3>1. \A c \in top : <<c, b>> \in Newer
      BY <1>7, <1>11, <1>12, <2>6
    <3>2. \A c \in top : pub[c] >= pub[b]
      BY <2>3, <3>1, NewsOrder
    <3>3. \A c \in top : pub[c] >= pub[a]
      BY <2>2, <2>3, <2>4, <3>2
    <3>4. Cardinality(I) = room
      BY <1>7, <2>6
    <3>5. CASE Cardinality(top) = limit
      BY <1>13, <3>3, <3>5
    <3>6. CASE Cardinality(top) # limit
      <4>1. top = News!Leads(groups)
        BY <1>12, <3>6
      <4>2. gs = groups
        <5>1. \A g \in groups : g.lead \in News!Leads(groups)
          BY DEF News!Leads
        <5> QED
          BY <1>1, <4>1, <5>1
      <4>3. CASE group
        <5>1. Cardinality(News!Shown(gs)) = limit * 2 + Extra
          BY <1>9, <3>4, <4>2, <4>3 DEF room
        <5> QED
          BY <1>13, <3>3, <4>3, <5>1
      <4>4. CASE ~ group
        <5>1. top = I
          BY <1>10, <1>11, <4>1, <4>4 DEF News!Leads
        <5> QED
          BY <3>4, <3>6, <4>4, <5>1 DEF room
      <4> QED
        BY <4>3, <4>4
    <3> QED
      BY <3>5, <3>6
  <2>7. CASE b \in I
    <3>1. PICK g \in groups : b \in News!Members(g)
      BY <1>9, <2>7 DEF News!Shown
    <3>2. g \notin gs
      BY <2>5, <3>1 DEF News!Shown
    <3>3. g.lead \in News!Leads(groups) \ top
      BY <1>1, <3>1, <3>2 DEF News!Leads
    <3>4. Cardinality(top) = limit
      BY <1>12, <3>3
    <3>5. pub[b] <= pub[g.lead] /\ g.lead \in NewsArticles
      BY <1>9, <2>2, <2>3, <3>1, InGroup
    <3>6. \A c \in top : <<c, g.lead>> \in Newer
      BY <1>12, <3>3
    <3>7. \A c \in top : pub[c] >= pub[g.lead]
      BY <2>3, <3>5, <3>6, NewsOrder
    <3>8. \A c \in top : pub[c] >= pub[a]
      <4> SUFFICES ASSUME NEW c \in top PROVE pub[c] >= pub[a]
        OBVIOUS
      <4>1. pub[c] >= pub[g.lead] /\ pub[c] \in Nat /\ pub[g.lead] \in Nat
            /\ pub[a] \in Nat /\ pub[b] \in Nat
        BY <2>2, <2>3, <3>5, <3>7
      <4> QED
        BY <2>4, <3>5, <4>1
    <3> QED
      BY <1>13, <3>4, <3>8
  <2> QED
    BY <2>6, <2>7
<1> QED
  BY <1>2, <1>14, <1>16, <1>17

(* The places of the sources in a request.                                    *)
Places(ids) ==
  /\ ids \in [DOMAIN ids -> Nat] /\ DOMAIN ids \in SUBSET Sources
  /\ \A s, t \in DOMAIN ids : ids[s] = ids[t] => s = t

LEMMA Requested ==
  ASSUME NEW list \in Requests, NEW ids, ids = News!requestedSources(list)
  PROVE  Places(ids)
<1>1. Sources \in SUBSET Nat /\ list \in Seq(Nat)
  BY NewsConstants
<1>2. CASE list = <<>>
  <2>1. ids = [s \in Sources \intersect DefaultOn |-> s]
    BY <1>2 DEF News!requestedSources
  <2> QED
    BY <1>1, <2>1 DEF Places
<1>3. CASE list # <<>>
  <2> DEFINE S == Sources \intersect News!Range(list)
             At(s) == {i \in DOMAIN list : list[i] = s}
  <2>1. ids = [s \in S |-> News!Min(At(s))]
    BY <1>3 DEF News!requestedSources
  <2>2. ASSUME NEW s \in S PROVE News!Min(At(s)) \in At(s)
    <3>1. At(s) # {}
      BY DEF News!Range
    <3>2. At(s) \in SUBSET Nat
      BY <1>1
    <3>3. \E x \in At(s) : \A y \in At(s) : x <= y
      BY <3>1, <3>2, LeastOf
    <3> QED
      BY <3>3 DEF News!Min
  <2>3. \A s \in S : News!Min(At(s)) \in Nat /\ list[News!Min(At(s))] = s
    BY <1>1, <2>2
  <2> HIDE DEF At, S
  <2>4. ids \in [DOMAIN ids -> Nat] /\ \A s, t \in DOMAIN ids : ids[s] = ids[t] => s = t
    BY <2>1, <2>3
  <2>5. DOMAIN ids \in SUBSET Sources
    BY <2>1 DEF S
  <2> QED
    BY <2>4, <2>5 DEF Places
<1> QED
  BY <1>2, <1>3

(* How many articles of a source there are.                                   *)
LEMMA HaveFacts ==
  ASSUME NEW B \in SUBSET NewsArticles, NEW s
  PROVE  /\ News!Have(B, s) \in Nat
         /\ \A A \in SUBSET B : News!Have(A, s) <= News!Have(B, s)
         /\ \A A, x : B \in SUBSET (A \union {x}) /\ A \in SUBSET NewsArticles =>
              News!Have(B, s) <= News!Have(A, s) + 1
<1> DEFINE Of(A) == {a \in A : SourceOf[a] = s}
<1>1. \A A : News!Have(A, s) = Cardinality(Of(A))
  BY NewsCardinality DEF News!Have
<1>2. \A A \in SUBSET NewsArticles : IsFiniteSet(Of(A)) /\ Cardinality(Of(A)) \in Nat
  <2> SUFFICES ASSUME NEW A \in SUBSET NewsArticles
               PROVE  IsFiniteSet(Of(A)) /\ Cardinality(Of(A)) \in Nat
    OBVIOUS
  <2>1. Of(A) \in SUBSET NewsArticles
    OBVIOUS
  <2> QED
    BY <2>1, NewsFirst, NewsConstants, FS_Subset, FS_CardinalityType
<1>3. ASSUME NEW A \in SUBSET B PROVE Cardinality(Of(A)) <= Cardinality(Of(B))
  <2>1. Of(A) \in SUBSET Of(B)
    OBVIOUS
  <2> QED
    BY <1>2, <2>1, FS_Subset
<1>4. ASSUME NEW A, NEW x, B \in SUBSET (A \union {x}), A \in SUBSET NewsArticles
      PROVE  Cardinality(Of(B)) <= Cardinality(Of(A)) + 1
  <2> DEFINE P == Of(A) \union {x}
  <2>1. IsFiniteSet(Of(A)) /\ Cardinality(Of(A)) \in Nat
    BY <1>2, <1>4
  <2>2. IsFiniteSet(P) /\ Cardinality(P) <= Cardinality(Of(A)) + 1
    <3>1. CASE x \in Of(A)
      <4>1. P = Of(A)
        BY <3>1
      <4> HIDE DEF P, Of
      <4> QED
        BY <2>1, <4>1
    <3>2. CASE x \notin Of(A)
      <4> HIDE DEF Of
      <4>1. IsFiniteSet(P) /\ Cardinality(P) = Cardinality(Of(A)) + 1
        BY <2>1, <3>2, FS_AddElement
      <4> HIDE DEF P
      <4> QED
        BY <2>1, <4>1
    <3> QED
      BY <3>1, <3>2
  <2>3. Of(B) \in SUBSET P
    BY <1>4
  <2> HIDE DEF P
  <2>4. Cardinality(Of(B)) <= Cardinality(P) /\ Cardinality(Of(B)) \in Nat
    BY <1>2, <2>2, <2>3, FS_Subset
  <2>5. Cardinality(P) \in Nat
    BY <2>2, FS_CardinalityType
  <2> HIDE DEF Of
  <2> QED
    BY <2>1, <2>2, <2>4, <2>5
<1> HIDE DEF Of
<1>5. News!Have(B, s) \in Nat
  BY <1>1, <1>2
<1>6. \A A \in SUBSET B : News!Have(A, s) <= News!Have(B, s)
  BY <1>1, <1>3
<1>7. \A A, x : B \in SUBSET (A \union {x}) /\ A \in SUBSET NewsArticles =>
        News!Have(B, s) <= News!Have(A, s) + 1
  BY <1>1, <1>4
<1> QED
  BY <1>5, <1>6, <1>7

(* The order in which older articles are looked at.                           *)
Sooner(ids) ==
  {p \in NewsArticles \X NewsArticles :
     \/ ids[SourceOf[p[1]]] < ids[SourceOf[p[2]]]
     \/ SourceOf[p[1]] = SourceOf[p[2]] /\ News!Before(p[1], p[2])}

LEMMA SoonerOrders ==
  ASSUME Published, NEW ids, Places(ids), NEW S \in SUBSET NewsArticles,
         \A a \in S : SourceOf[a] \in DOMAIN ids
  PROVE  Orders(Sooner(ids), S)
<1> DEFINE Soon(a, b) == \/ ids[SourceOf[a]] < ids[SourceOf[b]]
                         \/ SourceOf[a] = SourceOf[b] /\ News!Before(a, b)
<1>1. \A a, b \in S : <<a, b>> \in Sooner(ids) <=> Soon(a, b)
  BY DEF Sooner
<1>2. \A a \in S : ids[SourceOf[a]] \in Nat
  BY DEF Places
<1>3. \A a, b \in S : ids[SourceOf[a]] = ids[SourceOf[b]] => SourceOf[a] = SourceOf[b]
  BY DEF Places
<1>4. /\ \A a \in S : ~ News!Before(a, a)
      /\ \A a, b, c \in S : News!Before(a, b) /\ News!Before(b, c) => News!Before(a, c)
      /\ \A a, b \in S : a = b \/ News!Before(a, b) \/ News!Before(b, a)
  BY NewsOrder DEF Orders
<1>5. \A a \in S : ~ Soon(a, a)
  BY <1>2, <1>4
<1>6. ASSUME NEW a \in S, NEW b \in S, NEW c \in S, Soon(a, b), Soon(b, c) PROVE Soon(a, c)
  <2>1. ids[SourceOf[a]] \in Nat /\ ids[SourceOf[b]] \in Nat /\ ids[SourceOf[c]] \in Nat
    BY <1>2
  <2> QED
    BY <1>4, <1>6, <2>1
<1>7. ASSUME NEW a \in S, NEW b \in S, a # b PROVE Soon(a, b) \/ Soon(b, a)
  <2>1. ids[SourceOf[a]] \in Nat /\ ids[SourceOf[b]] \in Nat
    BY <1>2
  <2>2. SourceOf[a] = SourceOf[b] \/ ids[SourceOf[a]] < ids[SourceOf[b]] \/ ids[SourceOf[b]] < ids[SourceOf[a]]
    BY <1>3, <2>1
  <2> QED
    BY <1>4, <1>7, <2>2
<1> HIDE DEF Soon
<1> QED
  BY <1>1, <1>5, <1>6, <1>7 DEF Orders

Free(gs, ids, since) == {a \in News!Wanted(DOMAIN ids, since) : News!NewTo(gs, a)}

(* That an article is added to a page, given those that were added before it. *)
Adds(gs, ids, per, before, a) ==
  /\ News!Have(News!Shown(gs) \union before, SourceOf[a]) < per
  /\ \A b \in before : ~ News!Twice(b, a)

LEMMA FreeFacts ==
  ASSUME Published, NEW ids, Places(ids), NEW since, NEW gs
  PROVE  /\ Free(gs, ids, since) \in SUBSET NewsArticles
         /\ IsFiniteSet(Free(gs, ids, since))
         /\ Orders(Sooner(ids), Free(gs, ids, since))
<1>1. /\ Free(gs, ids, since) \in SUBSET NewsArticles
      /\ \A a \in Free(gs, ids, since) : SourceOf[a] \in DOMAIN ids
  BY DEF Free, News!Wanted
<1> QED
  BY <1>1, NewsFirst, SoonerOrders

LEMMA Added ==
  ASSUME Published, NEW ids, Places(ids), NEW since, NEW per, NEW gs,
         NEW T, T = News!topUpPerSource(gs, ids, since, per)
  PROVE  \E K \in SUBSET Free(gs, ids, since) :
           /\ T = gs \union {News!Alone(a) : a \in K}
           /\ \A a \in Free(gs, ids, since) :
                a \in K <=> Adds(gs, ids, per, Under(K, Sooner(ids), a), a)
<1> DEFINE F == Free(gs, ids, since)
           R == Sooner(ids)
           Ok == {o \in (SUBSET F) \X F : Adds(gs, ids, per, o[1], o[2])}
           Soon(K, a) == {b \in K : \/ ids[SourceOf[b]] < ids[SourceOf[a]]
                                    \/ SourceOf[b] = SourceOf[a] /\ News!Before(b, a)}
           Q(K) == \A a \in F :
                     a \in K <=>
                       /\ News!Have(News!Shown(gs) \union Soon(K, a), SourceOf[a]) < per
                       /\ \A b \in Soon(K, a) : ~ News!Twice(b, a)
<1>1. F \in SUBSET NewsArticles /\ IsFiniteSet(F) /\ Orders(R, F)
  BY FreeFacts
<1>2. T = gs \union {News!Alone(a) : a \in CHOOSE K \in SUBSET F : Q(K)}
  BY DEF News!topUpPerSource, Free
<1>3. ASSUME NEW K \in SUBSET F, NEW a \in F PROVE Soon(K, a) = Under(K, R, a)
  <2>1. F \in SUBSET NewsArticles
    BY <1>1
  <2> HIDE DEF F
  <2> QED
    BY <2>1 DEF Under, Sooner
<1>4. ASSUME NEW K \in SUBSET F
      PROVE  Q(K) <=> \A a \in F : a \in K <=> Adds(gs, ids, per, Under(K, R, a), a)
  <2> HIDE DEF Soon, F, R
  <2> QED
    BY <1>3 DEF Adds
<1>5. PICK L \in SUBSET F : Taken(L, F, R, Ok)
  BY <1>1, TakenExists
<1>6. \A a \in F : a \in L <=> Adds(gs, ids, per, Under(L, R, a), a)
  <2> SUFFICES ASSUME NEW a \in F
               PROVE  a \in L <=> Adds(gs, ids, per, Under(L, R, a), a)
    OBVIOUS
  <2>1. Under(L, R, a) \in SUBSET F
    BY <1>5 DEF Under
  <2>2. a \in L <=> <<Under(L, R, a), a>> \in Ok
    BY <1>5 DEF Taken
  <2> HIDE DEF F, R
  <2> QED
    BY <2>1, <2>2
<1>7. Q(L)
  BY <1>4, <1>5, <1>6
<1> HIDE DEF Q
<1>8. PICK K : K = CHOOSE M \in SUBSET F : Q(M)
  OBVIOUS
<1>9. K \in SUBSET F /\ Q(K)
  BY <1>5, <1>7, <1>8
<1>10. \A a \in F : a \in K <=> Adds(gs, ids, per, Under(K, R, a), a)
  BY <1>4, <1>9
<1>11. T = gs \union {News!Alone(a) : a \in K}
  BY <1>2, <1>8
<1> QED
  BY <1>9, <1>10, <1>11

(* A page with older articles of the sources that had too few.                *)
LEMMA ToppedUp ==
  ASSUME Published, NEW ids, Places(ids), NEW since, NEW per \in Nat,
         NEW W, W = News!Wanted(DOMAIN ids, since),
         NEW gs, \A g \in gs : Grouped(g), Apart(gs),
         News!Shown(gs) \in SUBSET W, Once(News!Shown(gs)),
         NEW T, T = News!topUpPerSource(gs, ids, since, per)
  PROVE  /\ \A g \in T : Grouped(g)
         /\ Apart(T)
         /\ News!Shown(T) \in SUBSET W /\ Once(News!Shown(T))
         /\ News!Shown(gs) \in SUBSET News!Shown(T) /\ News!Leads(gs) \in SUBSET News!Leads(T)
         /\ \A l \in News!Leads(T) : l \in News!Leads(gs) \/ News!Have(News!Shown(T), SourceOf[l]) <= per
         /\ \A s \in DOMAIN ids :
              \/ News!Have(News!Shown(T), s) >= per
              \/ \A a \in News!Wanted({s}, since) : \E k \in News!Shown(T) : Canon[k] = Canon[a]
<1> DEFINE F == Free(gs, ids, since)
           R == Sooner(ids)
<1>1. PICK K \in SUBSET F :
        /\ T = gs \union {News!Alone(a) : a \in K}
        /\ \A a \in F : a \in K <=> Adds(gs, ids, per, Under(K, R, a), a)
  BY Added
<1>2. F \in SUBSET NewsArticles /\ IsFiniteSet(F) /\ Orders(R, F)
  BY FreeFacts
<1>3. /\ \A a \in F : a \in W /\ News!NewTo(gs, a)
      /\ W \in SUBSET NewsArticles
      /\ \A a \in W : SourceOf[a] \in DOMAIN ids
      /\ \A s \in DOMAIN ids : \A a \in News!Wanted({s}, since) : a \in W /\ SourceOf[a] = s
      /\ \A a \in W : News!NewTo(gs, a) => a \in F
  BY DEF Free, News!Wanted
<1>4. \A a, b \in F : <<a, b>> \in R =>
        ids[SourceOf[a]] < ids[SourceOf[b]] \/ SourceOf[a] = SourceOf[b]
  BY DEF Sooner
<1> HIDE DEF F, R
<1>5. \A a \in K : /\ Grouped(News!Alone(a)) /\ News!Members(News!Alone(a)) = {a}
                   /\ News!Alone(a).lead = a
  BY <1>1, <1>2, AloneFacts
<1>6. \A g \in T : Grouped(g)
  BY <1>1, <1>5
<1>7. News!Shown(T) = News!Shown(gs) \union K
  BY <1>1, <1>5 DEF News!Shown
<1>8. News!Leads(T) = News!Leads(gs) \union K
  BY <1>1, <1>5 DEF News!Leads
<1>9. \A a \in K, k \in News!Shown(gs) : k # a /\ ~ News!Twice(k, a)
  <2> SUFFICES ASSUME NEW a \in K, NEW k \in News!Shown(gs)
               PROVE  k # a /\ ~ News!Twice(k, a)
    OBVIOUS
  <2>1. Canon[k] # Canon[a]
    BY <1>1, <1>3 DEF News!NewTo
  <2>2. a \in NewsArticles /\ k \in NewsArticles
    BY <1>1, <1>2, <1>3
  <2> QED
    BY <2>1, <2>2, TwiceFacts
<1>10. Apart(T)
  <2> SUFFICES ASSUME NEW g \in T, NEW h \in T, g # h
               PROVE  News!Members(g) \intersect News!Members(h) = {}
    BY DEF Apart
  <2>1. ASSUME NEW p \in gs, NEW a \in K PROVE a \notin News!Members(p)
    BY <1>9 DEF News!Shown
  <2>2. CASE g \in gs /\ h \in gs
    BY <2>2 DEF Apart
  <2>3. CASE g \in gs /\ h \notin gs
    <3>1. PICK a \in K : h = News!Alone(a)
      BY <1>1, <2>3
    <3> QED
      BY <1>5, <2>1, <2>3, <3>1
  <2>4. CASE g \notin gs /\ h \in gs
    <3>1. PICK a \in K : g = News!Alone(a)
      BY <1>1, <2>4
    <3> QED
      BY <1>5, <2>1, <2>4, <3>1
  <2>5. CASE g \notin gs /\ h \notin gs
    <3>1. PICK a \in K : g = News!Alone(a)
      BY <1>1, <2>5
    <3>2. PICK b \in K : h = News!Alone(b)
      BY <1>1, <2>5
    <3> QED
      BY <1>5, <3>1, <3>2
  <2> QED
    BY <2>2, <2>3, <2>4, <2>5
<1>11. Once(K)
  <2> SUFFICES ASSUME NEW a \in K, NEW b \in K, a # b PROVE ~ News!Twice(a, b)
    BY DEF Once
  <2>1. <<a, b>> \in R \/ <<b, a>> \in R
    BY <1>1, <1>2 DEF Orders
  <2>2. a \in Under(K, R, b) \/ b \in Under(K, R, a)
    BY <2>1 DEF Under
  <2>3. ~ News!Twice(a, b) \/ ~ News!Twice(b, a)
    BY <1>1, <2>2 DEF Adds
  <2>4. a \in NewsArticles /\ b \in NewsArticles
    BY <1>1, <1>2
  <2> QED
    BY <2>3, <2>4, TwiceFacts
<1>12. News!Shown(T) \in SUBSET W /\ Once(News!Shown(T))
  <2>1. K \in SUBSET W
    BY <1>1, <1>3
  <2>2. ASSUME NEW a \in News!Shown(T), NEW b \in News!Shown(T), a # b PROVE ~ News!Twice(a, b)
    <3>1. a \in NewsArticles /\ b \in NewsArticles
      BY <1>3, <1>7, <2>1
    <3>2. CASE a \in K /\ b \in K
      BY <1>11, <2>2, <3>2 DEF Once
    <3>3. CASE a \in K /\ b \notin K
      <4>1. ~ News!Twice(b, a)
        BY <1>7, <1>9, <3>3
      <4> QED
        BY <3>1, <4>1, TwiceFacts
    <3>4. CASE a \notin K /\ b \in K
      BY <1>7, <1>9, <3>4
    <3>5. CASE a \notin K /\ b \notin K
      BY <1>7, <2>2, <3>5 DEF Once
    <3> QED
      BY <3>2, <3>3, <3>4, <3>5
  <2> QED
    BY <1>7, <2>1, <2>2 DEF Once
<1>13. News!Shown(T) \in SUBSET NewsArticles
  BY <1>3, <1>12
<1>14. ASSUME NEW l \in K PROVE News!Have(News!Shown(T), SourceOf[l]) <= per
  <2> DEFINE s == SourceOf[l]
             P == {a \in K : SourceOf[a] = s}
  <2>1. P \in SUBSET F /\ l \in P
    BY <1>1
  <2>2. IsFiniteSet(P) /\ P # {} /\ Orders(R, P)
    BY <1>2, <2>1, FS_Subset, OrdersPart
  <2>3. PICK x \in P : \A j \in P : j = x \/ <<j, x>> \in R
    BY <2>2, FirstAndLast
  <2> DEFINE B == Under(K, R, x)
             A == News!Shown(gs) \union B
             S == News!Shown(T)
  <2>4. News!Have(A, s) < per
    <3>1. x \in F /\ x \in K /\ SourceOf[x] = s
      BY <1>1, <2>3
    <3> HIDE DEF s
    <3> QED
      BY <1>1, <3>1 DEF Adds
  <2>5. A \in SUBSET NewsArticles
    BY <1>1, <1>2, <1>3 DEF Under
  <2>6. \A a \in S : SourceOf[a] = s => a \in A \union {x}
    <3> SUFFICES ASSUME NEW a \in S, SourceOf[a] = s PROVE a \in A \union {x}
      OBVIOUS
    <3>1. a \in News!Shown(gs) \/ a \in P
      BY <1>7
    <3> QED
      BY <2>3, <3>1 DEF Under
  <2> DEFINE Here == {a \in S : SourceOf[a] = s}
  <2>7. News!Have(Here, s) = News!Have(S, s)
    <3>1. {a \in Here : SourceOf[a] = s} = {a \in S : SourceOf[a] = s}
      OBVIOUS
    <3> HIDE DEF Here, S, s
    <3> QED
      BY <3>1 DEF News!Have
  <2>8. Here \in SUBSET (A \union {x}) /\ Here \in SUBSET NewsArticles
    BY <1>13, <2>6
  <2> HIDE DEF Here, A, S, s
  <2>9. /\ News!Have(Here, s) <= News!Have(A, s) + 1
        /\ News!Have(Here, s) \in Nat /\ News!Have(A, s) \in Nat
    BY <2>5, <2>8, HaveFacts
  <2>10. News!Have(S, s) <= per
    BY <2>4, <2>7, <2>9
  <2> QED
    BY <2>10 DEF S, s
<1>15. ASSUME NEW s \in DOMAIN ids, NEW a \in News!Wanted({s}, since),
              News!Have(News!Shown(T), s) < per
       PROVE  \E k \in News!Shown(T) : Canon[k] = Canon[a]
  <2>1. a \in W /\ SourceOf[a] = s /\ a \in NewsArticles
    BY <1>3
  <2>2. CASE ~ News!NewTo(gs, a)
    <3>1. PICK k \in News!Shown(gs) : Canon[k] = Canon[a]
      <4>1. News!Leads(gs) \in SUBSET News!Shown(gs) /\ News!Shown(gs) \in SUBSET NewsArticles
        BY ShownArticles
      <4>2. \A k \in News!Shown(gs) : News!Twice(k, a) => Canon[k] = Canon[a]
        BY <2>1, <4>1, TwiceFacts
      <4> QED
        BY <2>2, <4>1, <4>2 DEF News!NewTo
    <3> QED
      BY <1>7, <3>1
  <2>3. CASE a \in K
    BY <1>7, <2>3
  <2>4. CASE News!NewTo(gs, a) /\ a \notin K
    <3> DEFINE B == Under(K, R, a)
    <3>1. a \in F
      BY <1>3, <2>1, <2>4
    <3>2. B \in SUBSET K
      BY DEF Under
    <3>3. News!Shown(gs) \union B \in SUBSET News!Shown(T)
      BY <1>7, <3>2
    <3> HIDE DEF B
    <3>4. /\ News!Have(News!Shown(gs) \union B, s) <= News!Have(News!Shown(T), s)
          /\ News!Have(News!Shown(T), s) \in Nat
      BY <1>13, <3>3, HaveFacts
    <3>5. News!Have(News!Shown(gs) \union B, s) \in Nat
      <4>1. News!Shown(gs) \union B \in SUBSET NewsArticles
        BY <1>13, <3>3
      <4> QED
        BY <4>1, HaveFacts
    <3>6. News!Have(News!Shown(gs) \union B, s) < per
      BY <1>15, <3>4, <3>5
    <3>7. ~ Adds(gs, ids, per, B, a)
      BY <1>1, <2>4, <3>1 DEF B
    <3>8. PICK b \in B : News!Twice(b, a)
      BY <2>1, <3>6, <3>7 DEF Adds
    <3>9. b \in News!Shown(T) /\ b \in NewsArticles
      BY <1>13, <3>3
    <3> QED
      BY <2>1, <3>8, <3>9, TwiceFacts
  <2> QED
    BY <2>2, <2>3, <2>4
<1>16. \A l \in News!Leads(T) : l \in News!Leads(gs) \/ News!Have(News!Shown(T), SourceOf[l]) <= per
  BY <1>8, <1>14
<1>17. \A s \in DOMAIN ids :
         \/ News!Have(News!Shown(T), s) >= per
         \/ \A a \in News!Wanted({s}, since) : \E k \in News!Shown(T) : Canon[k] = Canon[a]
  <2> SUFFICES ASSUME NEW s \in DOMAIN ids, ~ (News!Have(News!Shown(T), s) >= per),
                      NEW a \in News!Wanted({s}, since)
               PROVE  \E k \in News!Shown(T) : Canon[k] = Canon[a]
    OBVIOUS
  <2>1. News!Have(News!Shown(T), s) \in Nat
    BY <1>13, HaveFacts
  <2>2. News!Have(News!Shown(T), s) < per
    BY <2>1
  <2> QED
    BY <1>15, <2>2
<1> QED
  BY <1>6, <1>7, <1>8, <1>10, <1>12, <1>16, <1>17

(* The groups of a page stand in the order of their first articles.           *)
LEMMA PageInOrder ==
  ASSUME Published, NEW gs, \A g \in gs : Grouped(g), Apart(gs), NEW p, p = News!Sorted(gs)
  PROVE  /\ p \in Seq(gs) /\ Len(p) = Cardinality(News!Leads(gs)) /\ News!Range(p) = gs
         /\ \A i, j \in DOMAIN p : i < j => p[i] # p[j] /\ pub[p[i].lead] >= pub[p[j].lead]
<1> DEFINE L == News!Leads(gs)
           N == Cardinality(L)
           rank(l) == Cardinality(Under(L, Newer, l))
           f == [l \in L |-> CHOOSE g \in gs : g.lead = l]
<1>1. /\ L \in SUBSET NewsArticles
      /\ \A g \in gs : g.lead \in L
      /\ \A l \in L : \E g \in gs : l = g.lead
  BY ShownArticles
<1>2. \A g, h \in gs : g.lead = h.lead => g = h
  <2> SUFFICES ASSUME NEW g \in gs, NEW h \in gs, g.lead = h.lead, g # h PROVE FALSE
    OBVIOUS
  <2>1. g.lead \in News!Members(g) /\ h.lead \in News!Members(h)
    BY InGroup
  <2> QED
    BY <2>1 DEF Apart
<1>3. IsFiniteSet(L) /\ Orders(Newer, L) /\ N \in Nat
      /\ \A l \in L : News!Earlier(L, l) = Under(L, Newer, l)
  BY <1>1, NewsFirst
<1> HIDE DEF L
<1>4. Cardinality(gs) = N
  <2>1. \A l \in L : f[l] \in gs /\ f[l].lead = l
    BY <1>1
  <2>2. f \in Bijection(L, gs)
    <3>1. f \in [L -> gs]
      BY <2>1
    <3>2. \A k, l \in L : f[k] = f[l] => k = l
      BY <2>1
    <3>3. \A g \in gs : f[g.lead] = g
      BY <1>1, <1>2, <2>1
    <3> HIDE DEF f
    <3> QED
      BY <1>1, <3>1, <3>2, <3>3 DEF Bijection, Injection, Surjection, IsInjective
  <2>3. ExistsBijection(L, gs)
    BY <2>2 DEF ExistsBijection
  <2> QED
    BY <1>3, <2>3, FS_Bijection
<1>5. /\ \A l \in L : rank(l) \in 0 .. N - 1
      /\ \A r \in 0 .. N - 1 : \E l \in L : rank(l) = r
      /\ \A k, l \in L : rank(k) < rank(l) <=> <<k, l>> \in Newer
  BY <1>3, Ranks
<1>6. \A g \in gs : News!Cardinality(News!Earlier(L, g.lead)) = rank(g.lead)
  BY <1>1, <1>3, NewsCardinality
<1> HIDE DEF rank
<1>7. p = [n \in 1 .. N |-> CHOOSE g \in gs : News!Cardinality(News!Earlier(L, g.lead)) = n - 1]
  BY <1>4, NewsCardinality DEF News!Sorted, L
<1>8. ASSUME NEW n \in 1 .. N PROVE p[n] \in gs /\ rank(p[n].lead) = n - 1
  <2>1. n - 1 \in 0 .. N - 1
    BY <1>3
  <2>2. PICK l \in L : rank(l) = n - 1
    BY <1>5, <2>1
  <2>3. PICK g \in gs : l = g.lead
    BY <1>1, <2>2
  <2>4. \E h \in gs : News!Cardinality(News!Earlier(L, h.lead)) = n - 1
    BY <1>6, <2>2, <2>3
  <2>5. p[n] = CHOOSE h \in gs : News!Cardinality(News!Earlier(L, h.lead)) = n - 1
    BY <1>7
  <2>6. p[n] \in gs /\ News!Cardinality(News!Earlier(L, p[n].lead)) = n - 1
    BY <2>4, <2>5
  <2> QED
    BY <1>6, <2>6
<1>9. DOMAIN p = 1 .. N /\ p \in [1 .. N -> gs]
  BY <1>7, <1>8
<1>10. p \in Seq(gs) /\ Len(p) = N
  <2>1. p \in Seq(gs)
    BY <1>3, <1>9
  <2> QED
    BY <1>3, <1>9, <2>1
<1>11. \A g \in gs : \E n \in 1 .. N : p[n] = g
  <2> SUFFICES ASSUME NEW g \in gs PROVE \E n \in 1 .. N : p[n] = g
    OBVIOUS
  <2>1. g.lead \in L /\ rank(g.lead) \in 0 .. N - 1
    BY <1>1, <1>5
  <2> DEFINE n == rank(g.lead) + 1
  <2>2. n \in 1 .. N /\ n - 1 = rank(g.lead)
    BY <1>3, <2>1
  <2>3. p[n] \in gs /\ rank(p[n].lead) = rank(g.lead) /\ p[n].lead \in L
    BY <1>1, <1>8, <2>2
  <2>4. p[n].lead = g.lead
    <3>1. <<p[n].lead, g.lead>> \notin Newer /\ <<g.lead, p[n].lead>> \notin Newer
      BY <1>5, <2>1, <2>3
    <3> QED
      BY <1>3, <2>1, <2>3, <3>1 DEF Orders
  <2>5. p[n] = g
    BY <1>2, <2>3, <2>4
  <2> QED
    BY <2>2, <2>5
<1>12. News!Range(p) = gs
  BY <1>8, <1>9, <1>11 DEF News!Range
<1>13. ASSUME NEW i \in DOMAIN p, NEW j \in DOMAIN p, i < j
       PROVE  p[i] # p[j] /\ pub[p[i].lead] >= pub[p[j].lead]
  <2>1. /\ p[i] \in gs /\ p[j] \in gs
        /\ rank(p[i].lead) = i - 1 /\ rank(p[j].lead) = j - 1
    BY <1>8, <1>9
  <2>2. rank(p[i].lead) < rank(p[j].lead) /\ p[i] # p[j]
    BY <1>3, <1>9, <1>13, <2>1
  <2>3. p[i].lead \in L /\ p[j].lead \in L
    BY <1>1, <2>1
  <2>4. <<p[i].lead, p[j].lead>> \in Newer
    BY <1>5, <2>2, <2>3
  <2> QED
    BY <1>1, <2>2, <2>3, <2>4, NewsOrder
<1> QED
  BY <1>10, <1>12, <1>13 DEF L

(* What PageSound says of the page p, in this state, for a request.           *)
WellMade(p) ==
  /\ \A i, j \in DOMAIN p : i < j => pub[p[i].lead] >= pub[p[j].lead]
  /\ \A i, j \in DOMAIN p : \A a \in News!Members(p[i]), b \in News!Members(p[j]) :
       i # j \/ a # b =>
         /\ Canon[a] # Canon[b]
         /\ SourceOf[a] = SourceOf[b] => Title[a] # Title[b] /\ i # j
  /\ \A g \in News!Range(p) : \A a \in g.related : News!sameStory(g.lead, a) /\ pub[a] <= pub[g.lead]

NothingMissed(ids, since, limit, group, per, p) ==
  \A a \in News!Wanted(DOMAIN ids, since) :
    \/ \E k \in News!Shown(News!Range(p)) : Canon[k] = Canon[a]
    \/ /\ \A l \in News!Leads(News!Range(p)) :
            pub[l] >= pub[a] \/ News!Have(News!Shown(News!Range(p)), SourceOf[l]) <= per
       /\ \/ Len(p) >= limit
          \/ group /\ Cardinality(News!Shown(News!Range(p))) >= 2 * limit + Extra

Enough(ids, since, per, p) ==
  \A s \in DOMAIN ids :
    \/ News!Have(News!Shown(News!Range(p)), s) >= per
    \/ \A a \in News!Wanted({s}, since) :
         \E k \in News!Shown(News!Range(p)) : Canon[k] = Canon[a]

LEMMA PageMade ==
  ASSUME Published, NEW ids, Places(ids), NEW since, NEW limit \in Nat, NEW group \in BOOLEAN,
         NEW per \in Nat, NEW p,
         p = News!Sorted(News!topUpPerSource(
               News!mergeItems(DOMAIN ids, since, limit, group), ids, since, per))
  PROVE  /\ News!Shown(News!Range(p)) \in SUBSET News!Wanted(DOMAIN ids, since)
         /\ WellMade(p) /\ NothingMissed(ids, since, limit, group, per, p)
         /\ Enough(ids, since, per, p)
<1>1. PICK W : W = News!Wanted(DOMAIN ids, since)
  OBVIOUS
<1>2. PICK gs : gs = News!mergeItems(DOMAIN ids, since, limit, group)
  OBVIOUS
<1>3. PICK T : T = News!topUpPerSource(gs, ids, since, per)
  OBVIOUS
<1>4. /\ W \in SUBSET NewsArticles
      /\ \A g \in gs : Grouped(g)
      /\ Apart(gs)
      /\ News!Shown(gs) \in SUBSET W /\ Once(News!Shown(gs))
      /\ \A a \in W : \/ \E k \in News!Shown(gs) : Canon[k] = Canon[a]
                      \/ /\ \A l \in News!Leads(gs) : pub[l] >= pub[a]
                         /\ \/ Cardinality(News!Leads(gs)) = limit
                            \/ group /\ Cardinality(News!Shown(gs)) = limit * 2 + Extra
  BY <1>1, <1>2, Merged
<1>5. /\ \A g \in T : Grouped(g)
      /\ Apart(T)
      /\ News!Shown(T) \in SUBSET W /\ Once(News!Shown(T))
      /\ News!Shown(gs) \in SUBSET News!Shown(T) /\ News!Leads(gs) \in SUBSET News!Leads(T)
      /\ \A l \in News!Leads(T) :
           l \in News!Leads(gs) \/ News!Have(News!Shown(T), SourceOf[l]) <= per
      /\ \A s \in DOMAIN ids :
           \/ News!Have(News!Shown(T), s) >= per
           \/ \A a \in News!Wanted({s}, since) : \E k \in News!Shown(T) : Canon[k] = Canon[a]
  BY <1>1, <1>3, <1>4, ToppedUp
<1>6. /\ p \in Seq(T) /\ Len(p) = Cardinality(News!Leads(T)) /\ News!Range(p) = T
      /\ \A i, j \in DOMAIN p : i < j => p[i] # p[j] /\ pub[p[i].lead] >= pub[p[j].lead]
  <2>1. p = News!Sorted(T)
    BY <1>2, <1>3
  <2> QED
    BY <1>5, <2>1, PageInOrder
<1>7. \A i \in DOMAIN p : p[i] \in T /\ i \in Nat
  BY <1>6
<1>8. WellMade(p)
  <2>1. ASSUME NEW i \in DOMAIN p, NEW j \in DOMAIN p,
               NEW a \in News!Members(p[i]), NEW b \in News!Members(p[j]), i # j \/ a # b
        PROVE  /\ Canon[a] # Canon[b]
               /\ SourceOf[a] = SourceOf[b] => Title[a] # Title[b] /\ i # j
    <3>1. p[i] \in T /\ p[j] \in T
      BY <1>7
    <3>2. i # j => p[i] # p[j]
      BY <1>6, <1>7
    <3>3. a # b
      BY <1>5, <2>1, <3>1, <3>2 DEF Apart
    <3>4. a \in News!Shown(T) /\ b \in News!Shown(T)
      BY <1>5, <3>1, ShownArticles
    <3>5. ~ News!Twice(a, b) /\ a \in NewsArticles /\ b \in NewsArticles
      BY <1>4, <1>5, <3>3, <3>4 DEF Once
    <3>6. Canon[a] # Canon[b] /\ (SourceOf[a] = SourceOf[b] => Title[a] # Title[b])
      BY <3>3, <3>5, TwiceFacts
    <3>7. SourceOf[a] = SourceOf[b] => i # j
      BY <1>5, <3>1, <3>3 DEF Grouped
    <3> QED
      BY <3>6, <3>7
  <2>2. \A g \in News!Range(p) : \A a \in g.related :
          News!sameStory(g.lead, a) /\ pub[a] <= pub[g.lead]
    BY <1>5, <1>6 DEF Grouped
  <2> QED
    BY <1>6, <2>1, <2>2 DEF WellMade
<1>9. NothingMissed(ids, since, limit, group, per, p)
  <2> SUFFICES ASSUME NEW a \in W, \A k \in News!Shown(T) : Canon[k] # Canon[a]
               PROVE  /\ \A l \in News!Leads(T) :
                           pub[l] >= pub[a] \/ News!Have(News!Shown(T), SourceOf[l]) <= per
                      /\ \/ Len(p) >= limit
                         \/ group /\ Cardinality(News!Shown(T)) >= 2 * limit + Extra
    BY <1>1, <1>6 DEF NothingMissed
  <2>1. /\ \A l \in News!Leads(gs) : pub[l] >= pub[a]
        /\ \/ Cardinality(News!Leads(gs)) = limit
           \/ group /\ Cardinality(News!Shown(gs)) = limit * 2 + Extra
    BY <1>4, <1>5
  <2>2. News!Leads(T) \in SUBSET News!Shown(T) /\ News!Shown(T) \in SUBSET NewsArticles
    BY <1>5, ShownArticles
  <2>3. IsFiniteSet(News!Leads(T)) /\ IsFiniteSet(News!Shown(T))
    BY <2>2, NewsFirst
  <2>4. Cardinality(News!Leads(gs)) <= Cardinality(News!Leads(T))
    BY <1>5, <2>3, FS_Subset
  <2>5. Cardinality(News!Shown(gs)) <= Cardinality(News!Shown(T))
    BY <1>5, <2>3, FS_Subset
  <2>6. Cardinality(News!Leads(T)) \in Nat /\ Cardinality(News!Shown(T)) \in Nat
    BY <2>3, FS_CardinalityType
  <2>7. \/ Len(p) >= limit
        \/ group /\ Cardinality(News!Shown(T)) >= 2 * limit + Extra
    <3>1. CASE Cardinality(News!Leads(gs)) = limit
      BY <1>6, <2>4, <2>6, <3>1
    <3>2. CASE group /\ Cardinality(News!Shown(gs)) = limit * 2 + Extra
      <4>1. Extra \in Nat /\ limit * 2 + Extra = 2 * limit + Extra
        BY NewsConstants
      <4>2. Cardinality(News!Shown(T)) >= Cardinality(News!Shown(gs))
        BY <2>5, <2>6, <3>2, <4>1
      <4> QED
        BY <3>2, <4>1, <4>2
    <3> QED
      BY <2>1, <3>1, <3>2
  <2>8. \A l \in News!Leads(T) :
          pub[l] >= pub[a] \/ News!Have(News!Shown(T), SourceOf[l]) <= per
    BY <1>5, <2>1
  <2> QED
    BY <2>7, <2>8
<1>10. Enough(ids, since, per, p)
  BY <1>5, <1>6 DEF Enough
<1>11. News!Shown(News!Range(p)) \in SUBSET News!Wanted(DOMAIN ids, since)
  BY <1>1, <1>5, <1>6
<1> QED
  BY <1>8, <1>9, <1>10, <1>11

(* PageSound, in these words.                                                 *)
Answered ==
  nAsked # None =>
    /\ News!Shown(News!Range(page)) \in SUBSET News!Wanted(DOMAIN nAsked.ids, nAsked.since)
    /\ WellMade(page)
    /\ NothingMissed(nAsked.ids, nAsked.since, nAsked.limit, nAsked.group, nAsked.per, page)
    /\ Enough(nAsked.ids, nAsked.since, nAsked.per, page)

LEMMA AnsweredIsPageSound == Answered <=> News!PageSound
BY NewsCardinality
   DEF Answered, News!PageSound, News!OnPage, News!WellFormed, News!NothingNewerMissed, News!EnoughOfEach,
       WellMade, NothingMissed, Enough

PageInv == Published /\ Answered

LEMMA PageInit == ASSUME News!Init PROVE PageInv
BY DEF News!Init, PageInv, Published, Answered

LEMMA PageStep ==
  ASSUME PageInv, [News!Next]_news
  PROVE  PageInv'
<1>1. pub' = pub
  BY DEF News!Next, News!handleNews, News!breakingPush, news
<1>2. Published'
  BY <1>1 DEF PageInv, Published
<1>3. \A S, t : News!Wanted(S, t)' = News!Wanted(S, t)
  BY <1>1 DEF News!Wanted
<1>4. \A a, b : News!sameStory(a, b)' <=> News!sameStory(a, b)
  BY <1>1 DEF News!sameStory
<1>5. \A p : WellMade(p) => WellMade(p)'
  BY <1>1, <1>4 DEF WellMade
<1>6. \A ids, since, limit, group, per, p :
        NothingMissed(ids, since, limit, group, per, p) =>
          NothingMissed(ids, since, limit, group, per, p)'
  BY <1>1, <1>3 DEF NothingMissed
<1>7. \A ids, since, per, p : Enough(ids, since, per, p) => Enough(ids, since, per, p)'
  BY <1>3 DEF Enough
<1>8. CASE News!handleNews
  <2>1. PICK list \in Requests, since \in 0 .. NewsTime - 1, group \in BOOLEAN,
             limit \in 1 .. MaxLimit, per \in 0 .. MaxPer :
          LET ids == News!requestedSources(list) IN
          /\ nAsked' = [ids |-> ids, since |-> since, group |-> group, limit |-> limit, per |-> per]
          /\ page' = News!Sorted(News!topUpPerSource(
                        News!mergeItems(DOMAIN ids, since, limit, group), ids, since, per))
    BY <1>8 DEF News!handleNews
  <2>2. limit \in Nat /\ per \in Nat
    BY NewsConstants
  <2> DEFINE ids == News!requestedSources(list)
             p   == News!Sorted(News!topUpPerSource(
                      News!mergeItems(DOMAIN ids, since, limit, group), ids, since, per))
  <2>3. Places(ids)
    BY Requested
  <2>4. /\ News!Shown(News!Range(p)) \in SUBSET News!Wanted(DOMAIN ids, since)
        /\ WellMade(p) /\ NothingMissed(ids, since, limit, group, per, p)
        /\ Enough(ids, since, per, p)
    BY <2>2, <2>3, PageMade DEF PageInv
  <2>5. page' = p /\ nAsked' = [ids |-> ids, since |-> since, group |-> group, limit |-> limit, per |-> per]
    BY <2>1
  <2> HIDE DEF ids, p
  <2>6. Answered'
    BY <1>3, <1>5, <1>6, <1>7, <2>4, <2>5 DEF Answered
  <2> QED
    BY <1>2, <2>6 DEF PageInv
<1>9. CASE News!breakingPush \/ UNCHANGED news
  <2>1. nAsked' = nAsked /\ page' = page
    BY <1>9 DEF News!breakingPush, news
  <2>2. Answered'
    BY <1>3, <1>5, <1>6, <1>7, <2>1 DEF Answered, PageInv
  <2> QED
    BY <1>2, <2>2 DEF PageInv
<1> QED
  BY <1>8, <1>9 DEF News!Next

(* The page that a request names is whole and tells nothing twice, whatever   *)
(* lists the sources have (handleNews, mergeItems, groupStories,              *)
(* topUpPerSource).                                                           *)
THEOREM PageStaysSound == MCSpec => []PageSound
<1>1. MCInit => PageInv
  BY PageInit DEF MCInit
<1>2. PageInv /\ [MCNext]_<<vars, others>> => PageInv'
  <2> SUFFICES ASSUME PageInv, [MCNext]_<<vars, others>> PROVE PageInv'
    OBVIOUS
  <2>1. [News!Next]_news
    BY DEF MCNext, others
  <2> QED
    BY <2>1, PageStep
<1>3. PageInv => PageSound
  BY AnsweredIsPageSound DEF PageInv, PageSound
<1> QED
  BY <1>1, <1>2, <1>3, PTL DEF MCSpec

------------------------------------------------------------------------------
(* The rate limiter (RateLimiter). The proofs follow the tokens that an       *)
(* address has, which the table only writes down: pruning does not change     *)
(* them, because a bucket that is old enough to go is full.                   *)

IsTable(t) ==
  /\ DOMAIN t \subseteq Addrs /\ t \in [DOMAIN t -> Bucket]
  /\ \A a \in DOMAIN t : t[a].last <= now

EmptyTable == [x \in {} |-> [tokens |-> 0, last |-> 0]]

\* What allow looks at after the prune and the reset.
Kept == IF Crowded(Pruned) THEN EmptyTable ELSE Pruned

LEMMA TokensType ==
  ASSUME NEW t, TypeOK, IsTable(t), NEW a \in Addrs
  PROVE  Tokens(t, a) \in 0 .. Burst
BY RateLimiterAssumption DEF Tokens, Lower, IsTable, Bucket, TypeOK

LEMMA EmptyIsTable == IsTable(EmptyTable) /\ DOMAIN EmptyTable = {}
BY DEF IsTable, EmptyTable

LEMMA EmptyTokens ==
  ASSUME NEW a \in Addrs
  PROVE  Tokens(EmptyTable, a) = Burst
BY EmptyIsTable DEF Tokens

\* The prune leaves a table, with some of the addresses and all of the tokens.
LEMMA PrunedIsTable ==
  ASSUME TypeOK
  PROVE  IsTable(Pruned) /\ DOMAIN Pruned \subseteq DOMAIN buckets
<1>1. CASE PruneDue
  BY <1>1 DEF Pruned, Restrict, IsTable, TypeOK
<1>2. CASE ~ PruneDue
  BY <1>2 DEF Pruned, IsTable, TypeOK
<1> QED BY <1>1, <1>2

LEMMA PruneKeepsTokens ==
  ASSUME TypeOK, NEW a \in Addrs
  PROVE  Tokens(Pruned, a) = Tokens(buckets, a)
<1>1. CASE ~ PruneDue
  BY <1>1 DEF Pruned
<1>2. CASE PruneDue
  <2> DEFINE S == {x \in DOMAIN buckets : Busy(x)}
  <2>1. Pruned = [x \in S |-> buckets[x]]
    BY <1>2 DEF Pruned, Restrict
  <2>2. CASE a \in S
    BY <2>1, <2>2 DEF Tokens
  <2>3. CASE a \in DOMAIN buckets \ S
    <3>1. now - buckets[a].last > Idle
      BY <2>3, RateLimiterAssumption DEF Busy, TypeOK, Bucket
    <3>2. buckets[a].tokens \in 0 .. Burst
      BY <2>3 DEF TypeOK, Bucket
    <3>3. Tokens(buckets, a) = Burst
      BY <2>3, <3>1, <3>2, RateLimiterAssumption DEF Tokens, Lower, TypeOK, Bucket
    <3>4. Tokens(Pruned, a) = Burst
      BY <2>1, <2>3 DEF Tokens
    <3> QED BY <3>3, <3>4
  <2>4. CASE a \notin DOMAIN buckets
    BY <2>1, <2>4 DEF Tokens
  <2> QED BY <2>2, <2>3, <2>4
<1> QED BY <1>1, <1>2

LEMMA KeptIsTable ==
  ASSUME TypeOK
  PROVE  IsTable(Kept)
BY PrunedIsTable, EmptyIsTable DEF Kept

\* A request is charged to the tokens of its address and to no other.
LEMMA PutTokens ==
  ASSUME TypeOK, NEW t, IsTable(t), NEW a \in Addrs, NEW x \in Addrs
  PROVE  /\ IsTable(Put(t, a, [tokens |-> Charged(t, a), last |-> now]))
         /\ Tokens(Put(t, a, [tokens |-> Charged(t, a), last |-> now]), x)
              = IF x = a THEN Charged(t, a) ELSE Tokens(t, x)
<1> DEFINE b == [tokens |-> Charged(t, a), last |-> now]
<1>1. Charged(t, a) \in 0 .. Burst
  BY TokensType, RateLimiterAssumption DEF Charged
<1>2. b \in Bucket /\ b.last = now /\ b.tokens = Charged(t, a) /\ now \in Nat
  BY <1>1 DEF Bucket, TypeOK
<1> HIDE DEF b
<1>3. IsTable(Put(t, a, b))
  BY <1>2 DEF IsTable, Put
<1>4. DOMAIN Put(t, a, b) = DOMAIN t \union {a}
  BY DEF Put
<1>5. ASSUME x = a PROVE Tokens(Put(t, a, b), x) = Charged(t, a)
  <2>1. Put(t, a, b)[x] = b
    BY <1>5 DEF Put
  <2> QED BY <1>1, <1>2, <1>4, <1>5, <2>1, RateLimiterAssumption DEF Tokens, Lower
<1>6. ASSUME x # a PROVE Tokens(Put(t, a, b), x) = Tokens(t, x)
  <2>1. x \in DOMAIN t => Put(t, a, b)[x] = t[x]
    BY <1>6 DEF Put
  <2> QED BY <1>4, <1>6, <2>1 DEF Tokens
<1> QED BY <1>3, <1>5, <1>6 DEF b

LEMMA allowTable ==
  ASSUME TypeOK, NEW a \in Addrs, allow(a)
  PROVE  /\ buckets' = Put(Kept, a, [tokens |-> Charged(Kept, a), last |-> now])
         /\ now' = now
BY DEF allow, Kept, EmptyTable

\* The tokens after allow, counted at the same time.
LEMMA allowTokens ==
  ASSUME TypeOK, NEW a \in Addrs, allow(a), NEW x \in Addrs
  PROVE  Tokens(buckets, x)' = IF x = a THEN Charged(Kept, a) ELSE Tokens(Kept, x)
<1>1. Tokens(buckets, x)' = Tokens(buckets', x)
  <2>1. now' = now
    BY allowTable
  <2> QED BY <2>1 DEF Tokens, Lower
<1> DEFINE new == Put(Kept, a, [tokens |-> Charged(Kept, a), last |-> now])
<1>2. Tokens(new, x) = IF x = a THEN Charged(Kept, a) ELSE Tokens(Kept, x)
  BY KeptIsTable, PutTokens
<1>3. buckets' = new
  BY allowTable
<1> HIDE DEF new
<1> QED BY <1>1, <1>2, <1>3

LEMMA KeptTokens ==
  ASSUME TypeOK, NEW x \in Addrs
  PROVE  Tokens(Kept, x) = IF Crowded(Pruned) THEN Burst ELSE Tokens(buckets, x)
BY PruneKeepsTokens, EmptyTokens DEF Kept

(* The variables keep their types. *)
THEOREM RateTyped == Spec => []TypeOK
<1>1. Init => TypeOK
  BY RateLimiterAssumption DEF Init, TypeOK
<1>2. TypeOK /\ [Next]_vars => TypeOK'
  <2> SUFFICES ASSUME TypeOK, [Next]_vars PROVE TypeOK'
    OBVIOUS
  <2>1. CASE Tick
    BY <2>1 DEF Tick, TypeOK, Bucket
  <2>2. ASSUME NEW a \in Addrs, allow(a) PROVE TypeOK'
    <3>1. IsTable(buckets') /\ now' = now
      BY <2>2, allowTable, KeptIsTable, PutTokens
    <3>2. /\ DOMAIN buckets' \subseteq Addrs /\ buckets' \in [DOMAIN buckets' -> Bucket]
          /\ \A x \in DOMAIN buckets' : buckets'[x].last <= now'
      BY <3>1 DEF IsTable
    <3>3. granted' \in [Addrs -> Nat]
      BY <2>2 DEF allow, TypeOK
    <3>4. now' \in Nat /\ resetAt' \in 0 .. now' /\ lastPrune' \in Int
      BY <2>2 DEF allow, TypeOK
    <3> QED BY <3>2, <3>3, <3>4 DEF TypeOK, Bucket
  <2>3. CASE UNCHANGED vars
    BY <2>3 DEF vars, TypeOK, Bucket
  <2> QED BY <2>1, <2>2, <2>3 DEF Next
<1> QED BY <1>1, <1>2, PTL DEF Spec

\* What an address was granted and what it may still have at once stay within the
\* burst and the time: RateBound alone does not say what is left in the bucket.
Budget == \A a \in Addrs : granted[a] + Tokens(buckets, a) <= Burst + (now - resetAt)

LEMMA BudgetBounds == TypeOK /\ Budget => RateBound
<1> SUFFICES ASSUME TypeOK, Budget, NEW a \in Addrs
             PROVE  granted[a] <= Burst + (now - resetAt)
  BY DEF RateBound
<1>1. Tokens(buckets, a) \in Nat
  BY TokensType, RateLimiterAssumption DEF IsTable, TypeOK
<1>2. granted[a] + Tokens(buckets, a) <= Burst + (now - resetAt)
  BY DEF Budget
<1> QED BY <1>1, <1>2, RateLimiterAssumption DEF TypeOK

LEMMA TickTokens ==
  ASSUME TypeOK, Tick, NEW a \in Addrs
  PROVE  Tokens(buckets, a)' = IF Tokens(buckets, a) < Burst THEN Tokens(buckets, a) + 1 ELSE Burst
<1>1. CASE a \in DOMAIN buckets
  <2>1. buckets[a].tokens \in 0 .. Burst /\ buckets[a].last \in Nat
    BY <1>1 DEF TypeOK, Bucket
  <2> QED BY <1>1, <2>1, RateLimiterAssumption DEF Tick, Tokens, Lower, TypeOK
<1>2. CASE a \notin DOMAIN buckets
  BY <1>2, RateLimiterAssumption DEF Tick, Tokens
<1> QED BY <1>1, <1>2

LEMMA BudgetKept == TypeOK /\ Budget /\ [Next]_vars => Budget'
<1> SUFFICES ASSUME TypeOK, Budget, [Next]_vars, NEW x \in Addrs
             PROVE  granted'[x] + Tokens(buckets, x)' <= Burst + (now' - resetAt')
  BY DEF Budget
<1>0. /\ granted[x] + Tokens(buckets, x) <= Burst + (now - resetAt)
      /\ granted[x] \in Nat /\ Tokens(buckets, x) \in 0 .. Burst
      /\ now \in Nat /\ resetAt \in 0 .. now /\ Burst \in Nat \ {0}
  BY TokensType, RateLimiterAssumption DEF Budget, IsTable, TypeOK
<1>1. CASE Tick
  <2>1. granted' = granted /\ now' = now + 1 /\ resetAt' = resetAt
    BY <1>1 DEF Tick
  <2> QED BY <1>0, <1>1, <2>1, TickTokens
<1>2. ASSUME NEW a \in Addrs, allow(a)
      PROVE  granted'[x] + Tokens(buckets, x)' <= Burst + (now' - resetAt')
  <2>1. Tokens(buckets, x)' = IF x = a THEN Charged(Kept, a) ELSE Tokens(Kept, x)
    BY <1>2, allowTokens
  <2>2. Tokens(Kept, x) \in 0 .. Burst
    BY TokensType, KeptIsTable
  <2>3. CASE Crowded(Pruned)
    <3>1. Tokens(Kept, x) = Burst
      BY <2>3, KeptTokens
    <3>2. Kept = [y \in {} |-> [tokens |-> 0, last |-> 0]]
      BY <2>3 DEF Kept, EmptyTable
    <3>3. /\ now' = now /\ resetAt' = now
          /\ granted' = IF Tokens(Kept, a) > 0 THEN [[y \in Addrs |-> 0] EXCEPT ![a] = @ + 1]
                        ELSE [y \in Addrs |-> 0]
      BY <1>2, <2>3, <3>2 DEF allow
    <3>4. CASE x = a
      BY <1>0, <2>1, <3>1, <3>3, <3>4 DEF Charged
    <3>5. CASE x # a
      BY <1>0, <2>1, <3>1, <3>3, <3>5
    <3> QED BY <3>4, <3>5
  <2>4. CASE ~ Crowded(Pruned)
    <3>1. Tokens(Kept, x) = Tokens(buckets, x) /\ Kept = Pruned
      BY <2>4, KeptTokens DEF Kept
    <3>2. /\ now' = now /\ resetAt' = resetAt
          /\ granted' = IF Tokens(Kept, a) > 0 THEN [granted EXCEPT ![a] = @ + 1] ELSE granted
      BY <1>2, <2>4, <3>1 DEF allow
    <3>3. CASE x = a
      BY <1>0, <2>1, <3>1, <3>2, <3>3 DEF Charged, TypeOK
    <3>4. CASE x # a
      BY <1>0, <2>1, <3>1, <3>2, <3>4 DEF TypeOK
    <3> QED BY <3>3, <3>4
  <2> QED BY <2>3, <2>4
<1>3. CASE UNCHANGED vars
  BY <1>0, <1>3 DEF vars, Tokens
<1> QED BY <1>1, <1>2, <1>3 DEF Next

LEMMA TableKept == TypeOK /\ TableBounded /\ [Next]_vars => TableBounded'
<1> SUFFICES ASSUME TypeOK, TableBounded, [Next]_vars PROVE TableBounded'
  OBVIOUS
<1>1. ASSUME NEW a \in Addrs, allow(a) PROVE TableBounded'
  <2>1. DOMAIN buckets' = DOMAIN Kept \union {a}
    BY <1>1, allowTable DEF Put
  <2>2. IsFiniteSet(DOMAIN Kept)
    BY KeptIsTable, FS_Subset, RateLimiterAssumption DEF IsTable
  <2>3. Cardinality(DOMAIN Kept) \in Nat /\ Cardinality(DOMAIN Kept) <= ResetAt
    <3>1. CASE Crowded(Pruned)
      <4>1. DOMAIN Kept = {}
        BY <3>1, EmptyIsTable DEF Kept
      <4> QED BY <4>1, FS_EmptySet, RateLimiterAssumption
    <3>2. CASE ~ Crowded(Pruned)
      <4>1. Kept = Pruned /\ ~ (Cardinality(DOMAIN Pruned) > ResetAt)
        BY <3>2 DEF Kept, Crowded
      <4> QED BY <2>2, <4>1, FS_CardinalityType, RateLimiterAssumption
    <3> QED BY <3>1, <3>2
  <2>4. Cardinality(DOMAIN Kept \union {a})
          = IF a \in DOMAIN Kept THEN Cardinality(DOMAIN Kept) ELSE Cardinality(DOMAIN Kept) + 1
    BY <2>2, FS_AddElement
  <2> QED BY <2>1, <2>3, <2>4, RateLimiterAssumption DEF TableBounded
<1>2. CASE Tick
  BY <1>2 DEF Tick, TableBounded
<1>3. CASE UNCHANGED vars
  BY <1>3 DEF vars, TableBounded
<1> QED BY <1>1, <1>2, <1>3 DEF Next

(* However many addresses come by, the table stays bounded, and no address is  *)
(* granted more than its burst and one request per time unit (allow).          *)
THEOREM RateIsBounded == Spec => []Bounded
<1>1. Init => Budget /\ TableBounded
  BY FS_EmptySet, RateLimiterAssumption DEF Init, Budget, Tokens, TableBounded
<1>2. TypeOK /\ Budget /\ TableBounded => Bounded
  BY BudgetBounds DEF Bounded
<1> QED BY <1>1, <1>2, RateTyped, BudgetKept, TableKept, PTL DEF Spec

(* The table implements a bucket per address that is kept for ever.            *)
THEOREM RefinesTokenBuckets == Spec => ImplementsTokenBuckets
<1>1. Init => Abstract!Init
  BY FS_EmptySet, RateLimiterAssumption DEF Init, Abstract!Init, Tokens, Crowded
<1>2. TypeOK /\ [Next]_vars => [Abstract!Next]_Abstract!vars
  <2> SUFFICES ASSUME TypeOK, [Next]_vars PROVE [Abstract!Next]_Abstract!vars
    OBVIOUS
  <2> DEFINE tokens == [a \in Addrs |-> Tokens(buckets, a)]
  <2>1. CASE Tick
    <3>1. tokens' = [a \in Addrs |-> IF tokens[a] < Burst THEN tokens[a] + 1 ELSE Burst]
      BY <2>1, TickTokens
    <3>2. Crowded(buckets)' = Crowded(buckets)
      BY <2>1 DEF Tick, Crowded
    <3> QED BY <3>1, <3>2 DEF Abstract!Next, Abstract!Elapse
  <2>2. ASSUME NEW a \in Addrs, allow(a) PROVE Abstract!Ask(a)
    <3> DEFINE from == [x \in Addrs |-> Tokens(Kept, x)]
    <3>1. tokens' = [from EXCEPT ![a] = Charged(Kept, a)]
      BY <2>2, allowTokens
    <3>2. Tokens(Kept, a) \in 0 .. Burst
      BY TokensType, KeptIsTable
    <3>3. Abstract!Grant(a, from) \/ Abstract!Refuse(a, from)
      <4>1. from[a] = Tokens(Kept, a)
        OBVIOUS
      <4>2. CASE Tokens(Kept, a) > 0
        <5>1. tokens' = [from EXCEPT ![a] = from[a] - 1]
          BY <3>1, <4>1, <4>2 DEF Charged
        <5> QED BY <4>1, <4>2, <5>1 DEF Abstract!Grant
      <4>3. CASE Tokens(Kept, a) = 0
        <5>1. ASSUME NEW x \in Addrs PROVE Tokens(buckets, x)' = Tokens(Kept, x)
          BY <2>2, <4>3, allowTokens DEF Charged
        <5>2. tokens' = from
          BY <5>1
        <5> QED BY <4>1, <4>3, <5>2 DEF Abstract!Refuse
      <4> QED BY <3>2, <4>2, <4>3, RateLimiterAssumption
    <3>4. from \in IF Crowded(buckets) THEN {tokens, Abstract!Full} ELSE {tokens}
      <4>1. CASE ~ Crowded(Pruned)
        BY <4>1, KeptTokens
      <4>2. CASE Crowded(Pruned)
        <5>1. from = Abstract!Full
          BY <4>2, KeptTokens DEF Abstract!Full
        <5>2. IsFiniteSet(DOMAIN buckets)
          BY FS_Subset, RateLimiterAssumption DEF TypeOK
        <5>3. /\ Cardinality(DOMAIN Pruned) <= Cardinality(DOMAIN buckets)
              /\ Cardinality(DOMAIN Pruned) \in Nat /\ Cardinality(DOMAIN buckets) \in Nat
          BY <5>2, PrunedIsTable, FS_Subset, FS_CardinalityType
        <5>4. Crowded(buckets)
          BY <4>2, <5>3, RateLimiterAssumption DEF Crowded
        <5> QED BY <5>1, <5>4
      <4> QED BY <4>1, <4>2
    <3>5. Crowded(buckets)' \in BOOLEAN
      BY DEF Crowded
    <3> QED BY <3>3, <3>4, <3>5 DEF Abstract!Ask
  <2>3. CASE UNCHANGED vars
    BY <2>3 DEF vars, Abstract!vars, Tokens, Crowded
  <2> QED BY <2>1, <2>2, <2>3 DEF Next, Abstract!Next
<1> QED BY <1>1, <1>2, RateTyped, PTL DEF Spec, ImplementsTokenBuckets, Abstract!Spec

------------------------------------------------------------------------------
(* The types of all the parts: what the invariants above leave open of them.  *)

(* Nothing that the counter remembers is older than two hours.                *)
SeenYoung == \A t \in pSeen : lastFetch - t <= 2 * Hour

(* add drops what is older (p2kCounter.add).                                  *)
LEMMA SeenStep ==
  ASSUME CounterInv, SeenYoung, [P2K!Next]_p2k
  PROVE  SeenYoung'
<1>1. CASE P2K!Add
  BY <1>1 DEF P2K!Add, SeenYoung
<1>2. CASE ~ P2K!Add
  BY <1>2 DEF P2K!Next, P2K!Tick, P2K!Raise, P2K!Poll, P2K!Fail, p2k, SeenYoung
<1> QED
  BY <1>1, <1>2

(* The sites of a run of the icon job, and no more at a time than the slots.  *)
Fetching == todo \subseteq Hosts /\ busy \subseteq Hosts /\ IsFiniteSet(busy) /\ Cardinality(busy) <= Slots

(* A site is taken up only while there is a slot (iconJob).                   *)
LEMMA FetchingStep ==
  ASSUME Fetching, [Icon!Next]_icon
  PROVE  Fetching'
<1>0. Slots \in Nat /\ Slots > 0
  BY StoresAssumption DEF Icon!IconCacheAssumption
<1>1. \A S : Icon!Cardinality(S) = Cardinality(S)
  BY DEF Icon!Cardinality, Cardinality
<1>2. ASSUME busy' \in SUBSET busy, todo' \in SUBSET Hosts PROVE Fetching'
  <2>1. /\ IsFiniteSet(busy') /\ Cardinality(busy') <= Cardinality(busy)
        /\ Cardinality(busy) \in Nat /\ Cardinality(busy') \in Nat
    BY <1>2, FS_Subset, FS_CardinalityType DEF Fetching
  <2>2. Cardinality(busy)' = Cardinality(busy')
    OBVIOUS
  <2> QED
    BY <1>0, <1>2, <2>1, <2>2 DEF Fetching
<1>3. ASSUME NEW h \in Hosts, Icon!Ask(h) PROVE Fetching'
  <2>1. /\ Cardinality(busy) < Slots
        /\ todo' = todo \ {h} /\ busy' = busy \union {h}
    BY <1>1, <1>3 DEF Icon!Ask
  <2>2. /\ IsFiniteSet(busy') /\ Cardinality(busy) \in Nat
        /\ Cardinality(busy') = Cardinality(busy) \/ Cardinality(busy') = Cardinality(busy) + 1
    <3>1. IsFiniteSet(busy)
      BY DEF Fetching
    <3>2. /\ IsFiniteSet(busy \union {h})
          /\ \/ Cardinality(busy \union {h}) = Cardinality(busy)
             \/ Cardinality(busy \union {h}) = Cardinality(busy) + 1
      BY <3>1, FS_AddElement
    <3> QED
      BY <2>1, <3>1, <3>2, FS_CardinalityType
  <2>3. Cardinality(busy') <= Slots
    BY <1>0, <2>1, <2>2
  <2> QED
    BY <2>1, <2>2, <2>3 DEF Fetching
<1>4. CASE [\E h \in Hosts : Icon!Skip(h) \/ Icon!Found(h) \/ Icon!NotFound(h)]_icon
  <2>1. busy' \in SUBSET busy /\ todo' \in SUBSET Hosts
    BY <1>4 DEF Icon!Skip, Icon!Found, Icon!NotFound, icon, Fetching
  <2> QED
    BY <1>2, <2>1
<1>5. CASE Icon!Tick \/ Icon!Start \/ Icon!Unchanged \/ Icon!Save \/ Icon!Written \/ Icon!NotWritten
           \/ Icon!Restart
  <2>1. busy' \in SUBSET busy /\ todo' \in SUBSET Hosts
    BY <1>5 DEF Icon!Tick, Icon!Start, Icon!Unchanged, Icon!Save, Icon!Written, Icon!NotWritten,
       Icon!Restart, Fetching
  <2> QED
    BY <1>2, <2>1
<1> QED
  BY <1>3, <1>4, <1>5 DEF Icon!Next

(* With the invariant of the icons, that is all their types say.              *)
LEMMA IconTypes ==
  ASSUME IconInv, Fetching
  PROVE  Icon!TypeOK
<1>1. IconTyped
  BY DEF IconInv
<1>2. \A S : Icon!Cardinality(S) = Cardinality(S)
  BY DEF Icon!Cardinality, Cardinality
<1>3. ASSUME NEW f, f = [h \in DOMAIN f |-> f[h]], Dated(f) PROVE f \in Icon!Files
  <2>1. f \in [DOMAIN f -> Icon!Icons] /\ DOMAIN f \in SUBSET Hosts
    BY <1>3 DEF Dated
  <2> QED
    BY <2>1 DEF Icon!Files
<1>4. m \in [DOMAIN m -> Icon!Entry]
  <2>1. \A h \in DOMAIN m : [png |-> m[h].png, at |-> m[h].at] \in Icon!Entry
    BY <1>1 DEF IconTyped, Icon!Entry
  <2>2. m = [h \in DOMAIN m |-> [png |-> m[h].png, at |-> m[h].at]]
    BY <1>1 DEF IconTyped
  <2> QED
    BY ONLY <2>1, <2>2
<1>5. iCopy \in Icon!Files /\ iDisk \in Icon!Files
  BY <1>1, <1>3 DEF IconTyped
<1> QED
  BY <1>1, <1>2, <1>4, <1>5 DEF Icon!TypeOK, IconTyped, Icon!Icons, Fetching

(* What the watcher remembers, by kind, and a run for every message.          *)
Remembered ==
  /\ level \in 0 .. 9 \union Days
  /\ keys \subseteq {"event", "barrier"} \X {0} \union {"sector"} \X Codes \union {"story"} \X Articles
  /\ Len(obs) <= MaxRuns

(* A run of any rule remembers levels and keys of its own kind.               *)
LEMMA RememberedStep ==
  ASSUME RulesInv, RulesInv', Remembered, [Rules!Next]_rules
  PROVE  Remembered'
<1> DEFINE Keys == {"event", "barrier"} \X {0} \union {"sector"} \X Codes \union {"story"} \X Articles
<1>0. /\ Levels \subseteq 1 .. 9 /\ MaxRuns \in Nat /\ Len(obs) \in Nat
      /\ level \in 0 .. 9 \union Days /\ keys \in SUBSET Keys /\ Len(obs) <= MaxRuns
  BY RulesConstants DEF RulesInv, RulesTyped, Remembered, Rules!WatchRulesAssumption
<1>1. /\ Rules!Event \in Keys /\ <<"barrier", 0>> \in Keys
      /\ \A c \in Codes : <<"sector", c>> \in Keys
  BY DEF Rules!Event
<1>2. ASSUME Len(obs) < MaxRuns, NEW o, obs' = Append(obs, o) PROVE Len(obs') <= MaxRuns
  <2>1. obs \in Seq(Hist(rule))
    BY DEF RulesInv, RulesTyped
  <2>2. Len(obs') = Len(obs) + 1
    BY <1>2, <2>1
  <2> QED
    BY <1>0, <1>2, <2>2
<1>3. ASSUME \E o : Len(obs) < MaxRuns /\ obs' = Append(obs, o),
             level' \in 0 .. 9 \union Days, keys' \in SUBSET Keys
      PROVE  Remembered'
  BY <1>2, <1>3 DEF Remembered
<1> HIDE DEF Keys
<1>4. CASE Rules!Missed
  BY <1>0, <1>3, <1>4 DEF Rules!Missed, Rules!Run
<1>5. CASE Rules!NCTV
  BY <1>0, <1>3, <1>5 DEF Rules!NCTV, Rules!Run, Rules!Findings
<1>6. CASE Rules!NLAlert \/ Rules!Amber \/ Rules!Quake \/ Rules!alarmWatchPush
  BY <1>0, <1>1, <1>3, <1>6 DEF Rules!NLAlert, Rules!Amber, Rules!Quake, Rules!alarmWatchPush, Rules!Run,
     Rules!Remember
<1>7. CASE Rules!Radiation
  BY <1>0, <1>1, <1>3, <1>7 DEF Rules!Radiation, Rules!Run
<1>8. CASE Rules!Water
  <2>1. PICK o \in [code : Codes, open : BOOLEAN] :
          /\ Len(obs) < MaxRuns /\ obs' = Append(obs, o)
          /\ keys' = Rules!Current(o) /\ level' = level
    BY <1>8 DEF Rules!Water, Rules!Run, Rules!WaterKeys, Rules!Findings
  <2>2. Rules!Current(o) \in SUBSET Keys
    <3>1. o.code \in Codes
      BY <2>1
    <3> QED
      BY <1>1, <3>1 DEF Rules!Current
  <2> QED
    BY <1>0, <1>3, <2>1, <2>2
<1>9. CASE Rules!KNMI
  <2>1. rule' = "knmi" /\ keys' = keys /\ \E o : Len(obs) < MaxRuns /\ obs' = Append(obs, o)
    BY <1>9 DEF Rules!KNMI, Rules!Run
  <2>2. level' \in 0 .. 3
    BY <2>1 DEF RulesInv, Memory, MemKNMI
  <2> QED
    BY <1>0, <1>3, <2>1, <2>2
<1>10. CASE Rules!breakingPush
  <2>1. PICK o \in UNION {[g -> {0, 4}] : g \in SUBSET Articles} :
          /\ Len(obs) < MaxRuns /\ obs' = Append(obs, o) /\ level' = level
          /\ keys' = keys \union (IF Rules!Big(o) THEN Rules!StoryKeys(o) ELSE {})
    BY <1>10 DEF Rules!breakingPush, Rules!Run, Rules!Remember, Rules!Findings
  <2>2. Rules!StoryKeys(o) \in SUBSET Keys
    <3>1. DOMAIN o \in SUBSET Articles
      BY <2>1
    <3> QED
      BY <3>1 DEF Rules!StoryKeys, Keys
  <2> QED
    BY <1>0, <1>3, <2>1, <2>2
<1>11. CASE Rules!Waste
  BY <1>0, <1>3, <1>11 DEF Rules!Waste, Rules!Findings
<1>12. CASE UNCHANGED rules
  BY <1>12 DEF rules, Remembered
<1> QED
  BY <1>4, <1>5, <1>6, <1>7, <1>8, <1>9, <1>10, <1>11, <1>12 DEF Rules!Next

(* With the invariant of the rules, that is all their types say.              *)
LEMMA RulesTypes ==
  ASSUME RulesInv, Remembered
  PROVE  Rules!TypeOK
BY DEF RulesInv, RulesTyped, Remembered, Rules!TypeOK

(* What a request asks for; the groups of a page, and those the watcher tells. *)
Asking ==
  nAsked = None \/ /\ News!IsInjective(nAsked.ids) /\ DOMAIN nAsked.ids \subseteq Sources
                   /\ nAsked.since \in 0 .. NewsTime /\ nAsked.group \in BOOLEAN
                   /\ nAsked.limit \in 1 .. MaxLimit /\ nAsked.per \in 0 .. MaxPer

Groups == [lead : NewsArticles, related : SUBSET NewsArticles]
InGroups == News!Range(page) \subseteq Groups /\ (nTold = None \/ nTold \subseteq Groups)

(* A page is made of groups of articles, and so is what the watcher tells.    *)
LEMMA NewsTypedStep ==
  ASSUME Published, Asking, InGroups, [News!Next]_news
  PROVE  Asking' /\ InGroups'
<1>1. CASE News!handleNews
  <2>1. PICK list \in Requests, since \in 0 .. NewsTime - 1, group \in BOOLEAN,
             limit \in 1 .. MaxLimit, per \in 0 .. MaxPer :
          LET ids == News!requestedSources(list) IN
          /\ nAsked' = [ids |-> ids, since |-> since, group |-> group, limit |-> limit, per |-> per]
          /\ page' = News!Sorted(News!topUpPerSource(
                        News!mergeItems(DOMAIN ids, since, limit, group), ids, since, per))
    BY <1>1 DEF News!handleNews
  <2>2. limit \in Nat /\ per \in Nat /\ since \in 0 .. NewsTime
    BY NewsConstants
  <2>3. PICK ids : ids = News!requestedSources(list)
    OBVIOUS
  <2>4. Places(ids)
    BY <2>3, Requested
  <2>5. PICK gs : gs = News!mergeItems(DOMAIN ids, since, limit, group)
    OBVIOUS
  <2>6. PICK T : T = News!topUpPerSource(gs, ids, since, per)
    OBVIOUS
  <2>7. PICK W : W = News!Wanted(DOMAIN ids, since)
    OBVIOUS
  <2>8. (\A g \in gs : Grouped(g)) /\ Apart(gs) /\ News!Shown(gs) \in SUBSET W /\ Once(News!Shown(gs))
    BY <2>1, <2>2, <2>5, <2>7, Merged
  <2>9. (\A g \in T : Grouped(g)) /\ Apart(T)
    BY <2>2, <2>4, <2>6, <2>7, <2>8, ToppedUp
  <2>10. News!Range(page') = T
    <3>1. page' = News!Sorted(T)
      BY <2>1, <2>3, <2>5, <2>6
    <3> QED
      BY <2>9, <3>1, PageInOrder
  <2>11. T \subseteq Groups
    BY <2>9 DEF Grouped, Groups
  <2>12. nTold' = nTold /\ nAsked' = [ids |-> ids, since |-> since, group |-> group, limit |-> limit, per |-> per]
    BY <1>1, <2>1, <2>3 DEF News!handleNews
  <2>13. Asking'
    BY <2>2, <2>4, <2>12 DEF Asking, Places, News!IsInjective
  <2> QED
    BY <2>10, <2>11, <2>12, <2>13 DEF InGroups
<1>2. CASE News!breakingPush
  <2>1. nTold' \subseteq News!Regrouped /\ UNCHANGED <<nAsked, page>>
    BY <1>2 DEF News!breakingPush
  <2>2. PICK most : most \in Nat /\ most = 1000
    OBVIOUS
  <2> DEFINE gs == News!mergeItems(Sources, NewsTime - LookBack, most, TRUE)
  <2>3. \A g \in gs : Grouped(g)
    <3>1. PICK W : W = News!Wanted(Sources, NewsTime - LookBack)
      OBVIOUS
    <3>2. ASSUME NEW group, group \in BOOLEAN
          PROVE  \A g \in News!mergeItems(Sources, NewsTime - LookBack, most, group) : Grouped(g)
      BY <2>2, <3>1, <3>2, Merged
    <3> QED
      BY <3>2, Zenon
  <2> HIDE DEF gs
  <2>4. News!Leads(gs) \in SUBSET NewsArticles
    BY <2>3, ShownArticles
  <2>5. \A g \in News!Regrouped : Grouped(g)
    <3>1. News!Regrouped = News!groupStories(News!Leads(gs))
      BY <2>2 DEF News!Regrouped, gs
    <3> QED
      BY <2>4, <3>1, Stories
  <2>6. News!Regrouped \subseteq Groups
    BY <2>5 DEF Grouped, Groups
  <2> QED
    BY <2>1, <2>6 DEF Asking, InGroups
<1>3. CASE UNCHANGED news
  BY <1>3 DEF news, Asking, InGroups
<1> QED
  BY <1>1, <1>2, <1>3 DEF News!Next

(* That is all the types of the page say.                                     *)
LEMMA NewsTypes ==
  ASSUME Published, Asking, InGroups
  PROVE  News!TypeOK
BY DEF Published, Asking, InGroups, Groups, News!TypeOK

(* The bounds of the model of the waste calendars.                            *)
Bounds == moves \in 0 .. MaxMoves /\ reloads \in 0 .. MaxReloads

(* The counters of the model stay within their bounds.                        *)
LEMMA BoundsStep ==
  ASSUME Bounds, [Waste!Next]_waste
  PROVE  Bounds'
<1>0. MaxMoves \in Nat /\ MaxReloads \in Nat
  BY StoresAssumption DEF Waste!WasteLookupAssumption
<1>1. CASE Waste!Reload
  BY <1>0, <1>1 DEF Waste!Reload, Bounds
<1>2. CASE Waste!Move
  <2>1. moves < MaxMoves /\ moves' = moves + 1 /\ reloads' = reloads
    BY <1>2 DEF Waste!Move
  <2> QED
    BY <1>0, <2>1 DEF Bounds
<1>3. CASE UNCHANGED <<moves, reloads>>
  BY <1>3 DEF Bounds
<1> QED
  BY <1>1, <1>2, <1>3 DEF Waste!Next, Waste!Elsewise, Waste!Start, Waste!AskOne, Waste!AskOwn,
     Waste!AskRegional, waste

(* What the parts other than the rate limiter keep, each by its own steps.    *)
AllTyped ==
  /\ which \in {"rate", "p2k", "bridges", "restarts", "file", "icons", "rules", "news", "waste"}
  /\ CounterInv /\ SeenYoung /\ FileInv /\ IconInv /\ Fetching /\ BridgeInv /\ RulesInv /\ Remembered
  /\ PageInv /\ Asking /\ InGroups /\ WasteInv /\ Bounds

(* All of them hold when the server starts.                                   *)
LEMMA AllInit ==
  ASSUME MCInit
  PROVE  AllTyped
<1>1. CounterInv /\ FileInv /\ IconInv /\ BridgeInv /\ RulesInv /\ PageInv /\ WasteInv
  BY CounterInit, FileInit, IconInit, BridgeInit, RulesInit, PageInit, WasteInit DEF MCInit
<1>2. SeenYoung
  BY DEF MCInit, P2K!Init, SeenYoung
<1>3. Fetching
  <2>1. Cardinality({}) = 0 /\ IsFiniteSet({}) /\ Slots \in Nat
    BY FS_EmptySet, StoresAssumption DEF Icon!IconCacheAssumption
  <2> QED
    BY <2>1 DEF MCInit, Icon!Init, Fetching
<1>4. Remembered
  <2>1. level = 0 /\ keys = {} /\ obs = <<>> /\ MaxRuns \in Nat
    BY RulesConstants DEF MCInit, Rules!Init, Rules!WatchRulesAssumption
  <2> QED
    BY <2>1 DEF Remembered
<1>5. Asking /\ InGroups
  <2>1. nAsked = None /\ page = <<>> /\ nTold = None
    BY DEF MCInit, News!Init
  <2> QED
    BY <2>1 DEF Asking, InGroups, News!Range
<1>6. Bounds
  BY StoresAssumption DEF MCInit, Waste!Init, Waste!WasteLookupAssumption, Bounds
<1>7. which \in {"rate", "p2k", "bridges", "restarts", "file", "icons", "rules", "news", "waste"}
  BY DEF MCInit
<1> QED
  BY <1>1, <1>2, <1>3, <1>4, <1>5, <1>6, <1>7 DEF AllTyped

(* The step of one part leaves the others as they are.                        *)
LEMMA AllStep ==
  ASSUME AllTyped, [MCNext]_<<vars, others>>
  PROVE  AllTyped'
<1>1. /\ [P2K!Next]_p2k /\ [Bridges!Next]_bridge /\ [File!Next]_file /\ [Icon!Next]_icon
      /\ [Rules!Next]_rules /\ [News!Next]_news /\ [Waste!Next]_waste /\ which' = which
  BY DEF MCNext, others
<1>2. CounterInv' /\ SeenYoung'
  BY <1>1, CounterStep, SeenStep DEF AllTyped
<1>3. FileInv' /\ BridgeInv'
  BY <1>1, FileStep, BridgeStep DEF AllTyped
<1>4. IconInv' /\ Fetching'
  BY <1>1, IconStep, FetchingStep DEF AllTyped
<1>5. RulesInv'
  <2>1. CASE Rules!Next
    BY <2>1, RulesMissed, RulesNCTV, RulesNLAlert, RulesAmber, RulesRadiation, RulesWater,
       RulesQuake, RulesKNMI, RulesAlarm, RulesStory, RulesWaste DEF Rules!Next, AllTyped
  <2>2. CASE UNCHANGED rules
    BY <2>2 DEF rules, RulesInv, RulesTyped, Rules!AsTheHistorySays, AllTyped
  <2> QED
    BY <1>1, <2>1, <2>2
<1>6. Remembered'
  BY <1>1, <1>5, RememberedStep DEF AllTyped
<1>7. PageInv' /\ Asking' /\ InGroups'
  BY <1>1, PageStep, NewsTypedStep DEF AllTyped, PageInv
<1>8. WasteInv' /\ Bounds'
  BY <1>1, WasteStep, BoundsStep DEF AllTyped
<1> QED
  BY <1>1, <1>2, <1>3, <1>4, <1>5, <1>6, <1>7, <1>8 DEF AllTyped

(* They make the types of the part that is followed.                          *)
LEMMA AllTypes ==
  ASSUME AllTyped, TypeOK
  PROVE  MCTypeOK
<1>1. P2K!TypeOK
  BY DEF AllTyped, CounterInv, CounterTyped, SeenYoung, P2K!TypeOK
<1>2. Bridges!TypeOK /\ File!TypeOK
  BY DEF AllTyped, BridgeInv, FileInv
<1>3. Icon!TypeOK
  BY IconTypes DEF AllTyped
<1>4. Rules!TypeOK
  BY RulesTypes DEF AllTyped
<1>5. News!TypeOK
  BY NewsTypes DEF AllTyped, PageInv
<1>6. Waste!TypeOK
  BY DEF AllTyped, WasteInv, WasteTyped, Bounds, Looks, Answers, Waste!TypeOK
<1>7. which \in {"rate", "p2k", "bridges", "restarts", "file", "icons", "rules", "news", "waste"}
  BY DEF AllTyped
<1> QED
  BY <1>1, <1>2, <1>3, <1>4, <1>5, <1>6, <1>7, Zenon DEF MCTypeOK

(* Whatever part a behaviour follows has the types that its model says: no    *)
(* icon job has more sites under way than its slots, no alert that is counted *)
(* is older than two hours, every key of the watcher is of its kinds, and a   *)
(* page is made of groups of articles.                                        *)
THEOREM PartsTyped == MCSpec => []MCTypeOK
<1>1. MCSpec => Spec
  <2>1. MCInit => Init
    BY DEF MCInit
  <2>2. [MCNext]_<<vars, others>> => [Next]_vars
    BY DEF MCNext
  <2> QED
    BY <2>1, <2>2, PTL DEF MCSpec, Spec
<1>2. MCInit => AllTyped
  BY AllInit
<1>3. AllTyped /\ [MCNext]_<<vars, others>> => AllTyped'
  BY AllStep
<1>4. AllTyped /\ TypeOK => MCTypeOK
  BY AllTypes
<1> QED
  BY <1>1, <1>2, <1>3, <1>4, RateTyped, PTL DEF MCSpec
=============================================================================
