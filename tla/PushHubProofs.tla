---------------------------- MODULE PushHubProofs ----------------------------
(* Proofs about the push hub, for any devices, keys and alerts.               *)
(*   TypeCorrect      types, in every behaviour                               *)
(*   PushDurable      promises survive, when no two saves overlap and keys    *)
(*                    are not reused                                          *)
(*   SentOncePerStart no alert twice in one start, keys not reused            *)
(* The run MCPushForget shows that a restart can send an alert once more.     *)
EXTENDS PushHub, TLAPS, FiniteSetTheorems, SequenceTheorems

-----------------------------------------------------------------------------
(* The operators of the hub.                                                  *)

(* A sequence without the element at position k.                              *)
LEMMA RemoveAtFacts ==
  ASSUME NEW S, NEW s \in Seq(S), NEW k \in 1 .. Len(s)
  PROVE  /\ RemoveAt(s, k) \in Seq(S) /\ Len(RemoveAt(s, k)) = Len(s) - 1
         /\ \A i \in 1 .. Len(s) - 1 : RemoveAt(s, k)[i] = IF i < k THEN s[i] ELSE s[i + 1]
<1>1. Len(s) \in Nat
  OBVIOUS
<1>2. /\ SubSeq(s, 1, k - 1) \in Seq(S) /\ Len(SubSeq(s, 1, k - 1)) = k - 1
      /\ \A i \in 1 .. k - 1 : SubSeq(s, 1, k - 1)[i] = s[i]
  BY <1>1
<1>3. /\ SubSeq(s, k + 1, Len(s)) \in Seq(S) /\ Len(SubSeq(s, k + 1, Len(s))) = Len(s) - k
      /\ \A i \in 1 .. Len(s) - k : SubSeq(s, k + 1, Len(s))[i] = s[k + i]
  BY <1>1
<1> DEFINE a == SubSeq(s, 1, k - 1)
           b == SubSeq(s, k + 1, Len(s))
<1> HIDE DEF a, b
<1>4. /\ a \o b \in Seq(S) /\ Len(a \o b) = Len(s) - 1
      /\ \A i \in 1 .. Len(s) - 1 : (a \o b)[i] = IF i < k THEN s[i] ELSE s[i + 1]
  <2>1. a \in Seq(S) /\ b \in Seq(S) /\ Len(a) = k - 1 /\ Len(b) = Len(s) - k
    BY <1>2, <1>3 DEF a, b
  <2>2. \A i \in 1 .. k - 1 : a[i] = s[i]
    BY <1>2 DEF a
  <2>3. \A i \in 1 .. Len(s) - k : b[i] = s[k + i]
    BY <1>3 DEF b
  <2>4. a \o b \in Seq(S) /\ Len(a \o b) = Len(a) + Len(b)
    BY <2>1
  <2>5. ASSUME NEW i \in 1 .. Len(s) - 1 PROVE (a \o b)[i] = IF i < k THEN s[i] ELSE s[i + 1]
    <3>1. CASE i < k
      BY <1>1, <2>1, <2>2, <3>1
    <3>2. CASE ~(i < k)
      <4>1. (a \o b)[i] = b[i - (k - 1)]
        BY <1>1, <2>1, <3>2
      <4>2. i - (k - 1) \in 1 .. Len(s) - k /\ k + (i - (k - 1)) = i + 1
        BY <1>1, <3>2
      <4> QED
        BY <4>1, <4>2, <2>3, <3>2
    <3> QED
      BY <3>1, <3>2
  <2> QED
    BY <1>1, <2>1, <2>4, <2>5
<1> QED
  BY <1>4 DEF RemoveAt, a, b

(* Taking an endpoint out of the hub takes out that one and keeps the others.  *)
LEMMA WithoutFacts ==
  ASSUME NEW S, NEW s \in Seq(S), IsInjective(s), NEW e
  PROVE  /\ Without(s, e) \in Seq(S) /\ IsInjective(Without(s, e))
         /\ ToSet(Without(s, e)) = ToSet(s) \ {e}
         /\ Len(Without(s, e)) = IF e \in ToSet(s) THEN Len(s) - 1 ELSE Len(s)
         /\ e \notin ToSet(s) => Without(s, e) = s
<1>1. Len(s) \in Nat /\ DOMAIN s = 1 .. Len(s)
  OBVIOUS
<1>2. CASE e \notin ToSet(s)
  BY <1>1, <1>2 DEF Without, RemoveFirst, ToSet
<1>3. CASE e \in ToSet(s)
  <2>1. PICK k \in 1 .. Len(s) : s[k] = e
    BY <1>1, <1>3 DEF ToSet
  <2>2. {i \in 1 .. Len(s) : s[i] = e} = {k}
    BY <1>1, <2>1 DEF IsInjective
  <2>3. SelectInSeq(s, LAMBDA v : v = e) = k
    BY <1>1, <2>1, <2>2 DEF SelectInSeq, Min
  <2>4. Without(s, e) = RemoveAt(s, k)
    BY <2>1, <2>3 DEF Without, RemoveFirst
  <2> DEFINE t == Without(s, e)
  <2>5. /\ t \in Seq(S) /\ Len(t) = Len(s) - 1
        /\ \A i \in 1 .. Len(s) - 1 : t[i] = IF i < k THEN s[i] ELSE s[i + 1]
    BY <2>4, RemoveAtFacts
  <2>6. DOMAIN t = 1 .. Len(s) - 1
    BY <1>1, <2>5
  <2> HIDE DEF t
  <2>7. IsInjective(t)
    BY <1>1, <2>1, <2>5, <2>6, SMTT(30) DEF IsInjective
  <2>8. ASSUME NEW x \in ToSet(t) PROVE x \in ToSet(s) \ {e}
    <3>1. PICK i \in 1 .. Len(s) - 1 : x = t[i]
      BY <2>6, <2>8 DEF ToSet
    <3>2. i \in 1 .. Len(s) /\ i + 1 \in 1 .. Len(s) /\ (i < k \/ i + 1 # k)
      BY <1>1
    <3> QED
      BY <1>1, <2>1, <2>5, <3>1, <3>2, SMTT(30) DEF ToSet, IsInjective
  <2>9. ASSUME NEW x \in ToSet(s) \ {e} PROVE x \in ToSet(t)
    <3>1. PICK i \in 1 .. Len(s) : x = s[i]
      BY <1>1 DEF ToSet
    <3>2. i # k
      BY <2>1, <3>1
    <3>3. CASE i < k
      <4>1. i \in 1 .. Len(s) - 1 /\ t[i] = x
        BY <1>1, <2>5, <3>1, <3>3
      <4> QED
        BY <4>1, <2>6 DEF ToSet
    <3>4. CASE i > k
      <4>1. i - 1 \in 1 .. Len(s) - 1 /\ t[i - 1] = x
        BY <1>1, <2>5, <3>1, <3>4
      <4> QED
        BY <4>1, <2>6 DEF ToSet
    <3> QED
      BY <1>1, <3>2, <3>3, <3>4
  <2> QED
    BY <1>3, <2>5, <2>7, <2>8, <2>9 DEF t
<1> QED
  BY <1>2, <1>3

(* Registering puts the endpoint last; it drops another one only in a full hub. *)
LEMMA RegisteredFacts ==
  ASSUME subs \in Seq(Endpoints), IsInjective(subs), Len(subs) <= MaxSubs, NEW e \in Endpoints
  PROVE  /\ Registered(e) \in Seq(Endpoints) /\ IsInjective(Registered(e)) /\ Len(Registered(e)) <= MaxSubs
         /\ ToSet(Registered(e)) \subseteq ToSet(subs) \union {e}
         /\ e \in ToSet(subs) \/ Len(subs) < MaxSubs => ToSet(Registered(e)) = ToSet(subs) \union {e}
<1> DEFINE room == IF e \notin ToSet(subs) /\ Len(subs) >= MaxSubs THEN Tail(subs) ELSE subs
           rest == Without(room, e)
<1>1. Len(subs) \in Nat /\ DOMAIN subs = 1 .. Len(subs) /\ MaxSubs \in Nat \ {0}
  BY PushHubAssumption
<1>2. /\ room \in Seq(Endpoints) /\ IsInjective(room) /\ ToSet(room) \subseteq ToSet(subs)
      /\ e \notin ToSet(room) => Len(room) < MaxSubs
      /\ Len(room) <= MaxSubs
  <2>1. CASE e \notin ToSet(subs) /\ Len(subs) >= MaxSubs
    <3>1. room = Tail(subs) /\ subs # <<>>
      BY <1>1, <2>1
    <3>2. /\ Tail(subs) \in Seq(Endpoints) /\ Len(Tail(subs)) = Len(subs) - 1
          /\ \A i \in 1 .. Len(subs) - 1 : Tail(subs)[i] = subs[i + 1]
      BY <1>1, <3>1, HeadTailProperties
    <3>3. DOMAIN Tail(subs) = 1 .. Len(subs) - 1
      BY <1>1, <3>2
    <3> QED
      BY <1>1, <2>1, <3>1, <3>2, <3>3, SMTT(30) DEF IsInjective, ToSet
  <2>2. CASE ~(e \notin ToSet(subs) /\ Len(subs) >= MaxSubs)
    BY <1>1, <2>2
  <2> QED
    BY <2>1, <2>2
<1>3. e \in ToSet(subs) \/ Len(subs) < MaxSubs => room = subs
  <2>1. CASE e \in ToSet(subs)
    BY <2>1
  <2>2. CASE Len(subs) < MaxSubs
    <3>1. ~(Len(subs) >= MaxSubs)
      BY <1>1, <2>2
    <3> QED
      BY <3>1
  <2> QED
    BY <2>1, <2>2
<1> HIDE DEF room
<1>4. /\ rest \in Seq(Endpoints) /\ IsInjective(rest) /\ ToSet(rest) = ToSet(room) \ {e}
      /\ Len(rest) < MaxSubs
  BY <1>1, <1>2, WithoutFacts
<1> HIDE DEF rest
<1> DEFINE t == Append(rest, e)
<1>5. /\ t \in Seq(Endpoints) /\ Len(t) = Len(rest) + 1 /\ t[Len(rest) + 1] = e
      /\ \A i \in 1 .. Len(rest) : t[i] = rest[i]
  BY <1>4
<1>6. Len(rest) \in Nat /\ DOMAIN rest = 1 .. Len(rest) /\ DOMAIN t = 1 .. Len(rest) + 1
  BY <1>4, <1>5
<1> HIDE DEF t
<1>7. \A i \in 1 .. Len(rest) : rest[i] # e
  BY <1>4, <1>6 DEF ToSet
<1>8. IsInjective(t)
  BY <1>4, <1>5, <1>6, <1>7 DEF IsInjective
<1>9. ToSet(t) = ToSet(rest) \union {e}
  <2>1. ASSUME NEW x \in ToSet(t) PROVE x \in ToSet(rest) \union {e}
    BY <1>5, <1>6 DEF ToSet
  <2>2. ASSUME NEW x \in ToSet(rest) \union {e} PROVE x \in ToSet(t)
    <3>1. CASE x = e
      BY <1>5, <1>6, <3>1 DEF ToSet
    <3>2. CASE x \in ToSet(rest)
      <4>1. PICK i \in 1 .. Len(rest) : x = rest[i]
        BY <1>6, <3>2 DEF ToSet
      <4>2. i \in DOMAIN t /\ t[i] = x
        BY <1>5, <1>6, <4>1
      <4> QED
        BY <4>2 DEF ToSet
    <3> QED
      BY <3>1, <3>2
  <2> QED
    BY <2>1, <2>2
<1>10. Registered(e) = t
  BY DEF Registered, t, rest, room
<1> QED
  BY <1>1, <1>2, <1>3, <1>4, <1>5, <1>6, <1>8, <1>9, <1>10

(* There are finitely many endpoints.                                         *)
LEMMA EndpointsFinite == IsFiniteSet(Endpoints)
<1> DEFINE f == [x \in Devices \X Keys |-> [dev |-> x[1], key |-> x[2]]]
<1>1. f \in [Devices \X Keys -> Endpoints]
  BY DEF Endpoints
<1>2. ASSUME NEW e \in Endpoints PROVE \E x \in Devices \X Keys : f[x] = e
  <2>1. e.dev \in Devices /\ e.key \in Keys /\ e = [dev |-> e.dev, key |-> e.key]
    BY DEF Endpoints
  <2>2. <<e.dev, e.key>> \in Devices \X Keys
    BY <2>1
  <2> QED
    BY <2>1, <2>2
<1>3. f \in Surjection(Devices \X Keys, Endpoints)
  BY <1>1, <1>2 DEF Surjection
<1> QED
  BY <1>3, FS_Product, FS_Surjection, PushHubAssumption

(* Where there is room for every endpoint, a hub that lacks one is not full.   *)
LEMMA RoomFacts ==
  ASSUME NEW s \in Seq(Endpoints), IsInjective(s), Cardinality(Endpoints) <= MaxSubs,
         NEW e \in Endpoints, e \notin ToSet(s)
  PROVE  Len(s) < MaxSubs
<1> DEFINE n == Len(s)
           t == [i \in 1 .. n + 1 |-> IF i = n + 1 THEN e ELSE s[i]]
<1>1. n \in Nat /\ DOMAIN s = 1 .. n /\ \A i \in 1 .. n : s[i] \in Endpoints
  OBVIOUS
<1> HIDE DEF n
<1>2. t \in [1 .. n + 1 -> Endpoints]
  BY <1>1
<1>3. \A i \in 1 .. n : s[i] # e
  BY <1>1 DEF ToSet
<1>4. \A i, j \in 1 .. n + 1 : t[i] = t[j] => i = j
  BY <1>1, <1>3 DEF IsInjective
<1>5. t \in Injection(1 .. n + 1, Endpoints)
  BY <1>2, <1>4 DEF Injection, IsInjective
<1>6. Cardinality(1 .. n + 1) <= Cardinality(Endpoints)
  BY <1>5, EndpointsFinite, FS_Injection
<1>7. Cardinality(1 .. n + 1) = n + 1
  BY <1>1, FS_Interval
<1>8. Cardinality(Endpoints) \in Nat
  BY EndpointsFinite, FS_CardinalityType
<1> QED
  BY <1>1, <1>6, <1>7, <1>8, PushHubAssumption DEF n

-----------------------------------------------------------------------------
(* The inductive invariant.                                                   *)

\* p has taken its image and not yet moved it to the file.
Saving(p)  == saver[p].pc \in {"open", "write", "rename"}
\* What a hub can be saved as, and what the file holds.
Good       == {i \in Images : Len(i.subs) <= MaxSubs /\ IsInjective(i.subs)}
Saved      == IF disk = None THEN Blank ELSE disk
\* The endpoint that can be signed for, and whether an image has it.
Mine(d)    == [dev |-> d, key |-> vkey]
Has(i, d)  == Mine(d) \in ToSet(i.subs)

HubTyped ==
  /\ up \in BOOLEAN /\ starts \in 1 .. MaxStarts /\ (~up => starts < MaxStarts)
  /\ vkey \in Keys /\ fileKey \in Keys
  /\ subs \in Seq(Endpoints) /\ Len(subs) <= MaxSubs /\ IsInjective(subs)
  /\ seen \subseteq Alerts /\ init \in BOOLEAN /\ dirty \in BOOLEAN
RunTyped ==
  /\ store \in (SUBSET Alerts) \union {None}
  /\ watch \in [pc : {"idle", "collect", "send", "save"}, first : BOOLEAN, msgs : SUBSET Alerts,
                cur : Alerts \union {None}, todo : SUBSET Endpoints]
  /\ watch.todo # {} => watch.cur \in Alerts
Rows == [pc : {"idle", "lock", "open", "write", "rename"}, img : Good,
         op : {"on", "off", "watch", None}, file : {"tmp", "disk", "gone", None}]
SaveTyped ==
  /\ saver \in [Savers -> Rows]
  /\ \A p \in Savers : saver[p].pc # "idle" =>
       saver[p].op \in (IF p = Watcher THEN {"watch"} ELSE {"on", "off"})
  /\ disk \in Good \union {None, Torn, Empty} /\ tmp \in Good \union {None, Torn, Empty}
WorldTyped ==
  /\ phase \in [Alerts -> {"new", "listed", "over"}]
  /\ page \in [Devices -> Endpoints \union {None}]
  /\ acked \in [Devices -> {"on", "off", None}]
  /\ sent \in [Alerts -> [Devices -> Nat]] /\ failed \subseteq Alerts \X Devices
Typed == HubTyped /\ RunTyped /\ SaveTyped /\ WorldTyped

Down == ~up => /\ subs = <<>> /\ seen = {} /\ init = FALSE /\ dirty = FALSE
               /\ watch = Resting /\ \A p \in Savers : saver[p] = Idle
\* Saves take turns; a device is promised nothing while its request is under way.
Turns ==
  /\ \A p \in Savers : saver[p].pc = "idle" => saver[p] = Idle
  /\ \A d \in Devices : saver[d].pc # "idle" => acked[d] = None
  /\ saver[Watcher].pc # "idle" => watch.pc = "save"
  /\ \A p, q \in Savers : Saving(p) /\ Saving(q) => p = q
\* A save writes to the temporary file it opened, alone, and the file is whole.
OnFile ==
  /\ \A p \in Savers :
       /\ saver[p].pc \in {"lock", "open"} => saver[p].file = None
       /\ saver[p].pc = "lock" => saver[p].img = Blank
       /\ saver[p].pc = "write" => saver[p].file = "tmp" /\ tmp = Empty
       /\ saver[p].pc = "rename" => saver[p].file = "tmp" /\ tmp = saver[p].img
       /\ Saving(p) => Persist
  /\ disk \notin {Torn, Empty} /\ (~Persist => disk = None)
\* An image is the hub, but for a run of the watcher that is collecting, and for
\* the subscriptions of a key that setKey dropped.
Reflects(i) ==
  /\ i.subs = subs \/ (subs = <<>> /\ vkey \notin KeysOf(i.subs))
  /\ watch.pc # "collect" => i.seen = seen /\ i.init = init
\* Without unsaved changes the image that will be in the file is the hub.
Current ==
  Persist /\ up /\ ~dirty =>
    /\ \A p \in Savers : Saving(p) => Reflects(saver[p].img)
    /\ (\A p \in Savers : ~Saving(p)) => Reflects(Saved)
\* A key that is configured and not yet installed is on no endpoint.
LiveKey == vkey # fileKey => NewLive(fileKey)
FreshKey == LiveKey /\ (vkey # fileKey => NewSaved(fileKey))
\* A browser's endpoint is its own; with one of an old key it has none of this key.
Pages ==
  \A d \in Devices : page[d] # None =>
    /\ page[d].dev = d
    /\ page[d].key # vkey => /\ Mine(d) \notin ToSet(subs) /\ ~Has(Saved, d)
                             /\ \A p \in Savers : ~Has(saver[p].img, d)
\* Off, and on its way off: not in the hub, nor where a restart would find it.
Off ==
  \A d \in Devices :
    /\ acked[d] = "off" \/ saver[d].op = "off" => Mine(d) \notin ToSet(subs)
    /\ saver[d].op = "off" => ~Has(saver[d].img, d)
    /\ acked[d] = "off" => ~Has(Saved, d) /\ \A p \in Savers : ~Has(saver[p].img, d)
\* On, and on its way on: in the hub, and where a restart will find it.
On ==
  Persist /\ Cardinality(Endpoints) <= MaxSubs =>
    \A d \in Devices :
      /\ acked[d] = "on" \/ saver[d].op = "on" => page[d] # None
      /\ (acked[d] = "on" \/ saver[d].op = "on") /\ page[d] = Mine(d) /\ up => Mine(d) \in ToSet(subs)
      /\ saver[d].op = "on" /\ page[d] = Mine(d) /\ Saving(d) => Has(saver[d].img, d)
      /\ acked[d] = "on" /\ page[d] = Mine(d) =>
           Has(Saved, d) /\ \A p \in Savers : Saving(p) => Has(saver[p].img, d)
DurableInv == Typed /\ Down /\ Turns /\ OnFile /\ Current /\ FreshKey /\ Pages /\ Off /\ On

(* An empty hub is one that can be saved. *)
LEMMA BlankGood ==
  /\ Blank \in Good /\ <<>> \in Seq(Endpoints) /\ Len(<<>>) = 0
  /\ ToSet(<<>>) = {} /\ IsInjective(<<>>) /\ KeysOf(<<>>) = {}
<1>1. Len(<<>>) = 0 /\ <<>> \in Seq(Endpoints) /\ DOMAIN <<>> = {}
  OBVIOUS
<1>2. ToSet(<<>>) = {} /\ IsInjective(<<>>)
  BY <1>1 DEF ToSet, IsInjective
<1>3. Blank \in Images /\ Blank.subs = <<>>
  BY <1>1 DEF Blank, Images
<1> QED
  BY <1>1, <1>2, <1>3, PushHubAssumption DEF Good, KeysOf

(* The model values are none of the images, endpoints, states and answers. *)
LEMMA Distinct == /\ \A i \in Good : i \notin {None, Torn, Empty} /\ i \in Images
                  /\ \A e \in Endpoints : e # None /\ e.dev \in Devices /\ e.key \in Keys /\ e = [dev |-> e.dev, key |-> e.key]
                  /\ Devices \subseteq Savers /\ Watcher \in Savers /\ Watcher \notin Devices
                  /\ None # "on" /\ None # "off" /\ None # "tmp" /\ None # "disk"
BY PushHubAssumption DEF Good, Savers, Endpoints

(* Where saves keep apart a writer fills the file it has just emptied. *)
LEMMA SaveWriteFacts ==
  ASSUME Typed, OnFile, NEW p \in Savers, SaveWrite(p)
  PROVE  /\ saver' = [saver EXCEPT ![p].pc = "rename"] /\ tmp' = saver[p].img /\ disk' = disk
<1>1. /\ saver[p].file = "tmp" /\ tmp = Empty /\ saver' = [saver EXCEPT ![p].pc = "rename"]
      /\ tmp'  = IF saver[p].file = "tmp"  THEN Overwritten(tmp, saver[p].img)  ELSE tmp
      /\ disk' = IF saver[p].file = "disk" THEN Overwritten(disk, saver[p].img) ELSE disk
  BY DEF SaveWrite, OnFile
<1>2. Overwritten(Empty, saver[p].img) = saver[p].img
  BY PushHubAssumption DEF Overwritten
<1> QED
  BY <1>1, <1>2

(* Where saves keep apart a writer moves its own image to the file, and no
   other save holds a file open (os.Rename in savePushState). *)
LEMMA SaveRenameFacts ==
  ASSUME Typed, Turns, OnFile, NEW p \in Savers, SaveRename(p)
  PROVE  saver' = [saver EXCEPT ![p] = Idle] /\ tmp' = None /\ disk' = saver[p].img
<1> DEFINE follow(f) == CASE f = "tmp" -> "disk" [] f = "disk" -> "gone" [] OTHER -> f
           moved == [q \in Savers |-> [saver[q] EXCEPT !.file = follow(@)]]
<1>1. Saving(p) /\ tmp = saver[p].img /\ tmp # None
  BY Distinct DEF SaveRename, OnFile, Saving, Typed, SaveTyped, Rows
<1>2. saver' = [moved EXCEPT ![p] = Idle] /\ disk' = tmp /\ tmp' = None
  BY <1>1 DEF SaveRename
<1>3. ASSUME NEW q \in Savers, q # p PROVE moved[q] = saver[q]
  <2>1. saver[q].file = None
    BY <1>1, <1>3 DEF Turns, OnFile, Saving, Idle, Typed, SaveTyped, Rows
  <2>2. follow(None) = None
    BY Distinct
  <2>3. saver[q] \in Rows
    BY DEF Typed, SaveTyped
  <2> QED
    BY <2>1, <2>2, <2>3 DEF Rows
<1>4. saver \in [Savers -> Rows]
  BY DEF Typed, SaveTyped
<1> HIDE DEF moved
<1>5. DOMAIN moved = Savers
  BY DEF moved
<1> QED
  BY <1>1, <1>2, <1>3, <1>4, <1>5

(* Every step keeps the hub typed: each endpoint once, never more than MaxSubs. *)
LEMMA HubStep ==
  ASSUME Typed, Next
  PROVE  HubTyped'
<1> USE DEF Typed, HubTyped
<1>1. ASSUME NEW a \in Alerts, AlertChanges(a) PROVE HubTyped'
  BY <1>1 DEF AlertChanges, hub, world
<1>2. ASSUME FetchAlerts PROVE HubTyped'
  BY <1>2 DEF FetchAlerts, hub, world
<1>3. ASSUME WatchStart PROVE HubTyped'
  BY <1>3 DEF WatchStart, Listed, RunTyped, world
<1>4. ASSUME WatchInit PROVE HubTyped'
  BY <1>4 DEF WatchInit, hub, world
<1>5. ASSUME NEW a \in Alerts, Broadcast(a) PROVE HubTyped'
  BY <1>5 DEF Broadcast, hub, world
<1>6. ASSUME NEW e \in Endpoints, SendOne(e) PROVE HubTyped'
  <2>1. CASE subs' = subs /\ dirty' = dirty
    BY <1>6, <2>1 DEF SendOne, world
  <2>2. CASE subs' = Without(subs, e) /\ dirty' = TRUE
    <3>1. /\ Without(subs, e) \in Seq(Endpoints) /\ IsInjective(Without(subs, e))
          /\ Len(Without(subs, e)) <= MaxSubs
      BY WithoutFacts, PushHubAssumption
    <3> QED
      BY <1>6, <2>2, <3>1 DEF SendOne, world
  <2> QED
    BY <1>6, <2>1, <2>2 DEF SendOne
<1>7. ASSUME WatchSave PROVE HubTyped'
  BY <1>7 DEF WatchSave, hub, world
<1>8. ASSUME NEW d \in Devices, Subscribe(d) PROVE HubTyped'
  <2>1. PICK e \in Endpoints : subs' = Registered(e)
    BY <1>8, Distinct DEF Subscribe, WorldTyped, Endpoints
  <2> QED
    BY <1>8, <2>1, RegisteredFacts DEF Subscribe
<1>9. ASSUME NEW d \in Devices, Unsubscribe(d) PROVE HubTyped'
  <2>1. /\ Without(subs, page[d]) \in Seq(Endpoints) /\ IsInjective(Without(subs, page[d]))
        /\ Len(Without(subs, page[d])) <= MaxSubs
    BY WithoutFacts, PushHubAssumption
  <2> QED
    BY <1>9, <2>1 DEF Unsubscribe, world
<1>10. ASSUME NEW d \in Devices, PageForgets(d) PROVE HubTyped'
  BY <1>10 DEF PageForgets, hub, world
<1>11. ASSUME NEW p \in Savers, SaveLock(p) PROVE HubTyped'
  BY <1>11 DEF SaveLock, hub, world
<1>12. ASSUME NEW p \in Savers, SaveOpen(p) PROVE HubTyped'
  BY <1>12 DEF SaveOpen, hub, world
<1>13. ASSUME NEW p \in Savers, SaveWrite(p) PROVE HubTyped'
  BY <1>13 DEF SaveWrite, hub, world
<1>14. ASSUME NEW p \in Savers, SaveRename(p) PROVE HubTyped'
  BY <1>14 DEF SaveRename, hub, world
<1>15. ASSUME Stop PROVE HubTyped'
  <2>1. /\ subs' = <<>> /\ seen' = {} /\ init' = FALSE /\ dirty' = FALSE /\ up' = FALSE
        /\ UNCHANGED <<starts, vkey, fileKey>> /\ starts < MaxStarts
    BY <1>15 DEF Stop
  <2>2. subs' \in Seq(Endpoints) /\ Len(subs') <= MaxSubs /\ IsInjective(subs')
    BY <2>1, BlankGood, PushHubAssumption
  <2> QED
    BY <2>1, <2>2
<1>16. ASSUME Start PROVE HubTyped'
  <2>1. PICK i \in Good : subs' = i.subs /\ seen' = i.seen /\ init' = i.init
    BY <1>16, BlankGood, Distinct DEF Start, SaveTyped
  <2>2. /\ i.subs \in Seq(Endpoints) /\ i.seen \subseteq Alerts /\ i.init \in BOOLEAN
        /\ Len(i.subs) <= MaxSubs /\ IsInjective(i.subs)
    BY DEF Good, Images
  <2>3. starts' \in 1 .. MaxStarts
    BY <1>16, PushHubAssumption DEF Start
  <2> QED
    BY <1>16, <2>1, <2>2, <2>3 DEF Start, world
<1>17. ASSUME NEW k \in Keys, ChangeKey(k) PROVE HubTyped'
  BY <1>17 DEF ChangeKey, hub, world
<1>18. ASSUME ReloadKey PROVE HubTyped'
  BY <1>18, BlankGood, PushHubAssumption DEF ReloadKey, world
<1> QED
  BY <1>1, <1>2, <1>3, <1>4, <1>5, <1>6, <1>7, <1>8, <1>9, <1>10, <1>11, <1>12, <1>13, <1>14,
     <1>15, <1>16, <1>17, <1>18 DEF Next, Watch, Save

(* Every step keeps the watcher and the fetched alerts typed. *)
LEMMA RunStep ==
  ASSUME Typed, Next
  PROVE  RunTyped'
<1> USE DEF Typed, RunTyped
<1>1. ASSUME NEW a \in Alerts, AlertChanges(a) PROVE RunTyped'
  BY <1>1 DEF AlertChanges
<1>2. ASSUME FetchAlerts PROVE RunTyped'
  BY <1>2 DEF FetchAlerts
<1>3. ASSUME WatchStart PROVE RunTyped'
  BY <1>3 DEF WatchStart, Listed, HubTyped
<1>4. ASSUME WatchInit PROVE RunTyped'
  BY <1>4 DEF WatchInit
<1>5. ASSUME NEW a \in Alerts, Broadcast(a) PROVE RunTyped'
  <2>1. ToSet(subs) \in SUBSET Endpoints
    BY DEF HubTyped, ToSet
  <2> QED
    BY <1>5, <2>1 DEF Broadcast
<1>6. ASSUME NEW e \in Endpoints, SendOne(e) PROVE RunTyped'
  BY <1>6 DEF SendOne
<1>7. ASSUME WatchSave PROVE RunTyped'
  BY <1>7 DEF WatchSave
<1>8. ASSUME NEW d \in Devices, Subscribe(d) PROVE RunTyped'
  BY <1>8 DEF Subscribe
<1>9. ASSUME NEW d \in Devices, Unsubscribe(d) PROVE RunTyped'
  BY <1>9 DEF Unsubscribe
<1>10. ASSUME NEW d \in Devices, PageForgets(d) PROVE RunTyped'
  BY <1>10 DEF PageForgets
<1>11. ASSUME NEW p \in Savers, SaveLock(p) PROVE RunTyped'
  <2>1. store' = store /\ watch' \in {watch, Resting}
    BY <1>11 DEF SaveLock, Answer
  <2> QED
    <3>1. CASE watch' = watch
      BY <2>1, <3>1
    <3>2. CASE watch' = Resting
      BY <2>1, <3>2 DEF Resting
    <3> QED
      BY <2>1, <3>1, <3>2
<1>12. ASSUME NEW p \in Savers, SaveOpen(p) PROVE RunTyped'
  BY <1>12 DEF SaveOpen
<1>13. ASSUME NEW p \in Savers, SaveWrite(p) PROVE RunTyped'
  BY <1>13 DEF SaveWrite
<1>14. ASSUME NEW p \in Savers, SaveRename(p) PROVE RunTyped'
  <2>1. store' = store /\ watch' \in {watch, Resting}
    BY <1>14 DEF SaveRename, Answer
  <2> QED
    <3>1. CASE watch' = watch
      BY <2>1, <3>1
    <3>2. CASE watch' = Resting
      BY <2>1, <3>2 DEF Resting
    <3> QED
      BY <2>1, <3>1, <3>2
<1>15. ASSUME Stop PROVE RunTyped'
  BY <1>15 DEF Stop, Resting
<1>16. ASSUME Start PROVE RunTyped'
  BY <1>16 DEF Start
<1>17. ASSUME NEW k \in Keys, ChangeKey(k) PROVE RunTyped'
  BY <1>17 DEF ChangeKey
<1>18. ASSUME ReloadKey PROVE RunTyped'
  BY <1>18 DEF ReloadKey
<1> QED
  BY <1>1, <1>2, <1>3, <1>4, <1>5, <1>6, <1>7, <1>8, <1>9, <1>10, <1>11, <1>12, <1>13, <1>14,
     <1>15, <1>16, <1>17, <1>18 DEF Next, Watch, Save

(* Every step keeps the saves and the two files typed; what is in them is a
   whole image, nothing, or the debris of two saves. *)
LEMMA SaveStep ==
  ASSUME Typed, Next
  PROVE  SaveTyped'
<1> USE Distinct DEF Rows
<1>i. Idle \in Rows
  BY BlankGood DEF Idle
<1>s. saver \in [Savers -> Rows]
  BY DEF Typed, SaveTyped
<1> USE DEF Typed, SaveTyped
<1>1. ASSUME NEW a \in Alerts, AlertChanges(a) PROVE SaveTyped'
  BY <1>1, <1>i, <1>s DEF AlertChanges, files, Idle, hub, history, posts, world
<1>2. ASSUME FetchAlerts PROVE SaveTyped'
  BY <1>2, <1>i, <1>s DEF FetchAlerts, files, Idle, hub, history, posts, world
<1>3. ASSUME WatchStart PROVE SaveTyped'
  BY <1>3, <1>i, <1>s DEF WatchStart, files, Idle, hub, history, posts, world
<1>4. ASSUME WatchInit PROVE SaveTyped'
  BY <1>4, <1>i, <1>s DEF WatchInit, files, Idle, hub, history, posts, world
<1>5. ASSUME NEW a \in Alerts, Broadcast(a) PROVE SaveTyped'
  BY <1>5, <1>i, <1>s DEF Broadcast, files, Idle, hub, history, posts, world
<1>6. ASSUME NEW e \in Endpoints, SendOne(e) PROVE SaveTyped'
  BY <1>6, <1>i, <1>s DEF SendOne, files, Idle, hub, history, posts, world
<1>7. ASSUME WatchSave PROVE SaveTyped'
  BY <1>7, <1>i, <1>s DEF WatchSave, files, Idle, hub, history, posts, world
<1>8. ASSUME NEW d \in Devices, Subscribe(d) PROVE SaveTyped'
  BY <1>8, <1>i, <1>s DEF Subscribe, files, Idle, hub, history, posts, world
<1>9. ASSUME NEW d \in Devices, Unsubscribe(d) PROVE SaveTyped'
  BY <1>9, <1>i, <1>s DEF Unsubscribe, files, Idle, hub, history, posts, world
<1>10. ASSUME NEW d \in Devices, PageForgets(d) PROVE SaveTyped'
  BY <1>10, <1>i, <1>s DEF PageForgets, files, Idle, hub, history, posts, world
<1>11. ASSUME NEW p \in Savers, SaveLock(p) PROVE SaveTyped'
  <2>1. Image \in Good
    BY DEF HubTyped, Image, Good, Images
  <2> QED
    BY <1>11, <1>i, <1>s, <2>1 DEF SaveLock, files, Idle
<1>12. ASSUME NEW p \in Savers, SaveOpen(p) PROVE SaveTyped'
  BY <1>12, <1>i, <1>s, ZenonT(30) DEF SaveOpen, files, Idle, hub, history, posts, world
<1>13. ASSUME NEW p \in Savers, SaveWrite(p) PROVE SaveTyped'
  <2>1. \A old : Overwritten(old, saver[p].img) \in Good \union {Torn}
    BY <1>s DEF Overwritten
  <2> QED
    BY <1>13, <1>s, <2>1 DEF SaveWrite
<1>14. ASSUME NEW p \in Savers, SaveRename(p) PROVE SaveTyped'
  <2> DEFINE follow(f) == CASE f = "tmp" -> "disk" [] f = "disk" -> "gone" [] OTHER -> f
             moved == [q \in Savers |-> [saver[q] EXCEPT !.file = follow(@)]]
  <2>1. \A f \in {"tmp", "disk", "gone", None} : follow(f) \in {"tmp", "disk", "gone", None}
    OBVIOUS
  <2>2. \A q \in Savers : saver[q] \in Rows
    BY <1>s
  <2>3. moved \in [Savers -> Rows] /\ \A q \in Savers : moved[q].pc = saver[q].pc /\ moved[q].op = saver[q].op
    <3>1. ASSUME NEW q \in Savers
          PROVE  [saver[q] EXCEPT !.file = follow(@)] \in Rows /\ moved[q] = [saver[q] EXCEPT !.file = follow(@)]
      BY <2>1, <2>2
    <3> QED
      BY <2>2, <3>1
  <2>4. /\ \/ saver' = [saver EXCEPT ![p] = Idle] \/ saver' = [moved EXCEPT ![p] = Idle]
        /\ disk' \in {disk, tmp} /\ tmp' \in {tmp, None}
    BY <1>14 DEF SaveRename, files
  <2> HIDE DEF moved
  <2>5. saver' \in [Savers -> Rows]
    BY <1>i, <1>s, <2>3, <2>4
  <2>6. \A q \in Savers : saver'[q].pc # "idle" => saver'[q].pc = saver[q].pc /\ saver'[q].op = saver[q].op
    BY <1>i, <1>s, <2>3, <2>4 DEF Idle
  <2> QED
    BY <2>4, <2>5, <2>6
<1>15. ASSUME Stop PROVE SaveTyped'
  BY <1>15, <1>i, <1>s DEF Stop, files, Idle, hub, history, posts, world
<1>16. ASSUME Start PROVE SaveTyped'
  BY <1>16, <1>i, <1>s DEF Start, files, Idle, hub, history, posts, world
<1>17. ASSUME NEW k \in Keys, ChangeKey(k) PROVE SaveTyped'
  BY <1>17, <1>i, <1>s DEF ChangeKey, files, Idle, hub, history, posts, world
<1>18. ASSUME ReloadKey PROVE SaveTyped'
  BY <1>18, <1>i, <1>s DEF ReloadKey, files, Idle, hub, history, posts, world
<1> QED
  BY <1>1, <1>2, <1>3, <1>4, <1>5, <1>6, <1>7, <1>8, <1>9, <1>10, <1>11, <1>12, <1>13, <1>14,
     <1>15, <1>16, <1>17, <1>18 DEF Next, Watch, Save

(* Every step keeps the feed, the browsers and the promises typed. *)
LEMMA WorldStep ==
  ASSUME Typed, Next
  PROVE  WorldTyped'
<1> USE DEF Typed, WorldTyped
<1>1. ASSUME NEW a \in Alerts, AlertChanges(a) PROVE WorldTyped'
  BY <1>1 DEF AlertChanges, world, history, posts
<1>2. ASSUME FetchAlerts PROVE WorldTyped'
  BY <1>2 DEF FetchAlerts, world, history, posts
<1>3. ASSUME WatchStart PROVE WorldTyped'
  BY <1>3 DEF WatchStart, world, history, posts
<1>4. ASSUME WatchInit PROVE WorldTyped'
  BY <1>4 DEF WatchInit, world, history, posts
<1>5. ASSUME NEW a \in Alerts, Broadcast(a) PROVE WorldTyped'
  BY <1>5 DEF Broadcast, world, history, posts
<1>6. ASSUME NEW e \in Endpoints, SendOne(e) PROVE WorldTyped'
  <2>1. watch.cur \in Alerts /\ e.dev \in Devices
    BY <1>6, Distinct DEF SendOne, RunTyped
  <2>2. failed' \subseteq Alerts \X Devices
    BY <1>6, <2>1 DEF SendOne
  <2>3. CASE sent' = sent
    BY <1>6, <2>2, <2>3 DEF SendOne, world
  <2>4. CASE sent' = [sent EXCEPT ![watch.cur][e.dev] = @ + 1]
    <3>1. sent' \in [Alerts -> [Devices -> Nat]]
      BY <2>1, <2>4
    <3> QED
      BY <1>6, <2>2, <3>1 DEF SendOne, world
  <2> QED
    BY <1>6, <2>3, <2>4 DEF SendOne
<1>7. ASSUME WatchSave PROVE WorldTyped'
  BY <1>7 DEF WatchSave, world, history, posts
<1>8. ASSUME NEW d \in Devices, Subscribe(d) PROVE WorldTyped'
  <2>1. \E e \in Endpoints : page' = [page EXCEPT ![d] = e]
    BY <1>8, Distinct DEF Subscribe, HubTyped, Endpoints
  <2> QED
    BY <1>8, <2>1 DEF Subscribe, posts
<1>9. ASSUME NEW d \in Devices, Unsubscribe(d) PROVE WorldTyped'
  BY <1>9 DEF Unsubscribe, world, history, posts
<1>10. ASSUME NEW d \in Devices, PageForgets(d) PROVE WorldTyped'
  BY <1>10 DEF PageForgets, world, history, posts
<1>11. ASSUME NEW p \in Savers, SaveLock(p) PROVE WorldTyped'
  <2>1. saver[p].pc # "idle"
    BY <1>11 DEF SaveLock
  <2> QED
    BY <1>11, <2>1, Distinct DEF SaveLock, Answer, SaveTyped, history, posts, Savers
<1>12. ASSUME NEW p \in Savers, SaveOpen(p) PROVE WorldTyped'
  BY <1>12 DEF SaveOpen, world, history, posts
<1>13. ASSUME NEW p \in Savers, SaveWrite(p) PROVE WorldTyped'
  BY <1>13 DEF SaveWrite, world, history, posts
<1>14. ASSUME NEW p \in Savers, SaveRename(p) PROVE WorldTyped'
  <2>1. saver[p].pc # "idle"
    BY <1>14 DEF SaveRename
  <2> QED
    BY <1>14, <2>1, Distinct DEF SaveRename, Answer, SaveTyped, history, posts, Savers
<1>15. ASSUME Stop PROVE WorldTyped'
  BY <1>15 DEF Stop, NoneSent, world, history, posts
<1>16. ASSUME Start PROVE WorldTyped'
  BY <1>16 DEF Start, world, history, posts
<1>17. ASSUME NEW k \in Keys, ChangeKey(k) PROVE WorldTyped'
  BY <1>17 DEF ChangeKey, world, history, posts
<1>18. ASSUME ReloadKey PROVE WorldTyped'
  BY <1>18 DEF ReloadKey, world, history, posts
<1> QED
  BY <1>1, <1>2, <1>3, <1>4, <1>5, <1>6, <1>7, <1>8, <1>9, <1>10, <1>11, <1>12, <1>13, <1>14,
     <1>15, <1>16, <1>17, <1>18 DEF Next, Watch, Save

(* A process that is down holds nothing. *)
LEMMA DownStep ==
  ASSUME Typed, Down, Next
  PROVE  Down'
<1> USE DEF Down
<1>1. ASSUME NEW a \in Alerts, AlertChanges(a) PROVE Down'
  BY <1>1 DEF AlertChanges, hub, files, history, posts, world
<1>2. ASSUME FetchAlerts PROVE Down'
  BY <1>2 DEF FetchAlerts, hub, files, history, posts, world
<1>3. ASSUME WatchStart PROVE Down'
  BY <1>3 DEF WatchStart, hub, files, history, posts, world
<1>4. ASSUME WatchInit PROVE Down'
  BY <1>4 DEF WatchInit, hub, files, history, posts, world
<1>5. ASSUME NEW a \in Alerts, Broadcast(a) PROVE Down'
  BY <1>5 DEF Broadcast, hub, files, history, posts, world
<1>6. ASSUME NEW e \in Endpoints, SendOne(e) PROVE Down'
  BY <1>6 DEF SendOne, hub, files, history, posts, world
<1>7. ASSUME WatchSave PROVE Down'
  BY <1>7 DEF WatchSave, hub, files, history, posts, world
<1>8. ASSUME NEW d \in Devices, Subscribe(d) PROVE Down'
  BY <1>8 DEF Subscribe, hub, files, history, posts, world
<1>9. ASSUME NEW d \in Devices, Unsubscribe(d) PROVE Down'
  BY <1>9 DEF Unsubscribe, hub, files, history, posts, world
<1>10. ASSUME NEW d \in Devices, PageForgets(d) PROVE Down'
  BY <1>10 DEF PageForgets, hub, files, history, posts, world
<1>11. ASSUME NEW p \in Savers, SaveLock(p) PROVE Down'
  BY <1>11 DEF SaveLock, hub, files, history, posts, world
<1>12. ASSUME NEW p \in Savers, SaveOpen(p) PROVE Down'
  BY <1>12 DEF SaveOpen, hub, files, history, posts, world
<1>13. ASSUME NEW p \in Savers, SaveWrite(p) PROVE Down'
  BY <1>13 DEF SaveWrite, hub, files, history, posts, world
<1>14. ASSUME NEW p \in Savers, SaveRename(p) PROVE Down'
  BY <1>14 DEF SaveRename, hub, files, history, posts, world
<1>15. ASSUME Stop PROVE Down'
  BY <1>15 DEF Stop, hub, files, history, posts, world
<1>16. ASSUME Start PROVE Down'
  BY <1>16 DEF Start, hub, files, history, posts, world
<1>17. ASSUME NEW k \in Keys, ChangeKey(k) PROVE Down'
  BY <1>17 DEF ChangeKey, hub, files, history, posts, world
<1>18. ASSUME ReloadKey PROVE Down'
  BY <1>18 DEF ReloadKey, hub, files, history, posts, world
<1> QED
  BY <1>1, <1>2, <1>3, <1>4, <1>5, <1>6, <1>7, <1>8, <1>9, <1>10, <1>11, <1>12, <1>13, <1>14,
     <1>15, <1>16, <1>17, <1>18 DEF Next, Watch, Save

(* A handler answers once its save is over, and saves take turns. *)
LEMMA TurnsStep ==
  ASSUME Typed, Down, Turns, OnFile, Next, Apart
  PROVE  Turns'
<1>s. saver \in [Savers -> Rows]
  BY DEF Typed, SaveTyped
<1> USE DEF Rows
<1>i. Idle.pc = "idle" /\ Idle.file = None
  BY DEF Idle
<1> USE Distinct DEF Turns, Saving
<1>1. ASSUME NEW a \in Alerts, AlertChanges(a) PROVE Turns'
  BY <1>1, <1>s, <1>i DEF AlertChanges, Idle, hub, files, history, posts, world, Typed, RunTyped,
     WorldTyped
<1>2. ASSUME FetchAlerts PROVE Turns'
  BY <1>2, <1>s, <1>i DEF FetchAlerts, Idle, hub, files, history, posts, world, Typed, RunTyped, WorldTyped
<1>3. ASSUME WatchStart PROVE Turns'
  BY <1>3, <1>s, <1>i DEF WatchStart, Idle, hub, files, history, posts, world, Typed, RunTyped, WorldTyped
<1>4. ASSUME WatchInit PROVE Turns'
  BY <1>4, <1>s, <1>i DEF WatchInit, Idle, hub, files, history, posts, world, Typed, RunTyped, WorldTyped
<1>5. ASSUME NEW a \in Alerts, Broadcast(a) PROVE Turns'
  BY <1>5, <1>s, <1>i DEF Broadcast, Idle, hub, files, history, posts, world, Typed, RunTyped, WorldTyped
<1>6. ASSUME NEW e \in Endpoints, SendOne(e) PROVE Turns'
  BY <1>6, <1>s, <1>i DEF SendOne, Idle, hub, files, history, posts, world, Typed, RunTyped, WorldTyped
<1>7. ASSUME WatchSave PROVE Turns'
  BY <1>7, <1>s, <1>i DEF WatchSave, Idle, hub, files, history, posts, world, Typed, RunTyped, WorldTyped
<1>8. ASSUME NEW d \in Devices, Subscribe(d) PROVE Turns'
  BY <1>8, <1>s, <1>i DEF Subscribe, Idle, hub, files, history, posts, world, Typed, RunTyped, WorldTyped
<1>9. ASSUME NEW d \in Devices, Unsubscribe(d) PROVE Turns'
  BY <1>9, <1>s, <1>i DEF Unsubscribe, Idle, hub, files, history, posts, world, Typed, RunTyped, WorldTyped
<1>10. ASSUME NEW d \in Devices, PageForgets(d) PROVE Turns'
  BY <1>10, <1>s, <1>i DEF PageForgets, Idle, hub, files, history, posts, world, Typed, RunTyped,
     WorldTyped
<1>11. ASSUME NEW p \in Savers, SaveLock(p) PROVE Turns'
  <2>1. \A q \in Savers \ {p} : saver'[q] = saver[q]
    BY <1>11, <1>s DEF SaveLock
  <2>2. CASE Persist /\ dirty
    <3>1. /\ saver'[p].pc = "open" /\ saver[p].pc = "lock" /\ saver'[p].op = saver[p].op
          /\ UNCHANGED <<watch, acked>> /\ up'
      BY <1>11, <1>s, <2>2 DEF SaveLock
    <3>2. \A q \in Savers : ~Saving(q)
      BY <3>1 DEF Apart
    <3> QED
      BY <2>1, <3>1, <3>2
  <2>3. CASE ~(Persist /\ dirty)
    <3>1. /\ saver'[p] = Idle /\ saver[p].pc = "lock"
          /\ acked' = IF p = Watcher THEN acked ELSE [acked EXCEPT ![p] = saver[p].op]
          /\ watch' = IF p = Watcher THEN Resting ELSE watch
      BY <1>11, <1>s, <2>3 DEF SaveLock, Answer
    <3>2. \A d \in Devices : saver'[d].pc # "idle" => acked'[d] = None
      BY <2>1, <3>1, <1>i DEF Typed, WorldTyped
    <3> QED
      BY <2>1, <3>1, <3>2, <1>i
  <2> QED
    BY <2>2, <2>3
<1>12. ASSUME NEW p \in Savers, SaveOpen(p) PROVE Turns'
  BY <1>12, <1>s, <1>i DEF SaveOpen, Idle, hub, files, history, posts, world, Typed, RunTyped, WorldTyped
<1>13. ASSUME NEW p \in Savers, SaveWrite(p) PROVE Turns'
  <2>1. /\ \A q \in Savers \ {p} : saver'[q] = saver[q]
        /\ saver'[p].pc = "rename" /\ saver[p].pc = "write" /\ saver'[p].op = saver[p].op
        /\ UNCHANGED <<watch, acked>>
    BY <1>13, <1>s, SaveWriteFacts DEF SaveWrite, history, posts
  <2> QED
    BY <2>1
<1>14. ASSUME NEW p \in Savers, SaveRename(p) PROVE Turns'
  <2>1. /\ \A q \in Savers \ {p} : saver'[q] = saver[q]
        /\ saver'[p] = Idle /\ saver[p].pc = "rename"
    BY <1>14, <1>s, SaveRenameFacts DEF SaveRename
  <2>2. /\ acked' = IF p = Watcher THEN acked ELSE [acked EXCEPT ![p] = saver[p].op]
        /\ watch' = IF p = Watcher THEN Resting ELSE watch
    BY <1>14 DEF SaveRename, Answer
  <2>3. \A d \in Devices : saver'[d].pc # "idle" => acked'[d] = None
    BY <2>1, <2>2, <1>i DEF Typed, WorldTyped
  <2> QED
    BY <2>1, <2>2, <2>3, <1>i
<1>15. ASSUME Stop PROVE Turns'
  BY <1>15, <1>i DEF Stop
<1>16. ASSUME Start PROVE Turns'
  BY <1>16 DEF Start, Down, Resting, history, posts
<1>17. ASSUME NEW k \in Keys, ChangeKey(k) PROVE Turns'
  BY <1>17, <1>s, <1>i DEF ChangeKey, Idle, hub, files, history, posts, world, Typed, RunTyped, WorldTyped
<1>18. ASSUME ReloadKey PROVE Turns'
  BY <1>18, <1>s, <1>i DEF ReloadKey, Idle, hub, files, history, posts, world, Typed, RunTyped, WorldTyped
<1> QED
  BY <1>1, <1>2, <1>3, <1>4, <1>5, <1>6, <1>7, <1>8, <1>9, <1>10, <1>11, <1>12, <1>13, <1>14,
     <1>15, <1>16, <1>17, <1>18 DEF Next, Watch, Save

(* With saves apart the file is always a whole image: the rename is the only
   step that touches it, and it moves what its own save wrote. *)
LEMMA OnFileStep ==
  ASSUME Typed, Turns, OnFile, Next
  PROVE  OnFile'
<1>s. saver \in [Savers -> Rows]
  BY DEF Typed, SaveTyped
<1> USE DEF Rows
<1>i. Idle.pc = "idle" /\ Idle.file = None
  BY DEF Idle
<1> USE Distinct, PushHubAssumption DEF OnFile, Saving
<1>1. ASSUME NEW a \in Alerts, AlertChanges(a) PROVE OnFile'
  BY <1>1, <1>s, <1>i DEF AlertChanges, Turns, Idle, hub, files, history, posts, world
<1>2. ASSUME FetchAlerts PROVE OnFile'
  BY <1>2, <1>s, <1>i DEF FetchAlerts, Turns, Idle, hub, files, history, posts, world
<1>3. ASSUME WatchStart PROVE OnFile'
  BY <1>3, <1>s, <1>i DEF WatchStart, Turns, Idle, hub, files, history, posts, world
<1>4. ASSUME WatchInit PROVE OnFile'
  BY <1>4, <1>s, <1>i DEF WatchInit, Turns, Idle, hub, files, history, posts, world
<1>5. ASSUME NEW a \in Alerts, Broadcast(a) PROVE OnFile'
  BY <1>5, <1>s, <1>i DEF Broadcast, Turns, Idle, hub, files, history, posts, world
<1>6. ASSUME NEW e \in Endpoints, SendOne(e) PROVE OnFile'
  BY <1>6, <1>s, <1>i DEF SendOne, Turns, Idle, hub, files, history, posts, world
<1>7. ASSUME WatchSave PROVE OnFile'
  BY <1>7, <1>s, <1>i DEF WatchSave, Turns, Idle, hub, files, history, posts, world
<1>8. ASSUME NEW d \in Devices, Subscribe(d) PROVE OnFile'
  BY <1>8, <1>s, <1>i DEF Subscribe, Turns, Idle, hub, files, history, posts, world
<1>9. ASSUME NEW d \in Devices, Unsubscribe(d) PROVE OnFile'
  BY <1>9, <1>s, <1>i DEF Unsubscribe, Turns, Idle, hub, files, history, posts, world
<1>10. ASSUME NEW d \in Devices, PageForgets(d) PROVE OnFile'
  BY <1>10, <1>s, <1>i DEF PageForgets, Turns, Idle, hub, files, history, posts, world
<1>11. ASSUME NEW p \in Savers, SaveLock(p) PROVE OnFile'
  BY <1>11, <1>s, <1>i DEF SaveLock, Turns, Idle, hub, files, history, posts, world
<1>12. ASSUME NEW p \in Savers, SaveOpen(p) PROVE OnFile'
  BY <1>12, <1>s, <1>i DEF SaveOpen, Turns, Idle, hub, files, history, posts, world
<1>13. ASSUME NEW p \in Savers, SaveWrite(p) PROVE OnFile'
  <2>1. /\ \A q \in Savers \ {p} : saver'[q] = saver[q]
        /\ saver'[p] = [saver[p] EXCEPT !.pc = "rename"] /\ saver[p].pc = "write"
        /\ tmp' = saver[p].img /\ disk' = disk /\ saver[p] \in Rows
    BY <1>13, <1>s, SaveWriteFacts DEF SaveWrite
  <2>2. \A q \in Savers \ {p} : ~Saving(q)
    BY <2>1 DEF Turns
  <2> QED
    BY <2>1, <2>2
<1>14. ASSUME NEW p \in Savers, SaveRename(p) PROVE OnFile'
  <2>1. /\ \A q \in Savers \ {p} : saver'[q] = saver[q]
        /\ saver'[p] = Idle /\ saver[p].pc = "rename" /\ disk' = saver[p].img
        /\ saver[p].img \in Good
    BY <1>14, <1>s, SaveRenameFacts DEF SaveRename
  <2>2. \A q \in Savers \ {p} : ~Saving(q)
    BY <2>1 DEF Turns
  <2> QED
    BY <2>1, <2>2, <1>i
<1>15. ASSUME Stop PROVE OnFile'
  BY <1>15, <1>s, <1>i DEF Stop, Turns, Idle, hub, files, history, posts, world
<1>16. ASSUME Start PROVE OnFile'
  BY <1>16, <1>s, <1>i DEF Start, Turns, Idle, hub, files, history, posts, world
<1>17. ASSUME NEW k \in Keys, ChangeKey(k) PROVE OnFile'
  BY <1>17, <1>s, <1>i DEF ChangeKey, Turns, Idle, hub, files, history, posts, world
<1>18. ASSUME ReloadKey PROVE OnFile'
  BY <1>18, <1>s, <1>i DEF ReloadKey, Turns, Idle, hub, files, history, posts, world
<1> QED
  BY <1>1, <1>2, <1>3, <1>4, <1>5, <1>6, <1>7, <1>8, <1>9, <1>10, <1>11, <1>12, <1>13, <1>14,
     <1>15, <1>16, <1>17, <1>18 DEF Next, Watch, Save

(* A save that is not writing carries no image. *)
LEMMA Quiescent ==
  ASSUME Typed, Turns, OnFile, NEW p \in Savers, ~Saving(p)
  PROVE  saver[p].img = Blank
BY DEF Typed, SaveTyped, Rows, Turns, OnFile, Saving, Idle

(* A key that is about to be installed is on no endpoint anywhere. *)
LEMMA NewNowhere ==
  ASSUME Typed, OnFile, FreshKey, vkey # fileKey, NEW d \in Devices
  PROVE  /\ [dev |-> d, key |-> fileKey] \notin ToSet(subs)
         /\ [dev |-> d, key |-> fileKey] \notin ToSet(Saved.subs)
         /\ \A p \in Savers : [dev |-> d, key |-> fileKey] \notin ToSet(saver[p].img.subs)
         /\ page[d] # None => page[d].key # fileKey
<1>1. NewLive(fileKey) /\ NewSaved(fileKey)
  BY DEF FreshKey, LiveKey
<1>2. ASSUME NEW s, fileKey \notin KeysOf(s) PROVE [dev |-> d, key |-> fileKey] \notin ToSet(s)
  BY <1>2 DEF KeysOf
<1>3. fileKey \notin KeysOf(Saved.subs)
  BY <1>1, BlankGood, Distinct DEF Saved, Blank, NewSaved, Typed, SaveTyped, OnFile
<1> QED
  BY <1>1, <1>2, <1>3 DEF NewLive, NewSaved

(* What a step must leave alone for the file to stay current. *)
LEMMA CurrentSame ==
  ASSUME Current, UNCHANGED <<up, vkey, subs, seen, init, dirty, disk>>,
         watch.pc = "collect" => watch'.pc = "collect",
         \A p \in Savers : (saver'[p].pc \in {"open", "write", "rename"} <=> Saving(p))
                           /\ (Saving(p) => saver'[p].img = saver[p].img)
  PROVE  Current'
BY DEF Current, Reflects, Saving, Saved

(* loadPushState restores what the file holds. *)
LEMMA StartFacts ==
  ASSUME Typed, OnFile, Start
  PROVE  /\ ~up /\ up' /\ vkey' = fileKey /\ subs' = Saved.subs /\ seen' = Saved.seen /\ init' = Saved.init
         /\ UNCHANGED <<dirty, store, watch, saver, disk, tmp, fileKey, page, acked>>
BY Distinct DEF Start, Saved, Typed, SaveTyped, OnFile, files, world, history, posts

(* Nothing but a marked change (dirty) parts the hub from what is, or is
   being, saved. *)
LEMMA CurrentStep ==
  ASSUME Typed, Down, Turns, OnFile, FreshKey, Current, Next, Apart
  PROVE  Current'
<1>s. saver \in [Savers -> Rows]
  BY DEF Typed, SaveTyped
<1> USE DEF Rows
<1>i. Idle.pc = "idle" /\ Idle.img = Blank /\ Idle.op = None
  BY DEF Idle
<1>1. ASSUME NEW a \in Alerts, AlertChanges(a) PROVE Current'
  BY <1>1, <1>s, <1>i, CurrentSame, Distinct DEF AlertChanges, hub, files, history, posts, world, Saving,
     Turns, Typed, RunTyped
<1>2. ASSUME FetchAlerts PROVE Current'
  BY <1>2, <1>s, <1>i, CurrentSame, Distinct DEF FetchAlerts, hub, files, history, posts, world, Saving,
     Turns, Typed, RunTyped
<1>3. ASSUME WatchStart PROVE Current'
  BY <1>3 DEF WatchStart, Typed, RunTyped, Current, Reflects, Saving, Saved, files
<1>4. ASSUME WatchInit PROVE Current'
  BY <1>4 DEF WatchInit, Current
<1>5. ASSUME NEW a \in Alerts, Broadcast(a) PROVE Current'
  BY <1>5, <1>s, <1>i, CurrentSame, Distinct DEF Broadcast, hub, files, history, posts, world, Saving,
     Turns, Typed, RunTyped
<1>6. ASSUME NEW e \in Endpoints, SendOne(e) PROVE Current'
  <2>1. CASE dirty' = TRUE
    BY <2>1 DEF Current
  <2>2. CASE UNCHANGED <<subs, dirty>>
    BY <1>6, <2>2, CurrentSame DEF SendOne, files, Saving, Typed, RunTyped
  <2> QED
    BY <1>6, <2>1, <2>2 DEF SendOne
<1>7. ASSUME WatchSave PROVE Current'
  BY <1>7, <1>s, <1>i, CurrentSame, Distinct DEF WatchSave, hub, files, history, posts, world, Saving,
     Turns, Typed, RunTyped
<1>8. ASSUME NEW d \in Devices, Subscribe(d) PROVE Current'
  BY <1>8 DEF Subscribe, Current
<1>9. ASSUME NEW d \in Devices, Unsubscribe(d) PROVE Current'
  <2>1. CASE page[d] \in ToSet(subs)
    BY <1>9, <2>1 DEF Unsubscribe, Current
  <2>2. CASE page[d] \notin ToSet(subs)
    <3>1. subs' = subs
      BY <1>9, <2>2, WithoutFacts DEF Unsubscribe, Typed, HubTyped
    <3>2. dirty' = dirty
      BY <1>9, <2>2 DEF Unsubscribe, Typed, HubTyped
    <3>3. UNCHANGED <<up, vkey, seen, init, disk, watch>>
      BY <1>9 DEF Unsubscribe, files
    <3>4. saver[d].pc = "idle" /\ saver' = [saver EXCEPT ![d] = [Idle EXCEPT !.pc = "lock", !.op = "off"]]
      BY <1>9 DEF Unsubscribe
    <3>5. saver'[d].pc = "lock" /\ \A p \in Savers \ {d} : saver'[p] = saver[p]
      BY <3>4, <1>s, Distinct DEF Idle
    <3> QED
      BY <3>1, <3>2, <3>3, <3>4, <3>5, CurrentSame DEF Saving
  <2> QED
    BY <2>1, <2>2
<1>10. ASSUME NEW d \in Devices, PageForgets(d) PROVE Current'
  BY <1>10, <1>s, <1>i, CurrentSame, Distinct DEF PageForgets, hub, files, history, posts, world, Saving,
     Turns, Typed, RunTyped
<1>11. ASSUME NEW p \in Savers, SaveLock(p) PROVE Current'
  <2>1. CASE Persist /\ dirty
    <3>1. /\ saver' = [saver EXCEPT ![p].pc = "open", ![p].img = Image] /\ saver[p].pc = "lock"
          /\ UNCHANGED <<up, vkey, subs, seen, init, watch>> /\ up
      BY <1>11, <2>1 DEF SaveLock
    <3>2. \A q \in Savers : ~Saving(q)
      BY <3>1, <1>s DEF Apart, Saving
    <3>3. saver'[p].pc = "open" /\ saver'[p].img = Image /\ \A q \in Savers \ {p} : saver'[q] = saver[q]
      BY <3>1, <1>s
    <3>4. Image.subs = subs /\ Image.seen = seen /\ Image.init = init
      BY DEF Image
    <3> QED
      BY <3>1, <3>2, <3>3, <3>4 DEF Current, Reflects, Saving
  <2>2. CASE ~(Persist /\ dirty)
    BY <1>11, <1>s, <1>i, <2>2, CurrentSame DEF SaveLock, Answer, files, Saving, Turns, Resting
  <2> QED
    BY <2>1, <2>2
<1>12. ASSUME NEW p \in Savers, SaveOpen(p) PROVE Current'
  BY <1>12, <1>s, CurrentSame DEF SaveOpen, hub, Saving
<1>13. ASSUME NEW p \in Savers, SaveWrite(p) PROVE Current'
  BY <1>13, <1>s, SaveWriteFacts, CurrentSame DEF SaveWrite, hub, Saving
<1>14. ASSUME NEW p \in Savers, SaveRename(p) PROVE Current'
  <2>1. /\ Saving(p) /\ disk' = saver[p].img /\ saver' = [saver EXCEPT ![p] = Idle]
        /\ UNCHANGED <<up, vkey, subs, seen, init, dirty>> /\ (watch.pc = "collect" => watch'.pc = "collect")
    BY <1>14, SaveRenameFacts DEF SaveRename, Saving, hub, Answer, Turns, Resting
  <2>2. \A q \in Savers : saver'[q].pc \notin {"open", "write", "rename"}
    BY <2>1, <1>s, <1>i DEF Turns, Saving
  <2>3. Saved' = saver[p].img
    BY <2>1, <1>s, Distinct DEF Saved
  <2> QED
    BY <2>1, <2>2, <2>3 DEF Current, Reflects, Saving
<1>15. ASSUME Stop PROVE Current'
  BY <1>15 DEF Stop, Current
<1>16. ASSUME Start PROVE Current'
  <2>1. \A q \in Savers : saver'[q].pc \notin {"open", "write", "rename"}
    BY <1>16, StartFacts, <1>i DEF Down
  <2>2. Saved' = Saved
    BY <1>16, StartFacts DEF Saved
  <2> QED
    BY <1>16, <2>1, <2>2, StartFacts DEF Current, Reflects, Saving
<1>17. ASSUME NEW k \in Keys, ChangeKey(k) PROVE Current'
  BY <1>17, <1>s, <1>i, CurrentSame, Distinct DEF ChangeKey, hub, files, history, posts, world, Saving,
     Turns, Typed, RunTyped
<1>18. ASSUME ReloadKey PROVE Current'
  <2>1. fileKey \notin KeysOf(Saved.subs) /\ \A q \in Savers : fileKey \notin KeysOf(saver[q].img.subs)
    BY <1>18, BlankGood, Distinct DEF ReloadKey, FreshKey, NewSaved, Saved, Blank, Typed,
       SaveTyped, OnFile
  <2>2. /\ subs' = <<>> /\ vkey' = fileKey /\ UNCHANGED <<up, seen, init, dirty, watch, saver, disk>>
    BY <1>18 DEF ReloadKey, files
  <2> QED
    BY <2>1, <2>2 DEF Current, Reflects, Saving, Saved
<1> QED
  BY <1>1, <1>2, <1>3, <1>4, <1>5, <1>6, <1>7, <1>8, <1>9, <1>10, <1>11, <1>12, <1>13, <1>14,
     <1>15, <1>16, <1>17, <1>18 DEF Next, Watch, Save

(* A key to be installed stays unknown to the hub and the browsers. *)
LEMMA LiveKeyStep ==
  ASSUME Typed, LiveKey, Next, NewKey
  PROVE  LiveKey'
<1>1. CASE vkey' = fileKey'
  BY <1>1 DEF LiveKey
<1>2. CASE UNCHANGED <<vkey, fileKey>> /\ vkey # fileKey
  <2>n. NewLive(fileKey)
    BY <1>2 DEF LiveKey
  <2>1. CASE UNCHANGED <<subs, watch, page>>
    BY <1>2, <2>n, <2>1 DEF LiveKey, NewLive
  <2>2. ASSUME \/ FetchAlerts \/ WatchStart \/ WatchInit \/ WatchSave
               \/ (\E a \in Alerts : Broadcast(a)) \/ (\E e \in Endpoints : SendOne(e))
        PROVE  LiveKey'
    <3>1. watch'.todo \subseteq watch.todo \union ToSet(subs)
      <4>1. FetchAlerts \/ WatchStart \/ WatchInit \/ WatchSave => watch'.todo = watch.todo
        BY DEF FetchAlerts, WatchStart, WatchInit, WatchSave, Typed, RunTyped
      <4>2. ASSUME NEW a \in Alerts, Broadcast(a) PROVE watch'.todo = ToSet(subs)
        BY <4>2 DEF Broadcast, Typed, RunTyped
      <4>3. ASSUME NEW e \in Endpoints, SendOne(e) PROVE watch'.todo = watch.todo \ {e}
        BY <4>3 DEF SendOne, Typed, RunTyped
      <4> QED
        BY <2>2, <4>1, <4>2, <4>3
    <3>2. ToSet(subs') \subseteq ToSet(subs) /\ page' = page
      <4>1. FetchAlerts \/ WatchStart \/ WatchInit \/ WatchSave \/ (\E a \in Alerts : Broadcast(a)) => UNCHANGED <<subs, page>>
        BY DEF FetchAlerts, WatchStart, WatchInit, WatchSave, Broadcast, hub, world
      <4>2. ASSUME NEW e \in Endpoints, SendOne(e) PROVE ToSet(subs') \subseteq ToSet(subs) /\ page' = page
        BY <4>2, WithoutFacts DEF SendOne, Typed, HubTyped, world
      <4> QED
        BY <2>2, <4>1, <4>2
    <3> QED
      BY <1>2, <2>n, <3>1, <3>2 DEF LiveKey, NewLive, KeysOf
  <2>3. ASSUME NEW d \in Devices, Subscribe(d) PROVE LiveKey'
    <3>1. PICK e : /\ e \in {[dev |-> d, key |-> vkey]} \union ({page[d]} \ {None})
                   /\ page' = [page EXCEPT ![d] = e] /\ subs' = Registered(e) /\ watch' = watch
      BY <2>3 DEF Subscribe
    <3>2. e \in Endpoints /\ e.key # fileKey
      BY <1>2, <2>n, <3>1 DEF NewLive, Typed, HubTyped, WorldTyped, Endpoints
    <3>3. ToSet(subs') \subseteq ToSet(subs) \union {e}
      BY <3>1, <3>2, RegisteredFacts DEF Typed, HubTyped
    <3> QED
      BY <1>2, <2>n, <3>1, <3>2, <3>3 DEF LiveKey, NewLive, KeysOf, Typed, WorldTyped
  <2>4. ASSUME NEW d \in Devices, Unsubscribe(d) \/ PageForgets(d) PROVE LiveKey'
    <3>1. ToSet(subs') \subseteq ToSet(subs) /\ watch' = watch
      BY <2>4, WithoutFacts DEF Unsubscribe, PageForgets, hub, Typed, HubTyped
    <3>2. \A c \in Devices : page'[c] # None => page'[c] = page[c]
      BY <2>4 DEF Unsubscribe, PageForgets, world, Typed, WorldTyped
    <3> QED
      BY <1>2, <2>n, <3>1, <3>2 DEF LiveKey, NewLive, KeysOf
  <2>5. ASSUME Stop \/ \E p \in Savers : SaveLock(p) \/ SaveRename(p) PROVE LiveKey'
    <3>1. subs' \in {subs, <<>>} /\ watch' \in {watch, Resting}
      BY <2>5 DEF Stop, SaveLock, SaveRename, Answer, hub
    <3>2. \A c \in Devices : page'[c] # None => page'[c] = page[c]
      BY <2>5 DEF Stop, SaveLock, SaveRename, Answer, Typed, WorldTyped
    <3> QED
      BY <1>2, <2>n, <3>1, <3>2, BlankGood DEF LiveKey, NewLive, Resting
  <2>6. ASSUME ReloadKey \/ Start PROVE FALSE
    BY <1>2, <2>6 DEF ReloadKey, Start, world
  <2> QED
    BY <2>1, <2>2, <2>3, <2>4, <2>5, <2>6 DEF Next, Watch, Save, AlertChanges, ChangeKey, SaveOpen,
       SaveWrite, hub, world
<1>3. CASE vkey' # fileKey' /\ fileKey' # fileKey
  <2>1. PICK k \in Keys : ChangeKey(k)
    BY <1>3, ZenonT(30) DEF Next, Watch, Save, AlertChanges, FetchAlerts, WatchStart, WatchInit, Broadcast,
       SendOne, WatchSave,
                Subscribe, Unsubscribe, PageForgets, SaveLock, SaveOpen, SaveWrite, SaveRename,
                Stop, Start, ReloadKey, world
  <2>2. UNCHANGED <<vkey, subs, watch, page>>
    BY <2>1 DEF ChangeKey, hub
  <2> QED
    BY <1>3, <2>2, SMTT(30) DEF NewKey, LiveKey, NewLive
<1>4. vkey' = fileKey' \/ vkey' = vkey
  BY DEF Next, Watch, Save, AlertChanges, FetchAlerts, WatchStart, WatchInit, Broadcast, SendOne,
     WatchSave,
         Subscribe, Unsubscribe, PageForgets, SaveLock, SaveOpen, SaveWrite, SaveRename, Stop,
         Start, ReloadKey, ChangeKey, world, hub
<1> QED
  BY <1>1, <1>2, <1>3, <1>4

(* And to the file and the saves. *)
LEMMA FreshKeyStep ==
  ASSUME Typed, Down, Turns, OnFile, FreshKey, Next, NewKey
  PROVE  FreshKey'
<1>s. saver \in [Savers -> Rows]
  BY DEF Typed, SaveTyped
<1> USE DEF Rows
<1>i. Idle.pc = "idle" /\ Idle.img = Blank /\ Idle.op = None
  BY DEF Idle
<1>l. LiveKey'
  BY LiveKeyStep DEF FreshKey
<1>b. (\A k : k \notin KeysOf(Blank.subs)) /\ Image.subs = subs
  BY BlankGood, SMTT(30) DEF Blank, Image
<1>1. ASSUME vkey # fileKey, UNCHANGED <<vkey, fileKey>>
      PROVE  NewSaved(fileKey)'
  <2>1. NewLive(fileKey) /\ NewSaved(fileKey)
    BY <1>1 DEF FreshKey, LiveKey
  <2>2. CASE UNCHANGED <<saver, disk>>
    BY <1>1, <2>1, <2>2 DEF NewSaved
  <2>3. ASSUME WatchSave \/ Stop \/ (\E d \in Devices : Subscribe(d) \/ Unsubscribe(d))
               \/ \E p \in Savers : SaveLock(p) \/ SaveOpen(p)
        PROVE  NewSaved(fileKey)'
    <3>1. (\A q \in Savers : saver'[q].img \in {saver[q].img, Blank, Image}) /\ disk' = disk
      <4>1. CASE WatchSave
        BY <4>1, <1>s, <1>i DEF WatchSave, Idle, files
      <4>2. CASE Stop
        BY <4>2, <1>s, <1>i DEF Stop, files
      <4>3. ASSUME NEW d \in Devices, Subscribe(d) \/ Unsubscribe(d)
            PROVE  (\A q \in Savers : saver'[q].img \in {saver[q].img, Blank}) /\ disk' = disk
        <5>1. \E o \in {"on", "off"} : saver' = [saver EXCEPT ![d] = [Idle EXCEPT !.pc = "lock", !.op = o]]
          BY <4>3 DEF Subscribe, Unsubscribe
        <5>2. disk' = disk
          BY <4>3 DEF Subscribe, Unsubscribe, files
        <5> QED
          BY <5>1, <5>2, <1>s DEF Idle
      <4>4. ASSUME NEW p \in Savers, SaveLock(p)
            PROVE  (\A q \in Savers : saver'[q].img \in {saver[q].img, Blank, Image}) /\ disk' = disk
        BY <4>4, <1>s, <1>i DEF SaveLock, files
      <4>5. ASSUME NEW p \in Savers, SaveOpen(p)
            PROVE  (\A q \in Savers : saver'[q].img = saver[q].img) /\ disk' = disk
        BY <4>5, <1>s DEF SaveOpen
      <4> QED
        BY <2>3, <4>1, <4>2, <4>3, <4>4, <4>5
    <3> QED
      BY <1>1, <1>b, <2>1, <3>1 DEF NewSaved, NewLive
  <2>4. ASSUME NEW p \in Savers, SaveWrite(p) \/ SaveRename(p) PROVE NewSaved(fileKey)'
    <3>1. (\A q \in Savers : saver'[q].img \in {saver[q].img, Blank}) /\ disk' \in {disk, saver[p].img}
      <4>1. CASE SaveWrite(p)
        BY <4>1, <1>s, SaveWriteFacts
      <4>2. CASE SaveRename(p)
        BY <4>2, <1>s, <1>i, SaveRenameFacts
      <4> QED
        BY <2>4, <4>1, <4>2
    <3> QED
      BY <1>1, <1>b, <2>1, <3>1 DEF NewSaved
  <2> QED
    BY <2>2, <2>3, <2>4 DEF Next, Watch, Save, AlertChanges, FetchAlerts, WatchStart, WatchInit,
       Broadcast, SendOne,
                            PageForgets, Start, ReloadKey, ChangeKey, files
<1>2. ASSUME vkey' # fileKey', fileKey' # fileKey PROVE NewSaved(fileKey)'
  <2>1. PICK k \in Keys : ChangeKey(k)
    BY <1>2, ZenonT(30) DEF Next, Watch, Save, AlertChanges, FetchAlerts, WatchStart, WatchInit, Broadcast,
       SendOne, WatchSave,
                Subscribe, Unsubscribe, PageForgets, SaveLock, SaveOpen, SaveWrite, SaveRename,
                Stop, Start, ReloadKey, world
  <2>2. UNCHANGED <<vkey, saver, disk>>
    BY <2>1 DEF ChangeKey, hub, files
  <2> QED
    BY <1>2, <2>2, SMTT(30) DEF NewKey, NewSaved
<1>3. vkey' = fileKey' \/ vkey' = vkey
  BY DEF Next, Watch, Save, AlertChanges, FetchAlerts, WatchStart, WatchInit, Broadcast, SendOne,
     WatchSave,
         Subscribe, Unsubscribe, PageForgets, SaveLock, SaveOpen, SaveWrite, SaveRename, Stop,
         Start, ReloadKey, ChangeKey, world, hub
<1> QED
  BY <1>l, <1>1, <1>2, <1>3 DEF FreshKey

(* A device has one endpoint of the key that signs. *)
LEMMA MineFacts == \A d \in Devices : /\ Mine(d).dev = d /\ Mine(d).key = vkey
                                       /\ \A e \in Endpoints : e.dev = d /\ e.key = vkey => e = Mine(d)
BY Distinct DEF Mine

(* A browser registers its endpoint of this key, or one of an old key. *)
LEMMA SubscribeFacts ==
  ASSUME Typed, Pages, NEW d \in Devices, Subscribe(d)
  PROVE  \E e \in Endpoints :
           /\ e.dev = d /\ page' = [page EXCEPT ![d] = e] /\ subs' = Registered(e)
           /\ (e = Mine(d) \/ (page[d] = e /\ e.key # vkey)) /\ ToSet(subs') \subseteq ToSet(subs) \union {e}
<1>1. PICK e : /\ e \in {[dev |-> d, key |-> vkey]} \union ({page[d]} \ {None})
               /\ page' = [page EXCEPT ![d] = e] /\ subs' = Registered(e)
  BY DEF Subscribe
<1>2. e \in Endpoints /\ e.dev = d /\ (e = Mine(d) \/ (page[d] = e /\ e.key # vkey))
  <2>1. CASE e = [dev |-> d, key |-> vkey]
    BY <2>1 DEF Typed, HubTyped, Endpoints, Mine
  <2>2. CASE e # [dev |-> d, key |-> vkey]
    <3>1. e = page[d] /\ e # None
      BY <1>1, <2>2
    <3>2. e \in Endpoints /\ e.dev = d
      BY <3>1 DEF Typed, WorldTyped, Pages
    <3> QED
      BY <3>1, <3>2, MineFacts
  <2> QED
    BY <2>1, <2>2
<1>3. ToSet(subs') \subseteq ToSet(subs) \union {e}
  BY <1>1, <1>2, RegisteredFacts DEF Typed, HubTyped
<1> QED
  BY <1>1, <1>2, <1>3

(* No device is in an empty hub. *)
LEMMA NothingBlank == \A d \in Devices : ~Has(Blank, d)
BY BlankGood DEF Has, Blank

(* No endpoint of the key that is installed next is held anywhere. *)
LEMMA MineNew ==
  ASSUME Typed, OnFile, FreshKey, vkey # fileKey, vkey' = fileKey, NEW d \in Devices
  PROVE  /\ Mine(d)' \notin ToSet(subs) /\ Mine(d)' \notin ToSet(Saved.subs)
         /\ \A p \in Savers : Mine(d)' \notin ToSet(saver[p].img.subs)
         /\ page[d] # None => page[d].key # vkey'
BY NewNowhere DEF Mine

\* The steps that change no promise and no place an endpoint is kept in.
Still == UNCHANGED <<up, vkey, subs, disk, page, acked>> /\ \A p \in Savers :
           saver'[p].img = saver[p].img /\ saver'[p].op = saver[p].op
           /\ (saver'[p].pc \in {"open", "write", "rename"} <=> Saving(p))

(* The feed, the fetch, the start of a run and the file steps change none of them. *)
LEMMA StillFacts ==
  ASSUME Typed, Turns, OnFile, Next,
         \/ \E a \in Alerts : AlertChanges(a) \/ Broadcast(a)
         \/ FetchAlerts \/ WatchStart \/ WatchInit \/ (\E k \in Keys : ChangeKey(k))
         \/ \E p \in Savers : SaveOpen(p) \/ SaveWrite(p)
  PROVE  Still
<1>1. ASSUME NEW a \in Alerts, AlertChanges(a) \/ Broadcast(a) PROVE Still
  BY <1>1 DEF AlertChanges, Broadcast, Still, hub, files, world, history, posts, Saving
<1>2. ASSUME FetchAlerts \/ WatchStart \/ WatchInit PROVE Still
  BY <1>2 DEF FetchAlerts, WatchStart, WatchInit, Still, hub, files, world, history, posts, Saving
<1>3. ASSUME NEW k \in Keys, ChangeKey(k) PROVE Still
  BY <1>3 DEF ChangeKey, Still, hub, files, world, history, posts, Saving
<1>4. ASSUME NEW p \in Savers, SaveOpen(p) PROVE Still
  BY <1>4 DEF SaveOpen, Still, hub, files, world, history, posts, Saving, Typed, SaveTyped
<1>5. ASSUME NEW p \in Savers, SaveWrite(p) PROVE Still
  <2>1. UNCHANGED <<up, vkey, subs, page, acked, disk>> /\ saver' = [saver EXCEPT ![p].pc = "rename"]
    BY <1>5, SaveWriteFacts DEF SaveWrite, hub, world, history, posts
  <2> QED
    BY <1>5, <2>1 DEF SaveWrite, Still, Saving, Typed, SaveTyped
<1> QED
  BY <1>1, <1>2, <1>3, <1>4, <1>5

(* A browser that holds an endpoint of an old key has none of this key. *)
LEMMA PagesStep ==
  ASSUME Typed, Down, Turns, OnFile, FreshKey, Pages, Next
  PROVE  Pages'
<1>s. saver \in [Savers -> Rows]
  BY DEF Typed, SaveTyped
<1> USE DEF Rows
<1>i. Idle.pc = "idle" /\ Idle.img = Blank /\ Idle.op = None
  BY DEF Idle
<1> USE NothingBlank
<1>1. CASE Still
  BY <1>1 DEF Still, Pages, Has, Mine, Saved
<1>2. ASSUME NEW e \in Endpoints, SendOne(e) PROVE Pages'
  <2>1. ToSet(subs') \subseteq ToSet(subs)
    BY <1>2, WithoutFacts DEF SendOne, Typed, HubTyped
  <2> QED
    BY <1>2, <2>1 DEF SendOne, world, files, Pages, Has, Mine, Saved
<1>3. ASSUME WatchSave PROVE Pages'
  <2>1. \A q \in Savers : saver'[q].img \in {saver[q].img, Blank}
    BY <1>3, <1>s, <1>i DEF WatchSave, Idle
  <2> QED
    BY <1>3, <2>1 DEF WatchSave, hub, world, files, Pages, Has, Mine, Saved
<1>4. ASSUME NEW d \in Devices, Subscribe(d) PROVE Pages'
  <2>1. PICK e \in Endpoints :
           /\ e.dev = d /\ page' = [page EXCEPT ![d] = e] /\ subs' = Registered(e)
           /\ (e = Mine(d) \/ (page[d] = e /\ e.key # vkey)) /\ ToSet(subs') \subseteq ToSet(subs) \union {e}
    BY <1>4, SubscribeFacts
  <2>2. (\A q \in Savers : saver'[q].img \in {saver[q].img, Blank}) /\ UNCHANGED <<vkey, disk>>
    BY <1>4, <1>s, <1>i DEF Subscribe, Idle, files
  <2>3. \A c \in Devices : c # d => page'[c] = page[c]
    BY <2>1
  <2>4. page'[d] = e
    BY <2>1 DEF Typed, WorldTyped
  <2>5. ASSUME NEW c \in Devices, page'[c] # None, page'[c].key # vkey
        PROVE  Mine(c) \notin ToSet(subs') /\ ~Has(Saved, c) /\ \A p \in Savers : ~Has(saver'[p].img, c)
    <3>1. CASE c = d
      <4>1. page[c] = e /\ e # Mine(c)
        BY <2>1, <2>4, <2>5, <3>1, MineFacts
      <4> QED
        BY <2>1, <2>2, <2>4, <2>5, <3>1, <4>1, Distinct DEF Pages, Has
    <3>2. CASE c # d
      <4>1. Mine(c) # e
        BY <2>1, <3>2, MineFacts
      <4> QED
        BY <2>1, <2>2, <2>3, <2>5, <3>2, <4>1 DEF Pages, Has
    <3> QED
      BY <3>1, <3>2
  <2>6. ASSUME NEW c \in Devices, page'[c] # None PROVE page'[c].dev = c
    BY <2>1, <2>3, <2>4, <2>6 DEF Pages
  <2> QED
    BY <2>2, <2>5, <2>6 DEF Pages, Has, Mine, Saved
<1>5. ASSUME NEW d \in Devices, Unsubscribe(d) PROVE Pages'
  <2>1. ToSet(subs') \subseteq ToSet(subs)
    BY <1>5, WithoutFacts DEF Unsubscribe, Typed, HubTyped
  <2>2. \A q \in Savers : saver'[q].img \in {saver[q].img, Blank}
    BY <1>5, <1>s, <1>i DEF Unsubscribe, Idle
  <2> QED
    BY <1>5, <2>1, <2>2 DEF Unsubscribe, world, files, Pages, Has, Mine, Saved
<1>6. ASSUME NEW d \in Devices, PageForgets(d) PROVE Pages'
  <2>1. \A c \in Devices : page'[c] # None => page'[c] = page[c]
    BY <1>6 DEF PageForgets, Typed, WorldTyped
  <2> QED
    BY <1>6, <2>1 DEF PageForgets, hub, files, Pages, Has, Mine, Saved
<1>7. ASSUME NEW p \in Savers, SaveLock(p) PROVE Pages'
  <2>1. \A c \in Devices : page'[c] # None => page'[c] = page[c]
    BY <1>7 DEF SaveLock, Answer, Typed, WorldTyped
  <2>2. \A q \in Savers : saver'[q].img \in {saver[q].img, Blank, Image}
    BY <1>7, <1>s, <1>i DEF SaveLock
  <2>3. Image.subs = subs
    BY DEF Image
  <2> QED
    BY <1>7, <2>1, <2>2, <2>3 DEF SaveLock, files, Pages, Has, Mine, Saved
<1>8. ASSUME NEW p \in Savers, SaveRename(p) PROVE Pages'
  <2>1. \A c \in Devices : page'[c] # None => page'[c] = page[c]
    BY <1>8 DEF SaveRename, Answer, Typed, WorldTyped
  <2>2. (\A q \in Savers : saver'[q].img \in {saver[q].img, Blank}) /\ disk' = saver[p].img
    BY <1>8, <1>s, <1>i, SaveRenameFacts
  <2>3. Saved' = saver[p].img
    BY <2>2, <1>s, Distinct DEF Saved
  <2> QED
    BY <1>8, <2>1, <2>2, <2>3 DEF SaveRename, hub, Pages, Has, Mine
<1>9. ASSUME Stop PROVE Pages'
  <2>1. \A c \in Devices : page'[c] # None => page'[c] = page[c]
    BY <1>9 DEF Stop
  <2>2. (\A q \in Savers : saver'[q].img = Blank) /\ subs' = <<>> /\ UNCHANGED <<vkey, disk>>
    BY <1>9, <1>i DEF Stop, files
  <2>3. Blank.subs = <<>>
    BY DEF Blank
  <2> QED
    BY <2>1, <2>2, <2>3 DEF Pages, Has, Mine, Saved
<1>10. ASSUME Start PROVE Pages'
  <2>1. CASE vkey' = vkey
    BY <1>10, <2>1, StartFacts DEF Pages, Has, Mine, Saved
  <2>2. CASE vkey' # vkey
    BY <1>10, <2>2, StartFacts, MineNew DEF Pages, Has, Saved
  <2> QED
    BY <2>1, <2>2
<1>11. ASSUME ReloadKey PROVE Pages'
  <2>1. /\ subs' = <<>> /\ vkey' = fileKey /\ vkey # fileKey /\ UNCHANGED <<saver, disk, page>>
    BY <1>11 DEF ReloadKey, files, world
  <2> QED
    BY <2>1, MineNew, BlankGood DEF Pages, Has, Saved
<1> QED
  BY <1>1, <1>2, <1>3, <1>4, <1>5, <1>6, <1>7, <1>8, <1>9, <1>10, <1>11, StillFacts DEF Next,
     Watch, Save

(* Nothing brings a device back that turned its notifications off. *)
LEMMA OffStep ==
  ASSUME Typed, Down, Turns, OnFile, FreshKey, Pages, Current, Off, Next, Apart
  PROVE  Off'
<1>s. saver \in [Savers -> Rows]
  BY DEF Typed, SaveTyped
<1> USE DEF Rows
<1>i. Idle.pc = "idle" /\ Idle.img = Blank /\ Idle.op = None
  BY DEF Idle
<1> USE NothingBlank, Distinct
<1>1. CASE Still
  BY <1>1 DEF Still, Off, Has, Mine, Saved
<1>2. ASSUME NEW e \in Endpoints, SendOne(e) PROVE Off'
  <2>1. ToSet(subs') \subseteq ToSet(subs)
    BY <1>2, WithoutFacts DEF SendOne, Typed, HubTyped
  <2> QED
    BY <1>2, <2>1 DEF SendOne, world, files, Off, Has, Mine, Saved
<1>3. ASSUME WatchSave PROVE Off'
  <2>1. \A q \in Savers : saver'[q].img \in {saver[q].img, Blank}
    BY <1>3, <1>s, <1>i DEF WatchSave, Idle
  <2>2. \A d \in Devices : saver'[d] = saver[d]
    BY <1>3, <1>s DEF WatchSave
  <2> QED
    BY <1>3, <2>1, <2>2 DEF WatchSave, hub, world, files, history, posts, Off, Has, Mine, Saved
<1>4. ASSUME NEW d \in Devices, Subscribe(d) PROVE Off'
  <2>1. PICK e \in Endpoints :
           /\ e.dev = d /\ page' = [page EXCEPT ![d] = e] /\ subs' = Registered(e)
           /\ (e = Mine(d) \/ (page[d] = e /\ e.key # vkey)) /\ ToSet(subs') \subseteq ToSet(subs) \union {e}
    BY <1>4, SubscribeFacts
  <2>2. (\A q \in Savers : saver'[q].img \in {saver[q].img, Blank}) /\ UNCHANGED <<vkey, disk>>
    BY <1>4, <1>s, <1>i DEF Subscribe, Idle, files
  <2>3. saver'[d].op = "on" /\ acked'[d] = None
    BY <1>4, <1>s DEF Subscribe, Typed, WorldTyped, Idle
  <2>4. \A c \in Devices \ {d} : saver'[c] = saver[c] /\ acked'[c] = acked[c]
    BY <1>4, <1>s DEF Subscribe, Typed, WorldTyped
  <2>5. \A c \in Devices \ {d} : Mine(c) # e
    BY <2>1, MineFacts
  <2>6. ASSUME NEW c \in Devices, acked'[c] = "off" \/ saver'[c].op = "off"
        PROVE  c # d
    BY <2>3, <2>6
  <2> QED
    BY <2>1, <2>2, <2>4, <2>5, <2>6 DEF Off, Has, Mine, Saved
<1>5. ASSUME NEW d \in Devices, Unsubscribe(d) PROVE Off'
  <2>1. ToSet(subs') = ToSet(subs) \ {page[d]}
    BY <1>5, WithoutFacts DEF Unsubscribe, Typed, HubTyped
  <2>2. (\A q \in Savers : saver'[q].img \in {saver[q].img, Blank}) /\ UNCHANGED <<vkey, disk>>
    BY <1>5, <1>s, <1>i DEF Unsubscribe, Idle, files
  <2>3. saver'[d].img = Blank /\ acked'[d] = None
    BY <1>5, <1>s, <1>i DEF Unsubscribe, Typed, WorldTyped, Idle
  <2>4. \A c \in Devices \ {d} : saver'[c] = saver[c] /\ acked'[c] = acked[c]
    BY <1>5, <1>s DEF Unsubscribe, Typed, WorldTyped
  <2>5. Mine(d) \notin ToSet(subs')
    <3>1. page[d] \in Endpoints /\ page[d].dev = d
      BY <1>5 DEF Unsubscribe, Typed, WorldTyped, Pages
    <3>2. CASE page[d].key = vkey
      BY <2>1, <3>1, <3>2, MineFacts
    <3>3. CASE page[d].key # vkey
      BY <1>5, <2>1, <3>3 DEF Unsubscribe, Pages
    <3> QED
      BY <3>2, <3>3
  <2> QED
    BY <2>1, <2>2, <2>3, <2>4, <2>5 DEF Off, Has, Mine, Saved
<1>6. ASSUME NEW d \in Devices, PageForgets(d) PROVE Off'
  <2>1. \A c \in Devices : acked'[c] = "off" => acked[c] = "off"
    BY <1>6 DEF PageForgets, Typed, WorldTyped
  <2> QED
    BY <1>6, <2>1 DEF PageForgets, hub, files, Off, Has, Mine, Saved
<1>7. ASSUME NEW p \in Savers, SaveLock(p) PROVE Off'
  <2>1. CASE Persist /\ dirty
    <3>1. \A q \in Savers : saver'[q].op = saver[q].op /\ saver'[q].img \in {saver[q].img, Image}
      BY <1>7, <1>s, <2>1 DEF SaveLock
    <3>2. UNCHANGED <<vkey, subs, disk, acked>> /\ Image.subs = subs
      BY <1>7, <2>1 DEF SaveLock, files, Image
    <3> QED
      BY <3>1, <3>2 DEF Off, Has, Mine, Saved
  <2>2. CASE ~(Persist /\ dirty)
    <3>1. saver' = [saver EXCEPT ![p] = Idle] /\ saver[p].pc = "lock" /\ up
          /\ UNCHANGED <<vkey, subs, disk>>
          /\ acked' = IF p = Watcher THEN acked ELSE [acked EXCEPT ![p] = saver[p].op]
      BY <1>7, <2>2 DEF SaveLock, Answer, files
    <3>2. \A q \in Savers : ~Saving(q)
      BY <1>7, <3>1, <1>s, <1>i DEF Apart, Saving, SaveLock
    <3>3. \A q \in Savers : saver'[q].img = Blank
      BY <3>1, <3>2, <1>s, <1>i, Quiescent
    <3>4. \A q \in Savers : saver'[q].op \in {saver[q].op, None}
      BY <3>1, <1>s, <1>i
    <3>5. ASSUME NEW d \in Devices, Mine(d) \notin ToSet(subs), d = p PROVE ~Has(Saved, d)
      <4>1. CASE Persist
        <5>1. Reflects(Saved)
          BY <2>2, <3>1, <3>2, <4>1 DEF Current
        <5> QED
          BY <3>5, <5>1, MineFacts DEF Reflects, Has, KeysOf
      <4>2. CASE ~Persist
        BY <4>2 DEF OnFile, Saved
      <4> QED
        BY <4>1, <4>2
    <3>6. \A d \in Devices : acked'[d] = "off" => acked[d] = "off" \/ (d = p /\ saver[d].op = "off")
      BY <3>1 DEF Typed, WorldTyped
    <3> QED
      BY <3>1, <3>3, <3>4, <3>5, <3>6 DEF Off, Has, Mine, Saved
  <2> QED
    BY <2>1, <2>2
<1>8. ASSUME NEW p \in Savers, SaveRename(p) PROVE Off'
  <2>1. /\ saver' = [saver EXCEPT ![p] = Idle] /\ Saving(p) /\ disk' = saver[p].img /\ UNCHANGED <<vkey, subs>>
        /\ acked' = IF p = Watcher THEN acked ELSE [acked EXCEPT ![p] = saver[p].op]
    BY <1>8, SaveRenameFacts DEF SaveRename, Answer, hub, Saving
  <2>2. \A q \in Savers : saver'[q].img = Blank
    BY <2>1, <1>s, <1>i, Quiescent DEF Turns
  <2>3. Saved' = saver[p].img
    BY <2>1, <1>s DEF Saved
  <2>4. \A q \in Savers : saver'[q].op \in {saver[q].op, None}
    BY <2>1, <1>s, <1>i
  <2>5. \A d \in Devices : acked'[d] = "off" => acked[d] = "off" \/ (d = p /\ saver[d].op = "off")
    BY <2>1 DEF Typed, WorldTyped
  <2> QED
    BY <2>1, <2>2, <2>3, <2>4, <2>5 DEF Off, Has, Mine
<1>9. ASSUME Stop PROVE Off'
  <2>2. (\A q \in Savers : saver'[q] = Idle) /\ subs' = <<>> /\ UNCHANGED <<vkey, disk, acked>>
    BY <1>9, <1>i DEF Stop, files, history, posts
  <2> QED
    BY <2>2, <1>i, BlankGood DEF Off, Has, Mine, Saved
<1>10. ASSUME Start PROVE Off'
  <2>1. CASE vkey' = vkey
    BY <1>10, <2>1, <1>i, StartFacts DEF Off, Has, Mine, Saved, Down
  <2>2. CASE vkey' # vkey
    BY <1>10, <2>2, StartFacts, MineNew DEF Off, Has, Saved
  <2> QED
    BY <2>1, <2>2
<1>11. ASSUME ReloadKey PROVE Off'
  <2>1. /\ subs' = <<>> /\ vkey' = fileKey /\ vkey # fileKey /\ UNCHANGED <<saver, disk, page, acked>>
    BY <1>11 DEF ReloadKey, files, world, history, posts
  <2> QED
    BY <2>1, MineNew, BlankGood DEF Off, Has, Saved
<1> QED
  BY <1>1, <1>2, <1>3, <1>4, <1>5, <1>6, <1>7, <1>8, <1>9, <1>10, <1>11, StillFacts DEF Next,
     Watch, Save

(* Nothing loses a device that turned them on: not the hub, the file or a save. *)
LEMMA OnStep ==
  ASSUME Typed, Down, Turns, OnFile, FreshKey, Pages, Current, On, Next, Apart
  PROVE  On'
<1>s. saver \in [Savers -> Rows]
  BY DEF Typed, SaveTyped
<1> USE DEF Rows
<1>i. Idle.pc = "idle" /\ Idle.img = Blank /\ Idle.op = None
  BY DEF Idle
<1> USE Distinct
<1>r. SUFFICES ASSUME Persist, Cardinality(Endpoints) <= MaxSubs
               PROVE  On'
  BY DEF On
<1>1. CASE Still
  BY <1>1 DEF Still, On, Has, Mine, Saved, Saving
<1>2. ASSUME NEW e \in Endpoints, SendOne(e) PROVE On'
  <2>1. CASE subs' = subs
    BY <1>2, <2>1 DEF SendOne, world, files, On, Has, Mine, Saved, Saving
  <2>2. CASE subs' # subs
    <3>1. ToSet(subs') = ToSet(subs) \ {e} /\ page[e.dev] # e
      BY <1>2, <2>2, WithoutFacts DEF SendOne, Typed, HubTyped
    <3>2. ASSUME NEW d \in Devices, page[d] = Mine(d) PROVE Mine(d) # e
      BY <3>1, <3>2, MineFacts
    <3> QED
      BY <1>2, <1>r, <3>1, <3>2 DEF SendOne, world, files, On, Has, Mine, Saved, Saving
  <2> QED
    BY <2>1, <2>2
<1>3. ASSUME WatchSave PROVE On'
  <2>1. \A q \in Savers : saver'[q].pc \in {"open", "write", "rename"} => Saving(q) /\ saver'[q] = saver[q]
    BY <1>3, <1>s, <1>i DEF WatchSave, Idle, Saving
  <2>2. \A d \in Devices : saver'[d] = saver[d]
    BY <1>3, <1>s DEF WatchSave
  <2> QED
    BY <1>3, <1>r, <2>1, <2>2 DEF WatchSave, hub, world, files, history, posts, On, Has, Mine, Saved,
       Saving
<1>4. ASSUME NEW d \in Devices, Subscribe(d) PROVE On'
  <2>1. PICK e \in Endpoints :
           /\ e.dev = d /\ page' = [page EXCEPT ![d] = e] /\ subs' = Registered(e)
           /\ (e = Mine(d) \/ (page[d] = e /\ e.key # vkey)) /\ ToSet(subs') \subseteq ToSet(subs) \union {e}
    BY <1>4, SubscribeFacts
  <2>2. ToSet(subs') = ToSet(subs) \union {e}
    <3>1. e \in ToSet(subs) \/ Len(subs) < MaxSubs
      BY <1>r, RoomFacts DEF Typed, HubTyped
    <3> QED
      BY <2>1, <3>1, RegisteredFacts DEF Typed, HubTyped
  <2>3. /\ saver'[d].op = "on" /\ saver'[d].pc = "lock" /\ acked'[d] = None /\ page'[d] = e
        /\ UNCHANGED <<up, vkey, disk>>
    BY <1>4, <1>s, <2>1 DEF Subscribe, Typed, WorldTyped, Idle, files
  <2>4. \A c \in Devices \ {d} : saver'[c] = saver[c] /\ acked'[c] = acked[c] /\ page'[c] = page[c]
    BY <1>4, <1>s, <2>1 DEF Subscribe, Typed, WorldTyped
  <2>5. \A q \in Savers : saver'[q].pc \in {"open", "write", "rename"} => Saving(q) /\ saver'[q] = saver[q]
    BY <1>4, <1>s DEF Subscribe, Saving, Idle
  <2> QED
    BY <1>r, <2>2, <2>3, <2>4, <2>5 DEF On, Has, Mine, Saved, Saving
<1>5. ASSUME NEW d \in Devices, Unsubscribe(d) PROVE On'
  <2>1. ToSet(subs') = ToSet(subs) \ {page[d]}
    BY <1>5, WithoutFacts DEF Unsubscribe, Typed, HubTyped
  <2>2. \A c \in Devices \ {d} : Mine(c) # page[d]
    BY <1>5, MineFacts DEF Unsubscribe, Pages
  <2>3. saver'[d].op = "off" /\ saver'[d].pc = "lock" /\ acked'[d] = None /\ UNCHANGED <<up, vkey, disk, page>>
    BY <1>5, <1>s DEF Unsubscribe, Typed, WorldTyped, Idle, files, world
  <2>4. \A c \in Devices \ {d} : saver'[c] = saver[c] /\ acked'[c] = acked[c]
    BY <1>5, <1>s DEF Unsubscribe, Typed, WorldTyped
  <2>5. \A q \in Savers : saver'[q].pc \in {"open", "write", "rename"} => Saving(q) /\ saver'[q] = saver[q]
    BY <1>5, <1>s DEF Unsubscribe, Saving, Idle
  <2> QED
    BY <1>r, <2>1, <2>2, <2>3, <2>4, <2>5 DEF On, Has, Mine, Saved, Saving
<1>6. ASSUME NEW d \in Devices, PageForgets(d) PROVE On'
  <2>1. acked'[d] = None /\ saver[d].op = None /\ UNCHANGED <<up, vkey, subs, saver, disk>>
    BY <1>6, <1>i DEF PageForgets, Typed, WorldTyped, hub, files, Turns
  <2>2. \A c \in Devices \ {d} : acked'[c] = acked[c] /\ page'[c] = page[c]
    BY <1>6 DEF PageForgets, Typed, WorldTyped
  <2> QED
    BY <1>r, <2>1, <2>2 DEF On, Has, Mine, Saved, Saving
<1>7. ASSUME NEW p \in Savers, SaveLock(p) PROVE On'
  <2>1. CASE Persist /\ dirty
    <3>1. /\ saver' = [saver EXCEPT ![p].pc = "open", ![p].img = Image] /\ saver[p].pc = "lock" /\ up
          /\ UNCHANGED <<up, vkey, subs, disk, acked, page>> /\ Image.subs = subs
      BY <1>7, <2>1 DEF SaveLock, files, Image
    <3>2. saver'[p].op = saver[p].op /\ saver'[p].img = Image /\ \A q \in Savers \ {p} : saver'[q] = saver[q]
      BY <3>1, <1>s
    <3> QED
      BY <1>r, <3>1, <3>2, ZenonT(30) DEF On, Has, Mine, Saved, Saving
  <2>2. CASE ~(Persist /\ dirty)
    <3>1. saver' = [saver EXCEPT ![p] = Idle] /\ saver[p].pc = "lock" /\ up /\ ~dirty
          /\ UNCHANGED <<up, vkey, subs, disk>>
          /\ acked' = (IF p = Watcher THEN acked ELSE [acked EXCEPT ![p] = saver[p].op])
          /\ page' = (IF saver[p].op = "off" THEN [page EXCEPT ![p] = None] ELSE page)
      BY <1>7, <1>r, <2>2 DEF SaveLock, Answer, files
    <3>2. \A q \in Savers : ~Saving(q)
      BY <1>7, <3>1, <1>s, <1>i DEF Apart, Saving, SaveLock
    <3>3. saver'[p] = Idle /\ \A q \in Savers \ {p} : saver'[q] = saver[q]
      BY <3>1, <1>s
    <3>4. \A d \in Devices : acked'[d] = "on" => /\ acked[d] = "on" \/ (d = p /\ saver[d].op = "on")
                                                 /\ page'[d] = page[d]
      BY <3>1 DEF Typed, WorldTyped, Turns
    <3>5. \A d \in Devices : saver'[d].op = "on" => d # p /\ page'[d] = page[d]
      BY <3>1, <3>3, <1>i DEF Typed, WorldTyped, Turns
    <3>6. Reflects(Saved)
      BY <1>r, <3>1, <3>2 DEF Current
    <3>7. \A d \in Devices : Mine(d) \in ToSet(subs) => Has(Saved, d)
      BY <3>6, BlankGood DEF Reflects, Has
    <3>8. Saved' = Saved /\ \A d \in Devices : Mine(d)' = Mine(d)
      BY <3>1 DEF Saved, Mine
    <3>9. \A q \in Savers : saver'[q].pc \notin {"open", "write", "rename"}
      BY <3>2, <3>3, <1>i DEF Saving
    <3> QED
      BY <1>r, <3>1, <3>3, <3>4, <3>5, <3>7, <3>8, <3>9 DEF On, Has, Saving
  <2> QED
    BY <2>1, <2>2
<1>8. ASSUME NEW p \in Savers, SaveRename(p) PROVE On'
  <2>1. /\ saver' = [saver EXCEPT ![p] = Idle] /\ Saving(p) /\ disk' = saver[p].img /\ UNCHANGED <<up, vkey, subs>>
        /\ acked' = (IF p = Watcher THEN acked ELSE [acked EXCEPT ![p] = saver[p].op])
        /\ page' = (IF saver[p].op = "off" THEN [page EXCEPT ![p] = None] ELSE page)
    BY <1>8, SaveRenameFacts DEF SaveRename, Answer, hub, Saving
  <2>2. saver'[p] = Idle /\ \A q \in Savers \ {p} : saver'[q] = saver[q]
    BY <2>1, <1>s
  <2>3. \A q \in Savers : saver'[q].pc \notin {"open", "write", "rename"}
    BY <2>1, <2>2, <1>i DEF Saving, Turns
  <2>4. Saved' = saver[p].img /\ \A d \in Devices : Mine(d)' = Mine(d)
    BY <2>1, <1>s DEF Saved, Mine
  <2>5. saver[p].pc # "idle"
    BY <2>1 DEF Saving
  <2>6. \A d \in Devices : acked'[d] = "on" => /\ acked[d] = "on" \/ (d = p /\ saver[d].op = "on")
                                               /\ page'[d] = page[d]
    BY <2>1, <2>5 DEF Typed, WorldTyped, Turns
  <2>7. \A d \in Devices : saver'[d].op = "on" => d # p /\ page'[d] = page[d]
    BY <2>1, <2>2, <2>5, <1>i DEF Typed, WorldTyped, Turns
  <2>8. \A d \in Devices : acked'[d] = "on" /\ page[d] = Mine(d) => Has(saver[p].img, d)
    BY <1>r, <2>1, <2>6 DEF On
  <2> QED
    BY <1>r, <2>1, <2>2, <2>3, <2>4, <2>6, <2>7, <2>8 DEF On, Has, Saving
<1>9. ASSUME Stop PROVE On'
  <2>1. (\A q \in Savers : saver'[q] = Idle) /\ up' = FALSE /\ UNCHANGED <<vkey, disk, acked>>
    BY <1>9 DEF Stop, files, history, posts
  <2>2. \A d \in Devices : acked[d] = "on" => page'[d] = page[d]
    BY <1>9, <1>i DEF Stop, Turns
  <2> QED
    BY <1>r, <2>1, <2>2, <1>i DEF On, Has, Mine, Saved, Saving
<1>10. ASSUME Start PROVE On'
  <2>0. \A q \in Savers : saver[q] = Idle
    BY <1>10, StartFacts DEF Down
  <2>1. CASE vkey' = vkey
    BY <1>10, <1>r, <2>0, <2>1, <1>i, StartFacts DEF On, Has, Mine, Saved, Saving
  <2>2. CASE vkey' # vkey
    <3>1. \A d \in Devices : page'[d] # None => page'[d] # Mine(d)'
      BY <1>10, <2>2, StartFacts, MineNew DEF Mine
    <3>2. \A d \in Devices : saver'[d].op # "on" /\ (acked'[d] = "on" => page'[d] # None)
      BY <1>10, <1>r, <2>0, <1>i, StartFacts DEF On
    <3> QED
      BY <3>1, <3>2 DEF On
  <2> QED
    BY <2>1, <2>2
<1>11. ASSUME ReloadKey PROVE On'
  <2>1. /\ vkey' = fileKey /\ vkey # fileKey /\ UNCHANGED <<saver, page, acked>>
    BY <1>11 DEF ReloadKey, files, world, history, posts
  <2>2. \A d \in Devices : page[d] # None => page[d] # Mine(d)'
    BY <2>1, MineNew DEF Mine
  <2> QED
    BY <1>r, <2>1, <2>2 DEF On
<1> QED
  BY <1>1, <1>2, <1>3, <1>4, <1>5, <1>6, <1>7, <1>8, <1>9, <1>10, <1>11, StillFacts DEF Next,
     Watch, Save

(* Every step of the program keeps the invariant when saves do not overlap
   and keys are not reused. *)
LEMMA DurableStep ==
  ASSUME DurableInv, [Next]_vars, [Apart /\ NewKey]_vars
  PROVE  DurableInv'
<1>1. CASE UNCHANGED vars
  BY <1>1 DEF vars, hub, files, world, history, posts, DurableInv, Typed, HubTyped, RunTyped, SaveTyped,
     WorldTyped,
              Down, Turns, OnFile, Current, FreshKey, LiveKey, NewLive, NewSaved, Pages, Off, On,
              Saving, Reflects, Saved, Has, Mine
<1>2. CASE Next /\ Apart /\ NewKey
  BY <1>2, HubStep, RunStep, SaveStep, WorldStep, DownStep, TurnsStep, OnFileStep, CurrentStep,
     FreshKeyStep, PagesStep, OffStep, OnStep DEF DurableInv, Typed
<1> QED
  BY <1>1, <1>2

(* The first start. *)
LEMMA TypedInit == Init => Typed
<1> SUFFICES ASSUME Init PROVE Typed
  OBVIOUS
<1> USE DEF Init
<1>1. HubTyped
  <2>1. subs \in Seq(Endpoints) /\ Len(subs) <= MaxSubs /\ IsInjective(subs)
    BY BlankGood, PushHubAssumption
  <2>2. up = TRUE /\ starts = 1 /\ 1 \in 1 .. MaxStarts
    BY PushHubAssumption
  <2> QED
    BY <2>1, <2>2 DEF HubTyped
<1>2. RunTyped /\ WorldTyped
  BY DEF RunTyped, WorldTyped, Resting, NoneSent
<1>3. SaveTyped
  BY BlankGood DEF SaveTyped, Idle, Rows
<1> QED
  BY <1>1, <1>2, <1>3 DEF Typed

(* The types the proof uses imply those the runs check. *)
LEMMA TypedOK == Typed => TypeOK
<1> SUFFICES ASSUME Typed PROVE TypeOK
  OBVIOUS
<1>1. Image \in Images
  BY DEF Typed, HubTyped, Image, Images
<1>2. /\ disk \in Images \union {None, Torn, Empty} /\ tmp \in Images \union {None, Torn, Empty}
      /\ saver \in [Savers -> [pc : {"idle", "lock", "open", "write", "rename"}, img : Images,
                         op : {"on", "off", "watch", None}, file : {"tmp", "disk", "gone", None}]]
  BY DEF Typed, SaveTyped, Rows, Good
<1> QED
  BY <1>1, <1>2 DEF TypeOK, Typed, HubTyped, RunTyped, SaveTyped, WorldTyped

(* The first start has promised nothing. *)
LEMMA DurableInit == Init => DurableInv
<1> SUFFICES ASSUME Init PROVE DurableInv
  OBVIOUS
<1> USE DEF Init
<1>3. \A p \in Savers : saver[p] = Idle
  OBVIOUS
<1>4. Idle.pc = "idle" /\ Idle.img = Blank /\ Idle.op = None /\ Blank.subs = <<>> /\ Blank.seen = {} /\ Blank.init = FALSE
  BY DEF Idle, Blank
<1>5. Down /\ Turns /\ OnFile
  <2>1. Down /\ Turns
    BY <1>3, <1>4, Distinct DEF Down, Turns, Saving
  <2>2. disk = None /\ None # Torn /\ None # Empty
    BY PushHubAssumption
  <2> QED
    BY <1>3, <1>4, <2>1, <2>2, Distinct DEF OnFile, Saving
<1>6. Current /\ FreshKey
  BY <1>3, <1>4 DEF Current, FreshKey, LiveKey, Reflects, Saving, Saved
<1>7. Pages /\ Off /\ On
  BY <1>3, <1>4, Distinct DEF Pages, Off, On
<1> QED
  BY TypedInit, <1>5, <1>6, <1>7 DEF DurableInv

(* The invariant gives what the run checks. *)
LEMMA DurableHolds == DurableInv => Durable
<1> SUFFICES ASSUME DurableInv PROVE Durable
  OBVIOUS
<1> USE Distinct DEF DurableInv
<1>1. TypeOK
  BY TypedOK
<1>2. Settled
  <2> SUFFICES ASSUME Persist, Quiet PROVE Settled
    BY DEF Settled
  <2>1. Reflects(Saved)
    BY DEF Quiet, Current, Saving
  <2>2. Saved.seen = Image.seen /\ Saved.init = Image.init /\ Image.subs = subs
    BY <2>1 DEF Reflects, Quiet, Image
  <2>3. CASE disk = None
    BY <2>1, <2>2, <2>3 DEF Saved, Reflects, Settled, Image, Blank
  <2>4. CASE disk # None
    <3>1. Saved = disk /\ disk \in Images
      BY <2>4 DEF Saved, Typed, SaveTyped, OnFile
    <3>2. CASE disk.subs = subs
      BY <2>2, <3>1, <3>2 DEF Settled, Image, Images
    <3>3. CASE disk.subs # subs
      BY <2>1, <2>2, <3>1, <3>3 DEF Settled, Image, Images, Reflects
    <3> QED
      BY <3>2, <3>3
  <2> QED
    BY <2>3, <2>4
<1>3. KeptOn
  <2> SUFFICES ASSUME Persist, up, Cardinality(Endpoints) <= MaxSubs, NEW d \in Devices,
                      acked[d] = "on", page[d].key = vkey
               PROVE  page[d] \in ToSet(subs)
    BY DEF KeptOn
  <2>1. page[d] # None
    BY DEF On
  <2>2. page[d] = Mine(d)
    BY <2>1, MineFacts DEF Pages, Typed, WorldTyped
  <2> QED
    BY <2>1, <2>2 DEF On
<1>4. OffStaysOff
  BY DEF OffStaysOff, Off, Mine
<1> QED
  BY <1>1, <1>2, <1>3, <1>4 DEF Durable

(* What the hub told a device survives restarts, evictions apart: the file is the
   hub once nothing waits (savePushState), a device told "on" is in the hub and one
   told "off" is not (handlePushSubscribe, handlePushUnsubscribe, loadPushState),
   as long as saves do not overlap and the administrator does not reuse a key. *)
THEOREM PushDurable == Spec /\ [][Apart /\ NewKey]_vars => []Durable
  BY DurableInit, DurableStep, DurableHolds, PTL DEF Spec

(* Every variable has its type, whatever overlaps.                            *)
LEMMA TypedStep ==
  ASSUME Typed, [Next]_vars
  PROVE  Typed'
<1>1. CASE UNCHANGED vars
  BY <1>1 DEF vars, hub, files, world, history, posts, Typed, HubTyped, RunTyped, SaveTyped, WorldTyped
<1>2. CASE Next
  BY <1>2, HubStep, RunStep, SaveStep, WorldStep DEF Typed
<1> QED
  BY <1>1, <1>2

\* The watcher still owes a message about a.
Owed(a) == a \notin seen \/ a \in watch.msgs

SentTyped == sent \in [Alerts -> [Devices -> Nat]]
WatchTyped ==
  /\ DOMAIN watch = {"pc", "first", "msgs", "cur", "todo"}
  /\ watch.msgs \subseteq seen
  /\ watch.pc = "idle" => watch.todo = {}
  /\ watch.todo # {} => watch.cur \in Alerts /\ watch.cur \notin watch.msgs /\ watch.cur \in seen
\* Nothing has gone out in this start where a message is still to come.
Unsent == \A a \in Alerts, d \in Devices : up /\ Owed(a) => sent[a][d] = 0
Targets == \A e \in Endpoints : up /\ e \in watch.todo /\ e.key = vkey => sent[watch.cur][e.dev] = 0

OnceInv ==
  /\ ~up => watch = Resting /\ sent = NoneSent
  /\ SentTyped /\ WatchTyped /\ Unsent /\ Targets /\ OncePerStart

(* A device has one endpoint for a key, so a broadcast can reach it once.      *)
LEMMA OneEndpoint ==
  ASSUME NEW e \in Endpoints, NEW f \in Endpoints, e.dev = f.dev, e.key = f.key
  PROVE  e = f
BY DEF Endpoints

(* The watcher marks an alert before it sends, aims once at each endpoint, and *)
(* never goes back to a marked alert.                                         *)
LEMMA OnceStep ==
  ASSUME Typed, LiveKey, OnceInv, [Next]_vars
  PROVE  OnceInv'
<1> USE DEF OnceInv, SentTyped, WatchTyped, Unsent, Targets, Owed, OncePerStart
<1>1. ASSUME NEW a \in Alerts, AlertChanges(a) PROVE OnceInv'
  BY <1>1 DEF AlertChanges, hub, history, posts, files
<1>2. ASSUME FetchAlerts PROVE OnceInv'
  BY <1>2 DEF FetchAlerts, hub, history, posts, files
<1>3. ASSUME WatchStart PROVE OnceInv'
  BY <1>3 DEF WatchStart, history, posts, files
<1>4. ASSUME WatchInit PROVE OnceInv'
  BY <1>4 DEF WatchInit, history, posts, files
<1>5. ASSUME NEW a \in Alerts, Broadcast(a) PROVE OnceInv'
  <2>1. watch' = [watch EXCEPT !.msgs = @ \ {a}, !.cur = a, !.todo = ToSet(subs)]
        /\ UNCHANGED <<up, starts, seen, sent>> /\ a \in watch.msgs /\ up
    BY <1>5 DEF Broadcast, hub, history, posts
  <2>2. /\ DOMAIN watch' = DOMAIN watch /\ watch'.pc = watch.pc
        /\ watch'.msgs = watch.msgs \ {a} /\ watch'.cur = a
    BY <2>1
  <2>3. watch.pc # "idle"
    BY <1>5 DEF Broadcast
  <2>4. WatchTyped'
    BY <2>1, <2>2, <2>3
  <2>5. \A d \in Devices : sent'[a][d] = 0
    BY <2>1 DEF Owed
  <2>6. Unsent'
    BY <2>1, <2>2
  <2>7. Targets'
    BY <2>2, <2>5 DEF Endpoints
  <2> QED
    BY <2>1, <2>4, <2>6, <2>7
<1>6. ASSUME NEW e \in Endpoints, SendOne(e) PROVE OnceInv'
  <2>1. /\ watch' = [watch EXCEPT !.todo = @ \ {e}] /\ e \in watch.todo /\ watch.pc = "send" /\ up
        /\ UNCHANGED <<up, starts, seen, vkey>>
    BY <1>6 DEF SendOne
  <2>2. sent' = sent \/ (e.key = vkey /\ sent' = [sent EXCEPT ![watch.cur][e.dev] = @ + 1])
    BY <1>6 DEF SendOne
  <2>3. /\ DOMAIN watch' = DOMAIN watch /\ watch'.pc = watch.pc /\ watch'.msgs = watch.msgs
        /\ watch'.cur = watch.cur /\ watch'.todo = watch.todo \ {e}
    BY <2>1
  <2>4. watch.cur \in Alerts /\ watch.cur \notin watch.msgs /\ watch.cur \in seen
    BY <2>1
  <2>5. WatchTyped'
    BY <2>1, <2>3, <2>4
  <2>6. CASE sent' = sent
    BY <2>1, <2>3, <2>5, <2>6
  <2>7. CASE e.key = vkey /\ sent' = [sent EXCEPT ![watch.cur][e.dev] = @ + 1]
    <3>1. e.dev \in Devices /\ sent[watch.cur] \in [Devices -> Nat] /\ sent[watch.cur][e.dev] = 0
      BY <2>1, <2>4, <2>7 DEF Endpoints
    <3>2. /\ sent' \in [Alerts -> [Devices -> Nat]] /\ sent'[watch.cur][e.dev] = sent[watch.cur][e.dev] + 1
          /\ \A b \in Alerts, d \in Devices : b # watch.cur \/ d # e.dev => sent'[b][d] = sent[b][d]
      BY <2>4, <2>7, <3>1
    <3>3. OncePerStart'
      BY <2>1, <2>4, <3>1, <3>2
    <3>4. Unsent'
      BY <2>1, <2>3, <2>4, <3>2
    <3>5. ASSUME NEW f \in Endpoints, f \in watch.todo, f # e, f.key = vkey
          PROVE  sent'[watch.cur][f.dev] = 0
      <4>1. f.dev # e.dev /\ f.dev \in Devices
        BY <2>7, <3>5, OneEndpoint DEF Endpoints
      <4> QED
        BY <2>1, <2>4, <3>2, <3>5, <4>1
    <3>6. Targets'
      BY <2>1, <2>3, <3>5
    <3> QED
      BY <2>1, <2>5, <3>2, <3>3, <3>4, <3>6
  <2> QED
    BY <2>2, <2>6, <2>7
<1>7. ASSUME WatchSave PROVE OnceInv'
  BY <1>7 DEF WatchSave, hub, history, posts, files
<1>8. ASSUME NEW d \in Devices, Subscribe(d) \/ Unsubscribe(d) \/ PageForgets(d) PROVE OnceInv'
  BY <1>8 DEF Subscribe, Unsubscribe, PageForgets, hub, history, posts, files, world
<1>9. ASSUME NEW p \in Savers, Save(p) PROVE OnceInv'
  <2>1. UNCHANGED <<up, starts, vkey, seen, sent>> /\ watch' \in {watch, Resting}
    BY <1>9 DEF Save, SaveLock, SaveOpen, SaveWrite, SaveRename, Answer, hub, history, posts
  <2> QED
    BY <2>1 DEF Resting
<1>10. ASSUME Stop PROVE OnceInv'
  BY <1>10 DEF Stop, Resting, NoneSent, hub, files, history, posts
<1>14. ASSUME Start PROVE OnceInv'
  <2>1. up' /\ watch' = Resting /\ sent' = NoneSent
    BY <1>14 DEF Start, history, posts
  <2> QED
    BY <2>1 DEF Resting, NoneSent
<1>11. ASSUME NEW l \in Keys, ChangeKey(l) PROVE OnceInv'
  BY <1>11 DEF ChangeKey, hub, history, posts, files
<1>12. ASSUME ReloadKey PROVE OnceInv'
  <2>1. \A e \in watch.todo : e.key # vkey'
    BY <1>12 DEF ReloadKey, LiveKey, NewLive
  <2> QED
    BY <1>12, <2>1 DEF ReloadKey, history, posts, files
<1>13. ASSUME UNCHANGED vars PROVE OnceInv'
  BY <1>13 DEF vars, hub, history, posts
<1> QED
  BY <1>1, <1>2, <1>3, <1>4, <1>5, <1>6, <1>7, <1>8, <1>9, <1>10, <1>11, <1>12, <1>13, <1>14
     DEF Next, Watch

(* Within one start of the server no alert is sent to a device twice, whatever is
   saved, restored, lost or requested at the same time: runPushWatch records it in
   st.Alerts before broadcast, which aims once at each endpoint.  A key that came
   back in the middle of a broadcast could reach a device by two endpoints. *)
THEOREM SentOncePerStart == Spec /\ [][NewKey]_vars => []OncePerStart
<1>1. Init => OnceInv /\ Typed /\ LiveKey
  <2>1. Init => Typed
    BY TypedInit
  <2>2. Init => OnceInv /\ LiveKey
    BY DEF Init, OnceInv, SentTyped, WatchTyped, Unsent, Targets, OncePerStart, NoneSent, Resting, LiveKey
  <2> QED
    BY <2>1, <2>2
<1>2. OnceInv /\ Typed /\ LiveKey /\ [Next]_vars /\ [NewKey]_vars => OnceInv' /\ Typed' /\ LiveKey'
  <2> SUFFICES ASSUME OnceInv, Typed, LiveKey, [Next]_vars, [NewKey]_vars PROVE OnceInv' /\ Typed' /\ LiveKey'
    OBVIOUS
  <2>1. CASE UNCHANGED vars
    BY <2>1, OnceStep, TypedStep DEF vars, hub, world, LiveKey, NewLive
  <2>2. CASE Next /\ NewKey
    BY <2>2, OnceStep, TypedStep, LiveKeyStep
  <2> QED
    BY <2>1, <2>2
<1>3. OnceInv => OncePerStart
  BY DEF OnceInv
<1> QED
  BY <1>1, <1>2, <1>3, PTL DEF Spec

(* Every variable keeps its type, also when saves overlap: the hub holds an
   endpoint once and no more than push.max_subscriptions of them. *)
THEOREM TypeCorrect == Spec => []TypeOK
  BY TypedInit, TypedStep, TypedOK, PTL DEF Spec
=============================================================================
