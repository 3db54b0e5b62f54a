----------------------------- MODULE QueuesProofs ----------------------------
(* Proofs about the parts of MCQueues, for any values of their constants.     *)
(*   ConfigOnlyForward  the active configuration is valid and never goes back *)
(*   LocationsSound     the cache of locations, and who asks for them when    *)
(*   ImagesStaySound    the cache of images, its bytes and its good entries   *)
(*   QueuesTyped        the types of the three parts                          *)
EXTENDS MCQueues, OrderLemmas, Sequences

------------------------------------------------------------------------------
(* Lists and numbers.                                                         *)

(* A sequence without its element at position k.                              *)
Cut(s, k) == SubSeq(s, 1, k - 1) \o SubSeq(s, k + 1, Len(s))

(* What is left of a sequence without one element.                            *)
LEMMA CutFacts ==
  ASSUME NEW S, NEW s \in Seq(S), NEW k \in 1 .. Len(s)
  PROVE  /\ Cut(s, k) \in Seq(S) /\ Len(Cut(s, k)) = Len(s) - 1
         /\ \A i \in 1 .. Len(s) - 1 : Cut(s, k)[i] = IF i < k THEN s[i] ELSE s[i + 1]
<1>1. Len(s) \in Nat
  OBVIOUS
<1>2. /\ SubSeq(s, 1, k - 1) \in Seq(S) /\ Len(SubSeq(s, 1, k - 1)) = k - 1
      /\ \A i \in 1 .. k - 1 : SubSeq(s, 1, k - 1)[i] = s[i]
  BY <1>1
<1>3. /\ SubSeq(s, k + 1, Len(s)) \in Seq(S) /\ Len(SubSeq(s, k + 1, Len(s))) = Len(s) - k
      /\ \A i \in 1 .. Len(s) - k : SubSeq(s, k + 1, Len(s))[i] = s[k + i]
  BY <1>1
<1> DEFINE a == SubSeq(s, 1, k - 1)
           b == SubSeq(s, k + 1, Len(s))
<1> HIDE DEF a, b
<1>4. /\ a \o b \in Seq(S) /\ Len(a \o b) = Len(s) - 1
      /\ \A i \in 1 .. Len(s) - 1 : (a \o b)[i] = IF i < k THEN s[i] ELSE s[i + 1]
  <2>1. a \in Seq(S) /\ b \in Seq(S) /\ Len(a) = k - 1 /\ Len(b) = Len(s) - k
    BY <1>2, <1>3 DEF a, b
  <2>2. \A i \in 1 .. k - 1 : a[i] = s[i]
    BY <1>2 DEF a
  <2>3. \A i \in 1 .. Len(s) - k : b[i] = s[k + i]
    BY <1>3 DEF b
  <2>4. a \o b \in Seq(S) /\ Len(a \o b) = Len(a) + Len(b)
    BY <2>1
  <2>5. ASSUME NEW i \in 1 .. Len(s) - 1 PROVE (a \o b)[i] = IF i < k THEN s[i] ELSE s[i + 1]
    <3>1. CASE i < k
      BY <1>1, <2>1, <2>2, <3>1
    <3>2. CASE ~(i < k)
      <4>1. (a \o b)[i] = b[i - (k - 1)]
        BY <1>1, <2>1, <3>2
      <4>2. i - (k - 1) \in 1 .. Len(s) - k /\ k + (i - (k - 1)) = i + 1
        BY <1>1, <3>2
      <4> QED
        BY <4>1, <4>2, <2>3, <3>2
    <3> QED
      BY <3>1, <3>2
  <2> QED
    BY <1>1, <2>1, <2>4, <2>5
<1> QED
  BY <1>4 DEF Cut, a, b

(* The first k elements of a sequence.                                        *)
LEMMA PrefixFacts ==
  ASSUME NEW S, NEW s \in Seq(S), NEW k \in 0 .. Len(s)
  PROVE  /\ SubSeq(s, 1, k) \in Seq(S) /\ Len(SubSeq(s, 1, k)) = k
         /\ \A i \in 1 .. k : SubSeq(s, 1, k)[i] = s[i]
<1>1. Len(s) \in Nat
  OBVIOUS
<1> QED
  BY <1>1

(* A sequence with an element put before it.                                  *)
LEMMA ConsFacts ==
  ASSUME NEW S, NEW s \in Seq(S), NEW e \in S
  PROVE  /\ <<e>> \o s \in Seq(S) /\ Len(<<e>> \o s) = Len(s) + 1 /\ (<<e>> \o s)[1] = e
         /\ \A i \in 1 .. Len(s) : (<<e>> \o s)[i + 1] = s[i]
<1>1. <<e>> \in Seq(S) /\ Len(<<e>>) = 1 /\ <<e>>[1] = e /\ Len(s) \in Nat
  OBVIOUS
<1>2. <<e>> \o s \in Seq(S) /\ Len(<<e>> \o s) = Len(s) + 1
  BY <1>1
<1>3. (<<e>> \o s)[1] = e
  BY <1>1
<1>4. ASSUME NEW i \in 1 .. Len(s) PROVE (<<e>> \o s)[i + 1] = s[i]
  BY <1>1
<1> QED
  BY <1>2, <1>3, <1>4

(* The elements of a sequence behind the first k.                             *)
LEMMA SuffixFacts ==
  ASSUME NEW S, NEW s \in Seq(S), NEW k \in 0 .. Len(s)
  PROVE  /\ SubSeq(s, k + 1, Len(s)) \in Seq(S) /\ Len(SubSeq(s, k + 1, Len(s))) = Len(s) - k
         /\ \A i \in 1 .. Len(s) - k : SubSeq(s, k + 1, Len(s))[i] = s[k + i]
<1>1. Len(s) \in Nat
  OBVIOUS
<1> QED
  BY <1>1

------------------------------------------------------------------------------
(* The configuration reload (ConfigReload).                                   *)

(* Between reading and applying, the version read is valid and not older than *)
(* the active one, since only the one goroutine of watchConfig applies.       *)
ReloadInv ==
  /\ TypeOK
  /\ cfg <= file /\ read <= file
  /\ pc \in {"stat", "apply"} => read \in valid /\ cfg <= read

(* Every step of the reload keeps the invariant, and the active version only  *)
(* moves forward.                                                             *)
LEMMA ReloadStep ==
  ASSUME ReloadInv, [Next]_vars
  PROVE  ReloadInv' /\ (cfg' # cfg => cfg' \in valid /\ cfg' > cfg)
<1> USE ConfigReloadAssumption DEF ReloadInv, TypeOK, Versions, NoVersion
<1>1. CASE Write
  BY <1>1 DEF Write
<1>2. CASE Hangup
  BY <1>2 DEF Hangup
<1>3. CASE TakeHangup
  BY <1>3 DEF TakeHangup
<1>4. CASE Tick
  BY <1>4 DEF Tick
<1>5. CASE Load
  BY <1>5 DEF Load
<1>6. CASE Stat
  BY <1>6 DEF Stat
<1>7. CASE Apply
  BY <1>7 DEF Apply
<1>8. CASE UNCHANGED vars
  BY <1>8 DEF vars
<1> QED
  BY <1>1, <1>2, <1>3, <1>4, <1>5, <1>6, <1>7, <1>8 DEF Next, Server

(* The invariant holds when the server starts.                                *)
LEMMA ReloadInit ==
  ASSUME Init
  PROVE  ReloadInv
<1>1. file \in Versions /\ valid \in SUBSET Versions
  BY ConfigReloadAssumption DEF Init, Versions
<1>2. TypeOK
  BY <1>1 DEF Init, TypeOK, NoVersion
<1> QED
  BY <1>2 DEF Init, ReloadInv, NoVersion

(* A server that started with an invalid file has that invariant, too.        *)
(* A server that started with an invalid file has that invariant, too.        *)
LEMMA FrozenInit ==
  ASSUME MCInit
  PROVE  ReloadInv
<1>1. CASE Init
  BY <1>1, ReloadInit
<1>2. CASE /\ file = 0 /\ valid = {1} /\ cfg = NoVersion /\ cfgMod = NoVersion /\ hup = FALSE
           /\ pc = "ended" /\ read = NoVersion
  <2>1. 0 \in Versions /\ {1} \in SUBSET Versions
    BY ConfigReloadAssumption DEF Versions
  <2>2. TypeOK
    BY <1>2, <2>1 DEF TypeOK, NoVersion
  <2> QED
    BY <1>2, <2>2 DEF ReloadInv, NoVersion
<1> QED
  BY <1>1, <1>2 DEF MCInit

(* The active configuration only moves forward, to versions that validate     *)
(* (OnlyForward).                                                             *)
THEOREM ConfigOnlyForward == Spec => OnlyForward
<1>0. Init => ReloadInv
  BY ReloadInit
<1>1. ReloadInv /\ [Next]_vars => ReloadInv'
  BY ReloadStep
<1>2. ReloadInv /\ [Next]_vars => [cfg' # cfg => cfg' \in valid /\ cfg' > cfg]_vars
  BY ReloadStep
<1> QED
  BY <1>0, <1>1, <1>2, PTL DEF Spec, OnlyForward

------------------------------------------------------------------------------
(* The geolocation (GeoLookup).                                               *)

(* The elements of the list of locations.                                     *)
GeoEntries == [ip : Addrs, age : 0 .. Day + 1]

(* The addresses of a list.                                                   *)
IpsOf(s) == {s[i].ip : i \in 1 .. Len(s)}

(* A list of locations that has no address twice.                             *)
OneEach(s) == s \in Seq(GeoEntries) /\ \A i, j \in 1 .. Len(s) : s[i].ip = s[j].ip => i = j

(* What is assumed of the constants of the geolocation.                       *)
LEMMA GeoConstants ==
  /\ Public \subseteq Addrs /\ None \notin Callers /\ Most \in Nat \ {0} /\ Batch \in Nat \ {0}
  /\ Day \in Nat /\ Gap \in Nat /\ Window \in Nat /\ Gap <= Window
BY QueuesAssumption DEF Geo!GeoLookupAssumption

(* Such a list without one element has all addresses but one.                 *)
LEMMA GeoCut ==
  ASSUME NEW s, OneEach(s), NEW k \in 1 .. Len(s)
  PROVE  /\ OneEach(Cut(s, k)) /\ Len(Cut(s, k)) = Len(s) - 1
         /\ IpsOf(Cut(s, k)) = IpsOf(s) \ {s[k].ip}
         /\ \A i \in 1 .. Len(Cut(s, k)) : \E j \in 1 .. Len(s) : Cut(s, k)[i] = s[j]
<1> DEFINE t == Cut(s, k)
<1>1. /\ t \in Seq(GeoEntries) /\ Len(t) = Len(s) - 1 /\ Len(s) \in Nat
      /\ \A i \in 1 .. Len(s) - 1 : t[i] = IF i < k THEN s[i] ELSE s[i + 1]
  BY CutFacts DEF OneEach
<1>2. \A i, j \in 1 .. Len(s) : s[i].ip = s[j].ip => i = j
  BY DEF OneEach
<1> HIDE DEF t
<1> DEFINE From(i) == IF i < k THEN i ELSE i + 1
<1>3. \A i \in 1 .. Len(t) : From(i) \in 1 .. Len(s) /\ From(i) # k /\ t[i] = s[From(i)]
  BY <1>1
<1>4. \A i, j \in 1 .. Len(t) : From(i) = From(j) => i = j
  BY <1>1
<1>5. \A j \in 1 .. Len(s) : j # k => \E i \in 1 .. Len(t) : From(i) = j
  <2>1. ASSUME NEW j \in 1 .. Len(s), j < k PROVE j \in 1 .. Len(t) /\ From(j) = j
    BY <1>1, <2>1
  <2>2. ASSUME NEW j \in 1 .. Len(s), j > k PROVE j - 1 \in 1 .. Len(t) /\ From(j - 1) = j
    BY <1>1, <2>2
  <2>3. \A j \in 1 .. Len(s) : j # k => j < k \/ j > k
    BY <1>1
  <2> QED
    BY <2>1, <2>2, <2>3
<1> HIDE DEF From
<1>6. OneEach(t)
  BY <1>1, <1>2, <1>3, <1>4 DEF OneEach
<1>7. IpsOf(t) = IpsOf(s) \ {s[k].ip}
  <2>1. \A p \in IpsOf(t) : p \in IpsOf(s) /\ p # s[k].ip
    BY <1>2, <1>3 DEF IpsOf
  <2>2. \A p \in IpsOf(s) : p # s[k].ip => p \in IpsOf(t)
    BY <1>3, <1>5, SMTT(30) DEF IpsOf
  <2> QED
    BY <2>1, <2>2
<1> QED
  BY <1>1, <1>3, <1>6, <1>7 DEF t

(* Such a list with a new address before it.                                  *)
LEMMA GeoCons ==
  ASSUME NEW s, OneEach(s), NEW e \in GeoEntries, e.ip \notin IpsOf(s)
  PROVE  /\ OneEach(<<e>> \o s) /\ Len(<<e>> \o s) = Len(s) + 1
         /\ IpsOf(<<e>> \o s) = IpsOf(s) \union {e.ip}
         /\ \A i \in 1 .. Len(s) + 1 :
              (<<e>> \o s)[i] = e \/ \E j \in 1 .. Len(s) : (<<e>> \o s)[i] = s[j]
<1> DEFINE t == <<e>> \o s
<1>1. /\ t \in Seq(GeoEntries) /\ Len(t) = Len(s) + 1 /\ Len(s) \in Nat /\ t[1] = e
      /\ \A i \in 1 .. Len(s) : t[i + 1] = s[i]
  BY ConsFacts DEF OneEach
<1>2. \A i, j \in 1 .. Len(s) : s[i].ip = s[j].ip => i = j
  BY DEF OneEach
<1> HIDE DEF t
<1>3. \A i \in 1 .. Len(t) : i = 1 \/ (i - 1 \in 1 .. Len(s) /\ t[i] = s[i - 1])
  BY <1>1
<1>4. 1 \in 1 .. Len(t) /\ \A j \in 1 .. Len(s) : j + 1 \in 1 .. Len(t) /\ t[j + 1] = s[j]
  BY <1>1
<1>5. \A j \in 1 .. Len(s) : s[j].ip # e.ip
  BY DEF IpsOf
<1>6. ASSUME NEW i \in 1 .. Len(t), NEW j \in 1 .. Len(t), t[i].ip = t[j].ip PROVE i = j
  <2>1. CASE i = 1 /\ j = 1
    BY <2>1
  <2>2. CASE i # 1 /\ j # 1
    <3>1. i - 1 \in 1 .. Len(s) /\ j - 1 \in 1 .. Len(s) /\ t[i] = s[i - 1] /\ t[j] = s[j - 1]
      BY <1>3, <2>2
    <3>2. i - 1 = j - 1
      BY <1>2, <1>6, <3>1
    <3> QED
      BY <1>1, <3>2
  <2>3. CASE (i = 1 /\ j # 1) \/ (i # 1 /\ j = 1)
    BY <1>1, <1>3, <1>5, <1>6, <2>3
  <2> QED
    BY <2>1, <2>2, <2>3
<1>7. IpsOf(t) = IpsOf(s) \union {e.ip}
  <2>1. \A p \in IpsOf(t) : p \in IpsOf(s) \/ p = e.ip
    BY <1>1, <1>3 DEF IpsOf
  <2>2. \A p \in IpsOf(s) \union {e.ip} : p \in IpsOf(t)
    BY <1>1, <1>4 DEF IpsOf
  <2> QED
    BY <2>1, <2>2
<1>8. \A i \in 1 .. Len(s) + 1 : t[i] = e \/ \E j \in 1 .. Len(s) : t[i] = s[j]
  BY <1>1, <1>3
<1> QED
  BY <1>1, <1>6, <1>7, <1>8 DEF OneEach, t

(* The start of such a list has the addresses that are not behind it.         *)
LEMMA GeoPrefix ==
  ASSUME NEW s, OneEach(s), NEW k \in 0 .. Len(s)
  PROVE  /\ OneEach(SubSeq(s, 1, k)) /\ Len(SubSeq(s, 1, k)) = k
         /\ IpsOf(SubSeq(s, 1, k)) = IpsOf(s) \ {s[i].ip : i \in k + 1 .. Len(s)}
         /\ \A i \in 1 .. k : SubSeq(s, 1, k)[i] = s[i]
<1> DEFINE t == SubSeq(s, 1, k)
<1>1. /\ t \in Seq(GeoEntries) /\ Len(t) = k /\ Len(s) \in Nat
      /\ \A i \in 1 .. k : t[i] = s[i]
  BY PrefixFacts DEF OneEach
<1>2. \A i, j \in 1 .. Len(s) : s[i].ip = s[j].ip => i = j
  BY DEF OneEach
<1> HIDE DEF t
<1>3. \A i \in 1 .. k : i \in 1 .. Len(s) /\ i \notin k + 1 .. Len(s)
  BY <1>1
<1>4. \A i \in 1 .. Len(s) : i \in 1 .. k \/ i \in k + 1 .. Len(s)
  BY <1>1
<1>5. \A i \in k + 1 .. Len(s) : i \in 1 .. Len(s)
  BY <1>1
<1>6. OneEach(t)
  BY <1>1, <1>2, <1>3 DEF OneEach
<1>7. IpsOf(t) = IpsOf(s) \ {s[i].ip : i \in k + 1 .. Len(s)}
  <2>1. \A p \in IpsOf(t) : p \in IpsOf(s) /\ p \notin {s[i].ip : i \in k + 1 .. Len(s)}
    BY <1>1, <1>2, <1>3, <1>5 DEF IpsOf
  <2>2. \A p \in IpsOf(s) : p \notin {s[i].ip : i \in k + 1 .. Len(s)} => p \in IpsOf(t)
    BY <1>1, <1>4 DEF IpsOf
  <2> QED
    BY <2>1, <2>2
<1> QED
  BY <1>1, <1>6, <1>7 DEF t

(* The list and the map agree, and the list is not too long.                  *)
GeoLists == OneEach(gll) /\ gm = IpsOf(gll) /\ Len(gll) <= Most

(* The element of an address in the map is in the list, and no other is its own. *)
LEMMA ElementFacts ==
  ASSUME GeoLists, NEW a \in gm
  PROVE  /\ Geo!Element(a) \in 1 .. Len(gll) /\ gll[Geo!Element(a)].ip = a
         /\ Geo!Entry(a) = gll[Geo!Element(a)] /\ Geo!Without(a) = Cut(gll, Geo!Element(a))
         /\ \A i \in 1 .. Len(gll) : gll[i].ip = a => gll[i] = Geo!Entry(a)
<1>1. DOMAIN gll = 1 .. Len(gll) /\ \E i \in 1 .. Len(gll) : gll[i].ip = a
  BY DEF GeoLists, IpsOf, OneEach
<1>2. Geo!Element(a) \in 1 .. Len(gll) /\ gll[Geo!Element(a)].ip = a
  BY <1>1 DEF Geo!Element
<1>3. \A i \in 1 .. Len(gll) : gll[i].ip = a => i = Geo!Element(a)
  BY <1>2 DEF GeoLists, OneEach
<1> QED
  BY <1>2, <1>3 DEF Geo!Entry, Geo!Without, Geo!RemoveAt, Cut

(* The list without the element of an address (get, put).                     *)
LEMMA ElementCut ==
  ASSUME GeoLists, NEW a \in gm
  PROVE  /\ OneEach(Geo!Without(a)) /\ Len(Geo!Without(a)) = Len(gll) - 1
         /\ IpsOf(Geo!Without(a)) = IpsOf(gll) \ {a}
         /\ \A i \in 1 .. Len(Geo!Without(a)) :
              \E j \in 1 .. Len(gll) : Geo!Without(a)[i] = gll[j]
<1>1. PICK k \in 1 .. Len(gll) : gll[k].ip = a /\ Geo!Without(a) = Cut(gll, k)
  BY ElementFacts
<1>0. OneEach(gll)
  BY DEF GeoLists
<1>2. /\ OneEach(Cut(gll, k)) /\ Len(Cut(gll, k)) = Len(gll) - 1
      /\ IpsOf(Cut(gll, k)) = IpsOf(gll) \ {gll[k].ip}
      /\ \A i \in 1 .. Len(Cut(gll, k)) : \E j \in 1 .. Len(gll) : Cut(gll, k)[i] = gll[j]
  BY <1>0, GeoCut
<1> QED
  BY <1>1, <1>2, Zenon

(* An entry of the address is in the list and not too old.                    *)
FreshIn(s, a) == \E i \in 1 .. Len(s) : s[i].ip = a /\ s[i].age <= Day

(* An address is known exactly when the list has it, and not too old.         *)
LEMMA FreshIs ==
  ASSUME GeoLists, NEW a
  PROVE  Geo!Fresh(a) <=> FreshIn(gll, a)
<1>1. ASSUME a \in gm PROVE Geo!Fresh(a) <=> FreshIn(gll, a)
  BY <1>1, ElementFacts DEF Geo!Fresh, FreshIn
<1>2. ASSUME a \notin gm PROVE ~ \E i \in 1 .. Len(gll) : gll[i].ip = a
  BY <1>2 DEF GeoLists, IpsOf
<1> QED
  BY <1>1, <1>2 DEF Geo!Fresh, FreshIn

(* get keeps list and map together, and brings nothing into the list.         *)
LEMMA GeoGet ==
  ASSUME GeoLists, NEW a, Geo!get(a)
  PROVE  /\ GeoLists'
         /\ \A i \in 1 .. Len(gll') : \E j \in 1 .. Len(gll) : gll'[i] = gll[j]
<1>0. OneEach(gll) /\ gm = IpsOf(gll) /\ Len(gll) <= Most /\ Len(gll) \in Nat /\ Most \in Nat
  BY GeoConstants DEF GeoLists, OneEach
<1>1. CASE a \in gm /\ Geo!Fresh(a) /\ gll' = <<Geo!Entry(a)>> \o Geo!Without(a) /\ gm' = gm
  <2> DEFINE k == Geo!Element(a)
  <2>1. /\ k \in 1 .. Len(gll) /\ gll[k].ip = a /\ gll' = <<gll[k]>> \o Cut(gll, k)
        /\ Geo!Without(a) = Cut(gll, k)
    BY <1>1, ElementFacts
  <2> HIDE DEF k
  <2>2. /\ OneEach(Cut(gll, k)) /\ Len(Cut(gll, k)) = Len(gll) - 1
        /\ IpsOf(Cut(gll, k)) = IpsOf(gll) \ {a}
        /\ \A i \in 1 .. Len(Cut(gll, k)) : \E j \in 1 .. Len(gll) : Cut(gll, k)[i] = gll[j]
    BY <1>1, <2>1, ElementCut
  <2>3. gll[k] \in GeoEntries /\ gll[k].ip \notin IpsOf(Cut(gll, k))
    BY <1>0, <2>1, <2>2 DEF OneEach
  <2>4. /\ OneEach(gll') /\ Len(gll') = Len(gll) - 1 + 1 /\ IpsOf(gll') = (IpsOf(gll) \ {a}) \union {a}
        /\ \A i \in 1 .. Len(gll) - 1 + 1 :
             gll'[i] = gll[k] \/ \E j \in 1 .. Len(Cut(gll, k)) : gll'[i] = Cut(gll, k)[j]
    BY <2>1, <2>2, <2>3, GeoCons
  <2>5. a \in IpsOf(gll)
    BY <2>1 DEF IpsOf
  <2>6. Len(gll') = Len(gll) /\ Len(gll) - 1 + 1 = Len(gll)
    BY <1>0, <2>4
  <2> QED
    BY <1>0, <1>1, <2>1, <2>2, <2>4, <2>5, <2>6 DEF GeoLists
<1>2. CASE a \in gm /\ gll' = Geo!Without(a) /\ gm' = gm \ {a}
  BY <1>0, <1>2, ElementCut DEF GeoLists
<1>3. CASE UNCHANGED <<gll, gm>>
  BY <1>3 DEF GeoLists, OneEach, IpsOf
<1> QED
  BY <1>1, <1>2, <1>3 DEF Geo!get, Geo!Fresh

(* put keeps list and map together, and brings one address into the list.     *)
LEMMA GeoPut ==
  ASSUME GeoLists, NEW a \in Addrs, Geo!put(a)
  PROVE  /\ GeoLists'
         /\ \A i \in 1 .. Len(gll') : gll'[i].ip = a \/ \E j \in 1 .. Len(gll) : gll'[i] = gll[j]
<1>0. OneEach(gll) /\ gm = IpsOf(gll) /\ Len(gll) <= Most /\ Len(gll) \in Nat /\ Most \in Nat \ {0}
  BY GeoConstants DEF GeoLists, OneEach
<1> DEFINE e    == [ip |-> a, age |-> 0]
           left == IF a \in gm THEN Geo!Without(a) ELSE gll
           s    == <<e>> \o left
           kept == IF a \in gm \/ Len(s) <= Most THEN Len(s) ELSE Most
<1>1. gll' = SubSeq(s, 1, kept) /\ gm' = (gm \union {a}) \ {s[i].ip : i \in kept + 1 .. Len(s)}
  BY DEF Geo!put
<1>2. /\ OneEach(left) /\ IpsOf(left) = IpsOf(gll) \ {a}
      /\ \A i \in 1 .. Len(left) : \E j \in 1 .. Len(gll) : left[i] = gll[j]
      /\ Len(left) = IF a \in gm THEN Len(gll) - 1 ELSE Len(gll)
  <2>1. CASE a \in gm
    BY <1>0, <2>1, ElementCut
  <2>2. CASE a \notin gm
    BY <1>0, <2>2
  <2> QED
    BY <2>1, <2>2
<1>3. e \in GeoEntries /\ e.ip = a
  BY GeoConstants DEF GeoEntries
<1> HIDE DEF left, e
<1>4. /\ OneEach(s) /\ Len(s) = Len(left) + 1 /\ IpsOf(s) = IpsOf(gll) \union {a}
      /\ \A i \in 1 .. Len(left) + 1 : s[i] = e \/ \E j \in 1 .. Len(left) : s[i] = left[j]
  <2>1. e.ip \notin IpsOf(left)
    BY <1>2, <1>3
  <2>2. /\ OneEach(<<e>> \o left) /\ Len(<<e>> \o left) = Len(left) + 1
        /\ IpsOf(<<e>> \o left) = IpsOf(left) \union {e.ip}
        /\ \A i \in 1 .. Len(left) + 1 :
             (<<e>> \o left)[i] = e \/ \E j \in 1 .. Len(left) : (<<e>> \o left)[i] = left[j]
    BY <1>2, <1>3, <2>1, GeoCons, Zenon
  <2>3. IpsOf(left) \union {e.ip} = IpsOf(gll) \union {a}
    BY <1>2, <1>3
  <2> QED
    BY <2>2, <2>3
<1> HIDE DEF s
<1>5. kept \in 0 .. Len(s) /\ kept <= Most
  BY <1>0, <1>2, <1>4
<1> HIDE DEF kept
<1>6. /\ OneEach(gll') /\ Len(gll') = kept
      /\ IpsOf(gll') = IpsOf(s) \ {s[i].ip : i \in kept + 1 .. Len(s)}
      /\ \A i \in 1 .. kept : gll'[i] = s[i]
  BY <1>1, <1>4, <1>5, GeoPrefix
<1>7. GeoLists'
  BY <1>0, <1>1, <1>4, <1>5, <1>6 DEF GeoLists
<1>8. ASSUME NEW i \in 1 .. Len(gll')
      PROVE  gll'[i].ip = a \/ \E j \in 1 .. Len(gll) : gll'[i] = gll[j]
  <2>1. i \in 1 .. Len(left) + 1 /\ gll'[i] = s[i]
    BY <1>0, <1>4, <1>5, <1>6
  <2> QED
    BY <1>2, <1>3, <1>4, <2>1
<1> QED
  BY <1>7, <1>8

(* The types of a lookup run: what is asked is still to ask, and public.      *)
GeoTypes ==
  /\ holder \in Callers \union {None} /\ gpc \in [Callers -> Geo!PCs]
  /\ pending \subseteq Addrs /\ todo \subseteq Public /\ asked \subseteq todo /\ answers \subseteq asked

(* Whoever is in a run holds lookupMu; before a request nothing is asked, and *)
(* before an answer nothing is answered; without a holder nothing is left.    *)
GeoLocked ==
  /\ \A c \in Callers : gpc[c] \in {"run", "asked", "put"} => holder = c
  /\ \A c \in Callers : gpc[c] = "run" => asked = {}
  /\ \A c \in Callers : gpc[c] = "asked" => answers = {}
  /\ holder = None => asked = {}

(* The program waits at least as long as the site is to be left alone.        *)
GeoWaits ==
  /\ nextAllowed \in 0 .. Window + 1 /\ rest \in 0 .. Window
  /\ rest <= nextAllowed

(* What a run has still to ask is not known, since nobody else puts an address. *)
GeoMissing == \A a \in todo \ asked : ~FreshIn(gll, a)

(* The invariant of the geolocation.                                          *)
GeoInv == GeoLists /\ GeoTypes /\ GeoLocked /\ GeoWaits /\ GeoMissing

(* get makes no address known, and a location that it drops is unknown.       *)
LEMMA GeoGetFresh ==
  ASSUME GeoLists, NEW a, Geo!get(a)
  PROVE  /\ GeoLists' /\ \A b : FreshIn(gll', b) => FreshIn(gll, b)
         /\ ~FreshIn(gll, a) => ~FreshIn(gll', a)
<1>1. GeoLists' /\ \A i \in 1 .. Len(gll') : \E j \in 1 .. Len(gll) : gll'[i] = gll[j]
  BY GeoGet
<1>2. \A b : FreshIn(gll', b) => FreshIn(gll, b)
  BY <1>1 DEF FreshIn
<1> QED
  BY <1>1, <1>2

(* put makes no other address known.                                          *)
LEMMA GeoPutFresh ==
  ASSUME GeoLists, NEW a \in Addrs, Geo!put(a)
  PROVE  GeoLists' /\ \A b : b # a /\ FreshIn(gll', b) => FreshIn(gll, b)
<1>1. /\ GeoLists'
      /\ \A i \in 1 .. Len(gll') : gll'[i].ip = a \/ \E j \in 1 .. Len(gll) : gll'[i] = gll[j]
  BY GeoPut
<1>2. \A b : b # a /\ FreshIn(gll', b) => FreshIn(gll, b)
  BY <1>1 DEF FreshIn
<1> QED
  BY <1>1, <1>2

(* Time makes no address known.                                               *)
LEMMA GeoTick ==
  ASSUME GeoLists, Geo!Tick
  PROVE  GeoLists' /\ \A b : FreshIn(gll', b) => FreshIn(gll, b)
<1>1. /\ gll \in Seq(GeoEntries) /\ DOMAIN gll = 1 .. Len(gll) /\ Len(gll) \in Nat /\ gm' = gm
      /\ \A i, j \in 1 .. Len(gll) : gll[i].ip = gll[j].ip => i = j
      /\ gm = IpsOf(gll) /\ Len(gll) <= Most
  BY DEF GeoLists, OneEach, Geo!Tick
<1>2. \A i \in 1 .. Len(gll) : gll[i] \in GeoEntries
  BY <1>1
<1>3. gll' = [i \in 1 .. Len(gll) |-> [gll[i] EXCEPT !.age = IF @ > Day THEN @ ELSE @ + 1]]
  BY <1>1 DEF Geo!Tick
<1>4. ASSUME NEW i \in 1 .. Len(gll)
      PROVE  /\ gll'[i] \in GeoEntries /\ gll'[i].ip = gll[i].ip
             /\ gll'[i].age <= Day => gll[i].age <= Day
  <2>1. gll'[i] = [gll[i] EXCEPT !.age = IF @ > Day THEN @ ELSE @ + 1]
    BY <1>3
  <2>2. gll[i].age \in 0 .. Day + 1 /\ gll[i].ip \in Addrs /\ Day \in Nat
    BY <1>2, GeoConstants DEF GeoEntries
  <2>3. gll'[i] = [ip |-> gll[i].ip, age |-> IF gll[i].age > Day THEN gll[i].age ELSE gll[i].age + 1]
    BY <1>2, <2>1 DEF GeoEntries
  <2>4. (IF gll[i].age > Day THEN gll[i].age ELSE gll[i].age + 1) \in 0 .. Day + 1
    BY <2>2
  <2> QED
    BY <2>2, <2>3, <2>4 DEF GeoEntries
<1>5. gll' \in Seq(GeoEntries) /\ Len(gll') = Len(gll)
  <2> DEFINE t == gll'
  <2>1. t = [i \in 1 .. Len(gll) |-> t[i]]
    BY <1>3
  <2>2. \A i \in 1 .. Len(gll) : t[i] \in GeoEntries
    BY <1>4
  <2> HIDE DEF t
  <2>3. t \in [1 .. Len(gll) -> GeoEntries]
    BY <2>1, <2>2
  <2>4. t \in Seq(GeoEntries) /\ Len(t) = Len(gll)
    BY <1>1, <2>3
  <2> QED
    BY <2>4 DEF t
<1>6. GeoLists'
  <2>1. OneEach(gll')
    BY <1>1, <1>4, <1>5 DEF OneEach
  <2>2. IpsOf(gll') = IpsOf(gll)
    BY <1>4, <1>5 DEF IpsOf
  <2> QED
    BY <1>1, <1>5, <2>1, <2>2 DEF GeoLists
<1>7. \A b : FreshIn(gll', b) => FreshIn(gll, b)
  BY <1>4, <1>5 DEF FreshIn
<1> QED
  BY <1>6, <1>7

(* A step that leaves the list and the map alone keeps them.                  *)
LEMMA GeoKept ==
  ASSUME GeoLists, UNCHANGED <<gll, gm>>
  PROVE  GeoLists' /\ \A b : FreshIn(gll', b) <=> FreshIn(gll, b)
BY DEF GeoLists, OneEach, IpsOf, FreshIn

(* The invariant makes the types right, the cache coherent, and each address  *)
(* asked for once.                                                            *)
LEMMA GeoFound ==
  ASSUME GeoInv
  PROVE  Geo!TypeOK /\ Geo!CacheCoherent /\ Geo!AskOnce
<1> USE DEF GeoInv
<1>1. gm = IpsOf(gll) /\ gll \in Seq(GeoEntries) /\ DOMAIN gll = 1 .. Len(gll)
      /\ Len(gll) <= Most /\ (\A i, j \in 1 .. Len(gll) : gll[i].ip = gll[j].ip => i = j)
  BY DEF GeoLists, OneEach
<1>2. gm \subseteq Addrs
  <2>1. \A i \in 1 .. Len(gll) : gll[i] \in GeoEntries
    BY <1>1
  <2>2. \A i \in 1 .. Len(gll) : gll[i].ip \in Addrs
    BY <2>1 DEF GeoEntries
  <2> QED
    BY <1>1, <2>2 DEF IpsOf
<1>3. Geo!TypeOK
  BY <1>1, <1>2 DEF Geo!TypeOK, GeoTypes, GeoWaits, GeoEntries
<1>4. gm = {e.ip : e \in Geo!ToSet(gll)}
  <2>1. Geo!ToSet(gll) = {gll[i] : i \in 1 .. Len(gll)}
    BY <1>1 DEF Geo!ToSet
  <2> QED
    BY <1>1, <2>1 DEF IpsOf
<1>5. Geo!CacheCoherent
  BY <1>1, <1>4 DEF Geo!CacheCoherent
<1>6. Geo!AskOnce
  <2> SUFFICES ASSUME NEW a \in todo \ (asked \ answers), NEW c \in Callers, gpc[c] = "run"
               PROVE  ~Geo!Fresh(a)
    BY DEF Geo!AskOnce
  <2>1. a \in todo \ asked
    BY DEF GeoLocked
  <2> QED
    BY <2>1, FreshIs DEF GeoMissing
<1> QED
  BY <1>3, <1>5, <1>6

(* The invariant holds when the server starts.                                *)
LEMMA GeoInit ==
  ASSUME Geo!Init
  PROVE  GeoInv
<1>1. GeoLists
  BY GeoConstants DEF Geo!Init, GeoLists, OneEach, IpsOf, GeoEntries
<1>2. GeoTypes /\ GeoLocked
  BY DEF Geo!Init, GeoTypes, GeoLocked, Geo!PCs
<1>3. GeoWaits /\ GeoMissing
  BY GeoConstants DEF Geo!Init, GeoWaits, GeoMissing
<1> QED
  BY <1>1, <1>2, <1>3 DEF GeoInv

(* What a step of the geolocation must keep, and that a request is sent only  *)
(* when the site accepts it.                                                  *)
GeoWanted == GeoInv' /\ \A c \in Callers : gpc[c] = "run" /\ gpc'[c] = "asked" => rest = 0

(* Every step of the geolocation does.                                        *)
LEMMA GeoStep ==
  ASSUME GeoInv, [Geo!Next]_geo
  PROVE  GeoWanted
<1> USE DEF GeoInv
<1>0. None \notin Callers /\ Public \subseteq Addrs
  BY GeoConstants
<1>1. CASE Geo!Tick
  <2>1. GeoLists' /\ \A b : FreshIn(gll', b) => FreshIn(gll, b)
    BY <1>1, GeoTick
  <2>2. UNCHANGED <<holder, gpc, pending, todo, asked, answers>>
    BY <1>1 DEF Geo!Tick
  <2>3. GeoTypes' /\ GeoLocked' /\ GeoMissing'
    BY <2>1, <2>2 DEF GeoTypes, GeoLocked, GeoMissing
  <2>4. GeoWaits'
    BY <1>1, GeoConstants DEF Geo!Tick, Geo!Less, GeoWaits
  <2> QED
    BY <2>1, <2>2, <2>3, <2>4 DEF GeoWanted
<1>2. ASSUME NEW a \in Addrs, Geo!Show(a) PROVE GeoWanted
  <2>1. GeoLists' /\ \A b : FreshIn(gll', b) => FreshIn(gll, b)
    BY <1>2, GeoGetFresh DEF Geo!Show
  <2>2. UNCHANGED <<holder, gpc, pending, todo, asked, answers, nextAllowed, rest>>
    BY <1>2 DEF Geo!Show
  <2> QED
    BY <2>1, <2>2 DEF GeoTypes, GeoLocked, GeoMissing, GeoWaits, GeoWanted
<1>3. ASSUME NEW c \in Callers, Geo!Call(c) PROVE GeoWanted
  <2>1. UNCHANGED <<gll, gm, holder, pending, todo, asked, answers, nextAllowed, rest>>
    BY <1>3 DEF Geo!Call
  <2>2. gpc[c] = "idle" /\ gpc' = [gpc EXCEPT ![c] = "queue"]
    BY <1>3 DEF Geo!Call, Geo!Become
  <2>3. GeoTypes' /\ GeoLocked' /\ \A d \in Callers : ~(gpc[d] = "run" /\ gpc'[d] = "asked")
    BY <2>1, <2>2 DEF GeoTypes, GeoLocked, Geo!PCs
  <2> QED
    BY <2>1, <2>3, GeoKept DEF GeoMissing, GeoWaits, GeoWanted
<1>4. ASSUME NEW c \in Callers, NEW ips \in SUBSET Addrs, Geo!Lock(c, ips) PROVE GeoWanted
  <2>1. UNCHANGED <<gll, gm, asked, answers, nextAllowed, rest>>
    BY <1>4 DEF Geo!Lock
  <2>2. /\ gpc[c] = "queue" /\ gpc' = [gpc EXCEPT ![c] = "run"] /\ holder = None
        /\ holder' = c /\ pending' = ips /\ todo' = {}
    BY <1>4 DEF Geo!Lock, Geo!Become
  <2>3. asked = {} /\ answers = {}
    BY <2>2 DEF GeoLocked, GeoTypes
  <2>4. \A d \in Callers : gpc[d] \notin {"run", "asked", "put"}
    BY <1>0, <2>2 DEF GeoLocked
  <2>5. GeoTypes' /\ GeoLocked' /\ \A d \in Callers : ~(gpc[d] = "run" /\ gpc'[d] = "asked")
    BY <1>0, <2>1, <2>2, <2>3, <2>4 DEF GeoTypes, GeoLocked, Geo!PCs
  <2>6. GeoMissing'
    BY <2>2 DEF GeoMissing
  <2> QED
    BY <2>1, <2>5, <2>6, GeoKept DEF GeoWaits, GeoWanted
<1>5. ASSUME NEW c \in Callers, NEW a \in Addrs, Geo!Known(c, a) PROVE GeoWanted
  <2>1. GeoLists' /\ \A b : FreshIn(gll', b) => FreshIn(gll, b)
    BY <1>5, GeoGetFresh DEF Geo!Known
  <2>2. /\ UNCHANGED <<holder, gpc, todo, asked, answers, nextAllowed, rest>>
        /\ pending' = pending \ {a}
    BY <1>5 DEF Geo!Known
  <2> QED
    BY <2>1, <2>2 DEF GeoTypes, GeoLocked, GeoMissing, GeoWaits, GeoWanted
<1>6. ASSUME NEW c \in Callers, NEW a \in Addrs, Geo!Private(c, a) PROVE GeoWanted
  <2>1. GeoLists' /\ \A b : b # a /\ FreshIn(gll', b) => FreshIn(gll, b)
    BY <1>6, GeoPutFresh DEF Geo!Private
  <2>2. /\ UNCHANGED <<holder, gpc, todo, asked, answers, nextAllowed, rest>>
        /\ pending' = pending \ {a} /\ a \notin Public
    BY <1>6 DEF Geo!Private
  <2>3. a \notin todo
    BY <2>2 DEF GeoTypes
  <2> QED
    BY <2>1, <2>2, <2>3 DEF GeoTypes, GeoLocked, GeoMissing, GeoWaits, GeoWanted
<1>7. ASSUME NEW c \in Callers, NEW a \in Addrs, Geo!ToAsk(c, a) PROVE GeoWanted
  <2>1. ~FreshIn(gll, a)
    BY <1>7, FreshIs DEF Geo!ToAsk
  <2>2. GeoLists' /\ (\A b : FreshIn(gll', b) => FreshIn(gll, b)) /\ ~FreshIn(gll', a)
    BY <1>7, <2>1, GeoGetFresh DEF Geo!ToAsk
  <2>3. /\ UNCHANGED <<holder, gpc, asked, answers, nextAllowed, rest>>
        /\ pending' = pending \ {a} /\ todo' = todo \union {a} /\ a \in Public
    BY <1>7 DEF Geo!ToAsk
  <2> QED
    BY <2>2, <2>3 DEF GeoTypes, GeoLocked, GeoMissing, GeoWaits, GeoWanted
<1>8. ASSUME NEW c \in Callers, gpc[c] \in {"run", "asked"}, Geo!Unlock(c), UNCHANGED <<gll, gm>>, GeoWaits'
      PROVE  GeoWanted
  <2>1. /\ holder' = None /\ pending' = {} /\ todo' = {} /\ asked' = {} /\ answers' = {}
        /\ gpc' = [gpc EXCEPT ![c] = "idle"]
    BY <1>8 DEF Geo!Unlock, Geo!Become
  <2>2. \A d \in Callers : d # c => gpc[d] \notin {"run", "asked", "put"}
    BY <1>8 DEF GeoLocked
  <2>3. GeoTypes' /\ GeoLocked' /\ \A d \in Callers : ~(gpc[d] = "run" /\ gpc'[d] = "asked")
    BY <2>1, <2>2 DEF GeoTypes, GeoLocked, Geo!PCs
  <2>4. GeoMissing'
    BY <2>1 DEF GeoMissing
  <2> QED
    BY <1>8, <2>3, <2>4, GeoKept DEF GeoWanted
<1>9. ASSUME NEW c \in Callers, Geo!AllKnown(c) PROVE GeoWanted
  BY <1>8, <1>9 DEF Geo!AllKnown, GeoWaits
<1>10. ASSUME NEW c \in Callers, Geo!GiveUp(c) PROVE GeoWanted
  BY <1>8, <1>10 DEF Geo!GiveUp, Geo!Ready, GeoWaits
<1>11. ASSUME NEW used \in BOOLEAN, NEW ttl \in 0 .. Window, Geo!Told(used, ttl) PROVE GeoWaits'
  BY <1>11, GeoConstants DEF Geo!Told, GeoWaits
<1>12. ASSUME NEW c \in Callers, Geo!Failed(c) PROVE GeoWanted
  <2>1. GeoWaits'
    <3>1. 0 \in 0 .. Window
      BY GeoConstants
    <3> QED
      BY <1>11, <1>12, <3>1 DEF Geo!Failed
  <2> QED
    BY <1>8, <1>12, <2>1 DEF Geo!Failed
<1>13. ASSUME NEW c \in Callers, Geo!Send(c) PROVE GeoWanted
  <2>1. /\ UNCHANGED <<gll, gm, holder, pending, todo, answers, nextAllowed, rest>>
        /\ gpc[c] = "run" /\ nextAllowed = 0 /\ gpc' = [gpc EXCEPT ![c] = "asked"]
    BY <1>13 DEF Geo!Send, Geo!Ready, Geo!Become
  <2>2. asked' \subseteq todo
    BY <1>13 DEF Geo!Send
  <2>3. rest = 0
    BY <2>1, GeoConstants DEF GeoWaits
  <2>4. asked = {} /\ answers = {} /\ holder = c
    BY <2>1 DEF GeoLocked, GeoTypes
  <2>5. GeoTypes'
    BY <2>1, <2>2, <2>4 DEF GeoTypes, Geo!PCs
  <2>6. GeoLocked'
    BY <1>0, <2>1, <2>4 DEF GeoLocked, GeoTypes
  <2>7. GeoMissing'
    <3>1. \A b \in todo \ asked' : ~FreshIn(gll, b)
      BY <2>4 DEF GeoMissing
    <3> QED
      BY <2>1, <3>1, GeoKept DEF GeoMissing
  <2> QED
    BY <2>1, <2>3, <2>5, <2>6, <2>7, GeoKept DEF GeoWaits, GeoWanted
<1>14. ASSUME NEW c \in Callers, Geo!Answered(c) PROVE GeoWanted
  <2>1. GeoWaits'
    BY <1>11, <1>14 DEF Geo!Answered
  <2>2. /\ UNCHANGED <<gll, gm, holder, pending, todo, asked>> /\ answers' \subseteq asked
        /\ gpc[c] = "asked" /\ gpc' = [gpc EXCEPT ![c] = "put"]
    BY <1>14 DEF Geo!Answered, Geo!Become
  <2>3. \A d \in Callers : d # c => gpc[d] \notin {"run", "asked", "put"}
    BY <2>2 DEF GeoLocked
  <2>4. GeoTypes' /\ GeoLocked' /\ \A d \in Callers : ~(gpc[d] = "run" /\ gpc'[d] = "asked")
    BY <1>0, <2>2, <2>3 DEF GeoTypes, GeoLocked, Geo!PCs
  <2>5. GeoLists' /\ GeoMissing'
    BY <2>2, GeoKept DEF GeoMissing
  <2> QED
    BY <2>1, <2>4, <2>5 DEF GeoWanted
<1>15. ASSUME NEW c \in Callers, NEW a \in Addrs, Geo!PutOne(c, a) PROVE GeoWanted
  <2>1. GeoLists' /\ \A b : b # a /\ FreshIn(gll', b) => FreshIn(gll, b)
    BY <1>15, GeoPutFresh DEF Geo!PutOne
  <2>2. /\ UNCHANGED <<holder, gpc, pending, todo, asked, nextAllowed, rest>>
        /\ answers' = answers \ {a} /\ a \in answers
    BY <1>15 DEF Geo!PutOne
  <2>3. a \in asked
    BY <2>2 DEF GeoTypes
  <2> QED
    BY <2>1, <2>2, <2>3 DEF GeoTypes, GeoLocked, GeoMissing, GeoWaits, GeoWanted
<1>16. ASSUME NEW c \in Callers, Geo!NextBatch(c) PROVE GeoWanted
  <2>1. /\ UNCHANGED <<gll, gm, holder, pending, answers, nextAllowed, rest>> /\ answers = {}
        /\ todo' = todo \ asked /\ asked' = {} /\ gpc[c] = "put" /\ gpc' = [gpc EXCEPT ![c] = "run"]
    BY <1>16 DEF Geo!NextBatch, Geo!Become
  <2>2. \A d \in Callers : d # c => gpc[d] \notin {"run", "asked", "put"}
    BY <2>1 DEF GeoLocked
  <2>3. GeoTypes' /\ GeoLocked' /\ \A d \in Callers : ~(gpc[d] = "run" /\ gpc'[d] = "asked")
    BY <1>0, <2>1, <2>2 DEF GeoTypes, GeoLocked, Geo!PCs
  <2>4. GeoLists' /\ GeoMissing'
    BY <2>1, GeoKept DEF GeoMissing
  <2> QED
    BY <2>1, <2>3, <2>4 DEF GeoWaits, GeoWanted
<1>17. CASE UNCHANGED geo
  <2>1. /\ UNCHANGED <<gll, gm>>
        /\ UNCHANGED <<holder, gpc, pending, todo, asked, answers, nextAllowed, rest>>
    BY <1>17 DEF geo
  <2> QED
    BY <2>1, GeoKept DEF GeoTypes, GeoLocked, GeoMissing, GeoWaits, GeoWanted
<1>18. ASSUME NEW c \in Callers, Geo!Run(c) PROVE GeoWanted
  BY <1>5, <1>6, <1>7, <1>9, <1>12, <1>13, <1>14, <1>15, <1>16, <1>18 DEF Geo!Run
<1> QED
  BY <1>1, <1>2, <1>3, <1>4, <1>10, <1>17, <1>18 DEF Geo!Next, Geo!Locks

(* List and map of the locations hold the same addresses, each once, and no   *)
(* more than the maximum; no address is asked for that the cache knows; and a *)
(* request is sent only when the time the site told last is over, or four     *)
(* seconds when it told none (get, put, geolocate).                           *)
THEOREM LocationsSound == MCSpec => GeoSound
<1>1. MCInit => GeoInv
  BY GeoInit DEF MCInit
<1>2. GeoInv /\ [MCNext]_<<vars, others>> => GeoInv'
  <2> SUFFICES ASSUME GeoInv, [MCNext]_<<vars, others>> PROVE GeoInv'
    OBVIOUS
  <2>1. [Geo!Next]_geo
    BY DEF MCNext, others
  <2> QED
    BY <2>1, GeoStep DEF GeoWanted
<1>3. GeoInv => Geo!CacheCoherent /\ Geo!AskOnce
  BY GeoFound
<1> DEFINE Sent == \A c \in Callers : (gpc[c] = "run" /\ gpc'[c] = "asked") => rest = 0
<1>4. GeoInv /\ [MCNext]_<<vars, others>> => [Sent]_geo
  <2> SUFFICES ASSUME GeoInv, [MCNext]_<<vars, others>> PROVE Sent
    OBVIOUS
  <2>1. [Geo!Next]_geo
    BY DEF MCNext, others
  <2> QED
    BY <2>1, GeoStep DEF GeoWanted
<1>5. Geo!Polite <=> [][Sent]_geo
  BY DEF Geo!Polite, Geo!vars, geo
<1> HIDE DEF Sent
<1> QED
  BY <1>1, <1>2, <1>3, <1>4, <1>5, PTL DEF MCSpec, GeoSound

------------------------------------------------------------------------------
(* The image proxy (ImageProxy).                                              *)

(* The Cardinality of the instance is that of the library.                    *)
LEMMA SameCount == \A S : Images!Cardinality(S) = Cardinality(S)
BY DEF Images!Cardinality, Cardinality

(* The entries of a list.                                                     *)
Members(s) == {s[i] : i \in 1 .. Len(s)}

(* A list of images that has no URL twice.                                    *)
OneUrl(s) == s \in Seq(Images!Entries) /\ \A i, j \in 1 .. Len(s) : s[i].url = s[j].url => i = j

(* Such a list without one element.                                           *)
LEMMA ImgCut ==
  ASSUME NEW s, OneUrl(s), NEW k \in 1 .. Len(s)
  PROVE  /\ OneUrl(Cut(s, k)) /\ Len(Cut(s, k)) = Len(s) - 1
         /\ Members(Cut(s, k)) = Members(s) \ {s[k]}
<1> DEFINE t == Cut(s, k)
<1>0. s \in Seq(Images!Entries)
  BY DEF OneUrl
<1>1. /\ t \in Seq(Images!Entries) /\ Len(t) = Len(s) - 1 /\ Len(s) \in Nat
      /\ \A i \in 1 .. Len(s) - 1 : t[i] = IF i < k THEN s[i] ELSE s[i + 1]
  <2>1. Len(s) \in Nat
    BY <1>0
  <2>2. /\ Cut(s, k) \in Seq(Images!Entries) /\ Len(Cut(s, k)) = Len(s) - 1
        /\ \A i \in 1 .. Len(s) - 1 : Cut(s, k)[i] = IF i < k THEN s[i] ELSE s[i + 1]
    BY <1>0, CutFacts, Zenon
  <2> QED
    BY <2>1, <2>2
<1>2. \A i, j \in 1 .. Len(s) : s[i].url = s[j].url => i = j
  BY DEF OneUrl
<1> HIDE DEF t
<1> DEFINE From(i) == IF i < k THEN i ELSE i + 1
<1>3. \A i \in 1 .. Len(t) : From(i) \in 1 .. Len(s) /\ From(i) # k /\ t[i] = s[From(i)]
  BY <1>1
<1>4. \A i, j \in 1 .. Len(t) : From(i) = From(j) => i = j
  BY <1>1
<1>5. \A j \in 1 .. Len(s) : j # k => \E i \in 1 .. Len(t) : From(i) = j
  <2>1. ASSUME NEW j \in 1 .. Len(s), j < k PROVE j \in 1 .. Len(t) /\ From(j) = j
    BY <1>1, <2>1
  <2>2. ASSUME NEW j \in 1 .. Len(s), j > k PROVE j - 1 \in 1 .. Len(t) /\ From(j - 1) = j
    BY <1>1, <2>2
  <2>3. \A j \in 1 .. Len(s) : j # k => j < k \/ j > k
    BY <1>1
  <2> QED
    BY <2>1, <2>2, <2>3
<1> HIDE DEF From
<1>6. OneUrl(t)
  BY <1>1, <1>2, <1>3, <1>4 DEF OneUrl
<1>7. Members(t) = Members(s) \ {s[k]}
  <2>1. \A p \in Members(t) : p \in Members(s) /\ p # s[k]
    BY <1>2, <1>3 DEF Members
  <2>2. \A p \in Members(s) : p # s[k] => p \in Members(t)
    BY <1>3, <1>5 DEF Members
  <2> QED
    BY <2>1, <2>2
<1> QED
  BY <1>1, <1>6, <1>7 DEF t

(* Such a list with an entry of another URL before it.                        *)
LEMMA ImgCons ==
  ASSUME NEW s, OneUrl(s), NEW e \in Images!Entries, \A x \in Members(s) : x.url # e.url
  PROVE  /\ OneUrl(<<e>> \o s) /\ Len(<<e>> \o s) = Len(s) + 1
         /\ Members(<<e>> \o s) = Members(s) \union {e}
<1> DEFINE t == <<e>> \o s
<1>1. /\ t \in Seq(Images!Entries) /\ Len(t) = Len(s) + 1 /\ Len(s) \in Nat /\ t[1] = e
      /\ \A i \in 1 .. Len(s) : t[i + 1] = s[i]
  BY ConsFacts DEF OneUrl
<1>2. \A i, j \in 1 .. Len(s) : s[i].url = s[j].url => i = j
  BY DEF OneUrl
<1> HIDE DEF t
<1>3. \A i \in 1 .. Len(t) : i = 1 \/ (i - 1 \in 1 .. Len(s) /\ t[i] = s[i - 1])
  BY <1>1
<1>4. 1 \in 1 .. Len(t) /\ \A j \in 1 .. Len(s) : j + 1 \in 1 .. Len(t) /\ t[j + 1] = s[j]
  BY <1>1
<1>5. \A j \in 1 .. Len(s) : s[j].url # e.url
  BY DEF Members
<1>6. ASSUME NEW i \in 1 .. Len(t), NEW j \in 1 .. Len(t), t[i].url = t[j].url PROVE i = j
  <2>1. CASE i = 1 /\ j = 1
    BY <2>1
  <2>2. CASE i # 1 /\ j # 1
    <3>1. i - 1 \in 1 .. Len(s) /\ j - 1 \in 1 .. Len(s) /\ t[i] = s[i - 1] /\ t[j] = s[j - 1]
      BY <1>3, <2>2
    <3>2. i - 1 = j - 1
      BY <1>2, <1>6, <3>1
    <3> QED
      BY <1>1, <3>2
  <2>3. CASE (i = 1 /\ j # 1) \/ (i # 1 /\ j = 1)
    BY <1>1, <1>3, <1>5, <1>6, <2>3
  <2> QED
    BY <2>1, <2>2, <2>3
<1>7. Members(t) = Members(s) \union {e}
  <2>1. \A p \in Members(t) : p \in Members(s) \/ p = e
    BY <1>1, <1>3 DEF Members
  <2>2. \A p \in Members(s) \union {e} : p \in Members(t)
    BY <1>1, <1>4 DEF Members
  <2> QED
    BY <2>1, <2>2
<1> QED
  BY <1>1, <1>6, <1>7 DEF OneUrl, t

(* The two parts of such a list have its entries, and no URL in common.       *)
LEMMA ImgSplit ==
  ASSUME NEW s, OneUrl(s), NEW k \in 0 .. Len(s)
  PROVE  /\ OneUrl(SubSeq(s, 1, k)) /\ OneUrl(SubSeq(s, k + 1, Len(s)))
         /\ Len(SubSeq(s, 1, k)) = k
         /\ Members(SubSeq(s, k + 1, Len(s))) = {s[i] : i \in k + 1 .. Len(s)}
         /\ Members(s) = Members(SubSeq(s, 1, k)) \union Members(SubSeq(s, k + 1, Len(s)))
         /\ \A x \in Members(SubSeq(s, 1, k)), y \in Members(SubSeq(s, k + 1, Len(s))) : x.url # y.url
<1> DEFINE a == SubSeq(s, 1, k)
           b == SubSeq(s, k + 1, Len(s))
<1>1. a \in Seq(Images!Entries) /\ Len(a) = k /\ Len(s) \in Nat /\ \A i \in 1 .. k : a[i] = s[i]
  BY PrefixFacts DEF OneUrl
<1>2. b \in Seq(Images!Entries) /\ Len(b) = Len(s) - k /\ \A i \in 1 .. Len(s) - k : b[i] = s[k + i]
  BY SuffixFacts DEF OneUrl
<1>3. \A i, j \in 1 .. Len(s) : s[i].url = s[j].url => i = j
  BY DEF OneUrl
<1> HIDE DEF a, b
<1>4. /\ \A i \in 1 .. k : i \in 1 .. Len(s)
      /\ \A i \in 1 .. Len(s) - k : k + i \in k + 1 .. Len(s)
      /\ \A i \in k + 1 .. Len(s) : i \in 1 .. Len(s) /\ i - k \in 1 .. Len(s) - k /\ k + (i - k) = i
  BY <1>1
<1>5. OneUrl(a)
  BY <1>1, <1>3, <1>4 DEF OneUrl
<1>6. OneUrl(b)
  <2>1. ASSUME NEW i \in 1 .. Len(b), NEW j \in 1 .. Len(b), b[i].url = b[j].url PROVE i = j
    <3>1. b[i] = s[k + i] /\ b[j] = s[k + j] /\ k + i \in 1 .. Len(s) /\ k + j \in 1 .. Len(s)
      BY <1>2, <1>4
    <3>2. k + i = k + j
      BY <1>3, <2>1, <3>1
    <3> QED
      BY <1>1, <3>2
  <2> QED
    BY <1>2, <2>1 DEF OneUrl
<1>7. Members(a) = {s[i] : i \in 1 .. k}
  BY <1>1 DEF Members
<1>8. Members(b) = {s[i] : i \in k + 1 .. Len(s)}
  <2>1. \A x \in Members(b) : x \in {s[i] : i \in k + 1 .. Len(s)}
    BY <1>2, <1>4 DEF Members
  <2>2. ASSUME NEW i \in k + 1 .. Len(s) PROVE s[i] \in Members(b)
    <3>1. b[i - k] = s[i] /\ i - k \in 1 .. Len(b)
      BY <1>2, <1>4
    <3> QED
      BY <3>1 DEF Members
  <2> QED
    BY <2>1, <2>2
<1>9. Members(s) = Members(a) \union Members(b)
  <2>1. \A i \in 1 .. Len(s) : i \in 1 .. k \/ i \in k + 1 .. Len(s)
    BY <1>1
  <2> QED
    BY <1>4, <1>7, <1>8, <2>1 DEF Members
<1>10. \A x \in Members(a), y \in Members(b) : x.url # y.url
  <2>1. \A i \in 1 .. k, j \in k + 1 .. Len(s) : i # j
    BY <1>1
  <2> QED
    BY <1>3, <1>4, <1>7, <1>8, <2>1
<1> QED
  BY <1>1, <1>5, <1>6, <1>8, <1>9, <1>10 DEF a, b

(* The bytes of a set of entries, each named by its URL and its place in the  *)
(* image.                                                                     *)
Pairs(E) == UNION {{e.url} \X (1 .. e.size) : e \in E}

(* A single image has as many bytes as its size says.                         *)
LEMMA OneImage ==
  ASSUME NEW e \in Images!Entries
  PROVE  /\ Pairs({e}) = {e.url} \X (1 .. e.size)
         /\ IsFiniteSet(Pairs({e})) /\ Cardinality(Pairs({e})) = e.size
<1>1. Pairs({e}) = {e.url} \X (1 .. e.size)
  BY DEF Pairs
<1>2. e.size \in Nat
  BY DEF Images!Entries
<1>3. IsFiniteSet(1 .. e.size) /\ Cardinality(1 .. e.size) = e.size
  <2>1. IsFiniteSet(1 .. e.size) /\ Cardinality(1 .. e.size) = IF 1 > e.size THEN 0 ELSE e.size - 1 + 1
    BY <1>2, FS_Interval, SMTT(30)
  <2> QED
    BY <1>2, <2>1
<1> DEFINE f == [n \in 1 .. e.size |-> <<e.url, n>>]
<1>4. f \in Bijection(1 .. e.size, {e.url} \X (1 .. e.size))
  BY DEF Bijection, Injection, Surjection, IsInjective
<1>5. ExistsBijection(1 .. e.size, {e.url} \X (1 .. e.size))
  BY <1>4 DEF ExistsBijection
<1>6. /\ IsFiniteSet({e.url} \X (1 .. e.size))
      /\ Cardinality({e.url} \X (1 .. e.size)) = Cardinality(1 .. e.size)
  BY <1>3, <1>5, FS_Bijection, Zenon
<1> QED
  BY <1>1, <1>3, <1>6, Zenon

(* The bytes of two sets of entries without a common URL add up.              *)
LEMMA PairsApart ==
  ASSUME NEW E \in SUBSET Images!Entries, NEW F \in SUBSET Images!Entries,
         IsFiniteSet(Pairs(E)), IsFiniteSet(Pairs(F)), \A x \in E, y \in F : x.url # y.url
  PROVE  /\ IsFiniteSet(Pairs(E \union F))
         /\ Cardinality(Pairs(E \union F)) = Cardinality(Pairs(E)) + Cardinality(Pairs(F))
         /\ Cardinality(Pairs(E)) \in Nat /\ Cardinality(Pairs(F)) \in Nat
<1>1. Pairs(E \union F) = Pairs(E) \union Pairs(F)
  BY DEF Pairs
<1>2. Pairs(E) \intersect Pairs(F) = {}
  BY DEF Pairs
<1>3. Cardinality(Pairs(E)) \in Nat /\ Cardinality(Pairs(F)) \in Nat
  BY FS_CardinalityType
<1>4. Cardinality({}) = 0
  BY FS_EmptySet
<1>5. /\ IsFiniteSet(Pairs(E) \union Pairs(F))
      /\ Cardinality(Pairs(E) \union Pairs(F))
           = Cardinality(Pairs(E)) + Cardinality(Pairs(F)) - Cardinality(Pairs(E) \intersect Pairs(F))
  BY FS_Union, Zenon
<1>6. Cardinality(Pairs(E) \intersect Pairs(F)) = 0
  BY <1>2, <1>4, Zenon
<1>7. Cardinality(Pairs(E) \union Pairs(F)) = Cardinality(Pairs(E)) + Cardinality(Pairs(F))
  BY <1>3, <1>5, <1>6
<1> QED
  BY <1>1, <1>3, <1>5, <1>7, Zenon

(* The bytes of one position of a list are finitely many.                     *)
LEMMA OneRow ==
  ASSUME NEW n \in Nat, NEW i
  PROVE  IsFiniteSet({i} \X (1 .. n))
<1> DEFINE f == [k \in 1 .. n |-> <<i, k>>]
<1>1. f \in Surjection(1 .. n, {i} \X (1 .. n))
  <2>1. f \in [1 .. n -> {i} \X (1 .. n)]
    OBVIOUS
  <2>2. ASSUME NEW p \in {i} \X (1 .. n) PROVE \E k \in 1 .. n : f[k] = p
    <3>1. p = <<i, p[2]>> /\ p[2] \in 1 .. n
      OBVIOUS
    <3>2. f[p[2]] = p
      BY <3>1
    <3> QED
      BY <3>1, <3>2
  <2> HIDE DEF f
  <2> QED
    BY <2>1, <2>2 DEF Surjection
<1>2. IsFiniteSet(1 .. n)
  BY FS_Interval
<1> HIDE DEF f
<1> QED
  BY <1>1, <1>2, FS_Surjection

(* The bytes of a list, counted by position (SumOf), are those of its entries, *)
(* counted by URL, when no URL is there twice.                                *)
LEMMA SumIs ==
  ASSUME NEW s, OneUrl(s)
  PROVE  /\ Members(s) \in SUBSET Images!Entries /\ IsFiniteSet(Pairs(Members(s)))
         /\ Images!SumOf(s) = Cardinality(Pairs(Members(s)))
         /\ Images!SumOf(s) \in Nat
<1>1. s \in Seq(Images!Entries) /\ DOMAIN s = 1 .. Len(s) /\ Len(s) \in Nat
      /\ \A i, j \in 1 .. Len(s) : s[i].url = s[j].url => i = j
  BY DEF OneUrl
<1>2. \A i \in 1 .. Len(s) : s[i] \in Images!Entries
  BY <1>1
<1>3. \A i \in 1 .. Len(s) : s[i].size \in Nat
  BY <1>2 DEF Images!Entries
<1>4. Members(s) \in SUBSET Images!Entries
  BY <1>2 DEF Members
<1> DEFINE C == {{i} \X (1 .. s[i].size) : i \in 1 .. Len(s)}
           B == UNION C
           P == Pairs(Members(s))
<1>5. B = Images!BytesOf(s)
  BY <1>1 DEF Images!BytesOf
<1>6. IsFiniteSet(C)
  <2> DEFINE g == [i \in 1 .. Len(s) |-> {i} \X (1 .. s[i].size)]
  <2>1. g \in Surjection(1 .. Len(s), C)
    BY DEF Surjection
  <2>2. IsFiniteSet(1 .. Len(s))
    BY <1>1, FS_Interval
  <2> HIDE DEF g, C
  <2> QED
    BY <2>1, <2>2, FS_Surjection
<1>7. \A c \in C : IsFiniteSet(c)
  BY <1>3, OneRow
<1>8. IsFiniteSet(B)
  <2> HIDE DEF C
  <2> QED
    BY <1>6, <1>7, FS_UNION
<1>9. \A b : b \in B <=> \E i \in 1 .. Len(s), n \in Nat : n \in 1 .. s[i].size /\ b = <<i, n>>
  OBVIOUS
<1>10. \A p : p \in P <=> \E i \in 1 .. Len(s), n \in Nat : n \in 1 .. s[i].size /\ p = <<s[i].url, n>>
  BY DEF Pairs, Members
<1> DEFINE h == [b \in B |-> <<s[b[1]].url, b[2]>>]
<1> HIDE DEF B, P
<1>11. h \in Bijection(B, P)
  <2>1. ASSUME NEW b \in B PROVE h[b] \in P
    <3>1. PICK i \in 1 .. Len(s), n \in Nat : n \in 1 .. s[i].size /\ b = <<i, n>>
      BY <1>9
    <3>2. h[b] = <<s[i].url, n>>
      BY <3>1
    <3> QED
      BY <1>10, <3>1, <3>2
  <2>2. ASSUME NEW b \in B, NEW c \in B, h[b] = h[c] PROVE b = c
    <3>1. PICK i \in 1 .. Len(s), n \in Nat : n \in 1 .. s[i].size /\ b = <<i, n>>
      BY <1>9
    <3>2. PICK j \in 1 .. Len(s), k \in Nat : k \in 1 .. s[j].size /\ c = <<j, k>>
      BY <1>9
    <3>3. <<s[i].url, n>> = <<s[j].url, k>>
      BY <2>2, <3>1, <3>2
    <3> QED
      BY <1>1, <3>1, <3>2, <3>3
  <2>3. ASSUME NEW p \in P PROVE \E b \in B : h[b] = p
    <3>1. PICK i \in 1 .. Len(s), n \in Nat : n \in 1 .. s[i].size /\ p = <<s[i].url, n>>
      BY <1>10
    <3>2. <<i, n>> \in B
      BY <1>9, <3>1
    <3>3. h[<<i, n>>] = p
      BY <3>1, <3>2
    <3> QED
      BY <3>2, <3>3
  <2>4. h \in [B -> P]
    BY <2>1
  <2> HIDE DEF h
  <2> QED
    BY <2>2, <2>3, <2>4 DEF Bijection, Injection, Surjection, IsInjective
<1>12. IsFiniteSet(P) /\ Cardinality(P) = Cardinality(B)
  <2>1. ExistsBijection(B, P)
    BY <1>11 DEF ExistsBijection
  <2> QED
    BY <1>8, <2>1, FS_Bijection
<1>13. Images!SumOf(s) = Cardinality(B)
  BY <1>5, SameCount DEF Images!SumOf
<1>14. Cardinality(B) \in Nat
  BY <1>8, FS_CardinalityType
<1> QED
  BY <1>4, <1>12, <1>13, <1>14 DEF P

(* What is assumed of the constants of the image proxy.                       *)
LEMMA ImageConstants ==
  /\ Slots \in Nat \ {0} /\ Budget \in Nat /\ NegTTL \in Nat /\ MaxTime \in Nat
  /\ Sizes \subseteq Nat /\ None \notin URLs /\ None \notin Images!Entries
BY QueuesAssumption DEF Images!ImageProxyAssumption

(* The types of the image proxy, but for the list and the byte count.         *)
ImgTypes ==
  /\ iNow \in 0 .. MaxTime /\ im \in [URLs -> Images!Entries \union {None}]
  /\ ipc \in [Reqs -> Images!PCs] /\ url \in [Reqs -> URLs \union {None}]
  /\ since \in [Reqs -> 0 .. MaxTime]

(* The list has one entry of a URL and the map has the same.                  *)
ImgLists ==
  /\ OneUrl(ill)
  /\ \A e \in Members(ill) : im[e.url] = e
  /\ \A u \in URLs : im[u] # None => im[u] \in Members(ill) /\ im[u].url = u

(* A failure has no bytes, the bytes counted are those held, and more than the *)
(* budget only when a single image is left.                                   *)
ImgBytes ==
  /\ \A e \in Members(ill) : e.err => e.size = 0
  /\ bytes = Images!SumOf(ill)
  /\ bytes <= Budget \/ Len(ill) = 1

(* An entry is not older than the look of a request that still works on its URL: *)
(* that request found none.                                                   *)
ImgTimes ==
  /\ \A r \in Reqs : ipc[r] # "idle" => url[r] \in URLs /\ since[r] <= iNow
  /\ \A r \in Reqs : ipc[r] # "idle" /\ im[url[r]] # None => since[r] <= im[url[r]].at

(* The invariant of the image proxy.                                          *)
ImgInv == ImgTypes /\ ImgLists /\ ImgBytes /\ ImgTimes

(* The list without the element of a URL (Without).                           *)
LEMMA WithoutIs ==
  ASSUME ImgLists, NEW u \in URLs, im[u] # None
  PROVE  /\ OneUrl(Images!Without(u)) /\ Len(Images!Without(u)) = Len(ill) - 1
         /\ Members(Images!Without(u)) = Members(ill) \ {im[u]}
         /\ im[u] \in Members(ill) /\ im[u].url = u
         /\ \A x \in Members(ill) \ {im[u]} : x.url # u
<1>0. OneUrl(ill) /\ DOMAIN ill = 1 .. Len(ill) /\ im[u] \in Members(ill) /\ im[u].url = u
  BY DEF ImgLists, OneUrl
<1>1. \E k \in 1 .. Len(ill) : ill[k].url = u
  BY <1>0 DEF Members
<1>2. PICK k \in 1 .. Len(ill) : k = Images!Element(u) /\ ill[k].url = u
  BY <1>0, <1>1 DEF Images!Element
<1>3. Images!Without(u) = Cut(ill, k)
  BY <1>0, <1>2 DEF Images!Without, Images!RemoveAt, Cut
<1>4. ill[k] = im[u]
  <2>1. ill[k] \in Members(ill)
    BY SMTT(30) DEF Members
  <2> QED
    BY <1>2, <2>1 DEF ImgLists
<1>5. /\ OneUrl(Cut(ill, k)) /\ Len(Cut(ill, k)) = Len(ill) - 1
      /\ Members(Cut(ill, k)) = Members(ill) \ {ill[k]}
  BY <1>0, ImgCut
<1>6. \A x \in Members(ill) \ {im[u]} : x.url # u
  BY DEF ImgLists
<1> QED
  BY <1>0, <1>3, <1>4, <1>5, <1>6

(* An entry put before a list adds its size.                                  *)
LEMMA SumAdds ==
  ASSUME NEW s, OneUrl(s), NEW e \in Images!Entries, \A x \in Members(s) : x.url # e.url
  PROVE  Images!SumOf(<<e>> \o s) = Images!SumOf(s) + e.size
<1> DEFINE t == <<e>> \o s
<1>1. OneUrl(t) /\ Members(t) = Members(s) \union {e}
  BY ImgCons
<1> HIDE DEF t
<1>2. Images!SumOf(t) = Cardinality(Pairs(Members(s) \union {e}))
  BY <1>1, SumIs
<1>3. /\ Members(s) \in SUBSET Images!Entries /\ IsFiniteSet(Pairs(Members(s)))
      /\ Images!SumOf(s) = Cardinality(Pairs(Members(s)))
  BY SumIs
<1>4. IsFiniteSet(Pairs({e})) /\ Cardinality(Pairs({e})) = e.size /\ {e} \in SUBSET Images!Entries
  BY OneImage
<1>5. \A x \in Members(s), y \in {e} : x.url # y.url
  OBVIOUS
<1>6. Cardinality(Pairs(Members(s) \union {e})) = Cardinality(Pairs(Members(s))) + Cardinality(Pairs({e}))
  BY <1>3, <1>4, <1>5, PairsApart
<1> QED
  BY <1>2, <1>3, <1>4, <1>6 DEF t

(* The bytes of a list are those of its two parts.                            *)
LEMMA SumSplits ==
  ASSUME NEW s, OneUrl(s), NEW k \in 0 .. Len(s)
  PROVE  /\ Images!SumOf(s) = Images!SumOf(SubSeq(s, 1, k)) + Images!SumOf(SubSeq(s, k + 1, Len(s)))
         /\ Images!SumOf(SubSeq(s, 1, k)) \in Nat /\ Images!SumOf(SubSeq(s, k + 1, Len(s))) \in Nat
<1> DEFINE a == SubSeq(s, 1, k)
           b == SubSeq(s, k + 1, Len(s))
<1>1. /\ OneUrl(a) /\ OneUrl(b) /\ Members(s) = Members(a) \union Members(b)
      /\ \A x \in Members(a), y \in Members(b) : x.url # y.url
  BY ImgSplit
<1> HIDE DEF a, b
<1>2. /\ Members(a) \in SUBSET Images!Entries /\ IsFiniteSet(Pairs(Members(a)))
      /\ Images!SumOf(a) = Cardinality(Pairs(Members(a))) /\ Images!SumOf(a) \in Nat
  BY <1>1, SumIs
<1>3. /\ Members(b) \in SUBSET Images!Entries /\ IsFiniteSet(Pairs(Members(b)))
      /\ Images!SumOf(b) = Cardinality(Pairs(Members(b))) /\ Images!SumOf(b) \in Nat
  BY <1>1, SumIs
<1>4. Images!SumOf(s) = Cardinality(Pairs(Members(a) \union Members(b)))
  BY <1>1, SumIs
<1>5. Cardinality(Pairs(Members(a) \union Members(b)))
        = Cardinality(Pairs(Members(a))) + Cardinality(Pairs(Members(b)))
  BY <1>1, <1>2, <1>3, PairsApart
<1> QED
  BY <1>2, <1>3, <1>4, <1>5 DEF a, b

(* The order of a list does not change its bytes.                             *)
LEMMA SumOnMembers ==
  ASSUME NEW s, OneUrl(s), NEW t, OneUrl(t), Members(s) = Members(t)
  PROVE  Images!SumOf(s) = Images!SumOf(t)
BY SumIs

(* The list with an entry for a URL at the front in place of the one it had.  *)
LEMMA Front ==
  ASSUME ImgLists, NEW u \in URLs, im[u] # None, NEW e \in Images!Entries, e.url = u
  PROVE  /\ OneUrl(<<e>> \o Images!Without(u)) /\ Len(<<e>> \o Images!Without(u)) = Len(ill)
         /\ Members(<<e>> \o Images!Without(u)) = (Members(ill) \ {im[u]}) \union {e}
         /\ Images!SumOf(<<e>> \o Images!Without(u)) = Images!SumOf(Images!Without(u)) + e.size
<1> DEFINE w == Images!Without(u)
<1>1. /\ OneUrl(w) /\ Len(w) = Len(ill) - 1 /\ Members(w) = Members(ill) \ {im[u]}
      /\ \A x \in Members(w) : x.url # u
  BY WithoutIs
<1>0. Len(ill) \in Nat
  BY DEF ImgLists, OneUrl
<1> HIDE DEF w
<1>2. /\ OneUrl(<<e>> \o w) /\ Len(<<e>> \o w) = Len(w) + 1 /\ Members(<<e>> \o w) = Members(w) \union {e}
  BY <1>1, ImgCons
<1>3. Images!SumOf(<<e>> \o w) = Images!SumOf(w) + e.size
  BY <1>1, SumAdds
<1>4. Len(<<e>> \o w) = Len(ill)
  BY <1>0, <1>1, <1>2
<1> QED
  BY <1>1, <1>2, <1>3, <1>4 DEF w

(* The entry of a URL takes its size with it.                                 *)
LEMMA WithoutSum ==
  ASSUME ImgLists, NEW u \in URLs, im[u] # None, ImgTypes
  PROVE  Images!SumOf(ill) = Images!SumOf(Images!Without(u)) + im[u].size
<1>1. im[u] \in Images!Entries /\ im[u].url = u /\ im[u] \in Members(ill) /\ OneUrl(ill)
  BY DEF ImgTypes, ImgLists
<1> DEFINE t == <<im[u]>> \o Images!Without(u)
<1>2. OneUrl(t) /\ Members(t) = (Members(ill) \ {im[u]}) \union {im[u]}
  BY <1>1, Front
<1>3. Images!SumOf(t) = Images!SumOf(Images!Without(u)) + im[u].size
  BY <1>1, Front
<1> HIDE DEF t
<1>4. Members(t) = Members(ill)
  BY <1>1, <1>2
<1> QED
  BY <1>1, <1>2, <1>3, <1>4, SumOnMembers

(* What store keeps: list, map and byte count agree; an entry of the map stays, *)
(* goes, or is the new one of its URL.                                        *)
ImgStored(e) ==
  /\ ImgLists' /\ ImgBytes' /\ im' \in [URLs -> Images!Entries \union {None}]
  /\ \A u \in URLs : im'[u] = None \/ im'[u] = im[u] \/ (u = e.url /\ im'[u] = e)

(* store keeps that, whatever it evicts: there is a last entry to keep, since the *)
(* loop ends with one.                                                        *)
LEMMA Store ==
  ASSUME ImgTypes, ImgLists, ImgBytes, NEW e \in Images!Entries, e.err => e.size = 0, Images!store(e)
  PROVE  ImgStored(e)
<1> DEFINE w == IF im[e.url] = None THEN ill ELSE Images!Without(e.url)
           added == <<e>> \o w
           count == bytes - Images!Freed(e.url) + e.size
           Beyond(k) == Images!SumOf(SubSeq(added, k + 1, Len(added)))
           kept == CHOOSE k \in 1 .. Len(added) :
                     /\ k = 1 \/ count - Beyond(k) <= Budget
                     /\ \A j \in k + 1 .. Len(added) : count - Beyond(j) > Budget
           Gone(u) == \E i \in kept + 1 .. Len(added) : added[i].url = u
<1>1. /\ ill' = SubSeq(added, 1, kept)
      /\ im' = [u \in URLs |-> IF Gone(u) THEN None ELSE IF u = e.url THEN e ELSE im[u]]
      /\ bytes' = count - Beyond(kept)
  BY DEF Images!store
<1>2. e.url \in URLs /\ e.size \in Nat /\ Budget \in Nat /\ Len(ill) \in Nat
  BY ImageConstants DEF Images!Entries, ImgLists, OneUrl
<1>3. /\ OneUrl(added) /\ Len(added) \in Nat /\ Len(added) >= 1
      /\ Members(added) = {x \in Members(ill) : x.url # e.url} \union {e}
      /\ count = Images!SumOf(added)
  <2>1. CASE im[e.url] = None
    <3>1. \A x \in Members(ill) : x.url # e.url
      <4>1. \A x \in Members(ill) : x \in Images!Entries
        BY SumIs DEF ImgLists
      <4> QED
        BY <2>1, <4>1, ImageConstants DEF ImgLists
    <3>2. added = <<e>> \o ill /\ count = bytes + e.size
      <4>1. count = bytes - 0 + e.size
        BY <2>1 DEF Images!Freed
      <4>2. bytes \in Nat
        BY SumIs DEF ImgLists, ImgBytes
      <4> QED
        BY <1>2, <2>1, <4>1, <4>2
    <3>3. /\ OneUrl(<<e>> \o ill) /\ Len(<<e>> \o ill) = Len(ill) + 1
          /\ Members(<<e>> \o ill) = Members(ill) \union {e}
      BY <3>1, ImgCons DEF ImgLists
    <3>4. Images!SumOf(<<e>> \o ill) = Images!SumOf(ill) + e.size
      BY <3>1, SumAdds DEF ImgLists
    <3>5. Members(ill) = {x \in Members(ill) : x.url # e.url}
      BY <3>1
    <3> HIDE DEF added, count
    <3> QED
      BY <1>2, <3>2, <3>3, <3>4, <3>5 DEF ImgBytes
  <2>2. CASE im[e.url] # None
    <3>1. added = <<e>> \o Images!Without(e.url) /\ count = bytes - im[e.url].size + e.size
      BY <2>2 DEF Images!Freed
    <3>2. /\ OneUrl(<<e>> \o Images!Without(e.url)) /\ Len(<<e>> \o Images!Without(e.url)) = Len(ill)
          /\ Members(<<e>> \o Images!Without(e.url)) = (Members(ill) \ {im[e.url]}) \union {e}
          /\ Images!SumOf(<<e>> \o Images!Without(e.url)) = Images!SumOf(Images!Without(e.url)) + e.size
      BY <1>2, <2>2, Front
    <3>3. Images!SumOf(ill) = Images!SumOf(Images!Without(e.url)) + im[e.url].size
      BY <1>2, <2>2, WithoutSum
    <3>4. Images!SumOf(Images!Without(e.url)) \in Nat /\ im[e.url].size \in Nat
      <4>1. OneUrl(Images!Without(e.url))
        BY <1>2, <2>2, WithoutIs
      <4>2. im[e.url] \in Images!Entries
        BY <1>2, <2>2 DEF ImgTypes
      <4> QED
        BY <4>1, <4>2, SumIs DEF Images!Entries
    <3>5. Members(ill) \ {im[e.url]} = {x \in Members(ill) : x.url # e.url}
      BY <1>2, <2>2, WithoutIs
    <3>6. Len(ill) >= 1
      <4>1. \E x : x \in Members(ill)
        BY <1>2, <2>2, WithoutIs
      <4> QED
        BY <1>2, <4>1 DEF Members
    <3> HIDE DEF added, count
    <3> QED
      BY <1>2, <3>1, <3>2, <3>3, <3>4, <3>5, <3>6 DEF ImgBytes
  <2> QED
    BY <2>1, <2>2
<1> HIDE DEF added, count
<1>4. \A k \in 0 .. Len(added) : Beyond(k) \in Nat /\ count - Beyond(k) = Images!SumOf(SubSeq(added, 1, k))
  <2>1. ASSUME NEW k \in 0 .. Len(added)
        PROVE  /\ Images!SumOf(added) = Images!SumOf(SubSeq(added, 1, k)) + Beyond(k)
               /\ Images!SumOf(SubSeq(added, 1, k)) \in Nat /\ Beyond(k) \in Nat
    BY <1>3, SumSplits
  <2> HIDE DEF Beyond
  <2> QED
    BY <1>3, <2>1
<1> HIDE DEF Beyond
<1>5. /\ kept \in 1 .. Len(added)
      /\ kept = 1 \/ count - Beyond(kept) <= Budget
  <2> DEFINE T == {k \in 1 .. Len(added) : k = 1 \/ count - Beyond(k) <= Budget}
  <2>1. 1 \in T /\ T \in SUBSET (0 .. Len(added))
    BY <1>3
  <2>2. PICK k \in T : \A j \in T : j <= k
    <3> HIDE DEF T
    <3> QED
      BY <1>3, <2>1, GreatestOf
  <2>3. \A j \in k + 1 .. Len(added) : count - Beyond(j) > Budget
    <3> SUFFICES ASSUME NEW j \in k + 1 .. Len(added), ~(count - Beyond(j) > Budget) PROVE FALSE
      OBVIOUS
    <3>1. k \in 1 .. Len(added)
      BY <2>2
    <3>2. j \in 1 .. Len(added) /\ j > k
      BY <1>3, <3>1
    <3>3. count \in Int /\ Beyond(j) \in Int
      <4>1. Images!SumOf(added) \in Nat
        BY <1>3, SumIs
      <4>2. j \in 0 .. Len(added)
        BY <1>3, <3>2
      <4> QED
        BY <1>3, <1>4, <4>1, <4>2
    <3>4. j \in T
      BY <1>2, <3>2, <3>3
    <3>5. j <= k
      BY <2>2, <3>4
    <3> QED
      BY <1>3, <3>1, <3>2, <3>5
  <2>4. \E k_1 \in 1 .. Len(added) :
          /\ k_1 = 1 \/ count - Beyond(k_1) <= Budget
          /\ \A j \in k_1 + 1 .. Len(added) : count - Beyond(j) > Budget
    BY <2>2, <2>3
  <2> QED
    BY <2>4
<1> HIDE DEF kept
<1>6. kept \in 0 .. Len(added)
  BY <1>3, <1>5
<1> DEFINE a == SubSeq(added, 1, kept)
           b == SubSeq(added, kept + 1, Len(added))
<1>7. /\ OneUrl(a) /\ Len(a) = kept /\ Members(added) = Members(a) \union Members(b)
      /\ Members(b) = {added[i] : i \in kept + 1 .. Len(added)}
      /\ \A x \in Members(a), y \in Members(b) : x.url # y.url
  BY <1>3, <1>6, ImgSplit
<1>8. bytes' = Images!SumOf(a) /\ ill' = a
  BY <1>1, <1>4, <1>6
<1> HIDE DEF a, b
<1>9. \A u : Gone(u) <=> \E y \in Members(b) : y.url = u
  BY <1>7
<1> HIDE DEF Gone
<1>10. \A x \in Members(added) : x \in Images!Entries
  BY <1>3, SumIs
<1>11. \A x \in Members(a) : ~Gone(x.url) /\ x \in Members(added) /\ x.url \in URLs
  BY <1>7, <1>9, <1>10 DEF Images!Entries
<1>12. \A x \in Members(a) : im'[x.url] = x
  <2>1. ASSUME NEW x \in Members(a) PROVE im'[x.url] = x
    <3>1. im'[x.url] = IF x.url = e.url THEN e ELSE im[x.url]
      BY <1>1, <1>11
    <3>2. CASE x = e
      BY <3>1, <3>2
    <3>3. CASE x # e
      <4>1. x \in Members(ill) /\ x.url # e.url
        BY <1>3, <1>11, <3>3
      <4> QED
        BY <3>1, <4>1 DEF ImgLists
    <3> QED
      BY <3>2, <3>3
  <2> QED
    BY <2>1
<1>13. \A u \in URLs : im'[u] # None => im'[u] \in Members(a) /\ im'[u].url = u
  <2>1. ASSUME NEW u \in URLs, im'[u] # None PROVE im'[u] \in Members(a) /\ im'[u].url = u
    <3>1. ~Gone(u) /\ im'[u] = IF u = e.url THEN e ELSE im[u]
      BY <1>1, <2>1
    <3>2. im'[u] \in Members(added) /\ im'[u].url = u
      <4>1. CASE u = e.url
        BY <1>3, <3>1, <4>1
      <4>2. CASE u # e.url
        <5>1. im[u] # None /\ im'[u] = im[u]
          BY <2>1, <3>1, <4>2
        <5> QED
          BY <1>3, <4>2, <5>1 DEF ImgLists
      <4> QED
        BY <4>1, <4>2
    <3>3. im'[u] \notin Members(b)
      BY <1>9, <3>1, <3>2
    <3> QED
      BY <1>7, <3>2, <3>3
  <2> QED
    BY <2>1
<1>14. ImgLists'
  BY <1>7, <1>8, <1>12, <1>13 DEF ImgLists
<1>15. ImgBytes'
  <2>1. \A x \in Members(a) : x.err => x.size = 0
    BY <1>3, <1>11 DEF ImgBytes
  <2>2. bytes' <= Budget \/ Len(a) = 1
    BY <1>1, <1>5, <1>7
  <2> QED
    BY <1>8, <2>1, <2>2 DEF ImgBytes
<1>16. im' \in [URLs -> Images!Entries \union {None}]
  BY <1>1 DEF ImgTypes
<1>17. \A u \in URLs : im'[u] = None \/ im'[u] = im[u] \/ (u = e.url /\ im'[u] = e)
  BY <1>1
<1> QED
  BY <1>14, <1>15, <1>16, <1>17 DEF ImgStored

(* The invariant makes the types right, the cache coherent and the bytes exact. *)
LEMMA ImgFound ==
  ASSUME ImgInv
  PROVE  Images!TypeOK /\ Images!Coherent /\ Images!BytesExact
<1> USE DEF ImgInv
<1>1. ill \in Seq(Images!Entries) /\ DOMAIN ill = 1 .. Len(ill)
      /\ \A i, j \in 1 .. Len(ill) : ill[i].url = ill[j].url => i = j
  BY DEF ImgLists, OneUrl
<1>2. Images!ToSet(ill) = Members(ill)
  BY <1>1 DEF Images!ToSet, Members
<1>3. bytes \in Nat
  BY SumIs DEF ImgLists, ImgBytes
<1>4. Images!TypeOK
  BY <1>1, <1>3 DEF Images!TypeOK, ImgTypes
<1>5. Images!Coherent
  BY <1>1, <1>2 DEF Images!Coherent, ImgLists, Members
<1>6. Images!BytesExact
  BY DEF Images!BytesExact, ImgBytes
<1> QED
  BY <1>4, <1>5, <1>6

(* The invariant holds when the server starts.                                *)
LEMMA ImgInit ==
  ASSUME Images!Init
  PROVE  ImgInv
<1>1. ImgTypes /\ ImgTimes
  BY ImageConstants DEF Images!Init, ImgTypes, ImgTimes, Images!PCs
<1>2. OneUrl(ill) /\ Members(ill) = {}
  BY DEF Images!Init, OneUrl, Members
<1>3. ImgLists
  BY <1>2 DEF Images!Init, ImgLists
<1>4. ImgBytes
  <2>1. Pairs({}) = {}
    BY DEF Pairs
  <2>2. Cardinality(Pairs(Members(ill))) = 0
    BY <1>2, <2>1, FS_EmptySet
  <2>3. Images!SumOf(ill) = 0
    BY <1>2, <2>2, SumIs
  <2> QED
    BY <1>2, <2>3, ImageConstants DEF Images!Init, ImgBytes
<1> QED
  BY <1>1, <1>3, <1>4 DEF ImgInv

(* What GoodKept says of a step.                                              *)
GoodStep ==
  \A u \in URLs :
    (im[u] # None /\ ~im[u].err /\ im'[u] # None /\ im'[u].err) =>
      \E r \in Reqs : url[r] = u /\ url'[r] = None /\ since[r] <= im[u].at

(* What a step of the image proxy must keep.                                  *)
ImgWanted == ImgInv' /\ GoodStep

(* A step that leaves list, map and byte count alone keeps them.              *)
LEMMA ImgKept ==
  ASSUME ImgLists, ImgBytes, UNCHANGED <<ill, im, bytes>>
  PROVE  ImgLists' /\ ImgBytes' /\ GoodStep
BY DEF ImgLists, ImgBytes, OneUrl, Members, GoodStep, Images!SumOf, Images!BytesOf

(* A step that only moves one request, which stays away or becomes idle.      *)
LEMMA ImgMoves ==
  ASSUME ImgInv, NEW r \in Reqs, NEW p \in Images!PCs, ipc[r] # "idle" \/ p = "idle",
         UNCHANGED <<iNow, ill, im, bytes>>, ipc' = [ipc EXCEPT ![r] = p],
         \/ UNCHANGED <<url, since>>
         \/ p = "idle" /\ url' = [url EXCEPT ![r] = None] /\ since' = [since EXCEPT ![r] = 0]
  PROVE  ImgWanted
<1> USE DEF ImgInv
<1>1. ImgLists' /\ ImgBytes' /\ GoodStep
  BY ImgKept
<1>2. ImgTypes'
  BY ImageConstants DEF ImgTypes
<1>3. \A q \in Reqs : ipc'[q] # "idle" => ipc[q] # "idle" /\ url'[q] = url[q] /\ since'[q] = since[q]
  BY DEF ImgTypes
<1>4. ImgTimes'
  BY <1>3 DEF ImgTimes
<1> QED
  BY <1>1, <1>2, <1>4 DEF ImgWanted

(* A request that looks and finds nothing is not younger than any entry of its *)
(* URL, since there is none.                                                  *)
LEMMA ImgLooks ==
  ASSUME ImgInv, NEW r \in Reqs, NEW u \in URLs, Images!Look(r, u), iNow' = iNow,
         im'[u] = None, \A v \in URLs : im'[v] = im[v] \/ im'[v] = None,
         im' \in [URLs -> Images!Entries \union {None}]
  PROVE  ImgTypes' /\ ImgTimes'
<1> USE DEF ImgInv
<1>1. /\ ipc' = [ipc EXCEPT ![r] = "limit"] /\ url' = [url EXCEPT ![r] = u]
      /\ since' = [since EXCEPT ![r] = iNow]
  BY DEF Images!Look, Images!Become
<1>2. ImgTypes'
  BY <1>1 DEF ImgTypes, Images!PCs
<1>3. /\ ipc'[r] = "limit" /\ url'[r] = u /\ since'[r] = iNow
      /\ \A q \in Reqs : q # r => ipc'[q] = ipc[q] /\ url'[q] = url[q] /\ since'[q] = since[q]
  BY <1>1 DEF ImgTypes
<1>4. ImgTimes'
  <2>1. ASSUME NEW q \in Reqs, ipc'[q] # "idle" PROVE url'[q] \in URLs /\ since'[q] <= iNow'
    BY <1>3, <2>1, ImageConstants DEF ImgTimes, ImgTypes
  <2>2. ASSUME NEW q \in Reqs, ipc'[q] # "idle", im'[url'[q]] # None PROVE since'[q] <= im'[url'[q]].at
    <3>1. q # r
      BY <1>3, <2>2
    <3>2. ipc[q] # "idle" /\ url'[q] = url[q] /\ since'[q] = since[q] /\ url[q] \in URLs
      BY <1>3, <2>2, <3>1 DEF ImgTimes
    <3>3. im'[url[q]] = im[url[q]] /\ im[url[q]] # None
      BY <2>2, <3>2
    <3> QED
      BY <3>2, <3>3 DEF ImgTimes
  <2> QED
    BY <2>1, <2>2 DEF ImgTimes
<1> QED
  BY <1>2, <1>4

(* A request that stores an image or a failure, and is done.                  *)
LEMMA ImgStores ==
  ASSUME ImgInv, NEW r \in Reqs, ipc[r] # "idle", NEW e \in Images!Entries, Images!store(e),
         e.err => e.size = 0, e.url = url[r], e.at = iNow, Images!Drop(r), iNow' = iNow
  PROVE  ImgWanted
<1> USE DEF ImgInv
<1>1. ImgStored(e)
  BY Store
<1>2. /\ ipc' = [ipc EXCEPT ![r] = "idle"] /\ url' = [url EXCEPT ![r] = None]
      /\ since' = [since EXCEPT ![r] = 0]
  BY DEF Images!Drop, Images!Become
<1>3. ImgTypes'
  BY <1>1, <1>2, ImageConstants DEF ImgTypes, ImgStored, Images!PCs
<1>4. /\ ipc'[r] = "idle" /\ url'[r] = None
      /\ \A q \in Reqs : q # r => ipc'[q] = ipc[q] /\ url'[q] = url[q] /\ since'[q] = since[q]
  BY <1>2 DEF ImgTypes
<1>5. ImgTimes'
  <2>1. ASSUME NEW q \in Reqs, ipc'[q] # "idle"
        PROVE  /\ ipc[q] # "idle" /\ url'[q] = url[q] /\ since'[q] = since[q]
               /\ url[q] \in URLs /\ since[q] <= iNow
    BY <1>4, <2>1 DEF ImgTimes
  <2>2. ASSUME NEW q \in Reqs, ipc'[q] # "idle", im'[url'[q]] # None PROVE since'[q] <= im'[url'[q]].at
    <3>1. \/ im'[url[q]] = im[url[q]]
          \/ im'[url[q]] = e
      BY <1>1, <2>1, <2>2 DEF ImgStored
    <3> QED
      BY <2>1, <2>2, <3>1 DEF ImgTimes
  <2> QED
    BY <2>1, <2>2 DEF ImgTimes
<1>6. GoodStep
  <2> SUFFICES ASSUME NEW u \in URLs, im[u] # None, ~im[u].err, im'[u] # None, im'[u].err
               PROVE  \E q \in Reqs : url[q] = u /\ url'[q] = None /\ since[q] <= im[u].at
    BY DEF GoodStep
  <2>1. u = e.url
    BY <1>1 DEF ImgStored
  <2>2. since[r] <= im[u].at
    BY <2>1 DEF ImgTimes
  <2> QED
    BY <1>4, <2>1, <2>2
<1> QED
  BY <1>1, <1>3, <1>5, <1>6 DEF ImgWanted, ImgStored

(* Every step of the image proxy does.                                        *)
LEMMA ImgStep ==
  ASSUME ImgInv, [Images!Next]_images
  PROVE  ImgWanted
<1> USE DEF ImgInv
<1>1. CASE Images!Tick
  <2>1. ImgLists' /\ ImgBytes' /\ GoodStep
    BY <1>1, ImgKept DEF Images!Tick
  <2>2. ImgTypes' /\ ImgTimes'
    BY <1>1, ImageConstants DEF Images!Tick, ImgTypes, ImgTimes
  <2> QED
    BY <2>1, <2>2 DEF ImgWanted
<1>2. ASSUME NEW r \in Reqs, NEW u \in URLs, Images!Hit(r, u) PROVE ImgWanted
  <2>1. /\ UNCHANGED <<iNow, im, bytes, ipc, url, since>> /\ im[u] # None
        /\ ill' = <<im[u]>> \o Images!Without(u)
    BY <1>2 DEF Images!Hit
  <2>2. im[u] \in Images!Entries /\ im[u].url = u /\ im[u] \in Members(ill) /\ OneUrl(ill)
    BY <2>1 DEF ImgTypes, ImgLists
  <2> DEFINE t == <<im[u]>> \o Images!Without(u)
  <2>3. OneUrl(t) /\ Len(t) = Len(ill) /\ Members(t) = (Members(ill) \ {im[u]}) \union {im[u]}
    BY <2>1, <2>2, Front
  <2>4. ill' = t
    BY <2>1
  <2> HIDE DEF t
  <2>5. Members(t) = Members(ill)
    BY <2>2, <2>3
  <2>6. Images!SumOf(t) = Images!SumOf(ill)
    BY <2>2, <2>3, <2>5, SumOnMembers
  <2>7. Images!SumOf(ill)' = Images!SumOf(t)
    BY <2>4 DEF Images!SumOf, Images!BytesOf
  <2>8. Members(ill)' = Members(t) /\ OneUrl(ill)'
    BY <2>3, <2>4 DEF Members, OneUrl
  <2>9. ImgLists'
    BY <2>1, <2>5, <2>8 DEF ImgLists
  <2>10. ImgBytes'
    BY <2>1, <2>3, <2>4, <2>5, <2>6, <2>7, <2>8 DEF ImgBytes
  <2>11. ImgTypes' /\ ImgTimes' /\ GoodStep
    BY <2>1 DEF ImgTypes, ImgTimes, GoodStep
  <2> QED
    BY <2>9, <2>10, <2>11 DEF ImgWanted
<1>3. ASSUME NEW r \in Reqs, NEW u \in URLs, Images!Lapse(r, u) PROVE ImgWanted
  <2>1. /\ iNow' = iNow /\ bytes' = bytes /\ im[u] # None /\ im[u].err
        /\ ill' = Images!Without(u) /\ im' = [im EXCEPT ![u] = None] /\ Images!Look(r, u)
    BY <1>3 DEF Images!Lapse, Images!Expired
  <2> DEFINE w == Images!Without(u)
  <2>2. /\ OneUrl(w) /\ Len(w) = Len(ill) - 1 /\ Members(w) = Members(ill) \ {im[u]}
        /\ im[u] \in Members(ill) /\ \A x \in Members(ill) \ {im[u]} : x.url # u
    BY <2>1, WithoutIs
  <2>3. Images!SumOf(ill) = Images!SumOf(w) + im[u].size
    BY <2>1, WithoutSum
  <2>4. ill' = w
    BY <2>1
  <2> HIDE DEF w
  <2>5. Images!SumOf(ill)' = Images!SumOf(w) /\ Members(ill)' = Members(w) /\ OneUrl(ill)'
    BY <2>2, <2>4 DEF Images!SumOf, Images!BytesOf, Members, OneUrl
  <2>6. /\ im' \in [URLs -> Images!Entries \union {None}] /\ im'[u] = None
        /\ \A v \in URLs : v # u => im'[v] = im[v]
    BY <2>1 DEF ImgTypes
  <2>7. \A x \in Members(w) : x \in Images!Entries
    BY <2>2, SumIs
  <2>8. ImgLists'
    <3>1. \A x \in Members(w) : im'[x.url] = x
      <4>1. \A x \in Members(w) : x.url \in URLs /\ x.url # u /\ im[x.url] = x
        BY <2>2, <2>7 DEF ImgLists, Images!Entries
      <4> QED
        BY <2>6, <4>1
    <3>2. \A v \in URLs : im'[v] # None => im'[v] \in Members(w) /\ im'[v].url = v
      <4>1. ASSUME NEW v \in URLs, im'[v] # None PROVE im'[v] \in Members(w) /\ im'[v].url = v
        <5>1. v # u /\ im'[v] = im[v]
          BY <2>6, <4>1
        <5>2. im[v] \in Members(ill) /\ im[v].url = v
          BY <4>1, <5>1 DEF ImgLists
        <5>3. im[u].url = u
          BY <2>1 DEF ImgLists
        <5> QED
          BY <2>2, <5>1, <5>2, <5>3
      <4> QED
        BY <4>1
    <3> QED
      BY <2>5, <3>1, <3>2 DEF ImgLists
  <2>9. ImgBytes'
    <3>1. im[u].size = 0
      BY <2>1, <2>2 DEF ImgBytes
    <3>2. Images!SumOf(w) \in Nat
      BY <2>2, SumIs
    <3>3. bytes' = Images!SumOf(w)
      BY <2>1, <2>3, <3>1, <3>2 DEF ImgBytes
    <3>4. Len(ill) = 1 => bytes' <= Budget
      <4>1. ASSUME Len(ill) = 1 PROVE Members(w) = {}
        <5>1. Len(w) = 0
          BY <2>2, <4>1
        <5> QED
          BY <5>1 DEF Members
      <4>2. Pairs({}) = {}
        BY DEF Pairs
      <4>3. ASSUME Len(ill) = 1 PROVE Images!SumOf(w) = 0
        <5>1. Images!SumOf(w) = Cardinality({})
          BY <2>2, <4>1, <4>2, <4>3, SumIs
        <5> QED
          BY <5>1, FS_EmptySet
      <4> QED
        BY <3>3, <4>3, ImageConstants
    <3>5. bytes' <= Budget
      BY <2>1, <3>4 DEF ImgBytes
    <3> QED
      BY <2>2, <2>5, <3>3, <3>5 DEF ImgBytes
  <2>10. ImgTypes' /\ ImgTimes'
    BY <2>1, <2>6, ImgLooks
  <2>11. GoodStep
    BY <2>6 DEF GoodStep
  <2> QED
    BY <2>8, <2>9, <2>10, <2>11 DEF ImgWanted
<1>4. ASSUME NEW r \in Reqs, NEW u \in URLs, Images!Miss(r, u) PROVE ImgWanted
  <2>1. UNCHANGED <<iNow, ill, im, bytes>> /\ im[u] = None /\ Images!Look(r, u)
    BY <1>4 DEF Images!Miss
  <2>2. ImgLists' /\ ImgBytes' /\ GoodStep
    BY <2>1, ImgKept
  <2>3. ImgTypes' /\ ImgTimes'
    BY <2>1, ImgLooks DEF ImgTypes
  <2> QED
    BY <2>2, <2>3 DEF ImgWanted
<1>5. ASSUME NEW r \in Reqs, Images!Allowed(r) PROVE ImgWanted
  BY <1>5, ImgMoves DEF Images!Allowed, Images!Become, Images!PCs
<1>6. ASSUME NEW r \in Reqs, Images!Limited(r) PROVE ImgWanted
  BY <1>6, ImgMoves DEF Images!Limited, Images!Drop, Images!Become, Images!PCs
<1>7. ASSUME NEW r \in Reqs, Images!Enter(r) PROVE ImgWanted
  BY <1>7, ImgMoves DEF Images!Enter, Images!Become, Images!PCs
<1>8. ASSUME NEW r \in Reqs, Images!Leave(r) PROVE ImgWanted
  BY <1>8, ImgMoves DEF Images!Leave, Images!Drop, Images!Become, Images!PCs
<1>9. ASSUME NEW r \in Reqs, Images!Received(r) PROVE ImgWanted
  BY <1>9, ImgMoves DEF Images!Received, Images!Become, Images!PCs
<1>10. ASSUME NEW r \in Reqs, Images!Decode(r) PROVE ImgWanted
  BY <1>10, ImgMoves DEF Images!Decode, Images!Become, Images!PCs
<1>11. ASSUME NEW r \in Reqs, Images!Succeed(r) PROVE ImgWanted
  <2>1. PICK n \in Sizes : Images!store([url |-> url[r], size |-> n, err |-> FALSE, at |-> iNow])
    BY <1>11 DEF Images!Succeed
  <2>2. ipc[r] # "idle" /\ Images!Drop(r) /\ iNow' = iNow
    BY <1>11 DEF Images!Succeed
  <2>3. url[r] \in URLs
    BY <2>2 DEF ImgTimes
  <2> DEFINE e == [url |-> url[r], size |-> n, err |-> FALSE, at |-> iNow]
  <2>4. e \in Images!Entries /\ e.url = url[r] /\ e.at = iNow /\ ~e.err
    BY <2>3, ImageConstants DEF Images!Entries, ImgTypes
  <2>5. Images!store(e)
    BY <2>1
  <2> HIDE DEF e
  <2> QED
    BY <2>2, <2>4, <2>5, ImgStores
<1>12. ASSUME NEW r \in Reqs, Images!Fail(r) PROVE ImgWanted
  <2> DEFINE e == [url |-> url[r], size |-> 0, err |-> TRUE, at |-> iNow]
  <2>1. ipc[r] # "idle" /\ Images!Drop(r) /\ iNow' = iNow /\ Images!store(e)
    BY <1>12 DEF Images!Fail
  <2>2. url[r] \in URLs
    BY <2>1 DEF ImgTimes
  <2>3. e \in Images!Entries /\ e.url = url[r] /\ e.at = iNow /\ e.size = 0
    BY <2>2, ImageConstants DEF Images!Entries, ImgTypes
  <2> HIDE DEF e
  <2> QED
    BY <2>1, <2>3, ImgStores
<1>13. CASE UNCHANGED images
  <2>1. UNCHANGED <<ill, im, bytes>> /\ UNCHANGED <<iNow, ipc, url, since>>
    BY <1>13 DEF images
  <2>2. ImgLists' /\ ImgBytes' /\ GoodStep
    BY <2>1, ImgKept
  <2>3. ImgTypes' /\ ImgTimes'
    BY <2>1 DEF ImgTypes, ImgTimes
  <2> QED
    BY <2>2, <2>3 DEF ImgWanted
<1> QED
  BY <1>1, <1>2, <1>3, <1>4, <1>5, <1>6, <1>7, <1>8, <1>9, <1>10, <1>11, <1>12, <1>13
  DEF Images!Next, Images!Begin, Images!Go

(* List and map of the images hold the same entries, each URL once; the bytes *)
(* counted are those held, within the budget unless one image is left; and a  *)
(* good image is replaced by a failure only of a request that looked before   *)
(* the image was stored (cached, store, get).                                 *)
THEOREM ImagesStaySound == MCSpec => ImagesSound
<1>1. MCInit => ImgInv
  BY ImgInit DEF MCInit
<1>2. ImgInv /\ [MCNext]_<<vars, others>> => ImgInv'
  <2> SUFFICES ASSUME ImgInv, [MCNext]_<<vars, others>> PROVE ImgInv'
    OBVIOUS
  <2>1. [Images!Next]_images
    BY DEF MCNext, others
  <2> QED
    BY <2>1, ImgStep DEF ImgWanted
<1>3. ImgInv => Images!Coherent /\ Images!BytesExact
  BY ImgFound
<1>4. ImgInv /\ [MCNext]_<<vars, others>> => [GoodStep]_images
  <2> SUFFICES ASSUME ImgInv, [MCNext]_<<vars, others>> PROVE GoodStep
    OBVIOUS
  <2>1. [Images!Next]_images
    BY DEF MCNext, others
  <2> QED
    BY <2>1, ImgStep DEF ImgWanted
<1>5. Images!GoodKept <=> [][GoodStep]_images
  BY DEF Images!GoodKept, GoodStep, Images!vars, images
<1> QED
  BY <1>1, <1>2, <1>3, <1>4, <1>5, PTL DEF MCSpec, ImagesSound

------------------------------------------------------------------------------
(* The parts beside each other (MCQueues).                                    *)

(* The three parts keep their types, whichever of them takes the steps.       *)
THEOREM QueuesTyped == MCSpec => []MCTypeOK
<1> DEFINE Inv == ReloadInv /\ GeoInv /\ ImgInv
<1>1. MCInit => Inv
  BY FrozenInit, GeoInit, ImgInit DEF MCInit
<1>2. Inv /\ [MCNext]_<<vars, others>> => Inv'
  <2> SUFFICES ASSUME Inv, [MCNext]_<<vars, others>> PROVE Inv'
    OBVIOUS
  <2>1. [Next]_vars /\ [Geo!Next]_geo /\ [Images!Next]_images
    BY DEF MCNext, others
  <2> QED
    BY <2>1, ReloadStep, GeoStep, ImgStep DEF GeoWanted, ImgWanted
<1>3. Inv => MCTypeOK
  BY GeoFound, ImgFound DEF MCTypeOK, ReloadInv
<1> HIDE DEF Inv
<1> QED
  BY <1>1, <1>2, <1>3, PTL DEF MCSpec
==============================================================================
