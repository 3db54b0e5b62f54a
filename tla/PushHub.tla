------------------------------- MODULE PushHub -------------------------------
(* Web Push (push.go): the subscriptions, the watcher that runs every minute  *)
(* and turns new alerts into messages, and the file <snapshot>.push.json in   *)
(* which savePushState keeps both.  The watcher and every subscribe or        *)
(* unsubscribe request run concurrently; each of them may be inside           *)
(* savePushState, whose file steps are outside the hub's mutex.  The process  *)
(* can stop at any step: nothing saves the push state on the way out.         *)
(* An alert is one entry of the Burgernet feed (its ID); an endpoint is what  *)
(* a push service gave one device for one VAPID key.                          *)
EXTENDS Integers, Sequences, SequencesExt, FiniteSets

CONSTANTS
  Devices,    \* browsers that visit the dashboard
  Alerts,     \* alert IDs the feed will ever list
  Keys,       \* VAPID keys the administrator may configure
  MaxSubs,    \* push.max_subscriptions
  MaxStarts,  \* bound: how often the process is started
  Persist,    \* is cache.snapshot_path set?
  None, Torn, Empty, Watcher

Endpoints == [dev : Devices, key : Keys]
Images    == [subs : Seq(Endpoints), seen : SUBSET Alerts, init : BOOLEAN]

ASSUME PushHubAssumption ==
  /\ MaxSubs \in Nat \ {0} /\ MaxStarts \in Nat \ {0} /\ Persist \in BOOLEAN
  /\ IsFiniteSet(Devices) /\ IsFiniteSet(Keys) /\ Keys # {} /\ Watcher \notin Devices
  /\ \A x \in {None, Torn, Empty} : x \notin Images
  /\ None \notin Endpoints /\ None \notin {"on", "off", "tmp", "disk"}
  /\ None # Torn /\ None # Empty /\ Torn # Empty

VARIABLES
  \* the process
  up, starts, vkey, subs, seen, init, dirty, store, watch, saver,
  \* the disk, the configuration file, the feed, the browsers
  disk, tmp, fileKey, phase, page,
  \* history: what the devices were told, what they were sent in this start, and the
  \* alerts whose POST to a device failed in this run of the watcher
  acked, sent, failed

hub     == <<vkey, subs, seen, init, dirty>>
files   == <<disk, tmp>>
posts   == <<sent, failed>>
history == <<acked, posts>>
world   == <<fileKey, phase, page>>
vars    == <<up, starts, hub, store, watch, saver, files, world, history>>

Savers    == Devices \union {Watcher}
Image     == [subs |-> subs, seen |-> seen, init |-> init]
Blank     == [subs |-> <<>>, seen |-> {}, init |-> FALSE]
Idle      == [pc |-> "idle", op |-> None, img |-> Blank, file |-> None]
NoneSent  == [a \in Alerts |-> [d \in Devices |-> 0]]
Resting   == [pc |-> "idle", first |-> FALSE, msgs |-> {}, cur |-> None, todo |-> {}]

TypeOK ==
  /\ up \in BOOLEAN /\ starts \in 1 .. MaxStarts /\ vkey \in Keys /\ fileKey \in Keys
  /\ Image \in Images /\ dirty \in BOOLEAN
  /\ Len(subs) <= MaxSubs /\ IsInjective(subs)
  /\ store \in (SUBSET Alerts) \union {None}
  /\ watch \in [pc : {"idle", "collect", "send", "save"}, first : BOOLEAN, msgs : SUBSET Alerts,
                cur : Alerts \union {None}, todo : SUBSET Endpoints]
  /\ saver \in [Savers -> [pc : {"idle", "lock", "open", "write", "rename"}, img : Images,
                           op : {"on", "off", "watch", None}, file : {"tmp", "disk", "gone", None}]]
  /\ disk \in Images \union {None, Torn, Empty} /\ tmp \in Images \union {None, Torn, Empty}
  /\ phase \in [Alerts -> {"new", "listed", "over"}]
  /\ page \in [Devices -> Endpoints \union {None}]
  /\ acked \in [Devices -> {"on", "off", None}]
  /\ sent \in [Alerts -> [Devices -> Nat]]
  /\ failed \subseteq Alerts \X Devices

Init ==
  /\ up = TRUE /\ starts = 1
  /\ fileKey \in Keys /\ vkey = fileKey
  /\ subs = <<>> /\ seen = {} /\ init = FALSE /\ dirty = FALSE
  /\ store = None /\ watch = Resting /\ saver = [p \in Savers |-> Idle]
  /\ disk = None /\ tmp = None
  /\ phase \in [Alerts -> {"new", "listed"}] /\ page = [d \in Devices |-> None]
  /\ acked = [d \in Devices |-> None]
  /\ sent = NoneSent /\ failed = {}

\* The hub has an endpoint once (it is the key of a map).
Without(s, e) == RemoveFirst(s, e)

-----------------------------------------------------------------------------
(* The feed and the scheduler job that fetches it.                           *)

\* The police list an alert, and take it off the list again; IDs are not reused.
AlertChanges(a) ==
  /\ \/ phase[a] = "new"    /\ phase' = [phase EXCEPT ![a] = "listed"]
     \/ phase[a] = "listed" /\ phase' = [phase EXCEPT ![a] = "over"]
  /\ UNCHANGED <<up, starts, hub, store, watch, saver, files, fileKey, page, history>>

\* A failed fetch keeps the last data (stateStore.fail).
FetchAlerts ==
  /\ up
  /\ store' = {a \in Alerts : phase[a] = "listed"}
  /\ UNCHANGED <<up, starts, hub, watch, saver, files, world, history>>

-----------------------------------------------------------------------------
(* runPushWatch: two critical sections with slow requests between them, then  *)
(* one broadcast per message, then savePushState.                             *)

Listed == IF store = None THEN {} ELSE store

\* Mutant of WatchStart: an alert is only recorded once its message went out.
WatchStartUnmarked ==
  /\ up /\ watch.pc = "idle"
  /\ watch' = [watch EXCEPT !.pc = "collect", !.first = ~init,
                            !.msgs = IF init THEN Listed \ seen ELSE {}]
  /\ seen' = IF init THEN seen ELSE seen \union Listed
  /\ UNCHANGED <<up, starts, vkey, subs, init, dirty, store, saver, files, world, history>>

WatchStart ==
  /\ up /\ watch.pc = "idle"
  /\ watch' = [watch EXCEPT !.pc = "collect", !.first = ~init,
                            !.msgs = IF init THEN Listed \ seen ELSE {}]
  /\ seen' = seen \union Listed
  /\ UNCHANGED <<up, starts, vkey, subs, init, dirty, store, saver, files, world, history>>

WatchInit ==
  /\ up /\ watch.pc = "collect"
  /\ init' = TRUE /\ dirty' = TRUE
  /\ watch' = [watch EXCEPT !.pc = "send"]
  /\ UNCHANGED <<up, starts, vkey, subs, seen, store, saver, files, world, history>>

\* Mutant of Broadcast: it leaves out the device that registered first.
BroadcastSkipsOne(a) ==
  /\ up /\ watch.pc = "send" /\ watch.todo = {} /\ a \in watch.msgs
  /\ watch' = [watch EXCEPT !.msgs = @ \ {a}, !.cur = a, !.todo = {subs[i] : i \in 2 .. Len(subs)}]
  /\ UNCHANGED <<up, starts, hub, store, saver, files, world, history>>

\* broadcast takes its targets under the mutex and sends without it.
Broadcast(a) ==
  /\ up /\ watch.pc = "send" /\ watch.todo = {} /\ a \in watch.msgs
  /\ watch' = [watch EXCEPT !.msgs = @ \ {a}, !.cur = a, !.todo = ToSet(subs)]
  /\ UNCHANGED <<up, starts, hub, store, saver, files, world, history>>

\* One POST to a push service.  It can deliver when the browser still holds the
\* endpoint and the endpoint is bound to the key that signs; it can answer 404 or 410
\* when the browser dropped the endpoint.  Every other outcome (a refusal, a server
\* error, no answer in time) is only logged: the device stays, and nothing is posted
\* again, for the alert is in seen already.
SendOne(e) ==
  /\ up /\ watch.pc = "send" /\ e \in watch.todo
  /\ watch' = [watch EXCEPT !.todo = @ \ {e}]
  /\ \/ /\ page[e.dev] = e /\ e.key = vkey
        /\ sent' = [sent EXCEPT ![watch.cur][e.dev] = @ + 1]
        /\ UNCHANGED <<subs, dirty, failed>>
     \/ /\ page[e.dev] # e
        /\ subs' = Without(subs, e) /\ dirty' = TRUE
        /\ UNCHANGED <<sent, failed>>
     \/ /\ failed' = IF page[e.dev] = e THEN failed \union {<<watch.cur, e.dev>>} ELSE failed
        /\ UNCHANGED <<subs, dirty, sent>>
  /\ UNCHANGED <<up, starts, vkey, seen, init, store, saver, files, world, acked>>

WatchSave ==
  /\ up /\ watch.pc = "send" /\ watch.todo = {} /\ watch.msgs = {}
  /\ watch' = [watch EXCEPT !.pc = "save", !.cur = None]
  /\ saver' = [saver EXCEPT ![Watcher] = [Idle EXCEPT !.pc = "lock", !.op = "watch"]]
  /\ failed' = {}
  /\ UNCHANGED <<up, starts, hub, store, files, world, acked, sent>>

-----------------------------------------------------------------------------
(* The page and the request handlers.                                        *)

\* subs is ordered by Seen: a full hub drops the device seen longest ago.
Registered(e) ==
  LET room == IF e \notin ToSet(subs) /\ Len(subs) >= MaxSubs THEN Tail(subs) ELSE subs
  IN  Append(Without(room, e), e)

\* The page turns notifications on (a new browser subscription when it has none
\* for this key), or re-sends the one it has, as it does on every visit.
Subscribe(d) ==
  /\ up /\ saver[d].pc = "idle"
  /\ \E e \in {[dev |-> d, key |-> vkey]} \union ({page[d]} \ {None}) :
       /\ page' = [page EXCEPT ![d] = e]
       /\ subs' = Registered(e)
  /\ dirty' = TRUE
  /\ saver' = [saver EXCEPT ![d] = [Idle EXCEPT !.pc = "lock", !.op = "on"]]
  /\ acked' = [acked EXCEPT ![d] = None]
  /\ UNCHANGED <<up, starts, vkey, seen, init, store, watch, files, fileKey, phase, posts>>

Unsubscribe(d) ==
  /\ up /\ saver[d].pc = "idle" /\ page[d] # None
  /\ subs' = Without(subs, page[d])
  /\ dirty' = (dirty \/ page[d] \in ToSet(subs))
  /\ saver' = [saver EXCEPT ![d] = [Idle EXCEPT !.pc = "lock", !.op = "off"]]
  /\ acked' = [acked EXCEPT ![d] = None]
  /\ UNCHANGED <<up, starts, vkey, seen, init, store, watch, files, world, posts>>

\* The browser drops its subscription without the server: the POST of pushOff is
\* lost, or the user clears the site's data.
PageForgets(d) ==
  /\ saver[d].pc = "idle" /\ page[d] # None
  /\ page' = [page EXCEPT ![d] = None]
  /\ acked' = [acked EXCEPT ![d] = None]
  /\ UNCHANGED <<up, starts, hub, store, watch, saver, files, fileKey, phase, posts>>

-----------------------------------------------------------------------------
(* savePushState, in the watcher and in the handlers, one file step at a time. *)

\* p leaves savePushState: the handler answers, the watcher's run is over.
Answer(p) ==
  /\ acked' = IF p = Watcher THEN acked ELSE [acked EXCEPT ![p] = saver[p].op]
  /\ page'  = IF saver[p].op = "off" THEN [page EXCEPT ![p] = None] ELSE page
  /\ watch' = IF p = Watcher THEN Resting ELSE watch

\* The first part runs under the mutex: without a path or a change it is all.
SaveLock(p) ==
  /\ up /\ saver[p].pc = "lock"
  /\ IF Persist /\ dirty
       THEN /\ saver' = [saver EXCEPT ![p].pc = "open", ![p].img = Image]
            /\ dirty' = FALSE
            /\ UNCHANGED <<acked, page, watch>>
       ELSE /\ saver' = [saver EXCEPT ![p] = Idle]
            /\ Answer(p)
            /\ UNCHANGED dirty
  /\ UNCHANGED <<up, starts, vkey, subs, seen, init, store, files, fileKey, phase, posts>>

\* os.WriteFile opens <path>.push.json.tmp, the same name for every saver, and
\* truncates it; then it writes at its own offset 0.
SaveOpen(p) ==
  /\ up /\ saver[p].pc = "open"
  /\ tmp' = Empty
  /\ saver' = [saver EXCEPT ![p].pc = "write", ![p].file = "tmp"]
  /\ UNCHANGED <<up, starts, hub, store, watch, disk, world, history>>

Size(img) == Len(img.subs) + Cardinality(img.seen)

\* What a file holds after img is written over it: the tail of a longer image stays.
Overwritten(old, img) ==
  IF old # Empty /\ (old = Torn \/ Size(old) > Size(img)) THEN Torn ELSE img

SaveWrite(p) ==
  /\ up /\ saver[p].pc = "write"
  /\ tmp'  = IF saver[p].file = "tmp"  THEN Overwritten(tmp, saver[p].img)  ELSE tmp
  /\ disk' = IF saver[p].file = "disk" THEN Overwritten(disk, saver[p].img) ELSE disk
  /\ saver' = [saver EXCEPT ![p].pc = "rename"]
  /\ UNCHANGED <<up, starts, hub, store, watch, world, history>>

\* os.Rename replaces the file by whatever <path>.push.json.tmp names now; a name that
\* is gone is an error, logged only.  Files that are open follow their inode.
SaveRename(p) ==
  LET follow(f) == CASE f = "tmp" -> "disk" [] f = "disk" -> "gone" [] OTHER -> f
      moved == [q \in Savers |-> [saver[q] EXCEPT !.file = follow(@)]]
  IN  /\ up /\ saver[p].pc = "rename"
      /\ IF tmp = None
           THEN saver' = [saver EXCEPT ![p] = Idle] /\ UNCHANGED files
           ELSE /\ saver' = [moved EXCEPT ![p] = Idle]
                /\ disk' = tmp /\ tmp' = None
      /\ Answer(p)
      /\ UNCHANGED <<up, starts, hub, store, fileKey, phase, posts>>

-----------------------------------------------------------------------------
(* The process stops and starts; the administrator changes the key.          *)

\* A request under way gets no answer; pushOff drops the subscription anyway.
Stop ==
  /\ up /\ starts < MaxStarts
  /\ up' = FALSE
  /\ page' = [d \in Devices |-> IF saver[d].op = "off" THEN None ELSE page[d]]
  /\ saver' = [p \in Savers |-> Idle] /\ watch' = Resting
  /\ subs' = <<>> /\ seen' = {} /\ init' = FALSE /\ dirty' = FALSE /\ store' = None
  /\ sent' = NoneSent /\ failed' = {}
  /\ UNCHANGED <<starts, vkey, files, fileKey, phase, acked>>

\* Mutant of Start: only the watcher's memory is restored.
StartForgetful ==
  /\ ~up
  /\ up' = TRUE /\ starts' = starts + 1
  /\ vkey' = fileKey
  /\ LET saved == IF Persist /\ disk \notin {None, Torn, Empty} THEN disk ELSE Blank
     IN  subs' = <<>> /\ seen' = saved.seen /\ init' = saved.init
  /\ UNCHANGED <<dirty, store, watch, saver, files, world, history>>

\* applyConfig installs the key, then loadPushState reads the file if it can.
Start ==
  /\ ~up
  /\ up' = TRUE /\ starts' = starts + 1
  /\ vkey' = fileKey
  /\ LET saved == IF Persist /\ disk \notin {None, Torn, Empty} THEN disk ELSE Blank
     IN  subs' = saved.subs /\ seen' = saved.seen /\ init' = saved.init
  /\ UNCHANGED <<dirty, store, watch, saver, files, world, history>>

ChangeKey(k) ==
  /\ fileKey # k
  /\ fileKey' = k
  /\ UNCHANGED <<up, starts, hub, store, watch, saver, files, phase, page, history>>

\* A configuration reload: setKey drops the subscriptions of the old key.
ReloadKey ==
  /\ up /\ vkey # fileKey
  /\ vkey' = fileKey /\ subs' = <<>>
  /\ UNCHANGED <<up, starts, seen, init, dirty, store, watch, saver, files, world, history>>

-----------------------------------------------------------------------------
Watch == WatchStart \/ WatchInit \/ (\E a \in Alerts : Broadcast(a))
           \/ (\E e \in Endpoints : SendOne(e)) \/ WatchSave
Save(p) == SaveLock(p) \/ SaveOpen(p) \/ SaveWrite(p) \/ SaveRename(p)

Next ==
  \/ \E a \in Alerts : AlertChanges(a)
  \/ FetchAlerts
  \/ Watch
  \/ \E d \in Devices : Subscribe(d) \/ Unsubscribe(d) \/ PageForgets(d)
  \/ \E p \in Savers : Save(p)
  \/ Stop \/ Start
  \/ \E k \in Keys : ChangeKey(k)
  \/ ReloadKey

Spec == Init /\ [][Next]_vars

\* The scheduler runs the watcher again and again, and a goroutine that can step
\* does: the watcher, and every save, goes on.
Fairness == WF_vars(Watch) /\ \A p \in Savers : WF_vars(Save(p))
FairSpec == Spec /\ Fairness

\* The steps of the same program when no two saves overlap: requests seconds apart, as
\* when a single visitor uses the dashboard between two runs of the watcher.
Apart ==
  \A p \in Savers : saver[p].pc = "lock" /\ saver'[p].pc # "lock" /\ up'
                      => \A q \in Savers : saver[q].pc \notin {"open", "write", "rename"}

KeysOf(s) == {e.key : e \in ToSet(s)}
\* k is not the key of an endpoint in the hub, of one it is sending to, or of a browser's.
NewLive(k) ==
  /\ k \notin KeysOf(subs) /\ \A e \in watch.todo : e.key # k
  /\ \A d \in Devices : page[d] # None => page[d].key # k
\* Nor of one in the file, or in what is being saved.
NewSaved(k) ==
  /\ \A p \in Savers : k \notin KeysOf(saver[p].img.subs)
  /\ disk \notin {None, Torn, Empty} => k \notin KeysOf(disk.subs)

\* The steps in which a changed key is a new one, or the one still installed: the
\* administrator generates a key, and does not return to one devices were told.
NewKey == fileKey' \in {fileKey, vkey} \/ (NewLive(fileKey') /\ NewSaved(fileKey'))

-----------------------------------------------------------------------------
(* Within one start of the server no alert reaches a device twice, however     *)
(* often the feed lists it, the hub is changed by requests and by a new key    *)
(* between two messages, and POSTs fail: an alert is marked before its         *)
(* messages go out, and the targets are taken once (runPushWatch, broadcast).  *)
OncePerStart == \A a \in Alerts, d \in Devices : sent[a][d] <= 1

(* When nothing waits to be saved and no save is under way, the file is the    *)
(* state of the hub: savePushState clears dirty before it writes, and nobody  *)
(* overtakes it.  Only setKey changes the hub without marking it: what the    *)
(* file has besides the hub is then of a key that is gone.                    *)
Quiet   == up /\ ~dirty /\ watch.pc = "idle" /\ \A p \in Savers : saver[p].pc = "idle"
Settled ==
  Persist /\ Quiet =>
    \/ disk = Image \/ (disk = None /\ Image = Blank)
    \/ subs = <<>> /\ disk = [Image EXCEPT !.subs = disk.subs] /\ vkey \notin KeysOf(disk.subs)

(* A device that was told its notifications are on, and still holds the        *)
(* endpoint, of the key that signs now, is in the hub whenever the server     *)
(* runs, restarts included (README: with a snapshot path the subscriptions    *)
(* are kept), as long as there is room for every endpoint.                    *)
KeptOn ==
  Persist /\ up /\ Cardinality(Endpoints) <= MaxSubs =>
    \A d \in Devices :
      acked[d] = "on" /\ page[d].key = vkey => page[d] \in ToSet(subs)

(* A device that was told its notifications are off is not in the hub, nor     *)
(* does a restart bring it back with an endpoint that can be signed for       *)
(* (README: turning notifications off removes the subscription).              *)
OffStaysOff ==
  \A d \in Devices : acked[d] = "off" => [dev |-> d, key |-> vkey] \notin ToSet(subs)

(* What the hub told a device survives: the three above, and the hub and its   *)
(* file are well formed (savePushState, loadPushState, the handlers).          *)
Durable == TypeOK /\ Settled /\ KeptOn /\ OffStaysOff

(* An alert the watcher's second or later run finds in the feed is posted to   *)
(* every device in the hub: the device leaves, the browser drops the          *)
(* endpoint, the key changes, the message goes out, or the one POST of it to   *)
(* this device fails.  No alert is passed over without a POST; one whose POST  *)
(* fails is lost to that device.                                               *)
EveryAlertPushed ==
  \A a \in Alerts, d \in Devices :
    LET e == [dev |-> d, key |-> vkey]
    IN  (up /\ init /\ a \in Listed \ seen /\ page[d] = e /\ e \in ToSet(subs))
          ~> (~up \/ sent[a][d] > 0 \/ <<a, d>> \in failed \/ a \notin Listed \/ page[d] # e \/ e \notin ToSet(subs))
=============================================================================
