------------------------------ MODULE MCCaches -------------------------------
(* A cache of the panel handlers that is too small for its keys, and the push  *)
(* hub during one start without a state file, each on a small instance: which  *)
(* says whose steps a behaviour takes.                                         *)
EXTENDS TTLCache

CONSTANTS d1, d2, p1, p2, Torn, Empty, Watcher

VARIABLES
  which,
  up, starts, vkey, subs, seen, init, dirty, store, watch, saver,   \* PushHub
  disk, tmp, fileKey, phase, page, acked, sent, failed

push == <<up, starts, vkey, subs, seen, init, dirty, store, watch, saver,
          disk, tmp, fileKey, phase, page, acked, sent, failed>>

Push == INSTANCE PushHub WITH
  Devices <- {d1, d2}, Alerts <- {"alert"}, Keys <- {p1, p2},
  MaxSubs <- 1, MaxStarts <- 1, Persist <- FALSE

MCInit ==
  /\ which \in {"cache", "push"}
  /\ Init /\ Push!Init
  /\ which = "cache" => fileKey = p1 /\ phase = [a \in {"alert"} |-> "new"]

MCNext ==
  \/ which = "cache" /\ Next      /\ UNCHANGED <<push, which>>
  \/ which = "push"  /\ Push!Next /\ UNCHANGED <<vars, which>>

MCvars == <<vars, push, which>>

\* The fairness of both, for the one whose steps are taken.
MCSpec ==
  /\ MCInit /\ [][MCNext]_MCvars
  /\ Fairness
  /\ WF_MCvars(which = "push" /\ Push!Watch /\ UNCHANGED <<vars, which>>)
  /\ \A p \in {d1, d2, Watcher} :
       WF_MCvars(which = "push" /\ Push!Save(p) /\ UNCHANGED <<vars, which>>)

(* An alert reaches a device at most once, also when the key changes and the   *)
(* hub is full; every device that stays has it posted, and only a POST that    *)
(* fails loses it; the hub never holds more than its limit (runPushWatch,      *)
(* broadcast, handlePushSubscribe).                                            *)
AlertsReachAll == [](Push!OncePerStart /\ Push!TypeOK) /\ Push!EveryAlertPushed
=============================================================================
