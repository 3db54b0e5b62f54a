---------------------------- MODULE ConfigReload ----------------------------
(* How config.yaml becomes the active configuration (main.go: run, reload,    *)
(* watchConfig).  The file is read first and its modification time is taken   *)
(* afterwards, at startup as on every reload; an editor can write in between. *)
(* The file is the number of times it was written, which is also its          *)
(* modification time; valid says which of these versions parse and validate.  *)
EXTENDS Integers

CONSTANT MaxWrites   \* bound: how often the file is written

ASSUME ConfigReloadAssumption == MaxWrites \in Nat \ {0}

VARIABLES
  file,    \* the version on disk
  valid,   \* the versions that are valid
  cfg,     \* the active version (a.cfg)
  cfgMod,  \* the modification time the server remembers (a.cfgMod)
  hup,     \* a SIGHUP waits in the channel of capacity 1
  pc,      \* where the one goroutine is: run, then watchConfig
  read     \* the version it has read

vars == <<file, valid, cfg, cfgMod, hup, pc, read>>

Versions == 0 .. MaxWrites
NoVersion == -1

TypeOK ==
  /\ file \in Versions /\ valid \in SUBSET Versions
  /\ cfg \in valid \union {NoVersion} /\ cfgMod \in Versions \union {NoVersion}
  /\ hup \in BOOLEAN
  /\ pc \in {"start", "wait", "load", "stat", "apply", "ended"}
  /\ read \in valid \union {NoVersion}

Init ==
  /\ file = 0 /\ valid \in {v \in SUBSET Versions : 0 \in v}
  /\ cfg = NoVersion /\ cfgMod = NoVersion /\ hup = FALSE
  /\ pc = "start" /\ read = NoVersion

\* The administrator saves the file.
Write ==
  /\ file < MaxWrites
  /\ file' = file + 1
  /\ UNCHANGED <<valid, cfg, cfgMod, hup, pc, read>>

\* systemctl reload; before watchConfig listens, the signal would end the process.
Hangup ==
  /\ cfg # NoVersion
  /\ hup' = TRUE
  /\ UNCHANGED <<file, valid, cfg, cfgMod, pc, read>>

TakeHangup ==
  /\ pc = "wait" /\ hup
  /\ hup' = FALSE /\ pc' = "load"
  /\ UNCHANGED <<file, valid, cfg, cfgMod, read>>

\* Every 60 s: has the modification time changed?
Tick ==
  /\ pc = "wait" /\ file # cfgMod
  /\ pc' = "load"
  /\ UNCHANGED <<file, valid, cfg, cfgMod, hup, read>>

\* Mutant of Load: a file that does not validate is used all the same.
LoadAnything ==
  /\ pc \in {"start", "load"}
  /\ read' = file /\ pc' = "stat"
  /\ UNCHANGED <<file, valid, cfg, cfgMod, hup>>

\* loadConfig.  A rejected file leaves everything as it is, and its time is not
\* remembered; at startup it ends the process.
Load ==
  /\ pc \in {"start", "load"}
  /\ \/ file \in valid /\ read' = file /\ pc' = "stat"
     \/ file \notin valid /\ pc' = (IF pc = "start" THEN "ended" ELSE "wait") /\ UNCHANGED read
  /\ UNCHANGED <<file, valid, cfg, cfgMod, hup>>

Stat ==
  /\ pc = "stat"
  /\ cfgMod' = file /\ pc' = "apply"
  /\ UNCHANGED <<file, valid, cfg, hup, read>>

\* Mutant of Apply: the reload also forgets a signal that came meanwhile.
ApplyDrains ==
  /\ pc = "apply"
  /\ cfg' = read /\ pc' = "wait" /\ hup' = FALSE
  /\ UNCHANGED <<file, valid, cfgMod, read>>

Apply ==
  /\ pc = "apply"
  /\ cfg' = read /\ pc' = "wait"
  /\ UNCHANGED <<file, valid, cfgMod, hup, read>>

Server == TakeHangup \/ Tick \/ Load \/ Stat \/ Apply
Next   == Write \/ Hangup \/ Server

Spec == Init /\ [][Next]_vars

\* The goroutine goes on; a select with two ready cases takes each in the end.
Fairness == WF_vars(Server) /\ SF_vars(TakeHangup)
FairSpec == Spec /\ Fairness

-----------------------------------------------------------------------------
(* Once the server has started, its active configuration is a version that     *)
(* validates, and it never goes back to an earlier one (README: an invalid    *)
(* file is rejected and the previous configuration stays active).             *)
OnlyForward == [][cfg' # cfg => cfg' \in valid /\ cfg' > cfg]_vars

(* SIGHUP re-reads the file: the version on disk becomes active, unless it is  *)
(* invalid or replaced before that, also when the signal comes in the middle  *)
(* of another reload.                                                         *)
HangupApplies ==
  \A v \in Versions : (hup /\ file = v /\ v \in valid) ~> (cfg >= v \/ file # v)
=============================================================================
