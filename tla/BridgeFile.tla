----------------------------- MODULE BridgeFile -----------------------------
(* How what BridgeStore remembers gets into its file (bridges.go              *)
(* saveBridgeState, loadBridgeState): under the mutex the map is copied and    *)
(* dirty is cleared; the copy is written to a temporary file, which then       *)
(* replaces the old one.  Both the traffic job and the plan job do this, with  *)
(* one name for the temporary file.                                            *)
EXTENDS Integers, FiniteSets

CONSTANTS
  Jobs,        \* the jobs that change and save
  NoFile,      \* no file, nothing copied
  Partial,     \* a file that is being written
  MaxChanges   \* bound of the model

BridgeFileAssumption == MaxChanges \in Nat /\ Partial \notin 0 .. MaxChanges

VARIABLES
  mem,      \* what is in memory: how often it was changed
  dirty,
  pc,       \* where each job is
  copy,     \* what it saves
  tmp,      \* the temporary file
  disk,     \* the file
  failed,   \* history: a write failed after which no change was copied
  met       \* history: two jobs have saved at the same time

vars == <<mem, dirty, pc, copy, tmp, disk, failed, met>>

Versions == 0 .. MaxChanges

TypeOK ==
  /\ mem \in Versions /\ dirty \in BOOLEAN
  /\ pc \in [Jobs -> {"idle", "save", "write", "fill", "rename"}]
  /\ copy \in [Jobs -> Versions]
  /\ tmp \in Versions \union {NoFile, Partial}
  /\ disk \in Versions \union {Partial}
  /\ failed \in BOOLEAN /\ met \in BOOLEAN

Init ==
  /\ mem = 0 /\ dirty = FALSE
  /\ pc = [j \in Jobs |-> "idle"] /\ copy = [j \in Jobs |-> 0]
  /\ tmp = NoFile /\ disk = 0
  /\ failed = FALSE /\ met = FALSE

Become(j, p) == pc' = [pc EXCEPT ![j] = p]
Writing(j)   == pc[j] \in {"write", "fill", "rename"}

\* A run of a job, with or without something new, and then its save.
Change(j) ==
  /\ pc[j] = "idle" /\ Become(j, "save")
  /\ \/ mem < MaxChanges /\ mem' = mem + 1 /\ dirty' = TRUE
     \/ UNCHANGED <<mem, dirty>>
  /\ UNCHANGED <<copy, tmp, disk, failed, met>>

Nothing(j) ==
  /\ pc[j] = "save" /\ ~dirty /\ Become(j, "idle")
  /\ UNCHANGED <<mem, dirty, copy, tmp, disk, failed, met>>

\* Mutant of Copy: dirty is cleared by the next save.
CopyBefore(j) ==
  /\ pc[j] = "save" /\ dirty /\ Become(j, "write")
  /\ copy' = [copy EXCEPT ![j] = IF mem > 0 THEN mem - 1 ELSE mem] /\ dirty' = FALSE
  /\ failed' = FALSE
  /\ met' = (met \/ \E k \in Jobs : Writing(k))
  /\ UNCHANGED <<mem, tmp, disk>>

Copy(j) ==
  /\ pc[j] = "save" /\ dirty /\ Become(j, "write")
  /\ copy' = [copy EXCEPT ![j] = mem] /\ dirty' = FALSE
  /\ failed' = FALSE
  /\ met' = (met \/ \E k \in Jobs : Writing(k))
  /\ UNCHANGED <<mem, tmp, disk>>

\* os.WriteFile empties the file before it writes.
Truncate(j) ==
  /\ pc[j] = "write" /\ Become(j, "fill")
  /\ tmp' = Partial
  /\ UNCHANGED <<mem, dirty, copy, disk, failed, met>>

Fill(j) ==
  /\ pc[j] = "fill" /\ Become(j, "rename")
  /\ tmp' = copy[j]
  /\ UNCHANGED <<mem, dirty, copy, disk, failed, met>>

Rename(j) ==
  /\ pc[j] = "rename" /\ Become(j, "idle") /\ tmp # NoFile
  /\ disk' = tmp /\ tmp' = NoFile
  /\ UNCHANGED <<mem, dirty, copy, failed, met>>

\* Writing or renaming fails.
Fails(j) ==
  /\ Writing(j) /\ Become(j, "idle")
  /\ failed' = TRUE
  /\ UNCHANGED <<mem, dirty, copy, tmp, disk, met>>

\* The process starts anew and reads the file; half a file is as good as an empty one.
Restart ==
  /\ pc' = [j \in Jobs |-> "idle"] /\ dirty' = FALSE
  /\ mem' = IF disk \in Versions THEN disk ELSE 0
  /\ disk' = mem'
  /\ failed' = FALSE /\ met' = FALSE
  /\ UNCHANGED <<copy, tmp>>

Next == Restart \/ \E j \in Jobs :
  Change(j) \/ Nothing(j) \/ Copy(j) \/ Truncate(j) \/ Fill(j) \/ Rename(j) \/ Fails(j)

Spec == Init /\ [][Next]_vars

-----------------------------------------------------------------------------
(* What is not in the file is dirty or being written, so that the next save    *)
(* brings the file up to date (saveBridgeState).  A write that fails and two   *)
(* jobs that save at the same time are the exceptions: the file then lags      *)
(* until the next change.                                                      *)
NothingUnsaved ==
  failed \/ met \/ disk = mem \/ dirty \/ \E j \in Jobs : Writing(j) /\ copy[j] = mem

(* Unless two jobs save at the same time, the file is complete at every moment *)
(* (the temporary file and its rename), also when the process stops.           *)
NeverHalf == met \/ disk # Partial
=============================================================================
