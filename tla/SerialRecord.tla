---------------------------- MODULE SerialRecord ----------------------------
(***************************************************************************)
(* What recording promises beyond Serial: whenever events are taken, one   *)
(* report is made, and it is tied to the last of them.  A process that has *)
(* ended with goroutines alive is the last one that runs; when its events  *)
(* are taken, there are only reports of nothing.                           *)
(***************************************************************************)
EXTENDS Serial

VARIABLES
  reports,  \* for every batch, the index of its last event (from 0)
  lingers   \* the last process to run has ended and left goroutines

absvars == <<serialvars, reports, lingers>>

AbsInit == SerialInit /\ reports = <<>> /\ lingers = FALSE

ProcessRecorded ==
  /\ ~ lingers /\ lingers' \in BOOLEAN
  /\ \E p \in Procs : ProcessRuns(p)
  /\ UNCHANGED reports

BatchRecorded ==
  /\ BatchTaken
  /\ reports' = Append(reports, Len(taken) + Len(pending) - 1)
  /\ UNCHANGED lingers

EmptyReport ==
  /\ lingers /\ pending = <<>>
  /\ reports' = Append(reports, Len(taken) - 1)
  /\ UNCHANGED <<serialvars, lingers>>

AbsNext == ProcessRecorded \/ BatchRecorded \/ EmptyReport

AbsSpec == AbsInit /\ [][AbsNext]_absvars
=============================================================================
