------------------------------- MODULE Serial -------------------------------
(***************************************************************************)
(* What recording, replay and exploration have in common, without locks    *)
(* and command words: one process at a time runs and leaves events behind; *)
(* they are taken, all of them at once and each exactly once, before any   *)
(* other process runs.  An exploration begins anew when nothing is left to *)
(* be taken.                                                               *)
(***************************************************************************)
EXTENDS Integers, Sequences

CONSTANT Procs

VARIABLES
  taken,     \* the events the scheduler has taken
  pending    \* events of the running process that it has not taken yet

serialvars == <<taken, pending>>

SerialInit == taken = <<>> /\ pending = <<>>

\* Process p runs: one or more events of p are added to p's pending ones.
ProcessRuns(p) ==
  /\ Len(pending') > Len(pending)
  /\ SubSeq(pending', 1, Len(pending)) = pending
  /\ \A j \in DOMAIN pending' : pending'[j].P = p
  /\ UNCHANGED taken

\* The scheduler takes everything that is pending.
BatchTaken ==
  /\ pending # <<>>
  /\ taken' = taken \o pending
  /\ pending' = <<>>

NewRun == pending = <<>> /\ taken' = <<>> /\ UNCHANGED pending

SerialNext == BatchTaken \/ \E p \in Procs : ProcessRuns(p)

\* One run, and one run after the other.
SerialSpec == SerialInit /\ [][SerialNext]_serialvars
SerialRuns == SerialInit /\ [][SerialNext \/ NewRun]_serialvars
=============================================================================
