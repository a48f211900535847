------------------------------ MODULE DaraProc ------------------------------
(***************************************************************************)
(* The vocabulary of the shared-memory channel (procchan) between the      *)
(* global scheduler (scheduler.go) and the local scheduler that the        *)
(* instrumented Go runtime runs in every process.  The runtime itself is   *)
(* not in this repository: its side of the protocol is modelled from how   *)
(* scheduler.go uses the channel.                                          *)
(***************************************************************************)
EXTENDS Integers

CONSTANT
  \* @source scheduler.go, flag "procs": the number of processes
  N

ASSUME NAssumption == N \in Nat \ {0}

\* Dara has no process 0: slot 0 of procchan is allocated and never scheduled.
Procs == 1 .. N

(***************************************************************************)
(* The values of procchan[p].Run that scheduler.go writes or compares.     *)
(* ROUTINE stands for every value >= 0: the runtime scheduled a goroutine. *)
(***************************************************************************)
IDLE     == -1     \* waiting for the first instruction
RECORD   == -3     \* run one goroutine and log its events
KILL     == -4     \* marked for death
EXECUTE  == -5     \* run the goroutine in RunningRoutine
BLOCKED  == -6     \* waiting for the network, lock given back
WOKEN    == -7     \* the network wait is over, wants the lock
ROUTINE  == 1
FINISHED == -100   \* the process has ended

RunValues == {IDLE, RECORD, KILL, EXECUTE, BLOCKED, WOKEN, ROUTINE, FINISHED}

\* The two values of the spin lock procchan[p].Lock.
LockValues == {"LOCKED", "UNLOCKED"}

\* The two values of ProcStatus.
Statuses == {"ALIVE", "DEAD"}

\* The process that follows q in round-robin order (process 0 is skipped).
Successor(q, d) == ((q + d - 1) % N) + 1

(***************************************************************************)
(* roundRobin(): starting after LastProc, the first process that is alive. *)
(***************************************************************************)
IsRoundRobin(p, LastProc, procStatus) ==
  \E d \in 1 .. N :
    /\ p = Successor(LastProc, d)
    /\ procStatus[p] = "ALIVE"
    /\ \A e \in 1 .. d - 1 : procStatus[Successor(LastProc, e)] = "DEAD"

\* CheckAllProcsDead()
AllProcsDead(procStatus) == \A p \in Procs : procStatus[p] = "DEAD"
=============================================================================
