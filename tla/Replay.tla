------------------------------- MODULE Replay -------------------------------
(***************************************************************************)
(* Replaying a recorded schedule: the event-by-event path of               *)
(* replaySchedule (scheduler.go), running against the local schedulers.    *)
(*                                                                         *)
(* For every event that is due the scheduler names the goroutine that made *)
(* it, lets its process run and waits until the process is idle again.     *)
(* lockStatus is set to true at the start and never changed here, so from  *)
(* the second event of a process on the scheduler writes to the channel    *)
(* without holding its lock: each of its stores is a step of its own.      *)
(***************************************************************************)
EXTENDS DaraProc, Sequences, FiniteSetsExt

CONSTANTS
  Schedules,   \* the schedules that may be given to replay
  GoRoutines,  \* goroutine ids
  MaxBatch     \* bound: events logged by a goroutine nobody asked for

\* Process P and goroutine G made the event, the n-th of turn batch; timer
\* says that G runs runtime.timerproc.  Turns are numbered from 1.
ReplayEvent == [P : Procs, G : GoRoutines, batch : Nat \ {0}, n : Nat,
                timer : BOOLEAN]

\* The events of a turn follow each other and are made by one goroutine.
IsSchedule(s) ==
  /\ s \in Seq(ReplayEvent)
  /\ \A j, k \in DOMAIN s :
       /\ j < k => s[j].batch <= s[k].batch
       /\ s[j].batch = s[k].batch => [s[j] EXCEPT !.n = 0] = [s[k] EXCEPT !.n = 0]

ASSUME ReplayAssumption ==
  /\ \A s \in Schedules : IsSchedule(s)
  /\ MaxBatch \in Nat \ {0}

VARIABLES
  (* the global scheduler *)
  LogEvents,   \* the schedule, which replaySchedule only reads
  LogOff,      \* DARA_LOG_LEVEL is OFF
  pc, i, procStatus, lockStatus,
  (* shared memory *)
  Lock, Run, RunningRoutine, Log,
  (* the local schedulers (external) *)
  lpc, routine,
  started,   \* started[p]: the goroutines of p are in shared memory
  turn,      \* turn[p]: the last recorded turn that p has gone through
  (* history *)
  raced,     \* some process ran another goroutine than that of the event due
  consumed, executed, skipped

fixed == <<LogEvents, LogOff, lockStatus>>
scheduler == <<pc, i, procStatus, fixed>>
local == <<lpc, routine, started, turn, executed, raced>>
vars == <<scheduler, Lock, Run, RunningRoutine, Log, local, consumed, skipped>>

-----------------------------------------------------------------------------
\* The turns that p still has to go through: those left out do not happen.
TurnsLeft(p) ==
  {LogEvents[j].batch : j \in {k \in DOMAIN LogEvents \ skipped :
                          LogEvents[k].P = p /\ LogEvents[k].batch > turn[p]}}

EventsOf(b) ==
  LET at == {j \in DOMAIN LogEvents : LogEvents[j].batch = b}
  IN  SubSeq(LogEvents, Min(at), Max(at))

\* What p does in turn b.
Goroutine(b) == EventsOf(b)[1].G
IsTimerTurn(b) == EventsOf(b)[1].timer

\* Goroutine g makes the next turn of p, turn b.
IsTurnOf(p, g, b) ==
  /\ b \in TurnsLeft(p)
  /\ Goroutine(b) = g
  /\ \A c \in TurnsLeft(p) : b <= c

\* GetAllRunnableRoutines(e): the runnable goroutines of e.P.  A process that
\* has not started has none.  The goroutine that ran next when recording is
\* runnable now; the timer thread may be, and after a wrong turn anything may.
RunnableSets(p) ==
  {R \in SUBSET GoRoutines :
     IF ~ started[p] THEN R = {}
     ELSE /\ R # {}
          /\ \/ raced
             \/ \A b \in TurnsLeft(p) :
                  \/ IsTimerTurn(b) \/ Goroutine(b) \in R
                  \/ \E c \in TurnsLeft(p) : c < b /\ ~ IsTimerTurn(c)}

-----------------------------------------------------------------------------
Init ==
  /\ LogEvents \in Schedules
  /\ LogOff \in BOOLEAN
  /\ pc = "loop" /\ i = 1
  /\ procStatus = [p \in Procs |-> "ALIVE"]
  /\ lockStatus = [p \in Procs |-> TRUE]
  /\ Lock = [p \in Procs |-> "LOCKED"]
  /\ Run = [p \in Procs |-> IDLE]
  /\ RunningRoutine = [p \in Procs |-> 0]
  /\ Log = [p \in Procs |-> <<>>]
  /\ lpc = [p \in Procs |-> "spin"]
  /\ routine = [p \in Procs |-> 0]
  /\ started = [p \in Procs |-> FALSE]
  /\ turn = [p \in Procs |-> 0]
  /\ raced = FALSE
  /\ consumed = <<>> /\ executed = <<>> /\ skipped = {}

P == LogEvents[i].P

ReplayEnd ==
  /\ pc = "loop"
  /\ i > Len(LogEvents) \/ AllProcsDead(procStatus)
  /\ pc' = "done"
  /\ UNCHANGED <<i, procStatus, fixed, Lock, Run, RunningRoutine, Log,
                 local, consumed, skipped>>

(***************************************************************************)
(* Look for an event that can be replayed.  The list of runnable           *)
(* goroutines is read once, for the process of event i; while the timer    *)
(* thread is not on it the next event is compared with the same list.      *)
(* l.Fatal is called inside dprint, which does nothing when logging is     *)
(* off: the event is then run all the same.                                *)
(***************************************************************************)
CanRun(R, j) == R = {} \/ LogEvents[j].G \in R

ReplayChoose ==
  /\ pc = "loop"
  /\ i <= Len(LogEvents) /\ ~ AllProcsDead(procStatus)
  /\ lockStatus[P] \/ Lock[P] = "UNLOCKED"
  /\ Run[P] = IDLE
  /\ \E R \in RunnableSets(P), j \in i .. Len(LogEvents) + 1 :
       /\ \A k \in i .. j - 1 : ~ CanRun(R, k) /\ LogEvents[k].timer
       /\ \/ j > Len(LogEvents) /\ pc' = "panic"
          \/ /\ j <= Len(LogEvents) /\ CanRun(R, j)
             /\ pc' = "command"
          \/ /\ j <= Len(LogEvents) /\ ~ CanRun(R, j) /\ ~ LogEvents[j].timer
             /\ pc' = IF LogOff THEN "command" ELSE "fatal"
       /\ i' = j
       /\ skipped' = skipped \cup (i .. j - 1)
  /\ UNCHANGED <<procStatus, fixed, Lock, Run, RunningRoutine, Log, local,
                 consumed>>

\* Assign which goroutine to run: the command, then the goroutine.
ReplayCommand ==
  /\ pc = "command"
  /\ pc' = "assign"
  /\ Run' = [Run EXCEPT ![P] = EXECUTE]
  /\ UNCHANGED <<i, procStatus, fixed, Lock, RunningRoutine, Log, local,
                 consumed, skipped>>

ReplayAssign ==
  /\ pc = "assign"
  /\ pc' = "release"
  /\ RunningRoutine' = [RunningRoutine EXCEPT ![P] = LogEvents[i].G]
  /\ UNCHANGED <<i, procStatus, fixed, Lock, Run, Log, local, consumed,
                 skipped>>

ReplayRelease ==
  /\ pc = "release"
  /\ pc' = "wait"
  /\ Lock' = [Lock EXCEPT ![P] = "UNLOCKED"]
  /\ UNCHANGED <<i, procStatus, fixed, Run, RunningRoutine, Log, local,
                 consumed, skipped>>

\* Wait until the process is idle or has ended.
ReplayLock ==
  /\ pc = "wait"
  /\ Lock[P] = "UNLOCKED"
  /\ pc' = "held"
  /\ Lock' = [Lock EXCEPT ![P] = "LOCKED"]
  /\ UNCHANGED <<i, procStatus, fixed, Run, RunningRoutine, Log, local,
                 consumed, skipped>>

\* Mutant: the lock is not given back before trying again.
ReplayRetry_KeepsLock ==
  /\ pc = "held"
  /\ Run[P] \notin {IDLE, FINISHED}
  /\ pc' = "wait"
  /\ UNCHANGED <<i, procStatus, fixed, Lock, Run, RunningRoutine, Log, local,
                 consumed, skipped>>

ReplayRetry ==
  /\ pc = "held"
  /\ Run[P] \notin {IDLE, FINISHED}
  /\ pc' = "wait"
  /\ Lock' = [Lock EXCEPT ![P] = "UNLOCKED"]
  /\ UNCHANGED <<i, procStatus, fixed, Run, RunningRoutine, Log, local,
                 consumed, skipped>>

\* Mutant: a process that still runs is taken for idle.
ReplayIdle_AnyStatus ==
  /\ pc = "held"
  /\ Run[P] # FINISHED
  /\ pc' = "consume"
  /\ Lock' = [Lock EXCEPT ![P] = "UNLOCKED"]
  /\ UNCHANGED <<i, procStatus, fixed, Run, RunningRoutine, Log, local,
                 consumed, skipped>>

\* The process is idle: give the lock back, and take the events afterwards.
ReplayIdle ==
  /\ pc = "held"
  /\ Run[P] = IDLE
  /\ pc' = "consume"
  /\ Lock' = [Lock EXCEPT ![P] = "UNLOCKED"]
  /\ UNCHANGED <<i, procStatus, fixed, Run, RunningRoutine, Log, local,
                 consumed, skipped>>

\* Mutant: one event is taken, and LogIndex is reset.
ConsumeEvents_First(next) ==
  /\ consumed' = consumed \o SubSeq(Log[P], 1, 1)
  /\ Log' = [Log EXCEPT ![P] = <<>>]
  /\ IF i + Len(Log[P]) > Len(LogEvents) + 1
     THEN pc' = "panic" /\ i' = Len(LogEvents) + 1
     ELSE pc' = next /\ i' = i + Len(Log[P])

\* Mutant: the schedule advances by one event per turn.
ConsumeEvents_One(next) ==
  /\ consumed' = consumed \o Log[P]
  /\ Log' = [Log EXCEPT ![P] = <<>>]
  /\ pc' = next
  /\ i' = i + 1

\* ConsumeLog, and one comparison with the schedule per event; an event too
\* many is an index out of range.
ConsumeEvents(next) ==
  /\ consumed' = consumed \o Log[P]
  /\ Log' = [Log EXCEPT ![P] = <<>>]
  /\ IF i + Len(Log[P]) > Len(LogEvents) + 1
     THEN pc' = "panic" /\ i' = Len(LogEvents) + 1
     ELSE pc' = next /\ i' = i + Len(Log[P])

ReplayConsume ==
  /\ pc = "consume"
  /\ ConsumeEvents("loop")
  /\ Run' = IF i' > Len(LogEvents) /\ pc' = "loop"
            THEN [Run EXCEPT ![P] = KILL] ELSE Run
  /\ UNCHANGED <<procStatus, fixed, Lock, RunningRoutine, local, skipped>>

ReplayFinished ==
  /\ pc = "held"
  /\ Run[P] = FINISHED
  /\ ConsumeEvents("loop")
  /\ procStatus' = IF pc' = "loop" THEN [procStatus EXCEPT ![P] = "DEAD"]
                                   ELSE procStatus
  /\ UNCHANGED <<fixed, Lock, Run, RunningRoutine, local, skipped>>

-----------------------------------------------------------------------------
(***************************************************************************)
(* The local scheduler of process p, as replaySchedule relies on it.       *)
(***************************************************************************)
LocalAcquire(p) ==
  /\ lpc[p] = "spin"
  /\ Lock[p] = "UNLOCKED"
  /\ Run[p] \in {EXECUTE, KILL}
  /\ Lock' = [Lock EXCEPT ![p] = "LOCKED"]
  /\ lpc' = [lpc EXCEPT ![p] = IF Run[p] = KILL THEN "end" ELSE "hold"]
  /\ routine' = [routine EXCEPT ![p] = RunningRoutine[p]]
  /\ UNCHANGED <<scheduler, Run, RunningRoutine, Log, started, turn, executed,
                 raced, consumed, skipped>>

Execute(p, events) ==
  /\ executed' = executed \o events
  /\ Log' = [Log EXCEPT ![p] = @ \o events]
  /\ started' = [started EXCEPT ![p] = TRUE]
  /\ lpc' = [lpc EXCEPT ![p] = "leave"]
  /\ UNCHANGED <<scheduler, Lock, RunningRoutine, routine, consumed, skipped>>

(***************************************************************************)
(* Execution is deterministic: as long as every goroutine told to run made *)
(* the turn it made when recording, the next one does so too, and a process*)
(* ends when it did, after its last turn.  Once p, or a process that it    *)
(* talks to, has run another goroutine than it was told to, nothing is     *)
(* sure: other events may be made, and a process may end at any turn.      *)
(***************************************************************************)
Astray(p) == raced \/ routine[p] # LogEvents[i].G

\* The goroutine of the process's next recorded turn runs and does what it
\* did when recording.
LocalReplay(p) ==
  /\ lpc[p] = "hold"
  /\ \E b \in TurnsLeft(p) :
       /\ IsTurnOf(p, routine[p], b)
       /\ Execute(p, EventsOf(b))
       /\ turn' = [turn EXCEPT ![p] = b]
       /\ \E r \in {IDLE, FINISHED} :
            /\ r = FINISHED => Astray(p) \/ \A c \in TurnsLeft(p) : c <= b
            /\ Run' = [Run EXCEPT ![p] = r]
  /\ raced' = Astray(p)

\* Another goroutine runs, or the same with other events.
LocalDiverge(p) ==
  /\ lpc[p] = "hold"
  /\ Astray(p) \/ ~ \E b \in TurnsLeft(p) : IsTurnOf(p, routine[p], b)
  /\ \E n \in 1 .. MaxBatch :
       Execute(p, [j \in 1 .. n |->
                     [P |-> p, G |-> routine[p], batch |-> 0, n |-> j,
                      timer |-> FALSE]])
  /\ \E r \in {IDLE, FINISHED} : Run' = [Run EXCEPT ![p] = r]
  /\ raced' = Astray(p)
  /\ UNCHANGED turn

\* The lock is stored after the status.
LocalRelease(p) ==
  /\ lpc[p] = "leave"
  /\ lpc' = [lpc EXCEPT ![p] = IF Run[p] = FINISHED THEN "end" ELSE "spin"]
  /\ Lock' = [Lock EXCEPT ![p] = "UNLOCKED"]
  /\ UNCHANGED <<scheduler, Run, RunningRoutine, Log, routine, started, turn,
                 executed, raced, consumed, skipped>>

-----------------------------------------------------------------------------
Scheduler ==
  \/ ReplayEnd \/ ReplayChoose \/ ReplayCommand \/ ReplayAssign
  \/ ReplayRelease \/ ReplayLock \/ ReplayRetry \/ ReplayIdle
  \/ ReplayConsume \/ ReplayFinished

Local(p) == LocalAcquire(p) \/ LocalReplay(p) \/ LocalDiverge(p) \/ LocalRelease(p)

Next == Scheduler \/ \E p \in Procs : Local(p)

Spec == Init /\ [][Next]_vars

(***************************************************************************)
(* The scheduler runs on its own core; a runtime that spins on the lock    *)
(* gets it if it is free again and again; a running goroutine comes back.  *)
(***************************************************************************)
FairSpec ==
  /\ Spec
  /\ WF_vars(Scheduler)
  /\ \A p \in Procs :
       /\ SF_vars(LocalAcquire(p))
       /\ WF_vars(LocalReplay(p) \/ LocalDiverge(p) \/ LocalRelease(p))

-----------------------------------------------------------------------------
\* Every variable has its type.
TypeOK ==
  /\ IsSchedule(LogEvents) /\ LogOff \in BOOLEAN
  /\ pc \in {"loop", "command", "assign", "release", "wait", "held", "consume",
             "done", "fatal", "panic"}
  /\ i \in 1 .. Len(LogEvents) + 1
  /\ procStatus \in [Procs -> Statuses]
  /\ lockStatus \in [Procs -> BOOLEAN]
  /\ Lock \in [Procs -> LockValues]
  /\ Run \in [Procs -> RunValues]
  /\ RunningRoutine \in [Procs -> GoRoutines \cup {0}]
  /\ Log \in [Procs -> Seq([P : Procs, G : GoRoutines \cup {0}, batch : Nat,
                             n : Nat, timer : BOOLEAN])]
  /\ lpc \in [Procs -> {"spin", "hold", "leave", "end"}]
  /\ routine \in [Procs -> GoRoutines \cup {0}]
  /\ started \in [Procs -> BOOLEAN]
  /\ turn \in [Procs -> Nat]
  /\ raced \in BOOLEAN
  /\ skipped \subseteq DOMAIN LogEvents

\* Although the lock is not respected, a goroutine runs only in the process
\* whose event is being replayed, and only while the scheduler waits for it or
\* is about to: two processes never run at the same time.
SerialReplay ==
  \A p \in Procs :
    lpc[p] = "hold" => pc \in {"assign", "release", "wait", "held"} /\ p = P

\* No event is lost, taken twice or taken out of order, although the log is
\* read after the lock was given back.
TakenInOrder ==
  LET full == {p \in Procs : Log[p] # <<>>}
  IN  \/ full = {} /\ executed = consumed
      \/ \E p \in Procs : full = {p} /\ executed = consumed \o Log[p]

\* The events of the schedule up to the current one, without those skipped.
Replayed ==
  LET due == {j \in 1 .. i - 1 : j \notin skipped}
  IN  [k \in 1 .. Cardinality(due) |->
         LogEvents[CHOOSE j \in due : Cardinality({l \in due : l <= j}) = k]]

\* As long as every process ran the goroutine it was told to, the events of the
\* replay are the recorded ones, in the recorded order, except for turns of the
\* timer thread; the schedule is left early only by leaving out such a turn.
Faithful ==
  ~ raced => /\ consumed = Replayed
             /\ \A j \in skipped : LogEvents[j].timer
             /\ pc = "panic" => Len(LogEvents) \in skipped

\* Some process ran another goroutine than it was told to, and the process of
\* the event that is due has ended: Run never becomes -1 again, and the loop
\* looks at the same event for ever.
EndedEarly ==
  /\ raced
  /\ pc = "loop" /\ i <= Len(LogEvents)
  /\ Run[P] = FINISHED

\* Replay comes to an end, in one way or another, unless a race made a process
\* end before its last recorded event.
ReplayEnds == <>(pc \in {"done", "fatal", "panic"} \/ EndedEarly)

(***************************************************************************)
(* Replay implements Serial: with the stores that are made without a lock  *)
(* hidden, one process runs at a time, until all its events are taken.     *)
(***************************************************************************)
Abstract == INSTANCE Serial WITH
  taken <- consumed,
  pending <- IF i <= Len(LogEvents) THEN Log[P] ELSE <<>>

ReplaysSerially == Abstract!SerialSpec
=============================================================================
