------------------------------- MODULE Record -------------------------------
(***************************************************************************)
(* Recording an execution: recordSchedule of scheduler.go, running against *)
(* the local schedulers of N processes.                                    *)
(*                                                                         *)
(* The global scheduler picks one process at a time in round-robin order,  *)
(* lets it run until it has logged a batch of events, moves the batch into *)
(* the schedule and goes on with the next process.  The hand-over is done  *)
(* with one spin lock and one command word (Run) per process, both in      *)
(* shared memory.  Every step of the scheduler that touches shared memory  *)
(* while a local scheduler may touch it too is an action of its own.       *)
(***************************************************************************)
EXTENDS DaraProc, Sequences

CONSTANTS
  NetProcs,    \* the processes that wait for the network
  EventTypes,  \* the kinds of events the processes log
  RECORDLEN,   \* the length of the schedule
  MaxSlices,   \* bound: how often a process runs before it ends
  MaxBatch,    \* bound: how many events a process logs each time it runs
  MaxReports   \* bound: reports, when a process that has ended is looked at
               \* again and again

ASSUME RecordAssumption ==
  /\ NetProcs \subseteq Procs
  /\ EventTypes \subseteq {"SCHED_EVENT", "LOG_EVENT", "DELETEVAR_EVENT"}
  /\ RECORDLEN \in Nat
  /\ MaxSlices \in Nat \ {0}
  /\ MaxBatch \in Nat \ {0}
  /\ MaxReports \in Nat

VARIABLES
  (* the global scheduler *)
  pc,          \* where recordSchedule is
  LastProc,    \* the process it deals with, 0 before the first
  procStatus,  \* procStatus[p]: ALIVE or DEAD
  lockStatus,  \* lockStatus[p]: the scheduler believes it owns p's lock
  context,     \* the variables the property checker sees
  LogEvents, PropEvents, CovEvents,   \* the schedule it builds
  (* shared memory: procchan[p] *)
  Lock, Run,
  Log,         \* Log[p][1..LogIndex]
  Coverage,    \* Coverage[p][0..CoverageIndex-1]: blocks, named by event
  allDead,     \* allDead[p]: no goroutine in Routines is anything but Dead
  (* the local schedulers (external) *)
  lpc,         \* where p's local scheduler is
  slices,      \* how often it may still run
  (* history *)
  executed     \* the events of all processes in the order they happened

schedule == <<LogEvents, PropEvents, CovEvents, context>>
scheduler == <<pc, LastProc, procStatus, lockStatus>>
local == <<lpc, slices, executed>>
vars == <<scheduler, schedule, Lock, Run, Log, Coverage, allDead, local>>

-----------------------------------------------------------------------------
\* An event as the scheduler copies it out of shared memory; id is its place
\* in the execution, which no part of the program looks at.
Event == [P : Procs, Type : EventTypes, id : Nat]

\* The value (if any) of each process's variable, a property-check result in
\* such a context, and a coverage report, both tied to an event.
Context == [Procs -> SUBSET Nat]
PropEvent == [context : Context, EventIndex : Int]
CovEvent == [CoverageInfo : SUBSET Nat, EventIndex : Int]

SchedulerStates == {"pick", "spin", "held", "regrant", "done"}
LocalStates == {"spin", "hold", "net", "woken", "end"}

\* The events that write the one program variable that process q logs.
Writes(q, events) ==
  {j \in DOMAIN events :
    /\ events[j].P = q
    /\ events[j].Type \in {"LOG_EVENT", "DELETEVAR_EVENT"}}

\* The last write decides: a log event sets the variable, a delete event
\* takes it out of the context ({}), other events leave the context alone.
UpdateContext(ctx, events) ==
  [q \in Procs |->
    LET writes == Writes(q, events)
        last == {j \in writes : \A k \in writes : k <= j}
    IN IF writes = {} THEN ctx[q]
       ELSE {events[j].id : j \in {k \in last : events[k].Type = "LOG_EVENT"}}]

\* The integer i of recordSchedule: how many events are in the schedule.
i == Len(LogEvents)

-----------------------------------------------------------------------------
Init ==
  /\ pc = "pick"
  /\ LastProc = 0
  /\ procStatus = [p \in Procs |-> "ALIVE"]
  /\ lockStatus = [p \in Procs |-> TRUE]
  /\ context = [p \in Procs |-> {}]
  /\ LogEvents = <<>> /\ PropEvents = <<>> /\ CovEvents = <<>>
  /\ Lock = [p \in Procs |-> "LOCKED"]
  /\ Run = [p \in Procs |-> IDLE]
  /\ Log = [p \in Procs |-> <<>>]
  /\ Coverage = [p \in Procs |-> {}]
  /\ allDead = [p \in Procs |-> FALSE]
  /\ lpc = [p \in Procs |-> "spin"]
  /\ slices = [p \in Procs |-> MaxSlices]
  /\ executed = <<>>

\* Mutant: the variables logged by the process do not reach the context.
ConsumeLog_StaleContext(p) ==
  /\ LogEvents' = LogEvents \o Log[p]
  /\ context' = context
  /\ Log' = [Log EXCEPT ![p] = <<>>]

\* Copy the events out of shared memory and empty the log there.
ConsumeLog(p) ==
  /\ LogEvents' = LogEvents \o Log[p]
  /\ context' = UpdateContext(context, Log[p])
  /\ Log' = [Log EXCEPT ![p] = <<>>]

\* Mutant: CoverageIndex is not reset.
ConsumeCoverage_NoReset(p) == Coverage' = [Coverage EXCEPT ![p] = @]

ConsumeCoverage(p) == Coverage' = [Coverage EXCEPT ![p] = {}]

LastIndex(p) == i + Len(Log[p]) - 1

(***************************************************************************)
(* extractDataFromProc: move p's log and coverage into the schedule, check *)
(* the properties in the updated context, and tie both reports to the last *)
(* event of the batch (EventIndex counts from 0).                          *)
(***************************************************************************)
Extract(p) ==
  /\ ConsumeLog(p)
  /\ ConsumeCoverage(p)
  /\ PropEvents' = Append(PropEvents,
       [context |-> UpdateContext(context, Log[p]), EventIndex |-> LastIndex(p)])
  /\ CovEvents' = Append(CovEvents,
       [CoverageInfo |-> Coverage[p], EventIndex |-> LastIndex(p)])

NoExtract == UNCHANGED <<schedule, Log, Coverage>>

-----------------------------------------------------------------------------
(***************************************************************************)
(* The head of the loop: stop, or choose a process, and on its first turn  *)
(* tell it to record and give it its lock.                                 *)
(***************************************************************************)
RecordEnd ==
  /\ pc = "pick"
  /\ i >= RECORDLEN \/ AllProcsDead(procStatus)
  /\ pc' = "done"
  /\ UNCHANGED <<LastProc, procStatus, lockStatus, schedule, Lock, Run, Log,
                 Coverage, allDead, local>>

RecordPick(p) ==
  /\ pc = "pick"
  /\ i < RECORDLEN
  /\ IsRoundRobin(p, LastProc, procStatus)
  /\ pc' = "spin"
  /\ LastProc' = p
  /\ IF Run[p] = IDLE
     THEN /\ Run' = [Run EXCEPT ![p] = RECORD]
          /\ Lock' = [Lock EXCEPT ![p] = "UNLOCKED"]
          /\ lockStatus' = [lockStatus EXCEPT ![p] = FALSE]
     ELSE UNCHANGED <<Run, Lock, lockStatus>>
  /\ UNCHANGED <<procStatus, schedule, Log, Coverage, allDead, local>>

(***************************************************************************)
(* The head of the inner loop: go on once the lock is, or becomes, ours.   *)
(***************************************************************************)
RecordLock(p) ==
  /\ pc = "spin" /\ LastProc = p
  /\ lockStatus[p] \/ Lock[p] = "UNLOCKED"
  /\ pc' = "held"
  /\ Lock' = [Lock EXCEPT ![p] = "LOCKED"]
  /\ lockStatus' = [lockStatus EXCEPT ![p] = TRUE]
  /\ UNCHANGED <<LastProc, procStatus, schedule, Run, Log, Coverage, allDead,
                 local>>

\* Mutant: continue without giving the lock back.
RecordNotRun_KeepsLock(p) ==
  /\ pc = "held" /\ LastProc = p
  /\ Run[p] = RECORD
  /\ pc' = "spin"
  /\ NoExtract
  /\ UNCHANGED <<LastProc, procStatus, lockStatus, Lock, Run, allDead, local>>

\* Run = -3: the process has not run yet, offer it the lock again.
RecordNotRun(p) ==
  /\ pc = "held" /\ LastProc = p
  /\ Run[p] = RECORD
  /\ pc' = "spin"
  /\ Lock' = [Lock EXCEPT ![p] = "UNLOCKED"]
  /\ lockStatus' = [lockStatus EXCEPT ![p] = FALSE]
  /\ NoExtract
  /\ UNCHANGED <<LastProc, procStatus, Run, allDead, local>>

\* The tail of the inner loop: a process without live goroutines is dead and
\* another one is chosen, otherwise this one is looked at again.
CheckDead(p) ==
  /\ pc' = IF allDead[p] THEN "pick" ELSE "spin"
  /\ procStatus' = IF allDead[p] THEN [procStatus EXCEPT ![p] = "DEAD"]
                                 ELSE procStatus
  /\ UNCHANGED <<LastProc, lockStatus, Lock, Run, allDead, local>>

\* Mutant: the last events of a process are not extracted.
RecordFinished_NoExtract(p) ==
  /\ pc = "held" /\ LastProc = p
  /\ Run[p] = FINISHED
  /\ NoExtract
  /\ CheckDead(p)

\* Run = -100: the process has finished.  If a goroutine is left that is not
\* dead, the process stays where it is and is looked at again for ever, and
\* every look makes a report, of no event (bound: MaxReports).
RecordFinished(p) ==
  /\ pc = "held" /\ LastProc = p
  /\ Run[p] = FINISHED
  /\ Log[p] = <<>> => Len(CovEvents) < MaxReports
  /\ Extract(p)
  /\ CheckDead(p)

\* Mutant: the events of a blocked process wait until it runs again.
RecordBlocked_NoExtract(p) ==
  /\ pc = "held" /\ LastProc = p
  /\ Run[p] = BLOCKED
  /\ pc' = "pick"
  /\ NoExtract
  /\ UNCHANGED <<LastProc, procStatus, lockStatus, Lock, Run, allDead, local>>

\* Mutant: LogIndex > 0 is not checked, every visit makes a report.
RecordBlocked_Always(p) ==
  /\ pc = "held" /\ LastProc = p
  /\ Run[p] = BLOCKED
  /\ pc' = "pick"
  /\ Extract(p)
  /\ UNCHANGED <<LastProc, procStatus, lockStatus, Lock, Run, allDead, local>>

\* Run = -6: the process waits for the network; keep its lock and go on with
\* another one.  Its events are taken at the first visit only.
RecordBlocked(p) ==
  /\ pc = "held" /\ LastProc = p
  /\ Run[p] = BLOCKED
  /\ pc' = "pick"
  /\ IF Log[p] # <<>> THEN Extract(p) ELSE NoExtract
  /\ UNCHANGED <<LastProc, procStatus, lockStatus, Lock, Run, allDead, local>>

\* Run = -7: the network wait is over.  The lock is stored first and the
\* command afterwards, in two steps that the local scheduler can come between.
RecordWoken(p) ==
  /\ pc = "held" /\ LastProc = p
  /\ Run[p] = WOKEN
  /\ pc' = "regrant"
  /\ Lock' = [Lock EXCEPT ![p] = "UNLOCKED"]
  /\ NoExtract
  /\ UNCHANGED <<LastProc, procStatus, lockStatus, Run, allDead, local>>

RecordRegrant(p) ==
  /\ pc = "regrant" /\ LastProc = p
  /\ pc' = "spin"
  /\ Run' = [Run EXCEPT ![p] = RECORD]
  /\ lockStatus' = [lockStatus EXCEPT ![p] = FALSE]
  /\ NoExtract
  /\ UNCHANGED <<LastProc, procStatus, Lock, allDead, local>>

\* Mutant: the lock is released together with the command.
RecordEvents_Release(p) ==
  /\ pc = "held" /\ LastProc = p
  /\ Run[p] >= 0
  /\ Extract(p)
  /\ Run' = [Run EXCEPT ![p] =
               IF i + Len(Log[p]) >= RECORDLEN - N THEN KILL ELSE RECORD]
  /\ Lock' = [Lock EXCEPT ![p] = "UNLOCKED"]
  /\ lockStatus' = [lockStatus EXCEPT ![p] = FALSE]
  /\ pc' = "pick"
  /\ UNCHANGED <<LastProc, procStatus, allDead, local>>

\* Run >= 0: a goroutine ran.  Take its events, leave the next command in Run
\* and go on with another process, still holding this one's lock.
RecordEvents(p) ==
  /\ pc = "held" /\ LastProc = p
  /\ Run[p] >= 0
  /\ Extract(p)
  /\ Run' = [Run EXCEPT ![p] =
               IF i + Len(Log[p]) >= RECORDLEN - N THEN KILL ELSE RECORD]
  /\ pc' = "pick"
  /\ UNCHANGED <<LastProc, procStatus, lockStatus, Lock, allDead, local>>

\* Any other command: only the check for dead goroutines is left.
RecordOther(p) ==
  /\ pc = "held" /\ LastProc = p
  /\ Run[p] \in {IDLE, KILL, EXECUTE}
  /\ CheckDead(p)
  /\ NoExtract

-----------------------------------------------------------------------------
(***************************************************************************)
(* The local scheduler of process p, as recordSchedule relies on it.       *)
(***************************************************************************)
\* It waits for its lock with a command to record, or to end, in Run.
LocalAcquire(p) ==
  /\ lpc[p] = "spin"
  /\ Lock[p] = "UNLOCKED"
  /\ Run[p] \in {RECORD, KILL}
  /\ Lock' = [Lock EXCEPT ![p] = "LOCKED"]
  /\ lpc' = [lpc EXCEPT ![p] = IF Run[p] = KILL THEN "end" ELSE "hold"]
  /\ UNCHANGED <<scheduler, schedule, Run, Log, Coverage, allDead, slices,
                 executed>>

\* After a network wait it goes on as soon as it has the lock.
LocalResume(p) ==
  /\ lpc[p] = "woken"
  /\ Lock[p] = "UNLOCKED"
  /\ Lock' = [Lock EXCEPT ![p] = "LOCKED"]
  /\ lpc' = [lpc EXCEPT ![p] = "hold"]
  /\ UNCHANGED <<scheduler, schedule, Run, Log, Coverage, allDead, slices,
                 executed>>

\* p runs: n events of one kind are logged and their blocks covered.
Execute(p, n, type) ==
  LET events == [j \in 1 .. n |->
                   [P |-> p, Type |-> type, id |-> Len(executed) + j]]
  IN /\ executed' = executed \o events
     /\ Log' = [Log EXCEPT ![p] = @ \o events]
     /\ Coverage' = [Coverage EXCEPT
                       ![p] = @ \cup {Len(executed) + j : j \in 1 .. n}]
     /\ slices' = [slices EXCEPT ![p] = @ - 1]

\* Its turn is over and the lock is given back: the next goroutine is
\* scheduled, or p waits for the network, or p has ended.
LocalSchedule(p, n, type) ==
  /\ lpc[p] = "hold" /\ slices[p] > 1
  /\ Execute(p, n, type)
  /\ Run' = [Run EXCEPT ![p] = ROUTINE]
  /\ Lock' = [Lock EXCEPT ![p] = "UNLOCKED"]
  /\ lpc' = [lpc EXCEPT ![p] = "spin"]
  /\ UNCHANGED <<scheduler, schedule, allDead>>

LocalBlock(p, n, type) ==
  /\ lpc[p] = "hold" /\ slices[p] > 1
  /\ p \in NetProcs
  /\ Execute(p, n, type)
  /\ Run' = [Run EXCEPT ![p] = BLOCKED]
  /\ Lock' = [Lock EXCEPT ![p] = "UNLOCKED"]
  /\ lpc' = [lpc EXCEPT ![p] = "net"]
  /\ UNCHANGED <<scheduler, schedule, allDead>>

\* Goroutines may be left when main returns: dead is whether there are none.
LocalFinish(p, n, type, dead) ==
  /\ lpc[p] = "hold"
  /\ Execute(p, n, type)
  /\ Run' = [Run EXCEPT ![p] = FINISHED]
  /\ Lock' = [Lock EXCEPT ![p] = "UNLOCKED"]
  /\ lpc' = [lpc EXCEPT ![p] = "end"]
  /\ allDead' = [allDead EXCEPT ![p] = dead]
  /\ UNCHANGED <<scheduler, schedule>>

\* A message arrives.  The lock is elsewhere: the new status is written
\* without it, and only then is the lock waited for.
NetWake(p) ==
  /\ lpc[p] = "net"
  /\ Run' = [Run EXCEPT ![p] = WOKEN]
  /\ lpc' = [lpc EXCEPT ![p] = "woken"]
  /\ UNCHANGED <<scheduler, schedule, Lock, Log, Coverage, allDead, slices,
                 executed>>

-----------------------------------------------------------------------------
Scheduler(p) ==
  \/ RecordPick(p)
  \/ RecordLock(p)
  \/ RecordNotRun(p)
  \/ RecordFinished(p)
  \/ RecordBlocked(p)
  \/ RecordWoken(p)
  \/ RecordRegrant(p)
  \/ RecordEvents(p)
  \/ RecordOther(p)

LocalYield(p) ==
  \E n \in 1 .. MaxBatch, type \in EventTypes :
    \/ LocalSchedule(p, n, type)
    \/ LocalBlock(p, n, type)
    \/ \E dead \in BOOLEAN : LocalFinish(p, n, type, dead)

Local(p) ==
  \/ LocalAcquire(p)
  \/ LocalResume(p)
  \/ LocalYield(p)
  \/ NetWake(p)

\* The process whose turn it is has ended, and goroutines of it are left.
Lingering ==
  /\ LastProc # 0 /\ pc # "regrant"
  /\ Run[LastProc] = FINISHED /\ ~ allDead[LastProc]

\* The program has written the schedule and left, or never will.
Terminated == (pc = "done" \/ Lingering) /\ UNCHANGED vars

Next ==
  \/ RecordEnd
  \/ \E p \in Procs : Scheduler(p) \/ Local(p)
  \/ Terminated

Spec == Init /\ [][Next]_vars

(***************************************************************************)
(* The scheduler is one thread that never sleeps for long.  A local        *)
(* scheduler spins on a lock that recordSchedule takes and drops again and *)
(* again, with a pause (forward) in between: it gets it in the end, which  *)
(* is strong fairness.  A goroutine that has the lock gives it back.  That *)
(* a process that waits for the network ever gets its message is not       *)
(* assumed.                                                                *)
(***************************************************************************)
Fairness ==
  /\ WF_vars(RecordEnd \/ \E p \in Procs : Scheduler(p))
  /\ \A p \in Procs :
       /\ SF_vars(LocalAcquire(p))
       /\ SF_vars(LocalResume(p))
       /\ WF_vars(LocalYield(p))

FairSpec == Spec /\ Fairness
-----------------------------------------------------------------------------
TypeOK ==
  /\ pc \in SchedulerStates
  /\ LastProc \in 0 .. N
  /\ pc \in {"spin", "held", "regrant"} => LastProc \in Procs
  /\ procStatus \in [Procs -> Statuses]
  /\ lockStatus \in [Procs -> BOOLEAN]
  /\ context \in Context
  /\ LogEvents \in Seq(Event)
  /\ PropEvents \in Seq(PropEvent)
  /\ CovEvents \in Seq(CovEvent)
  /\ Lock \in [Procs -> LockValues]
  /\ Run \in [Procs -> RunValues]
  /\ Log \in [Procs -> Seq(Event)]
  /\ Coverage \in [Procs -> SUBSET Nat]
  /\ allDead \in [Procs -> BOOLEAN]
  /\ lpc \in [Procs -> LocalStates]
  /\ slices \in [Procs -> 0 .. MaxSlices]
  /\ executed \in Seq(Event)

(***************************************************************************)
(* A process runs only on its turn and only while the scheduler does not   *)
(* use its channel: no two processes ever run at the same time.            *)
(***************************************************************************)
SerialExecution ==
  \A p \in Procs :
    lpc[p] = "hold" => LastProc = p /\ pc \in {"spin", "regrant"}

(***************************************************************************)
(* The schedule is what happened, in the order it happened: a prefix of    *)
(* the execution, and all of it whenever the scheduler goes to another     *)
(* process or stops.                                                       *)
(***************************************************************************)
RecordedInOrder ==
  /\ LogEvents = SubSeq(executed, 1, Len(LogEvents))
  /\ pc \in {"pick", "done"} => Len(LogEvents) = Len(executed)

(***************************************************************************)
(* A coverage report is tied to an event of the schedule, and reports      *)
(* exactly what was covered by the events since the previous report, all   *)
(* of them of the same process.  BuildActionStats and the coverage tools   *)
(* index LogEvents with EventIndex and charge the coverage to that process.*)
(* There are reports of no event, and of no coverage, only once a process  *)
(* has ended and left goroutines behind.                                   *)
(***************************************************************************)
CoverageOfBatch ==
  \A k \in DOMAIN CovEvents :
    LET first == IF k = 1 THEN 1 ELSE CovEvents[k - 1].EventIndex + 2
        last == CovEvents[k].EventIndex + 1
    IN /\ first <= last \/ Lingering
       /\ last <= Len(LogEvents)
       /\ CovEvents[k].CoverageInfo = {LogEvents[j].id : j \in first .. last}
       /\ \A j \in first .. last : LogEvents[j].P = LogEvents[last].P

(***************************************************************************)
(* Every property check saw the variables exactly as the events of the     *)
(* schedule up to its EventIndex leave them.                               *)
(***************************************************************************)
CheckedInContext ==
  \A k \in DOMAIN PropEvents :
    PropEvents[k].context =
      UpdateContext([q \in Procs |-> {}],
                    SubSeq(LogEvents, 1, PropEvents[k].EventIndex + 1))

(***************************************************************************)
(* A process counted as dead has ended and none of its events is missing.  *)
(***************************************************************************)
DeadIsFinal ==
  \A p \in Procs :
    procStatus[p] = "DEAD" =>
      /\ lpc[p] = "end"
      /\ Log[p] = <<>>
      /\ \A j \in DOMAIN executed :
           executed[j].P = p => j <= Len(LogEvents)

(***************************************************************************)
(* The ways for recording to come to a stop: it ends; near the length      *)
(* limit a process is told to stop a few events before recordSchedule      *)
(* itself may, and neither looks at anyone else; a process that ends       *)
(* between the two stores of the wake-up branch has its last status        *)
(* overwritten by the command to record and is waited for for ever,        *)
(* although it only "wants the lock back" (scheduler.go:642); a process    *)
(* has ended while goroutines of it are alive, so that it is never counted *)
(* as dead, and its lock is kept.                                          *)
(***************************************************************************)
ToldToStop == \E p \in Procs : Run[p] = KILL

Overwritten == \E p \in Procs : lpc[p] = "end" /\ Run[p] = RECORD

Stopped == pc = "done" \/ ToldToStop \/ Overwritten \/ Lingering

(***************************************************************************)
(* Recording ends in one of these ways, unless a message never arrives.    *)
(***************************************************************************)
RecordingStops == <>Stopped \/ \E p \in NetProcs : <>[](lpc[p] = "net")

(***************************************************************************)
(* Recording implements SerialRecord.                                      *)
(***************************************************************************)
Abstract == INSTANCE SerialRecord WITH
  taken <- LogEvents,
  pending <- IF LastProc = 0 THEN <<>> ELSE Log[LastProc],
  reports <- [k \in DOMAIN CovEvents |-> CovEvents[k].EventIndex],
  lingers <- Lingering

RefinesSerial == Abstract!AbsSpec
=============================================================================
