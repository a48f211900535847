------------------------------ MODULE Explore ------------------------------
(***************************************************************************)
(* Exploring schedules: exploreSchedule of scheduler.go with the choices   *)
(* of the explorer (GetNextAction in explorer.go), running against the     *)
(* local schedulers.                                                       *)
(*                                                                         *)
(* The loop alternates between choosing an action, when the last one is    *)
(* complete, and looking at the process ProcID: installing the action,     *)
(* waiting for it, taking its events.  Every strategy picks one of the     *)
(* possible goroutines; which one is left open here.  Killing and          *)
(* restarting the program through the overlord succeeds at once.           *)
(***************************************************************************)
EXTENDS DaraProc, Sequences, FiniteSets

CONSTANTS
  GoRoutines,        \* goroutine ids; 1 is the main goroutine
  Programs,          \* which programs are explored, see program
  NetProcs,          \* of "distributed": the processes that wait for the network
  TimerProcs,        \* of "distributed": the processes that install a timer
  SleepProcs,        \* of "local": the processes whose goroutines sleep
  MAX_EXPLORE_RUNS,
  maxDepth,
  MaxSlices          \* bound: how often a process runs before it ends

ASSUME ExploreAssumption ==
  /\ 1 \in GoRoutines
  /\ Programs \subseteq {"local", "distributed"}
  /\ NetProcs \cup TimerProcs \cup SleepProcs \subseteq Procs
  /\ MAX_EXPLORE_RUNS \in Nat /\ maxDepth \in Nat
  /\ MaxSlices \in Nat \ {0}

VARIABLES
  (* exploreSchedule *)
  pc, current_run, isblocked, actionComplete, actionInstalled, ProcID, action,
  procStatus, lockStatus,
  schedule,          \* current_schedule.LogEvents
  (* the explorer *)
  currentSchedule, visitedScheds, currentDepth, initStatus,
  (* the virtual clocks, as far as the explorer sees them *)
  sleeping,          \* sleeping[p]: goroutines that IsSleeping, with an alarm
  timer,             \* timer[p]: the timer that is waiting
  (* shared memory *)
  Lock, Run, RunningRoutine, Log,
  routines,          \* routines[p]: the goroutines whose status is Runnable
  (* the local schedulers (external) *)
  lpc, slices,
  program,           \* the program under test: "local" or "distributed"
  (* history *)
  executed           \* the events of this run in the order they happened

loop == <<current_run, isblocked, actionComplete, actionInstalled, ProcID,
          action, procStatus, lockStatus, schedule>>
explorer == <<currentSchedule, visitedScheds, currentDepth, initStatus>>
clocks == <<sleeping, timer>>
shared == <<Lock, Run, RunningRoutine, Log, routines>>
local == <<lpc, slices, program, executed>>
vars == <<pc, loop, explorer, clocks, shared, local>>

-----------------------------------------------------------------------------
\* An action names what runs, and on which process.
Schedule(p, g) == [Type |-> "SCHEDULE", P |-> p, id |-> g]
Timer(p) == [Type |-> "TIMER", P |-> p, id |-> p]
NoAction == [Type |-> "RESTART", P |-> 0, id |-> 0]

Actions == {NoAction} \cup {Timer(p) : p \in Procs}
             \cup {Schedule(p, g) : p \in Procs, g \in GoRoutines}

\* What a turn does besides computing: nothing, sleep, install a timer.
Kinds == {"run", "sleep", "once", "periodic"}

ExploreEvent == [P : Procs, G : GoRoutines, kind : Kinds, n : Nat]

-----------------------------------------------------------------------------
StartOfRun ==
  [isblocked |-> [p \in Procs |-> FALSE],
   procStatus |-> [p \in Procs |-> "ALIVE"],
   lockStatus |-> [p \in Procs |-> TRUE],
   Lock |-> [p \in Procs |-> "LOCKED"],
   Run |-> [p \in Procs |-> IDLE],
   RunningRoutine |-> [p \in Procs |-> NoAction],
   routines |-> [p \in Procs |-> {}]]

Init ==
  /\ pc = IF MAX_EXPLORE_RUNS = 0 THEN "done" ELSE "select"
  /\ current_run = 0
  /\ actionComplete = TRUE /\ actionInstalled = FALSE
  /\ ProcID = 0 /\ action = NoAction
  /\ isblocked = StartOfRun.isblocked
  /\ procStatus = StartOfRun.procStatus
  /\ lockStatus = StartOfRun.lockStatus
  /\ schedule = <<>>
  /\ currentSchedule = <<>> /\ visitedScheds = {} /\ currentDepth = 0
  /\ initStatus = [p \in Procs |-> FALSE]
  /\ sleeping = [p \in Procs |-> {}] /\ timer = [p \in Procs |-> "none"]
  /\ Lock = StartOfRun.Lock
  /\ Run = StartOfRun.Run
  /\ RunningRoutine = StartOfRun.RunningRoutine
  /\ Log = [p \in Procs |-> <<>>]
  /\ routines = StartOfRun.routines
  /\ lpc = [p \in Procs |-> "boot"]
  /\ slices = [p \in Procs |-> MaxSlices]
  /\ program \in Programs
  /\ executed = <<>>

(***************************************************************************)
(* The explorer.                                                           *)
(***************************************************************************)
\* getNextPossibleThreads: the first goroutine of a process that has not run
\* yet; afterwards those that are runnable and not asleep, unless the process
\* is blocked.
IsPossible(p, g, asleep) ==
  /\ g \in routines[p]
  /\ IF initStatus[p] THEN g \notin asleep[p] /\ ~ isblocked[p] ELSE g = 1

NonePossible(asleep) ==
  \A p \in Procs, g \in GoRoutines : ~ IsPossible(p, g, asleep)

hasWaitingEvents(p) == sleeping[p] # {} \/ timer[p] # "none"
noWaitingEvents == \A p \in Procs : ~ hasWaitingEvents(p)

\* Mutant: a path is only kept when its run is over.
Visit_AtTheEnd(a) ==
  /\ currentSchedule' = Append(currentSchedule, a)
  /\ currentDepth' = IF currentSchedule' \in visitedScheds THEN currentDepth
                     ELSE currentDepth + 1
  /\ UNCHANGED visitedScheds

\* A schedule that was seen before does not count.
Visit(a) ==
  /\ currentSchedule' = Append(currentSchedule, a)
  /\ visitedScheds' = visitedScheds \cup {currentSchedule'}
  /\ currentDepth' = IF currentSchedule' \in visitedScheds THEN currentDepth
                     ELSE currentDepth + 1

RestartExploration ==
  /\ visitedScheds' = visitedScheds \cup {currentSchedule}
  /\ currentSchedule' = <<>>
  /\ currentDepth' = 0
  /\ initStatus' = [p \in Procs |-> FALSE]

allBlocked == \A p \in Procs : isblocked[p]

\* Mutant: a new action is chosen while the last one is under way.
NeedsAction_Eager == pc = "select" /\ ~ allBlocked

NeedsAction == pc = "select" /\ actionComplete /\ ~ allBlocked

\* The guard of the RESTART action.
MustRestart ==
  \/ currentDepth >= maxDepth
  \/ NonePossible(sleeping) /\ noWaitingEvents

ChooseRestart ==
  /\ NeedsAction
  /\ MustRestart
  /\ RestartExploration
  /\ pc' = "kill"
  /\ UNCHANGED <<loop, clocks, shared, local>>

(***************************************************************************)
(* The clocks are asked in any order.  One that has only sleepers wakes    *)
(* them all and the search goes on; one that has a timer fires it, waking  *)
(* the sleepers that are due by then, and the search is over.              *)
(***************************************************************************)
OnlySleepers(p) == sleeping[p] # {} /\ timer[p] = "none"

ActOn(a) ==
  /\ action' = a
  /\ actionComplete' = FALSE
  /\ pc' = "poll"
  /\ UNCHANGED <<current_run, isblocked, actionInstalled, procStatus,
                 lockStatus, schedule, shared, local>>

ChooseTimer(q) ==
  /\ NeedsAction /\ ~ MustRestart
  /\ timer[q] # "none"
  /\ \E asked \in SUBSET {p \in Procs : OnlySleepers(p)}, due \in SUBSET sleeping[q] :
       sleeping' = [p \in Procs |-> IF p \in asked THEN {}
                                    ELSE IF p = q THEN sleeping[p] \ due
                                    ELSE sleeping[p]]
  /\ timer' = [timer EXCEPT ![q] = IF @ = "once" THEN "none" ELSE @]
  /\ Visit(Timer(q))
  /\ ActOn(Timer(q))
  /\ UNCHANGED <<ProcID, initStatus>>

\* The sleepers after the search for a timer: none was looked for, or no clock
\* has one and all sleepers are awake.
AfterSearch ==
  (IF NonePossible(sleeping) THEN {} ELSE {sleeping})
    \cup (IF \A p \in Procs : timer[p] = "none" THEN {[p \in Procs |-> {}]} ELSE {})

ChooseThread(p, g) ==
  /\ NeedsAction /\ ~ MustRestart
  /\ \E s \in AfterSearch : IsPossible(p, g, s) /\ sleeping' = s
  /\ Visit(Schedule(p, g))
  /\ initStatus' = [initStatus EXCEPT ![p] = TRUE]
  /\ ActOn(Schedule(p, g))
  /\ ProcID' = p
  /\ UNCHANGED timer

\* rand.Intn(0)
ChooseFromNothing ==
  /\ NeedsAction /\ ~ MustRestart
  /\ \E s \in AfterSearch : NonePossible(s) /\ sleeping' = s
  /\ pc' = "panic"
  /\ UNCHANGED <<loop, explorer, timer, shared, local>>

\* The action is under way, or every process is blocked.
NothingToChoose ==
  /\ pc = "select"
  /\ ~ actionComplete \/ allBlocked
  /\ pc' = "poll"
  /\ UNCHANGED <<loop, explorer, clocks, shared, local>>
-----------------------------------------------------------------------------
(***************************************************************************)
(* Looking at the process ProcID, with its lock.                           *)
(***************************************************************************)
HasLock == ProcID # 0 /\ (lockStatus[ProcID] \/ Lock[ProcID] = "UNLOCKED")

\* The lock is taken, unless it is owned already, and kept or given back.
Keep ==
  /\ lockStatus' = [lockStatus EXCEPT ![ProcID] = TRUE]
  /\ Lock' = [Lock EXCEPT ![ProcID] = "LOCKED"]

\* Mutant: lockStatus is not updated.
GiveBack_StaleStatus ==
  /\ lockStatus' = [lockStatus EXCEPT ![ProcID] = TRUE]
  /\ Lock' = [Lock EXCEPT ![ProcID] = "UNLOCKED"]

GiveBack ==
  /\ lockStatus' = [lockStatus EXCEPT ![ProcID] = FALSE]
  /\ Lock' = [Lock EXCEPT ![ProcID] = "UNLOCKED"]

\* Mutant: LogIndex is not reset.
Extract_NoReset ==
  /\ schedule' = schedule \o Log[ProcID]
  /\ UNCHANGED <<Log, sleeping, timer>>

\* extractDataFromProc: the events go to the schedule, sleeps and timers to
\* the clock, and the log is emptied.
Extract ==
  LET events == Log[ProcID]
      Of(kind) == {j \in DOMAIN events : events[j].kind = kind}
  IN  /\ schedule' = schedule \o events
      /\ Log' = [Log EXCEPT ![ProcID] = <<>>]
      /\ sleeping' = [sleeping EXCEPT
                        ![ProcID] = @ \cup {events[j].G : j \in Of("sleep")}]
      /\ timer' = [timer EXCEPT ![ProcID] = IF Of("once") # {} THEN "once"
                                            ELSE IF Of("periodic") # {} THEN "periodic"
                                            ELSE @]

\* The action is complete: it was installed and the process is back.
Complete ==
  /\ actionInstalled
  /\ actionComplete' = TRUE
  /\ actionInstalled' = FALSE
  /\ Extract

Poll(r) == pc = "poll" /\ HasLock /\ Run[ProcID] = r /\ pc' = "select"

PollFinished ==
  /\ pc = "poll" /\ HasLock /\ Run[ProcID] = FINISHED
  /\ Keep
  /\ Complete
  /\ procStatus' = [procStatus EXCEPT ![ProcID] = "DEAD"]
  /\ IF AllProcsDead(procStatus')
     THEN /\ pc' = "restart" /\ current_run' = current_run + 1
          /\ RestartExploration
     ELSE pc' = "select" /\ UNCHANGED <<current_run, explorer>>
  /\ UNCHANGED <<isblocked, ProcID, action, Run, RunningRoutine, routines, local>>

\* Mutant: the lock is kept while the process has not run yet.
PollExecuting_Keeps ==
  /\ Poll(EXECUTE)
  /\ Keep
  /\ UNCHANGED <<current_run, isblocked, actionComplete, actionInstalled, ProcID,
                 action, procStatus, schedule, explorer, clocks, Run,
                 RunningRoutine, Log, routines, local>>

PollExecuting ==
  /\ Poll(EXECUTE)
  /\ GiveBack
  /\ UNCHANGED <<current_run, isblocked, actionComplete, actionInstalled, ProcID,
                 action, procStatus, schedule, explorer, clocks, Run,
                 RunningRoutine, Log, routines, local>>

PollComplete ==
  /\ Poll(IDLE)
  /\ Keep
  /\ Complete
  /\ UNCHANGED <<current_run, isblocked, ProcID, action, procStatus, explorer,
                 Run, RunningRoutine, routines, local>>

\* Nothing is installed: the action is, whatever it is, on process ProcID.
PollInstall ==
  /\ Poll(IDLE)
  /\ ~ actionInstalled
  /\ actionInstalled' = TRUE
  /\ Run' = [Run EXCEPT ![ProcID] = EXECUTE]
  /\ RunningRoutine' = [RunningRoutine EXCEPT ![ProcID] = action]
  /\ GiveBack
  /\ UNCHANGED <<current_run, isblocked, actionComplete, ProcID, action,
                 procStatus, schedule, explorer, clocks, Log, routines, local>>

PollBlocked ==
  /\ Poll(BLOCKED)
  /\ Keep
  /\ isblocked' = [isblocked EXCEPT ![ProcID] = TRUE]
  /\ \/ Complete
     \/ /\ ~ actionInstalled
        /\ UNCHANGED <<actionComplete, actionInstalled, schedule, Log, clocks>>
  /\ UNCHANGED <<current_run, ProcID, action, procStatus, explorer, Run,
                 RunningRoutine, routines, local>>

PollWoken ==
  /\ Poll(WOKEN)
  /\ GiveBack
  /\ isblocked' = [isblocked EXCEPT ![ProcID] = FALSE]
  /\ UNCHANGED <<current_run, actionComplete, actionInstalled, ProcID, action,
                 procStatus, schedule, explorer, clocks, Run, RunningRoutine,
                 Log, routines, local>>

\* The process has ended but no action was installed on it, or its lock is
\* elsewhere, or no process was chosen yet.
PollNothing ==
  /\ pc = "poll"
  /\ \/ HasLock /\ Run[ProcID] = FINISHED /\ ~ actionInstalled /\ Keep
     \/ ~ HasLock /\ UNCHANGED <<lockStatus, Lock>>
  /\ pc' = "select"
  /\ UNCHANGED <<current_run, isblocked, actionComplete, actionInstalled, ProcID,
                 action, procStatus, schedule, explorer, clocks, Run,
                 RunningRoutine, Log, routines, local>>

-----------------------------------------------------------------------------
(***************************************************************************)
(* The end of a run.                                                       *)
(***************************************************************************)
\* The answer to a RESTART action: the overlord kills the program.
Kill ==
  /\ pc = "kill"
  /\ lpc' = [p \in Procs |-> "gone"]
  /\ current_run' = current_run + 1
  /\ pc' = "restart"
  /\ UNCHANGED <<isblocked, actionComplete, actionInstalled, ProcID, action,
                 procStatus, lockStatus, schedule, explorer, clocks, shared,
                 slices, program, executed>>

\* The next run: shared memory (but for the logs) and the state of the loop
\* are reset, and the overlord starts the program again.
Restart ==
  /\ pc = "restart"
  /\ current_run < MAX_EXPLORE_RUNS
  /\ isblocked' = StartOfRun.isblocked
  /\ procStatus' = StartOfRun.procStatus
  /\ lockStatus' = StartOfRun.lockStatus
  /\ Lock' = StartOfRun.Lock
  /\ Run' = StartOfRun.Run
  /\ RunningRoutine' = StartOfRun.RunningRoutine
  /\ routines' = StartOfRun.routines
  /\ sleeping' = [p \in Procs |-> {}] /\ timer' = [p \in Procs |-> "none"]
  /\ actionComplete' = TRUE /\ actionInstalled' = FALSE
  /\ ProcID' = 0 /\ action' = NoAction
  /\ schedule' = <<>> /\ executed' = <<>>
  /\ lpc' = [p \in Procs |-> "boot"]
  /\ slices' = [p \in Procs |-> MaxSlices]
  /\ pc' = "select"
  /\ UNCHANGED <<current_run, explorer, Log, program>>

Finish ==
  /\ pc = "restart"
  /\ current_run >= MAX_EXPLORE_RUNS
  /\ pc' = "done"
  /\ UNCHANGED <<loop, explorer, clocks, shared, local>>

-----------------------------------------------------------------------------
(***************************************************************************)
(* The local scheduler of process p, as exploreSchedule relies on it.      *)
(***************************************************************************)
LocalStart(p) ==
  /\ lpc[p] = "boot"
  /\ lpc' = [lpc EXCEPT ![p] = "spin"]
  /\ routines' = [routines EXCEPT ![p] = {1}]
  /\ UNCHANGED <<pc, loop, explorer, clocks, Lock, Run, RunningRoutine, Log,
                 slices, program, executed>>

LocalAcquire(p) ==
  /\ \/ lpc[p] = "spin" /\ Run[p] = EXECUTE
     \/ lpc[p] = "woken"
  /\ Lock[p] = "UNLOCKED"
  /\ Lock' = [Lock EXCEPT ![p] = "LOCKED"]
  /\ lpc' = [lpc EXCEPT ![p] = "hold"]
  /\ UNCHANGED <<pc, loop, explorer, clocks, Run, RunningRoutine, Log, routines,
                 slices, program, executed>>

KindsOf(p) ==
  {"run"}
    \cup (IF program = "local" /\ p \in SleepProcs /\ RunningRoutine[p].Type = "SCHEDULE"
          THEN {"sleep"} ELSE {})
    \cup (IF program = "distributed" /\ p \in TimerProcs /\ timer[p] = "none" /\ Log[p] = <<>>
          THEN {"once", "periodic"} ELSE {})

\* p runs, logs one event and gives the lock back with status r.  The goroutines
\* of a process that ends may be dead, as recordSchedule expects, or be left with
\* the statuses they have.
Turn(p, r, state) ==
  /\ lpc[p] = "hold"
  /\ \E kind \in KindsOf(p) \ (IF r = FINISHED THEN {"sleep"} ELSE {}) :
       LET g == IF RunningRoutine[p].Type = "SCHEDULE" THEN RunningRoutine[p].id
                ELSE 1
           e == [P |-> p, G |-> g, kind |-> kind, n |-> Len(executed) + 1]
       IN  /\ executed' = Append(executed, e)
           /\ Log' = [Log EXCEPT ![p] = Append(@, e)]
           /\ \E R \in SUBSET GoRoutines :
                /\ sleeping[p] \cup (IF kind = "sleep" THEN {g} ELSE {}) \subseteq R
                   \/ r = FINISHED
                /\ routines' = [routines EXCEPT ![p] = R]
  /\ Run' = [Run EXCEPT ![p] = r]
  /\ Lock' = [Lock EXCEPT ![p] = "UNLOCKED"]
  /\ lpc' = [lpc EXCEPT ![p] = state]
  /\ slices' = [slices EXCEPT ![p] = @ - 1]
  /\ UNCHANGED <<pc, loop, explorer, clocks, RunningRoutine, program>>

LocalYield(p)  == slices[p] > 1 /\ Turn(p, IDLE, "spin")
LocalBlock(p)  ==
  program = "distributed" /\ p \in NetProcs /\ slices[p] > 1 /\ Turn(p, BLOCKED, "net")
LocalFinish(p) == Turn(p, FINISHED, "end")

\* A message arrives; the new status is written without the lock.
NetWake(p) ==
  /\ lpc[p] = "net"
  /\ Run' = [Run EXCEPT ![p] = WOKEN]
  /\ lpc' = [lpc EXCEPT ![p] = "woken"]
  /\ UNCHANGED <<pc, loop, explorer, clocks, Lock, RunningRoutine, Log, routines,
                 slices, program, executed>>

-----------------------------------------------------------------------------
Choose ==
  \/ ChooseRestart \/ ChooseFromNothing \/ NothingToChoose
  \/ \E p \in Procs : ChooseTimer(p) \/ \E g \in GoRoutines : ChooseThread(p, g)

Look ==
  \/ PollFinished \/ PollExecuting \/ PollComplete \/ PollInstall
  \/ PollBlocked \/ PollWoken \/ PollNothing

Scheduler == Choose \/ Look \/ Kill \/ Restart \/ Finish

LocalTurn(p) == LocalYield(p) \/ LocalBlock(p) \/ LocalFinish(p)

Local(p) == LocalStart(p) \/ LocalAcquire(p) \/ LocalTurn(p) \/ NetWake(p)

Next == Scheduler \/ \E p \in Procs : Local(p)

Spec == Init /\ [][Next]_vars

(***************************************************************************)
(* The scheduler never waits; a runtime that spins on a lock gets it if it *)
(* is free again and again; and a running goroutine comes back.  A message *)
(* need not come: NetWake has no fairness.                                 *)
(***************************************************************************)
FairSpec ==
  /\ Spec
  /\ WF_vars(Scheduler)
  /\ \A p \in Procs :
       /\ WF_vars(LocalStart(p)) /\ SF_vars(LocalAcquire(p))
       /\ WF_vars(LocalTurn(p))

-----------------------------------------------------------------------------
\* Every variable has its type.
TypeOK ==
  /\ pc \in {"select", "poll", "kill", "restart", "done", "panic"}
  /\ current_run \in 0 .. MAX_EXPLORE_RUNS
  /\ isblocked \in [Procs -> BOOLEAN]
  /\ actionComplete \in BOOLEAN /\ actionInstalled \in BOOLEAN
  /\ ProcID \in Procs \cup {0}
  /\ action \in Actions
  /\ procStatus \in [Procs -> Statuses]
  /\ lockStatus \in [Procs -> BOOLEAN]
  /\ schedule \in Seq(ExploreEvent)
  /\ currentSchedule \in Seq(Actions) /\ visitedScheds \subseteq Seq(Actions)
  /\ currentDepth \in 0 .. maxDepth
  /\ initStatus \in [Procs -> BOOLEAN]
  /\ sleeping \in [Procs -> SUBSET GoRoutines]
  /\ timer \in [Procs -> {"none", "once", "periodic"}]
  /\ Lock \in [Procs -> LockValues]
  /\ Run \in [Procs -> RunValues]
  /\ RunningRoutine \in [Procs -> Actions]
  /\ Log \in [Procs -> Seq(ExploreEvent)]
  /\ routines \in [Procs -> SUBSET GoRoutines]
  /\ lpc \in [Procs -> {"boot", "spin", "hold", "net", "woken", "end", "gone"}]
  /\ slices \in [Procs -> 0 .. MaxSlices]
  /\ program \in Programs
  /\ executed \in Seq(ExploreEvent)

\* What the scheduler believes about locks is true: a process never runs while
\* lockStatus says that the scheduler owns its lock.
LockDiscipline ==
  \A p \in Procs :
    /\ lockStatus[p] => Lock[p] = "LOCKED" /\ lpc[p] # "hold"
    /\ lpc[p] = "hold" => Lock[p] = "LOCKED"

\* One process runs at a time, and only because an action was installed: but
\* for a process that comes back from the network.
SerialExplore ==
  program = "local" =>
    \A p \in Procs : lpc[p] = "hold" => actionInstalled /\ p = ProcID

\* The events of process p, and that they come in the order they happened: the
\* n-th event of a run carries n.
EventsOf(p, events) == {e \in {events[j] : j \in DOMAIN events} : e.P = p}

InOrder(p, events) ==
  \A j, k \in DOMAIN events :
    j < k /\ events[j].P = p /\ events[k].P = p => events[j].n < events[k].n

\* No event of a process is lost, taken twice or out of order.  (Later runs are
\* left out for a program with a network: what a process that came back logs
\* before it is killed stays in its log, and the next run gets it.)  Of a local
\* program the schedule is the execution, also across processes.
TakenInOrder ==
  /\ program = "local" \/ current_run = 0 =>
       \A p \in Procs : LET taken == schedule \o Log[p] IN
         EventsOf(p, taken) = EventsOf(p, executed) /\ InOrder(p, taken)
  /\ program = "local" => schedule = SubSeq(executed, 1, Len(schedule))

\* A run may follow earlier runs for as long as it likes, and no such action
\* counts; but its first new action takes it to a path from which no path that
\* was seen can be reached again, so from there on every action counts, and the
\* run ends after maxDepth of them (GetNextThread, GetNextTimer).
LeavesForGood ==
  [][currentDepth > 0 /\ Len(currentSchedule') > Len(currentSchedule)
       => currentSchedule' \notin visitedScheds]_vars

\* An action is to be installed on a process that has ended, and never will be.
\* There are three ways to get there: a goroutine of an ended process is chosen
\* (getNextPossibleThreads does not look at procStatus); a timer is chosen, which
\* leaves ProcID at a process that has ended; or the process came back from the
\* network and ended by itself before the action was installed.
Stranded ==
  /\ ProcID # 0 /\ ~ actionInstalled /\ ~ actionComplete
  /\ Run[ProcID] = FINISHED
  /\ procStatus[ProcID] = "DEAD" \/ program = "distributed"

\* Only ProcID is looked at, and it waits for a message: because all processes
\* do, or because a timer was chosen while ProcID did.
WaitsForMessage ==
  /\ ProcID # 0 /\ lpc[ProcID] = "net"
  /\ isblocked[ProcID] /\ (allBlocked \/ ~ actionComplete)

\* The exploration comes to an end.  Two exceptions: an action is stranded, or
\* the message that the process ProcID waits for never comes; then it does not
\* help that other processes got theirs.
ExplorationEnds ==
  <>(pc \in {"done", "panic"} \/ Stranded) \/ <>[]WaitsForMessage

\* "The unique ness is given by a combination of the ProcessID and Timer ID"
\* (explorer.go, ProcTimer): what is installed is installed on the process
\* that the explorer chose it for.
ActionOnItsProcess == actionInstalled => action.P = ProcID

(***************************************************************************)
(* Of a local program every run implements Serial; an action that is       *)
(* complete leaves nothing for the next one, nor a run for the next run.   *)
(***************************************************************************)
OfLocal(events) == IF program = "local" THEN events ELSE <<>>

Abstract == INSTANCE Serial WITH
  taken <- OfLocal(schedule),
  pending <- IF ProcID = 0 THEN <<>> ELSE OfLocal(Log[ProcID])

ExploresSerially == Abstract!SerialRuns
=============================================================================
