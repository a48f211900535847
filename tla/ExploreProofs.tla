--------------------------- MODULE ExploreProofs ---------------------------
(***************************************************************************)
(* Proofs about Explore, for every number of processes, goroutines, runs   *)
(* and turns.                                                              *)
(***************************************************************************)
EXTENDS Explore, SequenceTheorems, TLAPS

\* A run is counted when it ends, and a process that can run has slices left.
Bounds ==
  /\ pc \notin {"restart", "done"} => current_run < MAX_EXPLORE_RUNS
  /\ pc = "restart" => current_run >= 1
  /\ \A p \in Procs : lpc[p] \notin {"end", "gone"} => slices[p] >= 1

Types == TypeOK /\ Bounds

-----------------------------------------------------------------------------
\* What the sets of actions and events contain.
LEMMA ActionFacts ==
  /\ NoAction \in Actions
  /\ \A p \in Procs : Timer(p) \in Actions
  /\ \A p \in Procs, g \in GoRoutines : Schedule(p, g) \in Actions
  /\ \A a \in Actions : a.Type = "SCHEDULE" => a.id \in GoRoutines
<1>1. /\ NoAction \in Actions
      /\ \A p \in Procs : Timer(p) \in Actions
      /\ \A p \in Procs, g \in GoRoutines : Schedule(p, g) \in Actions
  BY DEF Actions
<1>2. ASSUME NEW a \in Actions, a.Type = "SCHEDULE"
      PROVE  a.id \in GoRoutines
  <2>1. a # NoAction /\ \A p \in Procs : a # Timer(p)
    BY <1>2 DEF NoAction, Timer
  <2>2. PICK p \in Procs, g \in GoRoutines : a = Schedule(p, g)
    BY <2>1 DEF Actions
  <2> QED BY <2>2 DEF Schedule
<1> QED BY <1>1, <1>2

\* The state at the start of a run.
LEMMA StartTypes ==
  /\ StartOfRun.isblocked = [p \in Procs |-> FALSE]
  /\ StartOfRun.procStatus = [p \in Procs |-> "ALIVE"]
  /\ StartOfRun.lockStatus = [p \in Procs |-> TRUE]
  /\ StartOfRun.Lock = [p \in Procs |-> "LOCKED"]
  /\ StartOfRun.Run = [p \in Procs |-> IDLE]
  /\ StartOfRun.RunningRoutine = [p \in Procs |-> NoAction]
  /\ StartOfRun.routines = [p \in Procs |-> {}]
BY DEF StartOfRun

LEMMA TypesInit ==
  ASSUME Init
  PROVE  Types
<1>1. MAX_EXPLORE_RUNS \in Nat /\ maxDepth \in Nat /\ MaxSlices \in Nat \ {0}
  BY ExploreAssumption
<1>2. /\ <<>> \in Seq(ExploreEvent) /\ <<>> \in Seq(Actions)
      /\ NoAction \in Actions
  BY ActionFacts
<1>3. Log \in [Procs -> Seq(ExploreEvent)]
  BY <1>2 DEF Init
<1>4. RunningRoutine \in [Procs -> Actions]
  BY <1>2, StartTypes DEF Init
<1>5. slices \in [Procs -> 0 .. MaxSlices] /\ \A p \in Procs : slices[p] >= 1
  BY <1>1 DEF Init
<1>6. /\ isblocked \in [Procs -> BOOLEAN] /\ procStatus \in [Procs -> Statuses]
      /\ lockStatus \in [Procs -> BOOLEAN] /\ Lock \in [Procs -> LockValues]
      /\ Run \in [Procs -> RunValues] /\ routines \in [Procs -> SUBSET GoRoutines]
  BY StartTypes DEF Init, Statuses, LockValues, RunValues
<1>7. /\ current_run \in 0 .. MAX_EXPLORE_RUNS /\ currentDepth \in 0 .. maxDepth
      /\ pc \in {"select", "done"} /\ (pc = "select" => current_run < MAX_EXPLORE_RUNS)
  BY <1>1 DEF Init
<1>8. /\ initStatus \in [Procs -> BOOLEAN] /\ sleeping \in [Procs -> SUBSET GoRoutines]
      /\ timer \in [Procs -> {"none", "once", "periodic"}]
      /\ lpc \in [Procs -> {"boot", "spin", "hold", "net", "woken", "end", "gone"}]
  BY DEF Init
<1> QED BY <1>2, <1>3, <1>4, <1>5, <1>6, <1>7, <1>8 DEF Init, Types, TypeOK, Bounds

\* Taking the events of the process keeps the types.
LEMMA ExtractTypes ==
  ASSUME TypeOK, ProcID \in Procs, Extract
  PROVE  /\ schedule' \in Seq(ExploreEvent)
         /\ Log' \in [Procs -> Seq(ExploreEvent)]
         /\ sleeping' \in [Procs -> SUBSET GoRoutines]
         /\ timer' \in [Procs -> {"none", "once", "periodic"}]
<1>1. /\ Log \in [Procs -> Seq(ExploreEvent)] /\ schedule \in Seq(ExploreEvent)
      /\ sleeping \in [Procs -> SUBSET GoRoutines]
      /\ timer \in [Procs -> {"none", "once", "periodic"}]
  BY DEF TypeOK
<1>2. Log[ProcID] \in Seq(ExploreEvent)
  BY <1>1
<1>3. \A j \in DOMAIN Log[ProcID] : Log[ProcID][j].G \in GoRoutines
  <2>1. \A e \in ExploreEvent : e.G \in GoRoutines
    BY DEF ExploreEvent
  <2> QED BY <1>2, <2>1
<1>4. PICK S \in SUBSET GoRoutines :
        sleeping' = [sleeping EXCEPT ![ProcID] = sleeping[ProcID] \cup S]
  <2>1. \A D \in SUBSET DOMAIN Log[ProcID] :
          {Log[ProcID][j].G : j \in D} \in SUBSET GoRoutines
    BY <1>3
  <2> QED BY <2>1 DEF Extract
<1>5. PICK t \in {"none", "once", "periodic"} : timer' = [timer EXCEPT ![ProcID] = t]
  BY <1>1 DEF Extract
<1>6. schedule' = schedule \o Log[ProcID] /\ Log' = [Log EXCEPT ![ProcID] = <<>>]
  BY DEF Extract
<1>7. <<>> \in Seq(ExploreEvent)
  OBVIOUS
<1>8. schedule' \in Seq(ExploreEvent)
  BY <1>1, <1>2, <1>6
<1>9. Log' \in [Procs -> Seq(ExploreEvent)]
  BY <1>1, <1>6, <1>7
<1> QED BY <1>1, <1>4, <1>5, <1>8, <1>9

\* So do a choice and the end of a run.
LEMMA VisitTypes ==
  ASSUME TypeOK, ~ MustRestart, NEW a \in Actions, Visit(a)
  PROVE  /\ currentSchedule' \in Seq(Actions) /\ visitedScheds' \subseteq Seq(Actions)
         /\ currentDepth' \in 0 .. maxDepth
<1>1. currentDepth \in 0 .. maxDepth /\ currentDepth < maxDepth /\ maxDepth \in Nat
  BY ExploreAssumption DEF TypeOK, MustRestart
<1>2. Append(currentSchedule, a) \in Seq(Actions)
  BY DEF TypeOK
<1>3. currentDepth' \in 0 .. maxDepth
  BY <1>1 DEF Visit
<1>4. currentSchedule' \in Seq(Actions)
  BY <1>2 DEF Visit
<1>5. visitedScheds' \subseteq Seq(Actions)
  BY <1>4 DEF Visit, TypeOK
<1> QED BY <1>3, <1>4, <1>5

LEMMA RestartTypes ==
  ASSUME TypeOK, RestartExploration
  PROVE  /\ currentSchedule' \in Seq(Actions) /\ visitedScheds' \subseteq Seq(Actions)
         /\ currentDepth' \in 0 .. maxDepth /\ initStatus' \in [Procs -> BOOLEAN]
<1>1. <<>> \in Seq(Actions) /\ 0 \in 0 .. maxDepth
  BY ExploreAssumption
<1> QED BY <1>1 DEF RestartExploration, TypeOK

LEMMA ChooseTypes ==
  ASSUME Types, Choose
  PROVE  Types'
<1> USE DEF Types, loop, explorer, clocks, shared, local
<1>1. CASE ChooseRestart
  BY <1>1, RestartTypes DEF ChooseRestart, NeedsAction, TypeOK, Bounds
<1>2. CASE ChooseFromNothing
  <2>1. sleeping' \in [Procs -> SUBSET GoRoutines]
    BY <1>2 DEF ChooseFromNothing, AfterSearch, TypeOK
  <2> QED BY <1>2, <2>1 DEF ChooseFromNothing, NeedsAction, TypeOK, Bounds
<1>3. CASE NothingToChoose
  BY <1>3 DEF NothingToChoose, TypeOK, Bounds
<1>4. ASSUME NEW p \in Procs, ChooseTimer(p)
      PROVE  Types'
  <2>1. /\ currentSchedule' \in Seq(Actions) /\ visitedScheds' \subseteq Seq(Actions)
        /\ currentDepth' \in 0 .. maxDepth /\ action' \in Actions
    BY <1>4, ActionFacts, VisitTypes DEF ChooseTimer, ActOn
  <2>2. sleeping' \in [Procs -> SUBSET GoRoutines]
    BY <1>4 DEF ChooseTimer, TypeOK
  <2>3. timer' \in [Procs -> {"none", "once", "periodic"}]
    BY <1>4 DEF ChooseTimer, TypeOK
  <2> QED BY <1>4, <2>1, <2>2, <2>3 DEF ChooseTimer, ActOn, NeedsAction, TypeOK, Bounds
<1>5. ASSUME NEW p \in Procs, NEW g \in GoRoutines, ChooseThread(p, g)
      PROVE  Types'
  <2>1. /\ currentSchedule' \in Seq(Actions) /\ visitedScheds' \subseteq Seq(Actions)
        /\ currentDepth' \in 0 .. maxDepth /\ action' \in Actions
    BY <1>5, ActionFacts, VisitTypes DEF ChooseThread, ActOn
  <2>2. sleeping' \in [Procs -> SUBSET GoRoutines]
    BY <1>5 DEF ChooseThread, AfterSearch, TypeOK
  <2>3. initStatus' \in [Procs -> BOOLEAN] /\ ProcID' \in Procs
    BY <1>5 DEF ChooseThread, TypeOK
  <2> QED BY <1>5, <2>1, <2>2, <2>3 DEF ChooseThread, ActOn, NeedsAction, TypeOK, Bounds
<1> QED BY <1>1, <1>2, <1>3, <1>4, <1>5 DEF Choose

LEMMA LookTypes ==
  ASSUME Types, Look
  PROVE  Types'
<1> USE DEF Types, explorer, clocks, local, Statuses, LockValues, RunValues, EXECUTE
<1>0. MAX_EXPLORE_RUNS \in Nat
  BY ExploreAssumption
<1>1. HasLock => ProcID \in Procs
  BY DEF HasLock, TypeOK
<1>2. ASSUME Complete, ProcID \in Procs
      PROVE  /\ actionComplete' \in BOOLEAN /\ actionInstalled' \in BOOLEAN
             /\ schedule' \in Seq(ExploreEvent)
             /\ Log' \in [Procs -> Seq(ExploreEvent)]
             /\ sleeping' \in [Procs -> SUBSET GoRoutines]
             /\ timer' \in [Procs -> {"none", "once", "periodic"}]
  BY <1>2, ExtractTypes DEF Complete
<1>3. ASSUME Keep \/ GiveBack
      PROVE  lockStatus' \in [Procs -> BOOLEAN] /\ Lock' \in [Procs -> LockValues]
  BY <1>3 DEF Keep, GiveBack, TypeOK
<1>4. CASE PollFinished
  <2>1. procStatus' \in [Procs -> Statuses]
    BY <1>4 DEF PollFinished, TypeOK
  <2>2. /\ current_run' \in 0 .. MAX_EXPLORE_RUNS /\ pc' \in {"select", "restart"}
        /\ pc' # "restart" => current_run' < MAX_EXPLORE_RUNS
        /\ pc' = "restart" => current_run' >= 1
    BY <1>0, <1>4 DEF PollFinished, TypeOK, Bounds
  <2>3. /\ currentSchedule' \in Seq(Actions) /\ visitedScheds' \subseteq Seq(Actions)
        /\ currentDepth' \in 0 .. maxDepth /\ initStatus' \in [Procs -> BOOLEAN]
    BY <1>4, RestartTypes DEF PollFinished, TypeOK
  <2> QED BY <1>1, <1>2, <1>3, <1>4, <2>1, <2>2, <2>3 DEF PollFinished, TypeOK, Bounds
<1>5. CASE PollExecuting
  BY <1>3, <1>5 DEF PollExecuting, Poll, TypeOK, Bounds
<1>6. CASE PollComplete
  BY <1>1, <1>2, <1>3, <1>6 DEF PollComplete, Poll, TypeOK, Bounds
<1>7. CASE PollInstall
  BY <1>3, <1>7 DEF PollInstall, Poll, TypeOK, Bounds
<1>8. CASE PollBlocked
  <2>1. isblocked' \in [Procs -> BOOLEAN]
    BY <1>8 DEF PollBlocked, TypeOK
  <2>2. CASE Complete
    BY <1>1, <1>2, <1>3, <1>8, <2>1, <2>2 DEF PollBlocked, Poll, TypeOK, Bounds
  <2>3. CASE UNCHANGED <<actionComplete, actionInstalled, schedule, Log, clocks>>
    BY <1>3, <1>8, <2>1, <2>3 DEF PollBlocked, Poll, TypeOK, Bounds
  <2> QED BY <1>8, <2>2, <2>3 DEF PollBlocked
<1>9. CASE PollWoken
  BY <1>3, <1>9 DEF PollWoken, Poll, TypeOK, Bounds
<1>10. CASE PollNothing
  BY <1>3, <1>10 DEF PollNothing, TypeOK, Bounds
<1> QED BY <1>4, <1>5, <1>6, <1>7, <1>8, <1>9, <1>10 DEF Look

LEMMA EndTypes ==
  ASSUME Types, Kill \/ Restart \/ Finish
  PROVE  Types'
<1> USE DEF Types, loop, explorer, clocks, shared, local
<1>0. MAX_EXPLORE_RUNS \in Nat /\ MaxSlices \in Nat \ {0}
  BY ExploreAssumption
<1>1. CASE Kill
  BY <1>0, <1>1 DEF Kill, TypeOK, Bounds
<1>2. CASE Restart
  <2>1. <<>> \in Seq(ExploreEvent) /\ NoAction \in Actions
    BY ActionFacts
  <2>2. /\ isblocked' \in [Procs -> BOOLEAN] /\ procStatus' \in [Procs -> Statuses]
        /\ lockStatus' \in [Procs -> BOOLEAN] /\ Lock' \in [Procs -> LockValues]
        /\ Run' \in [Procs -> RunValues] /\ routines' \in [Procs -> SUBSET GoRoutines]
    BY <1>2, StartTypes DEF Restart, Statuses, LockValues, RunValues
  <2>3. RunningRoutine' \in [Procs -> Actions]
    BY <1>2, <2>1, StartTypes DEF Restart
  <2>4. slices' \in [Procs -> 0 .. MaxSlices] /\ \A p \in Procs : slices'[p] >= 1
    BY <1>0, <1>2 DEF Restart
  <2> QED BY <1>0, <1>2, <2>1, <2>2, <2>3, <2>4 DEF Restart, TypeOK, Bounds
<1>3. CASE Finish
  BY <1>3 DEF Finish, TypeOK, Bounds
<1> QED BY <1>1, <1>2, <1>3

\* What a process does when it runs.
LEMMA TurnEvent ==
  ASSUME TypeOK, NEW p \in Procs, NEW r, NEW state, Turn(p, r, state)
  PROVE  \E e \in ExploreEvent :
           /\ e.P = p /\ e.n = Len(executed) + 1
           /\ executed' = Append(executed, e)
           /\ Log' = [Log EXCEPT ![p] = Append(Log[p], e)]
<1>1. PICK kind \in KindsOf(p) :
        LET g == IF RunningRoutine[p].Type = "SCHEDULE" THEN RunningRoutine[p].id
                 ELSE 1
            e == [P |-> p, G |-> g, kind |-> kind, n |-> Len(executed) + 1]
        IN  /\ executed' = Append(executed, e)
            /\ Log' = [Log EXCEPT ![p] = Append(Log[p], e)]
  BY DEF Turn
<1>2. PICK g : g = IF RunningRoutine[p].Type = "SCHEDULE" THEN RunningRoutine[p].id ELSE 1
  OBVIOUS
<1>3. g \in GoRoutines
  BY <1>2, ActionFacts, ExploreAssumption DEF TypeOK
<1>4. kind \in Kinds
  BY DEF KindsOf, Kinds
<1>5. Len(executed) + 1 \in Nat
  BY DEF TypeOK
<1>6. PICK e : e = [P |-> p, G |-> g, kind |-> kind, n |-> Len(executed) + 1]
  OBVIOUS
<1>7. e \in ExploreEvent /\ e.P = p /\ e.n = Len(executed) + 1
  BY <1>3, <1>4, <1>5, <1>6 DEF ExploreEvent
<1> QED BY <1>1, <1>2, <1>6, <1>7

LEMMA LocalTypes ==
  ASSUME Types, NEW p \in Procs, Local(p)
  PROVE  Types'
<1> USE DEF Types, loop, explorer, clocks, LockValues, RunValues
<1>0. MaxSlices \in Nat \ {0} /\ 1 \in GoRoutines
  BY ExploreAssumption
<1>1. CASE LocalStart(p)
  BY <1>0, <1>1 DEF LocalStart, TypeOK, Bounds
<1>2. CASE LocalAcquire(p)
  BY <1>2 DEF LocalAcquire, TypeOK, Bounds
<1>3. ASSUME NEW r \in {IDLE, BLOCKED, FINISHED}, NEW state \in {"spin", "net", "end"},
             Turn(p, r, state), slices[p] > 1 \/ state = "end"
      PROVE  Types'
  <2>1. PICK e \in ExploreEvent :
          /\ executed' = Append(executed, e)
          /\ Log' = [Log EXCEPT ![p] = Append(Log[p], e)]
    BY <1>3, TurnEvent
  <2>2. executed' \in Seq(ExploreEvent)
    BY <2>1 DEF TypeOK
  <2>3. Log' \in [Procs -> Seq(ExploreEvent)]
    <3>1. Append(Log[p], e) \in Seq(ExploreEvent)
      BY DEF TypeOK
    <3> QED BY <2>1, <3>1 DEF TypeOK
  <2>4. slices[p] \in 1 .. MaxSlices /\ slices' = [slices EXCEPT ![p] = slices[p] - 1]
    <3>1. slices[p] \in 0 .. MaxSlices /\ slices[p] >= 1
      BY <1>3 DEF Turn, TypeOK, Bounds
    <3>2. slices' = [slices EXCEPT ![p] = slices[p] - 1]
      BY <1>3 DEF Turn
    <3> QED BY <1>0, <3>1, <3>2
  <2>5. /\ slices' \in [Procs -> 0 .. MaxSlices]
        /\ \A q \in Procs : lpc'[q] \notin {"end", "gone"} => slices'[q] >= 1
    BY <1>0, <1>3, <2>4 DEF Turn, TypeOK, Bounds
  <2>6. routines' \in [Procs -> SUBSET GoRoutines]
    BY <1>3 DEF Turn, TypeOK
  <2>7. Run' \in [Procs -> RunValues] /\ Lock' \in [Procs -> LockValues]
    BY <1>3 DEF Turn, TypeOK
  <2> QED BY <1>3, <2>2, <2>3, <2>5, <2>6, <2>7 DEF Turn, TypeOK, Bounds
<1>4. CASE NetWake(p)
  BY <1>4 DEF NetWake, TypeOK, Bounds
<1> QED BY <1>1, <1>2, <1>3, <1>4 DEF Local, LocalTurn, LocalYield, LocalBlock, LocalFinish

\* Every step keeps the types.
LEMMA TypeStep ==
  ASSUME Types, [Next]_vars
  PROVE  Types'
<1>1. CASE UNCHANGED vars
  BY <1>1 DEF vars, loop, explorer, clocks, shared, local, Types, TypeOK, Bounds
<1> QED BY <1>1, ChooseTypes, LookTypes, EndTypes, LocalTypes DEF Next, Scheduler

-----------------------------------------------------------------------------
(***************************************************************************)
(* Who owns the locks.                                                     *)
(***************************************************************************)
\* The scheduler takes or gives back a lock that no running process has.
LEMMA OwnLock ==
  ASSUME TypeOK, LockDiscipline, HasLock, Keep \/ GiveBack, lpc' = lpc
  PROVE  LockDiscipline'
<1>1. ProcID \in Procs /\ lpc[ProcID] # "hold"
  BY DEF HasLock, LockDiscipline, TypeOK
<1> QED BY <1>1 DEF Keep, GiveBack, LockDiscipline, TypeOK

\* Every step keeps the lock discipline.
LEMMA LockStep ==
  ASSUME Types, LockDiscipline, [Next]_vars
  PROVE  LockDiscipline'
<1> USE DEF loop, explorer, clocks, shared, local
<1>0. /\ TypeOK /\ lockStatus \in [Procs -> BOOLEAN] /\ Lock \in [Procs -> LockValues]
      /\ lpc \in [Procs -> {"boot", "spin", "hold", "net", "woken", "end", "gone"}]
  BY DEF Types, TypeOK
<1>1. ASSUME Choose
      PROVE  UNCHANGED <<lockStatus, Lock, lpc>>
  BY <1>1 DEF Choose, ChooseRestart, ChooseTimer, ChooseThread, ChooseFromNothing,
              NothingToChoose, ActOn
<1>2. ASSUME Look
      PROVE  \/ UNCHANGED <<lockStatus, Lock, lpc>>
             \/ HasLock /\ (Keep \/ GiveBack) /\ lpc' = lpc
  BY <1>2 DEF Look, PollFinished, PollExecuting, PollComplete, PollInstall,
              PollBlocked, PollWoken, PollNothing, Poll
<1>3. CASE Kill
  BY <1>0, <1>3 DEF Kill, LockDiscipline
<1>4. CASE Restart
  BY <1>4, StartTypes DEF Restart, LockDiscipline
<1>5. ASSUME Finish \/ UNCHANGED vars
      PROVE  UNCHANGED <<lockStatus, Lock, lpc>>
  BY <1>5 DEF Finish, vars
<1>6. ASSUME UNCHANGED <<lockStatus, Lock, lpc>>
      PROVE  LockDiscipline'
  BY <1>6 DEF LockDiscipline
<1>7. ASSUME NEW p \in Procs, Local(p)
      PROVE  LockDiscipline'
  <2>1. CASE LocalStart(p)
    BY <1>0, <2>1 DEF LocalStart, LockDiscipline
  <2>2. CASE LocalAcquire(p)
    BY <1>0, <2>2 DEF LocalAcquire, LockDiscipline
  <2>3. CASE LocalTurn(p)
    <3>1. PICK state \in {"spin", "net", "end"} :
            /\ lpc[p] = "hold" /\ lpc' = [lpc EXCEPT ![p] = state]
            /\ Lock' = [Lock EXCEPT ![p] = "UNLOCKED"] /\ lockStatus' = lockStatus
      BY <2>3 DEF LocalTurn, LocalYield, LocalBlock, LocalFinish, Turn
    <3> QED BY <1>0, <3>1 DEF LockDiscipline
  <2>4. CASE NetWake(p)
    BY <1>0, <2>4 DEF NetWake, LockDiscipline
  <2> QED BY <1>7, <2>1, <2>2, <2>3, <2>4 DEF Local
<1> QED BY <1>0, <1>1, <1>2, <1>3, <1>4, <1>5, <1>6, <1>7, OwnLock DEF Next, Scheduler

-----------------------------------------------------------------------------
(***************************************************************************)
(* A program on one machine: no process ever waits for the network.        *)
(***************************************************************************)
\* Between two actions nothing is installed, so nothing runs and nothing waits
\* to be taken; while one is installed its process runs, or has run.
LocalInv ==
  /\ actionInstalled => ~ actionComplete /\ ProcID # 0
  /\ pc = "poll" => ~ actionComplete
  /\ pc \in {"kill", "restart"} => ~ actionInstalled
  /\ \A p \in Procs :
       /\ lpc[p] \notin {"net", "woken"} /\ ~ isblocked[p]
       /\ Run[p] \notin {BLOCKED, WOKEN}
       /\ lpc[p] = "hold" => Run[p] = EXECUTE
       /\ Run[p] = EXECUTE => actionInstalled /\ p = ProcID
       /\ Log[p] # <<>> => actionInstalled /\ p = ProcID /\ Run[p] # EXECUTE
  /\ executed = IF ProcID = 0 THEN schedule ELSE schedule \o Log[ProcID]

\* With no action installed all logs are empty.
LEMMA NothingInstalled ==
  ASSUME Types, LocalInv, ~ actionInstalled
  PROVE  /\ \A p \in Procs : Log[p] = <<>> /\ Run[p] # EXECUTE /\ lpc[p] # "hold"
         /\ executed = schedule
         /\ \A p \in Procs : executed = schedule \o Log[p]
<1>1. \A p \in Procs : Log[p] = <<>> /\ Run[p] # EXECUTE /\ lpc[p] # "hold"
  BY DEF LocalInv
<1>2. schedule \o <<>> = schedule
  BY DEF Types, TypeOK
<1>3. ProcID \in Procs \cup {0}
  BY DEF Types, TypeOK
<1> QED BY <1>1, <1>2, <1>3 DEF LocalInv

LEMMA LocalChoose ==
  ASSUME Types, LocalInv, Choose
  PROVE  LocalInv'
<1> USE DEF loop, explorer, clocks, shared, local
<1>0. ~ allBlocked
  <2>1. 1 \in Procs
    BY NAssumption DEF Procs
  <2> QED BY <2>1 DEF allBlocked, LocalInv
<1>1. CASE NothingToChoose
  BY <1>0, <1>1 DEF NothingToChoose, LocalInv
<1>2. CASE ~ NothingToChoose
  <2>1. actionComplete /\ ~ actionInstalled
    BY <1>2 DEF Choose, ChooseRestart, ChooseTimer, ChooseThread, ChooseFromNothing,
                NeedsAction, LocalInv
  <2>2. UNCHANGED <<actionInstalled, isblocked, schedule, Run, Log, lpc, executed>>
    BY DEF Choose, ChooseRestart, ChooseTimer, ChooseThread, ChooseFromNothing,
           NothingToChoose, ActOn
  <2>3. ProcID' \in Procs \cup {0}
    BY DEF Choose, ChooseRestart, ChooseTimer, ChooseThread, ChooseFromNothing,
           NothingToChoose, ActOn, Types, TypeOK
  <2>4. pc' = "poll" => ~ actionComplete'
    BY <1>2 DEF Choose, ChooseRestart, ChooseTimer, ChooseThread,
                ChooseFromNothing, ActOn
  <2>5. executed' = IF ProcID' = 0 THEN schedule' ELSE schedule' \o Log'[ProcID']
    BY <2>1, <2>2, <2>3, NothingInstalled
  <2>6. \A p \in Procs : Log[p] = <<>> /\ Run[p] # EXECUTE /\ lpc[p] # "hold"
    BY <2>1, NothingInstalled
  <2> QED BY <2>1, <2>2, <2>4, <2>5, <2>6 DEF LocalInv
<1> QED BY <1>1, <1>2

\* When the process is back its events are taken and no action is installed.
LEMMA LocalComplete ==
  ASSUME Types, LocalInv, ProcID \in Procs, Run[ProcID] # EXECUTE, Complete,
         UNCHANGED <<isblocked, ProcID, Run, lpc, executed>>, pc' \in {"select", "restart"}
  PROVE  LocalInv'
<1>1. /\ Log \in [Procs -> Seq(ExploreEvent)] /\ schedule \in Seq(ExploreEvent)
      /\ executed \in Seq(ExploreEvent) /\ ProcID # 0
  <2>1. 0 \notin Procs
    BY DEF Procs
  <2> QED BY <2>1 DEF Types, TypeOK
<1>2. /\ schedule' = schedule \o Log[ProcID] /\ Log' = [Log EXCEPT ![ProcID] = <<>>]
      /\ ~ actionInstalled'
  BY DEF Complete, Extract
<1>3. schedule' = executed
  BY <1>1, <1>2 DEF LocalInv
<1>4. \A p \in Procs : Log'[p] = <<>>
  BY <1>1, <1>2 DEF LocalInv
<1>5. schedule' \o <<>> = schedule'
  BY <1>1, <1>3
<1> QED BY <1>1, <1>2, <1>3, <1>4, <1>5 DEF LocalInv

LEMMA LocalLook ==
  ASSUME Types, LocalInv, Look
  PROVE  LocalInv'
<1> USE DEF explorer, clocks, local, IDLE, EXECUTE, FINISHED, BLOCKED, WOKEN
<1>1. HasLock => ProcID \in Procs /\ ProcID # 0
  BY DEF HasLock, Types, TypeOK
<1>2. CASE PollFinished
  BY <1>1, <1>2, LocalComplete DEF PollFinished
<1>3. CASE PollExecuting
  BY <1>3 DEF PollExecuting, Poll, LocalInv
<1>4. CASE PollComplete
  BY <1>1, <1>4, LocalComplete DEF PollComplete, Poll
<1>5. CASE PollInstall
  <2>1. \A p \in Procs : Log[p] = <<>> /\ Run[p] # EXECUTE /\ lpc[p] # "hold"
    BY <1>5, NothingInstalled DEF PollInstall
  <2>2. Run \in [Procs -> RunValues]
    BY DEF Types, TypeOK
  <2> QED BY <1>1, <1>5, <2>1, <2>2 DEF PollInstall, Poll, LocalInv
<1>6. ~ PollBlocked /\ ~ PollWoken
  BY <1>1 DEF PollBlocked, PollWoken, Poll, LocalInv
<1>7. CASE PollNothing
  BY <1>7 DEF PollNothing, LocalInv
<1> QED BY <1>2, <1>3, <1>4, <1>5, <1>6, <1>7 DEF Look

LEMMA LocalEnd ==
  ASSUME Types, LocalInv, Kill \/ Restart \/ Finish
  PROVE  LocalInv'
<1> USE DEF loop, explorer, clocks, shared, local
<1>1. ~ actionInstalled
  BY DEF Kill, Restart, Finish, LocalInv
<1>2. /\ \A p \in Procs : Log[p] = <<>> /\ Run[p] # EXECUTE /\ lpc[p] # "hold"
      /\ executed = schedule
  BY <1>1, NothingInstalled
<1>3. CASE Kill
  BY <1>1, <1>2, <1>3 DEF Kill, LocalInv
<1>4. CASE Restart
  <2>1. \A p \in Procs : Run'[p] = IDLE /\ ~ isblocked'[p] /\ lpc'[p] = "boot"
    BY <1>4, StartTypes DEF Restart
  <2> QED BY <1>2, <1>4, <2>1 DEF Restart, LocalInv, IDLE, EXECUTE, BLOCKED, WOKEN
<1>5. CASE Finish
  BY <1>1, <1>5 DEF Finish, LocalInv
<1> QED BY <1>3, <1>4, <1>5

LEMMA LocalRun ==
  ASSUME Types, LocalInv, program = "local", NEW p \in Procs, Local(p)
  PROVE  LocalInv'
<1> USE DEF loop, explorer, clocks, IDLE, EXECUTE, FINISHED, BLOCKED, WOKEN
<1>0. /\ lpc \in [Procs -> {"boot", "spin", "hold", "net", "woken", "end", "gone"}]
      /\ Run \in [Procs -> RunValues] /\ Log \in [Procs -> Seq(ExploreEvent)]
      /\ schedule \in Seq(ExploreEvent)
  BY DEF Types, TypeOK
<1>1. CASE LocalStart(p)
  BY <1>0, <1>1 DEF LocalStart, LocalInv
<1>2. CASE LocalAcquire(p)
  BY <1>0, <1>2 DEF LocalAcquire, LocalInv
<1>3. CASE LocalTurn(p)
  <2>1. PICK r \in {IDLE, FINISHED}, state \in {"spin", "end"} : Turn(p, r, state)
    BY <1>3 DEF LocalTurn, LocalYield, LocalBlock, LocalFinish
  <2>2. PICK e \in ExploreEvent :
          /\ executed' = Append(executed, e)
          /\ Log' = [Log EXCEPT ![p] = Append(Log[p], e)]
    BY <2>1, TurnEvent DEF Types
  <2>3. /\ lpc[p] = "hold" /\ Run[p] = EXECUTE /\ actionInstalled /\ p = ProcID
        /\ ProcID # 0 /\ Log[p] = <<>> /\ executed = schedule \o <<>>
    <3>1. lpc[p] = "hold"
      BY <2>1 DEF Turn
    <3> QED BY <3>1 DEF LocalInv
  <2>4. /\ Run' = [Run EXCEPT ![p] = r] /\ lpc' = [lpc EXCEPT ![p] = state]
        /\ UNCHANGED <<pc, actionInstalled, actionComplete, ProcID, isblocked, schedule>>
    BY <2>1 DEF Turn
  <2>5. executed' = schedule' \o Log'[ProcID']
    <3>1. Append(schedule \o <<>>, e) = schedule \o Append(<<>>, e)
      BY <1>0
    <3>2. Log'[p] = Append(<<>>, e)
      BY <1>0, <2>2, <2>3
    <3> QED BY <2>2, <2>3, <2>4, <3>1, <3>2
  <2> QED BY <1>0, <2>2, <2>3, <2>4, <2>5 DEF LocalInv
<1>4. ~ NetWake(p)
  BY DEF NetWake, LocalInv
<1> QED BY <1>1, <1>2, <1>3, <1>4 DEF Local

\* No step changes the program.
LEMMA ProgramFixed == [Next]_vars => program' = program
BY DEF Next, Scheduler, Choose, Look, ChooseRestart, ChooseTimer, ChooseThread,
       ChooseFromNothing, NothingToChoose, ActOn, PollFinished, PollExecuting,
       PollComplete, PollInstall, PollBlocked, PollWoken, PollNothing, Kill,
       Restart, Finish, Local, LocalStart, LocalAcquire, LocalTurn, LocalYield,
       LocalBlock, LocalFinish, Turn, NetWake, local, vars

\* Every step of a local program keeps the invariant.
LEMMA LocalStep ==
  ASSUME Types, program = "local" => LocalInv, [Next]_vars
  PROVE  (program = "local" => LocalInv)'
<1>1. program' = program
  BY ProgramFixed
<1>2. UNCHANGED vars /\ LocalInv => LocalInv'
  BY DEF vars, loop, explorer, clocks, shared, local, LocalInv
<1> QED BY <1>1, <1>2, LocalChoose, LocalLook, LocalEnd, LocalRun DEF Next, Scheduler

-----------------------------------------------------------------------------
(***************************************************************************)
(* The order of the events.                                                *)
(***************************************************************************)
\* The events of q in s happened before those in t.
Before(q, s, t) ==
  \A j \in DOMAIN s, k \in DOMAIN t :
    s[j].P = q /\ t[k].P = q => s[j].n < t[k].n

\* A process logs its own events, and events are numbered as they happen.
Numbered ==
  /\ \A p \in Procs : \A k \in DOMAIN Log[p] : Log[p][k].P = p
  /\ \A k \in DOMAIN executed : executed[k].n = k

\* Each event of q was taken or waits in its log, in the order they happened.
Kept(q) ==
  /\ EventsOf(q, executed) = EventsOf(q, schedule) \cup EventsOf(q, Log[q])
  /\ InOrder(q, schedule) /\ InOrder(q, Log[q]) /\ Before(q, schedule, Log[q])

OrderInv ==
  program = "local" \/ current_run = 0 => \A q \in Procs : Kept(q)

\* The events of a sequence of events that is made of two.
LEMMA Joined ==
  ASSUME NEW s \in Seq(ExploreEvent), NEW t \in Seq(ExploreEvent), NEW q
  PROVE  /\ EventsOf(q, s \o t) = EventsOf(q, s) \cup EventsOf(q, t)
         /\ InOrder(q, s) /\ InOrder(q, t) /\ Before(q, s, t) => InOrder(q, s \o t)
<1>1. PICK a \in Nat, b \in Nat : a = Len(s) /\ b = Len(t)
  OBVIOUS
<1>2. PICK u : u = s \o t
  OBVIOUS
<1>3. /\ DOMAIN u = 1 .. a + b /\ DOMAIN s = 1 .. a /\ DOMAIN t = 1 .. b
      /\ \A k \in 1 .. a : u[k] = s[k]
      /\ \A k \in 1 .. b : u[a + k] = t[k]
      /\ \A k \in a + 1 .. a + b : u[k] = t[k - a]
  <2>1. /\ u \in Seq(ExploreEvent) /\ Len(u) = a + b
        /\ \A k \in 1 .. a + b : u[k] = IF k <= a THEN s[k] ELSE t[k - a]
    BY <1>1, <1>2, ConcatProperties
  <2>2. \A k \in 1 .. b : a + k \in 1 .. a + b /\ ~ (a + k <= a) /\ (a + k) - a = k
    OBVIOUS
  <2>3. DOMAIN u = 1 .. a + b /\ DOMAIN s = 1 .. a /\ DOMAIN t = 1 .. b
    BY <1>1, <2>1
  <2>4. ASSUME NEW k \in 1 .. a
        PROVE  u[k] = s[k]
    <3>1. k \in 1 .. a + b /\ k <= a
      OBVIOUS
    <3> QED BY <2>1, <3>1
  <2>5. ASSUME NEW k \in 1 .. b
        PROVE  u[a + k] = t[k]
    BY <2>1, <2>2
  <2>6. ASSUME NEW k \in a + 1 .. a + b
        PROVE  u[k] = t[k - a]
    <3>1. k \in 1 .. a + b /\ ~ (k <= a)
      OBVIOUS
    <3> QED BY <2>1, <3>1
  <2> QED BY <2>3, <2>4, <2>5, <2>6
<1>4. EventsOf(q, u) = EventsOf(q, s) \cup EventsOf(q, t)
  <2>1. ASSUME NEW k \in 1 .. a + b
        PROVE  u[k] \in {s[j] : j \in 1 .. a} \cup {t[j] : j \in 1 .. b}
    <3>1. k <= a => k \in 1 .. a
      OBVIOUS
    <3>2. ~ (k <= a) => k - a \in 1 .. b /\ k \in a + 1 .. a + b
      OBVIOUS
    <3> QED BY <1>3, <3>1, <3>2
  <2>2. \A j \in 1 .. a : s[j] \in {u[k] : k \in 1 .. a + b}
    <3>1. \A j \in 1 .. a : j \in 1 .. a + b
      OBVIOUS
    <3> QED BY <1>3, <3>1
  <2>3. \A j \in 1 .. b : t[j] \in {u[k] : k \in 1 .. a + b}
    <3>1. \A j \in 1 .. b : a + j \in 1 .. a + b
      OBVIOUS
    <3> QED BY <1>3, <3>1
  <2>4. {u[k] : k \in 1 .. a + b} = {s[j] : j \in 1 .. a} \cup {t[j] : j \in 1 .. b}
    BY <2>1, <2>2, <2>3
  <2> QED BY <1>3, <2>4 DEF EventsOf
<1>5. ASSUME InOrder(q, s), InOrder(q, t), Before(q, s, t),
             NEW j \in 1 .. a + b, NEW k \in 1 .. a + b,
             j < k, u[j].P = q, u[k].P = q
      PROVE  u[j].n < u[k].n
  <2>1. CASE k <= a
    <3>1. j \in 1 .. a /\ k \in 1 .. a
      BY <1>5, <2>1
    <3> QED BY <1>3, <1>5, <3>1 DEF InOrder
  <2>2. CASE j <= a /\ ~ (k <= a)
    <3>1. j \in 1 .. a /\ k - a \in 1 .. b /\ k \in a + 1 .. a + b
      BY <1>5, <2>2
    <3>2. u[j] = s[j] /\ u[k] = t[k - a]
      BY <1>3, <3>1
    <3>3. s[j].P = q /\ t[k - a].P = q => s[j].n < t[k - a].n
      BY <1>3, <1>5, <3>1 DEF Before
    <3> QED BY <1>5, <3>2, <3>3
  <2>3. CASE ~ (j <= a)
    <3>1. /\ j - a \in 1 .. b /\ k - a \in 1 .. b /\ j - a < k - a
          /\ j \in a + 1 .. a + b /\ k \in a + 1 .. a + b
      BY <1>5, <2>3
    <3>2. u[j] = t[j - a] /\ u[k] = t[k - a]
      BY <1>3, <3>1
    <3>3. t[j - a].P = q /\ t[k - a].P = q => t[j - a].n < t[k - a].n
      BY <1>3, <1>5, <3>1 DEF InOrder
    <3> QED BY <1>5, <3>2, <3>3
  <2> QED BY <2>1, <2>2, <2>3
<1> QED BY <1>2, <1>3, <1>4, <1>5 DEF InOrder

\* Sequences with no event, with one, or with none of the process.
LEMMA SmallCases ==
  ASSUME NEW q
  PROVE  /\ EventsOf(q, <<>>) = {} /\ InOrder(q, <<>>)
         /\ \A s : Before(q, s, <<>>)
         /\ \A e : /\ EventsOf(q, <<e>>) = IF e.P = q THEN {e} ELSE {}
                  /\ InOrder(q, <<e>>)
         /\ \A s, t : (\A k \in DOMAIN t : t[k].P # q) =>
              EventsOf(q, t) = {} /\ InOrder(q, t) /\ Before(q, s, t)
<1>1. EventsOf(q, <<>>) = {} /\ InOrder(q, <<>>) /\ \A s : Before(q, s, <<>>)
  BY DEF EventsOf, InOrder, Before
<1>2. ASSUME NEW e
      PROVE  EventsOf(q, <<e>>) = (IF e.P = q THEN {e} ELSE {}) /\ InOrder(q, <<e>>)
  <2>1. DOMAIN <<e>> = {1} /\ <<e>>[1] = e
    OBVIOUS
  <2> QED BY <2>1 DEF EventsOf, InOrder
<1>3. ASSUME NEW s, NEW t, \A k \in DOMAIN t : t[k].P # q
      PROVE  EventsOf(q, t) = {} /\ InOrder(q, t) /\ Before(q, s, t)
  BY <1>3 DEF EventsOf, InOrder, Before
<1> QED BY <1>1, <1>2, <1>3

\* What the scheduler takes comes after what it has taken before.
LEMMA ExtractStep ==
  ASSUME Types, Numbered, OrderInv, ProcID \in Procs, Extract, executed' = executed,
         program' = program, current_run' = current_run \/ current_run' # 0
  PROVE  Numbered' /\ OrderInv'
<1>0. /\ Log \in [Procs -> Seq(ExploreEvent)] /\ schedule \in Seq(ExploreEvent)
      /\ schedule' = schedule \o Log[ProcID] /\ Log' = [Log EXCEPT ![ProcID] = <<>>]
  BY DEF Types, TypeOK, Extract
<1>1. Numbered'
  BY <1>0 DEF Numbered
<1>2. ASSUME NEW q \in Procs, Kept(q)
      PROVE  Kept(q)'
  <2>1. /\ EventsOf(q, schedule') = EventsOf(q, schedule) \cup EventsOf(q, Log[ProcID])
        /\ InOrder(q, schedule) /\ InOrder(q, Log[ProcID])
              /\ Before(q, schedule, Log[ProcID]) => InOrder(q, schedule')
    BY <1>0, Joined
  <2>2. CASE q = ProcID
    <3>1. Log'[q] = <<>>
      BY <1>0, <2>2
    <3> QED BY <1>2, <2>1, <2>2, <3>1, SmallCases DEF Kept
  <2>3. CASE q # ProcID
    <3>1. Log'[q] = Log[q] /\ \A k \in DOMAIN Log[ProcID] : Log[ProcID][k].P # q
      BY <1>0, <2>3 DEF Numbered
    <3>2. EventsOf(q, schedule') = EventsOf(q, schedule) /\ InOrder(q, schedule')
      BY <1>2, <2>1, <3>1, SmallCases DEF Kept
    <3>3. Before(q, schedule', Log[q])
      <4>1. ASSUME NEW j \in DOMAIN schedule', schedule'[j].P = q
            PROVE  \E l \in DOMAIN schedule : schedule[l] = schedule'[j]
        <5>1. schedule'[j] \in EventsOf(q, schedule')
          BY <4>1 DEF EventsOf
        <5>2. schedule'[j] \in EventsOf(q, schedule)
          BY <3>2, <5>1
        <5> QED BY <5>2 DEF EventsOf
      <4> QED BY <1>2, <4>1 DEF Kept, Before
    <3> QED BY <1>2, <3>1, <3>2, <3>3 DEF Kept
  <2> QED BY <2>2, <2>3
<1> QED BY <1>1, <1>2 DEF OrderInv

\* What happens comes after all that happened before.
LEMMA RunStep ==
  ASSUME Types, Numbered, OrderInv, NEW p \in Procs, NEW e \in ExploreEvent,
         e.P = p, e.n = Len(executed) + 1, executed' = Append(executed, e),
         Log' = [Log EXCEPT ![p] = Append(Log[p], e)],
         UNCHANGED <<schedule, program, current_run>>
  PROVE  Numbered' /\ OrderInv'
<1>0. /\ Log \in [Procs -> Seq(ExploreEvent)] /\ executed \in Seq(ExploreEvent)
      /\ schedule \in Seq(ExploreEvent) /\ Log[p] \in Seq(ExploreEvent)
      /\ <<e>> \in Seq(ExploreEvent) /\ Len(executed) \in Nat
  BY DEF Types, TypeOK
<1>1. executed' = executed \o <<e>> /\ Log'[p] = Log[p] \o <<e>>
  BY <1>0
<1>2. Numbered'
  <2>1. \A k \in DOMAIN executed' : executed'[k].n = k
    BY <1>0 DEF Numbered
  <2>2. ASSUME NEW q \in Procs, NEW k \in DOMAIN Log'[q]
        PROVE  Log'[q][k].P = q
    BY <1>0 DEF Numbered
  <2> QED BY <2>1, <2>2 DEF Numbered
<1>3. \A x \in EventsOf(p, executed) : x.n < e.n
  <2>1. ASSUME NEW k \in DOMAIN executed
        PROVE  executed[k].n < e.n
    BY <1>0 DEF Numbered
  <2> QED BY <2>1 DEF EventsOf
<1>4. ASSUME NEW q \in Procs, Kept(q)
      PROVE  Kept(q)'
  <2>1. EventsOf(q, executed') = EventsOf(q, executed) \cup EventsOf(q, <<e>>)
    <3>1. EventsOf(q, executed \o <<e>>) = EventsOf(q, executed) \cup EventsOf(q, <<e>>)
      <4>1. executed \in Seq(ExploreEvent) /\ <<e>> \in Seq(ExploreEvent)
        BY <1>0
      <4> QED BY <4>1, Joined, Zenon
    <3> QED BY <1>1, <3>1, Zenon
  <2>2. CASE q = p
    <3>1. /\ EventsOf(q, Log'[q]) = EventsOf(q, Log[q]) \cup EventsOf(q, <<e>>)
          /\ InOrder(q, Log[q]) /\ InOrder(q, <<e>>) /\ Before(q, Log[q], <<e>>)
               => InOrder(q, Log'[q])
      <4>1. /\ EventsOf(q, Log[p] \o <<e>>) = EventsOf(q, Log[p]) \cup EventsOf(q, <<e>>)
            /\ InOrder(q, Log[p]) /\ InOrder(q, <<e>>) /\ Before(q, Log[p], <<e>>)
                 => InOrder(q, Log[p] \o <<e>>)
        BY <1>0, Joined, Zenon
      <4> QED BY <1>1, <2>2, <4>1, Zenon
    <3>2. EventsOf(q, Log[q]) \subseteq EventsOf(q, executed)
          /\ EventsOf(q, schedule) \subseteq EventsOf(q, executed)
      BY <1>4 DEF Kept
    <3>3. Before(q, Log[q], <<e>>) /\ InOrder(q, <<e>>)
      <4>1. ASSUME NEW j \in DOMAIN Log[q], Log[q][j].P = q
            PROVE  Log[q][j].n < e.n
        <5>1. Log[q][j] \in EventsOf(q, Log[q])
          BY <4>1 DEF EventsOf
        <5> QED BY <1>3, <2>2, <3>2, <5>1
      <4>2. DOMAIN <<e>> = {1} /\ <<e>>[1] = e
        OBVIOUS
      <4> QED BY <4>1, <4>2, SmallCases DEF Before
    <3>4. Before(q, schedule, Log'[q])
      <4>1. ASSUME NEW j \in DOMAIN schedule, schedule[j].P = q
            PROVE  schedule[j].n < e.n
        <5>1. schedule[j] \in EventsOf(q, schedule)
          BY <4>1 DEF EventsOf
        <5> QED BY <1>3, <2>2, <3>2, <5>1
      <4>2. ASSUME NEW k \in DOMAIN Log'[q]
            PROVE  \/ k \in DOMAIN Log[q] /\ Log'[q][k] = Log[q][k]
                   \/ Log'[q][k] = e
        BY <1>0, <2>2
      <4> QED BY <1>4, <4>1, <4>2 DEF Kept, Before
    <3> QED BY <1>4, <2>1, <3>1, <3>3, <3>4 DEF Kept
  <2>3. CASE q # p
    <3>1. Log'[q] = Log[q] /\ EventsOf(q, <<e>>) = {}
      BY <1>0, <2>3, SmallCases
    <3> QED BY <1>4, <2>1, <3>1 DEF Kept
  <2> QED BY <2>2, <2>3
<1> QED BY <1>2, <1>4 DEF OrderInv

\* Every step keeps the order; a new run starts with empty logs if nobody waited
\* for the network.
LEMMA OrderStep ==
  ASSUME Types, program = "local" => LocalInv, Numbered, OrderInv, [Next]_vars
  PROVE  Numbered' /\ OrderInv'
<1> USE DEF loop, explorer, clocks, shared, local
<1>1. ASSUME UNCHANGED <<executed, schedule, Log, program>>,
             current_run' = current_run \/ current_run' # 0
      PROVE  Numbered' /\ OrderInv'
  BY <1>1 DEF Numbered, OrderInv, Kept
<1>2. ASSUME Choose \/ Finish \/ UNCHANGED vars
      PROVE  UNCHANGED <<executed, schedule, Log, program, current_run>>
  BY <1>2 DEF Choose, ChooseRestart, ChooseTimer, ChooseThread, ChooseFromNothing,
              NothingToChoose, ActOn, Finish, vars
<1>3. CASE Kill
  <2>1. current_run' # 0
    BY <1>3 DEF Kill, Types, TypeOK
  <2> QED BY <1>1, <1>3, <2>1 DEF Kill
<1>4. CASE Look
  <2>1. UNCHANGED <<executed, program>> /\ (current_run' = current_run \/ current_run' # 0)
    BY <1>4 DEF Look, PollFinished, PollExecuting, PollComplete, PollInstall,
                PollBlocked, PollWoken, PollNothing, Types, TypeOK
  <2>2. UNCHANGED <<schedule, Log>> \/ (ProcID \in Procs /\ Extract)
    BY <1>4 DEF Look, PollFinished, PollExecuting, PollComplete, PollInstall,
                PollBlocked, PollWoken, PollNothing, Poll, HasLock, Complete,
                Types, TypeOK
  <2> QED BY <1>1, <2>1, <2>2, ExtractStep
<1>5. CASE Restart
  <2>1. current_run' # 0 /\ program' = program /\ Log' = Log
        /\ schedule' = <<>> /\ executed' = <<>>
    BY <1>5 DEF Restart, Types, Bounds
  <2>2. Numbered'
    BY <2>1 DEF Numbered
  <2>3. ASSUME program = "local", NEW q \in Procs
        PROVE  Kept(q)'
    <3>1. ~ actionInstalled
      BY <1>5, <2>3 DEF Restart, LocalInv
    <3>2. Log'[q] = <<>>
      BY <2>1, <2>3, <3>1, NothingInstalled
    <3> QED BY <2>1, <3>2, SmallCases DEF Kept
  <2> QED BY <2>1, <2>2, <2>3 DEF OrderInv
<1>6. ASSUME NEW p \in Procs, Local(p)
      PROVE  Numbered' /\ OrderInv'
  <2>1. CASE LocalStart(p) \/ LocalAcquire(p) \/ NetWake(p)
    BY <1>1, <2>1 DEF LocalStart, LocalAcquire, NetWake
  <2>2. CASE LocalTurn(p)
    <3>1. PICK r, state : Turn(p, r, state)
      BY <2>2 DEF LocalTurn, LocalYield, LocalBlock, LocalFinish
    <3>2. UNCHANGED <<schedule, program, current_run>>
      BY <3>1 DEF Turn
    <3> QED BY <3>1, <3>2, TurnEvent, RunStep DEF Types
  <2> QED BY <1>6, <2>1, <2>2 DEF Local
<1> QED BY <1>1, <1>2, <1>3, <1>4, <1>5, <1>6 DEF Next, Scheduler

-----------------------------------------------------------------------------
\* Path s goes through path t and beyond it.
Beyond(s, t) == Len(s) > Len(t) /\ SubSeq(s, 1, Len(t)) = t

\* The paths that were seen are a tree, and the one under way is in it.  Once it
\* has left what was there before the run, nothing that was seen goes beyond it.
PathInv ==
  /\ \A s \in visitedScheds : \A k \in 1 .. Len(s) : SubSeq(s, 1, k) \in visitedScheds
  /\ currentSchedule # <<>> => currentSchedule \in visitedScheds
  /\ currentDepth > 0 => \A s \in visitedScheds : ~ Beyond(s, currentSchedule)

\* A path with one more action goes beyond what it was, and nothing that was
\* seen goes beyond one that was not.
LEMMA PathFacts ==
  ASSUME TypeOK, PathInv, NEW a \in Actions
  PROVE  LET path == Append(currentSchedule, a)
         IN  /\ path \in Seq(Actions) /\ path # <<>> /\ Beyond(path, currentSchedule)
             /\ \A k \in 1 .. Len(path) : SubSeq(path, 1, k) \in visitedScheds \cup {path}
             /\ \A s \in visitedScheds : Beyond(s, path) =>
                  path \in visitedScheds /\ Beyond(s, currentSchedule)
<1> DEFINE path == Append(currentSchedule, a)
           n    == Len(currentSchedule)
<1>1. currentSchedule \in Seq(Actions) /\ n \in Nat /\ visitedScheds \subseteq Seq(Actions)
  BY DEF TypeOK
<1>2. /\ path \in Seq(Actions) /\ path # <<>> /\ Len(path) = n + 1
      /\ \A k \in 1 .. n : path[k] = currentSchedule[k]
  BY <1>1
<1>3. \A k \in 1 .. n : SubSeq(path, 1, k) = SubSeq(currentSchedule, 1, k)
  BY <1>1, <1>2
<1>4. SubSeq(path, 1, n) = currentSchedule /\ SubSeq(path, 1, n + 1) = path
  BY <1>1, <1>2
<1>5. ASSUME NEW k \in 1 .. Len(path)
      PROVE  SubSeq(path, 1, k) \in visitedScheds \cup {path}
  <2>1. CASE k = n + 1
    BY <1>4, <2>1
  <2>2. CASE k \in 1 .. n
    <3>1. currentSchedule \in visitedScheds
      BY <1>1, <2>2 DEF PathInv
    <3> QED BY <1>3, <2>2, <3>1 DEF PathInv
  <2> QED BY <1>1, <1>2, <2>1, <2>2
<1>6. ASSUME NEW s \in visitedScheds, Beyond(s, path)
      PROVE  path \in visitedScheds /\ Beyond(s, currentSchedule)
  <2>1. s \in Seq(Actions) /\ Len(s) > n + 1 /\ SubSeq(s, 1, n + 1) = path
    BY <1>1, <1>2, <1>6 DEF Beyond
  <2>2. path \in visitedScheds
    <3>1. n + 1 \in 1 .. Len(s)
      BY <1>1, <2>1
    <3>2. SubSeq(s, 1, n + 1) \in visitedScheds
      BY <3>1 DEF PathInv
    <3> QED BY <2>1, <3>2
  <2>3. SubSeq(s, 1, n) = SubSeq(path, 1, n)
    BY <1>1, <2>1
  <2> QED BY <1>1, <1>4, <2>1, <2>2, <2>3 DEF Beyond
<1> QED BY <1>1, <1>2, <1>4, <1>5, <1>6 DEF Beyond

LEMMA VisitPath ==
  ASSUME TypeOK, PathInv, NEW a \in Actions, Visit(a)
  PROVE  /\ PathInv'
         /\ currentDepth > 0 => currentSchedule' \notin visitedScheds
<1> DEFINE path == Append(currentSchedule, a)
<1>1. /\ path \in Seq(Actions) /\ path # <<>> /\ Beyond(path, currentSchedule)
      /\ \A k \in 1 .. Len(path) : SubSeq(path, 1, k) \in visitedScheds \cup {path}
      /\ \A s \in visitedScheds : Beyond(s, path) =>
           path \in visitedScheds /\ Beyond(s, currentSchedule)
  BY PathFacts
<1>2. /\ currentSchedule' = path /\ visitedScheds' = visitedScheds \cup {path}
      /\ currentDepth' = IF path \in visitedScheds THEN currentDepth ELSE currentDepth + 1
  BY DEF Visit
<1> HIDE DEF path
<1>3. currentDepth > 0 => path \notin visitedScheds
  BY <1>1 DEF PathInv
<1>4. ASSUME currentDepth' > 0, NEW s \in visitedScheds \cup {path}
      PROVE  ~ Beyond(s, path)
  <2>1. ~ Beyond(path, path)
    BY <1>1 DEF Beyond
  <2>2. path \notin visitedScheds
    BY <1>2, <1>3, <1>4
  <2> QED BY <1>1, <2>1, <2>2
<1>5. PathInv'
  <2>1. \A s \in visitedScheds' : \A k \in 1 .. Len(s) : SubSeq(s, 1, k) \in visitedScheds'
    BY <1>1, <1>2 DEF PathInv
  <2>2. currentDepth' > 0 => \A s \in visitedScheds' : ~ Beyond(s, currentSchedule')
    BY <1>2, <1>4
  <2> QED BY <1>2, <2>1, <2>2 DEF PathInv, Beyond
<1> QED BY <1>2, <1>3, <1>5

\* At the end of a run the path under way has been seen, or is empty.
LEMMA RestartPath ==
  ASSUME PathInv, RestartExploration
  PROVE  PathInv' /\ Len(currentSchedule') = 0
BY DEF RestartExploration, PathInv

\* Every other step leaves the path alone.
LEMMA PathStep ==
  ASSUME TypeOK, PathInv, [Next]_vars
  PROVE  /\ PathInv'
         /\ currentDepth > 0 /\ Len(currentSchedule') > Len(currentSchedule)
              => currentSchedule' \notin visitedScheds
<1>0. Len(currentSchedule) \in Nat
  BY DEF TypeOK
<1>1. CASE UNCHANGED <<currentSchedule, visitedScheds, currentDepth>>
  BY <1>0, <1>1 DEF PathInv
<1>2. CASE RestartExploration
  BY <1>0, <1>2, RestartPath
<1>3. CASE \E a \in Actions : Visit(a)
  BY <1>3, VisitPath
<1>4. CASE Choose
  <2>1. CASE ChooseRestart
    BY <1>2, <2>1 DEF ChooseRestart
  <2>2. CASE ChooseFromNothing \/ NothingToChoose
    BY <1>1, <2>2 DEF ChooseFromNothing, NothingToChoose, explorer
  <2>3. ASSUME NEW p \in Procs, ChooseTimer(p)
        PROVE  \E a \in Actions : Visit(a)
    BY <2>3, ActionFacts DEF ChooseTimer
  <2>4. ASSUME NEW p \in Procs, NEW g \in GoRoutines, ChooseThread(p, g)
        PROVE  \E a \in Actions : Visit(a)
    BY <2>4, ActionFacts DEF ChooseThread
  <2> QED BY <1>3, <1>4, <2>1, <2>2, <2>3, <2>4 DEF Choose
<1>5. CASE Look
  <2>1. CASE PollFinished
    BY <1>1, <1>2, <2>1 DEF PollFinished, explorer
  <2> QED BY <1>1, <1>5, <2>1 DEF Look, PollExecuting, PollComplete, PollInstall, PollBlocked,
                                  PollWoken, PollNothing, explorer
<1>6. CASE Kill \/ Restart \/ Finish
  BY <1>1, <1>6 DEF Kill, Restart, Finish, explorer
<1>7. ASSUME NEW p \in Procs, Local(p)
      PROVE  UNCHANGED <<currentSchedule, visitedScheds, currentDepth>>
  BY <1>7 DEF Local, LocalStart, LocalAcquire, LocalTurn, LocalYield, LocalBlock,
              LocalFinish, Turn, NetWake, explorer
<1>8. CASE UNCHANGED vars
  BY <1>1, <1>8 DEF vars, explorer
<1> QED BY <1>1, <1>4, <1>5, <1>6, <1>7, <1>8 DEF Next, Scheduler

-----------------------------------------------------------------------------
Inv ==
  /\ Types /\ LockDiscipline /\ (program = "local" => LocalInv)
  /\ Numbered /\ OrderInv

LEMMA InvInit ==
  ASSUME Init
  PROVE  Inv
<1>1. Types
  BY TypesInit
<1>2. LockDiscipline
  BY StartTypes DEF Init, LockDiscipline
<1>3. /\ \A p \in Procs : /\ lpc[p] = "boot" /\ ~ isblocked[p] /\ Run[p] = IDLE
                         /\ Log[p] = <<>>
      /\ executed = <<>> /\ schedule = <<>>
  BY StartTypes DEF Init
<1>4. LocalInv
  BY <1>3 DEF Init, LocalInv, IDLE, EXECUTE, BLOCKED, WOKEN
<1>5. Numbered
  BY <1>3 DEF Numbered
<1>6. OrderInv
  BY <1>3, SmallCases DEF OrderInv, Kept
<1> QED BY <1>1, <1>2, <1>4, <1>5, <1>6 DEF Inv

LEMMA ExploreInvariance == Spec => []Inv
<1>1. Inv /\ [Next]_vars => Inv'
  <2> SUFFICES ASSUME Inv, [Next]_vars
               PROVE  Inv'
    OBVIOUS
  <2>1. Types' /\ LockDiscipline'
    BY TypeStep, LockStep DEF Inv
  <2>2. (program = "local" => LocalInv)'
    BY LocalStep DEF Inv
  <2>3. Numbered' /\ OrderInv'
    BY OrderStep DEF Inv
  <2> QED BY <2>1, <2>2, <2>3 DEF Inv
<1> QED BY <1>1, InvInit, PTL DEF Spec

\* Every variable of the exploration keeps its type: the runs and the depth stay
\* within their limits.
THEOREM ExploreTyping == Spec => []TypeOK
<1>1. Inv => TypeOK
  BY DEF Inv, Types
<1> QED BY <1>1, ExploreInvariance, PTL

\* What lockStatus says of a lock is true, and nobody runs without its lock.
THEOREM ExploreLocks == Spec => []LockDiscipline
<1>1. Inv => LockDiscipline
  BY DEF Inv
<1> QED BY <1>1, ExploreInvariance, PTL

\* In a program on one machine one process runs at a time, and only to carry out
\* the action that was installed on it.
THEOREM ExploreSerial == Spec => []SerialExplore
<1>1. Inv => SerialExplore
  BY DEF Inv, LocalInv, SerialExplore
<1> QED BY <1>1, ExploreInvariance, PTL

\* No event is lost, taken twice or taken out of order.
THEOREM ExploreOrder == Spec => []TakenInOrder
<1>1. Inv => TakenInOrder
  <2> SUFFICES ASSUME Inv
               PROVE  TakenInOrder
    OBVIOUS
  <2>0. /\ Log \in [Procs -> Seq(ExploreEvent)] /\ schedule \in Seq(ExploreEvent)
        /\ ProcID \in Procs \cup {0}
    BY DEF Inv, Types, TypeOK
  <2>1. ASSUME NEW p \in Procs, Kept(p)
        PROVE  /\ EventsOf(p, schedule \o Log[p]) = EventsOf(p, executed)
               /\ InOrder(p, schedule \o Log[p])
    BY <2>0, <2>1, Joined DEF Kept
  <2>2. ASSUME program = "local"
        PROVE  schedule = SubSeq(executed, 1, Len(schedule))
    <3>1. PICK t \in Seq(ExploreEvent) : executed = schedule \o t
      <4>1. ProcID # 0 => executed = schedule \o Log[ProcID]
        BY <2>2 DEF Inv, LocalInv
      <4>2. ProcID = 0 => executed = schedule \o <<>>
        BY <2>0, <2>2 DEF Inv, LocalInv
      <4>3. <<>> \in Seq(ExploreEvent) /\ (ProcID # 0 => Log[ProcID] \in Seq(ExploreEvent))
        BY <2>0
      <4> QED BY <4>1, <4>2, <4>3
    <3> QED BY <2>0, <3>1
  <2> QED BY <2>1, <2>2 DEF Inv, OrderInv, TakenInOrder
<1> QED BY <1>1, ExploreInvariance, PTL

\* A run that has left the paths of earlier runs never comes back to one, in
\* whatever order the explorer fires timers and chooses goroutines.
THEOREM ExplorePaths == Spec => LeavesForGood
<1>1. Init => PathInv
  BY DEF Init, PathInv
<1>2. TypeOK /\ PathInv /\ [Next]_vars =>
        /\ PathInv'
        /\ [currentDepth > 0 /\ Len(currentSchedule') > Len(currentSchedule)
              => currentSchedule' \notin visitedScheds]_vars
  BY PathStep
<1> QED BY <1>1, <1>2, ExploreTyping, PTL DEF Spec, LeavesForGood

-----------------------------------------------------------------------------
\* Every step of exploring a local program is a step of Serial, or none at all.
LEMMA SerialStep ==
  ASSUME Inv, Inv', program = "local", [Next]_vars
  PROVE  [Abstract!SerialNext \/ Abstract!NewRun]_(Abstract!serialvars)
<1> DEFINE waits == IF ProcID = 0 THEN <<>> ELSE OfLocal(Log[ProcID])
<1> USE DEF OfLocal
<1>1. /\ Types /\ LocalInv /\ 0 \notin Procs
      /\ ProcID \in Procs \cup {0} /\ ProcID' \in Procs \cup {0}
      /\ Log \in [Procs -> Seq(ExploreEvent)] /\ schedule \in Seq(ExploreEvent)
      /\ program' = "local"
  <2>1. program' = program
    BY ProgramFixed
  <2> QED BY <2>1 DEF Inv, Types, TypeOK, Procs
<1>2. CASE UNCHANGED <<schedule, ProcID, Log>>
  BY <1>1, <1>2 DEF Abstract!serialvars
<1>3. CASE Choose
  <2>1. CASE NothingToChoose
    BY <1>2, <2>1 DEF NothingToChoose, loop, shared
  <2>2. CASE ~ NothingToChoose
    <3>1. ~ actionInstalled /\ UNCHANGED <<schedule, Log>>
      BY <1>1, <1>3, <2>2
         DEF Choose, ChooseRestart, ChooseTimer, ChooseThread, ChooseFromNothing,
             NeedsAction, LocalInv, ActOn, loop, shared
    <3>2. waits = <<>> /\ waits' = <<>>
      BY <1>1, <3>1, NothingInstalled
    <3> QED BY <1>1, <3>1, <3>2 DEF Abstract!serialvars
  <2> QED BY <2>1, <2>2
<1>4. CASE Look
  <2>1. CASE Complete /\ HasLock /\ UNCHANGED ProcID
    <3>1. ProcID \in Procs /\ ProcID # 0
      BY <1>1, <2>1 DEF HasLock
    <3>2. schedule' = schedule \o Log[ProcID] /\ Log' = [Log EXCEPT ![ProcID] = <<>>]
      BY <2>1 DEF Complete, Extract
    <3>3. waits = Log[ProcID] /\ waits' = <<>>
      BY <1>1, <2>1, <3>1, <3>2
    <3>4. CASE Log[ProcID] = <<>>
      BY <1>1, <3>2, <3>3, <3>4 DEF Abstract!serialvars
    <3>5. CASE Log[ProcID] # <<>>
      <4>1. Abstract!BatchTaken
        BY <1>1, <3>2, <3>3, <3>5 DEF Abstract!BatchTaken
      <4> QED BY <4>1 DEF Abstract!SerialNext
    <3> QED BY <3>4, <3>5
  <2> QED BY <1>2, <1>4, <2>1 DEF Look, PollFinished, PollExecuting, PollComplete, PollInstall,
                                  PollBlocked, PollWoken, PollNothing, Poll
<1>5. CASE Kill \/ Finish
  BY <1>2, <1>5 DEF Kill, Finish, loop, shared
<1>6. CASE Restart
  <2>1. ~ actionInstalled
    BY <1>1, <1>6 DEF Restart, LocalInv
  <2>2. waits = <<>> /\ waits' = <<>>
    BY <1>1, <1>6, <2>1, NothingInstalled DEF Restart
  <2>3. Abstract!NewRun
    BY <1>1, <1>6, <2>2 DEF Restart, Abstract!NewRun
  <2> QED BY <2>3
<1>7. ASSUME NEW p \in Procs, LocalTurn(p)
      PROVE  Abstract!ProcessRuns(p)
  <2>1. PICK r, state : Turn(p, r, state)
    BY <1>7 DEF LocalTurn, LocalYield, LocalBlock, LocalFinish
  <2>2. PICK e \in ExploreEvent : e.P = p /\ Log' = [Log EXCEPT ![p] = Append(Log[p], e)]
    BY <1>1, <2>1, TurnEvent DEF Types
  <2>3. p = ProcID /\ p # 0 /\ UNCHANGED <<schedule, ProcID>>
    BY <1>1, <2>1 DEF Turn, loop, LocalInv
  <2>4. Log[p] \in Seq(ExploreEvent) /\ waits = Log[p] /\ waits' = Append(Log[p], e)
    BY <1>1, <2>2, <2>3
  <2>5. /\ Len(Append(Log[p], e)) > Len(Log[p])
        /\ SubSeq(Append(Log[p], e), 1, Len(Log[p])) = Log[p]
    BY <2>4
  <2>6. \A k \in DOMAIN Append(Log[p], e) : Append(Log[p], e)[k].P = p
    BY <2>2, <2>4 DEF Inv, Numbered
  <2> QED BY <1>1, <2>3, <2>4, <2>5, <2>6 DEF Abstract!ProcessRuns
<1>8. ASSUME NEW p \in Procs, LocalStart(p) \/ LocalAcquire(p) \/ NetWake(p)
      PROVE  UNCHANGED <<schedule, ProcID, Log>>
  BY <1>8 DEF LocalStart, LocalAcquire, NetWake, loop
<1>9. CASE UNCHANGED vars
  BY <1>2, <1>9 DEF vars, loop, shared
<1> QED BY <1>2, <1>3, <1>4, <1>5, <1>6, <1>7, <1>8, <1>9
        DEF Next, Scheduler, Local, Abstract!SerialNext

\* exploreSchedule and the local schedulers implement Serial, run after run: an
\* action that is complete has left nothing behind, and so has a run.
THEOREM ExploreRefinement == Spec => ExploresSerially
<1>1. Init => Abstract!SerialInit
  BY DEF Init, OfLocal, Abstract!SerialInit
<1>2. Inv /\ Inv' /\ [Next]_vars
        => [Abstract!SerialNext \/ Abstract!NewRun]_(Abstract!serialvars)
  <2>1. ASSUME program # "local", [Next]_vars
        PROVE  UNCHANGED Abstract!serialvars
    BY <2>1, ProgramFixed DEF OfLocal, Abstract!serialvars
  <2> QED BY <2>1, SerialStep
<1> QED BY <1>1, <1>2, ExploreInvariance, PTL DEF Spec, ExploresSerially, Abstract!SerialRuns
=============================================================================
