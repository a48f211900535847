---------------------------- MODULE RecordProofs ----------------------------
(***************************************************************************)
(* Proofs about Record, for every number of processes, every set of        *)
(* network processes and every schedule length.                            *)
(***************************************************************************)
EXTENDS Record, SequenceTheorems, TLAPS

\* The scheduler really has p's lock: it believes so, and is not between the
\* two stores that give the lock back to a woken process.
Owns(p) == lockStatus[p] /\ ~(pc = "regrant" /\ LastProc = p)

\* Lock ownership: the scheduler and p's local scheduler exclude each other.
LockInv ==
  \A p \in Procs :
    /\ Owns(p) => Lock[p] = "LOCKED" /\ lpc[p] # "hold"
    /\ lpc[p] = "hold" => Lock[p] = "LOCKED"

\* Only the process whose turn it is can have its lock, or leave events.
TurnInv ==
  /\ \A p \in Procs :
       p # LastProc \/ pc \in {"pick", "done"} =>
         lockStatus[p] /\ Log[p] = <<>>
  /\ pc \in {"held", "regrant"} => lockStatus[LastProc]

\* What the command word says about the events in the log.
CommandOK(p) ==
  /\ Run[p] \in {IDLE, KILL, EXECUTE} => Log[p] = <<>>
  /\ Run[p] = ROUTINE => Log[p] # <<>>
  /\ Run[p] = FINISHED /\ allDead[p] /\ procStatus[p] = "ALIVE" => Log[p] # <<>>

CommandInv == \A p \in Procs : CommandOK(p)

\* A dead process has ended, and the process whose turn it is is not dead.
DeadInv ==
  /\ \A p \in Procs :
       /\ allDead[p] => lpc[p] = "end"
       /\ procStatus[p] = "DEAD" => allDead[p] /\ Log[p] = <<>>
  /\ pc \in {"spin", "held", "regrant"} => procStatus[LastProc] = "ALIVE"

\* A process that has finished has ended, and the scheduler leaves it only when
\* none of its goroutines is alive.
FinishInv ==
  \A p \in Procs : Run[p] = FINISHED =>
    /\ lpc[p] = "end"
    /\ p # LastProc \/ pc \in {"pick", "done"} => allDead[p]

Unrecorded == IF LastProc = 0 THEN <<>> ELSE Log[LastProc]

\* Nothing is lost, invented or reordered.
OrderInv ==
  /\ executed = LogEvents \o Unrecorded
  /\ \A p \in Procs : \A j \in DOMAIN Log[p] : Log[p][j].P = p

\* A local scheduler that has not ended may run at least once more.
SliceInv == \A p \in Procs : lpc[p] # "end" => slices[p] > 0

Inv == LockInv /\ TurnInv /\ CommandInv /\ DeadInv /\ FinishInv /\ OrderInv

-----------------------------------------------------------------------------
\* UpdateContext keeps the context a context.
LEMMA UpdateContextType ==
  ASSUME NEW ctx \in Context, NEW events \in Seq(Event)
  PROVE  UpdateContext(ctx, events) \in Context
<1>1. \A j \in DOMAIN events : events[j] \in Event
  BY ElementOfSeq
<1>2. \A j \in DOMAIN events : events[j].id \in Nat
  BY <1>1 DEF Event
<1>3. ASSUME NEW q \in Procs
      PROVE  UpdateContext(ctx, events)[q] \subseteq Nat
  BY <1>2 DEF UpdateContext, Writes, Context
<1> QED
  BY <1>3 DEF UpdateContext, Context

\* extractDataFromProc keeps the types of everything it writes.
LEMMA ExtractType ==
  ASSUME TypeOK, NEW p \in Procs, Extract(p)
  PROVE  /\ LogEvents' \in Seq(Event)
         /\ context' \in Context
         /\ PropEvents' \in Seq(PropEvent)
         /\ CovEvents' \in Seq(CovEvent)
         /\ Log' \in [Procs -> Seq(Event)]
         /\ Coverage' \in [Procs -> SUBSET Nat]
<1>1. Log[p] \in Seq(Event) /\ LogEvents \in Seq(Event)
  BY DEF TypeOK
<1>2. UpdateContext(context, Log[p]) \in Context
  BY <1>1, UpdateContextType DEF TypeOK
<1>3. LastIndex(p) \in Int
  BY <1>1 DEF LastIndex, i
<1>4. LogEvents' \in Seq(Event) /\ context' \in Context
  BY <1>1, <1>2 DEF Extract, ConsumeLog
<1>5. PropEvents' \in Seq(PropEvent)
  <2>1. [context |-> UpdateContext(context, Log[p]),
         EventIndex |-> LastIndex(p)] \in PropEvent
    BY <1>2, <1>3 DEF PropEvent
  <2> QED BY <2>1 DEF Extract, TypeOK
<1>6. CovEvents' \in Seq(CovEvent)
  <2>1. [CoverageInfo |-> Coverage[p], EventIndex |-> LastIndex(p)] \in CovEvent
    BY <1>3 DEF CovEvent, TypeOK
  <2> QED BY <2>1 DEF Extract, TypeOK
<1>7. Log' \in [Procs -> Seq(Event)] /\ Coverage' \in [Procs -> SUBSET Nat]
  BY DEF Extract, ConsumeLog, ConsumeCoverage, TypeOK
<1> QED BY <1>4, <1>5, <1>6, <1>7

\* A run of process p keeps the types of everything it writes.
LEMMA ExecuteType ==
  ASSUME TypeOK, SliceInv, NEW p \in Procs, lpc[p] = "hold",
         NEW n \in 1 .. MaxBatch, NEW type \in EventTypes,
         Execute(p, n, type)
  PROVE  /\ executed' \in Seq(Event)
         /\ Log' \in [Procs -> Seq(Event)]
         /\ Coverage' \in [Procs -> SUBSET Nat]
         /\ slices' \in [Procs -> 0 .. MaxSlices]
<1> DEFINE events == [j \in 1 .. n |->
             [P |-> p, Type |-> type, id |-> Len(executed) + j]]
<1>0. n \in Nat /\ executed \in Seq(Event) /\ Len(executed) \in Nat
  BY RecordAssumption DEF TypeOK
<1>1. events \in Seq(Event)
  <2>1. ASSUME NEW j \in 1 .. n
        PROVE [P |-> p, Type |-> type, id |-> Len(executed) + j] \in Event
    BY <1>0 DEF Event
  <2> QED BY <2>1, <1>0
<1>2. executed' = executed \o events /\ Log' = [Log EXCEPT ![p] = @ \o events]
  BY DEF Execute
<1>3. executed' \in Seq(Event) /\ Log' \in [Procs -> Seq(Event)]
  <2> HIDE DEF events
  <2> QED BY <1>0, <1>1, <1>2 DEF TypeOK
<1>4. Coverage' \in [Procs -> SUBSET Nat]
  <2>1. {Len(executed) + j : j \in 1 .. n} \subseteq Nat
    BY <1>0
  <2> QED BY <2>1 DEF Execute, TypeOK
<1>5. slices' \in [Procs -> 0 .. MaxSlices]
  <2>1. slices' = [slices EXCEPT ![p] = slices[p] - 1]
    BY DEF Execute
  <2>2. slices \in [Procs -> 0 .. MaxSlices] /\ slices[p] > 0
    BY DEF TypeOK, SliceInv
  <2> QED BY <2>1, <2>2, RecordAssumption
<1> QED BY <1>3, <1>4, <1>5

\* Every step keeps the types.
LEMMA TypeStep ==
  ASSUME TypeOK, SliceInv, [Next]_vars
  PROVE  TypeOK' /\ SliceInv'
<1> USE NAssumption, RecordAssumption
<1> USE DEF Procs, RunValues, LockValues, Statuses, SchedulerStates, LocalStates,
        IDLE, RECORD, KILL, EXECUTE, BLOCKED, WOKEN, ROUTINE, FINISHED
<1>1. CASE RecordEnd
  BY <1>1 DEF RecordEnd, TypeOK, SliceInv, local, schedule
<1>2. ASSUME NEW p \in Procs, Scheduler(p)
      PROVE  TypeOK' /\ SliceInv'
  <2>1. CASE RecordPick(p)
    <3>1. CASE Run[p] = IDLE
      <4>1. /\ Run' = [Run EXCEPT ![p] = RECORD]
            /\ Lock' = [Lock EXCEPT ![p] = "UNLOCKED"]
            /\ lockStatus' = [lockStatus EXCEPT ![p] = FALSE]
            /\ pc' = "spin" /\ LastProc' = p
        BY <2>1, <3>1 DEF RecordPick
      <4>2. UNCHANGED <<procStatus, schedule, Log, Coverage, allDead, local>>
        BY <2>1 DEF RecordPick
      <4>3. SliceInv'
        BY <4>1, <4>2 DEF SliceInv, local
      <4> QED BY <4>1, <4>2, <4>3 DEF TypeOK, local, schedule
    <3>2. CASE Run[p] # IDLE
      <4>1. /\ Lock' \in [Procs -> LockValues] /\ lockStatus' \in [Procs -> BOOLEAN]
            /\ Run' = Run /\ pc' = "spin" /\ LastProc' = p
        BY <2>1, <3>2 DEF RecordPick, TypeOK
      <4>2. UNCHANGED <<procStatus, schedule, Log, Coverage, allDead, local>>
        BY <2>1 DEF RecordPick
      <4>3. SliceInv'
        BY <4>1, <4>2 DEF SliceInv, local
      <4> QED BY <4>1, <4>2, <4>3 DEF TypeOK, local, schedule
    <3> QED BY <3>1, <3>2
  <2>2. CASE RecordLock(p)
    BY <2>2 DEF RecordLock, TypeOK, SliceInv, local, schedule
  <2>3. CASE RecordNotRun(p)
    BY <2>3 DEF RecordNotRun, NoExtract, TypeOK, SliceInv, local, schedule
  <2>4. CASE RecordFinished(p)
    <3>1. Extract(p) /\ CheckDead(p) /\ pc = "held" /\ LastProc = p
      BY <2>4 DEF RecordFinished
    <3> QED BY <3>1, ExtractType DEF CheckDead, TypeOK, SliceInv, local
  <2>5. CASE RecordBlocked(p)
    <3>1. CASE Extract(p)
      BY <2>5, <3>1, ExtractType DEF RecordBlocked, TypeOK, SliceInv, local
    <3>2. CASE NoExtract
      BY <2>5, <3>2 DEF RecordBlocked, NoExtract, TypeOK, SliceInv, local, schedule
    <3> QED BY <2>5, <3>1, <3>2 DEF RecordBlocked
  <2>6. CASE RecordWoken(p)
    BY <2>6 DEF RecordWoken, NoExtract, TypeOK, SliceInv, local, schedule
  <2>7. CASE RecordRegrant(p)
    BY <2>7 DEF RecordRegrant, NoExtract, TypeOK, SliceInv, local, schedule
  <2>8. CASE RecordEvents(p)
    <3>1. Extract(p)
      BY <2>8 DEF RecordEvents
    <3> QED BY <2>8, <3>1, ExtractType DEF RecordEvents, TypeOK, SliceInv, local
  <2>9. CASE RecordOther(p)
    BY <2>9 DEF RecordOther, CheckDead, NoExtract, TypeOK, SliceInv, local, schedule
  <2> QED BY <1>2, <2>1, <2>2, <2>3, <2>4, <2>5, <2>6, <2>7, <2>8, <2>9
          DEF Scheduler
<1>3. ASSUME NEW p \in Procs, Local(p)
      PROVE  TypeOK' /\ SliceInv'
  <2>1. CASE LocalAcquire(p)
    BY <2>1 DEF LocalAcquire, TypeOK, SliceInv, scheduler, schedule
  <2>2. CASE LocalResume(p)
    BY <2>2 DEF LocalResume, TypeOK, SliceInv, scheduler, schedule
  <2>3. CASE LocalYield(p)
    <3>1. PICK n \in 1 .. MaxBatch, type \in EventTypes, dead \in BOOLEAN :
            \/ LocalSchedule(p, n, type)
            \/ LocalBlock(p, n, type)
            \/ LocalFinish(p, n, type, dead)
      BY <2>3 DEF LocalYield
    <3>2. Execute(p, n, type) /\ lpc[p] = "hold"
      BY <3>1 DEF LocalSchedule, LocalBlock, LocalFinish
    <3>3. /\ executed' \in Seq(Event)
          /\ Log' \in [Procs -> Seq(Event)]
          /\ Coverage' \in [Procs -> SUBSET Nat]
          /\ slices' \in [Procs -> 0 .. MaxSlices]
      BY <3>2, ExecuteType
    <3>4. slices' = [slices EXCEPT ![p] = slices[p] - 1]
      BY <3>2 DEF Execute
    <3>5. CASE LocalSchedule(p, n, type)
      <4>1. TypeOK'
        BY <3>3, <3>5 DEF LocalSchedule, TypeOK, scheduler, schedule
      <4>2. slices[p] > 1 /\ lpc' = [lpc EXCEPT ![p] = "spin"]
        BY <3>5 DEF LocalSchedule
      <4>3. SliceInv'
        BY <3>4, <4>2 DEF TypeOK, SliceInv
      <4> QED BY <4>1, <4>3
    <3>6. CASE LocalBlock(p, n, type)
      <4>1. TypeOK'
        BY <3>3, <3>6 DEF LocalBlock, TypeOK, scheduler, schedule
      <4>2. slices[p] > 1 /\ lpc' = [lpc EXCEPT ![p] = "net"]
        BY <3>6 DEF LocalBlock
      <4>3. SliceInv'
        BY <3>4, <4>2 DEF TypeOK, SliceInv
      <4> QED BY <4>1, <4>3
    <3>7. CASE LocalFinish(p, n, type, dead)
      BY <3>3, <3>4, <3>7
      DEF LocalFinish, TypeOK, SliceInv, scheduler, schedule
    <3> QED BY <3>1, <3>5, <3>6, <3>7
  <2>4. CASE NetWake(p)
    BY <2>4 DEF NetWake, TypeOK, SliceInv, scheduler, schedule
  <2> QED BY <1>3, <2>1, <2>2, <2>3, <2>4 DEF Local
<1>4. CASE UNCHANGED vars
  BY <1>4 DEF vars, scheduler, schedule, local, TypeOK, SliceInv
<1> QED BY <1>1, <1>2, <1>3, <1>4 DEF Next, Terminated

\* Every variable keeps its type in every reachable state of recordSchedule
\* and the local schedulers.
THEOREM RecordTyping == Spec => [](TypeOK /\ SliceInv)
<1>1. Init => TypeOK /\ SliceInv
  BY NAssumption, RecordAssumption
  DEF Init, TypeOK, SliceInv, Procs, RunValues, IDLE, LockValues, Statuses,
      SchedulerStates, LocalStates, Context
<1>2. TypeOK /\ SliceInv /\ [Next]_vars => (TypeOK /\ SliceInv)'
  BY TypeStep
<1> QED BY <1>1, <1>2, PTL DEF Spec

-----------------------------------------------------------------------------
\* The same events of p are added to its log, to the execution and to its
\* coverage.
Logs(p, s) ==
  /\ Len(s) > 0
  /\ \A j \in DOMAIN s : s[j].P = p
  /\ executed' = executed \o s
  /\ Log' = [Log EXCEPT ![p] = Log[p] \o s]
  /\ Coverage' = [Coverage EXCEPT ![p] =
                     Coverage[p] \cup {s[j].id : j \in DOMAIN s}]

\* A run of p is of this form.
LEMMA ExecuteEffect ==
  ASSUME TypeOK, NEW p \in Procs,
         NEW n \in 1 .. MaxBatch, NEW type \in EventTypes,
         Execute(p, n, type)
  PROVE  \E s \in Seq(Event) : Logs(p, s)
<1> DEFINE events == [j \in 1 .. n |->
             [P |-> p, Type |-> type, id |-> Len(executed) + j]]
<1>0. n \in Nat /\ n > 0 /\ Len(executed) \in Nat
  BY RecordAssumption DEF TypeOK
<1>1. events \in Seq(Event)
  <2>1. ASSUME NEW j \in 1 .. n
        PROVE [P |-> p, Type |-> type, id |-> Len(executed) + j] \in Event
    BY <1>0 DEF Event
  <2> QED BY <2>1, <1>0
<1>2. executed' = executed \o events /\ Log' = [Log EXCEPT ![p] = Log[p] \o events]
  BY DEF Execute
<1>3. Len(events) = n /\ \A j \in DOMAIN events : events[j].P = p
  BY <1>0
<1>4. {Len(executed) + j : j \in 1 .. n} = {events[j].id : j \in DOMAIN events}
  BY <1>0
<1>5. Coverage' = [Coverage EXCEPT ![p] =
                     Coverage[p] \cup {events[j].id : j \in DOMAIN events}]
  BY <1>4 DEF Execute
<1>6. Logs(p, events)
  BY <1>0, <1>2, <1>3, <1>5 DEF Logs
<1> QED BY <1>1, <1>6

\* Every turn of a local scheduler ends in the same way.
LEMMA YieldEffect ==
  ASSUME TypeOK, DeadInv, NEW p \in Procs, LocalYield(p)
  PROVE  /\ lpc[p] = "hold"
         /\ Lock' = [Lock EXCEPT ![p] = "UNLOCKED"]
         /\ \E st \in {"spin", "net", "end"} :
              /\ lpc' = [lpc EXCEPT ![p] = st]
              /\ \/ allDead' = allDead
                 \/ st = "end" /\ allDead' = [allDead EXCEPT ![p] = TRUE]
              /\ Run' = [Run EXCEPT ![p] =
                   IF st = "spin" THEN ROUTINE
                   ELSE IF st = "net" THEN BLOCKED ELSE FINISHED]
         /\ \E s \in Seq(Event) : Logs(p, s)
         /\ UNCHANGED <<scheduler, schedule>>
<1>1. PICK n \in 1 .. MaxBatch, type \in EventTypes, dead \in BOOLEAN :
        \/ LocalSchedule(p, n, type)
        \/ LocalBlock(p, n, type)
        \/ LocalFinish(p, n, type, dead)
  BY DEF LocalYield
<1>2. Execute(p, n, type)
  BY <1>1 DEF LocalSchedule, LocalBlock, LocalFinish
<1>3. \E s \in Seq(Event) : Logs(p, s)
  BY <1>2, ExecuteEffect
<1>4. CASE LocalSchedule(p, n, type)
  BY <1>3, <1>4 DEF LocalSchedule
<1>5. CASE LocalBlock(p, n, type)
  BY <1>3, <1>5 DEF LocalBlock
<1>6. CASE LocalFinish(p, n, type, dead)
  <2>1. ~ allDead[p] /\ allDead \in [Procs -> BOOLEAN]
    BY <1>6 DEF LocalFinish, DeadInv, TypeOK
  <2>2. \/ allDead' = allDead
        \/ allDead' = [allDead EXCEPT ![p] = TRUE]
    <3>1. allDead' = [allDead EXCEPT ![p] = dead]
      BY <1>6 DEF LocalFinish
    <3>2. CASE dead = TRUE
      BY <3>1, <3>2
    <3>3. CASE dead = FALSE
      BY <2>1, <3>1, <3>3
    <3> QED BY <3>2, <3>3
  <2> QED BY <1>3, <1>6, <2>2 DEF LocalFinish
<1> QED BY <1>1, <1>4, <1>5, <1>6

\* The scheduler and the local schedulers keep excluding each other.
LEMMA LockStep ==
  ASSUME TypeOK, LockInv, TurnInv, DeadInv, [Next]_vars
  PROVE  LockInv'
<1> USE DEF IDLE, RECORD, KILL, EXECUTE, BLOCKED, WOKEN, ROUTINE, FINISHED
<1>0. /\ lockStatus \in [Procs -> BOOLEAN] /\ Lock \in [Procs -> LockValues]
      /\ lpc \in [Procs -> LocalStates] /\ Log \in [Procs -> Seq(Event)]
  BY DEF TypeOK
<1>1. CASE RecordEnd
  BY <1>0, <1>1 DEF RecordEnd, LockInv, TurnInv, Owns, local
<1>2. ASSUME NEW p \in Procs, Scheduler(p)
      PROVE  LockInv'
  <2>1. CASE RecordPick(p)
    BY <1>0, <2>1 DEF RecordPick, LockInv, TurnInv, Owns, local
  <2>2. CASE RecordLock(p)
    BY <1>0, <2>2 DEF RecordLock, LockInv, TurnInv, Owns, local
  <2>3. CASE RecordNotRun(p)
    BY <1>0, <2>3 DEF RecordNotRun, NoExtract, LockInv, TurnInv, Owns, local
  <2>4. CASE RecordFinished(p)
    BY <1>0, <2>4 DEF RecordFinished, CheckDead, Extract, ConsumeLog, LockInv, TurnInv, Owns, local
  <2>5. CASE RecordBlocked(p)
    <3>1. Log' = [Log EXCEPT ![p] = <<>>]
      BY <1>0, <2>5 DEF RecordBlocked, Extract, ConsumeLog, NoExtract
    <3> QED BY <1>0, <2>5, <3>1 DEF RecordBlocked, LockInv, TurnInv, Owns, local
  <2>6. CASE RecordWoken(p)
    BY <1>0, <2>6 DEF RecordWoken, NoExtract, LockInv, TurnInv, Owns, local
  <2>7. CASE RecordRegrant(p)
    BY <1>0, <2>7 DEF RecordRegrant, NoExtract, LockInv, TurnInv, Owns, local
  <2>8. CASE RecordEvents(p)
    BY <1>0, <2>8 DEF RecordEvents, Extract, ConsumeLog, LockInv, TurnInv, Owns, local
  <2>9. CASE RecordOther(p)
    BY <1>0, <2>9 DEF RecordOther, CheckDead, NoExtract, LockInv, TurnInv, Owns, local
  <2> QED BY <1>2, <2>1, <2>2, <2>3, <2>4, <2>5, <2>6, <2>7, <2>8, <2>9
          DEF Scheduler
<1>3. ASSUME NEW p \in Procs, Local(p)
      PROVE  LockInv'
  <2>1. CASE LocalAcquire(p)
    BY <1>0, <2>1 DEF LocalAcquire, LockInv, TurnInv, Owns, scheduler
  <2>2. CASE LocalResume(p)
    BY <1>0, <2>2 DEF LocalResume, LockInv, TurnInv, Owns, scheduler
  <2>3. CASE LocalYield(p)
    <3>1. /\ lpc[p] = "hold"
          /\ Lock' = [Lock EXCEPT ![p] = "UNLOCKED"]
          /\ UNCHANGED scheduler
      BY <2>3, YieldEffect
    <3>2. PICK st \in {"spin", "net", "end"} :
            /\ lpc' = [lpc EXCEPT ![p] = st]
            /\ \/ allDead' = allDead
               \/ st = "end" /\ allDead' = [allDead EXCEPT ![p] = TRUE]
            /\ Run' = [Run EXCEPT ![p] =
                 IF st = "spin" THEN ROUTINE
                 ELSE IF st = "net" THEN BLOCKED ELSE FINISHED]
      BY <2>3, YieldEffect
    <3>3. PICK s \in Seq(Event) :
            Len(s) > 0 /\ Log' = [Log EXCEPT ![p] = Log[p] \o s]
      BY <2>3, YieldEffect DEF Logs
    <3>4. Log[p] \o s # <<>>
      BY <1>0, <3>3
    <3>5. Log'[p] # <<>> /\ \A q \in Procs : q # p => Log'[q] = Log[q]
      BY <1>0, <3>3, <3>4
    <3> QED BY <1>0, <3>1, <3>2, <3>5 DEF LockInv, TurnInv, Owns, scheduler
  <2>4. CASE NetWake(p)
    BY <1>0, <2>4 DEF NetWake, LockInv, TurnInv, Owns, scheduler
  <2> QED BY <1>3, <2>1, <2>2, <2>3, <2>4 DEF Local
<1>4. CASE UNCHANGED vars
  BY <1>0, <1>4 DEF vars, scheduler, local, LockInv, TurnInv, Owns
<1> QED BY <1>1, <1>2, <1>3, <1>4 DEF Next, Terminated

\* Turns are kept.
LEMMA TurnStep ==
  ASSUME TypeOK, LockInv, TurnInv, CommandInv, DeadInv, [Next]_vars
  PROVE  TurnInv'
<1> USE DEF IDLE, RECORD, KILL, EXECUTE, BLOCKED, WOKEN, ROUTINE, FINISHED
<1>0. /\ lockStatus \in [Procs -> BOOLEAN] /\ Lock \in [Procs -> LockValues]
      /\ lpc \in [Procs -> LocalStates] /\ Log \in [Procs -> Seq(Event)]
      /\ pc \in {"spin", "held", "regrant"} => LastProc \in Procs
  BY DEF TypeOK
<1>1. CASE RecordEnd
  BY <1>0, <1>1 DEF RecordEnd, LockInv, TurnInv, CommandInv, CommandOK, Owns, local
<1>2. ASSUME NEW p \in Procs, Scheduler(p)
      PROVE  TurnInv'
  <2>1. CASE RecordPick(p)
    BY <1>0, <2>1 DEF RecordPick, LockInv, TurnInv, CommandInv, CommandOK, Owns, local
  <2>2. CASE RecordLock(p)
    BY <1>0, <2>2 DEF RecordLock, LockInv, TurnInv, CommandInv, CommandOK, Owns, local
  <2>3. CASE RecordNotRun(p)
    BY <1>0, <2>3 DEF RecordNotRun, NoExtract, LockInv, TurnInv, CommandInv, CommandOK, Owns, local
  <2>4. CASE RecordFinished(p)
    BY <1>0, <2>4 DEF RecordFinished, CheckDead, Extract, ConsumeLog, LockInv, TurnInv, CommandInv, CommandOK, Owns, local
  <2>5. CASE RecordBlocked(p)
    <3>1. Log' = [Log EXCEPT ![p] = <<>>]
      BY <1>0, <2>5 DEF RecordBlocked, Extract, ConsumeLog, NoExtract
    <3> QED BY <1>0, <2>5, <3>1 DEF RecordBlocked, LockInv, TurnInv, CommandInv, CommandOK, Owns, local
  <2>6. CASE RecordWoken(p)
    BY <1>0, <2>6 DEF RecordWoken, NoExtract, LockInv, TurnInv, CommandInv, CommandOK, Owns, local
  <2>7. CASE RecordRegrant(p)
    BY <1>0, <2>7 DEF RecordRegrant, NoExtract, LockInv, TurnInv, CommandInv, CommandOK, Owns, local
  <2>8. CASE RecordEvents(p)
    BY <1>0, <2>8 DEF RecordEvents, Extract, ConsumeLog, LockInv, TurnInv, CommandInv, CommandOK, Owns, local
  <2>9. CASE RecordOther(p)
    BY <1>0, <2>9 DEF RecordOther, CheckDead, NoExtract, LockInv, TurnInv, CommandInv, CommandOK, Owns, local
  <2> QED BY <1>2, <2>1, <2>2, <2>3, <2>4, <2>5, <2>6, <2>7, <2>8, <2>9
          DEF Scheduler
<1>3. ASSUME NEW p \in Procs, Local(p)
      PROVE  TurnInv'
  <2>1. CASE LocalAcquire(p)
    BY <1>0, <2>1 DEF LocalAcquire, LockInv, TurnInv, CommandInv, CommandOK, Owns, scheduler
  <2>2. CASE LocalResume(p)
    BY <1>0, <2>2 DEF LocalResume, LockInv, TurnInv, CommandInv, CommandOK, Owns, scheduler
  <2>3. CASE LocalYield(p)
    <3>1. /\ lpc[p] = "hold"
          /\ Lock' = [Lock EXCEPT ![p] = "UNLOCKED"]
          /\ UNCHANGED scheduler
      BY <2>3, YieldEffect
    <3>2. PICK st \in {"spin", "net", "end"} :
            /\ lpc' = [lpc EXCEPT ![p] = st]
            /\ \/ allDead' = allDead
               \/ st = "end" /\ allDead' = [allDead EXCEPT ![p] = TRUE]
            /\ Run' = [Run EXCEPT ![p] =
                 IF st = "spin" THEN ROUTINE
                 ELSE IF st = "net" THEN BLOCKED ELSE FINISHED]
      BY <2>3, YieldEffect
    <3>3. PICK s \in Seq(Event) :
            Len(s) > 0 /\ Log' = [Log EXCEPT ![p] = Log[p] \o s]
      BY <2>3, YieldEffect DEF Logs
    <3>4. Log[p] \o s # <<>>
      BY <1>0, <3>3
    <3>5. Log'[p] # <<>> /\ \A q \in Procs : q # p => Log'[q] = Log[q]
      BY <1>0, <3>3, <3>4
    <3> QED BY <1>0, <3>1, <3>2, <3>5 DEF LockInv, TurnInv, CommandInv, CommandOK, Owns, scheduler
  <2>4. CASE NetWake(p)
    BY <1>0, <2>4 DEF NetWake, LockInv, TurnInv, CommandInv, CommandOK, Owns, scheduler
  <2> QED BY <1>3, <2>1, <2>2, <2>3, <2>4 DEF Local
<1>4. CASE UNCHANGED vars
  BY <1>0, <1>4 DEF vars, scheduler, local, LockInv, TurnInv, CommandInv, CommandOK, Owns
<1> QED BY <1>1, <1>2, <1>3, <1>4 DEF Next, Terminated

\* A step that touches the channel of one process only keeps CommandInv if
\* that process is in order afterwards.
LEMMA CommandLocal ==
  ASSUME CommandInv, NEW p \in Procs, CommandOK(p)',
         \A q \in Procs : q # p => /\ Run'[q] = Run[q]
                                   /\ Log'[q] = Log[q]
                                   /\ allDead'[q] = allDead[q]
                                   /\ procStatus'[q] = procStatus[q]
  PROVE  CommandInv'
BY DEF CommandInv, CommandOK

\* The command word and the log stay consistent.
LEMMA CommandStep ==
  ASSUME TypeOK, CommandInv, DeadInv, [Next]_vars
  PROVE  CommandInv'
<1> USE DEF IDLE, RECORD, KILL, EXECUTE, BLOCKED, WOKEN, ROUTINE, FINISHED
<1>0. /\ Run \in [Procs -> RunValues] /\ Log \in [Procs -> Seq(Event)]
      /\ allDead \in [Procs -> BOOLEAN] /\ procStatus \in [Procs -> Statuses]
  BY DEF TypeOK
<1>a. ASSUME UNCHANGED <<Run, Log, allDead, procStatus>> PROVE CommandInv'
  BY <1>a DEF CommandInv, CommandOK
<1>b. ASSUME NEW p \in Procs, NEW r \in {RECORD, WOKEN},
             Run' = [Run EXCEPT ![p] = r], UNCHANGED <<Log, allDead, procStatus>>
      PROVE  CommandInv'
  <2>1. CommandOK(p)'
    BY <1>0, <1>b DEF CommandOK
  <2> QED BY <1>0, <1>b, <2>1, CommandLocal
<1>1. CASE RecordEnd
  BY <1>1, <1>a DEF RecordEnd
<1>2. ASSUME NEW p \in Procs, Scheduler(p)
      PROVE  CommandInv'
  <2>1. CASE RecordPick(p)
    BY <2>1, <1>a, <1>b DEF RecordPick
  <2>2. CASE RecordLock(p)
    BY <2>2, <1>a DEF RecordLock
  <2>3. CASE RecordNotRun(p)
    BY <2>3, <1>a DEF RecordNotRun, NoExtract
  <2>4. CASE RecordFinished(p)
    <3>1. /\ Run[p] = FINISHED /\ UNCHANGED <<Run, allDead>>
          /\ Log' = [Log EXCEPT ![p] = <<>>]
          /\ procStatus' = IF allDead[p] THEN [procStatus EXCEPT ![p] = "DEAD"]
                                         ELSE procStatus
      BY <2>4 DEF RecordFinished, CheckDead, Extract, ConsumeLog
    <3>2. CommandOK(p)'
      BY <1>0, <3>1 DEF CommandOK
    <3> QED BY <1>0, <3>1, <3>2, CommandLocal
  <2>5. CASE RecordBlocked(p)
    <3>1. Log' = [Log EXCEPT ![p] = <<>>]
      BY <1>0, <2>5 DEF RecordBlocked, Extract, ConsumeLog, NoExtract
    <3>2. Run[p] = BLOCKED /\ UNCHANGED <<Run, allDead, procStatus>>
      BY <2>5 DEF RecordBlocked
    <3>3. CommandOK(p)'
      BY <3>2 DEF CommandOK
    <3> QED BY <1>0, <3>1, <3>2, <3>3, CommandLocal
  <2>6. CASE RecordWoken(p)
    BY <2>6, <1>a DEF RecordWoken, NoExtract
  <2>7. CASE RecordRegrant(p)
    BY <2>7, <1>b DEF RecordRegrant, NoExtract
  <2>8. CASE RecordEvents(p)
    <3>1. /\ Log' = [Log EXCEPT ![p] = <<>>]
          /\ UNCHANGED <<allDead, procStatus>>
      BY <2>8 DEF RecordEvents, Extract, ConsumeLog
    <3>2. PICK r \in {KILL, RECORD} : Run' = [Run EXCEPT ![p] = r]
      BY <2>8 DEF RecordEvents
    <3>3. CommandOK(p)'
      BY <1>0, <3>1, <3>2 DEF CommandOK
    <3> QED BY <1>0, <3>1, <3>2, <3>3, CommandLocal
  <2>9. CASE RecordOther(p)
    <3>1. /\ Run[p] \in {IDLE, KILL, EXECUTE} /\ UNCHANGED <<Run, allDead, Log>>
          /\ procStatus' = IF allDead[p] THEN [procStatus EXCEPT ![p] = "DEAD"]
                                         ELSE procStatus
      BY <2>9 DEF RecordOther, CheckDead, NoExtract
    <3>2. CommandOK(p)'
      BY <3>1 DEF CommandInv, CommandOK
    <3> QED BY <1>0, <3>1, <3>2, CommandLocal
  <2> QED BY <1>2, <2>1, <2>2, <2>3, <2>4, <2>5, <2>6, <2>7, <2>8, <2>9
          DEF Scheduler
<1>3. ASSUME NEW p \in Procs, Local(p)
      PROVE  CommandInv'
  <2>1. CASE LocalAcquire(p)
    BY <2>1, <1>a DEF LocalAcquire, scheduler
  <2>2. CASE LocalResume(p)
    BY <2>2, <1>a DEF LocalResume, scheduler
  <2>3. CASE LocalYield(p)
    <3>1. procStatus' = procStatus
      BY <2>3, YieldEffect DEF scheduler
    <3>2. PICK st \in {"spin", "net", "end"} :
            /\ \/ allDead' = allDead
               \/ st = "end" /\ allDead' = [allDead EXCEPT ![p] = TRUE]
            /\ Run' = [Run EXCEPT ![p] =
                 IF st = "spin" THEN ROUTINE
                 ELSE IF st = "net" THEN BLOCKED ELSE FINISHED]
      BY <2>3, YieldEffect
    <3>3. PICK s \in Seq(Event) :
            Len(s) > 0 /\ Log' = [Log EXCEPT ![p] = Log[p] \o s]
      BY <2>3, YieldEffect DEF Logs
    <3>4. Log[p] \o s # <<>>
      BY <1>0, <3>3
    <3>5. Log'[p] # <<>> /\ \A q \in Procs : q # p => Log'[q] = Log[q]
      BY <1>0, <3>3, <3>4
    <3>6. CommandOK(p)'
      BY <1>0, <3>2, <3>5 DEF CommandOK
    <3> QED BY <1>0, <3>1, <3>2, <3>5, <3>6, CommandLocal
  <2>4. CASE NetWake(p)
    BY <2>4, <1>b DEF NetWake, scheduler
  <2> QED BY <1>3, <2>1, <2>2, <2>3, <2>4 DEF Local
<1>4. CASE UNCHANGED vars
  BY <1>4, <1>a DEF vars, scheduler
<1> QED BY <1>1, <1>2, <1>3, <1>4 DEF Next, Terminated

\* Dead processes stay dead and have nothing left to record.
LEMMA DeadStep ==
  ASSUME TypeOK, CommandInv, DeadInv, [Next]_vars
  PROVE  DeadInv'
<1> USE DEF IDLE, RECORD, KILL, EXECUTE, BLOCKED, WOKEN, ROUTINE, FINISHED
<1>0. /\ procStatus \in [Procs -> Statuses] /\ allDead \in [Procs -> BOOLEAN]
      /\ lpc \in [Procs -> LocalStates] /\ Log \in [Procs -> Seq(Event)]
  BY DEF TypeOK
<1>1. CASE RecordEnd
  BY <1>0, <1>1 DEF RecordEnd, CommandInv, CommandOK, DeadInv, local
<1>2. ASSUME NEW p \in Procs, Scheduler(p)
      PROVE  DeadInv'
  <2>1. CASE RecordPick(p)
    <3>1. procStatus[p] = "ALIVE"
      BY <2>1 DEF RecordPick, IsRoundRobin
    <3>2. CASE Run[p] = IDLE
      BY <1>0, <2>1, <3>1, <3>2 DEF RecordPick, CommandInv, CommandOK, DeadInv, local
    <3>3. CASE Run[p] # IDLE
      BY <1>0, <2>1, <3>1, <3>3 DEF RecordPick, CommandInv, CommandOK, DeadInv, local
    <3> QED BY <3>2, <3>3
  <2>2. CASE RecordLock(p)
    BY <1>0, <2>2 DEF RecordLock, CommandInv, CommandOK, DeadInv, local
  <2>3. CASE RecordNotRun(p)
    BY <1>0, <2>3 DEF RecordNotRun, NoExtract, CommandInv, CommandOK, DeadInv, local
  <2>4. CASE RecordFinished(p)
    BY <1>0, <2>4 DEF RecordFinished, CheckDead, Extract, ConsumeLog, CommandInv, CommandOK, DeadInv, local
  <2>5. CASE RecordBlocked(p)
    <3>1. Log' = [Log EXCEPT ![p] = <<>>]
      BY <1>0, <2>5 DEF RecordBlocked, Extract, ConsumeLog, NoExtract
    <3> QED BY <1>0, <2>5, <3>1 DEF RecordBlocked, CommandInv, CommandOK, DeadInv, local
  <2>6. CASE RecordWoken(p)
    BY <1>0, <2>6 DEF RecordWoken, NoExtract, CommandInv, CommandOK, DeadInv, local
  <2>7. CASE RecordRegrant(p)
    BY <1>0, <2>7 DEF RecordRegrant, NoExtract, CommandInv, CommandOK, DeadInv, local
  <2>8. CASE RecordEvents(p)
    BY <1>0, <2>8 DEF RecordEvents, Extract, ConsumeLog, CommandInv, CommandOK, DeadInv, local
  <2>9. CASE RecordOther(p)
    BY <1>0, <2>9 DEF RecordOther, CheckDead, NoExtract, CommandInv, CommandOK, DeadInv, local
  <2> QED BY <1>2, <2>1, <2>2, <2>3, <2>4, <2>5, <2>6, <2>7, <2>8, <2>9
          DEF Scheduler
<1>3. ASSUME NEW p \in Procs, Local(p)
      PROVE  DeadInv'
  <2>1. CASE LocalAcquire(p)
    BY <1>0, <2>1 DEF LocalAcquire, CommandInv, CommandOK, DeadInv, scheduler
  <2>2. CASE LocalResume(p)
    BY <1>0, <2>2 DEF LocalResume, CommandInv, CommandOK, DeadInv, scheduler
  <2>3. CASE LocalYield(p)
    <3>1. /\ lpc[p] = "hold"
          /\ Lock' = [Lock EXCEPT ![p] = "UNLOCKED"]
          /\ UNCHANGED scheduler
      BY <2>3, YieldEffect
    <3>2. PICK st \in {"spin", "net", "end"} :
            /\ lpc' = [lpc EXCEPT ![p] = st]
            /\ \/ allDead' = allDead
               \/ st = "end" /\ allDead' = [allDead EXCEPT ![p] = TRUE]
            /\ Run' = [Run EXCEPT ![p] =
                 IF st = "spin" THEN ROUTINE
                 ELSE IF st = "net" THEN BLOCKED ELSE FINISHED]
      BY <2>3, YieldEffect
    <3>3. PICK s \in Seq(Event) :
            Len(s) > 0 /\ Log' = [Log EXCEPT ![p] = Log[p] \o s]
      BY <2>3, YieldEffect DEF Logs
    <3>4. Log[p] \o s # <<>>
      BY <1>0, <3>3
    <3>5. Log'[p] # <<>> /\ \A q \in Procs : q # p => Log'[q] = Log[q]
      BY <1>0, <3>3, <3>4
    <3> QED BY <1>0, <3>1, <3>2, <3>5 DEF CommandInv, CommandOK, DeadInv, scheduler
  <2>4. CASE NetWake(p)
    BY <1>0, <2>4 DEF NetWake, CommandInv, CommandOK, DeadInv, scheduler
  <2> QED BY <1>3, <2>1, <2>2, <2>3, <2>4 DEF Local
<1>4. CASE UNCHANGED vars
  BY <1>0, <1>4 DEF vars, scheduler, local, CommandInv, CommandOK, DeadInv
<1> QED BY <1>1, <1>2, <1>3, <1>4 DEF Next, Terminated

\* A process that runs is the one whose turn it is, and the scheduler is
\* waiting for it.
LEMMA HolderHasTurn ==
  ASSUME TypeOK, LockInv, TurnInv, NEW p \in Procs, lpc[p] = "hold"
  PROVE  LastProc = p /\ pc \in {"spin", "regrant"}
BY DEF LockInv, TurnInv, Owns, TypeOK, SchedulerStates

\* A process is left only when it is dead or has not finished.
LEMMA FinishStep ==
  ASSUME TypeOK, LockInv, TurnInv, DeadInv, FinishInv, [Next]_vars
  PROVE  FinishInv' /\ (Lingering => Lingering')
<1> USE DEF IDLE, RECORD, KILL, EXECUTE, BLOCKED, WOKEN, ROUTINE, FINISHED,
            FinishInv, Lingering
<1>0. /\ Run \in [Procs -> RunValues] /\ lpc \in [Procs -> LocalStates]
      /\ allDead \in [Procs -> BOOLEAN] /\ LastProc \in 0 .. N
      /\ 0 \notin Procs /\ (LastProc # 0 => LastProc \in Procs)
      /\ pc \in SchedulerStates
  BY NAssumption DEF TypeOK, Procs
<1>a. Lingering => pc \in {"spin", "held"} /\ lpc[LastProc] = "end"
  BY <1>0 DEF SchedulerStates
<1>1. CASE RecordEnd
  BY <1>0, <1>1, <1>a DEF RecordEnd, local
<1>2. ASSUME NEW p \in Procs, Scheduler(p)
      PROVE  FinishInv' /\ (Lingering => Lingering')
  <2>1. CASE RecordPick(p)
    BY <1>0, <1>a, <2>1 DEF RecordPick, local
  <2>2. CASE RecordLock(p)
    BY <1>0, <2>2 DEF RecordLock, local
  <2>3. CASE RecordNotRun(p)
    BY <1>0, <2>3 DEF RecordNotRun, local
  <2>4. CASE RecordFinished(p)
    BY <1>0, <2>4 DEF RecordFinished, CheckDead, local
  <2>5. CASE RecordBlocked(p)
    BY <1>0, <2>5 DEF RecordBlocked, local
  <2>6. CASE RecordWoken(p)
    BY <1>0, <2>6 DEF RecordWoken, local
  <2>7. CASE RecordRegrant(p)
    BY <1>0, <2>7 DEF RecordRegrant, local
  <2>8. CASE RecordEvents(p)
    BY <1>0, <2>8 DEF RecordEvents, local
  <2>9. CASE RecordOther(p)
    BY <1>0, <2>9 DEF RecordOther, CheckDead, local
  <2> QED BY <1>2, <2>1, <2>2, <2>3, <2>4, <2>5, <2>6, <2>7, <2>8, <2>9
          DEF Scheduler
<1>3. ASSUME NEW p \in Procs, Local(p)
      PROVE  FinishInv' /\ (Lingering => Lingering')
  <2>1. CASE LocalAcquire(p)
    BY <1>0, <2>1 DEF LocalAcquire, scheduler
  <2>2. CASE LocalResume(p)
    BY <1>0, <2>2 DEF LocalResume, scheduler
  <2>3. CASE LocalYield(p)
    <3>1. LastProc = p /\ pc \in {"spin", "regrant"}
      BY <2>3, YieldEffect, HolderHasTurn
    <3>2. lpc[p] = "hold" /\ UNCHANGED scheduler
      BY <2>3, YieldEffect
    <3>3. PICK st \in {"spin", "net", "end"} :
            /\ lpc' = [lpc EXCEPT ![p] = st]
            /\ \/ allDead' = allDead
               \/ st = "end" /\ allDead' = [allDead EXCEPT ![p] = TRUE]
            /\ Run' = [Run EXCEPT ![p] =
                 IF st = "spin" THEN ROUTINE
                 ELSE IF st = "net" THEN BLOCKED ELSE FINISHED]
      BY <2>3, YieldEffect
    <3>4. ~ Lingering
      BY <1>a, <3>1, <3>2
    <3> QED BY <1>0, <3>1, <3>2, <3>3, <3>4 DEF scheduler
  <2>4. CASE NetWake(p)
    BY <1>0, <1>a, <2>4 DEF NetWake, scheduler
  <2> QED BY <1>3, <2>1, <2>2, <2>3, <2>4 DEF Local
<1>4. CASE UNCHANGED vars
  BY <1>0, <1>4 DEF vars, scheduler, local
<1> QED BY <1>1, <1>2, <1>3, <1>4 DEF Next, Terminated

\* It is only by a run that a process comes to linger.
LEMMA LingerStep ==
  ASSUME TypeOK, DeadInv, FinishInv, [Next]_vars
  PROVE  \/ ~ Lingering'
         \/ Lingering
         \/ \E p \in Procs : LocalYield(p)
<1> SUFFICES ASSUME Lingering', ~ \E p \in Procs : LocalYield(p)
             PROVE  Lingering
  OBVIOUS
<1> USE DEF IDLE, RECORD, KILL, EXECUTE, BLOCKED, WOKEN, ROUTINE, FINISHED,
            FinishInv, Lingering
<1>0. /\ Run \in [Procs -> RunValues] /\ allDead \in [Procs -> BOOLEAN]
      /\ LastProc \in 0 .. N /\ (LastProc # 0 => LastProc \in Procs)
  BY NAssumption DEF TypeOK, Procs
<1>1. CASE RecordEnd
  BY <1>1 DEF RecordEnd, local
<1>2. ASSUME NEW p \in Procs, Scheduler(p)
      PROVE  Lingering
  <2>1. CASE RecordPick(p)
    BY <1>0, <2>1 DEF RecordPick, local
  <2>2. CASE RecordLock(p)
    BY <2>2 DEF RecordLock, local
  <2>3. CASE RecordNotRun(p)
    BY <2>3 DEF RecordNotRun, local
  <2>4. CASE RecordFinished(p)
    BY <2>4 DEF RecordFinished, CheckDead, local
  <2>5. CASE RecordBlocked(p)
    BY <2>5 DEF RecordBlocked, local
  <2>6. CASE RecordWoken(p)
    BY <2>6 DEF RecordWoken, local
  <2>7. CASE RecordRegrant(p)
    BY <1>0, <2>7 DEF RecordRegrant, local
  <2>8. CASE RecordEvents(p)
    BY <1>0, <2>8 DEF RecordEvents, local
  <2>9. CASE RecordOther(p)
    BY <2>9 DEF RecordOther, CheckDead, local
  <2> QED BY <1>2, <2>1, <2>2, <2>3, <2>4, <2>5, <2>6, <2>7, <2>8, <2>9
          DEF Scheduler
<1>3. ASSUME NEW p \in Procs, Local(p)
      PROVE  Lingering
  <2>1. CASE LocalAcquire(p)
    BY <2>1 DEF LocalAcquire, scheduler
  <2>2. CASE LocalResume(p)
    BY <2>2 DEF LocalResume, scheduler
  <2>4. CASE NetWake(p)
    BY <1>0, <2>4 DEF NetWake, scheduler
  <2> QED BY <1>3, <2>1, <2>2, <2>4 DEF Local
<1>4. CASE UNCHANGED vars
  BY <1>4 DEF vars, scheduler, local
<1> QED BY <1>1, <1>2, <1>3, <1>4 DEF Next, Terminated

Rests ==
  /\ UNCHANGED <<schedule, Log, Coverage, executed, LastProc>>
  /\ Lingering' = Lingering

Chooses ==
  /\ \A q \in Procs : Log[q] = <<>>
  /\ LastProc' \in Procs
  /\ UNCHANGED <<schedule, Log, Coverage, executed>>
  /\ ~ Lingering /\ ~ Lingering'

Extracts ==
  /\ LastProc \in Procs
  /\ Log[LastProc] # <<>> \/ Lingering
  /\ Extract(LastProc)
  /\ UNCHANGED <<executed, LastProc>>
  /\ Lingering' = Lingering

Runs ==
  /\ LastProc \in Procs
  /\ \E s \in Seq(Event) : Logs(LastProc, s)
  /\ UNCHANGED <<schedule, LastProc>>
  /\ ~ Lingering /\ Lingering' \in BOOLEAN

\* A turn is visible in the execution and in the place of the local
\* scheduler.
LEMMA YieldMoves ==
  ASSUME TypeOK, DeadInv, NEW p \in Procs, LocalYield(p)
  PROVE  lpc' # lpc /\ executed' # executed
<1>1. PICK s \in Seq(Event) : Len(s) > 0 /\ executed' = executed \o s
  BY YieldEffect DEF Logs
<1>2. executed \in Seq(Event) /\ lpc \in [Procs -> LocalStates]
  BY DEF TypeOK
<1>3. Len(executed \o s) # Len(executed)
  BY <1>1, <1>2
<1>4. lpc[p] = "hold" /\ lpc'[p] # "hold"
  BY <1>2, YieldEffect
<1> QED BY <1>1, <1>3, <1>4

\* Between two turns no process lingers.
LEMMA PickRests ==
  ASSUME TypeOK, FinishInv, pc = "pick"
  PROVE  ~ Lingering
BY NAssumption DEF FinishInv, Lingering, TypeOK, Procs


\* The four kinds of steps, seen from the schedule: nothing happens to it, the
\* next process is chosen while no event is left over, the log of the process
\* whose turn it is is moved into it, or that process runs.
LEMMA StepKinds ==
  ASSUME TypeOK, Inv, [Next]_vars
  PROVE  Rests \/ Chooses \/ Extracts \/ Runs
<1> USE DEF Inv, Rests, Chooses
<1>a. ASSUME ~ \E q \in Procs : LocalYield(q)
      PROVE  Lingering' = Lingering
  BY <1>a, FinishStep, LingerStep DEF Lingering
<1>b. ASSUME NEW q \in Procs, LocalYield(q)
      PROVE  lpc[q] = "hold" /\ UNCHANGED scheduler
  BY <1>b, YieldEffect
<1>c. ASSUME NEW q \in Procs, LocalYield(q)
      PROVE  ~ Lingering
  <2>1. LastProc = q /\ lpc[q] = "hold"
    BY <1>b, <1>c, HolderHasTurn
  <2> QED BY <2>1 DEF FinishInv, Lingering
<1>1. CASE RecordEnd
  <2>1. UNCHANGED lpc
    BY <1>1 DEF RecordEnd, local
  <2> QED BY <1>1, <1>a, <2>1, YieldMoves DEF RecordEnd, schedule, local
<1>2. ASSUME NEW p \in Procs, Scheduler(p)
      PROVE  Rests \/ Chooses \/ Extracts
  <2>0. Lingering' = Lingering
    <3>1. UNCHANGED lpc
      BY <1>2 DEF Scheduler, RecordPick, RecordLock, RecordNotRun,
         RecordFinished, RecordBlocked, RecordWoken, RecordRegrant,
         RecordEvents, RecordOther, CheckDead, local
    <3>2. ~ \E q \in Procs : LocalYield(q)
      BY <3>1, YieldMoves
    <3> QED BY <1>a, <3>2
  <2>1. CASE RecordPick(p)
    <3>1. pc = "pick"
      BY <2>1 DEF RecordPick
    <3>2. ~ Lingering
      BY <3>1, PickRests
    <3> QED BY <2>0, <2>1, <3>2 DEF RecordPick, TurnInv, schedule, local
  <2>2. CASE RecordLock(p)
    BY <2>0, <2>2 DEF RecordLock, schedule, local
  <2>3. CASE RecordNotRun(p)
    BY <2>0, <2>3 DEF RecordNotRun, NoExtract, schedule, local
  <2>4. CASE RecordFinished(p)
    <3>1. /\ pc = "held" /\ LastProc = p /\ p # 0
          /\ Run[p] = FINISHED /\ procStatus[p] = "ALIVE"
      BY <2>4 DEF RecordFinished, DeadInv, Procs
    <3>2. Log[p] # <<>> \/ Lingering
      BY <3>1 DEF CommandInv, CommandOK, Lingering
    <3> QED BY <2>0, <2>4, <3>2 DEF RecordFinished, CheckDead, Extracts, local
  <2>5. CASE RecordBlocked(p)
    BY <2>0, <2>5 DEF RecordBlocked, NoExtract, Extracts, schedule, local
  <2>6. CASE RecordWoken(p)
    BY <2>0, <2>6 DEF RecordWoken, NoExtract, schedule, local
  <2>7. CASE RecordRegrant(p)
    BY <2>0, <2>7 DEF RecordRegrant, NoExtract, schedule, local
  <2>8. CASE RecordEvents(p)
    <3>0. Run[p] \in RunValues /\ Run[p] >= 0
      BY <2>8 DEF RecordEvents, TypeOK
    <3>1. Run[p] = ROUTINE
      BY <3>0 DEF RunValues, IDLE, RECORD, KILL, EXECUTE, BLOCKED, WOKEN,
                  ROUTINE, FINISHED
    <3>2. Log[p] # <<>>
      BY <3>1 DEF CommandInv, CommandOK
    <3> QED BY <2>0, <2>8, <3>2 DEF RecordEvents, Extracts, local
  <2>9. CASE RecordOther(p)
    BY <2>0, <2>9 DEF RecordOther, CheckDead, NoExtract, schedule, local
  <2> QED BY <1>2, <2>1, <2>2, <2>3, <2>4, <2>5, <2>6, <2>7, <2>8, <2>9
          DEF Scheduler
<1>3. ASSUME NEW p \in Procs, Local(p)
      PROVE  Rests \/ Runs
  <2>0. executed' = executed => Lingering' = Lingering
    BY <1>a, YieldMoves
  <2>1. CASE LocalAcquire(p)
    BY <2>0, <2>1 DEF LocalAcquire, scheduler, schedule
  <2>2. CASE LocalResume(p)
    BY <2>0, <2>2 DEF LocalResume, scheduler, schedule
  <2>3. CASE LocalYield(p)
    <3>1. LastProc = p
      BY <2>3, YieldEffect, HolderHasTurn
    <3>2. UNCHANGED <<scheduler, schedule>>
      BY <2>3, YieldEffect
    <3>3. \E s \in Seq(Event) : Logs(p, s)
      BY <2>3, YieldEffect
    <3>4. ~ Lingering /\ Lingering' \in BOOLEAN
      BY <1>c, <2>3 DEF Lingering
    <3> QED BY <3>1, <3>2, <3>3, <3>4 DEF Runs, scheduler
  <2>4. CASE NetWake(p)
    BY <2>0, <2>4 DEF NetWake, scheduler, schedule
  <2> QED BY <1>3, <2>1, <2>2, <2>3, <2>4 DEF Local
<1>4. CASE UNCHANGED vars
  BY <1>4 DEF vars, scheduler, schedule, local, Lingering
<1> QED BY <1>1, <1>2, <1>3, <1>4 DEF Next, Terminated

\* The schedule followed by the log of the running process stays equal to the
\* execution.
LEMMA OrderStep ==
  ASSUME TypeOK, Inv, [Next]_vars
  PROVE  OrderInv'
<1>0. /\ 0 \notin Procs
      /\ LogEvents \in Seq(Event) /\ executed \in Seq(Event)
      /\ Log \in [Procs -> Seq(Event)]
  BY DEF TypeOK, Procs
<1>1. CASE Rests
  BY <1>1 DEF Rests, schedule, Inv, OrderInv, Unrecorded
<1>2. CASE Chooses
  <2>1. Unrecorded = <<>> /\ Unrecorded' = <<>>
    BY <1>0, <1>2 DEF Chooses, Unrecorded, TypeOK, Procs
  <2> QED BY <1>2, <2>1 DEF Chooses, schedule, Inv, OrderInv
<1>3. CASE Extracts
  <2>0. /\ LastProc \in Procs
        /\ Extract(LastProc)
        /\ UNCHANGED <<executed, LastProc>>
    BY <1>3 DEF Extracts
  <2>1. /\ LogEvents' = LogEvents \o Log[LastProc]
        /\ Log' = [Log EXCEPT ![LastProc] = <<>>]
    BY <2>0 DEF Extract, ConsumeLog
  <2>2. Unrecorded = Log[LastProc] /\ Unrecorded' = <<>>
    BY <1>0, <2>0, <2>1 DEF Unrecorded
  <2>3. LogEvents' \o <<>> = LogEvents'
    BY <1>0, <2>0, <2>1, ConcatEmptySeq
  <2>4. executed' = LogEvents' \o Unrecorded'
    BY <2>0, <2>1, <2>2, <2>3 DEF Inv, OrderInv
  <2>5. \A q \in Procs : \A j \in DOMAIN Log'[q] : Log'[q][j].P = q
    BY <1>0, <2>1 DEF Inv, OrderInv
  <2> QED BY <2>4, <2>5 DEF OrderInv
<1>4. CASE Runs
  <2>0. LastProc \in Procs /\ UNCHANGED <<LogEvents, CovEvents, LastProc>>
    BY <1>4 DEF Runs, schedule
  <2>1. PICK s \in Seq(Event) :
          /\ \A j \in DOMAIN s : s[j].P = LastProc
          /\ executed' = executed \o s
          /\ Log' = [Log EXCEPT ![LastProc] = Log[LastProc] \o s]
    BY <1>4 DEF Runs, Logs
  <2>2. Unrecorded = Log[LastProc] /\ Unrecorded' = Log[LastProc] \o s
    BY <1>0, <2>0, <2>1 DEF Unrecorded
  <2>3. (LogEvents \o Log[LastProc]) \o s = LogEvents \o (Log[LastProc] \o s)
    <3>1. \A t \in Seq(Event) : (LogEvents \o t) \o s = LogEvents \o (t \o s)
      BY <1>0, ConcatAssociative
    <3>2. Log[LastProc] \in Seq(Event)
      BY <1>0, <2>0
    <3> QED BY <3>1, <3>2
  <2>4. executed' = LogEvents' \o Unrecorded'
    BY <2>0, <2>1, <2>2, <2>3 DEF Inv, OrderInv
  <2>5. \A j \in DOMAIN (Log[LastProc] \o s) : (Log[LastProc] \o s)[j].P = LastProc
    <3>1. \A j \in DOMAIN Log[LastProc] : Log[LastProc][j].P = LastProc
      BY <2>0 DEF Inv, OrderInv
    <3> QED BY <1>0, <2>0, <2>1, <3>1
  <2>6. \A q \in Procs : \A j \in DOMAIN Log'[q] : Log'[q][j].P = q
    BY <1>0, <2>0, <2>1, <2>5 DEF Inv, OrderInv
  <2> QED BY <2>4, <2>6 DEF OrderInv
<1> QED BY <1>1, <1>2, <1>3, <1>4, StepKinds

-----------------------------------------------------------------------------
\* The inductive invariant holds in every reachable state.
THEOREM RecordInvariance == Spec => []Inv
<1>1. Init => Inv
  <2>1. Init => LockInv /\ TurnInv /\ CommandInv /\ DeadInv /\ FinishInv
    BY NAssumption
    DEF Init, LockInv, Owns, TurnInv, CommandInv, CommandOK, DeadInv, FinishInv, Procs,
        IDLE, ROUTINE, FINISHED
  <2>2. Init => OrderInv
    BY DEF Init, OrderInv, Unrecorded
  <2> QED BY <2>1, <2>2 DEF Inv
<1>2. TypeOK /\ Inv /\ [Next]_vars => Inv'
  <2> SUFFICES ASSUME TypeOK, Inv, [Next]_vars PROVE Inv'
    OBVIOUS
  <2>1. LockInv' /\ TurnInv' /\ CommandInv' /\ DeadInv' /\ FinishInv'
    BY LockStep, TurnStep, CommandStep, DeadStep, FinishStep DEF Inv
  <2>2. OrderInv'
    BY OrderStep
  <2> QED BY <2>1, <2>2 DEF Inv
<1> QED BY <1>1, <1>2, RecordTyping, PTL DEF Spec

\* No two processes ever run at the same time, whatever their number and
\* however they block and wake up: recordSchedule's lock protocol serialises
\* them.
THEOREM RecordSerial == Spec => []SerialExecution
<1>1. TypeOK /\ Inv => SerialExecution
  BY HolderHasTurn DEF Inv, SerialExecution
<1> QED BY <1>1, RecordTyping, RecordInvariance, PTL

\* The schedule that recordSchedule builds is the execution: in order, without
\* gaps or duplicates, and complete at every change of turn and at the end.
THEOREM RecordOrder == Spec => []RecordedInOrder
<1>1. TypeOK /\ Inv => RecordedInOrder
  <2> SUFFICES ASSUME TypeOK, Inv PROVE RecordedInOrder
    OBVIOUS
  <2>1. /\ Unrecorded \in Seq(Event) /\ LogEvents \in Seq(Event)
        /\ executed = LogEvents \o Unrecorded
    BY NAssumption DEF Inv, OrderInv, TypeOK, Unrecorded, Procs
  <2>2. LogEvents = SubSeq(executed, 1, Len(LogEvents))
    <3> HIDE DEF Unrecorded
    <3> QED BY <2>1
  <2>3. ASSUME pc \in {"pick", "done"} PROVE Len(LogEvents) = Len(executed)
    <3>1. Unrecorded = <<>>
      BY <2>3, NAssumption DEF Inv, TurnInv, Unrecorded, TypeOK, Procs
    <3>2. executed = LogEvents
      BY <2>1, <3>1, ConcatEmptySeq
    <3> QED BY <3>2
  <2> QED BY <2>2, <2>3 DEF RecordedInOrder
<1> QED BY <1>1, RecordTyping, RecordInvariance, PTL

\* A process that recordSchedule has declared DEAD has ended, and every event
\* it ever logged is in the schedule.
THEOREM RecordDead == Spec => []DeadIsFinal
<1>1. TypeOK /\ Inv => DeadIsFinal
  <2> SUFFICES ASSUME TypeOK, Inv, NEW p \in Procs, procStatus[p] = "DEAD"
               PROVE  /\ lpc[p] = "end"
                      /\ Log[p] = <<>>
                      /\ \A j \in DOMAIN executed :
                           executed[j].P = p => j <= Len(LogEvents)
    BY DEF DeadIsFinal
  <2>1. lpc[p] = "end" /\ Log[p] = <<>>
    BY DEF Inv, DeadInv
  <2>2. /\ Unrecorded \in Seq(Event) /\ LogEvents \in Seq(Event)
        /\ executed = LogEvents \o Unrecorded
    BY NAssumption DEF Inv, OrderInv, TypeOK, Unrecorded, Procs
  <2>3. \A j \in DOMAIN Unrecorded : Unrecorded[j].P # p
    BY <2>1 DEF Inv, OrderInv, Unrecorded, TypeOK, Procs
  <2>4. ASSUME NEW j \in DOMAIN executed, executed[j].P = p
        PROVE  j <= Len(LogEvents)
    <3> HIDE DEF Unrecorded
    <3>1. SUFFICES ASSUME j > Len(LogEvents) PROVE FALSE
      BY <2>2
    <3>2. /\ j - Len(LogEvents) \in DOMAIN Unrecorded
          /\ executed[j] = Unrecorded[j - Len(LogEvents)]
      BY <2>2, <3>1
    <3> QED BY <2>3, <2>4, <3>2
  <2> QED BY <2>1, <2>4
<1> QED BY <1>1, RecordTyping, RecordInvariance, PTL

-----------------------------------------------------------------------------
\* The coverage in shared memory is that of the events in the log: extract-
\* DataFromProc empties both together.
CoverInv ==
  \A p \in Procs : Coverage[p] = {Log[p][j].id : j \in DOMAIN Log[p]}

\* How many events the coverage reports account for.
Reported ==
  IF CovEvents = <<>> THEN 0 ELSE CovEvents[Len(CovEvents)].EventIndex + 1

\* The batch that the k-th report stands for, and what CoverageOfBatch says
\* of it.
FirstOf(k) == IF k = 1 THEN 1 ELSE CovEvents[k - 1].EventIndex + 2

LastOf(k) == CovEvents[k].EventIndex + 1

Covers(k) ==
  /\ FirstOf(k) <= LastOf(k) \/ Lingering
  /\ LastOf(k) <= Len(LogEvents)
  /\ CovEvents[k].CoverageInfo = {LogEvents[j].id : j \in FirstOf(k) .. LastOf(k)}
  /\ \A j \in FirstOf(k) .. LastOf(k) : LogEvents[j].P = LogEvents[LastOf(k)].P

\* The reports account for the whole schedule, batch by batch.
ReportInv ==
  /\ Reported = Len(LogEvents)
  /\ \A k \in DOMAIN CovEvents : CovEvents[k].EventIndex + 1 \in Nat /\ Covers(k)

\* The events of two sequences, put one after the other.
LEMMA IdsOfConcat ==
  ASSUME NEW s \in Seq(Event), NEW t \in Seq(Event)
  PROVE  {(s \o t)[j].id : j \in DOMAIN (s \o t)}
           = {s[j].id : j \in DOMAIN s} \cup {t[j].id : j \in DOMAIN t}
<1>1. /\ DOMAIN (s \o t) = 1 .. Len(s) + Len(t)
      /\ DOMAIN s = 1 .. Len(s) /\ DOMAIN t = 1 .. Len(t)
      /\ Len(s) \in Nat /\ Len(t) \in Nat
  OBVIOUS
<1>2. ASSUME NEW j \in DOMAIN s
      PROVE  j \in DOMAIN (s \o t) /\ (s \o t)[j] = s[j]
  BY <1>1
<1>3. ASSUME NEW j \in DOMAIN t
      PROVE  Len(s) + j \in DOMAIN (s \o t) /\ (s \o t)[Len(s) + j] = t[j]
  BY <1>1
<1>4. ASSUME NEW j \in DOMAIN (s \o t), j \notin DOMAIN s
      PROVE  j - Len(s) \in DOMAIN t /\ (s \o t)[j] = t[j - Len(s)]
  BY <1>1, <1>4
<1>5. ASSUME NEW x
      PROVE  (\E j \in DOMAIN (s \o t) : x = (s \o t)[j].id)
               <=> \/ \E j \in DOMAIN s : x = s[j].id
                   \/ \E j \in DOMAIN t : x = t[j].id
  <2>1. ASSUME NEW j \in DOMAIN (s \o t), x = (s \o t)[j].id
        PROVE  \/ \E k \in DOMAIN s : x = s[k].id
               \/ \E k \in DOMAIN t : x = t[k].id
    BY <1>2, <1>4, <2>1
  <2>2. ASSUME NEW j \in DOMAIN s, x = s[j].id
        PROVE  \E k \in DOMAIN (s \o t) : x = (s \o t)[k].id
    BY <1>2, <2>2
  <2>3. ASSUME NEW j \in DOMAIN t, x = t[j].id
        PROVE  \E k \in DOMAIN (s \o t) : x = (s \o t)[k].id
    BY <1>3, <2>3
  <2> QED BY <2>1, <2>2, <2>3
<1> QED BY <1>5

\* The coverage stays that of the events in the log.
LEMMA CoverStep ==
  ASSUME TypeOK, Inv, CoverInv, [Next]_vars
  PROVE  CoverInv'
<1>0. Log \in [Procs -> Seq(Event)] /\ Coverage \in [Procs -> SUBSET Nat]
  BY DEF TypeOK
<1>1. CASE Rests
  BY <1>1 DEF Rests, CoverInv
<1>2. CASE Chooses
  BY <1>2 DEF Chooses, CoverInv
<1>3. CASE Extracts
  <2>1. /\ Log' = [Log EXCEPT ![LastProc] = <<>>]
        /\ Coverage' = [Coverage EXCEPT ![LastProc] = {}]
    BY <1>3 DEF Extracts, Extract, ConsumeLog, ConsumeCoverage
  <2> QED BY <1>0, <2>1 DEF CoverInv
<1>4. CASE Runs
  <2>1. PICK s \in Seq(Event) : Logs(LastProc, s)
    BY <1>4 DEF Runs
  <2>2. LastProc \in Procs /\ Log[LastProc] \in Seq(Event)
    BY <1>0, <1>4 DEF Runs
  <2> DEFINE t == Log[LastProc]
  <2>3. {(t \o s)[j].id : j \in DOMAIN (t \o s)}
          = {t[j].id : j \in DOMAIN t} \cup {s[j].id : j \in DOMAIN s}
    BY <2>1, <2>2, IdsOfConcat
  <2>4. /\ Log' = [Log EXCEPT ![LastProc] = t \o s]
        /\ Coverage' = [Coverage EXCEPT ![LastProc] =
                           Coverage[LastProc] \cup {s[j].id : j \in DOMAIN s}]
    BY <2>1 DEF Logs
  <2>5. Coverage[LastProc] = {t[j].id : j \in DOMAIN t}
    BY <2>2 DEF CoverInv
  <2>6. Coverage'[LastProc] = {Log'[LastProc][j].id : j \in DOMAIN Log'[LastProc]}
    <3> HIDE DEF t
    <3>1. Log'[LastProc] = t \o s
      BY <1>0, <2>2, <2>4
    <3>2. Coverage'[LastProc] = Coverage[LastProc] \cup {s[j].id : j \in DOMAIN s}
      BY <1>0, <2>2, <2>4
    <3> QED BY <2>3, <2>5, <3>1, <3>2
  <2>7. \A q \in Procs : q # LastProc =>
          Coverage'[q] = Coverage[q] /\ Log'[q] = Log[q]
    <3> HIDE DEF t
    <3> QED BY <1>0, <2>2, <2>4
  <2> QED BY <2>6, <2>7 DEF CoverInv
<1> QED BY <1>1, <1>2, <1>3, <1>4, StepKinds

\* Every batch is reported once, with the coverage of its own events.
LEMMA ReportStep ==
  ASSUME TypeOK, TypeOK', Inv, CoverInv, ReportInv, [Next]_vars
  PROVE  ReportInv'
<1>0. /\ LogEvents \in Seq(Event) /\ CovEvents \in Seq(CovEvent)
      /\ Log \in [Procs -> Seq(Event)]
      /\ \A k \in DOMAIN CovEvents : CovEvents[k].EventIndex \in Int
  <2>1. CovEvents \in Seq(CovEvent)
    BY DEF TypeOK
  <2>2. \A k \in DOMAIN CovEvents : CovEvents[k] \in CovEvent
    BY <2>1, ElementOfSeq
  <2> QED BY <2>1, <2>2 DEF TypeOK, CovEvent
<1>a. Lingering => Lingering'
  BY FinishStep DEF Inv
<1>1. CASE UNCHANGED schedule
  <2>1. LogEvents' = LogEvents /\ CovEvents' = CovEvents
    BY <1>1 DEF schedule
  <2>2. Reported' = Reported /\ \A k \in DOMAIN CovEvents : Covers(k) => Covers(k)'
    BY <1>a, <2>1 DEF Reported, Covers, FirstOf, LastOf
  <2> QED BY <2>1, <2>2 DEF ReportInv
<1>2. CASE Extracts
  <2> DEFINE p == LastProc
             b == Log[p]
             n == Len(LogEvents)
  <2>0. PICK m \in Nat : m = Len(CovEvents)
    BY <1>0
  <2>1. /\ p \in Procs /\ (b # <<>> \/ Lingering)
        /\ LogEvents' = LogEvents \o b
        /\ CovEvents' = Append(CovEvents,
             [CoverageInfo |-> Coverage[p], EventIndex |-> LastIndex(p)])
    BY <1>2 DEF Extracts, Extract, ConsumeLog
  <2>2. /\ b \in Seq(Event) /\ Len(b) \in Nat /\ n \in Nat
        /\ Len(b) > 0 \/ Lingering'
    BY <1>0, <1>a, <2>1
  <2>3. LastIndex(p) = n + Len(b) - 1
    BY DEF LastIndex, i
  <2>4. /\ Len(LogEvents') = n + Len(b)
        /\ \A j \in 1 .. n : LogEvents'[j] = LogEvents[j]
        /\ \A j \in 1 .. Len(b) : LogEvents'[n + j] = b[j]
    BY <1>0, <2>1, <2>2
  <2>5. /\ DOMAIN CovEvents = 1 .. m /\ DOMAIN CovEvents' = 1 .. m + 1
        /\ Len(CovEvents') = m + 1
        /\ \A k \in 1 .. m : CovEvents'[k] = CovEvents[k]
        /\ CovEvents'[m + 1] = [CoverageInfo |-> Coverage[p],
                                EventIndex |-> n + Len(b) - 1]
    BY <1>0, <2>0, <2>1, <2>2, <2>3
  <2>6. Reported' = Len(LogEvents')
    <3>1. CovEvents' # <<>>
      BY <2>2, <2>5
    <3>2. Reported' = n + Len(b) - 1 + 1
      BY <2>5, <3>1 DEF Reported
    <3> QED BY <2>2, <2>4, <3>2
  <2>7. Coverage[p] = {LogEvents'[j].id : j \in n + 1 .. n + Len(b)}
    <3>1. Coverage[p] = {b[j].id : j \in 1 .. Len(b)}
      <4>1. Coverage[p] = {b[j].id : j \in DOMAIN b}
        BY <2>1 DEF CoverInv
      <4>2. DOMAIN b = 1 .. Len(b)
        BY <2>2
      <4> HIDE DEF b
      <4> QED BY <4>1, <4>2
    <3>2. ASSUME NEW j \in n + 1 .. n + Len(b)
          PROVE  j - n \in 1 .. Len(b) /\ LogEvents'[j] = b[j - n]
      <4>1. j - n \in 1 .. Len(b) /\ n + (j - n) = j
        BY <2>2
      <4> QED BY <2>4, <4>1
    <3>3. ASSUME NEW j \in 1 .. Len(b)
          PROVE  n + j \in n + 1 .. n + Len(b) /\ LogEvents'[n + j] = b[j]
      BY <2>2, <2>4
    <3> HIDE DEF p, b, n
    <3> QED BY <3>1, <3>2, <3>3
  <2>8. \A j \in n + 1 .. n + Len(b) : LogEvents'[j].P = p
    <3>1. \A j \in 1 .. Len(b) : b[j].P = p
      BY <2>1, <2>2 DEF Inv, OrderInv
    <3>2. \A j \in n + 1 .. n + Len(b) : j - n \in 1 .. Len(b) /\ n + (j - n) = j
      BY <2>2
    <3> HIDE DEF p, b, n
    <3> QED BY <2>4, <3>1, <3>2
  <2>9. ASSUME NEW k \in 1 .. m
        PROVE  Covers(k)'
    <3> DEFINE first == FirstOf(k)
               last == LastOf(k)
    <3>1. /\ first <= last \/ Lingering'
          /\ last <= n
          /\ CovEvents[k].CoverageInfo = {LogEvents[j].id : j \in first .. last}
          /\ \A j \in first .. last : LogEvents[j].P = LogEvents[last].P
      BY <1>a, <2>5 DEF ReportInv, Covers
    <3>2. first \in Nat /\ last \in Nat /\ first >= 1
      <4>1. \A h \in 1 .. m : /\ CovEvents[h].EventIndex \in Int
                              /\ CovEvents[h].EventIndex + 1 \in Nat
        BY <1>0, <2>5 DEF ReportInv
      <4>2. k # 1 => k - 1 \in 1 .. m
        BY <2>2
      <4> QED BY <4>1, <4>2 DEF FirstOf, LastOf
    <3>3. \A j \in first .. last : j \in 1 .. n /\ LogEvents'[j] = LogEvents[j]
      <4>1. \A j \in first .. last : j \in 1 .. n
        BY <2>2, <3>1, <3>2
      <4> QED BY <2>4, <4>1
    <3>4. \A j \in first .. last : last \in first .. last
      BY <3>2
    <3>5. {LogEvents'[j].id : j \in first .. last}
            = {LogEvents[j].id : j \in first .. last}
      <4> HIDE DEF first, last, n
      <4> QED BY <3>3
    <3>6. first = FirstOf(k)'
      <4>1. k # 1 => k - 1 \in 1 .. m
        BY <2>2
      <4> QED BY <2>5, <4>1 DEF FirstOf
    <3>7. last = LastOf(k)'
      BY <2>5 DEF LastOf
    <3>8. CovEvents'[k].CoverageInfo = {LogEvents'[j].id : j \in first .. last}
      BY <2>5, <3>1, <3>5
    <3>9. \A j \in first .. last : LogEvents'[j].P = LogEvents'[last].P
      <4> HIDE DEF first, last, n
      <4> QED BY <3>1, <3>3, <3>4
    <3>10. last <= n + Len(b)
      BY <2>2, <3>1, <3>2
    <3> HIDE DEF first, last
    <3> QED BY <2>4, <3>1, <3>6, <3>7, <3>8, <3>9, <3>10 DEF Covers
  <2>10. Covers(m + 1)'
    <3> DEFINE first == FirstOf(m + 1)'
               last == LastOf(m + 1)'
    <3>1. last = n + Len(b)
      BY <2>2, <2>5 DEF LastOf
    <3>2. first = n + 1
      <4>1. CASE m = 0
        <5>1. CovEvents = <<>>
          BY <1>0, <2>0, <4>1, EmptySeq
        <5>2. n = 0
          BY <5>1 DEF ReportInv, Reported
        <5> QED BY <4>1, <5>2 DEF FirstOf
      <4>2. CASE m # 0
        <5>1. CovEvents # <<>> /\ m \in 1 .. m /\ m + 1 - 1 = m /\ m + 1 # 1
          BY <1>0, <2>0, <2>2, <4>2
        <5>2. CovEvents[m].EventIndex + 1 = n /\ CovEvents[m].EventIndex \in Int
          BY <1>0, <2>0, <2>5, <5>1 DEF ReportInv, Reported
        <5>3. first = CovEvents[m].EventIndex + 2
          BY <2>5, <5>1 DEF FirstOf
        <5> HIDE DEF first, n
        <5> QED BY <5>2, <5>3
      <4> QED BY <4>1, <4>2
    <3>3. CovEvents'[m + 1].CoverageInfo = {LogEvents'[j].id : j \in first .. last}
      <4> HIDE DEF first, last
      <4> QED BY <2>5, <2>7, <3>1, <3>2
    <3>4. /\ first <= last \/ Lingering'
          /\ last <= n + Len(b)
          /\ \A j \in first .. last : last \in first .. last
      <4> HIDE DEF first, last
      <4> QED BY <2>2, <3>1, <3>2
    <3>5. \A j \in first .. last : LogEvents'[j].P = LogEvents'[last].P
      <4> HIDE DEF first, last
      <4> QED BY <2>8, <3>1, <3>2, <3>4
    <3> QED BY <2>4, <3>3, <3>4, <3>5 DEF Covers
  <2>11. \A k \in DOMAIN CovEvents' : CovEvents'[k].EventIndex + 1 \in Nat /\ Covers(k)'
    <3>1. \A k \in 1 .. m : CovEvents[k].EventIndex + 1 \in Nat
      BY <2>5 DEF ReportInv
    <3>2. n + Len(b) - 1 + 1 \in Nat /\ \A k \in 1 .. m + 1 : k \in 1 .. m \/ k = m + 1
      BY <2>2
    <3> HIDE DEF p, b, n
    <3> QED BY <2>5, <2>9, <2>10, <3>1, <3>2
  <2> QED BY <2>6, <2>11 DEF ReportInv
<1> QED BY <1>1, <1>2, StepKinds DEF Rests, Chooses, Runs

-----------------------------------------------------------------------------
NoContext == [q \in Procs |-> {}]

\* The context follows the schedule, also at every check already made.
ContextInv ==
  /\ context = UpdateContext(NoContext, LogEvents)
  /\ \A k \in DOMAIN PropEvents : PropEvents[k].EventIndex + 1 \in 0 .. Len(LogEvents)
  /\ CheckedInContext

\* No event, no change.
LEMMA ContextOfNone ==
  ASSUME NEW ctx \in Context
  PROVE  UpdateContext(ctx, <<>>) = ctx
BY DEF UpdateContext, Writes, Context

\* The writes of q in two sequences, put one after the other.
LEMMA WritesOfConcat ==
  ASSUME NEW s \in Seq(Event), NEW t \in Seq(Event), NEW q \in Procs
  PROVE  /\ \A j \in Writes(q, s) : /\ j \in Writes(q, s \o t)
                                   /\ j \in 1 .. Len(s)
                                   /\ (s \o t)[j] = s[j]
         /\ \A j \in Writes(q, t) : /\ Len(s) + j \in Writes(q, s \o t)
                                   /\ j \in 1 .. Len(t)
                                   /\ (s \o t)[Len(s) + j] = t[j]
         /\ \A j \in Writes(q, s \o t) :
              \/ j \in Writes(q, s)
              \/ j - Len(s) \in Writes(q, t) /\ Len(s) + (j - Len(s)) = j
<1>1. /\ DOMAIN (s \o t) = 1 .. Len(s) + Len(t)
      /\ DOMAIN s = 1 .. Len(s) /\ DOMAIN t = 1 .. Len(t)
      /\ Len(s) \in Nat /\ Len(t) \in Nat
  OBVIOUS
<1>2. ASSUME NEW j \in DOMAIN s
      PROVE  j \in DOMAIN (s \o t) /\ (s \o t)[j] = s[j]
  BY <1>1
<1>3. ASSUME NEW j \in DOMAIN t
      PROVE  Len(s) + j \in DOMAIN (s \o t) /\ (s \o t)[Len(s) + j] = t[j]
  BY <1>1
<1>4. ASSUME NEW j \in DOMAIN (s \o t), j \notin DOMAIN s
      PROVE  /\ j - Len(s) \in DOMAIN t /\ Len(s) + (j - Len(s)) = j
             /\ (s \o t)[j] = t[j - Len(s)]
  BY <1>1, <1>4
<1> QED BY <1>1, <1>2, <1>3, <1>4 DEF Writes

\* Two batches after one another leave the same context as both together.
LEMMA ContextOfConcat ==
  ASSUME NEW ctx, NEW s \in Seq(Event), NEW t \in Seq(Event)
  PROVE  UpdateContext(UpdateContext(ctx, s), t) = UpdateContext(ctx, s \o t)
<1> DEFINE Last(W) == {j \in W : \A k \in W : k <= j}
           Value(e, W) == {e[j].id : j \in {k \in Last(W) : e[k].Type = "LOG_EVENT"}}
<1> SUFFICES ASSUME NEW q \in Procs
             PROVE  UpdateContext(UpdateContext(ctx, s), t)[q]
                      = UpdateContext(ctx, s \o t)[q]
  BY DEF UpdateContext
<1> DEFINE Updated(c, e, W) == IF W = {} THEN c[q] ELSE Value(e, W)
<1>1. /\ UpdateContext(ctx, s)[q] = Updated(ctx, s, Writes(q, s))
      /\ UpdateContext(ctx, s \o t)[q] = Updated(ctx, s \o t, Writes(q, s \o t))
      /\ UpdateContext(UpdateContext(ctx, s), t)[q]
           = Updated(UpdateContext(ctx, s), t, Writes(q, t))
  BY DEF UpdateContext
<1>2. CASE Writes(q, t) = {}
  <2>1. Writes(q, s \o t) = Writes(q, s)
    <3>1. \A j \in Writes(q, s) : j \in Writes(q, s \o t)
      BY WritesOfConcat
    <3>2. \A j \in Writes(q, s \o t) : j \in Writes(q, s)
      BY <1>2, WritesOfConcat
    <3> QED BY <3>1, <3>2
  <2>2. \A j \in Writes(q, s) : (s \o t)[j] = s[j]
    BY WritesOfConcat
  <2>3. Value(s \o t, Writes(q, s)) = Value(s, Writes(q, s))
    BY <2>2
  <2> HIDE DEF Value
  <2> QED BY <1>1, <1>2, <2>1, <2>3
<1>3. CASE Writes(q, t) # {}
  <2> DEFINE n == Len(s)
             Wt == Writes(q, t)
             W == Writes(q, s \o t)
  <2>0. n \in Nat /\ Len(t) \in Nat
    OBVIOUS
  <2>1. /\ \A j \in Wt : j \in 1 .. Len(t) /\ n + j \in W /\ (s \o t)[n + j] = t[j]
        /\ \A j \in W : j \in 1 .. n \/ (j - n \in Wt /\ n + (j - n) = j)
    BY WritesOfConcat
  <2>2. PICK w \in Wt : TRUE
    BY <1>3
  <2> HIDE DEF n, Wt, W
  <2>3. ASSUME NEW j \in Last(W)
        PROVE  j - n \in Last(Wt) /\ n + (j - n) = j
    <3>1. n + w <= j /\ j \in W /\ \A k \in Wt : n + k <= j
      BY <2>1
    <3>2. j \notin 1 .. n
      BY <2>0, <2>1, <3>1
    <3>3. j - n \in Wt /\ n + (j - n) = j
      BY <2>1, <3>1, <3>2
    <3>4. \A k \in Wt : k <= j - n
      BY <2>0, <2>1, <3>1, <3>3
    <3> QED BY <3>3, <3>4
  <2>4. ASSUME NEW j \in Last(Wt)
        PROVE  n + j \in Last(W)
    <3>1. n + j \in W /\ j \in 1 .. Len(t)
      BY <2>1
    <3>2. ASSUME NEW k \in W PROVE k <= n + j
      <4>1. CASE k \in 1 .. n
        BY <2>0, <3>1, <4>1
      <4>2. CASE k - n \in Wt /\ n + (k - n) = k
        <5>1. k - n <= j /\ k - n \in 1 .. Len(t)
          BY <2>1, <4>2
        <5> QED BY <2>0, <3>1, <4>2, <5>1
      <4> QED BY <2>1, <4>1, <4>2
    <3> QED BY <3>1, <3>2
  <2>5. \A j \in Last(Wt) : (s \o t)[n + j] = t[j]
    BY <2>1
  <2>6. ASSUME NEW x
        PROVE  x \in Value(s \o t, W) <=> x \in Value(t, Wt)
    <3> HIDE DEF Last
    <3>1. ASSUME NEW j \in Last(W), (s \o t)[j].Type = "LOG_EVENT", x = (s \o t)[j].id
          PROVE  \E k \in Last(Wt) : t[k].Type = "LOG_EVENT" /\ x = t[k].id
      <4>1. j - n \in Last(Wt) /\ n + (j - n) = j
        BY <2>3
      <4>2. t[j - n] = (s \o t)[j]
        BY <2>5, <4>1
      <4> QED BY <3>1, <4>1, <4>2
    <3>2. ASSUME NEW j \in Last(Wt), t[j].Type = "LOG_EVENT", x = t[j].id
          PROVE  \E k \in Last(W) : (s \o t)[k].Type = "LOG_EVENT" /\ x = (s \o t)[k].id
      BY <2>4, <2>5, <3>2
    <3> QED BY <3>1, <3>2
  <2>7. W # {}
    BY <2>1, <2>2
  <2>8. Value(s \o t, W) = Value(t, Wt)
    <3> HIDE DEF Value, Last
    <3>1. \A x : x \in Value(s \o t, W) <=> x \in Value(t, Wt)
      BY <2>6
    <3> QED BY <3>1 DEF Value
  <2> HIDE DEF Value
  <2> QED BY <1>1, <1>3, <2>7, <2>8 DEF W, Wt
<1> QED BY <1>2, <1>3

\* Every check sees the context that the schedule up to it leaves, also after
\* more events have been added.
LEMMA ContextStep ==
  ASSUME TypeOK, Inv, ContextInv, [Next]_vars
  PROVE  ContextInv'
<1>0. /\ LogEvents \in Seq(Event) /\ PropEvents \in Seq(PropEvent)
      /\ Log \in [Procs -> Seq(Event)]
  BY DEF TypeOK
<1>1. CASE UNCHANGED schedule
  BY <1>1 DEF schedule, ContextInv, CheckedInContext
<1>2. CASE Extracts
  <2> DEFINE b == Log[LastProc]
             n == Len(LogEvents)
  <2>0. PICK m \in Nat : m = Len(PropEvents)
    BY <1>0
  <2>1. /\ LogEvents' = LogEvents \o b
        /\ context' = UpdateContext(context, b)
        /\ PropEvents' = Append(PropEvents,
             [context |-> UpdateContext(context, b), EventIndex |-> LastIndex(LastProc)])
    BY <1>2 DEF Extracts, Extract, ConsumeLog
  <2>2. /\ b \in Seq(Event) /\ Len(b) \in Nat /\ n \in Nat
        /\ LogEvents' \in Seq(Event) /\ Len(LogEvents') = n + Len(b)
    BY <1>0, <1>2, <2>1 DEF Extracts
  <2>3. LastIndex(LastProc) + 1 = n + Len(b)
    BY <2>2 DEF LastIndex, i
  <2>4. /\ DOMAIN PropEvents = 1 .. m /\ DOMAIN PropEvents' = 1 .. m + 1
        /\ \A k \in 1 .. m : PropEvents'[k] = PropEvents[k]
        /\ PropEvents'[m + 1] =
             [context |-> context', EventIndex |-> LastIndex(LastProc)]
    BY <1>0, <2>0, <2>1
  <2>5. context' = UpdateContext(NoContext, LogEvents')
    <3>1. context = UpdateContext(NoContext, LogEvents)
      BY DEF ContextInv
    <3> HIDE DEF b
    <3> QED BY <1>0, <2>1, <2>2, <3>1, ContextOfConcat
  <2>6. ASSUME NEW k \in 1 .. m
        PROVE  /\ PropEvents'[k].EventIndex + 1 \in 0 .. n + Len(b)
               /\ PropEvents'[k].context =
                    UpdateContext(NoContext, SubSeq(LogEvents', 1, PropEvents'[k].EventIndex + 1))
    <3>1. PICK e \in 0 .. n : e = PropEvents[k].EventIndex + 1
      BY <2>4 DEF ContextInv
    <3>2. PropEvents[k].context = UpdateContext(NoContext, SubSeq(LogEvents, 1, e))
      BY <2>4, <3>1 DEF ContextInv, CheckedInContext, NoContext
    <3>3. SubSeq(LogEvents', 1, e) = SubSeq(LogEvents, 1, e)
      <4>1. \A j \in 1 .. e : LogEvents'[j] = LogEvents[j]
        BY <1>0, <2>1, <2>2
      <4> HIDE DEF b, n
      <4> QED BY <1>0, <2>2, <4>1
    <3>4. e \in 0 .. n + Len(b)
      BY <2>2
    <3>5. PropEvents'[k].EventIndex + 1 = e /\ PropEvents'[k].context = PropEvents[k].context
      BY <2>4, <3>1
    <3> HIDE DEF b, n
    <3> QED BY <3>2, <3>3, <3>4, <3>5
  <2>7. PropEvents'[m + 1].context =
          UpdateContext(NoContext, SubSeq(LogEvents', 1, PropEvents'[m + 1].EventIndex + 1))
    <3>1. SubSeq(LogEvents', 1, n + Len(b)) = LogEvents'
      BY <2>2, SubSeqFull
    <3>2. /\ PropEvents'[m + 1].EventIndex + 1 = n + Len(b)
          /\ PropEvents'[m + 1].context = context'
      BY <2>3, <2>4
    <3> HIDE DEF b, n
    <3> QED BY <2>5, <3>1, <3>2
  <2>8. \A k \in 1 .. m + 1 : k \in 1 .. m \/ k = m + 1
    OBVIOUS
  <2> HIDE DEF b, n
  <2>9. CheckedInContext'
    BY <2>4, <2>6, <2>7, <2>8 DEF CheckedInContext, NoContext
  <2>10. \A k \in DOMAIN PropEvents' :
           PropEvents'[k].EventIndex + 1 \in 0 .. Len(LogEvents')
    BY <2>2, <2>3, <2>4, <2>6, <2>8
  <2> QED BY <2>5, <2>9, <2>10 DEF ContextInv
<1> QED BY <1>1, <1>2, StepKinds DEF Rests, Chooses, Runs

-----------------------------------------------------------------------------
\* Every coverage report of extractDataFromProc belongs to one batch: it is
\* tied to the last event of the batch, and reports the coverage of exactly
\* the events since the previous report, all of them of one process.
THEOREM RecordCoverage == Spec => []CoverageOfBatch
<1>1. Init => CoverInv /\ ReportInv
  BY DEF Init, CoverInv, ReportInv, Reported
<1>2. TypeOK /\ TypeOK' /\ Inv /\ CoverInv /\ ReportInv /\ [Next]_vars
        => CoverInv' /\ ReportInv'
  BY CoverStep, ReportStep
<1>3. ReportInv => CoverageOfBatch
  BY DEF ReportInv, Covers, FirstOf, LastOf, CoverageOfBatch
<1> QED BY <1>1, <1>2, <1>3, RecordTyping, RecordInvariance, PTL DEF Spec

\* Every property check that recordSchedule makes sees the variables as the
\* events of the schedule up to its EventIndex leave them, however the events
\* were cut into batches.
THEOREM RecordContext == Spec => []CheckedInContext
<1>1. Init => ContextInv
  <2> SUFFICES ASSUME Init PROVE ContextInv
    OBVIOUS
  <2>1. NoContext \in Context /\ context = NoContext
    BY DEF Init, NoContext, Context
  <2>2. context = UpdateContext(NoContext, <<>>)
    BY <2>1, ContextOfNone
  <2> QED BY <2>2 DEF Init, ContextInv, CheckedInContext
<1>2. TypeOK /\ Inv /\ ContextInv /\ [Next]_vars => ContextInv'
  BY ContextStep
<1>3. ContextInv => CheckedInContext
  BY DEF ContextInv
<1> QED BY <1>1, <1>2, <1>3, RecordTyping, RecordInvariance, PTL DEF Spec

-----------------------------------------------------------------------------
Reports == [k \in DOMAIN CovEvents |-> CovEvents[k].EventIndex]

\* Every step of recording is a step of SerialRecord, or none at all.
LEMMA RefinementStep ==
  ASSUME TypeOK, TypeOK', Inv, [Next]_vars
  PROVE  [Abstract!AbsNext]_(Abstract!absvars)
<1>0. /\ 0 \notin Procs
      /\ LogEvents \in Seq(Event) /\ Log \in [Procs -> Seq(Event)]
      /\ CovEvents \in Seq(CovEvent)
  BY DEF TypeOK, Procs
<1>1. CASE Rests
  BY <1>1 DEF Rests, schedule, Abstract!absvars, Abstract!serialvars
<1>2. CASE Chooses
  <2>1. (IF LastProc = 0 THEN <<>> ELSE Log[LastProc]) = <<>>
    BY <1>2, NAssumption DEF Chooses, TypeOK, Procs
  <2>2. (IF LastProc = 0 THEN <<>> ELSE Log[LastProc])' = <<>>
    BY <1>0, <1>2 DEF Chooses
  <2>3. UNCHANGED Lingering
    BY <1>2 DEF Chooses, Lingering
  <2> QED BY <1>2, <2>1, <2>2, <2>3 DEF Chooses, schedule, Abstract!absvars, Abstract!serialvars
<1>3. CASE Extracts
  <2>0. /\ LastProc \in Procs
        /\ Log[LastProc] # <<>> \/ Lingering
        /\ Extract(LastProc)
        /\ UNCHANGED <<executed, LastProc>>
        /\ UNCHANGED Lingering
    BY <1>3 DEF Extracts
  <2>1. /\ LogEvents' = LogEvents \o Log[LastProc]
        /\ Log' = [Log EXCEPT ![LastProc] = <<>>]
        /\ CovEvents' = Append(CovEvents,
             [CoverageInfo |-> Coverage[LastProc],
              EventIndex |-> LastIndex(LastProc)])
    BY <2>0 DEF Extract, ConsumeLog
  <2>2. /\ (IF LastProc = 0 THEN <<>> ELSE Log[LastProc]) = Log[LastProc]
        /\ (IF LastProc = 0 THEN <<>> ELSE Log[LastProc])' = <<>>
    BY <1>0, <2>0, <2>1
  <2>3. LastIndex(LastProc) = Len(LogEvents) + Len(Log[LastProc]) - 1
    BY DEF LastIndex, i
  <2>4. Reports' = Append(Reports, LastIndex(LastProc))
    <3>1. /\ Len(CovEvents') = Len(CovEvents) + 1
          /\ DOMAIN CovEvents' = 1 .. Len(CovEvents) + 1
          /\ \A k \in 1 .. Len(CovEvents) : CovEvents'[k] = CovEvents[k]
          /\ CovEvents'[Len(CovEvents) + 1].EventIndex = LastIndex(LastProc)
      BY <1>0, <2>1
    <3>2. Reports \in Seq(Int) /\ Len(Reports) = Len(CovEvents)
      <4>1. \A k \in DOMAIN CovEvents : CovEvents[k].EventIndex \in Int
        <5>1. \A k \in DOMAIN CovEvents : CovEvents[k] \in CovEvent
          BY <1>0, ElementOfSeq
        <5> QED BY <5>1 DEF CovEvent
      <4> QED BY <1>0, <4>1 DEF Reports
    <3> QED BY <1>0, <3>1, <3>2 DEF Reports
  <2>5. CASE Log[LastProc] # <<>>
    <3>1. Abstract!BatchRecorded
      BY <2>0, <2>1, <2>2, <2>3, <2>4, <2>5
      DEF Abstract!BatchRecorded, Abstract!BatchTaken, Reports
    <3> QED BY <3>1 DEF Abstract!AbsNext
  <2>6. CASE Log[LastProc] = <<>>
    <3>1. Lingering /\ LogEvents' = LogEvents
      BY <1>0, <2>0, <2>1, <2>6, ConcatEmptySeq
    <3>2. LastIndex(LastProc) = Len(LogEvents) - 1
      BY <1>0, <2>3, <2>6
    <3>3. Abstract!EmptyReport
      BY <2>0, <2>2, <2>4, <2>6, <3>1, <3>2
      DEF Abstract!EmptyReport, Abstract!serialvars, Reports
    <3> QED BY <3>3 DEF Abstract!AbsNext
  <2> QED BY <2>5, <2>6
<1>4. CASE Runs
  <2>0. LastProc \in Procs /\ UNCHANGED <<LogEvents, CovEvents, LastProc>>
    BY <1>4 DEF Runs, schedule
  <2>1. PICK s \in Seq(Event) :
          /\ Len(s) > 0
          /\ \A j \in DOMAIN s : s[j].P = LastProc
          /\ Log' = [Log EXCEPT ![LastProc] = Log[LastProc] \o s]
    BY <1>4 DEF Runs, Logs
  <2>2. Log[LastProc] \in Seq(Event) /\ Log'[LastProc] = Log[LastProc] \o s
    BY <1>0, <2>0, <2>1
  <2>3. /\ (IF LastProc = 0 THEN <<>> ELSE Log[LastProc]) = Log[LastProc]
        /\ (IF LastProc = 0 THEN <<>> ELSE Log[LastProc])' = Log[LastProc] \o s
    BY <1>0, <2>0, <2>2
  <2>4. /\ Len(Log[LastProc] \o s) > Len(Log[LastProc])
        /\ SubSeq(Log[LastProc] \o s, 1, Len(Log[LastProc])) = Log[LastProc]
    BY <2>1, <2>2
  <2>5. \A j \in DOMAIN (Log[LastProc] \o s) : (Log[LastProc] \o s)[j].P = LastProc
    <3>1. \A j \in DOMAIN Log[LastProc] : Log[LastProc][j].P = LastProc
      BY <2>0 DEF Inv, OrderInv
    <3> QED BY <2>1, <2>2, <3>1
  <2>6. Abstract!ProcessRuns(LastProc)
    BY <2>0, <2>3, <2>4, <2>5 DEF Abstract!ProcessRuns
  <2>7. ~ Lingering /\ Lingering' \in BOOLEAN
    BY <1>4 DEF Runs
  <2>8. Abstract!ProcessRecorded
    BY <2>0, <2>6, <2>7 DEF Abstract!ProcessRecorded
  <2> QED BY <2>8 DEF Abstract!AbsNext
<1> QED BY <1>1, <1>2, <1>3, <1>4, StepKinds

\* recordSchedule and the local schedulers implement SerialRecord: hiding the
\* locks and the command words, all that happens is that one process runs and
\* its whole batch is recorded with one report before another one runs.
THEOREM RecordRefinement == Spec => RefinesSerial
<1>1. Init => Abstract!AbsInit
  BY DEF Init, Lingering, Abstract!AbsInit, Abstract!SerialInit
<1>2. TypeOK /\ TypeOK' /\ Inv /\ [Next]_vars
        => [Abstract!AbsNext]_(Abstract!absvars)
  BY RefinementStep
<1> QED BY <1>1, <1>2, RecordTyping, RecordInvariance, PTL
        DEF Spec, RefinesSerial, Abstract!AbsSpec
=============================================================================
