---------------------------- MODULE ReplayProofs ----------------------------
(***************************************************************************)
(* Proofs about Replay, for every number of processes, every set of        *)
(* goroutines and every schedule.                                          *)
(***************************************************************************)
EXTENDS Replay, SequenceTheorems, FiniteSetTheorems, WellFoundedInduction,
        TLAPS

\* What a process logs: goroutine 0 is the one it has before any is named.
Logged == [P : Procs, G : GoRoutines \cup {0}, batch : Nat, n : Nat,
           timer : BOOLEAN]

Types == TypeOK /\ consumed \in Seq(Logged) /\ executed \in Seq(Logged)

\* The scheduler has told P to go and has not yet taken its events.
InTurn == pc \in {"assign", "release", "wait", "held", "consume"}

\* Only a process that was told to run a goroutine runs one.
TurnInv ==
  /\ InTurn \/ pc = "command" => i <= Len(LogEvents)
  /\ \A p \in Procs :
       /\ lpc[p] = "hold" => Run[p] = EXECUTE
       /\ Run[p] = EXECUTE => InTurn /\ pc # "consume" /\ p = P

\* Only the process whose turn it is has events to be taken, after it ran.
LogInv ==
  /\ \A p \in Procs : Log[p] # <<>> => InTurn /\ p = P /\ Run[p] # EXECUTE
  /\ InTurn => executed = consumed \o Log[P]
  /\ ~ InTurn => executed = consumed

-----------------------------------------------------------------------------
\* A set of natural numbers that is not empty has a least element.
LEMMA Least ==
  ASSUME NEW S, S \subseteq Nat, S # {}
  PROVE  \E x \in S : \A y \in S : x <= y
<1>1. PICK x \in S : \A y \in S : ~ (<<y, x>> \in OpToRel(<, Nat))
  BY NatLessThanWellFounded, WFMin
<1>2. \A y \in S : ~ (y < x)
  BY <1>1 DEF OpToRel
<1> QED BY <1>2

\* A set of natural numbers with a bound has a greatest element.
LEMMA Greatest ==
  ASSUME NEW m \in Nat, NEW S, S \subseteq 0 .. m, S # {}
  PROVE  \E x \in S : \A y \in S : y <= x
<1> DEFINE T == {m - x : x \in S}
<1>1. T \subseteq Nat /\ T # {}
  <2>1. \A x \in S : m - x \in Nat
    OBVIOUS
  <2> QED BY <2>1
<1>2. PICK t \in T : \A u \in T : t <= u
  BY <1>1, Least
<1>3. PICK x \in S : t = m - x
  OBVIOUS
<1>4. \A y \in S : t <= m - y
  BY <1>2
<1> QED BY <1>3, <1>4

\* Min and Max are those elements.
LEMMA MinMax ==
  ASSUME NEW m \in Nat, NEW S, S \subseteq 0 .. m, S # {}
  PROVE  /\ Min(S) \in S /\ \A y \in S : Min(S) <= y
         /\ Max(S) \in S /\ \A y \in S : y <= Max(S)
<1>1. S \subseteq Nat
  OBVIOUS
<1>2. PICK x \in S : \A y \in S : x <= y
  BY <1>1, Least
<1>3. PICK z \in S : \A y \in S : z >= y
  BY <1>1, Greatest
<1>4. Min(S) \in S /\ \A y \in S : Min(S) <= y
  BY <1>2 DEF Min
<1>5. Max(S) \in S /\ \A y \in S : Max(S) >= y
  BY <1>3 DEF Max
<1> QED BY <1>1, <1>4, <1>5

-----------------------------------------------------------------------------
\* What IsSchedule says of the events of the schedule.
LEMMA ScheduleFacts ==
  ASSUME IsSchedule(LogEvents)
  PROVE  /\ LogEvents \in Seq(ReplayEvent) /\ Len(LogEvents) \in Nat
         /\ DOMAIN LogEvents = 1 .. Len(LogEvents)
         /\ \A j \in DOMAIN LogEvents :
              /\ LogEvents[j] \in ReplayEvent /\ LogEvents[j] \in Logged
              /\ LogEvents[j].P \in Procs /\ LogEvents[j].G \in GoRoutines
              /\ LogEvents[j].batch \in Nat \ {0} /\ LogEvents[j].timer \in BOOLEAN
         /\ \A j, l \in DOMAIN LogEvents :
              j < l => LogEvents[j].batch <= LogEvents[l].batch
<1>1. /\ LogEvents \in Seq(ReplayEvent) /\ Len(LogEvents) \in Nat
      /\ DOMAIN LogEvents = 1 .. Len(LogEvents)
  BY DEF IsSchedule
<1>2. ASSUME NEW j \in DOMAIN LogEvents
      PROVE  LogEvents[j] \in ReplayEvent
  BY <1>1, ElementOfSeq
<1>3. \A e \in ReplayEvent :
        /\ e \in Logged /\ e.P \in Procs /\ e.G \in GoRoutines
        /\ e.batch \in Nat \ {0} /\ e.timer \in BOOLEAN
  BY DEF Logged, ReplayEvent
<1>4. \A j, l \in DOMAIN LogEvents :
        j < l => LogEvents[j].batch <= LogEvents[l].batch
  BY Zenon DEF IsSchedule
<1> QED BY <1>1, <1>2, <1>3, <1>4

\* The events of a recorded turn are a segment of the schedule.
LEMMA EventsOfTurn ==
  ASSUME IsSchedule(LogEvents), NEW k \in DOMAIN LogEvents
  PROVE  \E lo \in 1 .. k, hi \in k .. Len(LogEvents) :
           /\ EventsOf(LogEvents[k].batch) = SubSeq(LogEvents, lo, hi)
           /\ \A j \in DOMAIN LogEvents :
                LogEvents[j].batch = LogEvents[k].batch <=> lo <= j /\ j <= hi
<1> DEFINE at == {j \in DOMAIN LogEvents : LogEvents[j].batch = LogEvents[k].batch}
<1>1. /\ LogEvents \in Seq(ReplayEvent) /\ Len(LogEvents) \in Nat
      /\ DOMAIN LogEvents = 1 .. Len(LogEvents)
      /\ \A j \in DOMAIN LogEvents : LogEvents[j].batch \in Nat
      /\ \A j, l \in DOMAIN LogEvents :
           j < l => LogEvents[j].batch <= LogEvents[l].batch
  BY ScheduleFacts
<1>2. at \subseteq 0 .. Len(LogEvents) /\ k \in at
  BY <1>1
<1>3. /\ Min(at) \in at /\ \A y \in at : Min(at) <= y
      /\ Max(at) \in at /\ \A y \in at : y <= Max(at)
  <2> HIDE DEF at
  <2> QED BY <1>1, <1>2, MinMax
<1>4. PICK lo, hi : lo = Min(at) /\ hi = Max(at)
  OBVIOUS
<1>5. EventsOf(LogEvents[k].batch) = SubSeq(LogEvents, lo, hi)
  BY <1>4 DEF EventsOf
<1>6. lo \in 1 .. k /\ hi \in k .. Len(LogEvents) /\ lo \in at /\ hi \in at
  BY <1>1, <1>2, <1>3, <1>4
<1>7. ASSUME NEW j \in DOMAIN LogEvents
      PROVE  LogEvents[j].batch = LogEvents[k].batch <=> lo <= j /\ j <= hi
  <2>1. ASSUME j \in at
        PROVE  lo <= j /\ j <= hi
    BY <1>3, <1>4, <2>1
  <2>2. ASSUME lo <= j, j <= hi
        PROVE  LogEvents[j].batch = LogEvents[k].batch
    <3>1. LogEvents[lo].batch <= LogEvents[j].batch
      BY <1>1, <1>6, <2>2
    <3>2. LogEvents[j].batch <= LogEvents[hi].batch
      BY <1>1, <1>6, <2>2
    <3> QED BY <1>1, <1>6, <3>1, <3>2
  <2> QED BY <2>1, <2>2
<1> QED BY <1>5, <1>6, <1>7

\* A turn that is left is in the schedule, and has events.
LEMMA TurnLeft ==
  ASSUME IsSchedule(LogEvents), NEW p \in Procs, NEW b \in TurnsLeft(p)
  PROVE  /\ b \in Nat
         /\ EventsOf(b) \in Seq(Logged) /\ EventsOf(b) # <<>>
<1>1. /\ LogEvents \in Seq(ReplayEvent) /\ Len(LogEvents) \in Nat
      /\ DOMAIN LogEvents = 1 .. Len(LogEvents)
      /\ \A j \in DOMAIN LogEvents :
           LogEvents[j] \in Logged /\ LogEvents[j].batch \in Nat
  BY ScheduleFacts
<1>2. PICK k \in DOMAIN LogEvents : b = LogEvents[k].batch
  BY DEF TurnsLeft
<1>3. PICK lo \in 1 .. k, hi \in k .. Len(LogEvents) :
        EventsOf(b) = SubSeq(LogEvents, lo, hi)
  BY <1>2, EventsOfTurn
<1>4. \A j \in lo .. hi : LogEvents[j] \in Logged
  <2>1. k \in 1 .. Len(LogEvents)
    BY <1>1
  <2>2. \A j \in lo .. hi : j \in 1 .. Len(LogEvents)
    BY <1>1, <1>3, <2>1
  <2> QED BY <1>1, <2>2
<1>5. lo \in Int /\ hi \in Int /\ lo <= hi
  BY <1>1, <1>2, <1>3
<1>6. EventsOf(b) \in Seq(Logged) /\ Len(EventsOf(b)) = hi - lo + 1
  BY <1>3, <1>4, <1>5, SubSeqProperties
<1>7. b \in Nat
  BY <1>1, <1>2
<1>8. Len(EventsOf(b)) # 0
  BY <1>5, <1>6
<1> QED BY <1>6, <1>7, <1>8, EmptySeq

\* The process and the goroutine of the event that is due.
LEMMA Due ==
  ASSUME TypeOK, i <= Len(LogEvents)
  PROVE  P \in Procs /\ LogEvents[i].G \in GoRoutines /\ i \in DOMAIN LogEvents
<1>1. i \in DOMAIN LogEvents
  BY ScheduleFacts DEF TypeOK
<1> QED BY <1>1, ScheduleFacts DEF TypeOK, P

LEMMA TypesInit ==
  ASSUME Init
  PROVE  Types
<1>1. IsSchedule(LogEvents)
  BY ReplayAssumption DEF Init
<1>2. Len(LogEvents) \in Nat
  BY <1>1, ScheduleFacts
<1>3. <<>> \in Seq(Logged)
  OBVIOUS
<1>4. consumed \in Seq(Logged) /\ executed \in Seq(Logged)
  BY <1>3 DEF Init
<1>5. Log \in [Procs -> Seq(Logged)]
  BY <1>3 DEF Init
<1>6. i \in 1 .. Len(LogEvents) + 1
  BY <1>2 DEF Init
<1> QED BY <1>1, <1>4, <1>5, <1>6
        DEF Init, Types, TypeOK, Statuses, LockValues, RunValues, IDLE, Logged

\* Taking the events of a process keeps the types.
LEMMA ConsumeTypes ==
  ASSUME Types, i <= Len(LogEvents), NEW next, ConsumeEvents(next)
  PROVE  /\ consumed' \in Seq(Logged)
         /\ Log' \in [Procs -> Seq(Logged)]
         /\ i' \in 1 .. Len(LogEvents) + 1
         /\ pc' \in {next, "panic"}
<1>1. P \in Procs /\ Len(LogEvents) \in Nat /\ i \in 1 .. Len(LogEvents)
  BY Due, ScheduleFacts DEF Types, TypeOK
<1>2. Log \in [Procs -> Seq(Logged)] /\ consumed \in Seq(Logged)
  BY DEF Types, TypeOK, Logged
<1>3. Log[P] \in Seq(Logged) /\ Len(Log[P]) \in Nat
  BY <1>1, <1>2
<1>4. consumed' = consumed \o Log[P] /\ Log' = [Log EXCEPT ![P] = <<>>]
  BY DEF ConsumeEvents
<1>5. <<>> \in Seq(Logged)
  OBVIOUS
<1>6. i' \in 1 .. Len(LogEvents) + 1 /\ pc' \in {next, "panic"}
  BY <1>1, <1>3 DEF ConsumeEvents
<1>7. consumed' \in Seq(Logged)
  BY <1>2, <1>3, <1>4
<1>8. Log' \in [Procs -> Seq(Logged)]
  BY <1>2, <1>4, <1>5
<1> QED BY <1>6, <1>7, <1>8

\* So does a process that runs.
LEMMA ExecuteTypes ==
  ASSUME Types, NEW p \in Procs, NEW events \in Seq(Logged), Execute(p, events)
  PROVE  /\ executed' \in Seq(Logged)
         /\ Log' \in [Procs -> Seq(Logged)]
         /\ started' \in [Procs -> BOOLEAN]
         /\ lpc' \in [Procs -> {"spin", "hold", "leave", "end"}]
<1>1. Log \in [Procs -> Seq(Logged)] /\ executed \in Seq(Logged)
  BY DEF Types, TypeOK, Logged
<1>2. Log[p] \o events \in Seq(Logged) /\ executed \o events \in Seq(Logged)
  BY <1>1
<1> QED BY <1>1, <1>2 DEF Execute, Types, TypeOK

\* Events that were not in the schedule.
LEMMA OtherEvents ==
  ASSUME TypeOK, NEW p \in Procs, NEW m \in 1 .. MaxBatch
  PROVE  LET e == [j \in 1 .. m |-> [P |-> p, G |-> routine[p], batch |-> 0,
                                    n |-> j, timer |-> FALSE]]
         IN  e \in Seq(Logged) /\ e # <<>>
<1>1. routine[p] \in GoRoutines \cup {0} /\ m \in Nat
  BY ReplayAssumption DEF TypeOK
<1>2. \A j \in 1 .. m : [P |-> p, G |-> routine[p], batch |-> 0, n |-> j,
                         timer |-> FALSE] \in Logged
  BY <1>1 DEF Logged
<1> DEFINE e == [j \in 1 .. m |-> [P |-> p, G |-> routine[p], batch |-> 0,
                                 n |-> j, timer |-> FALSE]]
<1>3. e \in [1 .. m -> Logged]
  BY <1>2
<1>4. e \in Seq(Logged) /\ Len(e) = m
  <2> HIDE DEF e
  <2> QED BY <1>1, <1>3
<1>5. e # <<>>
  <2> HIDE DEF e
  <2> QED BY <1>4, <1>1
<1> QED BY <1>4, <1>5

\* Every step keeps the types.
LEMMA TypeStep ==
  ASSUME Types, TurnInv, [Next]_vars
  PROVE  Types'
<1> USE DEF Types, Statuses, LockValues, RunValues, IDLE, KILL, EXECUTE,
            FINISHED, fixed, scheduler, local
<1>0. /\ TypeOK /\ Len(LogEvents) \in Nat /\ i \in 1 .. Len(LogEvents) + 1
      /\ DOMAIN LogEvents = 1 .. Len(LogEvents)
      /\ i <= Len(LogEvents) => P \in Procs /\ LogEvents[i].G \in GoRoutines
  BY ScheduleFacts, Due DEF TypeOK
<1>1. CASE Scheduler
  <2>1. CASE ReplayEnd
    BY <2>1 DEF ReplayEnd, TypeOK
  <2>2. CASE ReplayChoose
    <3>1. PICK j \in i .. Len(LogEvents) + 1 :
            i' = j /\ skipped' = skipped \cup (i .. j - 1)
      BY <2>2 DEF ReplayChoose
    <3>2. i' \in 1 .. Len(LogEvents) + 1 /\ skipped' \subseteq DOMAIN LogEvents
      BY <1>0, <3>1 DEF TypeOK
    <3>3. pc' \in {"command", "fatal", "panic"}
      BY <2>2 DEF ReplayChoose
    <3> QED BY <2>2, <3>2, <3>3 DEF ReplayChoose, TypeOK
  <2>3. CASE ReplayCommand
    BY <2>3 DEF ReplayCommand, TypeOK
  <2>4. CASE ReplayAssign
    BY <1>0, <2>4 DEF ReplayAssign, TypeOK, TurnInv, InTurn
  <2>5. CASE ReplayRelease
    BY <2>5 DEF ReplayRelease, TypeOK
  <2>6. CASE ReplayLock
    BY <2>6 DEF ReplayLock, TypeOK
  <2>7. CASE ReplayRetry
    BY <2>7 DEF ReplayRetry, TypeOK
  <2>8. CASE ReplayIdle
    BY <2>8 DEF ReplayIdle, TypeOK
  <2>9. CASE ReplayConsume
    <3>1. ConsumeEvents("loop") /\ i <= Len(LogEvents) /\ P \in Procs
      BY <1>0, <2>9 DEF ReplayConsume, TurnInv, InTurn
    <3>2. /\ consumed' \in Seq(Logged) /\ Log' \in [Procs -> Seq(Logged)]
          /\ i' \in 1 .. Len(LogEvents) + 1 /\ pc' \in {"loop", "panic"}
      BY <3>1, ConsumeTypes
    <3>3. Run' \in [Procs -> RunValues]
      BY <2>9, <3>1 DEF ReplayConsume, TypeOK
    <3> QED BY <2>9, <3>2, <3>3 DEF ReplayConsume, TypeOK, Logged
  <2>10. CASE ReplayFinished
    <3>1. ConsumeEvents("loop") /\ i <= Len(LogEvents) /\ P \in Procs
      BY <1>0, <2>10 DEF ReplayFinished, TurnInv, InTurn
    <3>2. /\ consumed' \in Seq(Logged) /\ Log' \in [Procs -> Seq(Logged)]
          /\ i' \in 1 .. Len(LogEvents) + 1 /\ pc' \in {"loop", "panic"}
      BY <3>1, ConsumeTypes
    <3>3. procStatus' \in [Procs -> {"ALIVE", "DEAD"}]
      BY <2>10, <3>1 DEF ReplayFinished, TypeOK
    <3> QED BY <2>10, <3>2, <3>3 DEF ReplayFinished, TypeOK, Logged
  <2> QED BY <1>1, <2>1, <2>2, <2>3, <2>4, <2>5, <2>6, <2>7, <2>8, <2>9, <2>10
          DEF Scheduler
<1>2. CASE UNCHANGED vars
  BY <1>2 DEF vars, TypeOK
<1>3. ASSUME NEW p \in Procs, Local(p)
      PROVE  Types'
  <2>1. CASE LocalAcquire(p)
    BY <2>1 DEF LocalAcquire, TypeOK
  <2>2. CASE LocalReplay(p)
    <3>1. PICK b \in TurnsLeft(p), r \in {IDLE, FINISHED} :
            /\ Execute(p, EventsOf(b)) /\ turn' = [turn EXCEPT ![p] = b]
            /\ Run' = [Run EXCEPT ![p] = r]
      BY <2>2 DEF LocalReplay
    <3>2. b \in Nat /\ EventsOf(b) \in Seq(Logged)
      BY <1>0, TurnLeft DEF TypeOK
    <3>3. /\ executed' \in Seq(Logged) /\ Log' \in [Procs -> Seq(Logged)]
          /\ started' \in [Procs -> BOOLEAN]
          /\ lpc' \in [Procs -> {"spin", "hold", "leave", "end"}]
      BY <3>1, <3>2, ExecuteTypes
    <3>4. /\ turn' \in [Procs -> Nat] /\ Run' \in [Procs -> RunValues]
          /\ raced' \in BOOLEAN
      BY <2>2, <3>1, <3>2 DEF LocalReplay, Astray, TypeOK
    <3> QED BY <3>1, <3>3, <3>4 DEF Execute, TypeOK, Logged
  <2>3. CASE LocalDiverge(p)
    <3>1. PICK m \in 1 .. MaxBatch :
            Execute(p, [j \in 1 .. m |->
                          [P |-> p, G |-> routine[p], batch |-> 0, n |-> j,
                           timer |-> FALSE]])
      BY <2>3 DEF LocalDiverge
    <3>2. PICK e \in Seq(Logged) : Execute(p, e)
      BY <1>0, <3>1, OtherEvents
    <3>3. /\ executed' \in Seq(Logged) /\ Log' \in [Procs -> Seq(Logged)]
          /\ started' \in [Procs -> BOOLEAN]
          /\ lpc' \in [Procs -> {"spin", "hold", "leave", "end"}]
      BY <3>2, ExecuteTypes
    <3>4. /\ turn' = turn /\ Run' \in [Procs -> RunValues] /\ raced' \in BOOLEAN
      <4>1. PICK r \in {IDLE, FINISHED} : Run' = [Run EXCEPT ![p] = r]
        BY <2>3 DEF LocalDiverge
      <4> QED BY <2>3, <4>1 DEF LocalDiverge, Astray, TypeOK, RunValues
    <3> QED BY <3>2, <3>3, <3>4 DEF Execute, TypeOK, Logged
  <2>4. CASE LocalRelease(p)
    BY <2>4 DEF LocalRelease, TypeOK
  <2> QED BY <1>3, <2>1, <2>2, <2>3, <2>4 DEF Local
<1> QED BY <1>1, <1>2, <1>3 DEF Next

-----------------------------------------------------------------------------
\* Every step keeps the turns: the scheduler names a process and its command
\* before any local scheduler can go, and goes on only when that one is idle.
LEMMA TurnStep ==
  ASSUME Types, TurnInv, [Next]_vars
  PROVE  TurnInv'
<1> USE DEF IDLE, KILL, EXECUTE, FINISHED, fixed, scheduler, local, TurnInv, InTurn
<1>0. /\ Run \in [Procs -> RunValues] /\ Len(LogEvents) \in Nat
      /\ lpc \in [Procs -> {"spin", "hold", "leave", "end"}]
      /\ i <= Len(LogEvents) => P \in Procs
  BY ScheduleFacts, Due DEF Types, TypeOK
<1>1. CASE Scheduler
  <2>1. CASE ReplayEnd
    BY <2>1 DEF ReplayEnd
  <2>2. CASE ReplayChoose
    BY <1>0, <2>2 DEF ReplayChoose
  <2>3. CASE ReplayCommand
    <3>1. P' = P
      BY <2>3 DEF ReplayCommand, P
    <3> QED BY <1>0, <2>3, <3>1 DEF ReplayCommand
  <2>4. CASE ReplayAssign
    <3>1. P' = P
      BY <2>4 DEF ReplayAssign, P
    <3> QED BY <1>0, <2>4, <3>1 DEF ReplayAssign
  <2>5. CASE ReplayRelease
    <3>1. P' = P
      BY <2>5 DEF ReplayRelease, P
    <3> QED BY <1>0, <2>5, <3>1 DEF ReplayRelease
  <2>6. CASE ReplayLock
    <3>1. P' = P
      BY <2>6 DEF ReplayLock, P
    <3> QED BY <1>0, <2>6, <3>1 DEF ReplayLock
  <2>7. CASE ReplayRetry
    <3>1. P' = P
      BY <2>7 DEF ReplayRetry, P
    <3> QED BY <1>0, <2>7, <3>1 DEF ReplayRetry
  <2>8. CASE ReplayIdle
    BY <1>0, <2>8 DEF ReplayIdle
  <2>9. CASE ReplayConsume
    BY <1>0, <2>9 DEF ReplayConsume, ConsumeEvents
  <2>10. CASE ReplayFinished
    BY <1>0, <2>10 DEF ReplayFinished, ConsumeEvents
  <2> QED BY <1>1, <2>1, <2>2, <2>3, <2>4, <2>5, <2>6, <2>7, <2>8, <2>9, <2>10
          DEF Scheduler
<1>2. CASE UNCHANGED vars
  <2>1. P' = P
    BY <1>2 DEF vars, P
  <2> QED BY <1>2, <2>1 DEF vars
<1>3. ASSUME NEW p \in Procs, Local(p)
      PROVE  TurnInv'
  <2>0. UNCHANGED <<pc, i, LogEvents>> /\ P' = P
    BY <1>3 DEF Local, LocalAcquire, LocalReplay, LocalDiverge, LocalRelease,
                Execute, P
  <2>1. CASE LocalAcquire(p)
    BY <1>0, <2>0, <2>1 DEF LocalAcquire
  <2>2. CASE LocalReplay(p)
    BY <1>0, <2>0, <2>2 DEF LocalReplay, Execute
  <2>3. CASE LocalDiverge(p)
    BY <1>0, <2>0, <2>3 DEF LocalDiverge, Execute
  <2>4. CASE LocalRelease(p)
    BY <1>0, <2>0, <2>4 DEF LocalRelease
  <2> QED BY <1>3, <2>1, <2>2, <2>3, <2>4 DEF Local
<1> QED BY <1>1, <1>2, <1>3 DEF Next

\* Every step keeps the order of the events.
LEMMA LogStep ==
  ASSUME Types, TurnInv, LogInv, [Next]_vars
  PROVE  LogInv'
<1> USE DEF IDLE, KILL, EXECUTE, FINISHED, fixed, scheduler, local, InTurn
<1>0. /\ Run \in [Procs -> RunValues] /\ Len(LogEvents) \in Nat
      /\ Log \in [Procs -> Seq(Logged)]
      /\ consumed \in Seq(Logged) /\ executed \in Seq(Logged)
      /\ i <= Len(LogEvents) => P \in Procs
  BY ScheduleFacts, Due DEF Types, TypeOK, Logged
<1>1. CASE Scheduler
  <2>1. CASE ReplayEnd
    BY <2>1 DEF ReplayEnd, LogInv
  <2>2. CASE ReplayChoose
    BY <2>2 DEF ReplayChoose, LogInv
  <2>3. CASE ReplayCommand
    <3>1. P' = P /\ P \in Procs
      BY <1>0, <2>3 DEF ReplayCommand, P, TurnInv
    <3>2. Log[P] = <<>> /\ executed = consumed \o Log[P]
      BY <1>0, <2>3, <3>1 DEF ReplayCommand, LogInv
    <3> QED BY <1>0, <2>3, <3>1, <3>2 DEF ReplayCommand, LogInv
  <2>4. CASE ReplayAssign \/ ReplayRelease \/ ReplayLock \/ ReplayRetry
              \/ ReplayIdle
    <3>1. P' = P /\ InTurn /\ InTurn' /\ UNCHANGED <<Run, Log, consumed, executed>>
      BY <2>4 DEF ReplayAssign, ReplayRelease, ReplayLock, ReplayRetry,
                  ReplayIdle, P
    <3> QED BY <3>1 DEF LogInv
  <2>5. CASE ReplayConsume \/ ReplayFinished
    <3>1. InTurn /\ ~ InTurn' /\ executed' = executed
          /\ consumed' = consumed \o Log[P] /\ Log' = [Log EXCEPT ![P] = <<>>]
      BY <2>5 DEF ReplayConsume, ReplayFinished, ConsumeEvents
    <3>2. P \in Procs
      BY <1>0, <3>1 DEF TurnInv
    <3> QED BY <1>0, <3>1, <3>2 DEF LogInv
  <2> QED BY <1>1, <2>1, <2>2, <2>3, <2>4, <2>5 DEF Scheduler
<1>2. CASE UNCHANGED vars
  <2>1. P' = P
    BY <1>2 DEF vars, P
  <2> QED BY <1>2, <2>1 DEF vars, LogInv
<1>3. ASSUME NEW p \in Procs, Local(p)
      PROVE  LogInv'
  <2>0. UNCHANGED <<pc, i, LogEvents, consumed>> /\ P' = P
    BY <1>3 DEF Local, LocalAcquire, LocalReplay, LocalDiverge, LocalRelease,
                Execute, P
  <2>1. ASSUME LocalAcquire(p) \/ LocalRelease(p)
        PROVE  LogInv'
    <3>1. UNCHANGED <<Run, Log, executed>>
      BY <2>1 DEF LocalAcquire, LocalRelease
    <3> QED BY <2>0, <3>1 DEF LogInv
  <2>2. ASSUME LocalReplay(p) \/ LocalDiverge(p)
        PROVE  LogInv'
    <3>1. PICK e : Execute(p, e) /\ e \in Seq(Logged)
      <4>1. CASE LocalReplay(p)
        BY <4>1, TurnLeft DEF LocalReplay, Types, TypeOK
      <4>2. CASE LocalDiverge(p)
        BY <4>2, OtherEvents DEF LocalDiverge, Types
      <4> QED BY <2>2, <4>1, <4>2
    <3>2. p = P /\ InTurn /\ Run[p] = EXECUTE
      BY <2>2 DEF LocalReplay, LocalDiverge, TurnInv
    <3>3. Log[P] = <<>> /\ executed = consumed
      <4>1. Log[P] = <<>> /\ executed = consumed \o Log[P]
        BY <3>2 DEF LogInv
      <4>2. consumed \o <<>> = consumed
        BY <1>0
      <4> QED BY <4>1, <4>2
    <3>4. /\ Log' = [Log EXCEPT ![P] = Log[P] \o e] /\ executed' = executed \o e
          /\ Run'[P] # EXECUTE
          /\ \A q \in Procs \ {P} : Run'[q] = Run[q]
      <4>1. PICK r \in {IDLE, FINISHED} : Run' = [Run EXCEPT ![P] = r]
        BY <2>2, <3>2 DEF LocalReplay, LocalDiverge
      <4>2. /\ Run'[P] # EXECUTE /\ \A q \in Procs \ {P} : Run'[q] = Run[q]
        BY <1>0, <3>2, <4>1
      <4>3. Log' = [Log EXCEPT ![P] = Log[P] \o e] /\ executed' = executed \o e
        BY <3>1, <3>2 DEF Execute
      <4> QED BY <4>2, <4>3
    <3>5. Log[P] \o e = e
      BY <3>1, <3>3
    <3> QED BY <1>0, <2>0, <3>2, <3>3, <3>4, <3>5 DEF LogInv
  <2> QED BY <1>3, <2>1, <2>2 DEF Local
<1> QED BY <1>1, <1>2, <1>3 DEF Next

-----------------------------------------------------------------------------
LEMMA ReplayInvariance == Spec => [](Types /\ TurnInv /\ LogInv)
<1>1. Init => Types /\ TurnInv /\ LogInv
  <2>1. Init => TurnInv /\ LogInv
    BY DEF Init, TurnInv, LogInv, InTurn, IDLE, EXECUTE
  <2> QED BY <2>1, TypesInit
<1>2. (Types /\ TurnInv /\ LogInv) /\ [Next]_vars => (Types /\ TurnInv /\ LogInv)'
  BY TypeStep, TurnStep, LogStep
<1> QED BY <1>1, <1>2, PTL DEF Spec

\* Every variable of replay keeps its type, whatever the schedule.
THEOREM ReplayTyping == Spec => []TypeOK
<1>1. Types => TypeOK
  BY DEF Types
<1> QED BY <1>1, ReplayInvariance, PTL

\* A goroutine runs only in the process whose event is being replayed and only
\* in its turn, though the scheduler writes to the channel without its lock.
THEOREM ReplaySerial == Spec => []SerialReplay
<1>1. TurnInv => SerialReplay
  BY DEF TurnInv, SerialReplay, InTurn
<1> QED BY <1>1, ReplayInvariance, PTL

\* The events that processes log are taken once and in the order in which they
\* happened.
THEOREM ReplayOrder == Spec => []TakenInOrder
<1>1. Types /\ LogInv /\ TurnInv => TakenInOrder
  <2> SUFFICES ASSUME Types, LogInv, TurnInv
               PROVE  TakenInOrder
    OBVIOUS
  <2> DEFINE full == {p \in Procs : Log[p] # <<>>}
  <2>0. Log \in [Procs -> Seq(Logged)] /\ consumed \in Seq(Logged)
    BY DEF Types, TypeOK, Logged
  <2>1. CASE full = {}
    <3>1. InTurn => Log[P] = <<>> /\ P \in Procs
      BY <2>1, Due DEF TurnInv, Types
    <3>2. executed = consumed
      BY <2>0, <3>1 DEF LogInv
    <3> QED BY <2>1, <3>2 DEF TakenInOrder
  <2>2. CASE full # {}
    <3>1. PICK p \in Procs : p \in full
      BY <2>2
    <3>2. InTurn /\ p = P /\ full = {p}
      BY <3>1 DEF LogInv
    <3>3. executed = consumed \o Log[p]
      BY <3>2 DEF LogInv
    <3> QED BY <3>2, <3>3 DEF TakenInOrder
  <2> QED BY <2>1, <2>2
<1> QED BY <1>1, ReplayInvariance, PTL

-----------------------------------------------------------------------------
(***************************************************************************)
(* Replayed lists the elements of a set of positions by their rank in it.  *)
(***************************************************************************)
Rank(D, j) == Cardinality({l \in D : l <= j})

Selected(D) ==
  [k \in 1 .. Cardinality(D) |-> LogEvents[CHOOSE j \in D : Rank(D, j) = k]]

\* Ranks are a numbering of the set.
LEMMA RankFacts ==
  ASSUME NEW D, IsFiniteSet(D), D \subseteq Nat
  PROVE  /\ Cardinality(D) \in Nat
         /\ \A j \in D : Rank(D, j) \in 1 .. Cardinality(D)
         /\ \A j, l \in D : Rank(D, j) = Rank(D, l) => j = l
         /\ \A k \in 1 .. Cardinality(D) : \E j \in D : Rank(D, j) = k
<1>1. Cardinality(D) \in Nat
  BY FS_CardinalityType
<1>2. ASSUME NEW j \in D
      PROVE  Rank(D, j) \in 1 .. Cardinality(D)
  <2> DEFINE T == {l \in D : l <= j}
  <2>1. IsFiniteSet(T) /\ Cardinality(T) <= Cardinality(D)
    BY FS_Subset
  <2>2. Cardinality(T) \in Nat /\ (Cardinality(T) = 0 <=> T = {})
    BY <2>1, FS_CardinalityType, FS_EmptySet
  <2>3. j \in T
    OBVIOUS
  <2>4. Rank(D, j) = Cardinality(T)
    BY DEF Rank
  <2> HIDE DEF T
  <2> QED BY <1>1, <2>1, <2>2, <2>3, <2>4
<1>3. ASSUME NEW j \in D, NEW l \in D, j < l
      PROVE  Rank(D, j) # Rank(D, l)
  <2> DEFINE T == {x \in D : x <= j}
             U == {x \in D : x <= l}
  <2>1. T \in SUBSET U /\ l \in U /\ l \notin T
    <3>1. \A x \in D : x <= j => x <= l
      BY <1>3
    <3>2. l \in U /\ l \notin T
      BY <1>3
    <3> QED BY <3>1, <3>2
  <2>2. IsFiniteSet(U)
    BY FS_Subset
  <2>3. Rank(D, j) = Cardinality(T) /\ Rank(D, l) = Cardinality(U)
    BY DEF Rank
  <2> HIDE DEF T, U
  <2>4. Cardinality(U) = Cardinality(T) => U = T
    BY <2>1, <2>2, FS_Subset
  <2> QED BY <2>1, <2>3, <2>4
<1>4. \A j, l \in D : Rank(D, j) = Rank(D, l) => j = l
  BY <1>3
<1>5. \A k \in 1 .. Cardinality(D) : \E j \in D : Rank(D, j) = k
  <2> DEFINE T == 1 .. Cardinality(D)
             f == [j \in D |-> Rank(D, j)]
  <2>1. f \in Injection(D, T)
    BY <1>2, <1>4 DEF Injection, IsInjective
  <2>2. IsFiniteSet(T) /\ Cardinality(T) = Cardinality(D)
    BY <1>1, FS_Interval
  <2>3. f \in Surjection(D, T)
    <3> HIDE DEF f, T
    <3> QED BY <2>1, <2>2, FS_Injection
  <2> QED BY <2>3 DEF Surjection
<1> QED BY <1>1, <1>2, <1>4, <1>5

\* Positions that follow all the others are listed after them.
LEMMA SelectedStep ==
  ASSUME IsSchedule(LogEvents), NEW a \in 1 .. Len(LogEvents),
         NEW z \in a .. Len(LogEvents), NEW D, D \subseteq 1 .. a - 1
  PROVE  Selected(D \cup (a .. z)) = Selected(D) \o SubSeq(LogEvents, a, z)
<1> DEFINE E == D \cup (a .. z)
           seg == SubSeq(LogEvents, a, z)
<1>0. /\ Len(LogEvents) \in Nat /\ a \in Nat /\ z \in Nat /\ a <= z
      /\ LogEvents \in Seq(Logged)
  <2>1. \A j \in 1 .. Len(LogEvents) : LogEvents[j] \in Logged
    BY ScheduleFacts
  <2> QED BY <2>1, ScheduleFacts
<1>1. IsFiniteSet(D) /\ D \subseteq Nat /\ E \subseteq Nat
  <2>1. IsFiniteSet(1 .. a - 1)
    BY <1>0, FS_Interval
  <2>2. IsFiniteSet(D)
    BY <2>1, FS_Subset
  <2>3. D \subseteq Nat
    BY <1>0
  <2>4. a .. z \subseteq Nat
    BY <1>0
  <2> QED BY <2>2, <2>3, <2>4
<1>2. PICK c \in Nat : c = Cardinality(D)
  BY <1>1, FS_CardinalityType
<1>3. ASSUME NEW j \in a - 1 .. z
      PROVE  /\ IsFiniteSet(D \cup (a .. j))
             /\ Cardinality(D \cup (a .. j)) = c + (j - a + 1)
  <2>0. j \in Int /\ a \in Int /\ a <= j + 1
    BY <1>0
  <2>1. IsFiniteSet(a .. j) /\ Cardinality(a .. j) = j - a + 1
    <3>1. /\ IsFiniteSet(a .. j)
          /\ Cardinality(a .. j) = IF a > j THEN 0 ELSE j - a + 1
      BY <2>0, FS_Interval
    <3> QED BY <2>0, <3>1
  <2>2. D \cap (a .. j) = {}
    BY <1>0
  <2>3. Cardinality(D \cap (a .. j)) = 0
    BY <2>2, FS_EmptySet
  <2>4. /\ IsFiniteSet(D \cup (a .. j))
        /\ Cardinality(D \cup (a .. j)) =
             Cardinality(D) + Cardinality(a .. j) - Cardinality(D \cap (a .. j))
    BY <1>1, <2>1, FS_Union
  <2> QED BY <1>2, <2>0, <2>1, <2>3, <2>4
<1>4. IsFiniteSet(E) /\ Cardinality(E) = c + (z - a + 1)
  <2>1. z \in a - 1 .. z
    BY <1>0
  <2> QED BY <1>3, <2>1
<1>5. \A j \in D : Rank(E, j) = Rank(D, j)
  <2>1. ASSUME NEW j \in D
        PROVE  {l \in E : l <= j} = {l \in D : l <= j}
    BY <1>0
  <2> QED BY <2>1 DEF Rank
<1>6. \A j \in a .. z : Rank(E, j) = c + (j - a + 1)
  <2>1. ASSUME NEW j \in a .. z
        PROVE  {l \in E : l <= j} = D \cup (a .. j)
    <3>1. \A l \in D : l <= j
      BY <1>0
    <3>2. \A l \in a .. z : l <= j <=> l \in a .. j
      BY <1>0
    <3>3. a .. j \subseteq a .. z
      BY <1>0
    <3> QED BY <3>1, <3>2, <3>3
  <2>2. \A j \in a .. z : j \in a - 1 .. z
    BY <1>0
  <2> QED BY <1>3, <2>1, <2>2 DEF Rank
<1> HIDE DEF E
<1>7. ASSUME NEW k \in 1 .. c
      PROVE  Selected(E)[k] = Selected(D)[k]
  <2>1. PICK j \in D : Rank(D, j) = k
    <3>1. \A m \in 1 .. Cardinality(D) : \E j \in D : Rank(D, j) = m
      BY <1>1, RankFacts
    <3>2. k \in 1 .. Cardinality(D)
      BY <1>2
    <3> QED BY <3>1, <3>2
  <2>2. \A l \in D : Rank(D, l) = k => l = j
    BY <1>1, <2>1, RankFacts
  <2>3. \A l \in E : Rank(E, l) = k => l = j
    <3>1. ASSUME NEW l \in a .. z
          PROVE  Rank(E, l) # k
      BY <1>0, <1>2, <1>6
    <3> QED BY <1>5, <2>2, <3>1 DEF E
  <2>4. j \in E /\ Rank(E, j) = k
    BY <1>5, <2>1 DEF E
  <2>5. (CHOOSE l \in E : Rank(E, l) = k) = j
    BY <2>3, <2>4
  <2>6. (CHOOSE l \in D : Rank(D, l) = k) = j
    BY <2>1, <2>2
  <2>7. k \in 1 .. Cardinality(E) /\ k \in 1 .. Cardinality(D)
    BY <1>0, <1>2, <1>4
  <2>8. Selected(E)[k] = LogEvents[CHOOSE l \in E : Rank(E, l) = k]
    BY <2>7 DEF Selected
  <2>9. Selected(D)[k] = LogEvents[CHOOSE l \in D : Rank(D, l) = k]
    BY <2>7 DEF Selected
  <2> QED BY <2>5, <2>6, <2>8, <2>9
<1>8. ASSUME NEW k \in c + 1 .. c + (z - a + 1)
      PROVE  Selected(E)[k] = LogEvents[a + (k - c) - 1]
  <2>1. PICK j \in a .. z : j = a + (k - c) - 1
    BY <1>0
  <2>2. j \in E /\ Rank(E, j) = k
    <3>1. j \in E
      BY DEF E
    <3>2. j \in Nat /\ k \in Nat /\ Rank(E, j) = c + (j - a + 1)
      BY <1>0, <1>6
    <3> QED BY <1>0, <2>1, <3>1, <3>2
  <2>3. \A l \in E : Rank(E, l) = k => l = j
    BY <1>1, <1>4, <2>2, RankFacts
  <2>4. (CHOOSE l \in E : Rank(E, l) = k) = j
    BY <2>2, <2>3
  <2>5. k \in 1 .. Cardinality(E)
    BY <1>0, <1>4
  <2> QED BY <2>1, <2>4, <2>5 DEF Selected
<1>9. Selected(D) \in Seq(Logged) /\ Len(Selected(D)) = c
  <2>1. ASSUME NEW k \in 1 .. c
        PROVE  LogEvents[CHOOSE j \in D : Rank(D, j) = k] \in Logged
    <3>1. \E j \in D : Rank(D, j) = k
      <4>1. \A m \in 1 .. Cardinality(D) : \E j \in D : Rank(D, j) = m
        BY <1>1, RankFacts
      <4>2. k \in 1 .. Cardinality(D)
        BY <1>2
      <4> QED BY <4>1, <4>2
    <3>2. (CHOOSE j \in D : Rank(D, j) = k) \in D
      BY <3>1
    <3>3. \A l \in D : LogEvents[l] \in Logged
      BY <1>0
    <3> QED BY <3>2, <3>3
  <2>2. Selected(D) \in [1 .. c -> Logged]
    BY <1>2, <2>1 DEF Selected
  <2> QED BY <1>2, <2>2
<1>10. /\ seg \in Seq(Logged) /\ Len(seg) = z - a + 1
       /\ \A k \in 1 .. z - a + 1 : seg[k] = LogEvents[a + k - 1]
  <2>1. \A j \in a .. z : LogEvents[j] \in Logged
    BY <1>0
  <2> QED BY <1>0, <2>1, SubSeqProperties
<1> HIDE DEF seg
<1> DEFINE r == Selected(D) \o seg
<1>11. /\ r \in Seq(Logged) /\ Len(r) = c + (z - a + 1)
       /\ \A k \in 1 .. c + (z - a + 1) :
            r[k] = IF k <= c THEN Selected(D)[k] ELSE seg[k - c]
  <2> HIDE DEF seg
  <2> DEFINE u == Selected(D)
  <2>1. u \in Seq(Logged) /\ Len(u) = c
    BY <1>9
  <2> HIDE DEF u
  <2>2. /\ u \o seg \in Seq(Logged) /\ Len(u \o seg) = c + (z - a + 1)
        /\ \A k \in 1 .. c + (z - a + 1) :
             (u \o seg)[k] = IF k <= c THEN u[k] ELSE seg[k - c]
    <3>1. /\ u \o seg \in Seq(Logged) /\ Len(u \o seg) = Len(u) + Len(seg)
          /\ \A k \in 1 .. Len(u) + Len(seg) :
               (u \o seg)[k] = IF k <= Len(u) THEN u[k] ELSE seg[k - Len(u)]
      BY <1>10, <2>1, ConcatProperties
    <3> QED BY <1>10, <2>1, <3>1
  <2> QED BY <2>2 DEF u
<1> HIDE DEF r
<1>12. ASSUME NEW k \in 1 .. c + (z - a + 1)
       PROVE  r[k] = Selected(E)[k]
  <2>1. CASE k <= c
    BY <1>2, <1>7, <1>11, <2>1
  <2>2. CASE k > c
    <3>1. k \in c + 1 .. c + (z - a + 1) /\ k - c \in 1 .. z - a + 1
      BY <1>0, <1>2, <2>2
    <3>2. r[k] = LogEvents[a + (k - c) - 1]
      <4>1. r[k] = seg[k - c]
        BY <1>0, <1>2, <1>11, <2>2
      <4>2. seg[k - c] = LogEvents[a + (k - c) - 1]
        BY <1>10, <3>1
      <4> QED BY <4>1, <4>2
    <3> QED BY <1>8, <3>1, <3>2
  <2> QED BY <1>0, <1>2, <2>1, <2>2
<1>13. Selected(E) = [k \in 1 .. c + (z - a + 1) |-> Selected(E)[k]]
  BY <1>4 DEF Selected
<1>14. r = [k \in 1 .. c + (z - a + 1) |-> r[k]]
  BY <1>11
<1>15. r = Selected(E)
  BY <1>12, <1>13, <1>14
<1> QED BY <1>15 DEF r, E, seg

-----------------------------------------------------------------------------
\* The process whose event is due has gone through its turn.
Ran == InTurn /\ Run[P] # EXECUTE

\* The first position of the schedule that no process has reached.
Reached == IF Ran THEN i + Len(Log[P]) ELSE i

\* Whether a turn is over is known from its position, except where a turn of the
\* timer thread was left out; the next position is the first of its turn.
Positions ==
  /\ \A k \in DOMAIN LogEvents \ skipped :
       LogEvents[k].batch > turn[LogEvents[k].P] <=> k >= Reached
  /\ Reached <= Len(LogEvents) =>
       \A k \in 1 .. Reached - 1 : LogEvents[k].batch < LogEvents[Reached].batch

\* The events that wait to be taken are those of the schedule that are due.
Pending == Ran => /\ Reached <= Len(LogEvents) + 1
                  /\ Log[P] = SubSeq(LogEvents, i, Reached - 1)

LeftOut ==
  /\ \A j \in skipped : j < i /\ LogEvents[j].timer
  /\ pc = "panic" => Len(LogEvents) \in skipped

FaithInv == ~ raced => consumed = Replayed /\ Positions /\ Pending /\ LeftOut

\* A step that neither runs a goroutine nor moves on in the schedule.
LEMMA QuietStep ==
  ASSUME FaithInv, UNCHANGED <<LogEvents, i, skipped, turn, raced, consumed, Log>>,
         Ran' = Ran, pc' # "panic" \/ pc' = pc
  PROVE  FaithInv'
<1>1. P' = P /\ Reached' = Reached /\ Replayed' = Replayed
  BY DEF P, Reached, Replayed
<1>2. Positions => Positions'
  BY <1>1 DEF Positions
<1>3. Pending => Pending'
  BY <1>1 DEF Pending
<1>4. LeftOut => LeftOut'
  BY <1>1 DEF LeftOut
<1> QED BY <1>1, <1>2, <1>3, <1>4 DEF FaithInv

\* What the positions say of the event that is due, before its process runs.
LEMMA DueTurn ==
  ASSUME Types, i <= Len(LogEvents), ~ Ran, Positions, LeftOut
  PROVE  \E hi \in i .. Len(LogEvents) :
           /\ EventsOf(LogEvents[i].batch) = SubSeq(LogEvents, i, hi)
           /\ \A j \in DOMAIN LogEvents :
                LogEvents[j].batch = LogEvents[i].batch <=> i <= j /\ j <= hi
           /\ LogEvents[i].batch \in TurnsLeft(P)
           /\ \A c \in TurnsLeft(P) : LogEvents[i].batch <= c
<1>1. /\ IsSchedule(LogEvents) /\ Len(LogEvents) \in Nat
      /\ DOMAIN LogEvents = 1 .. Len(LogEvents) /\ i \in 1 .. Len(LogEvents)
      /\ \A j \in DOMAIN LogEvents : LogEvents[j].batch \in Nat
      /\ \A j, l \in DOMAIN LogEvents :
           j < l => LogEvents[j].batch <= LogEvents[l].batch
      /\ Reached = i
  BY ScheduleFacts DEF Types, TypeOK, Reached
<1>2. PICK lo \in 1 .. i, hi \in i .. Len(LogEvents) :
        /\ EventsOf(LogEvents[i].batch) = SubSeq(LogEvents, lo, hi)
        /\ \A j \in DOMAIN LogEvents :
             LogEvents[j].batch = LogEvents[i].batch <=> lo <= j /\ j <= hi
  BY <1>1, EventsOfTurn
<1>3. lo = i
  <2>1. LogEvents[lo].batch = LogEvents[i].batch
    BY <1>1, <1>2
  <2>2. lo \notin 1 .. i - 1
    BY <1>1, <2>1 DEF Positions
  <2> QED BY <1>1, <1>2, <2>2
<1>4. i \notin skipped
  BY <1>1 DEF LeftOut
<1>5. LogEvents[i].batch \in TurnsLeft(P)
  <2>1. LogEvents[i].batch > turn[LogEvents[i].P]
    BY <1>1, <1>4 DEF Positions
  <2> QED BY <1>1, <1>4, <2>1 DEF TurnsLeft, P
<1>6. ASSUME NEW c \in TurnsLeft(P)
      PROVE  LogEvents[i].batch <= c
  <2>1. PICK k \in DOMAIN LogEvents \ skipped :
          /\ c = LogEvents[k].batch /\ LogEvents[k].P = P
          /\ LogEvents[k].batch > turn[P]
    BY DEF TurnsLeft
  <2>2. k >= i
    BY <1>1, <2>1 DEF Positions
  <2> QED BY <1>1, <2>1, <2>2
<1> QED BY <1>2, <1>3, <1>5, <1>6

\* The events replayed are those at the positions that were not left out.
LEMMA ReplayedAs ==
  ASSUME NEW D
  PROVE  /\ D = {j \in 1 .. i - 1 : j \notin skipped} => Replayed = Selected(D)
         /\ D = {j \in 1 .. i' - 1 : j \notin skipped'} /\ LogEvents' = LogEvents =>
              Replayed' = Selected(D)
<1>1. Replayed = Selected({j \in 1 .. i - 1 : j \notin skipped})
  BY DEF Replayed, Selected, Rank
<1>2. ASSUME LogEvents' = LogEvents
      PROVE  Replayed' = Selected({j \in 1 .. i' - 1 : j \notin skipped'})
  BY <1>2 DEF Replayed, Selected, Rank
<1> QED BY <1>1, <1>2

\* The schedule is searched past whole turns of the timer thread only.
LEMMA ChooseStep ==
  ASSUME Types, TurnInv, FaithInv, ReplayChoose
  PROVE  FaithInv'
<1> SUFFICES ASSUME ~ raced PROVE FaithInv'
  BY DEF ReplayChoose, FaithInv, local
<1>0. /\ Len(LogEvents) \in Nat /\ DOMAIN LogEvents = 1 .. Len(LogEvents)
      /\ i \in 1 .. Len(LogEvents) /\ skipped \subseteq DOMAIN LogEvents
      /\ LogEvents' = LogEvents /\ turn' = turn /\ consumed' = consumed
      /\ \A j \in DOMAIN LogEvents : LogEvents[j].batch \in Nat
      /\ \A j, l \in DOMAIN LogEvents :
           j < l => LogEvents[j].batch <= LogEvents[l].batch
  BY ScheduleFacts DEF Types, TypeOK, ReplayChoose, fixed, local
<1>1. PICK R \in RunnableSets(P), j \in i .. Len(LogEvents) + 1 :
        /\ \A k \in i .. j - 1 : ~ CanRun(R, k) /\ LogEvents[k].timer
        /\ \/ j > Len(LogEvents) /\ pc' = "panic"
           \/ j <= Len(LogEvents) /\ CanRun(R, j) /\ pc' = "command"
           \/ /\ j <= Len(LogEvents) /\ ~ CanRun(R, j) /\ ~ LogEvents[j].timer
              /\ pc' \in {"command", "fatal"}
        /\ i' = j
        /\ skipped' = skipped \cup (i .. j - 1)
  BY DEF ReplayChoose
<1>2. /\ ~ Ran /\ ~ Ran' /\ Reached = i /\ Reached' = j /\ j \in Nat
      /\ consumed = Replayed /\ Positions /\ LeftOut
  BY <1>0, <1>1 DEF ReplayChoose, Ran, Reached, InTurn, FaithInv
<1>3. Replayed' = Replayed
  <2>1. {l \in 1 .. i - 1 : l \notin skipped} = {l \in 1 .. j - 1 : l \notin skipped'}
    <3>1. ASSUME NEW l \in 1 .. i - 1, l \notin skipped
          PROVE  l \in 1 .. j - 1 /\ l \notin skipped'
      BY <1>0, <1>1, <3>1
    <3>2. ASSUME NEW l \in 1 .. j - 1, l \notin skipped'
          PROVE  l \in 1 .. i - 1 /\ l \notin skipped
      BY <1>0, <1>1, <3>2
    <3> QED BY <3>1, <3>2
  <2>2. PICK D : D = {l \in 1 .. i - 1 : l \notin skipped}
    OBVIOUS
  <2> QED BY <1>0, <1>1, <2>1, <2>2, ReplayedAs
<1>4. LeftOut'
  <2>1. \A l \in skipped' : l < i' /\ LogEvents[l].timer
    BY <1>0, <1>1, <1>2 DEF LeftOut
  <2>2. pc' = "panic" => Len(LogEvents) \in skipped'
    BY <1>0, <1>1
  <2> QED BY <1>0, <2>1, <2>2 DEF LeftOut
<1>5. ASSUME j <= Len(LogEvents), NEW k \in 1 .. j - 1
      PROVE  LogEvents[k].batch < LogEvents[j].batch
  <2>1. CASE j = i
    BY <1>0, <1>2, <1>5, <2>1 DEF Positions
  <2>2. CASE j > i
    <3>1. j \in DOMAIN LogEvents /\ j - 1 \in DOMAIN LogEvents /\ j - 1 \in i .. j - 1
      BY <1>0, <1>1, <1>5, <2>2
    <3>2. LogEvents[j - 1].batch # LogEvents[j].batch
      <4>1. ASSUME LogEvents[j - 1].batch = LogEvents[j].batch
            PROVE  /\ LogEvents[j - 1].G = LogEvents[j].G
                   /\ LogEvents[j - 1].timer = LogEvents[j].timer
        <5>1. [LogEvents[j - 1] EXCEPT !.n = 0] = [LogEvents[j] EXCEPT !.n = 0]
          BY <3>1, <4>1, Zenon DEF Types, TypeOK, IsSchedule
        <5>2. LogEvents[j - 1] \in ReplayEvent /\ LogEvents[j] \in ReplayEvent
          BY <3>1, ScheduleFacts DEF Types, TypeOK
        <5> QED BY <5>1, <5>2 DEF ReplayEvent
      <4>2. ~ CanRun(R, j - 1) /\ LogEvents[j - 1].timer
        BY <1>1, <3>1
      <4>3. CanRun(R, j) \/ ~ LogEvents[j].timer
        BY <1>1, <1>5
      <4>4. LogEvents[j - 1].G = LogEvents[j].G => (CanRun(R, j - 1) <=> CanRun(R, j))
        BY DEF CanRun
      <4> QED BY <4>1, <4>2, <4>3, <4>4, Zenon
    <3>3. LogEvents[k].batch <= LogEvents[j - 1].batch
      BY <1>0, <1>2, <3>1
    <3>4. LogEvents[j - 1].batch < LogEvents[j].batch
      BY <1>0, <1>2, <3>1, <3>2
    <3> QED BY <1>0, <1>2, <1>5, <3>1, <3>3, <3>4
  <2> QED BY <1>0, <1>1, <2>1, <2>2
<1>6. ASSUME NEW k \in DOMAIN LogEvents \ skipped'
      PROVE  LogEvents[k].batch > turn[LogEvents[k].P] <=> k >= j
  <2>1. k \in DOMAIN LogEvents \ skipped /\ k \notin i .. j - 1
    BY <1>1
  <2>2. LogEvents[k].batch > turn[LogEvents[k].P] <=> k >= i
    BY <1>2, <2>1 DEF Positions
  <2> QED BY <1>0, <1>1, <1>2, <2>1, <2>2
<1>7. Positions'
  BY <1>0, <1>2, <1>5, <1>6 DEF Positions
<1> QED BY <1>0, <1>2, <1>3, <1>4, <1>7 DEF FaithInv, Pending

\* What the process logged is what comes next in the schedule.
LEMMA ConsumeStep ==
  ASSUME Types, TurnInv, FaithInv, ReplayConsume \/ ReplayFinished
  PROVE  FaithInv'
<1> SUFFICES ASSUME ~ raced PROVE FaithInv'
  BY DEF ReplayConsume, ReplayFinished, FaithInv, local
<1>0. /\ IsSchedule(LogEvents) /\ Len(LogEvents) \in Nat
      /\ DOMAIN LogEvents = 1 .. Len(LogEvents)
      /\ i \in 1 .. Len(LogEvents) /\ skipped \subseteq DOMAIN LogEvents
      /\ P \in Procs /\ Log[P] \in Seq(Logged) /\ Len(Log[P]) \in Nat
      /\ InTurn
  <2>1. InTurn /\ i <= Len(LogEvents)
    BY DEF ReplayConsume, ReplayFinished, InTurn, TurnInv
  <2>2. P \in Procs /\ Log[P] \in Seq(Logged)
    BY <2>1, Due DEF Types, TypeOK, Logged
  <2> QED BY <2>1, <2>2, ScheduleFacts DEF Types, TypeOK
<1>1. /\ UNCHANGED <<LogEvents, turn, skipped, raced>>
      /\ consumed' = consumed \o Log[P] /\ ConsumeEvents("loop")
  BY DEF ReplayConsume, ReplayFinished, ConsumeEvents, fixed, local
<1>2. Ran
  BY <1>0 DEF ReplayConsume, ReplayFinished, Ran, TurnInv, FINISHED, EXECUTE
<1>3. /\ consumed = Replayed /\ Positions /\ Pending /\ LeftOut
      /\ Reached = i + Len(Log[P]) /\ Reached <= Len(LogEvents) + 1
      /\ Log[P] = SubSeq(LogEvents, i, Reached - 1)
  BY <1>2 DEF FaithInv, Pending, Reached
<1>4. pc' = "loop" /\ i' = Reached
  <2>1. ~ (i + Len(Log[P]) > Len(LogEvents) + 1)
    <3>1. i + Len(Log[P]) <= Len(LogEvents) + 1 /\ i \in Int
      BY <1>0, <1>3
    <3> QED BY <1>0, <3>1
  <2>2. i + Len(Log[P]) = Reached
    BY <1>3
  <2> QED BY <1>1, <2>1, <2>2 DEF ConsumeEvents
<1>5. ~ Ran' /\ Reached' = Reached
  BY <1>4 DEF Ran, InTurn, Reached
<1>6. Positions' /\ Pending'
  BY <1>1, <1>3, <1>5 DEF Positions, Pending
<1>7. LeftOut'
  BY <1>0, <1>1, <1>3, <1>4 DEF LeftOut
<1>8. consumed' = Replayed'
  <2>1. PICK D : D = {j \in 1 .. i - 1 : j \notin skipped}
    OBVIOUS
  <2>2. Replayed = Selected(D) /\ D \subseteq 1 .. i - 1
    BY <2>1, ReplayedAs
  <2>3. CASE Len(Log[P]) = 0
    <3>1. i' = i /\ Log[P] = <<>>
      <4>1. i' = i + Len(Log[P]) /\ i \in Int
        <5>1. i \in Int
          BY <1>0
        <5>2. i' = i + Len(Log[P])
          BY <1>3, <1>4, Zenon
        <5> QED BY <5>1, <5>2
      <4>2. Log[P] = <<>>
        BY <1>0, <2>3, EmptySeq
      <4> QED BY <2>3, <4>1, <4>2
    <3>2. Replayed' = Replayed
      BY <1>1, <2>1, <3>1, ReplayedAs
    <3>3. consumed \o <<>> = consumed
      BY DEF Types
    <3> QED BY <1>1, <1>3, <3>1, <3>2, <3>3
  <2>4. CASE Len(Log[P]) # 0
    <3>1. PICK z \in i .. Len(LogEvents) : z = Reached - 1
      <4>1. i \in Int /\ Len(Log[P]) \in Nat /\ Len(LogEvents) \in Nat
        BY <1>0
      <4>2. Reached = i + Len(Log[P]) /\ Reached <= Len(LogEvents) + 1
        BY <1>3
      <4>3. (i + Len(Log[P])) - 1 \in i .. Len(LogEvents)
        BY <2>4, <4>1, <4>2
      <4>4. Reached - 1 \in i .. Len(LogEvents)
        <5>1. Reached = i + Len(Log[P])
          BY <4>2
        <5> QED BY <4>3, <5>1, Zenon
      <4> QED BY <4>4, Zenon
    <3>2. Selected(D \cup (i .. z)) = Selected(D) \o SubSeq(LogEvents, i, z)
      BY <1>0, <2>2, SelectedStep
    <3>3. i' = z + 1 /\ Log[P] = SubSeq(LogEvents, i, z)
      BY <1>0, <1>3, <1>4, <3>1
    <3>4. D \cup (i .. z) = {j \in 1 .. i' - 1 : j \notin skipped'}
      <4>1. \A j \in i .. z : j \notin skipped
        BY <1>0, <1>3 DEF LeftOut
      <4>2. 1 .. i' - 1 = (1 .. i - 1) \cup (i .. z)
        BY <1>0, <3>1, <3>3
      <4> QED BY <1>1, <2>1, <4>1, <4>2
    <3>5. Replayed' = Selected(D \cup (i .. z))
      BY <1>1, <3>4, ReplayedAs
    <3> QED BY <1>1, <1>3, <2>2, <3>2, <3>3, <3>5
  <2> QED BY <2>3, <2>4
<1> QED BY <1>6, <1>7, <1>8 DEF FaithInv

\* A process that runs the goroutine it was told to goes through the turn that
\* is due; it cannot do anything else.
LEMMA RunStep ==
  ASSUME Types, TurnInv, LogInv, FaithInv, NEW p \in Procs,
         LocalReplay(p) \/ LocalDiverge(p)
  PROVE  FaithInv'
<1> SUFFICES ASSUME ~ raced' PROVE FaithInv'
  BY DEF FaithInv
<1>1. ~ Astray(p) /\ ~ raced /\ routine[p] = LogEvents[i].G
  BY DEF LocalReplay, LocalDiverge, Astray
<1>2. p = P /\ InTurn /\ Run[p] = EXECUTE /\ i <= Len(LogEvents)
  BY DEF LocalReplay, LocalDiverge, TurnInv
<1>3. ~ Ran /\ Reached = i /\ consumed = Replayed /\ Positions /\ LeftOut
  BY <1>1, <1>2 DEF Ran, Reached, FaithInv
<1>4. PICK hi \in i .. Len(LogEvents) :
        /\ EventsOf(LogEvents[i].batch) = SubSeq(LogEvents, i, hi)
        /\ \A j \in DOMAIN LogEvents :
             LogEvents[j].batch = LogEvents[i].batch <=> i <= j /\ j <= hi
        /\ LogEvents[i].batch \in TurnsLeft(P)
        /\ \A c \in TurnsLeft(P) : LogEvents[i].batch <= c
  BY <1>2, <1>3, DueTurn
<1>5. PICK b : b = LogEvents[i].batch
  OBVIOUS
<1>6. /\ IsSchedule(LogEvents) /\ Len(LogEvents) \in Nat /\ b \in Nat
      /\ DOMAIN LogEvents = 1 .. Len(LogEvents) /\ i \in 1 .. Len(LogEvents)
      /\ \A j \in DOMAIN LogEvents :
           LogEvents[j].batch \in Nat /\ LogEvents[j] \in Logged
      /\ \A j, l \in DOMAIN LogEvents :
           j < l => LogEvents[j].batch <= LogEvents[l].batch
      /\ skipped \subseteq DOMAIN LogEvents
      /\ turn \in [Procs -> Nat] /\ Run \in [Procs -> RunValues]
      /\ Log \in [Procs -> Seq(Logged)]
      /\ \A c \in TurnsLeft(P) : c \in Nat
      /\ i \in Nat /\ hi \in Nat /\ i <= hi /\ hi <= Len(LogEvents)
  <2>1. i \in 1 .. Len(LogEvents) /\ Len(LogEvents) \in Nat
    BY <1>2, ScheduleFacts DEF Types, TypeOK
  <2>2. \A c \in TurnsLeft(P) : c \in Nat
    BY <1>2, TurnLeft DEF Types, TypeOK
  <2>3. i \in Nat /\ hi \in Nat /\ i <= hi /\ hi <= Len(LogEvents)
    BY <2>1
  <2>4. /\ IsSchedule(LogEvents) /\ skipped \subseteq DOMAIN LogEvents
        /\ turn \in [Procs -> Nat] /\ Run \in [Procs -> RunValues]
        /\ Log \in [Procs -> Seq(Logged)]
    BY DEF Types, TypeOK, Logged
  <2>5. /\ DOMAIN LogEvents = 1 .. Len(LogEvents)
        /\ \A j \in DOMAIN LogEvents :
             LogEvents[j].batch \in Nat /\ LogEvents[j] \in Logged
        /\ \A j, l \in DOMAIN LogEvents :
             j < l => LogEvents[j].batch <= LogEvents[l].batch
    BY <2>4, ScheduleFacts
  <2>6. b \in Nat
    BY <1>5, <2>1, <2>5
  <2> QED BY <2>1, <2>2, <2>3, <2>4, <2>5, <2>6
<1>7. /\ EventsOf(b) \in Seq(Logged) /\ Len(EventsOf(b)) = hi - i + 1
      /\ EventsOf(b)[1] = LogEvents[i]
  <2>1. \A j \in i .. hi : LogEvents[j] \in Logged
    <3>1. \A j \in i .. hi : j \in DOMAIN LogEvents
      BY <1>6
    <3> QED BY <1>6, <3>1
  <2>2. /\ SubSeq(LogEvents, i, hi) \in Seq(Logged)
        /\ Len(SubSeq(LogEvents, i, hi)) = hi - i + 1
        /\ \A k \in 1 .. hi - i + 1 : SubSeq(LogEvents, i, hi)[k] = LogEvents[i + k - 1]
    BY <1>6, <2>1, SubSeqProperties
  <2>3. 1 \in 1 .. hi - i + 1 /\ i + 1 - 1 = i
    BY <1>6
  <2> QED BY <1>4, <1>5, <2>2, <2>3
<1>8. IsTurnOf(p, routine[p], b)
  BY <1>1, <1>2, <1>4, <1>5, <1>7 DEF IsTurnOf, Goroutine
<1>9. LocalReplay(p)
  BY <1>1, <1>2, <1>4, <1>5, <1>8 DEF LocalDiverge
<1>10. PICK c \in TurnsLeft(p), r \in {IDLE, FINISHED} :
         /\ IsTurnOf(p, routine[p], c) /\ Execute(p, EventsOf(c))
         /\ turn' = [turn EXCEPT ![p] = c] /\ Run' = [Run EXCEPT ![p] = r]
  BY <1>9 DEF LocalReplay
<1>11. c = b
  <2>1. b \in TurnsLeft(p) /\ b <= c /\ c <= b
    BY <1>8, <1>10 DEF IsTurnOf
  <2>2. c \in Nat
    BY <1>2, <1>6
  <2>3. b \in Nat
    BY <1>6
  <2> HIDE DEF TurnsLeft
  <2> QED BY <2>1, <2>2, <2>3
<1>12. /\ UNCHANGED <<pc, i, LogEvents, consumed, skipped>> /\ P' = P
       /\ Log' = [Log EXCEPT ![P] = Log[P] \o EventsOf(b)]
  BY <1>2, <1>10, <1>11 DEF Execute, scheduler, fixed, P
<1>13. Log'[P] = EventsOf(b)
  <2>1. Log[P] = <<>>
    BY <1>2 DEF LogInv
  <2>2. <<>> \o EventsOf(b) = EventsOf(b)
    BY <1>7
  <2> QED BY <1>2, <1>6, <1>12, <2>1, <2>2
<1>14. Ran' /\ Reached' = hi + 1
  <2>1. Run'[P] # EXECUTE
    BY <1>2, <1>6, <1>10 DEF IDLE, FINISHED, EXECUTE
  <2>2. Ran'
    BY <1>2, <1>12, <2>1 DEF Ran, InTurn
  <2>3. Reached' = i + Len(EventsOf(b))
    BY <1>12, <1>13, <2>2 DEF Reached
  <2>4. i + (hi - i + 1) = hi + 1
    BY <1>6
  <2> QED BY <1>7, <2>2, <2>3, <2>4
<1>15. Pending'
  <2>1. (hi + 1) - 1 = hi /\ hi + 1 <= Len(LogEvents) + 1
    BY <1>6
  <2>2. Log'[P'] = SubSeq(LogEvents', i', hi)
    BY <1>4, <1>5, <1>12, <1>13
  <2> QED BY <1>12, <1>14, <2>1, <2>2 DEF Pending
<1>16. Positions'
  <2>1. /\ LogEvents[hi].batch = b
        /\ \A k \in DOMAIN LogEvents : LogEvents[k].batch = b <=> i <= k /\ k <= hi
    <3>1. \A k \in DOMAIN LogEvents : LogEvents[k].batch = b <=> i <= k /\ k <= hi
      BY <1>4, <1>5
    <3>2. hi \in DOMAIN LogEvents /\ i <= hi /\ hi <= hi
      BY <1>6
    <3> QED BY <3>1, <3>2
  <2>2. \A k \in DOMAIN LogEvents : LogEvents[k].batch > b <=> k > hi
    <3>1. ASSUME NEW k \in DOMAIN LogEvents, k > hi
          PROVE  LogEvents[k].batch > b
      <4>1. LogEvents[hi].batch <= LogEvents[k].batch /\ LogEvents[k].batch # b
        BY <1>6, <2>1, <3>1
      <4> QED BY <1>6, <2>1, <4>1
    <3>2. ASSUME NEW k \in DOMAIN LogEvents, k <= hi
          PROVE  ~ (LogEvents[k].batch > b)
      <4>1. k \in Nat /\ hi \in DOMAIN LogEvents /\ LogEvents[k].batch \in Nat
        BY <1>6
      <4>2. LogEvents[k].batch <= LogEvents[hi].batch
        <5>1. CASE k = hi
          BY <4>1, <5>1
        <5>2. CASE k < hi
          BY <1>6, <4>1, <5>2
        <5> QED BY <1>6, <3>2, <4>1, <5>1, <5>2
      <4> QED BY <1>6, <2>1, <4>1, <4>2
    <3> QED BY <1>6, <3>1, <3>2
  <2>3. ASSUME NEW k \in DOMAIN LogEvents \ skipped
        PROVE  LogEvents[k].batch > turn'[LogEvents[k].P] <=> k >= hi + 1
    <3>1. CASE LogEvents[k].P = P
      <4>1. turn'[LogEvents[k].P] = b
        BY <1>2, <1>6, <1>10, <1>11, <3>1
      <4> QED BY <1>6, <2>2, <4>1
    <3>2. CASE LogEvents[k].P # P
      <4>1. turn'[LogEvents[k].P] = turn[LogEvents[k].P]
        BY <1>2, <1>6, <1>10, <3>2, ScheduleFacts
      <4>2. LogEvents[k].batch # b
        <5>1. ASSUME LogEvents[k].batch = b
              PROVE  LogEvents[k].P = LogEvents[i].P
          <6>1. [LogEvents[k] EXCEPT !.n = 0] = [LogEvents[i] EXCEPT !.n = 0]
            BY <1>5, <1>6, <5>1, Zenon DEF IsSchedule
          <6>2. LogEvents[k] \in ReplayEvent /\ LogEvents[i] \in ReplayEvent
            BY <1>6, ScheduleFacts
          <6> QED BY <6>1, <6>2 DEF ReplayEvent
        <5> QED BY <3>2, <5>1 DEF P
      <4>3. LogEvents[k].batch > turn[LogEvents[k].P] <=> k >= i
        BY <1>3 DEF Positions
      <4>4. ~ (i <= k /\ k <= hi)
        BY <2>1, <4>2
      <4> QED BY <1>6, <4>1, <4>3, <4>4
    <3> QED BY <3>1, <3>2
  <2>4. ASSUME hi + 1 <= Len(LogEvents), NEW k \in 1 .. hi
        PROVE  LogEvents[k].batch < LogEvents[hi + 1].batch
    <3>1. LogEvents[hi + 1].batch > b /\ ~ (LogEvents[k].batch > b)
      <4>1. /\ hi + 1 \in DOMAIN LogEvents /\ k \in DOMAIN LogEvents
            /\ hi + 1 > hi /\ ~ (k > hi)
        BY <1>6, <2>4
      <4> QED BY <2>2, <4>1
    <3>2. /\ LogEvents[hi + 1].batch \in Nat /\ LogEvents[k].batch \in Nat
      <4>1. hi + 1 \in DOMAIN LogEvents /\ k \in DOMAIN LogEvents
        BY <1>6, <2>4
      <4> QED BY <1>6, <4>1
    <3>3. b \in Nat
      BY <1>6
    <3> QED BY <3>1, <3>2, <3>3
  <2>5. (hi + 1) - 1 = hi
    BY <1>6
  <2> QED BY <1>12, <1>14, <2>3, <2>4, <2>5 DEF Positions
<1>17. LeftOut' /\ Replayed' = Replayed
  BY <1>3, <1>12 DEF LeftOut, Replayed
<1> QED BY <1>3, <1>12, <1>15, <1>16, <1>17 DEF FaithInv

\* Every step keeps the replay faithful.
LEMMA FaithStep ==
  ASSUME Types, TurnInv, LogInv, FaithInv, [Next]_vars
  PROVE  FaithInv'
<1>0. InTurn \/ pc = "command" => P \in Procs
  BY Due DEF Types, TurnInv
<1> USE DEF fixed, scheduler, local
<1>1. CASE Scheduler
  <2>1. CASE ReplayEnd
    <3>1. Ran' = Ran
      BY <2>1 DEF ReplayEnd, Ran, InTurn
    <3> QED BY <2>1, <3>1, QuietStep DEF ReplayEnd
  <2>2. CASE ReplayCommand
    <3>1. Ran' = Ran
      <4>1. P' = P /\ Run'[P] = EXECUTE
        BY <1>0, <2>2 DEF ReplayCommand, P, Types, TypeOK
      <4>2. ~ Ran
        BY <2>2 DEF ReplayCommand, Ran, InTurn
      <4> QED BY <4>1, <4>2 DEF Ran
    <3> QED BY <2>2, <3>1, QuietStep DEF ReplayCommand
  <2>3. CASE ReplayAssign \/ ReplayRelease \/ ReplayLock \/ ReplayRetry
              \/ ReplayIdle
    <3>1. P' = P /\ InTurn /\ InTurn' /\ Run' = Run /\ pc' # "panic"
          /\ UNCHANGED <<LogEvents, i, skipped, turn, raced, consumed, Log>>
      BY <2>3 DEF ReplayAssign, ReplayRelease, ReplayLock, ReplayRetry,
                  ReplayIdle, P, InTurn
    <3>2. Ran' = Ran
      BY <3>1 DEF Ran
    <3> QED BY <3>1, <3>2, QuietStep
  <2> QED BY <1>1, <2>1, <2>2, <2>3, ChooseStep, ConsumeStep DEF Scheduler
<1>2. CASE UNCHANGED vars
  <2>1. Ran' = Ran
    BY <1>2 DEF vars, Ran, InTurn, P
  <2> QED BY <1>2, <2>1, QuietStep DEF vars
<1>3. ASSUME NEW p \in Procs, Local(p)
      PROVE  FaithInv'
  <2>1. CASE LocalAcquire(p) \/ LocalRelease(p)
    <3>1. UNCHANGED <<pc, Run, LogEvents, i, skipped, turn, raced, consumed, Log>>
      BY <2>1 DEF LocalAcquire, LocalRelease
    <3>2. Ran' = Ran
      BY <3>1 DEF Ran, InTurn, P
    <3> QED BY <3>1, <3>2, QuietStep
  <2> QED BY <1>3, <2>1, RunStep DEF Local
<1> QED BY <1>1, <1>2, <1>3 DEF Next

LEMMA FaithInit ==
  ASSUME Init
  PROVE  FaithInv
<1>1. IsSchedule(LogEvents)
  BY ReplayAssumption DEF Init
<1>2. /\ i = 1 /\ skipped = {} /\ consumed = <<>> /\ pc = "loop" /\ ~ Ran
      /\ Reached = 1 /\ turn = [p \in Procs |-> 0]
  BY DEF Init, Ran, InTurn, Reached
<1>3. Replayed = <<>>
  <2>1. {j \in 1 .. i - 1 : j \notin skipped} = {}
    BY <1>2
  <2>2. Replayed = Selected({})
    BY <2>1, ReplayedAs
  <2>3. Cardinality({}) = 0
    BY FS_EmptySet
  <2>4. Selected({}) = [k \in 1 .. 0 |-> LogEvents[CHOOSE j \in {} : Rank({}, j) = k]]
    BY <2>3 DEF Selected
  <2> QED BY <2>2, <2>4
<1>4. Positions
  <2>1. \A k \in DOMAIN LogEvents :
          /\ LogEvents[k].batch > turn[LogEvents[k].P] /\ k >= 1
    BY <1>1, <1>2, ScheduleFacts
  <2> QED BY <1>2, <2>1 DEF Positions
<1> QED BY <1>2, <1>3, <1>4 DEF FaithInv, Pending, LeftOut

\* As long as every process ran the goroutine it was told to, the replay makes
\* the recorded events in the recorded order, turns of the timer thread apart.
THEOREM ReplayFaithful == Spec => []Faithful
<1>1. FaithInv => Faithful
  BY DEF FaithInv, Faithful, LeftOut
<1>2. (Types /\ TurnInv /\ LogInv) /\ FaithInv /\ [Next]_vars => FaithInv'
  BY FaithStep
<1>3. Init => FaithInv
  BY FaithInit
<1> QED BY <1>1, <1>2, <1>3, ReplayInvariance, PTL DEF Spec

-----------------------------------------------------------------------------
\* A process logs its own events.
OwnInv == \A q \in Procs : \A k \in DOMAIN Log[q] : Log[q][k].P = q

\* All events of a turn of p are of p.
LEMMA OwnTurn ==
  ASSUME IsSchedule(LogEvents), NEW p \in Procs, NEW b \in TurnsLeft(p)
  PROVE  \A k \in DOMAIN EventsOf(b) : EventsOf(b)[k].P = p
<1>1. LogEvents \in Seq(ReplayEvent) /\ Len(LogEvents) \in Nat
      /\ DOMAIN LogEvents = 1 .. Len(LogEvents)
  BY ScheduleFacts
<1>2. PICK j \in DOMAIN LogEvents : LogEvents[j].batch = b /\ LogEvents[j].P = p
  BY DEF TurnsLeft
<1>3. PICK lo \in 1 .. j, hi \in j .. Len(LogEvents) :
        /\ EventsOf(b) = SubSeq(LogEvents, lo, hi)
        /\ \A l \in DOMAIN LogEvents : LogEvents[l].batch = b <=> lo <= l /\ l <= hi
  BY <1>2, EventsOfTurn
<1>4. ASSUME NEW l \in DOMAIN LogEvents, lo <= l, l <= hi
      PROVE  LogEvents[l].P = p
  <2>1. LogEvents[l].batch = LogEvents[j].batch
    BY <1>2, <1>3, <1>4
  <2>2. [LogEvents[l] EXCEPT !.n = 0] = [LogEvents[j] EXCEPT !.n = 0]
    BY <1>2, <2>1, Zenon DEF IsSchedule
  <2>3. LogEvents[l] \in ReplayEvent /\ LogEvents[j] \in ReplayEvent
    BY <1>1, <1>2, ElementOfSeq
  <2>4. \A e \in ReplayEvent : [e EXCEPT !.n = 0].P = e.P
    BY DEF ReplayEvent
  <2> QED BY <1>2, <2>2, <2>3, <2>4
<1>5. ASSUME NEW k \in DOMAIN EventsOf(b)
      PROVE  EventsOf(b)[k].P = p
  <2>1. lo \in Nat /\ hi \in Nat /\ lo >= 1 /\ hi <= Len(LogEvents)
    BY <1>1, <1>2, <1>3
  <2>2. k \in 1 .. hi - lo + 1 /\ EventsOf(b)[k] = LogEvents[lo + k - 1]
    BY <1>1, <1>3, <1>5, <2>1
  <2>3. lo + k - 1 \in DOMAIN LogEvents /\ lo <= lo + k - 1 /\ lo + k - 1 <= hi
    BY <1>1, <2>1, <2>2
  <2> QED BY <1>4, <2>2, <2>3
<1> QED BY <1>5

\* A process that runs adds events of its own to an empty log, in its turn.
LEMMA RunFacts ==
  ASSUME Types, TurnInv, LogInv, NEW p \in Procs, LocalReplay(p) \/ LocalDiverge(p)
  PROVE  /\ p = P /\ i <= Len(LogEvents) /\ Log[p] = <<>>
         /\ \E e \in Seq(Logged) :
              /\ e # <<>> /\ Execute(p, e) /\ Log' = [Log EXCEPT ![p] = e]
              /\ \A k \in DOMAIN e : e[k].P = p
<1>1. p = P /\ i <= Len(LogEvents) /\ Log[p] = <<>>
  <2>1. p = P /\ InTurn /\ Run[p] = EXECUTE
    BY DEF LocalReplay, LocalDiverge, TurnInv
  <2> QED BY <2>1 DEF TurnInv, LogInv
<1>2. IsSchedule(LogEvents)
  BY DEF Types, TypeOK
<1>3. PICK e \in Seq(Logged) : e # <<>> /\ Execute(p, e) /\ \A k \in DOMAIN e : e[k].P = p
  <2>1. CASE LocalReplay(p)
    <3>1. PICK b \in TurnsLeft(p) : Execute(p, EventsOf(b))
      BY <2>1 DEF LocalReplay
    <3> QED BY <1>2, <3>1, OwnTurn, TurnLeft
  <2>2. CASE LocalDiverge(p)
    <3>1. PICK m \in 1 .. MaxBatch :
            Execute(p, [j \in 1 .. m |-> [P |-> p, G |-> routine[p], batch |-> 0,
                                         n |-> j, timer |-> FALSE]])
      BY <2>2 DEF LocalDiverge
    <3> DEFINE e == [j \in 1 .. m |-> [P |-> p, G |-> routine[p], batch |-> 0,
                                      n |-> j, timer |-> FALSE]]
    <3>2. e \in Seq(Logged) /\ e # <<>>
      BY OtherEvents DEF Types
    <3>3. \A k \in DOMAIN e : e[k].P = p
      OBVIOUS
    <3> QED BY <3>1, <3>2, <3>3
  <2> QED BY <2>1, <2>2
<1>4. Log' = [Log EXCEPT ![p] = e]
  <2>1. <<>> \o e = e
    OBVIOUS
  <2> QED BY <1>1, <1>3, <2>1 DEF Execute
<1> QED BY <1>1, <1>3, <1>4

\* The steps of replay, as far as events are concerned.
StepKind ==
  \/ UNCHANGED <<i, LogEvents, Log, consumed>>
  \/ ~ InTurn /\ UNCHANGED <<LogEvents, Log, consumed>>
  \/ InTurn /\ consumed' = consumed \o Log[P] /\ Log' = [Log EXCEPT ![P] = <<>>]
     /\ UNCHANGED LogEvents
  \/ UNCHANGED <<i, LogEvents, consumed>>
     /\ \E p \in Procs : LocalReplay(p) \/ LocalDiverge(p)

LEMMA StepKinds == [Next]_vars => StepKind
<1> USE DEF fixed, scheduler, local, InTurn, StepKind
<1>1. CASE Scheduler
  <2>1. CASE ReplayChoose
    BY <2>1 DEF ReplayChoose
  <2>2. CASE ReplayConsume \/ ReplayFinished
    BY <2>2 DEF ReplayConsume, ReplayFinished, ConsumeEvents
  <2>3. CASE ~ ReplayChoose /\ ~ ReplayConsume /\ ~ ReplayFinished
    BY <1>1, <2>3 DEF Scheduler, ReplayEnd, ReplayCommand, ReplayAssign, ReplayRelease,
                      ReplayLock, ReplayRetry, ReplayIdle
  <2> QED BY <2>1, <2>2, <2>3
<1>2. ASSUME NEW p \in Procs, Local(p)
      PROVE  StepKind
  BY <1>2 DEF Local, LocalAcquire, LocalReplay, LocalDiverge, LocalRelease, Execute
<1>3. CASE UNCHANGED vars
  BY <1>3 DEF vars
<1> QED BY <1>1, <1>2, <1>3 DEF Next

LEMMA OwnStep ==
  ASSUME Types, TurnInv, LogInv, OwnInv, [Next]_vars
  PROVE  OwnInv'
<1>1. StepKind /\ Log \in [Procs -> Seq(Logged)] /\ (InTurn => P \in Procs)
  BY StepKinds, Due DEF Types, TypeOK, Logged, TurnInv
<1>2. CASE UNCHANGED Log
  BY <1>2 DEF OwnInv
<1>3. CASE InTurn /\ Log' = [Log EXCEPT ![P] = <<>>]
  BY <1>1, <1>3 DEF OwnInv
<1>4. CASE \E p \in Procs : LocalReplay(p) \/ LocalDiverge(p)
  <2>1. PICK p \in Procs : LocalReplay(p) \/ LocalDiverge(p)
    BY <1>4
  <2>2. PICK e \in Seq(Logged) :
          Log' = [Log EXCEPT ![p] = e] /\ \A k \in DOMAIN e : e[k].P = p
    BY <2>1, RunFacts
  <2> QED BY <1>1, <2>2 DEF OwnInv
<1> QED BY <1>1, <1>2, <1>3, <1>4 DEF StepKind

\* Every step of replay is a step of Serial, or none at all.
LEMMA SerialStep ==
  ASSUME Types, Types', TurnInv, LogInv, OwnInv, [Next]_vars
  PROVE  [Abstract!SerialNext]_(Abstract!serialvars)
<1> DEFINE due == IF i <= Len(LogEvents) THEN Log[P] ELSE <<>>
<1>1. /\ StepKind /\ Log \in [Procs -> Seq(Logged)] /\ consumed \in Seq(Logged)
      /\ Log' \in [Procs -> Seq(Logged)]
      /\ InTurn => i <= Len(LogEvents)
      /\ i <= Len(LogEvents) => P \in Procs
      /\ (i <= Len(LogEvents))' => P' \in Procs
  <2>1. i <= Len(LogEvents) => P \in Procs
    BY Due DEF Types
  <2>2. (i <= Len(LogEvents))' => P' \in Procs
    <3>1. LogEvents' = LogEvents /\ i' \in 1 .. Len(LogEvents) + 1
      BY StepKinds DEF StepKind, LocalReplay, LocalDiverge, Execute, scheduler, fixed,
                       Types, TypeOK
    <3>2. ASSUME i' <= Len(LogEvents)
          PROVE  LogEvents[i'].P \in Procs
      <4>1. IsSchedule(LogEvents)
        BY DEF Types, TypeOK
      <4>2. Len(LogEvents) \in Nat /\ i' \in DOMAIN LogEvents
        BY <3>1, <3>2, <4>1, ScheduleFacts
      <4> QED BY <4>1, <4>2, ScheduleFacts
    <3> QED BY <3>1, <3>2 DEF P
  <2> QED BY <2>1, <2>2, StepKinds DEF Types, TypeOK, Logged, TurnInv
<1>2. CASE UNCHANGED <<i, LogEvents, Log, consumed>>
  BY <1>2 DEF Abstract!serialvars, P
<1>3. CASE ~ InTurn /\ UNCHANGED <<LogEvents, Log, consumed>>
  <2>1. \A p \in Procs : Log[p] = <<>>
    BY <1>3 DEF LogInv
  <2>2. due = <<>> /\ due' = <<>>
    BY <1>1, <1>3, <2>1
  <2> QED BY <1>3, <2>2 DEF Abstract!serialvars
<1>4. CASE /\ InTurn /\ consumed' = consumed \o Log[P] /\ Log' = [Log EXCEPT ![P] = <<>>]
           /\ UNCHANGED LogEvents
  <2>1. \A p \in Procs : Log'[p] = <<>>
    BY <1>1, <1>4 DEF LogInv
  <2>2. due = Log[P] /\ due' = <<>>
    BY <1>1, <1>4, <2>1
  <2>3. CASE Log[P] = <<>>
    BY <1>1, <1>4, <2>2, <2>3 DEF Abstract!serialvars
  <2>4. CASE Log[P] # <<>>
    <3>1. Abstract!BatchTaken
      BY <1>4, <2>2, <2>4 DEF Abstract!BatchTaken
    <3> QED BY <3>1 DEF Abstract!SerialNext
  <2> QED BY <2>3, <2>4
<1>5. CASE UNCHANGED <<i, LogEvents, consumed>>
           /\ \E p \in Procs : LocalReplay(p) \/ LocalDiverge(p)
  <2>1. PICK p \in Procs : LocalReplay(p) \/ LocalDiverge(p)
    BY <1>5
  <2>2. PICK e \in Seq(Logged) :
          /\ e # <<>> /\ Log' = [Log EXCEPT ![p] = e] /\ \A k \in DOMAIN e : e[k].P = p
    BY <2>1, RunFacts
  <2>3. p = P /\ P' = P /\ i <= Len(LogEvents) /\ Log[p] = <<>>
    BY <1>5, <2>1, RunFacts DEF P
  <2>4. due = <<>> /\ due' = e
    BY <1>1, <1>5, <2>2, <2>3
  <2>5. Len(e) > 0 /\ SubSeq(e, 1, 0) = <<>>
    BY <2>2
  <2>6. Abstract!ProcessRuns(p)
    BY <1>5, <2>2, <2>4, <2>5 DEF Abstract!ProcessRuns
  <2> QED BY <2>6 DEF Abstract!SerialNext
<1> QED BY <1>1, <1>2, <1>3, <1>4, <1>5 DEF StepKind

\* replaySchedule and the local schedulers implement Serial: though the stores to
\* the channel are made without its lock, all that happens is that one process
\* runs and its events are taken before another one runs.
THEOREM ReplayRefinement == Spec => ReplaysSerially
<1>1. Init => OwnInv /\ Abstract!SerialInit
  <2> SUFFICES ASSUME Init PROVE OwnInv /\ Abstract!SerialInit
    OBVIOUS
  <2>1. consumed = <<>> /\ \A p \in Procs : Log[p] = <<>>
    BY DEF Init
  <2>2. i <= Len(LogEvents) => P \in Procs
    BY TypesInit, Due DEF Types
  <2> QED BY <2>1, <2>2 DEF OwnInv, Abstract!SerialInit
<1>2. Types /\ TurnInv /\ LogInv /\ OwnInv /\ [Next]_vars => OwnInv'
  BY OwnStep
<1>3. Types /\ Types' /\ TurnInv /\ LogInv /\ OwnInv /\ [Next]_vars
        => [Abstract!SerialNext]_(Abstract!serialvars)
  BY SerialStep
<1> QED BY <1>1, <1>2, <1>3, ReplayInvariance, PTL DEF Spec, ReplaysSerially, Abstract!SerialSpec
=============================================================================
