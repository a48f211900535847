---------------------------- MODULE VClockProofs ----------------------------
(***************************************************************************)
(* Proofs about VClock, for every size of the tick and every set of        *)
(* goroutines and timers.                                                  *)
(***************************************************************************)
EXTENDS VClock, FiniteSetTheorems, TLAPS

\* A goroutine has at most one alarm, and an alarm goes off once.
AlarmInv ==
  /\ \A id \in DOMAIN WaitingQ :
       ~ IsTimer(id) => WaitingQ[id].Period = 0 /\ WaitingQ[id].Who \in GoRoutines
  /\ \A id, k \in DOMAIN WaitingQ :
       ~ IsTimer(id) /\ ~ IsTimer(k) /\ WaitingQ[id].Who = WaitingQ[k].Who
         => id = k

\* How far ahead an event can be: an event that was added, or armed again
\* after a wrap, is due by Horizon + MaxDelay or at the very last tick.
WhenInv ==
  \A id \in DOMAIN WaitingQ :
    \/ WaitingQ[id].When = MaxUint64
    \/ WaitingQ[id].When <= Horizon + MaxDelay
    \/ CurrentTick < MaxUint64 /\ WaitingQ[id].When <= CurrentTick + MaxDelay

Inv == AlarmInv /\ WhenInv /\ SleepersHaveAlarms /\ ReadyIsDueNow /\ NothingOverdue

-----------------------------------------------------------------------------
\* uint64 addition stays within uint64, and is addition if nothing wraps.
LEMMA Add64Facts ==
  ASSUME NEW a \in Ticks, NEW b \in 0 .. MaxDelay
  PROVE  /\ Add64(a, b) \in Ticks
         /\ a + MaxDelay <= MaxUint64 => Add64(a, b) = a + b
         /\ a = MaxUint64 => Add64(a, b) = MaxUint64 \/ Add64(a, b) <= MaxDelay
BY VClockAssumption DEF Add64, Ticks

\* AddTimerEvent adds one entry under a new id and changes no other.
LEMMA AddEffect ==
  ASSUME TypeOK, NEW event, AddEvent(event)
  PROVE  /\ eventCounter + 1 \notin DOMAIN WaitingQ
         /\ DOMAIN WaitingQ' = DOMAIN WaitingQ \cup {eventCounter + 1}
         /\ WaitingQ'[eventCounter + 1] = event
         /\ \A id \in DOMAIN WaitingQ : WaitingQ'[id] = WaitingQ[id]
         /\ CurrentTick + MaxDelay <= Horizon \/ CurrentTick = MaxUint64
         /\ eventCounter' = eventCounter + 1 /\ eventCounter' \in 0 .. MaxEvents
         /\ UNCHANGED <<CurrentTick, ReadyQ, fired>>
<1>1. eventCounter \in Nat /\ eventCounter + 1 \notin DOMAIN WaitingQ
  BY VClockAssumption DEF TypeOK
<1>2. /\ eventCounter' = eventCounter + 1
      /\ WaitingQ' = [id \in DOMAIN WaitingQ \cup {eventCounter + 1} |->
                        IF id = eventCounter + 1 THEN event ELSE WaitingQ[id]]
  BY DEF AddEvent
<1>3. CurrentTick + MaxDelay <= Horizon \/ CurrentTick = MaxUint64
  BY VClockAssumption DEF AddEvent, TypeOK, Ticks
<1>4. eventCounter' \in 0 .. MaxEvents
  BY VClockAssumption, <1>2 DEF AddEvent, TypeOK
<1> QED BY <1>1, <1>2, <1>3, <1>4 DEF AddEvent

\* Adding an event keeps the types.
LEMMA AddType ==
  ASSUME TypeOK, NEW event \in TimeEvent, AddEvent(event),
         sleepingRoutines' \subseteq GoRoutines
  PROVE  TypeOK'
<1>1. /\ DOMAIN WaitingQ' \subseteq 1 .. eventCounter'
      /\ \A id \in DOMAIN WaitingQ' : WaitingQ'[id] \in TimeEvent
  BY AddEffect, VClockAssumption DEF TypeOK
<1> QED BY <1>1, AddEffect DEF TypeOK

\* Going to sleep keeps the invariant.
LEMMA AddSleepStep ==
  ASSUME TypeOK, Inv, NEW g \in GoRoutines, NEW when \in 1 .. MaxDelay,
         AddSleep(g, when)
  PROVE  TypeOK' /\ Inv'
<1> DEFINE event == [Type |-> "Sleep", When |-> Add64(CurrentTick, when),
                     Period |-> 0, Who |-> g]
           new == eventCounter + 1
<1>1. /\ g \notin sleepingRoutines /\ AddEvent(event)
      /\ sleepingRoutines' = sleepingRoutines \cup {g}
  BY DEF AddSleep
<1>2. /\ Add64(CurrentTick, when) \in Ticks
      /\ CurrentTick + MaxDelay <= MaxUint64
           => Add64(CurrentTick, when) = CurrentTick + when
      /\ CurrentTick = MaxUint64 =>
           Add64(CurrentTick, when) = MaxUint64 \/ Add64(CurrentTick, when) <= MaxDelay
  BY Add64Facts, VClockAssumption DEF TypeOK
<1>3. event \in TimeEvent
  BY <1>2, VClockAssumption DEF TimeEvent
<1>4. /\ event.Type = "Sleep" /\ event.Period = 0 /\ event.Who = g
      /\ event.When = Add64(CurrentTick, when)
  OBVIOUS
<1> HIDE DEF event
<1>5. TypeOK'
  BY <1>1, <1>3, AddType DEF TypeOK
<1>6. /\ new \notin DOMAIN WaitingQ
      /\ DOMAIN WaitingQ' = DOMAIN WaitingQ \cup {new}
      /\ WaitingQ'[new] = event
      /\ \A id \in DOMAIN WaitingQ : WaitingQ'[id] = WaitingQ[id]
      /\ CurrentTick + MaxDelay <= Horizon \/ CurrentTick = MaxUint64
      /\ UNCHANGED <<CurrentTick, ReadyQ>>
  BY <1>1, AddEffect
<1> HIDE DEF new
<1>7. SleepersHaveAlarms'
  BY <1>1, <1>4, <1>6 DEF Inv, SleepersHaveAlarms, IsTimer
<1>8. AlarmInv'
  <2>1. \A id \in DOMAIN WaitingQ : ~ IsTimer(id) => WaitingQ[id].Who # g
    BY <1>1 DEF Inv, SleepersHaveAlarms
  <2> QED BY <1>4, <1>6, <2>1 DEF Inv, AlarmInv, IsTimer
<1>9. WhenInv' /\ NothingOverdue'
  <2>1. /\ CurrentTick \in Ticks /\ MaxUint64 \in Nat /\ MaxDelay \in Nat
        /\ Horizon \in Nat /\ Horizon + 2 * MaxDelay < MaxUint64
    BY VClockAssumption DEF TypeOK
  <2>2. /\ event.When \in Ticks
        /\ \/ event.When = MaxUint64
           \/ event.When <= Horizon + MaxDelay
        /\ CurrentTick < MaxUint64 => event.When >= CurrentTick
    BY <1>2, <1>4, <1>6, <2>1 DEF Ticks
  <2> QED BY <1>6, <2>2 DEF Inv, WhenInv, NothingOverdue
<1>10. ReadyIsDueNow'
  BY <1>6 DEF Inv, ReadyIsDueNow
<1> QED BY <1>5, <1>7, <1>8, <1>9, <1>10 DEF Inv

\* Starting a timer keeps the invariant.
LEMMA AddTimerStep ==
  ASSUME TypeOK, Inv, NEW t \in Timers,
         NEW when \in 0 .. MaxDelay, NEW period \in 0 .. MaxDelay,
         AddTimer(t, when, period)
  PROVE  TypeOK' /\ Inv'
<1> DEFINE event == [Type |-> "Timer", When |-> Add64(CurrentTick, when),
                     Period |-> period, Who |-> t]
           new == eventCounter + 1
<1>1. AddEvent(event) /\ UNCHANGED sleepingRoutines
  BY DEF AddTimer
<1>2. /\ Add64(CurrentTick, when) \in Ticks
      /\ CurrentTick + MaxDelay <= MaxUint64
           => Add64(CurrentTick, when) = CurrentTick + when
      /\ CurrentTick = MaxUint64 =>
           Add64(CurrentTick, when) = MaxUint64 \/ Add64(CurrentTick, when) <= MaxDelay
  BY Add64Facts DEF TypeOK
<1>3. event \in TimeEvent
  BY <1>2 DEF TimeEvent
<1>4. event.Type = "Timer" /\ event.When = Add64(CurrentTick, when)
  OBVIOUS
<1> HIDE DEF event
<1>5. TypeOK'
  BY <1>1, <1>3, AddType DEF TypeOK
<1>6. /\ new \notin DOMAIN WaitingQ
      /\ DOMAIN WaitingQ' = DOMAIN WaitingQ \cup {new}
      /\ WaitingQ'[new] = event
      /\ \A id \in DOMAIN WaitingQ : WaitingQ'[id] = WaitingQ[id]
      /\ CurrentTick + MaxDelay <= Horizon \/ CurrentTick = MaxUint64
      /\ UNCHANGED <<CurrentTick, ReadyQ>>
  BY <1>1, AddEffect
<1> HIDE DEF new
<1>7. SleepersHaveAlarms'
  BY <1>1, <1>4, <1>6 DEF Inv, SleepersHaveAlarms, IsTimer
<1>8. AlarmInv'
  BY <1>4, <1>6 DEF Inv, AlarmInv, IsTimer
<1>9. WhenInv' /\ NothingOverdue'
  <2>1. /\ CurrentTick \in Ticks /\ MaxUint64 \in Nat /\ MaxDelay \in Nat
        /\ Horizon \in Nat /\ Horizon + 2 * MaxDelay < MaxUint64
    BY VClockAssumption DEF TypeOK
  <2>2. /\ event.When \in Ticks
        /\ \/ event.When = MaxUint64
           \/ event.When <= Horizon + MaxDelay
        /\ CurrentTick < MaxUint64 => event.When >= CurrentTick
    BY <1>2, <1>4, <1>6, <2>1 DEF Ticks
  <2> QED BY <1>6, <2>2 DEF Inv, WhenInv, NothingOverdue
<1>10. ReadyIsDueNow'
  BY <1>6 DEF Inv, ReadyIsDueNow
<1> QED BY <1>5, <1>7, <1>8, <1>9, <1>10 DEF Inv

-----------------------------------------------------------------------------
\* getNextEventFromReady returns one element and keeps the others.
LEMMA TakeEffect ==
  ASSUME NEW queue \in Seq(TimeEvent), NEW k \in DOMAIN queue,
         fired \in Seq(TimeEvent), TakeReady(queue, k)
  PROVE  /\ fired' \in Seq(TimeEvent) /\ ReadyQ' \in Seq(TimeEvent)
         /\ \A j \in DOMAIN ReadyQ' : \E m \in DOMAIN queue : ReadyQ'[j] = queue[m]
<1>1. Len(queue) \in Nat /\ Len(queue) > 0 /\ DOMAIN queue = 1 .. Len(queue)
  OBVIOUS
<1>2. queue[k] \in TimeEvent
  OBVIOUS
<1>3. fired' \in Seq(TimeEvent)
  BY <1>2 DEF TakeReady
<1>4. ReadyQ' = [j \in 1 .. Len(queue) - 1 |->
                   IF j = k THEN queue[Len(queue)] ELSE queue[j]]
  BY DEF TakeReady
<1>5. \A j \in 1 .. Len(queue) - 1 : ReadyQ'[j] \in TimeEvent
  BY <1>1, <1>4
<1>6. ReadyQ' \in Seq(TimeEvent)
  BY <1>1, <1>4, <1>5
<1>7. \A j \in DOMAIN ReadyQ' : \E m \in DOMAIN queue : ReadyQ'[j] = queue[m]
  BY <1>1, <1>4
<1> QED BY <1>3, <1>6, <1>7

\* Firing a timer that is ready keeps the invariant.
LEMMA FromReadyStep ==
  ASSUME TypeOK, Inv, FromReady, UNCHANGED eventCounter
  PROVE  TypeOK' /\ Inv'
<1>1. PICK k \in DOMAIN ReadyQ : TakeReady(ReadyQ, k)
  BY DEF FromReady
<1>2. UNCHANGED <<CurrentTick, WaitingQ, sleepingRoutines>>
  BY DEF FromReady
<1>3. /\ fired' \in Seq(TimeEvent) /\ ReadyQ' \in Seq(TimeEvent)
      /\ \A j \in DOMAIN ReadyQ' : \E m \in DOMAIN ReadyQ : ReadyQ'[j] = ReadyQ[m]
  BY <1>1, TakeEffect DEF TypeOK
<1>4. TypeOK'
  BY <1>2, <1>3 DEF TypeOK
<1>5. ReadyIsDueNow'
  BY <1>2, <1>3 DEF Inv, ReadyIsDueNow
<1>6. AlarmInv' /\ WhenInv' /\ SleepersHaveAlarms' /\ NothingOverdue'
  BY <1>2 DEF Inv, AlarmInv, WhenInv, SleepersHaveAlarms, NothingOverdue, IsTimer
<1> QED BY <1>4, <1>5, <1>6 DEF Inv

\* updateQs: which entries stay, and what they become.
LEMMA UpdateEffect ==
  ASSUME TypeOK, NEW tick \in Ticks, UpdateWaiting(tick)
  PROVE  /\ DOMAIN WaitingQ' \subseteq DOMAIN WaitingQ
         /\ \A id \in DOMAIN WaitingQ : WaitingQ[id].When > tick =>
              id \in DOMAIN WaitingQ' /\ WaitingQ'[id] = WaitingQ[id]
         /\ \A id \in DOMAIN WaitingQ' : WaitingQ[id].When <= tick =>
              /\ WaitingQ[id].Period # 0
              /\ WaitingQ'[id] = Rearm(WaitingQ[id], tick)
<1> DEFINE keep == {k \in DOMAIN WaitingQ : k \in Due(tick) => WaitingQ[k].Period # 0}
<1>1. WaitingQ' = [id \in keep |-> IF id \in Due(tick) THEN Rearm(WaitingQ[id], tick)
                                                       ELSE WaitingQ[id]]
  BY DEF UpdateWaiting
<1>2. \A id \in DOMAIN WaitingQ : WaitingQ[id].When \in Nat
  BY VClockAssumption DEF TypeOK, TimeEvent, Ticks
<1>3. \A id \in DOMAIN WaitingQ : id \in Due(tick) <=> WaitingQ[id].When <= tick
  BY DEF Due
<1>4. tick \in Nat
  BY VClockAssumption DEF Ticks
<1> QED BY <1>1, <1>2, <1>3, <1>4

\* An event that is armed again is the same event at a later tick.
LEMMA RearmFacts ==
  ASSUME NEW event \in TimeEvent, NEW tick \in Ticks
  PROVE  /\ Rearm(event, tick) \in TimeEvent
         /\ Rearm(event, tick).Type = event.Type
         /\ Rearm(event, tick).Period = event.Period
         /\ Rearm(event, tick).Who = event.Who
         /\ Rearm(event, tick).When = Add64(tick, event.Period)
<1>1. Add64(tick, event.Period) \in Ticks
  BY Add64Facts DEF TimeEvent
<1> QED BY <1>1 DEF Rearm, TimeEvent

\* All timers that become ready together are due at the same tick.
LEMMA QueueFacts ==
  ASSUME TypeOK, NEW tick \in Ticks, IsEarliestTick(tick),
         NEW order \in ReadyOrders(tick)
  PROVE  /\ [j \in DOMAIN order |-> WaitingQ[order[j]]] \in Seq(TimeEvent)
         /\ \A j \in DOMAIN order :
              /\ WaitingQ[order[j]].Type = "Timer"
              /\ WaitingQ[order[j]].When = tick
<1> DEFINE S == {id \in Due(tick) : IsTimer(id)}
<1>1. S \subseteq DOMAIN WaitingQ /\ DOMAIN WaitingQ \subseteq 1 .. eventCounter
  BY DEF Due, TypeOK
<1>2. IsFiniteSet(S)
  <2>1. IsFiniteSet(1 .. eventCounter)
    BY FS_Interval, VClockAssumption DEF TypeOK
  <2> QED BY <1>1, <2>1, FS_Subset
<1>3. Cardinality(S) \in Nat
  BY <1>2, FS_CardinalityType
<1>4. order \in [1 .. Cardinality(S) -> S]
  BY DEF ReadyOrders, Orders
<1>5. \A id \in S : /\ WaitingQ[id] \in TimeEvent
                    /\ WaitingQ[id].Type = "Timer"
                    /\ WaitingQ[id].When <= tick /\ tick <= WaitingQ[id].When
  BY <1>1 DEF TypeOK, IsTimer, Due, IsEarliestTick
<1>6. \A id \in S : WaitingQ[id].When = tick
  BY <1>5, VClockAssumption DEF TimeEvent, Ticks
<1> HIDE DEF S
<1> QED BY <1>3, <1>4, <1>5, <1>6

\* Moving the clock to the earliest timer keeps the invariant.
LEMMA FromWaitingStep ==
  ASSUME TypeOK, Inv, FromWaiting, UNCHANGED eventCounter
  PROVE  TypeOK' /\ Inv'
<1> USE VClockAssumption
<1>1. PICK tick \in Ticks :
        /\ IsEarliestTick(tick)
        /\ CurrentTick' = tick
        /\ UpdateWaiting(tick)
        /\ UpdateSleeping(tick)
        /\ \E order \in ReadyOrders(tick) :
             LET queue == [j \in DOMAIN order |-> WaitingQ[order[j]]]
             IN \/ queue = <<>> /\ UNCHANGED <<ReadyQ, fired>>
                \/ \E k \in DOMAIN queue :
                     IsNextReady(queue, k) /\ TakeReady(queue, k)
  BY DEF FromWaiting
<1>2. ReadyQ = <<>> /\ (CurrentTick <= Horizon \/ CurrentTick = MaxUint64)
  BY DEF FromWaiting
<1>3. /\ DOMAIN WaitingQ' \subseteq DOMAIN WaitingQ
      /\ \A id \in DOMAIN WaitingQ : WaitingQ[id].When > tick =>
           id \in DOMAIN WaitingQ' /\ WaitingQ'[id] = WaitingQ[id]
      /\ \A id \in DOMAIN WaitingQ' : WaitingQ[id].When <= tick =>
           WaitingQ[id].Period # 0 /\ WaitingQ'[id] = Rearm(WaitingQ[id], tick)
  BY <1>1, UpdateEffect
<1>4. \A id \in DOMAIN WaitingQ :
        /\ WaitingQ[id] \in TimeEvent
        /\ WaitingQ[id].When \in Nat /\ WaitingQ[id].When <= MaxUint64
        /\ WaitingQ[id].Period \in 0 .. MaxDelay
  BY DEF TypeOK, TimeEvent, Ticks
<1>5. tick \in Nat /\ tick <= MaxUint64
  BY DEF Ticks
<1>6. \A id \in DOMAIN WaitingQ' :
        /\ WaitingQ'[id] \in TimeEvent
        /\ WaitingQ'[id].Type = WaitingQ[id].Type
        /\ WaitingQ'[id].Who = WaitingQ[id].Who
        /\ WaitingQ'[id].Period = WaitingQ[id].Period
        /\ \/ WaitingQ[id].When > tick /\ WaitingQ'[id] = WaitingQ[id]
           \/ /\ WaitingQ[id].When <= tick /\ WaitingQ[id].Period # 0
              /\ WaitingQ'[id].When = Add64(tick, WaitingQ[id].Period)
  BY <1>3, <1>4, <1>5, RearmFacts
<1>7. /\ ReadyQ' \in Seq(TimeEvent) /\ fired' \in Seq(TimeEvent)
      /\ \A k \in DOMAIN ReadyQ' : ReadyQ'[k].Type = "Timer" /\ ReadyQ'[k].When = tick
  <2>1. PICK order \in ReadyOrders(tick) :
          LET queue == [j \in DOMAIN order |-> WaitingQ[order[j]]]
          IN \/ queue = <<>> /\ UNCHANGED <<ReadyQ, fired>>
             \/ \E k \in DOMAIN queue :
                  IsNextReady(queue, k) /\ TakeReady(queue, k)
    BY <1>1
  <2> DEFINE queue == [j \in DOMAIN order |-> WaitingQ[order[j]]]
  <2>2. /\ queue \in Seq(TimeEvent)
        /\ \A j \in DOMAIN queue : queue[j].Type = "Timer" /\ queue[j].When = tick
    BY <1>1, QueueFacts
  <2>3. CASE UNCHANGED <<ReadyQ, fired>>
    BY <1>2, <2>3 DEF TypeOK
  <2>4. CASE \E k \in DOMAIN queue : TakeReady(queue, k)
    <3> HIDE DEF queue
    <3>1. PICK k \in DOMAIN queue : TakeReady(queue, k)
      BY <2>4
    <3>2. /\ fired' \in Seq(TimeEvent) /\ ReadyQ' \in Seq(TimeEvent)
          /\ \A j \in DOMAIN ReadyQ' : \E m \in DOMAIN queue : ReadyQ'[j] = queue[m]
      BY <2>2, <3>1, TakeEffect DEF TypeOK
    <3> QED BY <2>2, <3>2
  <2> QED BY <2>1, <2>3, <2>4
<1>8. TypeOK'
  <2>1. sleepingRoutines' \subseteq GoRoutines
    BY <1>1 DEF UpdateSleeping, TypeOK
  <2> QED BY <1>1, <1>3, <1>6, <1>7, <2>1 DEF TypeOK
<1>9. AlarmInv'
  BY <1>3, <1>6 DEF Inv, AlarmInv, IsTimer
<1>10. SleepersHaveAlarms'
  <2>1. sleepingRoutines' = sleepingRoutines \
          {WaitingQ[id].Who : id \in {k \in DOMAIN WaitingQ :
                                        WaitingQ[k].When <= tick /\ ~ IsTimer(k)}}
    BY <1>1 DEF UpdateSleeping, Due
  <2>2. ASSUME NEW g \in sleepingRoutines'
        PROVE \E id \in DOMAIN WaitingQ' : ~ IsTimer(id)' /\ WaitingQ'[id].Who = g
    <3>1. PICK id \in DOMAIN WaitingQ : ~ IsTimer(id) /\ WaitingQ[id].Who = g
      BY <2>1 DEF Inv, SleepersHaveAlarms
    <3>2. WaitingQ[id].When > tick
      BY <1>4, <1>5, <2>1, <3>1
    <3> QED BY <1>3, <3>1, <3>2 DEF IsTimer
  <2>3. ASSUME NEW id \in DOMAIN WaitingQ', ~ IsTimer(id)'
        PROVE  WaitingQ'[id].Who \in sleepingRoutines'
    <3>1. id \in DOMAIN WaitingQ /\ ~ IsTimer(id)
      BY <1>3, <1>6, <2>3 DEF IsTimer
    <3>2. WaitingQ[id].When > tick /\ WaitingQ'[id].Who = WaitingQ[id].Who
      BY <1>6, <3>1 DEF Inv, AlarmInv
    <3>3. \A k \in DOMAIN WaitingQ :
            WaitingQ[k].When <= tick /\ ~ IsTimer(k) => WaitingQ[k].Who # WaitingQ[id].Who
      BY <1>4, <1>5, <3>1, <3>2 DEF Inv, AlarmInv
    <3>4. WaitingQ[id].Who \in sleepingRoutines
      BY <3>1 DEF Inv, SleepersHaveAlarms
    <3> QED BY <2>1, <3>2, <3>3, <3>4
  <2> QED BY <2>2, <2>3 DEF SleepersHaveAlarms
<1>11. WhenInv' /\ NothingOverdue'
  <2>1. tick = MaxUint64 \/ tick <= Horizon + MaxDelay
    <3>1. CASE tick = MaxUint64
      BY <3>1
    <3>2. CASE \E id \in DOMAIN WaitingQ : tick = WaitingQ[id].When
      BY <1>2, <1>4, <3>2 DEF Inv, WhenInv, TypeOK, Ticks
    <3> QED BY <1>1, <3>1, <3>2 DEF IsEarliestTick
  <2>2. ASSUME NEW id \in DOMAIN WaitingQ', WaitingQ[id].When > tick,
               WaitingQ'[id] = WaitingQ[id]
        PROVE  /\ WaitingQ'[id].When = MaxUint64 \/ WaitingQ'[id].When <= Horizon + MaxDelay
               /\ WaitingQ'[id].When >= tick
    <3>1. id \in DOMAIN WaitingQ
      BY <1>3
    <3> QED BY <1>2, <1>4, <1>5, <2>2, <3>1 DEF Inv, WhenInv, TypeOK, Ticks
  <2>3. ASSUME NEW id \in DOMAIN WaitingQ',
               WaitingQ'[id].When = Add64(tick, WaitingQ[id].Period)
        PROVE  /\ \/ WaitingQ'[id].When = MaxUint64
                  \/ WaitingQ'[id].When <= Horizon + MaxDelay
                  \/ tick < MaxUint64 /\ WaitingQ'[id].When <= tick + MaxDelay
               /\ tick < MaxUint64 => WaitingQ'[id].When >= tick
    <3>1. WaitingQ[id].Period \in 0 .. MaxDelay
      BY <1>3, <1>4
    <3>2. /\ tick + MaxDelay <= MaxUint64
               => WaitingQ'[id].When = tick + WaitingQ[id].Period
          /\ tick = MaxUint64 => WaitingQ'[id].When = MaxUint64
                                 \/ WaitingQ'[id].When <= MaxDelay
      BY <2>3, <3>1, Add64Facts
    <3>3. WaitingQ'[id].When \in Nat
      BY <2>3, <3>1, Add64Facts DEF Ticks
    <3> QED BY <1>5, <2>1, <3>1, <3>2, <3>3
  <2> QED BY <1>1, <1>6, <2>2, <2>3 DEF WhenInv, NothingOverdue
<1>12. ReadyIsDueNow'
  BY <1>1, <1>7 DEF ReadyIsDueNow
<1> QED BY <1>8, <1>9, <1>10, <1>11, <1>12 DEF Inv

-----------------------------------------------------------------------------
\* Types and the inductive invariant hold in every reachable state of the
\* virtual clock.
THEOREM VClockInvariance == Spec => [](TypeOK /\ Inv)
<1>1. Init => TypeOK /\ Inv
  BY VClockAssumption
  DEF Init, TypeOK, Inv, AlarmInv, WhenInv, SleepersHaveAlarms, ReadyIsDueNow,
      NothingOverdue, Ticks
<1>2. TypeOK /\ Inv /\ [Next]_vars => TypeOK' /\ Inv'
  <2> SUFFICES ASSUME TypeOK, Inv, [Next]_vars PROVE TypeOK' /\ Inv'
    OBVIOUS
  <2>1. ASSUME NEW g \in GoRoutines, NEW when \in 1 .. MaxDelay, AddSleep(g, when)
        PROVE  TypeOK' /\ Inv'
    BY <2>1, AddSleepStep
  <2>2. ASSUME NEW t \in Timers, NEW when \in 0 .. MaxDelay,
               NEW period \in 0 .. MaxDelay, AddTimer(t, when, period)
        PROVE  TypeOK' /\ Inv'
    BY <2>2, AddTimerStep
  <2>3. CASE GetNextTimer
    BY <2>3, FromReadyStep, FromWaitingStep DEF GetNextTimer
  <2>4. CASE UNCHANGED vars
    BY <2>4 DEF vars, TypeOK, Inv, AlarmInv, WhenInv, SleepersHaveAlarms,
                ReadyIsDueNow, NothingOverdue, IsTimer
  <2> QED BY <2>1, <2>2, <2>3, <2>4 DEF Next
<1> QED BY <1>1, <1>2, PTL DEF Spec

\* A goroutine is marked as sleeping exactly as long as an event that will
\* wake it is waiting (AddTimerEvent, updateQs, IsSleeping).
THEOREM VClockSleepers == Spec => []SleepersHaveAlarms
<1>1. Inv => SleepersHaveAlarms
  BY DEF Inv
<1> QED BY <1>1, VClockInvariance, PTL

\* Every variable of the clock keeps its type, for every set of goroutines and
\* timers; CurrentTick never leaves the 64 bits it has (AddTimerEvent, SetTick).
THEOREM VClockTyping == Spec => []TypeOK
BY VClockInvariance, PTL

\* Everything in the ready queue is a timer that is due at the current tick,
\* so getNextEventFromReady may take any element.
THEOREM VClockReady == Spec => []ReadyIsDueNow
<1>1. Inv => ReadyIsDueNow
  BY DEF Inv
<1> QED BY <1>1, VClockInvariance, PTL

\* Until the clock is thrown to the end of time no waiting event is overdue.
THEOREM VClockOverdue == Spec => []NothingOverdue
<1>1. Inv => NothingOverdue
  BY DEF Inv
<1> QED BY <1>1, VClockInvariance, PTL

\* What is returned is the last event of fired.
LEMMA LastFired ==
  ASSUME TypeOK, NEW queue \in Seq(TimeEvent), NEW k \in DOMAIN queue,
         TakeReady(queue, k)
  PROVE  fired'[Len(fired')] = queue[k]
<1>1. queue[k] \in TimeEvent
  OBVIOUS
<1>2. fired' = Append(fired, queue[k]) /\ fired \in Seq(TimeEvent)
  BY DEF TakeReady, TypeOK
<1> QED BY <1>1, <1>2

\* The timer that is returned is due at the tick the clock then has.
LEMMA FiredIsDue ==
  ASSUME TypeOK, Inv, GetNextTimer, fired' # fired
  PROVE  fired'[Len(fired')].When = CurrentTick'
<1>1. CASE FromReady
  <2>1. PICK k \in DOMAIN ReadyQ : TakeReady(ReadyQ, k)
    BY <1>1 DEF FromReady
  <2>2. fired'[Len(fired')] = ReadyQ[k]
    BY <2>1, LastFired DEF TypeOK
  <2> QED BY <1>1, <2>1, <2>2 DEF FromReady, Inv, ReadyIsDueNow
<1>2. CASE FromWaiting
  <2>1. PICK tick \in Ticks :
          /\ IsEarliestTick(tick) /\ CurrentTick' = tick
          /\ \E order \in ReadyOrders(tick) :
               LET queue == [j \in DOMAIN order |-> WaitingQ[order[j]]]
               IN \/ queue = <<>> /\ UNCHANGED <<ReadyQ, fired>>
                  \/ \E k \in DOMAIN queue :
                       IsNextReady(queue, k) /\ TakeReady(queue, k)
    BY <1>2 DEF FromWaiting
  <2>2. PICK order \in ReadyOrders(tick) :
          \E k \in DOMAIN order :
            TakeReady([j \in DOMAIN order |-> WaitingQ[order[j]]], k)
    BY <2>1
  <2> DEFINE queue == [j \in DOMAIN order |-> WaitingQ[order[j]]]
  <2>3. /\ queue \in Seq(TimeEvent)
        /\ \A j \in DOMAIN queue : queue[j].When = tick
    BY <2>1, QueueFacts
  <2>4. PICK k \in DOMAIN queue : TakeReady(queue, k)
    BY <2>2
  <2> HIDE DEF queue
  <2>5. fired'[Len(fired')] = queue[k]
    BY <2>3, <2>4, LastFired
  <2> QED BY <2>1, <2>3, <2>4, <2>5
<1> QED BY <1>1, <1>2 DEF GetNextTimer

\* GetNextEvent returns timers in the order of their ticks: when one fires, it
\* is due at the new tick, and no timer that waits or is ready is due earlier.
THEOREM VClockFires == Spec => FiresEarliest
<1>1. ASSUME TypeOK, Inv, TypeOK', Inv', [Next]_vars, fired' # fired,
             CurrentTick' < MaxUint64
      PROVE  /\ fired'[Len(fired')].When = CurrentTick'
             /\ \A id \in DOMAIN WaitingQ' : WaitingQ'[id].When >= CurrentTick'
             /\ \A k \in DOMAIN ReadyQ' : ReadyQ'[k].When >= CurrentTick'
  <2>1. GetNextTimer
    BY <1>1 DEF Next, AddSleep, AddTimer, AddEvent, vars
  <2>2. fired'[Len(fired')].When = CurrentTick'
    BY <1>1, <2>1, FiredIsDue
  <2>3. \A id \in DOMAIN WaitingQ' : WaitingQ'[id].When >= CurrentTick'
    BY <1>1 DEF Inv, NothingOverdue
  <2>4. \A k \in DOMAIN ReadyQ' : ReadyQ'[k].When >= CurrentTick'
    BY <1>1, VClockAssumption DEF Inv, ReadyIsDueNow, TypeOK, Ticks
  <2> QED BY <2>2, <2>3, <2>4
<1>2. TypeOK /\ Inv /\ TypeOK' /\ Inv' /\ [Next]_vars =>
        [fired' # fired /\ CurrentTick' < MaxUint64 =>
           LET tick == fired'[Len(fired')].When
           IN /\ tick = CurrentTick'
              /\ \A id \in DOMAIN WaitingQ' :
                   WaitingQ'[id].Type = "Timer" => WaitingQ'[id].When >= tick
              /\ \A k \in DOMAIN ReadyQ' : ReadyQ'[k].When >= tick]_vars
  BY <1>1
<1> QED BY <1>2, VClockInvariance, PTL DEF Spec, FiresEarliest
=============================================================================
