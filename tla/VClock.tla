------------------------------- MODULE VClock -------------------------------
(***************************************************************************)
(* The virtual clock of one process (explorer/vclock.go).  ConsumeLog adds *)
(* an event for every sleep and every timer a process starts; the explorer *)
(* asks the clock for the next timer to fire (GetNextTimer), which moves   *)
(* the clock forward and wakes the goroutines whose sleep is over.         *)
(***************************************************************************)
EXTENDS Integers, Sequences, FiniteSets

CONSTANTS
  MaxUint64,   \* the largest tick
  GoRoutines,  \* goroutine ids
  Timers,      \* timer ids
  MaxDelay,    \* bound: the longest delay or period asked for
  Horizon,     \* bound: new events are due by then; the clock stops after it
  MaxEvents    \* bound: how many events are added

ASSUME VClockAssumption ==
  /\ MaxUint64 \in Nat /\ MaxDelay \in Nat /\ Horizon \in Nat
  /\ MaxEvents \in Nat
  /\ Horizon + 2 * MaxDelay < MaxUint64
  /\ GoRoutines \cap Timers = {}

VARIABLES
  CurrentTick,
  WaitingQ,          \* event id |-> event
  ReadyQ,            \* the timers that are due and have not been fired
  sleepingRoutines,
  eventCounter,      \* the scheduler's counter of events, which makes the ids
  fired              \* history: the timer events returned so far

vars == <<CurrentTick, WaitingQ, ReadyQ, sleepingRoutines, eventCounter, fired>>

Ticks == 0 .. MaxUint64

\* Who is the goroutine to wake (Sleep) or the timer to fire (Timer).
TimeEvent == [Type : {"Sleep", "Timer"}, When : Ticks, Period : 0 .. MaxDelay,
              Who : GoRoutines \cup Timers]

\* Addition of uint64 values, which wraps around.
Add64(a, b) == IF a + b <= MaxUint64 THEN a + b ELSE a + b - (MaxUint64 + 1)

-----------------------------------------------------------------------------
\* NewClock()
Init ==
  /\ CurrentTick = 0
  /\ WaitingQ = <<>>
  /\ ReadyQ = <<>>
  /\ sleepingRoutines = {}
  /\ eventCounter = 0
  /\ fired = <<>>

(***************************************************************************)
(* AddTimerEvent, called for a logged event.  A goroutine that sleeps does *)
(* not run, so it does not go to sleep again; a sleep is at least one tick *)
(* long (time.Sleep returns at once otherwise).                            *)
(***************************************************************************)
AddEvent(event) ==
  /\ eventCounter < MaxEvents
  /\ CurrentTick <= Horizon - MaxDelay \/ CurrentTick = MaxUint64
  /\ eventCounter' = eventCounter + 1
  /\ WaitingQ' = [id \in DOMAIN WaitingQ \cup {eventCounter'} |->
                    IF id = eventCounter' THEN event ELSE WaitingQ[id]]
  /\ UNCHANGED <<CurrentTick, ReadyQ, fired>>

AddSleep(g, when) ==
  /\ g \notin sleepingRoutines
  /\ AddEvent([Type |-> "Sleep", When |-> Add64(CurrentTick, when),
               Period |-> 0, Who |-> g])
  /\ sleepingRoutines' = sleepingRoutines \cup {g}

AddTimer(t, when, period) ==
  /\ AddEvent([Type |-> "Timer", When |-> Add64(CurrentTick, when),
               Period |-> period, Who |-> t])
  /\ UNCHANGED sleepingRoutines

-----------------------------------------------------------------------------
IsTimer(id) == WaitingQ[id].Type = "Timer"

\* Mutant: the comparison is the wrong way round.
IsEarliestTick_Latest(tick) ==
  /\ tick \in {WaitingQ[id].When : id \in {k \in DOMAIN WaitingQ : IsTimer(k)}}
               \cup {MaxUint64}
  /\ \A id \in DOMAIN WaitingQ : IsTimer(id) => tick >= WaitingQ[id].When
  /\ tick = MaxUint64 => \A id \in DOMAIN WaitingQ : ~ IsTimer(id)

\* Mutant: without a timer the clock stays where it is.
IsEarliestTick_Stays(tick) ==
  IF \E id \in DOMAIN WaitingQ : IsTimer(id)
  THEN /\ tick \in {WaitingQ[id].When : id \in {k \in DOMAIN WaitingQ : IsTimer(k)}}
       /\ \A id \in DOMAIN WaitingQ : IsTimer(id) => tick <= WaitingQ[id].When
  ELSE tick = CurrentTick

(***************************************************************************)
(* The tick of the first timer, MaxUint64 if only sleepers are waiting.    *)
(***************************************************************************)
IsEarliestTick(tick) ==
  /\ tick \in {WaitingQ[id].When : id \in {k \in DOMAIN WaitingQ : IsTimer(k)}}
               \cup {MaxUint64}
  /\ \A id \in DOMAIN WaitingQ : IsTimer(id) => tick <= WaitingQ[id].When

Due(tick) == {id \in DOMAIN WaitingQ : WaitingQ[id].When <= tick}

\* Mutant: the period is taken for the tick.
Rearm_Relative(event, tick) == [event EXCEPT !.When = event.Period]

(***************************************************************************)
(* updateQs: the map is walked in any order.  Sleepers that are due are    *)
(* woken, timers that are due become ready, periodic events wait again.    *)
(***************************************************************************)
Rearm(event, tick) == [event EXCEPT !.When = Add64(tick, event.Period)]

UpdateWaiting(tick) ==
  WaitingQ' = [id \in {k \in DOMAIN WaitingQ :
                         k \in Due(tick) => WaitingQ[k].Period # 0} |->
                 IF id \in Due(tick) THEN Rearm(WaitingQ[id], tick)
                                     ELSE WaitingQ[id]]

\* Mutant: goroutines are not taken off the list of sleepers.
UpdateSleeping_Forgets(tick) == sleepingRoutines' = sleepingRoutines

UpdateSleeping(tick) ==
  sleepingRoutines' = sleepingRoutines \
    {WaitingQ[id].Who : id \in {k \in Due(tick) : ~ IsTimer(k)}}

Orders(S) ==
  {s \in [1 .. Cardinality(S) -> S] : \A j, k \in DOMAIN s : s[j] = s[k] => j = k}

ReadyOrders(tick) == Orders({id \in Due(tick) : IsTimer(id)})

(***************************************************************************)
(* getNextEventFromReady: lowestVal is never lowered, so the loop ends     *)
(* with the last timer of the queue, whatever its tick.  The last element  *)
(* takes the place of the one returned.                                    *)
(***************************************************************************)
IsNextReady(queue, k) ==
  /\ queue[k].Type = "Timer"
  /\ \A j \in k + 1 .. Len(queue) : queue[j].Type = "Sleep"

TakeReady(queue, k) ==
  /\ fired' = Append(fired, queue[k])
  /\ ReadyQ' = [j \in 1 .. Len(queue) - 1 |->
                  IF j = k THEN queue[Len(queue)] ELSE queue[j]]

FromReady ==
  /\ \E k \in DOMAIN ReadyQ : IsNextReady(ReadyQ, k) /\ TakeReady(ReadyQ, k)
  /\ UNCHANGED <<CurrentTick, WaitingQ, sleepingRoutines>>

(***************************************************************************)
(* The other half of GetNextEvent: the clock goes to the earliest timer;   *)
(* without a timer all sleepers are woken and no event is returned.        *)
(***************************************************************************)
FromWaiting ==
  /\ ReadyQ = <<>>
  /\ CurrentTick <= Horizon \/ CurrentTick = MaxUint64
  /\ \E tick \in Ticks :
       /\ IsEarliestTick(tick)
       /\ CurrentTick' = tick
       /\ UpdateWaiting(tick)
       /\ UpdateSleeping(tick)
       /\ \E order \in ReadyOrders(tick) :
            LET queue == [j \in DOMAIN order |-> WaitingQ[order[j]]]
            IN \/ queue = <<>> /\ UNCHANGED <<ReadyQ, fired>>
               \/ \E k \in DOMAIN queue :
                    IsNextReady(queue, k) /\ TakeReady(queue, k)

\* GetNextTimer, which GetNextAction calls only if hasWaitingEvents.
GetNextTimer ==
  /\ DOMAIN WaitingQ # {}
  /\ FromReady \/ FromWaiting
  /\ UNCHANGED eventCounter

Next ==
  \/ \E g \in GoRoutines, when \in 1 .. MaxDelay : AddSleep(g, when)
  \/ \E t \in Timers, when, period \in 0 .. MaxDelay : AddTimer(t, when, period)
  \/ GetNextTimer

Spec == Init /\ [][Next]_vars

\* GetNextAction tosses a coin between a timer and a goroutine: timers get
\* their turn again and again.
FairSpec == Spec /\ WF_vars(GetNextTimer)

-----------------------------------------------------------------------------
TypeOK ==
  /\ CurrentTick \in Ticks
  /\ eventCounter \in 0 .. MaxEvents
  /\ DOMAIN WaitingQ \subseteq 1 .. eventCounter
  /\ \A id \in DOMAIN WaitingQ : WaitingQ[id] \in TimeEvent
  /\ ReadyQ \in Seq(TimeEvent)
  /\ sleepingRoutines \subseteq GoRoutines
  /\ fired \in Seq(TimeEvent)

(***************************************************************************)
(* A goroutine is kept off the list of possible threads (IsSleeping) only  *)
(* as long as an event that will wake it is waiting, and the other way     *)
(* round: nobody is forgotten, nobody runs in his sleep.                   *)
(***************************************************************************)
SleepersHaveAlarms ==
  sleepingRoutines =
    {WaitingQ[id].Who : id \in {k \in DOMAIN WaitingQ : ~ IsTimer(k)}}

(***************************************************************************)
(* All ready events are timers that are due at this very tick.  This is    *)
(* why it does no harm that getNextEventFromReady never lowers lowestVal,  *)
(* and why its index is never -1.                                          *)
(***************************************************************************)
ReadyIsDueNow ==
  \A k \in DOMAIN ReadyQ :
    ReadyQ[k].Type = "Timer" /\ ReadyQ[k].When = CurrentTick

(***************************************************************************)
(* No waiting event is overdue, unless the clock has been thrown to the    *)
(* end of time (only sleepers were waiting) and everything wraps around.   *)
(***************************************************************************)
NothingOverdue ==
  CurrentTick < MaxUint64 =>
    \A id \in DOMAIN WaitingQ : WaitingQ[id].When >= CurrentTick

(***************************************************************************)
(* Timers fire in the order of their ticks: when one is returned, no timer *)
(* that still waits or is ready is due earlier.                            *)
(***************************************************************************)
FiresEarliest ==
  [][fired' # fired /\ CurrentTick' < MaxUint64 =>
       LET tick == fired'[Len(fired')].When
       IN /\ tick = CurrentTick'
          /\ \A id \in DOMAIN WaitingQ' :
               WaitingQ'[id].Type = "Timer" => WaitingQ'[id].When >= tick
          /\ \A k \in DOMAIN ReadyQ' : ReadyQ'[k].When >= tick]_vars

(***************************************************************************)
(* Every sleep ends, also when periodic timers fire all the time.          *)
(***************************************************************************)
SleepEnds ==
  \A g \in GoRoutines : g \in sleepingRoutines ~> g \notin sleepingRoutines

=============================================================================
