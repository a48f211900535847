------------------------------ MODULE MCReplay ------------------------------
(***************************************************************************)
(* Replay of every schedule of up to MaxTurns turns.  Goroutine 1 is the   *)
(* main goroutine of a process, which makes its first turn; the last       *)
(* goroutine is the timer thread.                                          *)
(***************************************************************************)
EXTENDS Replay

CONSTANTS
  MaxTurns,   \* bound: the turns of a schedule
  MaxEvents,  \* bound: the events of a recorded turn
  Timer       \* the goroutine id of runtime.timerproc

Turn == [P : Procs, G : GoRoutines, len : 1 .. MaxEvents]

IsRecorded(turns) ==
  \A k \in DOMAIN turns :
    (\A j \in 1 .. k - 1 : turns[j].P # turns[k].P) => turns[k].G = 1

EventsOfTurn(t, k) ==
  [n \in 1 .. t.len |->
     [P |-> t.P, G |-> t.G, batch |-> k, n |-> n, timer |-> t.G = Timer]]

\* The events of a sequence of turns, one turn after the other.
RECURSIVE Flatten(_, _)
Flatten(turns, k) ==
  IF k > Len(turns) THEN <<>>
  ELSE EventsOfTurn(turns[k], k) \o Flatten(turns, k + 1)

MCSchedules ==
  UNION {{Flatten(turns, 1) : turns \in {t \in [1 .. k -> Turn] : IsRecorded(t)}} :
           k \in 1 .. MaxTurns}
=============================================================================
