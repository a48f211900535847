---------------------------- MODULE DiningLocal ----------------------------
(***************************************************************************)
(* src/structured/dphil_local/dining_philosophers.go: philosophers in one  *)
(* process.  A chopstick is a value in a channel of capacity 1, which main *)
(* closes a second after its owner is done.  Durations are left out: a     *)
(* timeout fires and a channel is closed at any time.                      *)
(***************************************************************************)
EXTENDS Dining

neighbor(p) == IF p = 1 THEN N ELSE p - 1

VARIABLES
  closed,     \* per philosopher: the channel is closed
  tries,      \* per philosopher
  closer,     \* the philosophers a goroutine of main is going to close
  announced   \* announcements main has received; N: it has returned, -1: a panic

localVars == <<chopstick, closed, pc, tries, closer, announced>>

LocalInit ==
  /\ chopstick = [p \in Phils |-> 1] /\ closed = [p \in Phils |-> FALSE]
  /\ pc = [p \in Phils |-> "think"] /\ tries = [p \in Phils |-> 0]
  /\ closer = {} /\ announced = 0

Running == announced \in 0 .. N - 1
Move(p, from, to) == Running /\ pc[p] = from /\ pc' = [pc EXCEPT ![p] = to]

\* A closed channel is never empty for a receiver.
Receive(q) ==
  /\ chopstick[q] = 1 \/ closed[q]
  /\ chopstick' = [chopstick EXCEPT ![q] = 0]

\* And the program does not survive a send on it.
Send(q) ==
  \/ ~ closed[q] /\ chopstick[q] = 0 /\ chopstick' = [chopstick EXCEPT ![q] = 1]
     /\ UNCHANGED announced
  \/ closed[q] /\ announced' = -1 /\ UNCHANGED chopstick

getChopsticks(p) ==
  /\ Move(p, "think", "own")
  /\ tries[p] < MaxTries /\ tries' = [tries EXCEPT ![p] = @ + 1]
  /\ UNCHANGED <<chopstick, closed, closer, announced>>

TakeOwn(p) ==
  /\ Move(p, "own", "select") /\ Receive(p)
  /\ UNCHANGED <<closed, tries, closer, announced>>

TakeNeighbors(p) ==
  /\ Move(p, "select", "eat") /\ Receive(neighbor(p))
  /\ UNCHANGED <<closed, tries, closer, announced>>

\* Mutant: the own chopstick is kept when the other was not to be had.
GiveUp_Keeps(p) ==
  /\ Move(p, "select", "think") /\ UNCHANGED <<chopstick, closed, tries, closer, announced>>

GiveUp(p) ==
  /\ Move(p, "select", "think") /\ Send(p)
  /\ UNCHANGED <<closed, tries, closer>>

ReturnOwn(p) ==
  /\ Move(p, "eat", "return") /\ Send(p)
  /\ UNCHANGED <<closed, tries, closer>>

\* Mutant: only the own chopstick goes back.
ReturnNeighbors_Keeps(p) ==
  /\ Move(p, "return", "announce") /\ UNCHANGED <<chopstick, closed, tries, closer, announced>>

ReturnNeighbors(p) ==
  /\ Move(p, "return", "announce") /\ Send(neighbor(p))
  /\ UNCHANGED <<closed, tries, closer>>

Announce(p) ==
  /\ Move(p, "announce", "end")
  /\ announced' = announced + 1 /\ closer' = closer \cup {p}
  /\ UNCHANGED <<chopstick, closed, tries>>

\* Mutant: the goroutine closes the channel of another philosopher.
Close_Other(p) ==
  /\ Running /\ p \in closer /\ closer' = closer \ {p}
  /\ closed' = [closed EXCEPT ![neighbor(p)] = TRUE]
  /\ UNCHANGED <<chopstick, pc, tries, announced>>

Close(p) ==
  /\ Running /\ p \in closer /\ closer' = closer \ {p}
  /\ closed' = [closed EXCEPT ![p] = TRUE]
  /\ UNCHANGED <<chopstick, pc, tries, announced>>

dine(p) ==
  \/ getChopsticks(p) \/ TakeOwn(p) \/ TakeNeighbors(p) \/ GiveUp(p)
  \/ ReturnOwn(p) \/ ReturnNeighbors(p) \/ Announce(p)

LocalNext == \E p \in Phils : dine(p) \/ Close(p)

LocalSpec == LocalInit /\ [][LocalNext]_localVars

LocalFairSpec == LocalSpec /\ \A p \in Phils : WF_localVars(dine(p)) /\ WF_localVars(Close(p))

-----------------------------------------------------------------------------
\* Every variable has its type.
LocalTypeOK ==
  /\ chopstick \in [Phils -> 0 .. 1] /\ closed \in [Phils -> BOOLEAN]
  /\ pc \in [Phils -> {"think", "own", "select", "eat", "return", "announce", "end"}]
  /\ tries \in [Phils -> 0 .. MaxTries]
  /\ closer \subseteq Phils /\ announced \in -1 .. N

HasOwn(p) == pc[p] \in {"select", "eat"}
HasNeighbors(p) == pc[p] \in {"eat", "return"}
Users(q) == {p \in {q} : HasOwn(p)} \cup {p \in Phils : neighbor(p) = q /\ HasNeighbors(p)}

\* There is one of each chopstick, in its channel or with one philosopher, also
\* after the channel is closed: a send never blocks and nobody ever receives
\* the value a closed channel makes up.
LocalSticksConserved ==
  announced # -1 => \A q \in Phils :
    \/ chopstick[q] = 1 /\ Users(q) = {}
    \/ chopstick[q] = 0 /\ \E p \in Phils : Users(q) = {p}

\* A channel is closed only after its owner's last send on it, so no send of his
\* panics; the program panics only when a neighbour brings the chopstick of one
\* who is done back.
PanicOnReturn ==
  /\ \A q \in Phils : closed[q] => pc[q] = "end"
  /\ announced = -1 => \E p \in Phils : pc[p] = "announce" /\ closed[neighbor(p)]

\* Nobody waits for ever for a chopstick or for a send, though neighbours take
\* them in a circle: the dinner ends, unless somebody has used up his tries.
LocalDinnerEnds ==
  <>(announced \in {-1, N} \/ \E p \in Phils : pc[p] = "think" /\ tries[p] = MaxTries)
=============================================================================
