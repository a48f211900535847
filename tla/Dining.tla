------------------------------- MODULE Dining -------------------------------
(***************************************************************************)
(* What the two dinners of src/structured have in common: philosophers who *)
(* sit in a circle, each with a chopstick of his own, which is a value in  *)
(* a channel of capacity 1, and a goroutine that dines.  DiningUDP and     *)
(* DiningLocal say how one borrows the chopstick of another.               *)
(***************************************************************************)
EXTENDS Integers

CONSTANTS
  N,          \* philosophers
  MaxTries    \* bound: calls of getChopsticks of one philosopher

ASSUME DiningAssumption == N \in Nat \ {0, 1} /\ MaxTries \in Nat \ {0}

Phils == 1 .. N

VARIABLES
  chopstick,  \* per philosopher: values in the channel
  pc          \* per philosopher: what the goroutine does that dines
=============================================================================
