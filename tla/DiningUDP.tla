----------------------------- MODULE DiningUDP -----------------------------
(***************************************************************************)
(* src/structured/dphil/diningphilosopher.go: philosophers in a ring, one  *)
(* process each.  A philosopher owns its left chopstick (a channel of      *)
(* capacity 1) and borrows the right one from its neighbour over UDP.  A   *)
(* request that is not answered in time is given up and made again by a    *)
(* new goroutine, while the goroutine of the first still reads from the    *)
(* same socket.  Durations are left out: a timeout may fire at any time.   *)
(* Packets may be lost; between processes of one machine they are neither  *)
(* duplicated nor reordered in a way that two kinds of them could show.    *)
(***************************************************************************)
EXTENDS Dining, FiniteSets

CONSTANTS
  n,              \* how often each one dines
  MaxLost         \* bound: packets lost

ASSUME DiningUDPAssumption == n \in Nat \ {0} /\ MaxLost \in Nat

Tries == 1 .. MaxTries
neighbour(p) == (p % N) + 1
borrower(q)  == CHOOSE p \in Phils : neighbour(p) = q

VARIABLES
  try,            \* per philosopher: the number of getChopsticks calls
  asking,         \* per philosopher and try: its request goroutine
  neighbourChopstick, \* per philosopher and try: the channel of that call
  Eaten, Excused,
  Eating, RightChopstick, \* the state variables reported with DaraLog
  requests,       \* per philosopher: RequestStick packets and their handlers
  acks,           \* per philosopher: Ack packets in its socket
  releases,       \* per philosopher: ReleaseStick packets and their handlers
  excuses,        \* the philosophers an ExcuseMe packet is on the way to
  lost            \* packets lost so far

main == <<pc, try, Eaten>>
said == <<Eating, RightChopstick>>
net  == <<requests, acks, releases, excuses, lost>>
vars == <<chopstick, main, asking, neighbourChopstick, Excused, said, net>>

Init ==
  /\ chopstick = [p \in Phils |-> 1]
  /\ pc = [p \in Phils |-> "think"]
  /\ try = [p \in Phils |-> 0]
  /\ asking = [p \in Phils |-> [k \in Tries |-> "none"]]
  /\ neighbourChopstick = [p \in Phils |-> [k \in Tries |-> FALSE]]
  /\ Eaten = [p \in Phils |-> 0] /\ Excused = [p \in Phils |-> FALSE]
  /\ Eating = [p \in Phils |-> FALSE] /\ RightChopstick = [p \in Phils |-> FALSE]
  /\ requests = [p \in Phils |-> 0] /\ acks = [p \in Phils |-> 0]
  /\ releases = [p \in Phils |-> 0] /\ excuses = {} /\ lost = 0

AtTable(p) == pc[p] # "left"
Goto(p, l) == pc' = [pc EXCEPT ![p] = l]

Report(p, eating, right) ==
  /\ Eating' = [Eating EXCEPT ![p] = eating]
  /\ RightChopstick' = [RightChopstick EXCEPT ![p] = right]

-----------------------------------------------------------------------------
(***************************************************************************)
(* The main goroutine.                                                     *)
(***************************************************************************)
\* getChopsticks: the left chopstick, then a goroutine asks for the right one.
TakeLeft(p) ==
  /\ pc[p] = "think" /\ try[p] < MaxTries
  /\ chopstick[p] = 1
  /\ chopstick' = [chopstick EXCEPT ![p] = 0]
  /\ try' = [try EXCEPT ![p] = @ + 1]
  /\ asking' = [asking EXCEPT ![p][try[p] + 1] = "start"]
  /\ Eating' = [Eating EXCEPT ![p] = FALSE]
  /\ Goto(p, "wait")
  /\ UNCHANGED <<Eaten, neighbourChopstick, Excused, RightChopstick, net>>

\* The neighbour's chopstick has come.
GotBoth(p) ==
  /\ pc[p] = "wait" /\ neighbourChopstick[p][try[p]]
  /\ neighbourChopstick' = [neighbourChopstick EXCEPT ![p][try[p]] = FALSE]
  /\ Goto(p, "got")
  /\ UNCHANGED <<chopstick, try, Eaten, asking, Excused, said, net>>

EatingState(p) ==
  /\ pc[p] = "got"
  /\ Eaten' = [Eaten EXCEPT ![p] = @ + 1]
  /\ Report(p, TRUE, TRUE)
  /\ Goto(p, "eat")
  /\ UNCHANGED <<chopstick, try, asking, neighbourChopstick, Excused, net>>

\* The left chopstick goes back and the philosopher tries again, whether or not
\* the other one has come in the meantime.
Timeout(p) ==
  /\ pc[p] = "wait" /\ chopstick[p] = 0
  /\ chopstick' = [chopstick EXCEPT ![p] = 1]
  /\ Goto(p, "back")
  /\ UNCHANGED <<try, Eaten, asking, neighbourChopstick, Excused, said, net>>

\* returnChopsticks: a packet for the right one, then the left one.
ReturnRight(p) ==
  /\ pc[p] = "eat"
  /\ releases' = [releases EXCEPT ![neighbour(p)] = @ + 1]
  /\ Goto(p, "return")
  /\ UNCHANGED <<chopstick, try, Eaten, asking, neighbourChopstick, Excused, said,
                 requests, acks, excuses, lost>>

ReturnLeft(p) ==
  /\ pc[p] = "return" /\ chopstick[p] = 0
  /\ chopstick' = [chopstick EXCEPT ![p] = 1]
  /\ Goto(p, "back")
  /\ UNCHANGED <<try, Eaten, asking, neighbourChopstick, Excused, said, net>>

\* Mutant: the state variable Eating is not cleared.
ThinkingState_Eating(p) ==
  /\ pc[p] = "back"
  /\ Report(p, Eating[p], FALSE)
  /\ Goto(p, IF Eaten[p] < n THEN "think" ELSE "leave")
  /\ UNCHANGED <<chopstick, try, Eaten, asking, neighbourChopstick, Excused, net>>

\* Only then the state variables say that it thinks.
ThinkingState(p) ==
  /\ pc[p] = "back"
  /\ Report(p, FALSE, FALSE)
  /\ Goto(p, IF Eaten[p] < n THEN "think" ELSE "leave")
  /\ UNCHANGED <<chopstick, try, Eaten, asking, neighbourChopstick, Excused, net>>

\* leaveTable: ask to be excused, and go if someone else has asked.
AskToLeave(p) ==
  /\ pc[p] = "leave"
  /\ excuses' = IF AtTable(neighbour(p)) THEN excuses \cup {neighbour(p)} ELSE excuses
  /\ Goto(p, "asked")
  /\ UNCHANGED <<chopstick, try, Eaten, asking, neighbourChopstick, Excused, said,
                 requests, acks, releases, lost>>

\* Mutant: a philosopher goes as soon as it has asked.
LeaveTable_AtOnce(p) ==
  /\ pc[p] = "asked"
  /\ Goto(p, "left")
  /\ UNCHANGED <<chopstick, try, Eaten, asking, neighbourChopstick, Excused, said, net>>

LeaveTable(p) ==
  /\ pc[p] = "asked"
  /\ Goto(p, IF Excused[p] THEN "left" ELSE "leave")
  /\ UNCHANGED <<chopstick, try, Eaten, asking, neighbourChopstick, Excused, said, net>>

-----------------------------------------------------------------------------
(***************************************************************************)
(* The request goroutine of try k.                                         *)
(***************************************************************************)
SendRequest(p, k) ==
  /\ AtTable(p) /\ asking[p][k] = "start"
  /\ asking' = [asking EXCEPT ![p][k] = "read"]
  /\ requests' = IF AtTable(neighbour(p))
                 THEN [requests EXCEPT ![neighbour(p)] = @ + 1] ELSE requests
  /\ UNCHANGED <<chopstick, main, neighbourChopstick, Excused, said, acks, releases,
                 excuses, lost>>

\* Whichever goroutine reads takes the answer, and tells the call it belongs to.
ReadAck(p, k) ==
  /\ AtTable(p) /\ asking[p][k] = "read" /\ acks[p] > 0
  /\ acks' = [acks EXCEPT ![p] = @ - 1]
  /\ neighbourChopstick' = [neighbourChopstick EXCEPT ![p][k] = TRUE]
  /\ asking' = [asking EXCEPT ![p][k] = "got"]
  /\ UNCHANGED <<chopstick, main, Excused, said, requests, releases, excuses, lost>>

\* Only afterwards it sets the state variables, beside the main goroutine.
RightChopstickState(p, k) ==
  /\ AtTable(p) /\ asking[p][k] = "got"
  /\ asking' = [asking EXCEPT ![p][k] = "end"]
  /\ Report(p, FALSE, TRUE)
  /\ UNCHANGED <<chopstick, main, neighbourChopstick, Excused, net>>

\* The neighbour has left: the read fails.
ReadFails(p, k) ==
  /\ AtTable(p) /\ asking[p][k] = "read" /\ ~ AtTable(neighbour(p))
  /\ asking' = [asking EXCEPT ![p][k] = "end"]
  /\ UNCHANGED <<chopstick, main, neighbourChopstick, Excused, said, net>>

-----------------------------------------------------------------------------
(***************************************************************************)
(* ListenForChopsticks: one goroutine for every packet.                    *)
(***************************************************************************)
\* Mutant: the chopstick stays in the channel.
GiveStick_Keeps(q) ==
  /\ AtTable(q) /\ requests[q] > 0 /\ chopstick[q] = 1
  /\ requests' = [requests EXCEPT ![q] = @ - 1]
  /\ acks' = [acks EXCEPT ![borrower(q)] = @ + 1]
  /\ UNCHANGED <<chopstick, main, asking, neighbourChopstick, Excused, said, releases,
                 excuses, lost>>

GiveStick(q) ==
  /\ AtTable(q) /\ requests[q] > 0 /\ chopstick[q] = 1
  /\ chopstick' = [chopstick EXCEPT ![q] = 0]
  /\ requests' = [requests EXCEPT ![q] = @ - 1]
  /\ acks' = [acks EXCEPT ![borrower(q)] = @ + 1]
  /\ UNCHANGED <<main, asking, neighbourChopstick, Excused, said, releases, excuses, lost>>

TimeoutStick(q) ==
  /\ AtTable(q) /\ requests[q] > 0
  /\ requests' = [requests EXCEPT ![q] = @ - 1]
  /\ UNCHANGED <<chopstick, main, asking, neighbourChopstick, Excused, said, acks,
                 releases, excuses, lost>>

\* The channel has room for one chopstick; a handler that finds it full waits.
ReceiveStick(q) ==
  /\ AtTable(q) /\ releases[q] > 0 /\ chopstick[q] = 0
  /\ chopstick' = [chopstick EXCEPT ![q] = 1]
  /\ releases' = [releases EXCEPT ![q] = @ - 1]
  /\ UNCHANGED <<main, asking, neighbourChopstick, Excused, said, requests, acks,
                 excuses, lost>>

\* Mutant: who still dines is not excused.
Excuse_OnlyWhenDone(q) ==
  /\ AtTable(q) /\ q \in excuses
  /\ Excused' = [Excused EXCEPT ![q] = pc[q] \in {"leave", "asked"}]
  /\ excuses' = excuses \ {q}
  /\ UNCHANGED <<chopstick, main, asking, neighbourChopstick, said, requests, acks,
                 releases, lost>>

Excuse(q) ==
  /\ AtTable(q) /\ q \in excuses
  /\ Excused' = [Excused EXCEPT ![q] = TRUE]
  /\ excuses' = excuses \ {q}
  /\ UNCHANGED <<chopstick, main, asking, neighbourChopstick, said, requests, acks,
                 releases, lost>>

\* A packet is lost.  A lost request is like one that is never answered.
Lose ==
  /\ lost < MaxLost /\ lost' = lost + 1
  /\ \E q \in Phils :
       \/ acks[q] > 0 /\ acks' = [acks EXCEPT ![q] = @ - 1] /\ UNCHANGED <<releases, excuses>>
       \/ releases[q] > 0 /\ releases' = [releases EXCEPT ![q] = @ - 1]
            /\ UNCHANGED <<acks, excuses>>
       \/ q \in excuses /\ excuses' = excuses \ {q} /\ UNCHANGED <<acks, releases>>
  /\ UNCHANGED <<chopstick, main, asking, neighbourChopstick, Excused, said, requests>>
-----------------------------------------------------------------------------
Main(p) ==
  \/ TakeLeft(p) \/ GotBoth(p) \/ EatingState(p) \/ Timeout(p) \/ ReturnRight(p)
  \/ ReturnLeft(p) \/ ThinkingState(p) \/ AskToLeave(p) \/ LeaveTable(p)

Asking(p, k) ==
  SendRequest(p, k) \/ ReadAck(p, k) \/ RightChopstickState(p, k) \/ ReadFails(p, k)

Listen(q) == GiveStick(q) \/ TimeoutStick(q) \/ ReceiveStick(q) \/ Excuse(q)

Next ==
  \/ \E p \in Phils : Main(p) \/ Listen(p) \/ \E k \in Tries : Asking(p, k)
  \/ Lose

Spec == Init /\ [][Next]_vars

(***************************************************************************)
(* Every goroutine goes on, every sleep ends, and a packet that is not     *)
(* lost is read.                                                           *)
(***************************************************************************)
FairSpec ==
  /\ Spec
  /\ \A p \in Phils :
       /\ WF_vars(Main(p))
       /\ WF_vars(GiveStick(p) \/ TimeoutStick(p))
       /\ WF_vars(ReceiveStick(p)) /\ WF_vars(Excuse(p))
       /\ \A k \in Tries : WF_vars(Asking(p, k))

-----------------------------------------------------------------------------
\* Every variable has its type.
TypeOK ==
  /\ chopstick \in [Phils -> {0, 1}]
  /\ pc \in [Phils -> {"think", "wait", "got", "eat", "return", "back", "leave", "asked", "left"}]
  /\ try \in [Phils -> 0 .. MaxTries]
  /\ asking \in [Phils -> [Tries -> {"none", "start", "read", "got", "end"}]]
  /\ neighbourChopstick \in [Phils -> [Tries -> BOOLEAN]]
  /\ Eaten \in [Phils -> 0 .. n] /\ Excused \in [Phils -> BOOLEAN]
  /\ Eating \in [Phils -> BOOLEAN] /\ RightChopstick \in [Phils -> BOOLEAN]
  /\ requests \in [Phils -> 0 .. MaxTries] /\ acks \in [Phils -> 0 .. MaxTries]
  /\ releases \in [Phils -> Nat] /\ excuses \subseteq Phils /\ lost \in 0 .. MaxLost

HasLeft(p)  == pc[p] \in {"wait", "got", "eat", "return"}
HasRight(p) == pc[p] \in {"got", "eat"}
Granted(p)  == {k \in Tries : neighbourChopstick[p][k]}
One(P)      == IF P THEN 1 ELSE 0

\* Where the chopstick of q is: in its channel, with q, on its way to the
\* borrower, in the channel of one of the borrower's tries, with the borrower,
\* or on its way back.
Copies(q) ==
  LET b == borrower(q)
  IN  chopstick[q] + One(HasLeft(q)) + acks[b] + Cardinality(Granted(b))
        + One(HasRight(b)) + releases[q]

\* Whatever times out, is asked for again or comes late, there is never more
\* than one of each chopstick, and exactly one unless a packet was lost.
SticksConserved ==
  \A q \in Phils : Copies(q) <= 1 /\ (lost = 0 => Copies(q) = 1)

\* No two neighbours eat at once, and both are reported to eat only while one
\* of them gives its chopsticks back.
NeighboursExclude ==
  \A p \in Phils : LET q == neighbour(p) IN
    /\ ~ (pc[p] = "eat" /\ pc[q] = "eat")
    /\ Eating[p] /\ Eating[q] => {pc[p], pc[q]} \cap {"return", "back"} # {}

\* A philosopher leaves, and takes its chopstick with it, only when the one who
\* borrows it will not ask again.
LeavesWhenNotNeeded ==
  \A q \in Phils : pc[q] = "left" =>
    Eaten[borrower(q)] = n /\ pc[borrower(q)] \in {"leave", "asked", "left"}

\* A chopstick that was granted to a try that had been given up: nobody will
\* ever return it.
Wasted(p) ==
  \/ \E k \in Granted(p) : ~ (pc[p] = "wait" /\ k = try[p])
  \/ pc[p] \in {"leave", "asked", "left"} /\ acks[p] > 0

\* There are three ways for a dinner not to end: a packet is lost, a chopstick
\* is granted to a try that was given up, or every try times out.
DinnerEnds ==
  <>(\/ \A p \in Phils : pc[p] = "left"
     \/ lost > 0
     \/ \E p \in Phils : Wasted(p) \/ (pc[p] = "think" /\ try[p] = MaxTries))
=============================================================================
