---------------------------- MODULE DiningProofs ----------------------------
(***************************************************************************)
(* Proofs about the two dinners, for every number of philosophers, of      *)
(* meals, of tries and of lost packets.                                    *)
(***************************************************************************)
EXTENDS DiningUDP, DiningLocal, FiniteSetTheorems, TLAPS

(***************************************************************************)
(* DiningUDP.                                                              *)
(***************************************************************************)
\* The types, with numbers where TypeOK has bounds.
Types ==
  /\ chopstick \in [Phils -> {0, 1}]
  /\ pc \in [Phils -> {"think", "wait", "got", "eat", "return", "back", "leave",
                       "asked", "left"}]
  /\ try \in [Phils -> 0 .. MaxTries]
  /\ asking \in [Phils -> [Tries -> {"none", "start", "read", "got", "end"}]]
  /\ neighbourChopstick \in [Phils -> [Tries -> BOOLEAN]]
  /\ Eaten \in [Phils -> Nat] /\ Excused \in [Phils -> BOOLEAN]
  /\ Eating \in [Phils -> BOOLEAN] /\ RightChopstick \in [Phils -> BOOLEAN]
  /\ requests \in [Phils -> Nat] /\ acks \in [Phils -> Nat]
  /\ releases \in [Phils -> Nat] /\ excuses \subseteq Phils /\ lost \in 0 .. MaxLost

\* Where the main goroutine is, how often it has eaten, and what it reports.
PhaseInv ==
  \A p \in Phils :
    /\ pc[p] \in {"think", "wait", "got"} => Eaten[p] < n
    /\ Eaten[p] <= n
    /\ pc[p] \in {"leave", "asked", "left"} => Eaten[p] = n
    /\ pc[p] = "wait" => try[p] \in Tries
    /\ Eating[p] => pc[p] \in {"eat", "return", "back"}

\* A try has its goroutine from the moment it begins, and gets the chopstick
\* when this goroutine reads an answer.
GrantInv ==
  \A p \in Phils : \A k \in Tries :
    /\ k > try[p] => asking[p][k] = "none"
    /\ asking[p][k] \in {"none", "start", "read"} => ~ neighbourChopstick[p][k]

\* Only a philosopher who is done asks to be excused.
ExcuseInv ==
  \A p \in Phils :
    Excused[neighbour(p)] \/ neighbour(p) \in excuses \/ pc[neighbour(p)] = "left" =>
      pc[p] \in {"leave", "asked", "left"}

-----------------------------------------------------------------------------
\* The philosophers sit in a ring: the neighbour of the last is the first.
LEMMA NeighbourDef ==
  ASSUME NEW p \in Phils
  PROVE  neighbour(p) = IF p = N THEN 1 ELSE p + 1
<1>1. p \in 1 .. N /\ N \in Nat \ {0, 1}
  BY DiningAssumption DEF Phils
<1>2. CASE p = N
  BY <1>1, <1>2 DEF neighbour
<1>3. CASE p # N
  <2>1. p % N = p
    BY <1>1, <1>3
  <2> QED BY <1>3, <2>1 DEF neighbour
<1> QED BY <1>2, <1>3

\* Everybody has one neighbour and one borrower, each other's inverse.
LEMMA RingFacts ==
  /\ \A p \in Phils : neighbour(p) \in Phils /\ neighbour(p) # p
  /\ \A p \in Phils : borrower(neighbour(p)) = p
  /\ \A q \in Phils : borrower(q) \in Phils /\ neighbour(borrower(q)) = q
<1>0. N \in Nat \ {0, 1}
  BY DiningAssumption
<1>1. \A p \in Phils : neighbour(p) \in Phils /\ neighbour(p) # p
  BY <1>0, NeighbourDef DEF Phils
<1>2. ASSUME NEW p \in Phils, NEW q \in Phils, neighbour(p) = neighbour(q)
      PROVE  p = q
  BY <1>0, <1>2, NeighbourDef DEF Phils
<1>3. \A q \in Phils : \E p \in Phils : neighbour(p) = q
  <2> SUFFICES ASSUME NEW q \in Phils PROVE \E p \in Phils : neighbour(p) = q
    OBVIOUS
  <2> DEFINE p == IF q = 1 THEN N ELSE q - 1
  <2>1. p \in Phils /\ (IF p = N THEN 1 ELSE p + 1) = q
    BY <1>0 DEF Phils
  <2>2. neighbour(p) = q
    BY <2>1, NeighbourDef
  <2> QED BY <2>1, <2>2
<1>4. \A q \in Phils : borrower(q) \in Phils /\ neighbour(borrower(q)) = q
  BY <1>3 DEF borrower
<1> QED BY <1>1, <1>2, <1>4

\* The tries that have been granted are finitely many.
LEMMA GrantedFinite ==
  ASSUME NEW p
  PROVE  IsFiniteSet(Granted(p)) /\ Cardinality(Granted(p)) \in Nat
<1>1. IsFiniteSet(Tries)
  BY FS_Interval, DiningAssumption DEF Tries
<1>2. IsFiniteSet(Granted(p))
  BY <1>1, FS_Subset DEF Granted
<1> QED BY <1>2, FS_CardinalityType

\* Counting one more, or one less of some, per philosopher.
LEMMA Counting ==
  ASSUME NEW f \in [Phils -> Nat], NEW p \in Phils
  PROVE  /\ [f EXCEPT ![p] = @ + 1] \in [Phils -> Nat]
         /\ f[p] > 0 => [f EXCEPT ![p] = @ - 1] \in [Phils -> Nat]
OBVIOUS

\* Changing the state of one try.
LEMMA OneTry ==
  ASSUME NEW S, NEW f \in [Phils -> [Tries -> S]], NEW p \in Phils,
         NEW k \in Tries, NEW x \in S
  PROVE  [f EXCEPT ![p][k] = x] \in [Phils -> [Tries -> S]]
OBVIOUS

\* Every step keeps the types.
LEMMA TypesStep ==
  ASSUME Types, [Next]_vars
  PROVE  Types'
<1> USE DiningAssumption DEF Types, Goto, Report, Tries, main, said, net
<1>1. ASSUME NEW p \in Phils, Main(p)
      PROVE  Types'
  <2>1. CASE TakeLeft(p)
    <3>1. try[p] + 1 \in 0 .. MaxTries /\ try[p] + 1 \in Tries
      BY <2>1 DEF TakeLeft
    <3>2. asking' \in [Phils -> [Tries -> {"none", "start", "read", "got", "end"}]]
      BY <2>1, <3>1, OneTry DEF TakeLeft
    <3> QED BY <2>1, <3>1, <3>2 DEF TakeLeft
  <2>2. CASE GotBoth(p)
    BY <2>2 DEF GotBoth
  <2>3. CASE EatingState(p)
    BY <2>3, Counting, RingFacts DEF EatingState
  <2>4. CASE Timeout(p)
    BY <2>4 DEF Timeout
  <2>5. CASE ReturnRight(p)
    BY <2>5, Counting, RingFacts DEF ReturnRight
  <2>6. CASE ReturnLeft(p)
    BY <2>6 DEF ReturnLeft
  <2>7. CASE ThinkingState(p)
    BY <2>7 DEF ThinkingState
  <2>8. CASE AskToLeave(p)
    BY <2>8, RingFacts DEF AskToLeave
  <2>9. CASE LeaveTable(p)
    BY <2>9 DEF LeaveTable
  <2> QED BY <1>1, <2>1, <2>2, <2>3, <2>4, <2>5, <2>6, <2>7, <2>8, <2>9 DEF Main
<1>2. ASSUME NEW p \in Phils, Listen(p)
      PROVE  Types'
  <2>1. CASE GiveStick(p)
    BY <2>1, Counting, RingFacts DEF GiveStick
  <2>2. CASE TimeoutStick(p)
    BY <2>2, Counting, RingFacts DEF TimeoutStick
  <2>3. CASE ReceiveStick(p)
    BY <2>3, Counting, RingFacts DEF ReceiveStick
  <2>4. CASE Excuse(p)
    BY <2>4 DEF Excuse
  <2> QED BY <1>2, <2>1, <2>2, <2>3, <2>4 DEF Listen
<1>3. ASSUME NEW p \in Phils, NEW k \in Tries, Asking(p, k)
      PROVE  Types'
  <2>1. CASE SendRequest(p, k)
    BY <2>1, Counting, RingFacts DEF SendRequest
  <2>2. CASE ReadAck(p, k)
    BY <2>2, Counting, RingFacts DEF ReadAck
  <2>3. CASE RightChopstickState(p, k)
    BY <2>3 DEF RightChopstickState
  <2>4. CASE ReadFails(p, k)
    BY <2>4 DEF ReadFails
  <2> QED BY <1>3, <2>1, <2>2, <2>3, <2>4 DEF Asking
<1>4. CASE Lose
  <2>1. lost' \in 0 .. MaxLost
    BY <1>4, DiningUDPAssumption DEF Lose
  <2>2. PICK q \in Phils :
          \/ acks[q] > 0 /\ acks' = [acks EXCEPT ![q] = @ - 1] /\ UNCHANGED <<releases, excuses>>
          \/ releases[q] > 0 /\ releases' = [releases EXCEPT ![q] = @ - 1]
               /\ UNCHANGED <<acks, excuses>>
          \/ q \in excuses /\ excuses' = excuses \ {q} /\ UNCHANGED <<acks, releases>>
    BY <1>4 DEF Lose
  <2>3. acks' \in [Phils -> Nat] /\ releases' \in [Phils -> Nat] /\ excuses' \subseteq Phils
    <3>1. CASE acks[q] > 0 /\ acks' = [acks EXCEPT ![q] = @ - 1]
                 /\ UNCHANGED <<releases, excuses>>
      BY <3>1, Counting
    <3>2. CASE releases[q] > 0 /\ releases' = [releases EXCEPT ![q] = @ - 1]
                 /\ UNCHANGED <<acks, excuses>>
      BY <3>2, Counting
    <3>3. CASE excuses' = excuses \ {q} /\ UNCHANGED <<acks, releases>>
      BY <3>3
    <3> QED BY <2>2, <3>1, <3>2, <3>3
  <2> QED BY <1>4, <2>1, <2>3 DEF Lose
<1>5. CASE UNCHANGED vars
  BY <1>5 DEF vars, main, said, net
<1> QED BY <1>1, <1>2, <1>3, <1>4, <1>5 DEF Next

\* The phases of a meal follow each other.
LEMMA PhaseStep ==
  ASSUME Types, PhaseInv, [Next]_vars
  PROVE  PhaseInv'
<1>0. /\ pc \in [Phils -> {"think", "wait", "got", "eat", "return", "back", "leave",
                         "asked", "left"}]
      /\ try \in [Phils -> 0 .. MaxTries] /\ Eaten \in [Phils -> Nat]
      /\ Eating \in [Phils -> BOOLEAN]
      /\ MaxTries \in Nat /\ n \in Nat \ {0}
  BY DiningAssumption, DiningUDPAssumption DEF Types
<1> USE DEF Goto, Report, Tries, main, said
<1>1. ASSUME NEW p \in Phils, Main(p)
      PROVE  PhaseInv'
  <2>1. CASE TakeLeft(p)
    BY <1>0, <2>1 DEF TakeLeft, PhaseInv
  <2>2. CASE GotBoth(p)
    BY <1>0, <2>2 DEF GotBoth, PhaseInv
  <2>3. CASE EatingState(p)
    BY <1>0, <2>3 DEF EatingState, PhaseInv
  <2>4. CASE Timeout(p)
    BY <1>0, <2>4 DEF Timeout, PhaseInv
  <2>5. CASE ReturnRight(p)
    BY <1>0, <2>5 DEF ReturnRight, PhaseInv
  <2>6. CASE ReturnLeft(p)
    BY <1>0, <2>6 DEF ReturnLeft, PhaseInv
  <2>7. CASE ThinkingState(p)
    BY <1>0, <2>7 DEF ThinkingState, PhaseInv
  <2>8. CASE AskToLeave(p)
    BY <1>0, <2>8 DEF AskToLeave, PhaseInv
  <2>9. CASE LeaveTable(p)
    BY <1>0, <2>9 DEF LeaveTable, PhaseInv
  <2> QED BY <1>1, <2>1, <2>2, <2>3, <2>4, <2>5, <2>6, <2>7, <2>8, <2>9 DEF Main
<1>2. ASSUME NEW p \in Phils, Listen(p)
      PROVE  PhaseInv'
  <2>1. CASE GiveStick(p)
    BY <1>0, <2>1 DEF GiveStick, PhaseInv
  <2>2. CASE TimeoutStick(p)
    BY <1>0, <2>2 DEF TimeoutStick, PhaseInv
  <2>3. CASE ReceiveStick(p)
    BY <1>0, <2>3 DEF ReceiveStick, PhaseInv
  <2>4. CASE Excuse(p)
    BY <1>0, <2>4 DEF Excuse, PhaseInv
  <2> QED BY <1>2, <2>1, <2>2, <2>3, <2>4 DEF Listen
<1>3. ASSUME NEW p \in Phils, NEW k \in Tries, Asking(p, k)
      PROVE  PhaseInv'
  <2>1. CASE SendRequest(p, k)
    BY <1>0, <2>1 DEF SendRequest, PhaseInv
  <2>2. CASE ReadAck(p, k)
    BY <1>0, <2>2 DEF ReadAck, PhaseInv
  <2>3. CASE RightChopstickState(p, k)
    BY <1>0, <2>3 DEF RightChopstickState, PhaseInv
  <2>4. CASE ReadFails(p, k)
    BY <1>0, <2>4 DEF ReadFails, PhaseInv
  <2> QED BY <1>3, <2>1, <2>2, <2>3, <2>4 DEF Asking
<1>4. CASE Lose
  BY <1>0, <1>4 DEF Lose, PhaseInv
<1>5. CASE UNCHANGED vars
  BY <1>5 DEF vars, main, said, net, PhaseInv
<1> QED BY <1>1, <1>2, <1>3, <1>4, <1>5 DEF Next

\* A chopstick that has come stays with its try until GotBoth.
LEMMA GrantStep ==
  ASSUME Types, PhaseInv, GrantInv, [Next]_vars
  PROVE  GrantInv'
<1>0. /\ pc \in [Phils -> {"think", "wait", "got", "eat", "return", "back", "leave",
                         "asked", "left"}]
      /\ try \in [Phils -> 0 .. MaxTries] /\ MaxTries \in Nat
      /\ asking \in [Phils -> [Tries -> {"none", "start", "read", "got", "end"}]]
      /\ neighbourChopstick \in [Phils -> [Tries -> BOOLEAN]]
  BY DiningAssumption DEF Types
<1> USE DEF Goto, Report, Tries, main, said
<1>1. ASSUME NEW p \in Phils, Main(p)
      PROVE  GrantInv'
  <2>1. CASE TakeLeft(p)
    BY <1>0, <2>1 DEF TakeLeft, GrantInv, PhaseInv
  <2>2. CASE GotBoth(p)
    BY <1>0, <2>2 DEF GotBoth, GrantInv, PhaseInv
  <2>3. CASE EatingState(p)
    BY <1>0, <2>3 DEF EatingState, GrantInv, PhaseInv
  <2>4. CASE Timeout(p)
    BY <1>0, <2>4 DEF Timeout, GrantInv, PhaseInv
  <2>5. CASE ReturnRight(p)
    BY <1>0, <2>5 DEF ReturnRight, GrantInv, PhaseInv
  <2>6. CASE ReturnLeft(p)
    BY <1>0, <2>6 DEF ReturnLeft, GrantInv, PhaseInv
  <2>7. CASE ThinkingState(p)
    BY <1>0, <2>7 DEF ThinkingState, GrantInv, PhaseInv
  <2>8. CASE AskToLeave(p)
    BY <1>0, <2>8 DEF AskToLeave, GrantInv, PhaseInv
  <2>9. CASE LeaveTable(p)
    BY <1>0, <2>9 DEF LeaveTable, GrantInv, PhaseInv
  <2> QED BY <1>1, <2>1, <2>2, <2>3, <2>4, <2>5, <2>6, <2>7, <2>8, <2>9 DEF Main
<1>2. ASSUME NEW p \in Phils, Listen(p)
      PROVE  GrantInv'
  <2>1. CASE GiveStick(p)
    BY <1>0, <2>1 DEF GiveStick, GrantInv, PhaseInv
  <2>2. CASE TimeoutStick(p)
    BY <1>0, <2>2 DEF TimeoutStick, GrantInv, PhaseInv
  <2>3. CASE ReceiveStick(p)
    BY <1>0, <2>3 DEF ReceiveStick, GrantInv, PhaseInv
  <2>4. CASE Excuse(p)
    BY <1>0, <2>4 DEF Excuse, GrantInv, PhaseInv
  <2> QED BY <1>2, <2>1, <2>2, <2>3, <2>4 DEF Listen
<1>3. ASSUME NEW p \in Phils, NEW k \in Tries, Asking(p, k)
      PROVE  GrantInv'
  <2>1. CASE SendRequest(p, k)
    BY <1>0, <2>1 DEF SendRequest, GrantInv, PhaseInv
  <2>2. CASE ReadAck(p, k)
    BY <1>0, <2>2 DEF ReadAck, GrantInv, PhaseInv
  <2>3. CASE RightChopstickState(p, k)
    BY <1>0, <2>3 DEF RightChopstickState, GrantInv, PhaseInv
  <2>4. CASE ReadFails(p, k)
    BY <1>0, <2>4 DEF ReadFails, GrantInv, PhaseInv
  <2> QED BY <1>3, <2>1, <2>2, <2>3, <2>4 DEF Asking
<1>4. CASE Lose
  BY <1>0, <1>4 DEF Lose, GrantInv, PhaseInv
<1>5. CASE UNCHANGED vars
  BY <1>5 DEF vars, main, said, net, GrantInv, PhaseInv
<1> QED BY <1>1, <1>2, <1>3, <1>4, <1>5 DEF Next

\* Who is done stays done, and asks for no chopstick any more.
LEMMA ExcuseStep ==
  ASSUME Types, ExcuseInv, [Next]_vars
  PROVE  ExcuseInv'
<1>0. /\ pc \in [Phils -> {"think", "wait", "got", "eat", "return", "back", "leave",
                         "asked", "left"}]
      /\ Excused \in [Phils -> BOOLEAN] /\ excuses \subseteq Phils
  BY DEF Types
<1> USE RingFacts DEF Goto, main, said, net
<1>1. ASSUME NEW p \in Phils, Main(p)
      PROVE  ExcuseInv'
  <2>1. CASE TakeLeft(p)
    BY <1>0, <2>1 DEF TakeLeft, ExcuseInv
  <2>2. CASE GotBoth(p)
    BY <1>0, <2>2 DEF GotBoth, ExcuseInv
  <2>3. CASE EatingState(p)
    BY <1>0, <2>3 DEF EatingState, ExcuseInv
  <2>4. CASE Timeout(p)
    BY <1>0, <2>4 DEF Timeout, ExcuseInv
  <2>5. CASE ReturnRight(p)
    BY <1>0, <2>5 DEF ReturnRight, ExcuseInv
  <2>6. CASE ReturnLeft(p)
    BY <1>0, <2>6 DEF ReturnLeft, ExcuseInv
  <2>7. CASE ThinkingState(p)
    BY <1>0, <2>7 DEF ThinkingState, ExcuseInv
  <2>8. CASE AskToLeave(p)
    BY <1>0, <2>8 DEF AskToLeave, ExcuseInv
  <2>9. CASE LeaveTable(p)
    BY <1>0, <2>9 DEF LeaveTable, ExcuseInv
  <2> QED BY <1>1, <2>1, <2>2, <2>3, <2>4, <2>5, <2>6, <2>7, <2>8, <2>9 DEF Main
<1>2. ASSUME NEW p \in Phils, Listen(p)
      PROVE  ExcuseInv'
  <2>1. CASE GiveStick(p)
    BY <1>0, <2>1 DEF GiveStick, ExcuseInv
  <2>2. CASE TimeoutStick(p)
    BY <1>0, <2>2 DEF TimeoutStick, ExcuseInv
  <2>3. CASE ReceiveStick(p)
    BY <1>0, <2>3 DEF ReceiveStick, ExcuseInv
  <2>4. CASE Excuse(p)
    BY <1>0, <2>4 DEF Excuse, ExcuseInv
  <2> QED BY <1>2, <2>1, <2>2, <2>3, <2>4 DEF Listen
<1>3. ASSUME NEW p \in Phils, NEW k \in Tries, Asking(p, k)
      PROVE  ExcuseInv'
  <2>1. CASE SendRequest(p, k)
    BY <1>0, <2>1 DEF SendRequest, ExcuseInv
  <2>2. CASE ReadAck(p, k)
    BY <1>0, <2>2 DEF ReadAck, ExcuseInv
  <2>3. CASE RightChopstickState(p, k)
    BY <1>0, <2>3 DEF RightChopstickState, ExcuseInv
  <2>4. CASE ReadFails(p, k)
    BY <1>0, <2>4 DEF ReadFails, ExcuseInv
  <2> QED BY <1>3, <2>1, <2>2, <2>3, <2>4 DEF Asking
<1>4. CASE Lose
  BY <1>0, <1>4 DEF Lose, ExcuseInv
<1>5. CASE UNCHANGED vars
  BY <1>5 DEF vars, main, said, net, ExcuseInv
<1> QED BY <1>1, <1>2, <1>3, <1>4, <1>5 DEF Next

-----------------------------------------------------------------------------
Inv == PhaseInv /\ GrantInv /\ ExcuseInv /\ SticksConserved

Granteds(p) == Cardinality(Granted(p))

\* A step that leaves the channels of the tries alone leaves their number.
LEMMA GrantedSame ==
  ASSUME UNCHANGED neighbourChopstick, NEW p
  PROVE  Granteds(p)' = Granteds(p)
BY DEF Granteds, Granted

\* The main goroutine takes the chopstick that was granted to its try.
LEMMA GrantedTaken ==
  ASSUME Types, PhaseInv, NEW p \in Phils, GotBoth(p)
  PROVE  /\ Granteds(p)' = Granteds(p) - 1
         /\ \A r \in Phils : r # p => Granteds(r)' = Granteds(r)
<1>1. /\ try[p] \in Tries /\ try[p] \in Granted(p)
      /\ neighbourChopstick' = [neighbourChopstick EXCEPT ![p][try[p]] = FALSE]
  BY DEF GotBoth, PhaseInv, Granted
<1>2. Granted(p)' = Granted(p) \ {try[p]}
  BY <1>1 DEF Granted, Types
<1>3. \A r \in Phils : r # p => Granted(r)' = Granted(r)
  BY <1>1 DEF Granted, Types
<1> QED BY <1>1, <1>2, <1>3, GrantedFinite, FS_RemoveElement DEF Granteds

\* The answer to a request grants the chopstick to one more try.
LEMMA GrantedAdded ==
  ASSUME Types, GrantInv, NEW p \in Phils, NEW k \in Tries, ReadAck(p, k)
  PROVE  /\ Granteds(p)' = Granteds(p) + 1
         /\ \A r \in Phils : r # p => Granteds(r)' = Granteds(r)
<1>1. /\ k \notin Granted(p)
      /\ neighbourChopstick' = [neighbourChopstick EXCEPT ![p][k] = TRUE]
  BY DEF ReadAck, GrantInv, Granted
<1>2. Granted(p)' = Granted(p) \cup {k}
  BY <1>1 DEF Granted, Types
<1>3. \A r \in Phils : r # p => Granted(r)' = Granted(r)
  BY <1>1 DEF Granted, Types
<1> QED BY <1>1, <1>2, <1>3, GrantedFinite, FS_AddElement DEF Granteds

\* All parts of the sum are natural numbers.
LEMMA GrantedsType ==
  ASSUME NEW p
  PROVE  Granteds(p) \in Nat /\ Granteds(p)' \in Nat
<1>1. \A S \in SUBSET Tries : Cardinality(S) \in Nat
  <2>1. IsFiniteSet(Tries)
    BY FS_Interval, DiningAssumption DEF Tries
  <2> QED BY <2>1, FS_Subset, FS_CardinalityType
<1>2. Granted(p) \in SUBSET Tries /\ Granted(p)' \in SUBSET Tries
  BY DEF Granted
<1> QED BY <1>1, <1>2 DEF Granteds

\* The sum of the parts.
Parts(q, b) ==
  chopstick[q] + One(HasLeft(q)) + acks[b] + Granteds(b) + One(HasRight(b)) + releases[q]

\* Every step moves a chopstick from one place to another, or loses it with a
\* packet.
LEMMA PartsStep ==
  ASSUME Types, Types', PhaseInv, GrantInv, [Next]_vars,
         NEW q \in Phils, NEW b \in Phils, b = borrower(q)
  PROVE  \/ Parts(q, b)' = Parts(q, b) /\ lost' = lost
         \/ Parts(q, b)' <= Parts(q, b) /\ lost' > 0
<1>0. /\ chopstick \in [Phils -> {0, 1}]
      /\ pc \in [Phils -> {"think", "wait", "got", "eat", "return", "back", "leave",
                         "asked", "left"}]
      /\ acks \in [Phils -> Nat] /\ releases \in [Phils -> Nat]
      /\ \A r \in Phils : neighbour(r) \in Phils /\ borrower(neighbour(r)) = r
      /\ neighbour(b) = q
      /\ Granteds(b) \in Nat /\ Granteds(b)' \in Nat /\ lost \in Nat
  BY RingFacts, GrantedsType, DiningAssumption DEF Types
<1> USE DEF Parts, HasLeft, HasRight, One, Goto, main, net
<1>1. ASSUME NEW p \in Phils, Main(p)
      PROVE  Parts(q, b)' = Parts(q, b) /\ lost' = lost
  <2>1. CASE TakeLeft(p)
    BY <1>0, <2>1, GrantedSame DEF TakeLeft
  <2>2. CASE GotBoth(p)
    <3>1. /\ pc[p] = "wait" /\ pc' = [pc EXCEPT ![p] = "got"]
          /\ UNCHANGED <<chopstick, acks, releases, lost>>
      BY <2>2 DEF GotBoth
    <3>2. /\ p = b => Granteds(b)' = Granteds(b) - 1
          /\ p # b => Granteds(b)' = Granteds(b)
      BY <2>2, GrantedTaken
    <3> QED BY <1>0, <3>1, <3>2
  <2>3. CASE EatingState(p)
    BY <1>0, <2>3, GrantedSame DEF EatingState
  <2>4. CASE Timeout(p)
    BY <1>0, <2>4, GrantedSame DEF Timeout
  <2>5. CASE ReturnRight(p)
    BY <1>0, <2>5, GrantedSame DEF ReturnRight
  <2>6. CASE ReturnLeft(p)
    BY <1>0, <2>6, GrantedSame DEF ReturnLeft
  <2>7. CASE ThinkingState(p)
    BY <1>0, <2>7, GrantedSame DEF ThinkingState
  <2>8. CASE AskToLeave(p)
    BY <1>0, <2>8, GrantedSame DEF AskToLeave
  <2>9. CASE LeaveTable(p)
    BY <1>0, <2>9, GrantedSame DEF LeaveTable
  <2> QED BY <1>1, <2>1, <2>2, <2>3, <2>4, <2>5, <2>6, <2>7, <2>8, <2>9 DEF Main
<1>2. ASSUME NEW p \in Phils, Listen(p)
      PROVE  Parts(q, b)' = Parts(q, b) /\ lost' = lost
  <2>1. CASE GiveStick(p)
    <3>1. /\ chopstick[p] = 1 /\ chopstick' = [chopstick EXCEPT ![p] = 0]
          /\ acks' = [acks EXCEPT ![borrower(p)] = @ + 1]
          /\ UNCHANGED <<pc, neighbourChopstick, releases, lost>>
      BY <2>1 DEF GiveStick
    <3>2. CASE p = q
      BY <1>0, <3>1, <3>2, GrantedSame
    <3>3. CASE p # q
      <4>1. borrower(p) # b /\ borrower(p) \in Phils
        BY <3>3, RingFacts
      <4> QED BY <1>0, <3>1, <3>3, <4>1, GrantedSame
    <3> QED BY <3>2, <3>3
  <2>2. CASE TimeoutStick(p)
    BY <1>0, <2>2, GrantedSame DEF TimeoutStick
  <2>3. CASE ReceiveStick(p)
    BY <1>0, <2>3, GrantedSame DEF ReceiveStick
  <2>4. CASE Excuse(p)
    BY <1>0, <2>4, GrantedSame DEF Excuse
  <2> QED BY <1>2, <2>1, <2>2, <2>3, <2>4 DEF Listen
<1>3. ASSUME NEW p \in Phils, NEW k \in Tries, Asking(p, k)
      PROVE  Parts(q, b)' = Parts(q, b) /\ lost' = lost
  <2>1. CASE SendRequest(p, k)
    BY <1>0, <2>1, GrantedSame DEF SendRequest
  <2>2. CASE ReadAck(p, k)
    <3>1. /\ acks[p] > 0 /\ acks' = [acks EXCEPT ![p] = @ - 1]
          /\ UNCHANGED <<chopstick, pc, releases, lost>>
      BY <2>2 DEF ReadAck
    <3>2. /\ p = b => Granteds(b)' = Granteds(b) + 1
          /\ p # b => Granteds(b)' = Granteds(b)
      BY <2>2, GrantedAdded
    <3> QED BY <1>0, <3>1, <3>2
  <2>3. CASE RightChopstickState(p, k)
    BY <1>0, <2>3, GrantedSame DEF RightChopstickState
  <2>4. CASE ReadFails(p, k)
    BY <1>0, <2>4, GrantedSame DEF ReadFails
  <2> QED BY <1>3, <2>1, <2>2, <2>3, <2>4 DEF Asking
<1>4. CASE Lose
  <2>1. acks'[b] <= acks[b] /\ releases'[q] <= releases[q] /\ lost' > 0
    BY <1>0, <1>4 DEF Lose
  <2>2. UNCHANGED <<chopstick, pc, neighbourChopstick>>
    BY <1>4 DEF Lose
  <2>3. acks'[b] \in Nat /\ releases'[q] \in Nat
    BY DEF Types
  <2>4. Granteds(b)' = Granteds(b)
    BY <2>2, GrantedSame
  <2> QED BY <1>0, <2>1, <2>2, <2>3, <2>4
<1>5. CASE UNCHANGED vars
  BY <1>0, <1>5, GrantedSame DEF vars
<1> QED BY <1>1, <1>2, <1>3, <1>4, <1>5 DEF Next

\* There is never more than one of each chopstick, and one while no packet is
\* lost.
LEMMA SticksStep ==
  ASSUME Types, Types', PhaseInv, GrantInv, SticksConserved, [Next]_vars
  PROVE  SticksConserved'
<1> SUFFICES ASSUME NEW q \in Phils
             PROVE  Copies(q)' <= 1 /\ (lost' = 0 => Copies(q)' = 1)
  BY DEF SticksConserved
<1>1. PICK b \in Phils : b = borrower(q)
  BY RingFacts
<1>2. Copies(q) = Parts(q, b)
  BY <1>1 DEF Copies, Parts, Granteds
<1>3. Copies(q)' = Parts(q, b)'
  BY <1>1 DEF Copies, Parts, Granteds
<1>4. Parts(q, b) \in Int /\ Parts(q, b)' \in Int /\ lost \in Nat /\ lost' \in Nat
  <2>1. /\ chopstick[q] \in Int /\ acks[b] \in Int /\ releases[q] \in Int
        /\ chopstick'[q] \in Int /\ acks'[b] \in Int /\ releases'[q] \in Int
        /\ lost \in Nat /\ lost' \in Nat
    BY DEF Types
  <2> QED BY <2>1, GrantedsType DEF Parts, One
<1>5. Copies(q) <= 1 /\ (lost = 0 => Copies(q) = 1)
  BY DEF SticksConserved
<1> QED BY <1>1, <1>2, <1>3, <1>4, <1>5, PartsStep

-----------------------------------------------------------------------------
\* The tries that have not sent their request yet.
Unsent(p) == {k \in Tries : asking[p][k] \in {"none", "start"}}

\* One request per try.
RequestInv ==
  \A p \in Phils : requests[neighbour(p)] + Cardinality(Unsent(p)) <= MaxTries

\* A request is made by a try that had not made one.
LEMMA UnsentStep ==
  ASSUME Types, GrantInv, [Next]_vars, NEW p \in Phils, NEW q \in Phils,
         q = neighbour(p)
  PROVE  \/ Unsent(p)' = Unsent(p) /\ requests'[q] <= requests[q]
         \/ \E k \in Unsent(p) : /\ Unsent(p)' = Unsent(p) \ {k}
                                 /\ requests'[q] <= requests[q] + 1
<1>0. /\ try \in [Phils -> 0 .. MaxTries] /\ requests \in [Phils -> Nat]
      /\ asking \in [Phils -> [Tries -> {"none", "start", "read", "got", "end"}]]
      /\ \A r \in Phils : neighbour(r) \in Phils /\ borrower(neighbour(r)) = r
  BY RingFacts DEF Types
<1>1. CASE UNCHANGED <<asking, requests>>
  BY <1>0, <1>1 DEF Unsent
<1>2. ASSUME NEW r \in Phils, TakeLeft(r)
      PROVE  Unsent(p)' = Unsent(p) /\ requests'[q] <= requests[q]
  <2>1. /\ asking' = [asking EXCEPT ![r][try[r] + 1] = "start"]
        /\ try[r] < MaxTries /\ requests' = requests
    BY <1>2 DEF TakeLeft, net
  <2>2. try[r] + 1 \in Tries /\ try[r] + 1 > try[r]
    BY <1>0, <2>1, DiningAssumption DEF Tries
  <2>3. asking[r][try[r] + 1] = "none"
    BY <2>2 DEF GrantInv
  <2>4. Unsent(p)' = Unsent(p)
    BY <1>0, <2>1, <2>2, <2>3 DEF Unsent
  <2> QED BY <1>0, <2>1, <2>4
<1>3. ASSUME NEW r \in Phils, GiveStick(r) \/ TimeoutStick(r)
      PROVE  Unsent(p)' = Unsent(p) /\ requests'[q] <= requests[q]
  <2>1. requests' = [requests EXCEPT ![r] = @ - 1] /\ asking' = asking
    BY <1>3 DEF GiveStick, TimeoutStick
  <2> QED BY <1>0, <2>1 DEF Unsent
<1>4. ASSUME NEW r \in Phils, NEW k \in Tries, SendRequest(r, k)
      PROVE  \/ Unsent(p)' = Unsent(p) /\ requests'[q] <= requests[q]
             \/ \E j \in Unsent(p) : /\ Unsent(p)' = Unsent(p) \ {j}
                                     /\ requests'[q] <= requests[q] + 1
  <2>1. /\ asking[r][k] = "start" /\ asking' = [asking EXCEPT ![r][k] = "read"]
        /\ \/ requests' = requests
           \/ requests' = [requests EXCEPT ![neighbour(r)] = @ + 1]
    BY <1>4 DEF SendRequest
  <2>2. CASE r = p
    <3>1. k \in Unsent(p) /\ Unsent(p)' = Unsent(p) \ {k}
      BY <1>0, <2>1, <2>2 DEF Unsent
    <3>2. requests'[q] <= requests[q] + 1
      BY <1>0, <2>1
    <3> QED BY <3>1, <3>2
  <2>3. CASE r # p
    <3>1. neighbour(r) # q
      BY <1>0, <2>3
    <3> QED BY <1>0, <2>1, <2>3, <3>1 DEF Unsent
  <2> QED BY <2>2, <2>3
<1>5. ASSUME NEW r \in Phils, NEW k \in Tries,
             ReadAck(r, k) \/ RightChopstickState(r, k) \/ ReadFails(r, k)
      PROVE  Unsent(p)' = Unsent(p) /\ requests'[q] <= requests[q]
  <2>1. PICK x \in {"got", "end"} :
          /\ asking[r][k] \in {"read", "got"}
          /\ asking' = [asking EXCEPT ![r][k] = x]
          /\ requests' = requests
    BY <1>5 DEF ReadAck, RightChopstickState, ReadFails, net
  <2>2. Unsent(p)' = Unsent(p)
    BY <1>0, <2>1 DEF Unsent
  <2> QED BY <1>0, <2>1, <2>2
<1> QED
  BY <1>1, <1>2, <1>3, <1>4, <1>5
  DEF Next, Main, Listen, Asking, GotBoth, EatingState, Timeout, ReturnRight, ReturnLeft,
      ThinkingState, AskToLeave, LeaveTable, ReceiveStick, Excuse, Lose, vars, net

\* One request per try, at every step.
LEMMA RequestStep ==
  ASSUME Types, Types', GrantInv, RequestInv, [Next]_vars
  PROVE  RequestInv'
<1> SUFFICES ASSUME NEW p \in Phils, NEW q \in Phils, q = neighbour(p)
             PROVE  requests'[q] + Cardinality(Unsent(p)') <= MaxTries
  BY RingFacts DEF RequestInv
<1>1. IsFiniteSet(Unsent(p)) /\ Cardinality(Unsent(p)) \in Nat
  <2>1. IsFiniteSet(Tries) /\ Unsent(p) \in SUBSET Tries
    BY FS_Interval, DiningAssumption DEF Tries, Unsent
  <2> QED BY <2>1, FS_Subset, FS_CardinalityType
<1>2. /\ requests[q] + Cardinality(Unsent(p)) <= MaxTries
      /\ requests[q] \in Nat /\ requests'[q] \in Nat /\ MaxTries \in Nat
  BY DiningAssumption DEF RequestInv, Types
<1>3. CASE Unsent(p)' = Unsent(p) /\ requests'[q] <= requests[q]
  BY <1>1, <1>2, <1>3
<1>4. ASSUME NEW k \in Unsent(p), Unsent(p)' = Unsent(p) \ {k},
             requests'[q] <= requests[q] + 1
      PROVE  requests'[q] + Cardinality(Unsent(p)') <= MaxTries
  <2>1. Cardinality(Unsent(p) \ {k}) = Cardinality(Unsent(p)) - 1
    BY <1>1, FS_RemoveElement
  <2> QED BY <1>1, <1>2, <1>4, <2>1
<1> QED BY <1>3, <1>4, UnsentStep

-----------------------------------------------------------------------------
\* The inductive invariant holds in every reachable state.
THEOREM DiningInvariance == Spec => [](Types /\ Inv /\ RequestInv)
<1>1. Init => Types /\ Inv /\ RequestInv
  <2> SUFFICES ASSUME Init PROVE Types /\ Inv /\ RequestInv
    OBVIOUS
  <2>1. Types /\ PhaseInv /\ GrantInv
    BY DiningAssumption, DiningUDPAssumption DEF Init, Types, PhaseInv, GrantInv, Tries
  <2>2. ExcuseInv
    BY RingFacts DEF Init, ExcuseInv
  <2>3. SticksConserved
    <3> SUFFICES ASSUME NEW q \in Phils PROVE Copies(q) = 1
      BY DEF SticksConserved
    <3>1. borrower(q) \in Phils
      BY RingFacts
    <3>2. Granted(borrower(q)) = {}
      BY <3>1 DEF Init, Granted
    <3>3. Cardinality(Granted(borrower(q))) = 0
      BY <3>2, FS_EmptySet
    <3> QED BY <3>1, <3>3 DEF Init, Copies, One, HasLeft, HasRight
  <2>4. RequestInv
    <3> SUFFICES ASSUME NEW p \in Phils
                 PROVE  requests[neighbour(p)] + Cardinality(Unsent(p)) <= MaxTries
      BY DEF RequestInv
    <3>1. Unsent(p) = Tries
      BY DEF Init, Unsent
    <3>2. Cardinality(Tries) = MaxTries
      BY FS_Interval, DiningAssumption DEF Tries
    <3>3. requests[neighbour(p)] = 0
      BY RingFacts DEF Init
    <3> QED BY <3>1, <3>2, <3>3, DiningAssumption
  <2> QED BY <2>1, <2>2, <2>3, <2>4 DEF Inv
<1>2. Types /\ Inv /\ RequestInv /\ [Next]_vars => (Types /\ Inv /\ RequestInv)'
  <2> SUFFICES ASSUME Types, Inv, RequestInv, [Next]_vars
               PROVE  Types' /\ Inv' /\ RequestInv'
    OBVIOUS
  <2>1. Types'
    BY TypesStep
  <2>2. PhaseInv' /\ GrantInv' /\ ExcuseInv' /\ SticksConserved'
    BY <2>1, PhaseStep, GrantStep, ExcuseStep, SticksStep DEF Inv
  <2>3. RequestInv'
    BY <2>1, RequestStep DEF Inv
  <2> QED BY <2>1, <2>2, <2>3 DEF Inv
<1> QED BY <1>1, <1>2, PTL DEF Spec

\* Every variable keeps its type and its bound: no more requests and answers
\* are on the way than there are tries.
THEOREM DiningTyping == Spec => []TypeOK
<1>1. Types /\ Inv /\ RequestInv => TypeOK
  <2> SUFFICES ASSUME Types, Inv, RequestInv PROVE TypeOK
    OBVIOUS
  <2>1. \A p \in Phils : Eaten[p] \in 0 .. n
    BY DiningAssumption DEF Types, Inv, PhaseInv
  <2>2. ASSUME NEW p \in Phils PROVE acks[p] \in 0 .. MaxTries
    <3>1. /\ Copies(neighbour(p)) <= 1 /\ borrower(neighbour(p)) = p
          /\ neighbour(p) \in Phils
      BY RingFacts DEF Inv, SticksConserved
    <3>2. /\ acks[p] \in Nat /\ chopstick[neighbour(p)] \in Nat
          /\ releases[neighbour(p)] \in Nat /\ MaxTries \in Nat \ {0}
      <4>1. MaxTries \in Nat \ {0}
        BY DiningAssumption
      <4>2. /\ chopstick \in [Phils -> {0, 1}] /\ acks \in [Phils -> Nat]
            /\ releases \in [Phils -> Nat]
        BY DEF Types
      <4> QED BY <3>1, <4>1, <4>2
    <3>3. acks[p] <= Copies(neighbour(p))
      BY <3>1, <3>2, GrantedFinite DEF Copies, One
    <3> QED BY <3>1, <3>2, <3>3, GrantedFinite DEF Copies, One
  <2>3. ASSUME NEW q \in Phils PROVE requests[q] \in 0 .. MaxTries
    <3>1. PICK p \in Phils : q = neighbour(p)
      BY RingFacts
    <3>2. IsFiniteSet(Tries) /\ Unsent(p) \in SUBSET Tries
      BY FS_Interval, DiningAssumption DEF Tries, Unsent
    <3>3. Cardinality(Unsent(p)) \in Nat
      BY <3>2, FS_Subset, FS_CardinalityType
    <3> QED BY <3>1, <3>3, DiningAssumption DEF RequestInv, Types
  <2> QED BY <2>1, <2>2, <2>3 DEF Types, TypeOK
<1> QED BY <1>1, DiningInvariance, PTL

\* Whatever times out, is asked for again, comes late or is lost: there is never
\* more than one of each chopstick, and while no packet was lost exactly one.
THEOREM DiningSticks == Spec => []SticksConserved
<1>1. Inv => SticksConserved
  BY DEF Inv
<1> QED BY <1>1, DiningInvariance, PTL

\* Two philosophers with a chopstick between them never eat at once, in a ring
\* of any size, nor do the variables reported with DaraLog ever say so before
\* one of them has begun to give its chopsticks back.
THEOREM DiningExclusion == Spec => []NeighboursExclude
<1>1. Types /\ Inv => NeighboursExclude
  <2> SUFFICES ASSUME Types, Inv, NEW p \in Phils, NEW q \in Phils, q = neighbour(p)
               PROVE  /\ ~ (pc[p] = "eat" /\ pc[q] = "eat")
                      /\ Eating[p] /\ Eating[q] =>
                           {pc[p], pc[q]} \cap {"return", "back"} # {}
    BY RingFacts DEF NeighboursExclude
  <2>1. ~ (HasRight(p) /\ HasLeft(q))
    <3>1. Copies(q) <= 1 /\ borrower(q) = p
      BY RingFacts DEF Inv, SticksConserved
    <3>2. chopstick[q] \in Nat /\ acks[p] \in Nat /\ releases[q] \in Nat
      BY DEF Types
    <3> QED BY <3>1, <3>2, GrantedFinite DEF Copies, One
  <2>2. \A r \in Phils : Eating[r] => pc[r] \in {"eat", "return", "back"}
    BY DEF Inv, PhaseInv
  <2> QED BY <2>1, <2>2 DEF HasLeft, HasRight
<1> QED BY <1>1, DiningInvariance, PTL

\* A philosopher takes its chopstick away for good only when the one who
\* borrows it has dined n times and asks for nothing any more.
THEOREM DiningLeaving == Spec => []LeavesWhenNotNeeded
<1>1. Inv => LeavesWhenNotNeeded
  <2> SUFFICES ASSUME Inv, NEW q \in Phils, pc[q] = "left"
               PROVE  Eaten[borrower(q)] = n /\ pc[borrower(q)] \in {"leave", "asked", "left"}
    BY DEF LeavesWhenNotNeeded
  <2>1. borrower(q) \in Phils /\ neighbour(borrower(q)) = q
    BY RingFacts
  <2>2. pc[borrower(q)] \in {"leave", "asked", "left"}
    BY <2>1 DEF Inv, ExcuseInv
  <2> QED BY <2>1, <2>2 DEF Inv, PhaseInv
<1> QED BY <1>1, DiningInvariance, PTL

-----------------------------------------------------------------------------
(***************************************************************************)
(* DiningLocal.                                                            *)
(***************************************************************************)
\* A channel is closed only after its owner has announced that he is done.
CloseInv ==
  \A p \in Phils : p \in closer \/ closed[p] => pc[p] = "end"

\* Who has a chopstick, and who has none, one philosopher at a time.
HolderInv ==
  /\ \A p \in Phils :
       /\ HasOwn(p) => chopstick[p] = 0
       /\ HasNeighbors(p) => chopstick[neighbor(p)] = 0 /\ ~ HasOwn(neighbor(p))
  /\ \A q \in Phils :
       chopstick[q] = 0 =>
         HasOwn(q) \/ \E p \in Phils : neighbor(p) = q /\ HasNeighbors(p)

LocalInv == (announced # -1 => CloseInv /\ HolderInv) /\ PanicOnReturn

-----------------------------------------------------------------------------
\* The philosophers sit in a circle of two or more.
LEMMA NeighborFacts ==
  /\ \A p \in Phils : neighbor(p) \in Phils /\ neighbor(p) # p
  /\ \A p, q \in Phils : neighbor(p) = neighbor(q) => p = q
BY DiningAssumption DEF Phils, neighbor

\* Every step keeps the types.
LEMMA LocalTypeStep ==
  ASSUME LocalTypeOK, [LocalNext]_localVars
  PROVE  LocalTypeOK'
<1> USE DiningAssumption DEF LocalTypeOK, Move, Running
<1>1. ASSUME NEW q \in Phils, Receive(q)
      PROVE  chopstick' \in [Phils -> 0 .. 1]
  BY <1>1 DEF Receive
<1>2. ASSUME NEW q \in Phils, Send(q), Running
      PROVE  chopstick' \in [Phils -> 0 .. 1] /\ announced' \in -1 .. N
  BY <1>2 DEF Send
<1>3. ASSUME NEW p \in Phils, dine(p) \/ Close(p)
      PROVE  LocalTypeOK'
  <2>1. CASE getChopsticks(p)
    BY <2>1 DEF getChopsticks
  <2>2. CASE TakeOwn(p)
    BY <1>1, <2>2 DEF TakeOwn
  <2>3. CASE TakeNeighbors(p)
    BY <1>1, <2>3, NeighborFacts DEF TakeNeighbors
  <2>4. CASE GiveUp(p)
    BY <1>2, <2>4 DEF GiveUp
  <2>5. CASE ReturnOwn(p)
    BY <1>2, <2>5 DEF ReturnOwn
  <2>6. CASE ReturnNeighbors(p)
    BY <1>2, <2>6, NeighborFacts DEF ReturnNeighbors
  <2>7. CASE Announce(p)
    BY <2>7 DEF Announce
  <2>8. CASE Close(p)
    BY <2>8 DEF Close
  <2> QED BY <1>3, <2>1, <2>2, <2>3, <2>4, <2>5, <2>6, <2>7, <2>8 DEF dine
<1>4. CASE UNCHANGED localVars
  BY <1>4 DEF localVars
<1> QED BY <1>3, <1>4 DEF LocalNext

\* A send on a channel that its owner still uses, or that is not closed,
\* succeeds; the program panics on no other send.
LEMMA SendFacts ==
  ASSUME LocalTypeOK, NEW q \in Phils, Send(q), announced # -1
  PROVE  /\ announced' # -1 => /\ ~ closed[q] /\ announced' = announced
                          /\ chopstick' = [chopstick EXCEPT ![q] = 1]
         /\ announced' = -1 => closed[q]
BY DEF Send

\* Every step keeps the invariant: a channel is received from only when there
\* is a chopstick in it, and sent to only by the one who has it.
LEMMA LocalInvStep ==
  ASSUME LocalTypeOK, LocalInv, [LocalNext]_localVars
  PROVE  LocalInv'
<1>0. /\ chopstick \in [Phils -> 0 .. 1] /\ closed \in [Phils -> BOOLEAN]
      /\ pc \in [Phils -> {"think", "own", "select", "eat", "return",
                           "announce", "end"}]
  BY DEF LocalTypeOK
<1>1. ASSUME NEW p \in Phils, dine(p) \/ Close(p)
      PROVE  LocalInv'
  <2>0. /\ announced \in 0 .. N - 1 /\ announced # -1 /\ CloseInv /\ HolderInv
        /\ neighbor(p) \in Phils /\ neighbor(p) # p
        /\ \A q \in Phils : neighbor(q) = neighbor(p) => q = p
    <3>1. announced \in 0 .. N - 1
      BY <1>1 DEF dine, Close, getChopsticks, TakeOwn, TakeNeighbors, GiveUp,
                  ReturnOwn, ReturnNeighbors, Announce, Move, Running
    <3> QED BY <3>1, NeighborFacts DEF LocalInv
  <2> USE DEF HasOwn, HasNeighbors, Move
  <2>1. CASE getChopsticks(p)
    BY <1>0, <2>0, <2>1 DEF getChopsticks, LocalInv, CloseInv, HolderInv, PanicOnReturn
  <2>2. CASE TakeOwn(p)
    <3>1. pc[p] = "own" /\ pc' = [pc EXCEPT ![p] = "select"]
      BY <2>2 DEF TakeOwn
    <3>2. chopstick[p] = 1 /\ chopstick' = [chopstick EXCEPT ![p] = 0]
      BY <2>0, <2>2, <3>1 DEF TakeOwn, Receive, CloseInv
    <3>3. UNCHANGED <<closed, closer, announced>>
      BY <2>2 DEF TakeOwn
    <3>4. HolderInv'
      BY <1>0, <2>0, <3>1, <3>2, NeighborFacts DEF HolderInv
    <3>5. CloseInv'
      BY <1>0, <2>0, <3>1, <3>3 DEF CloseInv
    <3> QED BY <2>0, <3>3, <3>4, <3>5 DEF LocalInv, CloseInv, PanicOnReturn
  <2>3. CASE TakeNeighbors(p)
    <3>1. pc[p] = "select" /\ pc' = [pc EXCEPT ![p] = "eat"]
      BY <2>3 DEF TakeNeighbors
    <3>2. /\ chopstick[neighbor(p)] = 1
          /\ chopstick' = [chopstick EXCEPT ![neighbor(p)] = 0]
      <4>1. closed[neighbor(p)] => ~ HasOwn(neighbor(p))
        BY <2>0 DEF CloseInv
      <4>2. closed[neighbor(p)] => chopstick[neighbor(p)] # 0
        BY <2>0, <3>1, <4>1 DEF HolderInv
      <4> QED BY <1>0, <2>0, <2>3, <4>2 DEF TakeNeighbors, Receive
    <3>3. UNCHANGED <<closed, closer, announced>>
      BY <2>3 DEF TakeNeighbors
    <3>4. HolderInv'
      BY <1>0, <2>0, <3>1, <3>2, NeighborFacts DEF HolderInv
    <3>5. CloseInv'
      BY <1>0, <2>0, <3>1, <3>3 DEF CloseInv
    <3> QED BY <2>0, <3>3, <3>4, <3>5 DEF LocalInv, CloseInv, PanicOnReturn
  <2>4. CASE GiveUp(p) \/ ReturnOwn(p)
    <3>1. PICK to \in {"think", "return"} :
            /\ pc' = [pc EXCEPT ![p] = to]
            /\ pc[p] = IF to = "think" THEN "select" ELSE "eat"
      BY <2>4 DEF GiveUp, ReturnOwn
    <3>2. ~ closed[p] /\ Send(p) /\ UNCHANGED <<closed, closer>>
      BY <2>0, <2>4 DEF GiveUp, ReturnOwn, CloseInv
    <3>3. UNCHANGED announced /\ chopstick' = [chopstick EXCEPT ![p] = 1]
      BY <2>0, <3>2, SendFacts
    <3>4. HolderInv'
      BY <1>0, <2>0, <3>1, <3>3, NeighborFacts DEF HolderInv
    <3>5. CloseInv'
      BY <1>0, <2>0, <3>1, <3>2 DEF CloseInv
    <3> QED BY <2>0, <3>3, <3>4, <3>5 DEF LocalInv, CloseInv, PanicOnReturn
  <2>5. CASE ReturnNeighbors(p)
    <3>1. /\ pc[p] = "return" /\ pc' = [pc EXCEPT ![p] = "announce"]
          /\ Send(neighbor(p)) /\ UNCHANGED <<closed, closer>>
      BY <2>5 DEF ReturnNeighbors
    <3>2. CASE announced' = -1
      <4>1. closed[neighbor(p)]
        BY <2>0, <3>1, <3>2, SendFacts
      <4>2. pc'[p] = "announce" /\ closed'[neighbor(p)]
        BY <1>0, <3>1, <4>1
      <4>3. \A q \in Phils : closed'[q] => pc'[q] = "end"
        BY <1>0, <2>0, <3>1 DEF CloseInv
      <4> QED BY <3>2, <4>2, <4>3 DEF LocalInv, PanicOnReturn
    <3>3. CASE announced' # -1
      <4>1. chopstick' = [chopstick EXCEPT ![neighbor(p)] = 1]
        BY <2>0, <3>1, <3>3, SendFacts
      <4>2. HolderInv'
        BY <1>0, <2>0, <3>1, <4>1, NeighborFacts DEF HolderInv
      <4>3. CloseInv'
        BY <1>0, <2>0, <3>1 DEF CloseInv
      <4> QED BY <3>3, <4>2, <4>3 DEF LocalInv, CloseInv, PanicOnReturn
    <3> QED BY <3>2, <3>3
  <2>6. CASE Announce(p)
    BY <1>0, <2>0, <2>6 DEF Announce, LocalInv, CloseInv, HolderInv, PanicOnReturn
  <2>7. CASE Close(p)
    BY <1>0, <2>0, <2>7 DEF Close, LocalInv, CloseInv, HolderInv, PanicOnReturn
  <2> QED BY <1>1, <2>1, <2>2, <2>3, <2>4, <2>5, <2>6, <2>7 DEF dine
<1>2. CASE UNCHANGED localVars
  BY <1>2 DEF localVars, LocalInv, CloseInv, HolderInv, HasOwn, HasNeighbors, PanicOnReturn
<1> QED BY <1>1, <1>2 DEF LocalNext

-----------------------------------------------------------------------------
\* Every variable keeps its type while the philosophers dine.
THEOREM DiningLocalTyping == LocalSpec => []LocalTypeOK
<1>1. LocalInit => LocalTypeOK
  BY DiningAssumption DEF LocalInit, LocalTypeOK
<1> QED BY <1>1, LocalTypeStep, PTL DEF LocalSpec

\* The inductive invariant holds in every reachable state.
THEOREM DiningLocalInvariance == LocalSpec => []LocalInv
<1>1. LocalInit => LocalInv
  BY DEF LocalInit, LocalInv, CloseInv, HolderInv, HasOwn, HasNeighbors, PanicOnReturn
<1> QED BY <1>1, LocalInvStep, DiningLocalTyping, PTL DEF LocalSpec

\* No chopstick is lost, doubled or in two hands, in a circle of any size and
\* although its channel is closed while others still use it.
THEOREM DiningLocalSticks == LocalSpec => []LocalSticksConserved
<1>1. LocalTypeOK /\ LocalInv => LocalSticksConserved
  <2> SUFFICES ASSUME LocalTypeOK, HolderInv, NEW q \in Phils
               PROVE  \/ chopstick[q] = 1 /\ Users(q) = {}
                      \/ chopstick[q] = 0 /\ \E p \in Phils : Users(q) = {p}
    BY DEF LocalInv, LocalSticksConserved
  <2>1. CASE chopstick[q] = 1
    BY <2>1 DEF HolderInv, Users
  <2>2. CASE chopstick[q] = 0 /\ HasOwn(q)
    <3>1. Users(q) = {q}
      BY <2>2 DEF HolderInv, Users
    <3> QED BY <2>2, <3>1
  <2>3. CASE chopstick[q] = 0 /\ ~ HasOwn(q)
    <3>1. PICK p \in Phils : neighbor(p) = q /\ HasNeighbors(p)
      BY <2>3 DEF HolderInv
    <3>2. Users(q) = {p}
      BY <2>3, <3>1, NeighborFacts DEF Users
    <3> QED BY <2>3, <3>2
  <2> QED BY <2>1, <2>2, <2>3 DEF LocalTypeOK
<1> QED BY <1>1, DiningLocalTyping, DiningLocalInvariance, PTL

\* If the program panics, it is because a philosopher gives a chopstick back
\* to a neighbour who is done, whatever the number of philosophers: never on a
\* philosopher's own channel.
THEOREM DiningLocalPanic == LocalSpec => []PanicOnReturn
<1>1. LocalInv => PanicOnReturn
  BY DEF LocalInv
<1> QED BY <1>1, DiningLocalInvariance, PTL
=============================================================================
