--------------------------- MODULE CoverageProofs ---------------------------
(***************************************************************************)
(* Proofs about Coverage, for every number of processes and actions, every *)
(* set of blocks and every seed.                                           *)
(***************************************************************************)
EXTENDS Coverage, FiniteSetTheorems, WellFoundedInduction, TLAPS

(***************************************************************************)
(* Induction, with a set of numbers in the place of a predicate.           *)
(***************************************************************************)
\* A set with 0 and with the successor of each of its numbers has all of them.
LEMMA Induction ==
  ASSUME NEW S, 0 \in S, \A n \in Nat : n \in S => n + 1 \in S
  PROVE  \A n \in Nat : n \in S
<1> DEFINE T == Nat \ S
<1> SUFFICES ASSUME T # {} PROVE FALSE
  OBVIOUS
<1>1. PICK x \in T : \A y \in T : ~ (<<y, x>> \in OpToRel(<, Nat))
  BY NatLessThanWellFounded, WFMin
<1>2. \A y \in T : ~ (y < x)
  BY <1>1 DEF OpToRel
<1>3. x # 0 /\ x - 1 \in Nat
  OBVIOUS
<1>4. x - 1 \in S
  BY <1>2, <1>3
<1> QED BY <1>3, <1>4

-----------------------------------------------------------------------------
(***************************************************************************)
(* Sums over a finite set: SumFunction takes the elements out one by one,  *)
(* in an order it does not tell, and the order does not matter.            *)
(***************************************************************************)
Pick(s) == CHOOSE x \in s : TRUE

\* What is left of the sum when x is taken out of T.
Takes(g, f, T) == \A x \in T : g[T] = f[x] + g[T \ {x}]

Small(S, n) == {s \in SUBSET S : Cardinality(s) <= n}

AddsUp(g, f, D) ==
  g = [s \in D |-> IF s = {} THEN 0 ELSE f[Pick(s)] + g[s \ {Pick(s)}]]

LEMMA SmallFacts ==
  ASSUME NEW S, IsFiniteSet(S)
  PROVE  /\ \A s \in Small(S, 0) : s = {}
         /\ \A s \in SUBSET S : Cardinality(s) \in Nat /\ s \in Small(S, Cardinality(s))
         /\ \A n \in Nat : \A s \in Small(S, n) :
              s \in SUBSET S /\ s \in Small(S, n + 1)
<1>1. \A s \in SUBSET S : IsFiniteSet(s) /\ Cardinality(s) \in Nat
  BY FS_Subset, FS_CardinalityType
<1>2. \A s \in Small(S, 0) : s = {}
  BY <1>1, FS_EmptySet DEF Small
<1> QED BY <1>1, <1>2 DEF Small

LEMMA SmallNext ==
  ASSUME NEW S, IsFiniteSet(S), NEW n \in Nat, NEW s \in Small(S, n + 1)
  PROVE  /\ s \in SUBSET S
         /\ s # {} => Pick(s) \in s
         /\ \A x \in s : s \ {x} \in Small(S, n)
<1>1. s \in SUBSET S /\ IsFiniteSet(s) /\ Cardinality(s) \in Nat /\ Cardinality(s) <= n + 1
  BY FS_Subset, FS_CardinalityType DEF Small
<1>2. s # {} => Pick(s) \in s
  BY DEF Pick
<1>3. ASSUME NEW x \in s
      PROVE  s \ {x} \in Small(S, n)
  <2>1. Cardinality(s \ {x}) = Cardinality(s) - 1
    BY <1>1, FS_RemoveElement
  <2> QED BY <1>1, <2>1 DEF Small
<1> QED BY <1>1, <1>2, <1>3

\* The recursion that MapThenFoldSet stands for has a solution.
LEMMA SumDefined ==
  ASSUME NEW S, IsFiniteSet(S), NEW f \in [S -> Nat]
  PROVE  \E g \in [SUBSET S -> Nat] : AddsUp(g, f, SUBSET S)
<1> DEFINE Good == {n \in Nat : \E g \in [Small(S, n) -> Nat] : AddsUp(g, f, Small(S, n))}
<1>1. 0 \in Good
  <2> DEFINE g == [s \in Small(S, 0) |-> 0]
  <2>1. \A s \in Small(S, 0) : s = {}
    BY SmallFacts
  <2>2. AddsUp(g, f, Small(S, 0))
    BY <2>1 DEF AddsUp
  <2>3. g \in [Small(S, 0) -> Nat]
    OBVIOUS
  <2> QED BY <2>2, <2>3
<1>2. ASSUME NEW n \in Nat, n \in Good
      PROVE  n + 1 \in Good
  <2>1. PICK g \in [Small(S, n) -> Nat] : AddsUp(g, f, Small(S, n))
    BY <1>2
  <2> DEFINE D == Small(S, n + 1)
             h == [s \in D |-> IF s = {} THEN 0 ELSE f[Pick(s)] + g[s \ {Pick(s)}]]
  <2>2. ASSUME NEW s \in D, s # {}
        PROVE  /\ Pick(s) \in S /\ s \ {Pick(s)} \in Small(S, n)
               /\ h[s \ {Pick(s)}] = g[s \ {Pick(s)}]
    <3> DEFINE t == s \ {Pick(s)}
    <3>1. Pick(s) \in s /\ s \in SUBSET S /\ t \in Small(S, n)
      BY <2>2, SmallNext
    <3>2. t \in D
      BY <3>1, SmallFacts
    <3>3. g[t] = IF t = {} THEN 0 ELSE f[Pick(t)] + g[t \ {Pick(t)}]
      BY <2>1, <3>1 DEF AddsUp
    <3>4. h[t] = g[t]
      BY <3>2, <3>3
    <3> QED BY <3>1, <3>4
  <2>3. h \in [D -> Nat]
    <3>1. \A s \in D : s # {} => f[Pick(s)] \in Nat /\ g[s \ {Pick(s)}] \in Nat
      BY <2>2
    <3> QED BY <3>1
  <2>4. AddsUp(h, f, D)
    BY <2>2 DEF AddsUp
  <2> HIDE DEF h
  <2> QED BY <2>3, <2>4
<1>3. \A n \in Nat : n \in Good
  <2> HIDE DEF Good
  <2> QED BY <1>1, <1>2, Induction
<1>4. Cardinality(S) \in Nat
  BY FS_CardinalityType
<1>5. Small(S, Cardinality(S)) = SUBSET S
  BY <1>4, FS_Subset DEF Small
<1> QED BY <1>3, <1>4, <1>5

\* Any element may be taken out first.
LEMMA SumAnyOrder ==
  ASSUME NEW S, IsFiniteSet(S), NEW f \in [S -> Nat],
         NEW g \in [SUBSET S -> Nat], AddsUp(g, f, SUBSET S)
  PROVE  \A T \in SUBSET S : Takes(g, f, T)
<1> DEFINE Good == {n \in Nat : \A T \in Small(S, n) : Takes(g, f, T)}
<1>1. 0 \in Good
  BY SmallFacts DEF Takes
<1>2. ASSUME NEW n \in Nat, n \in Good
      PROVE  n + 1 \in Good
  <2> SUFFICES ASSUME NEW T \in Small(S, n + 1), NEW x \in T
               PROVE  g[T] = f[x] + g[T \ {x}]
    BY DEF Takes
  <2> DEFINE y == Pick(T)
  <2>1. /\ T \in SUBSET S /\ y \in T
        /\ T \ {x} \in Small(S, n) /\ T \ {y} \in Small(S, n)
    BY SmallNext
  <2>2. g[T] = f[y] + g[T \ {y}]
    BY <2>1 DEF AddsUp
  <2>3. CASE x = y
    BY <2>2, <2>3
  <2>4. CASE x # y
    <3>1. g[T \ {y}] = f[x] + g[(T \ {y}) \ {x}]
      BY <1>2, <2>1, <2>4 DEF Takes
    <3>2. g[T \ {x}] = f[y] + g[(T \ {x}) \ {y}]
      BY <1>2, <2>1, <2>4 DEF Takes
    <3>3. (T \ {y}) \ {x} = (T \ {x}) \ {y}
      OBVIOUS
    <3> DEFINE a == f[x]
               b == f[y]
               r == g[(T \ {x}) \ {y}]
    <3>4. a \in Nat /\ b \in Nat /\ r \in Nat
      <4>1. x \in S /\ y \in S /\ (T \ {x}) \ {y} \in SUBSET S
        BY <2>1
      <4> QED BY <4>1
    <3>5. g[T] = b + (a + r) /\ g[T \ {x}] = b + r
      BY <2>2, <3>1, <3>2, <3>3
    <3>6. b + (a + r) = a + (b + r)
      <4> HIDE DEF a, b, r
      <4> QED BY <3>4
    <3> QED BY <3>5, <3>6
  <2> QED BY <2>3, <2>4
<1>3. \A n \in Nat : n \in Good
  <2> HIDE DEF Good
  <2> QED BY <1>1, <1>2, Induction
<1>4. ASSUME NEW T \in SUBSET S
      PROVE  Cardinality(T) \in Nat /\ T \in Small(S, Cardinality(T))
  BY SmallFacts
<1> QED BY <1>3, <1>4

\* SumFunction is the last of a family of sums, one for every part of the set.
LEMMA SumFacts ==
  ASSUME NEW S, IsFiniteSet(S), NEW f \in [S -> Nat]
  PROVE  \E g \in [SUBSET S -> Nat] :
           SumFunction(f) = g[S] /\ g[{}] = 0 /\ \A T \in SUBSET S : Takes(g, f, T)
<1> DEFINE g == CHOOSE h : AddsUp(h, f, SUBSET S)
<1>1. SumFunction(f) = g[S]
  <2>1. DOMAIN f = S
    OBVIOUS
  <2> QED
    BY <2>1 DEF SumFunction, SumFunctionOnSet, FoldFunctionOnSet, MapThenFoldSet, AddsUp, Pick
<1>2. PICK h \in [SUBSET S -> Nat] : AddsUp(h, f, SUBSET S)
  BY SumDefined
<1>3. AddsUp(g, f, SUBSET S)
  BY <1>2
<1>4. g \in [SUBSET S -> Nat]
  <2> DEFINE Good == {n \in Nat : \A T \in Small(S, n) : g[T] \in Nat}
  <2> HIDE DEF g
  <2>1. 0 \in Good
    BY <1>3, SmallFacts DEF AddsUp
  <2>2. ASSUME NEW n \in Nat, n \in Good
        PROVE  n + 1 \in Good
    <3> SUFFICES ASSUME NEW T \in Small(S, n + 1) PROVE g[T] \in Nat
      OBVIOUS
    <3>1. T \in SUBSET S
      BY SmallNext
    <3>2. CASE T = {}
      BY <1>3, <3>1, <3>2 DEF AddsUp
    <3>3. CASE T # {}
      <4>1. Pick(T) \in T /\ T \ {Pick(T)} \in Small(S, n)
        BY <3>3, SmallNext
      <4>2. g[T] = f[Pick(T)] + g[T \ {Pick(T)}]
        BY <1>3, <3>1, <3>3 DEF AddsUp
      <4> QED BY <2>2, <3>1, <4>1, <4>2
    <3> QED BY <3>2, <3>3
  <2>3. \A n \in Nat : n \in Good
    <3> HIDE DEF Good
    <3> QED BY <2>1, <2>2, Induction
  <2>4. ASSUME NEW T \in SUBSET S PROVE g[T] \in Nat
    <3>1. Cardinality(T) \in Nat /\ T \in Small(S, Cardinality(T))
      BY SmallFacts
    <3> QED BY <2>3, <3>1
  <2> QED BY <1>3, <2>4 DEF AddsUp
<1>5. g[{}] = 0
  BY <1>3 DEF AddsUp
<1> HIDE DEF g
<1> QED BY <1>1, <1>3, <1>4, <1>5, SumAnyOrder

-----------------------------------------------------------------------------
(***************************************************************************)
(* The actions, and the coverage of each.                                  *)
(***************************************************************************)
Actions == Threads \cup Timers

\* What actionStats may be.
Stats == UNION {[D -> CovStats] : D \in SUBSET Actions}

\* A thread or timer belongs to a process, and neither NoAction nor Restart is
\* one of them.
LEMMA ActionFacts ==
  /\ \A a \in Actions : ProcID(a) \in Procs
  /\ \A p \in Procs, g \in GoRoutines : ProcThread(p, g) \in Threads
  /\ \A p \in TimerProcs : ProcTimer(p) \in Actions /\ ProcID(ProcTimer(p)) = p
BY CoverageAssumption DEF Actions, Threads, Timers, ProcID, ProcThread, ProcTimer

LEMMA BatchFacts == Batches \subseteq CovStats /\ NoCov \in CovStats
BY CoverageAssumption DEF Batches, CovStats, NoCov

LEMMA UnionFacts ==
  ASSUME NEW x \in CovStats, NEW y \in CovStats
  PROVE  /\ CoverageUnion(x, y) \in CovStats
         /\ Covered(CoverageUnion(x, y)) = Covered(x) \cup Covered(y)
         /\ \A b \in Blocks : CoverageUnion(x, y)[b] = x[b] + y[b]
                              /\ x[b] \in Nat /\ y[b] \in Nat
<1>1. \A b \in Blocks : x[b] \in Nat /\ y[b] \in Nat
  BY DEF CovStats
<1> QED BY <1>1 DEF CovStats, CoverageUnion, Covered

\* Learning keeps everything but the entry of the action, and adds to that.
LEMMA LearnFacts ==
  ASSUME NEW old \in Stats, NEW act \in Actions, NEW part \in CovStats
  PROVE  /\ Learn(old, act, part) \in Stats
         /\ DOMAIN Learn(old, act, part) = DOMAIN old \cup {act}
         /\ \A y \in DOMAIN old : y # act => Learn(old, act, part)[y] = old[y]
         /\ Learn(old, act, part)[act]
              = IF act \in DOMAIN old THEN CoverageUnion(old[act], part) ELSE part
<1> DEFINE new == Learn(old, act, part)
<1>1. PICK D \in SUBSET Actions : old \in [D -> CovStats]
  BY DEF Stats
<1>2. \A y \in D : old[y] \in CovStats /\ CoverageUnion(old[y], part) \in CovStats
  BY <1>1, UnionFacts
<1>3. new \in [D \cup {act} -> CovStats]
  BY <1>1, <1>2 DEF Learn
<1>4. new \in Stats
  BY <1>3 DEF Stats
<1> QED BY <1>1, <1>4 DEF Learn

\* The statistics of an action, or their absence, and what it covered in all.
Agree(stats, a, b, n) == IF a \in DOMAIN stats THEN stats[a][b] = n ELSE n = 0

\* Learning keeps that agreement.
LEMMA LearnAgrees ==
  ASSUME NEW stats \in Stats, NEW x \in Actions, NEW cov \in CovStats,
         NEW a, NEW b \in Blocks, NEW n \in Nat, Agree(stats, a, b, n)
  PROVE  /\ Learn(stats, x, cov) \in Stats
         /\ Agree(Learn(stats, x, cov), a, b, IF x = a THEN n + cov[b] ELSE n)
<1> SUFFICES ASSUME NEW new, new = Learn(stats, x, cov)
             PROVE  new \in Stats /\ Agree(new, a, b, IF x = a THEN n + cov[b] ELSE n)
  OBVIOUS
<1>1. /\ new \in Stats
      /\ DOMAIN new = DOMAIN stats \cup {x}
      /\ \A y \in DOMAIN stats : y # x => new[y] = stats[y]
      /\ new[x] = IF x \in DOMAIN stats THEN CoverageUnion(stats[x], cov) ELSE cov
  BY LearnFacts
<1>2. CASE x # a
  BY <1>1, <1>2 DEF Agree
<1>3. CASE x = a /\ a \in DOMAIN stats
  <2>1. stats[a] \in CovStats
    BY <1>3 DEF Stats
  <2>2. new[a] = CoverageUnion(stats[a], cov)
    BY <1>1, <1>3
  <2>3. CoverageUnion(stats[a], cov)[b] = stats[a][b] + cov[b]
    BY <2>1, UnionFacts
  <2> QED BY <1>1, <1>3, <2>2, <2>3 DEF Agree
<1>4. CASE x = a /\ a \notin DOMAIN stats
  <2>1. cov[b] \in Nat
    BY DEF CovStats
  <2>2. new[a] = cov /\ n = 0 /\ a \in DOMAIN new
    BY <1>1, <1>4 DEF Agree
  <2> QED BY <1>1, <1>4, <2>1, <2>2 DEF Agree
<1> QED BY <1>2, <1>3, <1>4

-----------------------------------------------------------------------------
(***************************************************************************)
(* A search.                                                               *)
(***************************************************************************)
SearchFrom(all, threads, passed, n, s) ==
  s = [k \in 0 .. n |->
        IF k = 0 THEN [all |-> all, best |-> CalcFullCoverageScore(all, Objective[strategy]),
                       improved |-> FALSE]
        ELSE IF threads[k] \in passed THEN s[k - 1] ELSE Consider(s[k - 1], threads[k])]

\* The recursion has a solution.
LEMMA SearchDefined ==
  ASSUME NEW all, NEW threads \in Seq(Threads), NEW passed
  PROVE  SearchFrom(all, threads, passed, Len(threads), Search(all, threads, passed))
<1> DEFINE Good == {n \in Nat : \E s : SearchFrom(all, threads, passed, n, s)}
<1>1. 0 \in Good
  <2> DEFINE s == [k \in 0 .. 0 |->
                    [all |-> all, best |-> CalcFullCoverageScore(all, Objective[strategy]),
                     improved |-> FALSE]]
  <2>1. SearchFrom(all, threads, passed, 0, s)
    BY DEF SearchFrom
  <2> QED BY <2>1
<1>2. ASSUME NEW n \in Nat, n \in Good
      PROVE  n + 1 \in Good
  <2>1. PICK s : SearchFrom(all, threads, passed, n, s)
    BY <1>2
  <2> DEFINE r == [k \in 0 .. n + 1 |->
                    IF k <= n THEN s[k]
                    ELSE IF threads[k] \in passed THEN s[k - 1]
                         ELSE Consider(s[k - 1], threads[k])]
  <2>2. /\ \A k \in 0 .. n : r[k] = s[k]
        /\ r[n + 1] = IF threads[n + 1] \in passed THEN s[n] ELSE Consider(s[n], threads[n + 1])
    OBVIOUS
  <2>3. r = [k \in 0 .. n + 1 |-> r[k]]
    OBVIOUS
  <2> HIDE DEF r
  <2>4. ASSUME NEW k \in 0 .. n + 1
        PROVE  r[k] =
          IF k = 0 THEN [all |-> all, best |-> CalcFullCoverageScore(all, Objective[strategy]),
                         improved |-> FALSE]
          ELSE IF threads[k] \in passed THEN r[k - 1] ELSE Consider(r[k - 1], threads[k])
    <3>1. CASE k = n + 1
      <4>1. k # 0 /\ k - 1 = n /\ r[k - 1] = s[n]
        BY <2>2, <3>1
      <4> QED BY <2>2, <3>1, <4>1
    <3>2. CASE k # n + 1
      <4>1. k \in 0 .. n /\ r[k] = s[k]
        BY <2>2, <3>2
      <4>2. s[k] =
          IF k = 0 THEN [all |-> all, best |-> CalcFullCoverageScore(all, Objective[strategy]),
                         improved |-> FALSE]
          ELSE IF threads[k] \in passed THEN s[k - 1] ELSE Consider(s[k - 1], threads[k])
        BY <2>1, <4>1 DEF SearchFrom
      <4>3. k # 0 => r[k - 1] = s[k - 1]
        <5>1. k # 0 => k - 1 \in 0 .. n
          BY <4>1
        <5> QED BY <2>2, <5>1
      <4> QED BY <4>1, <4>2, <4>3
    <3> QED BY <3>1, <3>2
  <2>6. SearchFrom(all, threads, passed, n + 1, r)
    BY <2>3, <2>4 DEF SearchFrom
  <2> QED BY <2>6
<1>3. \A n \in Nat : n \in Good
  <2> HIDE DEF Good
  <2> QED BY <1>1, <1>2, Induction
<1>4. \E s : SearchFrom(all, threads, passed, Len(threads), s)
  BY <1>3
<1>5. Search(all, threads, passed)
        = CHOOSE s : SearchFrom(all, threads, passed, Len(threads), s)
  BY DEF Search, SearchFrom
<1> QED BY <1>4, <1>5

KnownOn(p) ==
  UNION {Covered(actionStats[a]) : a \in {x \in DOMAIN actionStats : ProcID(x) = p}}

\* Estimates add to the coverage they are made from, and only what is known of
\* actions of the same process.
Within(all, from) ==
  /\ all \in [Procs -> CovStats]
  /\ \A p \in Procs : /\ \A b \in Blocks : all[p][b] >= from[p][b]
                      /\ Covered(all[p]) \subseteq Covered(from[p]) \cup KnownOn(p)

LEMMA EstimateWithin ==
  ASSUME actionStats \in Stats, NEW from \in [Procs -> CovStats], NEW all, Within(all, from),
         NEW t \in DOMAIN actionStats
  PROVE  Within(Estimated(all, actionStats[t], ProcID(t)), from)
<1> DEFINE cov == actionStats[t]
           q   == ProcID(t)
           new == Estimated(all, cov, q)
<1>1. cov \in CovStats /\ t \in Actions /\ q \in Procs
  BY ActionFacts DEF Stats
<1>2. all \in [Procs -> CovStats]
  BY DEF Within
<1>3. /\ new \in [Procs -> CovStats]
      /\ new[q] = CoverageUnion(all[q], cov)
      /\ \A p \in Procs : p # q => new[p] = all[p]
  BY <1>1, <1>2, UnionFacts DEF Estimated
<1>4. ASSUME NEW p \in Procs, NEW b \in Blocks
      PROVE  new[p][b] >= from[p][b]
  <2>1. all[p][b] >= from[p][b] /\ all[p][b] \in Nat /\ from[p][b] \in Nat
    BY <1>2 DEF Within, CovStats
  <2>2. CASE p = q
    <3>1. new[p][b] = all[p][b] + cov[b] /\ cov[b] \in Nat
      BY <1>1, <1>2, <1>3, <2>2, UnionFacts
    <3> HIDE DEF new, cov
    <3> QED BY <2>1, <3>1
  <2>3. CASE p # q
    BY <1>3, <2>1, <2>3
  <2> QED BY <2>2, <2>3
<1>5. ASSUME NEW p \in Procs
      PROVE  Covered(new[p]) \subseteq Covered(from[p]) \cup KnownOn(p)
  <2>1. Covered(all[p]) \subseteq Covered(from[p]) \cup KnownOn(p)
    BY DEF Within
  <2>2. CASE p = q
    <3>1. Covered(new[p]) = Covered(all[p]) \cup Covered(cov)
      BY <1>1, <1>2, <1>3, <2>2, UnionFacts
    <3>2. Covered(cov) \subseteq KnownOn(p)
      BY <2>2 DEF KnownOn
    <3> QED BY <2>1, <3>1, <3>2
  <2>3. CASE p # q
    BY <1>3, <2>1, <2>3
  <2> QED BY <2>2, <2>3
<1>6. Within(new, from)
  <2> HIDE DEF new
  <2> QED BY <1>3, <1>4, <1>5 DEF Within
<1> QED BY <1>6

\* So does a search that passes over the actions nothing is known of.
LEMMA SearchWithin ==
  ASSUME actionStats \in Stats, NEW from \in [Procs -> CovStats],
         NEW threads \in Seq(Threads), NEW passed,
         ToSet(threads) \ DOMAIN actionStats \subseteq passed
  PROVE  Within(Search(from, threads, passed)[Len(threads)].all, from)
<1> DEFINE s == Search(from, threads, passed)
           Good == {n \in Nat : n <= Len(threads) => Within(s[n].all, from)}
<1>0. /\ s[0].all = from
      /\ \A k \in 1 .. Len(threads) :
           s[k] = IF threads[k] \in passed THEN s[k - 1] ELSE Consider(s[k - 1], threads[k])
  <2>1. SearchFrom(from, threads, passed, Len(threads), s)
    BY SearchDefined
  <2> HIDE DEF s
  <2>2. /\ Len(threads) \in Nat /\ 0 \in 0 .. Len(threads)
        /\ \A k \in 1 .. Len(threads) : k \in 0 .. Len(threads) /\ k # 0
    OBVIOUS
  <2>3. \A k \in 0 .. Len(threads) : s[k] =
          IF k = 0 THEN [all |-> from, best |-> CalcFullCoverageScore(from, Objective[strategy]),
                         improved |-> FALSE]
          ELSE IF threads[k] \in passed THEN s[k - 1] ELSE Consider(s[k - 1], threads[k])
    BY <2>1 DEF SearchFrom
  <2>4. s[0].all = from
    BY <2>2, <2>3
  <2> QED BY <2>2, <2>3, <2>4
<1> HIDE DEF s
<1>1. 0 \in Good
  <2>1. Within(from, from)
    <3>1. \A p \in Procs : \A b \in Blocks : from[p][b] \in Nat
      BY DEF CovStats
    <3> QED BY <3>1 DEF Within
  <2> QED BY <1>0, <2>1
<1>2. ASSUME NEW n \in Nat, n \in Good
      PROVE  n + 1 \in Good
  <2> SUFFICES ASSUME n + 1 <= Len(threads)
               PROVE  Within(s[n + 1].all, from)
    OBVIOUS
  <2> DEFINE t == threads[n + 1]
  <2>1. Within(s[n].all, from)
    BY <1>2
  <2>2. n + 1 \in 1 .. Len(threads) /\ (n + 1) - 1 = n
    OBVIOUS
  <2>3. s[n + 1] = IF t \in passed THEN s[n] ELSE Consider(s[n], t)
    BY <1>0, <2>2
  <2>4. CASE t \in passed
    BY <2>1, <2>3, <2>4
  <2>5. CASE t \notin passed
    <3>1. t \in DOMAIN actionStats
      BY <2>2, <2>5 DEF ToSet
    <3>2. s[n + 1].all = Estimated(s[n].all, actionStats[t], ProcID(t))
      BY <2>3, <2>5 DEF Consider
    <3> HIDE DEF t
    <3> QED BY <2>1, <3>1, <3>2, EstimateWithin
  <2> QED BY <2>4, <2>5
<1>3. \A n \in Nat : n \in Good
  <2> HIDE DEF Good
  <2> QED BY <1>1, <1>2, Induction
<1>4. Len(threads) \in Nat /\ Len(threads) <= Len(threads)
  OBVIOUS
<1>5. Within(s[Len(threads)].all, from)
  BY <1>3, <1>4
<1> QED BY <1>5 DEF s

-----------------------------------------------------------------------------
(***************************************************************************)
(* The seed schedule.                                                      *)
(***************************************************************************)
LEMMA SeedFacts ==
  ASSUME NEW S, NEW max \in Nat, NEW seed \in BoundedSeq(S, max)
  PROVE  /\ seed \in Seq(S) /\ Len(seed) \in Nat /\ DOMAIN seed = 1 .. Len(seed)
         /\ IsFiniteSet(DOMAIN seed)
<1>1. PICK m \in 0 .. max : seed \in [1 .. m -> S]
  BY DEF BoundedSeq, SeqOf
<1>2. seed \in Seq(S) /\ Len(seed) = m
  BY <1>1
<1>3. IsFiniteSet(1 .. m)
  BY FS_Interval
<1> QED BY <1>1, <1>2, <1>3

StatsFrom(seed, n, s) ==
  s = [k \in 0 .. n |->
        IF k = 0 THEN << >> ELSE Learn(s[k - 1], seed[k].action, seed[k].cov)]

\* The recursion has a solution.
LEMMA StatsDefined ==
  ASSUME NEW seed \in Seq(SeedEvents)
  PROVE  StatsFrom(seed, Len(seed), BuildActionStats(seed))
<1> DEFINE Good == {n \in Nat : \E s : StatsFrom(seed, n, s)}
<1>1. 0 \in Good
  <2>1. StatsFrom(seed, 0, [k \in 0 .. 0 |-> << >>])
    BY DEF StatsFrom
  <2> QED BY <2>1
<1>2. ASSUME NEW n \in Nat, n \in Good
      PROVE  n + 1 \in Good
  <2>1. PICK s : StatsFrom(seed, n, s)
    BY <1>2
  <2> DEFINE r == [k \in 0 .. n + 1 |->
                    IF k <= n THEN s[k]
                    ELSE Learn(s[k - 1], seed[k].action, seed[k].cov)]
  <2>2. /\ \A k \in 0 .. n : r[k] = s[k]
        /\ r[n + 1] = Learn(s[n], seed[n + 1].action, seed[n + 1].cov)
    OBVIOUS
  <2>3. r = [k \in 0 .. n + 1 |-> r[k]]
    OBVIOUS
  <2> HIDE DEF r
  <2>4. ASSUME NEW k \in 0 .. n + 1
        PROVE  r[k] = IF k = 0 THEN << >> ELSE Learn(r[k - 1], seed[k].action, seed[k].cov)
    <3>1. CASE k = n + 1
      <4>1. k # 0 /\ k - 1 = n /\ r[k - 1] = s[n]
        BY <2>2, <3>1
      <4> QED BY <2>2, <3>1, <4>1
    <3>2. CASE k # n + 1
      <4>1. k \in 0 .. n /\ r[k] = s[k]
        BY <2>2, <3>2
      <4>2. s[k] = IF k = 0 THEN << >> ELSE Learn(s[k - 1], seed[k].action, seed[k].cov)
        BY <2>1, <4>1 DEF StatsFrom
      <4>3. k # 0 => r[k - 1] = s[k - 1]
        <5>1. k # 0 => k - 1 \in 0 .. n
          BY <4>1
        <5> QED BY <2>2, <5>1
      <4> QED BY <4>1, <4>2, <4>3
    <3> QED BY <3>1, <3>2
  <2>5. StatsFrom(seed, n + 1, r)
    BY <2>3, <2>4 DEF StatsFrom
  <2> QED BY <2>5
<1>3. \A n \in Nat : n \in Good
  <2> HIDE DEF Good
  <2> QED BY <1>1, <1>2, Induction
<1>4. \E s : StatsFrom(seed, Len(seed), s)
  BY <1>3
<1>5. BuildActionStats(seed) = CHOOSE s : StatsFrom(seed, Len(seed), s)
  BY DEF BuildActionStats, StatsFrom
<1> QED BY <1>4, <1>5

\* What the seed says of an action: its part of every event, added up.
SeedSum(seed, a, b) ==
  SumFunction([i \in DOMAIN seed |-> IF seed[i].action = a THEN seed[i].cov[b] ELSE 0])

LEMMA SeedTyped ==
  ASSUME NEW seed \in BoundedSeq(SeedEvents, MaxSeed)
  PROVE  /\ \A i \in DOMAIN seed : seed[i].action \in Actions /\ seed[i].cov \in CovStats
         /\ \A n \in 0 .. Len(seed) : BuildActionStats(seed)[n] \in Stats
         /\ BuildActionStats(seed)[0] = << >>
         /\ \A n \in 1 .. Len(seed) : BuildActionStats(seed)[n]
               = Learn(BuildActionStats(seed)[n - 1], seed[n].action, seed[n].cov)
<1> DEFINE s == BuildActionStats(seed)
<1>1. seed \in Seq(SeedEvents) /\ Len(seed) \in Nat /\ DOMAIN seed = 1 .. Len(seed)
  BY SeedFacts, CoverageAssumption
<1>2. ASSUME NEW i \in DOMAIN seed
      PROVE  seed[i].action \in Actions /\ seed[i].cov \in CovStats
  <2>1. seed[i] \in SeedEvents
    BY <1>1
  <2> QED BY <2>1, BatchFacts DEF SeedEvents, Actions
<1>3. /\ s[0] = << >>
      /\ \A k \in 1 .. Len(seed) : s[k] = Learn(s[k - 1], seed[k].action, seed[k].cov)
  <2>1. StatsFrom(seed, Len(seed), s)
    BY <1>1, StatsDefined
  <2> HIDE DEF s
  <2>2. 0 \in 0 .. Len(seed) /\ \A k \in 1 .. Len(seed) : k \in 0 .. Len(seed) /\ k # 0
    BY <1>1
  <2>3. \A k \in 0 .. Len(seed) :
          s[k] = IF k = 0 THEN << >> ELSE Learn(s[k - 1], seed[k].action, seed[k].cov)
    BY <2>1 DEF StatsFrom
  <2> QED BY <2>2, <2>3
<1> DEFINE Good == {n \in Nat : n <= Len(seed) => s[n] \in Stats}
<1> HIDE DEF s
<1>4. 0 \in Good
  <2>1. << >> \in [{} -> CovStats]
    OBVIOUS
  <2> QED BY <1>3, <2>1 DEF Stats
<1>5. ASSUME NEW n \in Nat, n \in Good
      PROVE  n + 1 \in Good
  <2> SUFFICES ASSUME n + 1 <= Len(seed)
               PROVE  s[n + 1] \in Stats
    OBVIOUS
  <2> DEFINE e == seed[n + 1]
  <2>1. s[n] \in Stats
    BY <1>1, <1>5
  <2>2. n + 1 \in DOMAIN seed /\ n + 1 \in 1 .. Len(seed) /\ (n + 1) - 1 = n
    BY <1>1
  <2>3. s[n + 1] = Learn(s[n], e.action, e.cov) /\ e.action \in Actions /\ e.cov \in CovStats
    BY <1>2, <1>3, <2>2
  <2> HIDE DEF e
  <2>4. Learn(s[n], e.action, e.cov) \in Stats
    BY <2>1, <2>3, LearnFacts
  <2> QED BY <2>3, <2>4
<1>6. \A n \in Nat : n \in Good
  <2> HIDE DEF Good
  <2> QED BY <1>4, <1>5, Induction
<1>7. \A n \in 0 .. Len(seed) : s[n] \in Stats
  BY <1>1, <1>6
<1> QED BY <1>2, <1>3, <1>7 DEF s

LEMMA SeedStats ==
  ASSUME NEW seed \in BoundedSeq(SeedEvents, MaxSeed), NEW a \in Actions, NEW b \in Blocks
  PROVE  /\ SeedSum(seed, a, b) \in Nat
         /\ Agree(BuildActionStats(seed)[Len(seed)], a, b, SeedSum(seed, a, b))
<1> DEFINE f == [i \in DOMAIN seed |-> IF seed[i].action = a THEN seed[i].cov[b] ELSE 0]
           D == DOMAIN seed
           s == BuildActionStats(seed)
<1>1. /\ seed \in Seq(SeedEvents) /\ Len(seed) \in Nat /\ D = 1 .. Len(seed)
      /\ IsFiniteSet(D)
  BY SeedFacts, CoverageAssumption
<1>2. ASSUME NEW i \in D
      PROVE  /\ seed[i].action \in Actions /\ seed[i].cov \in CovStats
             /\ seed[i].cov[b] \in Nat
  BY SeedTyped DEF CovStats
<1>3. f \in [D -> Nat]
  BY <1>2
<1>4. PICK g \in [SUBSET D -> Nat] :
        SumFunction(f) = g[D] /\ g[{}] = 0 /\ \A T \in SUBSET D : Takes(g, f, T)
  <2> HIDE DEF f, D
  <2> QED BY <1>1, <1>3, SumFacts
<1>5. /\ s[0] = << >>
      /\ \A n \in 0 .. Len(seed) : s[n] \in Stats
      /\ \A n \in 1 .. Len(seed) : s[n] = Learn(s[n - 1], seed[n].action, seed[n].cov)
  BY SeedTyped
<1> DEFINE Good == {n \in Nat : n <= Len(seed) => Agree(s[n], a, b, g[1 .. n])}
<1> HIDE DEF s
<1>6. 0 \in Good
  <2>1. 1 .. 0 = {} /\ DOMAIN << >> = {}
    OBVIOUS
  <2> QED BY <1>4, <1>5, <2>1 DEF Agree
<1>7. ASSUME NEW n \in Nat, n \in Good
      PROVE  n + 1 \in Good
  <2> SUFFICES ASSUME n + 1 <= Len(seed)
               PROVE  Agree(s[n + 1], a, b, g[1 .. n + 1])
    OBVIOUS
  <2> DEFINE e == seed[n + 1]
             m == g[1 .. n]
  <2>1. n \in 0 .. Len(seed) /\ n <= Len(seed)
    BY <1>1
  <2>2. /\ n + 1 \in D /\ n + 1 \in 1 .. Len(seed) /\ (n + 1) - 1 = n
        /\ 1 .. n + 1 \in SUBSET D /\ n + 1 \in 1 .. n + 1
        /\ (1 .. n + 1) \ {n + 1} = 1 .. n /\ 1 .. n \in SUBSET D
    BY <1>1
  <2>3. s[n + 1] = Learn(s[n], e.action, e.cov)
    BY <1>5, <2>2
  <2>4. g[1 .. n + 1] = f[n + 1] + m /\ m \in Nat
    <3>1. Takes(g, f, 1 .. n + 1) /\ m \in Nat
      BY <1>4, <2>2
    <3>2. g[1 .. n + 1] = f[n + 1] + g[(1 .. n + 1) \ {n + 1}]
      <4> HIDE DEF f
      <4> QED BY <2>2, <3>1 DEF Takes
    <3> HIDE DEF f
    <3> QED BY <2>2, <3>1, <3>2
  <2>5. /\ e.action \in Actions /\ e.cov \in CovStats /\ e.cov[b] \in Nat
        /\ f[n + 1] = IF e.action = a THEN e.cov[b] ELSE 0
    BY <1>2, <2>2
  <2>6. g[1 .. n + 1] = IF e.action = a THEN m + e.cov[b] ELSE m
    <3> HIDE DEF e, f, m
    <3> QED BY <2>4, <2>5
  <2>7. s[n] \in Stats /\ Agree(s[n], a, b, m)
    BY <1>5, <1>7, <2>1
  <2>8. Agree(Learn(s[n], e.action, e.cov), a, b, IF e.action = a THEN m + e.cov[b] ELSE m)
    <3> HIDE DEF e, f, D, m
    <3> QED BY <2>4, <2>5, <2>7, LearnAgrees
  <2> QED BY <2>3, <2>6, <2>8
<1>8. \A n \in Nat : n \in Good
  <2> HIDE DEF Good
  <2> QED BY <1>6, <1>7, Induction
<1>9. Agree(s[Len(seed)], a, b, g[D])
  BY <1>1, <1>8
<1>10. SeedSum(seed, a, b) = g[D] /\ g[D] \in Nat
  BY <1>4 DEF SeedSum
<1> QED BY <1>9, <1>10 DEF s

-----------------------------------------------------------------------------
(***************************************************************************)
(* The inductive invariant.                                                *)
(***************************************************************************)
Types ==
  /\ TypeOK
  /\ actionStats \in Stats
  /\ ofAction \in [Actions -> CovStats]
  /\ onProc \in [Procs -> CovStats] /\ thisRun \in [Procs -> CovStats]

Reporting == pc = "report" => currentAction \in Actions /\ runningProc = ProcID(currentAction)

StatsAgree == \A a \in Actions, b \in Blocks : Agree(actionStats, a, b, ofAction[a][b])

StatesCounted == IsFiniteSet(exploredStates) /\ uniqueStates = Cardinality(exploredStates)

\* Without estimates the coverage of the run is what its actions reported.
NoEstimates == strategy = "RANDOM" => currentCoverage = thisRun /\ exploredStates = reachedStates

\* A path that was seen is no longer than the longest of the earlier runs, or is
\* one this run has gone through.  A longer run leaves the known paths, and each
\* action from there on adds to the depth.
Paths ==
  /\ Len(currentSchedule) <= longest + currentDepth
  /\ \A s \in visitedScheds : Len(s) <= longest \/ Len(s) <= Len(currentSchedule)

Inv == Types /\ Reporting /\ StatsAgree /\ StatesCounted /\ NoEstimates /\ TotalsBounded /\ Paths

-----------------------------------------------------------------------------
(***************************************************************************)
(* The initial states.                                                     *)
(***************************************************************************)
LEMMA InitInv == Init => Inv
<1> SUFFICES ASSUME Init PROVE Inv
  OBVIOUS
<1> USE CoverageAssumption
<1>1. PICK seed \in BoundedSeq(SeedEvents, MaxSeed) :
        /\ MountExplorer(seed)
        /\ ofAction = [a \in Actions |-> [b \in Blocks |-> SeedSum(seed, a, b)]]
  BY DEF Init, Actions, SeedSum
<1>2. NoCov \in CovStats /\ \A b \in Blocks : NoCov[b] = 0
  BY BatchFacts DEF NoCov
<1>3. /\ ofAction \in [Actions -> CovStats]
      /\ \A a \in Actions, b \in Blocks : ofAction[a][b] = SeedSum(seed, a, b)
  <2>1. \A a \in Actions, b \in Blocks : SeedSum(seed, a, b) \in Nat
    BY SeedStats
  <2> QED BY <1>1, <2>1 DEF CovStats
<1>4. actionStats \in Stats
  <2>1. actionStats = BuildActionStats(seed)[Len(seed)]
    BY <1>1 DEF MountExplorer
  <2>2. Len(seed) \in 0 .. Len(seed)
    BY SeedFacts
  <2> QED BY <2>1, <2>2, SeedTyped
<1>5. StatsAgree
  <2>1. actionStats = BuildActionStats(seed)[Len(seed)]
    BY <1>1 DEF MountExplorer
  <2> SUFFICES ASSUME NEW a \in Actions, NEW b \in Blocks
               PROVE  Agree(actionStats, a, b, ofAction[a][b])
    BY DEF StatsAgree
  <2> QED BY <1>3, <2>1, SeedStats
<1>6. /\ currentCoverage = [p \in Procs |-> NoCov] /\ totalCoverage = [p \in Procs |-> NoCov]
      /\ onProc = [p \in Procs |-> NoCov] /\ thisRun = [p \in Procs |-> NoCov]
      /\ visitedScheds = {} /\ currentSchedule = <<>> /\ currentDepth = 0
      /\ exploredStates = {} /\ uniqueStates = 0 /\ reachedStates = {}
      /\ initStatus = [p \in Procs |-> FALSE]
      /\ pc = "choose" /\ longest = 0 /\ actions = 0 /\ strategy \in Strategies
      /\ currentAction = NoAction /\ runningProc = 0
  BY <1>1 DEF Init, MountExplorer
<1>7. Types
  <2>1. /\ DOMAIN actionStats \subseteq Threads \cup Timers
        /\ \A a \in DOMAIN actionStats : actionStats[a] \in CovStats
    BY <1>4 DEF Stats, Actions
  <2> QED BY <1>2, <1>3, <1>4, <1>6, <2>1 DEF Types, TypeOK
<1>8. Reporting
  BY <1>6 DEF Reporting
<1>9. StatesCounted /\ NoEstimates
  BY <1>6, FS_EmptySet DEF StatesCounted, NoEstimates
<1>10. TotalsBounded
  BY <1>2, <1>6 DEF TotalsBounded, Covered
<1>11. Paths
  BY <1>6 DEF Paths
<1> QED BY <1>5, <1>7, <1>8, <1>9, <1>10, <1>11 DEF Inv

-----------------------------------------------------------------------------
(***************************************************************************)
(* Choosing an action.                                                     *)
(***************************************************************************)
\* What a list of threads and the choice from it are.
LEMMA ListFacts ==
  ASSUME NEW threads \in ThreadLists
  PROVE  /\ threads \in Seq(Threads) /\ threads # <<>>
         /\ ToSet(threads) \subseteq Threads /\ Last(threads) \in ToSet(threads)
<1>1. IsFiniteSet(Threads)
  <2>1. IsFiniteSet(Procs)
    BY CoverageAssumption, FS_Interval DEF Procs
  <2>2. IsFiniteSet(Procs \X GoRoutines)
    BY <2>1, CoverageAssumption, FS_Product
  <2> DEFINE pick == [x \in Procs \X GoRoutines |-> ProcThread(x[1], x[2])]
  <2>3. pick \in Surjection(Procs \X GoRoutines, Threads)
    <3>1. \A x \in Procs \X GoRoutines : ProcThread(x[1], x[2]) \in Threads
      BY DEF Threads
    <3>2. ASSUME NEW t \in Threads
          PROVE  \E x \in Procs \X GoRoutines : pick[x] = t
      <4>1. PICK p \in Procs, r \in GoRoutines : t = ProcThread(p, r)
        BY DEF Threads
      <4>2. <<p, r>> \in Procs \X GoRoutines /\ pick[<<p, r>>] = t
        BY <4>1
      <4> QED BY <4>2
    <3> QED BY <3>1, <3>2 DEF Surjection
  <2> HIDE DEF pick
  <2> QED BY <2>2, <2>3, FS_Surjection
<1>2. Cardinality(Threads) \in Nat
  BY <1>1, FS_CardinalityType
<1>3. threads \in BoundedSeq(Threads, Cardinality(Threads)) /\ threads # <<>>
  BY DEF ThreadLists, Lists
<1>4. threads \in Seq(Threads) /\ Len(threads) \in Nat
  BY <1>2, <1>3, SeedFacts
<1>5. Len(threads) \in DOMAIN threads
  BY <1>3, <1>4
<1> QED BY <1>3, <1>4, <1>5 DEF ToSet, Last

LEMMA WithinSelf ==
  ASSUME NEW from \in [Procs -> CovStats]
  PROVE  Within(from, from)
<1>1. \A p \in Procs : \A b \in Blocks : from[p][b] \in Nat
  BY DEF CovStats
<1> QED BY <1>1 DEF Within

\* A choice is one of the threads, and leaves estimates at most; the random
\* strategy leaves none.
LEMMA ChoiceFacts ==
  ASSUME Types, NEW threads \in ThreadLists, NEW next \in NextThreads(threads)
  PROVE  /\ next.thread \in Threads
         /\ Within(next.total, totalCoverage) /\ Within(next.current, currentCoverage)
         /\ strategy = "RANDOM" => next.current = currentCoverage
<1>1. /\ threads \in Seq(Threads) /\ threads # <<>>
      /\ ToSet(threads) \subseteq Threads /\ Last(threads) \in ToSet(threads)
  BY ListFacts
<1>2. /\ actionStats \in Stats
      /\ totalCoverage \in [Procs -> CovStats] /\ currentCoverage \in [Procs -> CovStats]
  BY DEF Types, TypeOK
<1>3. Within(totalCoverage, totalCoverage) /\ Within(currentCoverage, currentCoverage)
  BY <1>2, WithinSelf
<1>4. CASE strategy = "RANDOM"
  BY <1>1, <1>3, <1>4 DEF NextThreads
<1>5. CASE strategy # "RANDOM"
  <2> DEFINE unseen == ToSet(threads) \ DOMAIN actionStats
             seen   == {t \in ToSet(threads) : Append(currentSchedule, t) \in visitedScheds}
             total  == Search(totalCoverage, threads, unseen)[Len(threads)]
             near   == Search(currentCoverage, threads, unseen \cup seen)[Len(threads)]
  <2>1. Within(total.all, totalCoverage)
    BY <1>1, <1>2, SearchWithin
  <2>2. Within(near.all, currentCoverage)
    BY <1>1, <1>2, SearchWithin
  <2>3. next \in CoverageChoices(threads)
    BY <1>5 DEF NextThreads
  <2>4. /\ next.thread \in ToSet(threads)
        /\ next.total = total.all
        /\ next.current \in {currentCoverage, near.all}
    <3> HIDE DEF unseen, seen, total, near
    <3>1. next \in
            IF total.improved
            THEN {[thread |-> t, total |-> total.all, current |-> currentCoverage] :
                     t \in {Last(threads)}}
            ELSE IF unseen # {}
            THEN {[thread |-> t, total |-> total.all, current |-> currentCoverage] : t \in unseen}
            ELSE {[thread |-> t, total |-> total.all, current |-> near.all] :
                     t \in IF near.improved THEN {Last(threads)} ELSE ToSet(threads)}
      BY <2>3 DEF CoverageChoices, unseen, seen, total, near
    <3>2. unseen \subseteq ToSet(threads)
      BY DEF unseen
    <3> QED BY <1>1, <3>1, <3>2
  <2> HIDE DEF total, near
  <2> QED BY <1>1, <1>3, <1>5, <2>1, <2>2, <2>4
<1> QED BY <1>4, <1>5

\* Taking an action keeps the paths bounded: off the known paths both the
\* schedule and the depth grow; a known path that is longer than this run has
\* been is one of an earlier run.
LEMMA ActKeeps ==
  ASSUME Types, Paths, NEW a \in Actions, Act(a), currentDepth < maxDepth, longest' = longest
  PROVE  /\ visitedScheds' \subseteq Seq(Actions) /\ currentSchedule' \in Seq(Actions)
         /\ currentDepth' \in 0 .. maxDepth
         /\ currentAction' \in Actions /\ runningProc' \in Procs
         /\ pc' = "report" /\ actions' \in 0 .. MaxActions
         /\ Reporting' /\ Paths'
<1> DEFINE schedule == Append(currentSchedule, a)
<1>1. /\ visitedScheds \subseteq Seq(Actions) /\ currentSchedule \in Seq(Actions)
      /\ currentDepth \in 0 .. maxDepth /\ maxDepth \in Nat /\ MaxActions \in Nat
      /\ longest \in Nat /\ actions \in 0 .. MaxActions
  BY CoverageAssumption DEF Types, TypeOK, Actions
<1>2. schedule \in Seq(Actions) /\ Len(schedule) = Len(currentSchedule) + 1
  BY <1>1
<1>3. /\ currentSchedule' = schedule /\ visitedScheds' = visitedScheds \cup {schedule}
      /\ currentDepth' = IF schedule \in visitedScheds THEN currentDepth ELSE currentDepth + 1
      /\ currentAction' = a /\ runningProc' = ProcID(a) /\ pc' = "report"
      /\ actions < MaxActions /\ actions' = actions + 1
  BY DEF Act, Visit
<1> HIDE DEF schedule
<1>4. currentDepth' \in 0 .. maxDepth /\ actions' \in 0 .. MaxActions
  BY <1>1, <1>3
<1>5. Reporting'
  BY <1>3 DEF Reporting
<1>6. Paths'
  <2>1. /\ Len(schedule) = Len(currentSchedule) + 1
        /\ Len(currentSchedule) \in Nat /\ longest \in Nat /\ currentDepth \in Nat
        /\ \A s \in visitedScheds : Len(s) \in Nat
    BY <1>1, <1>2
  <2>2. Len(schedule) <= longest + currentDepth'
    <3>1. CASE schedule \in visitedScheds
      BY <1>3, <2>1, <3>1 DEF Paths
    <3>2. CASE schedule \notin visitedScheds
      BY <1>3, <2>1, <3>2 DEF Paths
    <3> QED BY <3>1, <3>2
  <2>3. ASSUME NEW s \in visitedScheds \cup {schedule}
        PROVE  Len(s) <= longest \/ Len(s) <= Len(schedule)
    BY <2>1 DEF Paths
  <2> QED BY <1>3, <2>2, <2>3 DEF Paths
<1> QED BY <1>1, <1>2, <1>3, <1>4, <1>5, <1>6, ActionFacts

\* A coverage that grows keeps what was known of a process.
Of(p) == UNION {Covered(ofAction[a]) : a \in {x \in Threads \cup Timers : ProcID(x) = p}}

LEMMA KnownWithin ==
  ASSUME Types, StatsAgree, NEW p \in Procs
  PROVE  KnownOn(p) \subseteq Of(p)
<1> SUFFICES ASSUME NEW a \in DOMAIN actionStats, ProcID(a) = p,
                    NEW b \in Covered(actionStats[a])
             PROVE  b \in Of(p)
  BY DEF KnownOn
<1>1. a \in Actions /\ b \in Blocks /\ actionStats[a][b] > 0
  BY DEF Types, Stats, Covered
<1>2. Agree(actionStats, a, b, ofAction[a][b])
  BY <1>1 DEF StatsAgree
<1>3. b \in Covered(ofAction[a])
  BY <1>1, <1>2 DEF Agree, Covered
<1> QED BY <1>1, <1>3 DEF Of, Actions

\* Estimates keep both bounds.
LEMMA WithinKeeps ==
  ASSUME Types, StatsAgree, NEW from \in [Procs -> CovStats], NEW all, Within(all, from),
         NEW low \in [Procs -> CovStats],
         \A p \in Procs : /\ \A b \in Blocks : from[p][b] >= low[p][b]
                          /\ Covered(from[p]) \subseteq Of(p)
  PROVE  /\ all \in [Procs -> CovStats]
         /\ \A p \in Procs : /\ \A b \in Blocks : all[p][b] >= low[p][b]
                             /\ Covered(all[p]) \subseteq Of(p)
<1>1. all \in [Procs -> CovStats]
  BY DEF Within
<1>2. ASSUME NEW p \in Procs, NEW b \in Blocks
      PROVE  all[p][b] >= low[p][b]
  <2>1. all[p][b] \in Int /\ from[p][b] \in Int /\ low[p][b] \in Int
    BY <1>1 DEF CovStats
  <2>2. all[p][b] >= from[p][b] /\ from[p][b] >= low[p][b]
    BY DEF Within
  <2> QED BY <2>1, <2>2
<1>3. ASSUME NEW p \in Procs
      PROVE  Covered(all[p]) \subseteq Of(p)
  BY KnownWithin DEF Within
<1> QED BY <1>1, <1>2, <1>3

-----------------------------------------------------------------------------
(***************************************************************************)
(* The steps.                                                              *)
(***************************************************************************)
\* The bounds of both coverages, process by process.
LEMMA TotalsFacts ==
  TotalsBounded <=>
    \A p \in Procs :
      /\ \A b \in Blocks : totalCoverage[p][b] >= onProc[p][b]
      /\ \A b \in Blocks : currentCoverage[p][b] >= thisRun[p][b]
      /\ Covered(totalCoverage[p]) \subseteq Of(p)
      /\ Covered(currentCoverage[p]) \subseteq Of(p)
BY DEF TotalsBounded, Of

LEMMA GetNextThreadInv ==
  ASSUME Inv, GetNextThread
  PROVE  Inv'
<1> USE DEF Inv
<1>0. PICK threads \in ThreadLists : \E next \in NextThreads(threads) :
        /\ totalCoverage' = next.total /\ currentCoverage' = next.current
        /\ Act(next.thread)
        /\ initStatus' = [initStatus EXCEPT ![ProcID(next.thread)] = TRUE]
  BY DEF GetNextThread
<1>1. PICK next \in NextThreads(threads) :
        /\ totalCoverage' = next.total /\ currentCoverage' = next.current
        /\ Act(next.thread)
        /\ initStatus' = [initStatus EXCEPT ![ProcID(next.thread)] = TRUE]
  BY <1>0
<1>2. /\ pc = "choose" /\ currentDepth < maxDepth
      /\ UNCHANGED <<strategy, actionStats, exploredStates, uniqueStates,
                     ofAction, onProc, thisRun, reachedStates, longest>>
  BY DEF GetNextThread, states, history
<1>3. /\ next.thread \in Actions
      /\ Within(next.total, totalCoverage) /\ Within(next.current, currentCoverage)
      /\ strategy = "RANDOM" => next.current = currentCoverage
  BY <1>1, ChoiceFacts DEF Actions
<1>4. /\ visitedScheds' \subseteq Seq(Actions) /\ currentSchedule' \in Seq(Actions)
      /\ currentDepth' \in 0 .. maxDepth
      /\ currentAction' \in Actions /\ runningProc' \in Procs
      /\ pc' = "report" /\ actions' \in 0 .. MaxActions
      /\ Reporting' /\ Paths'
  BY <1>1, <1>2, <1>3, ActKeeps
<1>5. /\ totalCoverage \in [Procs -> CovStats] /\ currentCoverage \in [Procs -> CovStats]
      /\ onProc \in [Procs -> CovStats] /\ thisRun \in [Procs -> CovStats]
  BY DEF Types, TypeOK
<1>6. /\ totalCoverage' \in [Procs -> CovStats]
      /\ \A p \in Procs : /\ \A b \in Blocks : totalCoverage'[p][b] >= onProc[p][b]
                          /\ Covered(totalCoverage'[p]) \subseteq Of(p)
  BY <1>1, <1>3, <1>5, TotalsFacts, WithinKeeps
<1>7. /\ currentCoverage' \in [Procs -> CovStats]
      /\ \A p \in Procs : /\ \A b \in Blocks : currentCoverage'[p][b] >= thisRun[p][b]
                          /\ Covered(currentCoverage'[p]) \subseteq Of(p)
  BY <1>1, <1>3, <1>5, TotalsFacts, WithinKeeps
<1>8. TotalsBounded'
  <2>1. \A p \in Procs : Of(p)' = Of(p)
    BY <1>2 DEF Of
  <2>2. \A p \in Procs : Covered(totalCoverage[p])' = Covered(totalCoverage'[p])
                         /\ Covered(currentCoverage[p])' = Covered(currentCoverage'[p])
    BY DEF Covered
  <2> QED BY <1>2, <1>6, <1>7, <2>1, <2>2 DEF TotalsBounded, Of
<1>9. initStatus' \in [Procs -> BOOLEAN]
  BY <1>1 DEF Types, TypeOK
<1>10. Types'
  BY <1>2, <1>4, <1>6, <1>7, <1>9 DEF Types, TypeOK, Actions
<1>11. StatsAgree'
  BY <1>2 DEF StatsAgree, Agree
<1>12. StatesCounted' /\ NoEstimates'
  BY <1>1, <1>2, <1>3 DEF StatesCounted, NoEstimates
<1> QED BY <1>4, <1>8, <1>10, <1>11, <1>12

LEMMA GetNextTimerInv ==
  ASSUME Inv, NEW q \in TimerProcs, GetNextTimer(q)
  PROVE  Inv'
<1> USE DEF Inv
<1>1. /\ currentDepth < maxDepth /\ Act(ProcTimer(q)) /\ ProcTimer(q) \in Actions
      /\ UNCHANGED <<strategy, initStatus, currentCoverage, totalCoverage, actionStats,
                     exploredStates, uniqueStates, ofAction, onProc, thisRun, reachedStates, longest>>
  BY ActionFacts DEF GetNextTimer, scores, states, history
<1>2. /\ visitedScheds' \subseteq Seq(Actions) /\ currentSchedule' \in Seq(Actions)
      /\ currentDepth' \in 0 .. maxDepth
      /\ currentAction' \in Actions /\ runningProc' \in Procs
      /\ pc' = "report" /\ actions' \in 0 .. MaxActions
      /\ Reporting' /\ Paths'
  BY <1>1, ActKeeps
<1>3. Types'
  BY <1>1, <1>2 DEF Types, TypeOK, Actions
<1>4. StatsAgree' /\ StatesCounted' /\ NoEstimates'
  BY <1>1 DEF StatsAgree, Agree, StatesCounted, NoEstimates
<1>5. TotalsBounded'
  BY <1>1 DEF TotalsBounded, Covered
<1> QED BY <1>2, <1>3, <1>4, <1>5

LEMMA NextRunInv ==
  ASSUME Inv, NextRun,
         currentAction' \in {Restart, currentAction}, runningProc' \in {0, runningProc}
  PROVE  Inv'
<1> USE DEF Inv
<1>1. /\ pc = "choose" /\ pc' = "choose" /\ currentSchedule # <<>>
      /\ actions < MaxActions /\ actions' = actions
      /\ visitedScheds' = visitedScheds \cup {currentSchedule}
      /\ currentDepth' = 0 /\ currentSchedule' = <<>>
      /\ longest' = IF Len(currentSchedule) > longest THEN Len(currentSchedule) ELSE longest
      /\ currentCoverage' = [p \in Procs |-> NoCov] /\ thisRun' = [p \in Procs |-> NoCov]
      /\ initStatus' = [p \in Procs |-> FALSE]
      /\ UNCHANGED <<strategy, totalCoverage, actionStats, exploredStates, uniqueStates,
                     ofAction, onProc, reachedStates>>
  BY DEF NextRun, RestartExploration, states
<1>2. /\ visitedScheds \subseteq Seq(Actions) /\ currentSchedule \in Seq(Actions)
      /\ currentDepth \in 0 .. maxDepth /\ maxDepth \in Nat \ {0} /\ MaxActions \in Nat
      /\ longest \in Nat /\ actions \in 0 .. MaxActions
  BY CoverageAssumption DEF Types, TypeOK, Actions
<1>3. NoCov \in CovStats /\ \A b \in Blocks : NoCov[b] = 0
  BY BatchFacts DEF NoCov
<1>4. longest' \in Nat
  BY <1>1, <1>2
<1>5. Types'
  BY <1>1, <1>2, <1>3, <1>4 DEF Types, TypeOK, Actions
<1>6. Reporting'
  BY <1>1 DEF Reporting
<1>7. StatsAgree' /\ StatesCounted' /\ NoEstimates'
  BY <1>1 DEF StatsAgree, Agree, StatesCounted, NoEstimates
<1>8. TotalsBounded'
  BY <1>1, <1>3 DEF TotalsBounded, Covered
<1>9. Paths'
  <2>1. /\ Len(currentSchedule) \in Nat /\ longest \in Nat
        /\ \A s \in visitedScheds : Len(s) \in Nat
    BY <1>2
  <2>2. \A s \in visitedScheds \cup {currentSchedule} : Len(s) <= longest'
    BY <1>1, <2>1 DEF Paths
  <2>3. Len(<<>>) = 0
    OBVIOUS
  <2> QED BY <1>1, <1>4, <2>2, <2>3 DEF Paths
<1> QED BY <1>5, <1>6, <1>7, <1>8, <1>9

LEMMA ReportInv ==
  ASSUME Inv, UpdateActionCoverage
  PROVE  Inv'
<1> USE DEF Inv
<1> DEFINE act == currentAction
           r   == runningProc
<1>1. PICK cov \in Batches :
        /\ actionStats' = Learn(actionStats, act, cov)
        /\ currentCoverage' = [currentCoverage EXCEPT ![r] = CoverageUnion(@, cov)]
        /\ totalCoverage' = [totalCoverage EXCEPT ![r] = CoverageUnion(@, cov)]
        /\ ofAction' = [ofAction EXCEPT ![act] = CoverageUnion(@, cov)]
        /\ onProc' = [onProc EXCEPT ![r] = CoverageUnion(@, cov)]
        /\ thisRun' = [thisRun EXCEPT ![r] = CoverageUnion(@, cov)]
        /\ reachedStates' = reachedStates \cup {thisRun'}
  BY DEF UpdateActionCoverage, AddCoverage, Note, CoverageUnion
<1>2. /\ pc = "report" /\ pc' = "choose"
      /\ exploredStates' = exploredStates \cup {currentCoverage'}
      /\ uniqueStates' = IF currentCoverage' \in exploredStates THEN uniqueStates
                         ELSE uniqueStates + 1
      /\ UNCHANGED <<strategy, visitedScheds, currentSchedule, currentDepth, initStatus,
                     currentAction, runningProc, longest, actions>>
  BY DEF UpdateActionCoverage, CountState, Note, path
<1>3. /\ act \in Actions /\ r \in Procs /\ r = ProcID(act)
      /\ cov \in CovStats /\ \A b \in Blocks : cov[b] \in Nat
  BY <1>2, ActionFacts, BatchFacts DEF Reporting, CovStats
<1>4. /\ totalCoverage \in [Procs -> CovStats] /\ currentCoverage \in [Procs -> CovStats]
      /\ onProc \in [Procs -> CovStats] /\ thisRun \in [Procs -> CovStats]
      /\ ofAction \in [Actions -> CovStats] /\ actionStats \in Stats
  BY DEF Types, TypeOK
<1>5. /\ totalCoverage' \in [Procs -> CovStats] /\ currentCoverage' \in [Procs -> CovStats]
      /\ onProc' \in [Procs -> CovStats] /\ thisRun' \in [Procs -> CovStats]
      /\ ofAction' \in [Actions -> CovStats]
  <2>1. \A c \in CovStats : CoverageUnion(c, cov) \in CovStats
    BY <1>3, UnionFacts
  <2> QED BY <1>1, <1>3, <1>4, <2>1
<1>6. actionStats' \in Stats
  BY <1>1, <1>3, <1>4, LearnFacts
<1>7. StatsAgree'
  <2> SUFFICES ASSUME NEW a \in Actions, NEW b \in Blocks
               PROVE  Agree(actionStats', a, b, ofAction'[a][b])
    BY DEF StatsAgree, Agree
  <2> DEFINE n == ofAction[a][b]
  <2>1. n \in Nat /\ Agree(actionStats, a, b, n)
    BY <1>4 DEF StatsAgree, CovStats
  <2>2. Agree(actionStats', a, b, IF act = a THEN n + cov[b] ELSE n)
    <3> HIDE DEF n, act
    <3> QED BY <1>1, <1>3, <1>4, <2>1, LearnAgrees
  <2>3. ofAction'[a][b] = IF act = a THEN n + cov[b] ELSE n
    <3>1. CASE act = a
      <4>1. ofAction'[a] = CoverageUnion(ofAction[a], cov) /\ ofAction[a] \in CovStats
        BY <1>1, <1>4, <3>1
      <4> QED BY <1>3, <3>1, <4>1, UnionFacts
    <3>2. CASE act # a
      BY <1>1, <1>4, <3>2
    <3> QED BY <3>1, <3>2
  <2> QED BY <2>2, <2>3
<1>8. StatesCounted'
  <2>1. IsFiniteSet(exploredStates) /\ uniqueStates = Cardinality(exploredStates)
    BY DEF StatesCounted
  <2> QED BY <1>2, <2>1, FS_AddElement DEF StatesCounted
<1>9. uniqueStates' \in Nat
  BY <1>8, FS_CardinalityType DEF StatesCounted
<1>10. NoEstimates'
  BY <1>1, <1>2, <1>4 DEF NoEstimates
<1>11. Types'
  <2>1. exploredStates' \subseteq [Procs -> CovStats]
    BY <1>2, <1>5 DEF Types, TypeOK
  <2>2. /\ DOMAIN actionStats' \subseteq Threads \cup Timers
        /\ \A a \in DOMAIN actionStats' : actionStats'[a] \in CovStats
    BY <1>6 DEF Stats, Actions
  <2> QED BY <1>2, <1>5, <1>6, <1>9, <2>1, <2>2 DEF Types, TypeOK
<1>12. Reporting' /\ Paths'
  BY <1>2 DEF Reporting, Paths
<1>13. ASSUME NEW p \in Procs
       PROVE  /\ Of(p) \subseteq Of(p)'
              /\ p = r => Covered(cov) \subseteq Of(p)'
  <2>1. ASSUME NEW a \in Actions
        PROVE  Covered(ofAction[a]) \subseteq Covered(ofAction'[a])
    <3>1. CASE act = a
      <4>1. ofAction'[a] = CoverageUnion(ofAction[a], cov) /\ ofAction[a] \in CovStats
        BY <1>1, <1>4, <3>1
      <4> QED BY <1>3, <4>1, UnionFacts
    <3>2. CASE act # a
      BY <1>1, <1>4, <3>2
    <3> QED BY <3>1, <3>2
  <2>2. Covered(cov) \subseteq Covered(ofAction'[act])
    <3>1. ofAction'[act] = CoverageUnion(ofAction[act], cov) /\ ofAction[act] \in CovStats
      BY <1>1, <1>3, <1>4
    <3> QED BY <1>3, <3>1, UnionFacts
  <2>3. Of(p)' = UNION {Covered(ofAction'[a]) : a \in {x \in Actions : ProcID(x) = p}}
    BY DEF Of, Actions, Covered
  <2>4. Of(p) = UNION {Covered(ofAction[a]) : a \in {x \in Actions : ProcID(x) = p}}
    BY DEF Of, Actions
  <2>5. Of(p) \subseteq Of(p)'
    BY <2>1, <2>3, <2>4
  <2>6. p = r => Covered(cov) \subseteq Of(p)'
    BY <1>3, <2>2, <2>3
  <2> QED BY <2>5, <2>6
<1>14. TotalsBounded'
  <2>1. ASSUME NEW p \in Procs
        PROVE  /\ \A b \in Blocks : /\ totalCoverage'[p][b] >= onProc'[p][b]
                                    /\ currentCoverage'[p][b] >= thisRun'[p][b]
               /\ Covered(totalCoverage'[p]) \subseteq Of(p)'
               /\ Covered(currentCoverage'[p]) \subseteq Of(p)'
    <3>1. /\ \A b \in Blocks : /\ totalCoverage[p][b] >= onProc[p][b]
                               /\ currentCoverage[p][b] >= thisRun[p][b]
          /\ Covered(totalCoverage[p]) \subseteq Of(p)
          /\ Covered(currentCoverage[p]) \subseteq Of(p)
      BY TotalsFacts
    <3>2. /\ totalCoverage[p] \in CovStats /\ currentCoverage[p] \in CovStats
          /\ onProc[p] \in CovStats /\ thisRun[p] \in CovStats
      BY <1>4
    <3>3. CASE p # r
      BY <1>1, <1>4, <1>13, <3>1, <3>3
    <3>4. CASE p = r
      <4>1. /\ totalCoverage'[p] = CoverageUnion(totalCoverage[p], cov)
            /\ currentCoverage'[p] = CoverageUnion(currentCoverage[p], cov)
            /\ onProc'[p] = CoverageUnion(onProc[p], cov)
            /\ thisRun'[p] = CoverageUnion(thisRun[p], cov)
        BY <1>1, <1>4, <3>4
      <4>2. ASSUME NEW b \in Blocks
            PROVE  /\ totalCoverage'[p][b] >= onProc'[p][b]
                   /\ currentCoverage'[p][b] >= thisRun'[p][b]
        <5>1. /\ totalCoverage'[p][b] = totalCoverage[p][b] + cov[b]
              /\ currentCoverage'[p][b] = currentCoverage[p][b] + cov[b]
              /\ onProc'[p][b] = onProc[p][b] + cov[b]
              /\ thisRun'[p][b] = thisRun[p][b] + cov[b]
              /\ totalCoverage[p][b] \in Nat /\ currentCoverage[p][b] \in Nat
              /\ onProc[p][b] \in Nat /\ thisRun[p][b] \in Nat /\ cov[b] \in Nat
          BY <1>3, <3>2, <4>1, UnionFacts
        <5> QED BY <3>1, <5>1
      <4>3. /\ Covered(totalCoverage'[p]) = Covered(totalCoverage[p]) \cup Covered(cov)
            /\ Covered(currentCoverage'[p]) = Covered(currentCoverage[p]) \cup Covered(cov)
        BY <1>3, <3>2, <4>1, UnionFacts
      <4> QED BY <1>13, <3>1, <3>4, <4>2, <4>3
    <3> QED BY <3>3, <3>4
  <2>2. \A p \in Procs : /\ Covered(totalCoverage[p])' = Covered(totalCoverage'[p])
                         /\ Covered(currentCoverage[p])' = Covered(currentCoverage'[p])
    BY DEF Covered
  <2> QED BY <2>1, <2>2 DEF TotalsBounded, Of
<1> QED BY <1>7, <1>8, <1>10, <1>11, <1>12, <1>14

LEMMA InvStep == Inv /\ [Next]_vars => Inv'
<1> SUFFICES ASSUME Inv, [Next]_vars PROVE Inv'
  OBVIOUS
<1>1. CASE GetNextThread
  BY <1>1, GetNextThreadInv
<1>2. CASE RestartAction \/ ProgramEnds
  BY <1>2, NextRunInv DEF RestartAction, ProgramEnds
<1>3. CASE UpdateActionCoverage
  BY <1>3, ReportInv
<1>4. CASE \E p \in TimerProcs : GetNextTimer(p)
  BY <1>4, GetNextTimerInv
<1>5. CASE UNCHANGED vars
  <2>1. UNCHANGED <<strategy, visitedScheds, currentSchedule, currentDepth, initStatus,
                    currentCoverage, totalCoverage, actionStats, currentAction, runningProc,
                    exploredStates, uniqueStates, pc, actions, ofAction, onProc, thisRun,
                    reachedStates, longest>>
    BY <1>5 DEF vars, path, scores, states, history
  <2> QED BY <2>1 DEF Inv, Types, TypeOK, Reporting, StatsAgree, Agree, StatesCounted,
                      NoEstimates, TotalsBounded, Covered, Paths
<1> QED BY <1>1, <1>2, <1>3, <1>4, <1>5 DEF Next

THEOREM CoverageInvariant == Spec => []Inv
BY InitInv, InvStep, PTL DEF Spec

-----------------------------------------------------------------------------
\* Every variable of the explorer's bookkeeping keeps its type.
THEOREM CoverageTyping == Spec => []TypeOK
<1>1. Inv => TypeOK
  BY DEF Inv, Types
<1> QED BY <1>1, CoverageInvariant, PTL

\* UpdateActionCoverage and buildActionStats lose no report and count none
\* twice: the entry of an action is the sum of all that was reported for it, the
\* states are counted exactly, and the random strategy counts real ones.
THEOREM CoverageStats == Spec => []StatsExact
<1>1. Inv => StatsExact
  <2> SUFFICES ASSUME Inv PROVE StatsExact
    OBVIOUS
  <2>1. ASSUME NEW a \in Threads \cup Timers
        PROVE  IF a \in DOMAIN actionStats THEN actionStats[a] = ofAction[a]
               ELSE ofAction[a] = NoCov
    <3>1. a \in Actions /\ ofAction[a] \in CovStats
          /\ \A b \in Blocks : Agree(actionStats, a, b, ofAction[a][b])
      BY DEF Inv, Types, StatsAgree, Actions
    <3>2. CASE a \in DOMAIN actionStats
      <4>1. actionStats[a] \in CovStats
        BY <3>2 DEF Inv, Types, Stats
      <4>2. \A b \in Blocks : actionStats[a][b] = ofAction[a][b]
        BY <3>1, <3>2 DEF Agree
      <4>3. actionStats[a] = ofAction[a]
        BY <3>1, <4>1, <4>2 DEF CovStats
      <4> QED BY <3>2, <4>3
    <3>3. CASE a \notin DOMAIN actionStats
      <4>1. \A b \in Blocks : ofAction[a][b] = 0
        BY <3>1, <3>3 DEF Agree
      <4>2. ofAction[a] = NoCov
        BY <3>1, <4>1 DEF CovStats, NoCov
      <4> QED BY <3>3, <4>2
    <3> QED BY <3>2, <3>3
  <2> QED BY <2>1 DEF Inv, StatesCounted, NoEstimates, StatsExact
<1> QED BY <1>1, CoverageInvariant, PTL

\* The coverage that GetCoverageEstimate leaves in the totals adds to what was
\* reported and names no block that the process never covered.
THEOREM CoverageTotals == Spec => []TotalsBounded
<1>1. Inv => TotalsBounded
  BY DEF Inv
<1> QED BY <1>1, CoverageInvariant, PTL

\* A run that repeats earlier ones, which getNextAction does not count as depth,
\* ends at most maxDepth actions after the length of the longest of them.
THEOREM CoverageRuns == Spec => []RunIsBounded
<1>1. Inv => RunIsBounded
  <2> SUFFICES ASSUME Inv PROVE RunIsBounded
    OBVIOUS
  <2>1. /\ Len(currentSchedule) \in Nat /\ currentDepth \in 0 .. maxDepth
        /\ maxDepth \in Nat /\ longest \in Nat
    BY CoverageAssumption DEF Inv, Types, TypeOK
  <2> QED BY <2>1 DEF Inv, Paths, RunIsBounded
<1> QED BY <1>1, CoverageInvariant, PTL

=============================================================================
