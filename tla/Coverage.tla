------------------------------ MODULE Coverage ------------------------------
(***************************************************************************)
(* What the explorer knows about coverage and how it chooses by it:        *)
(* coverage.go (unions, scores, estimates) and the strategies, action      *)
(* statistics and state counter of explorer.go.  One step of the model is  *)
(* the choice of an action (GetNextAction) or the report of what the       *)
(* action covered (UpdateActionCoverage); exploreSchedule, which carries   *)
(* the action out, is modelled in Explore.                                 *)
(*                                                                         *)
(* A CovStats gives every block a count, 0 for a block that is not a key.  *)
(* Scores are exact fractions; the code adds floats in any order.          *)
(***************************************************************************)
EXTENDS Integers, Sequences, FiniteSets, SequencesExt

CONSTANTS
  numProcs,
  GoRoutines,        \* goroutine ids; 1 is the main goroutine
  TimerProcs,        \* processes with timers
  Blocks,
  maxDepth,
  MaxActions,        \* bound: actions in all runs
  MaxCount,          \* bound: blocks covered by one action
  MaxSeed            \* bound: coverage events of the seed schedule

Procs == 1 .. numProcs

ASSUME CoverageAssumption ==
  /\ numProcs \in Nat \ {0}
  /\ 1 \in GoRoutines /\ GoRoutines \subseteq Nat /\ IsFiniteSet(GoRoutines)
  /\ TimerProcs \subseteq Procs
  /\ {maxDepth, MaxActions} \subseteq Nat \ {0} /\ {MaxCount, MaxSeed} \subseteq Nat

VARIABLES
  strategy,
  visitedScheds, currentSchedule, currentDepth, initStatus,
  currentCoverage,   \* per process: this run
  totalCoverage,     \* per process: all runs
  actionStats,       \* of every known action: all runs and the seed
  currentAction, runningProc,
  exploredStates, uniqueStates,
  pc,                \* "choose" or "report"
  actions,           \* actions taken
  ofAction,          \* history: what every action covered, the seed included
  onProc,            \* history: what the actions of a process covered
  thisRun,           \* history: the same for this run
  reachedStates,     \* history: the values of thisRun after every action
  longest            \* history: the length of the longest run before this one

path   == <<visitedScheds, currentSchedule, currentDepth, initStatus>>
scores == <<currentCoverage, totalCoverage, actionStats>>
states == <<exploredStates, uniqueStates>>
history == <<ofAction, onProc, thisRun, reachedStates, longest>>
vars   == <<strategy, path, scores, currentAction, runningProc, states, pc, actions, history>>

-----------------------------------------------------------------------------
\* Actions: a goroutine of a process, a timer of a process, or neither yet.
ProcThread(p, g) == <<"T", p, g>>
ProcTimer(p)     == <<"Ti", p, 1>>
NoAction         == <<"", 0, 0>>
Restart          == <<"RESTART", 0, 0>>

Threads == {ProcThread(p, g) : p \in Procs, g \in GoRoutines}
Timers  == {ProcTimer(p) : p \in TimerProcs}
ProcID(a) == a[2]

CovStats == [Blocks -> Nat]
NoCov == [b \in Blocks |-> 0]
Covered(cov) == {b \in Blocks : cov[b] > 0}

\* What one action may report.
Batches == {cov \in [Blocks -> 0 .. MaxCount] : SumFunction(cov) <= MaxCount}

-----------------------------------------------------------------------------
(***************************************************************************)
(* coverage.go                                                             *)
(***************************************************************************)
CoverageUnion(cov1, cov2) == [b \in Blocks |-> cov1[b] + cov2[b]]

merge_coverage(all) ==
  [b \in Blocks |->
    [Frequency |-> SumFunction([p \in Procs |-> all[p][b]]),
     NumNodes  |-> Cardinality({p \in Procs : all[p][b] > 0})]]

\* A score is a fraction <<n, d>>.
Plus(x, n, d) == <<x[1] * d + n * x[2], x[2] * d>>
Above(x, y) == x[1] * y[2] > y[1] * x[2]

calcScore(merged, obj) ==
  LET reached == {b \in Blocks : merged[b].Frequency > 0}
      weight(b) == IF obj = "NODE_FREQUENCY" THEN merged[b].NumNodes ELSE 1
  IN  IF obj = "UNIQUE" THEN <<Cardinality(reached), 1>>
      ELSE FoldLeft(LAMBDA x, b : Plus(x, weight(b), merged[b].Frequency),
                    <<0, 1>>, SetToSeq(reached))

CalcFullCoverageScore(all, obj) == calcScore(merge_coverage(all), obj)

\* Mutant: the estimate is added to the coverage of every process.
Estimated_All(all, cov, p) == [q \in Procs |-> CoverageUnion(all[q], cov)]

\* GetCoverageEstimate leaves the estimate behind in the coverage it is given.
Estimated(all, cov, p) == [all EXCEPT ![p] = CoverageUnion(@, cov)]

-----------------------------------------------------------------------------
(***************************************************************************)
(* The strategies.  A search goes through the possible threads, except     *)
(* those it passes over, and carries the coverage it writes its estimates  *)
(* into, the best score, and whether that was improved.                    *)
(***************************************************************************)
Objective == [COVERAGE_UNIQUE |-> "UNIQUE", COVERAGE_FREQUENCY |-> "FREQUENCY",
              COVERAGE_NODE_FREQUENCY |-> "NODE_FREQUENCY"]

Strategies == {"RANDOM"} \cup DOMAIN Objective

Consider(s, t) ==
  LET all    == Estimated(s.all, actionStats[t], ProcID(t))
      score  == CalcFullCoverageScore(all, Objective[strategy])
      better == Above(score, s.best)
  IN  [all |-> all, best |-> IF better THEN score ELSE s.best,
       improved |-> s.improved \/ better]

Search(all, threads, passed) ==
  LET s[k \in 0 .. Len(threads)] ==
        IF k = 0 THEN [all |-> all, best |-> CalcFullCoverageScore(all, Objective[strategy]),
                       improved |-> FALSE]
        ELSE IF threads[k] \in passed THEN s[k - 1] ELSE Consider(s[k - 1], threads[k])
  IN  s

(***************************************************************************)
(* getNextCoverageThreadHelper: what it may return, and the coverage it    *)
(* leaves behind.  It keeps a pointer to the loop variable, so a search    *)
(* that finds an improvement returns the last of the threads.  The second  *)
(* search passes over the paths that were seen, too.                       *)
(***************************************************************************)
CoverageChoices(threads) ==
  LET unseen == ToSet(threads) \ DOMAIN actionStats
      seen   == {t \in ToSet(threads) : Append(currentSchedule, t) \in visitedScheds}
      total  == Search(totalCoverage, threads, unseen)[Len(threads)]
      near   == Search(currentCoverage, threads, unseen \cup seen)[Len(threads)]
      choices(from, cur) ==
        {[thread |-> t, total |-> total.all, current |-> cur] : t \in from}
  IN  IF total.improved THEN choices({Last(threads)}, currentCoverage)
      ELSE IF unseen # {} THEN choices(unseen, currentCoverage)
      ELSE choices(IF near.improved THEN {Last(threads)} ELSE ToSet(threads), near.all)

NextThreads(threads) ==
  IF strategy # "RANDOM" THEN CoverageChoices(threads)
  ELSE {[thread |-> t, total |-> totalCoverage, current |-> currentCoverage] :
          t \in ToSet(threads)}

-----------------------------------------------------------------------------
(***************************************************************************)
(* Mounting the explorer: action statistics come from the seed schedule.   *)
(***************************************************************************)
\* Mutant: a known action keeps its first coverage.
Learn_Once(stats, a, cov) ==
  IF a \in DOMAIN stats THEN stats ELSE [x \in DOMAIN stats \cup {a} |->
    IF x = a THEN cov ELSE stats[x]]

\* The entry of an unknown action is made, that of a known one grows.
Learn(stats, a, cov) ==
  [x \in DOMAIN stats \cup {a} |->
     IF x # a THEN stats[x]
     ELSE IF a \in DOMAIN stats THEN CoverageUnion(stats[a], cov) ELSE cov]

BuildActionStats(seed) ==
  LET stats[k \in 0 .. Len(seed)] ==
        IF k = 0 THEN << >> ELSE Learn(stats[k - 1], seed[k].action, seed[k].cov)
  IN  stats

SeedEvents == {[action |-> t, cov |-> cov] : t \in Threads, cov \in Batches}

MountExplorer(seed) ==
  /\ currentCoverage = [p \in Procs |-> NoCov]
  /\ totalCoverage = [p \in Procs |-> NoCov]
  /\ initStatus = [p \in Procs |-> FALSE]
  /\ exploredStates = {} /\ uniqueStates = 0
  /\ actionStats = BuildActionStats(seed)[Len(seed)]
  /\ visitedScheds = {} /\ currentSchedule = <<>> /\ currentDepth = 0

Init ==
  /\ strategy \in Strategies
  /\ currentAction = NoAction /\ runningProc = 0
  /\ pc = "choose" /\ actions = 0
  /\ \E seed \in BoundedSeq(SeedEvents, MaxSeed) :
       /\ MountExplorer(seed)
       /\ ofAction = [a \in Threads \cup Timers |-> [b \in Blocks |->
            SumFunction([i \in DOMAIN seed |-> IF seed[i].action = a THEN seed[i].cov[b] ELSE 0])]]
  /\ onProc = [p \in Procs |-> NoCov] /\ thisRun = onProc /\ reachedStates = {}
  /\ longest = 0

-----------------------------------------------------------------------------
(***************************************************************************)
(* Choosing the next action.                                               *)
(***************************************************************************)
\* Mutant: only a schedule that was seen counts.
Visit_Swapped(a) ==
  LET schedule == Append(currentSchedule, a)
  IN  /\ currentSchedule' = schedule
      /\ visitedScheds' = visitedScheds \cup {schedule}
      /\ currentDepth' = IF schedule \in visitedScheds THEN currentDepth + 1
                         ELSE currentDepth

\* A schedule that was seen before does not add to the depth.
Visit(a) ==
  LET schedule == Append(currentSchedule, a)
  IN  /\ currentSchedule' = schedule
      /\ visitedScheds' = visitedScheds \cup {schedule}
      /\ currentDepth' = IF schedule \in visitedScheds THEN currentDepth
                         ELSE currentDepth + 1

Act(a) ==
  /\ Visit(a)
  /\ currentAction' = a /\ runningProc' = ProcID(a)
  /\ actions < MaxActions /\ actions' = actions + 1
  /\ pc' = "report"

\* getAllDaraProcs lists the goroutines by process; of a process that has not
\* run yet only the first may be chosen.
Listed(t, u) == t[2] < u[2] \/ (t[2] = u[2] /\ t[3] < u[3])

Lists == {s \in BoundedSeq(Threads, Cardinality(Threads)) :
            \A i, j \in DOMAIN s : i < j => Listed(s[i], s[j])}

ThreadLists ==
  {s \in Lists : s # <<>> /\ \A t \in ToSet(s) : ~ initStatus[ProcID(t)] => t[3] = 1}

GetNextThread ==
  /\ pc = "choose" /\ currentDepth < maxDepth
  /\ \E threads \in ThreadLists : \E next \in NextThreads(threads) :
       /\ totalCoverage' = next.total /\ currentCoverage' = next.current
       /\ Act(next.thread)
       /\ initStatus' = [initStatus EXCEPT ![ProcID(next.thread)] = TRUE]
  /\ UNCHANGED <<strategy, actionStats, states, history>>

GetNextTimer(p) ==
  /\ pc = "choose" /\ currentDepth < maxDepth
  /\ Act(ProcTimer(p))
  /\ UNCHANGED <<strategy, initStatus, scores, states, history>>

RestartExploration ==
  /\ visitedScheds' = visitedScheds \cup {currentSchedule}
  /\ currentDepth' = 0 /\ currentSchedule' = <<>>
  /\ currentCoverage' = [p \in Procs |-> NoCov]
  /\ initStatus' = [p \in Procs |-> FALSE]

NextRun ==
  /\ pc = "choose" /\ currentSchedule # <<>>
  /\ RestartExploration
  /\ actions < MaxActions
  /\ longest' = IF Len(currentSchedule) > longest THEN Len(currentSchedule) ELSE longest
  /\ thisRun' = [p \in Procs |-> NoCov]
  /\ UNCHANGED <<strategy, totalCoverage, actionStats, states, pc, actions, ofAction, onProc,
                 reachedStates>>

\* The depth is reached, or no thread can run and no timer waits.
RestartAction ==
  /\ NextRun
  /\ currentAction' = Restart /\ runningProc' = 0

\* All processes have ended: exploreSchedule restarts the explorer itself.
ProgramEnds ==
  /\ NextRun
  /\ UNCHANGED <<currentAction, runningProc>>

-----------------------------------------------------------------------------
(***************************************************************************)
(* What the action covered.                                                *)
(***************************************************************************)
AddCoverage(p, cov) ==
  /\ currentCoverage' = [currentCoverage EXCEPT ![p] = CoverageUnion(@, cov)]
  /\ totalCoverage' = [totalCoverage EXCEPT ![p] = CoverageUnion(@, cov)]

\* The state of the run is the current coverage of all processes.
CountState ==
  /\ exploredStates' = exploredStates \cup {currentCoverage'}
  /\ uniqueStates' = IF currentCoverage' \in exploredStates THEN uniqueStates
                     ELSE uniqueStates + 1

Note(cov) ==
  LET p == runningProc
      Add(c) == [b \in Blocks |-> c[b] + cov[b]]
  IN  /\ ofAction' = [ofAction EXCEPT ![currentAction] = Add(@)]
      /\ onProc' = [onProc EXCEPT ![p] = Add(@)]
      /\ thisRun' = [thisRun EXCEPT ![p] = Add(@)]
      /\ reachedStates' = reachedStates \cup {thisRun'}
      /\ UNCHANGED longest

UpdateActionCoverage ==
  /\ pc = "report"
  /\ \E cov \in Batches :
       /\ actionStats' = Learn(actionStats, currentAction, cov)
       /\ AddCoverage(runningProc, cov)
       /\ Note(cov)
  /\ CountState
  /\ pc' = "choose"
  /\ UNCHANGED <<strategy, path, currentAction, runningProc, actions>>

Next ==
  \/ GetNextThread \/ RestartAction \/ ProgramEnds \/ UpdateActionCoverage
  \/ \E p \in TimerProcs : GetNextTimer(p)

Spec == Init /\ [][Next]_vars

-----------------------------------------------------------------------------
\* Every variable has its type.
TypeOK ==
  /\ strategy \in Strategies
  /\ visitedScheds \subseteq Seq(Threads \cup Timers)
  /\ currentSchedule \in Seq(Threads \cup Timers)
  /\ currentDepth \in 0 .. maxDepth
  /\ initStatus \in [Procs -> BOOLEAN]
  /\ currentCoverage \in [Procs -> CovStats] /\ totalCoverage \in [Procs -> CovStats]
  /\ DOMAIN actionStats \subseteq Threads \cup Timers
  /\ \A a \in DOMAIN actionStats : actionStats[a] \in CovStats
  /\ currentAction \in Threads \cup Timers \cup {NoAction, Restart}
  /\ runningProc \in Procs \cup {0}
  /\ exploredStates \subseteq [Procs -> CovStats] /\ uniqueStates \in Nat
  /\ pc \in {"choose", "report"} /\ longest \in Nat /\ actions \in 0 .. MaxActions

\* What is known of an action is the sum of what it covered in the seed and in
\* every run: none is lost and none is counted twice.  The state counter is exact,
\* too, without estimates, that is with the random strategy.
StatsExact ==
  /\ \A a \in Threads \cup Timers :
       IF a \in DOMAIN actionStats THEN actionStats[a] = ofAction[a] ELSE ofAction[a] = NoCov
  /\ uniqueStates = Cardinality(exploredStates)
  /\ strategy = "RANDOM" => exploredStates = reachedStates

\* Estimates are mixed into the totals of a process, but they hide nothing that
\* was reported, and they invent nothing: no total names a block that no action
\* of that process ever covered, in a run or in the seed.
TotalsBounded ==
  \A p \in Procs :
    /\ \A b \in Blocks :
         totalCoverage[p][b] >= onProc[p][b] /\ currentCoverage[p][b] >= thisRun[p][b]
    /\ Covered(totalCoverage[p]) \cup Covered(currentCoverage[p])
         \subseteq UNION {Covered(ofAction[a]) : a \in {x \in Threads \cup Timers : ProcID(x) = p}}

\* A run that repeats earlier ones is not counted deep, but it cannot go on for
\* ever: it is at most maxDepth actions longer than the longest run before.
RunIsBounded == Len(currentSchedule) <= longest + maxDepth
=============================================================================
