# Verification of the GoDist scheduler (Dara)

Dara records, replays and explores executions of distributed Go programs. The
processes of the program run on a modified Go runtime, in which each has a
*local scheduler*. A *global scheduler* (`src/scheduler.go`) decides which
process, and in replay and exploration also which goroutine, runs next. The two
sides talk through a shared memory area, `procchan`: for every process a spin
lock, a command word `Run`, a log of events, coverage counters and a table of
goroutines. There is no other synchronisation.

This directory holds TLA+ models of that program, TLC configurations that check
them on small instances, and TLAPS proofs for every instance. `PROJECT.json`
maps each definition to the source lines it models.

## Inventory

| Part | Source | State | Operations | Talks to |
|---|---|---|---|---|
| Recording | `scheduler.go` `recordSchedule` | `LastProc`, `procStatus`, `lockStatus`, the schedule | pick a process (`roundRobin`), take its lock, take its events (`extractDataFromProc`), mark the dead | local schedulers, through `procchan` |
| Replay | `replaySchedule` | index `i` into the schedule, `procStatus` | look an event up, install its goroutine, wait, compare | local schedulers |
| Fast replay | `replaySchedule`, first branch | preloaded logs | preload, enable, poll | local schedulers |
| Exploration loop | `exploreSchedule` | run counter, `actionComplete`, `actionInstalled`, `ProcID`, `isblocked` | choose, install and complete an action, end a run, reset | explorer, local schedulers, RPC client |
| Explorer | `explorer/explorer.go` | current path, visited paths, depth, action statistics | `GetNextAction` and what it calls | virtual clocks, coverage |
| Virtual clock | `explorer/vclock.go` | tick, `WaitingQ`, `ReadyQ`, sleeping goroutines | `AddTimerEvent`, `GetNextEvent` | explorer, `ConsumeLog` |
| Coverage | `explorer/coverage.go` | maps block to count | union, difference, three scores, estimate | explorer |
| Overlord: end and restart of runs | `overlord.go` `explore`, `dara_rpc_client`, `exec_script.sh` | two channels, two files, a process | kill, restart, finish, clean up | scheduler, program |
| Overlord: modes | `overlord.go` `record`, `replay`, `explore`, `bench` and what they call | working directory, environment, shared-memory file, schedule file, processes left over | prepare, build, install, start, wait, write | script, scheduler, program |
| Property checker | `propchecker/propchecker.go` | properties, statistics | `Check` | recording, replay, exploration |
| Local scheduler | the Go runtime, not in this repository | goroutines | run, block, wake, end | `procchan` |
| Key-value service | `structured/rsm/` | clocks and pending requests of all clients, the map | `Put`, `Get`, `ClockUpdate`, `Disconnect`; the client library with its clock goroutine | clients, over RPC |
| Philosophers over UDP | `structured/dphil/` | chopsticks, flags, tries | ask, grant, eat, return, leave | each other, over UDP |
| Philosophers over channels | `structured/dphil_local/` | chopstick channels | take, time out, eat, return; `main` closes the channels | each other |
| Tools, instrumenter, bininfo | `tools/`, `instrumenter/`, `bininfo/` | none while the system runs | read or rewrite files | |

What makes the code hard:

* **The hand-over protocol.** The same two words mean different things in three
  modes. A process that blocks on the network gives its lock back, and reports
  that it is awake *without* a lock. Several branches store the lock and the
  command in two steps.
* **What `lockStatus` means.** It records whether the scheduler owns a lock. In
  recording and exploration it is maintained; in replay it is set once and
  never again.
* **Ordering.** A batch of events must be taken before anything else runs, or
  schedule, coverage reports and property checks no longer belong together.
* **Time.** The virtual clock adds unsigned 64-bit ticks; its queues are walked
  in map order.
* **Endings.** There are no timeouts: each loop ends only if every process
  comes to an end that the scheduler gets to see.
* **Four parties over files and channels** start and stop the program between
  runs, and everything the overlord tells the others goes through environment
  variables, which are set and never unset, and files, which may be left over.
* **Shared maps of counts.** Coverage is added in place to maps that are also
  stored elsewhere; an estimate is written back into what it was made from.
* **Late answers.** The subject programs time out and ask again, and what
  answers the first request is still under way.

The hazards these give rise to are listed, each at its line, in `PROJECT.json`.

What correctness means, part by part: in all three modes processes run one at a
time and no event is lost, doubled or reordered; recording leaves a schedule
that *is* the execution; replay repeats it; exploration keeps runs apart and
remembers paths; coverage is counted where it was made; the clock fires timers
in order and wakes all sleepers; the program is started exactly when asked for,
with the memory, schedule and environment of its mode; a replica applies
requests in clock order; chopsticks are conserved; and everything ends.

## Modules

| Module | Models | Checked by | Proved in |
|---|---|---|---|
| `DaraProc` | the values in `procchan`, `roundRobin`, `CheckAllProcsDead` | `record`, `replay`, `explore` | |
| `Record` | `recordSchedule` and the local schedulers | `record` | `RecordProofs` |
| `Serial` | what recording, replay and exploration promise, without locks | `record`, `replay` (`ReplaysSerially`), `explore` (`ExploresSerially`) | `RecordProofs`, `ReplayProofs`, `ExploreProofs` |
| `SerialRecord` | `Serial` with coverage reports | `record` (`RefinesSerial`) | `RecordProofs` |
| `VClock` | the virtual clock | `vclock` | `VClockProofs` |
| `Replay`, `MCReplay` | event-by-event replay; every schedule up to a length | `replay` | `ReplayProofs` |
| `Explore` | `exploreSchedule`, `GetNextAction`, local schedulers | `explore`, `explore_timer` | `ExploreProofs` |
| `Coverage` | coverage arithmetic, strategies, action statistics | `coverage` | `CoverageProofs` |
| `ExecScript` | the variables `Lifecycle` and `Overlord` share: overlord, script, program, `explore_finish` | both | |
| `Lifecycle` | RPC client, script and program, run after run | `lifecycle`, `lifecycle_stuck` | `OverlordProofs` |
| `Overlord` | the modes of the overlord, with the start of the scheduler | `overlord` | `OverlordProofs` |
| `KVService` | the key-value service and its clients | `kvservice` | `KVServiceProofs` |
| `Dining` | the circle, the chopsticks and the dining goroutine, shared by the two below | both | |
| `DiningUDP` | philosophers in processes | `dining_udp` | `DiningProofs` |
| `DiningLocal` | philosophers in one process | `dining_local` | `DiningProofs` |

The modules meet where the parts do: `Record`, `Replay` and `Explore` share the
protocol words of `DaraProc` and implement the same abstract scheduler,
`Serial`; `Explore` leaves open which goroutine is chosen,
and `Coverage` is that choice, with every report `Explore` could make as input;
`Explore` has one step each for killing and restarting the program, and
`Lifecycle` is what happens in it; `Overlord` has one start of the program where
`Lifecycle` has many, and one step for a whole recording, replay or
exploration. Both extend `ExecScript`; as one proof module extends both, the
names of `Lifecycle` begin with `LC` where they would meet those of `Overlord`
(`LCSpec`, `LCTypeOK`). In the same way `DiningUDP` and `DiningLocal` extend
`Dining`, and names of `DiningLocal` begin with `Local`.

### Record

Variables carry the names of the code. `pc` is the place in the loop: `pick`
(head of the outer loop), `spin` (the compare-and-swap), `held` (the lock is
ours), `regrant` (between the two stores of the wake-up branch), `done`. Each
branch on `Run` inside the loop is one action (`RecordNotRun`,
`RecordFinished`, `RecordBlocked`, `RecordWoken` and `RecordRegrant`,
`RecordEvents`, `RecordOther`), including its call of `extractDataFromProc`
(`Extract`). While the scheduler owns a lock, stores it makes together are one
step; the branch that stores the lock *before* the command is two. `Log[p]` is
the part of the log up to `LogIndex`. The context of the property checker is
kept as one variable per process, the value of which is the event that wrote
it; coverage is a set of blocks, each named after the event that covered it.
`executed` is a history variable.

`Local...` and `NetWake` are the runtime's side. They are external: the runtime
takes the lock when it is free and the command tells it to, runs a goroutine,
and gives the lock back with one of the statuses that `recordSchedule` tests
for. The main goroutine of a process may return while others are alive
(`LocalFinish` leaves `allDead` open): `CheckAllGoRoutinesDead` then never holds,
the scheduler keeps the lock, and every further look at the process makes a
report of nothing (`Lingering`).

### Serial, SerialRecord

What the three loops over `procchan` have in common once locks and command
words are hidden. `taken` is what the scheduler has taken, `pending` what the
process that runs has left behind. Either a process runs and adds its own events
to what is pending, or all of it is taken at once; an exploration may begin
anew when nothing is pending (`SerialRuns`). A second process cannot run before
the events of the first are taken: all pending events are of one process.
`SerialRecord` adds the reports: one for each batch, tied to its last event, and
reports of nothing only once the last process to run has ended with goroutines
alive (`lingers`); after that no process runs any more.

| | `taken` | `pending` |
|---|---|---|
| `Record` | `LogEvents` | `Log[LastProc]` |
| `Replay` | `consumed` | `Log[P]`, and nothing after the last index |
| `Explore` | `schedule` | `Log[ProcID]`, and nothing before a process was chosen |

For `Explore` this is claimed of local programs: the processes of a distributed
one run when a message arrives, whoever's turn it is.

### VClock

One clock. `WaitingQ` is a function from event ids to events, as the Go map is.
`GetNextTimer` is `GetNextEvent`: from `ReadyQ` if there is anything
(`FromReady`), otherwise move the clock to the earliest timer, `updateQs`, and
take from `ReadyQ` (`FromWaiting`). The order in which a Go map is walked is a
nondeterministic choice (`ReadyOrders`). `Add64` is addition with wrap-around.

### Replay

Every store of `replaySchedule` is a step, since the scheduler does not own the
lock from the second event of a process on. `ReplayChoose` is the part from the
look-up of runnable goroutines to the choice, with the `goto` that skips timer
events; `l.Fatal` sits inside `dprint` and does nothing when logging is off,
hence `LogOff`. A recorded schedule is a sequence of events grouped in turns; a
process told to run the goroutine of its next turn repeats that turn
(`LocalReplay`), otherwise it logs other events (`LocalDiverge`). Execution is
taken to be deterministic: a process ends after its last recorded turn as long
as every process ran what it was told to. Once one did not (`Astray`), any
process may end at any turn, and the events it still has in the schedule are
waited for for ever (`EndedEarly`). `MCReplay` makes all schedules up to
`MaxTurns` turns.

### Explore

`pc` alternates between `select` and `poll`. The `Choose...` actions are
`GetNextAction`; the `Poll...` actions are the branches on `Run` under the lock.
Two kinds of programs are explored (`program`): a *local* one, whose goroutines
sleep, and a *distributed* one, whose processes wait for the network and have
timers. What the distributed one can do breaks promises the local one relies
on, and the properties say which. The clocks are kept as the explorer sees them
(who sleeps, which timer waits); a clock asked for a timer may wake its
sleepers. `Kill` and `Restart` stand for the answers of the overlord. The
goroutines of a process that has ended may keep their statuses, so that one of
them may be chosen; a message need never arrive.

### Coverage

A step is `GetNextAction` with the strategy's loop over all possible actions, or
`UpdateActionCoverage` with the coverage the action had. `CovStats` is a function
from blocks to counts. Scores are exact fractions, compared by multiplying out:
the code adds floats in map order, so a tie may fall either way in it.
`actionStats` begins with what `BuildActionStats` made of a seed schedule.
`ofAction`, `onProc`, `thisRun` and `reachedStates` are history variables: what
was reported. `longest` is one, too: the length of the longest run before this
one. The loops of the code over a schedule or
a list of actions are recursive functions on the length of what was walked so
far (`BuildActionStats`, `Search`). Actions are offered in the order of the
code's lists: by process, then by goroutine (`Listed`).

### Lifecycle

`mpc` is `exploreSchedule`, `cpc` `dara_rpc_client` together with the call it
waits for, `opc` `explore()` of the overlord, `spc` `exec_script.sh`. An
unbuffered channel is a joint step of sender and receiver. `pkill` fails if
there is no program. The program may start and end late: the scheduler's five
seconds of sleep are not a guarantee. `runscript` tells the two branches of
`killprogram` apart: of a program with a run script only the script is killed,
by name, and the programs it has started are `left`. `stale` says that an
`explore_restart` of an exploration that was stopped by hand was there before.

### Overlord

`opc` is the place in the overlord, `phase` what it is doing in it (a column of
the benchmark, or a mode). `env` is its environment, which its children inherit;
`values` the times the benchmark has taken, each with the mode, the environment
and the outcome of the run it was taken from. The script waits for its last
program only: what else it started is in `strays`, which still has the shared
memory of its time (`here`: the same file; `elsewhere`: one that was deleted
since). The scheduler may fail to start (`failed`: no schedule file, nobody
listening) or crash at work (`crashed`); replay and exploration do so when
there is no schedule they can decode (`CannotDecode`). A program ends once its schedule does;
`sleep 2` in the script has no meaning without time.

### KVService

Every call of a client is handled in steps at the replica: `sent`, `waiting`
(in `returnWhenStable`), `stable` (the first mutex is free again), `applied`
(answered). A clock update travels beside it (`upd`). A replica may stop at any
time (`Crash`), and a client goes on to the next one. One key; a value is the
client that wrote it. `applied` and `late` are history variables: `late` holds
what an update of the request's own client had overtaken.

### DiningUDP, DiningLocal

Over UDP: `Main(p)` is the goroutine that dines, `Asking(p, k)` the one that
made the k-th request and still reads from the socket after `Main` has given up
on it, `GiveStick`, `TimeoutStick`, `ReceiveStick` and `Excuse` the listener's.
Packets are counted; `Lose` takes one away. Over channels: a channel of capacity 1 is a
count and a flag `closed`; `announced` counts what `main` has heard, and -1 is a
panic. A timeout may happen at any time in both.

## Runs

| Run | Instance | Shows |
|---|---|---|
| `record` | 3 processes, 2 with network, up to 3 turns each with 1 or 2 events of two kinds, `RECORDLEN` 5, 3 reports | one process at a time, the schedule is the execution, coverage and checks belong to the events they name, the dead are dead, `RefinesSerial`, the ways for recording to stop |
| `vclock` | 2 goroutines, 1 timer id, 3 events, delays and periods 0..2, ticks 0..9 | sleepers have alarms and wake, timers fire in order, nothing is overdue |
| `replay` | all schedules of up to 3 turns of 1 or 2 events, 2 processes, 3 goroutines, logging on and off | one process at a time, no event lost, replay is faithful unless a command was seen without its goroutine, it implements `Serial`, it ends unless a race made a process end early |
| `explore` | 2 processes, 2 goroutines, 2 runs, depth 2; a local and a distributed program | what the scheduler believes about locks is true, one process at a time, no event lost, a run that left the known paths never comes back to one, a local program implements `Serial`, it ends unless an action is stranded or the one message it waits for never comes |
| `explore_timer` (violation) | 2 processes, 1 with timers | `ActionOnItsProcess` fails |
| `coverage` | 2 processes, 2 goroutines, 1 timer, 2 blocks, depth 1, 4 actions, all strategies | action statistics are exact, totals neither forget nor invent, states are counted right, a run exceeds the longest before it by `maxDepth` at most |
| `lifecycle` | 5 runs, with and without a run script | started as often as asked, no run without its program, ends with nothing left behind except in two named ways |
| `lifecycle_stuck` (violation) | 5 runs | `Finishes` fails: two answers to one request |
| `overlord` | all modes, 2 iterations | columns hold what their labels say and no failed start, memory and schedule are a run's own, it ends, and without a needless fatal error, except in two named ways |
| `kvservice` | 2 clients, one of which reads, 2 replicas, one of which may stop | clock order unless overtaken, a client reads its own write, everybody is served |
| `dining_udp` | 2 philosophers, 2 tries, 1 lost packet | chopsticks are conserved, neighbours do not eat at once, nobody leaves while needed, the ways not to end |
| `dining_local` | 3 philosophers, 3 tries | the same, and the only way to panic |

A run checks what takes several steps to go wrong. Type invariants are not
checked but proved, for every module that keeps state, and so are two
invariants that others rest on: `ReadyIsDueNow` of `VClock`, which `FiresEarliest`
needs, and `TakenInOrder` of `Replay`, which says of the history what
`ReplaysSerially` says of each step.

### Bounds, and why they are enough

* *Processes.* Two are needed for anything to go wrong between processes; three
  for `roundRobin` to skip one and to have two blocked while one runs.
* *Turns (`MaxSlices`, `MaxTurns`).* Two turns reach every branch of the loop;
  a third is needed to block, wake, and run or block again before the command of
  the wake-up branch is stored. In replay the scheduler no
  longer owns a process's lock after its first turn, so two turns of one
  process and one of another reach every overlap.
* *Events in a turn (`MaxBatch`, `MaxEvents`).* Two tell "one index per batch"
  from "one index per event".
* *`RECORDLEN` = 5* is less than a third of the longest execution (18 events),
  so the limit is met exactly, stepped over, and not met; from the second event
  on a process that does not block is told to stop, one that blocks is not. `MaxReports` = 3 leaves room for a report of nothing
  after others; it only bounds the looks at a process that has ended.
* *Ticks.* `Horizon + 2 MaxDelay < MaxUint64` keeps ordinary events away from
  the wrap-around, which is then reached only in the way the program reaches
  it. Three events suffice for two that are due together and one that is not.
* *Runs.* Two explorations show what one leaves for the next; five life cycles
  go well past the two or three in which a late start or a late end of one run
  can meet the requests of the next. Two iterations of the benchmark show what
  one column leaves for the next, and one iteration for the other.
* *Depth.* Two explorations of depth 2 let the second follow the path of the
  first for a while, leave it, and go beyond the depth of the first.
* *Coverage.* With depth 1 and four actions a second or third run repeats the
  path of an earlier one and goes on beyond the depth; two blocks tell a common
  from a new one.
* *Clients and replicas.* Two clients order requests against each other, two
  replicas let one fail.
* *Tries and packets.* A second try meets the late answer to the first; one
  lost packet is enough to stop a dinner. `DiningUDP` was also run with three
  philosophers, one try and one loss (1.4 million states, more than the run
  should take): with two, the borrower and the neighbour of a philosopher are
  the same.

`CHECK_DEADLOCK FALSE` is used where the system really stops: when a clock has
no events left, when replay, exploration, life cycle or a subject program is
over, or a bound is used up. In the `record` run deadlock is checked.

### Fairness

* The global scheduler is a thread that never blocks for ever on anything but
  its loops: weak fairness.
* A local scheduler competes for a spin lock that the other side takes and
  drops with pauses: it is enabled again and again, never continuously, and
  gets the lock in the end: strong fairness on acquiring it.
* A goroutine that runs comes back: weak fairness. This is an assumption about
  the program under test.
* That a process which waits for the network ever gets its message is not
  assumed: the sender may be a process that the scheduler does not run, or may
  have ended. `RecordingStops` and `ExplorationEnds` name what follows.
* `GetNextAction` tosses a coin between timers and goroutines: weak fairness on
  `GetNextTimer`.
* In `Lifecycle` each party goes on when it can, and a program told to end
  ends. That a program ends by itself is not assumed; in `Overlord`, where a
  program is a single step, it ends with its schedule unless the scheduler has
  crashed.
* In the subject programs goroutines go on, sleeps end, and what is not lost
  arrives: weak fairness. Whether a timeout or an answer comes first is open.

## What is proved

Every safety property that a passing run checks (invariants, action properties
and refinements) is a theorem. Eight modules hold proofs, each for every value
of the constants that the assumption of its module allows. The assumptions say
that numbers are natural, that there is at least one process, client, replica or
turn, and at least two philosophers; that subsets are subsets and sets of
goroutines that are counted are finite; that the schedules given to replay are
schedules (`IsSchedule`); and, in `VClockAssumption`, that ordinary events stay
away from the wrap-around of the clock. The theorems have the form
`Spec => []P`, except `VClockFires` and `ExplorePaths`, which are about action
properties, and the refinements `RecordRefinement`, `ReplayRefinement` and
`ExploreRefinement`. Hardly any of these properties is inductive: what follows
names the invariants that make them so. A lemma `...Step` shows one of them kept by a
step, with a case for every action.

### Recording (`RecordProofs`)

`RecordTyping`: `TypeOK`. `RecordSerial`: `SerialExecution`; `RecordOrder`:
`RecordedInOrder`; `RecordDead`: `DeadIsFinal`; `RecordCoverage`:
`CoverageOfBatch`; `RecordContext`: `CheckedInContext`; `RecordRefinement`:
`Spec => RefinesSerial`.

`SerialExecution` speaks of who runs, and who runs is decided by locks that were
stored many steps before. The invariant adds what the code takes for granted:

* `LockInv`: if the scheduler owns a lock (by `lockStatus`, except between the
  two stores of the wake-up branch) it is locked and its process does not run;
  a process that runs has its lock locked.
* `TurnInv`: of all processes but the one whose turn it is, the scheduler owns
  the lock and the log is empty.
* `CommandInv`: which commands go with an empty and which with a full log. This
  is why the branches that do not extract anything leave nothing behind.
* `DeadInv`: dead processes have ended and left nothing; the one whose turn it
  is, is alive. `FinishInv`: the scheduler goes on from a process that has finished
  only if none of its goroutines is alive, so one that lingers is the last.
* `OrderInv`: the execution is the schedule followed by the log of the process
  whose turn it is.
* `CoverInv`: the coverage in shared memory is that of the events in the log.
  `ReportInv`: the reports account for the whole schedule, batch by batch.
* `ContextInv`: the context of the property checker is that of the schedule, at
  every check already made.

`StepKinds` shows that a step runs the process whose turn it is, moves its log,
chooses a process while all logs are empty, or changes none of this; order,
coverage, context and refinement follow from it.

### Virtual clock (`VClockProofs`)

`VClockTyping`: `TypeOK`; `VClockSleepers`: `SleepersHaveAlarms`; `VClockReady`:
`ReadyIsDueNow`; `VClockOverdue`: `NothingOverdue`; `VClockFires`: the action property
`FiresEarliest`. The invariant adds that a goroutine has at most one alarm
(`AlarmInv`), without which waking it would leave another behind, and how far
ahead an event can be (`WhenInv`), without which the sum of tick and period
could wrap.

### Replay (`ReplayProofs`)

For every schedule, not only those `MCReplay` makes: `ReplayTyping`,
`ReplaySerial` (`SerialReplay`), `ReplayOrder` (`TakenInOrder`), `ReplayFaithful`
(`Faithful`), `ReplayRefinement` (`Spec => ReplaysSerially`).

* `TurnInv`: only a process that was told to run a goroutine runs one, and it is
  the one whose turn it is. Replay has no lock to tell it by: the argument is
  about the command word alone.
* `LogInv`: only that process has events to be taken, and what was executed is
  what was consumed followed by them.
* `FaithInv`: as long as no runtime has read a command without its goroutine
  (`raced`), what was consumed *is* the schedule without the turns that were
  skipped; the log under way is the turn due (`Pending`), and skipped events are
  timers (`LeftOut`). `SelectedStep` is the lemma on positions: those that follow
  all others are listed after them.
* `OwnInv`: a process logs its own events. Where it repeats a turn of the
  schedule this is a fact about schedules: all events of a turn are of one
  process (`OwnTurn`).

For the refinement `StepKind` says that a step lets the process whose turn it is
log something, takes its log, or does neither; each kind is a step of `Serial`
or leaves it alone.

### Exploration (`ExploreProofs`)

`ExploreTyping`, `ExploreLocks` (`LockDiscipline`), `ExploreSerial`
(`SerialExplore`), `ExploreOrder` (`TakenInOrder`), `ExplorePaths`
(`LeavesForGood`), `ExploreRefinement` (`Spec => ExploresSerially`), for both
kinds of program.

* `Bounds`: a run is counted when it ends; a process that can run has slices
  left.
* `LocalInv`, for a program on one machine: between two actions nothing is
  installed, nothing runs and no log holds anything; while one is installed,
  only its process runs or has run.
* `OrderInv`: each event was taken or waits in the log of its process, in the
  order they happened (`Kept`). For a distributed program this is claimed of
  the first run only, as in `TakenInOrder`.
* `PathInv`: the visited paths are a tree, as every path is recorded with each
  action, and the path under way is one of them. Once it has left what was there
  before the run (`currentDepth` > 0), nothing that was visited goes beyond it.
  This is what makes the depth of a run a bound: the code counts only actions
  that lead to a new path.

The refinement follows from `LocalInv`: an action that is complete leaves its
log empty, so that a new choice of `ProcID` hides nothing that is pending.

### Overlord and life cycle (`OverlordProofs`)

`OverlordTyping`, `OverlordMeasured` (`MeasuredAsLabelled`), `OverlordFiles`
(`OwnFiles`); for `Lifecycle`, `LifecycleTyping` (`LCTypeOK`) and
`LifecycleLaunches` (`LaunchedAsAsked`).

* `PlaceInv`: the place in the overlord tells the phase. `EnvInv`: in the
  benchmark the environment is that of the phase from `Setup` on; nobody has
  asked for fast replay before it, and it comes last.
* `ScriptInv`: the script runs only while the overlord waits for it.
  `MemoryInv`: until it has ended nobody else has the memory, which is as it was
  made until the scheduler opens it.
* `ScheduleInv`: the last recording left what is replayed, unless one of them
  crashed.
* `LaunchInv`: every run allows one start, and so does a stale `explore_restart`;
  it was used, is about to be, or is on its way as a request or a file.

### Key-value service (`KVServiceProofs`)

`KVTyping`, `KVOrder` (`OrderedUnlessLate`), `KVReads` (`ReadsOwnWrite`), for any
number of clients and replicas, any of which may stop.

* `ClockInv`: no replica knows a clock its client has not had; a clock beyond
  the request under way came with an update, and no later update sets it back
  behind that request.
* `SeenInv`: a replica remembers the request it handles, and takes only those
  clients for gone that ask no more.
* `AheadInv`: whatever another client may still ask of a replica goes after all
  it has applied or found stable, or will be known to be late when it comes.
  This is the reason for `returnWhenStable`, and `OrderedUnlessLate` follows.
* `WriteInv`: a Put that has gone past a replica that is up was applied there,
  the map holds the last Put applied, and a Get came after the client's own.

### Coverage (`CoverageProofs`)

`CoverageTyping` (`TypeOK`), `CoverageStats` (`StatsExact`), `CoverageTotals`
(`TotalsBounded`), `CoverageRuns` (`RunIsBounded`), for any number of processes,
goroutines and blocks, any seed schedule and all strategies.

* *Sums.* Statistics are sums over the events of a seed. A sum over a set is a
  recursion that takes any element first: it exists (`SumDefined`) and does not
  depend on the order (`SumAnyOrder`). These are inductions on the size of the
  set. The library states induction for an operator, which the provers cannot
  instantiate; `Induction` states it for a set of numbers, which they can.
* *The seed.* `SeedStats`: after k events the statistics of an action are its
  part of the first k events, added up.
* *Estimates.* `SearchWithin`: a search adds to a total only what is known of
  actions of the same process, and takes nothing away, whatever it passes over.
* `StatsAgree`: what is known of an action is what it reported in all;
  `StatesCounted`: a state is counted when it enters the set; `NoEstimates`: the
  random strategy leaves coverage as reported.
* `Paths`: the run under way exceeds the longest run before it by its depth at
  most. A path that was seen is no longer than that run, or is one this run has
  gone through itself; so an action that does not add to the depth stays within
  the length of the longest run.

### Philosophers (`DiningProofs`)

Over UDP: `DiningTyping`, `DiningSticks` (`SticksConserved`), `DiningExclusion`
(`NeighboursExclude`), `DiningLeaving` (`LeavesWhenNotNeeded`). `GrantInv`: a try
gets the chopstick only when its goroutine reads the answer, so late answers are
counted with the try that asked. `PhaseInv` and `ExcuseInv` tie meals and
excuses to the place of the main goroutine; `RequestInv`: one request per try,
which bounds what is under way. Over channels: `DiningLocalTyping`,
`DiningLocalSticks` (`LocalSticksConserved`), `DiningLocalPanic`
(`PanicOnReturn`), from `HolderInv` (a chopstick is missing exactly when somebody has it) and `CloseInv`
(a channel is closed only after its owner's last send on it).

### Only model-checked

* Liveness and everything under fairness, which is out of the prover's reach:
  `RecordingStops`, `SleepEnds`, `ReplayEnds`, `ExplorationEnds`,
  `FinishesUnlessLate`, `RunGetsProgram`, `OverlordEnds`, `Served`, `DinnerEnds`,
  `LocalDinnerEnds`.
* The two runs that must fail: they are counterexamples.
* That the recorded `Schedules` of the `replay` run are schedules: TLC evaluates
  the assumption of `Replay` on them.

## Where code and text disagree

Two runs must find a violation; each quotes in `PROJECT.json` the text the code
contradicts.

1. *A timer fires on another process* (`scheduler.go:858`, `explore_timer`).
2. *Two answers to one request* (`scheduler.go:720`, `lifecycle_stuck`).

Everywhere else the models reproduce what the code does, and a passing property
says exactly how far a promise holds:

* *Wake-up in recording* (`scheduler.go:644`). The lock is free before the
  command is stored. A process that ends in between has its last status
  overwritten and is waited for for ever (`Overwritten`).
* *Goroutines that are left* (`scheduler.go:672`). A process whose main goroutine
  returned while others are alive is never marked dead; its lock is kept, and
  the loop makes a report of nothing every time (`Lingering`).
* *Near `RECORDLEN`* a process is marked with -4 but its lock is kept; if its
  turn comes again the loop spins (`RecordEvents`, `RecordOther`, `ToldToStop`).
  `RecordingStops`: recording ends, or stops in one of these three ways, unless
  a message never arrives. It rests on the runtime going on as soon as the lock
  is free.
* *The clock goes back* (`vclock.go:80`). With only sleepers waiting the clock is
  set to the last tick; the next event brings it back. `NothingOverdue`: only from
  there can it go back.
* *Replay installs the goroutine after the command and without the lock*
  (`scheduler.go:491`). `Faithful`: replay follows the schedule as long as no
  runtime reads in between (`raced`).
* *A process that ends early in replay* (`scheduler.go:449`) leaves events in the
  schedule that replay waits for for ever (`EndedEarly`); this takes a race.
* *After a skipped timer event* replay looks the next one up among the goroutines
  of the skipped one's process (`ReplayChoose`).
* *A killed run's last events* stay in the log of a process that came back from
  the network, and the next run gets them (`TakenInOrder` is about the first run
  only for such programs).
* *An action on a process that has ended* is never installed (`Stranded`): a
  goroutine of an ended process may be chosen (`explorer.go:355`), a timer leaves
  `ProcID` at the process of the action before (`scheduler.go:857`), and a process
  that came back from the network may end by itself.
* *Only `ProcID` is looked at* when all processes are blocked, or when a timer was
  chosen while it waits: if its message does not come, the exploration stays
  there, whatever the others get (`WaitsForMessage`, `NothingToChoose`,
  `PollBlocked`). After all sleepers were woken there may be nothing to choose
  and `rand.Intn(0)` panics (`ChooseFromNothing`).
* *A program started after the last `pkill` runs on* (`Orphaned`), and a program
  whose `explore_finish` is older than itself is never started (`Unstarted`). After
  a run script the programs it has started are left running (`left`).
* *The script hides that the scheduler failed*; the program then waits for it
  (`Abandoned`). `MeasuredAsLabelled`: for this reason the benchmark never takes
  such a time for a run.
* *The best action is not the one that is taken*: the strategies return the
  address of the loop variable (Go before 1.22), and estimates are written into
  the totals they are made from (`Coverage`).
* *A clock update may overtake a request of its own client*, which is then served
  out of order (`late` in `KVService`).
* *A grant that comes late is wasted*, and the chopstick with it (`Wasted` in
  `DiningUDP`); over channels a chopstick that comes back to somebody who is
  done panics (`PanicOnReturn`).

## Not modelled

* *Fast replay.* `initGlobalScheduler` leaves every lock taken and the branch
  never gives one back: who does, and so whether the polling ever ends, is
  decided by the Go runtime alone, which is not in this repository. What is
  left is to preload a list and to poll.
* *The property checker's `Check`* is sequential: it calls compiled functions on
  a context and counts the results. When it is called, and on which context, is
  in `Record` (`CheckedInContext`). Loading properties is a plugin build.
* *Instrumenter, bininfo, `common`, report tools*: compilers, file readers and
  formatters without state. *Front ends, examples, benchmarks*: inputs of the
  tool.
* *The Go runtime* except for its side of the protocol, taken from what
  `scheduler.go` relies on and marked external. A local scheduler that crashes
  is not modelled: nothing in the scheduler reacts to it.
* Formatting, logging, result files, the command line, and the set-up of shared
  memory, the outcome of which is `Init`. Time: all sleeps and timeouts may be
  early or late.

## Plan

1. *Done*: all the modules above; a theorem for every safety property that a run
   checks; three loops shown to implement one abstract scheduler.
2. *Left*: the hazards `PROJECT.json` lists without a property, each with the
   reason. Fast replay and the Go runtime's own scheduler would need the runtime's
   source.
