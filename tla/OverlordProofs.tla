--------------------------- MODULE OverlordProofs ---------------------------
(***************************************************************************)
(* Proofs about Overlord, for every mode and every number of iterations,   *)
(* and about Lifecycle, for every number of runs.                          *)
(***************************************************************************)
EXTENDS Overlord, Lifecycle, TLAPS

\* The place in the overlord tells the phase it is in.
PlaceInv ==
  /\ opc = "main" => phase = "none"
  /\ opc \in {"go_setup", "normal"} => options.mode = "bench" /\ phase = "normal"
  /\ opc = "reset" => options.mode = "bench"
  /\ opc \in {"reset", "setup", "start", "wait"} =>
       IF options.mode = "bench" THEN phase \in {"record", "replay", "fast"}
                                 ELSE phase = options.mode
  /\ phase = "fast" => options.PreloadReplay

\* In the benchmark the environment is that of the phase, from the time when it
\* was last set up; until fast replay, which comes last, nobody asked for it.
EnvInv ==
  options.mode = "bench" =>
    /\ env.DARA_MODE # "explore"
    /\ opc \in {"main", "go_setup", "normal"} => env.DARA_MODE = "unset"
    /\ env.FAST_REPLAY => phase \in {"fast", "write"}
    /\ opc \in {"start", "wait"} =>
         /\ env.DARA_MODE = ModeOf(phase)
         /\ env.FAST_REPLAY <=> phase = "fast"

\* The script runs only while the overlord waits for it, and has a scheduler
\* once it went to sleep.  A program ends only with a scheduler that started.
ScriptInv ==
  /\ opc # "wait" => spc \in {"none", "end"}
  /\ spc \in {"none", "exec"} => sched = "none"
  /\ spc = "end" => sched \in {"done", "failed", "crashed"}
  /\ prog = "ended" => sched \in {"work", "done", "crashed"}
  /\ options.mode = "bench" /\ spc \in {"fg", "end"} => prog = "ended"

\* From Setup until the script has ended nobody else has the shared memory, and
\* until the scheduler has opened it, it is as it was made.
MemoryInv ==
  /\ opc = "start" \/ spc \in {"exec", "sleep", "program", "fg"} => strays # "here"
  /\ opc = "start" \/ spc = "exec" \/ sched = "boot" => DaraSharedMem = "zero"

\* A recording that was completed has left its schedule, and so the last one
\* has left what is replayed, unless one of them crashed.
Recorded == Schedule = "new" \/ \E v \in values : v.column = "record" /\ v.outcome = "crashed"

ScheduleInv ==
  options.mode = "bench" =>
    /\ opc = "wait" /\ phase = "record" /\ sched = "done" => Schedule = "new"
    /\ phase \in {"replay", "fast"} => Recorded

Inv ==
  TypeOK /\ PlaceInv /\ EnvInv /\ ScriptInv /\ MemoryInv /\ ScheduleInv /\ MeasuredAsLabelled

-----------------------------------------------------------------------------
\* Where the loops over the iterations go.
LEMMA IterationFacts ==
  ASSUME TypeOK, PlaceInv, NextIteration, opc \in {"normal", "wait"}, options.mode = "bench"
  PROVE  /\ i' \in 0 .. NUM_ITERATIONS - 1
         /\ phase' \in {"normal", "record", "replay", "fast", "write"}
         /\ phase' = "normal" => phase = "normal" /\ opc' = "normal"
         /\ phase' = "write" => opc' = "write"
         /\ phase' \in {"record", "replay", "fast"} => opc' = "reset"
         /\ phase' = "fast" => options.PreloadReplay
         /\ phase' = "record" => phase \in {"normal", "record"}
         /\ phase' = "replay" => phase \in {"record", "replay"}
         /\ phase = "fast" => phase' \in {"fast", "write"}
<1>1. i \in 0 .. NUM_ITERATIONS - 1 /\ NUM_ITERATIONS \in Nat \ {0}
  BY OverlordAssumption DEF TypeOK
<1>2. phase \in {"normal", "record", "replay", "fast"}
  BY DEF PlaceInv
<1>3. i' \in 0 .. NUM_ITERATIONS - 1
  BY <1>1 DEF NextIteration
<1>4. phase' = phase \/ phase' = NextPhase
  BY DEF NextIteration
<1>5. opc' = IF phase' = "write" THEN "write"
             ELSE IF phase' = "normal" THEN "normal" ELSE "reset"
  BY DEF NextIteration
<1>6. phase = "fast" => options.PreloadReplay
  BY DEF PlaceInv
<1> QED BY <1>2, <1>3, <1>4, <1>5, <1>6 DEF NextPhase

\* Every step keeps the types.
LEMMA TypeStep ==
  ASSUME TypeOK, PlaceInv, ScriptInv, [Next]_vars
  PROVE  TypeOK'
<1> USE DEF overlord, children, files
<1>1. CASE Main \/ GoSetup
  BY <1>1 DEF Main, GoSetup, BuildTargetProgram, TypeOK, Modes, Columns
<1>2. CASE NormalRun
  <2>1. options.mode = "bench" /\ phase = "normal"
    BY <1>2 DEF NormalRun, PlaceInv
  <2>2. values' \subseteq [column : Columns, DARA_MODE : Modes \cup {"unset"},
                           FAST_REPLAY : BOOLEAN, outcome : {"done", "failed", "crashed"}]
    BY <1>2, <2>1 DEF NormalRun, Timed, TypeOK, Columns
  <2>3. /\ i' \in 0 .. NUM_ITERATIONS - 1
        /\ phase' \in Columns \cup {"write"} /\ opc' \in {"normal", "write", "reset"}
    BY <1>2, <2>1, IterationFacts DEF NormalRun, Columns
  <2> QED BY <1>2, <2>2, <2>3 DEF NormalRun, TypeOK
<1>3. CASE ResetDir
  BY <1>3 DEF ResetDir, TypeOK
<1>4. CASE Setup
  <2>1. phase \in Columns \cup Modes /\ ModeOf(phase) \in Modes \cup {"unset", "normal"}
    BY <1>4 DEF Setup, PlaceInv, TypeOK, ModeOf, Columns, Modes
  <2>2. ModeOf(phase) # "normal"
    BY <1>4 DEF Setup, PlaceInv, TypeOK, ModeOf, Modes
  <2>3. env' \in [DARA_MODE : Modes \cup {"unset"}, FAST_REPLAY : BOOLEAN, RUN_SCRIPT : BOOLEAN]
    BY <1>4, <2>1, <2>2 DEF Setup, SetEnvironment, TypeOK
  <2> QED BY <1>4, <2>3 DEF Setup, SetupSharedMem, BuildTargetProgram, TypeOK
<1>5. CASE StartGlobalScheduler
  BY <1>5 DEF StartGlobalScheduler, TypeOK
<1>6. CASE StepFails
  BY <1>6 DEF StepFails, TypeOK
<1>7. CASE RpcServer
  BY <1>7 DEF RpcServer, TypeOK
<1>8. CASE WriteResults
  BY <1>8 DEF WriteResults, TypeOK
<1>9. CASE WaitBench
  <2>1. options.mode = "bench" /\ phase \in Columns /\ sched \in {"done", "failed", "crashed"}
    BY <1>9 DEF WaitBench, PlaceInv, ScriptInv, Columns
  <2>2. values' \subseteq [column : Columns, DARA_MODE : Modes \cup {"unset"},
                           FAST_REPLAY : BOOLEAN, outcome : {"done", "failed", "crashed"}]
    BY <1>9, <2>1 DEF WaitBench, Timed, TypeOK
  <2>3. /\ i' \in 0 .. NUM_ITERATIONS - 1
        /\ phase' \in Columns \cup {"write"} /\ opc' \in {"normal", "write", "reset"}
    BY <1>9, <2>1, IterationFacts DEF WaitBench, Columns
  <2> QED BY <1>9, <2>2, <2>3 DEF WaitBench, TypeOK
<1>10. CASE WaitMode
  <2>1. opc' \in {"done", "fatal"} /\ explore_finish' \in BOOLEAN
    BY <1>10 DEF WaitMode, TypeOK
  <2> QED BY <1>10, <2>1 DEF WaitMode, TypeOK
<1>11. CASE Script
  BY <1>11 DEF Script, ScriptExec, ScriptLaunch, ScriptProgram, ScriptEnd, TypeOK
<1>12. CASE InitGlobalScheduler \/ Begin \/ InitFails
  BY <1>12 DEF InitGlobalScheduler, Begin, InitFails, TypeOK
<1>13. CASE RecordEnds \/ ReplayEnds
  BY <1>13 DEF RecordEnds, ReplayEnds, TypeOK
<1>14. CASE ExploreEnds
  <2>1. explore_finish' \in BOOLEAN /\ sched' \in {"done", "crashed"}
    BY <1>14 DEF ExploreEnds, TypeOK
  <2> QED BY <1>14, <2>1 DEF ExploreEnds, TypeOK
<1>15. CASE ProgramEnds \/ UNCHANGED vars
  BY <1>15 DEF ProgramEnds, vars, TypeOK
<1> QED BY <1>1, <1>2, <1>3, <1>4, <1>5, <1>6, <1>7, <1>8, <1>9, <1>10, <1>11, <1>12,
           <1>13, <1>14, <1>15 DEF Next, OverlordStep, Scheduler
\* Every step keeps places and phases together.
LEMMA PlaceStep ==
  ASSUME TypeOK, PlaceInv, [Next]_vars
  PROVE  PlaceInv'
<1> USE DEF overlord, children, files, PlaceInv
<1>1. CASE Main \/ GoSetup \/ ResetDir
  BY <1>1 DEF Main, GoSetup, ResetDir, TypeOK, Modes
<1>2. CASE NormalRun \/ WaitBench
  <2>1. /\ NextIteration /\ opc \in {"normal", "wait"} /\ options.mode = "bench"
        /\ options' = options
    BY <1>2 DEF NormalRun, WaitBench
  <2> QED BY <2>1, IterationFacts
<1>3. CASE Setup \/ StartGlobalScheduler \/ StepFails \/ WaitMode \/ WriteResults
  BY <1>3 DEF Setup, StartGlobalScheduler, StepFails, WaitMode, WriteResults
<1>4. CASE RpcServer \/ Script \/ Scheduler \/ InitFails \/ ProgramEnds \/ UNCHANGED vars
  <2>1. UNCHANGED <<options, opc, phase>>
    BY <1>4 DEF RpcServer, Script, ScriptExec, ScriptLaunch, ScriptProgram, ScriptEnd,
                Scheduler, InitGlobalScheduler, Begin, RecordEnds, ReplayEnds, ExploreEnds,
                InitFails, ProgramEnds, vars
  <2> QED BY <2>1
<1> QED BY <1>1, <1>2, <1>3, <1>4 DEF Next, OverlordStep

\* Every step keeps the environment of the benchmark.
LEMMA EnvStep ==
  ASSUME TypeOK, PlaceInv, EnvInv, [Next]_vars
  PROVE  EnvInv'
<1> USE DEF overlord, children, files, EnvInv
<1>1. CASE Main \/ GoSetup \/ ResetDir
  BY <1>1 DEF Main, GoSetup, ResetDir, PlaceInv
<1>2. CASE NormalRun \/ WaitBench
  <2>1. /\ NextIteration /\ opc \in {"normal", "wait"} /\ options.mode = "bench"
        /\ UNCHANGED <<options, env>>
    BY <1>2 DEF NormalRun, WaitBench, PlaceInv
  <2>2. /\ phase' \in {"normal", "record", "replay", "fast", "write"}
        /\ phase' = "normal" => phase = "normal" /\ opc' = "normal"
        /\ phase' = "write" => opc' = "write"
        /\ phase' \in {"record", "replay", "fast"} => opc' = "reset"
        /\ phase = "fast" => phase' \in {"fast", "write"}
    BY <2>1, IterationFacts
  <2>3. phase = "normal" => env.DARA_MODE = "unset"
    BY <2>1 DEF PlaceInv
  <2>4. env.FAST_REPLAY => phase = "fast"
    BY <2>1 DEF PlaceInv
  <2>5. opc' = "normal" => env.DARA_MODE = "unset"
    BY <2>2, <2>3
  <2>6. env.FAST_REPLAY => phase' \in {"fast", "write"}
    BY <2>2, <2>4
  <2> QED BY <2>1, <2>2, <2>5, <2>6
<1>3. CASE Setup
  <2>1. options.mode = "bench" => phase \in {"record", "replay", "fast"}
    BY <1>3 DEF Setup, PlaceInv
  <2>2. phase = "fast" => options.PreloadReplay
    BY DEF PlaceInv
  <2>3. /\ env'.DARA_MODE = ModeOf(phase)
        /\ env'.FAST_REPLAY = \/ env.FAST_REPLAY
                              \/ options.PreloadReplay /\ phase = "fast"
                              \/ options.PreloadReplay /\ options.mode = "replay"
        /\ UNCHANGED <<options, phase>> /\ opc' = "start"
    BY <1>3 DEF Setup, SetEnvironment
  <2>4. options.mode = "bench" => /\ env'.DARA_MODE # "explore"
                                  /\ env'.FAST_REPLAY <=> phase = "fast"
    BY <2>1, <2>2, <2>3 DEF ModeOf
  <2> QED BY <2>3, <2>4
<1>4. CASE StartGlobalScheduler \/ StepFails \/ WaitMode \/ WriteResults
  BY <1>4 DEF StartGlobalScheduler, StepFails, WaitMode, WriteResults
<1>5. CASE RpcServer \/ Script \/ Scheduler \/ InitFails \/ ProgramEnds \/ UNCHANGED vars
  <2>1. UNCHANGED <<options, opc, phase, env>>
    BY <1>5 DEF RpcServer, Script, ScriptExec, ScriptLaunch, ScriptProgram, ScriptEnd,
                Scheduler, InitGlobalScheduler, Begin, RecordEnds, ReplayEnds, ExploreEnds,
                InitFails, ProgramEnds, vars
  <2> QED BY <2>1
<1> QED BY <1>1, <1>2, <1>3, <1>4, <1>5 DEF Next, OverlordStep

\* Every step keeps script, scheduler and program together.
LEMMA ScriptStep ==
  ASSUME PlaceInv, EnvInv, ScriptInv, [Next]_vars
  PROVE  ScriptInv'
<1> USE DEF overlord, children, files, ScriptInv
<1>1. CASE Main \/ GoSetup \/ ResetDir \/ Setup \/ StepFails \/ WriteResults
  <2>1. opc # "wait" /\ opc' # "wait" /\ UNCHANGED <<options, children>>
    BY <1>1 DEF Main, GoSetup, ResetDir, Setup, StepFails, WriteResults
  <2> QED BY <2>1
<1>2. CASE NormalRun \/ WaitBench \/ WaitMode
  <2>1. opc # "wait" \/ spc = "end"
    BY <1>2 DEF NormalRun, WaitBench, WaitMode
  <2>2. UNCHANGED <<options, children>>
    BY <1>2 DEF NormalRun, WaitBench, WaitMode
  <2> QED BY <2>1, <2>2
<1>3. CASE StartGlobalScheduler
  BY <1>3 DEF StartGlobalScheduler
<1>4. CASE RpcServer \/ UNCHANGED vars
  BY <1>4 DEF RpcServer, vars
<1>5. CASE ScriptExec \/ ScriptEnd
  BY <1>5 DEF ScriptExec, ScriptEnd
<1>6. CASE ScriptLaunch
  <2>1. options.mode = "bench" => env.DARA_MODE # "explore"
    BY DEF EnvInv
  <2> QED BY <1>6, <2>1 DEF ScriptLaunch
<1>7. CASE ScriptProgram
  BY <1>7 DEF ScriptProgram
<1>8. CASE InitGlobalScheduler \/ Begin \/ InitFails
  BY <1>8 DEF InitGlobalScheduler, Begin, InitFails
<1>9. CASE RecordEnds \/ ReplayEnds \/ ExploreEnds
  BY <1>9 DEF RecordEnds, ReplayEnds, ExploreEnds
<1>10. CASE ProgramEnds
  BY <1>10 DEF ProgramEnds
<1> QED BY <1>1, <1>2, <1>3, <1>4, <1>5, <1>6, <1>7, <1>8, <1>9, <1>10
        DEF Next, OverlordStep, Script, Scheduler

\* Every step keeps the shared memory for those who run.
LEMMA MemoryStep ==
  ASSUME TypeOK, ScriptInv, MemoryInv, [Next]_vars
  PROVE  MemoryInv'
<1> USE DEF overlord, children, files, MemoryInv
<1>1. CASE Main \/ GoSetup \/ NormalRun \/ ResetDir \/ WaitBench \/ WaitMode \/ StepFails
           \/ WriteResults
  <2>1. /\ opc' # "start" /\ UNCHANGED <<children, DaraSharedMem, strays>>
    BY <1>1 DEF Main, GoSetup, NormalRun, NextIteration, ResetDir, WaitBench, WaitMode,
                StepFails, WriteResults
  <2> QED BY <2>1
<1>2. CASE Setup
  <2>1. spc \in {"none", "end"} /\ sched # "boot" /\ UNCHANGED children
    BY <1>2 DEF Setup, ScriptInv
  <2>2. DaraSharedMem' = "zero" /\ strays' # "here"
    BY <1>2 DEF Setup, SetupSharedMem
  <2> QED BY <2>1, <2>2
<1>3. CASE StartGlobalScheduler
  BY <1>3 DEF StartGlobalScheduler
<1>4. CASE Script
  BY <1>4 DEF Script, ScriptExec, ScriptLaunch, ScriptProgram, ScriptEnd, ScriptInv
<1>5. CASE InitGlobalScheduler \/ InitFails
  <2>1. /\ opc = "wait" /\ spc # "exec" /\ sched' # "boot"
        /\ UNCHANGED <<opc, spc, strays>>
    BY <1>5 DEF InitGlobalScheduler, InitFails, ScriptInv
  <2> QED BY <2>1
<1>6. CASE Begin \/ RecordEnds \/ ReplayEnds \/ ExploreEnds \/ ProgramEnds \/ RpcServer
           \/ UNCHANGED vars
  <2>1. /\ UNCHANGED <<opc, spc, strays, DaraSharedMem>>
        /\ sched' = sched \/ sched' # "boot"
    BY <1>6 DEF Begin, RecordEnds, ReplayEnds, ExploreEnds, ProgramEnds, RpcServer, vars
  <2> QED BY <2>1
<1> QED BY <1>1, <1>2, <1>3, <1>4, <1>5, <1>6 DEF Next, OverlordStep, Scheduler

\* Every step keeps what was recorded.
LEMMA ScheduleStep ==
  ASSUME TypeOK, PlaceInv, EnvInv, ScriptInv, ScheduleInv, [Next]_vars
  PROVE  ScheduleInv'
<1> USE DEF overlord, children, files
<1>0. ASSUME Recorded, values \subseteq values', Schedule' = Schedule PROVE Recorded'
  BY <1>0 DEF Recorded
<1>1. CASE Main \/ GoSetup \/ ResetDir \/ Setup \/ StepFails \/ WaitMode \/ WriteResults
  <2>1. /\ opc' # "wait" /\ UNCHANGED <<options, Schedule, values>>
        /\ phase' = phase \/ phase' = "normal" \/ options.mode # "bench"
    BY <1>1 DEF Main, GoSetup, ResetDir, Setup, StepFails, WaitMode, WriteResults
  <2> QED BY <1>0, <2>1 DEF ScheduleInv
<1>2. CASE NormalRun
  <2>1. /\ NextIteration /\ options.mode = "bench" /\ phase = "normal"
    BY <1>2 DEF NormalRun, PlaceInv
  <2>2. phase' \notin {"replay", "fast"} /\ opc' # "wait"
    BY <2>1 DEF NextIteration, NextPhase
  <2> QED BY <2>2 DEF ScheduleInv
<1>3. CASE WaitBench
  <2>1. /\ NextIteration /\ options.mode = "bench" /\ phase \in {"record", "replay", "fast"}
        /\ opc = "wait" /\ Schedule' = Schedule /\ Timed(sched)
        /\ sched \in {"done", "failed", "crashed"}
    BY <1>3 DEF WaitBench, PlaceInv, ScriptInv
  <2>2. sched # "failed"
    BY <1>3, <2>1 DEF WaitBench, ScriptInv
  <2>3. phase = "record" => Recorded'
    <3>1. CASE sched = "done"
      BY <2>1, <3>1 DEF ScheduleInv, Recorded
    <3>2. CASE sched = "crashed" /\ phase = "record"
      <4>1. PICK v : /\ v \in values'
                     /\ v = [column |-> phase, DARA_MODE |-> env.DARA_MODE,
                             FAST_REPLAY |-> env.FAST_REPLAY, outcome |-> sched]
        BY <2>1 DEF Timed
      <4>2. v.column = "record" /\ v.outcome = "crashed"
        BY <3>2, <4>1
      <4> QED BY <4>1, <4>2 DEF Recorded
    <3> QED BY <2>1, <2>2, <3>1, <3>2
  <2>4. phase \in {"replay", "fast"} => Recorded'
    BY <1>0, <2>1 DEF ScheduleInv, Timed
  <2>5. opc' # "wait"
    BY <2>1 DEF NextIteration
  <2> QED BY <2>1, <2>3, <2>4, <2>5 DEF ScheduleInv
<1>4. CASE StartGlobalScheduler
  <2>1. sched' = "none" /\ UNCHANGED <<options, phase, Schedule, values>>
    BY <1>4 DEF StartGlobalScheduler
  <2> QED BY <1>0, <2>1 DEF ScheduleInv
<1>5. CASE RecordEnds
  <2>1. options.mode = "bench" => phase = "record"
    BY <1>5 DEF RecordEnds, ScriptInv, PlaceInv, EnvInv, ModeOf
  <2>2. UNCHANGED <<options, phase>> /\ (sched' = "done" => Schedule' = "new")
    BY <1>5 DEF RecordEnds
  <2> QED BY <2>1, <2>2 DEF ScheduleInv
<1>6. CASE ReplayEnds \/ ExploreEnds
  <2>1. options.mode = "bench" => phase # "record"
    BY <1>6 DEF ReplayEnds, ExploreEnds, ScriptInv, PlaceInv, EnvInv, ModeOf
  <2>2. UNCHANGED <<options, phase, Schedule, values>>
    BY <1>6 DEF ReplayEnds, ExploreEnds
  <2> QED BY <1>0, <2>1, <2>2 DEF ScheduleInv
<1>7. CASE RpcServer \/ Script \/ InitGlobalScheduler \/ Begin \/ InitFails \/ ProgramEnds
           \/ UNCHANGED vars
  <2>1. /\ UNCHANGED <<options, opc, phase, Schedule, values>>
        /\ sched' = sched \/ sched' # "done"
    BY <1>7 DEF RpcServer, Script, ScriptExec, ScriptLaunch, ScriptProgram, ScriptEnd,
                InitGlobalScheduler, Begin, InitFails, ProgramEnds, vars
  <2> QED BY <1>0, <2>1 DEF ScheduleInv
<1> QED BY <1>1, <1>2, <1>3, <1>4, <1>5, <1>6, <1>7 DEF Next, OverlordStep, Scheduler

\* What is timed is a run of the phase.
LEMMA MeasuredStep ==
  ASSUME TypeOK, PlaceInv, EnvInv, ScriptInv, MeasuredAsLabelled, [Next]_vars
  PROVE  MeasuredAsLabelled'
<1> USE DEF overlord, children, files
<1>1. CASE NormalRun
  <2>1. /\ phase = "normal" /\ env.DARA_MODE = "unset" /\ ~ env.FAST_REPLAY /\ Timed("done")
    BY <1>1 DEF NormalRun, PlaceInv, EnvInv
  <2> QED BY <2>1 DEF Timed, MeasuredAsLabelled
<1>2. CASE WaitBench
  <2>1. /\ phase # "normal" /\ env.DARA_MODE = ModeOf(phase)
        /\ env.FAST_REPLAY <=> phase = "fast"
        /\ Timed(sched)
    BY <1>2 DEF WaitBench, PlaceInv, EnvInv
  <2>2. sched # "failed"
    BY <1>2 DEF WaitBench, ScriptInv
  <2> QED BY <2>1, <2>2 DEF Timed, MeasuredAsLabelled
<1>3. CASE Main \/ GoSetup \/ ResetDir \/ Setup \/ StartGlobalScheduler \/ StepFails
           \/ WaitMode \/ WriteResults
  BY <1>3 DEF Main, GoSetup, ResetDir, Setup, StartGlobalScheduler, StepFails, WaitMode,
              WriteResults, MeasuredAsLabelled
<1>4. CASE RpcServer \/ Script \/ Scheduler \/ InitFails \/ ProgramEnds \/ UNCHANGED vars
  <2>1. values' = values
    BY <1>4 DEF RpcServer, Script, ScriptExec, ScriptLaunch, ScriptProgram, ScriptEnd,
                Scheduler, InitGlobalScheduler, Begin, RecordEnds, ReplayEnds, ExploreEnds,
                InitFails, ProgramEnds, vars
  <2> QED BY <2>1 DEF MeasuredAsLabelled
<1> QED BY <1>1, <1>2, <1>3, <1>4 DEF Next, OverlordStep

-----------------------------------------------------------------------------
LEMMA InitInv == Init => Inv
<1> SUFFICES ASSUME Init PROVE Inv
  OBVIOUS
<1>1. /\ options \in [mode : Modes, PreloadReplay : BOOLEAN, RunScript : BOOLEAN]
      /\ env \in [DARA_MODE : Modes \cup {"unset"}, FAST_REPLAY : BOOLEAN, RUN_SCRIPT : BOOLEAN]
      /\ i \in 0 .. NUM_ITERATIONS - 1
  BY OverlordAssumption DEF Init
<1>2. TypeOK
  BY <1>1 DEF Init, TypeOK
<1>3. PlaceInv /\ EnvInv /\ ScriptInv
  BY DEF Init, PlaceInv, EnvInv, ScriptInv
<1>4. MemoryInv /\ ScheduleInv /\ MeasuredAsLabelled
  BY DEF Init, MemoryInv, ScheduleInv, MeasuredAsLabelled
<1> QED BY <1>2, <1>3, <1>4 DEF Inv

LEMMA Invariance == Spec => []Inv
<1>1. Inv /\ [Next]_vars => Inv'
  BY TypeStep, PlaceStep, EnvStep, ScriptStep, MemoryStep, ScheduleStep, MeasuredStep DEF Inv
<1> QED BY <1>1, InitInv, PTL DEF Spec

\* Every variable has its type; the counter of the benchmark stays below the
\* number of iterations.
THEOREM OverlordTyping == Spec => []TypeOK
<1>1. Inv => TypeOK
  BY DEF Inv
<1> QED BY <1>1, Invariance, PTL

\* Every time the benchmark takes is that of a run with the environment of its
\* column, and never of one whose scheduler failed to start.
THEOREM OverlordMeasured == Spec => []MeasuredAsLabelled
<1>1. Inv => MeasuredAsLabelled
  BY DEF Inv
<1> QED BY <1>1, Invariance, PTL

\* A run shares its memory with nobody and finds it new, and the benchmark
\* replays what it recorded itself.
THEOREM OverlordFiles == Spec => []OwnFiles
<1>1. Inv => OwnFiles
  <2> SUFFICES ASSUME Inv PROVE OwnFiles
    OBVIOUS
  <2>1. sched \in {"boot", "ready", "work"} => spc \in {"sleep", "program", "fg"} /\ opc = "wait"
    BY DEF Inv, ScriptInv, TypeOK
  <2>2. /\ sched \in {"boot", "ready", "work"} => strays # "here"
        /\ sched = "boot" => DaraSharedMem = "zero"
    BY <2>1 DEF Inv, MemoryInv
  <2>3. options.mode = "bench" /\ env.DARA_MODE = "replay" /\ sched = "work" => Recorded
    BY <2>1 DEF Inv, PlaceInv, EnvInv, ScheduleInv, ModeOf
  <2> QED BY <2>2, <2>3 DEF OwnFiles, Recorded
<1> QED BY <1>1, Invariance, PTL

-----------------------------------------------------------------------------
(***************************************************************************)
(* Lifecycle: the same overlord, script and program from one restart of an *)
(* exploration to the next.                                                *)
(***************************************************************************)
\* The script is about to start the program, a request lies in the directory,
\* and one is on its way there.
AboutToLaunch == spc = "launch" \/ (spc = "check" /\ ~ explore_finish)
Requested     == op = "restart" /\ (mpc = "send" \/ cpc = "call")

One(b) == IF b THEN 1 ELSE 0

\* The last run is over once the scheduler has decided to finish.
RunInv ==
  /\ op = "finish" => current_run = MAX_EXPLORE_RUNS /\ mpc # "run"
  /\ op # "finish" => current_run < MAX_EXPLORE_RUNS

\* How many starts the runs so far allow: the one under way or asked for too.
Allowed == IF op = "finish" THEN current_run ELSE current_run + 1

\* Every run of the scheduler allows one start, and so does a request that was
\* there before: it was used, is about to be, or is still on its way.
LaunchInv ==
  /\ launches \in Nat /\ current_run \in Nat
  /\ launches + One(AboutToLaunch) + One(explore_restart) + One(Requested)
       <= Allowed + One(stale)
  /\ cpc = "call" => mpc = "receive"
  /\ spc = "rm" => explore_restart \/ explore_finish

LEMMA LaunchStep ==
  ASSUME LaunchInv, [LCNext]_lcVars
  PROVE  LaunchInv'
<1> USE DEF scheduler, messages, program, given, LaunchInv, AboutToLaunch, Requested,
            One, Allowed
<1>1. CASE RunCut \/ SendCommand
  BY <1>1 DEF RunCut, SendCommand
<1>2. CASE RunOver
  BY <1>2 DEF RunOver, NextRun
<1>3. CASE KillExecution \/ FinishKill
  BY <1>3 DEF KillExecution, FinishKill, Pkill
<1>4. CASE RestartExecution
  BY <1>4 DEF RestartExecution
<1>5. CASE FinishExecution
  BY <1>5 DEF FinishExecution
<1>6. CASE AnswerFalse \/ AnswerTrue
  BY <1>6 DEF AnswerFalse, AnswerTrue, GoOn, NextRun
<1>7. CASE ScriptCheck \/ Launch
  BY <1>7 DEF ScriptCheck, Launch
<1>8. CASE ScriptWait \/ ScriptRemove \/ LCScriptEnd
  BY <1>8 DEF ScriptWait, ScriptRemove, LCScriptEnd
<1>9. CASE ProgramFinish \/ LastProgramEnds \/ OthersFinish \/ ProgramExit
  BY <1>9 DEF ProgramFinish, LastProgramEnds, OthersFinish, ProgramExit
<1>10. CASE Cleanup
  BY <1>10 DEF Cleanup
<1>11. CASE UNCHANGED lcVars
  BY <1>11 DEF lcVars
<1> QED BY <1>1, <1>2, <1>3, <1>4, <1>5, <1>6, <1>7, <1>8, <1>9, <1>10, <1>11
        DEF LCNext, Explorer, Client, LCScript, Program

\* The program is never started more often than the scheduler asked for, in any
\* number of runs: a request is a file, and the script removes it before it
\* looks again.  A request that was there before the exploration counts once.
THEOREM LifecycleLaunches == LCSpec => []LaunchedAsAsked
<1>1. LCInit => LaunchInv
  BY DEF LCInit, LaunchInv, AboutToLaunch, Requested, One, Allowed
<1>2. LaunchInv => LaunchedAsAsked
  BY DEF LaunchInv, AboutToLaunch, Requested, One, Allowed, LaunchedAsAsked
<1> QED BY <1>1, <1>2, LaunchStep, PTL DEF LCSpec

\* The places of the four parties.
Places ==
  /\ mpc \in {"run", "send", "receive", "exit"}
  /\ op \in {"none", "kill", "restart", "finish"}
  /\ current_run \in 0 .. MAX_EXPLORE_RUNS
  /\ cpc \in {"idle", "call", "pkill", "false", "true", "end"}
  /\ opc \in {"wait", "done"}
  /\ spc \in {"check", "launch", "running", "wait", "rm", "fg", "end"}
  /\ prog \in {"none", "up", "dying"}

\* The files, and what shared memory says of the program.
Flags ==
  /\ explore_restart \in BOOLEAN /\ explore_finish \in BOOLEAN
  /\ dead \in BOOLEAN /\ left \in BOOLEAN
  /\ runscript \in BOOLEAN /\ stale \in BOOLEAN

LEMMA PlacesStep ==
  ASSUME Places, RunInv, [LCNext]_lcVars
  PROVE  Places' /\ RunInv'
<1> USE LifecycleAssumption DEF scheduler, messages, program, given, Places, RunInv
<1>1. CASE Explorer
  BY <1>1 DEF Explorer, RunCut, RunOver, NextRun, SendCommand
<1>2. CASE \/ KillExecution \/ RestartExecution
           \/ FinishExecution \/ FinishKill
  BY <1>2 DEF KillExecution, RestartExecution, FinishExecution,
              FinishKill, Pkill
<1>3. CASE AnswerFalse \/ AnswerTrue
  BY <1>3 DEF AnswerFalse, AnswerTrue, GoOn, NextRun
<1>4. CASE LCScript
  BY <1>4 DEF LCScript, ScriptCheck, Launch, ScriptWait,
              ScriptRemove, LCScriptEnd
<1>5. CASE Program
  BY <1>5 DEF Program, ProgramFinish, LastProgramEnds, OthersFinish, ProgramExit
<1>6. CASE Cleanup
  BY <1>6 DEF Cleanup
<1>7. CASE UNCHANGED lcVars
  BY <1>7 DEF lcVars
<1> QED BY <1>1, <1>2, <1>3, <1>4, <1>5, <1>6, <1>7 DEF LCNext, Client

LEMMA FlagsStep ==
  ASSUME Flags, [LCNext]_lcVars
  PROVE  Flags'
<1> USE DEF scheduler, messages, program, given, Flags
<1>1. CASE Explorer
  BY <1>1 DEF Explorer, RunCut, RunOver, SendCommand
<1>2. CASE Client
  BY <1>2 DEF Client, KillExecution, RestartExecution, FinishExecution,
              FinishKill, Pkill, AnswerFalse, AnswerTrue
<1>3. CASE LCScript \/ Program \/ Cleanup
  BY <1>3 DEF LCScript, ScriptCheck, Launch, ScriptWait,
              ScriptRemove, LCScriptEnd, Program, ProgramFinish,
              LastProgramEnds, OthersFinish, ProgramExit, Cleanup
<1>4. CASE UNCHANGED lcVars
  BY <1>4 DEF lcVars
<1> QED BY <1>1, <1>2, <1>3, <1>4 DEF LCNext

\* Every variable of the life cycle keeps its type: runs are counted up to the
\* number asked for, and there are no more starts than runs.
THEOREM LifecycleTyping == LCSpec => []LCTypeOK
<1> DEFINE I == Places /\ Flags /\ RunInv /\ LaunchInv
<1>1. LCInit => I
  <2> SUFFICES ASSUME LCInit PROVE I
    OBVIOUS
  <2>1. Places /\ RunInv
    BY LifecycleAssumption DEF LCInit, Places, RunInv
  <2>2. Flags
    BY DEF LCInit, Flags
  <2>3. LaunchInv
    BY DEF LCInit, LaunchInv, AboutToLaunch, Requested, One, Allowed
  <2> QED BY <2>1, <2>2, <2>3
<1>2. I /\ [LCNext]_lcVars => I'
  BY PlacesStep, FlagsStep, LaunchStep
<1>3. I => LCTypeOK
  <2> SUFFICES ASSUME I PROVE LCTypeOK
    OBVIOUS
  <2>1. launches \in 0 .. MAX_EXPLORE_RUNS + 1
    BY LifecycleAssumption
    DEF Places, RunInv, LaunchInv, AboutToLaunch, Requested, One, Allowed
  <2> QED BY <2>1 DEF Places, Flags, LCTypeOK
<1> QED BY <1>1, <1>2, <1>3, PTL DEF LCSpec

=============================================================================
