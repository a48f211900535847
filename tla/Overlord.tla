------------------------------ MODULE Overlord ------------------------------
(***************************************************************************)
(* The overlord's modes record, replay, explore and bench (overlord.go):   *)
(* it prepares the directory of the program, builds it, installs the       *)
(* scheduler, and starts exec_script.sh, which starts the scheduler in the *)
(* background and the program in the foreground.  Environment variables    *)
(* and files are all that passes between them.                             *)
(*                                                                         *)
(* What scheduler and program do together is the subject of other modules; *)
(* here are the start of the scheduler and the ways it ends.  The restarts *)
(* of an exploration are in Lifecycle: one start stands for them all.      *)
(***************************************************************************)
EXTENDS ExecScript, Naturals

CONSTANT
  NUM_ITERATIONS     \* bOptions.Iterations

ASSUME OverlordAssumption == NUM_ITERATIONS \in Nat \ {0}

VARIABLES
  options,           \* mode, PreloadReplay, and whether there is a RunScript
  (* the overlord *)
  phase, i, cwd, env,
  rpc,               \* the goroutine start_rpc_server
  values,            \* of bench: the runs that were timed
  sched,             \* the scheduler
  (* the directory of the program *)
  DaraSharedMem, Schedule,
  strays,            \* the memory of processes left behind by an earlier run
  faulted            \* history: a step of the overlord has failed

overlord == <<options, opc, phase, i, cwd, env, values, faulted>>
children == <<spc, sched, prog>>
files == <<DaraSharedMem, Schedule, explore_finish, strays>>
vars == <<overlord, rpc, children, files>>

Modes == {"record", "replay", "explore", "bench"}
Columns == {"normal", "record", "replay", "fast"}

\* What a run of this phase is started as, with DARA_MODE and on the command
\* line of the scheduler.
ModeOf(p) == IF p = "fast" THEN "replay" ELSE p

(***************************************************************************)
(* An earlier use of the tool may have left anything behind, also one that *)
(* was stopped by hand.                                                    *)
(***************************************************************************)
Init ==
  /\ options \in [mode : Modes, PreloadReplay : BOOLEAN, RunScript : BOOLEAN]
  /\ opc = "main" /\ phase = "none" /\ i = 0 /\ cwd = "overlord"
  /\ env = [DARA_MODE |-> "unset", FAST_REPLAY |-> FALSE, RUN_SCRIPT |-> FALSE]
  /\ rpc = "none" /\ values = {} /\ faulted = FALSE
  /\ spc = "none" /\ sched = "none" /\ prog = "none"
  /\ DaraSharedMem \in {"none", "used"} /\ Schedule \in {"none", "old"}
  /\ explore_finish \in BOOLEAN
  /\ strays \in {"none"} \cup (IF DaraSharedMem = "used" THEN {"here"} ELSE {})

-----------------------------------------------------------------------------
(***************************************************************************)
(* The overlord.                                                           *)
(***************************************************************************)
Main ==
  /\ opc = "main"
  /\ IF options.mode = "bench"
     THEN opc' = "go_setup" /\ phase' = "normal"
     ELSE opc' = "setup" /\ phase' = options.mode
  /\ UNCHANGED <<options, i, cwd, env, values, faulted, rpc, children, files>>

\* Building a program leaves the overlord in its directory.
BuildTargetProgram == cwd' = "program"

GoSetup ==
  /\ opc = "go_setup"
  /\ BuildTargetProgram
  /\ opc' = "normal"
  /\ UNCHANGED <<options, phase, i, env, values, faulted, rpc, children, files>>

NextPhase ==
  CASE phase = "normal" -> "record"
    [] phase = "record" -> "replay"
    [] phase = "replay" /\ options.PreloadReplay -> "fast"
    [] OTHER -> "write"

\* Mutant: the counter of the loop is not increased.
NextIteration_Stuck ==
  /\ i' = i /\ phase' = phase
  /\ opc' = IF phase = "normal" THEN "normal" ELSE "reset"

\* A run was timed: on to the next of the phase, or to the next phase.
NextIteration ==
  LET again == i + 1 < NUM_ITERATIONS
  IN  /\ i' = IF again THEN i + 1 ELSE 0
      /\ phase' = IF again THEN phase ELSE NextPhase
      /\ opc' = IF phase' = "write" THEN "write"
                ELSE IF phase' = "normal" THEN "normal" ELSE "reset"

Timed(outcome) ==
  values' = values \cup {[column |-> phase, DARA_MODE |-> env.DARA_MODE,
                          FAST_REPLAY |-> env.FAST_REPLAY, outcome |-> outcome]}

NormalRun ==
  /\ opc = "normal"
  /\ Timed("done")
  /\ NextIteration
  /\ UNCHANGED <<options, cwd, env, faulted, rpc, children, files>>

ResetDir ==
  /\ opc = "reset"
  /\ cwd' = "overlord"
  /\ opc' = "setup"
  /\ UNCHANGED <<options, phase, i, env, values, faulted, rpc, children, files>>

\* Mutant: dd overwrites the file that is there.
SetupSharedMem_InPlace == DaraSharedMem' = "zero" /\ UNCHANGED strays

\* The old file is removed: who has it mapped keeps it to himself.
SetupSharedMem ==
  /\ DaraSharedMem' = "zero"
  /\ strays' = IF strays = "here" THEN "elsewhere" ELSE strays

\* Mutant: fast replay is asked for whenever a schedule is replayed.
SetEnvironment_Fast ==
  env' = [DARA_MODE |-> ModeOf(phase),
          FAST_REPLAY |-> env.FAST_REPLAY \/ options.PreloadReplay,
          RUN_SCRIPT |-> env.RUN_SCRIPT \/ options.RunScript]

\* No variable is ever unset.
SetEnvironment ==
  env' = [DARA_MODE |-> ModeOf(phase),
          FAST_REPLAY |-> \/ env.FAST_REPLAY
                          \/ options.PreloadReplay /\ phase = "fast"
                          \/ options.PreloadReplay /\ options.mode = "replay",
          RUN_SCRIPT |-> env.RUN_SCRIPT \/ options.RunScript]

\* setup, with what the callers do before they start the scheduler.  The paths in
\* the options are relative: it has to be called in the overlord's directory.
Setup ==
  /\ opc = "setup" /\ cwd = "overlord"
  /\ SetEnvironment
  /\ SetupSharedMem
  /\ BuildTargetProgram
  /\ rpc' = IF phase = "explore" THEN "starting" ELSE rpc
  /\ opc' = "start"
  /\ UNCHANGED <<options, phase, i, values, faulted, children, Schedule, explore_finish>>

StartGlobalScheduler ==
  /\ opc = "start"
  /\ opc' = "wait"
  /\ spc' = "exec" /\ sched' = "none" /\ prog' = "none"
  /\ UNCHANGED <<options, phase, i, cwd, env, values, faulted, rpc, files>>

\* Copying, building, installing or starting fails: main gives up.
StepFails ==
  /\ opc \in {"go_setup", "normal", "reset", "setup", "start", "write"}
  /\ opc' = "fatal" /\ faulted' = TRUE
  /\ UNCHANGED <<options, phase, i, cwd, env, values, rpc, children, files>>

RpcServer ==
  /\ rpc = "starting"
  /\ rpc' \in {"listening", "failed"}
  /\ UNCHANGED <<overlord, children, files>>

\* cmd.Wait(), which gets the exit status of the script.
WaitBench ==
  /\ opc = "wait" /\ spc = "end" /\ options.mode = "bench"
  /\ Timed(sched)
  /\ NextIteration
  /\ UNCHANGED <<options, cwd, env, faulted, rpc, children, files>>

WaitMode ==
  /\ opc = "wait" /\ spc = "end" /\ options.mode # "bench"
  /\ IF options.mode = "explore"
     THEN opc' = (IF explore_finish THEN "done" ELSE "fatal") /\ explore_finish' = FALSE
     ELSE opc' = "done" /\ UNCHANGED explore_finish
  /\ UNCHANGED <<options, phase, i, cwd, env, values, faulted, rpc, children,
                 DaraSharedMem, Schedule, strays>>

WriteResults ==
  /\ opc = "write"
  /\ opc' = "done"
  /\ UNCHANGED <<options, phase, i, cwd, env, values, faulted, rpc, children, files>>

-----------------------------------------------------------------------------
(***************************************************************************)
(* exec_script.sh.                                                         *)
(***************************************************************************)
ScriptExec ==
  /\ spc = "exec"
  /\ sched' = "boot" /\ spc' = "sleep"
  /\ UNCHANGED <<overlord, rpc, prog, files>>

\* Two seconds later the program is started, ready or not.
ScriptLaunch ==
  /\ spc = "sleep"
  /\ IF env.DARA_MODE = "explore" /\ explore_finish
     THEN spc' = "fg" /\ UNCHANGED prog
     ELSE spc' = "program" /\ prog' = "up"
  /\ UNCHANGED <<overlord, rpc, sched, files>>

ScriptProgram ==
  /\ spc = "program" /\ prog = "ended"
  /\ env.DARA_MODE = "explore" => explore_finish
  /\ spc' = "fg"
  /\ UNCHANGED <<overlord, rpc, sched, prog, files>>

(***************************************************************************)
(* fg waits for the scheduler and takes its status, but fails if it has    *)
(* terminated already; the script then exits with 0 all the same.  Of a    *)
(* RUN_SCRIPT only the last program was waited for.                        *)
(***************************************************************************)
ScriptEnd ==
  /\ spc = "fg" /\ sched \in {"done", "failed", "crashed"}
  /\ spc' = "end"
  /\ DaraSharedMem' \in {DaraSharedMem} \cup (IF sched = "done" THEN {"none"} ELSE {})
  /\ \/ UNCHANGED strays
     \/ /\ env.RUN_SCRIPT
        /\ strays' = IF DaraSharedMem' = "none" THEN "elsewhere" ELSE "here"
  /\ UNCHANGED <<overlord, rpc, sched, prog, Schedule, explore_finish>>

-----------------------------------------------------------------------------
(***************************************************************************)
(* The scheduler: main(), initGlobalScheduler(), and the ends of its modes.*)
(* l.Fatal and a panic end it with a status that is not 0.                 *)
(***************************************************************************)
\* checkargs, the property file, or the shared memory.
InitFails ==
  /\ sched = "boot"
  /\ sched' = "failed"
  /\ UNCHANGED <<overlord, rpc, spc, prog, files>>

InitGlobalScheduler ==
  /\ sched = "boot"
  /\ sched' = "ready" /\ DaraSharedMem' = "used"
  /\ UNCHANGED <<overlord, rpc, spc, prog, Schedule, explore_finish, strays>>

CannotDecode == Schedule \in {"none", "broken"}
CannotDial == rpc # "listening"

\* Replay and exploration read the schedule, exploration dials the overlord.
Begin ==
  /\ sched = "ready"
  /\ sched' = IF \/ env.DARA_MODE \in {"replay", "explore"} /\ CannotDecode
                 \/ env.DARA_MODE = "explore" /\ CannotDial
              THEN "failed" ELSE "work"
  /\ UNCHANGED <<overlord, rpc, spc, prog, files>>

RecordEnds ==
  /\ sched = "work" /\ env.DARA_MODE = "record" /\ prog # "none"
  /\ \/ sched' = "done" /\ Schedule' = "new"
     \/ sched' = "crashed" /\ Schedule' \in {Schedule, "broken"}
  /\ UNCHANGED <<overlord, rpc, spc, prog, DaraSharedMem, explore_finish, strays>>

ReplayEnds ==
  /\ sched = "work" /\ env.DARA_MODE = "replay" /\ prog # "none"
  /\ sched' \in {"done", "crashed"}
  /\ UNCHANGED <<overlord, rpc, spc, prog, files>>

\* FinishExecution leaves explore_finish.
ExploreEnds ==
  /\ sched = "work" /\ env.DARA_MODE = "explore" /\ prog # "none"
  /\ \/ sched' = "done" /\ explore_finish' = TRUE
     \/ sched' = "crashed" /\ UNCHANGED explore_finish
  /\ UNCHANGED <<overlord, rpc, spc, prog, DaraSharedMem, Schedule, strays>>

\* A program runs only when it is scheduled; without a scheduler it ends if that
\* was all it had left to do.
ProgramEnds ==
  /\ prog = "up" /\ sched \in {"work", "done", "crashed"}
  /\ prog' = "ended"
  /\ UNCHANGED <<overlord, rpc, spc, sched, files>>

-----------------------------------------------------------------------------
OverlordStep ==
  \/ Main \/ GoSetup \/ NormalRun \/ ResetDir \/ Setup
  \/ StartGlobalScheduler \/ WaitBench \/ WaitMode \/ WriteResults
Script == ScriptExec \/ ScriptLaunch \/ ScriptProgram \/ ScriptEnd
Scheduler == InitGlobalScheduler \/ Begin \/ RecordEnds \/ ReplayEnds \/ ExploreEnds

Next ==
  OverlordStep \/ StepFails \/ RpcServer \/ Script \/ Scheduler \/ InitFails \/ ProgramEnds

Spec == Init /\ [][Next]_vars

\* Everybody goes on; a mode of the scheduler ends, and so does a program.
FairSpec ==
  /\ Spec
  /\ WF_vars(OverlordStep) /\ WF_vars(RpcServer) /\ WF_vars(Script)
  /\ WF_vars(Scheduler) /\ WF_vars(sched # "crashed" /\ ProgramEnds)

-----------------------------------------------------------------------------
\* Every variable has its type.
TypeOK ==
  /\ options \in [mode : Modes, PreloadReplay : BOOLEAN, RunScript : BOOLEAN]
  /\ opc \in {"main", "go_setup", "normal", "reset", "setup", "start", "wait",
              "write", "done", "fatal"}
  /\ phase \in Columns \cup Modes \cup {"none", "write"}
  /\ i \in 0 .. NUM_ITERATIONS - 1
  /\ cwd \in {"overlord", "program"}
  /\ env \in [DARA_MODE : Modes \cup {"unset"}, FAST_REPLAY : BOOLEAN, RUN_SCRIPT : BOOLEAN]
  /\ rpc \in {"none", "starting", "listening", "failed"}
  /\ values \subseteq [column : Columns, DARA_MODE : Modes \cup {"unset"},
                       FAST_REPLAY : BOOLEAN,
                       outcome : {"done", "failed", "crashed"}]
  /\ spc \in {"none", "exec", "sleep", "program", "fg", "end"}
  /\ sched \in {"none", "boot", "ready", "work", "done", "failed", "crashed"}
  /\ prog \in {"none", "up", "ended"}
  /\ DaraSharedMem \in {"none", "zero", "used"}
  /\ Schedule \in {"none", "old", "new", "broken"}
  /\ explore_finish \in BOOLEAN /\ faulted \in BOOLEAN
  /\ strays \in {"none", "here", "elsewhere"}

\* Although no variable of the environment is ever unset, a column of the
\* benchmark holds only times of runs of its own kind.  And although the script
\* hides that a scheduler failed, a run whose scheduler did not even start to
\* work is never timed: its program is never scheduled, the script does not end.
MeasuredAsLabelled ==
  \A v \in values :
    /\ v.DARA_MODE = IF v.column = "normal" THEN "unset" ELSE ModeOf(v.column)
    /\ v.FAST_REPLAY <=> v.column = "fast"
    /\ v.outcome # "failed"

\* Nothing of an earlier run gets into a run.  Scheduler and program have the
\* shared memory to themselves, although processes left behind may still have
\* theirs, under the same name; and what the benchmark replays it has recorded
\* itself, unless a recording could not be written.
OwnFiles ==
  /\ sched \in {"boot", "ready", "work"} => strays # "here"
  /\ sched = "boot" => DaraSharedMem = "zero"
  /\ options.mode = "bench" /\ env.DARA_MODE = "replay" /\ sched = "work" =>
       Schedule = "new" \/ \E v \in values : v.column = "record" /\ v.outcome = "crashed"

\* The scheduler failed and the program waits for it for ever.
Abandoned == sched \in {"failed", "crashed"} /\ spc \in {"sleep", "program"}

\* An explore_finish of an earlier exploration: the program is not started.
Unstarted == sched = "work" /\ spc = "fg" /\ prog = "none"

\* The overlord always comes to an end, but for these two cases; and it gives up
\* only if one of its own steps has failed, not because it is in the wrong
\* directory or because there is nothing to clean up.
OverlordEnds ==
  <>(opc = "done" \/ (opc = "fatal" /\ faulted) \/ Abandoned \/ Unstarted)
=============================================================================
