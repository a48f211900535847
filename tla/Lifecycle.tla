----------------------------- MODULE Lifecycle -----------------------------
(***************************************************************************)
(* The life of the program under test during an exploration.  Four parties *)
(* take part: exploreSchedule and its goroutine dara_rpc_client            *)
(* (scheduler.go), which talk over two unbuffered channels; the overlord   *)
(* (overlord.go), which kills the program and leaves files behind as       *)
(* messages; and exec_script.sh, which starts the program again when it    *)
(* finds them.  What happens in a run is left out but for its two ends: a  *)
(* RESTART action, and all processes dead.                                 *)
(*                                                                         *)
(* With a run script it is the script that is started and killed: it       *)
(* starts several programs and waits for the last of them.                 *)
(***************************************************************************)
EXTENDS ExecScript, Integers

CONSTANT
  MAX_EXPLORE_RUNS

ASSUME LifecycleAssumption == MAX_EXPLORE_RUNS \in Nat \ {0}

VARIABLES
  (* exploreSchedule *)
  mpc, op, current_run,
  (* dara_rpc_client, and the call to the overlord it waits for *)
  cpc,
  explore_restart, \* a file in the directory of the program
  (* the program under test *)
  runscript, \* it is a run script
  left,      \* programs that a run script started and does not wait for any more
  dead,      \* shared memory: all its processes have reported their end
  (* history *)
  launches,  \* how often it was started
  stale      \* explore_restart was there before the exploration began

scheduler == <<mpc, op, current_run>>
messages == <<explore_restart, explore_finish>>
program == <<prog, left, dead, launches>>
given == <<runscript, stale>>
lcVars == <<scheduler, cpc, opc, spc, messages, program, given>>

\* An exploration that was stopped by hand may have left a request.
LCInit ==
  /\ mpc = "run" /\ op = "none" /\ current_run = 0
  /\ cpc = "idle" /\ opc = "wait" /\ spc = "check"
  /\ explore_restart \in BOOLEAN /\ explore_finish = FALSE
  /\ runscript \in BOOLEAN
  /\ prog = "none" /\ left = FALSE /\ dead = FALSE
  /\ launches = 0 /\ stale = explore_restart

-----------------------------------------------------------------------------
(***************************************************************************)
(* exploreSchedule.  Before a run it sleeps for five seconds, and does not *)
(* look whether the program is there then.                                 *)
(***************************************************************************)

\* The explorer chose RESTART.  Without goroutines it has no other choice.
RunCut ==
  /\ mpc = "run"
  /\ ~ dead
  /\ op' = "kill" /\ mpc' = "send"
  /\ UNCHANGED <<current_run, cpc, opc, spc, messages, program, given>>

\* Another run is asked for, or the end.
NextRun ==
  /\ current_run' = current_run + 1
  /\ op' = IF current_run' < MAX_EXPLORE_RUNS THEN "restart" ELSE "finish"
  /\ mpc' = "send"

\* All processes are dead.
RunOver ==
  /\ mpc = "run" /\ dead
  /\ NextRun
  /\ dead' = FALSE
  /\ UNCHANGED <<cpc, opc, spc, messages, prog, left, launches, given>>

\* command_chan <- op: sender and receiver meet.
SendCommand ==
  /\ mpc = "send" /\ cpc = "idle"
  /\ mpc' = "receive" /\ cpc' = "call"
  /\ UNCHANGED <<op, current_run, opc, spc, messages, program, given>>

\* What exploreSchedule does with any answer: log it and go on.
GoOn ==
  \/ op = "kill" /\ NextRun
  \/ op = "restart" /\ mpc' = "run" /\ UNCHANGED <<op, current_run>>
  \/ op = "finish" /\ mpc' = "exit" /\ UNCHANGED <<op, current_run>>

-----------------------------------------------------------------------------
(***************************************************************************)
(* dara_rpc_client.  An error is answered with false and then with true.   *)
(***************************************************************************)
\* killprogram: pkill looks for the program, or only for the run script, and then
\* the programs that the script has started survive it.  It fails if there is no
\* process of that name.
Pkill ==
  \/ prog = "none" /\ cpc' = "false" /\ UNCHANGED <<prog, left>>
  \/ /\ prog # "none" /\ cpc' = "true"
     /\ prog' = "dying"
     /\ left' = (left \/ (runscript /\ prog = "up"))

KillExecution ==
  /\ cpc = "call" /\ op = "kill"
  /\ Pkill
  /\ UNCHANGED <<scheduler, opc, spc, messages, dead, launches, given>>

\* Mutant: the request is acknowledged but no file is written.
RestartExecution_NoFile ==
  /\ cpc = "call" /\ op = "restart"
  /\ cpc' = "true"
  /\ UNCHANGED <<scheduler, opc, spc, messages, program, given>>

RestartExecution ==
  /\ cpc = "call" /\ op = "restart"
  /\ explore_restart' = TRUE
  /\ cpc' = "true"
  /\ UNCHANGED <<scheduler, opc, spc, explore_finish, program, given>>

\* Mutant: only the program is killed, the script is not told.
FinishExecution_NoFile ==
  /\ cpc = "call" /\ op = "finish"
  /\ cpc' = "pkill"
  /\ UNCHANGED <<scheduler, opc, spc, messages, program, given>>

FinishExecution ==
  /\ cpc = "call" /\ op = "finish"
  /\ explore_finish' = TRUE
  /\ cpc' = "pkill"
  /\ UNCHANGED <<scheduler, opc, spc, explore_restart, program, given>>

FinishKill ==
  /\ cpc = "pkill"
  /\ Pkill
  /\ UNCHANGED <<scheduler, opc, spc, messages, dead, launches, given>>

AnswerFalse ==
  /\ cpc = "false" /\ mpc = "receive"
  /\ cpc' = "true"
  /\ GoOn
  /\ UNCHANGED <<opc, spc, messages, program, given>>

AnswerTrue ==
  /\ cpc = "true" /\ mpc = "receive"
  /\ cpc' = IF op = "finish" THEN "end" ELSE "idle"
  /\ GoOn
  /\ UNCHANGED <<opc, spc, messages, program, given>>

-----------------------------------------------------------------------------
(***************************************************************************)
(* exec_script.sh and the program.                                         *)
(***************************************************************************)
ScriptCheck ==
  /\ spc = "check"
  /\ spc' = IF explore_finish THEN "fg" ELSE "launch"
  /\ UNCHANGED <<scheduler, cpc, opc, messages, program, given>>

Launch ==
  /\ spc = "launch"
  /\ spc' = "running"
  /\ prog' = "up" /\ launches' = launches + 1
  /\ UNCHANGED <<scheduler, cpc, opc, messages, left, dead, given>>

\* All processes report their end, and the program exits a little later.
ProgramFinish ==
  /\ prog = "up" /\ mpc = "run"
  /\ prog' = "dying" /\ dead' = TRUE
  /\ UNCHANGED <<scheduler, cpc, opc, spc, messages, left, launches, given>>

\* The last program of a run script ends before the others.
LastProgramEnds ==
  /\ runscript /\ prog = "up" /\ mpc = "run"
  /\ prog' = "dying" /\ left' = TRUE
  /\ UNCHANGED <<scheduler, cpc, opc, spc, messages, dead, launches, given>>

\* The programs that nobody waits for report their end, in whatever run it is.
OthersFinish ==
  /\ left /\ mpc = "run"
  /\ left' = FALSE /\ dead' = TRUE
  /\ UNCHANGED <<scheduler, cpc, opc, spc, messages, prog, launches, given>>

ProgramExit ==
  /\ prog = "dying"
  /\ prog' = "none"
  /\ spc' = "wait"
  /\ UNCHANGED <<scheduler, cpc, opc, messages, left, dead, launches, given>>

\* Once a second: is there an explore_restart, or an explore_finish?
ScriptWait ==
  /\ spc = "wait"
  /\ explore_restart \/ explore_finish
  /\ spc' = "rm"
  /\ UNCHANGED <<scheduler, cpc, opc, messages, program, given>>

\* Mutant: the request is not removed.
ScriptRemove_Keeps ==
  /\ spc = "rm"
  /\ spc' = "check"
  /\ UNCHANGED <<scheduler, cpc, opc, messages, program, given>>

ScriptRemove ==
  /\ spc = "rm"
  /\ explore_restart' = FALSE
  /\ spc' = "check"
  /\ UNCHANGED <<scheduler, cpc, opc, explore_finish, program, given>>

\* The scheduler is in the foreground until it exits.
LCScriptEnd ==
  /\ spc = "fg" /\ mpc = "exit"
  /\ spc' = "end"
  /\ UNCHANGED <<scheduler, cpc, opc, messages, program, given>>

\* explore(): the script has ended, post_exploration_cleanup.
Cleanup ==
  /\ opc = "wait" /\ spc = "end"
  /\ explore_finish' = FALSE
  /\ opc' = "done"
  /\ UNCHANGED <<scheduler, cpc, spc, explore_restart, program, given>>

-----------------------------------------------------------------------------
Explorer == RunCut \/ RunOver \/ SendCommand
Client ==
  \/ KillExecution \/ RestartExecution \/ FinishExecution \/ FinishKill
  \/ AnswerFalse \/ AnswerTrue
LCScript == ScriptCheck \/ Launch \/ ScriptWait \/ ScriptRemove \/ LCScriptEnd
Program == ProgramFinish \/ LastProgramEnds \/ OthersFinish \/ ProgramExit

LCNext == Explorer \/ Client \/ LCScript \/ Program \/ Cleanup

LCSpec == LCInit /\ [][LCNext]_lcVars

\* Every party goes on when it can; a run comes to an end and a program that
\* is told to ends.
LCFairSpec ==
  /\ LCSpec
  /\ WF_lcVars(Explorer) /\ WF_lcVars(Client) /\ WF_lcVars(LCScript)
  /\ WF_lcVars(ProgramExit) /\ WF_lcVars(Cleanup)

-----------------------------------------------------------------------------
\* Every variable has its type.
LCTypeOK ==
  /\ mpc \in {"run", "send", "receive", "exit"}
  /\ op \in {"none", "kill", "restart", "finish"}
  /\ current_run \in 0 .. MAX_EXPLORE_RUNS
  /\ cpc \in {"idle", "call", "pkill", "false", "true", "end"}
  /\ opc \in {"wait", "done"}
  /\ spc \in {"check", "launch", "running", "wait", "rm", "fg", "end"}
  /\ explore_restart \in BOOLEAN /\ explore_finish \in BOOLEAN
  /\ prog \in {"none", "up", "dying"} /\ dead \in BOOLEAN
  /\ runscript \in BOOLEAN /\ left \in BOOLEAN /\ stale \in BOOLEAN
  /\ launches \in 0 .. MAX_EXPLORE_RUNS + 1

\* The program is never started more often than the scheduler asked for,
\* however late or often the script looks for the files: but for one start, if
\* an explore_restart was there before the exploration began.
LaunchedAsAsked == launches <= current_run + (IF stale THEN 2 ELSE 1)

\* Every exploration ends: the scheduler gets an answer to each request, the
\* script stops starting the program and the overlord cleans up.  (An error of
\* pkill only "means the program ended before we could kill it",
\* overlord.go:409.)
Finishes == <>(opc = "done")

\* The RPC client still owes the scheduler a second answer to one request
\* while the scheduler already waits for it to take the next.
AnswerOwed == cpc = "true" /\ mpc = "send"

\* The program was started after the scheduler had it killed for good.
Orphaned == mpc = "exit" /\ prog = "up"

\* These are the only two ways for an exploration not to end: in every other
\* case the scheduler, the script and the overlord all finish, however late
\* the program starts, and no program and no message file is left that the
\* next exploration would trip over.  But an explore_restart may be left behind
\* if one was there before; and after a run script the programs it has started,
\* as only the script is killed and waited for, and the request for a script
\* whose run such programs have ended before it started.
FinishesUnlessLate ==
  <>(\/ /\ opc = "done" /\ prog = "none" /\ (left => runscript)
        /\ (explore_restart => stale \/ runscript) /\ ~ explore_finish
     \/ AnswerOwed \/ Orphaned)

\* A run does not stay without its program: however the end of the run before,
\* the request file and the script's look at it fall together, the program is
\* started, or the exploration is over.  With a run script it may also be that
\* the script has ended before its programs and cannot be killed any more.
RunGetsProgram ==
  (mpc = "run" /\ prog = "none")
    ~> (prog = "up" \/ explore_finish \/ (runscript /\ AnswerOwed))
=============================================================================
