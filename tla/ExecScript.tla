----------------------------- MODULE ExecScript -----------------------------
(***************************************************************************)
(* What the two modules on the overlord have in common.  The overlord      *)
(* starts exec_script.sh and waits for it; the script starts the program   *)
(* under test, again and again in an exploration, until the file           *)
(* explore_finish is there.  Overlord follows one run of the script        *)
(* through all modes, Lifecycle the restarts of one exploration.           *)
(***************************************************************************)
VARIABLES
  opc,             \* the overlord
  spc,             \* exec_script.sh
  prog,            \* the program under test
  explore_finish   \* a file in the directory of the program
=============================================================================
