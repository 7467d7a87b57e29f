---------------------------- MODULE MCExecutions ----------------------------
(***************************************************************************)
(* The instance of Executions for TLC: executions are numbered in the      *)
(* order of their ids, zero stands for no parent.                          *)
(***************************************************************************)
EXTENDS Executions

NoParent == 0
=============================================================================
