---------------------------- MODULE MCThreadRunner ----------------------------
(* ThreadRunner for TLC: all its constants are given in the .cfg files. *)
EXTENDS ThreadRunner
===============================================================================
