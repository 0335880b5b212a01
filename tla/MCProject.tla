------------------------------ MODULE MCProject ------------------------------
(* Project for TLC: all its constants are given in the .cfg files. *)
EXTENDS Project
==============================================================================
