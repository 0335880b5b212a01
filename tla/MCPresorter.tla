----------------------------- MODULE MCPresorter -----------------------------
(* Instances of Presorter for TLC. *)
EXTENDS Presorter
CONSTANTS a, b
TwoSources == {a, b}
=============================================================================
