--------------------------- MODULE MCSpectrumTimes ---------------------------
(* SpectrumTimes for TLC: two channels that start and stop apart.          *)
EXTENDS SpectrumTimes

CONSTANTS a, b

MCTwo == {a, b}
Symmetry == Permutations({a, b})
==============================================================================
