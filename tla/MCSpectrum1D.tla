----------------------------- MODULE MCSpectrum1D -----------------------------
(* Spectrum1D for TLC: the constants are numbers, given in the .cfg files. *)
EXTENDS Spectrum1D
===============================================================================
