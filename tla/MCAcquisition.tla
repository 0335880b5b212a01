---------------------------- MODULE MCAcquisition ----------------------------
(* Acquisition for TLC: a direct source without end, a buffered one that runs out. *)
EXTENDS Acquisition
CONSTANTS sim, pixie
MCDirect == {sim}
MCBuffered == {pixie}
=============================================================================
