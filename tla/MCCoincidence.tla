---------------------------- MODULE MCCoincidence ----------------------------
(* Coincidence for TLC: two channels in coincidence, one that vetoes them. *)
EXTENDS Coincidence

CONSTANTS a, b, c

MCThree == {a, b, c}

\* no delay; one that puts hits of a and b out of order; one of a tick and a half
MCDelays == {[ch \in Channels |-> IF ch = a THEN d ELSE 0] : d \in {0, 3, 4}}

MCPair == [gates |-> {a, b}, threshold |-> 2]
MCVeto == [gates |-> {c}, threshold |-> 1]
MCAny == [gates |-> Channels, threshold |-> 0]
==============================================================================
