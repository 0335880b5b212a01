---------------------------- MODULE MCExperiment ----------------------------
(* Experiment for TLC: a voltage that the device limits, a threshold of a   *)
(* sink and a position that is set by hand.                                 *)
EXTENDS Experiment

MCDomains == {"voltage", "threshold", "position"}
MCKind == [d \in MCDomains |-> CASE d = "voltage" -> "source"
                                 [] d = "threshold" -> "sink"
                                 [] OTHER -> "manual"]
MCMinimum == [d \in MCDomains |-> 0]
MCMaximum == [d \in MCDomains |-> CASE d = "voltage" -> 2 [] d = "threshold" -> 1 [] OTHER -> 0]
MCLimit == [d \in MCDomains |-> 1]
=============================================================================
