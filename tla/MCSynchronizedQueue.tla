------------------------- MODULE MCSynchronizedQueue -------------------------
(* SynchronizedQueue for TLC: two producers, two consumers and a stopper.   *)
EXTENDS SynchronizedQueue
CONSTANTS p1, p2, c1, c2, s1
MCProducers == {p1, p2}
MCConsumers == {c1, c2}
MCStoppers == {s1}
=============================================================================
