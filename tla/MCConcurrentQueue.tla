-------------------------- MODULE MCConcurrentQueue --------------------------
(* The queue on small sets of threads and values, for TLC.  Two producers    *)
(* and two consumers can all be waiting, the third consumer can take what    *)
(* another was woken for, and two values show the order.                     *)
EXTENDS ConcurrentQueue

TwoProducers   == {"p1", "p2"}
ThreeConsumers == {"c1", "c2", "c3"}
TwoValues      == {"v1", "v2"}
==============================================================================
