--------------------------- MODULE MCLocalEventBus ---------------------------
(***************************************************************************)
(* Instances of LocalEventBus small enough for TLC.                        *)
(***************************************************************************)
EXTENDS LocalEventBus

CONSTANTS e1, e2, e3, audit, mirror

(* Events and subscribers are used alike by the bus.                       *)
Alike == Permutations(Events) \cup Permutations(Subscribers)

=============================================================================
