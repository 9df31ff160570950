--------------------------- MODULE CollectorMC ----------------------------
(* The calls are alike, and so are the physical interfaces. *)
EXTENDS Collector, TLC

Symmetry == Permutations(Calls) \cup Permutations(Physical)
===========================================================================
