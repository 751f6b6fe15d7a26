------------------------- MODULE MCResourceReporter -------------------------
(* ResourceReporter on an instance for TLC: two slots of the memory, the least *)
(* that a reader can find torn, for the two metrics that remember, and two     *)
(* levels.                                                                     *)
EXTENDS ResourceReporter

MCMetrics == [i \in 1 .. NumSlots |-> IF i = 1 THEN "cpu" ELSE "memory_bytes"]

=============================================================================
