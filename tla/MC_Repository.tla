--------------------------- MODULE MC_Repository ----------------------------
(* A small instance of MemoryIncidentRepository: two fingerprints of two    *)
(* different services.                                                      *)
EXTENDS MemoryIncidentRepository

CONSTANTS f1, f2, s1, s2

MCServiceOf == [fp \in {f1, f2} |-> IF fp = f1 THEN s1 ELSE s2]

=============================================================================
