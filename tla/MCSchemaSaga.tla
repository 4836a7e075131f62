--------------------------- MODULE MCSchemaSaga ---------------------------
(* Instances of SchemaSaga for TLC.                                        *)
EXTENDS SchemaSaga, TLC

CONSTANTS a, b \* fields

Interchangeable == Permutations(Requests) \cup Permutations(Members)

=============================================================================
