------------------------- MODULE MCApplicationSaga -------------------------
(* Instances of ApplicationSaga for TLC.                                   *)
EXTENDS ApplicationSaga, TLC

CONSTANTS a, b \* fields

Interchangeable == Permutations(Requests) \cup Permutations(Applications)

=============================================================================
