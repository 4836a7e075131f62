-------------------------- MODULE MCConsentEngine --------------------------
(* Instances of ConsentEngine for TLC.                                     *)
EXTENDS ConsentEngine, TLC

\* The hour of a realtime request and of the default grant: one tick.
OneTick == {1}

\* A deadline that the next tick passes.
WithinTheTick == {0}

\* Slots and field lists are only compared.
Symmetry == Permutations(Requests) \cup Permutations(FieldLists)
=============================================================================
