-------------------------- MODULE MCMediaSelection --------------------------
(* Instances of MediaSelection for TLC. *)
EXTENDS MediaSelection, TLC

CONSTANT MaxTroubles

Symmetry == Permutations(Gens) \cup Permutations(Bases)

\* Edits, failing writes and crashes share one budget.
FewTroubles == edits + faults + crashes <= MaxTroubles
=============================================================================
