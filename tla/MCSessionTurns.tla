--------------------------- MODULE MCSessionTurns ---------------------------
(* Instances of SessionTurns for TLC. *)
EXTENDS SessionTurns, TLC

CONSTANT MaxTroubles

\* What the CLI does of itself and what goes wrong share one budget.
FewTroubles == ownTurns + crashes + Cardinality(failed) <= MaxTroubles
=============================================================================
