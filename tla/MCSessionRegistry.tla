-------------------------- MODULE MCSessionRegistry --------------------------
(* Instances of SessionRegistry for TLC. *)
EXTENDS SessionRegistry, TLC

CONSTANTS MaxBegun, MaxTroubles

\* A few requests of any kind, of which the patrol or a stop of the server
\* takes the place of one; a patrol, an exit, a failure and a stop share one budget.
FewRequests == Cardinality({q \in Requests : req[q].pc # "new"}) + patrols + crashes <= MaxBegun
FewTroubles == patrols + exits + failures + crashes <= MaxTroubles

\* The requests of a kind are interchangeable.
Alike == Permutations(Connects) \cup Permutations(News)
=============================================================================
