-------------------------- MODULE MCSessionRewrite --------------------------
(* Instances of SessionRewrite for TLC. *)
EXTENDS SessionRewrite, TLC

CONSTANTS MaxBegun, MaxTroubles

\* A few requests in any order, with a deletion at most one rewrite; failures
\* and stops share one budget.
Begun(S) == Cardinality({q \in S : req[q].pc # "new"})
FewRequests == /\ Begun(Requests) <= MaxBegun
               /\ Begun(Deletes) > 0 => Begun(Rewrites) <= 1
FewTroubles == failures + crashes <= MaxTroubles

\* The attempts of one rewrite are interchangeable.
Attempts == Permutations(Keyed)
=============================================================================
