------------------------ MODULE MCProjectRetirement ------------------------
(* Instances of ProjectRetirement for TLC. *)
EXTENDS ProjectRetirement

CONSTANT MaxTroubles

\* Failing writes, drifts and crashes share one budget.
FewTroubles == faults + drifts + stops <= MaxTroubles

\* The tasks are interchangeable, and checking one of them is cheaper.
EveryTaskEnds == TaskEnds(CHOOSE t \in Tasks : TRUE)
=============================================================================
