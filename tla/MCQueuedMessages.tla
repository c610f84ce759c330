-------------------------- MODULE MCQueuedMessages --------------------------
(* Instances of QueuedMessages for TLC. *)
EXTENDS QueuedMessages

CONSTANT MaxTroubles

\* Exits and evictions, dropped messages and failing writes share one budget.
FewTroubles == exits + refusals + failures <= MaxTroubles
=============================================================================
