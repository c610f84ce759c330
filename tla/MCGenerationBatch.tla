-------------------------- MODULE MCGenerationBatch --------------------------
(* Instances of GenerationBatch for TLC. *)
EXTENDS GenerationBatch

CONSTANTS s1, s2, s3

S(u, a) == [unit |-> u, after |-> a]
AllImages == [k \in Key |-> "image"]

\* Two batches that meet in a unit: in one it waits for another unit, in the
\* other one waits for it.
Meeting == [b \in Batch |-> IF b = "a" THEN <<S(s1, NoUnit), S(s2, s1)>>
                            ELSE <<S(s2, NoUnit), S(s3, s2)>>]

(* Bound: two of the troubles at a time.                                   *)
Troubles == requeues + crashes + (IF online THEN 0 ELSE 1)
            + Cardinality({b \in Batch : phase[b] = "raised"})
            + Cardinality({b \in Batch : cancel[b].state # "none"})
            + Cardinality({b \in Batch : \E u \in Units(b) : report[b][u] = "unread"})
TwoTroubles == Troubles <= 2
=============================================================================
