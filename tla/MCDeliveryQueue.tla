--------------------------- MODULE MCDeliveryQueue ---------------------------
(***************************************************************************)
(* Small instances of DeliveryQueue.  One fragment has two requests, to    *)
(* two destinations (what fan-out routing enqueues) or to one.             *)
(***************************************************************************)
EXTENDS DeliveryQueue, TLC

CONSTANTS f1, t1, t2, r1, r2

MCFragOf == [r \in Requests |-> f1]
MCDestOf == [r \in Requests |-> IF r = r1 THEN t1 ELSE t2]

Symmetric == Permutations(JobIds) \cup Permutations(FailedIds)
                \cup Permutations(Drainers) \cup Permutations(Operators)
===============================================================================
