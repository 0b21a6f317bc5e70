--------------------------- MODULE MCRouteDelivery ---------------------------
(***************************************************************************)
(* Small instances of RouteDelivery: one fragment, a destination delivered *)
(* inline (file) and a callback destination (hook).  v1 matches both, v2   *)
(* the inline one, and m is a manual request.                              *)
(***************************************************************************)
EXTENDS RouteDelivery, TLC

CONSTANTS f1, file, hook, v1file, v1hook, v2file, manual

MCFragOf == [r \in Requests |-> f1]
MCDestOf == [r \in Requests |-> IF r = v1hook THEN hook ELSE file]
MCVersionOf == [r \in Requests |->
    IF r = manual THEN 0 ELSE IF r = v2file THEN 2 ELSE 1]
MCRouteOrder == [r \in Requests |-> IF r = v1hook THEN 2 ELSE 1]

Symmetric == Permutations(JobIds) \cup Permutations(FailedIds) \cup Permutations(Drainers)
                \cup Permutations(Workers)
===============================================================================
