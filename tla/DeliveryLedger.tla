--------------------------- MODULE DeliveryLedger ---------------------------
(***************************************************************************)
(* What the delivery queue promises its callers, without jobs, drainers or *)
(* rows: a submitted request is held until it has been delivered or an     *)
(* operator discarded it.  Delivery may happen more than once and may even *)
(* come after the request was discarded (a slow drainer), and an operator  *)
(* may take up a request again; it never just disappears.                  *)
(***************************************************************************)
CONSTANT Requests

VARIABLES submitted, held, delivered, discarded

ledger == <<submitted, held, delivered, discarded>>

Init == submitted = {} /\ held = {} /\ delivered = {} /\ discarded = {}

Submit(r) ==
    /\ r \in Requests \ submitted
    /\ submitted' = submitted \cup {r}
    /\ held' = held \cup {r}
    /\ UNCHANGED <<delivered, discarded>>

Deliver(r) ==
    /\ r \in submitted
    /\ delivered' = delivered \cup {r}
    /\ UNCHANGED <<submitted, held, discarded>>

Close(r) ==
    /\ r \in held \cap (delivered \cup discarded)
    /\ held' = held \ {r}
    /\ UNCHANGED <<submitted, delivered, discarded>>

\* The request may still be held through another copy of it.
Discard(r) ==
    /\ r \in held
    /\ held' \in {held, held \ {r}}
    /\ discarded' = discarded \cup {r}
    /\ UNCHANGED <<submitted, delivered>>

TakeUpAgain(r) ==
    /\ r \in submitted
    /\ held' = held \cup {r}
    /\ UNCHANGED <<submitted, delivered, discarded>>

Next == \E r \in Requests :
    Submit(r) \/ Deliver(r) \/ Close(r) \/ Discard(r) \/ TakeUpAgain(r)

Spec == Init /\ [][Next]_ledger
===============================================================================
