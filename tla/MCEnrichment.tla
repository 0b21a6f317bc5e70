----------------------------- MODULE MCEnrichment -----------------------------
(***************************************************************************)
(* Small instances of what is derived from captures and texts: the jobs of *)
(* a capture's capabilities and the recall index, which share nothing.  A  *)
(* behaviour is one of one part; the variables of the other stay as they   *)
(* are at first.                                                           *)
(*                                                                         *)
(* RecallIndex: three siblings, two of one time and one older, of which a  *)
(* pass looks at one.                                                      *)
(***************************************************************************)
EXTENDS EnrichmentJobs, RecallIndex, TLC

CONSTANTS before, after, older

VARIABLE part

MCToolsOf == [t \in Texts |-> {t.content} \cup (IF t.title = "edited" THEN {"named"} ELSE {})]
MCDirectivesOf == (before :> {"draft"}) @@ (after :> {})
MCCreatedAt == [f \in Fragments |-> IF f = older THEN 1 ELSE 2]

ASSUME InstanceAssumption == IndexAssumption

EnrichmentInit ==
    part \in {"jobs", "index"} /\ Init /\ IndexInit

EnrichmentNext ==
    \/ part = "jobs" /\ Next /\ UNCHANGED <<part, indexVars>>
    \/ part = "index" /\ IndexNext /\ UNCHANGED <<part, vars>>

EnrichmentSpec == EnrichmentInit /\ [][EnrichmentNext]_<<part, vars, indexVars>>

Symmetric == Permutations(Captures) \cup Permutations(Workers)
===============================================================================
