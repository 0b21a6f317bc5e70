--------------------------- MODULE MCIngestRuntime ---------------------------
(***************************************************************************)
(* Small instances of IngestRuntime.                                       *)
(***************************************************************************)
EXTENDS IngestRuntime, TLC
Symmetric == Permutations(Runs) \cup Permutations(JobIds) \cup Permutations(Engines)
                \cup Permutations(Workers)
===============================================================================
