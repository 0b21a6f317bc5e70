---------------------------- MODULE MCIngestAdmin ----------------------------
(***************************************************************************)
(* Small instances of IngestAdmin.                                         *)
(***************************************************************************)
EXTENDS IngestAdmin, TLC
Symmetric == Permutations(Runs) \cup Permutations(JobIds) \cup Permutations(Engines)
                \cup Permutations(Workers) \cup Permutations(Admins)

\* Two edits are followed without a schedule, and with one a single edit.
Bounded == edits < MaxEdits - 1 => schedule.state = "absent"
===============================================================================
