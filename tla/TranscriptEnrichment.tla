------------------------- MODULE TranscriptEnrichment -------------------------
(***************************************************************************)
(* Enrichment of stored transcripts by a paid model (internal/enrich,      *)
(* internal/transcript/enrichment.go).  A run is one invocation of the     *)
(* command: it plans once, works through the sessions it selected with     *)
(* several workers, and stops when a budget is used up or something fails. *)
(* Every reply is entered in the spend ledger before it is judged, and a   *)
(* valid result is saved and then indexed.  Runs share the ledger, the     *)
(* results and the index, and nothing keeps two of them from overlapping.  *)
(*                                                                         *)
(* A model reply costs 1.  The text of a session, the prompt version and   *)
(* the model stay the same, so a session has one result row.               *)
(***************************************************************************)
EXTENDS Naturals, FiniteSets, FiniteSetsExt

CONSTANTS Runs,           \* invocations of the command, each used once
          Forced,         \* the runs started with --force
          Sessions,
          PartsOf,        \* PartsOf[s]: logical calls a session needs (map parts and reduce)
          Concurrency,    \* Concurrency[r]: how many sessions run r works on at a time
          RunCap,         \* MaxCostUSD: what one run may spend
          TotalCap,       \* TotalCapUSD: what all runs together may spend
          MaxRunFaults    \* processes that die, replies that are lost, writes that fail

EnrichmentConstants ==
    /\ Forced \subseteq Runs
    /\ \A s \in Sessions : PartsOf[s] \in Nat \ {0}
    /\ Concurrency \in [Runs -> Nat \ {0}] /\ {RunCap, TotalCap} \subseteq Nat \ {0}
    /\ MaxRunFaults \in Nat

VARIABLES
    rows,         \* status of the tx_enrichment row of each session
    indexed,      \* sessions with an entry in tx_enrichment_search
    ledger,       \* sum of tx_enrichment_spend
    runs,         \* Summary and phase of each run
    work,         \* work[r][s]: what run r is doing with session s
    spent,        \* history: what was really paid
    unrecorded,   \* history: what was paid and never entered in the ledger
    peak,         \* history: the most runs that were in progress at a time
    runFaults

enrichmentVars == <<rows, indexed, ledger, runs, work, spent, unrecorded, peak, runFaults>>
paidHistory == <<spent, unrecorded, peak, runFaults>>

NoWork == [step |-> "none", part |-> 0, attempt |-> 0, cost |-> 0]
NotBegun == [step |-> "todo", part |-> 1, attempt |-> 1, cost |-> 0]
\* A worker slot is held from the first call to the moment the result is added up.
Active(r) == {s \in Sessions : work[r][s].step \notin {"none", "todo"}}
InProgress(r) == runs[r].phase = "running"
Over(r) == runs[r].sum >= RunCap \/ runs[r].prior + runs[r].sum >= TotalCap

EnrichmentInit ==
    /\ rows = [s \in Sessions |-> "none"] /\ indexed = {}
    /\ ledger = 0
    /\ runs = [r \in Runs |-> [phase |-> "new", prior |-> 0, sum |-> 0, stopped |-> FALSE]]
    /\ work = [r \in Runs |-> [s \in Sessions |-> NoWork]]
    /\ spent = 0 /\ unrecorded = 0 /\ peak = 0 /\ runFaults = MaxRunFaults

RunFault == runFaults > 0 /\ runFaults' = runFaults - 1
Set(r, s, w) == work' = [work EXCEPT ![r][s] = w]
Step(r, s, step) == work' = [work EXCEPT ![r][s].step = step]

(***************************************************************************)
(* Run: read the ledger, select what has no result yet.                    *)
(***************************************************************************)
\* Slip: a failed row counts as done, and a result does not.
SelectedFailedOnly(r) == {s \in Sessions : r \in Forced \/ rows[s] \in {"none", "ok"}}

Selected(r) == {s \in Sessions : r \in Forced \/ rows[s] # "ok"}

\* selectWork: an allocation or a limit may leave some of them to a later run.
Chosen(r) == SUBSET Selected(r)

\* A failing write of the Tier 0 facts ends the run before it has paid anything.
Plan(r) ==
    /\ runs[r].phase = "new"
    /\ peak' = Max({peak, 1 + Cardinality({q \in Runs : InProgress(q)})})
    /\ \/ /\ runs' = [runs EXCEPT ![r].phase = "running", ![r].prior = ledger]
          /\ \E chosen \in Chosen(r) :
                work' = [work EXCEPT ![r] = [s \in Sessions |-> IF s \in chosen THEN NotBegun ELSE NoWork]]
          /\ UNCHANGED runFaults
       \/ /\ RunFault
          /\ runs' = [runs EXCEPT ![r].phase = "ended", ![r].prior = ledger]
          /\ UNCHANGED work
    /\ UNCHANGED <<rows, indexed, ledger, spent, unrecorded>>

(***************************************************************************)
(* execute: one session after the other takes a slot; the budget is        *)
(* compared with what the finished sessions have cost.                     *)
(***************************************************************************)
MayStart(r) == ~runs[r].stopped /\ ~Over(r)

TakeSession(r, s) ==
    /\ InProgress(r) /\ work[r][s].step = "todo"
    /\ Cardinality(Active(r)) < Concurrency[r]
    /\ MayStart(r)
    /\ Step(r, s, "asking")
    /\ UNCHANGED <<rows, indexed, ledger, runs, paidHistory>>

\* The loop ends, with the sessions that were not begun; Run returns when the
\* last worker is done.
EndRun(r) ==
    /\ InProgress(r) /\ Active(r) = {}
    /\ ~MayStart(r) \/ \A s \in Sessions : work[r][s] = NoWork
    /\ runs' = [runs EXCEPT ![r].phase = "ended"]
    /\ work' = [work EXCEPT ![r] = [s \in Sessions |-> NoWork]]
    /\ UNCHANGED <<rows, indexed, ledger, paidHistory>>

\* The outcome of a session is added to the summary and its slot given back.
AddUp(r, s, stop) ==
    /\ runs' = [runs EXCEPT ![r].sum = @ + work[r][s].cost, ![r].stopped = @ \/ stop]
    /\ Set(r, s, NoWork)

(***************************************************************************)
(* enrichOne and ask: call, enter the cost, judge, save.                   *)
(***************************************************************************)
\* How a call can fail: an error that fails the session, or one that stops the
\* run (unauthorized, unreachable).
Failures == {"rejected", "fatal"}

\* Slip: the backoff asks again after a reply as it does after a lost one.
CallOnceMore(r, s) ==
    /\ work[r][s].step = "asking"
    /\ \E step \in {"answered", "asking"} \cup Failures : Step(r, s, step)
    /\ spent' = spent + 1
    /\ UNCHANGED <<rows, indexed, ledger, runs, unrecorded, peak, runFaults>>

\* A reply, or an error that cost nothing.
Call(r, s) ==
    /\ work[r][s].step = "asking"
    /\ \/ /\ Set(r, s, [work[r][s] EXCEPT !.step = "answered", !.cost = @ + 1])
          /\ spent' = spent + 1
       \/ /\ \E step \in Failures : Step(r, s, step)
          /\ UNCHANGED spent
    /\ UNCHANGED <<rows, indexed, ledger, runs, unrecorded, peak, runFaults>>

\* The provider answers and the reply is lost on its way or cannot be read:
\* callWithBackoff asks again or gives up.
ReplyLost(r, s) ==
    /\ work[r][s].step = "asking" /\ RunFault
    /\ \E step \in Failures \cup {"asking"} : Step(r, s, step)
    /\ spent' = spent + 1
    /\ unrecorded' = unrecorded + 1
    /\ UNCHANGED <<rows, indexed, ledger, runs, peak>>

\* The next logical call after a valid reply, or the result.
AfterValid(s, w) ==
    IF w.part = PartsOf[s] THEN [w EXCEPT !.step = "valid"]
    ELSE [w EXCEPT !.step = "asking", !.part = @ + 1, !.attempt = 1]
\* A rejected reply is asked for once more.
AfterInvalid(w) ==
    IF w.attempt = 2 THEN [w EXCEPT !.step = "rejected"]
    ELSE [w EXCEPT !.step = "asking", !.attempt = 2]

\* Parse: whether a reply is valid is decided by its content.
Judged(s, w) == {AfterValid(s, w), AfterInvalid(w)}

\* AppendSpend, whatever the reply is worth; then it is judged.
Record(r, s) ==
    /\ work[r][s].step = "answered"
    /\ ledger' = ledger + 1
    /\ \E w \in Judged(s, work[r][s]) : Set(r, s, w)
    /\ UNCHANGED <<rows, indexed, runs, paidHistory>>

\* The ledger cannot be written: the reply is dropped and the run halts.
RecordFails(r, s) ==
    /\ work[r][s].step = "answered" /\ RunFault
    /\ Step(r, s, "fatal")
    /\ unrecorded' = unrecorded + 1
    /\ UNCHANGED <<rows, indexed, ledger, runs, spent, peak>>

\* SaveEnrichment writes the row and then, in a transaction of its own, the index.
SaveRow(r, s) ==
    /\ work[r][s].step = "valid"
    /\ rows' = [rows EXCEPT ![s] = "ok"]
    /\ Step(r, s, "saved")
    /\ UNCHANGED <<indexed, ledger, runs, paidHistory>>

IndexRow(r, s) ==
    /\ work[r][s].step = "saved"
    /\ indexed' = indexed \cup {s}
    /\ AddUp(r, s, FALSE)
    /\ UNCHANGED <<rows, ledger, paidHistory>>

SaveFails(r, s) ==
    /\ work[r][s].step \in {"valid", "saved"} /\ RunFault
    /\ Step(r, s, "halting")
    /\ UNCHANGED <<rows, indexed, ledger, runs, spent, unrecorded, peak>>

\* The best effort to mark a paid session as failed, and the end of the run.
MarkFailedWithCost(r, s) ==
    /\ work[r][s].step = "halting"
    /\ rows' \in {rows, [rows EXCEPT ![s] = "failed"]}
    /\ AddUp(r, s, TRUE)
    /\ UNCHANGED <<indexed, ledger, paidHistory>>

\* finish: the failed row replaces whatever the session had; one failure too
\* many stops the run (StopAfterFailures, MaxFailureRate).
SaveFailure(r, s) ==
    /\ work[r][s].step = "rejected"
    /\ rows' = [rows EXCEPT ![s] = "failed"]
    /\ \E stop \in BOOLEAN : AddUp(r, s, stop)
    /\ UNCHANGED <<indexed, ledger, paidHistory>>

\* The same with an error that finish ignores.
SaveFailureFails(r, s) ==
    /\ work[r][s].step = "rejected" /\ RunFault
    /\ \E stop \in BOOLEAN : AddUp(r, s, stop)
    /\ UNCHANGED <<rows, indexed, ledger, spent, unrecorded, peak>>

\* An error that stops the run writes nothing.
Halt(r, s) ==
    /\ work[r][s].step = "fatal"
    /\ AddUp(r, s, TRUE)
    /\ UNCHANGED <<rows, indexed, ledger, paidHistory>>

\* The process dies.
Crash(r) ==
    /\ InProgress(r) /\ RunFault
    /\ unrecorded' = unrecorded + Cardinality({s \in Sessions : work[r][s].step = "answered"})
    /\ runs' = [runs EXCEPT ![r].phase = "ended"]
    /\ work' = [work EXCEPT ![r] = [s \in Sessions |-> NoWork]]
    /\ UNCHANGED <<rows, indexed, ledger, spent, peak>>

WorkOn(r, s) ==
    \/ TakeSession(r, s) \/ Call(r, s) \/ Record(r, s) \/ SaveRow(r, s) \/ IndexRow(r, s)
    \/ MarkFailedWithCost(r, s) \/ SaveFailure(r, s) \/ Halt(r, s)

EnrichmentNext ==
    \/ \E r \in Runs : Plan(r) \/ EndRun(r) \/ Crash(r)
    \/ \E r \in Runs, s \in Sessions :
           WorkOn(r, s) \/ ReplyLost(r, s) \/ RecordFails(r, s) \/ SaveFails(r, s) \/ SaveFailureFails(r, s)

EnrichmentSpec == EnrichmentInit /\ [][EnrichmentNext]_enrichmentVars

(***************************************************************************)
(* Properties.                                                             *)
(***************************************************************************)
\* What all calls of a session can cost: every logical call is tried twice.
MostOf(s) == 2 * PartsOf[s]
CallsOf(v) == UNION {{s} \X (1..MostOf(s)) : s \in v}
\* The most calls that the workers of one run can have open at a time.
OpenBudget ==
    Max({Cardinality(CallsOf(v)) : v \in {w \in SUBSET Sessions : \E r \in Runs : Cardinality(w) <= Concurrency[r]}})

\* What is paid stays below the cap, but for the sessions that were open when it
\* was reached and for what the ledger never learned - once for each run that
\* was in progress at the same time, as runs do not see what others have open.
SpendIsBounded ==
    spent <= peak * (TotalCap - 1 + OpenBudget) + unrecorded

\* A session whose result is stored is not paid for again, unless the run was
\* forced to or overlapped with another (EnrichmentDone is asked when planning);
\* and the result gives way to a failure only there, or when the run that saved
\* it could not index it.
KeepsResult ==
    \A s \in Sessions : rows[s] = "ok" =>
        /\ rows'[s] # "ok" =>
               \/ peak > 1
               \/ \E r \in Forced : work[r][s] # NoWork
               \/ \E r \in Runs : work[r][s].step = "halting"
        /\ \A r \in Runs \ Forced : work[r][s].step = "asking" => peak > 1
ResultIsKept == [][KeepsResult]_enrichmentVars
=============================================================================
