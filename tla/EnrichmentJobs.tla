--------------------------- MODULE EnrichmentJobs ---------------------------
(***************************************************************************)
(* Capability coverage of one fragment revision, the jobs that fill it and *)
(* the leases under which workers do them (repository/enrichment.go,       *)
(* called through service/enrichment.go).                                  *)
(*                                                                         *)
(* Captures of the revision bring observations and a follow-up in the      *)
(* outbox; planning turns coverage that is missing, stale, failed for a    *)
(* while or asked for into jobs; workers claim jobs for a lease and        *)
(* publish or fail.  Every repository method runs in one BEGIN IMMEDIATE   *)
(* transaction, so it is one action; a worker may be late, die, or never   *)
(* come back between its claim and its result, and RequestCapability is    *)
(* two transactions.                                                       *)
(*                                                                         *)
(* A job is named by the key of its UNIQUE constraint, a claim token by    *)
(* the job and the number of the attempt it was made for.                  *)
(***************************************************************************)
EXTENDS Naturals, FiniteSets

CONSTANTS
    Capabilities, Captures, Workers,
    RequestKeys, Callers,
    NoClaim, NoObservation, NoRequest,
    ResultRanks,        \* the ranks of workers' results: model 1, deterministic 2, provider 3
    MaxObservations,    \* bound on the observations made
    MaxJobs,            \* bound on the jobs planned
    LastTick            \* bound on the clock

ASSUME EnrichmentAssumption ==
    /\ NoObservation = 0 /\ ResultRanks \subseteq 1..3 /\ MaxObservations \in Nat /\ MaxJobs \in Nat /\ LastTick \in Nat
    /\ NoClaim \notin Capabilities \X Nat \X Nat \X Nat
    /\ NoRequest \notin Capabilities \X Nat

VARIABLES
    clock,
    coverage,       \* fragment_capability_coverage: capability -> row
    observations,   \* enrichment_observations: id -> row
    jobs,           \* enrichment_jobs: key -> row
    attempts,       \* enrichment_job_attempts: token -> status
    outbox,         \* capture_followup_outbox: capture -> state
    requests,       \* enrichment_capability_requests: key -> capability and generation
    worker,         \* worker -> the token it works under
    caller,         \* caller of RequestCapability -> whether it still has to plan
    lateEvidence    \* history: capabilities that a capture resolved under an open job

tables == <<coverage, observations, jobs, attempts, outbox, requests>>
vars == <<clock, tables, worker, caller, lateEvidence>>

States == {"absent", "provided", "missing", "pending", "failed", "stale", "not_applicable"}
Keys == Capabilities \X Nat \X Nat      \* capability, coverage version, request generation
Tokens == Capabilities \X Nat \X Nat \X Nat
JobOf(token) == <<token[1], token[2], token[3]>>
TokenOf(key, n) == <<key[1], key[2], key[3], n>>
Ranks == 1..5                           \* attributionRank: model .. user
User == 5
Never == LastTick + 1

CoverageRows == [state : States, selected : Nat, retryable : BOOLEAN,
                 requested : Nat, satisfied : Nat, version : Nat]
JobRows == [status : {"queued", "running", "succeeded", "failed"}, attempt : Nat,
            lease : Nat, created : Nat]
ObservationRows == [capability : Capabilities, rank : Ranks, asserted : 0..LastTick, expires : Nat]

TypeOK ==
    /\ clock \in 0..LastTick
    /\ coverage \in [Capabilities -> CoverageRows]
    /\ DOMAIN observations \in SUBSET (1..MaxObservations)
    /\ observations \in [DOMAIN observations -> ObservationRows]
    /\ DOMAIN jobs \in SUBSET Keys /\ jobs \in [DOMAIN jobs -> JobRows]
    /\ DOMAIN attempts \in SUBSET Tokens
    /\ attempts \in [DOMAIN attempts -> {"running", "succeeded", "failed"}]
    /\ outbox \in [Captures -> {"none", "pending", "complete"}]
    /\ requests \in [RequestKeys -> (Capabilities \X Nat) \cup {NoRequest}]
    /\ worker \in [Workers -> Tokens \cup {NoClaim}]
    /\ caller \in [Callers -> BOOLEAN]
    /\ lateEvidence \in SUBSET Capabilities

Init ==
    /\ clock = 0
    /\ coverage = [c \in Capabilities |-> [state |-> "absent", selected |-> NoObservation,
           retryable |-> FALSE, requested |-> 0, satisfied |-> 0, version |-> 0]]
    /\ observations = [i \in {} |-> 0]
    /\ jobs = [k \in {} |-> 0]
    /\ attempts = [t \in {} |-> "running"]
    /\ outbox = [a \in Captures |-> "none"]
    /\ requests = [k \in RequestKeys |-> NoRequest]
    /\ worker = [w \in Workers |-> NoClaim]
    /\ caller = [p \in Callers |-> FALSE]
    /\ lateEvidence = {}

-----------------------------------------------------------------------------
(* Selecting what is shown *)

Expired(o) == o.expires <= clock
OpenJobs(c) == {k \in DOMAIN jobs : k[1] = c /\ jobs[k].status \in {"queued", "running"}}

\* Slip: the newest observation is preferred to the best.
OutranksByTime(table, i, j) ==
    \/ table[i].asserted > table[j].asserted
    \/ table[i].asserted = table[j].asserted /\ i < j

\* The order of sortObservations; ids settle what rank and time leave open.
Outranks(table, i, j) ==
    \/ table[i].rank > table[j].rank
    \/ table[i].rank = table[j].rank /\ table[i].asserted > table[j].asserted
    \/ table[i].rank = table[j].rank /\ table[i].asserted = table[j].asserted /\ i < j

First(table, ids) == CHOOSE i \in ids : \A j \in ids \ {i} : Outranks(table, i, j)

Showing(row, state, i) ==
    [row EXCEPT !.state = state, !.selected = i, !.retryable = FALSE, !.version = @ + 1]

Resolve(row, table, c) ==
    LET mine == {i \in DOMAIN table : table[i].capability = c}
        active == {i \in mine : ~Expired(table[i])}
    IN  IF active # {} THEN Showing(row, "provided", First(table, active))
        ELSE IF mine # {} THEN Showing(row, "stale", First(table, mine))
        ELSE row

RefreshExpired(c) ==
    LET row == coverage[c] IN
    IF row.state = "provided" /\ row.selected # NoObservation /\ Expired(observations[row.selected])
    THEN [row EXCEPT !.state = "stale", !.version = @ + 1]
    ELSE row

NewIds(ids) == ids \in SUBSET ((1..MaxObservations) \ DOMAIN observations)

-----------------------------------------------------------------------------
(* Captures *)

(***************************************************************************)
(* Accept of a capture of this revision, as far as coverage goes: each     *)
(* capability of `evidence' gets one observation, rows that do not exist   *)
(* are made, and each is resolved again, whatever state it is in.          *)
(***************************************************************************)
InitializeCapture(a) ==
    /\ outbox[a] = "none"
    /\ \E evidence \in SUBSET Capabilities, blank \in [Capabilities -> {"missing", "not_applicable"}],
          rank \in {User, User - 1}, id \in [Capabilities -> 1..MaxObservations] :
         LET ids == {id[c] : c \in evidence}
             table == [i \in DOMAIN observations \cup ids |->
                 IF i \in ids
                 THEN [capability |-> CHOOSE c \in evidence : id[c] = i, rank |-> rank,
                       asserted |-> clock, expires |-> Never]
                 ELSE observations[i]]
             row(c) == IF coverage[c].state = "absent"
                       THEN [coverage[c] EXCEPT !.state = blank[c], !.version = 1]
                       ELSE coverage[c]
         IN  /\ NewIds(ids) /\ Cardinality(ids) = Cardinality(evidence)
             /\ observations' = table
             /\ coverage' = [c \in Capabilities |-> Resolve(row(c), table, c)]
             /\ lateEvidence' = lateEvidence \cup {c \in Capabilities :
                    OpenJobs(c) # {} /\ Resolve(row(c), table, c) # row(c)}
    /\ outbox' = [outbox EXCEPT ![a] = "pending"]
    /\ UNCHANGED <<clock, jobs, attempts, requests, worker, caller>>

-----------------------------------------------------------------------------
(* Planning *)

Asked(row) == row.requested > row.satisfied

Eligible(row) ==
    /\ Asked(row) \/ row.state \in {"missing", "stale"} \/ (row.state = "failed" /\ row.retryable)
    /\ row.state \notin {"absent", "pending"}

QueuedJob == [status |-> "queued", attempt |-> 0, lease |-> 0, created |-> clock]
Pending(row) == [row EXCEPT !.state = "pending", !.retryable = FALSE, !.version = @ + 1]

\* planRevisionOn: INSERT ... DO NOTHING, and only what was inserted becomes pending.
Plan ==
    LET row == [c \in Capabilities |-> RefreshExpired(c)]
        key(c) == <<c, row[c].version, row[c].requested>>
        due == {c \in Capabilities : Eligible(row[c]) /\ key(c) \notin DOMAIN jobs}
        new == {key(c) : c \in due}
    IN  /\ Cardinality(DOMAIN jobs) + Cardinality(new) <= MaxJobs
        /\ jobs' = [k \in DOMAIN jobs \cup new |-> IF k \in new THEN QueuedJob ELSE jobs[k]]
        /\ coverage' = [c \in Capabilities |-> IF c \in due THEN Pending(row[c]) ELSE row[c]]

PlanCaptureFollowUp(a) ==
    /\ outbox[a] = "pending"
    /\ Plan
    /\ outbox' = [outbox EXCEPT ![a] = "complete"]
    /\ UNCHANGED <<clock, observations, attempts, requests, worker, caller, lateEvidence>>

\* The planner that docs/capability-enrichment.md foresees, and a caller's second step.
PlanRevision ==
    /\ Plan
    /\ UNCHANGED <<clock, observations, attempts, outbox, requests, worker, lateEvidence>>

ListCoverage ==
    /\ coverage' = [c \in Capabilities |-> RefreshExpired(c)]
    /\ coverage' # coverage
    /\ UNCHANGED <<clock, observations, jobs, attempts, outbox, requests, worker, caller, lateEvidence>>

(***************************************************************************)
(* RequestCapability of the service: the request and its generation in one *)
(* transaction, the planning in another.  A key that was used returns the  *)
(* coverage and plans nothing.                                             *)
(***************************************************************************)
RequestCapability(p, k, c) ==
    /\ ~caller[p] /\ requests[k] = NoRequest
    /\ coverage[c].state # "absent"
    /\ requests' = [requests EXCEPT ![k] = <<c, coverage[c].requested + 1>>]
    /\ coverage' = [coverage EXCEPT ![c].requested = @ + 1, ![c].version = @ + 1]
    /\ caller' = [caller EXCEPT ![p] = TRUE]
    /\ UNCHANGED <<clock, observations, jobs, attempts, outbox, worker, lateEvidence>>

PlanRequested(p) == caller[p] /\ PlanRevision /\ caller' = [caller EXCEPT ![p] = FALSE]
CallerDies(p) ==
    /\ caller[p] /\ caller' = [caller EXCEPT ![p] = FALSE]
    /\ UNCHANGED <<clock, tables, worker, lateEvidence>>

-----------------------------------------------------------------------------
(* Workers *)

Lapsed(k) == jobs[k].status = "running" /\ jobs[k].lease <= clock
ReleasedJobs == [k \in DOMAIN jobs |->
    IF Lapsed(k) THEN [jobs[k] EXCEPT !.status = "queued", !.lease = 0] ELSE jobs[k]]
ReleasedAttempts == [t \in DOMAIN attempts |->
    IF attempts[t] = "running" /\ Lapsed(JobOf(t)) THEN "failed" ELSE attempts[t]]

\* The oldest queued job first; ids, which are digests, order jobs of one time anyhow.
Oldest(table) == {k \in DOMAIN table : /\ table[k].status = "queued"
    /\ \A l \in DOMAIN table : table[l].status = "queued" => table[k].created <= table[l].created}

ClaimNext(w) ==
    /\ worker[w] = NoClaim
    /\ \E k \in Oldest(ReleasedJobs) :
         LET n == ReleasedJobs[k].attempt + 1 IN
         /\ jobs' = [ReleasedJobs EXCEPT ![k] = [@ EXCEPT !.status = "running", !.attempt = n,
                                                          !.lease = clock + 1]]
         /\ attempts' = [t \in DOMAIN attempts \cup {TokenOf(k, n)} |->
                IF t = TokenOf(k, n) THEN "running" ELSE ReleasedAttempts[t]]
         /\ worker' = [worker EXCEPT ![w] = TokenOf(k, n)]
    /\ UNCHANGED <<clock, coverage, observations, outbox, requests, caller, lateEvidence>>

\* Slip: that some worker holds the job is enough.
HoldsLeaseOnceClaimed(token) ==
    JobOf(token) \in DOMAIN jobs /\ jobs[JobOf(token)].status = "running"

\* The result's transaction is refused unless the token is current and the lease stands.
HoldsLease(token) ==
    /\ JobOf(token) \in DOMAIN jobs
    /\ LET job == jobs[JobOf(token)] IN
       job.status = "running" /\ job.attempt = token[4] /\ job.lease > clock

Close(token, status) ==
    /\ attempts' = [attempts EXCEPT ![token] = status]
    /\ worker' = [w \in Workers |-> IF worker[w] = token THEN NoClaim ELSE worker[w]]

Satisfy(row, generation) ==
    [row EXCEPT !.satisfied = IF @ < generation THEN generation ELSE @, !.version = @ + 1]

\* Slip: the job is closed, its coverage is not.
FinishJobOnly(key, status, row) ==
    /\ jobs' = [jobs EXCEPT ![key].status = status, ![key].lease = 0]
    /\ UNCHANGED coverage

(***************************************************************************)
(* What both results end with: the row as it became, and, if a newer       *)
(* generation was asked for meanwhile, its job (enqueueExplicitSuccessor). *)
(***************************************************************************)
Finish(key, status, row) ==
    LET next == <<key[1], row.version, row.requested>>
        new == IF row.requested > key[3] /\ next \notin DOMAIN jobs THEN {next} ELSE {}
    IN  /\ Cardinality(DOMAIN jobs) + Cardinality(new) <= MaxJobs
        /\ jobs' = [k \in DOMAIN jobs \cup new |->
               IF k \in new THEN QueuedJob
               ELSE IF k = key THEN [jobs[k] EXCEPT !.status = status, !.lease = 0] ELSE jobs[k]]
        /\ coverage' = [coverage EXCEPT ![key[1]] = IF new # {} THEN Pending(row) ELSE row]

CompleteSuccess(w) ==
    /\ worker[w] # NoClaim /\ HoldsLease(worker[w])
    /\ \E i \in (1..MaxObservations) \ DOMAIN observations, rank \in ResultRanks, expires \in {clock, clock + 1, Never} :
         LET key == JobOf(worker[w])
             table == [j \in DOMAIN observations \cup {i} |->
                 IF j = i THEN [capability |-> key[1], rank |-> rank, asserted |-> clock, expires |-> expires]
                 ELSE observations[j]]
         IN  /\ observations' = table
             /\ Finish(key, "succeeded", Resolve(Satisfy(coverage[key[1]], key[3]), table, key[1]))
    /\ Close(worker[w], "succeeded")
    /\ UNCHANGED <<clock, outbox, requests, caller, lateEvidence>>

CompleteFailure(w, permanent) ==
    /\ worker[w] # NoClaim /\ HoldsLease(worker[w])
    /\ LET key == JobOf(worker[w])
           row == Satisfy(coverage[key[1]], IF permanent THEN key[3] ELSE 0)
       IN  Finish(key, "failed", [row EXCEPT !.state = "failed", !.retryable = ~permanent])
    /\ Close(worker[w], "failed")
    /\ UNCHANGED <<clock, observations, outbox, requests, caller, lateEvidence>>

\* Too late: the conflict error, after which the worker has nothing to do.
ResultRefused(w) ==
    /\ worker[w] # NoClaim /\ ~HoldsLease(worker[w])
    /\ worker' = [worker EXCEPT ![w] = NoClaim]
    /\ UNCHANGED <<clock, tables, caller, lateEvidence>>

WorkerDies(w) ==
    /\ worker[w] # NoClaim
    /\ worker' = [worker EXCEPT ![w] = NoClaim]
    /\ UNCHANGED <<clock, tables, caller, lateEvidence>>

Tick ==
    /\ clock < LastTick /\ clock' = clock + 1
    /\ UNCHANGED <<tables, worker, caller, lateEvidence>>

Next ==
    \/ \E a \in Captures : InitializeCapture(a) \/ PlanCaptureFollowUp(a)
    \/ PlanRevision /\ UNCHANGED caller
    \/ ListCoverage
    \/ \E p \in Callers : \/ \E k \in RequestKeys, c \in Capabilities : RequestCapability(p, k, c)
                          \/ PlanRequested(p) \/ CallerDies(p)
    \/ \E w \in Workers : \/ ClaimNext(w) \/ CompleteSuccess(w) \/ ResultRefused(w) \/ WorkerDies(w)
                          \/ \E permanent \in BOOLEAN : CompleteFailure(w, permanent)
    \/ Tick

Spec == Init /\ [][Next]_vars

-----------------------------------------------------------------------------
(* Properties *)

\* A job has one running attempt exactly while it runs, the latest: whoever works under an
\* older token is refused.  "Does not start concurrent work": two open jobs for one
\* capability need a capture that brought evidence for it while a job was open.
WorkIsExclusive ==
    /\ \A t \in DOMAIN attempts :
           /\ JobOf(t) \in DOMAIN jobs
           /\ attempts[t] = "running" <=>
                  jobs[JobOf(t)].status = "running" /\ jobs[JobOf(t)].attempt = t[4]
    /\ \A c \in Capabilities \ lateEvidence : Cardinality(OpenJobs(c)) <= 1

\* Coverage that says "pending" has an open job that will settle it; no interleaving of
\* captures, requests, results and lapses leaves it waiting for nobody.
PendingHasJob == \A c \in Capabilities : coverage[c].state = "pending" => OpenJobs(c) # {}

\* What is shown is the best there is: nothing valid outranks the selected observation.
BestIsShown ==
    \A c \in Capabilities : coverage[c].state = "provided" =>
        \A i \in DOMAIN observations :
            observations[i].capability = c /\ ~Expired(observations[i])
              /\ ~Expired(observations[coverage[c].selected])
            => observations[i].rank <= observations[coverage[c].selected].rank

=============================================================================
