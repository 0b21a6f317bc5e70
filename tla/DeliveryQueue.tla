---------------------------- MODULE DeliveryQueue ----------------------------
(***************************************************************************)
(* The durable delivery queue (internal/service/delivery_queue.go): a      *)
(* delivery that could not be made inline, or must never be, becomes a     *)
(* job; drainers in several processes pop and execute it, retry it, and    *)
(* dead-letter it; operators replay or purge what was dead-lettered.       *)
(*                                                                         *)
(* Every database write of the code is a step of its own, because none of  *)
(* them shares a transaction with the next.  A request is one call of      *)
(* EnqueueDestinationRetry; it keeps its identity through retries, dead    *)
(* letters and replays, which the code's payload (fragment, route,         *)
(* destination) does too.                                                  *)
(***************************************************************************)
EXTENDS Naturals, FiniteSets

CONSTANTS
    Fragments, Destinations,
    Requests, NoRequest,    \* the delivery requests that may be made
    FragOf, DestOf,         \* the fragment and destination of a request
    JobIds,                 \* rows delivery_jobs may hand out (bounds pushes)
    FailedIds, NoFailed,    \* rows delivery_failed_jobs may hand out
    NoJob,
    Drainers, Operators,
    MaxTries,               \* retry.MaxAttempts of the destinations
    MaxReplaysPerHour,      \* queue policy
    ForceAllowed,           \* may an operator pass force?
    MaxFaults               \* bound on error returns, crashes, slow drainers

ASSUME RequestAssumption ==
    /\ NoRequest \notin Requests
    /\ FragOf \in [Requests -> Fragments]
    /\ DestOf \in [Requests -> Destinations]
ASSUME RowAssumption == NoJob \notin JobIds /\ NoFailed \notin FailedIds
ASSUME PolicyAssumption ==
    /\ MaxTries \in Nat \ {0}
    /\ MaxReplaysPerHour \in Nat \ {0}
    /\ MaxFaults \in Nat
    /\ ForceAllowed \in BOOLEAN

VARIABLES
    jobs,       \* delivery_jobs
    dead,       \* delivery_failed_jobs: row id -> [state, req]
    status,     \* fragments.status
    inbox,      \* the fragments that have an inbox row
    dests,      \* the destinations that still exist
    drainers,   \* drainer -> where it is in processJob, and its copy of the job
    operators,  \* operator -> where it is in ReplayFailed or PurgeFailed
    replays,    \* destination -> 'replay' events of the last hour
    cooling,    \* the destinations replayed less than the cooldown ago
    accepted,   \* requests whose job was pushed
    acked,      \* request -> deliveries the destination acknowledged (0, 1, 2+)
    purged,     \* requests an operator purged
    faults      \* faults left

queueVars == <<jobs, dead, drainers, operators, replays, cooling, accepted, acked, purged, faults>>
routeVars == <<status, inbox, dests>>
vars == <<queueVars, routeVars>>

T == INSTANCE JobTable WITH Payloads <- Requests, NoPayload <- NoRequest

DeadStates == {"unused", "held", "gone"}
DrainerSteps == {"idle", "popped", "loaded", "acked", "routed", "cleared", "failing", "releasing"}
OperatorSteps == {"idle", "found", "forced", "preflighted", "pushed", "logged", "purging"}

MaybeRequest == Requests \cup {NoRequest}
DeadRow == [state : DeadStates, req : MaybeRequest]
DrainerState == [step : DrainerSteps, job : JobIds \cup {NoJob}, req : MaybeRequest, tries : Nat]
OperatorState == [step : OperatorSteps, row : FailedIds \cup {NoFailed}, req : MaybeRequest]

IdleDrainer == [step |-> "idle", job |-> NoJob, req |-> NoRequest, tries |-> 0]
IdleOperator == [step |-> "idle", row |-> NoFailed, req |-> NoRequest]

(***************************************************************************)
(* Types and initial state.                                                *)
(***************************************************************************)
TypeOK ==
    /\ jobs \in T!JobTables
    /\ dead \in [FailedIds -> DeadRow]
    /\ status \in [Fragments -> {"inbox", "routed"}]
    /\ inbox \in SUBSET Fragments
    /\ dests \in SUBSET Destinations
    /\ drainers \in [Drainers -> DrainerState]
    /\ operators \in [Operators -> OperatorState]
    /\ replays \in [Destinations -> Nat]
    /\ cooling \in SUBSET Destinations
    /\ accepted \in SUBSET Requests
    /\ acked \in [Requests -> 0..2]
    /\ purged \in SUBSET Requests
    /\ faults \in Nat

QueueInit ==
    /\ jobs = T!EmptyTable
    /\ dead = [x \in FailedIds |-> [state |-> "unused", req |-> NoRequest]]
    /\ drainers = [d \in Drainers |-> IdleDrainer]
    /\ operators = [o \in Operators |-> IdleOperator]
    /\ replays = [t \in Destinations |-> 0]
    /\ cooling = {}
    /\ accepted = {}
    /\ acked = [r \in Requests |-> 0]
    /\ purged = {}
    /\ faults = MaxFaults

(***************************************************************************)
(* On its own the queue is met after ingest has staged every fragment.     *)
(***************************************************************************)
Init ==
    /\ QueueInit
    /\ status = [f \in Fragments |-> "inbox"]
    /\ inbox = Fragments
    /\ dests = Destinations

\* A drainer, an operator takes its next step with the copy it holds.
Go(d, step) == drainers' = [drainers EXCEPT ![d].step = step]
OperatorGo(o, step) == operators' = [operators EXCEPT ![o].step = step]

(***************************************************************************)
(* Slips.  Each operator here is a step below with one mistake in it; a    *)
(* property that holds with the slip in place says nothing about the code. *)
(***************************************************************************)
ExecuteFailedGivesUp(d) ==
    /\ drainers[d].step = "loaded"
    /\ Go(d, IF drainers[d].tries >= MaxTries THEN "cleared" ELSE "releasing")
    /\ UNCHANGED <<jobs, dead, operators, replays, cooling, accepted, acked, purged, faults, routeVars>>

DeleteJobReleases(d) ==
    /\ drainers[d].step = "cleared"
    /\ jobs' = T!Release(jobs, drainers[d].job)
    /\ drainers' = [drainers EXCEPT ![d] = IdleDrainer]
    /\ UNCHANGED <<dead, operators, replays, cooling, accepted, acked, purged, faults, routeVars>>

ReleaseJobAnew(d) ==
    /\ drainers[d].step = "releasing"
    /\ jobs' = [T!Release(jobs, drainers[d].job) EXCEPT ![drainers[d].job].tries = 0]
    /\ drainers' = [drainers EXCEPT ![d] = IdleDrainer]
    /\ UNCHANGED <<dead, operators, replays, cooling, accepted, acked, purged, faults, routeVars>>

ReplayPreflightDeletesRow(o) ==
    /\ operators[o].step = "found"
    /\ dead' = [dead EXCEPT ![operators[o].row].state = "gone"]
    /\ OperatorGo(o, "preflighted")
    /\ UNCHANGED <<jobs, drainers, replays, cooling, accepted, acked, purged, faults, routeVars>>

(***************************************************************************)
(* Enqueue.  The push is the effect; the audit event written after it can  *)
(* fail on its own, and the job stays.                                     *)
(***************************************************************************)
EnqueueDestinationRetry(r) ==
    /\ r \notin accepted
    /\ \E j \in T!FreshIds(jobs) : jobs' = T!Push(jobs, j, r)
    /\ accepted' = accepted \cup {r}
    /\ UNCHANGED <<dead, drainers, operators, replays, cooling, acked, purged, faults, routeVars>>

DeleteDestination(t) ==
    /\ t \in dests
    /\ dests' = dests \ {t}
    /\ UNCHANGED <<queueVars, status, inbox>>

(***************************************************************************)
(* Drain and processJob.                                                   *)
(***************************************************************************)
DrainPop(d) ==
    /\ drainers[d].step = "idle"
    /\ \E j \in T!Poppable(jobs) :
        /\ jobs' = T!Pop(jobs, j)
        /\ drainers' = [drainers EXCEPT ![d] =
              [step |-> "popped", job |-> j, req |-> jobs[j].payload, tries |-> jobs[j].tries + 1]]
    /\ UNCHANGED <<dead, operators, replays, cooling, accepted, acked, purged, faults, routeVars>>

(***************************************************************************)
(* The fragment, destination and attachments are read once; what happens   *)
(* to them later is not seen.  A read that fails, whatever the cause,      *)
(* dead-letters the job at once.                                           *)
(***************************************************************************)
LoadJob(d) ==
    /\ drainers[d].step = "popped"
    /\ \/ /\ DestOf[drainers[d].req] \in dests
          /\ Go(d, "loaded")
          /\ UNCHANGED faults
       \/ /\ DestOf[drainers[d].req] \notin dests
          /\ Go(d, "failing")
          /\ UNCHANGED faults
       \/ /\ faults > 0
          /\ faults' = faults - 1
          /\ Go(d, "failing")
    /\ UNCHANGED <<jobs, dead, operators, replays, cooling, accepted, acked, purged, routeVars>>

AckUpTo2(n) == IF n < 2 THEN n + 1 ELSE n

ExecuteAcked(d) ==
    /\ drainers[d].step = "loaded"
    /\ acked' = [acked EXCEPT ![drainers[d].req] = AckUpTo2(@)]
    /\ Go(d, "acked")
    /\ UNCHANGED <<jobs, dead, operators, replays, cooling, accepted, purged, faults, routeVars>>

\* The last permitted attempt dead-letters the job, an earlier one releases it.
ExecuteFailed(d) ==
    /\ drainers[d].step = "loaded"
    /\ Go(d, IF drainers[d].tries >= MaxTries THEN "failing" ELSE "releasing")
    /\ UNCHANGED <<jobs, dead, operators, replays, cooling, accepted, acked, purged, faults, routeVars>>

MarkRouted(d) ==
    /\ drainers[d].step = "acked"
    /\ status' = [status EXCEPT ![FragOf[drainers[d].req]] = "routed"]
    /\ Go(d, "routed")
    /\ UNCHANGED <<jobs, dead, operators, replays, cooling, accepted, acked, purged, faults, inbox, dests>>

RemoveFromInbox(d) ==
    /\ drainers[d].step = "routed"
    /\ inbox' = inbox \ {FragOf[drainers[d].req]}
    /\ Go(d, "cleared")
    /\ UNCHANGED <<jobs, dead, operators, replays, cooling, accepted, acked, purged, faults, status, dests>>

DeleteJob(d) ==
    /\ drainers[d].step = "cleared"
    /\ jobs' = T!Delete(jobs, drainers[d].job)
    /\ drainers' = [drainers EXCEPT ![d] = IdleDrainer]
    /\ UNCHANGED <<dead, operators, replays, cooling, accepted, acked, purged, faults, routeVars>>

ReleaseJob(d) ==
    /\ drainers[d].step = "releasing"
    /\ jobs' = T!Release(jobs, drainers[d].job)
    /\ drainers' = [drainers EXCEPT ![d] = IdleDrainer]
    /\ UNCHANGED <<dead, operators, replays, cooling, accepted, acked, purged, faults, routeVars>>

\* queue.Failed moves the worker's copy of the job to the failed table.
FailJob(d) ==
    /\ drainers[d].step = "failing"
    /\ \E x \in {y \in FailedIds : dead[y].state = "unused"} :
        dead' = [dead EXCEPT ![x] = [state |-> "held", req |-> drainers[d].req]]
    /\ jobs' = T!Delete(jobs, drainers[d].job)
    /\ drainers' = [drainers EXCEPT ![d] = IdleDrainer]
    /\ UNCHANGED <<operators, replays, cooling, accepted, acked, purged, faults, routeVars>>

(***************************************************************************)
(* Any step of processJob may return an error, or the process may die:     *)
(* either way the job stays reserved, and nothing already written is       *)
(* undone.                                                                 *)
(***************************************************************************)
AbandonJob(d) ==
    /\ drainers[d].step # "idle"
    /\ faults > 0
    /\ faults' = faults - 1
    /\ drainers' = [drainers EXCEPT ![d] = IdleDrainer]
    /\ UNCHANGED <<jobs, dead, operators, replays, cooling, accepted, acked, purged, routeVars>>

(***************************************************************************)
(* RetryAfter passes on a reserved job: always if nobody works on it, and  *)
(* as a fault under a drainer that is still busy with it.                  *)
(***************************************************************************)
BusyWith(j) == \E d \in Drainers : drainers[d].job = j

LapseReservation(j) ==
    /\ jobs[j].state = "reserved"
    /\ IF BusyWith(j) THEN faults > 0 /\ faults' = faults - 1 ELSE UNCHANGED faults
    /\ jobs' = T!Lapse(jobs, j)
    /\ UNCHANGED <<dead, drainers, operators, replays, cooling, accepted, acked, purged, routeVars>>

(***************************************************************************)
(* ReplayFailed: three writes, no transaction.                             *)
(***************************************************************************)
ReplayFind(o, x) ==
    /\ operators[o].step = "idle"
    /\ dead[x].state = "held"
    /\ DestOf[dead[x].req] \in dests
    /\ \E force \in {FALSE, ForceAllowed} :
        operators' = [operators EXCEPT ![o] =
            [step |-> IF force THEN "forced" ELSE "found", row |-> x, req |-> dead[x].req]]
    /\ UNCHANGED <<jobs, dead, drainers, replays, cooling, accepted, acked, purged, faults, routeVars>>

ReplayAllowed(t) == t \notin cooling /\ replays[t] < MaxReplaysPerHour

\* getDestinationStatus reads the destination again and probes it, then the
\* policy is checked.
ReplayPreflight(o) ==
    LET t == DestOf[operators[o].req] IN
    /\ operators[o].step = "found"
    /\ \E reachable \in BOOLEAN :
        operators' = [operators EXCEPT ![o] =
            IF t \in dests /\ reachable /\ ReplayAllowed(t)
            THEN [@ EXCEPT !.step = "preflighted"] ELSE IdleOperator]
    /\ UNCHANGED <<jobs, dead, drainers, replays, cooling, accepted, acked, purged, faults, routeVars>>

ReplayPush(o) ==
    /\ operators[o].step \in {"forced", "preflighted"}
    /\ \E j \in T!FreshIds(jobs) : jobs' = T!Push(jobs, j, operators[o].req)
    /\ OperatorGo(o, "pushed")
    /\ UNCHANGED <<dead, drainers, replays, cooling, accepted, acked, purged, faults, routeVars>>

ReplayLog(o) ==
    LET t == DestOf[operators[o].req] IN
    /\ operators[o].step = "pushed"
    /\ replays' = [replays EXCEPT ![t] = @ + 1]
    /\ cooling' = cooling \cup {t}
    /\ OperatorGo(o, "logged")
    /\ UNCHANGED <<jobs, dead, drainers, accepted, acked, purged, faults, routeVars>>

ReplayDelete(o) ==
    /\ operators[o].step = "logged"
    /\ dead' = [dead EXCEPT ![operators[o].row].state = "gone"]
    /\ operators' = [operators EXCEPT ![o] = IdleOperator]
    /\ UNCHANGED <<jobs, drainers, replays, cooling, accepted, acked, purged, faults, routeVars>>

(***************************************************************************)
(* PurgeFailed: the row is read, an event logged, the row deleted.  Only   *)
(* a purge that still finds the row discards the request.                  *)
(***************************************************************************)
PurgeFind(o, x) ==
    /\ operators[o].step = "idle"
    /\ dead[x].state = "held"
    /\ operators' = [operators EXCEPT ![o] = [step |-> "purging", row |-> x, req |-> dead[x].req]]
    /\ UNCHANGED <<jobs, dead, drainers, replays, cooling, accepted, acked, purged, faults, routeVars>>

PurgeDelete(o) ==
    /\ operators[o].step = "purging"
    /\ purged' = IF dead[operators[o].row].state = "held"
                 THEN purged \cup {operators[o].req} ELSE purged
    /\ dead' = [dead EXCEPT ![operators[o].row].state = "gone"]
    /\ operators' = [operators EXCEPT ![o] = IdleOperator]
    /\ UNCHANGED <<jobs, drainers, replays, cooling, accepted, acked, faults, routeVars>>

\* An operator's call fails or its process dies between two of its writes.
AbandonOperator(o) ==
    /\ operators[o].step # "idle"
    /\ faults > 0
    /\ faults' = faults - 1
    /\ operators' = [operators EXCEPT ![o] = IdleOperator]
    /\ UNCHANGED <<jobs, dead, drainers, replays, cooling, accepted, acked, purged, routeVars>>

\* The clock: a replay event leaves the one-hour window, a cooldown ends.
ReplayAges(t) ==
    /\ replays[t] > 0
    /\ replays' = [replays EXCEPT ![t] = @ - 1]
    /\ UNCHANGED <<jobs, dead, drainers, operators, cooling, accepted, acked, purged, faults, routeVars>>

CooldownEnds(t) ==
    /\ t \in cooling
    /\ cooling' = cooling \ {t}
    /\ UNCHANGED <<jobs, dead, drainers, operators, replays, accepted, acked, purged, faults, routeVars>>

(***************************************************************************)
(* The specification.                                                      *)
(***************************************************************************)
Drain(d) ==
    \/ DrainPop(d) \/ LoadJob(d) \/ ExecuteAcked(d) \/ ExecuteFailed(d)
    \/ MarkRouted(d) \/ RemoveFromInbox(d) \/ DeleteJob(d)
    \/ ReleaseJob(d) \/ FailJob(d)

Replay(o) ==
    \/ \E x \in FailedIds : ReplayFind(o, x)
    \/ ReplayPreflight(o) \/ ReplayPush(o) \/ ReplayLog(o) \/ ReplayDelete(o)

Purge(o) == (\E x \in FailedIds : PurgeFind(o, x)) \/ PurgeDelete(o)

Clock ==
    \/ \E j \in JobIds : LapseReservation(j)
    \/ \E t \in Destinations : ReplayAges(t) \/ CooldownEnds(t)

QueueNext ==
    \/ \E d \in Drainers : Drain(d) \/ AbandonJob(d)
    \/ \E o \in Operators : Replay(o) \/ Purge(o) \/ AbandonOperator(o)
    \/ Clock

Next ==
    \/ \E r \in Requests : EnqueueDestinationRetry(r)
    \/ \E t \in Destinations : DeleteDestination(t)
    \/ QueueNext

Spec == Init /\ [][Next]_vars

(***************************************************************************)
(* RunQueueDrainer's ticker keeps popping, and wall-clock time passes, so  *)
(* a reservation whose holder died does lapse.  Operators, and the caller  *)
(* that enqueues, owe nothing.                                             *)
(***************************************************************************)
Fairness ==
    /\ \A d \in Drainers : WF_vars(Drain(d))
    /\ \A j \in JobIds : WF_vars(LapseReservation(j))

FairSpec == Spec /\ Fairness

-------------------------------------------------------------------------------
(***************************************************************************)
(* Properties.                                                             *)
(***************************************************************************)
HasDeadRow(r) == \E x \in FailedIds : dead[x].state = "held" /\ dead[x].req = r
Kept(r) == T!HoldsPayload(jobs, r) \/ HasDeadRow(r) \/ r \in purged
Delivered(r) == acked[r] > 0 /\ status[FragOf[r]] = "routed"

(***************************************************************************)
(* No accepted request is ever lost, whatever step fails and whoever else  *)
(* works on it: it has a job, or a dead-letter row, or an operator purged  *)
(* it, or its destination acknowledged it and its fragment is routed.      *)
(***************************************************************************)
NothingLost == \A r \in accepted : Kept(r) \/ Delivered(r)

(***************************************************************************)
(* Why nothing is lost: a request is resolved by something that no single  *)
(* write can take away.  A dead-letter row an operator has already         *)
(* replayed and is about to delete (a doomed row) does not count.  What a  *)
(* drainer or operator holds is a local copy; the invariant says what that *)
(* copy still means in the tables.                                         *)
(***************************************************************************)
Doomed == {operators[o].row : o \in {p \in Operators : operators[p].step \in {"pushed", "logged"}}}
HasSafeRow(r) == \E x \in FailedIds \ Doomed : dead[x].state = "held" /\ dead[x].req = r
Resolved(r) ==
    \/ T!HoldsPayload(jobs, r)
    \/ HasSafeRow(r)
    \/ r \in purged
    \/ Delivered(r) /\ FragOf[r] \notin inbox

JobsNamed == \A j \in JobIds : jobs[j].state # "unused" => jobs[j].payload \in accepted
RowsNamed == \A x \in FailedIds : dead[x].state # "unused" => dead[x].req \in accepted

DrainerOK(d) ==
    LET w == drainers[d] IN
    /\ w.step # "idle" => /\ w.job \in JobIds /\ w.req \in accepted
                          /\ jobs[w.job].state # "unused" /\ jobs[w.job].payload = w.req
    /\ w.step \in {"acked", "routed", "cleared"} => acked[w.req] > 0
    /\ w.step \in {"routed", "cleared"} => status[FragOf[w.req]] = "routed"
    /\ w.step = "cleared" => FragOf[w.req] \notin inbox

OperatorOK(o) ==
    LET w == operators[o] IN
    w.step # "idle" => /\ w.row \in FailedIds /\ w.req \in accepted
                       /\ dead[w.row].state # "unused" /\ dead[w.row].req = w.req

IInv ==
    /\ TypeOK /\ JobsNamed /\ RowsNamed
    /\ \A d \in Drainers : DrainerOK(d)
    /\ \A o \in Operators : OperatorOK(o)
    /\ \A r \in accepted : Resolved(r)

(***************************************************************************)
(* processJob gives a job up only after the fragment has left the inbox:   *)
(* no delivered fragment waits for a human with no job left to remove it.  *)
(***************************************************************************)
SettledLeavesInbox == \A r \in accepted : Kept(r) \/ FragOf[r] \notin inbox

(***************************************************************************)
(* What is done once too often is a fault's doing: with a single operator, *)
(* however drainers interleave with releases, dead letters and replays, a  *)
(* destination acknowledges a request twice only after a fault; and a job  *)
(* exceeds its max tries only by the failed tries that a fault hid from    *)
(* the Attempts >= MaxTries test of processJob.                            *)
(***************************************************************************)
RepeatsAreFaults ==
    /\ \A r \in Requests : acked[r] > 1 => faults < MaxFaults
    /\ \A j \in JobIds : jobs[j].tries <= MaxTries + (MaxFaults - faults)

(***************************************************************************)
(* The drainer loop brings every accepted request to an end: it is         *)
(* acknowledged, or dead-lettered where an operator sees it, or purged.    *)
(***************************************************************************)
EveryRequestResolves ==
    \A r \in Requests : r \in accepted ~> (acked[r] > 0 \/ HasDeadRow(r) \/ r \in purged)

(***************************************************************************)
(* The ledger that callers of the queue rely on.                           *)
(***************************************************************************)
Ledger == INSTANCE DeliveryLedger WITH
    submitted <- accepted,
    held <- {r \in Requests : T!HoldsPayload(jobs, r) \/ HasDeadRow(r)},
    delivered <- {r \in Requests : acked[r] > 0},
    discarded <- purged

ImplementsLedger == Ledger!Spec

===============================================================================
