------------------------------ MODULE IngestRuns ------------------------------
(***************************************************************************)
(* The asynchronous ingest worker: callers of the API create a run row and *)
(* push a job for it (service/fragments.go), workers pop the job, drive    *)
(* the row through running to done or failed and retry the job             *)
(* (app/ingest_worker.go).  The row and the job are written separately,    *)
(* and no update of the row looks at the row.                              *)
(*                                                                         *)
(* Every write is a step of its own.  The loop around the handler (pop,    *)
(* then delete, release or dead-letter, then OnFailed) belongs to the      *)
(* queue library, which lives outside the repository.                      *)
(***************************************************************************)
EXTENDS Naturals

CONSTANTS
    Runs, NoRun,        \* ingest_runs ids
    JobIds, NoJob,      \* rows ingest_jobs may hand out (bounds pushes)
    Workers, Callers,
    MaxTries,           \* WorkerOpts.MaxTries
    ConfigStates,       \* what the config file may become, see Resolves
    MaxFaults           \* bound on failed writes, dead and slow workers

ASSUME IngestAssumption ==
    /\ NoRun \notin Runs
    /\ NoJob \notin JobIds
    /\ MaxTries \in Nat \ {0}
    /\ ConfigStates \subseteq {"ok", "missing", "broken"}
    /\ "ok" \in ConfigStates
    /\ MaxFaults \in Nat

VARIABLES
    runs,       \* ingest_runs.status
    ingestJobs, \* ingest_jobs
    workers,    \* worker -> where it is in the handler, and its copy of the job
    callers,    \* caller -> the run it has created and not yet pushed
    config,     \* "ok"; "missing": the ingest is gone from it; "broken": it, or the store, does not open
    ingested,   \* run -> times the pipeline ran to its end for it (0, 1, 2+)
    lost,       \* runs whose caller died before the push, or whose OnFailed came to nothing
    faults      \* faults left

runVars == <<runs, ingestJobs, workers, callers, config, ingested, lost, faults>>

T == INSTANCE JobTable WITH Payloads <- Runs, NoPayload <- NoRun

RunStates == {"none", "queued", "running", "done", "failed"}
OpenStates == {"queued", "running"}
WorkerSteps == {"idle", "taken", "running", "ingested", "finished", "erred", "buried"}
WorkerState == [step : WorkerSteps, job : JobIds \cup {NoJob}, run : Runs \cup {NoRun}, tries : Nat]
IdleWorker == [step |-> "idle", job |-> NoJob, run |-> NoRun, tries |-> 0]

RunsTypeOK ==
    /\ runs \in [Runs -> RunStates]
    /\ ingestJobs \in T!JobTables
    /\ workers \in [Workers -> WorkerState]
    /\ callers \in [Callers -> Runs \cup {NoRun}]
    /\ config \in ConfigStates
    /\ ingested \in [Runs -> 0..2]
    /\ lost \in SUBSET Runs
    /\ faults \in 0..MaxFaults

RunsInit ==
    /\ runs = [r \in Runs |-> "none"]
    /\ ingestJobs = T!EmptyTable
    /\ workers = [w \in Workers |-> IdleWorker]
    /\ callers = [c \in Callers |-> NoRun]
    /\ config = "ok"
    /\ ingested = [r \in Runs |-> 0]
    /\ lost = {}
    /\ faults = MaxFaults

Step(w, step) == workers' = [workers EXCEPT ![w].step = step]
Rest(w) == workers' = [workers EXCEPT ![w] = IdleWorker]
RunBecomes(r, status) == runs' = [runs EXCEPT ![r] = status]
Fault == faults > 0 /\ faults' = faults - 1

\* A write that takes effect, or a failed one whose error the code ignores.
FailRunOrIgnore(r) ==
    \/ RunBecomes(r, "failed") /\ UNCHANGED faults
    \/ Fault /\ UNCHANGED runs

\* Slip: the dead letter is not told to the run.
BuryWithoutOnFailed(w) ==
    /\ workers[w].step = "erred"
    /\ workers[w].tries >= MaxTries
    /\ ingestJobs' = T!Delete(ingestJobs, workers[w].job)
    /\ Rest(w)
    /\ UNCHANGED <<runs, callers, config, ingested, lost, faults>>

(***************************************************************************)
(* EnqueueIngestRun: the row first, then the job.  The caller has resolved *)
(* the ingest in its config before.                                        *)
(***************************************************************************)
CreateIngestRun(c, r) ==
    /\ config = "ok"
    /\ callers[c] = NoRun
    /\ runs[r] = "none"
    /\ RunBecomes(r, "queued")
    /\ callers' = [callers EXCEPT ![c] = r]
    /\ UNCHANGED <<ingestJobs, workers, config, ingested, lost, faults>>

PushRun(c) ==
    /\ callers[c] # NoRun
    /\ \E j \in T!FreshIds(ingestJobs) : ingestJobs' = T!Push(ingestJobs, j, callers[c])
    /\ callers' = [callers EXCEPT ![c] = NoRun]
    /\ UNCHANGED <<runs, workers, config, ingested, lost, faults>>

\* The push fails and FailIngestRun follows; should that fail as well, the
\* run is left as if the caller had died.
PushFailed(c) ==
    /\ callers[c] # NoRun
    /\ callers' = [callers EXCEPT ![c] = NoRun]
    /\ Fault
    /\ RunBecomes(callers[c], "failed")
    /\ UNCHANGED <<ingestJobs, workers, config, ingested, lost>>

CallerDies(c) ==
    /\ callers[c] # NoRun
    /\ callers' = [callers EXCEPT ![c] = NoRun]
    /\ lost' = lost \cup {callers[c]}
    /\ Fault
    /\ UNCHANGED <<runs, ingestJobs, workers, config, ingested>>

(***************************************************************************)
(* The worker.  It pops a job and runs the handler (runIngestJob) with a   *)
(* copy of it.                                                             *)
(***************************************************************************)
PopRun(w, j) ==
    /\ workers[w].step = "idle"
    /\ j \in T!Poppable(ingestJobs)
    /\ ingestJobs' = T!Pop(ingestJobs, j)
    /\ workers' = [workers EXCEPT ![w] =
            [step |-> "taken", job |-> j, run |-> ingestJobs[j].payload, tries |-> ingestJobs[j].tries + 1]]
    /\ UNCHANGED <<runs, callers, config, ingested, lost, faults>>

\* config.Load or Open fails: the handler returns before it touches the run.
OpenFailed(w) ==
    /\ workers[w].step = "taken"
    /\ config = "broken"
    /\ Step(w, "erred")
    /\ UNCHANGED <<runs, ingestJobs, callers, config, ingested, lost, faults>>

\* FindIngest fails: FailIngestRun, its own error ignored, then the error.
IngestNotFound(w) ==
    /\ workers[w].step = "taken"
    /\ config = "missing"
    /\ FailRunOrIgnore(workers[w].run)
    /\ Step(w, "erred")
    /\ UNCHANGED <<ingestJobs, callers, config, ingested, lost>>

MarkIngestRunRunning(w) ==
    /\ workers[w].step = "taken"
    /\ config = "ok"
    /\ RunBecomes(workers[w].run, "running")
    /\ Step(w, "running")
    /\ UNCHANGED <<ingestJobs, callers, config, ingested, lost, faults>>

RunOnce(w) ==
    /\ workers[w].step = "running"
    /\ ingested' = [ingested EXCEPT ![workers[w].run] = IF @ = 2 THEN 2 ELSE @ + 1]
    /\ Step(w, "ingested")
    /\ UNCHANGED <<runs, ingestJobs, callers, config, lost, faults>>

RunOnceFailed(w) ==
    /\ workers[w].step = "running"
    /\ FailRunOrIgnore(workers[w].run)
    /\ Step(w, "erred")
    /\ UNCHANGED <<ingestJobs, callers, config, ingested, lost>>

CompleteIngestRun(w) ==
    /\ workers[w].step = "ingested"
    /\ RunBecomes(workers[w].run, "done")
    /\ Step(w, "finished")
    /\ UNCHANGED <<ingestJobs, callers, config, ingested, lost, faults>>

\* MarkIngestRunRunning or CompleteIngestRun fails and is the handler's error.
RunWriteFailed(w) ==
    /\ workers[w].step \in {"taken", "ingested"}
    /\ Fault
    /\ Step(w, "erred")
    /\ UNCHANGED <<runs, ingestJobs, callers, config, ingested, lost>>

DeleteRunJob(w) ==
    /\ workers[w].step = "finished"
    /\ ingestJobs' = T!Delete(ingestJobs, workers[w].job)
    /\ Rest(w)
    /\ UNCHANGED <<runs, callers, config, ingested, lost, faults>>

ReleaseRunJob(w) ==
    /\ workers[w].step = "erred"
    /\ workers[w].tries < MaxTries
    /\ ingestJobs' = T!Release(ingestJobs, workers[w].job)
    /\ Rest(w)
    /\ UNCHANGED <<runs, callers, config, ingested, lost, faults>>

BuryRunJob(w) ==
    /\ workers[w].step = "erred"
    /\ workers[w].tries >= MaxTries
    /\ ingestJobs' = T!Delete(ingestJobs, workers[w].job)
    /\ Step(w, "buried")
    /\ UNCHANGED <<runs, callers, config, ingested, lost, faults>>

(***************************************************************************)
(* OnFailed.  failIngestRunForJob loads the config and opens the store as  *)
(* the handler did, and returns quietly if that fails again.               *)
(***************************************************************************)
FailIngestRunForJob(w) ==
    /\ workers[w].step = "buried"
    /\ \/ config # "broken" /\ RunBecomes(workers[w].run, "failed") /\ UNCHANGED <<lost, faults>>
       \/ /\ IF config = "broken" THEN UNCHANGED faults ELSE Fault
          /\ lost' = lost \cup {workers[w].run}
          /\ UNCHANGED runs
    /\ Rest(w)
    /\ UNCHANGED <<ingestJobs, callers, config, ingested>>

WorkerDies(w) ==
    /\ workers[w].step # "idle"
    /\ lost' = IF workers[w].step = "buried" THEN lost \cup {workers[w].run} ELSE lost
    /\ Fault
    /\ Rest(w)
    /\ UNCHANGED <<runs, ingestJobs, callers, config, ingested>>

(***************************************************************************)
(* A reservation lapses: at no cost when the worker that holds it has      *)
(* died, as a fault when that worker is merely slow.                       *)
(***************************************************************************)
Busy(j) == \E w \in Workers : workers[w].step # "idle" /\ workers[w].job = j

LapseRunJob(j) ==
    /\ ingestJobs[j].state = "reserved"
    /\ IF Busy(j) THEN Fault ELSE UNCHANGED faults
    /\ ingestJobs' = T!Lapse(ingestJobs, j)
    /\ UNCHANGED <<runs, workers, callers, config, ingested, lost>>

\* Somebody edits the file, in whatever way; IngestAdmin says in which.
EditConfig ==
    /\ config' \in ConfigStates \ {config}
    /\ UNCHANGED <<runs, ingestJobs, workers, callers, ingested, lost, faults>>

Handle(w) ==
    \/ OpenFailed(w) \/ IngestNotFound(w) \/ MarkIngestRunRunning(w)
    \/ RunOnce(w) \/ RunOnceFailed(w) \/ CompleteIngestRun(w) \/ RunWriteFailed(w)
    \/ DeleteRunJob(w) \/ ReleaseRunJob(w) \/ BuryRunJob(w) \/ FailIngestRunForJob(w)

Work(w) == Handle(w) \/ \E j \in JobIds : PopRun(w, j)

Call(c) == (\E r \in Runs : CreateIngestRun(c, r)) \/ PushRun(c) \/ PushFailed(c) \/ CallerDies(c)

RunsStep ==
    \/ \E c \in Callers : Call(c)
    \/ \E w \in Workers : Work(w) \/ WorkerDies(w)
    \/ \E j \in JobIds : LapseRunJob(j)

RunsNext == RunsStep \/ EditConfig

RunsSpec == RunsInit /\ [][RunsNext]_runVars

(***************************************************************************)
(* Properties.                                                             *)
(***************************************************************************)
Open(r) == runs[r] \in OpenStates
WorkedOn(r) == \E w \in Workers : workers[w].step # "idle" /\ workers[w].run = r
Tended(r) ==
    T!HoldsPayload(ingestJobs, r) \/ WorkedOn(r) \/ \E c \in Callers : callers[c] = r
Pushed(r) == \E j \in JobIds : ingestJobs[j].payload = r

(***************************************************************************)
(* A run that says it is queued or running has a caller, a job or a worker *)
(* that will yet bring it to an end.  Only three things may leave a row    *)
(* that pretends to be in progress: the death of the caller between its    *)
(* two writes, the death of a worker between the dead letter and OnFailed, *)
(* and an OnFailed that cannot load the config or write the row.  No other *)
(* single failed write, dead or slow worker does (EnqueueIngestRun,        *)
(* ExecuteIngestRun, failIngestRunForJob).                                 *)
(***************************************************************************)
OpenRunIsTended == \A r \in Runs \ lost : Open(r) => Tended(r)

(***************************************************************************)
(* Every run that was pushed is in the end done or failed for good.        *)
(***************************************************************************)
EveryRunSettles ==
    \A r \in Runs : Pushed(r) ~> [](runs[r] \in {"done", "failed"})
===============================================================================
