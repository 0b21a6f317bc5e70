---------------------------- MODULE IngestRuntime ----------------------------
(***************************************************************************)
(* Scheduled ingests in front of the ingest worker.  A schedule has one    *)
(* next occurrence; an engine turns it into a fire (CreateFire), claims    *)
(* the fire for a while (ClaimFire), hands it over as a run with its job   *)
(* (enqueueScheduledIngest) and records the outcome (TransitionFire).      *)
(* Several engines do so at once, and people edit and delete the schedule  *)
(* meanwhile (service/ingest_schedules.go).                                *)
(*                                                                         *)
(* The engine's loop, and the claim and transition statements, belong to   *)
(* the scheduler library, which lives outside the repository; what they    *)
(* must do is what repository/ingest_fires_test.go asks of them.  A fire   *)
(* is identified by its schedule and the time it is scheduled at.          *)
(*                                                                         *)
(* One schedule stands for all: schedules share nothing but the tables.    *)
(***************************************************************************)
EXTENDS IngestRuns, FiniteSets

CONSTANTS
    Engines, Editors,
    NoEngine,
    LastTick        \* bound on the clock; the schedule is due at every tick

ASSUME ScheduleAssumption == LastTick \in Nat \ {0} /\ NoEngine \notin Engines

VARIABLES
    now,        \* the clock
    schedule,   \* the row of ingest_schedules
    fires,      \* gosched_fires: occurrence -> its status and the engine that claimed it last
    dispatches, \* ingest_fire_dispatches: occurrence -> its run
    engines,    \* engine -> where it is, and its copy of a schedule or fire
    editors     \* editor -> the next_run Update has computed, 0 if none

fireVars == <<now, schedule, fires, dispatches, engines, editors>>
runtimeVars == <<runVars, fireVars>>

Ticks == 1..LastTick
Never == LastTick + 1   \* an occurrence the bounded clock does not reach
Occurrences == 1..Never
FireStates == {"none", "pending", "claimed", "lapsed", "succeeded"}
EngineSteps == {"idle", "listed", "claimed", "accepted", "refused"}
NoFire == [status |-> "none", by |-> NoEngine]
IdleEngine == [step |-> "idle", at |-> 0]

FiresTypeOK ==
    /\ now \in 0..LastTick
    /\ schedule \in [state : {"absent", "present", "deleted"}, enabled : BOOLEAN, next : Occurrences]
    /\ fires \in [Ticks -> [status : FireStates, by : Engines \cup {NoEngine}]]
    /\ dispatches \in [Ticks -> Runs \cup {NoRun}]
    /\ engines \in [Engines -> [step : EngineSteps, at : 0..LastTick]]
    /\ editors \in [Editors -> 0..Never]

RuntimeTypeOK == RunsTypeOK /\ FiresTypeOK

FiresInit ==
    /\ now = 0
    /\ schedule = [state |-> "absent", enabled |-> FALSE, next |-> Never]
    /\ fires = [t \in Ticks |-> NoFire]
    /\ dispatches = [t \in Ticks |-> NoRun]
    /\ engines = [e \in Engines |-> IdleEngine]
    /\ editors = [d \in Editors |-> 0]

RuntimeInit == RunsInit /\ FiresInit

EngineGo(e, step) == engines' = [engines EXCEPT ![e].step = step]
EngineRests(e) == engines' = [engines EXCEPT ![e] = IdleEngine]

Present == schedule.state = "present"
Stands(t) == Present /\ schedule.enabled /\ schedule.next = t

\* A lapsed claim still holds until somebody makes another.
HoldsClaim(e) ==
    LET f == fires[engines[e].at] IN f.status \in {"claimed", "lapsed"} /\ f.by = e

\* A cron expression's next occurrence after t; an edit may change the expression.
After(t) == {u \in Occurrences : u > t}

(***************************************************************************)
(* Slips: mistaken variants of the steps below, part of no specification.  *)
(***************************************************************************)

CreateFireInsertsOnly(e) ==
    /\ engines[e].step = "listed"
    /\ EngineRests(e)
    /\ LET f == engines[e].at IN
        IF Stands(f) /\ fires[f].status = "none"
        THEN fires' = [fires EXCEPT ![f].status = "pending"]
        ELSE UNCHANGED fires
    /\ UNCHANGED <<runVars, now, schedule, dispatches, editors>>

DispatchWithoutIdentity(e) ==
    /\ engines[e].step = "claimed"
    /\ config = "ok"
    /\ EngineGo(e, "accepted")
    /\ \E r \in Runs, j \in T!FreshIds(ingestJobs) :
        /\ runs[r] = "none"
        /\ RunBecomes(r, "queued")
        /\ ingestJobs' = T!Push(ingestJobs, j, r)
        /\ dispatches' = [dispatches EXCEPT ![engines[e].at] = r]
    /\ UNCHANGED <<workers, callers, config, ingested, lost, faults, now, schedule, fires, editors>>

SucceedWhateverCame(e) ==
    /\ engines[e].step \in {"accepted", "refused"}
    /\ LET f == engines[e].at IN
        IF HoldsClaim(e)
        THEN fires' = [fires EXCEPT ![f].status = "succeeded"]
        ELSE UNCHANGED fires
    /\ EngineRests(e)
    /\ UNCHANGED <<runVars, now, schedule, dispatches, editors>>

(***************************************************************************)
(* The clock, and the lapse of a claim: ClaimExpiresAt goes by.            *)
(***************************************************************************)
Tick ==
    /\ now < LastTick
    /\ now' = now + 1
    /\ UNCHANGED <<runVars, schedule, fires, dispatches, engines, editors>>

LapseClaim(t) ==
    /\ fires[t].status = "claimed"
    /\ fires' = [fires EXCEPT ![t].status = "lapsed"]
    /\ UNCHANGED <<runVars, now, schedule, dispatches, engines, editors>>

(***************************************************************************)
(* An engine lists a due schedule and creates its fire later.              *)
(***************************************************************************)
ListDueSchedules(e) ==
    /\ engines[e].step = "idle"
    /\ Stands(schedule.next) /\ schedule.next <= now
    /\ engines' = [engines EXCEPT ![e] = [step |-> "listed", at |-> schedule.next]]
    /\ UNCHANGED <<runVars, now, schedule, fires, dispatches, editors>>

\* One transaction: the schedule must still be what was listed, and a fire
\* that exists already, whatever became of it, undoes the advance.
CreateFire(e) ==
    /\ engines[e].step = "listed"
    /\ EngineRests(e)
    /\ LET f == engines[e].at IN
        IF Stands(f) /\ fires[f].status = "none"
        THEN /\ \E n \in After(f) : schedule' = [schedule EXCEPT !.next = n]
             /\ fires' = [fires EXCEPT ![f].status = "pending"]
        ELSE UNCHANGED <<schedule, fires>>
    /\ UNCHANGED <<runVars, now, dispatches, editors>>

(***************************************************************************)
(* A fire whose claim has lapsed may be claimed again by anyone.  The code *)
(* recognises a claim by its time; as an engine holds one copy at a time,  *)
(* the engine that made the last claim serves as well.                     *)
(***************************************************************************)
ClaimFire(e, t) ==
    /\ engines[e].step = "idle"
    /\ fires[t].status \in {"pending", "lapsed"}
    /\ fires' = [fires EXCEPT ![t] = [status |-> "claimed", by |-> e]]
    /\ engines' = [engines EXCEPT ![e] = [step |-> "claimed", at |-> t]]
    /\ UNCHANGED <<runVars, now, schedule, dispatches, editors>>

(***************************************************************************)
(* enqueueScheduledIngest: the fire's identity, the run and the job in one *)
(* transaction, or ErrDuplicateJob, which the engine takes for success.    *)
(***************************************************************************)
DispatchFire(e) ==
    /\ engines[e].step = "claimed"
    /\ config = "ok"
    /\ EngineGo(e, "accepted")
    /\ IF dispatches[engines[e].at] # NoRun
       THEN UNCHANGED <<runs, ingestJobs, dispatches>>
       ELSE \E r \in Runs, j \in T!FreshIds(ingestJobs) :
            /\ runs[r] = "none"
            /\ RunBecomes(r, "queued")
            /\ ingestJobs' = T!Push(ingestJobs, j, r)
            /\ dispatches' = [dispatches EXCEPT ![engines[e].at] = r]
    /\ UNCHANGED <<workers, callers, config, ingested, lost, faults, now, schedule, fires, editors>>

\* The config does not load or has no such ingest, or the transaction fails.
DispatchRefused(e) ==
    /\ engines[e].step = "claimed"
    /\ IF config = "ok" THEN Fault ELSE UNCHANGED faults
    /\ EngineGo(e, "refused")
    /\ UNCHANGED <<runs, ingestJobs, workers, callers, config, ingested, lost,
                   now, schedule, fires, dispatches, editors>>

\* TransitionFire compares the claim; a refused dispatch is to be retried.
TransitionFire(e) ==
    /\ engines[e].step \in {"accepted", "refused"}
    /\ LET f == engines[e].at
           outcome == IF engines[e].step = "accepted" THEN "succeeded" ELSE "pending"
       IN IF HoldsClaim(e)
          THEN fires' = [fires EXCEPT ![f].status = outcome]
          ELSE UNCHANGED fires
    /\ EngineRests(e)
    /\ UNCHANGED <<runVars, now, schedule, dispatches, editors>>

EngineDies(e) ==
    /\ engines[e].step # "idle"
    /\ Fault
    /\ EngineRests(e)
    /\ UNCHANGED <<runs, ingestJobs, workers, callers, config, ingested, lost,
                   now, schedule, fires, dispatches, editors>>

(***************************************************************************)
(* IngestScheduleService.Create; the id is new each time, so that a        *)
(* schedule created after this one was deleted is another schedule.        *)
(***************************************************************************)
CreateSchedule ==
    /\ schedule.state = "absent"
    /\ \E on \in BOOLEAN, n \in After(now) :
        schedule' = [state |-> "present", enabled |-> on, next |-> n]
    /\ UNCHANGED <<runVars, now, fires, dispatches, engines, editors>>

(***************************************************************************)
(* IngestScheduleService.Update reads the row, computes an occurrence      *)
(* after the present and then writes the whole row back; Delete.           *)
(***************************************************************************)
ReadForUpdate(d) ==
    /\ editors[d] = 0
    /\ Present
    /\ \E n \in After(now) : editors' = [editors EXCEPT ![d] = n]
    /\ UNCHANGED <<runVars, now, schedule, fires, dispatches, engines>>

UpdateSchedule(d) ==
    /\ editors[d] # 0
    /\ IF Present
       THEN \E on \in BOOLEAN : schedule' = [schedule EXCEPT !.enabled = on, !.next = editors[d]]
       ELSE UNCHANGED schedule
    /\ editors' = [editors EXCEPT ![d] = 0]
    /\ UNCHANGED <<runVars, now, fires, dispatches, engines>>

DeleteSchedule(d) ==
    /\ editors[d] = 0
    /\ Present
    /\ schedule' = [schedule EXCEPT !.state = "deleted"]
    /\ UNCHANGED <<runVars, now, fires, dispatches, engines, editors>>

Handover(e) == CreateFire(e) \/ DispatchFire(e) \/ DispatchRefused(e) \/ TransitionFire(e)

Engine(e) ==
    \/ Handover(e)
    \/ ListDueSchedules(e)
    \/ \E t \in Ticks : ClaimFire(e, t)

Edit(d) == ReadForUpdate(d) \/ UpdateSchedule(d) \/ DeleteSchedule(d)

RuntimeStep ==
    \/ Tick
    \/ \E t \in Ticks : LapseClaim(t)
    \/ \E e \in Engines : Engine(e) \/ EngineDies(e)
    \/ CreateSchedule
    \/ \E d \in Editors : Edit(d)
    \/ RunsStep /\ UNCHANGED fireVars

RuntimeNext == RuntimeStep \/ (EditConfig /\ UNCHANGED fireVars)

RuntimeSpec == RuntimeInit /\ [][RuntimeNext]_runtimeVars

(***************************************************************************)
(* Nobody edits the config.                                                *)
(* The engines poll for as long as the server runs, and time passes.  A    *)
(* poll goes through all due schedules and all due fires, so one that      *)
(* stays due gets its turn even if another is claimed again and again.     *)
(***************************************************************************)
FairRuntimeSpec ==
    /\ RuntimeInit /\ [][RuntimeStep]_runtimeVars
    /\ WF_runtimeVars(Tick)
    /\ \A t \in Ticks : WF_runtimeVars(LapseClaim(t))
    /\ \A e \in Engines : WF_runtimeVars(Engine(e))
    /\ SF_runtimeVars(\E e \in Engines : ListDueSchedules(e))
    /\ \A t \in Ticks : SF_runtimeVars(\E e \in Engines : ClaimFire(e, t))
    /\ \A w \in Workers : WF_runtimeVars(Work(w) /\ UNCHANGED fireVars)
    /\ \A j \in JobIds : WF_runtimeVars(~Busy(j) /\ LapseRunJob(j) /\ UNCHANGED fireVars)

(***************************************************************************)
(* Properties.                                                             *)
(***************************************************************************)

(***************************************************************************)
(* A fire makes at most one run, however many engines claim it, one after  *)
(* the other's claim lapsed or died, and whatever became of the run's job: *)
(* where no caller asks for runs, there are as many runs as fires          *)
(* accepted (enqueueScheduledIngest).                                      *)
(***************************************************************************)
OneRunPerFire ==
    Callers = {} => Cardinality({r \in Runs : runs[r] # "none"})
        = Cardinality({t \in Ticks : dispatches[t] # NoRun})

(***************************************************************************)
(* With nobody editing it, a schedule stands at an occurrence that has no  *)
(* fire yet.  Otherwise CreateFire would undo every advance from it and    *)
(* the schedule would never fire again.                                    *)
(***************************************************************************)
NextIsUnfired ==
    schedule.next \in Ticks => fires[schedule.next].status = "none"

(***************************************************************************)
(* With nobody editing the schedule, every occurrence it comes to is run   *)
(* and the run ends.                                                       *)
(***************************************************************************)
DueOccurrenceRuns ==
    \A t \in Ticks :
        Stands(t) ~> [](dispatches[t] # NoRun /\ runs[dispatches[t]] \in {"done", "failed"})
===============================================================================
