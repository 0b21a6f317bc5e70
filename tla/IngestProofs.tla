----------------------------- MODULE IngestProofs -----------------------------
(***************************************************************************)
(* Theorems about the ingests.  First the runtime (IngestRuntime), for     *)
(* every number of engines, workers, callers, schedules and faults; then   *)
(* the configuration file (IngestAdmin): the running ingests see nothing   *)
(* but edits of the config that IngestRuntime foresees, and no edit is     *)
(* undone but by a save whose request had read the file before it.  Last,  *)
(* who tends an open run when at most one thing fails.                     *)
(***************************************************************************)
EXTENDS IngestAdmin, FiniteSetTheorems, TLAPS

Schedules == [state : {"absent", "present", "deleted"}, enabled : BOOLEAN, next : Occurrences]
FireRows == [status : FireStates, by : Engines \cup {NoEngine}]
EngineStates == [step : EngineSteps, at : 0..LastTick]

LEMMA Bounds ==
    /\ LastTick \in Nat \ {0}
    /\ Ticks \subseteq Occurrences
    /\ Occurrences \subseteq Nat
    /\ Never \in Occurrences
BY ScheduleAssumption DEF ScheduleAssumption, Ticks, Occurrences, Never

(***************************************************************************)
(* Types.                                                                  *)
(***************************************************************************)
LEMMA InitTypes == FiresInit => FiresTypeOK
<1> SUFFICES ASSUME FiresInit PROVE FiresTypeOK
    OBVIOUS
<1> USE DEF FiresInit, FiresTypeOK
<1>1. now \in 0..LastTick
    BY Bounds
<1>2. schedule \in [state : {"absent", "present", "deleted"}, enabled : BOOLEAN, next : Occurrences]
    BY Bounds
<1>3. fires \in [Ticks -> [status : FireStates, by : Engines \cup {NoEngine}]]
    BY DEF NoFire, FireStates
<1>4. dispatches \in [Ticks -> Runs \cup {NoRun}]
    OBVIOUS
<1>5. engines \in [Engines -> [step : EngineSteps, at : 0..LastTick]]
    BY Bounds DEF IdleEngine, EngineSteps
<1>6. editors \in [Editors -> 0..Never]
    BY Bounds DEF Never
<1> QED BY <1>1, <1>2, <1>3, <1>4, <1>5, <1>6

(***************************************************************************)
(* What a step may do to each part, as the steps of an engine see it.      *)
(***************************************************************************)
LEMMA RestTypes ==
    ASSUME engines \in [Engines -> EngineStates], NEW e \in Engines, EngineRests(e)
    PROVE  engines' \in [Engines -> EngineStates]
<1>1. IdleEngine \in EngineStates
    BY Bounds DEF IdleEngine, EngineStates, EngineSteps
<1> QED BY <1>1 DEF EngineRests

LEMMA GoTypes ==
    ASSUME engines \in [Engines -> EngineStates], NEW e \in Engines,
           NEW step \in EngineSteps, EngineGo(e, step)
    PROVE  engines' \in [Engines -> EngineStates]
BY DEF EngineGo, EngineStates

LEMMA StatusTypes ==
    ASSUME fires \in [Ticks -> FireRows], NEW t, NEW s \in FireStates,
           fires' = [fires EXCEPT ![t].status = s]
    PROVE  fires' \in [Ticks -> FireRows]
BY DEF FireRows

LEMMA NextTypes == ASSUME FiresTypeOK, [RuntimeNext]_runtimeVars PROVE FiresTypeOK'
<1> USE DEF Schedules, FireRows, EngineStates
<1>0. /\ now \in 0..LastTick
      /\ schedule \in Schedules
      /\ fires \in [Ticks -> FireRows]
      /\ dispatches \in [Ticks -> Runs \cup {NoRun}]
      /\ engines \in [Engines -> EngineStates]
      /\ editors \in [Editors -> 0..Never]
    BY DEF FiresTypeOK
<1> SUFFICES /\ now' \in 0..LastTick
             /\ schedule' \in Schedules
             /\ fires' \in [Ticks -> FireRows]
             /\ dispatches' \in [Ticks -> Runs \cup {NoRun}]
             /\ engines' \in [Engines -> EngineStates]
             /\ editors' \in [Editors -> 0..Never]
    BY DEF FiresTypeOK
<1>1. CASE UNCHANGED runtimeVars
    BY <1>0, <1>1 DEF runtimeVars, fireVars
<1>2. CASE Tick
    BY <1>0, <1>2, Bounds DEF Tick
<1>3. ASSUME NEW t \in Ticks, LapseClaim(t) PROVE FiresTypeOK'
  <2>1. fires' \in [Ticks -> FireRows]
    BY <1>0, <1>3, StatusTypes DEF LapseClaim, FireStates
  <2> QED BY <1>0, <1>3, <2>1 DEF LapseClaim, FiresTypeOK
<1>4. ASSUME NEW e \in Engines, ListDueSchedules(e) PROVE FiresTypeOK'
  <2>0. schedule.next \in Occurrences /\ schedule.next =< now
    BY <1>0, <1>4 DEF ListDueSchedules
  <2>1. schedule.next \in 0..LastTick
    <3> HIDE DEF Schedules, FireRows, EngineStates
    <3> QED BY <1>0, <2>0, ScheduleAssumption DEF Occurrences, Never, ScheduleAssumption
  <2>2. engines' \in [Engines -> EngineStates]
    BY <1>0, <1>4, <2>1 DEF ListDueSchedules, EngineSteps
  <2> QED BY <1>0, <1>4, <2>2 DEF ListDueSchedules, FiresTypeOK
<1>5. ASSUME NEW e \in Engines, CreateFire(e) PROVE FiresTypeOK'
  <2>1. engines' \in [Engines -> EngineStates]
    BY <1>0, <1>5, RestTypes DEF CreateFire
  <2>2. fires' \in [Ticks -> FireRows]
    BY <1>0, <1>5, StatusTypes DEF CreateFire, FireStates
  <2>3. schedule' \in Schedules
    BY <1>0, <1>5 DEF CreateFire, After
  <2> QED BY <1>0, <1>5, <2>1, <2>2, <2>3 DEF CreateFire, FiresTypeOK
<1>6. ASSUME NEW e \in Engines, NEW t \in Ticks, ClaimFire(e, t) PROVE FiresTypeOK'
  <2>1. engines' \in [Engines -> EngineStates]
    BY <1>0, <1>6, Bounds DEF ClaimFire, EngineSteps, Ticks
  <2>2. fires' \in [Ticks -> FireRows]
    BY <1>0, <1>6 DEF ClaimFire, FireStates
  <2> QED BY <1>0, <1>6, <2>1, <2>2 DEF ClaimFire, FiresTypeOK
<1>7. ASSUME NEW e \in Engines, DispatchFire(e) PROVE FiresTypeOK'
  <2>1. engines' \in [Engines -> EngineStates]
    BY <1>0, <1>7, GoTypes DEF DispatchFire, EngineSteps
  <2>2. dispatches' \in [Ticks -> Runs \cup {NoRun}]
    BY <1>0, <1>7 DEF DispatchFire
  <2> QED BY <1>0, <1>7, <2>1, <2>2 DEF DispatchFire, FiresTypeOK
<1>8. ASSUME NEW e \in Engines, DispatchRefused(e) PROVE FiresTypeOK'
  <2>1. engines' \in [Engines -> EngineStates]
    BY <1>0, <1>8, GoTypes DEF DispatchRefused, EngineSteps
  <2> QED BY <1>0, <1>8, <2>1 DEF DispatchRefused, FiresTypeOK
<1>9. ASSUME NEW e \in Engines, TransitionFire(e) PROVE FiresTypeOK'
  <2>1. engines' \in [Engines -> EngineStates]
    BY <1>0, <1>9, RestTypes DEF TransitionFire
  <2>2. fires' \in [Ticks -> FireRows]
    BY <1>0, <1>9, StatusTypes DEF TransitionFire, FireStates
  <2> QED BY <1>0, <1>9, <2>1, <2>2 DEF TransitionFire, FiresTypeOK
<1>10. ASSUME NEW e \in Engines, EngineDies(e) PROVE FiresTypeOK'
  <2>1. engines' \in [Engines -> EngineStates]
    BY <1>0, <1>10, RestTypes DEF EngineDies
  <2> QED BY <1>0, <1>10, <2>1 DEF EngineDies, FiresTypeOK
<1>11. CASE CreateSchedule
    BY <1>0, <1>11 DEF CreateSchedule, After
<1>12. ASSUME NEW d \in Editors, ReadForUpdate(d) PROVE FiresTypeOK'
    BY <1>0, <1>12, Bounds DEF ReadForUpdate, After, Occurrences, FiresTypeOK
<1>13. ASSUME NEW d \in Editors, UpdateSchedule(d) PROVE FiresTypeOK'
  <2>0. editors[d] \in 0..Never /\ editors[d] # 0
    BY <1>0, <1>13 DEF UpdateSchedule
  <2>1. editors[d] \in Occurrences
    <3> HIDE DEF Schedules, FireRows, EngineStates
    <3> QED BY <2>0, ScheduleAssumption DEF Occurrences, Never, ScheduleAssumption
  <2>4. 0 \in 0..Never
    BY ScheduleAssumption DEF Never, ScheduleAssumption
  <2>2. schedule' \in Schedules
    BY <1>0, <1>13, <2>1 DEF UpdateSchedule
  <2>3. editors' \in [Editors -> 0..Never]
    BY <1>0, <1>13, <2>4 DEF UpdateSchedule
  <2> QED BY <1>0, <1>13, <2>2, <2>3 DEF UpdateSchedule, FiresTypeOK
<1>14. ASSUME NEW d \in Editors, DeleteSchedule(d) PROVE FiresTypeOK'
    BY <1>0, <1>14 DEF DeleteSchedule, FiresTypeOK
<1>15. CASE (RunsStep \/ EditConfig) /\ UNCHANGED fireVars
    BY <1>0, <1>15 DEF fireVars
<1> HIDE DEF Schedules, FireRows, EngineStates
<1> QED
    BY <1>0, <1>1, <1>2, <1>3, <1>4, <1>5, <1>6, <1>7, <1>8, <1>9, <1>10, <1>11, <1>12, <1>13, <1>14, <1>15
    DEF RuntimeNext, RuntimeStep, Engine, Handover, Edit, FiresTypeOK, Schedules, FireRows, EngineStates

(***************************************************************************)
(* The schedule, fires, dispatches, engines and editors stay well formed.  *)
(***************************************************************************)
THEOREM FireTypesHold == RuntimeSpec => []FiresTypeOK
<1>1. RuntimeInit => FiresTypeOK
    BY InitTypes DEF RuntimeInit
<1>2. FiresTypeOK /\ [RuntimeNext]_runtimeVars => FiresTypeOK'
    BY NextTypes
<1> QED BY <1>1, <1>2, PTL DEF RuntimeSpec

(***************************************************************************)
(* Nothing ahead of the schedule has a fire.  This is what NextIsUnfired   *)
(* needs to be inductive: an engine may advance to any later occurrence.   *)
(***************************************************************************)
Unborn == schedule.state = "absent" => \A u \in Ticks : fires[u].status = "none"
Ahead == \A u \in Ticks : u >= schedule.next => fires[u].status = "none"

LEMMA FiredIsBehind ==
    ASSUME FiresTypeOK, Ahead, NEW t \in Ticks, fires[t].status # "none"
    PROVE  t < schedule.next
<1>1. schedule.next \in Nat /\ t \in Nat
    BY Bounds DEF FiresTypeOK
<1>2. ~(t >= schedule.next)
    BY DEF Ahead
<1> QED BY <1>1, <1>2

\* A step that leaves the schedule and writes only to fires that exist.
LEMMA OldFiresOnly ==
    ASSUME FiresTypeOK, Ahead, schedule' = schedule,
           NEW t, t \in Ticks => fires[t].status # "none",
           \A u \in Ticks \ {t} : fires'[u] = fires[u]
    PROVE  Ahead'
<1> SUFFICES ASSUME NEW u \in Ticks, u >= schedule.next PROVE fires'[u].status = "none"
    BY DEF Ahead
<1>1. fires[u].status = "none"
    BY DEF Ahead
<1>2. u # t
    BY <1>1
<1> QED BY <1>1, <1>2

LEMMA NextKeepsAhead ==
    ASSUME Editors = {}, FiresTypeOK, Unborn, Ahead, [RuntimeNext]_runtimeVars
    PROVE  Ahead'
<1>1. ASSUME UNCHANGED <<schedule, fires>> PROVE Ahead'
    BY <1>1 DEF Ahead
<1>2. ASSUME NEW t \in Ticks, LapseClaim(t) PROVE Ahead'
  <2>1. fires[t].status # "none" /\ schedule' = schedule
    BY <1>2 DEF LapseClaim
  <2>2. \A u \in Ticks \ {t} : fires'[u] = fires[u]
    BY <1>2 DEF LapseClaim, FiresTypeOK
  <2> QED BY <2>1, <2>2, OldFiresOnly
<1>3. ASSUME NEW e \in Engines, CreateFire(e) PROVE Ahead'
  <2> DEFINE f == engines[e].at
  <2>1. CASE Stands(f) /\ fires[f].status = "none"
    <3>1. PICK n \in After(f) : schedule' = [schedule EXCEPT !.next = n]
        BY <1>3, <2>1 DEF CreateFire
    <3>2. schedule'.next = n /\ schedule.next = f
        BY <2>1, <3>1 DEF Stands, FiresTypeOK
    <3>3. n \in Nat /\ f \in Nat /\ n > f
        BY <3>1, <3>2, Bounds DEF After, FiresTypeOK
    <3>4. fires' = [fires EXCEPT ![f].status = "pending"]
        BY <1>3, <2>1 DEF CreateFire
    <3> SUFFICES ASSUME NEW u \in Ticks, u >= n PROVE fires'[u].status = "none"
        BY <3>2 DEF Ahead
    <3>5. u \in Nat
        BY Bounds
    <3>6. u > f
        BY <3>3, <3>5
    <3>7. u # f /\ u >= f
        BY <3>3, <3>5, <3>6
    <3>8. fires'[u] = fires[u]
        BY <3>4, <3>7 DEF FiresTypeOK
    <3> QED BY <3>2, <3>7, <3>8 DEF Ahead
  <2>2. CASE ~(Stands(f) /\ fires[f].status = "none")
    BY <1>1, <1>3, <2>2 DEF CreateFire
  <2> QED BY <2>1, <2>2
<1>4. ASSUME NEW e \in Engines, NEW t \in Ticks, ClaimFire(e, t) PROVE Ahead'
  <2>1. fires[t].status # "none" /\ schedule' = schedule
    BY <1>4 DEF ClaimFire
  <2>2. \A u \in Ticks \ {t} : fires'[u] = fires[u]
    BY <1>4 DEF ClaimFire, FiresTypeOK
  <2> QED BY <2>1, <2>2, OldFiresOnly
<1>5. ASSUME NEW e \in Engines, TransitionFire(e) PROVE Ahead'
  <2> DEFINE f == engines[e].at
  <2>1. CASE HoldsClaim(e)
    <3>1. fires[f].status # "none" /\ schedule' = schedule
        BY <1>5, <2>1 DEF HoldsClaim, TransitionFire
    <3>2. PICK s : fires' = [fires EXCEPT ![f].status = s]
        BY <1>5, <2>1 DEF TransitionFire
    <3>3. \A u \in Ticks \ {f} : fires'[u] = fires[u]
        BY <3>2 DEF FiresTypeOK
    <3> QED BY <3>1, <3>3, OldFiresOnly
  <2>2. CASE ~HoldsClaim(e)
    BY <1>1, <1>5, <2>2 DEF TransitionFire
  <2> QED BY <2>1, <2>2
<1>6. ASSUME CreateSchedule PROVE Ahead'
  <2>1. fires' = fires /\ \A u \in Ticks : fires[u].status = "none"
    BY <1>6 DEF CreateSchedule, Unborn
  <2> QED BY <2>1 DEF Ahead
<1>7. CASE Tick
    BY <1>1, <1>7 DEF Tick
<1>8. ASSUME NEW e \in Engines, ListDueSchedules(e) \/ DispatchFire(e) \/ DispatchRefused(e) \/ EngineDies(e)
      PROVE  Ahead'
    BY <1>1, <1>8 DEF ListDueSchedules, DispatchFire, DispatchRefused, EngineDies
<1>9. CASE (RunsStep \/ EditConfig) /\ UNCHANGED fireVars
    BY <1>1, <1>9 DEF fireVars
<1>10. CASE UNCHANGED runtimeVars
    BY <1>1, <1>10 DEF runtimeVars, fireVars
<1> QED
    BY <1>2, <1>3, <1>4, <1>5, <1>6, <1>7, <1>8, <1>9, <1>10 DEF RuntimeNext, RuntimeStep, Engine, Handover

\* Before the schedule is created nothing fires.
LEMMA NextKeepsUnborn ==
    ASSUME FiresTypeOK, Unborn, [RuntimeNext]_runtimeVars
    PROVE  Unborn'
<1>1. ASSUME UNCHANGED <<schedule, fires>> PROVE Unborn'
    BY <1>1 DEF Unborn
<1>2. ASSUME schedule'.state # "absent" PROVE Unborn'
    BY <1>2 DEF Unborn
<1>3. ASSUME NEW t \in Ticks, fires[t].status # "none", schedule' = schedule PROVE Unborn'
    BY <1>3 DEF Unborn
<1>4. ASSUME NEW t \in Ticks, LapseClaim(t) PROVE Unborn'
    BY <1>3, <1>4 DEF LapseClaim
<1>5. ASSUME NEW e \in Engines, CreateFire(e) PROVE Unborn'
  <2>1. CASE Stands(engines[e].at) /\ fires[engines[e].at].status = "none"
    <3>1. schedule.state = "present"
        BY <2>1 DEF Stands, Present
    <3>2. schedule'.state = "present"
        BY <1>5, <2>1, <3>1 DEF CreateFire, FiresTypeOK
    <3> QED BY <1>2, <3>2
  <2>2. CASE ~(Stands(engines[e].at) /\ fires[engines[e].at].status = "none")
    BY <1>1, <1>5, <2>2 DEF CreateFire
  <2> QED BY <2>1, <2>2
<1>6. ASSUME NEW e \in Engines, NEW t \in Ticks, ClaimFire(e, t) PROVE Unborn'
    BY <1>3, <1>6 DEF ClaimFire
<1>7. ASSUME NEW e \in Engines, TransitionFire(e) PROVE Unborn'
  <2> DEFINE f == engines[e].at
  <2>1. CASE HoldsClaim(e) /\ f \in Ticks
    BY <1>3, <1>7, <2>1 DEF HoldsClaim, TransitionFire
  <2>2. CASE HoldsClaim(e) /\ f \notin Ticks
    <3>1. schedule' = schedule /\ \A u \in Ticks : fires'[u] = fires[u]
        BY <1>7, <2>2 DEF TransitionFire, FiresTypeOK
    <3> QED BY <3>1 DEF Unborn
  <2>3. CASE ~HoldsClaim(e)
    BY <1>1, <1>7, <2>3 DEF TransitionFire
  <2> QED BY <2>1, <2>2, <2>3
<1>8. ASSUME CreateSchedule PROVE Unborn'
    BY <1>2, <1>8 DEF CreateSchedule
<1>9. ASSUME NEW d \in Editors, Edit(d) PROVE Unborn'
  <2>1. CASE ReadForUpdate(d)
    BY <1>1, <2>1 DEF ReadForUpdate
  <2>2. CASE UpdateSchedule(d) /\ ~Present
    BY <1>1, <2>2 DEF UpdateSchedule
  <2>3. CASE UpdateSchedule(d) /\ Present
    <3>1. schedule'.state = "present"
        BY <2>3 DEF UpdateSchedule, Present, FiresTypeOK
    <3> QED BY <1>2, <3>1
  <2>4. CASE DeleteSchedule(d)
    <3>1. schedule'.state = "deleted"
        BY <2>4 DEF DeleteSchedule, FiresTypeOK
    <3> QED BY <1>2, <3>1
  <2> QED BY <1>9, <2>1, <2>2, <2>3, <2>4 DEF Edit
<1>10. CASE Tick
    BY <1>1, <1>10 DEF Tick
<1>11. ASSUME NEW e \in Engines, ListDueSchedules(e) \/ DispatchFire(e) \/ DispatchRefused(e) \/ EngineDies(e)
       PROVE  Unborn'
    BY <1>1, <1>11 DEF ListDueSchedules, DispatchFire, DispatchRefused, EngineDies
<1>12. CASE (RunsStep \/ EditConfig) /\ UNCHANGED fireVars
    BY <1>1, <1>12 DEF fireVars
<1>13. CASE UNCHANGED runtimeVars
    BY <1>1, <1>13 DEF runtimeVars, fireVars
<1> QED
    BY <1>4, <1>5, <1>6, <1>7, <1>8, <1>9, <1>10, <1>11, <1>12, <1>13 DEF RuntimeNext, RuntimeStep, Engine, Handover

(***************************************************************************)
(* With nobody editing it, a schedule never stands at an occurrence that   *)
(* has been fired, however many engines list and fire it: it cannot get    *)
(* stuck behind CreateFire's refusal to fire twice.                        *)
(***************************************************************************)
THEOREM ScheduleNeverStuck == ASSUME Editors = {} PROVE RuntimeSpec => []NextIsUnfired
<1> DEFINE Inv == FiresTypeOK /\ Unborn /\ Ahead
<1>1. RuntimeInit => Inv
  <2> SUFFICES ASSUME RuntimeInit PROVE Inv
    OBVIOUS
  <2>1. FiresTypeOK
    BY InitTypes DEF RuntimeInit
  <2>2. \A u \in Ticks : fires[u].status = "none"
    BY DEF RuntimeInit, FiresInit, NoFire
  <2> QED BY <2>1, <2>2 DEF Unborn, Ahead
<1>2. Inv /\ [RuntimeNext]_runtimeVars => Inv'
    BY NextTypes, NextKeepsUnborn, NextKeepsAhead
<1>3. Inv => NextIsUnfired
  <2> SUFFICES ASSUME Inv, schedule.next \in Ticks PROVE fires[schedule.next].status = "none"
    BY DEF NextIsUnfired
  <2>1. schedule.next \in Nat
    BY Bounds DEF FiresTypeOK
  <2>2. schedule.next >= schedule.next
    BY <2>1
  <2> QED BY <2>2 DEF Ahead
<1> HIDE DEF Inv
<1> QED BY <1>1, <1>2, <1>3, PTL DEF RuntimeSpec
(***************************************************************************)
(* The runs, their jobs and whoever works on them.                         *)
(***************************************************************************)
Known(r) == r \in Runs /\ runs[r] # "none"

\* Who names a run names one that exists.
RunsAreKnown ==
    /\ \A j \in JobIds : /\ ingestJobs[j].payload # NoRun => Known(ingestJobs[j].payload)
                         /\ T!Held(ingestJobs, j) => ingestJobs[j].payload # NoRun
    /\ \A w \in Workers : workers[w].step # "idle" => workers[w].job \in JobIds /\ Known(workers[w].run)
    /\ \A c \in Callers : callers[c] # NoRun => Known(callers[c])

LEMMA RunConstants ==
    /\ NoRun \notin Runs /\ NoJob \notin JobIds /\ MaxTries \in Nat \ {0}
    /\ "ok" \in ConfigStates /\ MaxFaults \in Nat
BY IngestAssumption DEF IngestAssumption

\* Rows that only move on: the jobs stay those of the runs they were pushed for.
RowsMove ==
    /\ ingestJobs' \in T!JobTables
    /\ \A j \in JobIds : /\ ingestJobs'[j].payload = ingestJobs[j].payload
                         /\ T!Held(ingestJobs', j) => T!Held(ingestJobs, j)

LEMMA StateMoves ==
    ASSUME ingestJobs \in T!JobTables, NEW j \in JobIds, NEW s \in T!JobStates,
           s \in T!HeldStates => T!Held(ingestJobs, j),
           ingestJobs' = [ingestJobs EXCEPT ![j].state = s]
    PROVE  RowsMove
<1>1. ingestJobs'[j] = [ingestJobs[j] EXCEPT !.state = s] /\ ingestJobs[j] \in T!JobRow
    BY DEF T!JobTables
<1>2. /\ ingestJobs'[j] \in T!JobRow /\ ingestJobs'[j].state = s
      /\ ingestJobs'[j].payload = ingestJobs[j].payload
    BY <1>1 DEF T!JobRow
<1>3. \A k \in JobIds \ {j} : ingestJobs'[k] = ingestJobs[k]
    BY DEF T!JobTables
<1>4. ingestJobs' \in T!JobTables
    BY <1>2 DEF T!JobTables
<1> QED BY <1>2, <1>3, <1>4 DEF RowsMove, T!Held

LEMMA ReleaseMoves ==
    ASSUME ingestJobs \in T!JobTables, NEW j \in JobIds, ingestJobs' = T!Release(ingestJobs, j)
    PROVE  RowsMove
<1>1. CASE T!Held(ingestJobs, j)
    BY <1>1, StateMoves DEF T!Release, T!JobStates, T!HeldStates
<1>2. CASE ~T!Held(ingestJobs, j)
    BY <1>2 DEF T!Release, RowsMove
<1> QED BY <1>1, <1>2

LEMMA DeleteMoves ==
    ASSUME ingestJobs \in T!JobTables, NEW j \in JobIds, ingestJobs' = T!Delete(ingestJobs, j)
    PROVE  RowsMove
BY StateMoves DEF T!Delete, T!JobStates, T!HeldStates

LEMMA LapseMoves ==
    ASSUME ingestJobs \in T!JobTables, NEW j \in JobIds, ingestJobs[j].state = "reserved",
           ingestJobs' = T!Lapse(ingestJobs, j)
    PROVE  RowsMove
BY StateMoves DEF T!Lapse, T!JobStates, T!HeldStates, T!Held

LEMMA PopMoves ==
    ASSUME ingestJobs \in T!JobTables, NEW j \in T!Poppable(ingestJobs), ingestJobs' = T!Pop(ingestJobs, j)
    PROVE  RowsMove
<1>1. j \in JobIds /\ T!Held(ingestJobs, j) /\ ingestJobs[j] \in T!JobRow
    BY DEF T!Poppable, T!Held, T!HeldStates, T!JobTables
<1>2. ingestJobs[j].tries \in Nat
    BY <1>1 DEF T!JobRow
<1>3. ingestJobs[j].tries + 1 \in Nat
    BY <1>2
<1>4. PICK n \in Nat : n = ingestJobs[j].tries + 1
    BY <1>3
<1>5. ingestJobs'[j] = [state |-> "reserved", payload |-> ingestJobs[j].payload, tries |-> n]
    BY <1>1, <1>4 DEF T!Pop, T!JobTables
<1>6. ingestJobs'[j] \in T!JobRow
    BY <1>1, <1>5 DEF T!JobRow, T!JobStates
<1>7. ingestJobs' = [ingestJobs EXCEPT ![j] = ingestJobs'[j]]
    BY <1>1 DEF T!Pop, T!JobTables
<1>8. ingestJobs' \in T!JobTables
    BY <1>1, <1>6, <1>7 DEF T!JobTables
<1>9. \A k \in JobIds \ {j} : ingestJobs'[k] = ingestJobs[k]
    BY DEF T!Pop, T!JobTables
<1> QED BY <1>1, <1>5, <1>8, <1>9 DEF RowsMove, T!Held

LEMMA PushAdds ==
    ASSUME ingestJobs \in T!JobTables, NEW j \in JobIds, NEW r \in Runs,
           ingestJobs' = T!Push(ingestJobs, j, r)
    PROVE  /\ ingestJobs' \in T!JobTables /\ ingestJobs'[j].payload = r
           /\ \A k \in JobIds \ {j} : ingestJobs'[k] = ingestJobs[k]
BY DEF T!Push, T!JobTables, T!JobRow, T!JobStates

\* A write to a run that exists, and a worker that moves on, rests or dies.
LEMMA RunWritten ==
    ASSUME runs \in [Runs -> RunStates], NEW r, NEW s \in RunStates \ {"none"}, RunBecomes(r, s)
    PROVE  /\ runs' \in [Runs -> RunStates]
           /\ \A q : Known(q) => Known(q)'
           /\ \A q \in Runs \ {r} : runs'[q] = runs[q]
           /\ Known(r) => \A q \in Runs : runs'[q] = "none" <=> runs[q] = "none"
BY DEF RunBecomes, Known

LEMMA WorkerSteps1 ==
    ASSUME workers \in [Workers -> WorkerState], NEW w \in Workers, NEW s \in WorkerSteps, Step(w, s)
    PROVE  /\ workers' \in [Workers -> WorkerState]
           /\ workers'[w].job = workers[w].job /\ workers'[w].run = workers[w].run
           /\ \A u \in Workers \ {w} : workers'[u] = workers[u]
BY DEF Step, WorkerState

LEMMA WorkerRests ==
    ASSUME workers \in [Workers -> WorkerState], NEW w \in Workers, Rest(w)
    PROVE  /\ workers' \in [Workers -> WorkerState]
           /\ workers'[w].step = "idle"
           /\ \A u \in Workers \ {w} : workers'[u] = workers[u]
BY DEF Rest, IdleWorker, WorkerState, WorkerSteps

LEMMA FaultTypes ==
    ASSUME faults \in 0..MaxFaults, Fault \/ UNCHANGED faults
    PROVE  faults' \in 0..MaxFaults
BY RunConstants DEF Fault

LEMMA StillKnown ==
    ASSUME RunsAreKnown, \A q : Known(q) => Known(q)',
           RowsMove \/ UNCHANGED ingestJobs,
           \A c \in Callers : callers'[c] = callers[c] \/ callers'[c] = NoRun,
           \A w \in Workers : \/ workers'[w].step = "idle"
                              \/ /\ workers[w].step # "idle"
                                 /\ workers'[w].job = workers[w].job /\ workers'[w].run = workers[w].run
    PROVE  RunsAreKnown'
<1>1. \A j \in JobIds : /\ ingestJobs'[j].payload = ingestJobs[j].payload
                        /\ T!Held(ingestJobs', j) => T!Held(ingestJobs, j)
    BY DEF RowsMove, T!Held
<1>2. \A j \in JobIds : /\ ingestJobs'[j].payload # NoRun => Known(ingestJobs[j].payload)'
                        /\ T!Held(ingestJobs', j) => ingestJobs'[j].payload # NoRun
  <2> SUFFICES ASSUME NEW j \in JobIds
               PROVE  /\ ingestJobs'[j].payload # NoRun => Known(ingestJobs[j].payload)'
                      /\ T!Held(ingestJobs', j) => ingestJobs'[j].payload # NoRun
    OBVIOUS
  <2>1. ingestJobs[j].payload # NoRun => Known(ingestJobs[j].payload)
    BY DEF RunsAreKnown
  <2>2. T!Held(ingestJobs, j) => ingestJobs[j].payload # NoRun
    BY DEF RunsAreKnown
  <2> QED BY <1>1, <2>1, <2>2 DEF Known
<1>3. \A w \in Workers : workers'[w].step # "idle" =>
          workers'[w].job \in JobIds /\ Known(workers[w].run)'
    BY DEF RunsAreKnown, Known
<1>4. \A c \in Callers : callers'[c] # NoRun => Known(callers[c])'
    BY DEF RunsAreKnown, Known
<1> QED BY <1>2, <1>3, <1>4 DEF RunsAreKnown

NoneAppears == \A r \in Runs : runs'[r] = "none" <=> runs[r] = "none"

LEMMA CallersKeepRuns ==
    ASSUME RunsTypeOK, RunsAreKnown, NEW c \in Callers, Call(c)
    PROVE  RunsTypeOK' /\ RunsAreKnown'
<1>0. /\ runs \in [Runs -> RunStates] /\ ingestJobs \in T!JobTables /\ faults \in 0..MaxFaults
      /\ callers \in [Callers -> Runs \cup {NoRun}] /\ lost \in SUBSET Runs
    BY DEF RunsTypeOK
<1>1. ASSUME NEW r \in Runs, CreateIngestRun(c, r) PROVE RunsTypeOK' /\ RunsAreKnown'
  <2>1. /\ RunBecomes(r, "queued") /\ callers' = [callers EXCEPT ![c] = r]
        /\ UNCHANGED <<ingestJobs, workers>>
    BY <1>1 DEF CreateIngestRun
  <2>2. /\ runs' \in [Runs -> RunStates] /\ \A q : Known(q) => Known(q)'
    BY <1>0, <2>1, RunWritten DEF RunStates
  <2>3. Known(r)'
    BY <1>0, <2>1 DEF RunBecomes, Known
  <2>4. \A k \in Callers : callers'[k] # NoRun => Known(callers[k])'
    BY <1>0, <2>1, <2>2, <2>3 DEF RunsAreKnown, Known
  <2>5. RunsAreKnown'
    <3>1. \A j \in JobIds : /\ ingestJobs[j].payload # NoRun => Known(ingestJobs[j].payload)'
                            /\ T!Held(ingestJobs, j)' => ingestJobs[j].payload # NoRun
      BY <2>1, <2>2 DEF RunsAreKnown, Known, T!Held
    <3>2. \A w \in Workers : workers[w].step # "idle" => workers[w].job \in JobIds /\ Known(workers[w].run)'
      BY <2>1, <2>2 DEF RunsAreKnown, Known
    <3> QED BY <2>1, <2>4, <3>1, <3>2 DEF RunsAreKnown, T!Held
  <2>6. RunsTypeOK'
    BY <1>0, <1>1, <2>1, <2>2 DEF RunsTypeOK, CreateIngestRun
  <2> QED BY <2>5, <2>6
<1>2. CASE PushRun(c)
  <2>1. PICK j \in T!FreshIds(ingestJobs) : ingestJobs' = T!Push(ingestJobs, j, callers[c])
    BY <1>2 DEF PushRun
  <2>2. /\ callers' = [callers EXCEPT ![c] = NoRun] /\ UNCHANGED <<runs, workers>>
        /\ callers[c] \in Runs /\ Known(callers[c]) /\ j \in JobIds
    BY <1>0, <1>2, <2>1 DEF PushRun, RunsAreKnown, T!FreshIds
  <2>3. PICK r \in Runs : r = callers[c]
    BY <2>2
  <2>4. /\ ingestJobs' \in T!JobTables /\ ingestJobs'[j].payload = r
        /\ \A k \in JobIds \ {j} : ingestJobs'[k] = ingestJobs[k]
    BY <1>0, <2>1, <2>2, <2>3, PushAdds
  <2>5. \A q : Known(q) => Known(q)'
    BY <2>2 DEF Known
  <2>6. \A k \in JobIds : /\ ingestJobs'[k].payload # NoRun => Known(ingestJobs[k].payload)'
                          /\ T!Held(ingestJobs', k) => ingestJobs'[k].payload # NoRun
    BY <2>2, <2>3, <2>4, RunConstants DEF RunsAreKnown, Known, T!Held
  <2>7. RunsAreKnown'
    BY <1>0, <2>2, <2>6 DEF RunsAreKnown, Known
  <2>8. RunsTypeOK'
    BY <1>0, <1>2, <2>2, <2>4 DEF RunsTypeOK, PushRun
  <2> QED BY <2>7, <2>8
<1>3. CASE PushFailed(c) \/ CallerDies(c)
  <2>1. /\ UNCHANGED <<ingestJobs, workers, config, ingested>>
        /\ callers' = [callers EXCEPT ![c] = NoRun] /\ callers[c] \in Runs /\ Fault
    BY <1>0, <1>3 DEF PushFailed, CallerDies
  <2>2. /\ runs' \in [Runs -> RunStates] /\ \A q : Known(q) => Known(q)'
    <3>1. CASE PushFailed(c)
      BY <1>0, <3>1, RunWritten DEF PushFailed, RunStates
    <3>2. CASE CallerDies(c)
      BY <1>0, <3>2 DEF CallerDies, Known
    <3> QED BY <1>3, <3>1, <3>2
  <2>3. RunsAreKnown'
    BY <1>0, <2>1, <2>2, StillKnown DEF RunsAreKnown
  <2>4. faults' \in 0..MaxFaults
    BY <1>0, <2>1, FaultTypes
  <2>5. lost' \in SUBSET Runs
    BY <1>0, <1>3, <2>1 DEF PushFailed, CallerDies
  <2>6. RunsTypeOK'
    BY <1>0, <2>1, <2>2, <2>4, <2>5 DEF RunsTypeOK
  <2> QED BY <2>3, <2>6
<1> QED BY <1>1, <1>2, <1>3 DEF Call

\* The steps of a worker that write a run or none, and move on.
LEMMA HandlingKeepsRuns ==
    ASSUME RunsTypeOK, RunsAreKnown, NEW w \in Workers, Handle(w)
    PROVE  RunsTypeOK' /\ RunsAreKnown' /\ NoneAppears
<1>0. /\ runs \in [Runs -> RunStates] /\ ingestJobs \in T!JobTables /\ faults \in 0..MaxFaults
      /\ workers \in [Workers -> WorkerState] /\ lost \in SUBSET Runs
      /\ ingested \in [Runs -> 0..2] /\ callers \in [Callers -> Runs \cup {NoRun}]
      /\ config \in ConfigStates
    BY DEF RunsTypeOK
<1>1. workers[w].step # "idle" /\ workers[w].job \in JobIds /\ Known(workers[w].run)
  <2>1. workers[w].step # "idle"
    BY DEF Handle, OpenFailed, IngestNotFound, MarkIngestRunRunning, RunOnce, RunOnceFailed,
           CompleteIngestRun, RunWriteFailed, DeleteRunJob, ReleaseRunJob, BuryRunJob, FailIngestRunForJob
  <2> QED BY <2>1 DEF RunsAreKnown
<1>2. UNCHANGED <<callers, config>>
    BY DEF Handle, OpenFailed, IngestNotFound, MarkIngestRunRunning, RunOnce, RunOnceFailed,
           CompleteIngestRun, RunWriteFailed, DeleteRunJob, ReleaseRunJob, BuryRunJob, FailIngestRunForJob
<1>3. runs' = runs \/ \E s \in RunStates \ {"none"} : RunBecomes(workers[w].run, s)
    BY DEF Handle, OpenFailed, IngestNotFound, MarkIngestRunRunning, RunOnce, RunOnceFailed, FailRunOrIgnore,
           CompleteIngestRun, RunWriteFailed, DeleteRunJob, ReleaseRunJob, BuryRunJob, FailIngestRunForJob,
           RunStates
<1>4. Rest(w) \/ \E s \in WorkerSteps : Step(w, s)
    BY DEF Handle, OpenFailed, IngestNotFound, MarkIngestRunRunning, RunOnce, RunOnceFailed,
           CompleteIngestRun, RunWriteFailed, DeleteRunJob, ReleaseRunJob, BuryRunJob, FailIngestRunForJob,
           WorkerSteps
<1>5. Fault \/ UNCHANGED faults
    BY DEF Handle, OpenFailed, IngestNotFound, MarkIngestRunRunning, RunOnce, RunOnceFailed, FailRunOrIgnore,
           CompleteIngestRun, RunWriteFailed, DeleteRunJob, ReleaseRunJob, BuryRunJob, FailIngestRunForJob
<1>6. \/ ingestJobs' = ingestJobs
      \/ ingestJobs' = T!Release(ingestJobs, workers[w].job)
      \/ ingestJobs' = T!Delete(ingestJobs, workers[w].job)
    BY DEF Handle, OpenFailed, IngestNotFound, MarkIngestRunRunning, RunOnce, RunOnceFailed,
           CompleteIngestRun, RunWriteFailed, DeleteRunJob, ReleaseRunJob, BuryRunJob, FailIngestRunForJob
<1>7. lost' = lost \/ lost' = lost \cup {workers[w].run}
    BY DEF Handle, OpenFailed, IngestNotFound, MarkIngestRunRunning, RunOnce, RunOnceFailed,
           CompleteIngestRun, RunWriteFailed, DeleteRunJob, ReleaseRunJob, BuryRunJob, FailIngestRunForJob
<1>8. \/ ingested' = ingested
      \/ ingested' = [ingested EXCEPT ![workers[w].run] = IF @ = 2 THEN 2 ELSE @ + 1]
    BY DEF Handle, OpenFailed, IngestNotFound, MarkIngestRunRunning, RunOnce, RunOnceFailed,
           CompleteIngestRun, RunWriteFailed, DeleteRunJob, ReleaseRunJob, BuryRunJob, FailIngestRunForJob
<1>9. /\ runs' \in [Runs -> RunStates] /\ \A q : Known(q) => Known(q)'
      /\ NoneAppears
  <2>1. CASE runs' = runs
    BY <1>0, <2>1 DEF Known, NoneAppears
  <2>2. ASSUME NEW s \in RunStates \ {"none"}, RunBecomes(workers[w].run, s)
        PROVE  runs' \in [Runs -> RunStates] /\ (\A q : Known(q) => Known(q)') /\ NoneAppears
    BY <1>0, <1>1, <2>2, RunWritten DEF NoneAppears
  <2> QED BY <1>3, <2>1, <2>2
<1>10. /\ workers' \in [Workers -> WorkerState]
       /\ \A u \in Workers : \/ workers'[u].step = "idle" \/ workers'[u] = workers[u]
                             \/ /\ u = w
                                /\ workers'[u].job = workers[u].job /\ workers'[u].run = workers[u].run
  <2>1. CASE Rest(w)
    BY <1>0, <2>1, WorkerRests
  <2>2. ASSUME NEW s \in WorkerSteps, Step(w, s)
        PROVE  /\ workers' \in [Workers -> WorkerState]
               /\ workers'[w].job = workers[w].job /\ workers'[w].run = workers[w].run
               /\ \A u \in Workers \ {w} : workers'[u] = workers[u]
    BY <1>0, <2>2, WorkerSteps1
  <2> QED BY <1>4, <2>1, <2>2
<1>11. RowsMove \/ UNCHANGED ingestJobs
    BY <1>0, <1>1, <1>6, ReleaseMoves, DeleteMoves
<1>12. RunsAreKnown'
    BY <1>1, <1>2, <1>9, <1>10, <1>11, StillKnown
<1>13. ingested' \in [Runs -> 0..2]
    BY <1>0, <1>8
<1>14. faults' \in 0..MaxFaults
    BY <1>0, <1>5, FaultTypes
<1>15. lost' \in SUBSET Runs
    BY <1>0, <1>1, <1>7 DEF Known
<1>16. ingestJobs' \in T!JobTables
    BY <1>0, <1>11 DEF RowsMove
<1> QED BY <1>0, <1>2, <1>9, <1>10, <1>12, <1>13, <1>14, <1>15, <1>16 DEF RunsTypeOK

LEMMA OthersKeepRuns ==
    ASSUME RunsTypeOK, RunsAreKnown,
           \/ \E w \in Workers : WorkerDies(w) \/ \E j \in JobIds : PopRun(w, j)
           \/ (\E j \in JobIds : LapseRunJob(j)) \/ EditConfig
    PROVE  RunsTypeOK' /\ RunsAreKnown' /\ NoneAppears
<1>0. /\ runs \in [Runs -> RunStates] /\ ingestJobs \in T!JobTables /\ faults \in 0..MaxFaults
      /\ workers \in [Workers -> WorkerState] /\ lost \in SUBSET Runs
    BY DEF RunsTypeOK
<1>1. ASSUME NEW w \in Workers, WorkerDies(w) PROVE RunsTypeOK' /\ RunsAreKnown' /\ NoneAppears
  <2>1. UNCHANGED <<runs, ingestJobs, callers, config, ingested>> /\ Fault /\ Rest(w)
    BY <1>1 DEF WorkerDies
  <2>2. /\ workers' \in [Workers -> WorkerState] /\ workers'[w].step = "idle"
        /\ \A u \in Workers \ {w} : workers'[u] = workers[u]
    BY <1>0, <2>1, WorkerRests
  <2>3. RunsAreKnown'
    BY <2>1, <2>2, StillKnown DEF Known
  <2>4. lost' \in SUBSET Runs
    BY <1>0, <1>1 DEF WorkerDies, RunsAreKnown, Known
  <2>5. faults' \in 0..MaxFaults
    BY <1>0, <2>1, FaultTypes
  <2> QED BY <2>1, <2>2, <2>3, <2>4, <2>5 DEF RunsTypeOK, NoneAppears
<1>2. ASSUME NEW w \in Workers, NEW j \in JobIds, PopRun(w, j) PROVE RunsTypeOK' /\ RunsAreKnown' /\ NoneAppears
  <2>1. /\ UNCHANGED <<runs, callers, config, ingested, lost, faults>>
        /\ j \in T!Poppable(ingestJobs) /\ ingestJobs' = T!Pop(ingestJobs, j)
    BY <1>2 DEF PopRun
  <2>2. RowsMove
    BY <1>0, <2>1, PopMoves
  <2>3. ingestJobs[j].payload # NoRun /\ Known(ingestJobs[j].payload) /\ ingestJobs[j] \in T!JobRow
    BY <1>0, <2>1 DEF RunsAreKnown, T!Poppable, T!Held, T!HeldStates, T!JobTables
  <2>4. ingestJobs[j].tries + 1 \in Nat
    <3>1. ingestJobs[j].tries \in Nat
      BY <2>3 DEF T!JobRow
    <3> QED BY <3>1
  <2>5. PICK n \in Nat, r \in Runs : n = ingestJobs[j].tries + 1 /\ r = ingestJobs[j].payload
    BY <2>3, <2>4 DEF Known
  <2>6. workers' = [workers EXCEPT ![w] = [step |-> "taken", job |-> j, run |-> r, tries |-> n]]
    BY <1>2, <2>5 DEF PopRun
  <2>7. /\ workers' \in [Workers -> WorkerState]
        /\ workers'[w].job = j /\ workers'[w].run = r
        /\ \A u \in Workers \ {w} : workers'[u] = workers[u]
    BY <1>0, <2>6 DEF WorkerState, WorkerSteps
  <2>8. RunsAreKnown'
    <3>1. \A k \in JobIds : /\ ingestJobs'[k].payload # NoRun => Known(ingestJobs[k].payload)'
                            /\ T!Held(ingestJobs', k) => ingestJobs'[k].payload # NoRun
      BY <2>1, <2>2 DEF RowsMove, RunsAreKnown, Known
    <3>2. \A u \in Workers : workers'[u].step # "idle" => workers'[u].job \in JobIds /\ Known(workers[u].run)'
      BY <2>1, <2>3, <2>5, <2>7 DEF RunsAreKnown, Known
    <3>3. \A c \in Callers : callers'[c] # NoRun => Known(callers[c])'
      BY <2>1 DEF RunsAreKnown, Known
    <3> QED BY <3>1, <3>2, <3>3 DEF RunsAreKnown
  <2> QED BY <2>1, <2>2, <2>7, <2>8 DEF RunsTypeOK, NoneAppears, RowsMove
<1>3. ASSUME NEW j \in JobIds, LapseRunJob(j) PROVE RunsTypeOK' /\ RunsAreKnown' /\ NoneAppears
  <2>1. /\ UNCHANGED <<runs, workers, callers, config, ingested, lost>> /\ (Fault \/ UNCHANGED faults)
        /\ ingestJobs[j].state = "reserved" /\ ingestJobs' = T!Lapse(ingestJobs, j)
    BY <1>3 DEF LapseRunJob
  <2>2. RowsMove
    BY <1>0, <2>1, LapseMoves
  <2>3. RunsAreKnown'
    BY <2>1, <2>2, StillKnown DEF Known
  <2>4. faults' \in 0..MaxFaults
    BY <1>0, <2>1, FaultTypes
  <2> QED BY <2>1, <2>2, <2>3, <2>4 DEF RunsTypeOK, NoneAppears, RowsMove
<1>4. CASE EditConfig
  <2>1. UNCHANGED <<runs, ingestJobs, workers, callers, ingested, lost, faults>> /\ config' \in ConfigStates
    BY <1>4 DEF EditConfig
  <2>2. RunsAreKnown'
    BY <2>1, StillKnown DEF Known
  <2> QED BY <2>1, <2>2 DEF RunsTypeOK, NoneAppears
<1> QED BY <1>1, <1>2, <1>3, <1>4

LEMMA RunsStepKeepsRuns ==
    ASSUME RunsTypeOK, RunsAreKnown, RunsStep \/ EditConfig
    PROVE  RunsTypeOK' /\ RunsAreKnown' /\ (Callers = {} => NoneAppears)
BY CallersKeepRuns, HandlingKeepsRuns, OthersKeepRuns DEF RunsStep, Work

(***************************************************************************)
(* Fires and runs are paired.                                              *)
(***************************************************************************)
EnginesAtTicks == \A e \in Engines : engines[e].step # "idle" => engines[e].at \in Ticks

\* Different fires have different runs, which exist; and no others do when nobody calls.
FiresMakeRuns ==
    /\ \A t \in Ticks : dispatches[t] # NoRun => Known(dispatches[t])
    /\ \A t, u \in Ticks : dispatches[t] = dispatches[u] /\ dispatches[t] # NoRun => t = u
    /\ Callers = {} => \A r \in Runs : Known(r) => \E t \in Ticks : dispatches[t] = r

LEMMA NextKeepsEngines ==
    ASSUME FiresTypeOK, EnginesAtTicks, [RuntimeNext]_runtimeVars PROVE EnginesAtTicks'
<1>0. engines \in [Engines -> EngineStates]
    BY DEF FiresTypeOK, EngineStates
<1>1. ASSUME UNCHANGED engines PROVE EnginesAtTicks'
    BY <1>1 DEF EnginesAtTicks
<1>2. ASSUME NEW e \in Engines, EngineRests(e) PROVE EnginesAtTicks'
    BY <1>0, <1>2 DEF EnginesAtTicks, EngineRests, IdleEngine
<1>3. ASSUME NEW e \in Engines, NEW s, engines[e].step # "idle", EngineGo(e, s) PROVE EnginesAtTicks'
  <2>1. engines'[e].at = engines[e].at /\ \A d \in Engines \ {e} : engines'[d] = engines[d]
    BY <1>0, <1>3 DEF EngineGo, EngineStates
  <2> QED BY <1>3, <2>1 DEF EnginesAtTicks
<1>4. ASSUME NEW e \in Engines, ListDueSchedules(e) PROVE EnginesAtTicks'
  <2>1. schedule.next \in Occurrences /\ schedule.next =< now /\ now \in 0..LastTick
    BY <1>4 DEF ListDueSchedules, FiresTypeOK
  <2>2. schedule.next \in Ticks
    BY <2>1, ScheduleAssumption DEF Occurrences, Never, Ticks, ScheduleAssumption
  <2> QED BY <1>0, <1>4, <2>2 DEF ListDueSchedules, EnginesAtTicks
<1>5. ASSUME NEW e \in Engines, NEW t \in Ticks, ClaimFire(e, t) PROVE EnginesAtTicks'
    BY <1>0, <1>5 DEF ClaimFire, EnginesAtTicks
<1>6. ASSUME NEW e \in Engines, CreateFire(e) \/ TransitionFire(e) \/ EngineDies(e) PROVE EnginesAtTicks'
    BY <1>2, <1>6 DEF CreateFire, TransitionFire, EngineDies
<1>7. ASSUME NEW e \in Engines, DispatchFire(e) \/ DispatchRefused(e) PROVE EnginesAtTicks'
    BY <1>3, <1>7 DEF DispatchFire, DispatchRefused
<1>8. CASE Tick \/ CreateSchedule \/ (\E t \in Ticks : LapseClaim(t)) \/ \E d \in Editors : Edit(d)
    BY <1>1, <1>8 DEF Tick, CreateSchedule, LapseClaim, Edit, ReadForUpdate, UpdateSchedule, DeleteSchedule
<1>9. CASE ((RunsStep \/ EditConfig) /\ UNCHANGED fireVars) \/ UNCHANGED runtimeVars
    BY <1>1, <1>9 DEF fireVars, runtimeVars
<1> QED BY <1>4, <1>5, <1>6, <1>7, <1>8, <1>9 DEF RuntimeNext, RuntimeStep, Engine, Handover

\* The steps that leave dispatches and bring no run about keep the pairs.
LEMMA StillPaired ==
    ASSUME FiresMakeRuns, UNCHANGED dispatches, \A q : Known(q) => Known(q)',
           Callers = {} => NoneAppears
    PROVE  FiresMakeRuns'
<1>1. \A t \in Ticks : dispatches[t] # NoRun => Known(dispatches[t])'
    BY DEF FiresMakeRuns, Known
<1>2. Callers = {} => \A r \in Runs : Known(r)' => \E t \in Ticks : dispatches'[t] = r
    BY DEF FiresMakeRuns, Known, NoneAppears
<1> QED BY <1>1, <1>2 DEF FiresMakeRuns, Known

LEMMA KnownStays ==
    ASSUME RunsTypeOK, RunsAreKnown, RunsStep \/ EditConfig PROVE \A q : Known(q) => Known(q)'
<1>0. runs \in [Runs -> RunStates] /\ callers \in [Callers -> Runs \cup {NoRun}]
    BY DEF RunsTypeOK
<1>1. ASSUME NEW c \in Callers, Call(c) PROVE \A q : Known(q) => Known(q)'
    BY <1>0, <1>1 DEF Call, CreateIngestRun, PushRun, PushFailed, CallerDies, RunBecomes, Known
<1>2. ASSUME NoneAppears PROVE \A q : Known(q) => Known(q)'
    BY <1>2 DEF NoneAppears, Known
<1>3. ASSUME NEW w \in Workers, Work(w) \/ WorkerDies(w) PROVE NoneAppears
    BY <1>3, HandlingKeepsRuns, OthersKeepRuns DEF Work
<1>4. ASSUME (\E j \in JobIds : LapseRunJob(j)) \/ EditConfig PROVE NoneAppears
    BY <1>4, OthersKeepRuns
<1> QED BY <1>1, <1>2, <1>3, <1>4 DEF RunsStep

LEMMA DispatchKeepsRuns ==
    ASSUME RunsTypeOK, RunsAreKnown, FiresTypeOK, EnginesAtTicks, FiresMakeRuns,
           NEW e \in Engines, DispatchFire(e)
    PROVE  RunsTypeOK' /\ RunsAreKnown' /\ FiresMakeRuns'
<1>0. /\ runs \in [Runs -> RunStates] /\ ingestJobs \in T!JobTables
      /\ dispatches \in [Ticks -> Runs \cup {NoRun}]
    BY DEF RunsTypeOK, FiresTypeOK
<1>1. PICK f \in Ticks : f = engines[e].at
    BY DEF DispatchFire, EnginesAtTicks
<1>2. UNCHANGED <<workers, callers, config, ingested, lost, faults>>
    BY DEF DispatchFire
<1>3. CASE dispatches[f] # NoRun
  <2>1. UNCHANGED <<runs, ingestJobs, dispatches>>
    BY <1>1, <1>3 DEF DispatchFire
  <2>2. RunsAreKnown'
    BY <1>2, <2>1, StillKnown DEF Known
  <2>3. FiresMakeRuns'
    BY <2>1, StillPaired DEF Known, NoneAppears
  <2> QED BY <1>2, <2>1, <2>2, <2>3 DEF RunsTypeOK
<1>4. CASE dispatches[f] = NoRun
  <2>1. PICK r \in Runs, j \in T!FreshIds(ingestJobs) :
            /\ runs[r] = "none" /\ RunBecomes(r, "queued")
            /\ ingestJobs' = T!Push(ingestJobs, j, r)
            /\ dispatches' = [dispatches EXCEPT ![f] = r]
    BY <1>1, <1>4 DEF DispatchFire
  <2>2. j \in JobIds /\ NoRun # r
    BY <2>1, RunConstants DEF T!FreshIds
  <2>3. /\ ingestJobs' \in T!JobTables /\ ingestJobs'[j].payload = r
        /\ \A k \in JobIds \ {j} : ingestJobs'[k] = ingestJobs[k]
    BY <1>0, <2>1, <2>2, PushAdds
  <2>4. /\ runs' \in [Runs -> RunStates] /\ \A q : Known(q) => Known(q)'
        /\ \A q \in Runs \ {r} : runs'[q] = runs[q]
    BY <1>0, <2>1, RunWritten DEF RunStates
  <2>5. Known(r)'
    BY <1>0, <2>1 DEF RunBecomes, Known
  <2>6. RunsAreKnown'
    <3>1. \A k \in JobIds \ {j} : /\ ingestJobs[k].payload # NoRun =>
                                        ingestJobs[k].payload \in Runs /\ runs'[ingestJobs[k].payload] # "none"
                                  /\ T!Held(ingestJobs, k) => ingestJobs[k].payload # NoRun
      BY <2>4 DEF RunsAreKnown, Known
    <3>2. \A k \in JobIds : T!Held(ingestJobs', k) => ingestJobs'[k].payload # NoRun
      BY <2>2, <2>3, <3>1 DEF T!Held
    <3>3. \A w \in Workers : workers[w].step # "idle" => workers[w].job \in JobIds /\ Known(workers[w].run)'
      BY <1>2, <2>4 DEF RunsAreKnown, Known
    <3>4. \A c \in Callers : callers[c] # NoRun => Known(callers[c])'
      BY <1>2, <2>4 DEF RunsAreKnown, Known
    <3>5. \A k \in JobIds : ingestJobs'[k].payload # NoRun =>
              ingestJobs'[k].payload \in Runs /\ runs'[ingestJobs'[k].payload] # "none"
      BY <2>3, <2>5, <3>1 DEF Known
    <3> QED BY <1>2, <3>2, <3>3, <3>4, <3>5 DEF RunsAreKnown, Known
  <2>7. FiresMakeRuns'
    <3>1. dispatches'[f] = r /\ \A t \in Ticks \ {f} : dispatches'[t] = dispatches[t]
      BY <1>0, <2>1
    <3>2. \A t \in Ticks : dispatches[t] # r
      BY <2>1, <2>2 DEF FiresMakeRuns, Known
    <3>3. \A t \in Ticks : dispatches'[t] # NoRun => Known(dispatches[t])'
      BY <2>4, <2>5, <3>1 DEF FiresMakeRuns, Known
    <3>4. \A t, u \in Ticks : dispatches'[t] = dispatches'[u] /\ dispatches'[t] # NoRun => t = u
      BY <3>1, <3>2 DEF FiresMakeRuns
    <3>5. Callers = {} => \A q \in Runs : Known(q)' => \E t \in Ticks : dispatches'[t] = q
      <4> SUFFICES ASSUME Callers = {}, NEW q \in Runs, Known(q)' PROVE \E t \in Ticks : dispatches'[t] = q
        OBVIOUS
      <4>1. CASE q = r
        BY <3>1, <4>1
      <4>2. CASE q # r
        <5>1. Known(q)
          BY <2>4, <4>2 DEF Known
        <5>2. PICK t \in Ticks : dispatches[t] = q
          BY <5>1 DEF FiresMakeRuns
        <5>3. t # f
          BY <1>4, <5>2, RunConstants
        <5> QED BY <3>1, <5>2, <5>3
      <4> QED BY <4>1, <4>2
    <3> QED BY <3>3, <3>4, <3>5 DEF FiresMakeRuns, Known
  <2>8. RunsTypeOK'
    BY <1>2, <2>3, <2>4 DEF RunsTypeOK
  <2> QED BY <2>6, <2>7, <2>8
<1> QED BY <1>3, <1>4

PairInv == RunsTypeOK /\ RunsAreKnown /\ EnginesAtTicks /\ FiresMakeRuns

LEMMA NextKeepsPairs ==
    ASSUME FiresTypeOK, PairInv, [RuntimeNext]_runtimeVars PROVE PairInv'
<1>0. RunsTypeOK /\ RunsAreKnown /\ EnginesAtTicks /\ FiresMakeRuns
    BY DEF PairInv
<1>1. EnginesAtTicks'
    BY <1>0, NextKeepsEngines
<1>2. ASSUME UNCHANGED <<runs, ingestJobs, workers, callers, dispatches>>
      PROVE  RunsAreKnown' /\ FiresMakeRuns'
    BY <1>0, <1>2, StillKnown, StillPaired DEF Known, NoneAppears
<1>3. CASE (RunsStep \/ EditConfig) /\ UNCHANGED fireVars
  <2>1. RunsTypeOK' /\ RunsAreKnown' /\ (Callers = {} => NoneAppears) /\ \A q : Known(q) => Known(q)'
    BY <1>0, <1>3, RunsStepKeepsRuns, KnownStays
  <2>2. FiresMakeRuns'
    BY <1>0, <1>3, <2>1, StillPaired DEF fireVars
  <2> QED BY <1>1, <2>1, <2>2 DEF PairInv
<1>4. ASSUME NEW e \in Engines, DispatchFire(e) PROVE PairInv'
    BY <1>0, <1>1, <1>4, DispatchKeepsRuns DEF PairInv
<1>5. ASSUME NEW e \in Engines, DispatchRefused(e) \/ EngineDies(e) PROVE PairInv'
  <2>1. /\ UNCHANGED <<runs, ingestJobs, workers, callers, config, ingested, lost, dispatches>>
        /\ Fault \/ UNCHANGED faults
    BY <1>5 DEF DispatchRefused, EngineDies
  <2>2. faults' \in 0..MaxFaults
    BY <1>0, <2>1, FaultTypes DEF RunsTypeOK
  <2> QED BY <1>0, <1>1, <1>2, <2>1, <2>2 DEF PairInv, RunsTypeOK
<1>6. ASSUME UNCHANGED runVars, UNCHANGED dispatches PROVE PairInv'
    BY <1>0, <1>1, <1>2, <1>6 DEF PairInv, RunsTypeOK, runVars
<1>7. ASSUME NEW e \in Engines,
             \/ CreateFire(e) \/ TransitionFire(e) \/ ListDueSchedules(e)
             \/ \E t \in Ticks : ClaimFire(e, t)
      PROVE  PairInv'
    BY <1>6, <1>7 DEF CreateFire, TransitionFire, ListDueSchedules, ClaimFire
<1>8. CASE Tick \/ CreateSchedule \/ (\E t \in Ticks : LapseClaim(t)) \/ \E d \in Editors : Edit(d)
    BY <1>6, <1>8 DEF Tick, CreateSchedule, LapseClaim, Edit, ReadForUpdate, UpdateSchedule, DeleteSchedule
<1>9. CASE UNCHANGED runtimeVars
    BY <1>6, <1>9 DEF fireVars, runtimeVars
<1> QED BY <1>3, <1>4, <1>5, <1>7, <1>8, <1>9 DEF RuntimeNext, RuntimeStep, Engine, Handover

LEMMA PairsStart == RuntimeInit => PairInv
<1> SUFFICES ASSUME RuntimeInit PROVE PairInv
    OBVIOUS
<1> USE DEF RuntimeInit, RunsInit, FiresInit
<1>1. runs \in [Runs -> RunStates] /\ \A q : ~Known(q)
    BY DEF RunStates, Known
<1>2. ingestJobs \in T!JobTables /\ \A j \in JobIds : ingestJobs[j].payload = NoRun /\ ~T!Held(ingestJobs, j)
    BY DEF T!EmptyTable, T!JobTables, T!JobRow, T!JobStates, T!Held, T!HeldStates
<1>3. workers \in [Workers -> WorkerState] /\ \A w \in Workers : workers[w].step = "idle"
    BY DEF IdleWorker, WorkerState, WorkerSteps
<1>4. faults \in 0..MaxFaults /\ config \in ConfigStates
    BY RunConstants
<1>5. RunsTypeOK
    BY <1>1, <1>2, <1>3, <1>4 DEF RunsTypeOK
<1>6. RunsAreKnown
    BY <1>2, <1>3 DEF RunsAreKnown
<1>7. EnginesAtTicks /\ FiresMakeRuns
    BY <1>1 DEF EnginesAtTicks, FiresMakeRuns, IdleEngine
<1> QED BY <1>5, <1>6, <1>7 DEF PairInv

(***************************************************************************)
(* Runs, jobs, workers and callers, fires and engines stay well formed.    *)
(***************************************************************************)
THEOREM RuntimeTypesHold == RuntimeSpec => []RuntimeTypeOK
<1>1. FiresTypeOK /\ PairInv /\ [RuntimeNext]_runtimeVars => (FiresTypeOK /\ PairInv)'
    BY NextTypes, NextKeepsPairs
<1>2. RuntimeInit => FiresTypeOK /\ PairInv
    BY InitTypes, PairsStart DEF RuntimeInit
<1>3. FiresTypeOK /\ PairInv => RuntimeTypeOK
    BY DEF PairInv, RuntimeTypeOK
<1> QED BY <1>1, <1>2, <1>3, PTL DEF RuntimeSpec

\* Paired sets are equally large.
LEMMA PairsCount ==
    ASSUME NEW S, NEW R, NEW f, IsFiniteSet(S),
           \A s \in S : f[s] \in R,
           \A s, t \in S : f[s] = f[t] => s = t,
           \A r \in R : \E s \in S : f[s] = r
    PROVE  Cardinality(R) = Cardinality(S)
<1> DEFINE g == [s \in S |-> f[s]]
<1>1. g \in [S -> R]
    OBVIOUS
<1>2. g \in Injection(S, R)
    BY <1>1 DEF Injection, IsInjective
<1>3. g \in Surjection(S, R)
    BY <1>1 DEF Surjection
<1>4. ExistsBijection(S, R)
    BY <1>2, <1>3 DEF Bijection, ExistsBijection
<1> QED BY <1>4, FS_Bijection

(***************************************************************************)
(* A fire makes at most one run, and where nobody calls for runs there is  *)
(* no other: whatever engines claim, lapse, repeat or die, and whatever    *)
(* becomes of the jobs (enqueueScheduledIngest).                           *)
(***************************************************************************)
THEOREM FiresRunOnce == RuntimeSpec => []OneRunPerFire
<1>1. FiresTypeOK /\ PairInv /\ [RuntimeNext]_runtimeVars => (FiresTypeOK /\ PairInv)'
    BY NextTypes, NextKeepsPairs
<1>2. RuntimeInit => FiresTypeOK /\ PairInv
    BY InitTypes, PairsStart DEF RuntimeInit
<1>3. FiresTypeOK /\ PairInv => OneRunPerFire
  <2> SUFFICES ASSUME FiresTypeOK, FiresMakeRuns, Callers = {}
               PROVE  Cardinality({r \in Runs : runs[r] # "none"})
                          = Cardinality({t \in Ticks : dispatches[t] # NoRun})
    BY DEF PairInv, OneRunPerFire
  <2> DEFINE R == {r \in Runs : runs[r] # "none"}
             S == {t \in Ticks : dispatches[t] # NoRun}
  <2>1. IsFiniteSet(S)
    <3>1. IsFiniteSet(Ticks)
      BY FS_Interval, ScheduleAssumption DEF Ticks, ScheduleAssumption
    <3> QED BY <3>1, FS_Subset
  <2>2. /\ \A s \in S : dispatches[s] \in R
        /\ \A s, t \in S : dispatches[s] = dispatches[t] => s = t
    BY DEF FiresMakeRuns, Known
  <2>3. \A r \in R : \E s \in S : dispatches[s] = r
    BY RunConstants DEF FiresMakeRuns, Known
  <2> HIDE DEF R, S
  <2>4. Cardinality(R) = Cardinality(S)
    BY <2>1, <2>2, <2>3, PairsCount
  <2> QED BY <2>4 DEF R, S
<1> QED BY <1>1, <1>2, <1>3, PTL DEF RuntimeSpec

-------------------------------------------------------------------------------
(***************************************************************************)
(* To the runtime every step of a request is an edit of the config or      *)
(* nothing.                                                                *)
(***************************************************************************)
LEMMA ViewIsForeseen == \A f : View(f) \in ConfigStates
BY AdminAssumption DEF View, AdminAssumption

LEMMA WritingEditsConfig ==
    ASSUME NEW f, FileBecomes(f)
    PROVE  [RuntimeNext]_runtimeVars
<1>1. config' \in ConfigStates
    BY ViewIsForeseen DEF FileBecomes
<1>2. CASE config' = config
    BY <1>2 DEF FileBecomes, runtimeVars, runVars
<1>3. CASE config' # config
    BY <1>1, <1>3 DEF FileBecomes, RuntimeNext, EditConfig
<1> QED BY <1>2, <1>3

LEMMA RequestEditsConfig ==
    ASSUME NEW a \in Admins, Request(a)
    PROVE  [RuntimeNext]_runtimeVars
<1>1. ASSUME NEW n \in Names,
             Create(a, n) \/ Update(a, n) \/ SetEnabled(a, n) \/ UpdateArchivePolicy(a, n) \/ Delete(a, n)
      PROVE  UNCHANGED runtimeVars
    BY <1>1 DEF Create, Update, SetEnabled, UpdateArchivePolicy, Delete, Change
<1>2. ASSUME ConfigGet(a) \/ ConfigUpdate(a) \/ MergeIntoOriginal(a) \/ SaveFails(a)
      PROVE  UNCHANGED runtimeVars
    BY <1>2 DEF ConfigGet, ConfigUpdate, MergeIntoOriginal, SaveFails
<1>3. ASSUME EmptyFile(a) PROVE [RuntimeNext]_runtimeVars
    BY <1>3, WritingEditsConfig DEF EmptyFile
<1>4. ASSUME WriteFile(a) PROVE [RuntimeNext]_runtimeVars
    BY <1>4, WritingEditsConfig DEF WriteFile
<1> QED BY <1>1, <1>2, <1>3, <1>4 DEF Request

(***************************************************************************)
(* The file and the requests that rewrite it are one of the ways in which  *)
(* IngestRuntime lets its config change: what is proved of RuntimeSpec     *)
(* holds while administrators work.                                        *)
(***************************************************************************)
THEOREM AdminImplementsRuntime == AdminSpec => RuntimeSpec
<1>1. AdminInit => RuntimeInit
    BY DEF AdminInit
<1>2. [AdminNext]_allAdminVars => [RuntimeNext]_runtimeVars
    BY RequestEditsConfig DEF AdminNext, allAdminVars, RuntimeNext
<1> QED BY <1>1, <1>2, PTL DEF AdminSpec, RuntimeSpec

(***************************************************************************)
(* What a request holds agrees with what was asked for, but for the        *)
(* ingests it edits itself and, once another save has ended, for all.      *)
(***************************************************************************)
Files == [state : {"whole", "empty", "mangled"}, ingests : Configs]
Requests == [step : AdminSteps, wanted : Configs \cup {Absent}, text : Configs \cup {Absent},
             edited : SUBSET Names, stale : BOOLEAN]

Agrees(c, d, S) == \A n \in S : SameIngest(c[n], d[n])

Holds(r) ==
    r.step # "idle" =>
        /\ r.wanted \in Configs /\ Valid(r.wanted)
        /\ ~r.stale => Agrees(r.wanted, asked, Names \ (undone \cup r.edited))
        /\ r.step \in {"merged", "emptied"} => r.text \in Configs /\ Agrees(r.text, r.wanted, Names)

Types == file \in Files /\ asked \in Configs /\ admins \in [Admins -> Requests]

AdminInvariant == Types /\ EditsAddUp /\ \A a \in Admins : Holds(admins[a])

(***************************************************************************)
(* Copies and merges of a configuration.                                   *)
(***************************************************************************)
LEMMA AgreesWithItself == \A c, S : Agrees(c, c, S)
BY DEF Agrees, SameIngest

LEMMA MergedAgrees ==
    ASSUME NEW f \in Files, NEW c \in Configs
    PROVE  Merged(f, c) \in Configs /\ Agrees(Merged(f, c), c, Names)
<1> SUFFICES ASSUME NEW n \in Names
             PROVE  Merged(f, c)[n] \in Entries \cup {Absent} /\ SameIngest(Merged(f, c)[n], c[n])
    BY DEF Configs, Agrees, Merged
<1>1. c[n] \in Entries \cup {Absent} /\ f.ingests[n] \in Entries \cup {Absent}
    BY DEF Files, Configs
<1>2. CASE c[n] # Absent /\ f.ingests[n] # Absent
    BY <1>1, <1>2, AdminAssumption DEF Merged, Entries, SameIngest, AdminAssumption
<1>3. CASE ~(c[n] # Absent /\ f.ingests[n] # Absent)
    BY <1>1, <1>3 DEF Merged, SameIngest
<1> QED BY <1>2, <1>3

LEMMA ValidAgrees ==
    ASSUME NEW c, NEW d, Agrees(c, d, Names), Valid(d)
    PROVE  Valid(c)
BY DEF Agrees, SameIngest, Valid

(***************************************************************************)
(* Steps that leave the file and what was asked for: one row changes.      *)
(***************************************************************************)
LEMMA OneRequestMoves ==
    ASSUME AdminInvariant, NEW a \in Admins, NEW r \in Requests, Holds(r),
           admins' = [admins EXCEPT ![a] = r], UNCHANGED <<file, asked, undone>>
    PROVE  AdminInvariant'
<1>1. Types'
    BY DEF AdminInvariant, Types
<1>2. EditsAddUp'
    BY DEF AdminInvariant, EditsAddUp
<1>3. ASSUME NEW b \in Admins PROVE Holds(admins[b])'
  <2>1. CASE b = a
    BY <2>1 DEF AdminInvariant, Types, Holds
  <2>2. CASE b # a
    BY <2>2 DEF AdminInvariant, Types, Holds
  <2> QED BY <2>1, <2>2
<1> QED BY <1>1, <1>2, <1>3 DEF AdminInvariant

LEMMA IdleIsARequest == IdleAdmin \in Requests /\ Holds(IdleAdmin)
BY DEF IdleAdmin, Requests, AdminSteps, Holds

LEMMA SavingIsARequest ==
    ASSUME NEW c \in Configs, NEW S \in SUBSET Names, NEW stale \in BOOLEAN
    PROVE  [IdleAdmin EXCEPT !.step = "saving", !.wanted = c, !.edited = S, !.stale = stale] \in Requests
BY DEF IdleAdmin, Requests, AdminSteps

LEMMA ChangeKeeps ==
    ASSUME AdminInvariant, NEW a \in Admins, NEW n \in Names, NEW entry \in Entries \cup {Absent},
           Valid([file.ingests EXCEPT ![n] = entry]), Change(a, n, entry)
    PROVE  AdminInvariant'
<1> DEFINE c == [file.ingests EXCEPT ![n] = entry]
           r == [IdleAdmin EXCEPT !.step = "saving", !.wanted = c, !.edited = {n}, !.stale = FALSE]
<1>1. c \in Configs /\ \A m \in Names \ {n} : c[m] = file.ingests[m]
    BY DEF AdminInvariant, Types, Files, Configs
<1>2. r \in Requests
    BY <1>1, SavingIsARequest
<1>3. r.wanted = c /\ r.edited = {n} /\ r.step = "saving"
    BY DEF IdleAdmin
<1>4. \A m \in Names \ undone : SameIngest(file.ingests[m], asked[m])
    BY DEF AdminInvariant, EditsAddUp, Change, Loads
<1>5. Agrees(c, asked, Names \ (undone \cup {n}))
    BY <1>1, <1>4 DEF Agrees
<1>6. Holds(r)
  <2> HIDE DEF c, r
  <2> QED BY <1>1, <1>3, <1>5 DEF Holds, c
<1>7. admins' = [admins EXCEPT ![a] = r] /\ UNCHANGED <<file, asked, undone>>
    BY DEF Change, Save
<1> HIDE DEF c, r
<1> QED BY <1>2, <1>6, <1>7, OneRequestMoves

LEMMA EditsKeep ==
    ASSUME AdminInvariant, NEW a \in Admins, NEW n \in Names,
           Create(a, n) \/ Update(a, n) \/ SetEnabled(a, n) \/ UpdateArchivePolicy(a, n) \/ Delete(a, n)
    PROVE  AdminInvariant'
<1>1. file.ingests \in Configs
    BY DEF AdminInvariant, Types, Files
<1>2. ASSUME NEW entry \in Entries, Change(a, n, entry) PROVE AdminInvariant'
  <2>1. [file.ingests EXCEPT ![n] = entry][n] = entry /\ entry # Absent
    BY <1>1, AdminAssumption DEF Configs, Entries, AdminAssumption
  <2>2. Valid([file.ingests EXCEPT ![n] = entry])
    BY <2>1 DEF Valid
  <2> QED BY <1>2, <2>2, ChangeKeeps
<1>3. CASE Create(a, n) \/ Update(a, n)
    BY <1>2, <1>3 DEF Create, Update, Entry, Entries
<1>4. file.ingests[n] # Absent => file.ingests[n] \in Entries
    BY <1>1 DEF Configs
<1>5. CASE SetEnabled(a, n)
    BY <1>2, <1>4, <1>5 DEF SetEnabled, Entries
<1>6. CASE UpdateArchivePolicy(a, n)
    BY <1>2, <1>4, <1>6 DEF UpdateArchivePolicy, Entries
<1>7. CASE Delete(a, n)
  <2>1. PICK other \in Names \ {n} : file.ingests[other] # Absent
    BY <1>7 DEF Delete
  <2>2. [file.ingests EXCEPT ![n] = Absent][other] # Absent
    BY <1>1, <2>1 DEF Configs
  <2>3. Valid([file.ingests EXCEPT ![n] = Absent])
    BY <2>2 DEF Valid
  <2> QED BY <1>7, <2>3, ChangeKeeps DEF Delete
<1> QED BY <1>3, <1>5, <1>6, <1>7

LEMMA GetKeeps == ASSUME AdminInvariant, NEW a \in Admins, ConfigGet(a) PROVE AdminInvariant'
<1> DEFINE r == [IdleAdmin EXCEPT !.step = "holding", !.wanted = file.ingests]
<1>1. file.ingests \in Configs
    BY DEF AdminInvariant, Types, Files
<1>2. r \in Requests /\ r.wanted = file.ingests /\ r.step = "holding"
    BY <1>1 DEF IdleAdmin, Requests, AdminSteps
<1>3. Valid(file.ingests) /\ \A m \in Names \ undone : SameIngest(file.ingests[m], asked[m])
    BY DEF AdminInvariant, EditsAddUp, ConfigGet, Loads
<1>4. Holds(r)
  <2> HIDE DEF r
  <2> QED BY <1>1, <1>2, <1>3 DEF Holds, Agrees
<1>5. admins' = [admins EXCEPT ![a] = r] /\ UNCHANGED <<file, asked, undone>>
    BY DEF ConfigGet
<1> HIDE DEF r
<1> QED BY <1>2, <1>4, <1>5, OneRequestMoves

LEMMA PutKeeps == ASSUME AdminInvariant, NEW a \in Admins, ConfigUpdate(a) PROVE AdminInvariant'
<1>0. UNCHANGED <<file, asked, undone>>
    BY DEF ConfigUpdate
<1>1. admins[a] \in Requests /\ admins[a].wanted \in Configs /\ admins[a].stale \in BOOLEAN
    BY DEF AdminInvariant, Types, Holds, ConfigUpdate, Requests
<1>2. PICK n \in Names, on \in BOOLEAN, keys \in SUBSET RuleKeys, keep \in BOOLEAN :
        LET c == [admins[a].wanted EXCEPT ![n] = IF keep THEN Entry(on, keys) ELSE Absent] IN
            IF Valid(c) THEN Save(a, c, Names, admins[a].stale)
            ELSE admins' = [admins EXCEPT ![a] = IdleAdmin]
    BY DEF ConfigUpdate
<1> DEFINE c == [admins[a].wanted EXCEPT ![n] = IF keep THEN Entry(on, keys) ELSE Absent]
           r == [IdleAdmin EXCEPT !.step = "saving", !.wanted = c, !.edited = Names, !.stale = admins[a].stale]
<1>3. c \in Configs
    BY <1>1 DEF Configs, Entries, Entry
<1>4. CASE Valid(c)
  <2>1. r \in Requests
    BY <1>1, <1>3, SavingIsARequest
  <2>2. r.wanted = c /\ r.edited = Names /\ r.step = "saving"
    BY DEF IdleAdmin
  <2>3. Holds(r)
    <3> HIDE DEF c, r
    <3> QED BY <1>3, <1>4, <2>2 DEF Holds, Agrees
  <2>4. admins' = [admins EXCEPT ![a] = r]
    BY <1>2, <1>4 DEF Save
  <2> HIDE DEF r
  <2> QED BY <1>0, <2>1, <2>3, <2>4, OneRequestMoves
<1>5. CASE ~Valid(c)
    BY <1>0, <1>2, <1>5, IdleIsARequest, OneRequestMoves
<1> QED BY <1>4, <1>5

LEMMA MergeKeeps == ASSUME AdminInvariant, NEW a \in Admins, MergeIntoOriginal(a) PROVE AdminInvariant'
<1> DEFINE text == Merged(file, admins[a].wanted)
           r == [admins[a] EXCEPT !.step = "merged", !.text = text]
<1>1. admins[a] \in Requests /\ Holds(admins[a]) /\ admins[a].step = "saving" /\ file \in Files
    BY DEF AdminInvariant, Types, MergeIntoOriginal
<1>2. admins[a].wanted \in Configs /\ Valid(admins[a].wanted)
    BY <1>1 DEF Holds
<1>3. text \in Configs /\ Agrees(text, admins[a].wanted, Names)
    BY <1>1, <1>2, MergedAgrees
<1> HIDE DEF text
<1>4. /\ r \in Requests /\ r.step = "merged" /\ r.text = text
      /\ r.wanted = admins[a].wanted /\ r.edited = admins[a].edited /\ r.stale = admins[a].stale
    BY <1>1, <1>3 DEF Requests, AdminSteps
<1>5. Holds(r)
  <2> HIDE DEF r
  <2> QED BY <1>1, <1>2, <1>3, <1>4 DEF Holds
<1>6. UNCHANGED <<file, asked, undone>> /\ admins' = [admins EXCEPT ![a] = IF file.state = "mangled" THEN IdleAdmin ELSE r]
    BY DEF MergeIntoOriginal, text
<1> HIDE DEF r
<1> QED BY <1>4, <1>5, <1>6, IdleIsARequest, OneRequestMoves

LEMMA SaveFailureKeeps == ASSUME AdminInvariant, NEW a \in Admins, SaveFails(a) PROVE AdminInvariant'
BY IdleIsARequest, OneRequestMoves DEF SaveFails

(***************************************************************************)
(* Steps that write the file.                                              *)
(***************************************************************************)
LEMMA UnreadableIsAFile == \A state \in {"empty", "mangled"} : Unreadable(state) \in Files
BY DEF Unreadable, Files, Configs

LEMMA EmptyKeeps == ASSUME AdminInvariant, NEW a \in Admins, EmptyFile(a) PROVE AdminInvariant'
<1> DEFINE r == [admins[a] EXCEPT !.step = "emptied"]
<1>1. admins[a] \in Requests /\ Holds(admins[a]) /\ admins[a].step = "merged"
    BY DEF AdminInvariant, Types, EmptyFile
<1>2. /\ r \in Requests /\ r.step = "emptied" /\ r.text = admins[a].text
      /\ r.wanted = admins[a].wanted /\ r.edited = admins[a].edited /\ r.stale = admins[a].stale
    BY <1>1 DEF Requests, AdminSteps
<1>3. admins' = [admins EXCEPT ![a] = r] /\ UNCHANGED <<asked, undone>> /\ file' = Unreadable("empty")
    BY DEF EmptyFile, FileBecomes
<1> HIDE DEF r
<1>4. Types'
    BY <1>2, <1>3, UnreadableIsAFile DEF AdminInvariant, Types
<1>5. EditsAddUp'
    BY <1>3 DEF EditsAddUp, Unreadable
<1>6. ASSUME NEW b \in Admins PROVE Holds(admins[b])'
  <2>1. CASE b = a
    BY <1>1, <1>2, <1>3, <2>1 DEF AdminInvariant, Types, Holds
  <2>2. CASE b # a
    BY <1>3, <2>2 DEF AdminInvariant, Types, Holds
  <2> QED BY <2>1, <2>2
<1> QED BY <1>4, <1>5, <1>6 DEF AdminInvariant

LEMMA WriteKeeps == ASSUME AdminInvariant, NEW a \in Admins, WriteFile(a) PROVE AdminInvariant'
<1> DEFINE old == admins[a]
<1>1. old \in Requests /\ Holds(old) /\ old.step = "emptied"
    BY DEF AdminInvariant, Types, WriteFile
<1>2. /\ old.wanted \in Configs /\ Valid(old.wanted) /\ old.edited \subseteq Names
      /\ old.text \in Configs /\ Agrees(old.text, old.wanted, Names)
      /\ ~old.stale => Agrees(old.wanted, asked, Names \ (undone \cup old.edited))
    BY <1>1 DEF Holds, Requests
<1>3. asked \in Configs
    BY DEF AdminInvariant, Types
<1>4. asked' = [n \in Names |-> IF n \in old.edited THEN old.wanted[n] ELSE asked[n]]
    BY DEF WriteFile
<1>5. undone' = IF old.stale THEN undone \cup (Names \ old.edited) ELSE undone \ old.edited
    BY DEF WriteFile
<1>6. admins' = [b \in Admins |->
        IF b = a THEN IdleAdmin ELSE [admins[b] EXCEPT !.stale = admins[b].step # "idle"]]
    BY DEF WriteFile
<1>7. \/ file' = [state |-> "whole", ingests |-> old.text]
      \/ file' = Unreadable("mangled")
    BY DEF WriteFile, FileBecomes
<1> HIDE DEF old
<1>8. asked' \in Configs
    BY <1>2, <1>3, <1>4 DEF Configs
<1>9. file' \in Files
    BY <1>2, <1>7, UnreadableIsAFile DEF Files
<1>10. ASSUME NEW b \in Admins PROVE admins'[b] \in Requests /\ Holds(admins[b])'
  <2>1. CASE b = a
    BY <1>6, <2>1, IdleIsARequest DEF Holds, IdleAdmin
  <2>2. CASE b # a
    <3>1. admins[b] \in Requests /\ Holds(admins[b])
        BY DEF AdminInvariant, Types
    <3>2. admins'[b] = [admins[b] EXCEPT !.stale = admins[b].step # "idle"]
        BY <1>6, <2>2
    <3>3. /\ admins'[b] \in Requests /\ admins'[b].step = admins[b].step
          /\ admins'[b].wanted = admins[b].wanted /\ admins'[b].text = admins[b].text
          /\ admins'[b].stale = (admins[b].step # "idle")
        BY <3>1, <3>2 DEF Requests
    <3> QED BY <3>1, <3>3 DEF Holds
  <2> QED BY <2>1, <2>2
<1>11. Types'
    BY <1>6, <1>8, <1>9, <1>10 DEF Types
<1>12. ASSUME file' = [state |-> "whole", ingests |-> old.text] PROVE EditsAddUp'
  <2>1. Valid(old.text)
    BY <1>2, ValidAgrees
  <2>2. ASSUME NEW n \in Names \ undone' PROVE SameIngest(old.text[n], asked'[n])
    <3>1. SameIngest(old.text[n], old.wanted[n])
        BY <1>2 DEF Agrees
    <3>2. CASE n \in old.edited
        BY <1>4, <3>1, <3>2
    <3>3. CASE n \notin old.edited
      <4>1. ~old.stale /\ n \notin undone
        BY <1>1, <1>5, <2>2, <3>3 DEF Requests
      <4>2. SameIngest(old.wanted[n], asked[n])
        BY <1>2, <3>3, <4>1 DEF Agrees
      <4> QED BY <1>4, <3>1, <3>3, <4>2 DEF SameIngest
    <3> QED BY <3>2, <3>3
  <2> QED BY <1>12, <2>1, <2>2 DEF EditsAddUp, Loads
<1>13. ASSUME file' = Unreadable("mangled") PROVE EditsAddUp'
    BY <1>13 DEF EditsAddUp, Unreadable
<1> QED BY <1>7, <1>10, <1>11, <1>12, <1>13 DEF AdminInvariant

LEMMA NothingKeeps ==
    ASSUME AdminInvariant, UNCHANGED adminVars
    PROVE  AdminInvariant'
<1>1. UNCHANGED <<file, admins, asked, undone>>
    BY DEF adminVars
<1>2. \A a \in Admins : Holds(admins[a])'
    BY <1>1 DEF AdminInvariant, Holds
<1> QED BY <1>1, <1>2 DEF AdminInvariant, Types, EditsAddUp

(***************************************************************************)
(* A whole file always loads, and every edit in it that no later save of a *)
(* request older than it may have undone is still in it.                   *)
(***************************************************************************)
THEOREM EditsStand == AdminSpec => []EditsAddUp
<1>1. AdminInit => AdminInvariant
  <2> SUFFICES ASSUME AdminInit PROVE AdminInvariant
    OBVIOUS
  <2>1. file = [state |-> "whole", ingests |-> [n \in Names |-> Entry(TRUE, RuleKeys)]] /\ asked = file.ingests
    BY DEF AdminInit
  <2>6. Entry(TRUE, RuleKeys) \in Entries
    <3>1. RuleKeys \in SUBSET RuleKeys
        OBVIOUS
    <3> QED BY <3>1 DEF Entries, Entry
  <2>0. Entry(TRUE, RuleKeys) \in Entries /\ Entry(TRUE, RuleKeys) # Absent /\ Main \in Names
    BY <2>6, AdminAssumption DEF Entries, AdminAssumption
  <2>2. file.ingests \in Configs /\ Valid(file.ingests)
    BY <2>0, <2>1 DEF Configs, Valid
  <2>3. Types
    BY <2>1, <2>2, IdleIsARequest DEF AdminInit, Types, Files
  <2>4. EditsAddUp
    BY <2>1, <2>2 DEF EditsAddUp, Loads, SameIngest
  <2>5. \A a \in Admins : Holds(admins[a])
    BY IdleIsARequest DEF AdminInit
  <2> QED BY <2>3, <2>4, <2>5 DEF AdminInvariant
<1>2. AdminInvariant /\ [AdminNext]_allAdminVars => AdminInvariant'
    BY EditsKeep, GetKeeps, PutKeeps, MergeKeeps, EmptyKeeps, WriteKeeps, SaveFailureKeeps, NothingKeeps
    DEF AdminNext, Request, allAdminVars
<1>3. AdminInvariant => EditsAddUp
    BY DEF AdminInvariant
<1> QED BY <1>1, <1>2, <1>3, PTL DEF AdminSpec

(***************************************************************************)
(* Who tends a run.  As long as nothing has failed, a worker has its job   *)
(* to itself; after the one fault none is left to keep a worker from       *)
(* bringing the run it works on to an end.                                 *)
(***************************************************************************)
Working(w) == workers[w].step # "idle"
Clean == faults = MaxFaults

\* A worker that will write the run once more, whatever becomes of the job.
Closing(w, r) == workers[w].step \in {"running", "ingested", "buried"} /\ workers[w].run = r
Closed(r) == r \in lost \/ ~Open(r) \/ \E w \in Workers : Closing(w, r)

\* A job is that of one run, and a run has one job or a caller that has yet to push it.
JobsAreNamed ==
    /\ \A j \in JobIds : ingestJobs[j].state = "unused" => ingestJobs[j].payload = NoRun
    /\ \A j, k \in JobIds :
          ingestJobs[j].payload = ingestJobs[k].payload /\ ingestJobs[j].payload # NoRun => j = k
    /\ \A c \in Callers, j \in JobIds : callers[c] # NoRun => ingestJobs[j].payload # callers[c]
    /\ \A c, d \in Callers : callers[c] = callers[d] /\ callers[c] # NoRun => c = d
    /\ \A w \in Workers : Working(w) => ingestJobs[workers[w].job].payload = workers[w].run

OneWorkerPerJob ==
    Clean => /\ \A w \in Workers : Working(w) =>
                   ingestJobs[workers[w].job].state = IF workers[w].step = "buried" THEN "gone" ELSE "reserved"
             /\ \A w, u \in Workers :
                   Working(w) /\ Working(u) /\ workers[w].job = workers[u].job => w = u

FinishedIsClosed == \A w \in Workers : workers[w].step = "finished" => Closed(workers[w].run)

HasHelp(r) == T!HoldsPayload(ingestJobs, r) \/ \E c \in Callers : callers[c] = r
OpenHasHelp == \A r \in Runs : Closed(r) \/ HasHelp(r)

TendInv == JobsAreNamed /\ OneWorkerPerJob /\ FinishedIsClosed /\ OpenHasHelp

LEMMA FaultOnce ==
    ASSUME MaxFaults \in 0..1, faults \in 0..MaxFaults, Fault
    PROVE  Clean /\ ~Clean'
BY DEF Fault, Clean

LEMMA TendStarts == ASSUME RunsInit PROVE TendInv
<1>1. /\ \A j \in JobIds : ingestJobs[j].payload = NoRun
      /\ \A w \in Workers : workers[w].step = "idle"
      /\ \A c \in Callers : callers[c] = NoRun
      /\ \A r \in Runs : ~Open(r)
    BY DEF RunsInit, T!EmptyTable, IdleWorker, Open, OpenStates
<1> QED BY <1>1 DEF TendInv, JobsAreNamed, OneWorkerPerJob, FinishedIsClosed, OpenHasHelp, Closed, Working

\* Whose name is on a job does not change.
LEMMA NamesStay ==
    ASSUME JobsAreNamed,
           \A j \in JobIds : /\ ingestJobs'[j].payload = ingestJobs[j].payload
                             /\ ingestJobs'[j].state = "unused" => ingestJobs[j].state = "unused",
           \A c \in Callers : callers'[c] = callers[c] \/ callers'[c] = NoRun,
           \A w \in Workers :
              \/ workers'[w].step = "idle"
              \/ /\ workers'[w].job \in JobIds
                 /\ ingestJobs[workers'[w].job].payload = workers'[w].run
    PROVE  JobsAreNamed'
<1>1. /\ \A j \in JobIds : ingestJobs'[j].state = "unused" => ingestJobs'[j].payload = NoRun
      /\ \A j, k \in JobIds :
            ingestJobs'[j].payload = ingestJobs'[k].payload /\ ingestJobs'[j].payload # NoRun => j = k
    BY DEF JobsAreNamed
<1>2. \A c \in Callers, j \in JobIds : callers'[c] # NoRun => ingestJobs'[j].payload # callers'[c]
    BY DEF JobsAreNamed
<1>3. \A c, d \in Callers : callers'[c] = callers'[d] /\ callers'[c] # NoRun => c = d
    BY DEF JobsAreNamed
<1>4. \A w \in Workers : Working(w)' => ingestJobs'[workers'[w].job].payload = workers'[w].run
    BY DEF Working
<1> QED BY <1>1, <1>2, <1>3, <1>4 DEF JobsAreNamed

\* A worker moves on with its run r, or rests.
LEMMA TendedByWorker ==
    ASSUME RunsTypeOK, RunsAreKnown, JobsAreNamed, FinishedIsClosed, OpenHasHelp,
           NEW w \in Workers, NEW r, Working(w), workers[w].run = r,
           UNCHANGED callers, lost \subseteq lost',
           \A q \in Runs \ {r} : runs'[q] = runs[q],
           \A u \in Workers \ {w} : workers'[u] = workers[u],
           \/ workers'[w].step = "idle"
           \/ workers'[w].run = r /\ workers'[w].job = workers[w].job,
           \A j \in JobIds : /\ ingestJobs'[j].payload = ingestJobs[j].payload
                             /\ ingestJobs'[j].state = "unused" => ingestJobs[j].state = "unused",
           \A q \in Runs \ {r} : T!HoldsPayload(ingestJobs, q) => T!HoldsPayload(ingestJobs, q)',
           workers'[w].step = "finished" => Closed(r)',
           \/ Closed(r)'
           \/ (Closed(r) => Closed(r)') /\ (HasHelp(r) => HasHelp(r)')
           \/ HasHelp(r)' /\ \A u \in Workers \ {w} : workers[u].step = "finished" => workers[u].run # r
    PROVE  JobsAreNamed' /\ FinishedIsClosed' /\ OpenHasHelp'
<1>1. workers[w].job \in JobIds /\ r \in Runs /\ \A u \in Workers : Working(u) => workers[u].run \in Runs
    BY DEF RunsAreKnown, Working, Known
<1>2. JobsAreNamed'
  <2>1. ingestJobs[workers[w].job].payload = r
    BY DEF JobsAreNamed
  <2>2. ASSUME NEW u \in Workers
        PROVE  \/ workers'[u].step = "idle"
               \/ /\ workers'[u].job \in JobIds
                  /\ ingestJobs[workers'[u].job].payload = workers'[u].run
    <3>1. CASE u = w
      BY <1>1, <2>1, <3>1
    <3>2. CASE u # w
      BY <3>2 DEF JobsAreNamed, RunsAreKnown, Working
    <3> QED BY <3>1, <3>2
  <2> QED BY <2>2, NamesStay
<1>3. ASSUME NEW q \in Runs \ {r}
      PROVE  (Closed(q) => Closed(q)') /\ (HasHelp(q) => HasHelp(q)')
  <2>1. ASSUME NEW u \in Workers, Closing(u, q) PROVE Closing(u, q)'
    BY <2>1 DEF Closing
  <2>2. Closed(q) => Closed(q)'
    BY <2>1 DEF Closed, Open
  <2>3. HasHelp(q) => HasHelp(q)'
    BY DEF HasHelp
  <2> QED BY <2>2, <2>3
<1>4. FinishedIsClosed'
  <2> SUFFICES ASSUME NEW u \in Workers, workers'[u].step = "finished"
               PROVE  Closed(workers[u].run)'
    BY DEF FinishedIsClosed
  <2>1. CASE u = w
    <3>1. workers'[u].run = r
      BY <2>1
    <3> QED BY <2>1, <3>1 DEF Closed, Closing, Open
  <2>2. CASE u # w
    <3>1. PICK q \in Runs : q = workers[u].run
      BY <1>1, <2>2 DEF Working
    <3>2. workers'[u].run = q /\ Closed(q)
      BY <2>2, <3>1 DEF FinishedIsClosed
    <3>3. Closed(q)'
      BY <1>3, <2>2, <3>1, <3>2
    <3> QED BY <3>2, <3>3 DEF Closed, Closing, Open
  <2> QED BY <2>1, <2>2
<1>5. OpenHasHelp'
  <2> SUFFICES ASSUME NEW q \in Runs PROVE Closed(q)' \/ HasHelp(q)'
    BY DEF OpenHasHelp
  <2> QED BY <1>3 DEF OpenHasHelp
<1> QED BY <1>2, <1>4, <1>5

LEMMA WorkerAlone ==
    ASSUME RunsTypeOK, RunsAreKnown, OneWorkerPerJob,
           NEW w \in Workers, Working(w), NEW j, j = workers[w].job,
           \A u \in Workers \ {w} : workers'[u] = workers[u],
           \/ ~Clean'
           \/ /\ UNCHANGED faults
              /\ \A k \in JobIds \ {j} : ingestJobs'[k].state = ingestJobs[k].state
              /\ \/ workers'[w].step = "idle"
                 \/ /\ workers'[w].job = j
                    /\ \/ /\ ingestJobs'[j].state = ingestJobs[j].state
                          /\ workers'[w].step # "buried" /\ workers[w].step # "buried"
                       \/ ingestJobs'[j].state = "gone" /\ workers'[w].step = "buried"
    PROVE  OneWorkerPerJob'
<1> SUFFICES ASSUME Clean' PROVE OneWorkerPerJob'
    BY DEF OneWorkerPerJob
<1>1. Clean
    BY DEF Clean
<1>2. \A u \in Workers \ {w} : Working(u) => workers[u].job \in JobIds \ {j}
    BY <1>1 DEF OneWorkerPerJob, RunsAreKnown, Working
<1>3. ASSUME NEW u \in Workers, Working(u)'
      PROVE  ingestJobs'[workers'[u].job].state = IF workers'[u].step = "buried" THEN "gone" ELSE "reserved"
  <2>1. CASE u = w
    BY <1>1, <1>3, <2>1 DEF OneWorkerPerJob, Working
  <2>2. CASE u # w
    <3>1. workers'[u] = workers[u] /\ Working(u) /\ workers[u].job \in JobIds \ {j}
      BY <1>2, <1>3, <2>2 DEF Working
    <3> QED BY <1>1, <3>1 DEF OneWorkerPerJob
  <2> QED BY <2>1, <2>2
<1>4. ASSUME NEW u \in Workers, NEW v \in Workers, Working(u)', Working(v)', workers'[u].job = workers'[v].job
      PROVE  u = v
  <2>1. CASE u = w /\ v = w
    BY <2>1
  <2>2. CASE u # w /\ v # w
    BY <1>1, <1>4, <2>2 DEF OneWorkerPerJob, Working
  <2>3. \A x \in Workers \ {w} : Working(x)' => workers'[x].job # j
    BY <1>2 DEF Working
  <2>4. Working(w)' => workers'[w].job = j
    BY DEF Working
  <2> QED BY <1>4, <2>1, <2>2, <2>3, <2>4
<1> QED BY <1>3, <1>4 DEF OneWorkerPerJob

\* A worker without trouble has its job, and nobody else works on the run.
LEMMA AloneOnRun ==
    ASSUME RunsTypeOK, RunsAreKnown, JobsAreNamed, OneWorkerPerJob, Clean,
           NEW w \in Workers, Working(w)
    PROVE  /\ workers[w].step # "buried" => T!HoldsPayload(ingestJobs, workers[w].run)
           /\ \A u \in Workers \ {w} : Working(u) => workers[u].run # workers[w].run
<1>1. workers[w].job \in JobIds /\ workers[w].run # NoRun /\ ingestJobs[workers[w].job].payload = workers[w].run
    BY RunConstants DEF RunsAreKnown, Working, Known, JobsAreNamed
<1>2. workers[w].step # "buried" => ingestJobs[workers[w].job].state = "reserved"
    BY DEF OneWorkerPerJob
<1>3. ASSUME NEW u \in Workers \ {w}, Working(u), workers[u].run = workers[w].run PROVE FALSE
  <2>1. workers[u].job \in JobIds /\ ingestJobs[workers[u].job].payload = workers[u].run
    BY <1>3 DEF RunsAreKnown, Working, JobsAreNamed
  <2>2. workers[u].job = workers[w].job
    BY <1>1, <1>3, <2>1 DEF JobsAreNamed
  <2> QED BY <1>3, <2>2 DEF OneWorkerPerJob
<1> QED BY <1>1, <1>2, <1>3 DEF T!HoldsPayload, T!Held, T!HeldStates

\* What becomes of the rows when one of them is written.
LEMMA StateWritten ==
    ASSUME ingestJobs \in T!JobTables, NEW j \in JobIds, NEW s \in T!JobStates,
           ingestJobs' = [ingestJobs EXCEPT ![j].state = s]
    PROVE  /\ ingestJobs'[j].state = s
           /\ \A k \in JobIds \ {j} : ingestJobs'[k].state = ingestJobs[k].state
           /\ \A k \in JobIds : ingestJobs'[k].payload = ingestJobs[k].payload
           /\ \A q : q # ingestJobs[j].payload /\ T!HoldsPayload(ingestJobs, q) => T!HoldsPayload(ingestJobs, q)'
           /\ s \in T!HeldStates =>
                 \A q : T!HoldsPayload(ingestJobs, q) => T!HoldsPayload(ingestJobs, q)'
<1>1. ingestJobs'[j] = [ingestJobs[j] EXCEPT !.state = s] /\ ingestJobs[j] \in T!JobRow
    BY DEF T!JobTables
<1>2. ingestJobs'[j].state = s /\ ingestJobs'[j].payload = ingestJobs[j].payload
    BY <1>1 DEF T!JobRow
<1>3. \A k \in JobIds \ {j} : ingestJobs'[k] = ingestJobs[k]
    BY DEF T!JobTables
<1>4. ASSUME NEW q, q # ingestJobs[j].payload \/ s \in T!HeldStates, T!HoldsPayload(ingestJobs, q)
      PROVE  T!HoldsPayload(ingestJobs, q)'
  <2>1. PICK k \in JobIds : T!Held(ingestJobs, k) /\ ingestJobs[k].payload = q
    BY <1>4 DEF T!HoldsPayload
  <2>2. T!Held(ingestJobs, k)' /\ ingestJobs'[k].payload = q
    BY <1>2, <1>3, <1>4, <2>1 DEF T!Held
  <2> QED BY <2>2 DEF T!HoldsPayload
<1> QED BY <1>2, <1>3, <1>4

LEMMA DeleteWritten ==
    ASSUME ingestJobs \in T!JobTables, NEW j \in JobIds, ingestJobs' = T!Delete(ingestJobs, j)
    PROVE  /\ ingestJobs'[j].state = "gone"
           /\ \A k \in JobIds \ {j} : ingestJobs'[k].state = ingestJobs[k].state
           /\ \A k \in JobIds : ingestJobs'[k].payload = ingestJobs[k].payload
           /\ \A q : q # ingestJobs[j].payload /\ T!HoldsPayload(ingestJobs, q) => T!HoldsPayload(ingestJobs, q)'
BY StateWritten DEF T!Delete, T!JobStates

LEMMA ReleaseWritten ==
    ASSUME ingestJobs \in T!JobTables, NEW j \in JobIds, ingestJobs' = T!Release(ingestJobs, j)
    PROVE  /\ ingestJobs'[j].state = "unused" => ingestJobs[j].state = "unused"
           /\ \A k \in JobIds \ {j} : ingestJobs'[k].state = ingestJobs[k].state
           /\ \A k \in JobIds : ingestJobs'[k].payload = ingestJobs[k].payload
           /\ \A q : T!HoldsPayload(ingestJobs, q) => T!HoldsPayload(ingestJobs, q)'
<1>1. CASE T!Held(ingestJobs, j)
    BY <1>1, StateWritten DEF T!Release, T!JobStates, T!HeldStates
<1>2. CASE ~T!Held(ingestJobs, j)
    BY <1>2 DEF T!Release, T!HoldsPayload, T!Held
<1> QED BY <1>1, <1>2

\* A write to the run a worker works on.
LEMMA RunEnds ==
    ASSUME runs \in [Runs -> RunStates], NEW r \in Runs, NEW s \in {"done", "failed"}, RunBecomes(r, s)
    PROVE  Closed(r)' /\ \A q \in Runs \ {r} : runs'[q] = runs[q]
BY DEF RunBecomes, Closed, Open, OpenStates

LEMMA HandlingTends ==
    ASSUME MaxFaults \in 0..1, RunsTypeOK, RunsAreKnown, TendInv,
           NEW w \in Workers, Handle(w) \/ WorkerDies(w)
    PROVE  TendInv'
<1>0. /\ runs \in [Runs -> RunStates] /\ ingestJobs \in T!JobTables /\ faults \in 0..MaxFaults
      /\ workers \in [Workers -> WorkerState]
      /\ JobsAreNamed /\ OneWorkerPerJob /\ FinishedIsClosed /\ OpenHasHelp
    BY DEF RunsTypeOK, TendInv
<1>1. Working(w)
    BY DEF Handle, OpenFailed, IngestNotFound, MarkIngestRunRunning, RunOnce, RunOnceFailed, WorkerDies,
           CompleteIngestRun, RunWriteFailed, DeleteRunJob, ReleaseRunJob, BuryRunJob, FailIngestRunForJob,
           Working
<1>2. PICK r, j : r = workers[w].run /\ j = workers[w].job
    OBVIOUS
<1>3. r \in Runs /\ j \in JobIds /\ ingestJobs[j].payload = r
    BY <1>0, <1>1, <1>2 DEF RunsAreKnown, Known, Working, JobsAreNamed
<1>4. ASSUME NEW s \in WorkerSteps, Step(w, s)
      PROVE  /\ workers'[w].step = s /\ workers'[w].job = j /\ workers'[w].run = r
             /\ \A u \in Workers \ {w} : workers'[u] = workers[u]
    BY <1>0, <1>2, <1>4 DEF Step, WorkerState
<1>5. ASSUME Rest(w)
      PROVE  workers'[w].step = "idle" /\ \A u \in Workers \ {w} : workers'[u] = workers[u]
    BY <1>0, <1>5, WorkerRests
<1>6. ASSUME UNCHANGED ingestJobs
      PROVE  /\ \A k \in JobIds : /\ ingestJobs'[k].payload = ingestJobs[k].payload
                                  /\ ingestJobs'[k].state = ingestJobs[k].state
             /\ \A q : T!HoldsPayload(ingestJobs, q) => T!HoldsPayload(ingestJobs, q)'
    BY <1>6 DEF T!HoldsPayload, T!Held
\* The worker goes on, or rests, without touching the job.
<1>7. ASSUME NEW s \in WorkerSteps \ {"idle", "finished", "buried"}, Step(w, s), workers[w].step # "buried",
             UNCHANGED <<ingestJobs, callers, lost>>, Fault \/ UNCHANGED faults,
             \A q \in Runs \ {r} : runs'[q] = runs[q],
             \/ Closed(r)'
             \/ workers[w].step = "taken" /\ UNCHANGED runs
             \/ Fault
      PROVE  TendInv'
  <2>1. OneWorkerPerJob'
      BY <1>0, <1>1, <1>2, <1>3, <1>4, <1>6, <1>7, WorkerAlone, FaultOnce
  <2>2. CASE Closed(r)'
    <3>1. JobsAreNamed' /\ FinishedIsClosed' /\ OpenHasHelp'
      BY <1>0, <1>1, <1>2, <1>4, <1>6, <1>7, <2>2, TendedByWorker
    <3> QED BY <2>1, <3>1 DEF TendInv
  <2>3. CASE workers[w].step = "taken" /\ UNCHANGED runs
    <3>1. \A u \in Workers : Closing(u, r) => Closing(u, r)'
      BY <1>4, <1>7, <2>3 DEF Closing
    <3>2. (Closed(r) => Closed(r)') /\ (HasHelp(r) => HasHelp(r)')
      BY <1>6, <1>7, <2>3, <3>1 DEF Closed, Open, HasHelp
    <3>3. JobsAreNamed' /\ FinishedIsClosed' /\ OpenHasHelp'
      BY <1>0, <1>1, <1>2, <1>4, <1>6, <1>7, <3>2, TendedByWorker
    <3> QED BY <2>1, <3>3 DEF TendInv
  <2>4. CASE Fault
    <3>1. Clean
      BY <1>0, <2>4, FaultOnce
    <3>2. /\ T!HoldsPayload(ingestJobs, r)
          /\ \A u \in Workers \ {w} : Working(u) => workers[u].run # r
      BY <1>0, <1>1, <1>2, <1>7, <3>1, AloneOnRun
    <3>3. HasHelp(r)' /\ \A u \in Workers \ {w} : workers[u].step = "finished" => workers[u].run # r
      BY <1>6, <1>7, <3>2 DEF HasHelp, Working
    <3>4. JobsAreNamed' /\ FinishedIsClosed' /\ OpenHasHelp'
      BY <1>0, <1>1, <1>2, <1>4, <1>6, <1>7, <3>3, TendedByWorker
    <3> QED BY <2>1, <3>4 DEF TendInv
  <2> QED BY <1>7, <2>2, <2>3, <2>4
<1>8. CASE OpenFailed(w)
    BY <1>7, <1>8 DEF OpenFailed, WorkerSteps
<1>9. CASE IngestNotFound(w)
  <2>1. CASE RunBecomes(r, "failed") /\ UNCHANGED faults
    BY <1>0, <1>3, <1>7, <1>9, <2>1, RunEnds DEF IngestNotFound, WorkerSteps
  <2>2. CASE Fault /\ UNCHANGED runs
    BY <1>7, <1>9, <2>2 DEF IngestNotFound, WorkerSteps
  <2> QED BY <1>2, <1>9, <2>1, <2>2 DEF IngestNotFound, FailRunOrIgnore
<1>10. CASE MarkIngestRunRunning(w)
  <2>1. Step(w, "running") /\ RunBecomes(r, "running")
    BY <1>2, <1>10 DEF MarkIngestRunRunning
  <2>2. Closing(w, r)' /\ \A q \in Runs \ {r} : runs'[q] = runs[q]
    BY <1>0, <1>4, <2>1 DEF Closing, WorkerSteps, RunBecomes
  <2>3. Closed(r)'
    BY <2>2 DEF Closed
  <2> QED BY <1>7, <1>10, <2>1, <2>2, <2>3 DEF MarkIngestRunRunning, WorkerSteps
<1>11. CASE RunOnce(w)
  <2>1. Closing(w, r)'
    BY <1>4, <1>11 DEF Closing, WorkerSteps, RunOnce
  <2>2. Closed(r)'
    BY <2>1 DEF Closed
  <2> QED BY <1>7, <1>11, <2>2 DEF RunOnce, WorkerSteps
<1>12. CASE RunOnceFailed(w)
  <2>1. CASE RunBecomes(r, "failed") /\ UNCHANGED faults
    BY <1>0, <1>3, <1>7, <1>12, <2>1, RunEnds DEF RunOnceFailed, WorkerSteps
  <2>2. CASE Fault /\ UNCHANGED runs
    BY <1>7, <1>12, <2>2 DEF RunOnceFailed, WorkerSteps
  <2> QED BY <1>2, <1>12, <2>1, <2>2 DEF RunOnceFailed, FailRunOrIgnore
<1>13. CASE CompleteIngestRun(w)
  <2>1. /\ RunBecomes(r, "done") /\ Step(w, "finished") /\ workers[w].step = "ingested"
        /\ UNCHANGED <<ingestJobs, callers, lost, faults>>
    BY <1>2, <1>13 DEF CompleteIngestRun
  <2>2. Closed(r)' /\ \A q \in Runs \ {r} : runs'[q] = runs[q]
    BY <1>0, <1>3, <2>1, RunEnds
  <2>3. /\ workers'[w].step = "finished" /\ workers'[w].job = j /\ workers'[w].run = r
        /\ \A u \in Workers \ {w} : workers'[u] = workers[u]
    BY <1>4, <2>1 DEF WorkerSteps
  <2>4. OneWorkerPerJob'
    BY <1>0, <1>1, <1>2, <1>3, <1>6, <2>1, <2>3, WorkerAlone
  <2>5. JobsAreNamed' /\ FinishedIsClosed' /\ OpenHasHelp'
    BY <1>0, <1>1, <1>2, <1>6, <2>1, <2>2, <2>3, TendedByWorker
  <2> QED BY <2>4, <2>5 DEF TendInv
<1>14. CASE RunWriteFailed(w)
    BY <1>7, <1>14 DEF RunWriteFailed, WorkerSteps
<1>15. CASE DeleteRunJob(w)
  <2>1. /\ workers[w].step = "finished" /\ ingestJobs' = T!Delete(ingestJobs, j) /\ Rest(w)
        /\ UNCHANGED <<runs, callers, lost, faults>>
    BY <1>2, <1>15 DEF DeleteRunJob
  <2>2. /\ ingestJobs'[j].state = "gone"
        /\ \A k \in JobIds \ {j} : ingestJobs'[k].state = ingestJobs[k].state
        /\ \A k \in JobIds : ingestJobs'[k].payload = ingestJobs[k].payload
        /\ \A q : q # r /\ T!HoldsPayload(ingestJobs, q) => T!HoldsPayload(ingestJobs, q)'
    BY <1>0, <1>3, <2>1, DeleteWritten
  <2>3. Closed(r)'
    <3>1. Closed(r)
      BY <1>0, <1>2, <2>1 DEF FinishedIsClosed
    <3>2. \A u \in Workers : Closing(u, r) => Closing(u, r)'
      BY <1>5, <2>1 DEF Closing
    <3> QED BY <2>1, <3>1, <3>2 DEF Closed, Open
  <2>4. OneWorkerPerJob'
    BY <1>0, <1>1, <1>2, <1>5, <2>1, <2>2, WorkerAlone
  <2>5. JobsAreNamed' /\ FinishedIsClosed' /\ OpenHasHelp'
    BY <1>0, <1>1, <1>2, <1>5, <2>1, <2>2, <2>3, TendedByWorker
  <2> QED BY <2>4, <2>5 DEF TendInv
<1>16. CASE ReleaseRunJob(w)
  <2>1. /\ workers[w].step = "erred" /\ ingestJobs' = T!Release(ingestJobs, j) /\ Rest(w)
        /\ UNCHANGED <<runs, callers, lost, faults>>
    BY <1>2, <1>16 DEF ReleaseRunJob
  <2>2. /\ ingestJobs'[j].state = "unused" => ingestJobs[j].state = "unused"
        /\ \A k \in JobIds \ {j} : ingestJobs'[k].state = ingestJobs[k].state
        /\ \A k \in JobIds : ingestJobs'[k].payload = ingestJobs[k].payload
        /\ \A q : T!HoldsPayload(ingestJobs, q) => T!HoldsPayload(ingestJobs, q)'
    BY <1>0, <1>3, <2>1, ReleaseWritten
  <2>3. \A u \in Workers : Closing(u, r) => Closing(u, r)'
    BY <1>5, <2>1 DEF Closing
  <2>4. (Closed(r) => Closed(r)') /\ (HasHelp(r) => HasHelp(r)')
    BY <2>1, <2>2, <2>3 DEF Closed, Open, HasHelp
  <2>5. OneWorkerPerJob'
    BY <1>0, <1>1, <1>2, <1>5, <2>1, <2>2, WorkerAlone
  <2>6. JobsAreNamed' /\ FinishedIsClosed' /\ OpenHasHelp'
    BY <1>0, <1>1, <1>2, <1>5, <2>1, <2>2, <2>4, TendedByWorker
  <2> QED BY <2>5, <2>6 DEF TendInv
<1>17. CASE BuryRunJob(w)
  <2>1. /\ workers[w].step = "erred" /\ ingestJobs' = T!Delete(ingestJobs, j) /\ Step(w, "buried")
        /\ UNCHANGED <<runs, callers, lost, faults>>
    BY <1>2, <1>17 DEF BuryRunJob
  <2>2. /\ ingestJobs'[j].state = "gone"
        /\ \A k \in JobIds \ {j} : ingestJobs'[k].state = ingestJobs[k].state
        /\ \A k \in JobIds : ingestJobs'[k].payload = ingestJobs[k].payload
        /\ \A q : q # r /\ T!HoldsPayload(ingestJobs, q) => T!HoldsPayload(ingestJobs, q)'
    BY <1>0, <1>3, <2>1, DeleteWritten
  <2>3. /\ workers'[w].step = "buried" /\ workers'[w].job = j /\ workers'[w].run = r
        /\ \A u \in Workers \ {w} : workers'[u] = workers[u]
    BY <1>4, <2>1 DEF WorkerSteps
  <2>4. Closing(w, r)'
    BY <2>3 DEF Closing
  <2>5. Closed(r)'
    BY <2>4 DEF Closed
  <2>6. OneWorkerPerJob'
    BY <1>0, <1>1, <1>2, <2>1, <2>2, <2>3, WorkerAlone
  <2>7. JobsAreNamed' /\ FinishedIsClosed' /\ OpenHasHelp'
    BY <1>0, <1>1, <1>2, <2>1, <2>2, <2>3, <2>5, TendedByWorker
  <2> QED BY <2>6, <2>7 DEF TendInv
\* OnFailed, and a worker that dies: the job is as it was and the worker rests.
<1>18. ASSUME Rest(w), UNCHANGED <<ingestJobs, callers>>, lost \subseteq lost', Fault \/ UNCHANGED faults,
              \A q \in Runs \ {r} : runs'[q] = runs[q],
              Closed(r)' \/ (Fault /\ workers[w].step # "buried")
       PROVE  TendInv'
  <2>1. OneWorkerPerJob'
    BY <1>0, <1>1, <1>2, <1>5, <1>6, <1>18, WorkerAlone, FaultOnce
  <2>2. CASE Closed(r)'
    <3>1. JobsAreNamed' /\ FinishedIsClosed' /\ OpenHasHelp'
      BY <1>0, <1>1, <1>2, <1>5, <1>6, <1>18, <2>2, TendedByWorker
    <3> QED BY <2>1, <3>1 DEF TendInv
  <2>3. CASE Fault /\ workers[w].step # "buried"
    <3>1. Clean
      BY <1>0, <2>3, FaultOnce
    <3>2. /\ T!HoldsPayload(ingestJobs, r)
          /\ \A u \in Workers \ {w} : Working(u) => workers[u].run # r
      BY <1>0, <1>1, <1>2, <2>3, <3>1, AloneOnRun
    <3>3. HasHelp(r)' /\ \A u \in Workers \ {w} : workers[u].step = "finished" => workers[u].run # r
      BY <1>6, <1>18, <3>2 DEF HasHelp, Working
    <3>4. JobsAreNamed' /\ FinishedIsClosed' /\ OpenHasHelp'
      BY <1>0, <1>1, <1>2, <1>5, <1>6, <1>18, <3>3, TendedByWorker
    <3> QED BY <2>1, <3>4 DEF TendInv
  <2> QED BY <1>18, <2>2, <2>3
<1>19. CASE FailIngestRunForJob(w)
  <2>1. CASE RunBecomes(r, "failed") /\ UNCHANGED <<lost, faults>>
    BY <1>0, <1>3, <1>18, <1>19, <2>1, RunEnds DEF FailIngestRunForJob
  <2>2. CASE (Fault \/ UNCHANGED faults) /\ lost' = lost \cup {r} /\ UNCHANGED runs
    <3>1. Closed(r)'
      BY <2>2 DEF Closed
    <3> QED BY <1>18, <1>19, <2>2, <3>1 DEF FailIngestRunForJob
  <2> QED BY <1>2, <1>19, <2>1, <2>2 DEF FailIngestRunForJob
<1>20. CASE WorkerDies(w)
  <2>1. /\ Rest(w) /\ Fault /\ UNCHANGED <<runs, ingestJobs, callers>> /\ lost \subseteq lost'
        /\ workers[w].step = "buried" => r \in lost'
    BY <1>2, <1>20 DEF WorkerDies
  <2>2. workers[w].step = "buried" => Closed(r)'
    BY <2>1 DEF Closed
  <2> QED BY <1>18, <2>1, <2>2
<1> QED BY <1>8, <1>9, <1>10, <1>11, <1>12, <1>13, <1>14, <1>15, <1>16, <1>17, <1>19, <1>20 DEF Handle

\* What leaves runs, workers and callers alone, and perhaps uses up the fault.
LEMMA NobodyMoves ==
    ASSUME TendInv, UNCHANGED <<runs, workers, callers, lost>>, UNCHANGED ingestJobs,
           UNCHANGED faults \/ ~Clean'
    PROVE  TendInv'
<1>1. \A r : HasHelp(r)' <=> HasHelp(r)
    BY DEF HasHelp, T!HoldsPayload, T!Held
<1>2. \A r : Closed(r)' <=> Closed(r)
    BY DEF Closed, Open, Closing
<1>3. JobsAreNamed' /\ OpenHasHelp'
    BY <1>1, <1>2 DEF TendInv, JobsAreNamed, OpenHasHelp, Working
<1>4. FinishedIsClosed'
  <2> SUFFICES ASSUME NEW w \in Workers, workers[w].step = "finished" PROVE Closed(workers[w].run)'
    BY DEF FinishedIsClosed
  <2>1. PICK r : r = workers[w].run /\ Closed(r)
    BY DEF TendInv, FinishedIsClosed
  <2> QED BY <1>2, <2>1 DEF Closed, Open, Closing
<1>5. OneWorkerPerJob'
    BY DEF TendInv, OneWorkerPerJob, Clean, Working
<1> QED BY <1>3, <1>4, <1>5 DEF TendInv

LEMMA PoppingTends ==
    ASSUME RunsTypeOK, RunsAreKnown, TendInv, NEW w \in Workers, NEW j \in JobIds, PopRun(w, j)
    PROVE  TendInv'
<1>0. /\ ingestJobs \in T!JobTables /\ workers \in [Workers -> WorkerState]
      /\ JobsAreNamed /\ OneWorkerPerJob /\ FinishedIsClosed /\ OpenHasHelp
    BY DEF RunsTypeOK, TendInv
<1>1. /\ workers[w].step = "idle" /\ ingestJobs[j].state \in {"ready", "lapsed"}
      /\ UNCHANGED <<runs, callers, lost, faults>> /\ ingestJobs' = T!Pop(ingestJobs, j)
    BY DEF PopRun, T!Poppable
<1>2. /\ ingestJobs'[j].state = "reserved" /\ ingestJobs'[j].payload = ingestJobs[j].payload
      /\ \A k \in JobIds \ {j} : ingestJobs'[k] = ingestJobs[k]
    BY <1>0, <1>1 DEF T!Pop, T!JobTables
<1>3. /\ workers'[w].step = "taken" /\ workers'[w].job = j /\ workers'[w].run = ingestJobs[j].payload
      /\ \A u \in Workers \ {w} : workers'[u] = workers[u]
    BY <1>0 DEF PopRun
<1>4. JobsAreNamed'
  <2>1. ASSUME NEW u \in Workers
        PROVE  \/ workers'[u].step = "idle"
               \/ /\ workers'[u].job \in JobIds
                  /\ ingestJobs[workers'[u].job].payload = workers'[u].run
    <3>1. CASE u = w
      BY <1>3, <3>1
    <3>2. CASE u # w
      BY <1>0, <1>3, <3>2 DEF JobsAreNamed, RunsAreKnown, Working
    <3> QED BY <3>1, <3>2
  <2> QED BY <1>0, <1>1, <1>2, <2>1, NamesStay
<1>5. OneWorkerPerJob'
  <2> SUFFICES ASSUME Clean' PROVE OneWorkerPerJob'
    BY DEF OneWorkerPerJob
  <2>1. \A u \in Workers : Working(u) => workers[u].job \in JobIds \ {j}
    BY <1>0, <1>1 DEF OneWorkerPerJob, RunsAreKnown, Working, Clean
  <2>2. ASSUME NEW u \in Workers, Working(u)'
        PROVE  ingestJobs'[workers'[u].job].state = IF workers'[u].step = "buried" THEN "gone" ELSE "reserved"
    <3>1. CASE u = w
      BY <1>2, <1>3, <3>1
    <3>2. CASE u # w
      <4>1. Working(u) /\ workers'[u] = workers[u]
        BY <1>3, <2>2, <3>2 DEF Working
      <4>2. ingestJobs[workers[u].job].state = IF workers[u].step = "buried" THEN "gone" ELSE "reserved"
        BY <1>0, <1>1, <4>1 DEF OneWorkerPerJob, Clean
      <4> QED BY <1>2, <2>1, <4>1, <4>2
    <3> QED BY <3>1, <3>2
  <2>3. ASSUME NEW u \in Workers, NEW v \in Workers, Working(u)', Working(v)', workers'[u].job = workers'[v].job
        PROVE  u = v
    <3>1. \A x \in Workers \ {w} : Working(x)' => workers'[x] = workers[x] /\ Working(x) /\ workers'[x].job # j
      BY <1>3, <2>1 DEF Working
    <3>2. CASE u # w /\ v # w
      BY <1>0, <1>1, <2>3, <3>1, <3>2 DEF OneWorkerPerJob, Clean
    <3> QED BY <1>3, <2>3, <3>1, <3>2
  <2> QED BY <2>2, <2>3 DEF OneWorkerPerJob
<1>6. \A r : Closed(r) => Closed(r)'
  <2>1. \A r, u : u \in Workers /\ Closing(u, r) => Closing(u, r)'
    BY <1>1, <1>3 DEF Closing
  <2> QED BY <1>1, <2>1 DEF Closed, Open
<1>7. \A r : HasHelp(r) => HasHelp(r)'
  <2>1. \A k \in JobIds : T!Held(ingestJobs, k) => T!Held(ingestJobs, k)' /\ ingestJobs'[k].payload = ingestJobs[k].payload
    BY <1>2 DEF T!Held, T!HeldStates
  <2> QED BY <1>1, <2>1 DEF HasHelp, T!HoldsPayload
<1>8. FinishedIsClosed'
  <2> SUFFICES ASSUME NEW u \in Workers, workers'[u].step = "finished" PROVE Closed(workers[u].run)'
    BY DEF FinishedIsClosed
  <2>1. u # w /\ workers'[u] = workers[u]
    BY <1>3
  <2>2. PICK r : r = workers[u].run /\ Closed(r)
    BY <1>0, <2>1 DEF FinishedIsClosed
  <2> QED BY <1>6, <2>1, <2>2 DEF Closed, Open, Closing
<1>9. OpenHasHelp'
    BY <1>0, <1>6, <1>7 DEF OpenHasHelp
<1> QED BY <1>4, <1>5, <1>8, <1>9 DEF TendInv

LEMMA LapsingTends ==
    ASSUME MaxFaults \in 0..1, RunsTypeOK, RunsAreKnown, TendInv, NEW j \in JobIds, LapseRunJob(j)
    PROVE  TendInv'
<1>0. /\ ingestJobs \in T!JobTables /\ faults \in 0..MaxFaults
      /\ JobsAreNamed /\ OneWorkerPerJob /\ FinishedIsClosed /\ OpenHasHelp
    BY DEF RunsTypeOK, TendInv
<1>1. /\ UNCHANGED <<runs, workers, callers, lost>>
      /\ ingestJobs' = [ingestJobs EXCEPT ![j].state = "lapsed"]
      /\ IF Busy(j) THEN Fault ELSE UNCHANGED faults
    BY DEF LapseRunJob, T!Lapse
<1>2. /\ ingestJobs'[j].state = "lapsed"
      /\ \A k \in JobIds \ {j} : ingestJobs'[k].state = ingestJobs[k].state
      /\ \A k \in JobIds : ingestJobs'[k].payload = ingestJobs[k].payload
      /\ \A q : T!HoldsPayload(ingestJobs, q) => T!HoldsPayload(ingestJobs, q)'
    BY <1>0, <1>1, StateWritten DEF T!JobStates, T!HeldStates
<1>3. JobsAreNamed'
  <2>1. \A u \in Workers : \/ workers'[u].step = "idle"
                           \/ /\ workers'[u].job \in JobIds
                              /\ ingestJobs[workers'[u].job].payload = workers'[u].run
    BY <1>0, <1>1 DEF JobsAreNamed, RunsAreKnown, Working
  <2> QED BY <1>0, <1>1, <1>2, <2>1, NamesStay
<1>4. OneWorkerPerJob'
  <2>1. CASE Busy(j)
    BY <1>0, <1>1, <2>1, FaultOnce DEF OneWorkerPerJob
  <2>2. CASE ~Busy(j)
    <3>1. \A u \in Workers : Working(u) => workers[u].job \in JobIds \ {j}
      BY <2>2 DEF Busy, Working, RunsAreKnown
    <3>2. \A u \in Workers : (Working(u)' <=> Working(u)) /\ workers'[u] = workers[u]
      BY <1>1 DEF Working
    <3>3. \A u \in Workers : Working(u) => ingestJobs'[workers[u].job].state = ingestJobs[workers[u].job].state
      BY <1>2, <3>1
    <3>4. Clean' <=> Clean
      BY <1>1, <2>2 DEF Clean
    <3> QED BY <1>0, <3>2, <3>3, <3>4 DEF OneWorkerPerJob
  <2> QED BY <2>1, <2>2
<1>5. \A r : (Closed(r)' <=> Closed(r)) /\ (HasHelp(r) => HasHelp(r)')
  <2>1. \A r : Closed(r)' <=> Closed(r)
    BY <1>1 DEF Closed, Open, Closing
  <2> QED BY <1>1, <1>2, <2>1 DEF HasHelp
<1>6. FinishedIsClosed'
  <2> SUFFICES ASSUME NEW u \in Workers, workers[u].step = "finished" PROVE Closed(workers[u].run)'
    BY <1>1 DEF FinishedIsClosed
  <2>1. PICK r : r = workers[u].run /\ Closed(r)
    BY <1>0 DEF FinishedIsClosed
  <2> QED BY <1>1, <1>5, <2>1 DEF Closed, Open, Closing
<1>7. OpenHasHelp'
    BY <1>0, <1>5 DEF OpenHasHelp
<1> QED BY <1>3, <1>4, <1>6, <1>7 DEF TendInv

\* A run that nobody named before is created, or comes to an end or is lost.
LEMMA NewRunIsNobodys ==
    ASSUME RunsTypeOK, RunsAreKnown, NEW r \in Runs, runs[r] = "none"
    PROVE  /\ \A j \in JobIds : ingestJobs[j].payload # r
           /\ \A w \in Workers : Working(w) => workers[w].run # r
           /\ \A c \in Callers : callers[c] # r
BY RunConstants DEF RunsAreKnown, Known, Working

\* A run is written by no worker: the others keep whoever tends them.
LEMMA ClosedByWorkers ==
    ASSUME RunsTypeOK, RunsAreKnown, FinishedIsClosed, NEW r \in Runs, UNCHANGED workers, lost \subseteq lost',
           \A q \in Runs \ {r} : runs'[q] = runs[q],
           \/ Closed(r)' \/ UNCHANGED runs
           \/ \A w \in Workers : Working(w) => workers[w].run # r
    PROVE  /\ \A q \in Runs \ {r} : Closed(q) => Closed(q)'
           /\ FinishedIsClosed'
<1>1. \A q, u : Closing(u, q)' <=> Closing(u, q)
    BY DEF Closing
<1>2. \A q \in Runs \ {r} : Closed(q) => Closed(q)'
    BY <1>1 DEF Closed, Open
<1>3. FinishedIsClosed'
  <2> SUFFICES ASSUME NEW u \in Workers, workers[u].step = "finished" PROVE Closed(workers[u].run)'
    BY DEF FinishedIsClosed
  <2>1. PICK q \in Runs : q = workers[u].run /\ Closed(q) /\ Working(u)
    BY DEF FinishedIsClosed, RunsAreKnown, Known, Working
  <2>2. Closed(q)'
    BY <1>1, <1>2, <2>1 DEF Closed, Open
  <2> QED BY <2>1, <2>2 DEF Closed, Open, Closing
<1> QED BY <1>2, <1>3

LEMMA CreatingTends ==
    ASSUME RunsTypeOK, RunsAreKnown, TendInv, NEW c \in Callers, NEW r \in Runs, CreateIngestRun(c, r)
    PROVE  TendInv'
<1>0. /\ runs \in [Runs -> RunStates] /\ callers \in [Callers -> Runs \cup {NoRun}]
      /\ JobsAreNamed /\ OneWorkerPerJob /\ FinishedIsClosed /\ OpenHasHelp
    BY DEF RunsTypeOK, TendInv
<1>1. /\ callers[c] = NoRun /\ runs[r] = "none" /\ UNCHANGED <<ingestJobs, workers, lost, faults>>
      /\ callers' = [callers EXCEPT ![c] = r] /\ \A q \in Runs \ {r} : runs'[q] = runs[q]
    BY <1>0 DEF CreateIngestRun, RunBecomes
<1>2. /\ \A j \in JobIds : ingestJobs[j].payload # r
      /\ \A w \in Workers : Working(w) => workers[w].run # r
      /\ \A d \in Callers : callers[d] # r
    BY <1>1, NewRunIsNobodys
<1>3. callers'[c] = r /\ \A d \in Callers \ {c} : callers'[d] = callers[d]
    BY <1>0, <1>1
<1>4. JobsAreNamed'
  <2>1. \A d \in Callers, j \in JobIds : callers'[d] # NoRun => ingestJobs'[j].payload # callers'[d]
    BY <1>0, <1>1, <1>2, <1>3 DEF JobsAreNamed
  <2>2. \A d, e \in Callers : callers'[d] = callers'[e] /\ callers'[d] # NoRun => d = e
    BY <1>0, <1>2, <1>3 DEF JobsAreNamed
  <2> QED BY <1>0, <1>1, <2>1, <2>2 DEF JobsAreNamed, Working
<1>5. OneWorkerPerJob'
    BY <1>0, <1>1 DEF OneWorkerPerJob, Working, Clean
<1>6. FinishedIsClosed' /\ \A q \in Runs \ {r} : Closed(q) => Closed(q)'
    BY <1>0, <1>1, <1>2, ClosedByWorkers
<1>7. OpenHasHelp'
  <2> SUFFICES ASSUME NEW q \in Runs PROVE Closed(q)' \/ HasHelp(q)'
    BY DEF OpenHasHelp
  <2>1. CASE q = r
    BY <1>3, <2>1 DEF HasHelp
  <2>2. CASE q # r
    <3>1. HasHelp(q) => HasHelp(q)'
      <4>1. T!HoldsPayload(ingestJobs, q)' <=> T!HoldsPayload(ingestJobs, q)
        BY <1>1 DEF T!HoldsPayload, T!Held
      <4>2. \A d \in Callers : callers[d] = q => callers'[d] = q
        BY <1>1, <1>3, RunConstants
      <4> QED BY <4>1, <4>2 DEF HasHelp
    <3> QED BY <1>0, <1>6, <2>2, <3>1 DEF OpenHasHelp
  <2> QED BY <2>1, <2>2
<1> QED BY <1>4, <1>5, <1>6, <1>7 DEF TendInv

LEMMA PushingTends ==
    ASSUME RunsTypeOK, RunsAreKnown, TendInv, NEW r \in Runs, NEW j \in T!FreshIds(ingestJobs),
           ingestJobs' = T!Push(ingestJobs, j, r), UNCHANGED <<workers, lost, faults>>,
           \A k \in JobIds : ingestJobs[k].payload # r,
           \A d \in Callers : callers'[d] # r /\ (callers[d] = r \/ callers'[d] = callers[d]),
           \A d \in Callers : callers'[d] = callers[d] \/ callers'[d] = NoRun,
           \/ UNCHANGED runs
           \/ /\ \A q \in Runs \ {r} : runs'[q] = runs[q]
              /\ \A w \in Workers : Working(w) => workers[w].run # r
    PROVE  TendInv'
<1>0. /\ ingestJobs \in T!JobTables
      /\ JobsAreNamed /\ OneWorkerPerJob /\ FinishedIsClosed /\ OpenHasHelp
    BY DEF RunsTypeOK, TendInv
<1>1. j \in JobIds /\ ingestJobs[j].state = "unused" /\ ingestJobs[j].payload = NoRun
    BY <1>0 DEF T!FreshIds, JobsAreNamed
<1>2. /\ ingestJobs'[j].state = "ready" /\ ingestJobs'[j].payload = r
      /\ \A k \in JobIds \ {j} : ingestJobs'[k] = ingestJobs[k]
    BY <1>0, <1>1 DEF T!Push, T!JobTables
<1>3. \A w \in Workers : Working(w) => workers[w].job \in JobIds \ {j}
    BY <1>0, <1>1, RunConstants DEF RunsAreKnown, Working, Known, JobsAreNamed
<1>4. JobsAreNamed'
  <2>1. \A k \in JobIds : ingestJobs'[k].state = "unused" => ingestJobs'[k].payload = NoRun
    BY <1>0, <1>2 DEF JobsAreNamed
  <2>2. \A k, l \in JobIds :
            ingestJobs'[k].payload = ingestJobs'[l].payload /\ ingestJobs'[k].payload # NoRun => k = l
    BY <1>0, <1>2 DEF JobsAreNamed
  <2>3. \A d \in Callers, k \in JobIds : callers'[d] # NoRun => ingestJobs'[k].payload # callers'[d]
    BY <1>0, <1>2 DEF JobsAreNamed
  <2>4. \A d, e \in Callers : callers'[d] = callers'[e] /\ callers'[d] # NoRun => d = e
    BY <1>0 DEF JobsAreNamed
  <2>5. \A w \in Workers : Working(w)' => ingestJobs'[workers'[w].job].payload = workers'[w].run
    BY <1>0, <1>2, <1>3 DEF JobsAreNamed, Working
  <2> QED BY <2>1, <2>2, <2>3, <2>4, <2>5 DEF JobsAreNamed
<1>5. OneWorkerPerJob'
  <2> SUFFICES ASSUME Clean' PROVE OneWorkerPerJob'
    BY DEF OneWorkerPerJob
  <2>1. Clean /\ \A w \in Workers : Working(w)' <=> Working(w)
    BY DEF Clean, Working
  <2>2. \A w \in Workers : Working(w) =>
            ingestJobs'[workers[w].job].state = IF workers[w].step = "buried" THEN "gone" ELSE "reserved"
    BY <1>0, <1>2, <1>3, <2>1 DEF OneWorkerPerJob
  <2> QED BY <1>0, <2>1, <2>2 DEF OneWorkerPerJob
<1>6. FinishedIsClosed' /\ \A q \in Runs \ {r} : Closed(q) => Closed(q)'
    BY <1>0, ClosedByWorkers
<1>7. T!HoldsPayload(ingestJobs, r)'
    BY <1>1, <1>2 DEF T!HoldsPayload, T!Held, T!HeldStates
<1>8. OpenHasHelp'
  <2> SUFFICES ASSUME NEW q \in Runs PROVE Closed(q)' \/ HasHelp(q)'
    BY DEF OpenHasHelp
  <2>1. CASE q = r
    BY <1>7, <2>1 DEF HasHelp
  <2>2. CASE q # r
    <3>1. T!HoldsPayload(ingestJobs, q) => T!HoldsPayload(ingestJobs, q)'
      BY <1>1, <1>2 DEF T!HoldsPayload, T!Held, T!HeldStates
    <3>2. HasHelp(q) => HasHelp(q)'
      BY <2>2, <3>1 DEF HasHelp
    <3> QED BY <1>0, <1>6, <2>2, <3>2 DEF OpenHasHelp
  <2> QED BY <2>1, <2>2
<1> QED BY <1>4, <1>5, <1>6, <1>8 DEF TendInv

LEMMA CallersTend ==
    ASSUME MaxFaults \in 0..1, RunsTypeOK, RunsAreKnown, TendInv, NEW c \in Callers, Call(c)
    PROVE  TendInv'
<1>0. /\ runs \in [Runs -> RunStates] /\ callers \in [Callers -> Runs \cup {NoRun}]
      /\ faults \in 0..MaxFaults
      /\ JobsAreNamed /\ OneWorkerPerJob /\ FinishedIsClosed /\ OpenHasHelp
    BY DEF RunsTypeOK, TendInv
<1>1. CASE PushRun(c)
  <2>1. PICK r \in Runs : r = callers[c]
    BY <1>0, <1>1 DEF PushRun
  <2>2. PICK j \in T!FreshIds(ingestJobs) : ingestJobs' = T!Push(ingestJobs, j, r)
    BY <1>1, <2>1 DEF PushRun
  <2>3. /\ callers' = [callers EXCEPT ![c] = NoRun]
        /\ UNCHANGED <<runs, workers, lost, faults>>
    BY <1>1 DEF PushRun
  <2>4. \A k \in JobIds : ingestJobs[k].payload # r
    BY <1>0, <2>1, RunConstants DEF JobsAreNamed
  <2>5. \A d \in Callers : callers'[d] # r /\ (callers[d] = r \/ callers'[d] = callers[d])
                           /\ (callers'[d] = callers[d] \/ callers'[d] = NoRun)
    BY <1>0, <2>1, <2>3, RunConstants DEF JobsAreNamed
  <2> QED BY <2>2, <2>3, <2>4, <2>5, PushingTends
<1>2. CASE PushFailed(c) \/ CallerDies(c)
  <2>1. PICK r \in Runs : r = callers[c]
    BY <1>0, <1>2 DEF PushFailed, CallerDies
  <2>2. /\ callers' = [callers EXCEPT ![c] = NoRun] /\ UNCHANGED <<ingestJobs, workers>>
        /\ Fault /\ lost \subseteq lost'
    BY <1>2 DEF PushFailed, CallerDies
  <2>3. Closed(r)' /\ \A q \in Runs \ {r} : runs'[q] = runs[q]
    <3>1. CASE PushFailed(c)
      <4>1. RunBecomes(r, "failed")
        BY <2>1, <3>1 DEF PushFailed
      <4> QED BY <1>0, <4>1, RunEnds
    <3>2. CASE CallerDies(c)
      BY <2>1, <3>2 DEF CallerDies, Closed
    <3> QED BY <1>2, <3>1, <3>2
  <2>4. ~Clean'
    BY <1>0, <2>2, FaultOnce
  <2>5. OneWorkerPerJob'
    BY <2>4 DEF OneWorkerPerJob
  <2>6. FinishedIsClosed' /\ \A q \in Runs \ {r} : Closed(q) => Closed(q)'
    BY <1>0, <2>2, <2>3, ClosedByWorkers
  <2>7. JobsAreNamed'
    <3>1. \A d \in Callers : callers'[d] = callers[d] \/ callers'[d] = NoRun
      BY <1>0, <2>2
    <3>2. \A u \in Workers : \/ workers'[u].step = "idle"
                             \/ /\ workers'[u].job \in JobIds
                                /\ ingestJobs[workers'[u].job].payload = workers'[u].run
      BY <1>0, <2>2 DEF JobsAreNamed, RunsAreKnown, Working
    <3> QED BY <1>0, <2>2, <3>1, <3>2, NamesStay
  <2>8. OpenHasHelp'
    <3> SUFFICES ASSUME NEW q \in Runs, q # r PROVE Closed(q)' \/ HasHelp(q)'
      BY <2>3 DEF OpenHasHelp
    <3>1. T!HoldsPayload(ingestJobs, q)' <=> T!HoldsPayload(ingestJobs, q)
      BY <2>2 DEF T!HoldsPayload, T!Held
    <3>2. \A d \in Callers : callers[d] = q => callers'[d] = q
      BY <1>0, <2>1, <2>2
    <3>3. HasHelp(q) => HasHelp(q)'
      BY <3>1, <3>2 DEF HasHelp
    <3> QED BY <1>0, <2>6, <3>3 DEF OpenHasHelp
  <2> QED BY <2>5, <2>6, <2>7, <2>8 DEF TendInv
<1> QED BY <1>1, <1>2, CreatingTends DEF Call

LEMMA DispatchingTends ==
    ASSUME RunsTypeOK, RunsAreKnown, TendInv, NEW e \in Engines, DispatchFire(e)
    PROVE  TendInv'
<1>0. runs \in [Runs -> RunStates]
    BY DEF RunsTypeOK
<1>1. UNCHANGED <<workers, callers, lost, faults>>
    BY DEF DispatchFire
<1>2. CASE dispatches[engines[e].at] # NoRun
  <2>1. UNCHANGED <<runs, ingestJobs>>
    BY <1>2 DEF DispatchFire
  <2> QED BY <1>1, <2>1, NobodyMoves
<1>3. CASE dispatches[engines[e].at] = NoRun
  <2>1. PICK r \in Runs, j \in T!FreshIds(ingestJobs) :
            runs[r] = "none" /\ RunBecomes(r, "queued") /\ ingestJobs' = T!Push(ingestJobs, j, r)
    BY <1>3 DEF DispatchFire
  <2>2. /\ \A k \in JobIds : ingestJobs[k].payload # r
        /\ \A w \in Workers : Working(w) => workers[w].run # r
        /\ \A c \in Callers : callers[c] # r
    BY <2>1, NewRunIsNobodys
  <2>3. \A q \in Runs \ {r} : runs'[q] = runs[q]
    BY <1>0, <2>1 DEF RunBecomes
  <2> QED BY <1>1, <2>1, <2>2, <2>3, PushingTends
<1> QED BY <1>2, <1>3

LEMMA NextTends ==
    ASSUME MaxFaults \in 0..1, RunsTypeOK, RunsAreKnown, TendInv, [RuntimeNext]_runtimeVars
    PROVE  TendInv'
<1>1. CASE RunsStep
    BY <1>1, CallersTend, HandlingTends, PoppingTends, LapsingTends DEF RunsStep, Work
<1>2. CASE EditConfig
    BY <1>2, NobodyMoves DEF EditConfig
<1>3. ASSUME NEW e \in Engines, DispatchRefused(e) \/ EngineDies(e) PROVE TendInv'
  <2>1. /\ UNCHANGED <<runs, ingestJobs, workers, callers, lost>>
        /\ Fault \/ UNCHANGED faults
    BY <1>3 DEF DispatchRefused, EngineDies
  <2> QED BY <2>1, NobodyMoves, FaultOnce DEF RunsTypeOK
<1>4. ASSUME UNCHANGED runVars PROVE TendInv'
    BY <1>4, NobodyMoves DEF runVars
<1>5. ASSUME NEW e \in Engines,
             \/ CreateFire(e) \/ TransitionFire(e) \/ ListDueSchedules(e)
             \/ \E t \in Ticks : ClaimFire(e, t)
      PROVE  TendInv'
    BY <1>4, <1>5 DEF CreateFire, TransitionFire, ListDueSchedules, ClaimFire
<1>6. CASE Tick \/ CreateSchedule \/ (\E t \in Ticks : LapseClaim(t)) \/ \E d \in Editors : Edit(d)
    BY <1>4, <1>6 DEF Tick, CreateSchedule, LapseClaim, Edit, ReadForUpdate, UpdateSchedule, DeleteSchedule
<1>7. CASE UNCHANGED runtimeVars
    BY <1>4, <1>7 DEF runtimeVars, fireVars
<1> QED BY <1>1, <1>2, <1>3, <1>5, <1>6, <1>7, DispatchingTends DEF RuntimeNext, RuntimeStep, Engine, Handover

(***************************************************************************)
(* As long as only one thing goes wrong, a run that says it is queued or   *)
(* running has a caller, a job or a worker that will bring it to an end,   *)
(* unless it is one of those the property excepts: however many workers    *)
(* there are, however often a job is tried and whoever else edits the      *)
(* config, and although no update of the row looks at the row              *)
(* (EnqueueIngestRun, ExecuteIngestRun, failIngestRunForJob).              *)
(***************************************************************************)
THEOREM RunsAreTended == ASSUME MaxFaults \in 0..1 PROVE RuntimeSpec => []OpenRunIsTended
<1> DEFINE Inv == FiresTypeOK /\ PairInv /\ TendInv
<1>1. RuntimeInit => Inv
    BY InitTypes, PairsStart, TendStarts DEF RuntimeInit
<1>2. Inv /\ [RuntimeNext]_runtimeVars => Inv'
    BY NextTypes, NextKeepsPairs, NextTends DEF PairInv
<1>3. Inv => OpenRunIsTended
    BY DEF TendInv, OpenHasHelp, HasHelp, Closed, Closing, OpenRunIsTended, Tended, WorkedOn
<1> HIDE DEF Inv
<1> QED BY <1>1, <1>2, <1>3, PTL DEF RuntimeSpec

\* The same holds where the config is edited through the API.
COROLLARY AdminRunsAreTended == ASSUME MaxFaults \in 0..1 PROVE AdminSpec => []OpenRunIsTended
BY RunsAreTended, AdminImplementsRuntime, PTL
===============================================================================
