---------------------------- MODULE DeliveryProofs ----------------------------
(***************************************************************************)
(* Theorems about DeliveryQueue, for every set of requests, drainers and   *)
(* operators and every number of faults: nothing is lost, the queue        *)
(* implements DeliveryLedger, and repetitions come from faults.            *)
(* Then, about RouteDelivery, for every set of workers, drainers, people,  *)
(* routes and fragments: fragments stay accounted for, only routed ones    *)
(* leave the inbox, and every route that matched gets its turn.            *)
(***************************************************************************)
EXTENDS RouteDelivery, FiniteSetTheorems, TLAPS

(***************************************************************************)
(* Type correctness.  First, what the operators on the job table and the   *)
(* moves of the processes preserve.                                        *)
(***************************************************************************)

\* The queue library's operations keep a job table a job table.
LEMMA TableTypes ==
    ASSUME NEW table \in T!JobTables, NEW j \in JobIds, NEW r \in Requests
    PROVE  /\ T!Push(table, j, r) \in T!JobTables
           /\ T!Pop(table, j) \in T!JobTables
           /\ T!Release(table, j) \in T!JobTables
           /\ T!Delete(table, j) \in T!JobTables
           /\ T!Lapse(table, j) \in T!JobTables
<1> USE DEF T!JobTables, T!JobRow, T!JobStates
<1>1. T!Push(table, j, r) \in T!JobTables
  BY DEF T!Push
<1>2. T!Pop(table, j) \in T!JobTables
  BY DEF T!Pop
<1>3. T!Release(table, j) \in T!JobTables
  BY DEF T!Release
<1>4. T!Delete(table, j) \in T!JobTables
  BY DEF T!Delete
<1>5. T!Lapse(table, j) \in T!JobTables
  BY DEF T!Lapse
<1>6. QED
  BY <1>1, <1>2, <1>3, <1>4, <1>5

\* Moving one drainer, and only its step, keeps every drainer well typed.
LEMMA DrainerTypes ==
    ASSUME TypeOK, NEW d \in Drainers
    PROVE  /\ \A s \in DrainerSteps : Go(d, s) => drainers' \in [Drainers -> DrainerState]
           /\ \A v \in DrainerState :
                 drainers' = [drainers EXCEPT ![d] = v] => drainers' \in [Drainers -> DrainerState]
           /\ IdleDrainer \in DrainerState
<1>1. drainers \in [Drainers -> DrainerState]
  BY DEF TypeOK
<1>2. ASSUME NEW s \in DrainerSteps, Go(d, s)
      PROVE  drainers' \in [Drainers -> DrainerState]
  <2>1. PICK before \in DrainerState : before = drainers[d]
    BY <1>1
  <2>2. PICK after : after = [before EXCEPT !.step = s]
    OBVIOUS
  <2>3. drainers' = [drainers EXCEPT ![d] = after]
    BY <1>2, <2>1, <2>2 DEF Go
  <2>4. after \in DrainerState
    BY <2>1, <2>2 DEF DrainerState, DrainerSteps
  <2> QED
    BY <1>1, <2>3, <2>4
<1>3. ASSUME NEW v \in DrainerState, drainers' = [drainers EXCEPT ![d] = v]
      PROVE  drainers' \in [Drainers -> DrainerState]
  BY <1>1, <1>3
<1>4. IdleDrainer \in DrainerState
  BY DEF DrainerState, IdleDrainer, DrainerSteps, MaybeRequest
<1> QED
  BY <1>2, <1>3, <1>4

LEMMA OperatorTypes ==
    ASSUME TypeOK, NEW o \in Operators
    PROVE  /\ \A s \in OperatorSteps : OperatorGo(o, s) => operators' \in [Operators -> OperatorState]
           /\ \A v \in OperatorState :
                 operators' = [operators EXCEPT ![o] = v] => operators' \in [Operators -> OperatorState]
           /\ IdleOperator \in OperatorState
<1>1. operators \in [Operators -> OperatorState]
  BY DEF TypeOK
<1>2. ASSUME NEW s \in OperatorSteps, OperatorGo(o, s)
      PROVE  operators' \in [Operators -> OperatorState]
  <2>1. PICK before \in OperatorState : before = operators[o]
    BY <1>1
  <2>2. PICK after : after = [before EXCEPT !.step = s]
    OBVIOUS
  <2>3. operators' = [operators EXCEPT ![o] = after]
    BY <1>2, <2>1, <2>2 DEF OperatorGo
  <2>4. after \in OperatorState
    BY <2>1, <2>2 DEF OperatorState, OperatorSteps
  <2> QED
    BY <1>1, <2>3, <2>4
<1>3. ASSUME NEW v \in OperatorState, operators' = [operators EXCEPT ![o] = v]
      PROVE  operators' \in [Operators -> OperatorState]
  BY <1>1, <1>3
<1>4. IdleOperator \in OperatorState
  BY DEF OperatorState, IdleOperator, OperatorSteps, MaybeRequest
<1> QED
  BY <1>2, <1>3, <1>4

\* The initial tables are empty and every local copy is blank.
LEMMA InitTypeOK == Init => TypeOK
BY RequestAssumption, RowAssumption, PolicyAssumption
DEF Init, QueueInit, TypeOK, T!EmptyTable, T!JobTables, T!JobRow, T!JobStates,
    DeadStates, DrainerSteps, OperatorSteps, IdleDrainer, IdleOperator,
    MaybeRequest, DeadRow, DrainerState, OperatorState

\* Every step of a drainer keeps the types, if the job it works on is a request's.
LEMMA DrainTypeOK ==
    ASSUME TypeOK, NEW d \in Drainers, Drain(d) \/ AbandonJob(d),
           drainers[d].step # "idle" => /\ drainers[d].job \in JobIds
                                        /\ drainers[d].req \in Requests,
           \A j \in T!Poppable(jobs) : jobs[j].payload \in Requests
    PROVE  TypeOK'
<1> USE RequestAssumption, RowAssumption DEF queueVars, routeVars
<1>t. /\ drainers \in [Drainers -> DrainerState]
      /\ jobs \in T!JobTables
  BY DEF TypeOK
<1>i. IdleDrainer \in DrainerState
  BY DrainerTypes
<1>1. CASE DrainPop(d)
  <2>1. PICK j \in T!Poppable(jobs) :
          /\ jobs' = T!Pop(jobs, j)
          /\ drainers' = [drainers EXCEPT ![d] =
              [step |-> "popped", job |-> j, req |-> jobs[j].payload, tries |-> jobs[j].tries + 1]]
    BY <1>1 DEF DrainPop
  <2>2. j \in JobIds /\ jobs[j].payload \in Requests
    BY DEF T!Poppable
  <2>3. jobs[j].tries \in Nat
    BY <2>2, <1>t DEF T!JobTables, T!JobRow
  <2>4. [step |-> "popped", job |-> j, req |-> jobs[j].payload, tries |-> jobs[j].tries + 1] \in DrainerState
    BY <2>2, <2>3 DEF DrainerState, DrainerSteps, MaybeRequest
  <2>5. drainers' \in [Drainers -> DrainerState]
    BY <2>1, <2>4, DrainerTypes
  <2>6. jobs' \in T!JobTables
    BY <2>1, <2>2, <1>t, TableTypes
  <2>7. QED
    BY <1>1, <2>5, <2>6 DEF DrainPop, TypeOK
<1>2. CASE LoadJob(d)
  <2>1. drainers' \in [Drainers -> DrainerState]
    BY <1>2, DrainerTypes DEF LoadJob, DrainerSteps
  <2>2. faults' \in Nat
    BY <1>2 DEF LoadJob, TypeOK
  <2>3. QED
    BY <1>2, <2>1, <2>2 DEF LoadJob, TypeOK
<1>3. CASE ExecuteAcked(d)
  <2>1. drainers' \in [Drainers -> DrainerState]
    BY <1>3, DrainerTypes DEF ExecuteAcked, DrainerSteps
  <2>2. acked' \in [Requests -> 0..2]
    BY <1>3 DEF ExecuteAcked, AckUpTo2, TypeOK
  <2>3. QED
    BY <1>3, <2>1, <2>2 DEF ExecuteAcked, TypeOK
<1>4. CASE ExecuteFailed(d)
  <2>1. drainers' \in [Drainers -> DrainerState]
    BY <1>4, DrainerTypes DEF ExecuteFailed, DrainerSteps
  <2>2. QED
    BY <1>4, <2>1 DEF ExecuteFailed, TypeOK
<1>5. CASE MarkRouted(d)
  <2>1. drainers' \in [Drainers -> DrainerState]
    BY <1>5, DrainerTypes DEF MarkRouted, DrainerSteps
  <2>2. status' \in [Fragments -> {"inbox", "routed"}]
    BY <1>5 DEF MarkRouted, TypeOK
  <2>3. QED
    BY <1>5, <2>1, <2>2 DEF MarkRouted, TypeOK
<1>6. CASE RemoveFromInbox(d)
  <2>1. drainers' \in [Drainers -> DrainerState]
    BY <1>6, DrainerTypes DEF RemoveFromInbox, DrainerSteps
  <2>2. QED
    BY <1>6, <2>1 DEF RemoveFromInbox, TypeOK
<1>7. CASE DeleteJob(d)
  <2>1. drainers' \in [Drainers -> DrainerState]
    BY <1>7, <1>i, DrainerTypes DEF DeleteJob
  <2>2. jobs' \in T!JobTables
    BY <1>7, <1>t, TableTypes DEF DeleteJob
  <2>3. QED
    BY <1>7, <2>1, <2>2 DEF DeleteJob, TypeOK
<1>8. CASE ReleaseJob(d)
  <2>1. drainers' \in [Drainers -> DrainerState]
    BY <1>8, <1>i, DrainerTypes DEF ReleaseJob
  <2>2. jobs' \in T!JobTables
    BY <1>8, <1>t, TableTypes DEF ReleaseJob
  <2>3. QED
    BY <1>8, <2>1, <2>2 DEF ReleaseJob, TypeOK
<1>9. CASE FailJob(d)
  <2>1. drainers' \in [Drainers -> DrainerState]
    BY <1>9, <1>i, DrainerTypes DEF FailJob
  <2>2. jobs' \in T!JobTables
    BY <1>9, <1>t, TableTypes DEF FailJob
  <2>3. dead' \in [FailedIds -> DeadRow]
    BY <1>9 DEF FailJob, TypeOK, DeadRow, DeadStates, MaybeRequest
  <2>4. QED
    BY <1>9, <2>1, <2>2, <2>3 DEF FailJob, TypeOK
<1>10. CASE AbandonJob(d)
  <2>1. drainers' \in [Drainers -> DrainerState]
    BY <1>10, <1>i, DrainerTypes DEF AbandonJob
  <2>2. QED
    BY <1>10, <2>1 DEF AbandonJob, TypeOK
<1>11. QED
  BY <1>1, <1>2, <1>3, <1>4, <1>5, <1>6, <1>7, <1>8, <1>9, <1>10 DEF Drain

\* What an operator works on is a row of the failed table and its request.
LEMMA OperatorTypeOK ==
    ASSUME TypeOK, NEW o \in Operators, Replay(o) \/ Purge(o) \/ AbandonOperator(o),
           operators[o].step # "idle" => /\ operators[o].row \in FailedIds
                                         /\ operators[o].req \in Requests,
           \A x \in FailedIds : dead[x].state # "unused" => dead[x].req \in Requests
    PROVE  TypeOK'
<1> USE RequestAssumption, RowAssumption DEF queueVars, routeVars
<1>t. /\ operators \in [Operators -> OperatorState]
      /\ jobs \in T!JobTables
      /\ replays \in [Destinations -> Nat]
  BY DEF TypeOK
<1>i. IdleOperator \in OperatorState
  BY OperatorTypes
<1>1. ASSUME NEW x \in FailedIds, ReplayFind(o, x)
      PROVE  TypeOK'
  <2>1. PICK force \in {FALSE, ForceAllowed} :
          operators' = [operators EXCEPT ![o] =
            [step |-> IF force THEN "forced" ELSE "found", row |-> x, req |-> dead[x].req]]
    BY <1>1 DEF ReplayFind
  <2>2. [step |-> IF force THEN "forced" ELSE "found", row |-> x, req |-> dead[x].req] \in OperatorState
    BY <1>1 DEF ReplayFind, OperatorState, OperatorSteps, MaybeRequest
  <2>3. operators' \in [Operators -> OperatorState]
    BY <2>1, <2>2, OperatorTypes
  <2>4. QED
    BY <1>1, <2>3 DEF ReplayFind, TypeOK
<1>2. CASE ReplayPreflight(o)
  <2>1. [operators[o] EXCEPT !.step = "preflighted"] \in OperatorState
    BY <1>t DEF OperatorState, OperatorSteps
  <2>2. operators' \in [Operators -> OperatorState]
    BY <1>2, <1>i, <1>t, <2>1 DEF ReplayPreflight
  <2>3. QED
    BY <1>2, <2>2 DEF ReplayPreflight, TypeOK
<1>3. CASE ReplayPush(o)
  <2>1. operators' \in [Operators -> OperatorState]
    BY <1>3, OperatorTypes DEF ReplayPush, OperatorSteps
  <2>2. jobs' \in T!JobTables
    BY <1>3, <1>t, TableTypes DEF ReplayPush, T!FreshIds
  <2>3. QED
    BY <1>3, <2>1, <2>2 DEF ReplayPush, TypeOK
<1>4. CASE ReplayLog(o)
  <2>1. operators' \in [Operators -> OperatorState]
    BY <1>4, OperatorTypes DEF ReplayLog, OperatorSteps
  <2>2. DestOf[operators[o].req] \in Destinations
    BY <1>4 DEF ReplayLog
  <2>3. replays' \in [Destinations -> Nat]
    BY <1>4, <1>t, <2>2 DEF ReplayLog
  <2>4. cooling' \in SUBSET Destinations
    BY <1>4, <2>2 DEF ReplayLog, TypeOK
  <2>5. QED
    BY <1>4, <2>1, <2>3, <2>4 DEF ReplayLog, TypeOK
<1>5. CASE ReplayDelete(o)
  <2>1. operators' \in [Operators -> OperatorState]
    BY <1>5, <1>i, OperatorTypes DEF ReplayDelete
  <2>2. dead' \in [FailedIds -> DeadRow]
    BY <1>5 DEF ReplayDelete, TypeOK, DeadRow, DeadStates
  <2>3. QED
    BY <1>5, <2>1, <2>2 DEF ReplayDelete, TypeOK
<1>6. ASSUME NEW x \in FailedIds, PurgeFind(o, x)
      PROVE  TypeOK'
  <2>1. [step |-> "purging", row |-> x, req |-> dead[x].req] \in OperatorState
    BY <1>6 DEF PurgeFind, OperatorState, OperatorSteps, MaybeRequest
  <2>2. operators' \in [Operators -> OperatorState]
    BY <1>6, <2>1, OperatorTypes DEF PurgeFind
  <2>3. QED
    BY <1>6, <2>2 DEF PurgeFind, TypeOK
<1>7. CASE PurgeDelete(o)
  <2>1. operators' \in [Operators -> OperatorState]
    BY <1>7, <1>i, OperatorTypes DEF PurgeDelete
  <2>2. dead' \in [FailedIds -> DeadRow]
    BY <1>7 DEF PurgeDelete, TypeOK, DeadRow, DeadStates
  <2>3. purged' \in SUBSET Requests
    BY <1>7 DEF PurgeDelete, TypeOK
  <2>4. QED
    BY <1>7, <2>1, <2>2, <2>3 DEF PurgeDelete, TypeOK
<1>8. CASE AbandonOperator(o)
  <2>1. operators' \in [Operators -> OperatorState]
    BY <1>8, <1>i, OperatorTypes DEF AbandonOperator
  <2>2. QED
    BY <1>8, <2>1 DEF AbandonOperator, TypeOK
<1>9. QED
  BY <1>1, <1>2, <1>3, <1>4, <1>5, <1>6, <1>7, <1>8 DEF Replay, Purge

\* The remaining steps: a new request, a deleted destination, the clock.
LEMMA OutsideTypeOK ==
    ASSUME TypeOK,
           \/ \E r \in Requests : EnqueueDestinationRetry(r)
           \/ \E t \in Destinations : DeleteDestination(t)
           \/ Clock
    PROVE  TypeOK'
<1> USE RequestAssumption, RowAssumption DEF queueVars, routeVars
<1>t. /\ jobs \in T!JobTables
      /\ replays \in [Destinations -> Nat]
  BY DEF TypeOK
<1>1. ASSUME NEW r \in Requests, EnqueueDestinationRetry(r)
      PROVE  TypeOK'
  <2>1. jobs' \in T!JobTables
    BY <1>1, <1>t, TableTypes DEF EnqueueDestinationRetry, T!FreshIds
  <2>2. QED
    BY <1>1, <2>1 DEF EnqueueDestinationRetry, TypeOK
<1>2. ASSUME NEW t \in Destinations, DeleteDestination(t)
      PROVE  TypeOK'
  BY <1>2 DEF DeleteDestination, TypeOK
<1>3. ASSUME NEW j \in JobIds, LapseReservation(j)
      PROVE  TypeOK'
  <2>1. T!Lapse(jobs, j) \in T!JobTables
    BY <1>t DEF T!Lapse, T!JobTables, T!JobRow, T!JobStates
  <2>2. faults' \in Nat
    BY <1>3 DEF LapseReservation, TypeOK
  <2>3. QED
    BY <1>3, <2>1, <2>2 DEF LapseReservation, TypeOK
<1>4. ASSUME NEW t \in Destinations, ReplayAges(t)
      PROVE  TypeOK'
  <2>1. replays' \in [Destinations -> Nat]
    BY <1>4, <1>t DEF ReplayAges
  <2>2. QED
    BY <1>4, <2>1 DEF ReplayAges, TypeOK
<1>5. ASSUME NEW t \in Destinations, CooldownEnds(t)
      PROVE  TypeOK'
  BY <1>5 DEF CooldownEnds, TypeOK
<1>6. QED
  BY <1>1, <1>2, <1>3, <1>4, <1>5 DEF Clock

-------------------------------------------------------------------------------
(***************************************************************************)
(* The inductive invariant.  What no step takes back: requests and purges  *)
(* are remembered, the inbox only shrinks, an acknowledgement and a routed *)
(* status stick, and a row once used names its request for good.           *)
(***************************************************************************)
RowsStick ==
    /\ \A j \in JobIds : jobs[j].state # "unused" =>
          jobs'[j].state # "unused" /\ jobs'[j].payload = jobs[j].payload
    /\ \A x \in FailedIds : dead[x].state # "unused" =>
          dead'[x].state # "unused" /\ dead'[x].req = dead[x].req

FactsStick ==
    /\ accepted \subseteq accepted'
    /\ purged \subseteq purged'
    /\ inbox' \subseteq inbox
    /\ \A r \in Requests : acked[r] > 0 => acked'[r] > 0
    /\ \A f \in Fragments : status[f] = "routed" => status'[f] = "routed"

Grows == RowsStick /\ FactsStick

\* No operation on the job table but Push gives a row another payload or frees it.
LEMMA TableFrame ==
    ASSUME NEW table \in T!JobTables, NEW j \in JobIds, NEW k \in JobIds, NEW after,
           after \in {T!Pop(table, j), T!Release(table, j), T!Delete(table, j), T!Lapse(table, j)}
    PROVE  /\ after[k].payload = table[k].payload
           /\ table[k].state # "unused" => after[k].state # "unused"
           /\ k # j => after[k] = table[k]
<1>1. CASE after = T!Pop(table, j)
  BY <1>1 DEF T!Pop, T!JobTables, T!JobRow
<1>2. CASE after = T!Release(table, j)
  BY <1>2 DEF T!Release, T!JobTables, T!JobRow
<1>3. CASE after = T!Delete(table, j)
  BY <1>3 DEF T!Delete, T!JobTables, T!JobRow
<1>4. CASE after = T!Lapse(table, j)
  BY <1>4 DEF T!Lapse, T!JobTables, T!JobRow
<1>5. QED
  BY <1>1, <1>2, <1>3, <1>4

\* A push uses a fresh row and leaves every other alone.
LEMMA PushFrame ==
    ASSUME jobs \in T!JobTables, NEW j \in T!FreshIds(jobs), NEW r \in Requests,
           jobs' = T!Push(jobs, j, r)
    PROVE  /\ jobs'[j] = [state |-> "ready", payload |-> r, tries |-> 0]
           /\ \A k \in JobIds : k # j => jobs'[k] = jobs[k]
           /\ \A k \in JobIds : jobs[k].state # "unused" => jobs'[k] = jobs[k]
BY DEF T!Push, T!FreshIds, T!JobTables, T!JobRow

\* A popped, released or lapsed row is held, before and after.
LEMMA HeldFrame ==
    ASSUME NEW table \in T!JobTables, NEW j \in JobIds, NEW k \in JobIds, NEW after,
           after \in {T!Pop(table, j), T!Release(table, j), T!Lapse(table, j)},
           T!Held(table, k)
    PROVE  T!Held(after, k)
BY DEF T!Pop, T!Release, T!Lapse, T!Held, T!HeldStates, T!JobTables, T!JobRow

\* Every step of a drainer, finished or abandoned, keeps those facts.
LEMMA DrainGrows ==
    ASSUME IInv, NEW d \in Drainers, Drain(d) \/ AbandonJob(d)
    PROVE  Grows
<1> USE RequestAssumption, RowAssumption DEF queueVars, routeVars
<1>t. /\ TypeOK
      /\ jobs \in T!JobTables
      /\ drainers[d].step # "idle" => drainers[d].job \in JobIds /\ drainers[d].req \in accepted
  BY DEF IInv, DrainerOK, TypeOK
<1>1. CASE DrainPop(d)
  <2>1. PICK j \in JobIds : jobs' = T!Pop(jobs, j)
    BY <1>1 DEF DrainPop, T!Poppable
  <2>2. RowsStick
    BY <1>1, <1>t, <2>1, TableFrame DEF DrainPop, RowsStick
  <2>3. QED
    BY <1>1, <2>2 DEF DrainPop, Grows, FactsStick
<1>2. CASE LoadJob(d)
  BY <1>2 DEF LoadJob, Grows, RowsStick, FactsStick
<1>3. CASE ExecuteAcked(d)
  <2>1. \A r \in Requests : acked[r] > 0 => acked'[r] > 0
    BY <1>3, <1>t DEF ExecuteAcked, AckUpTo2, TypeOK
  <2>2. QED
    BY <1>3, <2>1 DEF ExecuteAcked, Grows, RowsStick, FactsStick
<1>4. CASE ExecuteFailed(d)
  BY <1>4 DEF ExecuteFailed, Grows, RowsStick, FactsStick
<1>5. CASE MarkRouted(d)
  <2>1. \A f \in Fragments : status[f] = "routed" => status'[f] = "routed"
    BY <1>5, <1>t DEF MarkRouted, TypeOK
  <2>2. QED
    BY <1>5, <2>1 DEF MarkRouted, Grows, RowsStick, FactsStick
<1>6. CASE RemoveFromInbox(d)
  BY <1>6 DEF RemoveFromInbox, Grows, RowsStick, FactsStick
<1>7. CASE DeleteJob(d)
  <2>1. drainers[d].job \in JobIds /\ jobs' = T!Delete(jobs, drainers[d].job)
    BY <1>7, <1>t DEF DeleteJob
  <2>2. RowsStick
    BY <1>7, <1>t, <2>1, TableFrame DEF DeleteJob, RowsStick
  <2>3. QED
    BY <1>7, <2>2 DEF DeleteJob, Grows, FactsStick
<1>8. CASE ReleaseJob(d)
  <2>1. drainers[d].job \in JobIds /\ jobs' = T!Release(jobs, drainers[d].job)
    BY <1>8, <1>t DEF ReleaseJob
  <2>2. RowsStick
    BY <1>8, <1>t, <2>1, TableFrame DEF ReleaseJob, RowsStick
  <2>3. QED
    BY <1>8, <2>2 DEF ReleaseJob, Grows, FactsStick
<1>9. CASE FailJob(d)
  <2>1. drainers[d].job \in JobIds /\ jobs' = T!Delete(jobs, drainers[d].job)
    BY <1>9, <1>t DEF FailJob
  <2>2. \A x \in FailedIds : dead[x].state # "unused" => dead'[x] = dead[x]
    BY <1>9, <1>t DEF FailJob, TypeOK
  <2>3. RowsStick
    BY <1>t, <2>1, <2>2, TableFrame DEF RowsStick
  <2>4. QED
    BY <1>9, <2>3 DEF FailJob, Grows, FactsStick
<1>10. CASE AbandonJob(d)
  BY <1>10 DEF AbandonJob, Grows, RowsStick, FactsStick
<1>11. QED
  BY <1>1, <1>2, <1>3, <1>4, <1>5, <1>6, <1>7, <1>8, <1>9, <1>10 DEF Drain

\* So does every step of an operator.
LEMMA OperatorGrows ==
    ASSUME IInv, NEW o \in Operators, Replay(o) \/ Purge(o) \/ AbandonOperator(o)
    PROVE  Grows
<1> USE RequestAssumption, RowAssumption DEF queueVars, routeVars
<1>t. /\ TypeOK
      /\ jobs \in T!JobTables
      /\ dead \in [FailedIds -> DeadRow]
      /\ operators[o].step # "idle" => operators[o].row \in FailedIds /\ operators[o].req \in accepted
  BY DEF IInv, OperatorOK, TypeOK
<1>1. CASE \E x \in FailedIds : ReplayFind(o, x) \/ PurgeFind(o, x)
  BY <1>1 DEF ReplayFind, PurgeFind, Grows, RowsStick, FactsStick
<1>2. CASE ReplayPreflight(o)
  BY <1>2 DEF ReplayPreflight, Grows, RowsStick, FactsStick
<1>3. CASE ReplayPush(o)
  <2>1. PICK r \in Requests : r = operators[o].req
    BY <1>3, <1>t DEF ReplayPush, TypeOK
  <2>2. PICK j \in T!FreshIds(jobs) : jobs' = T!Push(jobs, j, r)
    BY <1>3, <2>1 DEF ReplayPush
  <2>3. \A k \in JobIds : jobs[k].state # "unused" => jobs'[k] = jobs[k]
    BY <1>t, <2>2, PushFrame
  <2>4. QED
    BY <1>3, <2>3 DEF ReplayPush, Grows, RowsStick, FactsStick
<1>4. CASE ReplayLog(o)
  BY <1>4 DEF ReplayLog, Grows, RowsStick, FactsStick
<1>5. CASE ReplayDelete(o) \/ PurgeDelete(o)
  <2>1. operators[o].row \in FailedIds
    BY <1>5, <1>t DEF ReplayDelete, PurgeDelete
  <2>2. \A x \in FailedIds : dead[x].state # "unused" =>
          dead'[x].state # "unused" /\ dead'[x].req = dead[x].req
    BY <1>5, <1>t, <2>1 DEF ReplayDelete, PurgeDelete, DeadRow
  <2>3. QED
    BY <1>5, <2>2 DEF ReplayDelete, PurgeDelete, Grows, RowsStick, FactsStick
<1>6. CASE AbandonOperator(o)
  BY <1>6 DEF AbandonOperator, Grows, RowsStick, FactsStick
<1>7. QED
  BY <1>1, <1>2, <1>3, <1>4, <1>5, <1>6 DEF Replay, Purge

\* And so do new requests, a deleted destination and the clock.
LEMMA OutsideGrows ==
    ASSUME IInv,
           \/ \E r \in Requests : EnqueueDestinationRetry(r)
           \/ \E t \in Destinations : DeleteDestination(t)
           \/ Clock
    PROVE  Grows
<1> USE DEF queueVars, routeVars
<1>t. TypeOK /\ jobs \in T!JobTables
  BY DEF IInv, TypeOK
<1>1. ASSUME NEW r \in Requests, EnqueueDestinationRetry(r)
      PROVE  Grows
  <2>1. PICK j \in T!FreshIds(jobs) : jobs' = T!Push(jobs, j, r)
    BY <1>1 DEF EnqueueDestinationRetry
  <2>2. \A k \in JobIds : jobs[k].state # "unused" => jobs'[k] = jobs[k]
    BY <1>t, <2>1, PushFrame
  <2>3. QED
    BY <1>1, <2>2 DEF EnqueueDestinationRetry, Grows, RowsStick, FactsStick
<1>2. ASSUME NEW t \in Destinations, DeleteDestination(t)
      PROVE  Grows
  BY <1>2 DEF DeleteDestination, Grows, RowsStick, FactsStick
<1>3. ASSUME NEW j \in JobIds, LapseReservation(j)
      PROVE  Grows
  <2>1. RowsStick
    BY <1>3, <1>t, TableFrame DEF LapseReservation, RowsStick
  <2>2. QED
    BY <1>3, <2>1 DEF LapseReservation, Grows, FactsStick
<1>4. ASSUME NEW t \in Destinations, ReplayAges(t) \/ CooldownEnds(t)
      PROVE  Grows
  BY <1>4 DEF ReplayAges, CooldownEnds, Grows, RowsStick, FactsStick
<1>5. QED
  BY <1>1, <1>2, <1>3, <1>4 DEF Clock

\* A process that does not move keeps what its local copy means.
LEMMA BystandersOK ==
    ASSUME IInv, Grows
    PROVE  /\ \A d \in Drainers : drainers'[d] = drainers[d] => DrainerOK(d)'
           /\ \A o \in Operators : operators'[o] = operators[o] => OperatorOK(o)'
<1>1. ASSUME NEW d \in Drainers, drainers'[d] = drainers[d]
      PROVE  DrainerOK(d)'
  <2>1. DrainerOK(d)
    BY DEF IInv
  <2>2. accepted \subseteq Requests /\ (\A r \in Requests : FragOf[r] \in Fragments)
    BY RequestAssumption DEF IInv, TypeOK
  <2>3. QED
    BY <1>1, <2>1, <2>2 DEF DrainerOK, Grows, RowsStick, FactsStick
<1>2. ASSUME NEW o \in Operators, operators'[o] = operators[o]
      PROVE  OperatorOK(o)'
  <2>1. OperatorOK(o)
    BY DEF IInv
  <2>2. QED
    BY <1>2, <2>1 DEF OperatorOK, Grows, RowsStick, FactsStick
<1>3. QED
  BY <1>1, <1>2

\* The drainer that moves: what it has done so far is in the tables.
LEMMA DrainKeepsDrainers ==
    ASSUME IInv, NEW d \in Drainers, Drain(d) \/ AbandonJob(d)
    PROVE  \A e \in Drainers : DrainerOK(e)'
<1>g. Grows
  BY DrainGrows
<1>t. /\ TypeOK
      /\ drainers \in [Drainers -> DrainerState]
      /\ jobs \in T!JobTables
      /\ accepted \subseteq Requests
      /\ DrainerOK(d)
  BY DEF IInv, TypeOK
<1>o. \A e \in Drainers \ {d} : drainers'[e] = drainers[e]
  BY <1>t DEF Drain, AbandonJob, DrainPop, LoadJob, ExecuteAcked, ExecuteFailed, MarkRouted,
              RemoveFromInbox, DeleteJob, ReleaseJob, FailJob, Go
<1>m. \A s \in DrainerSteps : Go(d, s) => /\ drainers'[d].step = s
                                          /\ drainers'[d].job = drainers[d].job
                                          /\ drainers'[d].req = drainers[d].req
  BY <1>t DEF Go, DrainerState
<1>1. CASE DrainPop(d)
  <2>1. PICK j \in JobIds :
          /\ jobs[j].state # "unused"
          /\ jobs' = T!Pop(jobs, j)
          /\ drainers' = [drainers EXCEPT ![d] =
              [step |-> "popped", job |-> j, req |-> jobs[j].payload, tries |-> jobs[j].tries + 1]]
    BY <1>1 DEF DrainPop, T!Poppable
  <2>2. drainers'[d] = [step |-> "popped", job |-> j, req |-> jobs[j].payload, tries |-> jobs[j].tries + 1]
    BY <1>t, <2>1
  <2>3. jobs[j].payload \in accepted'
    BY <1>g, <2>1 DEF IInv, JobsNamed, Grows, FactsStick
  <2>4. DrainerOK(d)'
    BY <1>g, <2>1, <2>2, <2>3 DEF DrainerOK, Grows, RowsStick
  <2>5. QED
    BY <1>g, <1>o, <2>4, BystandersOK
<1>2. CASE LoadJob(d) \/ ExecuteFailed(d)
  <2>1. \E s \in {"loaded", "failing", "releasing"} : Go(d, s) /\ drainers[d].step # "idle"
    BY <1>2 DEF LoadJob, ExecuteFailed
  <2>2. DrainerOK(d)'
    BY <1>g, <1>t, <1>m, <2>1 DEF DrainerOK, DrainerSteps, Grows, RowsStick, FactsStick
  <2>3. QED
    BY <1>g, <1>o, <2>2, BystandersOK
<1>3. CASE ExecuteAcked(d)
  <2>1. Go(d, "acked") /\ drainers[d].step = "loaded"
    BY <1>3 DEF ExecuteAcked
  <2>2. acked'[drainers[d].req] > 0
    BY <1>3, <1>t, <2>1 DEF ExecuteAcked, AckUpTo2, TypeOK, DrainerOK
  <2>3. DrainerOK(d)'
    BY <1>g, <1>t, <1>m, <2>1, <2>2 DEF DrainerOK, DrainerSteps, Grows, RowsStick, FactsStick
  <2>4. QED
    BY <1>g, <1>o, <2>3, BystandersOK
<1>4. CASE MarkRouted(d)
  <2>1. Go(d, "routed") /\ drainers[d].step = "acked" /\ drainers[d].req \in Requests
    BY <1>4, <1>t DEF MarkRouted, DrainerOK
  <2>2. status'[FragOf[drainers[d].req]] = "routed"
    BY <1>4, <1>t, <2>1, RequestAssumption DEF MarkRouted, TypeOK
  <2>3. DrainerOK(d)'
    BY <1>g, <1>t, <1>m, <2>1, <2>2 DEF DrainerOK, DrainerSteps, Grows, RowsStick, FactsStick
  <2>4. QED
    BY <1>g, <1>o, <2>3, BystandersOK
<1>5. CASE RemoveFromInbox(d)
  <2>1. Go(d, "cleared") /\ drainers[d].step = "routed" /\ drainers[d].req \in Requests
    BY <1>5, <1>t DEF RemoveFromInbox, DrainerOK
  <2>2. FragOf[drainers[d].req] \notin inbox'
    BY <1>5 DEF RemoveFromInbox
  <2>3. FragOf[drainers[d].req] \in Fragments
    BY <2>1, RequestAssumption
  <2>4. DrainerOK(d)'
    BY <1>g, <1>t, <1>m, <2>1, <2>2, <2>3 DEF DrainerOK, DrainerSteps, Grows, RowsStick, FactsStick
  <2>5. QED
    BY <1>g, <1>o, <2>4, BystandersOK
<1>6. CASE DeleteJob(d) \/ ReleaseJob(d) \/ FailJob(d) \/ AbandonJob(d)
  <2>1. drainers'[d] = IdleDrainer
    BY <1>6, <1>t DEF DeleteJob, ReleaseJob, FailJob, AbandonJob
  <2>2. DrainerOK(d)'
    BY <2>1 DEF DrainerOK, IdleDrainer
  <2>3. QED
    BY <1>g, <1>o, <2>2, BystandersOK
<1>7. QED
  BY <1>1, <1>2, <1>3, <1>4, <1>5, <1>6 DEF Drain

\* The operator that moves still holds a used row and that row's request.
LEMMA OperatorKeepsOperators ==
    ASSUME IInv, NEW o \in Operators, Replay(o) \/ Purge(o) \/ AbandonOperator(o)
    PROVE  \A p \in Operators : OperatorOK(p)'
<1>g. Grows
  BY OperatorGrows
<1>t. /\ operators \in [Operators -> OperatorState]
      /\ OperatorOK(o)
  BY DEF IInv, TypeOK
<1>o. \A p \in Operators \ {o} : operators'[p] = operators[p]
  BY <1>t DEF Replay, Purge, AbandonOperator, ReplayFind, ReplayPreflight, ReplayPush, ReplayLog,
              ReplayDelete, PurgeFind, PurgeDelete, OperatorGo
<1>1. ASSUME NEW x \in FailedIds, ReplayFind(o, x) \/ PurgeFind(o, x)
      PROVE  OperatorOK(o)'
  <2>1. /\ operators'[o].row = x
        /\ operators'[o].req = dead[x].req
        /\ dead[x].state = "held"
    BY <1>1, <1>t DEF ReplayFind, PurgeFind
  <2>2. dead[x].req \in accepted
    BY <2>1 DEF IInv, RowsNamed
  <2>3. QED
    BY <1>g, <2>1, <2>2 DEF OperatorOK, Grows, RowsStick, FactsStick
<1>2. ASSUME \/ ReplayPreflight(o) \/ ReplayPush(o) \/ ReplayLog(o)
             \/ ReplayDelete(o) \/ PurgeDelete(o) \/ AbandonOperator(o)
      PROVE  OperatorOK(o)'
  <2>1. \/ operators'[o] = IdleOperator
        \/ /\ operators[o].step # "idle"
           /\ operators'[o].row = operators[o].row
           /\ operators'[o].req = operators[o].req
    BY <1>2, <1>t DEF ReplayPreflight, ReplayPush, ReplayLog, ReplayDelete, PurgeDelete,
                      AbandonOperator, OperatorGo, OperatorState
  <2>2. CASE operators'[o] = IdleOperator
    BY <2>2 DEF OperatorOK, IdleOperator
  <2>3. CASE /\ operators[o].step # "idle"
             /\ operators'[o].row = operators[o].row
             /\ operators'[o].req = operators[o].req
    BY <1>g, <1>t, <2>3 DEF OperatorOK, Grows, RowsStick, FactsStick
  <2>4. QED
    BY <2>1, <2>2, <2>3
<1>3. OperatorOK(o)'
  BY <1>1, <1>2 DEF Replay, Purge
<1>4. QED
  BY <1>g, <1>o, <1>3, BystandersOK

\* A row keeps its name, so only a row taken into use can bring in a new one.
LEMMA NamesFrame ==
    ASSUME IInv, Grows,
           \A j \in JobIds : jobs'[j].state # "unused" =>
              jobs[j].state # "unused" \/ jobs'[j].payload \in accepted',
           \A x \in FailedIds : dead'[x].state # "unused" =>
              dead[x].state # "unused" \/ dead'[x].req \in accepted'
    PROVE  JobsNamed' /\ RowsNamed'
BY DEF IInv, JobsNamed, RowsNamed, Grows, RowsStick, FactsStick

\* A drainer takes a job row into use never, a failed row for its own request.
LEMMA DrainKeepsNames ==
    ASSUME IInv, NEW d \in Drainers, Drain(d) \/ AbandonJob(d)
    PROVE  JobsNamed' /\ RowsNamed'
<1> USE DEF queueVars, routeVars
<1>g. Grows
  BY DrainGrows
<1>t. /\ jobs \in T!JobTables
      /\ dead \in [FailedIds -> DeadRow]
      /\ DrainerOK(d)
  BY DEF IInv, TypeOK
<1>1. CASE DrainPop(d)
  <2>1. PICK j \in JobIds : jobs[j].state # "unused" /\ jobs' = T!Pop(jobs, j)
    BY <1>1 DEF DrainPop, T!Poppable
  <2>2. \A k \in JobIds : jobs'[k].state # "unused" => jobs[k].state # "unused"
    BY <1>t, <2>1, TableFrame
  <2>3. QED
    BY <1>1, <1>g, <2>2, NamesFrame DEF DrainPop
<1>2. CASE \/ LoadJob(d) \/ ExecuteAcked(d) \/ ExecuteFailed(d)
           \/ MarkRouted(d) \/ RemoveFromInbox(d) \/ AbandonJob(d)
  BY <1>2, <1>g, NamesFrame
  DEF LoadJob, ExecuteAcked, ExecuteFailed, MarkRouted, RemoveFromInbox, AbandonJob
<1>3. CASE DeleteJob(d) \/ ReleaseJob(d)
  <2>1. PICK j \in JobIds : /\ jobs[j].state # "unused"
                            /\ jobs' \in {T!Delete(jobs, j), T!Release(jobs, j)}
    BY <1>3, <1>t DEF DeleteJob, ReleaseJob, DrainerOK
  <2>2. \A k \in JobIds : jobs'[k].state # "unused" => jobs[k].state # "unused"
    BY <1>t, <2>1, TableFrame
  <2>3. QED
    BY <1>3, <1>g, <2>2, NamesFrame DEF DeleteJob, ReleaseJob
<1>4. CASE FailJob(d)
  <2>1. PICK j \in JobIds : jobs[j].state # "unused" /\ jobs' = T!Delete(jobs, j)
    BY <1>4, <1>t DEF FailJob, DrainerOK
  <2>2. \A k \in JobIds : jobs'[k].state # "unused" => jobs[k].state # "unused"
    BY <1>t, <2>1, TableFrame
  <2>3. drainers[d].req \in accepted'
    BY <1>4, <1>t, <1>g DEF FailJob, DrainerOK, Grows, FactsStick
  <2>4. \A x \in FailedIds : dead'[x].state # "unused" =>
          dead[x].state # "unused" \/ dead'[x].req \in accepted'
    BY <1>4, <1>t, <2>3 DEF FailJob
  <2>5. QED
    BY <1>g, <2>2, <2>4, NamesFrame
<1>5. QED
  BY <1>1, <1>2, <1>3, <1>4 DEF Drain

\* An operator pushes the request of the row it holds.
LEMMA OperatorKeepsNames ==
    ASSUME IInv, NEW o \in Operators, Replay(o) \/ Purge(o) \/ AbandonOperator(o)
    PROVE  JobsNamed' /\ RowsNamed'
<1> USE DEF queueVars, routeVars
<1>g. Grows
  BY OperatorGrows
<1>t. /\ jobs \in T!JobTables
      /\ dead \in [FailedIds -> DeadRow]
      /\ OperatorOK(o)
      /\ accepted \subseteq Requests
  BY DEF IInv, TypeOK
<1>1. CASE \/ \E x \in FailedIds : ReplayFind(o, x) \/ PurgeFind(o, x)
           \/ ReplayPreflight(o) \/ ReplayLog(o) \/ AbandonOperator(o)
  BY <1>1, <1>g, NamesFrame DEF ReplayFind, PurgeFind, ReplayPreflight, ReplayLog, AbandonOperator
<1>2. CASE ReplayPush(o)
  <2>1. PICK r \in Requests : r = operators[o].req /\ r \in accepted
    BY <1>2, <1>t DEF ReplayPush, OperatorOK
  <2>2. PICK j \in T!FreshIds(jobs) : jobs' = T!Push(jobs, j, r)
    BY <1>2, <2>1 DEF ReplayPush
  <2>3. /\ jobs'[j] = [state |-> "ready", payload |-> r, tries |-> 0]
        /\ \A k \in JobIds : k # j => jobs'[k] = jobs[k]
    BY <1>t, <2>2, PushFrame
  <2>4. r \in accepted'
    BY <1>g, <2>1 DEF Grows, FactsStick
  <2>5. QED
    BY <1>2, <1>g, <2>3, <2>4, NamesFrame DEF ReplayPush
<1>3. CASE ReplayDelete(o) \/ PurgeDelete(o)
  <2>1. dead[operators[o].row].state # "unused"
    BY <1>3, <1>t DEF ReplayDelete, PurgeDelete, OperatorOK
  <2>2. \A x \in FailedIds : x # operators[o].row => dead'[x] = dead[x]
    BY <1>3, <1>t DEF ReplayDelete, PurgeDelete
  <2>3. QED
    BY <1>3, <1>g, <2>1, <2>2, NamesFrame DEF ReplayDelete, PurgeDelete
<1>4. QED
  BY <1>1, <1>2, <1>3 DEF Replay, Purge

(***************************************************************************)
(* Resolution.  Routed and cleared, or purged, a request stays resolved; a *)
(* step can only take away its job or its dead-letter row.                 *)
(***************************************************************************)
LEMMA ResolutionFrame ==
    ASSUME IInv, Grows, NEW r \in accepted,
           T!HoldsPayload(jobs, r) => Resolved(r)',
           HasSafeRow(r) => Resolved(r)'
    PROVE  Resolved(r)'
<1>1. r \in Requests /\ FragOf[r] \in Fragments /\ Resolved(r)
  BY RequestAssumption DEF IInv, TypeOK
<1>2. CASE r \in purged
  BY <1>2 DEF Resolved, Grows, FactsStick
<1>3. CASE Delivered(r) /\ FragOf[r] \notin inbox
  BY <1>1, <1>3 DEF Resolved, Delivered, Grows, FactsStick
<1>4. QED
  BY <1>1, <1>2, <1>3 DEF Resolved

\* A job that is held, and a safe row, resolve a request before and after.
LEMMA JobResolves ==
    ASSUME NEW r, NEW j \in JobIds, T!Held(jobs, j)', jobs'[j].payload = r
    PROVE  Resolved(r)'
BY DEF Resolved, T!HoldsPayload, T!Held

LEMMA RowResolves ==
    ASSUME NEW r, NEW x \in FailedIds, x \notin Doomed', dead'[x].state = "held", dead'[x].req = r
    PROVE  Resolved(r)'
BY DEF Resolved, HasSafeRow

\* Steps that only reserve, release or lapse job rows take nothing away.
LEMMA HarmlessSteps ==
    ASSUME IInv, Grows, dead' = dead, Doomed' \subseteq Doomed,
           \/ jobs' = jobs
           \/ \E j \in JobIds : jobs' \in {T!Pop(jobs, j), T!Release(jobs, j), T!Lapse(jobs, j)}
    PROVE  \A r \in accepted : Resolved(r)'
<1> SUFFICES ASSUME NEW r \in accepted
             PROVE  Resolved(r)'
  OBVIOUS
<1>1. ASSUME T!HoldsPayload(jobs, r)
      PROVE  Resolved(r)'
  <2>1. PICK k \in JobIds : T!Held(jobs, k) /\ jobs[k].payload = r
    BY <1>1 DEF T!HoldsPayload
  <2>2. CASE jobs' = jobs
    BY <2>1, <2>2, JobResolves DEF T!Held
  <2>3. CASE \E j \in JobIds : jobs' \in {T!Pop(jobs, j), T!Release(jobs, j), T!Lapse(jobs, j)}
    <3>1. PICK j \in JobIds : jobs' \in {T!Pop(jobs, j), T!Release(jobs, j), T!Lapse(jobs, j)}
      BY <2>3
    <3>2. jobs \in T!JobTables
      BY DEF IInv, TypeOK
    <3>3. T!Held(jobs', k) /\ jobs'[k].payload = r
      BY <2>1, <3>1, <3>2, HeldFrame, TableFrame
    <3>4. QED
      BY <3>3, JobResolves DEF T!Held
  <2>4. QED
    BY <2>2, <2>3
<1>2. ASSUME HasSafeRow(r)
      PROVE  Resolved(r)'
  BY <1>2, RowResolves DEF HasSafeRow
<1>3. QED
  BY <1>1, <1>2, ResolutionFrame

\* A drainer gives a job up only when its request is settled or dead-lettered.
LEMMA DrainKeepsResolved ==
    ASSUME IInv, NEW d \in Drainers, Drain(d) \/ AbandonJob(d)
    PROVE  \A r \in accepted : Resolved(r)'
<1> USE DEF queueVars, routeVars
<1>g. Grows
  BY DrainGrows
<1>t. /\ jobs \in T!JobTables
      /\ dead \in [FailedIds -> DeadRow]
      /\ DrainerOK(d)
  BY DEF IInv, TypeOK
<1>o. operators' = operators /\ Doomed' = Doomed
  BY DEF Drain, AbandonJob, DrainPop, LoadJob, ExecuteAcked, ExecuteFailed, MarkRouted,
         RemoveFromInbox, DeleteJob, ReleaseJob, FailJob, Doomed
<1>1. CASE \/ LoadJob(d) \/ ExecuteAcked(d) \/ ExecuteFailed(d)
           \/ MarkRouted(d) \/ RemoveFromInbox(d) \/ AbandonJob(d)
  BY <1>1, <1>g, <1>o, HarmlessSteps
  DEF LoadJob, ExecuteAcked, ExecuteFailed, MarkRouted, RemoveFromInbox, AbandonJob
<1>2. CASE DrainPop(d) \/ ReleaseJob(d)
  <2>1. PICK j \in JobIds : jobs' \in {T!Pop(jobs, j), T!Release(jobs, j), T!Lapse(jobs, j)}
    BY <1>2, <1>t DEF DrainPop, ReleaseJob, T!Poppable, DrainerOK
  <2>2. dead' = dead
    BY <1>2 DEF DrainPop, ReleaseJob
  <2>3. QED
    BY <1>g, <1>o, <2>1, <2>2, HarmlessSteps
<1>3. ASSUME DeleteJob(d) \/ FailJob(d), NEW r \in accepted, r # drainers[d].req
      PROVE  T!HoldsPayload(jobs, r) => Resolved(r)'
  <2>1. PICK j \in JobIds : jobs' = T!Delete(jobs, j) /\ jobs[j].payload # r
    BY <1>3, <1>t DEF DeleteJob, FailJob, DrainerOK
  <2>2. ASSUME NEW k \in JobIds, T!Held(jobs, k), jobs[k].payload = r
        PROVE  Resolved(r)'
    <3>1. jobs'[k] = jobs[k]
      BY <1>t, <2>1, <2>2, TableFrame
    <3>2. QED
      BY <2>2, <3>1, JobResolves DEF T!Held
  <2>3. QED
    BY <2>2 DEF T!HoldsPayload
<1>4. CASE DeleteJob(d)
  <2>1. ASSUME NEW r \in accepted, r = drainers[d].req
        PROVE  Resolved(r)'
    BY <1>4, <1>t, <2>1 DEF DeleteJob, DrainerOK, Resolved, Delivered
  <2>2. ASSUME NEW r \in accepted, HasSafeRow(r)
        PROVE  Resolved(r)'
    BY <1>4, <1>o, <2>2, RowResolves DEF HasSafeRow, DeleteJob
  <2>3. QED
    BY <1>3, <1>4, <1>g, <2>1, <2>2, ResolutionFrame
<1>5. CASE FailJob(d)
  <2>1. PICK x \in FailedIds : /\ dead[x].state = "unused"
                               /\ dead' = [dead EXCEPT ![x] = [state |-> "held", req |-> drainers[d].req]]
    BY <1>5 DEF FailJob
  <2>2. \A y \in Doomed : y \in FailedIds /\ dead[y].state # "unused"
    BY DEF Doomed, IInv, OperatorOK
  <2>3. x \notin Doomed'
    BY <1>o, <2>1, <2>2
  <2>4. ASSUME NEW r \in accepted, r = drainers[d].req
        PROVE  Resolved(r)'
    <3>1. dead'[x].state = "held" /\ dead'[x].req = r
      BY <1>t, <2>1, <2>4
    <3>2. QED
      BY <2>3, <3>1, RowResolves
  <2>5. ASSUME NEW r \in accepted, HasSafeRow(r)
        PROVE  Resolved(r)'
    <3>1. PICK y \in FailedIds \ Doomed : dead[y].state = "held" /\ dead[y].req = r
      BY <2>5 DEF HasSafeRow
    <3>2. dead'[y] = dead[y]
      BY <1>t, <2>1, <3>1
    <3>3. QED
      BY <1>o, <3>1, <3>2, RowResolves
  <2>6. QED
    BY <1>3, <1>5, <1>g, <2>4, <2>5, ResolutionFrame
<1>6. QED
  BY <1>1, <1>2, <1>4, <1>5 DEF Drain

\* An operator deletes a row only after the push that replaces it, or purges it.
LEMMA OperatorKeepsResolved ==
    ASSUME IInv, NEW o \in Operators, Replay(o) \/ Purge(o) \/ AbandonOperator(o)
    PROVE  \A r \in accepted : Resolved(r)'
<1> USE DEF queueVars, routeVars
<1>g. Grows
  BY OperatorGrows
<1>t. /\ jobs \in T!JobTables
      /\ dead \in [FailedIds -> DeadRow]
      /\ operators \in [Operators -> OperatorState]
      /\ OperatorOK(o)
      /\ accepted \subseteq Requests
  BY DEF IInv, TypeOK
<1>1. CASE \/ \E x \in FailedIds : ReplayFind(o, x) \/ PurgeFind(o, x)
           \/ ReplayPreflight(o) \/ ReplayLog(o) \/ AbandonOperator(o)
  <2>1. Doomed' \subseteq Doomed
    <3>1. \A p \in Operators : p # o => operators'[p] = operators[p]
      BY <1>1, <1>t DEF ReplayFind, PurgeFind, ReplayPreflight, ReplayLog, AbandonOperator, OperatorGo
    <3>2. operators'[o].step \in {"pushed", "logged"} =>
            operators[o].step \in {"pushed", "logged"} /\ operators'[o].row = operators[o].row
      BY <1>1, <1>t DEF ReplayFind, PurgeFind, ReplayPreflight, ReplayLog, AbandonOperator,
                        OperatorGo, IdleOperator, OperatorState
    <3>3. QED
      BY <3>1, <3>2 DEF Doomed
  <2>2. dead' = dead /\ jobs' = jobs
    BY <1>1 DEF ReplayFind, PurgeFind, ReplayPreflight, ReplayLog, AbandonOperator
  <2>3. QED
    BY <1>g, <2>1, <2>2, HarmlessSteps
<1>2. CASE ReplayPush(o)
  <2>1. PICK q \in Requests : q = operators[o].req /\ q \in accepted
    BY <1>2, <1>t DEF ReplayPush, OperatorOK
  <2>2. PICK j \in T!FreshIds(jobs) : jobs' = T!Push(jobs, j, q)
    BY <1>2, <2>1 DEF ReplayPush
  <2>3. /\ jobs'[j] = [state |-> "ready", payload |-> q, tries |-> 0]
        /\ \A k \in JobIds : jobs[k].state # "unused" => jobs'[k] = jobs[k]
    BY <1>t, <2>2, PushFrame
  <2>4. Resolved(q)'
    BY <2>3, JobResolves DEF T!Held, T!HeldStates, T!FreshIds
  <2>5. ASSUME NEW r \in accepted, T!HoldsPayload(jobs, r)
        PROVE  Resolved(r)'
    <3>1. PICK k \in JobIds : T!Held(jobs, k) /\ jobs[k].payload = r
      BY <2>5 DEF T!HoldsPayload
    <3>2. jobs'[k] = jobs[k]
      BY <2>3, <3>1 DEF T!Held, T!HeldStates
    <3>3. QED
      BY <3>1, <3>2, JobResolves DEF T!Held
  <2>6. ASSUME NEW r \in accepted, HasSafeRow(r), r # q
        PROVE  Resolved(r)'
    <3>1. PICK y \in FailedIds \ Doomed : dead[y].state = "held" /\ dead[y].req = r
      BY <2>6 DEF HasSafeRow
    <3>2. y # operators[o].row
      BY <1>2, <1>t, <2>1, <2>6, <3>1 DEF ReplayPush, OperatorOK
    <3>3. y \notin Doomed'
      <4>1. \A p \in Operators : p # o => operators'[p] = operators[p]
        BY <1>2, <1>t DEF ReplayPush, OperatorGo
      <4>2. operators'[o].row = operators[o].row
        BY <1>2, <1>t DEF ReplayPush, OperatorGo, OperatorState
      <4>3. QED
        BY <3>1, <3>2, <4>1, <4>2 DEF Doomed
    <3>4. QED
      BY <1>2, <3>1, <3>3, RowResolves DEF ReplayPush
  <2>7. QED
    BY <1>g, <2>4, <2>5, <2>6, ResolutionFrame
<1>3. CASE ReplayDelete(o) \/ PurgeDelete(o)
  <2>1. \A y \in FailedIds : y # operators[o].row => dead'[y] = dead[y]
    BY <1>3, <1>t DEF ReplayDelete, PurgeDelete
  <2>2. Doomed' \subseteq Doomed
    <3>1. \A p \in Operators : p # o => operators'[p] = operators[p]
      BY <1>3, <1>t DEF ReplayDelete, PurgeDelete
    <3>2. operators'[o].step = "idle"
      BY <1>3, <1>t DEF ReplayDelete, PurgeDelete, IdleOperator
    <3>3. QED
      BY <3>1, <3>2 DEF Doomed
  <2>3. jobs' = jobs
    BY <1>3 DEF ReplayDelete, PurgeDelete
  <2>4. ASSUME NEW r \in accepted, T!HoldsPayload(jobs, r)
        PROVE  Resolved(r)'
    BY <2>3, <2>4, JobResolves DEF T!HoldsPayload, T!Held
  <2>5. ASSUME NEW r \in accepted, HasSafeRow(r)
        PROVE  Resolved(r)'
    <3>1. PICK y \in FailedIds \ Doomed : dead[y].state = "held" /\ dead[y].req = r
      BY <2>5 DEF HasSafeRow
    <3>2. CASE y # operators[o].row
      BY <2>1, <2>2, <3>1, <3>2, RowResolves
    <3>3. CASE y = operators[o].row
      <4>1. PurgeDelete(o)
        BY <1>3, <3>1, <3>3 DEF ReplayDelete, Doomed
      <4>2. r \in purged'
        BY <1>t, <3>1, <3>3, <4>1 DEF PurgeDelete, OperatorOK
      <4>3. QED
        BY <4>2 DEF Resolved
    <3>4. QED
      BY <3>2, <3>3
  <2>6. QED
    BY <1>g, <2>4, <2>5, ResolutionFrame
<1>4. QED
  BY <1>1, <1>2, <1>3 DEF Replay, Purge

(***************************************************************************)
(* The theorems.                                                           *)
(***************************************************************************)
LEMMA InitIInv == Init => IInv
<1> SUFFICES ASSUME Init
             PROVE  IInv
  OBVIOUS
<1>1. TypeOK
  BY InitTypeOK
<1>2. /\ accepted = {}
      /\ \A j \in JobIds : jobs[j].state = "unused"
      /\ \A x \in FailedIds : dead[x].state = "unused"
      /\ \A d \in Drainers : drainers[d].step = "idle"
      /\ \A o \in Operators : operators[o].step = "idle"
  BY DEF Init, QueueInit, T!EmptyTable, IdleDrainer, IdleOperator
<1>3. QED
  BY <1>1, <1>2 DEF IInv, JobsNamed, RowsNamed, DrainerOK, OperatorOK

\* A drainer's step, seen from every part of the invariant.
LEMMA DrainIInv ==
    ASSUME IInv, NEW d \in Drainers, Drain(d) \/ AbandonJob(d)
    PROVE  IInv'
<1>1. TypeOK'
  <2>1. /\ TypeOK
        /\ drainers[d].step # "idle" => drainers[d].job \in JobIds /\ drainers[d].req \in Requests
        /\ \A j \in T!Poppable(jobs) : jobs[j].payload \in Requests
    BY DEF IInv, TypeOK, DrainerOK, JobsNamed, T!Poppable
  <2>2. QED
    BY <2>1, DrainTypeOK
<1>2. operators' = operators /\ accepted' = accepted
  BY DEF Drain, AbandonJob, DrainPop, LoadJob, ExecuteAcked, ExecuteFailed, MarkRouted,
         RemoveFromInbox, DeleteJob, ReleaseJob, FailJob
<1>3. \A o \in Operators : OperatorOK(o)'
  BY <1>2, DrainGrows, BystandersOK
<1>4. QED
  BY <1>1, <1>2, <1>3, DrainKeepsNames, DrainKeepsDrainers, DrainKeepsResolved DEF IInv

LEMMA OperatorIInv ==
    ASSUME IInv, NEW o \in Operators, Replay(o) \/ Purge(o) \/ AbandonOperator(o)
    PROVE  IInv'
<1>1. TypeOK'
  <2>1. /\ TypeOK
        /\ operators[o].step # "idle" => operators[o].row \in FailedIds /\ operators[o].req \in Requests
        /\ \A x \in FailedIds : dead[x].state # "unused" => dead[x].req \in Requests
    BY DEF IInv, TypeOK, OperatorOK, RowsNamed
  <2>2. QED
    BY <2>1, OperatorTypeOK
<1>2. drainers' = drainers /\ accepted' = accepted
  BY DEF Replay, Purge, AbandonOperator, ReplayFind, ReplayPreflight, ReplayPush, ReplayLog,
         ReplayDelete, PurgeFind, PurgeDelete
<1>3. \A d \in Drainers : DrainerOK(d)'
  BY <1>2, OperatorGrows, BystandersOK
<1>4. QED
  BY <1>1, <1>2, <1>3, OperatorKeepsNames, OperatorKeepsOperators, OperatorKeepsResolved DEF IInv

\* A new request has its job; a deleted destination and the clock take nothing away.
LEMMA OutsideIInv ==
    ASSUME IInv,
           \/ \E r \in Requests : EnqueueDestinationRetry(r)
           \/ \E t \in Destinations : DeleteDestination(t)
           \/ Clock
    PROVE  IInv'
<1> USE DEF queueVars, routeVars
<1>t. TypeOK /\ jobs \in T!JobTables
  BY DEF IInv, TypeOK
<1>g. Grows
  BY OutsideGrows
<1>1. TypeOK'
  BY <1>t, OutsideTypeOK
<1>2. dead' = dead /\ drainers' = drainers /\ operators' = operators
  BY DEF EnqueueDestinationRetry, DeleteDestination, Clock, LapseReservation, ReplayAges, CooldownEnds
<1>3. (\A d \in Drainers : DrainerOK(d)') /\ (\A o \in Operators : OperatorOK(o)')
  BY <1>g, <1>2, BystandersOK
<1>4. Doomed' = Doomed
  BY <1>2 DEF Doomed
<1>5. ASSUME NEW q \in Requests, EnqueueDestinationRetry(q)
      PROVE  JobsNamed' /\ RowsNamed' /\ (\A r \in accepted' : Resolved(r)')
  <2>1. PICK j \in T!FreshIds(jobs) : jobs' = T!Push(jobs, j, q)
    BY <1>5 DEF EnqueueDestinationRetry
  <2>2. accepted' = accepted \cup {q}
    BY <1>5 DEF EnqueueDestinationRetry
  <2>3. /\ jobs'[j] = [state |-> "ready", payload |-> q, tries |-> 0]
        /\ \A k \in JobIds : k # j => jobs'[k] = jobs[k]
    BY <1>t, <2>1, PushFrame
  <2>4. JobsNamed' /\ RowsNamed'
    BY <1>g, <1>2, <2>2, <2>3, NamesFrame
  <2>5. Resolved(q)'
    BY <2>3, JobResolves DEF T!Held, T!HeldStates, T!FreshIds
  <2>6. ASSUME NEW r \in accepted, T!HoldsPayload(jobs, r)
        PROVE  Resolved(r)'
    <3>1. PICK k \in JobIds : T!Held(jobs, k) /\ jobs[k].payload = r
      BY <2>6 DEF T!HoldsPayload
    <3>2. jobs'[k] = jobs[k]
      BY <2>3, <3>1 DEF T!Held, T!HeldStates, T!FreshIds
    <3>3. QED
      BY <3>1, <3>2, JobResolves DEF T!Held
  <2>7. ASSUME NEW r \in accepted, HasSafeRow(r)
        PROVE  Resolved(r)'
    BY <1>2, <1>4, <2>7, RowResolves DEF HasSafeRow
  <2>8. QED
    BY <1>g, <2>2, <2>4, <2>5, <2>6, <2>7, ResolutionFrame
<1>6. ASSUME \/ \E t \in Destinations : DeleteDestination(t)
             \/ Clock
      PROVE  JobsNamed' /\ RowsNamed' /\ (\A r \in accepted' : Resolved(r)')
  <2>1. accepted' = accepted
    BY <1>6 DEF DeleteDestination, Clock, LapseReservation, ReplayAges, CooldownEnds
  <2>2. \/ jobs' = jobs
        \/ \E j \in JobIds : jobs[j].state = "reserved" /\ jobs' = T!Lapse(jobs, j)
    BY <1>6 DEF DeleteDestination, Clock, LapseReservation, ReplayAges, CooldownEnds
  <2>3. \A k \in JobIds : jobs'[k].state # "unused" => jobs[k].state # "unused"
    BY <1>t, <2>2, TableFrame
  <2>4. JobsNamed' /\ RowsNamed'
    BY <1>g, <1>2, <2>3, NamesFrame
  <2>5. \A r \in accepted : Resolved(r)'
    BY <1>g, <1>2, <1>4, <2>2, HarmlessSteps
  <2>6. QED
    BY <2>1, <2>4, <2>5
<1>7. JobsNamed' /\ RowsNamed' /\ (\A r \in accepted' : Resolved(r)')
  BY <1>5, <1>6
<1>8. QED
  BY <1>1, <1>3, <1>7 DEF IInv

LEMMA NextIInv == IInv /\ [Next]_vars => IInv'
<1> SUFFICES ASSUME IInv, [Next]_vars
             PROVE  IInv'
  OBVIOUS
<1>1. ASSUME NEW d \in Drainers, Drain(d) \/ AbandonJob(d)
      PROVE  IInv'
  BY <1>1, DrainIInv
<1>2. ASSUME NEW o \in Operators, Replay(o) \/ Purge(o) \/ AbandonOperator(o)
      PROVE  IInv'
  BY <1>2, OperatorIInv
<1>3. CASE \/ \E r \in Requests : EnqueueDestinationRetry(r)
           \/ \E t \in Destinations : DeleteDestination(t)
           \/ Clock
  BY <1>3, OutsideIInv
<1>4. CASE UNCHANGED vars
  BY <1>4 DEF vars, queueVars, routeVars, IInv, TypeOK, JobsNamed, RowsNamed, DrainerOK, OperatorOK,
              Resolved, T!HoldsPayload, T!Held, HasSafeRow, Doomed, Delivered
<1>5. QED
  BY <1>1, <1>2, <1>3, <1>4 DEF Next, QueueNext

(***************************************************************************)
(* The inductive invariant holds in every reachable state, for any number  *)
(* of requests, drainers, operators, tries and faults.                     *)
(***************************************************************************)
THEOREM InvariantHolds == Spec => []IInv
BY InitIInv, NextIInv, PTL DEF Spec

(***************************************************************************)
(* Every table and every local copy of a job or row is well formed.        *)
(***************************************************************************)
THEOREM TypesHold == Spec => []TypeOK
<1>1. IInv => TypeOK
  BY DEF IInv
<1>2. QED
  BY InvariantHolds, <1>1, PTL

(***************************************************************************)
(* No accepted delivery request is ever lost, whichever write of           *)
(* processJob, ReplayFailed or PurgeFailed fails and however many drainers *)
(* and operators interleave.                                               *)
(***************************************************************************)
THEOREM NoRequestIsLost == Spec => []NothingLost
<1>1. IInv => NothingLost
  BY DEF IInv, NothingLost, Resolved, Kept, HasSafeRow, HasDeadRow
<1>2. QED
  BY InvariantHolds, <1>1, PTL

(***************************************************************************)
(* A delivered fragment never stays in the inbox with no job, dead letter  *)
(* or purge left to account for it.                                        *)
(***************************************************************************)
THEOREM SettledRequestsLeaveTheInbox == Spec => []SettledLeavesInbox
<1>1. IInv => SettledLeavesInbox
  BY DEF IInv, SettledLeavesInbox, Resolved, Kept, HasSafeRow, HasDeadRow
<1>2. QED
  BY InvariantHolds, <1>1, PTL

-------------------------------------------------------------------------------
(***************************************************************************)
(* The queue implements DeliveryLedger: what its callers may rely on.      *)
(***************************************************************************)
\* The ledger's variables as the queue shows them.
HeldNow == {r \in Requests : T!HoldsPayload(jobs, r) \/ HasDeadRow(r)}
AckedNow == {r \in Requests : acked[r] > 0}
shown == <<accepted, HeldNow, AckedNow, purged>>


(***************************************************************************)
(* How a step on the tables changes what is held.                          *)
(***************************************************************************)

\* Rows that stay held, or not held, under the same request change nothing.
LEMMA SameRows ==
    ASSUME \A k \in JobIds : /\ T!Held(jobs', k) <=> T!Held(jobs, k)
                             /\ T!Held(jobs, k) => jobs'[k].payload = jobs[k].payload,
           dead' = dead
    PROVE  HeldNow' = HeldNow
BY DEF HeldNow, T!HoldsPayload, HasDeadRow

\* Rows of one request that come or go leave the others' standing alone.
LEMMA RowsOfOne ==
    ASSUME NEW q \in Requests,
           \A k \in JobIds : \/ /\ T!Held(jobs', k) <=> T!Held(jobs, k)
                                /\ T!Held(jobs, k) => jobs'[k].payload = jobs[k].payload
                             \/ /\ T!Held(jobs, k) => jobs[k].payload = q
                                /\ T!Held(jobs', k) => jobs'[k].payload = q,
           \A x \in FailedIds : \/ dead'[x] = dead[x]
                                \/ /\ dead[x].state = "held" => dead[x].req = q
                                   /\ dead'[x].state = "held" => dead'[x].req = q
    PROVE  /\ q \in HeldNow' => HeldNow' = HeldNow \cup {q}
           /\ q \notin HeldNow' => HeldNow' = HeldNow \ {q}
<1>1. ASSUME NEW r \in Requests, r # q
      PROVE  r \in HeldNow' <=> r \in HeldNow
  <2>1. T!HoldsPayload(jobs', r) <=> T!HoldsPayload(jobs, r)
    BY <1>1 DEF T!HoldsPayload
  <2>2. HasDeadRow(r)' <=> HasDeadRow(r)
    BY <1>1 DEF HasDeadRow
  <2>3. QED
    BY <2>1, <2>2 DEF HeldNow
<1>2. HeldNow \subseteq Requests /\ HeldNow' \subseteq Requests
  BY DEF HeldNow
<1>3. QED
  BY <1>1, <1>2

\* Pop, Release and Lapse hold on to the row they are applied to.
LEMMA TableKeepsHeld ==
    ASSUME jobs \in T!JobTables, NEW j \in JobIds,
           \/ T!Held(jobs, j) /\ jobs' \in {T!Pop(jobs, j), T!Lapse(jobs, j)}
           \/ jobs' = T!Release(jobs, j)
    PROVE  \A k \in JobIds : /\ T!Held(jobs', k) <=> T!Held(jobs, k)
                             /\ T!Held(jobs, k) => jobs'[k].payload = jobs[k].payload
BY DEF T!Pop, T!Release, T!Lapse, T!Held, T!HeldStates, T!JobTables, T!JobRow

\* Push holds a row that was not held, for the request pushed.
LEMMA PushHolds ==
    ASSUME jobs \in T!JobTables, NEW j \in T!FreshIds(jobs), NEW r \in Requests,
           jobs' = T!Push(jobs, j, r)
    PROVE  /\ j \in JobIds /\ ~T!Held(jobs, j) /\ T!Held(jobs', j) /\ jobs'[j].payload = r
           /\ \A k \in JobIds \ {j} : jobs'[k] = jobs[k]
<1>1. /\ jobs'[j] = [state |-> "ready", payload |-> r, tries |-> 0]
      /\ \A k \in JobIds : k # j => jobs'[k] = jobs[k]
  BY PushFrame
<1>2. j \in JobIds /\ jobs[j].state = "unused"
  BY DEF T!FreshIds
<1>3. QED
  BY <1>1, <1>2 DEF T!Held, T!HeldStates

(***************************************************************************)
(* Every step is a step of the ledger or changes nothing it shows.         *)
(***************************************************************************)

\* A drainer delivers, closes what was delivered, or takes up again what failed.
LEMMA DrainImplements ==
    ASSUME IInv, NEW d \in Drainers, Drain(d) \/ AbandonJob(d)
    PROVE  [Ledger!Next]_shown
<1> USE DEF queueVars, routeVars
<1>t. /\ jobs \in T!JobTables
      /\ dead \in [FailedIds -> DeadRow]
      /\ acked \in [Requests -> 0..2]
      /\ accepted \subseteq Requests
      /\ DrainerOK(d)
  BY DEF IInv, TypeOK
<1>1. CASE DrainPop(d)
  <2>1. PICK j \in JobIds : T!Held(jobs, j) /\ jobs' = T!Pop(jobs, j)
    BY <1>1 DEF DrainPop, T!Poppable, T!Held, T!HeldStates
  <2>2. HeldNow' = HeldNow
    BY <1>1, <1>t, <2>1, TableKeepsHeld, SameRows DEF DrainPop
  <2>3. QED
    BY <1>1, <2>2 DEF DrainPop, shown, AckedNow
<1>2. CASE LoadJob(d) \/ ExecuteFailed(d) \/ MarkRouted(d) \/ RemoveFromInbox(d) \/ AbandonJob(d)
  <2>1. jobs' = jobs /\ dead' = dead /\ accepted' = accepted /\ acked' = acked /\ purged' = purged
    BY <1>2 DEF LoadJob, ExecuteFailed, MarkRouted, RemoveFromInbox, AbandonJob
  <2>2. QED
    BY <2>1 DEF shown, HeldNow, AckedNow, T!HoldsPayload, T!Held, HasDeadRow
<1>3. CASE ExecuteAcked(d)
  <2>1. PICK r \in Requests : r = drainers[d].req
    BY <1>3, <1>t DEF ExecuteAcked, DrainerOK
  <2>2. r \in accepted
    BY <1>3, <1>t, <2>1 DEF ExecuteAcked, DrainerOK
  <2>3. HeldNow' = HeldNow /\ accepted' = accepted /\ purged' = purged
    BY <1>3 DEF ExecuteAcked, HeldNow, T!HoldsPayload, T!Held, HasDeadRow
  <2>4. AckedNow' = AckedNow \cup {r}
    BY <1>3, <1>t, <2>1 DEF ExecuteAcked, AckUpTo2, AckedNow
  <2>5. Ledger!Deliver(r)
    BY <2>2, <2>3, <2>4 DEF Ledger!Deliver, HeldNow, AckedNow
  <2>6. QED
    BY <2>5 DEF Ledger!Next
<1>4. CASE DeleteJob(d)
  <2>1. PICK r \in Requests : r = drainers[d].req
    BY <1>4, <1>t DEF DeleteJob, DrainerOK
  <2>2. /\ drainers[d].job \in JobIds
        /\ jobs[drainers[d].job].payload = r
        /\ r \in AckedNow
        /\ jobs' = T!Delete(jobs, drainers[d].job)
    BY <1>4, <1>t, <2>1 DEF DeleteJob, DrainerOK, AckedNow
  <2>3. /\ r \in HeldNow' => HeldNow' = HeldNow \cup {r}
        /\ r \notin HeldNow' => HeldNow' = HeldNow \ {r}
    <3>1. \A k \in JobIds \ {drainers[d].job} : jobs'[k] = jobs[k]
      BY <1>t, <2>2, TableFrame
    <3>2. ~T!Held(jobs', drainers[d].job)
      BY <1>t, <2>2 DEF T!Delete, T!Held, T!HeldStates, T!JobTables, T!JobRow
    <3>3. dead' = dead
      BY <1>4 DEF DeleteJob
    <3>4. QED
      BY <2>2, <3>1, <3>2, <3>3, RowsOfOne DEF T!Held
  <2>4. accepted' = accepted /\ AckedNow' = AckedNow /\ purged' = purged
    BY <1>4 DEF DeleteJob, AckedNow
  <2>5. HeldNow' \subseteq HeldNow
    <3>1. \A k \in JobIds : T!Held(jobs', k) => T!Held(jobs, k) /\ jobs'[k] = jobs[k]
      BY <1>t, <2>2 DEF T!Delete, T!Held, T!HeldStates, T!JobTables, T!JobRow
    <3>2. QED
      BY <1>4, <3>1 DEF DeleteJob, HeldNow, T!HoldsPayload, HasDeadRow
  <2>6. CASE r \in HeldNow'
    BY <2>3, <2>4, <2>5, <2>6 DEF shown
  <2>7. CASE r \notin HeldNow' /\ r \in HeldNow
    <3>1. Ledger!Close(r)
      BY <2>2, <2>3, <2>4, <2>7 DEF Ledger!Close, HeldNow, AckedNow
    <3>2. QED
      BY <3>1 DEF Ledger!Next
  <2>8. CASE r \notin HeldNow' /\ r \notin HeldNow
    BY <2>3, <2>4, <2>8 DEF shown
  <2>9. QED
    BY <2>6, <2>7, <2>8
<1>5. CASE ReleaseJob(d)
  <2>1. drainers[d].job \in JobIds /\ jobs' = T!Release(jobs, drainers[d].job) /\ dead' = dead
    BY <1>5, <1>t DEF ReleaseJob, DrainerOK
  <2>2. HeldNow' = HeldNow
    BY <1>t, <2>1, TableKeepsHeld, SameRows
  <2>3. QED
    BY <1>5, <2>2 DEF ReleaseJob, shown, AckedNow
<1>6. CASE FailJob(d)
  <2>1. PICK r \in Requests : r = drainers[d].req
    BY <1>6, <1>t DEF FailJob, DrainerOK
  <2>2. PICK x \in FailedIds : dead[x].state = "unused" /\ dead' = [dead EXCEPT ![x] = [state |-> "held", req |-> r]]
    BY <1>6, <2>1 DEF FailJob
  <2>3. /\ drainers[d].job \in JobIds
        /\ jobs[drainers[d].job].payload = r
        /\ r \in accepted
        /\ jobs' = T!Delete(jobs, drainers[d].job)
    BY <1>6, <1>t, <2>1 DEF FailJob, DrainerOK
  <2>4. r \in HeldNow'
    BY <1>t, <2>2 DEF HeldNow, HasDeadRow
  <2>5. HeldNow' = HeldNow \cup {r}
    <3>1. \A k \in JobIds \ {drainers[d].job} : jobs'[k] = jobs[k]
      BY <1>t, <2>3, TableFrame
    <3>2. ~T!Held(jobs', drainers[d].job)
      BY <1>t, <2>3 DEF T!Delete, T!Held, T!HeldStates, T!JobTables, T!JobRow
    <3>3. /\ \A y \in FailedIds \ {x} : dead'[y] = dead[y]
          /\ dead'[x].req = r
      BY <1>t, <2>2
    <3>4. QED
      BY <2>2, <2>3, <2>4, <3>1, <3>2, <3>3, RowsOfOne DEF T!Held
  <2>6. accepted' = accepted /\ AckedNow' = AckedNow /\ purged' = purged
    BY <1>6 DEF FailJob, AckedNow
  <2>7. Ledger!TakeUpAgain(r)
    BY <2>3, <2>5, <2>6 DEF Ledger!TakeUpAgain, HeldNow, AckedNow
  <2>8. QED
    BY <2>7 DEF Ledger!Next
<1>7. QED
  BY <1>1, <1>2, <1>3, <1>4, <1>5, <1>6 DEF Drain

\* An operator takes up a dead letter, closes the one it replaced, or discards one.
LEMMA OperatorImplements ==
    ASSUME IInv, NEW o \in Operators, Replay(o) \/ Purge(o) \/ AbandonOperator(o)
    PROVE  [Ledger!Next]_shown
<1> USE DEF queueVars, routeVars
<1>t. /\ jobs \in T!JobTables
      /\ dead \in [FailedIds -> DeadRow]
      /\ accepted \subseteq Requests
      /\ OperatorOK(o)
  BY DEF IInv, TypeOK
<1>1. CASE \/ \E x \in FailedIds : ReplayFind(o, x) \/ PurgeFind(o, x)
           \/ ReplayPreflight(o) \/ ReplayLog(o) \/ AbandonOperator(o)
  <2>1. jobs' = jobs /\ dead' = dead /\ accepted' = accepted /\ acked' = acked /\ purged' = purged
    BY <1>1 DEF ReplayFind, PurgeFind, ReplayPreflight, ReplayLog, AbandonOperator
  <2>2. QED
    BY <2>1 DEF shown, HeldNow, AckedNow, T!HoldsPayload, T!Held, HasDeadRow
<1>2. CASE ReplayPush(o)
  <2>1. PICK r \in Requests : r = operators[o].req
    BY <1>2, <1>t DEF ReplayPush, OperatorOK
  <2>2. r \in accepted
    BY <1>2, <1>t, <2>1 DEF ReplayPush, OperatorOK
  <2>3. PICK j \in T!FreshIds(jobs) : jobs' = T!Push(jobs, j, r)
    BY <1>2, <2>1 DEF ReplayPush
  <2>4. /\ j \in JobIds /\ ~T!Held(jobs, j) /\ T!Held(jobs', j) /\ jobs'[j].payload = r
        /\ \A k \in JobIds \ {j} : jobs'[k] = jobs[k]
    BY <1>t, <2>3, PushHolds
  <2>5. dead' = dead /\ accepted' = accepted /\ AckedNow' = AckedNow /\ purged' = purged
    BY <1>2 DEF ReplayPush, AckedNow
  <2>6. HeldNow' = HeldNow \cup {r}
    <3>1. r \in HeldNow'
      BY <2>4 DEF HeldNow, T!HoldsPayload
    <3>2. QED
      BY <2>4, <2>5, <3>1, RowsOfOne DEF T!Held
  <2>7. Ledger!TakeUpAgain(r)
    BY <2>2, <2>5, <2>6 DEF Ledger!TakeUpAgain, HeldNow, AckedNow
  <2>8. QED
    BY <2>7 DEF Ledger!Next
<1>3. ASSUME ReplayDelete(o) \/ PurgeDelete(o)
      PROVE  [Ledger!Next]_shown
  <2>1. PICK r \in Requests : r = operators[o].req
    BY <1>3, <1>t DEF ReplayDelete, PurgeDelete, OperatorOK
  <2>2. /\ operators[o].row \in FailedIds
        /\ dead[operators[o].row].req = r
        /\ r \in accepted
        /\ dead' = [dead EXCEPT ![operators[o].row].state = "gone"]
    BY <1>3, <1>t, <2>1 DEF ReplayDelete, PurgeDelete, OperatorOK
  <2>3. /\ \A x \in FailedIds \ {operators[o].row} : dead'[x] = dead[x]
        /\ dead'[operators[o].row].state = "gone"
    BY <1>t, <2>2 DEF DeadRow
  <2>4. jobs' = jobs /\ accepted' = accepted /\ AckedNow' = AckedNow
    BY <1>3 DEF ReplayDelete, PurgeDelete, AckedNow
  <2>5. /\ r \in HeldNow' => HeldNow' = HeldNow \cup {r}
        /\ r \notin HeldNow' => HeldNow' = HeldNow \ {r}
    BY <2>2, <2>3, <2>4, RowsOfOne
  <2>6. HeldNow' \subseteq HeldNow
    BY <2>2, <2>3, <2>4 DEF HeldNow, T!HoldsPayload, HasDeadRow
  <2>7. CASE ReplayDelete(o)
    <3>1. purged' = purged
      BY <2>7 DEF ReplayDelete
    <3>2. CASE r \in HeldNow' \/ r \notin HeldNow
      BY <2>4, <2>5, <2>6, <3>1, <3>2 DEF shown
    <3>3. CASE r \notin HeldNow' /\ r \in HeldNow
      <4>1. Resolved(r)'
        BY <2>2, <2>4, OperatorIInv DEF IInv
      <4>2. r \in AckedNow \/ r \in purged
        BY <2>4, <3>1, <3>3, <4>1 DEF Resolved, Delivered, HasSafeRow, HasDeadRow, HeldNow, AckedNow
      <4>3. Ledger!Close(r)
        BY <2>4, <2>5, <3>1, <3>3, <4>2 DEF Ledger!Close, HeldNow, AckedNow
      <4>4. QED
        BY <4>3 DEF Ledger!Next
    <3>4. QED
      BY <3>2, <3>3
  <2>8. CASE PurgeDelete(o) /\ dead[operators[o].row].state = "held"
    <3>1. purged' = purged \cup {r}
      BY <2>1, <2>8 DEF PurgeDelete
    <3>2. r \in HeldNow
      BY <2>2, <2>8 DEF HeldNow, HasDeadRow
    <3>3. Ledger!Discard(r)
      BY <2>4, <2>5, <3>1, <3>2 DEF Ledger!Discard, HeldNow, AckedNow
    <3>4. QED
      BY <3>3 DEF Ledger!Next
  <2>9. CASE PurgeDelete(o) /\ dead[operators[o].row].state # "held"
    <3>1. purged' = purged
      BY <2>9 DEF PurgeDelete
    <3>2. HeldNow' = HeldNow
      BY <2>3, <2>4, <2>9 DEF HeldNow, T!HoldsPayload, HasDeadRow
    <3>3. QED
      BY <2>4, <3>1, <3>2 DEF shown
  <2>10. QED
    BY <1>3, <2>7, <2>8, <2>9
<1>4. QED
  BY <1>1, <1>2, <1>3 DEF Replay, Purge

\* A new request is submitted; the rest of the world shows nothing.
LEMMA OutsideImplements ==
    ASSUME IInv,
           \/ \E r \in Requests : EnqueueDestinationRetry(r)
           \/ \E t \in Destinations : DeleteDestination(t)
           \/ Clock
    PROVE  [Ledger!Next]_shown
<1> USE DEF queueVars, routeVars
<1>t. jobs \in T!JobTables
  BY DEF IInv, TypeOK
<1>1. ASSUME NEW r \in Requests, EnqueueDestinationRetry(r)
      PROVE  [Ledger!Next]_shown
  <2>1. PICK j \in T!FreshIds(jobs) : jobs' = T!Push(jobs, j, r)
    BY <1>1 DEF EnqueueDestinationRetry
  <2>2. /\ j \in JobIds /\ ~T!Held(jobs, j) /\ T!Held(jobs', j) /\ jobs'[j].payload = r
        /\ \A k \in JobIds \ {j} : jobs'[k] = jobs[k]
    BY <1>t, <2>1, PushHolds
  <2>3. /\ r \notin accepted /\ accepted' = accepted \cup {r}
        /\ dead' = dead /\ AckedNow' = AckedNow /\ purged' = purged
    BY <1>1 DEF EnqueueDestinationRetry, AckedNow
  <2>4. HeldNow' = HeldNow \cup {r}
    <3>1. r \in HeldNow'
      BY <2>2 DEF HeldNow, T!HoldsPayload
    <3>2. QED
      BY <2>2, <2>3, <3>1, RowsOfOne DEF T!Held
  <2>5. Ledger!Submit(r)
    BY <2>3, <2>4 DEF Ledger!Submit, HeldNow, AckedNow
  <2>6. QED
    BY <2>5 DEF Ledger!Next
<1>2. ASSUME NEW j \in JobIds, LapseReservation(j)
      PROVE  [Ledger!Next]_shown
  <2>1. T!Held(jobs, j) /\ jobs' = T!Lapse(jobs, j) /\ dead' = dead
    BY <1>2 DEF LapseReservation, T!Held, T!HeldStates
  <2>2. HeldNow' = HeldNow
    BY <1>t, <2>1, TableKeepsHeld, SameRows
  <2>3. QED
    BY <1>2, <2>2 DEF LapseReservation, shown, AckedNow
<1>3. ASSUME NEW t \in Destinations, DeleteDestination(t) \/ ReplayAges(t) \/ CooldownEnds(t)
      PROVE  [Ledger!Next]_shown
  <2>1. jobs' = jobs /\ dead' = dead /\ accepted' = accepted /\ acked' = acked /\ purged' = purged
    BY <1>3 DEF DeleteDestination, ReplayAges, CooldownEnds
  <2>2. QED
    BY <2>1 DEF shown, HeldNow, AckedNow, T!HoldsPayload, T!Held, HasDeadRow
<1>4. QED
  BY <1>1, <1>2, <1>3 DEF Clock

LEMMA InitImplements == Init => Ledger!Init
BY DEF Init, QueueInit, Ledger!Init, T!EmptyTable, T!HoldsPayload, T!Held, T!HeldStates, HasDeadRow

LEMMA NextImplements == IInv /\ [Next]_vars => [Ledger!Next]_(Ledger!ledger)
<1> SUFFICES ASSUME IInv, [Next]_vars
             PROVE  [Ledger!Next]_shown
  BY DEF Ledger!ledger, shown, HeldNow, AckedNow
<1>1. ASSUME NEW d \in Drainers, Drain(d) \/ AbandonJob(d)
      PROVE  [Ledger!Next]_shown
  BY <1>1, DrainImplements
<1>2. ASSUME NEW o \in Operators, Replay(o) \/ Purge(o) \/ AbandonOperator(o)
      PROVE  [Ledger!Next]_shown
  BY <1>2, OperatorImplements
<1>3. CASE \/ \E r \in Requests : EnqueueDestinationRetry(r)
           \/ \E t \in Destinations : DeleteDestination(t)
           \/ Clock
  BY <1>3, OutsideImplements
<1>4. CASE UNCHANGED vars
  BY <1>4 DEF vars, queueVars, shown, HeldNow, AckedNow, T!HoldsPayload, T!Held, HasDeadRow
<1>5. QED
  BY <1>1, <1>2, <1>3, <1>4 DEF Next, QueueNext

(***************************************************************************)
(* The queue keeps the ledger's promise: a submitted request is held until *)
(* the destination acknowledged it or an operator discarded it, through    *)
(* every failure of processJob, ReplayFailed and PurgeFailed.              *)
(***************************************************************************)
THEOREM QueueKeepsTheLedger == Spec => ImplementsLedger
BY InitImplements, NextImplements, InvariantHolds, PTL DEF Spec, ImplementsLedger, Ledger!Spec

-------------------------------------------------------------------------------
(***************************************************************************)
(* Repetitions.  The tries of a job: every reservation follows a push, a   *)
(* release or a fault, and only a drainer whose copy says that tries are   *)
(* left releases.  A drainer that holds such a copy has its release still  *)
(* to come, and a reserved job that nobody has popped last is the trace of *)
(* a fault that has yet to be spent.                                       *)
(***************************************************************************)
Used == MaxFaults - faults
Holders(j) == {d \in Drainers : drainers[d].job = j /\ drainers[d].tries < MaxTries}
Open(j) == IF jobs[j].state \in {"ready", "lapsed"} THEN 1 ELSE 0
Released(n) == IF n < MaxTries THEN n ELSE MaxTries - 1
Spent(j) == jobs[j].tries + Open(j) + Cardinality(Holders(j))
Granted(j) == 1 + Used + Released(jobs[j].tries)
Orphaned(j) ==
    /\ jobs[j].state = "reserved"
    /\ \A d \in Drainers : drainers[d].job = j => drainers[d].tries # jobs[j].tries

TriesCounted(j) ==
    /\ IsFiniteSet(Holders(j))
    /\ Spent(j) <= Granted(j)
    /\ Orphaned(j) => Spent(j) < Granted(j)

DrainerShape(d) ==
    /\ drainers[d].step = "idle" => drainers[d].job = NoJob
    /\ drainers[d].step = "releasing" => drainers[d].tries < MaxTries

(***************************************************************************)
(* Until the first fault: a reserved job has its drainer, and a request    *)
(* that stands in one place (a job, or a row no operator has replayed)     *)
(* stands in no other; what was acknowledged stands nowhere but under the  *)
(* drainer that is about to delete it.                                     *)
(***************************************************************************)
SafeRow(x) == x \notin Doomed /\ dead[x].state = "held"
Busy(d) == drainers[d].step # "idle"

OneDrainerEach ==
    /\ \A j \in JobIds : /\ jobs[j].state # "lapsed"
                         /\ jobs[j].state = "reserved" => \E d \in Drainers : Busy(d) /\ drainers[d].job = j
    /\ \A d \in Drainers : Busy(d) => jobs[drainers[d].job].state = "reserved"
    /\ \A d, e \in Drainers : Busy(d) /\ Busy(e) /\ drainers[d].job = drainers[e].job => d = e

OnePlaceEach ==
    /\ \A j, k \in JobIds : T!Held(jobs, j) /\ T!Held(jobs, k) /\ jobs[j].payload = jobs[k].payload => j = k
    /\ \A x, y \in FailedIds : SafeRow(x) /\ SafeRow(y) /\ dead[x].req = dead[y].req => x = y
    /\ \A j \in JobIds, x \in FailedIds : T!Held(jobs, j) /\ SafeRow(x) => jobs[j].payload # dead[x].req
    /\ \A o \in Operators : operators[o].step \in {"found", "forced", "preflighted", "purging"}
                                => dead[operators[o].row].state = "held"

AckedOnce ==
    /\ \A r \in Requests : acked[r] < 2 /\ (r \notin accepted => acked[r] = 0)
    /\ \A x \in FailedIds : SafeRow(x) => acked[dead[x].req] = 0
    /\ \A j \in JobIds : jobs[j].state = "ready" => acked[jobs[j].payload] = 0
    /\ \A d \in Drainers : drainers[d].step \in {"popped", "loaded", "failing", "releasing"}
                               => acked[drainers[d].req] = 0

Undisturbed == OneDrainerEach /\ OnePlaceEach /\ AckedOnce

RepeatInv ==
    /\ faults \in 0..MaxFaults
    /\ \A d \in Drainers : DrainerShape(d)
    /\ \A j \in JobIds : TriesCounted(j)
    /\ faults = MaxFaults => Undisturbed

(***************************************************************************)
(* The counting.                                                           *)
(***************************************************************************)
LEMMA CountTypes ==
    ASSUME IInv, RepeatInv
    PROVE  /\ MaxTries \in Nat \ {0} /\ MaxFaults \in Nat /\ faults \in 0..MaxFaults /\ Used \in Nat
           /\ \A j \in JobIds : /\ jobs[j] \in T!JobRow /\ jobs[j].tries \in Nat /\ Open(j) \in {0, 1}
                                /\ Released(jobs[j].tries) \in Nat
                                /\ IsFiniteSet(Holders(j)) /\ Cardinality(Holders(j)) \in Nat
                                /\ Spent(j) \in Nat /\ Granted(j) \in Nat
<1>1. MaxTries \in Nat \ {0} /\ MaxFaults \in Nat /\ faults \in 0..MaxFaults
  BY PolicyAssumption DEF RepeatInv
<1>2. Used \in Nat
  BY <1>1 DEF Used
<1>3. ASSUME NEW j \in JobIds
      PROVE  /\ jobs[j] \in T!JobRow /\ jobs[j].tries \in Nat /\ Open(j) \in {0, 1}
             /\ Released(jobs[j].tries) \in Nat
             /\ IsFiniteSet(Holders(j)) /\ Cardinality(Holders(j)) \in Nat
  <2>1. jobs[j] \in T!JobRow
    BY DEF IInv, TypeOK, T!JobTables
  <2>2. jobs[j].tries \in Nat
    BY <2>1 DEF T!JobRow
  <2>3. IsFiniteSet(Holders(j))
    BY DEF RepeatInv, TriesCounted
  <2>4. Cardinality(Holders(j)) \in Nat
    BY <2>3, FS_CardinalityType
  <2>5. Released(jobs[j].tries) \in Nat
    BY <1>1, <2>2 DEF Released
  <2> QED BY <2>1, <2>2, <2>3, <2>4, <2>5 DEF Open
<1>4. ASSUME NEW j \in JobIds PROVE Spent(j) \in Nat /\ Granted(j) \in Nat
  BY <1>2, <1>3 DEF Spent, Granted
<1> QED BY <1>1, <1>2, <1>3, <1>4

\* A job that a step does not touch stays counted: faults only give more.
LEMMA CountFrame ==
    ASSUME IInv, RepeatInv, NEW j \in JobIds, jobs'[j] = jobs[j],
           faults' \in Nat, faults' <= faults,
           \A d \in Drainers : \/ drainers'[d].job = drainers[d].job /\ drainers'[d].tries = drainers[d].tries
                               \/ drainers'[d].job # j /\ drainers[d].job # j
    PROVE  TriesCounted(j)'
<1>1. Holders(j)' = Holders(j)
  BY DEF Holders
<1>2. Orphaned(j)' <=> Orphaned(j)
  BY DEF Orphaned
<1>3. Spent(j)' = Spent(j)
  BY <1>1 DEF Spent, Open
<1>4. Spent(j) \in Nat /\ Granted(j) \in Nat /\ Granted(j)' \in Nat /\ Granted(j)' >= Granted(j)
  BY CountTypes DEF Granted, Used
<1>5. TriesCounted(j)
  BY DEF RepeatInv
<1> QED BY <1>1, <1>2, <1>3, <1>4, <1>5 DEF TriesCounted

\* What the drainer that moves says of the job it held.
LEMMA HolderLeaves ==
    ASSUME IInv, RepeatInv, NEW d \in Drainers, drainers' = [drainers EXCEPT ![d] = IdleDrainer],
           NEW j \in JobIds
    PROVE  /\ Holders(j)' = Holders(j) \ {d}
           /\ IsFiniteSet(Holders(j)') /\ Cardinality(Holders(j)') \in Nat
           /\ Cardinality(Holders(j)') <= Cardinality(Holders(j))
           /\ d \in Holders(j) => Cardinality(Holders(j)') = Cardinality(Holders(j)) - 1
<1>1. drainers \in [Drainers -> DrainerState] /\ j # NoJob
  BY RowAssumption DEF IInv, TypeOK
<1>2. drainers'[d].job = NoJob /\ \A e \in Drainers : e # d => drainers'[e] = drainers[e]
  BY <1>1 DEF IdleDrainer
<1>3. Holders(j)' = Holders(j) \ {d}
  BY <1>1, <1>2 DEF Holders
<1>4. IsFiniteSet(Holders(j)) /\ Cardinality(Holders(j)) \in Nat
  BY CountTypes
<1>5. IsFiniteSet(Holders(j) \ {d})
      /\ Cardinality(Holders(j) \ {d}) = Cardinality(Holders(j)) - (IF d \in Holders(j) THEN 1 ELSE 0)
  BY <1>4, FS_RemoveElement
<1>6. Cardinality(Holders(j) \ {d}) \in Nat
  BY <1>5, FS_CardinalityType
<1> QED BY <1>3, <1>4, <1>5, <1>6

LEMMA OthersCount ==
    ASSUME IInv, RepeatInv, NEW d \in Drainers, NEW j \in JobIds,
           \A e \in Drainers : e # d => drainers'[e] = drainers[e],
           drainers[d].job \in {j, NoJob}, drainers'[d].job \in {j, NoJob},
           \A k \in JobIds : k # j => jobs'[k] = jobs[k],
           faults' \in Nat, faults' <= faults
    PROVE  \A k \in JobIds : k # j => TriesCounted(k)'
<1> SUFFICES ASSUME NEW k \in JobIds, k # j PROVE TriesCounted(k)'
  OBVIOUS
<1>1. drainers'[d].job # k /\ drainers[d].job # k
  BY RowAssumption
<1> QED BY <1>1, CountFrame

\* A drainer that ends takes its release with it, or a fault is spent.
LEMMA EndCounts ==
    ASSUME IInv, RepeatInv, NEW d \in Drainers, Busy(d), NEW j \in JobIds, j = drainers[d].job,
           drainers' = [drainers EXCEPT ![d] = IdleDrainer],
           \/ faults' = faults /\ jobs' = T!Delete(jobs, j)
           \/ faults' = faults /\ jobs' = T!Release(jobs, j) /\ drainers[d].tries < MaxTries
           \/ jobs' = jobs /\ faults > 0 /\ faults' = faults - 1
    PROVE  \A k \in JobIds : TriesCounted(k)'
<1>1. /\ jobs \in T!JobTables /\ drainers \in [Drainers -> DrainerState]
      /\ faults \in Nat /\ faults' \in Nat /\ faults' <= faults /\ MaxFaults \in Nat
  BY CountTypes DEF IInv, TypeOK
<1>2. /\ jobs'[j].tries = jobs[j].tries
      /\ \A k \in JobIds : k # j => jobs'[k] = jobs[k]
      /\ \/ faults' = faults /\ jobs'[j].state # "reserved"
         \/ faults' = faults - 1
  BY <1>1 DEF T!Release, T!Delete, T!Held, T!HeldStates, T!JobTables, T!JobRow
<1>3. \A k \in JobIds : k # j => TriesCounted(k)'
  <2>1. drainers'[d].job = NoJob /\ \A e \in Drainers : e # d => drainers'[e] = drainers[e]
    BY <1>1 DEF IdleDrainer
  <2> QED BY <1>1, <1>2, <2>1, OthersCount
<1>4. TriesCounted(j)'
  <2>1. /\ IsFiniteSet(Holders(j)') /\ Cardinality(Holders(j)') \in Nat
        /\ Cardinality(Holders(j)') <= Cardinality(Holders(j))
        /\ d \in Holders(j) => Cardinality(Holders(j)') = Cardinality(Holders(j)) - 1
    BY HolderLeaves
  <2>2. /\ Open(j)' \in {0, 1} /\ Open(j) \in {0, 1} /\ jobs[j].tries \in Nat
        /\ Cardinality(Holders(j)) \in Nat
    BY CountTypes DEF Open
  <2>3. Open(j)' <= Open(j) \/ d \in Holders(j)
    BY <1>1, <2>2 DEF Open, Holders, T!Delete, T!JobTables, T!JobRow
  <2>4. Spent(j)' \in Nat /\ Spent(j)' <= Spent(j)
    BY <1>2, <2>1, <2>2, <2>3 DEF Spent
  <2>5. Spent(j) \in Nat /\ Granted(j) \in Nat /\ Spent(j) <= Granted(j)
    BY CountTypes DEF RepeatInv, TriesCounted
  <2>6. Used' = Used + (faults - faults') /\ Used \in Nat
    BY <1>1, CountTypes DEF Used
  <2>7. Granted(j)' = Granted(j) + (faults - faults')
    <3>1. Released(jobs'[j].tries) \in Nat /\ Released(jobs'[j].tries) = Released(jobs[j].tries)
      BY <1>2, CountTypes
    <3> QED BY <1>1, <2>6, <3>1 DEF Granted
  <2>8. CASE faults' = faults - 1
    <3>1. Granted(j)' = Granted(j) + 1
      BY <1>1, <2>7, <2>8
    <3> QED BY <2>1, <2>4, <2>5, <3>1 DEF TriesCounted
  <2>9. CASE faults' = faults /\ jobs'[j].state # "reserved"
    <3>1. Granted(j)' = Granted(j) /\ ~Orphaned(j)'
      BY <1>1, <2>5, <2>7, <2>9 DEF Orphaned
    <3> QED BY <2>1, <2>4, <2>5, <3>1 DEF TriesCounted
  <2> QED BY <1>2, <2>8, <2>9
<1> QED BY <1>3, <1>4

\* Who takes up a job has its copy and may release it once.
LEMMA PopCounts ==
    ASSUME IInv, RepeatInv, NEW d \in Drainers, DrainPop(d)
    PROVE  \A k \in JobIds : TriesCounted(k)'
<1>1. PICK j \in T!Poppable(jobs) :
        /\ jobs' = T!Pop(jobs, j)
        /\ drainers' = [drainers EXCEPT ![d] =
              [step |-> "popped", job |-> j, req |-> jobs[j].payload, tries |-> jobs[j].tries + 1]]
  BY DEF DrainPop
<1>2. /\ jobs \in T!JobTables /\ drainers \in [Drainers -> DrainerState]
      /\ j \in JobIds /\ jobs[j].state \in {"ready", "lapsed"} /\ jobs[j].tries \in Nat
      /\ faults' = faults /\ faults \in Nat /\ drainers[d].step = "idle" /\ drainers[d].job = NoJob
  BY CountTypes DEF DrainPop, RepeatInv, DrainerShape, IInv, TypeOK, T!Poppable
<1>3. /\ jobs'[j].tries = jobs[j].tries + 1 /\ jobs'[j].state = "reserved"
      /\ \A k \in JobIds : k # j => jobs'[k] = jobs[k]
  BY <1>1, <1>2 DEF T!Pop, T!JobTables
<1>4. /\ drainers'[d].job = j /\ drainers'[d].tries = jobs[j].tries + 1
      /\ \A e \in Drainers : e # d => drainers'[e] = drainers[e]
  BY <1>1, <1>2
<1>5. \A k \in JobIds : k # j => TriesCounted(k)'
  BY <1>2, <1>3, <1>4, OthersCount
<1>6. TriesCounted(j)'
  <2>1. ~Orphaned(j)'
    BY <1>3, <1>4 DEF Orphaned
  <2>2. /\ IsFiniteSet(Holders(j)) /\ Cardinality(Holders(j)) \in Nat /\ d \notin Holders(j)
        /\ MaxTries \in Nat \ {0} /\ Used \in Nat
        /\ Spent(j) \in Nat /\ Granted(j) \in Nat /\ Spent(j) <= Granted(j)
    BY <1>2, CountTypes, RowAssumption DEF RepeatInv, TriesCounted, Holders
  <2>3. Open(j) = 1 /\ Open(j)' = 0 /\ Used' = Used
    BY <1>2, <1>3 DEF Open, Used
  <2>4. CASE jobs[j].tries + 1 < MaxTries
    <3>1. Holders(j)' = Holders(j) \cup {d}
      BY <1>4, <2>4 DEF Holders
    <3>2. IsFiniteSet(Holders(j)') /\ Cardinality(Holders(j)') = Cardinality(Holders(j)) + 1
      BY <2>2, <3>1, FS_AddElement
    <3>3. Spent(j)' = Spent(j) + 1 /\ Spent(j)' \in Nat
      BY <1>2, <1>3, <2>2, <2>3, <3>2 DEF Spent
    <3>4. Granted(j)' = Granted(j) + 1
      BY <1>2, <1>3, <2>2, <2>3, <2>4 DEF Granted, Released
    <3> QED BY <2>1, <2>2, <3>2, <3>3, <3>4 DEF TriesCounted
  <2>5. CASE ~(jobs[j].tries + 1 < MaxTries)
    <3>1. Holders(j)' = Holders(j)
      BY <1>2, <1>4, <2>2, <2>5 DEF Holders
    <3>2. Spent(j)' = Spent(j) /\ Spent(j)' \in Nat
      BY <1>2, <1>3, <2>2, <2>3, <3>1 DEF Spent
    <3>3. Granted(j)' = Granted(j)
      BY <1>2, <1>3, <2>2, <2>3, <2>5 DEF Granted, Released
    <3> QED BY <2>1, <2>2, <3>1, <3>2, <3>3 DEF TriesCounted
  <2> QED BY <2>4, <2>5
<1> QED BY <1>5, <1>6

\* A lapse under a busy drainer is a fault; under none, one was spent before.
LEMMA LapseCounts ==
    ASSUME IInv, RepeatInv, NEW j \in JobIds, LapseReservation(j)
    PROVE  \A k \in JobIds : TriesCounted(k)'
<1>1. /\ jobs \in T!JobTables /\ jobs[j].state = "reserved" /\ jobs' = T!Lapse(jobs, j) /\ drainers' = drainers
      /\ faults \in Nat /\ faults' \in Nat /\ faults' <= faults /\ MaxFaults \in Nat
      /\ \/ faults > 0 /\ faults' = faults - 1
         \/ faults' = faults /\ ~BusyWith(j)
  BY CountTypes DEF LapseReservation, IInv, TypeOK
<1>2. /\ jobs'[j].tries = jobs[j].tries /\ jobs'[j].state = "lapsed"
      /\ \A k \in JobIds : k # j => jobs'[k] = jobs[k]
  BY <1>1 DEF T!Lapse, T!JobTables, T!JobRow
<1>3. ASSUME NEW k \in JobIds, k # j PROVE TriesCounted(k)'
  BY <1>1, <1>2, <1>3, CountFrame
<1>4. TriesCounted(j)'
  <2>1. Holders(j)' = Holders(j) /\ ~Orphaned(j)' /\ Open(j)' = 1 /\ Open(j) = 0
    BY <1>1, <1>2 DEF Holders, Orphaned, Open
  <2>2. /\ IsFiniteSet(Holders(j)) /\ Cardinality(Holders(j)) \in Nat /\ jobs[j].tries \in Nat
        /\ Spent(j) \in Nat /\ Granted(j) \in Nat /\ Spent(j) <= Granted(j)
        /\ Orphaned(j) => Spent(j) < Granted(j)
    BY CountTypes DEF RepeatInv, TriesCounted
  <2>3. Spent(j)' = Spent(j) + 1
    BY <1>2, <2>1, <2>2 DEF Spent
  <2>4. Used' = Used + (faults - faults') /\ Used \in Nat
    BY <1>1, CountTypes DEF Used
  <2>5. Granted(j)' = Granted(j) + (faults - faults')
    <3>1. Released(jobs'[j].tries) \in Nat /\ Released(jobs'[j].tries) = Released(jobs[j].tries)
      BY <1>2, CountTypes
    <3> QED BY <1>1, <2>4, <3>1 DEF Granted
  <2>6. CASE faults' = faults - 1
    <3>1. Granted(j)' = Granted(j) + 1
      BY <1>1, <2>5, <2>6
    <3> QED BY <2>1, <2>2, <2>3, <3>1 DEF TriesCounted
  <2>7. CASE faults' = faults /\ ~BusyWith(j)
    <3>1. Spent(j) < Granted(j) /\ Granted(j)' = Granted(j)
      BY <1>1, <2>2, <2>5, <2>7 DEF Orphaned, BusyWith
    <3> QED BY <2>1, <2>2, <2>3, <3>1 DEF TriesCounted
  <2> QED BY <1>1, <2>6, <2>7
<1> QED BY <1>3, <1>4

LEMMA PushCounts ==
    ASSUME IInv, RepeatInv, NEW j \in T!FreshIds(jobs), NEW r \in Requests, jobs' = T!Push(jobs, j, r),
           drainers' = drainers, faults' = faults
    PROVE  \A k \in JobIds : TriesCounted(k)'
<1>1. /\ jobs \in T!JobTables /\ faults \in Nat /\ Used \in Nat /\ MaxTries \in Nat \ {0} /\ j \in JobIds
      /\ jobs[j].state = "unused"
  BY CountTypes DEF IInv, TypeOK, T!FreshIds
<1>2. jobs'[j] = [state |-> "ready", payload |-> r, tries |-> 0] /\ \A k \in JobIds : k # j => jobs'[k] = jobs[k]
  BY <1>1, PushFrame
<1>3. ASSUME NEW k \in JobIds, k # j PROVE TriesCounted(k)'
  BY <1>1, <1>2, <1>3, CountFrame
<1>4. TriesCounted(j)'
  <2>1. \A d \in Drainers : drainers[d].job # j
    BY <1>1, RowAssumption DEF IInv, DrainerOK, RepeatInv, DrainerShape
  <2>2. Holders(j)' = {}
    BY <2>1 DEF Holders
  <2>3. IsFiniteSet(Holders(j)') /\ Cardinality(Holders(j)') = 0
    BY <2>2, FS_EmptySet
  <2>4. jobs'[j].tries = 0 /\ Open(j)' = 1 /\ ~Orphaned(j)'
    BY <1>2 DEF Open, Orphaned
  <2>5. Spent(j)' = 1
    BY <2>3, <2>4 DEF Spent
  <2>6. Granted(j)' >= 1
    BY <1>1, <2>4 DEF Granted, Released, Used
  <2> QED BY <2>3, <2>4, <2>5, <2>6 DEF TriesCounted
<1> QED BY <1>3, <1>4

\* A step in which drainers keep what they hold and no job changes.
LEMMA KeepersCount ==
    ASSUME IInv, RepeatInv, jobs' = jobs, faults' \in Nat, faults' <= faults,
           \A e \in Drainers : drainers'[e].job = drainers[e].job /\ drainers'[e].tries = drainers[e].tries
    PROVE  \A k \in JobIds : TriesCounted(k)'
BY CountFrame

LEMMA DrainCounts ==
    ASSUME IInv, RepeatInv, NEW d \in Drainers, Drain(d) \/ AbandonJob(d)
    PROVE  /\ \A k \in JobIds : TriesCounted(k)'
           /\ \A e \in Drainers : DrainerShape(e)'
           /\ faults' \in 0..MaxFaults
<1>t. /\ drainers \in [Drainers -> DrainerState] /\ faults \in 0..MaxFaults /\ MaxFaults \in Nat
      /\ \A e \in Drainers : DrainerShape(e)
  BY CountTypes DEF IInv, TypeOK, RepeatInv
<1>1. CASE DrainPop(d)
  <2>1. PICK w : w.step = "popped" /\ drainers' = [drainers EXCEPT ![d] = w]
    BY <1>1 DEF DrainPop
  <2>2. faults' = faults
    BY <1>1 DEF DrainPop
  <2>3. \A e \in Drainers : DrainerShape(e)'
    BY <1>t, <2>1 DEF DrainerShape
  <2> QED BY <1>t, <1>1, <2>2, <2>3, PopCounts
<1>2. CASE LoadJob(d) \/ ExecuteAcked(d) \/ ExecuteFailed(d) \/ MarkRouted(d) \/ RemoveFromInbox(d)
  <2>1. PICK s \in DrainerSteps : /\ Go(d, s) /\ s # "idle"
                                  /\ s = "releasing" => drainers[d].tries < MaxTries
    <3>1. drainers[d].tries \in Nat /\ MaxTries \in Nat
      BY <1>t, PolicyAssumption DEF DrainerState
    <3> QED BY <1>2, <3>1 DEF LoadJob, ExecuteAcked, ExecuteFailed, MarkRouted, RemoveFromInbox, DrainerSteps
  <2>2. jobs' = jobs /\ (faults' = faults \/ (faults > 0 /\ faults' = faults - 1))
    BY <1>2 DEF LoadJob, ExecuteAcked, ExecuteFailed, MarkRouted, RemoveFromInbox
  <2>3. faults' \in 0..MaxFaults /\ faults' <= faults
    BY <1>t, <2>2
  <2>4. drainers'[d] = [drainers[d] EXCEPT !.step = s] /\ \A e \in Drainers : e # d => drainers'[e] = drainers[e]
    BY <1>t, <2>1 DEF Go
  <2>5. drainers'[d].step = s /\ drainers'[d].job = drainers[d].job /\ drainers'[d].tries = drainers[d].tries
    BY <1>t, <2>4 DEF DrainerState
  <2>6. \A e \in Drainers : DrainerShape(e)'
    BY <1>t, <2>1, <2>4, <2>5 DEF DrainerShape
  <2>7. \A k \in JobIds : TriesCounted(k)'
    <3>1. \A e \in Drainers : drainers'[e].job = drainers[e].job /\ drainers'[e].tries = drainers[e].tries
      BY <2>4, <2>5
    <3>2. faults' \in Nat
      BY <1>t, <2>3
    <3> QED BY <2>2, <2>3, <3>1, <3>2, KeepersCount
  <2> QED BY <2>3, <2>6, <2>7
<1>3. CASE DeleteJob(d) \/ ReleaseJob(d) \/ FailJob(d) \/ AbandonJob(d)
  <2>1. Busy(d) /\ drainers' = [drainers EXCEPT ![d] = IdleDrainer]
    BY <1>3 DEF DeleteJob, ReleaseJob, FailJob, AbandonJob, Busy
  <2>2. PICK j \in JobIds : j = drainers[d].job
    BY <2>1 DEF Busy, IInv, DrainerOK
  <2>3. \/ faults' = faults /\ jobs' = T!Delete(jobs, j)
        \/ faults' = faults /\ jobs' = T!Release(jobs, j) /\ drainers[d].tries < MaxTries
        \/ jobs' = jobs /\ faults > 0 /\ faults' = faults - 1
    BY <1>t, <1>3, <2>2 DEF DeleteJob, ReleaseJob, FailJob, AbandonJob, DrainerShape
  <2>4. faults' \in 0..MaxFaults
    BY <1>t, <2>3
  <2>5. \A e \in Drainers : DrainerShape(e)'
    BY <1>t, <2>1 DEF DrainerShape, IdleDrainer
  <2>6. \A k \in JobIds : TriesCounted(k)'
    BY <2>1, <2>2, <2>3, EndCounts
  <2> QED BY <2>4, <2>5, <2>6
<1> QED BY <1>1, <1>2, <1>3 DEF Drain

LEMMA OperatorCounts ==
    ASSUME IInv, RepeatInv, NEW o \in Operators, Replay(o) \/ Purge(o) \/ AbandonOperator(o)
    PROVE  /\ \A k \in JobIds : TriesCounted(k)'
           /\ \A e \in Drainers : DrainerShape(e)'
           /\ faults' \in 0..MaxFaults
<1>t. /\ faults \in 0..MaxFaults /\ MaxFaults \in Nat /\ drainers' = drainers
      /\ \A e \in Drainers : DrainerShape(e)
  BY CountTypes DEF RepeatInv, Replay, Purge, AbandonOperator, ReplayFind, ReplayPreflight, ReplayPush, ReplayLog,
         ReplayDelete, PurgeFind, PurgeDelete
<1>1. \A e \in Drainers : DrainerShape(e)'
  BY <1>t DEF DrainerShape
<1>2. CASE ReplayPush(o)
  <2>1. PICK j \in T!FreshIds(jobs) : jobs' = T!Push(jobs, j, operators[o].req)
    BY <1>2 DEF ReplayPush
  <2>2. operators[o].req \in Requests
    BY <1>2 DEF ReplayPush, IInv, OperatorOK, TypeOK
  <2>3. faults' = faults
    BY <1>2 DEF ReplayPush
  <2> QED BY <1>t, <1>1, <2>1, <2>2, <2>3, PushCounts
<1>3. CASE ~ReplayPush(o)
  <2>1. jobs' = jobs /\ (faults' = faults \/ (faults > 0 /\ faults' = faults - 1))
    BY <1>3 DEF Replay, Purge, AbandonOperator, ReplayFind, ReplayPreflight, ReplayLog,
         ReplayDelete, PurgeFind, PurgeDelete
  <2>2. faults' \in 0..MaxFaults /\ faults' <= faults
    BY <1>t, <2>1
  <2>3. \A k \in JobIds : TriesCounted(k)'
    BY <1>t, <2>1, <2>2, KeepersCount
  <2> QED BY <1>1, <2>2, <2>3
<1> QED BY <1>2, <1>3

LEMMA OutsideCounts ==
    ASSUME IInv, RepeatInv,
           \/ \E r \in Requests : EnqueueDestinationRetry(r)
           \/ \E t \in Destinations : DeleteDestination(t)
           \/ Clock
           \/ UNCHANGED vars
    PROVE  /\ \A k \in JobIds : TriesCounted(k)'
           /\ \A e \in Drainers : DrainerShape(e)'
           /\ faults' \in 0..MaxFaults
<1>t. /\ faults \in 0..MaxFaults /\ MaxFaults \in Nat /\ drainers' = drainers
      /\ \A e \in Drainers : DrainerShape(e)
  BY CountTypes DEF RepeatInv, EnqueueDestinationRetry, DeleteDestination, Clock, LapseReservation, ReplayAges,
         CooldownEnds, vars, queueVars
<1>1. \A e \in Drainers : DrainerShape(e)'
  BY <1>t DEF DrainerShape
<1>2. ASSUME NEW r \in Requests, EnqueueDestinationRetry(r)
      PROVE  (\A k \in JobIds : TriesCounted(k)') /\ faults' \in 0..MaxFaults
  <2>1. faults' = faults /\ \E j \in T!FreshIds(jobs) : jobs' = T!Push(jobs, j, r)
    BY <1>2 DEF EnqueueDestinationRetry
  <2> QED BY <1>t, <2>1, PushCounts
<1>3. ASSUME NEW j \in JobIds, LapseReservation(j)
      PROVE  (\A k \in JobIds : TriesCounted(k)') /\ faults' \in 0..MaxFaults
  <2>1. faults' \in 0..MaxFaults
    BY <1>t, <1>3 DEF LapseReservation
  <2> QED BY <1>3, <2>1, LapseCounts
<1>4. ASSUME (\E t \in Destinations : DeleteDestination(t) \/ ReplayAges(t) \/ CooldownEnds(t)) \/ UNCHANGED vars
      PROVE  (\A k \in JobIds : TriesCounted(k)') /\ faults' \in 0..MaxFaults
  <2>1. jobs' = jobs /\ faults' = faults
    BY <1>4 DEF DeleteDestination, ReplayAges, CooldownEnds, vars, queueVars
  <2> QED BY <1>t, <2>1, KeepersCount
<1> QED BY <1>1, <1>2, <1>3, <1>4 DEF Clock

(***************************************************************************)
(* Before the first fault.                                                 *)
(***************************************************************************)
OneOperator == \A o, p \in Operators : o = p

LEMMA Holdings ==
    ASSUME IInv
    PROVE  /\ jobs \in T!JobTables /\ drainers \in [Drainers -> DrainerState]
           /\ operators \in [Operators -> OperatorState] /\ dead \in [FailedIds -> DeadRow]
           /\ acked \in [Requests -> 0..2] /\ accepted \in SUBSET Requests
           /\ \A j \in JobIds : jobs[j].state # "unused" => jobs[j].payload \in accepted
           /\ \A x \in FailedIds : dead[x].state # "unused" => dead[x].req \in accepted
           /\ \A d \in Drainers : Busy(d) => /\ drainers[d].job \in JobIds /\ drainers[d].req \in accepted
                                             /\ jobs[drainers[d].job].payload = drainers[d].req
           /\ \A o \in Operators : operators[o].step # "idle" =>
                  /\ operators[o].row \in FailedIds /\ operators[o].req \in accepted
                  /\ dead[operators[o].row].state # "unused" /\ dead[operators[o].row].req = operators[o].req
BY DEF IInv, TypeOK, JobsNamed, RowsNamed, DrainerOK, OperatorOK, Busy

\* Rows stop being safe, or nothing happens.
LEMMA FewerRows ==
    ASSUME Undisturbed, UNCHANGED <<jobs, drainers, acked, accepted>>,
           \A x \in FailedIds : SafeRow(x)' => SafeRow(x) /\ dead'[x].req = dead[x].req,
           \A o \in Operators : operators'[o].step \in {"found", "forced", "preflighted", "purging"}
                                    => dead'[operators'[o].row].state = "held"
    PROVE  Undisturbed'
<1>1. OneDrainerEach'
  BY DEF Undisturbed, OneDrainerEach, Busy
<1>2. OnePlaceEach'
  BY DEF Undisturbed, OnePlaceEach, T!Held
<1>3. AckedOnce'
  BY DEF Undisturbed, AckedOnce
<1> QED BY <1>1, <1>2, <1>3 DEF Undisturbed

\* A request gets a job while it stands nowhere and was not acknowledged.
LEMMA NewJob ==
    ASSUME IInv, Undisturbed, NEW j \in T!FreshIds(jobs), NEW r \in Requests, jobs' = T!Push(jobs, j, r),
           UNCHANGED <<drainers, acked>>, accepted \subseteq accepted', acked[r] = 0,
           \A k \in JobIds : T!Held(jobs, k) => jobs[k].payload # r,
           \A x \in FailedIds : SafeRow(x)' => SafeRow(x) /\ dead'[x].req = dead[x].req /\ dead[x].req # r,
           \A o \in Operators : operators'[o].step \in {"found", "forced", "preflighted", "purging"}
                                    => dead'[operators'[o].row].state = "held"
    PROVE  Undisturbed'
<1>1. /\ j \in JobIds /\ jobs[j].state = "unused" /\ jobs'[j] = [state |-> "ready", payload |-> r, tries |-> 0]
      /\ \A k \in JobIds : k # j => jobs'[k] = jobs[k]
  BY Holdings, PushFrame DEF T!FreshIds
<1>2. jobs'[j].state = "ready" /\ jobs'[j].payload = r
  BY <1>1
<1>3. OneDrainerEach'
  <2>1. \A d \in Drainers : Busy(d) => drainers[d].job # j /\ drainers[d].job \in JobIds
    BY <1>1, Holdings DEF Undisturbed, OneDrainerEach
  <2> QED BY <1>1, <1>2, <2>1 DEF Undisturbed, OneDrainerEach, Busy
<1>4. OnePlaceEach'
  <2>1. \A k \in JobIds : T!Held(jobs', k) => k = j \/ (T!Held(jobs, k) /\ jobs'[k].payload = jobs[k].payload)
    BY <1>1 DEF T!Held
  <2>2. \A k, l \in JobIds : T!Held(jobs', k) /\ T!Held(jobs', l) /\ jobs'[k].payload = jobs'[l].payload => k = l
    BY <1>2, <2>1 DEF Undisturbed, OnePlaceEach
  <2>3. \A x, y \in FailedIds : SafeRow(x)' /\ SafeRow(y)' /\ dead'[x].req = dead'[y].req => x = y
    BY DEF Undisturbed, OnePlaceEach
  <2>4. \A k \in JobIds, x \in FailedIds : T!Held(jobs', k) /\ SafeRow(x)' => jobs'[k].payload # dead'[x].req
    BY <1>2, <2>1 DEF Undisturbed, OnePlaceEach
  <2> QED BY <2>2, <2>3, <2>4 DEF OnePlaceEach
<1>5. AckedOnce'
  <2>1. \A q \in Requests : acked'[q] < 2 /\ (q \notin accepted' => acked'[q] = 0)
    BY DEF Undisturbed, AckedOnce
  <2>2. \A x \in FailedIds : SafeRow(x)' => acked'[dead'[x].req] = 0
    BY DEF Undisturbed, AckedOnce
  <2>3. \A k \in JobIds : jobs'[k].state = "ready" => acked'[jobs'[k].payload] = 0
    BY <1>1, <1>2 DEF Undisturbed, AckedOnce
  <2> QED BY <2>1, <2>2, <2>3 DEF Undisturbed, AckedOnce
<1> QED BY <1>3, <1>4, <1>5 DEF Undisturbed

LEMMA OperatorUndisturbed ==
    ASSUME IInv, Undisturbed, OneOperator, NEW o \in Operators, Replay(o) \/ Purge(o)
    PROVE  Undisturbed'
<1>t. /\ operators \in [Operators -> OperatorState] /\ dead \in [FailedIds -> DeadRow]
      /\ \A p \in Operators : p = o
      /\ operators[o].step # "idle" => /\ operators[o].row \in FailedIds /\ operators[o].req \in accepted
                                       /\ dead[operators[o].row].req = operators[o].req
      /\ operators[o].step \in {"found", "forced", "preflighted", "purging"} => dead[operators[o].row].state = "held"
  BY Holdings DEF OneOperator, Undisturbed, OnePlaceEach
<1>d. /\ operators[o].step \in {"pushed", "logged"} => Doomed = {operators[o].row}
      /\ operators[o].step \notin {"pushed", "logged"} => Doomed = {}
      /\ operators'[o].step \in {"pushed", "logged"} => Doomed' = {operators'[o].row}
      /\ operators'[o].step \notin {"pushed", "logged"} => Doomed' = {}
  BY <1>t DEF Doomed
<1>1. CASE ReplayPush(o)
  <2>1. PICK j \in T!FreshIds(jobs) : jobs' = T!Push(jobs, j, operators[o].req)
    BY <1>1 DEF ReplayPush
  <2>2. /\ operators[o].step \in {"forced", "preflighted"} /\ operators' = [operators EXCEPT ![o].step = "pushed"]
        /\ UNCHANGED <<dead, drainers, acked, accepted>>
    BY <1>1 DEF ReplayPush, OperatorGo
  <2>3. operators'[o].step = "pushed" /\ operators'[o].row = operators[o].row
    BY <1>t, <2>2 DEF OperatorState
  <2>4. PICK x \in FailedIds : x = operators[o].row /\ dead[x].req = operators[o].req /\ SafeRow(x)
    BY <1>t, <1>d, <2>2 DEF SafeRow
  <2>5. PICK r \in Requests : r = operators[o].req
    BY <1>t, <2>2, Holdings
  <2>6. acked[r] = 0 /\ \A k \in JobIds : T!Held(jobs, k) => jobs[k].payload # r
    BY <2>4, <2>5 DEF Undisturbed, AckedOnce, OnePlaceEach
  <2>7. \A y \in FailedIds : SafeRow(y)' => SafeRow(y) /\ dead'[y].req = dead[y].req /\ dead[y].req # r
    <3>1. SUFFICES ASSUME NEW y \in FailedIds, SafeRow(y)' PROVE SafeRow(y) /\ dead[y].req # r
      BY <2>2
    <3>2. y # x /\ dead[y].state = "held"
      BY <1>d, <2>2, <2>3, <2>4, <3>1 DEF SafeRow
    <3>3. SafeRow(y)
      BY <1>d, <2>2, <3>2 DEF SafeRow
    <3> QED BY <2>4, <2>5, <3>2, <3>3 DEF Undisturbed, OnePlaceEach
  <2>8. \A p \in Operators : operators'[p].step \notin {"found", "forced", "preflighted", "purging"}
    BY <1>t, <2>3
  <2> QED BY <2>1, <2>2, <2>5, <2>6, <2>7, <2>8, NewJob
<1>2. CASE ~ReplayPush(o)
  <2>1. UNCHANGED <<jobs, drainers, acked, accepted>>
    BY <1>2 DEF Replay, Purge, ReplayFind, ReplayPreflight, ReplayLog, ReplayDelete, PurgeFind, PurgeDelete
  <2>2. CASE ReplayDelete(o) \/ PurgeDelete(o)
    <3>1. /\ operators[o].step \in {"logged", "purging"} /\ operators' = [operators EXCEPT ![o] = IdleOperator]
          /\ dead' = [dead EXCEPT ![operators[o].row].state = "gone"]
      BY <2>2 DEF ReplayDelete, PurgeDelete
    <3>2. operators'[o].step = "idle" /\ Doomed' = {}
      BY <1>t, <1>d, <3>1 DEF IdleOperator
    <3>3. /\ dead'[operators[o].row].state = "gone"
          /\ \A x \in FailedIds : x # operators[o].row => dead'[x] = dead[x]
      BY <1>t, <3>1 DEF DeadRow
    <3>4. \A x \in FailedIds : SafeRow(x)' => SafeRow(x) /\ dead'[x].req = dead[x].req
      BY <1>d, <3>1, <3>2, <3>3 DEF SafeRow
    <3>5. \A p \in Operators : operators'[p].step \notin {"found", "forced", "preflighted", "purging"}
      BY <1>t, <3>2
    <3> QED BY <2>1, <3>4, <3>5, FewerRows
  <2>3. CASE ~(ReplayDelete(o) \/ PurgeDelete(o))
    <3>1. dead' = dead
      BY <1>2, <2>3 DEF Replay, Purge, ReplayFind, ReplayPreflight, ReplayLog, PurgeFind
    <3>2. Doomed' = Doomed /\ (operators'[o].step \in {"found", "forced", "preflighted", "purging"}
                                    => dead[operators'[o].row].state = "held")
      <4>1. ASSUME NEW x \in FailedIds, ReplayFind(o, x) \/ PurgeFind(o, x)
            PROVE  /\ operators[o].step = "idle" /\ operators'[o].row = x /\ dead[x].state = "held"
                   /\ operators'[o].step \in {"found", "forced", "purging"}
        BY <1>t, <4>1 DEF ReplayFind, PurgeFind
      <4>2. ASSUME ReplayPreflight(o)
            PROVE  /\ operators[o].step = "found"
                   /\ operators'[o].step = "idle" \/ (operators'[o].step = "preflighted" /\ operators'[o].row = operators[o].row)
        BY <1>t, <4>2 DEF ReplayPreflight, IdleOperator, OperatorState
      <4>3. ASSUME ReplayLog(o)
            PROVE  operators[o].step = "pushed" /\ operators'[o].step = "logged" /\ operators'[o].row = operators[o].row
        BY <1>t, <4>3 DEF ReplayLog, OperatorGo, OperatorState
      <4> QED BY <1>t, <1>d, <1>2, <2>3, <4>1, <4>2, <4>3 DEF Replay, Purge
    <3>3. \A x \in FailedIds : SafeRow(x)' => SafeRow(x) /\ dead'[x].req = dead[x].req
      BY <3>1, <3>2 DEF SafeRow
    <3> QED BY <1>t, <2>1, <3>1, <3>2, <3>3, FewerRows
  <2> QED BY <2>2, <2>3
<1> QED BY <1>1, <1>2

LEMMA OutsideUndisturbed ==
    ASSUME IInv, Undisturbed, faults' = faults,
           \/ \E r \in Requests : EnqueueDestinationRetry(r)
           \/ \E t \in Destinations : DeleteDestination(t)
           \/ Clock
           \/ UNCHANGED vars
    PROVE  Undisturbed'
<1>1. operators' = operators /\ dead' = dead /\ drainers' = drainers /\ acked' = acked
  BY DEF EnqueueDestinationRetry, DeleteDestination, Clock, LapseReservation, ReplayAges, CooldownEnds, vars, queueVars
<1>2. \A x \in FailedIds : SafeRow(x)' => SafeRow(x) /\ dead'[x].req = dead[x].req
  BY <1>1 DEF SafeRow, Doomed
<1>3. \A o \in Operators : operators'[o].step \in {"found", "forced", "preflighted", "purging"}
                               => dead'[operators'[o].row].state = "held"
  BY <1>1 DEF Undisturbed, OnePlaceEach
<1>4. ASSUME NEW r \in Requests, EnqueueDestinationRetry(r) PROVE Undisturbed'
  <2>1. r \notin accepted /\ accepted \subseteq accepted'
    BY <1>4 DEF EnqueueDestinationRetry
  <2>2. PICK j \in T!FreshIds(jobs) : jobs' = T!Push(jobs, j, r)
    BY <1>4 DEF EnqueueDestinationRetry
  <2>3. acked[r] = 0
    BY <2>1 DEF Undisturbed, AckedOnce
  <2>4. \A k \in JobIds : T!Held(jobs, k) => jobs[k].payload # r
    BY <2>1, Holdings DEF T!Held, T!HeldStates
  <2>5. \A x \in FailedIds : SafeRow(x) => dead[x].req # r
    BY <2>1, Holdings DEF SafeRow
  <2> QED BY <1>1, <1>2, <1>3, <2>1, <2>2, <2>3, <2>4, <2>5, NewJob
<1>5. ASSUME NEW j \in JobIds, LapseReservation(j) PROVE FALSE
  <2>1. BusyWith(j)
    BY <1>5 DEF LapseReservation, Undisturbed, OneDrainerEach, BusyWith
  <2> QED BY <1>5, <2>1 DEF LapseReservation, IInv, TypeOK
<1>6. ASSUME (\E t \in Destinations : DeleteDestination(t) \/ ReplayAges(t) \/ CooldownEnds(t)) \/ UNCHANGED vars
      PROVE  Undisturbed'
  <2>1. jobs' = jobs /\ accepted' = accepted
    BY <1>6 DEF DeleteDestination, ReplayAges, CooldownEnds, vars, queueVars
  <2> QED BY <1>1, <1>2, <1>3, <2>1, FewerRows
<1> QED BY <1>4, <1>5, <1>6 DEF Clock

\* What is known of a drainer at work.
LEMMA AtWork ==
    ASSUME IInv, Undisturbed, NEW d \in Drainers, Busy(d)
    PROVE  \E j \in JobIds, r \in accepted :
               /\ j = drainers[d].job /\ r = drainers[d].req /\ r \in Requests
               /\ jobs[j].payload = r /\ jobs[j].state = "reserved"
               /\ \A e \in Drainers : Busy(e) /\ (drainers[e].job = j \/ drainers[e].req = r) => e = d
               /\ \A k \in JobIds : T!Held(jobs, k) /\ jobs[k].payload = r => k = j
               /\ \A x \in FailedIds : SafeRow(x) => dead[x].req # r
<1>1. PICK j \in JobIds, r \in accepted : j = drainers[d].job /\ r = drainers[d].req /\ jobs[j].payload = r
  BY Holdings
<1>2. jobs[j].state = "reserved" /\ T!Held(jobs, j) /\ r \in Requests
  BY <1>1, Holdings DEF Undisturbed, OneDrainerEach, T!Held, T!HeldStates
<1>3. \A k \in JobIds : T!Held(jobs, k) /\ jobs[k].payload = r => k = j
  BY <1>1, <1>2 DEF Undisturbed, OnePlaceEach
<1>4. \A x \in FailedIds : SafeRow(x) => dead[x].req # r
  BY <1>1, <1>2 DEF Undisturbed, OnePlaceEach
<1>5. ASSUME NEW e \in Drainers, Busy(e), drainers[e].job = j \/ drainers[e].req = r PROVE e = d
  <2>1. drainers[e].job \in JobIds /\ jobs[drainers[e].job].payload = drainers[e].req
        /\ jobs[drainers[e].job].state = "reserved"
    BY <1>5, Holdings DEF Undisturbed, OneDrainerEach
  <2>2. T!Held(jobs, drainers[e].job)
    BY <2>1 DEF T!Held, T!HeldStates
  <2>3. drainers[e].job = j
    BY <1>3, <1>5, <2>1, <2>2
  <2> QED BY <1>1, <1>5, <2>3 DEF Undisturbed, OneDrainerEach
<1> QED BY <1>1, <1>2, <1>3, <1>4, <1>5

LEMMA WorkUndisturbed ==
    ASSUME IInv, Undisturbed, faults' = faults, NEW d \in Drainers,
           LoadJob(d) \/ ExecuteAcked(d) \/ ExecuteFailed(d) \/ MarkRouted(d) \/ RemoveFromInbox(d)
    PROVE  Undisturbed'
<1>1. /\ Busy(d) /\ UNCHANGED <<jobs, dead, operators, accepted>>
      /\ \E s \in DrainerSteps \ {"idle"} :
             /\ Go(d, s)
             /\ s \in {"popped", "loaded", "failing", "releasing"} => drainers[d].step \in {"popped", "loaded"}
      /\ \/ acked' = acked
         \/ /\ drainers[d].step = "loaded" /\ Go(d, "acked")
            /\ acked' = [acked EXCEPT ![drainers[d].req] = AckUpTo2(@)]
  BY DEF LoadJob, ExecuteAcked, ExecuteFailed, MarkRouted, RemoveFromInbox, Busy, DrainerSteps
<1>2. PICK s \in DrainerSteps \ {"idle"} :
          /\ Go(d, s)
          /\ s \in {"popped", "loaded", "failing", "releasing"} => drainers[d].step \in {"popped", "loaded"}
  BY <1>1
<1>3. /\ drainers'[d].step = s /\ drainers'[d].job = drainers[d].job /\ drainers'[d].req = drainers[d].req
      /\ \A e \in Drainers : e # d => drainers'[e] = drainers[e]
  <2>1. drainers'[d] = [drainers[d] EXCEPT !.step = s] /\ drainers[d] \in DrainerState
    BY <1>2, Holdings DEF Go
  <2>2. drainers'[d].step = s /\ drainers'[d].job = drainers[d].job /\ drainers'[d].req = drainers[d].req
    BY <2>1 DEF DrainerState
  <2> QED BY <1>2, <2>2, Holdings DEF Go
<1>4. PICK j \in JobIds, r \in accepted :
          /\ j = drainers[d].job /\ r = drainers[d].req /\ r \in Requests
          /\ jobs[j].payload = r /\ jobs[j].state = "reserved"
          /\ \A e \in Drainers : Busy(e) /\ (drainers[e].job = j \/ drainers[e].req = r) => e = d
          /\ \A k \in JobIds : T!Held(jobs, k) /\ jobs[k].payload = r => k = j
          /\ \A x \in FailedIds : SafeRow(x) => dead[x].req # r
  BY <1>1, AtWork
<1>5. OneDrainerEach'
  <2>1. \A e \in Drainers : (Busy(e)' <=> Busy(e)) /\ drainers'[e].job = drainers[e].job
    BY <1>1, <1>2, <1>3 DEF Busy
  <2> QED BY <1>1, <2>1 DEF Undisturbed, OneDrainerEach
<1>6. \A x \in FailedIds : SafeRow(x)' => SafeRow(x)
  BY <1>1 DEF SafeRow, Doomed
<1>7. OnePlaceEach'
  BY <1>1, <1>6 DEF Undisturbed, OnePlaceEach, T!Held
<1>8. AckedOnce'
  <2>1. CASE acked' = acked
    <3>1. ASSUME NEW e \in Drainers, drainers'[e].step \in {"popped", "loaded", "failing", "releasing"}
          PROVE  acked'[drainers'[e].req] = 0
      <4>1. drainers[e].step \in {"popped", "loaded", "failing", "releasing"} /\ drainers'[e].req = drainers[e].req
        BY <1>2, <1>3, <3>1
      <4> QED BY <2>1, <4>1 DEF Undisturbed, AckedOnce
    <3> QED BY <1>1, <1>6, <2>1, <3>1 DEF Undisturbed, AckedOnce
  <2>2. CASE /\ drainers[d].step = "loaded" /\ Go(d, "acked")
             /\ acked' = [acked EXCEPT ![drainers[d].req] = AckUpTo2(@)]
    <3>1. acked[r] = 0
      BY <1>4, <2>2 DEF Undisturbed, AckedOnce
    <3>2. acked'[r] = 1 /\ \A q \in Requests : q # r => acked'[q] = acked[q]
      BY <1>4, <2>2, <3>1, Holdings DEF AckUpTo2
    <3>3. drainers'[d].step = "acked"
      BY <2>2, Holdings DEF Go, DrainerState
    <3>4. \A q \in Requests : acked'[q] < 2 /\ (q \notin accepted' => acked'[q] = 0)
      BY <1>1, <3>2 DEF Undisturbed, AckedOnce
    <3>5. ASSUME NEW x \in FailedIds, SafeRow(x)' PROVE acked'[dead'[x].req] = 0
      <4>1. SafeRow(x) /\ dead[x].req # r /\ dead[x].req \in Requests
        BY <1>4, <1>6, <3>5, Holdings DEF SafeRow
      <4> QED BY <1>1, <3>2, <4>1 DEF Undisturbed, AckedOnce
    <3>6. ASSUME NEW k \in JobIds, jobs'[k].state = "ready" PROVE acked'[jobs'[k].payload] = 0
      <4>1. jobs[k].state = "ready" /\ T!Held(jobs, k) /\ jobs[k].payload \in Requests
        BY <1>1, <3>6, Holdings DEF T!Held, T!HeldStates
      <4>2. jobs[k].payload # r
        BY <1>4, <4>1
      <4> QED BY <1>1, <3>2, <4>1, <4>2 DEF Undisturbed, AckedOnce
    <3>7. ASSUME NEW e \in Drainers, drainers'[e].step \in {"popped", "loaded", "failing", "releasing"}
          PROVE  acked'[drainers'[e].req] = 0
      <4>1. e # d /\ drainers'[e] = drainers[e] /\ Busy(e)
        BY <1>3, <3>3, <3>7 DEF Busy
      <4>2. drainers[e].req # r /\ drainers[e].req \in Requests
        BY <1>4, <4>1, Holdings
      <4> QED BY <3>2, <3>7, <4>1, <4>2 DEF Undisturbed, AckedOnce
    <3> QED BY <3>4, <3>5, <3>6, <3>7 DEF AckedOnce
  <2> QED BY <1>1, <2>1, <2>2
<1> QED BY <1>5, <1>7, <1>8 DEF Undisturbed

LEMMA PopUndisturbed ==
    ASSUME IInv, Undisturbed, NEW d \in Drainers, DrainPop(d)
    PROVE  Undisturbed'
<1>1. PICK j \in T!Poppable(jobs) :
        /\ jobs' = T!Pop(jobs, j)
        /\ drainers' = [drainers EXCEPT ![d] =
              [step |-> "popped", job |-> j, req |-> jobs[j].payload, tries |-> jobs[j].tries + 1]]
  BY DEF DrainPop
<1>2. /\ j \in JobIds /\ jobs[j].state = "ready" /\ drainers[d].step = "idle"
      /\ UNCHANGED <<dead, operators, acked, accepted>>
  BY DEF DrainPop, Undisturbed, OneDrainerEach, T!Poppable
<1>3. /\ jobs'[j].state = "reserved" /\ jobs'[j].payload = jobs[j].payload
      /\ \A k \in JobIds : k # j => jobs'[k] = jobs[k]
  BY <1>1, <1>2, Holdings DEF T!Pop, T!JobTables
<1>4. /\ drainers'[d].step = "popped" /\ drainers'[d].job = j /\ drainers'[d].req = jobs[j].payload
      /\ \A e \in Drainers : e # d => drainers'[e] = drainers[e]
  BY <1>1, Holdings
<1>5. \A e \in Drainers : Busy(e) => drainers[e].job # j /\ drainers[e].job \in JobIds /\ e # d
  BY <1>2, Holdings DEF Undisturbed, OneDrainerEach, Busy
<1>6. OneDrainerEach'
  <2>1. ASSUME NEW k \in JobIds
        PROVE  /\ jobs'[k].state # "lapsed"
               /\ jobs'[k].state = "reserved" => \E e \in Drainers : Busy(e)' /\ drainers'[e].job = k
    <3>1. CASE k = j
      BY <1>3, <1>4, <3>1 DEF Busy
    <3>2. CASE k # j
      <4>1. jobs'[k] = jobs[k]
        BY <1>3, <3>2
      <4>2. ASSUME jobs[k].state = "reserved" PROVE \E e \in Drainers : Busy(e)' /\ drainers'[e].job = k
        <5>1. PICK e \in Drainers : Busy(e) /\ drainers[e].job = k
          BY <4>2 DEF Undisturbed, OneDrainerEach
        <5> QED BY <1>4, <1>5, <5>1 DEF Busy
      <4> QED BY <4>1, <4>2 DEF Undisturbed, OneDrainerEach
    <3> QED BY <3>1, <3>2
  <2>2. \A e \in Drainers : Busy(e)' => jobs'[drainers'[e].job].state = "reserved"
    BY <1>3, <1>4, <1>5 DEF Undisturbed, OneDrainerEach, Busy
  <2>3. \A e, f \in Drainers : Busy(e)' /\ Busy(f)' /\ drainers'[e].job = drainers'[f].job => e = f
    BY <1>4, <1>5 DEF Undisturbed, OneDrainerEach, Busy
  <2> QED BY <2>1, <2>2, <2>3 DEF OneDrainerEach
<1>7. \A k \in JobIds : (T!Held(jobs', k) <=> T!Held(jobs, k)) /\ jobs'[k].payload = jobs[k].payload
  BY <1>2, <1>3 DEF T!Held, T!HeldStates
<1>8. \A x \in FailedIds : SafeRow(x)' => SafeRow(x)
  BY <1>2 DEF SafeRow, Doomed
<1>9. OnePlaceEach'
  BY <1>2, <1>7, <1>8 DEF Undisturbed, OnePlaceEach
<1>10. AckedOnce'
  <2>1. \A k \in JobIds : jobs'[k].state = "ready" => acked'[jobs'[k].payload] = 0
    BY <1>2, <1>3 DEF Undisturbed, AckedOnce
  <2>2. \A e \in Drainers : drainers'[e].step \in {"popped", "loaded", "failing", "releasing"}
                                => acked'[drainers'[e].req] = 0
    BY <1>2, <1>4 DEF Undisturbed, AckedOnce
  <2>3. \A x \in FailedIds : SafeRow(x)' => acked'[dead'[x].req] = 0
    BY <1>2, <1>8 DEF Undisturbed, AckedOnce
  <2> QED BY <1>2, <2>1, <2>2, <2>3 DEF Undisturbed, AckedOnce
<1> QED BY <1>6, <1>9, <1>10 DEF Undisturbed

LEMMA EndUndisturbed ==
    ASSUME IInv, Undisturbed, NEW d \in Drainers, DeleteJob(d) \/ ReleaseJob(d) \/ FailJob(d)
    PROVE  Undisturbed'
<1>1. /\ Busy(d) /\ drainers' = [drainers EXCEPT ![d] = IdleDrainer]
      /\ UNCHANGED <<operators, acked, accepted>>
  BY DEF DeleteJob, ReleaseJob, FailJob, Busy
<1>2. PICK j \in JobIds, r \in accepted :
          /\ j = drainers[d].job /\ r = drainers[d].req /\ r \in Requests
          /\ jobs[j].payload = r /\ jobs[j].state = "reserved"
          /\ \A e \in Drainers : Busy(e) /\ (drainers[e].job = j \/ drainers[e].req = r) => e = d
          /\ \A k \in JobIds : T!Held(jobs, k) /\ jobs[k].payload = r => k = j
          /\ \A x \in FailedIds : SafeRow(x) => dead[x].req # r
  BY <1>1, AtWork
<1>3. drainers'[d].step = "idle" /\ \A e \in Drainers : e # d => drainers'[e] = drainers[e]
  BY <1>1, Holdings DEF IdleDrainer
<1>4. /\ jobs'[j].payload = r /\ \A k \in JobIds : k # j => jobs'[k] = jobs[k]
      /\ \/ jobs'[j].state = "gone" /\ (DeleteJob(d) \/ FailJob(d))
         \/ jobs'[j].state = "ready" /\ ReleaseJob(d)
  BY <1>2, Holdings DEF DeleteJob, ReleaseJob, FailJob, T!Delete, T!Release, T!Held, T!HeldStates, T!JobTables, T!JobRow
<1>5. OneDrainerEach'
  <2>1. ASSUME NEW k \in JobIds
        PROVE  /\ jobs'[k].state # "lapsed"
               /\ jobs'[k].state = "reserved" => \E e \in Drainers : Busy(e)' /\ drainers'[e].job = k
    <3>1. CASE k = j
      BY <1>4, <3>1
    <3>2. CASE k # j
      <4>1. jobs'[k] = jobs[k]
        BY <1>4, <3>2
      <4>2. ASSUME jobs[k].state = "reserved" PROVE \E e \in Drainers : Busy(e)' /\ drainers'[e].job = k
        <5>1. PICK e \in Drainers : Busy(e) /\ drainers[e].job = k
          BY <4>2 DEF Undisturbed, OneDrainerEach
        <5>2. e # d /\ drainers'[e] = drainers[e]
          BY <1>2, <1>3, <3>2, <5>1
        <5> QED BY <5>1, <5>2 DEF Busy
      <4> QED BY <4>1, <4>2 DEF Undisturbed, OneDrainerEach
    <3> QED BY <3>1, <3>2
  <2>2. ASSUME NEW e \in Drainers, Busy(e)'
        PROVE  Busy(e) /\ e # d /\ drainers'[e] = drainers[e] /\ drainers[e].job \in JobIds /\ drainers[e].job # j
    <3>1. e # d /\ drainers'[e] = drainers[e]
      BY <1>3, <2>2 DEF Busy
    <3> QED BY <1>2, <2>2, <3>1, Holdings DEF Busy
  <2>3. \A e \in Drainers : Busy(e)' => jobs'[drainers'[e].job].state = "reserved"
    BY <1>4, <2>2 DEF Undisturbed, OneDrainerEach
  <2>4. \A e, f \in Drainers : Busy(e)' /\ Busy(f)' /\ drainers'[e].job = drainers'[f].job => e = f
    BY <2>2 DEF Undisturbed, OneDrainerEach
  <2> QED BY <2>1, <2>3, <2>4 DEF OneDrainerEach
<1>6. \A k \in JobIds : jobs'[k].payload = jobs[k].payload /\ (T!Held(jobs', k) => T!Held(jobs, k))
  BY <1>2, <1>4 DEF T!Held, T!HeldStates
<1>7. Doomed' = Doomed
  BY <1>1 DEF Doomed
<1>8. \A e \in Drainers : drainers'[e].step \in {"popped", "loaded", "failing", "releasing"}
                              => acked'[drainers'[e].req] = 0
  BY <1>1, <1>3 DEF Undisturbed, AckedOnce
<1>9. CASE ~FailJob(d)
  <2>1. dead' = dead
    BY <1>9 DEF DeleteJob, ReleaseJob
  <2>2. OnePlaceEach'
    BY <1>1, <1>6, <1>7, <2>1 DEF Undisturbed, OnePlaceEach, SafeRow
  <2>3. ASSUME NEW k \in JobIds, jobs'[k].state = "ready" PROVE acked'[jobs'[k].payload] = 0
    <3>1. CASE k = j
      <4>1. drainers[d].step = "releasing"
        BY <1>4, <2>3, <3>1 DEF ReleaseJob
      <4> QED BY <1>1, <1>2, <1>4, <3>1, <4>1 DEF Undisturbed, AckedOnce
    <3>2. CASE k # j
      BY <1>1, <1>4, <2>3, <3>2 DEF Undisturbed, AckedOnce
    <3> QED BY <3>1, <3>2
  <2>4. AckedOnce'
    BY <1>1, <1>7, <1>8, <2>1, <2>3 DEF Undisturbed, AckedOnce, SafeRow
  <2> QED BY <1>5, <2>2, <2>4 DEF Undisturbed
<1>10. CASE FailJob(d)
  <2>1. PICK x \in FailedIds : dead[x].state = "unused" /\ dead' = [dead EXCEPT ![x] = [state |-> "held", req |-> r]]
    BY <1>2, <1>10 DEF FailJob
  <2>2. dead'[x].req = r /\ \A y \in FailedIds : y # x => dead'[y] = dead[y]
    BY <2>1, Holdings
  <2>3. jobs'[j].state = "gone" /\ acked[r] = 0
    <3>1. jobs'[j].state = "gone"
      BY <1>2, <1>10, Holdings DEF FailJob, T!Delete, T!JobTables, T!JobRow
    <3>2. drainers[d].step = "failing"
      BY <1>10 DEF FailJob
    <3> QED BY <1>2, <3>1, <3>2 DEF Undisturbed, AckedOnce
  <2>4. \A y \in FailedIds : SafeRow(y)' => y = x \/ (SafeRow(y) /\ dead[y].req # r /\ dead'[y] = dead[y])
    BY <1>2, <1>7, <2>2 DEF SafeRow
  <2>5. \A k \in JobIds : T!Held(jobs', k) => jobs[k].payload # r /\ T!Held(jobs, k)
    BY <1>2, <1>4, <1>6, <2>3 DEF T!Held, T!HeldStates
  <2>6. OnePlaceEach'
    <3>1. \A k, l \in JobIds : T!Held(jobs', k) /\ T!Held(jobs', l) /\ jobs'[k].payload = jobs'[l].payload => k = l
      BY <1>6 DEF Undisturbed, OnePlaceEach
    <3>2. \A y, z \in FailedIds : SafeRow(y)' /\ SafeRow(z)' /\ dead'[y].req = dead'[z].req => y = z
      BY <2>2, <2>4 DEF Undisturbed, OnePlaceEach
    <3>3. \A k \in JobIds, y \in FailedIds : T!Held(jobs', k) /\ SafeRow(y)' => jobs'[k].payload # dead'[y].req
      BY <1>6, <2>2, <2>4, <2>5 DEF Undisturbed, OnePlaceEach
    <3>4. ASSUME NEW o \in Operators, operators'[o].step \in {"found", "forced", "preflighted", "purging"}
          PROVE  dead'[operators'[o].row].state = "held"
      <4>1. dead[operators[o].row].state = "held" /\ operators[o].row \in FailedIds
        BY <1>1, <3>4, Holdings DEF Undisturbed, OnePlaceEach
      <4> QED BY <1>1, <2>1, <2>2, <4>1
    <3> QED BY <3>1, <3>2, <3>3, <3>4 DEF OnePlaceEach
  <2>7. AckedOnce'
    <3>1. \A y \in FailedIds : SafeRow(y)' => acked'[dead'[y].req] = 0
      BY <1>1, <2>2, <2>3, <2>4 DEF Undisturbed, AckedOnce
    <3>2. \A k \in JobIds : jobs'[k].state = "ready" => acked'[jobs'[k].payload] = 0
      BY <1>1, <1>4, <2>3 DEF Undisturbed, AckedOnce
    <3> QED BY <1>1, <1>8, <3>1, <3>2 DEF Undisturbed, AckedOnce
  <2> QED BY <1>5, <2>6, <2>7 DEF Undisturbed
<1> QED BY <1>9, <1>10

(***************************************************************************)
(* Together.                                                               *)
(***************************************************************************)
LEMMA RepeatInit == Init => RepeatInv
<1> SUFFICES ASSUME Init PROVE RepeatInv
  OBVIOUS
<1>1. /\ \A j \in JobIds : jobs[j].state = "unused" /\ jobs[j].tries = 0
      /\ \A x \in FailedIds : dead[x].state = "unused"
      /\ \A d \in Drainers : drainers[d] = IdleDrainer
      /\ \A o \in Operators : operators[o].step = "idle"
      /\ \A r \in Requests : acked[r] = 0
      /\ faults = MaxFaults
  BY DEF Init, QueueInit, T!EmptyTable, IdleOperator
<1>2. faults \in 0..MaxFaults /\ Used = 0 /\ MaxTries \in Nat \ {0}
  BY <1>1, PolicyAssumption DEF Used
<1>3. \A d \in Drainers : DrainerShape(d)
  BY <1>1 DEF DrainerShape, IdleDrainer
<1>4. ASSUME NEW j \in JobIds PROVE TriesCounted(j)
  <2>1. Holders(j) = {}
    BY <1>1, RowAssumption DEF Holders, IdleDrainer
  <2>2. IsFiniteSet(Holders(j)) /\ Cardinality(Holders(j)) = 0
    BY <2>1, FS_EmptySet
  <2>3. Open(j) = 0 /\ ~Orphaned(j)
    BY <1>1 DEF Open, Orphaned
  <2>4. Spent(j) = 0 /\ Granted(j) = 1
    BY <1>1, <1>2, <2>2, <2>3 DEF Spent, Granted, Released
  <2> QED BY <2>2, <2>3, <2>4 DEF TriesCounted
<1>5. Undisturbed
  BY <1>1 DEF Undisturbed, OneDrainerEach, OnePlaceEach, AckedOnce, Busy, SafeRow, IdleDrainer, T!Held, T!HeldStates
<1> QED BY <1>2, <1>3, <1>4, <1>5 DEF RepeatInv

LEMMA RepeatNext ==
    ASSUME OneOperator
    PROVE  IInv /\ RepeatInv /\ [Next]_vars => RepeatInv'
<1> SUFFICES ASSUME IInv, RepeatInv, [Next]_vars PROVE RepeatInv'
  OBVIOUS
<1>f. faults \in 0..MaxFaults /\ MaxFaults \in Nat
  BY CountTypes
<1>1. ASSUME NEW d \in Drainers, Drain(d) \/ AbandonJob(d) PROVE RepeatInv'
  <2>1. ASSUME faults' = MaxFaults PROVE Undisturbed'
    <3>1. ~AbandonJob(d) /\ faults' = faults
      BY <1>f, <1>1, <2>1 DEF AbandonJob, Drain, DrainPop, LoadJob, ExecuteAcked, ExecuteFailed, MarkRouted,
         RemoveFromInbox, DeleteJob, ReleaseJob, FailJob
    <3>2. Undisturbed
      BY <2>1, <3>1 DEF RepeatInv
    <3> QED BY <1>1, <3>1, <3>2, WorkUndisturbed, PopUndisturbed, EndUndisturbed DEF Drain
  <2> QED BY <1>1, <2>1, DrainCounts DEF RepeatInv
<1>2. ASSUME NEW o \in Operators, Replay(o) \/ Purge(o) \/ AbandonOperator(o) PROVE RepeatInv'
  <2>1. ASSUME faults' = MaxFaults PROVE Undisturbed'
    <3>1. ~AbandonOperator(o) /\ faults' = faults
      BY <1>f, <1>2, <2>1 DEF AbandonOperator, Replay, Purge, ReplayFind, ReplayPreflight, ReplayPush, ReplayLog,
         ReplayDelete, PurgeFind, PurgeDelete
    <3>2. Undisturbed
      BY <2>1, <3>1 DEF RepeatInv
    <3> QED BY <1>2, <3>1, <3>2, OperatorUndisturbed
  <2> QED BY <1>2, <2>1, OperatorCounts DEF RepeatInv
<1>3. ASSUME \/ \E r \in Requests : EnqueueDestinationRetry(r)
             \/ \E t \in Destinations : DeleteDestination(t)
             \/ Clock
             \/ UNCHANGED vars
      PROVE  RepeatInv'
  <2>1. ASSUME faults' = MaxFaults PROVE Undisturbed'
    <3>1. faults' = faults
      <4>1. faults' = faults \/ faults' = faults - 1
        BY <1>3 DEF EnqueueDestinationRetry, DeleteDestination, Clock, LapseReservation, ReplayAges, CooldownEnds,
           vars, queueVars
      <4> QED BY <1>f, <2>1, <4>1
    <3>2. Undisturbed
      BY <2>1, <3>1 DEF RepeatInv
    <3> QED BY <1>3, <3>1, <3>2, OutsideUndisturbed
  <2> QED BY <1>3, <2>1, OutsideCounts DEF RepeatInv
<1> QED BY <1>1, <1>2, <1>3 DEF Next, QueueNext

(***************************************************************************)
(* With a single operator, a destination acknowledges a request twice only *)
(* after a fault, and a job's tries exceed MaxTries by at most the faults  *)
(* there were, for every number of requests and drainers (Drain,           *)
(* processJob, ReplayFailed).                                              *)
(***************************************************************************)
THEOREM RepeatsComeFromFaults ==
    ASSUME OneOperator
    PROVE  Spec => []RepeatsAreFaults
<1>1. IInv /\ RepeatInv => RepeatsAreFaults
  <2> SUFFICES ASSUME IInv, RepeatInv PROVE RepeatsAreFaults
    OBVIOUS
  <2>1. ASSUME NEW r \in Requests, acked[r] > 1 PROVE faults < MaxFaults
    <3>1. acked[r] \in 0..2 /\ faults \in 0..MaxFaults /\ MaxFaults \in Nat
      BY CountTypes, Holdings
    <3>2. faults # MaxFaults
      BY <2>1, <3>1 DEF RepeatInv, Undisturbed, AckedOnce
    <3> QED BY <3>1, <3>2
  <2>2. ASSUME NEW j \in JobIds PROVE jobs[j].tries <= MaxTries + (MaxFaults - faults)
    <3>1. /\ MaxTries \in Nat \ {0} /\ MaxFaults \in Nat /\ faults \in 0..MaxFaults
          /\ jobs[j].tries \in Nat /\ Open(j) \in {0, 1} /\ Cardinality(Holders(j)) \in Nat
      BY CountTypes
    <3>2. Spent(j) <= Granted(j)
      BY DEF RepeatInv, TriesCounted
    <3>3. Released(jobs[j].tries) \in Nat /\ Released(jobs[j].tries) <= MaxTries - 1
      BY <3>1 DEF Released
    <3> QED BY <3>1, <3>2, <3>3 DEF Spent, Granted, Used
  <2> QED BY <2>1, <2>2 DEF RepeatsAreFaults
<1>2. Init => IInv /\ RepeatInv
  BY InitIInv, RepeatInit
<1>3. (IInv /\ RepeatInv) /\ [Next]_vars => (IInv /\ RepeatInv)'
  BY NextIInv, RepeatNext
<1> QED BY <1>1, <1>2, <1>3, PTL DEF Spec

-------------------------------------------------------------------------------
(***************************************************************************)
(* The pipeline in front of the queue.                                     *)
(***************************************************************************)

(***************************************************************************)
(* The inductive invariant.  Rows and local copies name requests; and what *)
(* a drainer, a pass or a router has noted about its fragment or request   *)
(* is so: it was acknowledged, or its status says routed, which is never   *)
(* taken back.                                                             *)
(***************************************************************************)
DrainerNamed(d) == drainers[d].step # "idle" =>
    /\ drainers[d].job \in JobIds /\ drainers[d].req \in Requests
    /\ jobs[drainers[d].job].state # "unused"
OperatorNamed(o) == operators[o].step # "idle" =>
    /\ operators[o].row \in FailedIds /\ operators[o].req \in Requests
    /\ dead[operators[o].row].state # "unused"
CopiesNamed ==
    /\ \A d \in Drainers : DrainerNamed(d)
    /\ \A o \in Operators : OperatorNamed(o)

TablesNamed ==
    /\ \A j \in JobIds : jobs[j].state # "unused" => jobs[j].payload \in Requests
    /\ \A x \in FailedIds : dead[x].state # "unused" => dead[x].req \in Requests

HasAck(f) == \E r \in Requests : FragOf[r] = f /\ acked[r] > 0

DrainerTells(d) ==
    /\ drainers[d].step = "acked" => acked[drainers[d].req] > 0
    /\ drainers[d].step = "routed" => status[FragOf[drainers[d].req]] = "routed"

PassTells(w) ==
    /\ passes[w].step # "idle" => passes[w].frag \in Fragments
    /\ passes[w].step = "idle" => passes[w].frag = NoFragment
    /\ \A r \in passes[w].todo : FragOf[r] = passes[w].frag
    /\ passes[w].delivered => HasAck(passes[w].frag)
    /\ passes[w].step = "delivered" => passes[w].delivered
    /\ passes[w].step = "clearing" => passes[w].seen = "routed"
    /\ passes[w].seen = "routed" => passes[w].frag \in Fragments /\ status[passes[w].frag] = "routed"

RouterTells(m) ==
    /\ routers[m].step \in {"acked", "routed"} => routers[m].req \in Requests
    /\ routers[m].step = "acked" => acked[routers[m].req] > 0
    /\ routers[m].step = "routed" => status[FragOf[routers[m].req]] = "routed"

QueueNamed == TypeOK /\ CopiesNamed /\ TablesNamed

PipeIInv ==
    /\ PipeTypeOK /\ QueueNamed
    /\ \A d \in Drainers : DrainerTells(d)
    /\ \A w \in Workers : PassTells(w)
    /\ \A m \in Routers : RouterTells(m)
    /\ FragmentAccounted

\* What no step takes back, and what takes a fragment out of the inbox.
Sticks ==
    /\ \A r \in Requests : acked[r] > 0 => acked'[r] > 0
    /\ \A f \in Fragments : status[f] = "routed" => status'[f] = "routed"

LeavesRouted == \A f \in inbox : f \in inbox' \/ status[f] = "routed"

RoutedIsAcked == \A f \in Fragments : status'[f] = "routed" => status[f] = "routed" \/ HasAck(f)'

-------------------------------------------------------------------------------
(***************************************************************************)
(* Frames: what a step that keeps the facts owes to those it leaves alone. *)
(***************************************************************************)

\* An acknowledgement counted keeps its type and sticks.
LEMMA AckFrame ==
    ASSUME acked \in [Requests -> 0..2], NEW r \in Requests,
           acked' = [acked EXCEPT ![r] = AckUpTo2(@)]
    PROVE  /\ acked' \in [Requests -> 0..2]
           /\ acked'[r] > 0
           /\ \A q \in Requests : acked[q] > 0 => acked'[q] > 0
BY DEF AckUpTo2

\* A status written to routed sticks, and no other status changes.
LEMMA StatusFrame ==
    ASSUME status \in [Fragments -> {"inbox", "routed"}], NEW f \in Fragments,
           status' = [status EXCEPT ![f] = "routed"]
    PROVE  /\ status' \in [Fragments -> {"inbox", "routed"}]
           /\ status'[f] = "routed"
           /\ \A g \in Fragments : status[g] = "routed" => status'[g] = "routed"
           /\ \A g \in Fragments : status'[g] = "routed" => status[g] = "routed" \/ g = f
OBVIOUS

\* Who does not move keeps what was noted.
LEMMA DrainersStay ==
    ASSUME PipeIInv, Sticks
    PROVE  \A d \in Drainers : drainers'[d] = drainers[d] => DrainerTells(d)'
<1>1. ASSUME NEW d \in Drainers, drainers'[d] = drainers[d]
      PROVE  DrainerTells(d)'
  <2>1. drainers[d].step # "idle" => drainers[d].req \in Requests /\ FragOf[drainers[d].req] \in Fragments
    BY RequestAssumption DEF PipeIInv, QueueNamed, CopiesNamed, DrainerNamed
  <2>2. DrainerTells(d)
    BY DEF PipeIInv
  <2>3. QED
    BY <1>1, <2>1, <2>2 DEF DrainerTells, Sticks
<1>2. QED
  BY <1>1

LEMMA PassesStay ==
    ASSUME PipeIInv, Sticks
    PROVE  \A w \in Workers : passes'[w] = passes[w] => PassTells(w)'
<1>1. ASSUME NEW w \in Workers, passes'[w] = passes[w]
      PROVE  PassTells(w)'
  <2>1. /\ PassTells(w)
        /\ passes[w] \in PassState
    BY DEF PipeIInv, PipeTypeOK
  <2>2. \A f : HasAck(f) => HasAck(f)'
    BY DEF HasAck, Sticks
  <2>3. QED
    BY <1>1, <2>1, <2>2 DEF PassTells, Sticks, HasAck
<1>2. QED
  BY <1>1

LEMMA RoutersStay ==
    ASSUME PipeIInv, Sticks
    PROVE  \A m \in Routers : routers'[m] = routers[m] => RouterTells(m)'
<1>1. ASSUME NEW m \in Routers, routers'[m] = routers[m]
      PROVE  RouterTells(m)'
  <2>1. RouterTells(m)
    BY DEF PipeIInv
  <2>2. QED
    BY <1>1, <2>1, RequestAssumption DEF RouterTells, Sticks
<1>2. QED
  BY <1>1

\* A fragment stays accounted for while no pass on it ends without staging it.
LEMMA AccountedStays ==
    ASSUME PipeIInv, Sticks, LeavesRouted, RoutedIsAcked, cut \subseteq cut',
           inbox \subseteq Fragments,
           \A f \in Fragments : versions'[f] > 0 /\ ~InFlight(f)' =>
               \/ versions[f] > 0 /\ ~InFlight(f)
               \/ f \in inbox' \/ status'[f] = "routed" \/ f \in cut'
    PROVE  FragmentAccounted'
<1>1. ASSUME NEW f \in Fragments, versions'[f] > 0, ~InFlight(f)'
      PROVE  f \in inbox' \/ status'[f] = "routed" \/ f \in cut'
  <2>1. CASE versions[f] > 0 /\ ~InFlight(f)
    <3>1. f \in inbox \/ status[f] = "routed" \/ f \in cut
      BY <2>1 DEF PipeIInv, FragmentAccounted
    <3>2. QED
      BY <3>1 DEF LeavesRouted, Sticks
  <2>2. QED
    BY <1>1, <2>1
<1>2. ASSUME NEW f \in Fragments, status'[f] = "routed"
      PROVE  HasAck(f)'
  <2>1. status[f] = "routed" => HasAck(f)
    BY DEF PipeIInv, FragmentAccounted, HasAck
  <2>2. HasAck(f) => HasAck(f)'
    BY DEF HasAck, Sticks
  <2>3. QED
    BY <1>2, <2>1, <2>2 DEF RoutedIsAcked
<1>3. QED
  BY <1>1, <1>2 DEF FragmentAccounted, HasAck

\* With the passes where they were that is all there is to it.
LEMMA AccountedWithoutPasses ==
    ASSUME PipeIInv, Sticks, LeavesRouted, RoutedIsAcked,
           UNCHANGED <<versions, passes, cut>>
    PROVE  FragmentAccounted'
<1>1. inbox \subseteq Fragments
  BY DEF PipeIInv, QueueNamed, TypeOK
<1>2. \A f \in Fragments : InFlight(f)' <=> InFlight(f)
  BY DEF InFlight
<1>3. QED
  BY <1>1, <1>2, AccountedStays

\* Setting one row of a function changes that row alone.
LEMMA PassMoves ==
    ASSUME passes \in [Workers -> PassState], NEW w \in Workers, NEW p \in PassState,
           passes' = [passes EXCEPT ![w] = p]
    PROVE  /\ passes' \in [Workers -> PassState]
           /\ passes'[w] = p
           /\ \A v \in Workers : v # w => passes'[v] = passes[v]
OBVIOUS

LEMMA RouterMoves ==
    ASSUME routers \in [Routers -> RouterState], NEW m \in Routers, NEW p \in RouterState,
           routers' = [routers EXCEPT ![m] = p]
    PROVE  /\ routers' \in [Routers -> RouterState]
           /\ routers'[m] = p
           /\ \A n \in Routers : n # m => routers'[n] = routers[n]
OBVIOUS

-------------------------------------------------------------------------------
(***************************************************************************)
(* The steps of the queue, which leave the pipeline's own state alone.     *)
(***************************************************************************)

\* Rows that stay in use under their names, and new ones that name a request.
RowsKeepNames ==
    /\ RowsStick
    /\ \A j \in JobIds : jobs'[j].state # "unused" => jobs[j].state # "unused" \/ jobs'[j].payload \in Requests
    /\ \A x \in FailedIds : dead'[x].state # "unused" => dead[x].state # "unused" \/ dead'[x].req \in Requests

LEMMA NamesStay ==
    ASSUME QueueNamed, RowsKeepNames
    PROVE  /\ TablesNamed'
           /\ \A d \in Drainers : drainers'[d] = drainers[d] => DrainerNamed(d)'
           /\ \A o \in Operators : operators'[o] = operators[o] => OperatorNamed(o)'
<1>1. TablesNamed'
  BY DEF QueueNamed, TablesNamed, RowsKeepNames, RowsStick
<1>2. \A d \in Drainers : drainers'[d] = drainers[d] => DrainerNamed(d)'
  BY DEF QueueNamed, CopiesNamed, DrainerNamed, RowsKeepNames, RowsStick
<1>3. \A o \in Operators : operators'[o] = operators[o] => OperatorNamed(o)'
  BY DEF QueueNamed, CopiesNamed, OperatorNamed, RowsKeepNames, RowsStick
<1>4. QED
  BY <1>1, <1>2, <1>3

\* An operation on a row in use.
LEMMA UsedRows ==
    ASSUME jobs \in T!JobTables, NEW i \in JobIds, jobs[i].state # "unused",
           jobs' \in {T!Pop(jobs, i), T!Release(jobs, i), T!Delete(jobs, i), T!Lapse(jobs, i)}
    PROVE  \A j \in JobIds : /\ jobs'[j].payload = jobs[j].payload
                             /\ jobs'[j].state # "unused" <=> jobs[j].state # "unused"
BY TableFrame

\* A drainer writes its own job's row and files its own request.
LEMMA DrainRows ==
    ASSUME QueueNamed, NEW d \in Drainers, Drain(d) \/ AbandonJob(d)
    PROVE  RowsKeepNames
<1>t. /\ jobs \in T!JobTables /\ dead \in [FailedIds -> DeadRow]
      /\ DrainerNamed(d)
  BY DEF QueueNamed, TypeOK, CopiesNamed
<1>1. CASE DrainPop(d)
  <2>1. PICK i \in JobIds : jobs[i].state # "unused" /\ jobs' = T!Pop(jobs, i)
    BY <1>1 DEF DrainPop, T!Poppable
  <2>2. dead' = dead
    BY <1>1 DEF DrainPop
  <2>3. QED
    BY <1>t, <2>1, <2>2, UsedRows DEF RowsKeepNames, RowsStick
<1>2. CASE \/ LoadJob(d) \/ ExecuteAcked(d) \/ ExecuteFailed(d) \/ MarkRouted(d)
           \/ RemoveFromInbox(d) \/ AbandonJob(d)
  BY <1>2 DEF LoadJob, ExecuteAcked, ExecuteFailed, MarkRouted, RemoveFromInbox, AbandonJob,
              RowsKeepNames, RowsStick
<1>3. CASE DeleteJob(d) \/ ReleaseJob(d) \/ FailJob(d)
  <2>1. PICK i \in JobIds : i = drainers[d].job /\ jobs[i].state # "unused"
    BY <1>3, <1>t DEF DeleteJob, ReleaseJob, FailJob, DrainerNamed
  <2>2. jobs' \in {T!Delete(jobs, i), T!Release(jobs, i)}
    BY <1>3, <2>1 DEF DeleteJob, ReleaseJob, FailJob
  <2>3. PICK r \in Requests : r = drainers[d].req
    BY <1>3, <1>t DEF DeleteJob, ReleaseJob, FailJob, DrainerNamed
  <2>4. \A x \in FailedIds : /\ dead[x].state # "unused" => dead'[x] = dead[x]
                             /\ dead'[x] # dead[x] => dead'[x].req = r
    BY <1>3, <1>t, <2>3 DEF DeleteJob, ReleaseJob, FailJob
  <2>5. QED
    BY <1>t, <2>1, <2>2, <2>4, UsedRows DEF RowsKeepNames, RowsStick
<1>4. QED
  BY <1>1, <1>2, <1>3 DEF Drain

LEMMA DrainNamed ==
    ASSUME QueueNamed, NEW d \in Drainers, Drain(d) \/ AbandonJob(d)
    PROVE  QueueNamed'
<1>t. /\ jobs \in T!JobTables
      /\ drainers \in [Drainers -> DrainerState]
      /\ DrainerNamed(d) /\ CopiesNamed /\ TablesNamed
  BY DEF QueueNamed, TypeOK, CopiesNamed
<1>p. \A j \in T!Poppable(jobs) : j \in JobIds /\ jobs[j].payload \in Requests /\ jobs[j].state # "unused"
  BY <1>t DEF T!Poppable, TablesNamed
<1>1. TypeOK'
  BY <1>t, <1>p, DrainTypeOK DEF QueueNamed, DrainerNamed
<1>2. RowsKeepNames
  BY DrainRows
<1>3. /\ \A c \in Drainers : c # d => drainers'[c] = drainers[c]
      /\ operators' = operators
  BY <1>t DEF Drain, DrainPop, LoadJob, ExecuteAcked, ExecuteFailed, MarkRouted, RemoveFromInbox,
         DeleteJob, ReleaseJob, FailJob, AbandonJob, Go
<1>4. DrainerNamed(d)'
  <2>1. CASE DrainPop(d)
    <3>1. PICK j \in T!Poppable(jobs) : drainers'[d] =
             [step |-> "popped", job |-> j, req |-> jobs[j].payload, tries |-> jobs[j].tries + 1]
      BY <2>1, <1>t DEF DrainPop
    <3>2. QED
      BY <3>1, <1>p, <1>2 DEF DrainerNamed, RowsKeepNames, RowsStick
  <2>2. CASE \/ LoadJob(d) \/ ExecuteAcked(d) \/ ExecuteFailed(d) \/ MarkRouted(d) \/ RemoveFromInbox(d)
    <3>1. /\ drainers'[d].job = drainers[d].job /\ drainers'[d].req = drainers[d].req
          /\ drainers[d].step # "idle"
      BY <2>2, <1>t DEF LoadJob, ExecuteAcked, ExecuteFailed, MarkRouted, RemoveFromInbox, Go, DrainerState
    <3>2. QED
      BY <3>1, <1>t, <1>2 DEF DrainerNamed, RowsKeepNames, RowsStick
  <2>3. CASE DeleteJob(d) \/ ReleaseJob(d) \/ FailJob(d) \/ AbandonJob(d)
    <3>1. drainers'[d].step = "idle"
      BY <2>3, <1>t DEF DeleteJob, ReleaseJob, FailJob, AbandonJob, IdleDrainer
    <3>2. QED
      BY <3>1 DEF DrainerNamed
  <2>4. QED
    BY <2>1, <2>2, <2>3 DEF Drain
<1>5. QED
  BY <1>1, <1>2, <1>3, <1>4, NamesStay DEF QueueNamed, CopiesNamed

\* An operator pushes, and deletes, what its row says.
LEMMA OperatorRows ==
    ASSUME QueueNamed, NEW o \in Operators, Replay(o) \/ Purge(o) \/ AbandonOperator(o)
    PROVE  RowsKeepNames
<1>t. /\ jobs \in T!JobTables /\ dead \in [FailedIds -> DeadRow]
      /\ OperatorNamed(o)
  BY DEF QueueNamed, TypeOK, CopiesNamed
<1>1. CASE \/ \E x \in FailedIds : ReplayFind(o, x) \/ PurgeFind(o, x)
           \/ ReplayPreflight(o) \/ ReplayLog(o) \/ AbandonOperator(o)
  BY <1>1 DEF ReplayFind, PurgeFind, ReplayPreflight, ReplayLog, AbandonOperator, RowsKeepNames, RowsStick
<1>2. CASE ReplayPush(o)
  <2>1. PICK r \in Requests : r = operators[o].req
    BY <1>2, <1>t DEF ReplayPush, OperatorNamed
  <2>2. PICK j \in T!FreshIds(jobs) : jobs' = T!Push(jobs, j, r)
    BY <1>2, <2>1 DEF ReplayPush
  <2>3. /\ jobs'[j] = [state |-> "ready", payload |-> r, tries |-> 0]
        /\ \A k \in JobIds : k # j => jobs'[k] = jobs[k]
        /\ \A k \in JobIds : jobs[k].state # "unused" => jobs'[k] = jobs[k]
    BY <1>t, <2>2, PushFrame
  <2>4. dead' = dead
    BY <1>2 DEF ReplayPush
  <2>5. QED
    BY <2>3, <2>4 DEF RowsKeepNames, RowsStick
<1>3. CASE ReplayDelete(o) \/ PurgeDelete(o)
  <2>1. PICK x \in FailedIds : x = operators[o].row /\ dead[x].state # "unused"
    BY <1>3, <1>t DEF ReplayDelete, PurgeDelete, OperatorNamed
  <2>2. dead' = [dead EXCEPT ![x].state = "gone"] /\ jobs' = jobs
    BY <1>3, <2>1 DEF ReplayDelete, PurgeDelete
  <2>3. QED
    BY <1>t, <2>1, <2>2 DEF RowsKeepNames, RowsStick, DeadRow
<1>4. QED
  BY <1>1, <1>2, <1>3 DEF Replay, Purge

LEMMA OperatorKeepsNamed ==
    ASSUME QueueNamed, NEW o \in Operators, Replay(o) \/ Purge(o) \/ AbandonOperator(o)
    PROVE  QueueNamed'
<1>t. /\ operators \in [Operators -> OperatorState]
      /\ OperatorNamed(o) /\ CopiesNamed /\ TablesNamed
  BY DEF QueueNamed, TypeOK, CopiesNamed
<1>1. TypeOK'
  BY <1>t, OperatorTypeOK DEF QueueNamed, OperatorNamed, TablesNamed
<1>2. RowsKeepNames
  BY OperatorRows
<1>3. /\ \A p \in Operators : p # o => operators'[p] = operators[p]
      /\ drainers' = drainers
  BY <1>t DEF Replay, Purge, ReplayFind, ReplayPreflight, ReplayPush, ReplayLog, ReplayDelete,
              PurgeFind, PurgeDelete, AbandonOperator, OperatorGo
<1>4. OperatorNamed(o)'
  <2>1. ASSUME NEW x \in FailedIds, ReplayFind(o, x) \/ PurgeFind(o, x)
        PROVE  OperatorNamed(o)'
    <3>1. operators'[o].row = x /\ operators'[o].req = dead[x].req /\ dead' = dead
      BY <2>1, <1>t DEF ReplayFind, PurgeFind
    <3>2. dead[x].state # "unused" /\ dead[x].req \in Requests
      BY <2>1, <1>t DEF ReplayFind, PurgeFind, TablesNamed
    <3>3. QED
      BY <3>1, <3>2 DEF OperatorNamed
  <2>2. CASE ReplayPush(o) \/ ReplayLog(o)
    <3>1. /\ operators'[o].row = operators[o].row /\ operators'[o].req = operators[o].req
          /\ operators[o].step # "idle"
      BY <2>2, <1>t DEF ReplayPush, ReplayLog, OperatorGo, OperatorState
    <3>2. QED
      BY <3>1, <1>t, <1>2 DEF OperatorNamed, RowsKeepNames, RowsStick
  <2>3. CASE ReplayPreflight(o)
    <3>1. \/ operators'[o].step = "idle"
          \/ operators'[o].row = operators[o].row /\ operators'[o].req = operators[o].req
      BY <2>3, <1>t DEF ReplayPreflight, IdleOperator, OperatorState
    <3>2. operators[o].step # "idle"
      BY <2>3 DEF ReplayPreflight
    <3>3. QED
      BY <3>1, <3>2, <1>t, <1>2 DEF OperatorNamed, RowsKeepNames, RowsStick
  <2>4. CASE ReplayDelete(o) \/ PurgeDelete(o) \/ AbandonOperator(o)
    <3>1. operators'[o].step = "idle"
      BY <2>4, <1>t DEF ReplayDelete, PurgeDelete, AbandonOperator, IdleOperator
    <3>2. QED
      BY <3>1 DEF OperatorNamed
  <2>5. QED
    BY <2>1, <2>2, <2>3, <2>4 DEF Replay, Purge
<1>5. QED
  BY <1>1, <1>2, <1>3, <1>4, NamesStay DEF QueueNamed, CopiesNamed

\* A new request, a deleted destination, the clock.
LEMMA OutsideNamed ==
    ASSUME QueueNamed,
           \/ \E r \in Requests : EnqueueDestinationRetry(r)
           \/ \E t \in Destinations : DeleteDestination(t)
           \/ Clock
    PROVE  QueueNamed'
<1>t. jobs \in T!JobTables
  BY DEF QueueNamed, TypeOK
<1>1. TypeOK'
  BY OutsideTypeOK DEF QueueNamed
<1>2. drainers' = drainers /\ operators' = operators /\ dead' = dead
  BY DEF EnqueueDestinationRetry, DeleteDestination, Clock, LapseReservation, ReplayAges, CooldownEnds, queueVars
<1>3. RowsKeepNames
  <2>1. ASSUME NEW r \in Requests, EnqueueDestinationRetry(r)
        PROVE  RowsKeepNames
    <3>1. PICK j \in T!FreshIds(jobs) : jobs' = T!Push(jobs, j, r)
      BY <2>1 DEF EnqueueDestinationRetry
    <3>2. /\ jobs'[j] = [state |-> "ready", payload |-> r, tries |-> 0]
          /\ \A k \in JobIds : k # j => jobs'[k] = jobs[k]
          /\ \A k \in JobIds : jobs[k].state # "unused" => jobs'[k] = jobs[k]
      BY <1>t, <3>1, PushFrame
    <3>3. QED
      BY <1>2, <3>2 DEF RowsKeepNames, RowsStick
  <2>2. ASSUME NEW j \in JobIds, LapseReservation(j)
        PROVE  RowsKeepNames
    BY <2>2, <1>t, <1>2, UsedRows DEF LapseReservation, RowsKeepNames, RowsStick
  <2>3. CASE jobs' = jobs
    BY <2>3, <1>2 DEF RowsKeepNames, RowsStick
  <2>4. QED
    BY <2>1, <2>2, <2>3 DEF Clock, DeleteDestination, ReplayAges, CooldownEnds, queueVars
<1>4. QED
  BY <1>1, <1>2, <1>3, NamesStay DEF QueueNamed, CopiesNamed

\* Nothing that names anything moved.
LEMMA QuietNamed ==
    ASSUME QueueNamed, TypeOK', UNCHANGED <<jobs, dead, drainers, operators>>
    PROVE  QueueNamed'
BY DEF QueueNamed, CopiesNamed, TablesNamed, DrainerNamed, OperatorNamed

\* What a drainer writes to status and inbox, and notes, is so.
LEMMA DrainFacts ==
    ASSUME PipeIInv, NEW d \in Drainers, Drain(d) \/ AbandonJob(d)
    PROVE  Sticks /\ LeavesRouted /\ RoutedIsAcked /\ DrainerTells(d)'
<1>t. /\ drainers \in [Drainers -> DrainerState]
      /\ status \in [Fragments -> {"inbox", "routed"}]
      /\ acked \in [Requests -> 0..2]
      /\ DrainerNamed(d) /\ DrainerTells(d)
  BY DEF PipeIInv, QueueNamed, TypeOK, CopiesNamed
<1>1. CASE ExecuteAcked(d)
  <2>1. PICK r \in Requests : r = drainers[d].req
    BY <1>1, <1>t DEF ExecuteAcked, DrainerNamed
  <2>2. acked' = [acked EXCEPT ![r] = AckUpTo2(@)]
    BY <1>1, <2>1 DEF ExecuteAcked
  <2>3. drainers'[d].req = r /\ drainers'[d].step = "acked"
    BY <1>1, <1>t, <2>1 DEF ExecuteAcked, Go, DrainerState
  <2>4. status' = status /\ inbox' = inbox
    BY <1>1 DEF ExecuteAcked, routeVars
  <2>5. QED
    BY <1>t, <2>2, <2>3, <2>4, AckFrame DEF Sticks, LeavesRouted, RoutedIsAcked, DrainerTells
<1>2. CASE MarkRouted(d)
  <2>1. PICK r \in Requests : r = drainers[d].req /\ acked[r] > 0
    BY <1>2, <1>t DEF MarkRouted, DrainerNamed, DrainerTells
  <2>2. status' = [status EXCEPT ![FragOf[r]] = "routed"] /\ FragOf[r] \in Fragments
    BY <1>2, <2>1, RequestAssumption DEF MarkRouted
  <2>3. drainers'[d].req = r /\ drainers'[d].step = "routed"
    BY <1>2, <1>t, <2>1 DEF MarkRouted, Go, DrainerState
  <2>4. acked' = acked /\ inbox' = inbox
    BY <1>2 DEF MarkRouted
  <2>5. HasAck(FragOf[r])'
    BY <2>1, <2>4 DEF HasAck
  <2>6. QED
    BY <1>t, <2>2, <2>3, <2>4, <2>5, StatusFrame DEF Sticks, LeavesRouted, RoutedIsAcked, DrainerTells
<1>3. CASE RemoveFromInbox(d)
  <2>1. PICK f \in Fragments : f = FragOf[drainers[d].req] /\ status[f] = "routed"
    BY <1>3, <1>t, RequestAssumption DEF RemoveFromInbox, DrainerNamed, DrainerTells
  <2>2. inbox' = inbox \ {f}
    BY <1>3, <2>1 DEF RemoveFromInbox
  <2>3. drainers'[d].step = "cleared"
    BY <1>3, <1>t DEF RemoveFromInbox, Go
  <2>4. acked' = acked /\ status' = status
    BY <1>3 DEF RemoveFromInbox
  <2>5. QED
    BY <2>1, <2>2, <2>3, <2>4 DEF Sticks, LeavesRouted, RoutedIsAcked, DrainerTells
<1>4. CASE \/ DrainPop(d) \/ LoadJob(d) \/ ExecuteFailed(d) \/ DeleteJob(d) \/ ReleaseJob(d)
           \/ FailJob(d) \/ AbandonJob(d)
  <2>1. acked' = acked /\ status' = status /\ inbox' = inbox
    BY <1>4 DEF DrainPop, LoadJob, ExecuteFailed, DeleteJob, ReleaseJob, FailJob, AbandonJob, routeVars
  <2>2. drainers'[d].step \notin {"acked", "routed"}
    <3>1. CASE DrainPop(d)
      <4>1. PICK j \in T!Poppable(jobs) : drainers' = [drainers EXCEPT ![d] =
              [step |-> "popped", job |-> j, req |-> jobs[j].payload, tries |-> jobs[j].tries + 1]]
        BY <3>1 DEF DrainPop
      <4>2. drainers'[d].step = "popped"
        BY <4>1, <1>t
      <4>3. QED
        BY <4>2
    <3>2. CASE LoadJob(d) \/ ExecuteFailed(d)
      BY <3>2, <1>t DEF LoadJob, ExecuteFailed, Go, DrainerState
    <3>3. CASE DeleteJob(d) \/ ReleaseJob(d) \/ FailJob(d) \/ AbandonJob(d)
      BY <3>3, <1>t DEF DeleteJob, ReleaseJob, FailJob, AbandonJob, IdleDrainer
    <3>4. QED
      BY <1>4, <3>1, <3>2, <3>3
  <2>3. QED
    BY <2>1, <2>2 DEF Sticks, LeavesRouted, RoutedIsAcked, DrainerTells
<1>5. QED
  BY <1>1, <1>2, <1>3, <1>4 DEF Drain

\* A step that changes none of the three leaves the facts as they are.
LEMMA QuietFacts ==
    ASSUME UNCHANGED <<acked, status, inbox>>
    PROVE  Sticks /\ LeavesRouted /\ RoutedIsAcked
BY DEF Sticks, LeavesRouted, RoutedIsAcked

\* A step of the queue.
LEMMA QueueStepIInv ==
    ASSUME PipeIInv, QueueNext, UNCHANGED pipeVars
    PROVE  PipeIInv' /\ LeavesRouted
<1>p. /\ UNCHANGED <<routes, versions, passes, routers, asked, cut, repeated>>
      /\ QueueNamed
  BY DEF pipeVars, PipeIInv
<1>1. ASSUME NEW d \in Drainers, Drain(d) \/ AbandonJob(d)
      PROVE  PipeIInv' /\ LeavesRouted
  <2>1. Sticks /\ LeavesRouted /\ RoutedIsAcked /\ DrainerTells(d)'
    BY <1>1, DrainFacts
  <2>2. QueueNamed'
    BY <1>1, <1>p, DrainNamed
  <2>3. \A c \in Drainers : c # d => drainers'[c] = drainers[c]
    <3>1. drainers \in [Drainers -> DrainerState]
      BY <1>p DEF QueueNamed, TypeOK
    <3>2. QED
      BY <1>1, <3>1 DEF Drain, DrainPop, LoadJob, ExecuteAcked, ExecuteFailed, MarkRouted,
                        RemoveFromInbox, DeleteJob, ReleaseJob, FailJob, AbandonJob, Go
  <2>4. /\ \A c \in Drainers : DrainerTells(c)'
        /\ \A w \in Workers : PassTells(w)'
        /\ \A m \in Routers : RouterTells(m)'
    BY <1>p, <2>1, <2>3, DrainersStay, PassesStay, RoutersStay
  <2>5. FragmentAccounted'
    BY <1>p, <2>1, AccountedWithoutPasses
  <2>6. PipeTypeOK'
    BY <1>p, <2>2 DEF PipeIInv, PipeTypeOK, QueueNamed
  <2>7. QED
    BY <2>1, <2>2, <2>4, <2>5, <2>6 DEF PipeIInv
<1>2. CASE (\E o \in Operators : Replay(o) \/ Purge(o) \/ AbandonOperator(o)) \/ Clock
  <2>1. UNCHANGED <<acked, status, inbox, drainers>>
    BY <1>2 DEF Replay, Purge, ReplayFind, ReplayPreflight, ReplayPush, ReplayLog, ReplayDelete,
                PurgeFind, PurgeDelete, AbandonOperator, Clock, LapseReservation, ReplayAges,
                CooldownEnds, routeVars
  <2>2. Sticks /\ LeavesRouted /\ RoutedIsAcked
    BY <2>1, QuietFacts
  <2>3. QueueNamed'
    BY <1>2, <1>p, OperatorKeepsNamed, OutsideNamed
  <2>4. /\ \A c \in Drainers : DrainerTells(c)'
        /\ \A w \in Workers : PassTells(w)'
        /\ \A m \in Routers : RouterTells(m)'
    BY <1>p, <2>1, <2>2, DrainersStay, PassesStay, RoutersStay
  <2>5. FragmentAccounted'
    BY <1>p, <2>2, AccountedWithoutPasses
  <2>6. PipeTypeOK'
    BY <1>p, <2>3 DEF PipeIInv, PipeTypeOK, QueueNamed
  <2>7. QED
    BY <2>2, <2>3, <2>4, <2>5, <2>6 DEF PipeIInv
<1>3. QED
  BY <1>1, <1>2 DEF QueueNext

-------------------------------------------------------------------------------
(***************************************************************************)
(* The steps of a pass.                                                    *)
(***************************************************************************)
\* What every step owes to whoever does not take it.
KeepsFacts == Sticks /\ LeavesRouted /\ RoutedIsAcked /\ QueueNamed'

\* A pass that moves on with the same fragment.
LEMMA PassMovesOn ==
    ASSUME PipeIInv, KeepsFacts, NEW w \in Workers, NEW p \in PassState,
           passes' = [passes EXCEPT ![w] = p], p.frag = passes[w].frag,
           PassTells(w)',
           UNCHANGED <<drainers, routes, versions, routers, asked, cut, repeated>>
    PROVE  PipeIInv' /\ LeavesRouted
<1>t. passes \in [Workers -> PassState] /\ PipeTypeOK
  BY DEF PipeIInv, PipeTypeOK
<1>1. /\ passes' \in [Workers -> PassState] /\ passes'[w] = p
      /\ \A v \in Workers : v # w => passes'[v] = passes[v]
  BY <1>t, PassMoves
<1>2. Sticks /\ LeavesRouted /\ RoutedIsAcked /\ QueueNamed'
  BY DEF KeepsFacts
<1>3. /\ \A d \in Drainers : DrainerTells(d)'
      /\ \A v \in Workers : PassTells(v)'
      /\ \A m \in Routers : RouterTells(m)'
  BY <1>1, <1>2, DrainersStay, PassesStay, RoutersStay
<1>4. \A f \in Fragments : InFlight(f)' <=> InFlight(f)
  BY <1>1 DEF InFlight
<1>5. inbox \subseteq Fragments
  BY <1>t DEF PipeTypeOK, TypeOK
<1>6. FragmentAccounted'
  BY <1>2, <1>4, <1>5, AccountedStays
<1>7. PipeTypeOK'
  BY <1>1, <1>2, <1>t DEF PipeTypeOK, QueueNamed
<1>8. QED
  BY <1>2, <1>3, <1>6, <1>7 DEF PipeIInv

\* A pass that ends, with its fragment staged, routed or cut off.
LEMMA PassEnds ==
    ASSUME PipeIInv, KeepsFacts, NEW w \in Workers, passes[w].step # "idle",
           passes' = [passes EXCEPT ![w] = IdlePass],
           \/ passes[w].frag \in inbox' \/ status'[passes[w].frag] = "routed" \/ passes[w].frag \in cut',
           cut \subseteq cut', cut' \subseteq Fragments,
           UNCHANGED <<drainers, routes, versions, routers, asked, repeated>>
    PROVE  PipeIInv' /\ LeavesRouted
<1>t. passes \in [Workers -> PassState] /\ PipeTypeOK
  BY DEF PipeIInv, PipeTypeOK
<1>i. IdlePass \in PassState
  BY PipeAssumption DEF IdlePass, PassState
<1>1. /\ passes' \in [Workers -> PassState] /\ passes'[w] = IdlePass
      /\ \A v \in Workers : v # w => passes'[v] = passes[v]
  BY <1>t, <1>i, PassMoves
<1>2. Sticks /\ LeavesRouted /\ RoutedIsAcked /\ QueueNamed'
  BY DEF KeepsFacts
<1>3. PassTells(w)'
  BY <1>1 DEF PassTells, IdlePass
<1>4. /\ \A d \in Drainers : DrainerTells(d)'
      /\ \A v \in Workers : PassTells(v)'
      /\ \A m \in Routers : RouterTells(m)'
  BY <1>1, <1>2, <1>3, DrainersStay, PassesStay, RoutersStay
<1>5. PICK g \in Fragments : g = passes[w].frag
  BY DEF PipeIInv, PassTells
<1>6. \A f \in Fragments : f # g /\ ~InFlight(f)' => ~InFlight(f)
  BY <1>1, <1>5 DEF InFlight
<1>7. g \in inbox' \/ status'[g] = "routed" \/ g \in cut'
  BY <1>5
<1>8. inbox \subseteq Fragments
  BY <1>t DEF PipeTypeOK, TypeOK
<1>9. FragmentAccounted'
  BY <1>2, <1>6, <1>7, <1>8, AccountedStays
<1>10. PipeTypeOK'
  BY <1>1, <1>2, <1>t DEF PipeTypeOK, QueueNamed
<1>11. QED
  BY <1>2, <1>4, <1>9, <1>10 DEF PipeIInv

\* A delivery acknowledged inline.
LEMMA InlineAckFacts ==
    ASSUME PipeIInv, NEW r \in Requests, InlineAck(r)
    PROVE  KeepsFacts /\ acked'[r] > 0 /\ UNCHANGED <<drainers, status, inbox>>
<1>t. acked \in [Requests -> 0..2] /\ TypeOK /\ QueueNamed
  BY DEF PipeIInv, QueueNamed, TypeOK
<1>1. /\ acked' \in [Requests -> 0..2] /\ acked'[r] > 0
      /\ \A q \in Requests : acked[q] > 0 => acked'[q] > 0
  BY <1>t, AckFrame DEF InlineAck
<1>2. UNCHANGED <<jobs, dead, drainers, operators, replays, cooling, accepted, purged, faults, status, inbox, dests>>
  BY DEF InlineAck, routeVars
<1>3. TypeOK'
  BY <1>t, <1>1, <1>2 DEF TypeOK
<1>4. QueueNamed'
  BY <1>t, <1>2, <1>3, QuietNamed
<1>5. Sticks /\ LeavesRouted /\ RoutedIsAcked
  BY <1>1, <1>2 DEF Sticks, LeavesRouted, RoutedIsAcked
<1>6. QED
  BY <1>1, <1>2, <1>4, <1>5 DEF KeepsFacts

\* A delivery handed to the queue.
LEMMA EnqueueFacts ==
    ASSUME PipeIInv, NEW r \in Requests, EnqueueDestinationRetry(r)
    PROVE  KeepsFacts /\ UNCHANGED <<drainers, acked, status, inbox>>
<1>1. UNCHANGED <<drainers, acked, status, inbox>>
  BY DEF EnqueueDestinationRetry, routeVars
<1>2. QueueNamed'
  BY OutsideNamed DEF PipeIInv
<1>3. QED
  BY <1>1, <1>2, QuietFacts DEF KeepsFacts

\* A step that changes no table, or nothing there but a fault spent.
LEMMA NoChange ==
    ASSUME PipeIInv,
           UNCHANGED <<jobs, dead, drainers, operators, replays, cooling, accepted, acked, purged, routeVars>>,
           faults' \in Nat
    PROVE  KeepsFacts /\ UNCHANGED <<drainers, acked, status, inbox>>
<1>1. UNCHANGED <<jobs, dead, drainers, operators, replays, cooling, accepted, acked, purged, status, inbox, dests>>
  BY DEF routeVars
<1>2. TypeOK /\ QueueNamed
  BY DEF PipeIInv, QueueNamed
<1>3. TypeOK'
  BY <1>1, <1>2 DEF TypeOK
<1>4. QueueNamed'
  BY <1>1, <1>2, <1>3, QuietNamed
<1>5. Sticks /\ LeavesRouted /\ RoutedIsAcked
  BY <1>1, QuietFacts
<1>6. QED
  BY <1>1, <1>4, <1>5 DEF KeepsFacts

LEMMA VarsUnchanged ==
    ASSUME PipeIInv, UNCHANGED vars
    PROVE  /\ UNCHANGED <<jobs, dead, drainers, operators, replays, cooling, accepted, acked, purged, routeVars>>
           /\ faults' \in Nat
           /\ UNCHANGED <<acked, status, inbox>>
BY DEF PipeIInv, QueueNamed, TypeOK, vars, queueVars, routeVars

\* A status written to routed for a fragment that was acknowledged.
LEMMA MarkFacts ==
    ASSUME PipeIInv, NEW f \in Fragments, HasAck(f), status' = [status EXCEPT ![f] = "routed"],
           UNCHANGED <<queueVars, inbox, dests>>
    PROVE  KeepsFacts /\ status'[f] = "routed" /\ UNCHANGED <<drainers, acked>>
<1>1. UNCHANGED <<jobs, dead, drainers, operators, replays, cooling, accepted, acked, purged, faults, inbox, dests>>
  BY DEF queueVars
<1>2. TypeOK /\ QueueNamed /\ status \in [Fragments -> {"inbox", "routed"}]
  BY DEF PipeIInv, QueueNamed, TypeOK
<1>3. /\ status' \in [Fragments -> {"inbox", "routed"}]
      /\ status'[f] = "routed"
      /\ \A g \in Fragments : status[g] = "routed" => status'[g] = "routed"
      /\ \A g \in Fragments : status'[g] = "routed" => status[g] = "routed" \/ g = f
  BY <1>2, StatusFrame
<1>4. TypeOK'
  BY <1>1, <1>2, <1>3 DEF TypeOK
<1>5. QueueNamed'
  BY <1>1, <1>2, <1>4, QuietNamed
<1>6. HasAck(f)'
  BY <1>1 DEF HasAck
<1>7. Sticks /\ LeavesRouted /\ RoutedIsAcked
  BY <1>1, <1>3, <1>6 DEF Sticks, LeavesRouted, RoutedIsAcked
<1>8. QED
  BY <1>1, <1>3, <1>5, <1>7 DEF KeepsFacts

\* The inbox written: a fragment put in, or one that is routed taken out.
LEMMA InboxFacts ==
    ASSUME PipeIInv, NEW f \in Fragments,
           inbox' \in {inbox, inbox \cup {f}} \/ (inbox' = inbox \ {f} /\ status[f] = "routed"),
           UNCHANGED <<queueVars, status, dests>>
    PROVE  KeepsFacts /\ UNCHANGED <<drainers, acked, status>>
<1>1. UNCHANGED <<jobs, dead, drainers, operators, replays, cooling, accepted, acked, purged, faults, status, dests>>
  BY DEF queueVars
<1>2. TypeOK /\ QueueNamed
  BY DEF PipeIInv, QueueNamed
<1>3. inbox' \in SUBSET Fragments
  BY <1>2 DEF TypeOK
<1>4. TypeOK'
  BY <1>1, <1>2, <1>3 DEF TypeOK
<1>5. QueueNamed'
  BY <1>1, <1>2, <1>4, QuietNamed
<1>6. Sticks /\ LeavesRouted /\ RoutedIsAcked
  BY <1>1 DEF Sticks, LeavesRouted, RoutedIsAcked
<1>7. QED
  BY <1>1, <1>5, <1>6 DEF KeepsFacts

LEMMA PassIInv ==
    ASSUME PipeIInv, NEW w \in Workers, Pass(w)
    PROVE  PipeIInv' /\ LeavesRouted
<1>t. /\ passes \in [Workers -> PassState] /\ passes[w] \in PassState
      /\ versions \in [Fragments -> 0..MaxVersions] /\ cut \subseteq Fragments
      /\ inbox \subseteq Fragments
      /\ status \in [Fragments -> {"inbox", "routed"}]
      /\ PipeTypeOK /\ PassTells(w)
  BY DEF PipeIInv, PipeTypeOK, TypeOK
<1>f. passes[w].step # "idle" => passes[w].frag \in Fragments
  BY <1>t DEF PassTells
<1>1. ASSUME NEW f \in Fragments, AcceptVersion(w, f)
      PROVE  PipeIInv' /\ LeavesRouted
  <2> DEFINE p == [step |-> "accepted", frag |-> f, version |-> versions[f] + 1,
                   todo |-> {}, delivered |-> FALSE, seen |-> status[f]]
  <2>1. p \in PassState /\ p.frag = f /\ p.seen = status[f] /\ p.step = "accepted" /\ ~p.delivered /\ p.todo = {}
    <3>1. versions[f] + 1 \in 0..MaxVersions /\ status[f] \in {"inbox", "routed"}
      BY <1>1, <1>t, PipeAssumption DEF AcceptVersion
    <3>2. QED
      BY <3>1 DEF PassState
  <2>2. /\ passes' = [passes EXCEPT ![w] = p] /\ passes[w].step = "idle"
        /\ versions' = [versions EXCEPT ![f] = @ + 1] /\ versions[f] < MaxVersions
        /\ UNCHANGED vars /\ UNCHANGED <<routes, routers, asked, cut, repeated>>
    BY <1>1 DEF AcceptVersion
  <2> HIDE DEF p
  <2>3. /\ passes' \in [Workers -> PassState] /\ passes'[w] = p
        /\ \A v \in Workers : v # w => passes'[v] = passes[v]
    BY <1>t, <2>1, <2>2, PassMoves
  <2>4. KeepsFacts /\ UNCHANGED <<drainers, acked, status, inbox>>
    BY <2>2, VarsUnchanged, NoChange
  <2>5. Sticks /\ LeavesRouted /\ RoutedIsAcked /\ QueueNamed'
    BY <2>4 DEF KeepsFacts
  <2>6. PassTells(w)'
    BY <2>1, <2>3, <2>4 DEF PassTells
  <2>7. /\ \A d \in Drainers : DrainerTells(d)'
        /\ \A v \in Workers : PassTells(v)'
        /\ \A m \in Routers : RouterTells(m)'
    BY <2>2, <2>3, <2>4, <2>5, <2>6, DrainersStay, PassesStay, RoutersStay
  <2>8. \A g \in Fragments : versions'[g] > 0 /\ ~InFlight(g)' => versions[g] > 0 /\ ~InFlight(g)
    <3>1. InFlight(f)'
      BY <2>1, <2>3 DEF InFlight
    <3>2. ASSUME NEW g \in Fragments, g # f, versions'[g] > 0, ~InFlight(g)'
          PROVE  versions[g] > 0 /\ ~InFlight(g)
      <4>1. versions[g] > 0
        BY <3>2, <2>2, <1>t
      <4>2. passes[w].frag # g
        BY <2>2, <1>t, PipeAssumption DEF PassTells
      <4>3. QED
        BY <3>2, <4>1, <4>2, <2>3 DEF InFlight
    <3>3. QED
      BY <3>1, <3>2
  <2>9. FragmentAccounted'
    BY <1>t, <2>2, <2>5, <2>8, AccountedStays
  <2>10. versions' \in [Fragments -> 0..MaxVersions]
    BY <1>t, <2>2, PipeAssumption
  <2>11. PipeTypeOK'
    BY <1>t, <2>2, <2>3, <2>5, <2>10 DEF PipeTypeOK, QueueNamed
  <2>12. QED
    BY <2>5, <2>7, <2>9, <2>11 DEF PipeIInv
<1>2. CASE ListRoutes(w)
  <2> DEFINE p == [passes[w] EXCEPT !.step = "matching", !.todo = Matches(passes[w].frag, passes[w].version)]
  <2>1. /\ p \in PassState /\ p.frag = passes[w].frag /\ p.seen = passes[w].seen
        /\ p.delivered = passes[w].delivered /\ p.step = "matching"
        /\ \A r \in p.todo : FragOf[r] = p.frag
    BY <1>t DEF PassState, Matches
  <2>2. /\ passes' = [passes EXCEPT ![w] = p] /\ passes[w].step # "idle"
        /\ UNCHANGED vars /\ UNCHANGED <<routes, versions, routers, asked, cut, repeated>>
    BY <1>2 DEF ListRoutes
  <2> HIDE DEF p
  <2>3. passes'[w] = p
    BY <1>t, <2>1, <2>2, PassMoves
  <2>4. KeepsFacts /\ UNCHANGED <<drainers, acked, status, inbox>>
    BY <2>2, VarsUnchanged, NoChange
  <2>5. PassTells(w)'
    BY <1>t, <2>1, <2>2, <2>3, <2>4 DEF PassTells, HasAck
  <2>6. QED
    BY <2>1, <2>2, <2>4, <2>5, PassMovesOn
<1>3. ASSUME NEW r \in Requests, MatchDelivered(w, r)
      PROVE  PipeIInv' /\ LeavesRouted
  <2> DEFINE p == [passes[w] EXCEPT !.todo = passes[w].todo \ {r}, !.delivered = TRUE]
  <2>1. /\ p \in PassState /\ p.frag = passes[w].frag /\ p.seen = passes[w].seen
        /\ p.step = passes[w].step /\ p.todo \subseteq passes[w].todo
    BY <1>t DEF PassState
  <2>2. /\ passes' = [passes EXCEPT ![w] = p] /\ passes[w].step = "matching"
        /\ r \in passes[w].todo
        /\ InlineAck(r) /\ UNCHANGED <<routes, versions, routers, asked, cut, repeated>>
    BY <1>3 DEF MatchDelivered, NextMatch
  <2> HIDE DEF p
  <2>3. passes'[w] = p
    BY <1>t, <2>1, <2>2, PassMoves
  <2>4. KeepsFacts /\ acked'[r] > 0 /\ UNCHANGED <<drainers, status, inbox>>
    BY <2>2, InlineAckFacts
  <2>5. PassTells(w)'
    BY <1>t, <2>1, <2>2, <2>3, <2>4 DEF PassTells, HasAck
  <2>6. QED
    BY <2>1, <2>2, <2>4, <2>5, PassMovesOn
<1>4. ASSUME NEW r \in Requests, MatchQueued(w, r) \/ MatchOnlyLogged(w, r)
      PROVE  PipeIInv' /\ LeavesRouted
  <2> DEFINE p == [passes[w] EXCEPT !.todo = passes[w].todo \ {r}]
  <2>1. /\ p \in PassState /\ p.frag = passes[w].frag /\ p.seen = passes[w].seen
        /\ p.step = passes[w].step /\ p.delivered = passes[w].delivered
        /\ p.todo \subseteq passes[w].todo
    BY <1>t DEF PassState
  <2>2. /\ passes' = [passes EXCEPT ![w] = p] /\ passes[w].step = "matching"
        /\ UNCHANGED <<routes, versions, routers, asked, cut, repeated>>
    BY <1>4 DEF MatchQueued, MatchOnlyLogged, NextMatch, MatchDone
  <2> HIDE DEF p
  <2>3. passes'[w] = p
    BY <1>t, <2>1, <2>2, PassMoves
  <2>4. KeepsFacts /\ UNCHANGED <<drainers, acked, status, inbox>>
    <3>1. CASE MatchQueued(w, r)
      BY <3>1, EnqueueFacts DEF MatchQueued
    <3>2. CASE MatchOnlyLogged(w, r)
      <4>1. faults' \in Nat
        BY <3>2 DEF MatchOnlyLogged, PipeIInv, QueueNamed, TypeOK
      <4>2. QED
        BY <3>2, <4>1, NoChange DEF MatchOnlyLogged
    <3>3. QED
      BY <1>4, <3>1, <3>2
  <2>5. PassTells(w)'
    BY <1>t, <2>1, <2>2, <2>3, <2>4 DEF PassTells, HasAck
  <2>6. QED
    BY <2>1, <2>2, <2>4, <2>5, PassMovesOn
<1>5. CASE AbandonPass(w) \/ \E r \in Requests : MatchHasNoDestination(w, r)
  <2>1. /\ passes' = [passes EXCEPT ![w] = IdlePass] /\ passes[w].step # "idle"
        /\ cut' = cut \cup {passes[w].frag}
        /\ UNCHANGED <<routes, versions, routers, asked, repeated>>
    BY <1>5 DEF AbandonPass, MatchHasNoDestination, NextMatch, CutPass
  <2>2. KeepsFacts /\ UNCHANGED <<drainers, acked, status, inbox>>
    <3>1. CASE AbandonPass(w)
      <4>1. faults' \in Nat
        BY <3>1 DEF AbandonPass, PipeIInv, QueueNamed, TypeOK
      <4>2. QED
        BY <3>1, <4>1, NoChange DEF AbandonPass
    <3>2. CASE \E r \in Requests : MatchHasNoDestination(w, r)
      BY <3>2, VarsUnchanged, NoChange DEF MatchHasNoDestination
    <3>3. QED
      BY <1>5, <3>1, <3>2
  <2>3. cut' \subseteq Fragments /\ cut \subseteq cut' /\ passes[w].frag \in cut'
    BY <1>t, <1>f, <2>1
  <2>4. QED
    BY <2>1, <2>2, <2>3, PassEnds
<1>6. CASE EndMatches(w)
  <2> DEFINE p == [passes[w] EXCEPT !.step = IF passes[w].delivered THEN "delivered" ELSE "staging"]
  <2>1. /\ p \in PassState /\ p.frag = passes[w].frag /\ p.seen = passes[w].seen
        /\ p.step = (IF passes[w].delivered THEN "delivered" ELSE "staging")
        /\ p.delivered = passes[w].delivered /\ p.todo = passes[w].todo
    BY <1>t DEF PassState
  <2>2. /\ passes' = [passes EXCEPT ![w] = p] /\ passes[w].step = "matching"
        /\ UNCHANGED vars /\ UNCHANGED <<routes, versions, routers, asked, cut, repeated>>
    BY <1>6 DEF EndMatches
  <2> HIDE DEF p
  <2>3. passes'[w] = p
    BY <1>t, <2>1, <2>2, PassMoves
  <2>4. KeepsFacts /\ UNCHANGED <<drainers, acked, status, inbox>>
    BY <2>2, VarsUnchanged, NoChange
  <2>5. PassTells(w)'
    BY <1>t, <2>1, <2>2, <2>3, <2>4 DEF PassTells, HasAck
  <2>6. QED
    BY <2>1, <2>2, <2>4, <2>5, PassMovesOn
<1>7. CASE MarkPassRouted(w)
  <2> DEFINE p == [passes[w] EXCEPT !.step = "clearing", !.seen = "routed"]
  <2>1. /\ p \in PassState /\ p.frag = passes[w].frag /\ p.seen = "routed"
        /\ p.step = "clearing" /\ p.delivered = passes[w].delivered /\ p.todo = passes[w].todo
    BY <1>t DEF PassState
  <2>2. /\ passes' = [passes EXCEPT ![w] = p] /\ passes[w].step = "delivered"
        /\ UNCHANGED <<queueVars, inbox, dests, routes, versions, routers, asked, cut, repeated>>
    BY <1>7 DEF MarkPassRouted
  <2> HIDE DEF p
  <2>3. passes'[w] = p
    BY <1>t, <2>1, <2>2, PassMoves
  <2>4. PICK f \in Fragments : f = passes[w].frag
    BY <2>2, <1>f
  <2>5. HasAck(f)
    BY <1>t, <2>2, <2>4 DEF PassTells
  <2>6. status' = [status EXCEPT ![f] = "routed"] /\ UNCHANGED <<queueVars, inbox, dests>>
    BY <1>7, <2>2, <2>4 DEF MarkPassRouted
  <2>7. KeepsFacts /\ status'[f] = "routed" /\ UNCHANGED <<drainers, acked>>
    BY <2>5, <2>6, MarkFacts
  <2>8. PassTells(w)'
    BY <1>t, <2>1, <2>2, <2>3, <2>4, <2>7 DEF PassTells, HasAck
  <2>9. QED
    BY <2>1, <2>2, <2>7, <2>8, PassMovesOn
<1>8. CASE ClearPass(w)
  <2> DEFINE p == [passes[w] EXCEPT !.step = "staging"]
  <2>1. /\ p \in PassState /\ p.frag = passes[w].frag /\ p.seen = passes[w].seen
        /\ p.step = "staging" /\ p.delivered = passes[w].delivered /\ p.todo = passes[w].todo
    BY <1>t DEF PassState
  <2>2. /\ passes' = [passes EXCEPT ![w] = p] /\ passes[w].step = "clearing"
        /\ UNCHANGED <<queueVars, status, dests, routes, versions, routers, asked, cut, repeated>>
    BY <1>8 DEF ClearPass
  <2> HIDE DEF p
  <2>3. passes'[w] = p
    BY <1>t, <2>1, <2>2, PassMoves
  <2>4. PICK f \in Fragments : f = passes[w].frag /\ status[f] = "routed"
    BY <1>t, <2>2 DEF PassTells
  <2>5. inbox' = inbox \ {f}
    BY <1>8, <2>4 DEF ClearPass
  <2>6. KeepsFacts /\ UNCHANGED <<drainers, acked, status>>
    BY <2>2, <2>4, <2>5, InboxFacts
  <2>7. PassTells(w)'
    BY <1>t, <2>1, <2>2, <2>3, <2>6 DEF PassTells, HasAck
  <2>8. QED
    BY <2>1, <2>2, <2>6, <2>7, PassMovesOn
<1>9. CASE StageInbox(w)
  <2>1. /\ passes' = [passes EXCEPT ![w] = IdlePass] /\ passes[w].step = "staging"
        /\ UNCHANGED <<queueVars, status, dests, routes, versions, routers, asked, cut, repeated>>
    BY <1>9 DEF StageInbox
  <2>2. PICK f \in Fragments : f = passes[w].frag
    BY <2>1, <1>f
  <2>3. inbox' = IF passes[w].seen = "inbox" THEN inbox \cup {f} ELSE inbox
    BY <1>9, <2>2 DEF StageInbox
  <2>4. KeepsFacts /\ UNCHANGED <<drainers, acked, status>>
    BY <2>1, <2>3, InboxFacts
  <2>5. f \in inbox' \/ status'[f] = "routed"
    BY <1>t, <2>2, <2>3, <2>4 DEF PassTells, PassState
  <2>6. passes[w].frag \in inbox' \/ status'[passes[w].frag] = "routed" \/ passes[w].frag \in cut'
    BY <2>2, <2>5
  <2>7. cut \subseteq cut' /\ cut' \subseteq Fragments
    BY <1>t, <2>1
  <2>8. QED
    BY <2>1, <2>4, <2>6, <2>7, PassEnds
<1>10. QED
  BY <1>1, <1>2, <1>3, <1>4, <1>5, <1>6, <1>7, <1>8, <1>9 DEF Pass

-------------------------------------------------------------------------------
(***************************************************************************)
(* The steps of a person's call, and the steps that are nobody's.          *)
(***************************************************************************)

\* A router that moves.
LEMMA RouterMovesOn ==
    ASSUME PipeIInv, KeepsFacts, NEW m \in Routers, NEW p \in RouterState,
           routers' = [routers EXCEPT ![m] = p],
           RouterTells(m)',
           asked' \subseteq Requests,
           UNCHANGED <<drainers, routes, versions, passes, cut, repeated>>
    PROVE  PipeIInv' /\ LeavesRouted
<1>t. routers \in [Routers -> RouterState] /\ PipeTypeOK
  BY DEF PipeIInv, PipeTypeOK
<1>1. /\ routers' \in [Routers -> RouterState]
      /\ \A n \in Routers : n # m => routers'[n] = routers[n]
  BY <1>t, RouterMoves
<1>2. Sticks /\ LeavesRouted /\ RoutedIsAcked /\ QueueNamed'
  BY DEF KeepsFacts
<1>3. /\ \A d \in Drainers : DrainerTells(d)'
      /\ \A w \in Workers : PassTells(w)'
      /\ \A n \in Routers : RouterTells(n)'
  BY <1>1, <1>2, DrainersStay, PassesStay, RoutersStay
<1>4. FragmentAccounted'
  BY <1>2, AccountedWithoutPasses
<1>5. PipeTypeOK'
  BY <1>1, <1>2, <1>t DEF PipeTypeOK, QueueNamed
<1>6. QED
  BY <1>2, <1>3, <1>4, <1>5 DEF PipeIInv

\* What a router's step leaves it with says nothing, or goes on delivering.
LEMMA AfterTypes ==
    ASSUME NEW todo \in SUBSET Requests
    PROVE  After(todo) \in RouterState /\ After(todo).step \in {"idle", "delivering"}
BY DEF After, IdleRouter, RouterState, MaybeRequest

LEMMA RouteIInv ==
    ASSUME PipeIInv, NEW m \in Routers, Route(m)
    PROVE  PipeIInv' /\ LeavesRouted
<1>t. /\ routers \in [Routers -> RouterState] /\ routers[m] \in RouterState
      /\ routers[m].todo \subseteq Requests
      /\ asked \subseteq Requests
      /\ RouterTells(m)
  BY DEF PipeIInv, PipeTypeOK, RouterState
<1>1. ASSUME NEW reqs, StartRouting(m, reqs)
      PROVE  PipeIInv' /\ LeavesRouted
  <2>1. reqs \in SUBSET Requests
    BY <1>1 DEF StartRouting, Manual
  <2> DEFINE p == [step |-> "delivering", todo |-> reqs, req |-> NoRequest]
  <2>2. p \in RouterState /\ p.step = "delivering"
    BY <2>1 DEF RouterState, MaybeRequest
  <2>3. /\ routers' = [routers EXCEPT ![m] = p] /\ asked' = asked \cup reqs
        /\ UNCHANGED vars /\ UNCHANGED <<routes, versions, passes, cut, repeated>>
    BY <1>1 DEF StartRouting
  <2> HIDE DEF p
  <2>4. routers'[m] = p
    BY <1>t, <2>2, <2>3, RouterMoves
  <2>5. KeepsFacts /\ UNCHANGED drainers
    BY <2>3, VarsUnchanged, NoChange
  <2>6. RouterTells(m)'
    BY <2>2, <2>4 DEF RouterTells
  <2>7. asked' \subseteq Requests
    BY <1>t, <2>1, <2>3
  <2>8. QED
    BY <2>2, <2>3, <2>5, <2>6, <2>7, RouterMovesOn
<1>2. ASSUME NEW r \in Requests, ItemDelivered(m, r)
      PROVE  PipeIInv' /\ LeavesRouted
  <2> DEFINE p == [step |-> "acked", todo |-> routers[m].todo \ {r}, req |-> r]
  <2>1. p \in RouterState /\ p.step = "acked" /\ p.req = r
    BY <1>t DEF RouterState, MaybeRequest
  <2>2. /\ routers' = [routers EXCEPT ![m] = p] /\ InlineAck(r)
        /\ UNCHANGED <<routes, versions, passes, asked, cut, repeated>>
    BY <1>2 DEF ItemDelivered
  <2> HIDE DEF p
  <2>3. routers'[m] = p
    BY <1>t, <2>1, <2>2, RouterMoves
  <2>4. KeepsFacts /\ acked'[r] > 0 /\ UNCHANGED drainers
    BY <2>2, InlineAckFacts
  <2>5. RouterTells(m)'
    BY <2>1, <2>3, <2>4 DEF RouterTells
  <2>6. QED
    BY <1>t, <2>1, <2>2, <2>4, <2>5, RouterMovesOn
<1>3. ASSUME NEW r \in Requests, ItemQueued(m, r) \/ ItemFailed(m, r)
      PROVE  PipeIInv' /\ LeavesRouted
  <2> DEFINE p == After(routers[m].todo \ {r})
  <2>1. p \in RouterState /\ p.step \in {"idle", "delivering"}
    BY <1>t, AfterTypes
  <2>2. /\ routers' = [routers EXCEPT ![m] = p]
        /\ UNCHANGED <<routes, versions, passes, asked, cut, repeated>>
    BY <1>3 DEF ItemQueued, ItemFailed, ItemDone
  <2> HIDE DEF p
  <2>3. routers'[m] = p
    BY <1>t, <2>1, <2>2, RouterMoves
  <2>4. KeepsFacts /\ UNCHANGED drainers
    <3>1. CASE ItemQueued(m, r)
      BY <3>1, EnqueueFacts DEF ItemQueued
    <3>2. CASE ItemFailed(m, r)
      <4>1. faults' \in Nat
        BY <3>2 DEF ItemFailed, PipeIInv, QueueNamed, TypeOK
      <4>2. QED
        BY <3>2, <4>1, NoChange DEF ItemFailed
    <3>3. QED
      BY <1>3, <3>1, <3>2
  <2>5. RouterTells(m)'
    BY <2>1, <2>3 DEF RouterTells
  <2>6. QED
    BY <1>t, <2>1, <2>2, <2>4, <2>5, RouterMovesOn
<1>4. CASE MarkItemRouted(m)
  <2> DEFINE p == [routers[m] EXCEPT !.step = "routed"]
  <2>1. p \in RouterState /\ p.step = "routed" /\ p.req = routers[m].req
    BY <1>t DEF RouterState
  <2>2. /\ routers' = [routers EXCEPT ![m] = p] /\ routers[m].step = "acked"
        /\ UNCHANGED <<queueVars, inbox, dests, routes, versions, passes, asked, cut, repeated>>
    BY <1>4 DEF MarkItemRouted
  <2> HIDE DEF p
  <2>3. routers'[m] = p
    BY <1>t, <2>1, <2>2, RouterMoves
  <2>4. PICK r \in Requests : r = routers[m].req /\ acked[r] > 0
    BY <1>t, <2>2 DEF RouterTells
  <2>5. PICK f \in Fragments : f = FragOf[r]
    BY RequestAssumption
  <2>6. HasAck(f)
    BY <2>4, <2>5 DEF HasAck
  <2>7. status' = [status EXCEPT ![f] = "routed"]
    BY <1>4, <2>4, <2>5 DEF MarkItemRouted
  <2>8. KeepsFacts /\ status'[f] = "routed" /\ UNCHANGED drainers
    BY <2>2, <2>6, <2>7, MarkFacts
  <2>9. RouterTells(m)'
    BY <2>1, <2>3, <2>4, <2>5, <2>8 DEF RouterTells
  <2>10. QED
    BY <1>t, <2>1, <2>2, <2>8, <2>9, RouterMovesOn
<1>5. CASE ClearItem(m)
  <2> DEFINE p == After(routers[m].todo)
  <2>1. p \in RouterState /\ p.step \in {"idle", "delivering"}
    BY <1>t, AfterTypes
  <2>2. /\ routers' = [routers EXCEPT ![m] = p] /\ routers[m].step = "routed"
        /\ UNCHANGED <<queueVars, status, dests, routes, versions, passes, asked, cut, repeated>>
    BY <1>5 DEF ClearItem
  <2> HIDE DEF p
  <2>3. routers'[m] = p
    BY <1>t, <2>1, <2>2, RouterMoves
  <2>4. PICK f \in Fragments : f = FragOf[routers[m].req] /\ status[f] = "routed"
    BY <1>t, <2>2, RequestAssumption DEF RouterTells
  <2>5. inbox' = inbox \ {f}
    BY <1>5, <2>4 DEF ClearItem
  <2>6. KeepsFacts /\ UNCHANGED drainers
    BY <2>2, <2>4, <2>5, InboxFacts
  <2>7. RouterTells(m)'
    BY <2>1, <2>3 DEF RouterTells
  <2>8. QED
    BY <1>t, <2>1, <2>2, <2>6, <2>7, RouterMovesOn
<1>6. CASE AbandonRouting(m)
  <2>1. IdleRouter \in RouterState /\ IdleRouter.step = "idle"
    BY DEF IdleRouter, RouterState, MaybeRequest
  <2>2. /\ routers' = [routers EXCEPT ![m] = IdleRouter]
        /\ UNCHANGED <<routes, versions, passes, asked, cut, repeated>>
    BY <1>6 DEF AbandonRouting
  <2>3. routers'[m] = IdleRouter
    BY <1>t, <2>2
  <2>4. faults' \in Nat
    BY <1>6 DEF AbandonRouting, PipeIInv, QueueNamed, TypeOK
  <2>5. KeepsFacts /\ UNCHANGED drainers
    BY <1>6, <2>4, NoChange DEF AbandonRouting
  <2>6. RouterTells(m)'
    BY <2>1, <2>3 DEF RouterTells
  <2>7. QED
    BY <1>t, <2>1, <2>2, <2>5, <2>6, RouterMovesOn
<1>7. QED
  BY <1>1, <1>2, <1>3, <1>4, <1>5, <1>6 DEF Route, RouteFragment, ApplyRouteByEntity

\* Content repeated, routes and destinations deleted, or nothing at all.
LEMMA RestIInv ==
    ASSUME PipeIInv,
           \/ \E f \in Fragments : RepeatVersion(f)
           \/ \E t \in Destinations : DeleteRoutesForDestination(t) \/ DropDestination(t)
           \/ UNCHANGED allVars
    PROVE  PipeIInv' /\ LeavesRouted
<1>t. PipeTypeOK /\ QueueNamed
  BY DEF PipeIInv
<1>1. /\ UNCHANGED <<versions, passes, routers, asked, cut, drainers, acked, status, inbox>>
      /\ routes' \subseteq Destinations /\ repeated' \subseteq cut'
  BY <1>t DEF RepeatVersion, DeleteRoutesForDestination, DropDestination, DeleteDestination,
              allVars, vars, pipeVars, queueVars, routeVars, PipeTypeOK
<1>2. QueueNamed'
  <2>1. CASE UNCHANGED vars
    BY <2>1, VarsUnchanged, NoChange DEF KeepsFacts
  <2>2. CASE \E t \in Destinations : DropDestination(t)
    BY <2>2, <1>t, OutsideNamed DEF DropDestination
  <2>3. QED
    BY <2>1, <2>2 DEF RepeatVersion, DeleteRoutesForDestination, allVars
<1>3. Sticks /\ LeavesRouted /\ RoutedIsAcked
  BY <1>1, QuietFacts
<1>4. /\ \A d \in Drainers : DrainerTells(d)'
      /\ \A w \in Workers : PassTells(w)'
      /\ \A n \in Routers : RouterTells(n)'
  BY <1>1, <1>3, DrainersStay, PassesStay, RoutersStay
<1>5. FragmentAccounted'
  BY <1>1, <1>3, AccountedWithoutPasses
<1>6. PipeTypeOK'
  BY <1>1, <1>2, <1>t DEF PipeTypeOK, QueueNamed
<1>7. QED
  BY <1>2, <1>3, <1>4, <1>5, <1>6 DEF PipeIInv

-------------------------------------------------------------------------------
(***************************************************************************)
(* The theorems.                                                           *)
(***************************************************************************)
LEMMA PipeInitIInv == PipeInit => PipeIInv
<1> SUFFICES ASSUME PipeInit PROVE PipeIInv
  OBVIOUS
<1>1. TypeOK
  BY RequestAssumption, RowAssumption, PolicyAssumption
  DEF PipeInit, QueueInit, TypeOK, T!EmptyTable, T!JobTables, T!JobRow, T!JobStates,
      DeadStates, DrainerSteps, OperatorSteps, IdleDrainer, IdleOperator,
      MaybeRequest, DeadRow, DrainerState, OperatorState
<1>2. CopiesNamed /\ TablesNamed
  BY DEF PipeInit, QueueInit, CopiesNamed, TablesNamed, DrainerNamed, OperatorNamed,
         IdleDrainer, IdleOperator, T!EmptyTable
<1>3. PipeTypeOK
  BY <1>1, PipeAssumption
  DEF PipeInit, PipeTypeOK, IdlePass, PassState, IdleRouter, RouterState, MaybeRequest
<1>4. /\ \A d \in Drainers : DrainerTells(d)
      /\ \A w \in Workers : PassTells(w)
      /\ \A m \in Routers : RouterTells(m)
  BY DEF PipeInit, QueueInit, DrainerTells, PassTells, RouterTells, IdleDrainer, IdlePass, IdleRouter
<1>5. FragmentAccounted
  BY DEF PipeInit, FragmentAccounted
<1>6. QED
  BY <1>1, <1>2, <1>3, <1>4, <1>5 DEF PipeIInv, QueueNamed

LEMMA PipeNextIInv == PipeIInv /\ [PipeNext]_allVars => PipeIInv' /\ LeavesRouted
<1> SUFFICES ASSUME PipeIInv, [PipeNext]_allVars PROVE PipeIInv' /\ LeavesRouted
  OBVIOUS
<1>1. CASE \E w \in Workers : Pass(w)
  BY <1>1, PassIInv
<1>2. CASE \E m \in Routers : Route(m)
  BY <1>2, RouteIInv
<1>3. CASE QueueNext /\ UNCHANGED pipeVars
  BY <1>3, QueueStepIInv
<1>4. CASE \/ \E f \in Fragments : RepeatVersion(f)
           \/ \E t \in Destinations : DeleteRoutesForDestination(t) \/ DropDestination(t)
           \/ UNCHANGED allVars
  BY <1>4, RestIInv
<1>5. QED
  BY <1>1, <1>2, <1>3, <1>4 DEF PipeNext

\* The invariant holds however many workers, drainers, people and operators there are.
THEOREM PipeInvariantHolds == PipeSpec => []PipeIInv
<1>1. PipeInit => PipeIInv
  BY PipeInitIInv
<1>2. PipeIInv /\ [PipeNext]_allVars => PipeIInv'
  BY PipeNextIInv
<1>3. QED
  BY <1>1, <1>2, PTL DEF PipeSpec

\* Between passes a fragment is in the inbox, routed, or its pass was cut off; and what is
\* routed was acknowledged (RouteStage, InboxStage, processJob, ApplyRouteByEntity).
THEOREM FragmentsStayAccounted == PipeSpec => []FragmentAccounted
<1>1. PipeIInv => FragmentAccounted
  BY DEF PipeIInv
<1>2. QED
  BY <1>1, PipeInvariantHolds, PTL

\* Whoever takes a fragment out of the inbox, its status says routed by then.
THEOREM TheInboxKeepsTheUnrouted == PipeSpec => OnlyRoutedLeaveInbox
<1>1. PipeIInv /\ [PipeNext]_allVars => [\A f \in inbox : f \in inbox' \/ status[f] = "routed"]_allVars
  BY PipeNextIInv DEF LeavesRouted
<1>2. QED
  BY <1>1, PipeInvariantHolds, PTL DEF PipeSpec, OnlyRoutedLeaveInbox

-------------------------------------------------------------------------------
(***************************************************************************)
(* Fan-out.  A match of a version that was accepted has had its turn, or a *)
(* pass on that very version has not come to it yet: it has still to list  *)
(* the routes, or the match is on its list.                                *)
(***************************************************************************)
HadTurn(r) ==
    \/ acked[r] > 0 \/ r \in accepted
    \/ faults < MaxFaults \/ FragOf[r] \in cut \/ DestOf[r] \notin routes

AwaitsTurn(w, r) ==
    /\ passes[w].frag = FragOf[r] /\ passes[w].version = VersionOf[r]
    /\ passes[w].step = "accepted" \/ (passes[w].step = "matching" /\ r \in passes[w].todo)

MatchesTended ==
    \A r \in Requests \ Manual : versions[FragOf[r]] >= VersionOf[r] =>
        HadTurn(r) \/ \E w \in Workers : AwaitsTurn(w, r)

TurnInv == faults <= MaxFaults /\ MatchesTended

\* What gave a match its turn is never taken back.
TurnsStick ==
    /\ \A r \in Requests : acked[r] > 0 => acked'[r] > 0
    /\ accepted \subseteq accepted' /\ cut \subseteq cut' /\ routes' \subseteq routes
    /\ faults' \in Nat /\ faults' <= faults

LEMMA HadTurnSticks ==
    ASSUME PipeIInv, TurnInv, TurnsStick
    PROVE  /\ faults' <= MaxFaults
           /\ \A r \in Requests : HadTurn(r) => HadTurn(r)'
<1>1. faults \in Nat /\ MaxFaults \in Nat /\ faults <= MaxFaults
  BY PolicyAssumption DEF PipeIInv, QueueNamed, TypeOK, TurnInv
<1>2. \A r \in Requests : DestOf[r] \in Destinations
  BY RequestAssumption
<1>3. QED
  BY <1>1, <1>2 DEF HadTurn, TurnsStick

LEMMA DrainTurns ==
    ASSUME PipeIInv, NEW d \in Drainers, Drain(d) \/ AbandonJob(d), UNCHANGED pipeVars
    PROVE  TurnsStick
<1>1. \A r \in Requests : acked[r] > 0 => acked'[r] > 0
  BY DrainFacts DEF Sticks
<1>2. accepted' = accepted /\ cut' = cut /\ routes' = routes
  BY DEF Drain, DrainPop, LoadJob, ExecuteAcked, ExecuteFailed, MarkRouted, RemoveFromInbox, DeleteJob,
         ReleaseJob, FailJob, AbandonJob, pipeVars
<1>3. faults \in Nat
  BY DEF PipeIInv, QueueNamed, TypeOK
<1>4. faults' = faults \/ (faults > 0 /\ faults' = faults - 1)
  BY DEF Drain, DrainPop, LoadJob, ExecuteAcked, ExecuteFailed, MarkRouted, RemoveFromInbox, DeleteJob,
         ReleaseJob, FailJob, AbandonJob
<1>5. QED
  BY <1>1, <1>2, <1>3, <1>4 DEF TurnsStick

LEMMA OutsideTurns ==
    ASSUME PipeIInv, (\E o \in Operators : Replay(o) \/ Purge(o) \/ AbandonOperator(o)) \/ Clock,
           UNCHANGED pipeVars
    PROVE  TurnsStick
<1>1. acked' = acked /\ accepted' = accepted /\ cut' = cut /\ routes' = routes
  BY DEF Replay, Purge, ReplayFind, ReplayPreflight, ReplayPush, ReplayLog, ReplayDelete, PurgeFind,
         PurgeDelete, AbandonOperator, Clock, LapseReservation, ReplayAges, CooldownEnds, pipeVars
<1>2. faults \in Nat
  BY DEF PipeIInv, QueueNamed, TypeOK
<1>3. faults' = faults \/ (faults > 0 /\ faults' = faults - 1)
  BY DEF Replay, Purge, ReplayFind, ReplayPreflight, ReplayPush, ReplayLog, ReplayDelete, PurgeFind,
         PurgeDelete, AbandonOperator, Clock, LapseReservation, ReplayAges, CooldownEnds
<1>4. QED
  BY <1>1, <1>2, <1>3 DEF TurnsStick

\* Neither a pass nor a person's call takes a turn back.
LEMMA InlineTurns ==
    ASSUME PipeIInv, NEW r \in Requests, InlineAck(r), cut' = cut, routes' = routes
    PROVE  TurnsStick /\ acked'[r] > 0
<1>1. acked'[r] > 0 /\ \A q \in Requests : acked[q] > 0 => acked'[q] > 0
  BY InlineAckFacts DEF KeepsFacts, Sticks
<1>2. accepted' = accepted /\ faults' = faults /\ faults \in Nat
  BY DEF InlineAck, PipeIInv, QueueNamed, TypeOK
<1>3. QED
  BY <1>1, <1>2 DEF TurnsStick

LEMMA SpentTurns ==
    ASSUME PipeIInv, cut \subseteq cut', routes' \subseteq routes, acked' = acked,
           accepted \subseteq accepted', faults' = faults \/ (faults > 0 /\ faults' = faults - 1)
    PROVE  TurnsStick
BY DEF TurnsStick, PipeIInv, QueueNamed, TypeOK

LEMMA PassTurns ==
    ASSUME PipeIInv, NEW w \in Workers, Pass(w)
    PROVE  TurnsStick
<1>1. CASE \E r \in Requests : MatchDelivered(w, r)
  BY <1>1, InlineTurns DEF MatchDelivered
<1>2. CASE \/ \E r \in Requests : MatchQueued(w, r) \/ MatchOnlyLogged(w, r)
           \/ \E f \in Fragments : AcceptVersion(w, f)
           \/ ListRoutes(w) \/ EndMatches(w) \/ MarkPassRouted(w) \/ ClearPass(w) \/ StageInbox(w)
  <2>1. cut' = cut /\ routes' = routes /\ acked' = acked
    BY <1>2 DEF MatchQueued, MatchOnlyLogged, EnqueueDestinationRetry, AcceptVersion, ListRoutes, EndMatches,
                MarkPassRouted, ClearPass, StageInbox, vars, queueVars
  <2>2. accepted \subseteq accepted' /\ (faults' = faults \/ (faults > 0 /\ faults' = faults - 1))
    BY <1>2 DEF MatchQueued, MatchOnlyLogged, EnqueueDestinationRetry, AcceptVersion, ListRoutes, EndMatches,
                MarkPassRouted, ClearPass, StageInbox, vars, queueVars
  <2>3. QED
    BY <2>1, <2>2, SpentTurns
<1>3. CASE AbandonPass(w) \/ \E r \in Requests : MatchHasNoDestination(w, r)
  <2>1. /\ cut \subseteq cut' /\ routes' = routes /\ acked' = acked /\ accepted' = accepted
        /\ faults' = faults \/ (faults > 0 /\ faults' = faults - 1)
    BY <1>3 DEF AbandonPass, MatchHasNoDestination, CutPass, vars, queueVars
  <2>2. QED
    BY <2>1, SpentTurns
<1>4. QED
  BY <1>1, <1>2, <1>3 DEF Pass

LEMMA RouteTurns ==
    ASSUME PipeIInv, NEW m \in Routers, Route(m)
    PROVE  TurnsStick
<1>1. CASE \E r \in Requests : ItemDelivered(m, r)
  BY <1>1, InlineTurns DEF ItemDelivered
<1>2. CASE \/ \E r \in Requests : RouteFragment(m, r) \/ ItemQueued(m, r) \/ ItemFailed(m, r)
           \/ \E t \in Destinations : ApplyRouteByEntity(m, t)
           \/ MarkItemRouted(m) \/ ClearItem(m) \/ AbandonRouting(m)
  <2>1. cut' = cut /\ routes' = routes /\ acked' = acked
    BY <1>2 DEF RouteFragment, ApplyRouteByEntity, StartRouting, ItemQueued, EnqueueDestinationRetry, ItemFailed,
                MarkItemRouted, ClearItem, AbandonRouting, vars, queueVars
  <2>2. accepted \subseteq accepted' /\ (faults' = faults \/ (faults > 0 /\ faults' = faults - 1))
    BY <1>2 DEF RouteFragment, ApplyRouteByEntity, StartRouting, ItemQueued, EnqueueDestinationRetry, ItemFailed,
                MarkItemRouted, ClearItem, AbandonRouting, vars, queueVars
  <2>3. QED
    BY <2>1, <2>2, SpentTurns
<1>3. QED
  BY <1>1, <1>2 DEF Route


\* Only a pass moves what its matches await; every other step leaves them so.
LEMMA TurnsWithoutPasses ==
    ASSUME PipeIInv, TurnInv, TurnsStick, UNCHANGED <<versions, passes>>
    PROVE  TurnInv'
<1>1. faults' <= MaxFaults /\ \A r \in Requests : HadTurn(r) => HadTurn(r)'
  BY HadTurnSticks
<1>2. MatchesTended'
  BY <1>1 DEF TurnInv, MatchesTended, AwaitsTurn
<1>3. QED
  BY <1>1, <1>2 DEF TurnInv

\* A pass moves: each match that awaited it awaits it still, or has had its turn.
LEMMA TurnsWithPass ==
    ASSUME PipeIInv, TurnInv, TurnsStick, versions' = versions, NEW w \in Workers,
           \A v \in Workers : v # w => passes'[v] = passes[v],
           \A r \in Requests \ Manual : AwaitsTurn(w, r) => AwaitsTurn(w, r)' \/ HadTurn(r)'
    PROVE  TurnInv'
<1>1. faults' <= MaxFaults /\ \A r \in Requests : HadTurn(r) => HadTurn(r)'
  BY HadTurnSticks
<1>2. ASSUME NEW r \in Requests \ Manual, versions[FragOf[r]] >= VersionOf[r]
      PROVE  HadTurn(r)' \/ \E v \in Workers : AwaitsTurn(v, r)'
  <2>1. CASE HadTurn(r)
    BY <1>1, <2>1
  <2>2. ASSUME NEW v \in Workers, AwaitsTurn(v, r) PROVE HadTurn(r)' \/ \E u \in Workers : AwaitsTurn(u, r)'
    <3>1. CASE v = w
      BY <2>2, <3>1
    <3>2. CASE v # w
      BY <2>2, <3>2 DEF AwaitsTurn
    <3>3. QED
      BY <3>1, <3>2
  <2>3. QED
    BY <1>2, <2>1, <2>2 DEF TurnInv, MatchesTended
<1>3. MatchesTended'
  BY <1>2 DEF MatchesTended
<1>4. QED
  BY <1>1, <1>3 DEF TurnInv

LEMMA PassTendsMatches ==
    ASSUME PipeIInv, TurnInv, NEW w \in Workers, Pass(w)
    PROVE  TurnInv'
<1>t. /\ passes \in [Workers -> PassState] /\ passes[w] \in PassState
      /\ versions \in [Fragments -> 0..MaxVersions]
  BY DEF PipeIInv, PipeTypeOK
<1>s. TurnsStick
  BY PassTurns
<1>h. faults' <= MaxFaults /\ \A r \in Requests : HadTurn(r) => HadTurn(r)'
  BY <1>s, HadTurnSticks
<1>1. ASSUME NEW f \in Fragments, AcceptVersion(w, f) PROVE TurnInv'
  <2>1. /\ passes[w].step = "idle" /\ versions[f] \in Nat
        /\ versions'[f] = versions[f] + 1 /\ \A g \in Fragments : g # f => versions'[g] = versions[g]
    BY <1>1, <1>t, PipeAssumption DEF AcceptVersion
  <2>2. /\ passes'[w].step = "accepted" /\ passes'[w].frag = f /\ passes'[w].version = versions[f] + 1
        /\ \A v \in Workers : v # w => passes'[v] = passes[v]
    BY <1>1, <1>t DEF AcceptVersion
  <2>3. ASSUME NEW r \in Requests \ Manual, versions'[FragOf[r]] >= VersionOf[r]
        PROVE  HadTurn(r)' \/ \E v \in Workers : AwaitsTurn(v, r)'
    <3>1. FragOf[r] \in Fragments /\ VersionOf[r] \in Nat
      BY RequestAssumption, PipeAssumption
    <3>2. CASE FragOf[r] = f /\ VersionOf[r] = versions[f] + 1
      BY <2>2, <3>2 DEF AwaitsTurn
    <3>3. CASE ~(FragOf[r] = f /\ VersionOf[r] = versions[f] + 1)
      <4>1. versions[FragOf[r]] >= VersionOf[r]
        BY <2>1, <2>3, <3>1, <3>3
      <4>2. HadTurn(r) \/ \E v \in Workers : AwaitsTurn(v, r)
        BY <4>1 DEF TurnInv, MatchesTended
      <4>3. \A v \in Workers : AwaitsTurn(v, r) => v # w
        BY <2>1 DEF AwaitsTurn
      <4>4. \A v \in Workers : AwaitsTurn(v, r) => AwaitsTurn(v, r)'
        BY <2>2, <4>3 DEF AwaitsTurn
      <4>5. QED
        BY <1>h, <4>2, <4>4
    <3>4. QED
      BY <3>2, <3>3
  <2>4. MatchesTended'
    BY <2>3 DEF MatchesTended
  <2>5. QED
    BY <1>h, <2>4 DEF TurnInv
<1>o. CASE \/ ListRoutes(w) \/ EndMatches(w) \/ MarkPassRouted(w) \/ ClearPass(w) \/ StageInbox(w) \/ AbandonPass(w)
           \/ \E r \in Requests : \/ MatchDelivered(w, r) \/ MatchQueued(w, r) \/ MatchOnlyLogged(w, r)
                                  \/ MatchHasNoDestination(w, r)
  <2>1. versions' = versions /\ \A v \in Workers : v # w => passes'[v] = passes[v]
    BY <1>o, <1>t DEF ListRoutes, EndMatches, MarkPassRouted, ClearPass, StageInbox, AbandonPass, CutPass,
                      MatchDelivered, MatchQueued, MatchOnlyLogged, MatchHasNoDestination, MatchDone
  <2>2. ASSUME NEW r \in Requests \ Manual, AwaitsTurn(w, r)
        PROVE  AwaitsTurn(w, r)' \/ HadTurn(r)'
    <3>1. CASE ListRoutes(w)
      <4>1. /\ passes'[w].step = "matching" /\ passes'[w].frag = passes[w].frag
            /\ passes'[w].version = passes[w].version /\ passes'[w].todo = Matches(passes[w].frag, passes[w].version)
            /\ routes' = routes
        BY <1>t, <3>1 DEF ListRoutes, PassState
      <4>2. r \in Matches(passes[w].frag, passes[w].version) \/ DestOf[r] \notin routes
        BY <2>2 DEF AwaitsTurn, Matches
      <4>3. QED
        BY <2>2, <4>1, <4>2 DEF AwaitsTurn, HadTurn
    <3>2. ASSUME NEW q \in Requests, MatchDelivered(w, q) \/ MatchQueued(w, q) \/ MatchOnlyLogged(w, q)
          PROVE  AwaitsTurn(w, r)' \/ HadTurn(r)'
      <4>1. /\ passes[w].step = "matching" /\ passes'[w].step = "matching" /\ passes'[w].frag = passes[w].frag
            /\ passes'[w].version = passes[w].version /\ passes'[w].todo = passes[w].todo \ {q}
        <5>1. CASE MatchDelivered(w, q)
          <6>1. passes'[w] = [passes[w] EXCEPT !.todo = passes[w].todo \ {q}, !.delivered = TRUE]
            BY <1>t, <5>1 DEF MatchDelivered
          <6>2. QED
            BY <1>t, <5>1, <6>1 DEF MatchDelivered, NextMatch, PassState
        <5>2. CASE MatchQueued(w, q) \/ MatchOnlyLogged(w, q)
          <6>1. passes'[w] = [passes[w] EXCEPT !.todo = passes[w].todo \ {q}]
            BY <1>t, <5>2 DEF MatchQueued, MatchOnlyLogged, MatchDone
          <6>2. QED
            BY <1>t, <5>2, <6>1 DEF MatchQueued, MatchOnlyLogged, NextMatch, PassState
        <5>3. QED
          BY <3>2, <5>1, <5>2
      <4>2. CASE r # q
        BY <2>2, <4>1, <4>2 DEF AwaitsTurn
      <4>3. CASE r = q
        <5>1. CASE MatchDelivered(w, q)
          BY <4>3, <5>1, InlineTurns DEF MatchDelivered, HadTurn
        <5>2. CASE MatchQueued(w, q)
          BY <4>3, <5>2 DEF MatchQueued, EnqueueDestinationRetry, HadTurn
        <5>3. CASE MatchOnlyLogged(w, q)
          <6>1. faults \in Nat /\ faults <= MaxFaults /\ MaxFaults \in Nat /\ faults' = faults - 1
            BY <5>3, PolicyAssumption DEF MatchOnlyLogged, PipeIInv, QueueNamed, TypeOK, TurnInv
          <6>2. QED
            BY <6>1 DEF HadTurn
        <5>4. QED
          BY <3>2, <5>1, <5>2, <5>3
      <4>4. QED
        BY <4>2, <4>3
    <3>3. CASE AbandonPass(w) \/ \E q \in Requests : MatchHasNoDestination(w, q)
      BY <2>2, <3>3 DEF AbandonPass, MatchHasNoDestination, CutPass, AwaitsTurn, HadTurn
    <3>4. CASE EndMatches(w) \/ MarkPassRouted(w) \/ ClearPass(w) \/ StageInbox(w)
      <4>1. FALSE
        BY <2>2, <3>4 DEF EndMatches, MarkPassRouted, ClearPass, StageInbox, AwaitsTurn
      <4>2. QED
        BY <4>1
    <3>5. QED
      BY <1>o, <3>1, <3>2, <3>3, <3>4
  <2>3. QED
    BY <1>s, <2>1, <2>2, TurnsWithPass
<1>2. QED
  BY <1>1, <1>o DEF Pass

LEMMA NextTendsMatches == PipeIInv /\ TurnInv /\ [PipeNext]_allVars => TurnInv'
<1> SUFFICES ASSUME PipeIInv, TurnInv, [PipeNext]_allVars PROVE TurnInv'
  OBVIOUS
<1>1. CASE \E w \in Workers : Pass(w)
  BY <1>1, PassTendsMatches
<1>2. CASE \E m \in Routers : Route(m)
  <2>1. UNCHANGED <<versions, passes>>
    BY <1>2 DEF Route, RouteFragment, ApplyRouteByEntity, StartRouting, ItemDelivered, ItemQueued, ItemFailed,
                MarkItemRouted, ClearItem, AbandonRouting
  <2>2. QED
    BY <1>2, <2>1, RouteTurns, TurnsWithoutPasses
<1>3. CASE QueueNext /\ UNCHANGED pipeVars
  <2>1. TurnsStick
    BY <1>3, DrainTurns, OutsideTurns DEF QueueNext
  <2>2. QED
    BY <1>3, <2>1, TurnsWithoutPasses DEF pipeVars
<1>4. CASE \/ \E f \in Fragments : RepeatVersion(f)
           \/ \E t \in Destinations : DeleteRoutesForDestination(t) \/ DropDestination(t)
           \/ UNCHANGED allVars
  <2>1. /\ UNCHANGED <<versions, passes, cut, acked, accepted, faults>> /\ routes' \subseteq routes
    BY <1>4 DEF RepeatVersion, DeleteRoutesForDestination, DropDestination, DeleteDestination,
                allVars, vars, pipeVars, queueVars
  <2>2. QED
    BY <2>1, SpentTurns, TurnsWithoutPasses
<1>5. QED
  BY <1>1, <1>2, <1>3, <1>4 DEF PipeNext

(***************************************************************************)
(* When a pass ends, every route that matched was acknowledged or queued,  *)
(* not just the first, unless a write failed, the pass was cut off or the  *)
(* route was deleted (RouteStage, runMatch).                               *)
(***************************************************************************)
THEOREM EveryMatchIsServed == PipeSpec => []EveryMatchGetsATurn
<1>1. PipeInit => TurnInv
  <2>1. MaxFaults \in Nat
    BY PolicyAssumption
  <2>2. ASSUME PipeInit, NEW r \in Requests \ Manual PROVE ~(versions[FragOf[r]] >= VersionOf[r])
    <3>1. FragOf[r] \in Fragments /\ VersionOf[r] \in Nat /\ VersionOf[r] # 0
      BY RequestAssumption, PipeAssumption DEF Manual
    <3>2. QED
      BY <2>2, <3>1 DEF PipeInit
  <2>3. QED
    BY <2>1, <2>2 DEF PipeInit, QueueInit, TurnInv, MatchesTended
<1>2. PipeIInv /\ TurnInv /\ [PipeNext]_allVars => TurnInv'
  BY NextTendsMatches
<1>3. PipeIInv /\ TurnInv => EveryMatchGetsATurn
  BY DEF TurnInv, MatchesTended, HadTurn, AwaitsTurn, EveryMatchGetsATurn, InFlight
<1>4. QED
  BY <1>1, <1>2, <1>3, PipeInvariantHolds, PTL DEF PipeSpec

===============================================================================
