-------------------------- MODULE DerivationProofs --------------------------
(***************************************************************************)
(* Theorems about what is derived from captures and texts.                 *)
(*                                                                         *)
(* EnrichmentJobs: its types, that attempts and jobs agree and that a      *)
(* capability has one open job at a time, that pending coverage has a job, *)
(* and that what is shown is the best there is.                            *)
(*                                                                         *)
(* RecallIndex: that the rows of a fragment left alone are those of its    *)
(* text, and that fragments alike are linked.                              *)
(***************************************************************************)
EXTENDS EnrichmentJobs, RecallIndex, FiniteSetTheorems, WellFoundedInduction, TLAPS

(***************************************************************************)
(* EnrichmentJobs: the inductive invariant.                                *)
(***************************************************************************)

\* Attempts and jobs agree.
AttemptsMatch ==
    \A t \in DOMAIN attempts :
        /\ JobOf(t) \in DOMAIN jobs
        /\ attempts[t] = "running" <=>
               jobs[JobOf(t)].status = "running" /\ jobs[JobOf(t)].attempt = t[4]

\* Why no second job is opened: what has an open job is pending, and planning passes it by.
OneOpen ==
    \A c \in Capabilities \ lateEvidence : \A k \in OpenJobs(c) :
        coverage[c].state = "pending" /\ \A l \in OpenJobs(c) : l = k

\* A row that is provided shows an observation of its own capability, and the best.
Shows(row, table, c) ==
    row.state = "provided" =>
        /\ row.selected \in DOMAIN table
        /\ table[row.selected].capability = c
        /\ \A i \in DOMAIN table :
               table[i].capability = c /\ ~Expired(table[i]) /\ ~Expired(table[row.selected])
               => table[i].rank <= table[row.selected].rank

ShownIsBest == \A c \in Capabilities : Shows(coverage[c], observations, c)

JobInv == TypeOK /\ AttemptsMatch /\ OneOpen /\ PendingHasJob /\ ShownIsBest

LEMMA Bounds ==
    /\ LastTick \in Nat /\ MaxObservations \in Nat /\ Never \in Nat
    /\ ResultRanks \subseteq Ranks /\ User \in Ranks /\ User - 1 \in Ranks
    /\ NoObservation = 0
BY EnrichmentAssumption DEF EnrichmentAssumption, Ranks, User, Never

(***************************************************************************)
(* The order of observations has a first element in every set of them:     *)
(* the well-foundedness of < on Nat, thrice.                               *)
(***************************************************************************)
LEMMA LeastExists ==
    ASSUME NEW T \in SUBSET Nat, T # {}
    PROVE  \E x \in T : \A y \in T : x <= y
<1>1. PICK x \in T : \A y \in T : ~(<<y, x>> \in OpToRel(<, Nat))
    BY NatLessThanWellFounded, WFMin
<1>2. \A y \in T : ~(y < x)
    BY <1>1 DEF OpToRel
<1> QED BY <1>2

LEMMA GreatestExists ==
    ASSUME NEW bound \in Nat, NEW T \in SUBSET (0..bound), T # {}
    PROVE  \E x \in T : \A y \in T : y <= x
<1> DEFINE N == {n \in Nat : \E t \in T : n = bound - t}
<1>1. N \in SUBSET Nat /\ N # {}
  <2>1. PICK t \in T : TRUE
    OBVIOUS
  <2>2. bound - t \in Nat
    OBVIOUS
  <2> QED BY <2>2
<1>2. PICK n \in N : \A m \in N : n <= m
    BY <1>1, LeastExists
<1>3. PICK x \in T : n = bound - x
    BY <1>2
<1>4. ASSUME NEW y \in T PROVE y <= x
  <2>1. bound - y \in N
    OBVIOUS
  <2> QED BY <2>1, <1>2, <1>3
<1> QED BY <1>4

LEMMA FirstIsBest ==
    ASSUME NEW D \in SUBSET (1..MaxObservations), NEW table \in [D -> ObservationRows],
           NEW ids \in SUBSET D, ids # {}
    PROVE  /\ First(table, ids) \in ids
           /\ \A j \in ids : table[j].rank <= table[First(table, ids)].rank
<1>0. \A i \in ids : /\ i \in Nat
                     /\ table[i].rank \in 0..5
                     /\ table[i].asserted \in 0..LastTick
    BY Bounds DEF ObservationRows, Ranks
<1>1. PICK r \in ids : \A j \in ids : table[j].rank <= table[r].rank
  <2> DEFINE T == {table[i].rank : i \in ids}
  <2>1. T \in SUBSET (0..5) /\ T # {}
    BY <1>0
  <2>2. \E x \in T : \A y \in T : y <= x
    BY <2>1, GreatestExists
  <2> QED BY <2>2
<1> DEFINE A == {i \in ids : table[i].rank = table[r].rank}
<1>2. PICK s \in A : \A j \in A : table[j].asserted <= table[s].asserted
  <2> DEFINE T == {table[i].asserted : i \in A}
  <2>1. T \in SUBSET (0..LastTick) /\ T # {}
    BY <1>0, <1>1
  <2>2. \E x \in T : \A y \in T : y <= x
    BY <2>1, GreatestExists, Bounds
  <2> QED BY <2>2
<1> DEFINE B == {i \in A : table[i].asserted = table[s].asserted}
<1>3. PICK b \in B : \A j \in B : b <= j
  <2>1. B \in SUBSET Nat /\ B # {}
    BY <1>0, <1>2
  <2> QED BY <2>1, LeastExists
<1>4. b \in ids /\ \A j \in ids \ {b} : Outranks(table, b, j)
  <2>1. b \in ids /\ table[b].rank = table[r].rank /\ table[b].asserted = table[s].asserted
    BY <1>3
  <2>2. ASSUME NEW j \in ids \ {b} PROVE Outranks(table, b, j)
    <3>1. CASE table[j].rank # table[r].rank
        BY <1>0, <1>1, <2>1, <3>1 DEF Outranks
    <3>2. CASE table[j].rank = table[r].rank /\ table[j].asserted # table[s].asserted
        BY <1>0, <1>2, <2>1, <3>2 DEF Outranks
    <3>3. CASE table[j].rank = table[r].rank /\ table[j].asserted = table[s].asserted
        BY <1>0, <1>3, <2>1, <3>3 DEF Outranks
    <3> QED BY <3>1, <3>2, <3>3
  <2> QED BY <2>1, <2>2
<1>5. /\ First(table, ids) \in ids
      /\ \A j \in ids \ {First(table, ids)} : Outranks(table, First(table, ids), j)
    BY <1>4 DEF First
<1>6. ASSUME NEW j \in ids PROVE table[j].rank <= table[First(table, ids)].rank
  <2>1. CASE j = First(table, ids)
    <3>1. table[j].rank \in 0..5
        BY <1>0
    <3> QED BY <2>1, <3>1
  <2>2. CASE j # First(table, ids)
    <3> DEFINE f == First(table, ids)
    <3>1. /\ table[j].rank \in 0..5 /\ table[f].rank \in 0..5
          /\ Outranks(table, f, j)
        BY <1>0, <1>5, <2>2
    <3> HIDE DEF f
    <3>2. table[j].rank <= table[f].rank
        BY <3>1 DEF Outranks
    <3> QED BY <3>2 DEF f
  <2> QED BY <2>1, <2>2
<1> QED BY <1>5, <1>6

(***************************************************************************)
(* A row of which some fields are set is a row.                            *)
(***************************************************************************)
LEMMA NextVersion ==
    ASSUME NEW row \in CoverageRows
    PROVE  row.version + 1 \in Nat
BY DEF CoverageRows

LEMMA PickedRow ==
    ASSUME NEW row \in CoverageRows, NEW state \in States, NEW i \in Nat
    PROVE  /\ Showing(row, state, i) \in CoverageRows
           /\ Showing(row, state, i).state = state
           /\ Showing(row, state, i).selected = i
<1> DEFINE moved(v) == [row EXCEPT !.state = state, !.selected = i, !.retryable = FALSE, !.version = v]
<1>1. ASSUME NEW v \in Nat
      PROVE  moved(v) \in CoverageRows /\ moved(v).state = state /\ moved(v).selected = i
    BY DEF CoverageRows
<1> QED BY <1>1, NextVersion DEF Showing

LEMMA MovedRow ==
    ASSUME NEW row \in CoverageRows, NEW state \in States, NEW v \in Nat
    PROVE  LET new == [row EXCEPT !.state = state, !.version = v]
           IN  new \in CoverageRows /\ new.state = state
BY DEF CoverageRows

LEMMA PendingRow ==
    ASSUME NEW row \in CoverageRows
    PROVE  Pending(row) \in CoverageRows /\ Pending(row).state = "pending"
<1> DEFINE moved(v) == [row EXCEPT !.state = "pending", !.retryable = FALSE, !.version = v]
<1>1. ASSUME NEW v \in Nat PROVE moved(v) \in CoverageRows /\ moved(v).state = "pending"
    BY DEF CoverageRows, States
<1> QED BY <1>1, NextVersion DEF Pending

LEMMA SatisfiedRow ==
    ASSUME NEW row \in CoverageRows, NEW generation \in Nat
    PROVE  Satisfy(row, generation) \in CoverageRows
<1> DEFINE moved(g, v) == [row EXCEPT !.satisfied = g, !.version = v]
<1>1. ASSUME NEW g \in Nat, NEW v \in Nat PROVE moved(g, v) \in CoverageRows
    BY DEF CoverageRows
<1>2. (IF row.satisfied < generation THEN generation ELSE row.satisfied) \in Nat
    BY DEF CoverageRows
<1> QED BY <1>1, <1>2, NextVersion DEF Satisfy

LEMMA FailedRow ==
    ASSUME NEW row \in CoverageRows, NEW retryable \in BOOLEAN
    PROVE  LET new == [row EXCEPT !.state = "failed", !.retryable = retryable]
           IN  new \in CoverageRows /\ new.state = "failed"
BY DEF CoverageRows, States

(***************************************************************************)
(* What resolving and refreshing make of a row.                            *)
(***************************************************************************)
LEMMA ResolveOutcome ==
    ASSUME NEW D \in SUBSET (1..MaxObservations), NEW table \in [D -> ObservationRows],
           NEW row \in CoverageRows, NEW c
    PROVE  /\ Resolve(row, table, c) \in CoverageRows
           /\ (\A i \in D : table[i].capability # c) => Resolve(row, table, c) = row
           /\ (\E i \in D : table[i].capability = c) =>
                  /\ Resolve(row, table, c).state \in {"provided", "stale"}
                  /\ Shows(Resolve(row, table, c), table, c)
<1> DEFINE mine == {i \in DOMAIN table : table[i].capability = c}
           active == {i \in mine : ~Expired(table[i])}
<1>0. Resolve(row, table, c) = IF active # {} THEN Showing(row, "provided", First(table, active))
                               ELSE IF mine # {} THEN Showing(row, "stale", First(table, mine))
                               ELSE row
    BY DEF Resolve
<1>1. active \in SUBSET D /\ mine \in SUBSET D
    OBVIOUS
<1>2. \A i \in D : i \in Nat
    BY Bounds
<1>3. {"provided", "stale"} \subseteq States
    BY DEF States
<1>4. CASE active # {}
  <2>1. /\ First(table, active) \in active
        /\ \A j \in active : table[j].rank <= table[First(table, active)].rank
    BY <1>1, <1>4, FirstIsBest
  <2> DEFINE f == First(table, active)
  <2> HIDE DEF f
  <2>2. f \in D /\ f \in active /\ \A j \in active : table[j].rank <= table[f].rank
    BY <2>1 DEF f
  <2>3. Resolve(row, table, c) = Showing(row, "provided", f)
    BY <1>0, <1>4 DEF f
  <2>4. /\ Showing(row, "provided", f) \in CoverageRows
        /\ Showing(row, "provided", f).state = "provided"
        /\ Showing(row, "provided", f).selected = f
    BY <1>2, <1>3, <2>2, PickedRow
  <2>5. Shows(Showing(row, "provided", f), table, c)
    BY <2>2, <2>4 DEF Shows
  <2> QED BY <1>4, <2>3, <2>4, <2>5
<1>5. CASE active = {} /\ mine # {}
  <2>1. First(table, mine) \in mine
    BY <1>1, <1>5, FirstIsBest
  <2> DEFINE f == First(table, mine)
  <2> HIDE DEF f
  <2>2. f \in D
    BY <2>1 DEF f
  <2>3. Resolve(row, table, c) = Showing(row, "stale", f)
    BY <1>0, <1>5 DEF f
  <2>4. /\ Showing(row, "stale", f) \in CoverageRows
        /\ Showing(row, "stale", f).state = "stale"
    BY <1>2, <1>3, <2>2, PickedRow
  <2> QED BY <1>5, <2>3, <2>4 DEF Shows
<1>6. CASE mine = {}
    BY <1>0, <1>6
<1> QED BY <1>4, <1>5, <1>6

LEMMA RefreshOutcome ==
    ASSUME TypeOK, NEW c \in Capabilities
    PROVE  /\ RefreshExpired(c) \in CoverageRows
           /\ \/ RefreshExpired(c) = coverage[c]
              \/ coverage[c].state = "provided" /\ RefreshExpired(c).state = "stale"
<1>1. coverage[c] \in CoverageRows /\ "stale" \in States
    BY DEF TypeOK, States
<1>2. /\ [coverage[c] EXCEPT !.state = "stale", !.version = @ + 1] \in CoverageRows
      /\ [coverage[c] EXCEPT !.state = "stale", !.version = @ + 1].state = "stale"
    BY <1>1, MovedRow, NextVersion
<1> QED BY <1>1, <1>2 DEF RefreshExpired

(***************************************************************************)
(* What the parts of the actions do to jobs and coverage.                  *)
(***************************************************************************)
NewJobs == DOMAIN jobs' \ DOMAIN jobs

LEMMA PlanOutcome ==
    ASSUME TypeOK, Plan
    PROVE  /\ coverage' \in [Capabilities -> CoverageRows]
           /\ DOMAIN jobs' \in SUBSET Keys /\ jobs' \in [DOMAIN jobs' -> JobRows]
           /\ DOMAIN jobs \subseteq DOMAIN jobs' /\ \A k \in DOMAIN jobs : jobs'[k] = jobs[k]
           /\ \A k \in NewJobs :
                  /\ k[1] \in Capabilities /\ jobs'[k].status = "queued"
                  /\ coverage[k[1]].state # "pending" /\ coverage'[k[1]].state = "pending"
                  /\ \A l \in NewJobs : l[1] = k[1] => l = k
           /\ \A c \in Capabilities :
                  /\ coverage'[c].state = "pending" <=>
                         coverage[c].state = "pending" \/ \E k \in NewJobs : k[1] = c
                  /\ coverage'[c].state = "provided" => coverage'[c] = coverage[c]
<1> DEFINE row == [c \in Capabilities |-> RefreshExpired(c)]
           key(c) == <<c, row[c].version, row[c].requested>>
           due == {c \in Capabilities : Eligible(row[c]) /\ key(c) \notin DOMAIN jobs}
           new == {key(c) : c \in due}
<1>1. /\ jobs' = [k \in DOMAIN jobs \cup new |-> IF k \in new THEN QueuedJob ELSE jobs[k]]
      /\ coverage' = [c \in Capabilities |-> IF c \in due THEN Pending(row[c]) ELSE row[c]]
    BY DEF Plan
<1>2. \A c \in Capabilities :
          /\ row[c] \in CoverageRows
          /\ \/ row[c] = coverage[c]
             \/ coverage[c].state = "provided" /\ row[c].state = "stale"
    BY RefreshOutcome
<1> HIDE DEF row
<1>3. \A c \in Capabilities : key(c) \in Keys /\ key(c)[1] = c
    BY <1>2 DEF Keys, CoverageRows
<1>4. \A c \in due : row[c].state # "pending"
    BY DEF Eligible
<1>5. QueuedJob \in JobRows /\ QueuedJob.status = "queued"
    BY DEF QueuedJob, JobRows, TypeOK
<1>6. /\ DOMAIN jobs \in SUBSET Keys /\ jobs \in [DOMAIN jobs -> JobRows]
      /\ coverage \in [Capabilities -> CoverageRows]
    BY DEF TypeOK
<1> HIDE DEF key
<1>7. new \in SUBSET Keys /\ new \cap DOMAIN jobs = {}
    BY <1>3
<1>8. DOMAIN jobs' = DOMAIN jobs \cup new /\ NewJobs = new
    BY <1>1, <1>7 DEF NewJobs
<1>9. \A c \in Capabilities :
          /\ coverage'[c] \in CoverageRows
          /\ c \in due => coverage'[c].state = "pending"
          /\ c \notin due => coverage'[c] = row[c]
    BY <1>1, <1>2, PendingRow
<1>10. coverage' \in [Capabilities -> CoverageRows]
    BY <1>1, <1>9
<1>11. DOMAIN jobs' \in SUBSET Keys /\ jobs' \in [DOMAIN jobs' -> JobRows]
    BY <1>1, <1>5, <1>6, <1>7, <1>8
<1>12. DOMAIN jobs \subseteq DOMAIN jobs' /\ \A k \in DOMAIN jobs : jobs'[k] = jobs[k]
    BY <1>1, <1>7
<1>13. ASSUME NEW k \in NewJobs
       PROVE  /\ k[1] \in Capabilities /\ jobs'[k].status = "queued"
              /\ coverage[k[1]].state # "pending" /\ coverage'[k[1]].state = "pending"
              /\ \A l \in NewJobs : l[1] = k[1] => l = k
  <2>1. PICK c \in due : k = key(c)
    BY <1>8
  <2>2. k[1] = c
    BY <1>3, <2>1
  <2>3. coverage[c].state # "pending" /\ coverage'[c].state = "pending"
    BY <1>2, <1>4, <1>9
  <2>4. jobs'[k].status = "queued"
    BY <1>1, <1>5, <1>8
  <2>5. ASSUME NEW l \in NewJobs, l[1] = k[1] PROVE l = k
    <3>1. PICK d \in due : l = key(d)
        BY <1>8
    <3> QED BY <1>3, <2>1, <2>2, <2>5, <3>1
  <2> QED BY <2>2, <2>3, <2>4, <2>5
<1>14. ASSUME NEW c \in Capabilities
       PROVE  /\ coverage'[c].state = "pending" <=>
                     coverage[c].state = "pending" \/ \E k \in NewJobs : k[1] = c
              /\ coverage'[c].state = "provided" => coverage'[c] = coverage[c]
  <2>1. CASE c \in due
    <3>1. key(c) \in NewJobs /\ key(c)[1] = c
        BY <1>3, <1>8, <2>1
    <3> QED BY <1>9, <2>1, <3>1
  <2>2. CASE c \notin due
    <3>1. \A k \in NewJobs : k[1] # c
        BY <1>3, <1>8, <2>2
    <3> QED BY <1>2, <1>9, <2>2, <3>1
  <2> QED BY <2>1, <2>2
<1> QED BY <1>10, <1>11, <1>12, <1>13, <1>14

LEMMA FinishOutcome ==
    ASSUME TypeOK, NEW key \in DOMAIN jobs, NEW status \in {"succeeded", "failed"},
           NEW row \in CoverageRows, Finish(key, status, row)
    PROVE  /\ coverage' \in [Capabilities -> CoverageRows]
           /\ DOMAIN jobs' \in SUBSET Keys /\ jobs' \in [DOMAIN jobs' -> JobRows]
           /\ DOMAIN jobs \subseteq DOMAIN jobs' /\ \A k \in DOMAIN jobs \ {key} : jobs'[k] = jobs[k]
           /\ jobs'[key].status = status
           /\ \A c \in Capabilities \ {key[1]} : coverage'[c] = coverage[c]
           /\ \/ NewJobs = {} /\ coverage'[key[1]] = row
              \/ \E n : /\ NewJobs = {n} /\ n[1] = key[1] /\ jobs'[n].status = "queued"
                        /\ coverage'[key[1]].state = "pending"
<1> DEFINE next == <<key[1], row.version, row.requested>>
           new == IF row.requested > key[3] /\ next \notin DOMAIN jobs THEN {next} ELSE {}
<1>1. /\ jobs' = [k \in DOMAIN jobs \cup new |->
               IF k \in new THEN QueuedJob
               ELSE IF k = key THEN [jobs[k] EXCEPT !.status = status, !.lease = 0] ELSE jobs[k]]
      /\ coverage' = [coverage EXCEPT ![key[1]] = IF new # {} THEN Pending(row) ELSE row]
    BY DEF Finish
<1>2. /\ DOMAIN jobs \in SUBSET Keys /\ jobs \in [DOMAIN jobs -> JobRows]
      /\ coverage \in [Capabilities -> CoverageRows]
    BY DEF TypeOK
<1>3. key \in Keys /\ key[1] \in Capabilities /\ next \in Keys /\ next[1] = key[1]
    BY <1>2 DEF Keys, CoverageRows
<1>4. QueuedJob \in JobRows /\ QueuedJob.status = "queued"
    BY DEF QueuedJob, JobRows, TypeOK
<1>5. /\ [jobs[key] EXCEPT !.status = status, !.lease = 0] \in JobRows
      /\ [jobs[key] EXCEPT !.status = status, !.lease = 0].status = status
    BY <1>2 DEF JobRows
<1> HIDE DEF next
<1>6. \/ new = {}
      \/ new = {next} /\ next \notin DOMAIN jobs
    OBVIOUS
<1> HIDE DEF new
<1>7. new \in SUBSET Keys /\ new \cap DOMAIN jobs = {} /\ key \notin new
    BY <1>3, <1>6
<1>8. DOMAIN jobs' = DOMAIN jobs \cup new /\ NewJobs = new
    BY <1>1, <1>7 DEF NewJobs
<1>9. DOMAIN jobs' \in SUBSET Keys
    BY <1>2, <1>7, <1>8
<1>10. ASSUME NEW k \in DOMAIN jobs' PROVE jobs'[k] \in JobRows
    BY <1>1, <1>2, <1>4, <1>5, <1>8
<1>11. jobs' \in [DOMAIN jobs' -> JobRows]
    BY <1>1, <1>8, <1>10
<1>12. (IF new # {} THEN Pending(row) ELSE row) \in CoverageRows
    BY PendingRow
<1>13. coverage' \in [Capabilities -> CoverageRows]
    BY <1>1, <1>2, <1>12
<1>14. /\ DOMAIN jobs \subseteq DOMAIN jobs' /\ \A k \in DOMAIN jobs \ {key} : jobs'[k] = jobs[k]
       /\ jobs'[key].status = status
    BY <1>1, <1>5, <1>7, <1>8
<1>15. \A c \in Capabilities \ {key[1]} : coverage'[c] = coverage[c]
    BY <1>1, <1>2
<1>16. \/ NewJobs = {} /\ coverage'[key[1]] = row
       \/ \E n : /\ NewJobs = {n} /\ n[1] = key[1] /\ jobs'[n].status = "queued"
                 /\ coverage'[key[1]].state = "pending"
  <2>1. CASE new = {}
    BY <1>1, <1>2, <1>3, <1>8, <2>1
  <2>2. CASE new = {next}
    <3>1. coverage'[key[1]].state = "pending"
        BY <1>1, <1>2, <1>3, <2>2, PendingRow
    <3>2. jobs'[next].status = "queued"
        BY <1>1, <1>4, <2>2
    <3> QED BY <1>3, <1>8, <2>2, <3>1, <3>2
  <2> QED BY <1>6, <2>1, <2>2
<1> QED BY <1>9, <1>11, <1>13, <1>14, <1>15, <1>16

(***************************************************************************)
(* Every action keeps the invariant.                                       *)
(***************************************************************************)
LEMMA InitInv == Init => JobInv
<1> SUFFICES ASSUME Init PROVE JobInv
    OBVIOUS
<1> USE DEF Init
<1>1. TypeOK
  <2>1. coverage \in [Capabilities -> CoverageRows]
    BY Bounds DEF CoverageRows, States
  <2> QED BY <2>1, Bounds DEF TypeOK
<1>2. AttemptsMatch /\ PendingHasJob /\ OneOpen
    BY DEF AttemptsMatch, PendingHasJob, OneOpen, OpenJobs
<1>3. ShownIsBest
    BY DEF ShownIsBest, Shows
<1> QED BY <1>1, <1>2, <1>3 DEF JobInv

\* What is left alone stays as it was.
LEMMA JobsFrame ==
    ASSUME UNCHANGED <<jobs, attempts>>
    PROVE  /\ AttemptsMatch => AttemptsMatch'
           /\ \A c \in Capabilities : OpenJobs(c)' = OpenJobs(c)
BY DEF AttemptsMatch, OpenJobs

LEMMA CaptureKeeps ==
    ASSUME JobInv, NEW a \in Captures, InitializeCapture(a)
    PROVE  JobInv'
<1>1. PICK evidence \in SUBSET Capabilities, blank \in [Capabilities -> {"missing", "not_applicable"}],
           rank \in {User, User - 1}, id \in [Capabilities -> 1..MaxObservations] :
         LET ids == {id[c] : c \in evidence}
             table == [i \in DOMAIN observations \cup ids |->
                 IF i \in ids
                 THEN [capability |-> CHOOSE c \in evidence : id[c] = i, rank |-> rank,
                       asserted |-> clock, expires |-> Never]
                 ELSE observations[i]]
             row(c) == IF coverage[c].state = "absent"
                       THEN [coverage[c] EXCEPT !.state = blank[c], !.version = 1]
                       ELSE coverage[c]
         IN  /\ NewIds(ids) /\ Cardinality(ids) = Cardinality(evidence)
             /\ observations' = table
             /\ coverage' = [c \in Capabilities |-> Resolve(row(c), table, c)]
             /\ lateEvidence' = lateEvidence \cup {c \in Capabilities :
                    OpenJobs(c) # {} /\ Resolve(row(c), table, c) # row(c)}
    BY DEF InitializeCapture
<1> DEFINE ids == {id[c] : c \in evidence}
           table == [i \in DOMAIN observations \cup ids |->
                 IF i \in ids
                 THEN [capability |-> CHOOSE c \in evidence : id[c] = i, rank |-> rank,
                       asserted |-> clock, expires |-> Never]
                 ELSE observations[i]]
           row == [c \in Capabilities |->
                       IF coverage[c].state = "absent"
                       THEN [coverage[c] EXCEPT !.state = blank[c], !.version = 1]
                       ELSE coverage[c]]
           D == DOMAIN observations \cup ids
<1>2. /\ NewIds(ids)
      /\ observations' = table
      /\ coverage' = [c \in Capabilities |-> Resolve(row[c], table, c)]
      /\ lateEvidence' = lateEvidence \cup {c \in Capabilities :
             OpenJobs(c) # {} /\ Resolve(row[c], table, c) # row[c]}
    BY <1>1
<1>3. /\ UNCHANGED <<clock, jobs, attempts, requests, worker, caller>>
      /\ outbox' \in [Captures -> {"none", "pending", "complete"}]
    BY DEF InitializeCapture, JobInv, TypeOK
<1>4. TypeOK
    BY DEF JobInv
<1>5. D \in SUBSET (1..MaxObservations) /\ ids \cap DOMAIN observations = {}
    BY <1>2, <1>4 DEF NewIds, TypeOK
<1>6. table \in [D -> ObservationRows]
  <2>1. ASSUME NEW i \in ids
        PROVE  [capability |-> CHOOSE c \in evidence : id[c] = i, rank |-> rank,
                asserted |-> clock, expires |-> Never] \in ObservationRows
    <3>1. (CHOOSE c \in evidence : id[c] = i) \in evidence
        OBVIOUS
    <3> QED BY <3>1, <1>4, Bounds DEF ObservationRows, TypeOK
  <2>2. \A i \in DOMAIN observations : observations[i] \in ObservationRows
    BY <1>4 DEF TypeOK
  <2> QED BY <2>1, <2>2
<1>7. \A i \in DOMAIN observations : table[i] = observations[i]
    BY <1>5
<1>8. \A c \in Capabilities :
          /\ row[c] \in CoverageRows
          /\ row[c].state \in {"pending", "provided"} \/ coverage[c].state \in {"pending", "provided"}
             => row[c] = coverage[c]
  <2> SUFFICES ASSUME NEW c \in Capabilities
               PROVE  /\ row[c] \in CoverageRows
                      /\ row[c].state \in {"pending", "provided"} \/ coverage[c].state \in {"pending", "provided"}
                         => row[c] = coverage[c]
    OBVIOUS
  <2>1. coverage[c] \in CoverageRows /\ blank[c] \in States /\ blank[c] \notin {"pending", "provided"}
    BY <1>4 DEF TypeOK, States
  <2>2. /\ [coverage[c] EXCEPT !.state = blank[c], !.version = 1] \in CoverageRows
        /\ [coverage[c] EXCEPT !.state = blank[c], !.version = 1].state = blank[c]
    BY <2>1 DEF CoverageRows
  <2> QED BY <2>1, <2>2
<1> HIDE DEF row
<1>9. \A c \in Capabilities :
          /\ coverage'[c] \in CoverageRows
          /\ (\A i \in D : table[i].capability # c) => coverage'[c] = row[c]
          /\ (\E i \in D : table[i].capability = c) =>
                 coverage'[c].state \in {"provided", "stale"} /\ Shows(coverage'[c], table, c)
          /\ c \notin lateEvidence' => OpenJobs(c) = {} \/ coverage'[c] = row[c]
  <2> HIDE DEF table, D
  <2> SUFFICES ASSUME NEW c \in Capabilities
               PROVE  /\ coverage'[c] \in CoverageRows
                      /\ (\A i \in D : table[i].capability # c) => coverage'[c] = row[c]
                      /\ (\E i \in D : table[i].capability = c) =>
                             coverage'[c].state \in {"provided", "stale"} /\ Shows(coverage'[c], table, c)
                      /\ c \notin lateEvidence' => OpenJobs(c) = {} \/ coverage'[c] = row[c]
    OBVIOUS
  <2>1. coverage'[c] = Resolve(row[c], table, c)
    BY <1>2
  <2>2. c \notin lateEvidence' => OpenJobs(c) = {} \/ Resolve(row[c], table, c) = row[c]
    BY <1>2
  <2> QED BY <2>1, <2>2, <1>5, <1>6, <1>8, ResolveOutcome
<1>10. TypeOK'
  <2>1. coverage' \in [Capabilities -> CoverageRows]
    BY <1>2, <1>9
  <2>2. DOMAIN observations' \in SUBSET (1..MaxObservations) /\ observations' \in [DOMAIN observations' -> ObservationRows]
    <3>1. DOMAIN observations' = D
        BY <1>2
    <3> QED BY <1>2, <1>5, <1>6, <3>1
  <2>3. lateEvidence' \in SUBSET Capabilities
    BY <1>2, <1>4 DEF TypeOK
  <2> QED BY <1>3, <1>4, <2>1, <2>2, <2>3 DEF TypeOK
<1>11. \A c \in Capabilities : OpenJobs(c)' = OpenJobs(c)
    BY <1>3, JobsFrame
<1>12. AttemptsMatch'
    BY <1>3, JobsFrame DEF JobInv
<1>13. PendingHasJob'
    BY <1>8, <1>9, <1>11 DEF PendingHasJob, JobInv
<1>14. OneOpen'
  <2> SUFFICES ASSUME NEW c \in Capabilities, c \notin lateEvidence', NEW k \in OpenJobs(c)
               PROVE  coverage'[c].state = "pending" /\ \A l \in OpenJobs(c) : l = k
    BY <1>11 DEF OneOpen
  <2>1. c \notin lateEvidence
    BY <1>2
  <2>2. coverage[c].state = "pending" /\ \A l \in OpenJobs(c) : l = k
    BY <2>1 DEF JobInv, OneOpen
  <2> QED BY <2>2, <1>8, <1>9
<1>15. ShownIsBest'
  <2> SUFFICES ASSUME NEW c \in Capabilities PROVE Shows(coverage[c], observations, c)'
    BY DEF ShownIsBest
  <2>1. CASE \E i \in D : table[i].capability = c
    <3>1. Shows(coverage'[c], table, c)
        BY <1>9, <2>1
    <3> QED BY <3>1, <1>2, <1>3 DEF Shows, Expired
  <2>2. CASE \A i \in D : table[i].capability # c
    <3>1. coverage'[c].state = "provided" => Shows(coverage[c], observations, c) /\ coverage[c].state = "provided"
        BY <1>8, <1>9, <2>2 DEF JobInv, ShownIsBest
    <3>2. coverage'[c].state # "provided"
        BY <3>1, <1>7, <2>2 DEF Shows
    <3> QED BY <3>2 DEF Shows
  <2> QED BY <2>1, <2>2
<1> QED BY <1>10, <1>12, <1>13, <1>14, <1>15 DEF JobInv

\* Rows that change no further than refreshing and planning do.
LEMMA ShowsFrame ==
    ASSUME ShownIsBest, UNCHANGED <<clock, observations>>,
           \A c \in Capabilities : coverage'[c].state = "provided" => coverage'[c] = coverage[c]
    PROVE  ShownIsBest'
<1> SUFFICES ASSUME NEW c \in Capabilities, coverage'[c].state = "provided"
             PROVE  Shows(coverage[c], observations, c)'
    BY DEF ShownIsBest, Shows
<1> QED BY DEF ShownIsBest, Shows, Expired

LEMMA PlanKeeps ==
    ASSUME JobInv, Plan, UNCHANGED <<clock, observations, attempts, requests, worker, lateEvidence>>,
           outbox' \in [Captures -> {"none", "pending", "complete"}], caller' \in [Callers -> BOOLEAN]
    PROVE  JobInv'
<1>1. TypeOK
    BY DEF JobInv
<1>2. /\ coverage' \in [Capabilities -> CoverageRows]
      /\ DOMAIN jobs' \in SUBSET Keys /\ jobs' \in [DOMAIN jobs' -> JobRows]
      /\ DOMAIN jobs \subseteq DOMAIN jobs' /\ \A k \in DOMAIN jobs : jobs'[k] = jobs[k]
      /\ \A k \in NewJobs :
             /\ k[1] \in Capabilities /\ jobs'[k].status = "queued"
             /\ coverage[k[1]].state # "pending" /\ coverage'[k[1]].state = "pending"
             /\ \A l \in NewJobs : l[1] = k[1] => l = k
      /\ \A c \in Capabilities :
             /\ coverage'[c].state = "pending" <=>
                    coverage[c].state = "pending" \/ \E k \in NewJobs : k[1] = c
             /\ coverage'[c].state = "provided" => coverage'[c] = coverage[c]
    BY <1>1, PlanOutcome
<1>3. TypeOK'
    BY <1>1, <1>2 DEF TypeOK
<1>4. AttemptsMatch'
    BY <1>2 DEF JobInv, AttemptsMatch
<1>5. \A c \in Capabilities : OpenJobs(c)' = OpenJobs(c) \cup {k \in NewJobs : k[1] = c}
    BY <1>2 DEF OpenJobs, NewJobs
<1>6. PendingHasJob'
    BY <1>2, <1>5 DEF JobInv, PendingHasJob
<1>7. OneOpen'
  <2> SUFFICES ASSUME NEW c \in Capabilities \ lateEvidence, NEW k \in OpenJobs(c)'
               PROVE  coverage'[c].state = "pending" /\ \A l \in OpenJobs(c)' : l = k
    BY DEF OneOpen
  <2>1. CASE coverage[c].state = "pending"
    <3>0. \A l \in NewJobs : l[1] # c
        BY <1>2, <2>1
    <3>1. OpenJobs(c)' = OpenJobs(c)
        BY <1>5, <3>0
    <3> QED BY <1>2, <2>1, <3>1 DEF JobInv, OneOpen
  <2>2. CASE coverage[c].state # "pending"
    <3>1. OpenJobs(c) = {}
        BY <2>2 DEF JobInv, OneOpen
    <3>2. k \in NewJobs /\ k[1] = c
        BY <1>5, <3>1
    <3>3. \A l \in OpenJobs(c)' : l \in NewJobs /\ l[1] = c
        BY <1>5, <3>1
    <3> QED BY <1>2, <3>2, <3>3
  <2> QED BY <2>1, <2>2
<1>8. ShownIsBest'
    BY <1>2, ShowsFrame DEF JobInv
<1> QED BY <1>3, <1>4, <1>6, <1>7, <1>8 DEF JobInv

\* Rows of which the state changes to stale only, or not at all.
LEMMA RowsKeep ==
    ASSUME JobInv, UNCHANGED <<clock, observations, jobs, attempts, lateEvidence>>,
           coverage' \in [Capabilities -> CoverageRows],
           \A c \in Capabilities :
               /\ coverage'[c].state = "pending" <=> coverage[c].state = "pending"
               /\ coverage'[c].state = "provided" =>
                      coverage[c].state = "provided" /\ coverage'[c].selected = coverage[c].selected
    PROVE  AttemptsMatch' /\ PendingHasJob' /\ OneOpen' /\ ShownIsBest'
<1>1. AttemptsMatch'
    BY JobsFrame DEF JobInv
<1>2. \A c \in Capabilities : OpenJobs(c)' = OpenJobs(c)
    BY JobsFrame
<1>3. PendingHasJob'
    BY <1>2 DEF JobInv, PendingHasJob
<1>4. OneOpen'
    BY <1>2 DEF JobInv, OneOpen
<1>5. ShownIsBest'
  <2> SUFFICES ASSUME NEW c \in Capabilities, coverage'[c].state = "provided"
               PROVE  Shows(coverage[c], observations, c)'
    BY DEF ShownIsBest, Shows
  <2> QED BY DEF JobInv, ShownIsBest, Shows, Expired
<1> QED BY <1>1, <1>3, <1>4, <1>5

LEMMA ListKeeps == ASSUME JobInv, ListCoverage PROVE JobInv'
<1>1. TypeOK
    BY DEF JobInv
<1>2. /\ coverage' = [c \in Capabilities |-> RefreshExpired(c)]
      /\ UNCHANGED <<clock, observations, jobs, attempts, outbox, requests, worker, caller, lateEvidence>>
    BY DEF ListCoverage
<1>3. coverage' \in [Capabilities -> CoverageRows]
    BY <1>1, <1>2, RefreshOutcome
<1>4. \A c \in Capabilities :
          \/ coverage'[c] = coverage[c]
          \/ coverage[c].state = "provided" /\ coverage'[c].state = "stale"
    BY <1>1, <1>2, RefreshOutcome
<1>5. TypeOK'
    BY <1>1, <1>2, <1>3 DEF TypeOK
<1>6. AttemptsMatch' /\ PendingHasJob' /\ OneOpen' /\ ShownIsBest'
    BY <1>2, <1>3, <1>4, RowsKeep
<1> QED BY <1>5, <1>6 DEF JobInv

LEMMA RequestKeeps ==
    ASSUME JobInv, NEW p \in Callers, NEW k \in RequestKeys, NEW c \in Capabilities,
           RequestCapability(p, k, c)
    PROVE  JobInv'
<1>1. TypeOK
    BY DEF JobInv
<1>2. /\ requests' = [requests EXCEPT ![k] = <<c, coverage[c].requested + 1>>]
      /\ coverage' = [coverage EXCEPT ![c].requested = @ + 1, ![c].version = @ + 1]
      /\ caller' = [caller EXCEPT ![p] = TRUE]
      /\ UNCHANGED <<clock, observations, jobs, attempts, outbox, worker, lateEvidence>>
    BY DEF RequestCapability
<1>3. coverage \in [Capabilities -> CoverageRows]
    BY <1>1 DEF TypeOK
<1>4. coverage' \in [Capabilities -> CoverageRows]
  <2>1. coverage[c].requested + 1 \in Nat /\ coverage[c].version + 1 \in Nat
    BY <1>3 DEF CoverageRows
  <2>2. ASSUME NEW v \in Nat, NEW n \in Nat
        PROVE  [coverage EXCEPT ![c].requested = n, ![c].version = v] \in [Capabilities -> CoverageRows]
    BY <1>3 DEF CoverageRows
  <2> QED BY <1>2, <1>3, <2>1, <2>2 DEF CoverageRows
<1>5. \A d \in Capabilities : coverage'[d].state = coverage[d].state /\ coverage'[d].selected = coverage[d].selected
    BY <1>2, <1>3 DEF CoverageRows
<1>6. requests' \in [RequestKeys -> (Capabilities \X Nat) \cup {NoRequest}] /\ caller' \in [Callers -> BOOLEAN]
  <2>1. <<c, coverage[c].requested + 1>> \in Capabilities \X Nat
    BY <1>3 DEF CoverageRows
  <2> QED BY <1>1, <1>2, <2>1 DEF TypeOK
<1>7. TypeOK'
    BY <1>1, <1>2, <1>4, <1>6 DEF TypeOK
<1>8. AttemptsMatch' /\ PendingHasJob' /\ OneOpen' /\ ShownIsBest'
    BY <1>2, <1>4, <1>5, RowsKeep
<1> QED BY <1>7, <1>8 DEF JobInv

LEMMA ClaimKeeps == ASSUME JobInv, NEW w \in Workers, ClaimNext(w) PROVE JobInv'
<1>1. TypeOK
    BY DEF JobInv
<1>2. PICK k \in Oldest(ReleasedJobs) :
         LET n == ReleasedJobs[k].attempt + 1 IN
         /\ jobs' = [ReleasedJobs EXCEPT ![k] = [@ EXCEPT !.status = "running", !.attempt = n,
                                                          !.lease = clock + 1]]
         /\ attempts' = [t \in DOMAIN attempts \cup {TokenOf(k, n)} |->
                IF t = TokenOf(k, n) THEN "running" ELSE ReleasedAttempts[t]]
         /\ worker' = [worker EXCEPT ![w] = TokenOf(k, n)]
    BY DEF ClaimNext
<1> DEFINE n == ReleasedJobs[k].attempt + 1
           token == TokenOf(k, n)
           claimed == [ReleasedJobs[k] EXCEPT !.status = "running", !.attempt = n, !.lease = clock + 1]
<1>3. /\ jobs' = [ReleasedJobs EXCEPT ![k] = claimed]
      /\ attempts' = [t \in DOMAIN attempts \cup {token} |->
                          IF t = token THEN "running" ELSE ReleasedAttempts[t]]
      /\ worker' = [worker EXCEPT ![w] = token]
    BY <1>2
<1>4. UNCHANGED <<clock, coverage, observations, outbox, requests, caller, lateEvidence>>
    BY DEF ClaimNext
<1>5. /\ DOMAIN jobs \in SUBSET Keys /\ jobs \in [DOMAIN jobs -> JobRows]
      /\ clock \in Nat /\ clock + 1 \in Nat
      /\ DOMAIN attempts \in SUBSET Tokens
      /\ attempts \in [DOMAIN attempts -> {"running", "succeeded", "failed"}]
    BY <1>1, Bounds DEF TypeOK
<1>6. /\ ReleasedJobs \in [DOMAIN jobs -> JobRows]
      /\ \A j \in DOMAIN jobs :
             /\ Lapsed(j) => ReleasedJobs[j].status = "queued" /\ jobs[j].status = "running"
             /\ ~Lapsed(j) => ReleasedJobs[j] = jobs[j]
  <2>1. ASSUME NEW j \in DOMAIN jobs
        PROVE  /\ [jobs[j] EXCEPT !.status = "queued", !.lease = 0] \in JobRows
               /\ [jobs[j] EXCEPT !.status = "queued", !.lease = 0].status = "queued"
    BY <1>5 DEF JobRows
  <2> QED BY <1>5, <2>1 DEF ReleasedJobs, Lapsed
<1>7. k \in DOMAIN jobs /\ ReleasedJobs[k].status = "queued" /\ k \in Keys
    BY <1>5, <1>6 DEF Oldest
<1>8. n \in Nat
    BY <1>6, <1>7 DEF JobRows
<1> HIDE DEF n
<1>9. claimed \in JobRows /\ claimed.status = "running" /\ claimed.attempt = n
  <2> DEFINE moved(row, m, l) == [row EXCEPT !.status = "running", !.attempt = m, !.lease = l]
  <2>1. ASSUME NEW row \in JobRows, NEW m \in Nat, NEW l \in Nat
        PROVE  /\ moved(row, m, l) \in JobRows /\ moved(row, m, l).status = "running"
               /\ moved(row, m, l).attempt = m
    BY DEF JobRows
  <2>2. ReleasedJobs[k] \in JobRows
    BY <1>6, <1>7
  <2>3. claimed = moved(ReleasedJobs[k], n, clock + 1)
    OBVIOUS
  <2> HIDE DEF moved, claimed
  <2> QED BY <1>5, <1>8, <2>1, <2>2, <2>3
<1> HIDE DEF claimed
<1>10. token \in Tokens /\ JobOf(token) = k /\ token[4] = n
    BY <1>7, <1>8 DEF TokenOf, JobOf, Tokens, Keys
<1>11. \A t \in Tokens : JobOf(t) = k /\ t[4] = n => t = token
    BY <1>7, <1>8, <1>10 DEF TokenOf, JobOf, Tokens, Keys
<1> HIDE DEF token
<1>12. /\ DOMAIN jobs' = DOMAIN jobs /\ jobs' \in [DOMAIN jobs -> JobRows]
       /\ jobs'[k] = claimed
       /\ \A j \in DOMAIN jobs \ {k} : jobs'[j] = ReleasedJobs[j]
    BY <1>3, <1>6, <1>7, <1>9
<1>13. \A t \in DOMAIN attempts :
           /\ ReleasedAttempts[t] \in {"running", "succeeded", "failed"}
           /\ ReleasedAttempts[t] = "running" <=> attempts[t] = "running" /\ ~Lapsed(JobOf(t))
    BY <1>5 DEF ReleasedAttempts
<1>14. /\ DOMAIN attempts' = DOMAIN attempts \cup {token}
       /\ attempts'[token] = "running"
       /\ \A t \in DOMAIN attempts \ {token} : attempts'[t] = ReleasedAttempts[t]
    BY <1>3
<1>15. TypeOK'
  <2>1. DOMAIN attempts' \in SUBSET Tokens /\ attempts' \in [DOMAIN attempts' -> {"running", "succeeded", "failed"}]
    BY <1>3, <1>5, <1>10, <1>13, <1>14
  <2>2. worker' \in [Workers -> Tokens \cup {NoClaim}]
    BY <1>1, <1>3, <1>10 DEF TypeOK
  <2>3. DOMAIN jobs' \in SUBSET Keys /\ jobs' \in [DOMAIN jobs' -> JobRows]
    BY <1>5, <1>12
  <2> QED BY <1>1, <1>4, <2>1, <2>2, <2>3 DEF TypeOK
<1>16. AttemptsMatch'
  <2> SUFFICES ASSUME NEW t \in DOMAIN attempts'
               PROVE  /\ JobOf(t) \in DOMAIN jobs
                      /\ attempts'[t] = "running" <=>
                             jobs'[JobOf(t)].status = "running" /\ jobs'[JobOf(t)].attempt = t[4]
    BY <1>12 DEF AttemptsMatch, JobOf
  <2>1. CASE t = token
    BY <1>7, <1>9, <1>10, <1>12, <1>14, <2>1
  <2>2. CASE t # token
    <3>1. /\ t \in DOMAIN attempts /\ t \in Tokens
          /\ attempts'[t] = "running" <=> attempts[t] = "running" /\ ~Lapsed(JobOf(t))
        BY <1>5, <1>13, <1>14, <2>2
    <3>2. /\ JobOf(t) \in DOMAIN jobs
          /\ attempts[t] = "running" <=>
                 jobs[JobOf(t)].status = "running" /\ jobs[JobOf(t)].attempt = t[4]
        BY <3>1 DEF JobInv, AttemptsMatch
    <3>3. CASE JobOf(t) = k
      <4>1. t[4] # n
        BY <1>11, <2>2, <3>1, <3>3
      <4>2. attempts'[t] # "running"
        BY <1>6, <1>7, <3>1, <3>2, <3>3
      <4> QED BY <1>9, <1>12, <3>2, <3>3, <4>1, <4>2
    <3>4. CASE JobOf(t) # k
        BY <1>6, <1>12, <3>1, <3>2, <3>4
    <3> QED BY <3>3, <3>4
  <2> QED BY <2>1, <2>2
<1>17. \A c \in Capabilities : OpenJobs(c)' = OpenJobs(c)
  <2>1. \A j \in DOMAIN jobs : jobs'[j].status \in {"queued", "running"} <=> jobs[j].status \in {"queued", "running"}
    <3> TAKE j \in DOMAIN jobs
    <3>1. CASE j = k
        BY <1>6, <1>7, <1>9, <1>12, <3>1
    <3>2. CASE j # k
        BY <1>6, <1>12, <3>2
    <3> QED BY <3>1, <3>2
  <2> QED BY <1>12, <2>1 DEF OpenJobs
<1>18. PendingHasJob'
    BY <1>4, <1>17 DEF JobInv, PendingHasJob
<1>19. OneOpen'
    BY <1>4, <1>17 DEF JobInv, OneOpen
<1>20. ShownIsBest'
    BY <1>4, ShowsFrame DEF JobInv
<1> QED BY <1>15, <1>16, <1>18, <1>19, <1>20 DEF JobInv

\* What both results share: the attempt and the job are closed, and the row is either as
\* it became or pending for the one job that follows.
LEMMA ResultKeeps ==
    ASSUME JobInv, NEW w \in Workers, worker[w] # NoClaim, HoldsLease(worker[w]),
           NEW status \in {"succeeded", "failed"}, NEW row \in CoverageRows,
           row.state \in {"provided", "stale", "failed"},
           Finish(JobOf(worker[w]), status, row), Close(worker[w], status),
           UNCHANGED <<clock, lateEvidence>>
    PROVE  /\ coverage' \in [Capabilities -> CoverageRows]
           /\ DOMAIN jobs' \in SUBSET Keys /\ jobs' \in [DOMAIN jobs' -> JobRows]
           /\ DOMAIN attempts' \in SUBSET Tokens
           /\ attempts' \in [DOMAIN attempts' -> {"running", "succeeded", "failed"}]
           /\ worker' \in [Workers -> Tokens \cup {NoClaim}]
           /\ AttemptsMatch' /\ PendingHasJob' /\ OneOpen'
           /\ JobOf(worker[w])[1] \in Capabilities
           /\ \A c \in Capabilities \ {JobOf(worker[w])[1]} : coverage'[c] = coverage[c]
           /\ \/ coverage'[JobOf(worker[w])[1]] = row
              \/ coverage'[JobOf(worker[w])[1]].state = "pending"
<1>1. TypeOK
    BY DEF JobInv
<1> DEFINE token == worker[w]
           key == JobOf(token)
<1>2. /\ token \in Tokens /\ key \in DOMAIN jobs /\ key \in Keys
      /\ jobs[key].status = "running" /\ jobs[key].attempt = token[4]
    BY <1>1 DEF HoldsLease, TypeOK
<1>3. \A t \in Tokens : JobOf(t) = key /\ t[4] = token[4] => t = token
    BY <1>2 DEF JobOf, Tokens
<1>4. key[1] \in Capabilities
    BY <1>2 DEF Keys
<1> HIDE DEF key, token
<1>5. /\ coverage' \in [Capabilities -> CoverageRows]
      /\ DOMAIN jobs' \in SUBSET Keys /\ jobs' \in [DOMAIN jobs' -> JobRows]
      /\ DOMAIN jobs \subseteq DOMAIN jobs' /\ \A k \in DOMAIN jobs \ {key} : jobs'[k] = jobs[k]
      /\ jobs'[key].status = status
      /\ \A c \in Capabilities \ {key[1]} : coverage'[c] = coverage[c]
    BY <1>1, <1>2, FinishOutcome DEF key, token
<1>6. \/ NewJobs = {} /\ coverage'[key[1]] = row
      \/ \E n : /\ NewJobs = {n} /\ n[1] = key[1] /\ jobs'[n].status = "queued"
                /\ coverage'[key[1]].state = "pending"
    BY <1>1, <1>2, FinishOutcome DEF key, token
<1>7. /\ attempts' = [attempts EXCEPT ![token] = status]
      /\ worker' = [v \in Workers |-> IF worker[v] = token THEN NoClaim ELSE worker[v]]
    BY DEF Close, token
<1>8. /\ DOMAIN attempts' \in SUBSET Tokens
      /\ attempts' \in [DOMAIN attempts' -> {"running", "succeeded", "failed"}]
      /\ worker' \in [Workers -> Tokens \cup {NoClaim}]
    BY <1>1, <1>7 DEF TypeOK
<1>9. AttemptsMatch'
  <2> SUFFICES ASSUME NEW t \in DOMAIN attempts
               PROVE  /\ JobOf(t) \in DOMAIN jobs'
                      /\ attempts'[t] = "running" <=>
                             jobs'[JobOf(t)].status = "running" /\ jobs'[JobOf(t)].attempt = t[4]
    BY <1>7 DEF AttemptsMatch, JobOf
  <2>1. /\ JobOf(t) \in DOMAIN jobs
        /\ attempts[t] = "running" <=>
               jobs[JobOf(t)].status = "running" /\ jobs[JobOf(t)].attempt = t[4]
    BY DEF JobInv, AttemptsMatch
  <2>2. t \in Tokens
    BY <1>1 DEF TypeOK
  <2>3. CASE JobOf(t) = key
    <3>1. attempts'[t] # "running"
      <4>1. CASE t = token
        BY <1>7, <4>1
      <4>2. CASE t # token
        BY <1>2, <1>3, <1>7, <2>1, <2>2, <2>3, <4>2
      <4> QED BY <4>1, <4>2
    <3> QED BY <1>5, <2>1, <2>3, <3>1
  <2>4. CASE JobOf(t) # key
    <3>1. t # token
        BY <2>4 DEF key
    <3> QED BY <1>5, <1>7, <2>1, <2>4, <3>1
  <2> QED BY <2>3, <2>4
<1>10. \A c \in Capabilities \ {key[1]} : OpenJobs(c)' = OpenJobs(c)
  <2> TAKE c \in Capabilities \ {key[1]}
  <2>1. \A k \in NewJobs : k[1] # c
    BY <1>6
  <2>2. \A k \in DOMAIN jobs : k[1] = c => jobs'[k] = jobs[k] /\ k \in DOMAIN jobs'
    BY <1>5
  <2>3. \A k \in DOMAIN jobs' : k[1] = c => k \in DOMAIN jobs
    BY <2>1 DEF NewJobs
  <2> QED BY <2>2, <2>3 DEF OpenJobs
<1>11. PICK own \in Capabilities : own = key[1]
    BY <1>4
<1>12. OpenJobs(own)' = (OpenJobs(own) \ {key}) \cup NewJobs
  <2>1. \A k \in NewJobs : k[1] = own /\ jobs'[k].status = "queued"
    BY <1>6, <1>11
  <2>2. \A k : k \in DOMAIN jobs' <=> k \in DOMAIN jobs \ {key} \/ k = key \/ k \in NewJobs
    BY <1>2, <1>5 DEF NewJobs
  <2>3. key \notin OpenJobs(own)'
    BY <1>5 DEF OpenJobs
  <2>4. \A k \in DOMAIN jobs \ {key} : k \in OpenJobs(own)' <=> k \in OpenJobs(own)
    BY <1>5 DEF OpenJobs
  <2>5. \A k \in NewJobs : k \in OpenJobs(own)'
    BY <2>1, <2>2 DEF OpenJobs
  <2>6. OpenJobs(own)' \subseteq DOMAIN jobs' /\ OpenJobs(own) \subseteq DOMAIN jobs
    BY DEF OpenJobs
  <2> QED BY <2>2, <2>3, <2>4, <2>5, <2>6
<1>13. PendingHasJob'
  <2> SUFFICES ASSUME NEW c \in Capabilities, coverage'[c].state = "pending"
               PROVE  OpenJobs(c)' # {}
    BY DEF PendingHasJob
  <2>1. CASE c = own
    <3>1. coverage'[key[1]] # row
        BY <1>11, <2>1
    <3>2. NewJobs # {}
        BY <1>6, <3>1
    <3> QED BY <1>12, <2>1, <3>2
  <2>2. CASE c # own
    BY <1>5, <1>10, <1>11, <2>2 DEF JobInv, PendingHasJob
  <2> QED BY <2>1, <2>2
<1>14. OneOpen'
  <2> SUFFICES ASSUME NEW c \in Capabilities \ lateEvidence, NEW k \in OpenJobs(c)'
               PROVE  coverage'[c].state = "pending" /\ \A l \in OpenJobs(c)' : l = k
    BY DEF OneOpen
  <2>1. CASE c = own
    <3>1. key \in OpenJobs(own)
        BY <1>2, <1>11 DEF OpenJobs
    <3>2. \A l \in OpenJobs(own) : l = key
        BY <2>1, <3>1 DEF JobInv, OneOpen
    <3>3. OpenJobs(c)' = NewJobs
        BY <1>12, <2>1, <3>2
    <3> QED BY <1>6, <1>11, <2>1, <3>3
  <2>2. CASE c # own
    BY <1>5, <1>10, <1>11, <2>2 DEF JobInv, OneOpen
  <2> QED BY <2>1, <2>2
<1>15. \/ coverage'[key[1]] = row
       \/ coverage'[key[1]].state = "pending"
    BY <1>6
<1> QED BY <1>4, <1>5, <1>8, <1>9, <1>13, <1>14, <1>15 DEF key, token

LEMMA SuccessKeeps == ASSUME JobInv, NEW w \in Workers, CompleteSuccess(w) PROVE JobInv'
<1>1. TypeOK
    BY DEF JobInv
<1>2. PICK i \in (1..MaxObservations) \ DOMAIN observations, rank \in ResultRanks,
           expires \in {clock, clock + 1, Never} :
         LET key == JobOf(worker[w])
             table == [j \in DOMAIN observations \cup {i} |->
                 IF j = i THEN [capability |-> key[1], rank |-> rank, asserted |-> clock, expires |-> expires]
                 ELSE observations[j]]
         IN  /\ observations' = table
             /\ Finish(key, "succeeded", Resolve(Satisfy(coverage[key[1]], key[3]), table, key[1]))
    BY DEF CompleteSuccess
<1> DEFINE key == JobOf(worker[w])
           found == [capability |-> key[1], rank |-> rank, asserted |-> clock, expires |-> expires]
           table == [j \in DOMAIN observations \cup {i} |-> IF j = i THEN found ELSE observations[j]]
           row == Resolve(Satisfy(coverage[key[1]], key[3]), table, key[1])
           D == DOMAIN observations \cup {i}
<1>3. observations' = table /\ Finish(key, "succeeded", row)
    BY <1>2
<1>4. /\ worker[w] # NoClaim /\ HoldsLease(worker[w]) /\ Close(worker[w], "succeeded")
      /\ UNCHANGED <<clock, outbox, requests, caller, lateEvidence>>
    BY DEF CompleteSuccess
<1>5. key \in Keys /\ key[1] \in Capabilities /\ key[3] \in Nat
    BY <1>1, <1>4 DEF HoldsLease, TypeOK, Keys
<1>6. D \in SUBSET (1..MaxObservations) /\ table \in [D -> ObservationRows]
  <2>1. found \in ObservationRows
    BY <1>1, <1>5, Bounds DEF ObservationRows, TypeOK
  <2> QED BY <1>1, <2>1 DEF TypeOK
<1>7. table[i] = found /\ found.capability = key[1] /\ \A j \in DOMAIN observations : table[j] = observations[j]
    OBVIOUS
<1>8. Satisfy(coverage[key[1]], key[3]) \in CoverageRows
    BY <1>1, <1>5, SatisfiedRow DEF TypeOK
<1>9. row \in CoverageRows /\ row.state \in {"provided", "stale"} /\ Shows(row, table, key[1])
  <2>1. \E j \in D : table[j].capability = key[1]
    BY <1>7
  <2> HIDE DEF table, D
  <2> QED BY <1>6, <1>8, <2>1, ResolveOutcome
<1> HIDE DEF row
<1>10. /\ coverage' \in [Capabilities -> CoverageRows]
       /\ DOMAIN jobs' \in SUBSET Keys /\ jobs' \in [DOMAIN jobs' -> JobRows]
       /\ DOMAIN attempts' \in SUBSET Tokens
       /\ attempts' \in [DOMAIN attempts' -> {"running", "succeeded", "failed"}]
       /\ worker' \in [Workers -> Tokens \cup {NoClaim}]
       /\ AttemptsMatch' /\ PendingHasJob' /\ OneOpen'
       /\ \A c \in Capabilities \ {key[1]} : coverage'[c] = coverage[c]
       /\ coverage'[key[1]] = row \/ coverage'[key[1]].state = "pending"
    BY <1>3, <1>4, <1>9, ResultKeeps
<1>11. DOMAIN observations' \in SUBSET (1..MaxObservations) /\ observations' \in [DOMAIN observations' -> ObservationRows]
  <2>1. DOMAIN observations' = D
    BY <1>3
  <2> QED BY <1>3, <1>6, <2>1
<1>12. TypeOK'
    BY <1>1, <1>4, <1>10, <1>11 DEF TypeOK
<1>13. ShownIsBest'
  <2> SUFFICES ASSUME NEW c \in Capabilities, coverage'[c].state = "provided"
               PROVE  Shows(coverage[c], observations, c)'
    BY DEF ShownIsBest, Shows
  <2>1. CASE c = key[1]
    <3>1. coverage'[c] = row /\ Shows(row, table, c)
        BY <1>9, <1>10, <2>1
    <3> QED BY <3>1, <1>3, <1>4 DEF Shows, Expired
  <2>2. CASE c # key[1]
    <3>1. coverage'[c] = coverage[c] /\ Shows(coverage[c], observations, c)
        BY <1>10, <2>2 DEF JobInv, ShownIsBest
    <3>2. /\ DOMAIN observations' = D /\ observations'[i].capability # c
          /\ \A j \in DOMAIN observations : observations'[j] = observations[j]
        BY <1>3, <1>7, <2>2
    <3> QED BY <1>4, <3>1, <3>2 DEF Shows, Expired
  <2> QED BY <2>1, <2>2
<1> QED BY <1>10, <1>12, <1>13 DEF JobInv

LEMMA FailureKeeps ==
    ASSUME JobInv, NEW w \in Workers, NEW permanent \in BOOLEAN, CompleteFailure(w, permanent)
    PROVE  JobInv'
<1>1. TypeOK
    BY DEF JobInv
<1> DEFINE key == JobOf(worker[w])
           satisfied == Satisfy(coverage[key[1]], IF permanent THEN key[3] ELSE 0)
           row == [satisfied EXCEPT !.state = "failed", !.retryable = ~permanent]
<1>2. /\ worker[w] # NoClaim /\ HoldsLease(worker[w])
      /\ Finish(key, "failed", row) /\ Close(worker[w], "failed")
      /\ UNCHANGED <<clock, observations, outbox, requests, caller, lateEvidence>>
    BY DEF CompleteFailure
<1>3. key \in Keys /\ key[1] \in Capabilities /\ key[3] \in Nat
    BY <1>1, <1>2 DEF HoldsLease, TypeOK, Keys
<1>4. satisfied \in CoverageRows
    BY <1>1, <1>3, SatisfiedRow DEF TypeOK
<1> HIDE DEF satisfied
<1>5. row \in CoverageRows /\ row.state = "failed"
    BY <1>4, FailedRow
<1> HIDE DEF row
<1>6. /\ coverage' \in [Capabilities -> CoverageRows]
      /\ DOMAIN jobs' \in SUBSET Keys /\ jobs' \in [DOMAIN jobs' -> JobRows]
      /\ DOMAIN attempts' \in SUBSET Tokens
      /\ attempts' \in [DOMAIN attempts' -> {"running", "succeeded", "failed"}]
      /\ worker' \in [Workers -> Tokens \cup {NoClaim}]
      /\ AttemptsMatch' /\ PendingHasJob' /\ OneOpen'
      /\ \A c \in Capabilities \ {key[1]} : coverage'[c] = coverage[c]
      /\ coverage'[key[1]] = row \/ coverage'[key[1]].state = "pending"
    BY <1>2, <1>5, ResultKeeps
<1>7. TypeOK'
    BY <1>1, <1>2, <1>6 DEF TypeOK
<1>8. \A c \in Capabilities : coverage'[c].state = "provided" => coverage'[c] = coverage[c]
    BY <1>5, <1>6
<1>9. ShownIsBest'
    BY <1>2, <1>8, ShowsFrame DEF JobInv
<1> QED BY <1>6, <1>7, <1>9 DEF JobInv

LEMMA NextKeeps == ASSUME JobInv, [Next]_vars PROVE JobInv'
<1>1. TypeOK
    BY DEF JobInv
<1>2. ASSUME NEW a \in Captures, InitializeCapture(a) PROVE JobInv'
    BY <1>2, CaptureKeeps
<1>3. ASSUME NEW a \in Captures, PlanCaptureFollowUp(a) PROVE JobInv'
  <2>1. /\ Plan /\ UNCHANGED <<clock, observations, attempts, requests, worker, caller, lateEvidence>>
        /\ outbox' \in [Captures -> {"none", "pending", "complete"}]
        /\ caller' \in [Callers -> BOOLEAN]
    BY <1>1, <1>3 DEF PlanCaptureFollowUp, TypeOK
  <2> QED BY <2>1, PlanKeeps
<1>4. ASSUME PlanRevision, caller' \in [Callers -> BOOLEAN] PROVE JobInv'
  <2>1. /\ Plan /\ UNCHANGED <<clock, observations, attempts, requests, worker, lateEvidence>>
        /\ outbox' \in [Captures -> {"none", "pending", "complete"}]
    BY <1>1, <1>4 DEF PlanRevision, TypeOK
  <2> QED BY <1>4, <2>1, PlanKeeps
<1>5. ASSUME PlanRevision /\ UNCHANGED caller PROVE JobInv'
    BY <1>1, <1>4, <1>5 DEF TypeOK
<1>6. ASSUME ListCoverage PROVE JobInv'
    BY <1>6, ListKeeps
<1>7. ASSUME NEW p \in Callers, NEW k \in RequestKeys, NEW c \in Capabilities, RequestCapability(p, k, c)
      PROVE  JobInv'
    BY <1>7, RequestKeeps
<1>8. ASSUME NEW p \in Callers, PlanRequested(p) PROVE JobInv'
  <2>1. PlanRevision /\ caller' \in [Callers -> BOOLEAN]
    BY <1>1, <1>8 DEF PlanRequested, TypeOK
  <2> QED BY <1>4, <2>1
<1>9. ASSUME UNCHANGED <<clock, tables, lateEvidence>>,
             worker' \in [Workers -> Tokens \cup {NoClaim}], caller' \in [Callers -> BOOLEAN]
      PROVE  JobInv'
  <2>1. TypeOK'
    BY <1>1, <1>9 DEF tables, TypeOK
  <2>2. AttemptsMatch' /\ PendingHasJob' /\ OneOpen'
    BY <1>9 DEF tables, JobInv, AttemptsMatch, PendingHasJob, OneOpen, OpenJobs
  <2>3. ShownIsBest'
    BY <1>9, ShowsFrame DEF tables, JobInv
  <2> QED BY <2>1, <2>2, <2>3 DEF JobInv
<1>10. ASSUME NEW p \in Callers, CallerDies(p) PROVE JobInv'
    BY <1>1, <1>9, <1>10 DEF CallerDies, TypeOK
<1>11. ASSUME NEW w \in Workers, ClaimNext(w) PROVE JobInv'
    BY <1>11, ClaimKeeps
<1>12. ASSUME NEW w \in Workers, CompleteSuccess(w) PROVE JobInv'
    BY <1>12, SuccessKeeps
<1>13. ASSUME NEW w \in Workers, NEW permanent \in BOOLEAN, CompleteFailure(w, permanent) PROVE JobInv'
    BY <1>13, FailureKeeps
<1>14. ASSUME NEW w \in Workers, ResultRefused(w) \/ WorkerDies(w) PROVE JobInv'
  <2>1. UNCHANGED <<clock, tables, caller, lateEvidence>> /\ worker' = [worker EXCEPT ![w] = NoClaim]
    BY <1>14 DEF ResultRefused, WorkerDies
  <2> QED BY <1>1, <1>9, <2>1 DEF TypeOK
<1>15. ASSUME Tick PROVE JobInv'
  <2>1. clock \in Nat /\ clock' = clock + 1 /\ clock' \in 0..LastTick
    BY <1>1, <1>15, Bounds DEF Tick, TypeOK
  <2>2. UNCHANGED <<tables, worker, caller, lateEvidence>>
    BY <1>15 DEF Tick
  <2>3. TypeOK'
    BY <1>1, <2>1, <2>2 DEF tables, TypeOK
  <2>4. AttemptsMatch' /\ PendingHasJob' /\ OneOpen'
    BY <2>2 DEF tables, JobInv, AttemptsMatch, PendingHasJob, OneOpen, OpenJobs
  <2>5. \A i \in DOMAIN observations : Expired(observations[i]) => Expired(observations[i])'
    <3> TAKE i \in DOMAIN observations
    <3>1. observations[i].expires \in Nat /\ observations' = observations
        BY <1>1, <2>2 DEF tables, TypeOK, ObservationRows
    <3> QED BY <2>1, <3>1 DEF Expired
  <2>6. ShownIsBest'
    <3> SUFFICES ASSUME NEW c \in Capabilities, coverage[c].state = "provided"
                 PROVE  Shows(coverage[c], observations, c)'
        BY <2>2 DEF tables, ShownIsBest, Shows
    <3>1. Shows(coverage[c], observations, c)
        BY DEF JobInv, ShownIsBest
    <3> QED BY <2>2, <2>5, <3>1 DEF tables, Shows
  <2> QED BY <2>3, <2>4, <2>6 DEF JobInv
<1>16. ASSUME UNCHANGED vars PROVE JobInv'
    BY <1>1, <1>9, <1>16 DEF vars, TypeOK
<1> QED BY <1>2, <1>3, <1>5, <1>6, <1>7, <1>8, <1>10, <1>11, <1>12, <1>13, <1>14, <1>15, <1>16 DEF Next

(***************************************************************************)
(* What holds in every reachable state.                                    *)
(***************************************************************************)

\* The rows of coverage, jobs, attempts and observations stay well formed, and the four
\* facts that no transaction of a capture, a planner or a worker disturbs.
THEOREM JobInvariantHolds == Spec => []JobInv
<1>1. Init => JobInv
    BY InitInv
<1>2. JobInv /\ [Next]_vars => JobInv'
    BY NextKeeps
<1> QED BY <1>1, <1>2, PTL DEF Spec

\* An attempt runs exactly while its job runs under that attempt's number, and a capability
\* that no capture resolved under an open job has at most one open job: requests, plans,
\* lapses and results of any number of workers never start concurrent work.
THEOREM WorkStaysExclusive == Spec => []WorkIsExclusive
<1>1. ASSUME JobInv PROVE WorkIsExclusive
  <2>1. ASSUME NEW c \in Capabilities \ lateEvidence PROVE Cardinality(OpenJobs(c)) <= 1
    <3>1. CASE OpenJobs(c) = {}
        BY <3>1, FS_EmptySet
    <3>2. CASE OpenJobs(c) # {}
      <4>1. PICK k \in OpenJobs(c) : OpenJobs(c) = {k}
        BY <1>1, <3>2 DEF JobInv, OneOpen
      <4> QED BY <4>1, FS_Singleton
    <3> QED BY <3>1, <3>2
  <2> QED BY <1>1, <2>1 DEF JobInv, AttemptsMatch, WorkIsExclusive
<1> QED BY <1>1, JobInvariantHolds, PTL

\* Coverage that says "pending" always has an open job, also across the transaction that
\* closes one job and opens its successor.
THEOREM PendingIsNeverOrphaned == Spec => []PendingHasJob
<1>1. JobInv => PendingHasJob
    BY DEF JobInv
<1> QED BY <1>1, JobInvariantHolds, PTL

\* No valid observation outranks the one that is shown, whichever of several results and
\* captures came last and whatever expired meanwhile.
THEOREM TheBestStaysShown == Spec => []BestIsShown
<1>1. JobInv => BestIsShown
    BY DEF JobInv, ShownIsBest, Shows, BestIsShown
<1> QED BY <1>1, JobInvariantHolds, PTL

-------------------------------------------------------------------------------
(***************************************************************************)
(* RecallIndex.  A session takes a fragment through its steps; what the    *)
(* rows of the fragment are is known of whoever is alone on it.            *)
(***************************************************************************)
Linkers == {"directives", "entities", "candidates", "linking"}
\* Which steps who takes.
Fits(kind, step) ==
    \/ kind = "pass" /\ step \in Linkers
    \/ kind = "edit" /\ step \in (Linkers \ {"directives"}) \cup {"editing", "restoring"}
    \/ kind = "review" /\ step \in {"reviewing", "restoring"}

Shape(w) ==
    w.step # "rest" =>
        /\ w.f \in Fragments /\ text[w.f] \in Texts
        /\ Fits(w.kind, w.step)
        /\ w.step \in Linkers => w.text \in Texts

Directed(f, S) == OfKind(S, "directive") = EntitiesOf("directive", DirectivesOf[text[f].content])

\* A pass that is alone has written what the rows should be; an edit or a review that
\* is, and found them so, keeps them so.
MineOK(s) ==
    /\ sessions[s].kind = "pass" =>
           /\ text[sessions[s].f] = sessions[s].text /\ sessions[s].text.title = "own"
           /\ sessions[s].step # "directives" => Directed(sessions[s].f, rows[sessions[s].f])
           /\ sessions[s].step \in {"candidates", "linking"} =>
                  OfKind(rows[sessions[s].f], "tool") = EntitiesOf("tool", ToolsOf[sessions[s].text])
    /\ sessions[s].kind # "pass" /\ sessions[s].f \notin disturbed =>
           /\ Directed(sessions[s].f, rows[sessions[s].f]) /\ Directed(sessions[s].f, sessions[s].rows)
           /\ memory[sessions[s].f].content = text[sessions[s].f].content
           /\ sessions[s].step \in Linkers => sessions[s].text.content = text[sessions[s].f].content
           /\ sessions[s].step \notin {"editing", "reviewing"} => sessions[s].f \in retitled

Stands(f) ==
    Settled(f) =>
        /\ Directed(f, rows[f])
        /\ memory[f].content = text[f].content
        /\ f \notin retitled => OfKind(rows[f], "tool") = EntitiesOf("tool", ToolsOf[text[f]])

\* Whoever is alone on a fragment is, and whoever is not has disturbed it.
FragmentOK(f) ==
    /\ \A s \in On(f) : sessions[s].alone => On(f) = {s} /\ MineOK(s)
    /\ \A s \in On(f) : ~sessions[s].alone => f \in disturbed
    /\ Stands(f)

RowsInv ==
    /\ IndexTypeOK
    /\ \A s \in Sessions : Shape(sessions[s])
    /\ \A f \in Fragments : FragmentOK(f)

-------------------------------------------------------------------------------
LEMMA RestingRow ==
    ASSUME IndexAssumption
    PROVE  /\ Resting \in SessionRows /\ Resting.step = "rest" /\ Resting.f = NoMaterial
           /\ NoMaterial \notin Fragments /\ NoMaterial \notin Materials
BY DEF IndexAssumption, Resting, SessionRows, NoText

LEMMA TextsExist ==
    ASSUME IndexAssumption
    PROVE  NoText \notin Texts
<1>1. NoMaterial \notin Materials /\ NoText.content = NoMaterial
  BY RestingRow DEF NoText
<1>2. \A t \in Texts : t.content \in Materials
  BY DEF Texts
<1> QED BY <1>1, <1>2

LEMMA InUnion == ASSUME NEW S, NEW V \in S PROVE V \subseteq UNION S
OBVIOUS

LEMMA Named ==
    ASSUME NEW t \in Texts
    PROVE  /\ ToolsOf[t] \subseteq Values
           /\ DirectivesOf[t.content] \subseteq Values
<1>1. t.content \in Materials
  BY DEF Texts
<1>2. ToolsOf[t] \in {ToolsOf[u] : u \in Texts} /\ DirectivesOf[t.content] \in {DirectivesOf[m] : m \in Materials}
  BY <1>1
<1>3. /\ ToolsOf[t] \subseteq UNION {ToolsOf[u] : u \in Texts}
      /\ DirectivesOf[t.content] \subseteq UNION {DirectivesOf[m] : m \in Materials}
  BY <1>2, InUnion
<1> QED BY <1>3 DEF Values

LEMMA ReplacedRows ==
    ASSUME NEW S, S \subseteq EntityRows, NEW V, V \subseteq Values,
           NEW k, k = "directive" \/ k = "tool",
           NEW R, R = (S \ OfKind(S, k)) \cup EntitiesOf(k, V)
    PROVE  /\ R \subseteq EntityRows
           /\ OfKind(R, k) = EntitiesOf(k, V)
           /\ \A j : j # k => OfKind(R, j) = OfKind(S, j)
<1>1. \A r \in EntitiesOf(k, V) : r \in EntityRows /\ r.kind = k
  BY DEF EntitiesOf, EntityRows
<1>2. R \subseteq EntityRows
  BY <1>1 DEF OfKind
<1>3. OfKind(R, k) = EntitiesOf(k, V)
  BY <1>1 DEF OfKind
<1>4. \A j : j # k => OfKind(R, j) = OfKind(S, j)
  BY <1>1 DEF OfKind
<1> QED BY <1>2, <1>3, <1>4

\* Whose sessions and rows nothing touches.
Untouched(g) ==
    /\ On(g)' = On(g) /\ \A v \in On(g) : sessions'[v] = sessions[v]
    /\ text'[g] = text[g] /\ rows'[g] = rows[g] /\ memory'[g] = memory[g]
    /\ (g \in disturbed' <=> g \in disturbed) /\ (g \in retitled' <=> g \in retitled)

LEMMA Elsewhere ==
    ASSUME NEW g \in Fragments, FragmentOK(g), Untouched(g)
    PROVE  FragmentOK(g)'
<1>1. \A v \in On(g) : sessions[v].f = g /\ sessions'[v] = sessions[v]
  BY DEF On, Untouched
<1>2. \A S : Directed(g, S)' = Directed(g, S)
  BY DEF Directed, Untouched
<1>3. \A v \in On(g) : MineOK(v) => MineOK(v)'
  BY <1>1 DEF MineOK, Untouched, Directed
<1>4. Stands(g)'
  BY <1>2 DEF FragmentOK, Stands, Settled, Exists, Untouched, Directed
<1> QED BY <1>1, <1>3, <1>4 DEF FragmentOK, Untouched

\* Where several are at work nothing is promised.
LEMMA CrowdStands ==
    ASSUME NEW g \in Fragments, g \in disturbed', \A v \in On(g)' : ~sessions'[v].alone
    PROVE  FragmentOK(g)'
BY DEF FragmentOK, Stands, Settled

\* A session goes on, or ends.
LEMMA GoesOn ==
    ASSUME RowsInv, NEW s \in Sessions, NEW f \in Fragments, NEW x \in SessionRows,
           s \in On(f), Goes(s, x),
           x.step # "rest" => x.f = f /\ x.alone = sessions[s].alone,
           \A g \in Fragments : g # f =>
               /\ text'[g] = text[g] /\ rows'[g] = rows[g] /\ memory'[g] = memory[g]
               /\ (g \in disturbed' <=> g \in disturbed) /\ (g \in retitled' <=> g \in retitled),
           ~sessions[s].alone /\ f \in disturbed => f \in disturbed',
           sessions[s].alone /\ x.step # "rest" => MineOK(s)',
           sessions[s].alone /\ x.step = "rest" => Stands(f)'
    PROVE  \A g \in Fragments : FragmentOK(g)'
<1>1. sessions \in [Sessions -> SessionRows] /\ FragmentOK(f) /\ \A g \in Fragments : FragmentOK(g)
  BY DEF RowsInv, IndexTypeOK
<1>2. sessions'[s] = x /\ \A v \in Sessions : v # s => sessions'[v] = sessions[v]
  BY <1>1 DEF Goes
<1>3. sessions[s].f = f
  BY DEF On
<1>4. ASSUME NEW g \in Fragments, g # f PROVE FragmentOK(g)'
  <2>1. On(g)' = On(g)
    BY <1>2, <1>3, <1>4 DEF On
  <2>2. s \notin On(g)
    BY <1>3, <1>4 DEF On
  <2>3. \A v \in On(g) : sessions'[v] = sessions[v]
    BY <1>2, <2>2 DEF On
  <2> QED BY <1>1, <1>4, <2>1, <2>3, Elsewhere DEF Untouched
<1>5. On(f)' = IF x.step = "rest" THEN On(f) \ {s} ELSE On(f)
  BY <1>2, <1>3 DEF On
<1>6. CASE sessions[s].alone
  <2>1. On(f) = {s}
    BY <1>1, <1>6 DEF FragmentOK
  <2>2. CASE x.step = "rest"
    <3>1. On(f)' = {}
      BY <1>5, <2>1, <2>2
    <3> QED BY <1>4, <1>6, <2>2, <3>1 DEF FragmentOK
  <2>3. CASE x.step # "rest"
    <3>1. On(f)' = {s}
      BY <1>5, <2>1, <2>3
    <3>2. sessions'[s].alone
      BY <1>2, <1>6, <2>3
    <3>3. Stands(f)'
      BY <3>1 DEF Stands, Settled
    <3> QED BY <1>4, <1>6, <2>3, <3>1, <3>2, <3>3 DEF FragmentOK
  <2> QED BY <2>2, <2>3
<1>7. CASE ~sessions[s].alone
  <2>1. f \in disturbed /\ f \in disturbed'
    BY <1>1, <1>7 DEF FragmentOK
  <2>2. \A v \in On(f) : ~sessions[v].alone
    BY <1>1, <1>7 DEF FragmentOK
  <2>3. \A v \in On(f)' : v \in On(f) /\ (v # s \/ x.step # "rest")
    BY <1>5
  <2>4. \A v \in On(f)' : ~sessions'[v].alone
    BY <1>2, <2>2, <2>3 DEF On
  <2> QED BY <1>4, <2>1, <2>4, CrowdStands
<1> QED BY <1>6, <1>7

LEMMA ShapesStand ==
    ASSUME RowsInv, NEW s \in Sessions, NEW x, Goes(s, x), Shape(x)',
           \A f \in Fragments : text[f] \in Texts => text'[f] \in Texts
    PROVE  \A v \in Sessions : Shape(sessions[v])'
<1>1. sessions'[s] = x /\ \A v \in Sessions : v # s => sessions'[v] = sessions[v]
  BY DEF Goes, RowsInv, IndexTypeOK
<1> QED BY <1>1 DEF RowsInv, Shape

\* What is known of a session at work.
LEMMA AtWork ==
    ASSUME IndexAssumption, RowsInv, NEW s \in Sessions, sessions[s].step # "rest"
    PROVE  /\ sessions[s] \in SessionRows /\ Shape(sessions[s])
           /\ sessions[s].f \in Fragments /\ s \in On(sessions[s].f)
           /\ text[sessions[s].f] \in Texts /\ Exists(sessions[s].f)
           /\ rows[sessions[s].f] \in SUBSET EntityRows
           /\ FragmentOK(sessions[s].f)
           /\ sessions[s].alone => MineOK(s)
<1>1. /\ sessions[s] \in SessionRows /\ Shape(sessions[s])
      /\ sessions[s].f \in Fragments /\ text[sessions[s].f] \in Texts
  BY DEF RowsInv, IndexTypeOK, Shape
<1>2. s \in On(sessions[s].f)
  BY DEF On
<1>3. FragmentOK(sessions[s].f) /\ rows[sessions[s].f] \in SUBSET EntityRows
  BY <1>1 DEF RowsInv, IndexTypeOK
<1>4. text[sessions[s].f] # NoText
  BY <1>1, TextsExist
<1> QED BY <1>1, <1>2, <1>3, <1>4 DEF FragmentOK, Exists

-------------------------------------------------------------------------------
LEMMA DirectivesWritten ==
    ASSUME IndexAssumption, RowsInv, NEW s \in Sessions, TagDirectives(s)
    PROVE  RowsInv'
<1>1. PICK w : w = sessions[s]
  OBVIOUS
<1>2. PICK x : x = [w EXCEPT !.step = "entities"]
  OBVIOUS
<1> DEFINE R == EntitiesOf("directive", DirectivesOf[w.text.content])
<1>3. /\ w.step = "directives" /\ Goes(s, x)
      /\ rows' = [rows EXCEPT ![w.f] = (@ \ OfKind(@, "directive")) \cup R]
      /\ UNCHANGED <<text, links, memory, disturbed, retitled, captures, edits, faults>>
  BY <1>1, <1>2 DEF TagDirectives
<1>4. PICK f : f = w.f /\ f \in Fragments /\ s \in On(f) /\ rows[f] \in SUBSET EntityRows
  BY <1>1, <1>3, AtWork
<1>5. /\ w \in SessionRows /\ w.kind = "pass" /\ w.text \in Texts
      /\ (w.alone => MineOK(s)) /\ text[f] \in Texts
  BY <1>1, <1>3, <1>4, AtWork DEF Shape, Fits, Linkers
<1>6. /\ x \in SessionRows /\ x.step = "entities" /\ x.f = f /\ x.alone = w.alone
      /\ x.kind = "pass" /\ x.text = w.text
  BY <1>2, <1>4, <1>5 DEF SessionRows
<1>7. rows \in [Fragments -> SUBSET EntityRows]
  BY DEF RowsInv, IndexTypeOK
<1>8. /\ rows'[f] = (rows[f] \ OfKind(rows[f], "directive")) \cup R
      /\ \A g \in Fragments : g # f => rows'[g] = rows[g]
  BY <1>3, <1>4, <1>7
<1>9. rows'[f] \in SUBSET EntityRows /\ OfKind(rows'[f], "directive") = R
  <2>1. PICK V : V = DirectivesOf[w.text.content]
    OBVIOUS
  <2>2. V \subseteq Values
    BY <1>5, <2>1, Named
  <2>3. PICK S, Q : S = rows[f] /\ Q = rows'[f]
    OBVIOUS
  <2>4. S \subseteq EntityRows /\ Q = (S \ OfKind(S, "directive")) \cup EntitiesOf("directive", V)
    BY <1>4, <1>8, <2>1, <2>3
  <2>5. Q \subseteq EntityRows /\ OfKind(Q, "directive") = EntitiesOf("directive", V)
    BY <2>2, <2>4, ReplacedRows
  <2> QED BY <2>1, <2>3, <2>5
<1>10. rows' \in [Fragments -> SUBSET EntityRows]
  BY <1>3, <1>4, <1>7, <1>9
<1>11. sessions'[s] = x
  BY <1>3 DEF Goes, RowsInv, IndexTypeOK
<1>12. ASSUME w.alone PROVE MineOK(s)'
  <2>1. text[f] = w.text /\ w.text.title = "own"
    BY <1>1, <1>4, <1>5, <1>12 DEF MineOK
  <2>2. Directed(f, rows[f])'
    BY <1>3, <1>9, <2>1 DEF Directed
  <2> QED BY <1>3, <1>6, <1>11, <2>1, <2>2 DEF MineOK
<1>13. IndexTypeOK'
  <2>1. sessions' \in [Sessions -> SessionRows]
    BY <1>3, <1>6 DEF Goes, RowsInv, IndexTypeOK
  <2> QED BY <1>3, <1>10, <2>1 DEF RowsInv, IndexTypeOK
<1>14. \A v \in Sessions : Shape(sessions[v])'
  <2>1. Shape(x)'
    BY <1>3, <1>4, <1>5, <1>6 DEF Shape, Fits, Linkers
  <2> QED BY <1>3, <2>1, ShapesStand
<1>15. \A g \in Fragments : FragmentOK(g)'
  BY <1>1, <1>3, <1>4, <1>6, <1>8, <1>12, GoesOn
<1> QED BY <1>13, <1>14, <1>15 DEF RowsInv

LEMMA EntitiesIndexed ==
    ASSUME IndexAssumption, RowsInv, NEW s \in Sessions, IndexEntities(s)
    PROVE  RowsInv'
<1>1. PICK w : w = sessions[s]
  OBVIOUS
<1>2. PICK x : x = [w EXCEPT !.step = "candidates"]
  OBVIOUS
<1> DEFINE R == EntitiesOf("tool", ToolsOf[w.text])
<1>3. /\ w.step = "entities" /\ Goes(s, x)
      /\ rows' = [rows EXCEPT ![w.f] = (@ \ OfKind(@, "tool")) \cup R]
      /\ UNCHANGED <<text, links, memory, disturbed, retitled, captures, edits, faults>>
  BY <1>1, <1>2 DEF IndexEntities
<1>4. PICK f : f = w.f /\ f \in Fragments /\ s \in On(f) /\ rows[f] \in SUBSET EntityRows
  BY <1>1, <1>3, AtWork
<1>5. /\ w \in SessionRows /\ w.kind \in {"pass", "edit"} /\ w.text \in Texts
      /\ (w.alone => MineOK(s)) /\ text[f] \in Texts
  BY <1>1, <1>3, <1>4, AtWork DEF Shape, Fits, Linkers
<1>6. /\ x \in SessionRows /\ x.step = "candidates" /\ x.f = f /\ x.alone = w.alone
      /\ x.kind = w.kind /\ x.text = w.text /\ x.rows = w.rows
  BY <1>2, <1>4, <1>5 DEF SessionRows
<1>7. rows \in [Fragments -> SUBSET EntityRows]
  BY DEF RowsInv, IndexTypeOK
<1>8. /\ rows'[f] = (rows[f] \ OfKind(rows[f], "tool")) \cup R
      /\ \A g \in Fragments : g # f => rows'[g] = rows[g]
  BY <1>3, <1>4, <1>7
<1>9. /\ rows'[f] \in SUBSET EntityRows /\ OfKind(rows'[f], "tool") = R
      /\ OfKind(rows'[f], "directive") = OfKind(rows[f], "directive")
  <2>1. PICK V : V = ToolsOf[w.text]
    OBVIOUS
  <2>2. V \subseteq Values
    BY <1>5, <2>1, Named
  <2>3. PICK S, Q : S = rows[f] /\ Q = rows'[f]
    OBVIOUS
  <2>4. S \subseteq EntityRows /\ Q = (S \ OfKind(S, "tool")) \cup EntitiesOf("tool", V)
    BY <1>4, <1>8, <2>1, <2>3
  <2>5. /\ Q \subseteq EntityRows /\ OfKind(Q, "tool") = EntitiesOf("tool", V)
        /\ OfKind(Q, "directive") = OfKind(S, "directive")
    BY <2>2, <2>4, ReplacedRows
  <2> QED BY <2>1, <2>3, <2>5
<1>10. rows' \in [Fragments -> SUBSET EntityRows]
  BY <1>3, <1>4, <1>7, <1>9
<1>11. sessions'[s] = x
  BY <1>3 DEF Goes, RowsInv, IndexTypeOK
<1>12. ASSUME w.alone PROVE MineOK(s)'
  <2>1. CASE w.kind = "pass"
    <3>1. text[f] = w.text /\ w.text.title = "own" /\ Directed(f, rows[f])
      BY <1>1, <1>3, <1>4, <1>5, <1>12, <2>1 DEF MineOK
    <3>2. Directed(f, rows[f])'
      BY <1>3, <1>9, <3>1 DEF Directed
    <3> QED BY <1>3, <1>6, <1>9, <1>11, <2>1, <3>1, <3>2 DEF MineOK
  <2>2. CASE w.kind # "pass" /\ f \in disturbed
    BY <1>3, <1>6, <1>11, <2>2 DEF MineOK
  <2>3. CASE w.kind # "pass" /\ f \notin disturbed
    <3>1. /\ Directed(f, rows[f]) /\ Directed(f, w.rows) /\ memory[f].content = text[f].content
          /\ w.text.content = text[f].content /\ f \in retitled
      BY <1>1, <1>3, <1>4, <1>5, <1>12, <2>3 DEF MineOK, Linkers
    <3>2. Directed(f, rows[f])' /\ Directed(f, w.rows)'
      BY <1>3, <1>9, <3>1 DEF Directed
    <3> QED BY <1>3, <1>6, <1>11, <2>3, <3>1, <3>2 DEF MineOK
  <2> QED BY <2>1, <2>2, <2>3
<1>13. IndexTypeOK'
  <2>1. sessions' \in [Sessions -> SessionRows]
    BY <1>3, <1>6 DEF Goes, RowsInv, IndexTypeOK
  <2> QED BY <1>3, <1>10, <2>1 DEF RowsInv, IndexTypeOK
<1>14. \A v \in Sessions : Shape(sessions[v])'
  <2>1. Shape(x)'
    BY <1>3, <1>4, <1>5, <1>6 DEF Shape, Fits, Linkers
  <2> QED BY <1>3, <2>1, ShapesStand
<1>15. \A g \in Fragments : FragmentOK(g)'
  BY <1>1, <1>3, <1>4, <1>6, <1>8, <1>12, GoesOn
<1> QED BY <1>13, <1>14, <1>15 DEF RowsInv

LEMMA EarnedRows ==
    ASSUME NEW f \in Fragments, NEW g \in Fragments, NEW n \in 1..Len(Kinds)
    PROVE  Earned(f, g, n) \subseteq LinkRows
<1>1. \A i \in 1..n : i \in 1..Len(Kinds)
  BY DEF Kinds
<1> QED BY <1>1 DEF Earned, LinkRows

\* Steps that leave texts and rows alone and only change what the session has to do.
LEMMA Continues ==
    ASSUME IndexAssumption, RowsInv, NEW s \in Sessions, NEW w, w = sessions[s],
           w.step \in {"candidates", "linking"},
           NEW todo \in SUBSET LinkRows,
           NEW x, x = [[w EXCEPT !.step = "linking"] EXCEPT !.todo = todo], Goes(s, x),
           UNCHANGED <<text, rows, memory, disturbed, retitled, captures, edits, faults>>,
           links' \subseteq LinkRows
    PROVE  RowsInv'
<1>4. PICK f : f = w.f /\ f \in Fragments /\ s \in On(f)
  BY AtWork
<1>5. /\ w \in SessionRows /\ w.kind \in {"pass", "edit"} /\ w.text \in Texts
      /\ (w.alone => MineOK(s)) /\ text[f] \in Texts
  BY <1>4, AtWork DEF Shape, Fits, Linkers
<1>6. /\ x \in SessionRows /\ x.step = "linking" /\ x.f = f /\ x.alone = w.alone
      /\ x.kind = w.kind /\ x.text = w.text /\ x.rows = w.rows
  BY <1>4, <1>5 DEF SessionRows
<1>11. sessions'[s] = x
  BY DEF Goes, RowsInv, IndexTypeOK
<1>12. ASSUME w.alone PROVE MineOK(s)'
  <2>1. CASE w.kind = "pass"
    BY <1>4, <1>5, <1>6, <1>11, <1>12, <2>1 DEF MineOK, Directed
  <2>2. CASE w.kind # "pass"
    BY <1>4, <1>5, <1>6, <1>11, <1>12, <2>2 DEF MineOK, Directed, Linkers
  <2> QED BY <2>1, <2>2
<1>13. IndexTypeOK'
  <2>1. sessions' \in [Sessions -> SessionRows]
    BY <1>6 DEF Goes, RowsInv, IndexTypeOK
  <2> QED BY <2>1 DEF RowsInv, IndexTypeOK
<1>14. \A v \in Sessions : Shape(sessions[v])'
  <2>1. Shape(x)'
    BY <1>4, <1>5, <1>6 DEF Shape, Fits, Linkers
  <2> QED BY <2>1, ShapesStand
<1>15. \A g \in Fragments : FragmentOK(g)'
  BY <1>4, <1>6, <1>12, GoesOn
<1> QED BY <1>13, <1>14, <1>15 DEF RowsInv

\* What a session has to do once it has looked: the source link to each candidate,
\* both ways, among others.
Finds(s, C, todo) ==
    /\ NewestOf(sessions[s].f, C)
    /\ \A g \in C : {<<sessions[s].f, g, "source">>, <<g, sessions[s].f, "source">>} \subseteq todo
    /\ Goes(s, [sessions[s] EXCEPT !.step = "linking", !.todo = todo])
    /\ sessions[s].step = "candidates"
    /\ UNCHANGED <<text, rows, links, memory, disturbed, retitled, captures, edits, faults>>

LEMMA WhatIsFound ==
    ASSUME IndexAssumption, RowsInv, NEW s \in Sessions, FindCandidates(s)
    PROVE  \E C \in SUBSET Fragments, todo \in SUBSET LinkRows : Finds(s, C, todo)
<1>1. PICK w : w = sessions[s]
  OBVIOUS
<1>2. PICK C \in SUBSET Fragments : NewestOf(w.f, C) /\ Looks(s, C)
  BY <1>1 DEF FindCandidates
<1>3. PICK rungs \in [C -> 1..MaxRungs] :
          Goes(s, [w EXCEPT !.step = "linking", !.todo = UNION {Earned(w.f, g, rungs[g]) : g \in C}])
  BY <1>1, <1>2 DEF Looks
<1>4. /\ w.step = "candidates"
      /\ UNCHANGED <<text, rows, links, memory, disturbed, retitled, captures, edits, faults>>
  BY <1>1, <1>2 DEF Looks
<1>5. PICK todo : todo = UNION {Earned(w.f, g, rungs[g]) : g \in C}
  OBVIOUS
<1>6. w.f \in Fragments
  BY <1>1, <1>4, AtWork
<1>7. ASSUME NEW g \in C
      PROVE  /\ Earned(w.f, g, rungs[g]) \subseteq LinkRows
             /\ {<<w.f, g, "source">>, <<g, w.f, "source">>} \subseteq Earned(w.f, g, rungs[g])
  <2>1. MaxRungs \in 1..Len(Kinds) /\ Len(Kinds) = 4 /\ Kinds[1] = "source"
    BY DEF IndexAssumption, Kinds
  <2>2. PICK n \in 1..Len(Kinds) : n = rungs[g]
    BY <1>3, <2>1
  <2>3. 1 \in 1..n
    BY <2>1, <2>2
  <2>4. {<<w.f, g, "source">>, <<g, w.f, "source">>} \subseteq Earned(w.f, g, n)
    BY <2>1, <2>3 DEF Earned
  <2> QED BY <1>2, <1>6, <2>2, <2>4, EarnedRows
<1>8. \A g \in C : {<<w.f, g, "source">>, <<g, w.f, "source">>} \subseteq todo
  BY <1>5, <1>7
<1>9. todo \in SUBSET LinkRows
  BY <1>5, <1>7
<1>10. Goes(s, [w EXCEPT !.step = "linking", !.todo = todo])
  BY <1>3, <1>5
<1>11. Finds(s, C, todo)
  BY <1>1, <1>2, <1>4, <1>8, <1>10 DEF Finds
<1> QED BY <1>2, <1>9, <1>11

LEMMA CandidatesFound ==
    ASSUME IndexAssumption, RowsInv, NEW s \in Sessions, FindCandidates(s)
    PROVE  RowsInv'
<1>1. PICK w : w = sessions[s]
  OBVIOUS
<1> PICK C \in SUBSET Fragments, todo \in SUBSET LinkRows : Finds(s, C, todo)
  BY WhatIsFound
<1>2. /\ w.step = "candidates" /\ Goes(s, [w EXCEPT !.step = "linking", !.todo = todo])
      /\ UNCHANGED <<text, rows, links, memory, disturbed, retitled, captures, edits, faults>>
  BY <1>1 DEF Finds
<1>3. PICK x : x = [[w EXCEPT !.step = "linking"] EXCEPT !.todo = todo]
  OBVIOUS
<1>4. Goes(s, x) /\ links' \subseteq LinkRows
  BY <1>2, <1>3 DEF RowsInv, IndexTypeOK
<1> QED BY <1>1, <1>2, <1>3, <1>4, Continues

LEMMA Linked ==
    ASSUME IndexAssumption, RowsInv, NEW s \in Sessions, Link(s)
    PROVE  RowsInv'
<1>1. PICK w : w = sessions[s]
  OBVIOUS
<1>2. PICK l \in w.todo : links' = links \cup {l} /\ Goes(s, [w EXCEPT !.todo = @ \ {l}])
  BY <1>1 DEF Link
<1>3. /\ w.step = "linking"
      /\ UNCHANGED <<text, rows, memory, disturbed, retitled, captures, edits, faults>>
  BY <1>1 DEF Link
<1>4. w \in SessionRows /\ w.todo \in SUBSET LinkRows /\ links \subseteq LinkRows
  BY <1>1, <1>3, AtWork DEF SessionRows, RowsInv, IndexTypeOK
<1>5. PICK todo : todo = w.todo \ {l}
  OBVIOUS
<1>6. PICK x : x = [[w EXCEPT !.step = "linking"] EXCEPT !.todo = todo]
  OBVIOUS
<1>7. x = [w EXCEPT !.todo = @ \ {l}]
  BY <1>3, <1>4, <1>5, <1>6 DEF SessionRows
<1>8. todo \in SUBSET LinkRows /\ links' \subseteq LinkRows
  BY <1>2, <1>4, <1>5
<1> QED BY <1>1, <1>2, <1>3, <1>6, <1>7, <1>8, Continues

LEMMA MemoryWritten ==
    ASSUME IndexAssumption, RowsInv, NEW s \in Sessions, Remember(s)
    PROVE  RowsInv'
<1>1. PICK w : w = sessions[s]
  OBVIOUS
<1>2. /\ w.step = "linking" /\ memory' = [memory EXCEPT ![w.f] = w.text]
      /\ UNCHANGED <<text, rows, links, captures, edits, faults>>
  BY <1>1 DEF Remember
<1>3. PICK f : f = w.f /\ f \in Fragments /\ s \in On(f) /\ Exists(f)
  BY <1>1, <1>2, AtWork
<1>4. /\ w \in SessionRows /\ w.kind \in {"pass", "edit"} /\ w.text \in Texts
      /\ (w.alone => MineOK(s)) /\ text[f] \in Texts
  BY <1>1, <1>2, <1>3, AtWork DEF Shape, Fits, Linkers
<1>5. /\ memory' \in [Fragments -> Texts \cup {NoText}] /\ memory'[f] = w.text
      /\ \A g \in Fragments : g # f => memory'[g] = memory[g]
  BY <1>2, <1>3, <1>4 DEF RowsInv, IndexTypeOK
<1>6. sessions \in [Sessions -> SessionRows] /\ disturbed \subseteq Fragments /\ retitled \subseteq Fragments
  BY DEF RowsInv, IndexTypeOK
<1>7. CASE w.kind = "pass"
  <2>1. /\ Goes(s, Resting)
        /\ disturbed' = (IF w.alone THEN disturbed \ {f} ELSE disturbed)
        /\ retitled' = (IF text[f] = w.text THEN retitled \ {f} ELSE retitled)
    BY <1>1, <1>3, <1>7 DEF Remember
  <2>2. ASSUME w.alone PROVE Stands(f)'
    <3>1. /\ text[f] = w.text /\ Directed(f, rows[f])
          /\ OfKind(rows[f], "tool") = EntitiesOf("tool", ToolsOf[text[f]])
      BY <1>1, <1>2, <1>3, <1>4, <1>7, <2>2 DEF MineOK
    <3> QED BY <1>2, <1>5, <3>1 DEF Stands, Directed
  <2>3. IndexTypeOK'
    <3>1. sessions' \in [Sessions -> SessionRows]
      BY <1>6, <2>1, RestingRow DEF Goes
    <3> QED BY <1>2, <1>5, <1>6, <2>1, <3>1 DEF RowsInv, IndexTypeOK
  <2>4. \A v \in Sessions : Shape(sessions[v])'
    <3>1. Shape(Resting)'
      BY RestingRow DEF Shape
    <3> QED BY <1>2, <2>1, <3>1, ShapesStand
  <2>5. \A g \in Fragments : FragmentOK(g)'
    <3>1. \A g \in Fragments : g # f =>
              (g \in disturbed' <=> g \in disturbed) /\ (g \in retitled' <=> g \in retitled)
      BY <2>1
    <3> QED BY <1>1, <1>2, <1>3, <1>5, <2>1, <2>2, <3>1, GoesOn, RestingRow
  <2> QED BY <2>3, <2>4, <2>5 DEF RowsInv
<1>8. CASE w.kind = "edit"
  <2>0. PICK x : x = [w EXCEPT !.step = "restoring"]
    OBVIOUS
  <2>1. Goes(s, x) /\ UNCHANGED <<disturbed, retitled>>
    BY <1>1, <1>8, <2>0 DEF Remember
  <2>2. /\ x \in SessionRows /\ x.step = "restoring" /\ x.f = f /\ x.alone = w.alone
        /\ x.kind = "edit" /\ x.rows = w.rows
    BY <1>3, <1>4, <1>8, <2>0 DEF SessionRows
  <2>3. sessions'[s] = x
    BY <1>6, <2>1 DEF Goes
  <2>4. ASSUME w.alone PROVE MineOK(s)'
    <3>1. f \notin disturbed =>
             /\ Directed(f, rows[f]) /\ Directed(f, w.rows) /\ w.text.content = text[f].content
             /\ f \in retitled
      BY <1>1, <1>2, <1>3, <1>4, <1>8, <2>4 DEF MineOK, Linkers
    <3> QED BY <1>2, <1>5, <2>1, <2>2, <2>3, <3>1 DEF MineOK, Directed, Linkers
  <2>5. IndexTypeOK'
    <3>1. sessions' \in [Sessions -> SessionRows]
      BY <1>6, <2>1, <2>2 DEF Goes
    <3> QED BY <1>2, <1>5, <1>6, <2>1, <3>1 DEF RowsInv, IndexTypeOK
  <2>6. \A v \in Sessions : Shape(sessions[v])'
    <3>1. Shape(x)'
      BY <1>2, <1>3, <1>4, <2>2 DEF Shape, Fits, Linkers
    <3> QED BY <1>2, <2>1, <3>1, ShapesStand
  <2>7. \A g \in Fragments : FragmentOK(g)'
    BY <1>1, <1>2, <1>3, <1>5, <2>1, <2>2, <2>4, GoesOn
  <2> QED BY <2>5, <2>6, <2>7 DEF RowsInv
<1> QED BY <1>4, <1>7, <1>8

LEMMA TitleWritten ==
    ASSUME IndexAssumption, RowsInv, NEW s \in Sessions, WriteTitle(s)
    PROVE  RowsInv'
<1>1. PICK w : w = sessions[s]
  OBVIOUS
<1>2. PICK title, step : /\ title = IF w.kind = "edit" THEN "edited" ELSE "reviewed"
                         /\ step = IF w.kind = "edit" THEN "entities" ELSE "restoring"
  OBVIOUS
<1>3. PICK t : t = [text[w.f] EXCEPT !.title = title]
  OBVIOUS
<1>4. PICK x : x = [[w EXCEPT !.text = t] EXCEPT !.step = step]
  OBVIOUS
<1>5. /\ w.step \in {"editing", "reviewing"}
      /\ text' = [text EXCEPT ![w.f] = t]
      /\ retitled' = retitled \cup {w.f}
      /\ Goes(s, x)
      /\ UNCHANGED <<rows, links, memory, disturbed, captures, edits, faults>>
  BY <1>1, <1>2, <1>3, <1>4 DEF WriteTitle
<1>6. PICK f : f = w.f /\ f \in Fragments /\ s \in On(f)
  BY <1>1, <1>5, AtWork
<1>7. /\ w \in SessionRows /\ (w.alone => MineOK(s)) /\ text[f] \in Texts
      /\ (w.step = "editing" /\ w.kind = "edit") \/ (w.step = "reviewing" /\ w.kind = "review")
  BY <1>1, <1>5, <1>6, AtWork DEF Shape, Fits, Linkers
<1>8. t \in Texts /\ t.content = text[f].content
  BY <1>2, <1>3, <1>6, <1>7 DEF Texts, Titles
<1>9. /\ text' \in [Fragments -> Texts \cup {NoText}] /\ text'[f] = t
      /\ \A g \in Fragments : g # f => text'[g] = text[g]
  BY <1>5, <1>6, <1>8 DEF RowsInv, IndexTypeOK
<1>10. /\ x \in SessionRows /\ x.step = step /\ x.f = f /\ x.alone = w.alone
       /\ x.kind = w.kind /\ x.text = t /\ x.rows = w.rows
  BY <1>2, <1>4, <1>6, <1>7, <1>8 DEF SessionRows
<1>11. sessions'[s] = x
  BY <1>5 DEF Goes, RowsInv, IndexTypeOK
<1>12. ASSUME w.alone PROVE MineOK(s)'
  <2>1. f \notin disturbed =>
            Directed(f, rows[f]) /\ Directed(f, w.rows) /\ memory[f].content = text[f].content
    BY <1>1, <1>6, <1>7, <1>12 DEF MineOK
  <2>2. f \notin disturbed => Directed(f, rows[f])' /\ Directed(f, w.rows)'
    BY <1>5, <1>8, <1>9, <2>1 DEF Directed
  <2>3. f \in retitled' /\ x.kind # "pass"
    BY <1>5, <1>6, <1>7, <1>10
  <2> QED BY <1>5, <1>8, <1>9, <1>10, <1>11, <2>1, <2>2, <2>3 DEF MineOK
<1>13. IndexTypeOK'
  <2>1. sessions' \in [Sessions -> SessionRows]
    BY <1>5, <1>10 DEF Goes, RowsInv, IndexTypeOK
  <2>2. retitled' \subseteq Fragments
    BY <1>5, <1>6 DEF RowsInv, IndexTypeOK
  <2> QED BY <1>5, <1>9, <2>1, <2>2 DEF RowsInv, IndexTypeOK
<1>14. \A v \in Sessions : Shape(sessions[v])'
  <2>1. Shape(x)'
    BY <1>2, <1>6, <1>7, <1>8, <1>9, <1>10 DEF Shape, Fits, Linkers
  <2> QED BY <1>5, <1>8, <1>9, <2>1, ShapesStand
<1>15. \A g \in Fragments : FragmentOK(g)'
  <2>1. x.step # "rest" /\ \A g \in Fragments : g # f => (g \in retitled' <=> g \in retitled)
    BY <1>2, <1>5, <1>6, <1>10
  <2> QED BY <1>1, <1>5, <1>6, <1>9, <1>10, <1>12, <2>1, GoesOn
<1> QED BY <1>13, <1>14, <1>15 DEF RowsInv

LEMMA Retitled ==
    ASSUME RowsInv, NEW f \in Fragments, text[f] \in Texts, NEW title \in Titles, Retitle(f, title)
    PROVE  /\ text' \in [Fragments -> Texts \cup {NoText}]
           /\ text'[f] \in Texts /\ text'[f].content = text[f].content /\ text'[f].title = title
           /\ \A g \in Fragments : g # f => text'[g] = text[g]
           /\ text[f].title = title => text'[f] = text[f]
<1>1. PICK t : t = [text[f] EXCEPT !.title = title]
  OBVIOUS
<1>2. t \in Texts /\ t.content = text[f].content /\ t.title = title /\ (text[f].title = title => t = text[f])
  BY <1>1 DEF Texts
<1>3. text' = [text EXCEPT ![f] = t]
  BY <1>1 DEF Retitle
<1> QED BY <1>2, <1>3 DEF Retitle, RowsInv, IndexTypeOK

LEMMA RowsRestored ==
    ASSUME IndexAssumption, RowsInv, NEW s \in Sessions, RestoreRows(s)
    PROVE  RowsInv'
<1>1. PICK w : w = sessions[s]
  OBVIOUS
<1>2. /\ w.step = "restoring" /\ rows' = [rows EXCEPT ![w.f] = w.rows]
      /\ IF w.kind = "edit"
         THEN Retitle(w.f, "edited")
         ELSE UNCHANGED text
      /\ Goes(s, Resting)
      /\ UNCHANGED <<links, memory, disturbed, retitled, captures, edits, faults>>
  BY <1>1 DEF RestoreRows
<1>3. PICK f : f = w.f /\ f \in Fragments /\ s \in On(f)
  BY <1>1, <1>2, AtWork
<1>4. /\ w \in SessionRows /\ (w.alone => MineOK(s)) /\ text[f] \in Texts /\ w.kind \in {"edit", "review"}
  BY <1>1, <1>2, <1>3, AtWork DEF Shape, Fits, Linkers
<1>5. /\ text' \in [Fragments -> Texts \cup {NoText}]
      /\ text'[f] \in Texts /\ text'[f].content = text[f].content
      /\ \A g \in Fragments : g # f => text'[g] = text[g]
  <2>1. CASE w.kind = "edit"
    BY <1>2, <1>3, <1>4, <2>1, Retitled DEF Titles, RowsInv, IndexTypeOK
  <2>2. CASE w.kind # "edit"
    BY <1>2, <1>4, <2>2 DEF RowsInv, IndexTypeOK
  <2> QED BY <2>1, <2>2
<1>6. /\ rows' \in [Fragments -> SUBSET EntityRows] /\ rows'[f] = w.rows
      /\ \A g \in Fragments : g # f => rows'[g] = rows[g]
  BY <1>2, <1>3, <1>4 DEF RowsInv, IndexTypeOK, SessionRows
<1>7. ASSUME w.alone PROVE Stands(f)'
  <2>1. f \notin disturbed =>
            Directed(f, w.rows) /\ memory[f].content = text[f].content /\ f \in retitled
    BY <1>1, <1>2, <1>3, <1>4, <1>7 DEF MineOK
  <2>2. f \notin disturbed => Directed(f, rows[f])'
    BY <1>5, <1>6, <2>1 DEF Directed
  <2> QED BY <1>2, <1>5, <2>1, <2>2 DEF Stands, Settled
<1>8. IndexTypeOK'
  <2>1. sessions' \in [Sessions -> SessionRows]
    BY <1>2, RestingRow DEF Goes, RowsInv, IndexTypeOK
  <2> QED BY <1>2, <1>5, <1>6, <2>1 DEF RowsInv, IndexTypeOK
<1>9. \A v \in Sessions : Shape(sessions[v])'
  <2>1. Shape(Resting)'
    BY RestingRow DEF Shape
  <2> QED BY <1>2, <1>5, <2>1, ShapesStand
<1>10. \A g \in Fragments : FragmentOK(g)'
  BY <1>1, <1>2, <1>3, <1>5, <1>6, <1>7, GoesOn, RestingRow
<1> QED BY <1>8, <1>9, <1>10 DEF RowsInv

LEMMA Abandoned ==
    ASSUME IndexAssumption, RowsInv, NEW s \in Sessions, Abandon(s)
    PROVE  RowsInv'
<1>1. PICK w : w = sessions[s]
  OBVIOUS
<1>2. /\ w.step # "rest" /\ faults > 0 /\ faults' = faults - 1
      /\ disturbed' = disturbed \cup {w.f}
      /\ Goes(s, Resting)
      /\ UNCHANGED <<text, rows, links, memory, retitled, captures, edits>>
  BY <1>1 DEF Abandon
<1>3. PICK f : f = w.f /\ f \in Fragments /\ s \in On(f)
  BY <1>1, <1>2, AtWork
<1>4. Stands(f)'
  BY <1>2, <1>3 DEF Stands, Settled
<1>5. IndexTypeOK'
  <2>1. sessions' \in [Sessions -> SessionRows]
    BY <1>2, RestingRow DEF Goes, RowsInv, IndexTypeOK
  <2>2. disturbed' \subseteq Fragments
    BY <1>2, <1>3 DEF RowsInv, IndexTypeOK
  <2>3. faults' \in 0..MaxFaults
    <3>1. MaxFaults \in Nat /\ faults \in 0..MaxFaults
      BY DEF IndexAssumption, RowsInv, IndexTypeOK
    <3> QED BY <1>2, <3>1
  <2> QED BY <1>2, <2>1, <2>2, <2>3 DEF RowsInv, IndexTypeOK
<1>6. \A v \in Sessions : Shape(sessions[v])'
  <2>1. Shape(Resting)'
    BY RestingRow DEF Shape
  <2> QED BY <1>2, <2>1, ShapesStand
<1>7. \A g \in Fragments : FragmentOK(g)'
  <2>1. \A g \in Fragments : g # f => (g \in disturbed' <=> g \in disturbed)
    BY <1>2, <1>3
  <2> QED BY <1>1, <1>2, <1>3, <1>4, <2>1, GoesOn, RestingRow
<1> QED BY <1>5, <1>6, <1>7 DEF RowsInv

-------------------------------------------------------------------------------
\* A session begins, alone on its fragment or not.
LEMMA Begun ==
    ASSUME IndexAssumption, RowsInv, NEW s \in Sessions, NEW f \in Fragments,
           NEW to \in SessionRows, to.step # "rest", to.f = f, Shape(to)', Begins(s, to),
           \A g \in Fragments : g # f =>
               /\ text'[g] = text[g] /\ rows'[g] = rows[g] /\ memory'[g] = memory[g]
               /\ (g \in retitled' <=> g \in retitled),
           \A g \in Fragments : text[g] \in Texts => text'[g] \in Texts,
           NEW x, x = [to EXCEPT !.alone = On(f) = {}],
           On(f) = {} /\ sessions'[s] = x => MineOK(s)'
    PROVE  /\ sessions' \in [Sessions -> SessionRows] /\ disturbed' \subseteq Fragments
           /\ \A v \in Sessions : Shape(sessions[v])'
           /\ \A g \in Fragments : FragmentOK(g)'
<1>1. /\ sessions \in [Sessions -> SessionRows] /\ disturbed \subseteq Fragments
      /\ \A v \in Sessions : Shape(sessions[v])
      /\ \A g \in Fragments : FragmentOK(g)
  BY DEF RowsInv, IndexTypeOK
<1>2. /\ sessions[s].step = "rest"
      /\ disturbed' = IF On(f) = {} THEN disturbed ELSE disturbed \cup {f}
      /\ sessions' = [v \in Sessions |->
             IF v = s THEN x
             ELSE IF v \in On(f) THEN [sessions[v] EXCEPT !.alone = FALSE] ELSE sessions[v]]
  BY DEF Begins
<1>3. /\ x \in SessionRows /\ x.step = to.step /\ x.f = f /\ x.kind = to.kind /\ x.text = to.text
      /\ x.alone = (On(f) = {})
  BY DEF SessionRows
<1>4. /\ sessions'[s] = x
      /\ \A v \in Sessions : v # s /\ v \notin On(f) => sessions'[v] = sessions[v]
  BY <1>2
<1>5. \A v \in On(f) : /\ v \in Sessions /\ v # s
                       /\ sessions'[v] \in SessionRows /\ sessions'[v].step = sessions[v].step
                       /\ sessions'[v].f = f /\ sessions'[v].kind = sessions[v].kind
                       /\ sessions'[v].text = sessions[v].text /\ sessions'[v].alone = FALSE
  <2> SUFFICES ASSUME NEW v \in On(f)
               PROVE  /\ v \in Sessions /\ v # s
                      /\ sessions'[v] \in SessionRows /\ sessions'[v].step = sessions[v].step
                      /\ sessions'[v].f = f /\ sessions'[v].kind = sessions[v].kind
                      /\ sessions'[v].text = sessions[v].text /\ sessions'[v].alone = FALSE
    OBVIOUS
  <2>1. v \in Sessions /\ v # s /\ sessions[v].f = f /\ sessions[v] \in SessionRows
    BY <1>1, <1>2 DEF On
  <2>2. sessions'[v] = [sessions[v] EXCEPT !.alone = FALSE]
    BY <1>2, <2>1
  <2> QED BY <2>1, <2>2 DEF SessionRows
<1>6. \A v \in Sessions : sessions'[v] \in SessionRows
  BY <1>1, <1>3, <1>4, <1>5
<1>7. sessions' \in [Sessions -> SessionRows]
  BY <1>2, <1>6
<1>8. disturbed' \subseteq Fragments
  BY <1>1, <1>2
<1>9. ASSUME NEW v \in Sessions PROVE Shape(sessions[v])'
  <2>1. CASE v = s
    BY <1>3, <1>4, <2>1 DEF Shape
  <2>2. CASE v \in On(f)
    BY <1>1, <1>5, <2>2 DEF Shape
  <2>3. CASE v # s /\ v \notin On(f)
    BY <1>1, <1>4, <2>3 DEF Shape
  <2> QED BY <2>1, <2>2, <2>3
<1>10. ASSUME NEW g \in Fragments, g # f PROVE FragmentOK(g)'
  <2>1. On(g)' = On(g)
    BY <1>2, <1>3, <1>4, <1>5, <1>10 DEF On
  <2>2. \A v \in On(g) : sessions'[v] = sessions[v]
    BY <1>2, <1>4, <1>10 DEF On
  <2>3. g \in disturbed' <=> g \in disturbed
    BY <1>2, <1>10
  <2> QED BY <1>1, <1>10, <2>1, <2>2, <2>3, Elsewhere DEF Untouched
<1>11. On(f)' = On(f) \cup {s}
  BY <1>2, <1>3, <1>4, <1>5 DEF On
<1>12. FragmentOK(f)'
  <2>1. CASE On(f) = {}
    <3>1. On(f)' = {s} /\ sessions'[s].alone
      BY <1>3, <1>4, <1>11, <2>1
    <3>2. MineOK(s)'
      BY <1>4, <2>1
    <3> QED BY <3>1, <3>2 DEF FragmentOK, Stands, Settled
  <2>2. CASE On(f) # {}
    <3>1. f \in disturbed'
      BY <1>2, <2>2
    <3>2. ~sessions'[s].alone
      BY <1>3, <1>4, <2>2
    <3>3. \A v \in On(f) : ~sessions'[v].alone
      BY <1>5
    <3>4. \A v \in On(f)' : ~sessions'[v].alone
      BY <1>11, <3>2, <3>3
    <3> QED BY <3>1, <3>4, CrowdStands
  <2> QED BY <2>1, <2>2
<1> QED BY <1>7, <1>8, <1>9, <1>10, <1>12

LEMMA Accepted ==
    ASSUME IndexAssumption, RowsInv, NEW s \in Sessions, NEW f \in Fragments, NEW m \in Materials,
           Accept(s, f, m)
    PROVE  RowsInv'
<1>1. PICK t : t = [content |-> m, title |-> "own"]
  OBVIOUS
<1>2. PICK to : to = [Resting EXCEPT !.step = "directives", !.f = f, !.text = t]
  OBVIOUS
<1>3. /\ captures > 0 /\ captures' = captures - 1
      /\ text' = [text EXCEPT ![f] = t] /\ Begins(s, to)
      /\ UNCHANGED <<rows, links, memory, retitled, edits, faults>>
  BY <1>1, <1>2 DEF Accept
<1>4. t \in Texts /\ t.title = "own"
  BY <1>1 DEF Texts, Titles
<1>5. /\ to \in SessionRows /\ to.step = "directives" /\ to.f = f /\ to.text = t /\ to.kind = "pass"
  BY <1>2, <1>4 DEF Resting, SessionRows, NoText
<1>6. /\ text' \in [Fragments -> Texts \cup {NoText}] /\ text'[f] = t
      /\ \A g \in Fragments : g # f => text'[g] = text[g]
  BY <1>3, <1>4 DEF RowsInv, IndexTypeOK
<1>7. Shape(to)'
  BY <1>4, <1>5, <1>6 DEF Shape, Fits, Linkers
<1>8. PICK x : x = [to EXCEPT !.alone = On(f) = {}]
  OBVIOUS
<1>9. x.step = "directives" /\ x.f = f /\ x.text = t /\ x.kind = "pass"
  BY <1>5, <1>8 DEF SessionRows
<1>10. On(f) = {} /\ sessions'[s] = x => MineOK(s)'
  BY <1>4, <1>6, <1>9 DEF MineOK
<1>11. /\ sessions' \in [Sessions -> SessionRows] /\ disturbed' \subseteq Fragments
       /\ \A v \in Sessions : Shape(sessions[v])'
       /\ \A g \in Fragments : FragmentOK(g)'
  <2>1. \A g \in Fragments : text[g] \in Texts => text'[g] \in Texts
    BY <1>4, <1>6
  <2> QED BY <1>3, <1>5, <1>6, <1>7, <1>8, <1>10, <2>1, Begun
<1>12. captures' \in 0..MaxCaptures
  <2>1. MaxCaptures \in Nat /\ captures \in 0..MaxCaptures
    BY DEF IndexAssumption, RowsInv, IndexTypeOK
  <2> QED BY <1>3, <2>1
<1>13. IndexTypeOK'
  BY <1>3, <1>6, <1>11, <1>12 DEF RowsInv, IndexTypeOK
<1> QED BY <1>11, <1>13 DEF RowsInv

LEMMA RevisionBegun ==
    ASSUME IndexAssumption, RowsInv, NEW s \in Sessions, NEW f \in Fragments,
           NEW kind, NEW step,
           (kind = "edit" /\ step = "editing") \/ (kind = "review" /\ step = "reviewing"),
           Revises(s, f, kind, step)
    PROVE  RowsInv'
<1>1. PICK to : to = [Resting EXCEPT !.step = step, !.kind = kind, !.f = f, !.rows = rows[f]]
  OBVIOUS
<1>2. /\ Exists(f) /\ edits > 0 /\ edits' = edits - 1 /\ Begins(s, to)
      /\ UNCHANGED <<text, rows, links, memory, retitled, captures, faults>>
  BY <1>1 DEF Revises
<1>3. rows[f] \in SUBSET EntityRows /\ text[f] \in Texts
  BY <1>2 DEF Exists, RowsInv, IndexTypeOK
<1>4. /\ to \in SessionRows /\ to.step = step /\ to.f = f /\ to.kind = kind /\ to.rows = rows[f]
  BY <1>1, <1>3 DEF Resting, SessionRows, NoText
<1>5. Shape(to)'
  BY <1>2, <1>3, <1>4 DEF Shape, Fits, Linkers
<1>6. PICK x : x = [to EXCEPT !.alone = On(f) = {}]
  OBVIOUS
<1>7. x.step = step /\ x.f = f /\ x.kind = kind /\ x.rows = rows[f]
  BY <1>4, <1>6 DEF SessionRows
<1>8. ASSUME On(f) = {}, sessions'[s] = x PROVE MineOK(s)'
  <2>1. disturbed' = disturbed
    BY <1>2, <1>4, <1>8 DEF Begins
  <2>2. f \notin disturbed => Directed(f, rows[f]) /\ memory[f].content = text[f].content
    BY <1>2, <1>8 DEF RowsInv, FragmentOK, Stands, Settled
  <2> QED BY <1>2, <1>7, <1>8, <2>1, <2>2 DEF MineOK, Directed, Linkers
<1>9. /\ sessions' \in [Sessions -> SessionRows] /\ disturbed' \subseteq Fragments
      /\ \A v \in Sessions : Shape(sessions[v])'
      /\ \A g \in Fragments : FragmentOK(g)'
  <2>1. to.step # "rest"
    BY <1>4
  <2> QED BY <1>2, <1>4, <1>5, <1>6, <1>8, <2>1, Begun
<1>10. edits' \in 0..MaxEdits
  <2>1. MaxEdits \in Nat /\ edits \in 0..MaxEdits
    BY DEF IndexAssumption, RowsInv, IndexTypeOK
  <2> QED BY <1>2, <2>1
<1>11. IndexTypeOK'
  BY <1>2, <1>9, <1>10 DEF RowsInv, IndexTypeOK
<1> QED BY <1>9, <1>11 DEF RowsInv

LEMMA Repeated ==
    ASSUME IndexAssumption, RowsInv, NEW f \in Fragments, Repeat(f)
    PROVE  RowsInv'
<1>1. /\ Exists(f) /\ captures > 0 /\ captures' = captures - 1
      /\ Retitle(f, "own") /\ retitled' = retitled \cup {f}
      /\ UNCHANGED <<rows, links, memory, sessions, disturbed, edits, faults>>
  BY DEF Repeat
<1>2. text[f] \in Texts /\ "own" \in Titles
  BY <1>1 DEF Exists, RowsInv, IndexTypeOK, Titles
<1>3. /\ text' \in [Fragments -> Texts \cup {NoText}]
      /\ text'[f] \in Texts /\ text'[f].content = text[f].content
      /\ \A g \in Fragments : g # f => text'[g] = text[g]
      /\ text[f].title = "own" => text'[f] = text[f]
  BY <1>1, <1>2, Retitled
<1>4. captures' \in 0..MaxCaptures
  <2>1. MaxCaptures \in Nat /\ captures \in 0..MaxCaptures
    BY DEF IndexAssumption, RowsInv, IndexTypeOK
  <2> QED BY <1>1, <2>1
<1>5. IndexTypeOK'
  <2>1. retitled' \subseteq Fragments
    BY <1>1 DEF RowsInv, IndexTypeOK
  <2> QED BY <1>1, <1>3, <1>4, <2>1 DEF RowsInv, IndexTypeOK
<1>6. \A v \in Sessions : Shape(sessions[v])'
  BY <1>1, <1>3 DEF RowsInv, Shape
<1>7. ASSUME NEW g \in Fragments, g # f PROVE FragmentOK(g)'
  <2>1. On(g)' = On(g) /\ FragmentOK(g)
    BY <1>1 DEF On, RowsInv
  <2> QED BY <1>1, <1>3, <1>7, <2>1, Elsewhere DEF Untouched
<1>8. FragmentOK(f)'
  <2>1. On(f)' = On(f) /\ FragmentOK(f)
    BY <1>1 DEF On, RowsInv
  <2>2. \A S : Directed(f, S)' = Directed(f, S)
    BY <1>3 DEF Directed
  <2>3. Stands(f)'
    BY <1>1, <1>3, <2>1, <2>2 DEF FragmentOK, Stands, Settled, Directed
  <2>4. ASSUME NEW v \in On(f), MineOK(v) PROVE MineOK(v)'
    <3>1. sessions[v].f = f /\ sessions' = sessions
      BY <1>1 DEF On
    <3>2. CASE sessions[v].kind = "pass"
      <4>1. text'[f] = text[f]
        BY <1>3, <2>4, <3>1, <3>2 DEF MineOK
      <4> QED BY <1>1, <2>4, <3>1, <3>2, <4>1 DEF MineOK, Directed
    <3>3. CASE sessions[v].kind # "pass"
      BY <1>1, <1>3, <2>4, <3>1, <3>3 DEF MineOK, Directed
    <3> QED BY <3>2, <3>3
  <2> QED BY <1>1, <2>1, <2>3, <2>4 DEF FragmentOK
<1> QED BY <1>5, <1>6, <1>7, <1>8 DEF RowsInv

LEMMA IndexStarts ==
    ASSUME IndexAssumption, IndexInit
    PROVE  RowsInv
<1>1. IndexTypeOK
  <2>1. MaxCaptures \in Nat /\ MaxEdits \in Nat /\ MaxFaults \in Nat
    BY DEF IndexAssumption
  <2>2. /\ captures \in 0..MaxCaptures /\ edits \in 0..MaxEdits /\ faults \in 0..MaxFaults
        /\ sessions \in [Sessions -> SessionRows]
    BY <2>1, RestingRow DEF IndexInit
  <2> QED BY <2>2 DEF IndexInit, IndexTypeOK
<1>2. \A s \in Sessions : Shape(sessions[s]) /\ sessions[s].step = "rest"
  BY RestingRow DEF IndexInit, Shape
<1>3. \A f \in Fragments : On(f) = {} /\ ~Exists(f)
  BY <1>2 DEF On, Exists, IndexInit
<1> QED BY <1>1, <1>2, <1>3 DEF RowsInv, FragmentOK, Stands, Settled

LEMMA RowsKept ==
    ASSUME IndexAssumption, RowsInv, [IndexNext]_indexVars
    PROVE  RowsInv'
<1>1. ASSUME NEW s \in Sessions, SessionStep(s) PROVE RowsInv'
  <2>1. CASE \E f \in Fragments : BeginEdit(s, f) \/ BeginReview(s, f)
    BY <2>1, RevisionBegun DEF BeginEdit, BeginReview
  <2>2. CASE \E f \in Fragments, m \in Materials : Accept(s, f, m)
    BY <2>2, Accepted
  <2>3. CASE TagDirectives(s) \/ IndexEntities(s)
    BY <2>3, DirectivesWritten, EntitiesIndexed
  <2>4. CASE FindCandidates(s) \/ Link(s) \/ Remember(s)
    BY <2>4, CandidatesFound, Linked, MemoryWritten
  <2>5. CASE WriteTitle(s) \/ RestoreRows(s) \/ Abandon(s)
    BY <2>5, TitleWritten, RowsRestored, Abandoned
  <2> QED BY <1>1, <2>1, <2>2, <2>3, <2>4, <2>5 DEF SessionStep
<1>2. CASE \E f \in Fragments : Repeat(f)
  BY <1>2, Repeated
<1>3. CASE UNCHANGED indexVars
  <2>1. IndexTypeOK'
    BY <1>3 DEF RowsInv, IndexTypeOK, indexVars
  <2>2. \A s \in Sessions : Shape(sessions[s])'
    BY <1>3 DEF RowsInv, Shape, indexVars
  <2>3. ASSUME NEW f \in Fragments PROVE FragmentOK(f)'
    <3>1. On(f)' = On(f) /\ FragmentOK(f)
      BY <1>3 DEF On, RowsInv, indexVars
    <3> QED BY <1>3, <3>1, Elsewhere DEF Untouched, indexVars
  <2> QED BY <2>1, <2>2, <2>3 DEF RowsInv
<1> QED BY <1>1, <1>2, <1>3 DEF IndexNext

\* The rows of a fragment that is left alone are those of its text: no stage
\* undoes what another one wrote (DirectiveStage, RecallStage).
THEOREM RowsStayTrue ==
    ASSUME IndexAssumption
    PROVE  IndexSpec => []RowsFollowText
<1>1. IndexInit => RowsInv
  BY IndexStarts
<1>2. RowsInv /\ [IndexNext]_indexVars => RowsInv'
  BY RowsKept
<1>3. RowsInv => RowsFollowText
  BY DEF RowsInv, FragmentOK, Stands, Directed, RowsFollowText
<1> QED BY <1>1, <1>2, <1>3, PTL DEF IndexSpec

-------------------------------------------------------------------------------
(***************************************************************************)
(* The links of siblings.                                                  *)
(***************************************************************************)
Due(f, g) == IF Near(f, g) THEN {<<f, g, "source">>, <<g, f, "source">>} ELSE {}
Linking(s) == sessions[s].step = "linking"
Owes(s, g) == Due(sessions[s].f, g) \subseteq links \cup sessions[s].todo

\* Whoever has looked for candidates has, or still has to write, the links to those that
\* were remembered by then; and of two who are both at it, one found the other.
LinksInv ==
    /\ \A g \in Fragments : memory[g] # NoText => Exists(g)
    /\ \A f, g \in Fragments :
           f # g /\ memory[f] # NoText /\ memory[g] # NoText => Due(f, g) \subseteq links
    /\ \A s \in Sessions, g \in Fragments :
           Linking(s) /\ g # sessions[s].f /\ memory[g] # NoText => Owes(s, g)
    /\ \A s, u \in Sessions :
           Linking(s) /\ Linking(u) /\ sessions[s].f # sessions[u].f =>
               Owes(s, sessions[u].f) \/ Owes(u, sessions[s].f)

LEMMA DueBothWays ==
    ASSUME NEW f, NEW g
    PROVE  Due(f, g) = Due(g, f)
BY DEF Due, Near

\* As texts are only added, fewer siblings are among the newest.
TextsStay == \A h \in Fragments : Exists(h) => Exists(h)'

LEMMA DueShrinks ==
    ASSUME IndexAssumption, TextsStay, NEW f, NEW g
    PROVE  Due(f, g)' \subseteq Due(f, g)
<1>1. ASSUME NEW a, NEW b, Among(a, b)' PROVE Among(a, b)
  <2>1. PICK S : S = {h \in Fragments \ {a, b} : Exists(h) /\ CreatedAt[h] >= CreatedAt[b]}
    OBVIOUS
  <2>2. PICK T : T = {h \in Fragments \ {a, b} : Exists(h)' /\ CreatedAt[h] >= CreatedAt[b]}
    OBVIOUS
  <2>3. S \subseteq T /\ T \subseteq Fragments
    BY <2>1, <2>2 DEF TextsStay
  <2>4. IsFiniteSet(Fragments)
    BY DEF IndexAssumption
  <2>5. IsFiniteSet(T)
    BY <2>3, <2>4, FS_Subset
  <2>6. IsFiniteSet(S) /\ Cardinality(S) <= Cardinality(T)
    BY <2>3, <2>5, FS_Subset
  <2>7. Cardinality(S) \in Nat /\ Cardinality(T) \in Nat
    BY <2>5, <2>6, FS_CardinalityType
  <2>8. Cardinality(T) < MaxCandidates /\ MaxCandidates \in Nat
    BY <1>1, <2>2 DEF Among, IndexAssumption
  <2>9. Cardinality(S) < MaxCandidates
    BY <2>6, <2>7, <2>8
  <2> QED BY <2>1, <2>9 DEF Among
<1>2. Near(f, g)' => Near(f, g)
  BY <1>1 DEF Near
<1> QED BY <1>2 DEF Due

\* The limit leaves out only siblings to which enough others are preferred.
LEMMA NearIsFound ==
    ASSUME IndexAssumption, NEW f \in Fragments, NEW C \in SUBSET Fragments, NewestOf(f, C),
           NEW g \in Fragments, g # f, Exists(g), Among(f, g)
    PROVE  g \in C
<1> SUFFICES ASSUME g \notin C PROVE FALSE
  OBVIOUS
<1>1. PICK S : S = {h \in Fragments \ {f, g} : Exists(h) /\ CreatedAt[h] >= CreatedAt[g]}
  OBVIOUS
<1>2. /\ Cardinality(C) = MaxCandidates
      /\ \A h \in C : h # f /\ Exists(h) /\ CreatedAt[g] <= CreatedAt[h]
  BY DEF NewestOf
<1>3. \A h \in Fragments : CreatedAt[h] \in Nat
  BY DEF IndexAssumption
<1>4. C \subseteq S /\ S \subseteq Fragments
  BY <1>1, <1>2, <1>3
<1>5. IsFiniteSet(Fragments) /\ MaxCandidates \in Nat
  BY DEF IndexAssumption
<1>6. IsFiniteSet(S)
  BY <1>4, <1>5, FS_Subset
<1>7. IsFiniteSet(C) /\ Cardinality(C) <= Cardinality(S)
  BY <1>4, <1>6, FS_Subset
<1>8. Cardinality(S) \in Nat /\ Cardinality(S) < MaxCandidates
  BY <1>1, <1>6, FS_CardinalityType DEF Among
<1> QED BY <1>2, <1>5, <1>7, <1>8

\* A text that is there is only ever replaced by another.
LEMMA TextsAreKept ==
    ASSUME IndexAssumption, RowsInv, [IndexNext]_indexVars
    PROVE  TextsStay
<1>1. ASSUME NEW f \in Fragments, NEW t \in Texts, text' = [text EXCEPT ![f] = t] PROVE TextsStay
  BY <1>1, TextsExist DEF TextsStay, Exists, RowsInv, IndexTypeOK
<1>2. ASSUME NEW f \in Fragments, text[f] \in Texts, NEW title \in Titles, Retitle(f, title)
      PROVE  TextsStay
  <2>1. PICK t : t = [text[f] EXCEPT !.title = title]
    OBVIOUS
  <2>2. t \in Texts
    BY <1>2, <2>1 DEF Texts
  <2> QED BY <1>1, <1>2, <2>1, <2>2 DEF Retitle
<1>3. ASSUME text' = text PROVE TextsStay
  BY <1>3 DEF TextsStay, Exists
<1>4. ASSUME NEW s \in Sessions, SessionStep(s) PROVE TextsStay
  <2>1. CASE \E f \in Fragments : BeginEdit(s, f) \/ BeginReview(s, f)
    BY <1>3, <2>1 DEF BeginEdit, BeginReview, Revises
  <2>2. CASE \E f \in Fragments, m \in Materials : Accept(s, f, m)
    <3>1. PICK f \in Fragments, m \in Materials : Accept(s, f, m)
      BY <2>2
    <3>2. PICK t : t = [content |-> m, title |-> "own"]
      OBVIOUS
    <3>3. t \in Texts /\ text' = [text EXCEPT ![f] = t]
      BY <3>1, <3>2 DEF Accept, Texts, Titles
    <3> QED BY <1>1, <3>3
  <2>3. CASE TagDirectives(s) \/ IndexEntities(s) \/ FindCandidates(s) \/ Link(s) \/ Remember(s) \/ Abandon(s)
    BY <1>3, <2>3 DEF TagDirectives, IndexEntities, FindCandidates, Looks, Link, Remember, Abandon
  <2>4. CASE WriteTitle(s)
    <3>1. PICK w, title : /\ w = sessions[s]
                          /\ title = IF w.kind = "edit" THEN "edited" ELSE "reviewed"
      OBVIOUS
    <3>2. PICK t : t = [text[w.f] EXCEPT !.title = title]
      OBVIOUS
    <3>3. w.step \in {"editing", "reviewing"} /\ text' = [text EXCEPT ![w.f] = t]
      BY <2>4, <3>1, <3>2 DEF WriteTitle
    <3>4. w.f \in Fragments /\ text[w.f] \in Texts
      BY <3>1, <3>3, AtWork
    <3>5. t \in Texts
      BY <3>1, <3>2, <3>4 DEF Texts, Titles
    <3> QED BY <1>1, <3>3, <3>4, <3>5
  <2>5. CASE RestoreRows(s)
    <3>1. PICK w : w = sessions[s]
      OBVIOUS
    <3>2. w.step = "restoring" /\ (Retitle(w.f, "edited") \/ text' = text)
      BY <2>5, <3>1 DEF RestoreRows
    <3>3. w.f \in Fragments /\ text[w.f] \in Texts /\ "edited" \in Titles
      BY <3>1, <3>2, AtWork DEF Titles
    <3> QED BY <1>2, <1>3, <3>2, <3>3
  <2> QED BY <1>4, <2>1, <2>2, <2>3, <2>4, <2>5 DEF SessionStep
<1>5. ASSUME NEW f \in Fragments, Repeat(f) PROVE TextsStay
  <2>1. text[f] \in Texts /\ "own" \in Titles /\ Retitle(f, "own")
    BY <1>5 DEF Repeat, Exists, RowsInv, IndexTypeOK, Titles
  <2> QED BY <1>2, <2>1
<1>6. CASE UNCHANGED indexVars
  BY <1>3, <1>6 DEF indexVars
<1> QED BY <1>4, <1>5, <1>6 DEF IndexNext

\* Steps after which nobody owes more than before.
LEMMA LinksStand ==
    ASSUME IndexAssumption, LinksInv, TextsStay, links \subseteq links',
           \A g \in Fragments : memory'[g] # NoText => memory[g] # NoText,
           \A s \in Sessions : sessions'[s].step = "linking" =>
               /\ sessions[s].step = "linking" /\ sessions'[s].f = sessions[s].f
               /\ links \cup sessions[s].todo \subseteq links' \cup sessions'[s].todo
    PROVE  LinksInv'
<1>1. \A g \in Fragments : (memory[g] # NoText => Exists(g))'
  BY DEF LinksInv, TextsStay
<1>2. ASSUME NEW f \in Fragments, NEW g \in Fragments, f # g, memory'[f] # NoText, memory'[g] # NoText
      PROVE  Due(f, g)' \subseteq links'
  <2>1. Due(f, g) \subseteq links
    BY <1>2 DEF LinksInv
  <2> QED BY <2>1, DueShrinks
<1>3. ASSUME NEW s \in Sessions, NEW g, Linking(s)'
      PROVE  Linking(s) /\ sessions'[s].f = sessions[s].f /\ (Owes(s, g) => Owes(s, g)')
  <2>1. /\ Linking(s) /\ sessions'[s].f = sessions[s].f
        /\ links \cup sessions[s].todo \subseteq links' \cup sessions'[s].todo
    BY <1>3 DEF Linking
  <2>2. PICK f : f = sessions[s].f /\ f = sessions'[s].f
    BY <2>1
  <2>3. Due(f, g)' \subseteq Due(f, g)
    BY DueShrinks
  <2>4. Owes(s, g) => Due(f, g)' \subseteq links' \cup sessions'[s].todo
    BY <2>1, <2>2, <2>3 DEF Owes
  <2> QED BY <2>1, <2>2, <2>4 DEF Owes
<1>4. ASSUME NEW s \in Sessions, NEW g \in Fragments, Linking(s)', g # sessions'[s].f, memory'[g] # NoText
      PROVE  Owes(s, g)'
  <2>1. Linking(s) /\ sessions'[s].f = sessions[s].f /\ (Owes(s, g) => Owes(s, g)')
    BY <1>3, <1>4
  <2> QED BY <1>4, <2>1 DEF LinksInv
<1>5. ASSUME NEW s \in Sessions, NEW u \in Sessions,
             Linking(s)', Linking(u)', sessions'[s].f # sessions'[u].f
      PROVE  Owes(s, sessions[u].f)' \/ Owes(u, sessions[s].f)'
  <2>1. PICK f, g : f = sessions'[s].f /\ g = sessions'[u].f
    OBVIOUS
  <2>2. /\ Linking(s) /\ Linking(u) /\ f = sessions[s].f /\ g = sessions[u].f
        /\ (Owes(s, g) => Owes(s, g)') /\ (Owes(u, f) => Owes(u, f)')
    BY <1>3, <1>5, <2>1
  <2>3. Owes(s, g) \/ Owes(u, f)
    BY <1>5, <2>1, <2>2 DEF LinksInv
  <2> QED BY <2>1, <2>2, <2>3 DEF Owes
<1> QED BY <1>1, <1>2, <1>4, <1>5 DEF LinksInv

LEMMA LinksGoOn ==
    ASSUME IndexAssumption, RowsInv, LinksInv, TextsStay, NEW s \in Sessions, NEW w, w = sessions[s],
           NEW x, Goes(s, x), memory' = memory, links \subseteq links',
           x.step = "linking" =>
               w.step = "linking" /\ x.f = w.f /\ links \cup w.todo \subseteq links' \cup x.todo
    PROVE  LinksInv'
<1>1. sessions'[s] = x /\ \A v \in Sessions : v # s => sessions'[v] = sessions[v]
  BY DEF Goes, RowsInv, IndexTypeOK
<1>2. ASSUME NEW v \in Sessions, sessions'[v].step = "linking"
      PROVE  /\ sessions[v].step = "linking" /\ sessions'[v].f = sessions[v].f
             /\ links \cup sessions[v].todo \subseteq links' \cup sessions'[v].todo
  <2>1. CASE v = s
    BY <1>1, <1>2, <2>1
  <2>2. CASE v # s
    BY <1>1, <1>2, <2>2
  <2> QED BY <2>1, <2>2
<1> QED BY <1>2, LinksStand

LEMMA LinksBegun ==
    ASSUME IndexAssumption, RowsInv, LinksInv, TextsStay, NEW s \in Sessions,
           NEW to \in SessionRows, to.step # "linking", Begins(s, to), memory' = memory, links' = links
    PROVE  LinksInv'
<1>1. ASSUME NEW v \in Sessions, sessions'[v].step = "linking"
      PROVE  /\ sessions[v].step = "linking" /\ sessions'[v].f = sessions[v].f
             /\ links \cup sessions[v].todo \subseteq links' \cup sessions'[v].todo
  <2>1. CASE v = s
    <3>1. \E b \in BOOLEAN : sessions'[s] = [to EXCEPT !.alone = b]
      BY DEF Begins
    <3> QED BY <1>1, <2>1, <3>1 DEF SessionRows
  <2>2. CASE v # s
    <3>1. sessions'[v] = [sessions[v] EXCEPT !.alone = FALSE] \/ sessions'[v] = sessions[v]
      BY <2>2 DEF Begins
    <3>2. sessions[v] \in SessionRows
      BY DEF RowsInv, IndexTypeOK
    <3> QED BY <1>1, <3>1, <3>2 DEF SessionRows
  <2> QED BY <2>1, <2>2
<1> QED BY <1>1, LinksStand

LEMMA LinksOfBeginnings ==
    ASSUME IndexAssumption, RowsInv, LinksInv, TextsStay, NEW s \in Sessions, NEW f \in Fragments,
           \/ BeginEdit(s, f) \/ BeginReview(s, f)
           \/ \E m \in Materials : Accept(s, f, m)
    PROVE  LinksInv'
<1>1. CASE BeginEdit(s, f) \/ BeginReview(s, f)
  <2>1. PICK kind \in {"edit", "review"}, step \in {"editing", "reviewing"} : Revises(s, f, kind, step)
    BY <1>1 DEF BeginEdit, BeginReview
  <2>2. PICK to : to = [Resting EXCEPT !.step = step, !.kind = kind, !.f = f, !.rows = rows[f]]
    OBVIOUS
  <2>3. Begins(s, to) /\ memory' = memory /\ links' = links
    BY <2>1, <2>2 DEF Revises
  <2>4. rows[f] \in SUBSET EntityRows
    BY DEF RowsInv, IndexTypeOK
  <2>5. to \in SessionRows /\ to.step # "linking"
    BY <2>2, <2>4 DEF Resting, SessionRows, NoText
  <2> QED BY <2>3, <2>5, LinksBegun
<1>2. ASSUME NEW m \in Materials, Accept(s, f, m) PROVE LinksInv'
  <2>1. PICK t : t = [content |-> m, title |-> "own"]
    OBVIOUS
  <2>2. PICK to : to = [Resting EXCEPT !.step = "directives", !.f = f, !.text = t]
    OBVIOUS
  <2>3. Begins(s, to) /\ memory' = memory /\ links' = links
    BY <1>2, <2>1, <2>2 DEF Accept
  <2>4. t \in Texts
    BY <2>1 DEF Texts, Titles
  <2>5. to \in SessionRows /\ to.step # "linking"
    BY <2>2, <2>4 DEF Resting, SessionRows, NoText
  <2> QED BY <2>3, <2>5, LinksBegun
<1> QED BY <1>1, <1>2

LEMMA LinksOfStages ==
    ASSUME IndexAssumption, RowsInv, LinksInv, TextsStay, NEW s \in Sessions,
           \/ TagDirectives(s) \/ IndexEntities(s) \/ Link(s)
           \/ WriteTitle(s) \/ RestoreRows(s) \/ Abandon(s)
    PROVE  LinksInv'
<1>1. PICK w : w = sessions[s]
  OBVIOUS
<1>2. sessions[s].step # "rest"
  BY DEF TagDirectives, IndexEntities, Link, WriteTitle, RestoreRows, Abandon
<1>3. w \in SessionRows
  BY <1>1, <1>2, AtWork
<1>4. CASE TagDirectives(s)
  <2>1. PICK x : x = [w EXCEPT !.step = "entities"]
    OBVIOUS
  <2>2. Goes(s, x) /\ UNCHANGED <<memory, links>>
    BY <1>1, <1>4, <2>1 DEF TagDirectives
  <2>3. x.step # "linking"
    BY <1>3, <2>1 DEF SessionRows
  <2> QED BY <1>1, <2>2, <2>3, LinksGoOn
<1>5. CASE IndexEntities(s)
  <2>1. PICK x : x = [w EXCEPT !.step = "candidates"]
    OBVIOUS
  <2>2. Goes(s, x) /\ UNCHANGED <<memory, links>>
    BY <1>1, <1>5, <2>1 DEF IndexEntities
  <2>3. x.step # "linking"
    BY <1>3, <2>1 DEF SessionRows
  <2> QED BY <1>1, <2>2, <2>3, LinksGoOn
<1>6. CASE Link(s)
  <2>1. PICK l \in w.todo : links' = links \cup {l} /\ Goes(s, [w EXCEPT !.todo = @ \ {l}])
    BY <1>1, <1>6 DEF Link
  <2>2. PICK x : x = [w EXCEPT !.todo = @ \ {l}]
    OBVIOUS
  <2>3. Goes(s, x) /\ w.step = "linking" /\ memory' = memory
    BY <1>1, <1>6, <2>1, <2>2 DEF Link
  <2>4. x.f = w.f /\ x.todo = w.todo \ {l}
    BY <1>3, <2>2, <2>3 DEF SessionRows
  <2>5. links \cup w.todo \subseteq links' \cup x.todo /\ links \subseteq links'
    BY <2>1, <2>4
  <2> QED BY <1>1, <2>3, <2>4, <2>5, LinksGoOn
<1>7. CASE WriteTitle(s)
  <2>1. PICK t, step : step \in {"entities", "restoring"} /\ Goes(s, [w EXCEPT !.text = t, !.step = step])
    <3>1. PICK t : t = [text[w.f] EXCEPT !.title = IF w.kind = "edit" THEN "edited" ELSE "reviewed"]
      OBVIOUS
    <3>2. Goes(s, [w EXCEPT !.text = t, !.step = IF w.kind = "edit" THEN "entities" ELSE "restoring"])
      BY <1>1, <1>7, <3>1 DEF WriteTitle
    <3> QED BY <3>2
  <2>2. PICK x : x = [w EXCEPT !.text = t, !.step = step]
    OBVIOUS
  <2>3. x.step # "linking"
    BY <1>3, <2>1, <2>2 DEF SessionRows
  <2>4. UNCHANGED <<memory, links>>
    BY <1>7 DEF WriteTitle
  <2> QED BY <1>1, <2>1, <2>2, <2>3, <2>4, LinksGoOn
<1>8. CASE RestoreRows(s) \/ Abandon(s)
  <2>1. Goes(s, Resting) /\ UNCHANGED <<memory, links>>
    BY <1>8 DEF RestoreRows, Abandon
  <2>2. Resting.step # "linking"
    BY DEF Resting
  <2> QED BY <1>1, <2>1, <2>2, LinksGoOn
<1> QED BY <1>4, <1>5, <1>6, <1>7, <1>8

\* Who looks for candidates finds every fragment that is near and has come by then.
LEMMA LinksOfCandidates ==
    ASSUME IndexAssumption, RowsInv, LinksInv, NEW s \in Sessions, FindCandidates(s)
    PROVE  LinksInv'
<1>1. PICK w : w = sessions[s]
  OBVIOUS
<1> PICK C \in SUBSET Fragments, todo \in SUBSET LinkRows : Finds(s, C, todo)
  BY WhatIsFound
<1>2. /\ NewestOf(w.f, C)
      /\ \A g \in C : {<<w.f, g, "source">>, <<g, w.f, "source">>} \subseteq todo
      /\ Goes(s, [w EXCEPT !.step = "linking", !.todo = todo])
      /\ w.step = "candidates"
      /\ UNCHANGED <<text, links, memory>>
  BY <1>1 DEF Finds
<1>3. PICK f : f = w.f /\ f \in Fragments /\ w \in SessionRows
  BY <1>1, <1>2, AtWork
<1>4. PICK x : x = [w EXCEPT !.step = "linking", !.todo = todo]
  OBVIOUS
<1>5. x.step = "linking" /\ x.f = f /\ x.todo = todo
  BY <1>3, <1>4 DEF SessionRows
<1>6. sessions'[s] = x /\ \A v \in Sessions : v # s => sessions'[v] = sessions[v]
  BY <1>2, <1>4 DEF Goes, RowsInv, IndexTypeOK
<1>7. \A g, h : Due(g, h)' = Due(g, h)
  BY <1>2 DEF Due, Near, Among, Exists
<1>8. ASSUME NEW g \in Fragments, g # f, Exists(g) PROVE Owes(s, g)'
  <2>1. Near(f, g) => g \in C
    BY <1>2, <1>3, <1>8, NearIsFound DEF Near
  <2>2. Due(f, g) \subseteq todo
    BY <1>2, <1>3, <2>1 DEF Due
  <2>3. Due(f, g)' \subseteq sessions'[s].todo /\ sessions'[s].f = f
    BY <1>5, <1>6, <1>7, <2>2
  <2> QED BY <2>3 DEF Owes
<1>9. ASSUME NEW v \in Sessions, NEW g, v # s, Owes(v, g) PROVE Owes(v, g)'
  <2>1. PICK h : h = sessions[v].f /\ h = sessions'[v].f
    BY <1>6, <1>9
  <2>2. Due(h, g)' \subseteq links' \cup sessions'[v].todo
    BY <1>2, <1>6, <1>7, <1>9, <2>1 DEF Owes
  <2> QED BY <2>1, <2>2 DEF Owes
<1>10. ASSUME NEW v \in Sessions, Linking(v)', v # s
       PROVE  /\ Linking(v) /\ sessions'[v].f = sessions[v].f
              /\ sessions[v].f \in Fragments /\ Exists(sessions[v].f)
  <2>1. sessions[v].step = "linking" /\ sessions'[v] = sessions[v]
    BY <1>6, <1>10 DEF Linking
  <2> QED BY <2>1, AtWork DEF Linking
<1>11. \A g \in Fragments : (memory[g] # NoText => Exists(g))'
  BY <1>2 DEF LinksInv, Exists
<1>12. ASSUME NEW g \in Fragments, NEW h \in Fragments, g # h, memory'[g] # NoText, memory'[h] # NoText
       PROVE  Due(g, h)' \subseteq links'
  BY <1>2, <1>7, <1>12 DEF LinksInv
<1>13. ASSUME NEW v \in Sessions, NEW g \in Fragments,
              Linking(v)', g # sessions'[v].f, memory'[g] # NoText
       PROVE  Owes(v, g)'
  <2>1. memory[g] # NoText /\ Exists(g)
    BY <1>2, <1>13 DEF LinksInv
  <2>2. CASE v = s
    BY <1>5, <1>6, <1>8, <1>13, <2>1, <2>2
  <2>3. CASE v # s
    BY <1>9, <1>10, <1>13, <2>1, <2>3 DEF LinksInv
  <2> QED BY <2>2, <2>3
<1>14. ASSUME NEW v \in Sessions, NEW u \in Sessions,
              Linking(v)', Linking(u)', sessions'[v].f # sessions'[u].f
       PROVE  Owes(v, sessions[u].f)' \/ Owes(u, sessions[v].f)'
  <2>1. PICK g, h : g = sessions'[v].f /\ h = sessions'[u].f
    OBVIOUS
  <2>2. Owes(v, h)' \/ Owes(u, g)'
    <3>1. CASE v = s
      <4>1. u # s /\ g = f
        BY <1>5, <1>6, <1>14, <2>1, <3>1
      <4>2. h \in Fragments /\ Exists(h) /\ h # f
        BY <1>10, <1>14, <2>1, <4>1
      <4> QED BY <1>8, <3>1, <4>2
    <3>2. CASE u = s
      <4>1. v # s /\ h = f
        BY <1>5, <1>6, <1>14, <2>1, <3>2
      <4>2. g \in Fragments /\ Exists(g) /\ g # f
        BY <1>10, <1>14, <2>1, <4>1
      <4> QED BY <1>8, <3>2, <4>2
    <3>3. CASE v # s /\ u # s
      <4>1. Linking(v) /\ Linking(u) /\ g = sessions[v].f /\ h = sessions[u].f
        BY <1>10, <1>14, <2>1, <3>3
      <4>2. Owes(v, h) \/ Owes(u, g)
        BY <1>14, <2>1, <4>1 DEF LinksInv
      <4> QED BY <1>9, <3>3, <4>2
    <3> QED BY <3>1, <3>2, <3>3
  <2> QED BY <2>1, <2>2 DEF Owes
<1> QED BY <1>11, <1>12, <1>13, <1>14 DEF LinksInv

\* Who is done has every link it owes, and whoever is at it has those to it: of the
\* two, one found the other.
LEMMA LinksOfMemory ==
    ASSUME IndexAssumption, RowsInv, LinksInv, NEW s \in Sessions, Remember(s)
    PROVE  LinksInv'
<1>1. PICK w : w = sessions[s]
  OBVIOUS
<1>2. /\ w.step = "linking" /\ w.todo = {}
      /\ memory' = [memory EXCEPT ![w.f] = w.text] /\ UNCHANGED <<text, links>>
  BY <1>1 DEF Remember
<1>3. PICK f : f = w.f /\ f \in Fragments /\ Exists(f) /\ w \in SessionRows
  BY <1>1, <1>2, AtWork
<1>4. PICK x : Goes(s, x) /\ (x = Resting \/ x = [w EXCEPT !.step = "restoring"])
  <2>1. CASE w.kind = "pass"
    BY <1>1, <2>1 DEF Remember
  <2>2. CASE w.kind # "pass"
    BY <1>1, <2>2 DEF Remember
  <2> QED BY <2>1, <2>2
<1>5. /\ sessions'[s] = x /\ x.step # "linking"
      /\ \A v \in Sessions : v # s => sessions'[v] = sessions[v]
  BY <1>3, <1>4 DEF Goes, RowsInv, IndexTypeOK, SessionRows, Resting
<1>6. \A g \in Fragments : g # f => memory'[g] = memory[g]
  BY <1>2, <1>3 DEF RowsInv, IndexTypeOK
<1>7. \A g, h : Due(g, h)' = Due(g, h)
  BY <1>2 DEF Due, Near, Among, Exists
<1>8. ASSUME NEW g \in Fragments, g # f, memory[g] # NoText
      PROVE  Due(f, g) \subseteq links
  <2>1. Owes(s, g)
    BY <1>1, <1>2, <1>3, <1>8 DEF LinksInv, Linking
  <2> QED BY <1>1, <1>2, <1>3, <2>1 DEF Owes
<1>9. ASSUME NEW v \in Sessions, Linking(v)'
      PROVE  /\ Linking(v) /\ v # s /\ sessions'[v] = sessions[v] /\ sessions[v].f \in Fragments
  <2>1. v # s /\ sessions'[v] = sessions[v] /\ sessions[v].step = "linking"
    BY <1>5, <1>9 DEF Linking
  <2> QED BY <2>1, AtWork DEF Linking
<1>10. ASSUME NEW v \in Sessions, NEW g, Linking(v)', Owes(v, g) PROVE Owes(v, g)'
  <2>1. PICK h : h = sessions[v].f /\ h = sessions'[v].f /\ sessions'[v].todo = sessions[v].todo
    BY <1>9, <1>10
  <2>2. Due(h, g)' \subseteq links' \cup sessions'[v].todo
    BY <1>2, <1>7, <1>10, <2>1 DEF Owes
  <2> QED BY <2>1, <2>2 DEF Owes
<1>11. \A g \in Fragments : (memory[g] # NoText => Exists(g))'
  <2>1. \A g \in Fragments : Exists(g)' <=> Exists(g)
    BY <1>2 DEF Exists
  <2> QED BY <1>3, <1>6, <2>1 DEF LinksInv
<1>12. ASSUME NEW g \in Fragments, NEW h \in Fragments, g # h, memory'[g] # NoText, memory'[h] # NoText
       PROVE  Due(g, h)' \subseteq links'
  <2>1. CASE g = f
    BY <1>2, <1>6, <1>7, <1>8, <1>12, <2>1
  <2>2. CASE h = f
    <3>1. Due(f, g) \subseteq links /\ Due(f, g) = Due(g, f)
      BY <1>6, <1>8, <1>12, <2>2, DueBothWays
    <3> QED BY <1>2, <1>7, <2>2, <3>1
  <2>3. CASE g # f /\ h # f
    BY <1>2, <1>6, <1>7, <1>12, <2>3 DEF LinksInv
  <2> QED BY <2>1, <2>2, <2>3
<1>13. ASSUME NEW v \in Sessions, NEW g \in Fragments,
              Linking(v)', g # sessions'[v].f, memory'[g] # NoText
       PROVE  Owes(v, g)'
  <2>1. PICK h : h = sessions[v].f /\ h \in Fragments /\ Linking(v) /\ g # h
    BY <1>9, <1>13
  <2>2. CASE g # f
    <3>1. Owes(v, g)
      BY <1>6, <1>13, <2>1, <2>2 DEF LinksInv
    <3> QED BY <1>10, <1>13, <3>1
  <2>3. CASE g = f
    <3>1. Owes(s, h) \/ Owes(v, f)
      BY <1>1, <1>2, <1>3, <2>1, <2>3 DEF LinksInv, Linking
    <3>2. ASSUME Owes(s, h) PROVE Owes(v, f)
      <4>1. Due(f, h) \subseteq links /\ Due(f, h) = Due(h, f)
        BY <1>1, <1>2, <1>3, <3>2, DueBothWays DEF Owes
      <4> QED BY <2>1, <4>1 DEF Owes
    <3> QED BY <1>10, <1>13, <2>3, <3>1, <3>2
  <2> QED BY <2>2, <2>3
<1>14. ASSUME NEW v \in Sessions, NEW u \in Sessions,
              Linking(v)', Linking(u)', sessions'[v].f # sessions'[u].f
       PROVE  Owes(v, sessions[u].f)' \/ Owes(u, sessions[v].f)'
  <2>1. PICK g, h : g = sessions[v].f /\ h = sessions[u].f /\ g = sessions'[v].f /\ h = sessions'[u].f
    BY <1>9, <1>14
  <2>2. Owes(v, h) \/ Owes(u, g)
    BY <1>9, <1>14, <2>1 DEF LinksInv
  <2>3. Owes(v, h)' \/ Owes(u, g)'
    BY <1>10, <1>14, <2>2
  <2> QED BY <2>1, <2>3 DEF Owes
<1> QED BY <1>11, <1>12, <1>13, <1>14 DEF LinksInv

LEMMA LinksStart ==
    ASSUME IndexAssumption, IndexInit
    PROVE  LinksInv
<1>1. /\ \A f \in Fragments : memory[f] = NoText
      /\ \A s \in Sessions : sessions[s].step # "linking"
  BY DEF IndexInit, Resting
<1> QED BY <1>1 DEF LinksInv, Linking

LEMMA LinksKept ==
    ASSUME IndexAssumption, RowsInv, LinksInv, [IndexNext]_indexVars
    PROVE  LinksInv'
<1>1. TextsStay
  BY TextsAreKept
<1>2. ASSUME NEW s \in Sessions, SessionStep(s) PROVE LinksInv'
  <2>1. CASE \E f \in Fragments : BeginEdit(s, f) \/ BeginReview(s, f) \/ \E m \in Materials : Accept(s, f, m)
    BY <1>1, <2>1, LinksOfBeginnings
  <2>2. CASE \/ TagDirectives(s) \/ IndexEntities(s) \/ Link(s)
             \/ WriteTitle(s) \/ RestoreRows(s) \/ Abandon(s)
    BY <1>1, <2>2, LinksOfStages
  <2>3. CASE FindCandidates(s)
    BY <2>3, LinksOfCandidates
  <2>4. CASE Remember(s)
    BY <2>4, LinksOfMemory
  <2> QED BY <1>2, <2>1, <2>2, <2>3, <2>4 DEF SessionStep
<1>3. CASE (\E f \in Fragments : Repeat(f)) \/ UNCHANGED indexVars
  <2>1. UNCHANGED <<memory, links, sessions>>
    BY <1>3 DEF Repeat, indexVars
  <2> QED BY <1>1, <2>1, LinksStand
<1> QED BY <1>2, <1>3 DEF IndexNext

\* Two siblings that recall can find are linked, both ways, if each is among the newest
\* of the other (IndexFragment, FindRelationCandidates).
THEOREM SiblingsStayLinked ==
    ASSUME IndexAssumption
    PROVE  IndexSpec => []SiblingsAreLinked
<1>1. IndexInit => RowsInv /\ LinksInv
  BY IndexStarts, LinksStart
<1>2. RowsInv /\ LinksInv /\ [IndexNext]_indexVars => RowsInv' /\ LinksInv'
  BY RowsKept, LinksKept
<1>3. LinksInv => SiblingsAreLinked
  BY DEF LinksInv, SiblingsAreLinked, Due
<1> QED BY <1>1, <1>2, <1>3, PTL DEF IndexSpec
=============================================================================
