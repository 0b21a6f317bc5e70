----------------------------- MODULE CustodyProofs -----------------------------
(***************************************************************************)
(* Theorems about CaptureProtocol and MediaCustody under it: rows, blobs   *)
(* and files agree, verified bytes stay, outcomes are backed by bytes and  *)
(* answers are stable.  And about Publication, for every number of         *)
(* publishers, fragments, attachments, destinations and failures:          *)
(* directories stand as the last delivery left them, and remote copies are *)
(* accounted for.                                                          *)
(***************************************************************************)
EXTENDS CaptureProtocol, Publication, FiniteSetTheorems, TLAPS

(***************************************************************************)
(* Capture and custody.                                                    *)
(***************************************************************************)

(***************************************************************************)
(* The inductive invariant.                                                *)
(***************************************************************************)

\* What the write lock protects: the file is there, was not needed before if this upload
\* made it, and the row and the capture are those the checks before it saw.
LockHolds ==
    ~NoWriter =>
        /\ upload.digest \in files
        /\ upload.created => blobs[upload.digest] = "none"
        /\ ~upload.created /\ blobs[upload.digest] = "none" => crashed
        /\ Accepted(upload.by) /\ upload.variant \in Bound(upload.by)

\* Only bytes that are there have a digest.
DigestIsVerified == \A v \in Variants : variants[v].digest # NoDigest => HasBytes(v)

\* Who was told to reuse bytes can.
ReuseIsBacked ==
    \A c \in Captures : Accepted(c) =>
        \A v \in Bound(c) : attempts[c].actions[v] = "reuse_blob" => HasBytes(v)

\* Every answer ever given is the stored one.
AnswersAreStored ==
    \A c \in Captures :
        /\ told[c].accepted \subseteq (IF Accepted(c) THEN {attempts[c].actions} ELSE {})
        /\ told[c].completed \subseteq (IF reports[c] # NoReport THEN {reports[c].status} ELSE {})

CustodyHolds == AvailableHasBytes /\ DigestIsVerified /\ LockHolds
AnswersHold == OutcomeIsBacked /\ ReuseIsBacked /\ AnswersAreStored
CaptureInv == TypeOK /\ CustodyHolds /\ AnswersHold

(***************************************************************************)
(* Rows.                                                                   *)
(***************************************************************************)
LEMMA Constants ==
    /\ NoDigest \notin Digests /\ MaxFaults \in Nat
    /\ AcquisitionVariant \in [Targets -> Variants]
    /\ NoUpload \notin Uploads
    /\ \A p \in Payloads :
           /\ Manifest(p) \subseteq Variants
           /\ \A v \in Manifest(p) : ManifestOf[p][v] \in ManifestRows
           /\ NoAttempt \notin AttemptRows(p) /\ NoReport \notin ReportRows(p)
BY ProtocolAssumption DEF ProtocolAssumption, CustodyAssumption

LEMMA AttachedRow ==
    ASSUME NEW row \in VariantRows, NEW d \in Digests
    PROVE  /\ Attached(row, d) \in VariantRows
           /\ Attached(row, d).state = "available" /\ Attached(row, d).digest = d
           /\ Attached(row, d).expected = d /\ Attached(row, d).custody = row.custody
BY DEF Attached, VariantRows

LEMMA SeenRow ==
    ASSUME NEW row \in VariantRows, NEW seen \in ManifestRows
    PROVE  /\ SeenAgain(row, seen) \in VariantRows
           /\ row.state # "absent" => /\ SeenAgain(row, seen).state = row.state
                                      /\ SeenAgain(row, seen).digest = row.digest
                                      /\ SeenAgain(row, seen).custody = row.custody
                                      /\ row.expected # NoDigest => SeenAgain(row, seen) = row
           /\ row.state = "absent" => /\ SeenAgain(row, seen).state # "available"
                                      /\ SeenAgain(row, seen).digest = NoDigest
<1>1. CASE row.state = "absent"
    BY <1>1 DEF SeenAgain, VariantRows, ManifestRows
<1>2. CASE row.state # "absent"
    BY <1>2 DEF SeenAgain, VariantRows, ManifestRows
<1> QED BY <1>1, <1>2

LEMMA AcquiredRow ==
    ASSUME NEW row \in VariantRows, NEW custody \in Custodies
    PROVE  /\ Acquired(row, custody) \in VariantRows
           /\ Acquired(row, custody).custody = custody
           /\ Acquired(row, custody).digest = row.digest /\ Acquired(row, custody).expected = row.expected
           /\ Acquired(row, custody).state = "available" <=> row.state = "available"
<1>1. CASE row.state = "available"
    BY <1>1 DEF Acquired, VariantRows
<1>2. CASE row.state # "available"
    BY <1>2 DEF Acquired, VariantRows
<1> QED BY <1>1, <1>2

\* What the tables hold of a capture is what its payload makes it.
LEMMA AttemptShape ==
    ASSUME TypeOK, NEW c \in Captures, Accepted(c)
    PROVE  /\ attempts[c].payload \in Payloads
           /\ attempts[c] \in AttemptRows(attempts[c].payload)
           /\ Bound(c) = Manifest(attempts[c].payload)
           /\ attempts[c].actions \in [Bound(c) -> Actions]
           /\ Bound(c) \subseteq Variants
           /\ outcomes[c] \in [Bound(c) -> Outcomes]
<1>1. attempts[c] \in AllAttempts
    BY DEF TypeOK, Accepted
<1>2. PICK p \in Payloads : attempts[c] \in AttemptRows(p)
    BY <1>1 DEF AllAttempts
<1>3. attempts[c].payload = p /\ attempts[c].actions \in [Manifest(p) -> Actions]
    BY <1>2 DEF AttemptRows
<1>4. Bound(c) = Manifest(p)
    BY <1>3 DEF Bound
<1>5. outcomes[c] \in [Bound(c) -> Outcomes]
    BY DEF TypeOK
<1> QED BY <1>2, <1>3, <1>4, <1>5, Constants

(***************************************************************************)
(* Types, one action at a time.                                            *)
(***************************************************************************)
\* A new attempt of c has the types of the tables.
LEMMA AcceptTypes ==
    ASSUME TypeOK, NEW c \in Captures, NEW p \in Payloads, AcceptNew(c, p)
    PROVE  TypeOK'
<1> DEFINE rowOf(v) == IF v \notin Manifest(p) THEN variants[v]
                       ELSE IF HasKnownBlob(p, v) THEN Attached(RowFor(p, v), KnownDigest(p, v))
                       ELSE RowFor(p, v)
           answer == [v \in Manifest(p) |-> Instruction(p, v)]
           row == [payload |-> p, actions |-> answer, completion |-> "accepting"]
<1>1. variants \in [Variants -> VariantRows]
    BY DEF TypeOK, CustodyTypeOK
<1>2. ASSUME NEW v \in Variants PROVE rowOf(v) \in VariantRows
  <2>1. CASE v \notin Manifest(p)
    BY <1>1, <2>1
  <2>2. CASE v \in Manifest(p)
    <3>1. RowFor(p, v) \in VariantRows
      BY <1>1, <2>2, SeenRow, Constants DEF RowFor
    <3>2. CASE HasKnownBlob(p, v)
      <4>1. KnownDigest(p, v) \in Digests
        <5>1. ManifestOf[p][v].expected \in Digests \cup {NoDigest}
          BY <2>2, Constants DEF ManifestRows
        <5>2. RowFor(p, v).expected \in Digests \cup {NoDigest}
          BY <3>1 DEF VariantRows
        <5> QED BY <5>1, <5>2, <3>2 DEF HasKnownBlob, KnownDigest
      <4> QED BY <4>1, <3>1, <3>2, <2>2, AttachedRow
    <3>3. CASE ~HasKnownBlob(p, v)
      BY <3>1, <3>3, <2>2
    <3> QED BY <3>2, <3>3
  <2> QED BY <2>1, <2>2
<1>3. variants' = [v \in Variants |-> rowOf(v)]
    BY DEF AcceptNew
<1>4. variants' \in [Variants -> VariantRows]
  <2> HIDE DEF rowOf
  <2> QED BY <1>2, <1>3
<1>5. CustodyTypeOK' /\ upload' \in Uploads \cup {NoUpload}
    BY <1>4 DEF TypeOK, CustodyTypeOK, AcceptNew
<1>6. answer \in [Manifest(p) -> Actions]
  <2>1. ASSUME NEW v \in Manifest(p) PROVE Instruction(p, v) \in Actions
    <3>1. ManifestOf[p][v].action \in Actions
      BY Constants DEF ManifestRows
    <3> QED BY <3>1 DEF Instruction, Actions
  <2> QED BY <2>1
<1>7. row \in AttemptRows(p) /\ row # NoAttempt
  <2>1. row \in AttemptRows(p)
    BY <1>6 DEF AttemptRows
  <2> QED BY <2>1, Constants
<1>8. attempts' = [attempts EXCEPT ![c] = row] /\ told' = [told EXCEPT ![c].accepted = @ \cup {answer}]
    BY DEF AcceptNew
<1> HIDE DEF answer, row
<1>9. attempts' \in [Captures -> AllAttempts \cup {NoAttempt}]
  <2>1. row \in AllAttempts
    BY <1>7 DEF AllAttempts
  <2>2. attempts \in [Captures -> AllAttempts \cup {NoAttempt}]
    BY DEF TypeOK
  <2> QED BY <2>1, <2>2, <1>8
<1>10. /\ DOMAIN outcomes' = Captures
       /\ \A k \in Captures : Accepted(k)' => outcomes'[k] \in [Bound(k)' -> Outcomes]
  <2>1. attempts'[c].actions = answer /\ \A k \in Captures \ {c} : attempts'[k] = attempts[k]
    BY <1>8 DEF row, TypeOK
  <2>2. outcomes' = [outcomes EXCEPT ![c] = [v \in Manifest(p) |-> "none"]] /\ DOMAIN outcomes = Captures
    BY DEF AcceptNew, TypeOK
  <2>3. outcomes'[c] \in [Bound(c)' -> Outcomes]
    BY <2>1, <2>2, <1>6 DEF Bound, Outcomes
  <2>4. ASSUME NEW k \in Captures \ {c}, Accepted(k)' PROVE outcomes'[k] \in [Bound(k)' -> Outcomes]
    <3>1. Accepted(k) /\ Bound(k)' = Bound(k)
      BY <2>1, <2>4 DEF Accepted, Bound
    <3> QED BY <3>1, <2>2 DEF TypeOK
  <2> QED BY <2>2, <2>3, <2>4
<1>11. reports' \in [Captures -> AllReports \cup {NoReport}]
    BY DEF AcceptNew, TypeOK
<1>12. told' \in [Captures -> AllAnswers]
  <2>1. answer \in UNION {[Manifest(q) -> Actions] : q \in Payloads}
    BY <1>6
  <2>2. told \in [Captures -> AllAnswers]
    BY DEF TypeOK
  <2> QED BY <1>8, <2>1, <2>2 DEF AllAnswers
<1> QED BY <1>5, <1>9, <1>10, <1>11, <1>12 DEF TypeOK

LEMMA AcceptAgainTypes ==
    ASSUME TypeOK, NEW c \in Captures, NEW p \in Payloads, AcceptAgain(c, p)
    PROVE  TypeOK'
<1>1. attempts[c].actions \in UNION {[Manifest(q) -> Actions] : q \in Payloads}
    BY AttemptShape DEF AcceptAgain
<1>2. told \in [Captures -> AllAnswers]
    BY DEF TypeOK
<1>3. told' = [told EXCEPT ![c].accepted = @ \cup {attempts[c].actions}]
    BY DEF AcceptAgain
<1>4. told' \in [Captures -> AllAnswers]
    BY <1>1, <1>2, <1>3 DEF AllAnswers
<1> QED BY <1>4 DEF TypeOK, CustodyTypeOK, AcceptAgain, custodyVars, Accepted, Bound

\* Only the completion of an attempt ever moves.
LEMMA MovedOn ==
    ASSUME TypeOK, NEW c \in Captures, Accepted(c),
           NEW to \in {"accepting", "transferring"} \cup Terminal,
           attempts' = [attempts EXCEPT ![c].completion = to]
    PROVE  /\ attempts' \in [Captures -> AllAttempts \cup {NoAttempt}]
           /\ \A k \in Captures :
                  /\ Accepted(k)' <=> Accepted(k)
                  /\ attempts'[k].actions = attempts[k].actions /\ Bound(k)' = Bound(k)
           /\ attempts'[c].completion = to
           /\ \A k \in Captures \ {c} : attempts'[k] = attempts[k]
<1> DEFINE row == [attempts[c] EXCEPT !.completion = to]
           p == attempts[c].payload
<1>1. attempts \in [Captures -> AllAttempts \cup {NoAttempt}]
    BY DEF TypeOK
<1>2. p \in Payloads /\ attempts[c] \in AttemptRows(p)
    BY AttemptShape
<1>3. /\ row \in AttemptRows(p) /\ row.actions = attempts[c].actions
      /\ row.completion = to
    BY <1>2 DEF AttemptRows
<1>4. row \in AllAttempts /\ row # NoAttempt
    BY <1>2, <1>3, Constants DEF AllAttempts
<1>5. attempts' = [attempts EXCEPT ![c] = row]
    OBVIOUS
<1> HIDE DEF row, p
<1>6. attempts'[c] = row /\ \A k \in Captures \ {c} : attempts'[k] = attempts[k]
    BY <1>1, <1>5
<1>7. attempts' \in [Captures -> AllAttempts \cup {NoAttempt}]
    BY <1>1, <1>4, <1>5
<1>8. \A k \in Captures : (Accepted(k)' <=> Accepted(k)) /\ attempts'[k].actions = attempts[k].actions
    BY <1>3, <1>4, <1>6 DEF Accepted
<1>9. \A k \in Captures : Bound(k)' = Bound(k)
    BY <1>8 DEF Bound
<1> QED BY <1>3, <1>6, <1>7, <1>8, <1>9

LEMMA PutTypes ==
    ASSUME TypeOK, NEW c \in Captures, NEW v \in Variants, NEW d \in Digests, PutContent(c, v, d)
    PROVE  TypeOK'
<1>1. upload' \in Uploads
    BY DEF PutContent, InstallBytes, Uploads
<1>2. CustodyTypeOK'
    BY DEF PutContent, InstallBytes, TypeOK, CustodyTypeOK
<1> QED BY <1>1, <1>2 DEF TypeOK, PutContent, protocolVars, Accepted, Bound

\* The variables of the upload that is under way.
LEMMA UnderWay ==
    ASSUME TypeOK, ~NoWriter
    PROVE  /\ upload.variant \in Variants /\ upload.digest \in Digests
           /\ upload.by \in Captures /\ upload.created \in BOOLEAN
BY DEF TypeOK, NoWriter, Uploads

\* What the attach writes.
LEMMA AttachWrites ==
    ASSUME TypeOK, AttachUpload
    PROVE  /\ variants' \in [Variants -> VariantRows]
           /\ blobs' \in [Digests -> {"none", "cache", "indefinite"}]
           /\ variants'[upload.variant] = Attached(variants[upload.variant], upload.digest)
           /\ \A v \in Variants \ {upload.variant} : variants'[v] = variants[v]
           /\ blobs'[upload.digest] = Retained(blobs[upload.digest], RetentionFor(variants[upload.variant].custody))
           /\ \A d \in Digests \ {upload.digest} : blobs'[d] = blobs[d]
<1> DEFINE v == upload.variant
           d == upload.digest
           row == Attached(variants[v], d)
           kept == Retained(blobs[d], RetentionFor(variants[v].custody))
<1>1. v \in Variants /\ d \in Digests
    BY UnderWay DEF AttachUpload
<1>2. variants \in [Variants -> VariantRows] /\ blobs \in [Digests -> {"none", "cache", "indefinite"}]
    BY DEF TypeOK, CustodyTypeOK
<1>3. variants' = [variants EXCEPT ![v] = row] /\ blobs' = [blobs EXCEPT ![d] = kept]
    BY DEF AttachUpload
<1>4. row \in VariantRows
    BY <1>1, <1>2, AttachedRow
<1>5. kept \in {"none", "cache", "indefinite"}
    BY DEF Retained
<1> HIDE DEF v, d, row, kept
<1>6. /\ variants' \in [Variants -> VariantRows]
      /\ variants'[v] = row /\ \A w \in Variants \ {v} : variants'[w] = variants[w]
    BY <1>1, <1>2, <1>3, <1>4
<1>7. /\ blobs' \in [Digests -> {"none", "cache", "indefinite"}]
      /\ blobs'[d] = kept /\ \A e \in Digests \ {d} : blobs'[e] = blobs[e]
    BY <1>1, <1>2, <1>3, <1>5
<1> QED BY <1>6, <1>7 DEF v, d, row, kept

LEMMA FinishTypes ==
    ASSUME TypeOK, LockHolds, FinishContent
    PROVE  TypeOK'
<1> DEFINE c == upload.by
           v == upload.variant
           to == IF attempts[c].completion = "accepting" THEN "transferring" ELSE attempts[c].completion
<1>1. c \in Captures /\ Accepted(c) /\ v \in Bound(c)
    BY UnderWay DEF FinishContent, AttachUpload, LockHolds
<1>2. attempts[c].completion \in {"accepting", "transferring"} \cup Terminal
    BY <1>1, AttemptShape DEF AttemptRows
<1>3. to \in {"accepting", "transferring"} \cup Terminal
    BY <1>2
<1>4. attempts' = [attempts EXCEPT ![c].completion = to]
    BY DEF FinishContent
<1> HIDE DEF c, v, to
<1>5. /\ attempts' \in [Captures -> AllAttempts \cup {NoAttempt}]
      /\ \A k \in Captures : (Accepted(k)' <=> Accepted(k)) /\ Bound(k)' = Bound(k)
    BY <1>1, <1>3, <1>4, MovedOn
<1>6. CustodyTypeOK' /\ upload' \in Uploads \cup {NoUpload}
  <2>1. AttachUpload
    BY DEF FinishContent
  <2> QED BY <2>1, AttachWrites DEF TypeOK, CustodyTypeOK, AttachUpload
<1>7. DOMAIN outcomes' = Captures /\ \A k \in Captures : Accepted(k)' => outcomes'[k] \in [Bound(k)' -> Outcomes]
  <2>1. outcomes' = [outcomes EXCEPT ![c][v] = "uploaded"] /\ DOMAIN outcomes = Captures
    BY DEF FinishContent, TypeOK, c, v
  <2>2. outcomes'[c] \in [Bound(c) -> Outcomes]
    <3>1. outcomes[c] \in [Bound(c) -> Outcomes]
      BY <1>1, AttemptShape
    <3>2. outcomes'[c] = [outcomes[c] EXCEPT ![v] = "uploaded"]
      BY <1>1, <2>1
    <3> QED BY <3>1, <3>2 DEF Outcomes, Stored
  <2>3. ASSUME NEW k \in Captures \ {c}, Accepted(k) PROVE outcomes'[k] \in [Bound(k) -> Outcomes]
    BY <2>1, <2>3, AttemptShape
  <2> QED BY <1>1, <1>5, <2>1, <2>2, <2>3
<1> QED BY <1>5, <1>6, <1>7 DEF TypeOK, FinishContent

LEMMA LoseTypes ==
    ASSUME TypeOK, LoseContent
    PROVE  TypeOK'
<1>1. MaxFaults \in Nat
    BY Constants
<1>2. faults' \in 0..MaxFaults
    BY <1>1 DEF TypeOK, CustodyTypeOK, LoseContent, AbortUpload, CrashUpload, Fault
<1>3. files' \subseteq Digests /\ crashed' \in BOOLEAN
    BY UnderWay DEF TypeOK, CustodyTypeOK, LoseContent, AbortUpload, CrashUpload
<1>4. CustodyTypeOK' /\ upload' \in Uploads \cup {NoUpload}
    BY <1>2, <1>3 DEF TypeOK, CustodyTypeOK, LoseContent, AbortUpload, CrashUpload
<1> QED BY <1>4 DEF TypeOK, LoseContent, protocolVars, Accepted, Bound

\* What a first report decides, and what it writes.
LEMMA ReportWrites ==
    ASSUME TypeOK, NEW c \in Captures, NEW key \in ReportKeys,
           NEW report \in [Bound(c) -> Reported], Accepted(c), FirstReport(c, key, report)
    PROVE  LET to == IF \E v \in Bound(c) : LeavesPartial(c, v, report[v]) THEN "partial" ELSE "complete"
               final == [v \in Bound(c) |-> FinalOutcome(c, v, report[v])]
               status == [completion |-> to, outcomes |-> final]
               row == [key |-> key, said |-> report, status |-> status]
           IN  /\ to \in Terminal /\ final \in [Bound(c) -> Outcomes]
               /\ status \in StatusRows(attempts[c].payload)
               /\ row \in ReportRows(attempts[c].payload)
               /\ attempts' = [attempts EXCEPT ![c].completion = to]
               /\ outcomes' = [outcomes EXCEPT ![c] = final]
               /\ reports' = [reports EXCEPT ![c] = row]
               /\ told' = [told EXCEPT ![c].completed = @ \cup {status}]
<1> DEFINE to == IF \E v \in Bound(c) : LeavesPartial(c, v, report[v]) THEN "partial" ELSE "complete"
           final == [v \in Bound(c) |-> FinalOutcome(c, v, report[v])]
           status == [completion |-> to, outcomes |-> final]
           row == [key |-> key, said |-> report, status |-> status]
           p == attempts[c].payload
<1>1. to \in Terminal
    BY DEF Terminal
<1>2. ASSUME NEW v \in Bound(c) PROVE FinalOutcome(c, v, report[v]) \in Outcomes
    BY DEF FinalOutcome, Outcomes, Stored, Missing, Reported
<1>3. final \in [Bound(c) -> Outcomes]
    BY <1>2
<1>4. p \in Payloads /\ Bound(c) = Manifest(p)
    BY AttemptShape
<1>5. /\ attempts' = [attempts EXCEPT ![c].completion = to]
      /\ outcomes' = [outcomes EXCEPT ![c] = final]
      /\ reports' = [reports EXCEPT ![c] = row]
      /\ told' = [told EXCEPT ![c].completed = @ \cup {status}]
    BY DEF FirstReport
<1> HIDE DEF to, final, p
<1>6. status \in StatusRows(p)
    BY <1>1, <1>3, <1>4 DEF StatusRows
<1> HIDE DEF status
<1>7. row \in ReportRows(p)
    BY <1>4, <1>6 DEF ReportRows
<1> QED BY <1>1, <1>3, <1>5, <1>6, <1>7 DEF to, final, status, row, p

\* A report changes a variant only from missing to failed.
LEMMA ReportMarks ==
    ASSUME TypeOK, NEW c \in Captures, NEW key \in ReportKeys, NEW report, FirstReport(c, key, report)
    PROVE  /\ variants' \in [Variants -> VariantRows]
           /\ \A v \in Variants : /\ HasBytes(v) => variants'[v] = variants[v]
                                  /\ variants'[v].digest = variants[v].digest
                                  /\ variants'[v].state = "available" => HasBytes(v)
<1> DEFINE row(v) == IF v \in Bound(c) /\ MarkedFailed(c, v, report[v])
                     THEN [variants[v] EXCEPT !.state = "failed"] ELSE variants[v]
<1>1. variants' = [v \in Variants |-> row(v)]
    BY DEF FirstReport
<1>2. ASSUME NEW v \in Variants
      PROVE  /\ row(v) \in VariantRows /\ row(v).digest = variants[v].digest
             /\ HasBytes(v) => row(v) = variants[v]
             /\ row(v).state = "available" => HasBytes(v)
  <2>1. variants[v] \in VariantRows
    BY DEF TypeOK, CustodyTypeOK
  <2>2. CASE v \in Bound(c) /\ MarkedFailed(c, v, report[v])
    BY <2>1, <2>2 DEF MarkedFailed, HasBytes, VariantRows
  <2>3. CASE ~(v \in Bound(c) /\ MarkedFailed(c, v, report[v]))
    BY <2>1, <2>3 DEF HasBytes
  <2> QED BY <2>2, <2>3
<1> HIDE DEF row
<1>3. \A v \in Variants : variants'[v] = row(v)
    BY <1>1
<1>4. variants' \in [Variants -> VariantRows]
    BY <1>1, <1>2
<1> QED BY <1>2, <1>3, <1>4

LEMMA ReportTypes ==
    ASSUME TypeOK, NEW c \in Captures, NEW key \in ReportKeys,
           NEW report \in [Bound(c) -> Reported], Accepted(c), FirstReport(c, key, report)
    PROVE  TypeOK'
<1> DEFINE to == IF \E v \in Bound(c) : LeavesPartial(c, v, report[v]) THEN "partial" ELSE "complete"
           final == [v \in Bound(c) |-> FinalOutcome(c, v, report[v])]
           status == [completion |-> to, outcomes |-> final]
           row == [key |-> key, said |-> report, status |-> status]
           p == attempts[c].payload
<1>1. /\ to \in Terminal /\ final \in [Bound(c) -> Outcomes]
      /\ status \in StatusRows(p) /\ row \in ReportRows(p)
      /\ attempts' = [attempts EXCEPT ![c].completion = to]
      /\ outcomes' = [outcomes EXCEPT ![c] = final]
      /\ reports' = [reports EXCEPT ![c] = row]
      /\ told' = [told EXCEPT ![c].completed = @ \cup {status}]
    BY ReportWrites
<1>2. p \in Payloads
    BY AttemptShape
<1> HIDE DEF to, final, status, row, p
<1>3. /\ attempts' \in [Captures -> AllAttempts \cup {NoAttempt}]
      /\ \A k \in Captures : (Accepted(k)' <=> Accepted(k)) /\ Bound(k)' = Bound(k)
    BY <1>1, MovedOn
<1>4. DOMAIN outcomes' = Captures /\ \A k \in Captures : Accepted(k)' => outcomes'[k] \in [Bound(k)' -> Outcomes]
  <2>1. DOMAIN outcomes = Captures
    BY DEF TypeOK
  <2>2. outcomes'[c] = final /\ \A k \in Captures \ {c} : outcomes'[k] = outcomes[k]
    BY <1>1, <2>1
  <2>3. ASSUME NEW k \in Captures \ {c}, Accepted(k) PROVE outcomes'[k] \in [Bound(k) -> Outcomes]
    BY <2>2, <2>3, AttemptShape
  <2> QED BY <1>1, <1>3, <2>1, <2>2, <2>3
<1>5. reports' \in [Captures -> AllReports \cup {NoReport}]
  <2>1. reports \in [Captures -> AllReports \cup {NoReport}]
    BY DEF TypeOK
  <2>2. row \in AllReports
    BY <1>1, <1>2 DEF AllReports
  <2> QED BY <1>1, <2>1, <2>2
<1>6. told' \in [Captures -> AllAnswers]
  <2>1. told \in [Captures -> AllAnswers]
    BY DEF TypeOK
  <2>2. status \in UNION {StatusRows(q) : q \in Payloads}
    BY <1>1, <1>2
  <2> QED BY <1>1, <2>1, <2>2 DEF AllAnswers
<1>7. variants' \in [Variants -> VariantRows]
    BY ReportMarks
<1>8. CustodyTypeOK' /\ upload' \in Uploads \cup {NoUpload}
    BY <1>7 DEF TypeOK, CustodyTypeOK, FirstReport
<1> QED BY <1>3, <1>4, <1>5, <1>6, <1>8 DEF TypeOK

LEMMA ReportAgainTypes ==
    ASSUME TypeOK, NEW c \in Captures, NEW key, NEW report, ReportAgain(c, key, report)
    PROVE  TypeOK'
<1>1. reports[c] \in AllReports
    BY DEF TypeOK, ReportAgain
<1>2. PICK p \in Payloads : reports[c] \in ReportRows(p)
    BY <1>1 DEF AllReports
<1>3. reports[c].status \in StatusRows(p)
    BY <1>2 DEF ReportRows
<1>4. told \in [Captures -> AllAnswers] /\ told' = [told EXCEPT ![c].completed = @ \cup {reports[c].status}]
    BY DEF TypeOK, ReportAgain
<1>5. told' \in [Captures -> AllAnswers]
    BY <1>3, <1>4 DEF AllAnswers
<1> QED BY <1>5 DEF TypeOK, CustodyTypeOK, ReportAgain, custodyVars, Accepted, Bound

\* An acquisition changes one row, and it raises a retention.
LEMMA AcquireWrites ==
    ASSUME TypeOK, NEW a \in AcquisitionIds, NEW t \in Targets,
           NEW custody \in Custodies \ {"reference"}, RequestAssetAcquisition(a, t, custody)
    PROVE  \E v \in Variants :
               /\ variants' = [variants EXCEPT ![v] = Acquired(@, custody)]
               /\ variants' \in [Variants -> VariantRows]
               /\ blobs' \in [Digests -> {"none", "cache", "indefinite"}]
               /\ acquisitions' \in [AcquisitionIds -> Acquisitions \cup {NoVariant}]
               /\ variants[v].digest # NoDigest /\ RetentionFor(custody) = "indefinite"
                      => /\ blobs'[variants[v].digest] = "indefinite"
                         /\ \A d \in Digests \ {variants[v].digest} : blobs'[d] = blobs[d]
               /\ ~(variants[v].digest # NoDigest /\ RetentionFor(custody) = "indefinite")
                      => blobs' = blobs
<1>1. PICK v \in AcquisitionTarget(t) :
          /\ variants' = [variants EXCEPT ![v] = Acquired(@, custody)]
          /\ blobs' = IF variants[v].digest # NoDigest /\ RetentionFor(custody) = "indefinite"
                      THEN [blobs EXCEPT ![variants[v].digest] = "indefinite"] ELSE blobs
          /\ acquisitions' = [acquisitions EXCEPT ![a] =
                 [target |-> t, custody |-> custody, variant |-> v]]
    BY DEF RequestAssetAcquisition
<1>2. v \in Variants
    BY Constants DEF AcquisitionTarget
<1>3. /\ variants \in [Variants -> VariantRows] /\ blobs \in [Digests -> {"none", "cache", "indefinite"}]
      /\ acquisitions \in [AcquisitionIds -> Acquisitions \cup {NoVariant}]
    BY DEF TypeOK, CustodyTypeOK
<1>4. Acquired(variants[v], custody) \in VariantRows
    BY <1>2, <1>3, AcquiredRow
<1>5. variants' \in [Variants -> VariantRows]
    BY <1>1, <1>2, <1>3, <1>4
<1>6. variants[v].digest \in Digests \cup {NoDigest}
    BY <1>2, <1>3 DEF VariantRows
<1>7. blobs' \in [Digests -> {"none", "cache", "indefinite"}]
    BY <1>1, <1>3, <1>6
<1>8. acquisitions' \in [AcquisitionIds -> Acquisitions \cup {NoVariant}]
    BY <1>1, <1>2, <1>3 DEF Acquisitions
<1>9. variants[v].digest # NoDigest /\ RetentionFor(custody) = "indefinite"
          => /\ blobs'[variants[v].digest] = "indefinite"
             /\ \A d \in Digests \ {variants[v].digest} : blobs'[d] = blobs[d]
    BY <1>1, <1>3, <1>6
<1>10. ~(variants[v].digest # NoDigest /\ RetentionFor(custody) = "indefinite") => blobs' = blobs
    BY <1>1
<1> QED BY <1>1, <1>2, <1>5, <1>7, <1>8, <1>9, <1>10

LEMMA AcquireTypes ==
    ASSUME TypeOK, NEW a \in AcquisitionIds, NEW t \in Targets,
           NEW custody \in Custodies \ {"reference"}, Acquire(a, t, custody)
    PROVE  TypeOK'
<1>1. /\ variants' \in [Variants -> VariantRows]
      /\ blobs' \in [Digests -> {"none", "cache", "indefinite"}]
      /\ acquisitions' \in [AcquisitionIds -> Acquisitions \cup {NoVariant}]
    BY AcquireWrites DEF Acquire
<1>2. CustodyTypeOK'
    BY <1>1 DEF TypeOK, CustodyTypeOK, Acquire, RequestAssetAcquisition
<1> QED BY <1>2 DEF TypeOK, Acquire, RequestAssetAcquisition, protocolVars, Accepted, Bound

LEMMA TypesKept == TypeOK /\ LockHolds /\ [Next]_vars => TypeOK'
<1> SUFFICES ASSUME TypeOK, LockHolds, [Next]_vars PROVE TypeOK'
    OBVIOUS
<1>1. ASSUME NEW c \in Captures, NEW p \in Payloads, AcceptNew(c, p) \/ AcceptAgain(c, p) PROVE TypeOK'
    BY <1>1, AcceptTypes, AcceptAgainTypes
<1>2. ASSUME NEW c \in Captures, NEW v \in Variants, NEW d \in Digests, PutContent(c, v, d) PROVE TypeOK'
    BY <1>2, PutTypes
<1>3. CASE FinishContent \/ LoseContent
    BY <1>3, FinishTypes, LoseTypes
<1>4. ASSUME NEW c \in Captures, Accepted(c), NEW key \in ReportKeys,
             NEW report \in [Bound(c) -> Reported], CompleteCapture(c, key, report)
      PROVE  TypeOK'
    BY <1>4, ReportTypes, ReportAgainTypes DEF CompleteCapture
<1>5. ASSUME NEW a \in AcquisitionIds, NEW t \in Targets, NEW custody \in Custodies \ {"reference"},
             Acquire(a, t, custody)
      PROVE  TypeOK'
    BY <1>5, AcquireTypes
<1>6. CASE UNCHANGED vars
    BY <1>6 DEF vars, custodyVars, protocolVars, TypeOK, CustodyTypeOK, Accepted, Bound
<1> QED BY <1>1, <1>2, <1>3, <1>4, <1>5, <1>6 DEF Next

(***************************************************************************)
(* Bytes.  A step that raises retentions, keeps the rows that have bytes   *)
(* and backs the rows that get some preserves custody.                     *)
(***************************************************************************)
Backed(row) ==
    row.state = "available" =>
        /\ row.digest \in Digests /\ blobs[row.digest] # "none"
        /\ row.expected = row.digest
        /\ row.custody \in Indefinite => blobs[row.digest] = "indefinite"

Verified(row) == row.digest # NoDigest => row.state = "available"

LEMMA RowsAreBacked ==
    ASSUME CustodyHolds, NEW v \in Variants
    PROVE  Backed(variants[v]) /\ Verified(variants[v])
BY DEF CustodyHolds, AvailableHasBytes, DigestIsVerified, HasBytes, Backed, Verified

\* A row of an accepted manifest: the one that was there when it had bytes, and
\* bytes only from a blob that is known.
LEMMA AcceptedRow ==
    ASSUME TypeOK, CustodyHolds, NEW p \in Payloads, NEW v \in Manifest(p), Acceptable(p),
           NEW row, row = IF HasKnownBlob(p, v) THEN Attached(RowFor(p, v), KnownDigest(p, v))
                          ELSE RowFor(p, v)
    PROVE  /\ HasBytes(v) => row = variants[v]
           /\ Backed(row) /\ Verified(row)
           /\ Instruction(p, v) = "reuse_blob" => row.state = "available"
<1>1. /\ v \in Variants /\ variants[v] \in VariantRows /\ ManifestOf[p][v] \in ManifestRows
      /\ Backed(variants[v]) /\ Verified(variants[v]) /\ NoDigest \notin Digests
    BY Constants, RowsAreBacked DEF TypeOK, CustodyTypeOK
<1>2. /\ RowFor(p, v) \in VariantRows
      /\ variants[v].state # "absent" =>
             /\ RowFor(p, v).state = variants[v].state
             /\ RowFor(p, v).digest = variants[v].digest
             /\ RowFor(p, v).custody = variants[v].custody
             /\ variants[v].expected # NoDigest => RowFor(p, v) = variants[v]
      /\ variants[v].state = "absent" =>
             RowFor(p, v).state # "available" /\ RowFor(p, v).digest = NoDigest
    BY <1>1, SeenRow DEF RowFor
<1>3. CASE HasBytes(v)
  <2>1. RowFor(p, v) = variants[v]
    BY <1>1, <1>2, <1>3 DEF Backed, HasBytes
  <2>2. row = variants[v]
    BY <1>3, <2>1 DEF HasKnownBlob, HasBytes
  <2> QED BY <1>1, <1>3, <2>2 DEF HasBytes
<1>4. CASE ~HasBytes(v) /\ HasKnownBlob(p, v)
  <2>1. KnownDigest(p, v) \in Digests
    <3>1. ManifestOf[p][v].expected \in Digests \cup {NoDigest}
      BY <1>1 DEF ManifestRows
    <3>2. RowFor(p, v).expected \in Digests \cup {NoDigest}
      BY <1>2 DEF VariantRows
    <3> QED BY <3>1, <3>2, <1>4 DEF HasKnownBlob, KnownDigest
  <2>2. /\ row.state = "available" /\ row.digest = KnownDigest(p, v)
        /\ row.expected = KnownDigest(p, v) /\ row.custody = RowFor(p, v).custody
    BY <1>2, <1>4, <2>1, AttachedRow
  <2>3. blobs[KnownDigest(p, v)] # "none"
    BY <1>4 DEF HasKnownBlob
  <2>4. RowFor(p, v).custody \in Indefinite => blobs[KnownDigest(p, v)] = "indefinite"
    BY <1>4 DEF Acceptable, CanAttach
  <2> QED BY <1>4, <2>1, <2>2, <2>3, <2>4 DEF Backed, Verified
<1>5. CASE ~HasBytes(v) /\ ~HasKnownBlob(p, v)
  <2>1. row = RowFor(p, v) /\ variants[v].digest = NoDigest
    BY <1>1, <1>5 DEF Verified, HasBytes
  <2>2. row.state # "available" /\ row.digest = NoDigest
    BY <1>2, <1>5, <2>1 DEF HasBytes
  <2>3. Instruction(p, v) # "reuse_blob"
    BY <1>1, <1>5, <2>1, <2>2 DEF Instruction, ManifestRows
  <2> QED BY <1>5, <2>2, <2>3 DEF Backed, Verified
<1> QED BY <1>3, <1>4, <1>5

LEMMA AcceptKeepsBytes ==
    ASSUME TypeOK, CustodyHolds, NEW c \in Captures, NEW p \in Payloads, AcceptNew(c, p)
    PROVE  /\ CustodyHolds' /\ KeepsBytes
           /\ \A v \in Manifest(p) : Instruction(p, v) = "reuse_blob" => HasBytes(v)'
<1> DEFINE row(v) == IF HasKnownBlob(p, v) THEN Attached(RowFor(p, v), KnownDigest(p, v))
                     ELSE RowFor(p, v)
<1>1. /\ \A v \in Variants : v \in Manifest(p) => variants'[v] = row(v)
      /\ \A v \in Variants : v \notin Manifest(p) => variants'[v] = variants[v]
      /\ Acceptable(p) /\ NoWriter /\ Manifest(p) \subseteq Variants
      /\ UNCHANGED <<blobs, files, upload, crashed>>
    BY Constants DEF AcceptNew
<1>2. ASSUME NEW v \in Manifest(p)
      PROVE  /\ HasBytes(v) => row(v) = variants[v]
             /\ Backed(row(v)) /\ Verified(row(v))
             /\ Instruction(p, v) = "reuse_blob" => row(v).state = "available"
  <2> DEFINE this == row(v)
  <2>1. this = IF HasKnownBlob(p, v) THEN Attached(RowFor(p, v), KnownDigest(p, v)) ELSE RowFor(p, v)
    OBVIOUS
  <2> HIDE DEF this
  <2>2. /\ HasBytes(v) => this = variants[v]
        /\ Backed(this) /\ Verified(this)
        /\ Instruction(p, v) = "reuse_blob" => this.state = "available"
    BY <1>1, <2>1, AcceptedRow
  <2> QED BY <2>2 DEF this
<1> HIDE DEF row
<1>3. ASSUME NEW v \in Variants
      PROVE  /\ HasBytes(v) => variants'[v] = variants[v]
             /\ Backed(variants'[v]) /\ Verified(variants'[v])
    BY <1>1, <1>2, RowsAreBacked
<1>4. AvailableHasBytes'
    BY <1>1, <1>3 DEF CustodyHolds, AvailableHasBytes, Backed, NoWriter
<1>5. DigestIsVerified' /\ LockHolds'
    BY <1>1, <1>3 DEF DigestIsVerified, LockHolds, Verified, HasBytes, NoWriter
<1>6. KeepsBytes
    BY <1>1, <1>3 DEF KeepsBytes, HasBytes
<1>7. \A v \in Manifest(p) : Instruction(p, v) = "reuse_blob" => HasBytes(v)'
    BY <1>1, <1>2 DEF HasBytes
<1> QED BY <1>4, <1>5, <1>6, <1>7 DEF CustodyHolds

LEMMA PutKeepsBytes ==
    ASSUME TypeOK, CustodyHolds, NEW c \in Captures, NEW v \in Variants, NEW d \in Digests,
           PutContent(c, v, d)
    PROVE  CustodyHolds' /\ KeepsBytes
<1>1. /\ UNCHANGED <<variants, blobs, crashed, attempts>> /\ NoWriter
      /\ files' = files \cup {d}
      /\ upload' = [variant |-> v, digest |-> d, by |-> c, created |-> d \notin files]
      /\ Accepted(c) /\ v \in Bound(c)
    BY DEF PutContent, InstallBytes, UploadAllowed, protocolVars
<1>2. /\ upload'.digest = d /\ upload'.by = c /\ upload'.variant = v
      /\ upload'.created = (d \notin files)
    BY <1>1
<1>3. ~NoWriter'
  <2>1. upload' \in Uploads
    BY <1>1 DEF Uploads
  <2> QED BY <2>1, Constants DEF NoWriter
<1>4. /\ \A f \in files : blobs[f] = "none" => crashed
      /\ \A e \in Digests : blobs[e] # "none" => e \in files
    BY <1>1 DEF CustodyHolds, AvailableHasBytes
<1>5. AvailableHasBytes'
    BY <1>1, <1>2, <1>3, <1>4 DEF CustodyHolds, AvailableHasBytes
<1>6. LockHolds'
  <2>1. upload'.digest \in files' /\ attempts'[upload'.by] # NoAttempt
    BY <1>1, <1>2 DEF Accepted
  <2>2. upload'.variant \in DOMAIN attempts'[upload'.by].actions
    BY <1>1, <1>2 DEF Bound
  <2>3. /\ upload'.created => blobs'[upload'.digest] = "none"
        /\ ~upload'.created /\ blobs'[upload'.digest] = "none" => crashed'
    BY <1>1, <1>2, <1>4
  <2> QED BY <2>1, <2>2, <2>3 DEF LockHolds, Accepted, Bound
<1>7. DigestIsVerified' /\ KeepsBytes
    BY <1>1 DEF CustodyHolds, DigestIsVerified, KeepsBytes, HasBytes
<1> QED BY <1>5, <1>6, <1>7 DEF CustodyHolds

LEMMA FinishKeepsBytes ==
    ASSUME TypeOK, CustodyHolds, FinishContent
    PROVE  CustodyHolds' /\ KeepsBytes /\ variants'[upload.variant].state = "available"
<1>a. PICK v \in Variants, d \in Digests : v = upload.variant /\ d = upload.digest
    BY UnderWay DEF FinishContent, AttachUpload
<1>b. PICK retention : retention = RetentionFor(variants[v].custody)
    OBVIOUS
<1>1. AttachUpload /\ ~NoWriter /\ NoDigest \notin Digests
    BY Constants DEF FinishContent, AttachUpload
<1>2. /\ variants'[v] = Attached(variants[v], d)
      /\ \A w \in Variants \ {v} : variants'[w] = variants[w]
      /\ blobs'[d] = Retained(blobs[d], retention)
      /\ \A e \in Digests \ {d} : blobs'[e] = blobs[e]
    BY <1>1, <1>a, <1>b, AttachWrites
<1>3. CanAttach(variants[v], d, retention) /\ upload' = NoUpload /\ UNCHANGED <<files, crashed>>
    BY <1>1, <1>a, <1>b DEF AttachUpload
<1>4. variants[v] \in VariantRows
    BY DEF TypeOK, CustodyTypeOK
<1>5. /\ variants'[v].state = "available" /\ variants'[v].digest = d
      /\ variants'[v].expected = d /\ variants'[v].custody = variants[v].custody
    BY <1>1, <1>2, <1>4, AttachedRow
<1>6. Backed(variants[v])
    BY <1>1, RowsAreBacked
<1>7. d \in files
    BY <1>1, <1>a DEF CustodyHolds, LockHolds
<1>8. /\ blobs'[d] # "none"
      /\ blobs[d] = "indefinite" => blobs'[d] = "indefinite"
      /\ retention = "indefinite" => blobs'[d] = "indefinite"
    BY <1>2 DEF Retained
<1>9. /\ \A e \in Digests : blobs[e] # "none" => blobs'[e] # "none"
      /\ \A e \in Digests : blobs[e] = "indefinite" => blobs'[e] = "indefinite"
    BY <1>2, <1>8
<1>10. Backed(variants[v])' /\ Verified(variants[v])'
  <2>1. variants[v].custody \in Indefinite => retention = "indefinite"
    BY <1>b DEF RetentionFor, Indefinite
  <2> QED BY <1>1, <1>5, <1>8, <2>1 DEF Backed, Verified
<1>11. ASSUME NEW w \in Variants \ {v} PROVE Backed(variants[w])' /\ Verified(variants[w])'
  <2>1. Backed(variants[w]) /\ Verified(variants[w]) /\ variants'[w] = variants[w]
    BY <1>2, RowsAreBacked
  <2> QED BY <1>9, <2>1 DEF Backed, Verified
<1>12. AvailableHasBytes'
  <2>1. \A w \in Variants : Backed(variants[w])'
    BY <1>10, <1>11
  <2>2. \A f \in files' : blobs'[f] = "none" => crashed'
    <3>1. \A f \in files : blobs[f] = "none" => crashed \/ f = d
      BY <1>a DEF CustodyHolds, AvailableHasBytes
    <3>2. files \subseteq Digests
      BY DEF TypeOK, CustodyTypeOK
    <3> QED BY <3>1, <3>2, <1>3, <1>8, <1>9, <1>2
  <2>3. \A e \in Digests : blobs'[e] # "none" => e \in files'
    BY <1>2, <1>3, <1>7 DEF CustodyHolds, AvailableHasBytes
  <2> QED BY <2>1, <2>2, <2>3 DEF AvailableHasBytes, Backed
<1>13. DigestIsVerified'
    BY <1>10, <1>11 DEF DigestIsVerified, Verified, HasBytes
<1>14. LockHolds'
    BY <1>3 DEF LockHolds, NoWriter
<1>15. KeepsBytes
  <2>1. HasBytes(v) => variants[v].digest = d
    BY <1>1, <1>3, <1>6 DEF HasBytes, Backed, CanAttach, Agree
  <2> QED BY <2>1, <1>2, <1>5, <1>9 DEF KeepsBytes, HasBytes
<1> QED BY <1>a, <1>5, <1>12, <1>13, <1>14, <1>15 DEF CustodyHolds

LEMMA LoseKeepsBytes ==
    ASSUME TypeOK, CustodyHolds, LoseContent
    PROVE  CustodyHolds' /\ KeepsBytes
<1> DEFINE d == upload.digest
<1>1. /\ ~NoWriter /\ upload' = NoUpload /\ UNCHANGED <<variants, blobs>> /\ d \in Digests
      /\ NoDigest \notin Digests
    BY UnderWay, Constants DEF LoseContent, AbortUpload, CrashUpload
<1>2. /\ upload.created => blobs[d] = "none"
      /\ ~upload.created /\ blobs[d] = "none" => crashed
      /\ \A f \in files : blobs[f] = "none" => crashed \/ f = d
      /\ \A e \in Digests : blobs[e] # "none" => e \in files
    BY <1>1 DEF CustodyHolds, LockHolds, AvailableHasBytes
<1>3. /\ \A f \in files' : blobs[f] = "none" => crashed'
      /\ \A e \in Digests : blobs[e] # "none" => e \in files'
  <2>1. CASE AbortUpload
    <3>1. /\ files' = IF upload.created /\ References(d) = {} THEN files \ {d} ELSE files
          /\ crashed' = crashed
      BY <2>1 DEF AbortUpload
    <3>2. blobs[d] = "none" => References(d) = {}
      <4> SUFFICES ASSUME blobs[d] = "none", NEW w \in Variants, variants[w].digest = d PROVE FALSE
        BY DEF References
      <4>1. HasBytes(w) /\ blobs[variants[w].digest] # "none"
        BY <1>1, RowsAreBacked DEF Backed, Verified, HasBytes
      <4> QED BY <4>1
    <3> HIDE DEF d
    <3> QED BY <3>1, <3>2, <1>2
  <2>2. CASE CrashUpload
    <3>1. files' = files /\ crashed' = (crashed \/ upload.created)
      BY <2>2 DEF CrashUpload
    <3> HIDE DEF d
    <3> QED BY <3>1, <1>2
  <2> QED BY <2>1, <2>2 DEF LoseContent
<1>4. AvailableHasBytes'
    BY <1>1, <1>3 DEF CustodyHolds, AvailableHasBytes
<1>5. DigestIsVerified' /\ LockHolds' /\ KeepsBytes
    BY <1>1 DEF CustodyHolds, DigestIsVerified, LockHolds, NoWriter, KeepsBytes, HasBytes
<1> QED BY <1>4, <1>5 DEF CustodyHolds

LEMMA ReportKeepsBytes ==
    ASSUME TypeOK, CustodyHolds, NoWriter, NEW c \in Captures, NEW key \in ReportKeys, NEW report,
           FirstReport(c, key, report)
    PROVE  CustodyHolds' /\ KeepsBytes
<1>1. UNCHANGED <<blobs, files, upload, crashed>>
    BY DEF FirstReport
<1>2. \A v \in Variants : /\ HasBytes(v) => variants'[v] = variants[v]
                          /\ variants'[v].digest = variants[v].digest
                          /\ variants'[v].state = "available" => HasBytes(v)
    BY ReportMarks
<1>3. ASSUME NEW v \in Variants PROVE Backed(variants'[v]) /\ Verified(variants'[v])
  <2>1. Backed(variants[v]) /\ Verified(variants[v])
    BY RowsAreBacked
  <2> QED BY <1>2, <2>1 DEF Backed, Verified, HasBytes
<1>4. AvailableHasBytes'
    BY <1>1, <1>3 DEF CustodyHolds, AvailableHasBytes, Backed, NoWriter
<1>5. DigestIsVerified' /\ LockHolds' /\ KeepsBytes
    BY <1>1, <1>2, <1>3 DEF DigestIsVerified, LockHolds, NoWriter, Verified, KeepsBytes, HasBytes
<1> QED BY <1>4, <1>5 DEF CustodyHolds

LEMMA AcquireKeepsBytes ==
    ASSUME TypeOK, CustodyHolds, NEW a \in AcquisitionIds, NEW t \in Targets,
           NEW custody \in Custodies \ {"reference"}, Acquire(a, t, custody)
    PROVE  CustodyHolds' /\ KeepsBytes
<1>1. PICK v \in Variants :
          /\ variants' = [variants EXCEPT ![v] = Acquired(@, custody)]
          /\ variants[v].digest # NoDigest /\ RetentionFor(custody) = "indefinite"
                 => /\ blobs'[variants[v].digest] = "indefinite"
                    /\ \A d \in Digests \ {variants[v].digest} : blobs'[d] = blobs[d]
          /\ ~(variants[v].digest # NoDigest /\ RetentionFor(custody) = "indefinite")
                 => blobs' = blobs
    BY AcquireWrites DEF Acquire
<1>2. NoWriter /\ UNCHANGED <<files, upload, crashed>>
    BY DEF Acquire, RequestAssetAcquisition
<1>3. variants \in [Variants -> VariantRows]
    BY DEF TypeOK, CustodyTypeOK
<1>4. /\ variants'[v] = Acquired(variants[v], custody)
      /\ \A w \in Variants \ {v} : variants'[w] = variants[w]
    BY <1>1, <1>3
<1>5. /\ variants'[v].custody = custody
      /\ variants'[v].digest = variants[v].digest /\ variants'[v].expected = variants[v].expected
      /\ variants'[v].state = "available" <=> variants[v].state = "available"
    BY <1>3, <1>4, AcquiredRow
<1>6. Backed(variants[v]) /\ Verified(variants[v])
    BY RowsAreBacked
<1>7. /\ \A e \in Digests : blobs'[e] = "none" <=> blobs[e] = "none"
      /\ \A e \in Digests : blobs[e] = "indefinite" => blobs'[e] = "indefinite"
  <2>1. CASE variants[v].digest # NoDigest /\ RetentionFor(custody) = "indefinite"
    <3>1. blobs[variants[v].digest] # "none"
      BY <1>6, <2>1 DEF Backed, Verified
    <3>2. /\ blobs'[variants[v].digest] = "indefinite"
          /\ \A d \in Digests \ {variants[v].digest} : blobs'[d] = blobs[d]
      BY <1>1, <2>1
    <3> QED BY <3>1, <3>2
  <2>2. CASE ~(variants[v].digest # NoDigest /\ RetentionFor(custody) = "indefinite")
    BY <1>1, <2>2
  <2> QED BY <2>1, <2>2
<1>8. Backed(variants[v])' /\ Verified(variants[v])'
  <2>1. custody \in Indefinite => RetentionFor(custody) = "indefinite"
    BY DEF RetentionFor, Indefinite
  <2>2. HasBytes(v) => variants[v].digest \in Digests /\ variants[v].digest # NoDigest
    BY <1>6, Constants DEF Backed, HasBytes
  <2>3. Verified(variants[v])'
    BY <1>5, <1>6 DEF Verified
  <2>4. variants'[v].state = "available" /\ variants'[v].custody \in Indefinite
           => blobs'[variants'[v].digest] = "indefinite"
    BY <1>1, <1>5, <2>1, <2>2 DEF HasBytes
  <2> QED BY <1>5, <1>6, <1>7, <2>3, <2>4 DEF Backed
<1>9. ASSUME NEW w \in Variants \ {v} PROVE Backed(variants[w])' /\ Verified(variants[w])'
  <2>1. Backed(variants[w]) /\ Verified(variants[w]) /\ variants'[w] = variants[w]
    BY <1>4, RowsAreBacked
  <2> QED BY <1>7, <2>1 DEF Backed, Verified
<1>10. AvailableHasBytes'
  <2>1. \A w \in Variants : Backed(variants[w])'
    BY <1>8, <1>9
  <2>2. files \subseteq Digests
    BY DEF TypeOK, CustodyTypeOK
  <2> QED BY <2>1, <2>2, <1>2, <1>7 DEF CustodyHolds, AvailableHasBytes, Backed, NoWriter
<1>11. DigestIsVerified'
    BY <1>8, <1>9 DEF DigestIsVerified, Verified, HasBytes
<1>12. LockHolds'
    BY <1>2 DEF LockHolds, NoWriter
<1>13. KeepsBytes
    BY <1>4, <1>5, <1>7 DEF KeepsBytes
<1> QED BY <1>10, <1>11, <1>12, <1>13 DEF CustodyHolds

\* The steps that do not touch the tables of custody.
LEMMA OthersKeepBytes ==
    ASSUME CustodyHolds, UNCHANGED <<custodyVars, attempts>>
    PROVE  CustodyHolds' /\ KeepsBytes
BY DEF custodyVars, CustodyHolds, AvailableHasBytes, DigestIsVerified, LockHolds, KeepsBytes,
       HasBytes, NoWriter, Accepted, Bound

LEMMA CustodyKept == TypeOK /\ CustodyHolds /\ [Next]_vars => CustodyHolds' /\ KeepsBytes
<1> SUFFICES ASSUME TypeOK, CustodyHolds, [Next]_vars PROVE CustodyHolds' /\ KeepsBytes
    OBVIOUS
<1>1. ASSUME NEW c \in Captures, NEW p \in Payloads, AcceptNew(c, p) \/ AcceptAgain(c, p)
      PROVE  CustodyHolds' /\ KeepsBytes
    BY <1>1, AcceptKeepsBytes, OthersKeepBytes DEF AcceptAgain
<1>2. ASSUME NEW c \in Captures, NEW v \in Variants, NEW d \in Digests, PutContent(c, v, d)
      PROVE  CustodyHolds' /\ KeepsBytes
    BY <1>2, PutKeepsBytes
<1>3. CASE FinishContent \/ LoseContent
    BY <1>3, FinishKeepsBytes, LoseKeepsBytes
<1>4. ASSUME NEW c \in Captures, NEW key \in ReportKeys,
             NEW report \in [Bound(c) -> Reported], CompleteCapture(c, key, report)
      PROVE  CustodyHolds' /\ KeepsBytes
    BY <1>4, ReportKeepsBytes, OthersKeepBytes DEF CompleteCapture, ReportAgain
<1>5. ASSUME NEW a \in AcquisitionIds, NEW t \in Targets, NEW custody \in Custodies \ {"reference"},
             Acquire(a, t, custody)
      PROVE  CustodyHolds' /\ KeepsBytes
    BY <1>5, AcquireKeepsBytes
<1>6. CASE UNCHANGED vars
    BY <1>6, OthersKeepBytes DEF vars, protocolVars
<1> QED BY <1>1, <1>2, <1>3, <1>4, <1>5, <1>6 DEF Next

(***************************************************************************)
(* Answers.  What is promised of one capture, and what is said of it.      *)
(***************************************************************************)
Promised(c) ==
    Accepted(c) =>
        /\ \A v \in Bound(c) : outcomes[c][v] \in Stored => HasBytes(v)
        /\ attempts[c].completion = "complete" =>
               \A v \in Bound(c) :
                   attempts[c].actions[v] \in {"request_upload", "reuse_blob", "rejected"} => HasBytes(v)
        /\ \A v \in Bound(c) : attempts[c].actions[v] = "reuse_blob" => HasBytes(v)

Said(c) ==
    /\ told[c].accepted \subseteq (IF Accepted(c) THEN {attempts[c].actions} ELSE {})
    /\ told[c].completed \subseteq (IF reports[c] # NoReport THEN {reports[c].status} ELSE {})

LEMMA ByCapture == AnswersHold <=> \A c \in Captures : Promised(c) /\ Said(c)
BY DEF AnswersHold, OutcomeIsBacked, ReuseIsBacked, AnswersAreStored, Promised, Said

LEMMA ByCaptureNext == (\A c \in Captures : Promised(c)' /\ Said(c)') => AnswersHold'
BY DEF AnswersHold, OutcomeIsBacked, ReuseIsBacked, AnswersAreStored, Promised, Said

\* While bytes are kept, a capture whose rows stay keeps its promises.
LEMMA StillPromised ==
    ASSUME TypeOK, KeepsBytes, NEW c \in Captures, Promised(c),
           attempts'[c] = attempts[c], outcomes'[c] = outcomes[c]
    PROVE  Promised(c)'
<1>1. ASSUME Accepted(c) PROVE \A v \in Bound(c) : HasBytes(v) => HasBytes(v)'
    BY <1>1, AttemptShape DEF KeepsBytes, HasBytes
<1>2. (Accepted(c)' <=> Accepted(c)) /\ Bound(c)' = Bound(c)
    BY DEF Accepted, Bound
<1> QED BY <1>1, <1>2 DEF Promised

LEMMA StillSaid ==
    ASSUME NEW c \in Captures, Said(c),
           attempts'[c] = attempts[c], reports'[c] = reports[c], told'[c] = told[c]
    PROVE  Said(c)'
BY DEF Said, Accepted

LEMMA AnswersStay ==
    ASSUME TypeOK, KeepsBytes, AnswersHold, UNCHANGED protocolVars
    PROVE  AnswersHold'
<1>1. \A c \in Captures : Promised(c)' /\ Said(c)'
    BY ByCapture, StillPromised, StillSaid DEF protocolVars
<1> QED BY <1>1, ByCaptureNext

LEMMA AcceptAnswers ==
    ASSUME TypeOK, CustodyHolds, AnswersHold, NEW c \in Captures, NEW p \in Payloads, AcceptNew(c, p)
    PROVE  AnswersHold'
<1> DEFINE answer == [v \in Manifest(p) |-> Instruction(p, v)]
           row == [payload |-> p, actions |-> answer, completion |-> "accepting"]
<1>1. /\ KeepsBytes
      /\ \A v \in Manifest(p) : Instruction(p, v) = "reuse_blob" => HasBytes(v)'
    BY AcceptKeepsBytes
<1>2. /\ attempts' = [attempts EXCEPT ![c] = row]
      /\ told' = [told EXCEPT ![c].accepted = @ \cup {answer}]
      /\ outcomes' = [outcomes EXCEPT ![c] = [v \in Manifest(p) |-> "none"]]
      /\ reports' = reports /\ ~Accepted(c)
    BY DEF AcceptNew
<1>3. /\ attempts \in [Captures -> AllAttempts \cup {NoAttempt}] /\ DOMAIN outcomes = Captures
      /\ told \in [Captures -> AllAnswers]
    BY DEF TypeOK
<1>4. /\ attempts'[c] = row /\ outcomes'[c] = [v \in Manifest(p) |-> "none"]
      /\ told'[c].accepted = told[c].accepted \cup {answer}
      /\ told'[c].completed = told[c].completed
      /\ \A k \in Captures \ {c} : /\ attempts'[k] = attempts[k] /\ outcomes'[k] = outcomes[k]
                                   /\ told'[k] = told[k]
  <2>1. told[c] \in AllAnswers
    BY <1>3
  <2>2. told'[c] = [told[c] EXCEPT !.accepted = @ \cup {answer}]
    BY <1>2, <1>3
  <2> HIDE DEF answer, row
  <2>3. told'[c].accepted = told[c].accepted \cup {answer} /\ told'[c].completed = told[c].completed
    BY <2>1, <2>2 DEF AllAnswers
  <2> QED BY <1>2, <1>3, <2>3
<1>5. Promised(c)'
  <2>1. attempts'[c].actions = answer /\ attempts'[c].completion = "accepting"
    BY <1>4
  <2>2. Bound(c)' = Manifest(p)
    BY <2>1 DEF Bound
  <2> HIDE DEF row
  <2> QED BY <1>1, <1>4, <2>1, <2>2 DEF Promised, Stored
<1>6. Said(c)'
  <2>1. told[c].accepted = {} /\ Said(c)
    BY <1>2, ByCapture DEF Said
  <2>2. Accepted(c)'
    <3>2. row \in AttemptRows(p)
      <4>1. answer \in [Manifest(p) -> Actions]
        <5>1. ASSUME NEW v \in Manifest(p) PROVE Instruction(p, v) \in Actions
          <6>1. ManifestOf[p][v].action \in Actions
            BY Constants DEF ManifestRows
          <6> QED BY <6>1 DEF Instruction, Actions
        <5> QED BY <5>1
      <4> HIDE DEF answer
      <4> QED BY <4>1 DEF AttemptRows
    <3> HIDE DEF row
    <3> QED BY <1>4, <3>2, Constants DEF Accepted
  <2>3. attempts'[c].actions = answer
    BY <1>4
  <2> HIDE DEF answer, row
  <2> QED BY <1>2, <1>4, <2>1, <2>2, <2>3 DEF Said
<1>7. ASSUME NEW k \in Captures \ {c} PROVE Promised(k)' /\ Said(k)'
    BY <1>1, <1>2, <1>4, ByCapture, StillPromised, StillSaid
<1>8. \A k \in Captures : Promised(k)' /\ Said(k)'
    BY <1>5, <1>6, <1>7
<1> QED BY <1>8, ByCaptureNext

LEMMA AcceptAgainAnswers ==
    ASSUME TypeOK, KeepsBytes, AnswersHold, NEW c \in Captures, NEW p \in Payloads, AcceptAgain(c, p)
    PROVE  AnswersHold'
<1>1. /\ UNCHANGED <<attempts, outcomes, reports>> /\ Accepted(c)
      /\ told' = [told EXCEPT ![c].accepted = @ \cup {attempts[c].actions}]
      /\ told \in [Captures -> AllAnswers]
    BY DEF AcceptAgain, TypeOK
<1>2. /\ told'[c].accepted = told[c].accepted \cup {attempts[c].actions}
      /\ told'[c].completed = told[c].completed
      /\ \A k \in Captures \ {c} : told'[k] = told[k]
    BY <1>1 DEF AllAnswers
<1>3. Said(c)'
    BY <1>1, <1>2, ByCapture DEF Said, Accepted
<1>4. \A k \in Captures \ {c} : Said(k)'
    BY <1>1, <1>2, ByCapture, StillSaid
<1>5. \A k \in Captures : Promised(k)'
    BY <1>1, ByCapture, StillPromised
<1>6. \A k \in Captures : Promised(k)' /\ Said(k)'
    BY <1>3, <1>4, <1>5
<1> QED BY <1>6, ByCaptureNext

LEMMA FinishAnswers ==
    ASSUME TypeOK, CustodyHolds, AnswersHold, FinishContent
    PROVE  AnswersHold'
<1>1. /\ KeepsBytes /\ variants'[upload.variant].state = "available"
    BY FinishKeepsBytes
<1>2. PICK c \in Captures, v \in Variants : c = upload.by /\ v = upload.variant
    BY UnderWay DEF FinishContent, AttachUpload
<1>3. PICK to : to = IF attempts[c].completion = "accepting" THEN "transferring" ELSE attempts[c].completion
    OBVIOUS
<1>4. /\ attempts' = [attempts EXCEPT ![c].completion = to]
      /\ outcomes' = [outcomes EXCEPT ![c][v] = "uploaded"]
      /\ UNCHANGED <<reports, told>> /\ DOMAIN outcomes = Captures
    BY <1>2, <1>3 DEF FinishContent, TypeOK
<1>5. Accepted(c) /\ v \in Bound(c)
    BY <1>2 DEF FinishContent, AttachUpload, CustodyHolds, LockHolds
<1>6. to \in {"accepting", "transferring"} \cup Terminal
    BY <1>3, <1>5, AttemptShape DEF AttemptRows
<1>7. /\ \A k \in Captures :
             /\ Accepted(k)' <=> Accepted(k)
             /\ attempts'[k].actions = attempts[k].actions /\ Bound(k)' = Bound(k)
      /\ attempts'[c].completion = to
      /\ \A k \in Captures \ {c} : attempts'[k] = attempts[k]
    BY <1>4, <1>5, <1>6, MovedOn
<1>8. /\ outcomes'[c] = [outcomes[c] EXCEPT ![v] = "uploaded"]
      /\ \A k \in Captures \ {c} : outcomes'[k] = outcomes[k]
    BY <1>4
<1>9. Promised(c)'
  <2>1. \A w \in Bound(c) : HasBytes(w) => HasBytes(w)'
    BY <1>1, <1>5, AttemptShape DEF KeepsBytes, HasBytes
  <2>2. HasBytes(v)'
    BY <1>1, <1>2 DEF HasBytes
  <2>3. \A w \in Bound(c) \ {v} : outcomes'[c][w] = outcomes[c][w]
    BY <1>5, <1>8, AttemptShape
  <2>4. Promised(c)
    BY ByCapture
  <2>5. to = "complete" => attempts[c].completion = "complete"
    BY <1>3
  <2>6. \A w \in Bound(c) : outcomes'[c][w] \in Stored => HasBytes(w)'
    BY <1>5, <2>1, <2>2, <2>3, <2>4 DEF Promised
  <2>7. to = "complete" => \A w \in Bound(c) :
            attempts[c].actions[w] \in {"request_upload", "reuse_blob", "rejected"} => HasBytes(w)'
    BY <1>5, <2>1, <2>4, <2>5 DEF Promised
  <2>8. \A w \in Bound(c) : attempts[c].actions[w] = "reuse_blob" => HasBytes(w)'
    BY <1>5, <2>1, <2>4 DEF Promised
  <2> QED BY <1>7, <2>6, <2>7, <2>8 DEF Promised
<1>10. \A k \in Captures \ {c} : Promised(k)'
    BY <1>1, <1>7, <1>8, ByCapture, StillPromised
<1>11. \A k \in Captures : Said(k)'
    BY <1>4, <1>7, ByCapture DEF Said
<1>12. \A k \in Captures : Promised(k)' /\ Said(k)'
    BY <1>9, <1>10, <1>11
<1> QED BY <1>12, ByCaptureNext

\* What the first report says is what the tables bear out.
LEMMA ReportAnswers ==
    ASSUME TypeOK, KeepsBytes, AnswersHold, NEW c \in Captures, NEW key \in ReportKeys,
           NEW report \in [Bound(c) -> Reported], Accepted(c), FirstReport(c, key, report)
    PROVE  AnswersHold'
<1> DEFINE to == IF \E v \in Bound(c) : LeavesPartial(c, v, report[v]) THEN "partial" ELSE "complete"
           final == [v \in Bound(c) |-> FinalOutcome(c, v, report[v])]
           status == [completion |-> to, outcomes |-> final]
           row == [key |-> key, said |-> report, status |-> status]
<1>1. /\ to \in Terminal
      /\ row \in ReportRows(attempts[c].payload)
      /\ attempts' = [attempts EXCEPT ![c].completion = to]
      /\ outcomes' = [outcomes EXCEPT ![c] = final]
      /\ reports' = [reports EXCEPT ![c] = row]
      /\ told' = [told EXCEPT ![c].completed = @ \cup {status}]
    BY ReportWrites
<1>2. /\ row.status = status
      /\ \A v \in Bound(c) : final[v] = FinalOutcome(c, v, report[v])
      /\ to = "complete" => \A v \in Bound(c) : ~LeavesPartial(c, v, report[v])
    OBVIOUS
<1>3. ReportIsCredible(c, report) /\ reports[c] = NoReport
    BY DEF FirstReport
<1>4. attempts[c].payload \in Payloads /\ row # NoReport
    BY <1>1, AttemptShape, Constants
<1> HIDE DEF to, final, status, row
<1>5. /\ \A k \in Captures :
             /\ Accepted(k)' <=> Accepted(k)
             /\ attempts'[k].actions = attempts[k].actions /\ Bound(k)' = Bound(k)
      /\ attempts'[c].completion = to
      /\ \A k \in Captures \ {c} : attempts'[k] = attempts[k]
    BY <1>1, MovedOn
<1>6. /\ DOMAIN outcomes = Captures /\ told \in [Captures -> AllAnswers]
      /\ reports \in [Captures -> AllReports \cup {NoReport}]
    BY DEF TypeOK
<1>7. /\ outcomes'[c] = final /\ \A k \in Captures \ {c} : outcomes'[k] = outcomes[k]
      /\ reports'[c] = row /\ \A k \in Captures \ {c} : reports'[k] = reports[k]
    BY <1>1, <1>6
<1>8. /\ told'[c].completed = told[c].completed \cup {status}
      /\ told'[c].accepted = told[c].accepted
      /\ \A k \in Captures \ {c} : told'[k] = told[k]
    BY <1>1, <1>6 DEF AllAnswers
<1>9. \A v \in Bound(c) : HasBytes(v) => HasBytes(v)'
    BY AttemptShape DEF KeepsBytes, HasBytes
<1>10. \A v \in Bound(c) : final[v] \in Stored => HasBytes(v)
    BY <1>2, <1>3 DEF FinalOutcome, ReportIsCredible, Stored, Reported
<1>11. Promised(c)
    BY ByCapture
<1>12. to = "complete" => \A v \in Bound(c) :
           attempts[c].actions[v] \in {"request_upload", "reuse_blob", "rejected"} => HasBytes(v)
    BY <1>2, <1>11 DEF LeavesPartial, Promised
<1>13. \A v \in Bound(c) : attempts[c].actions[v] = "reuse_blob" => HasBytes(v)
    BY <1>11 DEF Promised
<1>14. Promised(c)'
    BY <1>5, <1>7, <1>9, <1>10, <1>12, <1>13 DEF Promised
<1>15. Said(c)'
    BY <1>2, <1>3, <1>4, <1>5, <1>7, <1>8, ByCapture DEF Said
<1>16. \A k \in Captures \ {c} : Promised(k)' /\ Said(k)'
    BY <1>5, <1>7, <1>8, ByCapture, StillPromised, StillSaid
<1>17. \A k \in Captures : Promised(k)' /\ Said(k)'
    BY <1>14, <1>15, <1>16
<1> QED BY <1>17, ByCaptureNext

LEMMA ReportAgainAnswers ==
    ASSUME TypeOK, KeepsBytes, AnswersHold, NEW c \in Captures, NEW key, NEW report,
           ReportAgain(c, key, report)
    PROVE  AnswersHold'
<1>1. /\ UNCHANGED <<attempts, outcomes, reports>> /\ reports[c] # NoReport
      /\ told' = [told EXCEPT ![c].completed = @ \cup {reports[c].status}]
      /\ told \in [Captures -> AllAnswers]
    BY DEF ReportAgain, TypeOK
<1>2. /\ told'[c].completed = told[c].completed \cup {reports[c].status}
      /\ told'[c].accepted = told[c].accepted
      /\ \A k \in Captures \ {c} : told'[k] = told[k]
    BY <1>1 DEF AllAnswers
<1>3. Said(c)'
    BY <1>1, <1>2, ByCapture DEF Said, Accepted
<1>4. \A k \in Captures \ {c} : Said(k)'
    BY <1>1, <1>2, ByCapture, StillSaid
<1>5. \A k \in Captures : Promised(k)'
    BY <1>1, ByCapture, StillPromised
<1>6. \A k \in Captures : Promised(k)' /\ Said(k)'
    BY <1>3, <1>4, <1>5
<1> QED BY <1>6, ByCaptureNext

LEMMA AnswersKept == TypeOK /\ CustodyHolds /\ AnswersHold /\ [Next]_vars => AnswersHold'
<1> SUFFICES ASSUME TypeOK, CustodyHolds, AnswersHold, [Next]_vars PROVE AnswersHold'
    OBVIOUS
<1>0. KeepsBytes
    BY CustodyKept
<1>1. ASSUME NEW c \in Captures, NEW p \in Payloads, AcceptNew(c, p) \/ AcceptAgain(c, p)
      PROVE  AnswersHold'
    BY <1>0, <1>1, AcceptAnswers, AcceptAgainAnswers
<1>2. ASSUME NEW c \in Captures, NEW v \in Variants, NEW d \in Digests, PutContent(c, v, d)
      PROVE  AnswersHold'
    BY <1>0, <1>2, AnswersStay DEF PutContent
<1>3. CASE FinishContent \/ LoseContent
    BY <1>0, <1>3, FinishAnswers, AnswersStay DEF LoseContent
<1>4. ASSUME NEW c \in Captures, Accepted(c), NEW key \in ReportKeys,
             NEW report \in [Bound(c) -> Reported], CompleteCapture(c, key, report)
      PROVE  AnswersHold'
    BY <1>0, <1>4, ReportAnswers, ReportAgainAnswers DEF CompleteCapture
<1>5. ASSUME NEW a \in AcquisitionIds, NEW t \in Targets, NEW custody \in Custodies \ {"reference"},
             Acquire(a, t, custody)
      PROVE  AnswersHold'
    BY <1>0, <1>5, AnswersStay DEF Acquire
<1>6. CASE UNCHANGED vars
    BY <1>0, <1>6, AnswersStay DEF vars
<1> QED BY <1>1, <1>2, <1>3, <1>4, <1>5, <1>6 DEF Next

(***************************************************************************)
(* The theorems.                                                           *)
(***************************************************************************)
LEMMA CaptureStarts == Init => CaptureInv
<1> SUFFICES ASSUME Init PROVE CaptureInv
    OBVIOUS
<1>1. Absent \in VariantRows
    BY DEF Absent, VariantRows, Custodies
<1>2. /\ variants \in [Variants -> VariantRows]
      /\ \A v \in Variants : variants[v].state = "absent" /\ variants[v].digest = NoDigest
    BY <1>1 DEF Init, CustodyInit, Absent
<1>3. CustodyTypeOK
  <2>1. MaxFaults \in 0..MaxFaults
    BY Constants
  <2>2. faults \in 0..MaxFaults
    BY <2>1 DEF Init, CustodyInit
  <2>3. acquisitions \in [AcquisitionIds -> Acquisitions \cup {NoVariant}]
    BY DEF Init, CustodyInit
  <2> QED BY <1>2, <2>2, <2>3 DEF Init, CustodyInit, CustodyTypeOK
<1>4. \A c \in Captures : ~Accepted(c) /\ reports[c] = NoReport
                          /\ told[c].accepted = {} /\ told[c].completed = {}
    BY DEF Init, Accepted
<1>5. told \in [Captures -> AllAnswers]
    BY DEF Init, AllAnswers
<1>6. TypeOK
    BY <1>3, <1>4, <1>5 DEF Init, CustodyInit, TypeOK
<1>7. CustodyHolds
    BY <1>2 DEF Init, CustodyInit, CustodyHolds, AvailableHasBytes, DigestIsVerified, LockHolds, NoWriter
<1>8. AnswersHold
    BY <1>4 DEF AnswersHold, OutcomeIsBacked, ReuseIsBacked, AnswersAreStored
<1> QED BY <1>6, <1>7, <1>8 DEF CaptureInv

\* Rows, blobs and files of every upload, acceptance, acquisition and report keep
\* their types, the write lock protects what the upload checked, and the snapshots
\* are what was answered.
THEOREM CaptureInvariantHolds == Spec => []CaptureInv
<1>1. CaptureInv /\ [Next]_vars => CaptureInv'
    BY TypesKept, CustodyKept, AnswersKept DEF CaptureInv, CustodyHolds
<1> QED BY CaptureStarts, <1>1, PTL DEF Spec

\* Every blob row and every available variant has its verified file on disk, promised
\* bytes are kept indefinitely, and only a crash leaves a file without a row
\* (StoreVariantContentAtomic, AttachBlobOn).
THEOREM BytesAreBacked == Spec => []AvailableHasBytes
<1>1. CaptureInv => AvailableHasBytes
    BY DEF CaptureInv, CustodyHolds
<1> QED BY CaptureInvariantHolds, <1>1, PTL

\* No failure report, later manifest or custody request degrades verified bytes or
\* lowers a retention (CompleteCapture, upsertAssetVariant, RequestAssetAcquisition).
THEOREM BytesStay == Spec => BytesAreKept
<1>1. CaptureInv /\ [Next]_vars => KeepsBytes
    BY CustodyKept DEF CaptureInv
<1>2. CaptureInv /\ [Next]_vars => [KeepsBytes]_custodyVars
    BY <1>1
<1> QED BY CaptureInvariantHolds, <1>2, PTL DEF Spec, BytesAreKept

\* A capture is told that bytes are stored, or that it is complete, only when they are
\* (CompleteCapture, RecordUploadedOutcomeOn).
THEOREM OutcomesAreBacked == Spec => []OutcomeIsBacked
<1>1. CaptureInv => OutcomeIsBacked
    BY DEF CaptureInv, AnswersHold
<1> QED BY CaptureInvariantHolds, <1>1, PTL

\* A repeated acceptance or report gets the answer of the first time (the snapshots
\* of capture_attempts and capture_completion_reports).
THEOREM RepeatsGetTheFirstAnswer == Spec => []AnswersAreStable
<1>1. ASSUME NEW A, NEW x, A \subseteq {x} PROVE Cardinality(A) <= 1
  <2>1. IsFiniteSet({x}) /\ Cardinality({x}) = 1
    BY FS_Singleton
  <2>2. IsFiniteSet(A) /\ Cardinality(A) <= Cardinality({x})
    BY <1>1, <2>1, FS_Subset
  <2> QED BY <2>1, <2>2
<1>2. Cardinality({}) <= 1
    BY FS_EmptySet
<1>3. CaptureInv => AnswersAreStable
  <2> SUFFICES ASSUME AnswersAreStored, NEW c \in Captures
               PROVE  Cardinality(told[c].accepted) <= 1 /\ Cardinality(told[c].completed) <= 1
    BY DEF CaptureInv, AnswersHold, AnswersAreStable
  <2>1. told[c].accepted = {} \/ told[c].accepted \subseteq {attempts[c].actions}
    BY DEF AnswersAreStored
  <2>2. told[c].completed = {} \/ told[c].completed \subseteq {reports[c].status}
    BY DEF AnswersAreStored
  <2> QED BY <1>1, <1>2, <2>1, <2>2
<1> QED BY CaptureInvariantHolds, <1>3, PTL

(***************************************************************************)
(* Publication.                                                            *)
(***************************************************************************)

Kept(p, a) == places[p].copies[a] \in {"short", "whole"}

(***************************************************************************)
(* The inductive invariant.  A publisher has its directory to itself while *)
(* it is thorough or while nothing has disturbed the directory; then what  *)
(* it has done so far stands there, and what it has not is still to come   *)
(* or was there before.                                                    *)
(***************************************************************************)
Busy(u) == publishers[u].step # "ready"
Writer(u) == Busy(u) /\ Writes(publishers[u].d)
Sole(u) == Writer(u) /\ OfOne(Place(u)) /\ (publishers[u].thorough = TRUE \/ Place(u) \notin disturbed)

\* The steps of each kind of destination, and the attachments each step knows.
StepsFit(u) ==
    LET w == publishers[u] IN
    Busy(u) =>
        /\ w.f \in Fragments /\ w.d \in Destinations /\ w.from \in PathRows
        /\ Kind(u) = "remote" => w.step \in {"calling", "logging"}
        /\ w.step = "calling" => Kind(u) = "remote"
        /\ w.done \cap w.todo = {}
        /\ w.step = "filling" => /\ w.at \in Attachments
                                 /\ w.at \notin w.done /\ w.at \notin w.todo
                                 /\ Kind(u) = "bundle" => w.from[w.at] # Place(u)
        /\ w.step \in {"recording", "logging"} /\ Kind(u) # "remote" => w.todo = {}
        /\ w.step \in {"opening", "writing"} /\ Kind(u) = "bundle" => w.todo = {}

TextIsThere(u) ==
    \/ Kind(u) = "file" /\ publishers[u].step \notin {"opening", "writing"}
    \/ publishers[u].step \in {"recording", "logging"}

Pending(u, a) ==
    \/ a \in publishers[u].todo
    \/ publishers[u].step = "filling" /\ publishers[u].at = a

WorkStands(u) ==
    LET w == publishers[u] IN
    Sole(u) =>
        /\ TextIsThere(u) => places[Place(u)].text = <<w.f, w.text>>
        /\ \A a \in w.done : Kept(Place(u), a)
        /\ Place(u) \notin disturbed => \A a \in w.todo : w.from[a] = Place(u) => Kept(Place(u), a)
        /\ \A a \in Attachments :
               attached[w.f][a] = Place(u) => a \in w.done \/ Pending(u, a) \/ Kept(Place(u), a)
        /\ w.step # "logging" =>
               \A a \in Attachments : attached[w.f][a] = Place(u) => w.from[a] = Place(u)

\* Where two deliver to one directory, both have lost it.
Crowded ==
    \A u, v \in Publishers :
        u # v /\ Writer(u) /\ Writer(v) /\ Place(u) = Place(v)
            => Place(u) \in disturbed /\ publishers[u].thorough = FALSE

\* An attachment is recorded in a directory of its fragment.
PathsAreOwn ==
    \A f \in Fragments, a \in Attachments :
        attached[f][a] \in Places => \E d \in Destinations : PlaceOf[d, f] = attached[f][a]

PubInv ==
    /\ PublicationTypeOK
    /\ \A u \in Publishers : StepsFit(u) /\ WorkStands(u)
    /\ Crowded /\ PathsAreOwn /\ PublicationStands

--------------------------------------------------------------------------------
LEMMA FirstStates ==
    ASSUME PublicationAssumption
    PROVE  PublicationInit => PubInv
<1> SUFFICES ASSUME PublicationInit PROVE PubInv
    OBVIOUS
<1>r. Ready \in PublisherRows
    BY DEF Ready, PublisherRows, Texts, PublicationAssumption
<1>1. PublicationTypeOK
  <2>1. text \in [Fragments -> Texts]
      BY DEF PublicationInit, Texts, PublicationAssumption
  <2>2. attached \in [Fragments -> PathRows]
      BY DEF PublicationInit, PathRows
  <2>3. places \in [Places -> PlaceRows]
      BY DEF PublicationInit, PlaceRows, Untouched, CopyStates
  <2>4. publishers \in [Publishers -> PublisherRows]
      BY <1>r DEF PublicationInit
  <2>5. standing \in [Places -> [f : Fragments, text : Texts, copies : SUBSET Attachments] \cup {Nowhere}]
      BY DEF PublicationInit
  <2>6. /\ received \in [Destinations -> [Fragments -> Nat]]
        /\ delivered \in [Destinations -> [Fragments -> Nat]]
      BY DEF PublicationInit
  <2>7. /\ sources \subseteq Attachments /\ disturbed \subseteq Places
        /\ failures \in 0..MaxFailures /\ deliveries \in 0..MaxDeliveries
      BY DEF PublicationInit, PublicationAssumption
  <2> QED BY <2>1, <2>2, <2>3, <2>4, <2>5, <2>6, <2>7 DEF PublicationTypeOK
<1>2. \A u \in Publishers : publishers[u].step = "ready"
    BY DEF PublicationInit, Ready
<1>3. \A f \in Fragments, a \in Attachments : attached[f][a] \notin Places
    BY DEF PublicationInit, PublicationAssumption
<1>4. \A u \in Publishers : StepsFit(u) /\ WorkStands(u)
    BY <1>2 DEF StepsFit, WorkStands, Sole, Writer, Busy
<1>5. Crowded /\ PathsAreOwn
    BY <1>2, <1>3 DEF Crowded, PathsAreOwn, Writer, Busy
<1>6. PublicationStands
    BY <1>3 DEF PublicationStands, PublicationInit
<1> QED BY <1>1, <1>4, <1>5, <1>6 DEF PubInv

LEMMA PlacesAreThere ==
    ASSUME PublicationAssumption, NEW u \in Publishers, Busy(u), StepsFit(u)
    PROVE  Place(u) \in Places
BY DEF PublicationAssumption, StepsFit, Place

LEMMA KindsAreKnown ==
    ASSUME PublicationAssumption, NEW u \in Publishers, Busy(u), StepsFit(u)
    PROVE  /\ Kind(u) \in {"file", "bundle", "remote"}
           /\ Writes(publishers[u].d) <=> Kind(u) # "remote"
BY DEF PublicationAssumption, StepsFit, Kind, Writes

--------------------------------------------------------------------------------
(***************************************************************************)
(* A publisher that goes on with its delivery changes nothing but its own  *)
(* directory and the paths recorded there, so everybody else's stand.      *)
(***************************************************************************)
Stays(u) ==
    /\ \A v \in Publishers \ {u} : publishers'[v] = publishers[v]
    /\ Writer(u) /\ publishers'[u].step # "ready"
    /\ publishers'[u].f = publishers[u].f /\ publishers'[u].d = publishers[u].d
    /\ publishers'[u].thorough = TRUE => publishers[u].thorough = TRUE
    /\ disturbed' = disturbed /\ standing' = standing
    /\ \A p \in Places \ {Place(u)} : places'[p] = places[p]
    /\ \A f \in Fragments, a \in Attachments :
           attached'[f][a] # attached[f][a] => f = publishers[u].f /\ attached'[f][a] = Place(u)

LEMMA TheRestStands ==
    ASSUME PublicationAssumption, PubInv, NEW u \in Publishers, Stays(u), PublicationTypeOK',
           StepsFit(u)', WorkStands(u)'
    PROVE  PubInv'
<1>p. Place(u)' = Place(u) /\ Place(u) \in Places /\ Writer(u)'
    BY PlacesAreThere DEF Stays, Place, Writer, Busy, PubInv
<1>r. \A v \in Publishers \ {u} : /\ Place(v)' = Place(v) /\ Kind(v)' = Kind(v)
                                  /\ Writer(v)' <=> Writer(v)
                                  /\ Busy(v)' <=> Busy(v)
    BY DEF Stays, Place, Kind, Writer, Busy
<1>1. \A v \in Publishers \ {u} : StepsFit(v)'
    BY <1>r DEF PubInv, StepsFit, Stays
<1>2. Crowded'
  <2> SUFFICES ASSUME NEW v \in Publishers, NEW x \in Publishers, v # x,
                      Writer(v)', Writer(x)', Place(v)' = Place(x)'
               PROVE  Place(v)' \in disturbed' /\ publishers'[v].thorough = FALSE
      BY DEF Crowded
  <2>1. Writer(v) /\ Writer(x) /\ Place(v) = Place(x) /\ Place(v)' = Place(v)
      BY <1>p, <1>r DEF Stays
  <2>2. Place(v) \in disturbed /\ publishers[v].thorough = FALSE
      BY <2>1 DEF PubInv, Crowded
  <2>3. publishers'[v].thorough \in BOOLEAN
      BY DEF PublicationTypeOK, PublisherRows
  <2> QED BY <2>1, <2>2, <2>3 DEF Stays
<1>3. \A v \in Publishers \ {u} : WorkStands(v)'
  <2> SUFFICES ASSUME NEW v \in Publishers \ {u}, Sole(v)'
               PROVE  WorkStands(v)'
      BY DEF WorkStands
  <2>1. Sole(v) /\ publishers'[v] = publishers[v] /\ disturbed' = disturbed /\ Place(v)' = Place(v)
      BY <1>r DEF Sole, Stays
  <2>2. Place(v) # Place(u)
      BY <2>1 DEF PubInv, Crowded, Sole, Stays
  <2>3. Place(v) \in Places /\ publishers[v].f \in Fragments
      BY <2>1, PlacesAreThere DEF PubInv, Sole, Writer, StepsFit
  <2>4. places'[Place(v)] = places[Place(v)]
      BY <2>2, <2>3 DEF Stays
  <2>5. \A a \in Attachments :
            attached'[publishers[v].f][a] = Place(v) => attached[publishers[v].f][a] = Place(v)
      BY <2>2, <2>3 DEF Stays
  <2>6. TextIsThere(v)' <=> TextIsThere(v)
      BY <2>1, <1>r DEF TextIsThere
  <2>7. \A a \in Attachments : /\ Pending(v, a)' <=> Pending(v, a)
                               /\ Kept(Place(v), a)' <=> Kept(Place(v), a)
      BY <2>1, <2>4 DEF Pending, Kept
  <2>8. publishers[v].done \subseteq Attachments /\ publishers[v].todo \subseteq Attachments
      BY DEF PubInv, PublicationTypeOK, PublisherRows
  <2>9. WorkStands(v)
      BY DEF PubInv
  <2> QED BY <2>1, <2>4, <2>5, <2>6, <2>7, <2>8, <2>9 DEF WorkStands, Kept
<1>4. PathsAreOwn'
  <2> SUFFICES ASSUME NEW f \in Fragments, NEW a \in Attachments, attached'[f][a] \in Places
               PROVE  \E d \in Destinations : PlaceOf[d, f] = attached'[f][a]
      BY DEF PathsAreOwn
  <2>1. CASE attached'[f][a] = attached[f][a]
      BY <2>1 DEF PubInv, PathsAreOwn
  <2>2. CASE attached'[f][a] # attached[f][a]
    <3>1. f = publishers[u].f /\ attached'[f][a] = PlaceOf[publishers[u].d, f]
        BY <2>2 DEF Stays, Place
    <3>2. publishers[u].d \in Destinations
        BY DEF Stays, Writer, PubInv, StepsFit
    <3> QED BY <3>1, <3>2
  <2> QED BY <2>1, <2>2
<1>5. PublicationStands'
  <2> SUFFICES ASSUME NEW p \in Places, Calm(p)'
               PROVE  /\ standing'[p] # Nowhere =>
                            /\ places'[p].text = <<standing'[p].f, standing'[p].text>>
                            /\ \A a \in standing'[p].copies : places'[p].copies[a] \in {"short", "whole"}
                      /\ \A f \in Fragments, a \in Attachments :
                            attached'[f][a] = p => places'[p].copies[a] \in {"short", "whole"}
      BY DEF PublicationStands
  <2>1. p # Place(u)
      BY <1>p DEF Calm, At, Writer, Busy
  <2>2. \A v \in Publishers : Writer(v) => Place(v) # p
      BY <2>1, <1>r DEF Calm, At, Writer, Busy
  <2>3. Calm(p)
      BY <2>2 DEF Calm, At, Stays, Writer, Busy
  <2>4. places'[p] = places[p] /\ standing' = standing
      BY <2>1 DEF Stays
  <2>5. \A f \in Fragments, a \in Attachments : attached'[f][a] = p => attached[f][a] = p
      BY <2>1 DEF Stays
  <2> QED BY <2>3, <2>4, <2>5 DEF PubInv, PublicationStands
<1> QED BY <1>1, <1>2, <1>3, <1>4, <1>5 DEF PubInv

--------------------------------------------------------------------------------
(***************************************************************************)
(* The steps of a delivery to a directory.                                 *)
(***************************************************************************)
LEMMA FieldsAreTyped ==
    ASSUME NEW w \in PublisherRows
    PROVE  /\ w.done \subseteq Attachments /\ w.todo \subseteq Attachments
           /\ w.thorough \in BOOLEAN /\ w.text \in Texts
BY DEF PublisherRows

LEMMA CopyIsTyped ==
    ASSUME NEW row \in PlaceRows, NEW a \in Attachments, NEW c \in CopyStates
    PROVE  /\ [row EXCEPT !.copies[a] = c] \in PlaceRows
           /\ [row EXCEPT !.copies[a] = c].text = row.text
           /\ [row EXCEPT !.copies[a] = c].copies[a] = c
           /\ \A b \in Attachments \ {a} : [row EXCEPT !.copies[a] = c].copies[b] = row.copies[b]
BY DEF PlaceRows

LEMMA TextIsTyped ==
    ASSUME NEW row \in PlaceRows, NEW t \in {"none", "cut"} \cup (Fragments \X Texts)
    PROVE  /\ [row EXCEPT !.text = t] \in PlaceRows
           /\ [row EXCEPT !.text = t].text = t
           /\ [row EXCEPT !.text = t].copies = row.copies
BY DEF PlaceRows

LEMMA OneMoves ==
    ASSUME PublicationAssumption, PubInv, NEW u \in Publishers, Writer(u),
           NEW x \in PublisherRows, Goes(u, x),
           x.f = publishers[u].f, x.d = publishers[u].d
    PROVE  /\ publishers' \in [Publishers -> PublisherRows] /\ publishers'[u] = x
           /\ \A v \in Publishers \ {u} : publishers'[v] = publishers[v]
           /\ Place(u)' = Place(u) /\ Kind(u)' = Kind(u)
           /\ Place(u) \in Places /\ Kind(u) \in {"file", "bundle"}
<1>1. /\ publishers' \in [Publishers -> PublisherRows] /\ publishers'[u] = x
      /\ \A v \in Publishers \ {u} : publishers'[v] = publishers[v]
    BY DEF PubInv, PublicationTypeOK, Goes
<1>2. Place(u)' = Place(u) /\ Kind(u)' = Kind(u)
    BY <1>1 DEF Place, Kind
<1>3. Place(u) \in Places /\ Kind(u) \in {"file", "bundle"}
    BY PlacesAreThere, KindsAreKnown DEF PubInv, Writer
<1> QED BY <1>1, <1>2, <1>3

LEMMA GoesOn ==
    ASSUME PublicationAssumption, PubInv, NEW u \in Publishers, Writer(u),
           NEW x \in PublisherRows, Goes(u, x), x.step # "ready",
           x.f = publishers[u].f, x.d = publishers[u].d,
           x.thorough = TRUE => publishers[u].thorough = TRUE,
           NEW row \in PlaceRows, places' = [places EXCEPT ![Place(u)] = row],
           attached' \in [Fragments -> PathRows],
           \A f \in Fragments, a \in Attachments :
               attached'[f][a] # attached[f][a] => f = publishers[u].f /\ attached'[f][a] = Place(u),
           failures' \in 0..MaxFailures,
           UNCHANGED <<text, sources, standing, disturbed, received, delivered, deliveries>>,
           StepsFit(u)', WorkStands(u)'
    PROVE  PubInv'
<1>1. /\ publishers' \in [Publishers -> PublisherRows] /\ publishers'[u] = x
      /\ \A v \in Publishers \ {u} : publishers'[v] = publishers[v]
    BY OneMoves
<1>2. places' \in [Places -> PlaceRows] /\ \A p \in Places \ {Place(u)} : places'[p] = places[p]
    BY DEF PubInv, PublicationTypeOK
<1>3. PublicationTypeOK'
    BY <1>1, <1>2 DEF PubInv, PublicationTypeOK
<1>4. Stays(u)
    BY <1>1, <1>2 DEF Stays
<1> QED BY <1>3, <1>4, TheRestStands

LEMMA TheRowOf ==
    ASSUME PublicationAssumption, PubInv, NEW u \in Publishers, Writer(u)
    PROVE  /\ publishers[u] \in PublisherRows /\ StepsFit(u) /\ WorkStands(u) /\ Busy(u)
           /\ Place(u) \in Places /\ Kind(u) \in {"file", "bundle"}
           /\ places \in [Places -> PlaceRows] /\ places[Place(u)] \in PlaceRows
           /\ attached \in [Fragments -> PathRows] /\ failures \in 0..MaxFailures
           /\ publishers[u].done \subseteq Attachments /\ publishers[u].todo \subseteq Attachments
           /\ publishers[u].f \in Fragments /\ publishers[u].text \in Texts
<1>1. publishers[u] \in PublisherRows /\ StepsFit(u) /\ WorkStands(u) /\ Busy(u)
    BY DEF PubInv, Writer, PublicationTypeOK
<1>2. Place(u) \in Places /\ Kind(u) \in {"file", "bundle"}
    BY <1>1, PlacesAreThere, KindsAreKnown DEF Writer
<1>3. places \in [Places -> PlaceRows] /\ attached \in [Fragments -> PathRows] /\ failures \in 0..MaxFailures
    BY DEF PubInv, PublicationTypeOK
<1> QED BY <1>1, <1>2, <1>3, FieldsAreTyped DEF StepsFit

LEMMA WritersWrite ==
    ASSUME PublicationAssumption, PubInv, NEW u \in Publishers,
           publishers[u].step \in {"opening", "writing", "copying", "filling", "recording"}
    PROVE  Writer(u)
BY KindsAreKnown DEF PubInv, StepsFit, Busy, Writer

LEMMA EmptyStands ==
    ASSUME PublicationAssumption, PubInv, NEW u \in Publishers, EmptyText(u)
    PROVE  PubInv'
<1> DEFINE w == publishers[u]
           x == [publishers[u] EXCEPT !.step = "writing"]
           row == [places[Place(u)] EXCEPT !.text = "cut"]
<1>a. w.step = "opening" /\ Writer(u)
    BY WritersWrite DEF EmptyText
<1>x. /\ x \in PublisherRows /\ x.step = "writing" /\ x.f = w.f /\ x.d = w.d /\ x.text = w.text
      /\ x.from = w.from /\ x.todo = w.todo /\ x.done = w.done /\ x.thorough = w.thorough
    BY <1>a, TheRowOf DEF PublisherRows
<1>r. row \in PlaceRows /\ row.copies = places[Place(u)].copies
    BY <1>a, TheRowOf, TextIsTyped
<1>p. places' = [places EXCEPT ![Place(u)] = row] /\ places'[Place(u)] = row
    BY <1>a, TheRowOf DEF EmptyText
<1>u. UNCHANGED <<text, attached, sources, standing, disturbed, received, delivered, failures, deliveries>>
    BY DEF EmptyText, OnlyFiles
<1>g. Goes(u, x)
    BY DEF EmptyText
<1>m. publishers'[u] = x /\ Place(u)' = Place(u) /\ Kind(u)' = Kind(u) /\ Kind(u) \in {"file", "bundle"}
    BY <1>a, <1>x, <1>g, OneMoves
<1>w. StepsFit(u) /\ WorkStands(u) /\ Busy(u) /\ w.done \subseteq Attachments /\ w.todo \subseteq Attachments
    BY <1>a, TheRowOf
<1> HIDE DEF x, row
<1>1. StepsFit(u)'
    BY <1>w, <1>a, <1>m, <1>x DEF StepsFit, Busy
<1>2. WorkStands(u)'
  <2> SUFFICES ASSUME Sole(u)' PROVE WorkStands(u)'
      BY DEF WorkStands
  <2>1. Sole(u)
      BY <1>a, <1>m, <1>x, <1>u DEF Sole
  <2>2. ~TextIsThere(u)'
      BY <1>m, <1>x DEF TextIsThere
  <2>3. \A a \in Attachments : /\ Pending(u, a) => Pending(u, a)'
                               /\ Kept(Place(u), a)' <=> Kept(Place(u), a)
      BY <1>a, <1>m, <1>x, <1>r, <1>p DEF Pending, Kept
  <2> QED BY <1>w, <1>a, <1>m, <1>x, <1>u, <2>1, <2>2, <2>3 DEF WorkStands
<1>3. attached' \in [Fragments -> PathRows] /\ failures' \in 0..MaxFailures
    BY <1>a, <1>u, TheRowOf
<1> QED BY <1>a, <1>x, <1>r, <1>p, <1>u, <1>g, <1>1, <1>2, <1>3, GoesOn

LEMMA WriteStands ==
    ASSUME PublicationAssumption, PubInv, NEW u \in Publishers, WriteText(u)
    PROVE  PubInv'
<1> DEFINE w == publishers[u]
           to == IF Kind(u) = "file" THEN "copying" ELSE "recording"
           x == [publishers[u] EXCEPT !.step = to]
           row == [places[Place(u)] EXCEPT !.text = <<w.f, w.text>>]
<1>a. w.step = "writing" /\ Writer(u)
    BY WritersWrite DEF WriteText
<1>x. /\ x \in PublisherRows /\ x.step = to /\ x.f = w.f /\ x.d = w.d /\ x.text = w.text
      /\ x.from = w.from /\ x.todo = w.todo /\ x.done = w.done /\ x.thorough = w.thorough
    BY <1>a, TheRowOf DEF PublisherRows
<1>r. row \in PlaceRows /\ row.copies = places[Place(u)].copies /\ row.text = <<w.f, w.text>>
    BY <1>a, TheRowOf, TextIsTyped
<1>p. places' = [places EXCEPT ![Place(u)] = row] /\ places'[Place(u)] = row
    BY <1>a, TheRowOf DEF WriteText
<1>u. UNCHANGED <<text, attached, sources, standing, disturbed, received, delivered, failures, deliveries>>
    BY DEF WriteText, OnlyFiles
<1>g. Goes(u, x)
    BY DEF WriteText
<1>m. publishers'[u] = x /\ Place(u)' = Place(u) /\ Kind(u)' = Kind(u) /\ Kind(u) \in {"file", "bundle"}
    BY <1>a, <1>x, <1>g, OneMoves
<1>w. StepsFit(u) /\ WorkStands(u) /\ Busy(u) /\ w.done \subseteq Attachments /\ w.todo \subseteq Attachments
    BY <1>a, TheRowOf
<1> HIDE DEF x, row
<1>1. StepsFit(u)'
    BY <1>w, <1>a, <1>m, <1>x DEF StepsFit, Busy
<1>2. WorkStands(u)'
  <2> SUFFICES ASSUME Sole(u)' PROVE WorkStands(u)'
      BY DEF WorkStands
  <2>1. Sole(u)
      BY <1>a, <1>m, <1>x, <1>u DEF Sole
  <2>3. \A a \in Attachments : /\ Pending(u, a) => Pending(u, a)'
                               /\ Kept(Place(u), a)' <=> Kept(Place(u), a)
      BY <1>a, <1>m, <1>x, <1>r, <1>p DEF Pending, Kept
  <2> QED BY <1>w, <1>a, <1>m, <1>x, <1>u, <1>p, <1>r, <2>1, <2>3 DEF WorkStands
<1>3. attached' \in [Fragments -> PathRows] /\ failures' \in 0..MaxFailures
    BY <1>a, <1>u, TheRowOf
<1> QED BY <1>a, <1>x, <1>r, <1>p, <1>u, <1>g, <1>1, <1>2, <1>3, GoesOn

LEMMA BeginStands ==
    ASSUME PublicationAssumption, PubInv, NEW u \in Publishers, NEW a \in Attachments, BeginCopy(u, a)
    PROVE  PubInv'
<1> DEFINE w == publishers[u]
           x == [publishers[u] EXCEPT !.step = "filling", !.todo = @ \ {a}, !.at = a]
           row == [places[Place(u)] EXCEPT !.copies[a] = "cut"]
<1>a. w.step = "copying" /\ Writer(u) /\ a \in w.todo /\ From(u, a) # Place(u)
    BY WritersWrite DEF BeginCopy
<1>x. /\ x \in PublisherRows /\ x.step = "filling" /\ x.f = w.f /\ x.d = w.d /\ x.text = w.text
      /\ x.from = w.from /\ x.todo = w.todo \ {a} /\ x.done = w.done /\ x.at = a
      /\ x.thorough = w.thorough
    BY <1>a, TheRowOf DEF PublisherRows
<1>r. /\ row \in PlaceRows /\ row.text = places[Place(u)].text
      /\ \A b \in Attachments \ {a} : row.copies[b] = places[Place(u)].copies[b]
  <2>1. "cut" \in CopyStates
      BY DEF CopyStates
  <2> QED BY <2>1, <1>a, TheRowOf, CopyIsTyped
<1>p. places' = [places EXCEPT ![Place(u)] = row] /\ places'[Place(u)] = row
    BY <1>a, TheRowOf DEF BeginCopy
<1>u. UNCHANGED <<text, attached, sources, standing, disturbed, received, delivered, failures, deliveries>>
    BY DEF BeginCopy, OnlyFiles
<1>g. Goes(u, x)
    BY DEF BeginCopy
<1>m. publishers'[u] = x /\ Place(u)' = Place(u) /\ Kind(u)' = Kind(u) /\ Kind(u) \in {"file", "bundle"}
    BY <1>a, <1>x, <1>g, OneMoves
<1>w. StepsFit(u) /\ WorkStands(u) /\ Busy(u) /\ w.done \subseteq Attachments /\ w.todo \subseteq Attachments
    BY <1>a, TheRowOf
<1>f. Kind(u) = "bundle" => w.from[a] # Place(u)
    BY <1>a DEF From
<1> HIDE DEF x, row
<1>1. StepsFit(u)'
    BY <1>w, <1>a, <1>m, <1>x, <1>f DEF StepsFit, Busy
<1>2. WorkStands(u)'
  <2> SUFFICES ASSUME Sole(u)' PROVE WorkStands(u)'
      BY DEF WorkStands
  <2>1. Sole(u)
      BY <1>a, <1>m, <1>x, <1>u DEF Sole
  <2>2. a \notin w.done
      BY <1>w, <1>a DEF StepsFit
  <2>3. \A b \in Attachments : Pending(u, b) => Pending(u, b)'
      BY <1>a, <1>m, <1>x DEF Pending
  <2>4. \A b \in Attachments \ {a} : Kept(Place(u), b)' <=> Kept(Place(u), b)
      BY <1>m, <1>r, <1>p DEF Kept
  <2>5. TextIsThere(u)' => TextIsThere(u)
      BY <1>a, <1>m, <1>x DEF TextIsThere
  <2>6. Pending(u, a)'
      BY <1>m, <1>x DEF Pending
  <2> QED BY <1>w, <1>a, <1>m, <1>x, <1>u, <1>p, <1>r, <2>1, <2>2, <2>3, <2>4, <2>5, <2>6 DEF WorkStands
<1>3. attached' \in [Fragments -> PathRows] /\ failures' \in 0..MaxFailures
    BY <1>a, <1>u, TheRowOf
<1> QED BY <1>a, <1>x, <1>r, <1>p, <1>u, <1>g, <1>1, <1>2, <1>3, GoesOn

LEMMA EndStands ==
    ASSUME PublicationAssumption, PubInv, NEW u \in Publishers, EndCopy(u)
    PROVE  PubInv'
<1>0. PICK a : a = publishers[u].at
    OBVIOUS
<1> DEFINE w == publishers[u]
           x == [publishers[u] EXCEPT !.step = "copying", !.done = @ \cup {a}, !.at = Nowhere]
           row == [places[Place(u)] EXCEPT !.copies[a] = Filled(u, a)]
<1>a. w.step = "filling" /\ Writer(u)
    BY WritersWrite DEF EndCopy
<1>w. StepsFit(u) /\ WorkStands(u) /\ Busy(u) /\ w.done \subseteq Attachments /\ w.todo \subseteq Attachments
    BY <1>a, TheRowOf
<1>b. a \in Attachments /\ a \notin w.todo
    BY <1>0, <1>w, <1>a DEF StepsFit
<1>x. /\ x \in PublisherRows /\ x.step = "copying" /\ x.f = w.f /\ x.d = w.d /\ x.text = w.text
      /\ x.from = w.from /\ x.todo = w.todo /\ x.done = w.done \cup {a}
      /\ x.thorough = w.thorough
    BY <1>a, <1>b, TheRowOf DEF PublisherRows
<1>r. /\ row \in PlaceRows /\ row.text = places[Place(u)].text /\ row.copies[a] \in {"short", "whole"}
      /\ \A b \in Attachments \ {a} : row.copies[b] = places[Place(u)].copies[b]
  <2>1. Filled(u, a) \in {"short", "whole"} /\ Filled(u, a) \in CopyStates
      BY DEF Filled, CopyStates
  <2> QED BY <2>1, <1>a, <1>b, TheRowOf, CopyIsTyped
<1>p. places' = [places EXCEPT ![Place(u)] = row] /\ places'[Place(u)] = row
    BY <1>0, <1>a, TheRowOf DEF EndCopy
<1>u. UNCHANGED <<text, attached, sources, standing, disturbed, received, delivered, failures, deliveries>>
    BY DEF EndCopy, OnlyFiles
<1>g. Goes(u, x)
    BY <1>0 DEF EndCopy
<1>m. publishers'[u] = x /\ Place(u)' = Place(u) /\ Kind(u)' = Kind(u) /\ Kind(u) \in {"file", "bundle"}
    BY <1>a, <1>x, <1>g, OneMoves
<1> HIDE DEF x, row
<1>1. StepsFit(u)'
    BY <1>0, <1>w, <1>a, <1>b, <1>m, <1>x DEF StepsFit, Busy
<1>2. WorkStands(u)'
  <2> SUFFICES ASSUME Sole(u)' PROVE WorkStands(u)'
      BY DEF WorkStands
  <2>1. Sole(u)
      BY <1>a, <1>m, <1>x, <1>u DEF Sole
  <2>3. \A b \in Attachments \ {a} : Pending(u, b) => Pending(u, b)'
      BY <1>0, <1>a, <1>m, <1>x DEF Pending
  <2>4. \A b \in Attachments : Kept(Place(u), b) => Kept(Place(u), b)'
      BY <1>m, <1>r, <1>p DEF Kept
  <2>5. TextIsThere(u)' => TextIsThere(u)
      BY <1>a, <1>m, <1>x DEF TextIsThere
  <2>6. Kept(Place(u), a)'
      BY <1>b, <1>m, <1>r, <1>p DEF Kept
  <2> QED BY <1>0, <1>w, <1>a, <1>b, <1>m, <1>x, <1>u, <1>p, <1>r, <2>1, <2>3, <2>4, <2>5, <2>6 DEF WorkStands
<1>3. attached' \in [Fragments -> PathRows] /\ failures' \in 0..MaxFailures
    BY <1>a, <1>u, TheRowOf
<1> QED BY <1>a, <1>x, <1>r, <1>p, <1>u, <1>g, <1>1, <1>2, <1>3, GoesOn

LEMMA SkipStands ==
    ASSUME PublicationAssumption, PubInv, NEW u \in Publishers, NEW a \in Attachments, CopyNotNeeded(u, a)
    PROVE  PubInv'
<1> DEFINE w == publishers[u]
           far == w.thorough /\ From(u, a) # Place(u)
           x == [publishers[u] EXCEPT !.todo = @ \ {a}, !.done = @ \cup {a}, !.thorough = far]
           row == places[Place(u)]
<1>a. w.step = "copying" /\ Writer(u) /\ a \in w.todo /\ Kind(u) = "bundle"
    BY WritersWrite DEF CopyNotNeeded
<1>w. StepsFit(u) /\ WorkStands(u) /\ Busy(u) /\ w.done \subseteq Attachments /\ w.todo \subseteq Attachments
    BY <1>a, TheRowOf
<1>c. \/ w.from[a] = Place(u)
      \/ places[Place(u)].copies[a] = "whole"
    BY DEF CopyNotNeeded, From
<1>x. /\ x \in PublisherRows /\ x.step = "copying" /\ x.f = w.f /\ x.d = w.d /\ x.text = w.text
      /\ x.from = w.from /\ x.todo = w.todo \ {a} /\ x.done = w.done \cup {a}
      /\ x.thorough = TRUE => w.thorough = TRUE /\ w.from[a] # Place(u)
  <2>1. far \in BOOLEAN
      OBVIOUS
  <2>2. x.thorough = far /\ x \in PublisherRows
      BY <2>1, <1>a, TheRowOf DEF PublisherRows
  <2>3. w.thorough \in BOOLEAN
      BY <1>a, TheRowOf, FieldsAreTyped
  <2>4. x.thorough = TRUE => w.thorough = TRUE /\ w.from[a] # Place(u)
      BY <2>2, <2>3, <1>a DEF From
  <2> QED BY <2>2, <2>4, <1>a, TheRowOf DEF PublisherRows
<1>r. row \in PlaceRows
    BY <1>a, TheRowOf
<1>p. places' = [places EXCEPT ![Place(u)] = row] /\ places' = places
    BY <1>a, TheRowOf DEF CopyNotNeeded
<1>u. UNCHANGED <<text, attached, sources, standing, disturbed, received, delivered, failures, deliveries>>
    BY DEF CopyNotNeeded, OnlyFiles
<1>g. Goes(u, x)
    BY DEF CopyNotNeeded
<1>m. publishers'[u] = x /\ Place(u)' = Place(u) /\ Kind(u)' = Kind(u)
    BY <1>a, <1>x, <1>g, OneMoves
<1> HIDE DEF x, row
<1>1. StepsFit(u)'
    BY <1>w, <1>a, <1>m, <1>x DEF StepsFit, Busy
<1>2. WorkStands(u)'
  <2> SUFFICES ASSUME Sole(u)' PROVE WorkStands(u)'
      BY DEF WorkStands
  <2>1. Sole(u)
      BY <1>a, <1>m, <1>x, <1>u DEF Sole
  <2>2. Kept(Place(u), a)
      BY <1>a, <1>c, <1>w, <1>m, <1>x, <1>u, <2>1 DEF Sole, WorkStands, Kept
  <2>3. \A b \in Attachments \ {a} : Pending(u, b) => Pending(u, b)'
      BY <1>a, <1>m, <1>x DEF Pending
  <2>4. \A b \in Attachments : Kept(Place(u), b) <=> Kept(Place(u), b)'
      BY <1>m, <1>p DEF Kept
  <2>5. TextIsThere(u)' => TextIsThere(u)
      BY <1>a, <1>m, <1>x DEF TextIsThere
  <2> QED BY <1>w, <1>a, <1>m, <1>x, <1>u, <1>p, <2>1, <2>2, <2>3, <2>4, <2>5 DEF WorkStands
<1>3. attached' \in [Fragments -> PathRows] /\ failures' \in 0..MaxFailures
    BY <1>a, <1>u, TheRowOf
<1>4. x.step # "ready" /\ (x.thorough = TRUE => w.thorough = TRUE)
    BY <1>x
<1> QED BY <1>a, <1>x, <1>4, <1>r, <1>p, <1>u, <1>g, <1>1, <1>2, <1>3, GoesOn

LEMMA LeaveStands ==
    ASSUME PublicationAssumption, PubInv, NEW u \in Publishers, NEW a \in Attachments, LeaveOut(u, a)
    PROVE  PubInv'
<1> DEFINE w == publishers[u]
           far == w.thorough /\ From(u, a) # Place(u)
           x == [publishers[u] EXCEPT !.step = "copying", !.todo = @ \ {a}, !.at = Nowhere, !.thorough = far]
           row == places[Place(u)]
<1>a. /\ w.step \in {"copying", "filling"} /\ Writer(u) /\ Kind(u) = "bundle"
      /\ w.step = "copying" => a \in w.todo
      /\ w.step = "filling" => w.at = a
    BY WritersWrite DEF LeaveOut, CannotCopy
<1>w. StepsFit(u) /\ WorkStands(u) /\ Busy(u) /\ w.done \subseteq Attachments /\ w.todo \subseteq Attachments
    BY <1>a, TheRowOf
<1>c. w.step = "filling" => w.from[a] # Place(u)
    BY <1>a, <1>w DEF StepsFit
<1>x. /\ x \in PublisherRows /\ x.step = "copying" /\ x.f = w.f /\ x.d = w.d /\ x.text = w.text
      /\ x.from = w.from /\ x.todo = w.todo \ {a} /\ x.done = w.done
      /\ x.thorough = TRUE => w.thorough = TRUE /\ w.from[a] # Place(u)
  <2>1. far \in BOOLEAN
      OBVIOUS
  <2>2. x.thorough = far /\ x \in PublisherRows
      BY <2>1, <1>a, TheRowOf DEF PublisherRows
  <2>3. w.thorough \in BOOLEAN
      BY <1>a, TheRowOf, FieldsAreTyped
  <2>4. x.thorough = TRUE => w.thorough = TRUE /\ w.from[a] # Place(u)
      BY <2>2, <2>3, <1>a DEF From
  <2> QED BY <2>2, <2>4, <1>a, TheRowOf DEF PublisherRows
<1>r. row \in PlaceRows
    BY <1>a, TheRowOf
<1>p. places' = [places EXCEPT ![Place(u)] = row] /\ places' = places
    BY <1>a, TheRowOf DEF LeaveOut
<1>u. UNCHANGED <<text, attached, sources, standing, disturbed, received, delivered, deliveries>>
    BY DEF LeaveOut
<1>v. failures' \in 0..MaxFailures
    BY <1>a, TheRowOf DEF LeaveOut, CannotCopy, Failure, PublicationAssumption
<1>g. Goes(u, x)
    BY DEF LeaveOut
<1>m. publishers'[u] = x /\ Place(u)' = Place(u) /\ Kind(u)' = Kind(u)
    BY <1>a, <1>x, <1>g, OneMoves
<1> HIDE DEF x, row
<1>1. StepsFit(u)'
    BY <1>w, <1>a, <1>m, <1>x DEF StepsFit, Busy
<1>2. WorkStands(u)'
  <2> SUFFICES ASSUME Sole(u)' PROVE WorkStands(u)'
      BY DEF WorkStands
  <2>1. Sole(u)
      BY <1>a, <1>m, <1>x, <1>u DEF Sole
  <2>2. attached[w.f][a] = Place(u) => Kept(Place(u), a)
      BY <1>a, <1>c, <1>w, <1>m, <1>x, <1>u, <2>1 DEF Sole, WorkStands
  <2>3. \A b \in Attachments \ {a} : Pending(u, b) => Pending(u, b)'
      BY <1>a, <1>m, <1>x DEF Pending
  <2>4. \A b \in Attachments : Kept(Place(u), b) <=> Kept(Place(u), b)'
      BY <1>m, <1>p DEF Kept
  <2>5. TextIsThere(u)' => TextIsThere(u)
      BY <1>a, <1>m, <1>x DEF TextIsThere
  <2> QED BY <1>w, <1>a, <1>m, <1>x, <1>u, <1>p, <2>1, <2>2, <2>3, <2>4, <2>5 DEF WorkStands
<1>3. attached' \in [Fragments -> PathRows]
    BY <1>a, <1>u, TheRowOf
<1>4. x.step # "ready" /\ (x.thorough = TRUE => w.thorough = TRUE)
    BY <1>x
<1> QED BY <1>a, <1>x, <1>4, <1>r, <1>p, <1>u, <1>v, <1>g, <1>1, <1>2, <1>3, GoesOn

LEMMA CopiedStands ==
    ASSUME PublicationAssumption, PubInv, NEW u \in Publishers, Copied(u)
    PROVE  PubInv'
<1> DEFINE w == publishers[u]
           to == IF Kind(u) = "file" THEN "recording" ELSE "opening"
           x == [publishers[u] EXCEPT !.step = to]
           row == places[Place(u)]
<1>a. w.step = "copying" /\ Writer(u) /\ w.todo = {}
    BY WritersWrite DEF Copied
<1>w. StepsFit(u) /\ WorkStands(u) /\ Busy(u) /\ w.done \subseteq Attachments
    BY <1>a, TheRowOf
<1>x. /\ x \in PublisherRows /\ x.step = to /\ x.f = w.f /\ x.d = w.d /\ x.text = w.text
      /\ x.from = w.from /\ x.todo = w.todo /\ x.done = w.done /\ x.thorough = w.thorough
    BY <1>a, TheRowOf DEF PublisherRows
<1>r. row \in PlaceRows
    BY <1>a, TheRowOf
<1>p. places' = [places EXCEPT ![Place(u)] = row] /\ places' = places
    BY <1>a, TheRowOf DEF Copied
<1>u. UNCHANGED <<text, attached, sources, standing, disturbed, received, delivered, failures, deliveries>>
    BY DEF Copied, OnlyFiles
<1>g. Goes(u, x)
    BY DEF Copied
<1>m. publishers'[u] = x /\ Place(u)' = Place(u) /\ Kind(u)' = Kind(u) /\ Kind(u) \in {"file", "bundle"}
    BY <1>a, <1>x, <1>g, OneMoves
<1> HIDE DEF x, row
<1>1. StepsFit(u)'
    BY <1>w, <1>a, <1>m, <1>x DEF StepsFit, Busy
<1>2. WorkStands(u)'
  <2> SUFFICES ASSUME Sole(u)' PROVE WorkStands(u)'
      BY DEF WorkStands
  <2>1. Sole(u)
      BY <1>a, <1>m, <1>x, <1>u DEF Sole
  <2>3. \A b \in Attachments : /\ ~Pending(u, b)
                               /\ Kept(Place(u), b) <=> Kept(Place(u), b)'
      BY <1>a, <1>m, <1>p DEF Pending, Kept
  <2>5. TextIsThere(u)' => TextIsThere(u)
      BY <1>a, <1>m, <1>x DEF TextIsThere
  <2> QED BY <1>w, <1>a, <1>m, <1>x, <1>u, <1>p, <2>1, <2>3, <2>5 DEF WorkStands
<1>3. attached' \in [Fragments -> PathRows] /\ failures' \in 0..MaxFailures
    BY <1>a, <1>u, TheRowOf
<1>4. x.step # "ready"
    BY <1>x
<1> QED BY <1>a, <1>x, <1>4, <1>r, <1>p, <1>u, <1>g, <1>1, <1>2, <1>3, GoesOn

LEMMA RecordStands ==
    ASSUME PublicationAssumption, PubInv, NEW u \in Publishers, RecordPaths(u)
    PROVE  PubInv'
<1> DEFINE w == publishers[u]
           x == [publishers[u] EXCEPT !.step = "logging"]
           paths == [a \in Attachments |->
               IF a \in w.done /\ attached[w.f][a] # NotAttached THEN Place(u) ELSE attached[w.f][a]]
           row == places[Place(u)]
<1>a. w.step = "recording" /\ Writer(u)
    BY WritersWrite DEF RecordPaths
<1>w. StepsFit(u) /\ WorkStands(u) /\ Busy(u) /\ w.done \subseteq Attachments
    BY <1>a, TheRowOf
<1>x. /\ x \in PublisherRows /\ x.step = "logging" /\ x.f = w.f /\ x.d = w.d /\ x.text = w.text
      /\ x.from = w.from /\ x.todo = w.todo /\ x.done = w.done /\ x.thorough = w.thorough
    BY <1>a, TheRowOf DEF PublisherRows
<1>r. row \in PlaceRows
    BY <1>a, TheRowOf
<1>p. places' = [places EXCEPT ![Place(u)] = row] /\ places' = places
    BY <1>a, TheRowOf DEF RecordPaths
<1>u. UNCHANGED <<text, sources, standing, disturbed, received, delivered, failures, deliveries>>
    BY DEF RecordPaths
<1>g. Goes(u, x)
    BY DEF RecordPaths
<1>m. publishers'[u] = x /\ Place(u)' = Place(u) /\ Kind(u)' = Kind(u) /\ Kind(u) \in {"file", "bundle"}
    BY <1>a, <1>x, <1>g, OneMoves
<1>b. attached' = [attached EXCEPT ![w.f] = paths]
    BY <1>a, TheRowOf DEF RecordPaths
<1>t. paths \in PathRows
    BY <1>a, TheRowOf DEF PathRows
<1>c. attached' \in [Fragments -> PathRows] /\ attached'[w.f] = paths
    BY <1>a, <1>b, <1>t, TheRowOf
<1>d. \A f \in Fragments, a \in Attachments :
          attached'[f][a] # attached[f][a] => f = w.f /\ attached'[f][a] = Place(u) /\ a \in w.done
    BY <1>a, <1>b, <1>c, TheRowOf
<1>e. w.todo = {}
    BY <1>a, <1>w, <1>m DEF StepsFit
<1> HIDE DEF x, row, paths
<1>1. StepsFit(u)'
    BY <1>w, <1>a, <1>m, <1>x DEF StepsFit, Busy
<1>2. WorkStands(u)'
  <2> SUFFICES ASSUME Sole(u)' PROVE WorkStands(u)'
      BY DEF WorkStands
  <2>1. Sole(u)
      BY <1>a, <1>m, <1>x, <1>u DEF Sole
  <2>3. \A b \in Attachments : /\ ~Pending(u, b)
                               /\ Kept(Place(u), b) <=> Kept(Place(u), b)'
      BY <1>a, <1>e, <1>m, <1>p DEF Pending, Kept
  <2>4. TextIsThere(u)
      BY <1>a DEF TextIsThere
  <2>5. w.f \in Fragments
      BY <1>a, TheRowOf
  <2> QED BY <1>w, <1>a, <1>e, <1>d, <1>m, <1>x, <1>u, <1>p, <2>1, <2>3, <2>4, <2>5 DEF WorkStands
<1>3. failures' \in 0..MaxFailures
    BY <1>a, <1>u, TheRowOf
<1>4. x.step # "ready"
    BY <1>x
<1> QED BY <1>a, <1>x, <1>4, <1>r, <1>p, <1>u, <1>g, <1>c, <1>d, <1>1, <1>2, <1>3, GoesOn

--------------------------------------------------------------------------------
(***************************************************************************)
(* Deliveries begin, end and are given up, calls are made, and texts,      *)
(* attachments and sources change meanwhile.                               *)
(***************************************************************************)
StandsAt(p) ==
    /\ standing[p] # Nowhere =>
           /\ places[p].text = <<standing[p].f, standing[p].text>>
           /\ \A a \in standing[p].copies : Kept(p, a)
    /\ \A f \in Fragments, a \in Attachments : attached[f][a] = p => Kept(p, a)

LEMMA StandingApart == PublicationStands <=> \A p \in Places : Calm(p) => StandsAt(p)
BY DEF PublicationStands, StandsAt, Kept

\* Whoever leaves a directory without rest leaves it disturbed, or has put
\* there what the last delivery is said to have put.
LEMMA LeavingStands ==
    ASSUME PublicationAssumption, PubInv, NEW u \in Publishers, PublicationTypeOK',
           \A v \in Publishers \ {u} : publishers'[v] = publishers[v],
           ~Writer(u)', StepsFit(u)',
           places' = places, attached' = attached,
           disturbed \ {Place(u)} \subseteq disturbed',
           ~Writer(u) => disturbed \subseteq disturbed',
           Writer(u) /\ Place(u) \in disturbed /\ publishers[u].thorough = FALSE => Place(u) \in disturbed',
           \A p \in Places : p # Place(u) \/ ~Writer(u) => standing'[p] = standing[p],
           \A p \in Places : Writer(u) /\ p = Place(u) /\ OfOne(p) /\ p \notin disturbed' => StandsAt(p)'
    PROVE  PubInv'
<1>r. \A v \in Publishers \ {u} : /\ Place(v)' = Place(v) /\ Kind(v)' = Kind(v)
                                  /\ Writer(v)' <=> Writer(v)
                                  /\ Busy(v)' <=> Busy(v)
    BY DEF Place, Kind, Writer, Busy
<1>1. \A v \in Publishers \ {u} : StepsFit(v)'
    BY <1>r DEF PubInv, StepsFit
<1>2. \A v \in Publishers \ {u} : Writer(v) /\ Place(v) \in disturbed => Place(v) \in disturbed' 
    BY DEF PubInv, Crowded
<1>3. Crowded'
  <2> SUFFICES ASSUME NEW v \in Publishers, NEW x \in Publishers, v # x,
                      Writer(v)', Writer(x)', Place(v)' = Place(x)'
               PROVE  Place(v)' \in disturbed' /\ publishers'[v].thorough = FALSE
      BY DEF Crowded
  <2>1. v # u /\ x # u /\ Writer(v) /\ Writer(x) /\ Place(v) = Place(x) /\ Place(v)' = Place(v)
      BY <1>r
  <2>2. Place(v) \in disturbed /\ publishers[v].thorough = FALSE
      BY <2>1 DEF PubInv, Crowded
  <2> QED BY <2>1, <2>2, <1>2
<1>4. \A v \in Publishers \ {u} : WorkStands(v)'
  <2> SUFFICES ASSUME NEW v \in Publishers \ {u}, Sole(v)'
               PROVE  WorkStands(v)'
      BY DEF WorkStands
  <2>1. publishers'[v] = publishers[v] /\ Place(v)' = Place(v) /\ Kind(v)' = Kind(v) /\ Writer(v)
      BY <1>r DEF Sole
  <2>2. Place(v)' \notin disturbed' => Place(v) \notin disturbed
      BY <2>1, <1>2
  <2>3. Sole(v)
      BY <2>1, <2>2 DEF Sole
  <2>4. \A a \in Attachments : /\ Pending(v, a)' <=> Pending(v, a)
                               /\ Kept(Place(v), a)' <=> Kept(Place(v), a)
      BY <2>1 DEF Pending, Kept
  <2>5. publishers[v].done \subseteq Attachments /\ publishers[v].todo \subseteq Attachments
      BY DEF PubInv, PublicationTypeOK, PublisherRows
  <2>6. TextIsThere(v)' <=> TextIsThere(v)
      BY <2>1 DEF TextIsThere
  <2>7. WorkStands(v)
      BY DEF PubInv
  <2> QED BY <2>1, <2>2, <2>3, <2>4, <2>5, <2>6, <2>7 DEF WorkStands
<1>5. PathsAreOwn'
    BY DEF PubInv, PathsAreOwn
<1>6. ASSUME NEW p \in Places, Calm(p)'
      PROVE  StandsAt(p)'
  <2>1. CASE Writer(u) /\ p = Place(u)
      BY <2>1, <1>6 DEF Calm
  <2>2. CASE ~(Writer(u) /\ p = Place(u))
    <3>1. \A v \in Publishers : Writer(v) => Place(v) # p
        BY <2>2, <1>6, <1>r DEF Calm, At, Writer, Busy
    <3>2. Calm(p)
        BY <3>1, <2>2, <1>6 DEF Calm, At, Writer, Busy
    <3>3. StandsAt(p)
        BY <3>2, StandingApart DEF PubInv
    <3>4. standing'[p] = standing[p]
        BY <2>2
    <3> QED BY <3>3, <3>4 DEF StandsAt, Kept
  <2> QED BY <2>1, <2>2
<1>7. PublicationStands'
    BY <1>6 DEF PublicationStands, StandsAt, Kept
<1> QED BY <1>1, <1>3, <1>4, <1>5, <1>7 DEF PubInv, WorkStands, Sole

\* Nobody moves, and paths are forgotten at most.
LEMMA DataStands ==
    ASSUME PubInv, PublicationTypeOK',
           UNCHANGED <<publishers, places, standing, disturbed>>,
           \A f \in Fragments, a \in Attachments :
               attached'[f][a] \in Places => attached'[f][a] = attached[f][a],
           PublicationAssumption
    PROVE  PubInv'
<1>1. \A u \in Publishers : /\ Place(u)' = Place(u) /\ Kind(u)' = Kind(u)
                            /\ Writer(u)' <=> Writer(u)
                            /\ Sole(u)' <=> Sole(u)
    BY DEF Place, Kind, Writer, Busy, Sole
<1>2. \A u \in Publishers : StepsFit(u)'
    BY <1>1 DEF PubInv, StepsFit, Busy
<1>3. Crowded'
    BY <1>1 DEF PubInv, Crowded
<1>4. ASSUME NEW u \in Publishers, Sole(u)'
      PROVE  WorkStands(u)'
  <2>1. Sole(u) /\ WorkStands(u) /\ StepsFit(u)
      BY <1>1, <1>4 DEF PubInv
  <2>2. Place(u) \in Places /\ publishers[u].f \in Fragments
      BY <2>1, PlacesAreThere DEF Sole, Writer, StepsFit
  <2>3. \A a \in Attachments :
            attached'[publishers[u].f][a] = Place(u) => attached[publishers[u].f][a] = Place(u)
      BY <2>2
  <2>4. \A a \in Attachments : /\ Pending(u, a)' <=> Pending(u, a)
                               /\ Kept(Place(u), a)' <=> Kept(Place(u), a)
      BY <1>1 DEF Pending, Kept
  <2>5. publishers[u].done \subseteq Attachments /\ publishers[u].todo \subseteq Attachments
      BY DEF PubInv, PublicationTypeOK, PublisherRows
  <2>6. TextIsThere(u)' <=> TextIsThere(u)
      BY <1>1 DEF TextIsThere
  <2> QED BY <1>1, <2>1, <2>3, <2>4, <2>5, <2>6 DEF WorkStands
<1>5. PathsAreOwn'
    BY DEF PubInv, PathsAreOwn
<1>6. ASSUME NEW p \in Places, Calm(p)'
      PROVE  StandsAt(p)'
  <2>1. Calm(p)
      BY <1>6 DEF Calm, At, Place
  <2>2. StandsAt(p)
      BY <2>1, StandingApart DEF PubInv
  <2> QED BY <2>2 DEF StandsAt, Kept
<1>7. PublicationStands'
    BY <1>6 DEF PublicationStands, StandsAt, Kept
<1> QED BY <1>2, <1>3, <1>4, <1>5, <1>7 DEF PubInv, WorkStands

LEMMA LogStands ==
    ASSUME PublicationAssumption, PubInv, NEW u \in Publishers, LogDelivery(u)
    PROVE  PubInv'
<1> DEFINE w == publishers[u]
<1>a. w.step = "logging" /\ Busy(u)
    BY DEF LogDelivery, Busy
<1>b. PublicationTypeOK /\ StepsFit(u) /\ WorkStands(u) /\ w \in PublisherRows
    BY DEF PubInv, PublicationTypeOK
<1>c. /\ w.f \in Fragments /\ w.d \in Destinations /\ w.text \in Texts /\ w.done \subseteq Attachments
      /\ w.thorough \in BOOLEAN /\ Place(u) \in Places
      /\ Writer(u) => w.todo = {}
    BY <1>a, <1>b, FieldsAreTyped, PlacesAreThere, KindsAreKnown DEF StepsFit, Writer
<1>d. Writer(u) <=> Writes(w.d)
    BY <1>a DEF Writer
<1>r. Ready \in PublisherRows /\ Ready.step = "ready"
    BY DEF Ready, PublisherRows, Texts, PublicationAssumption
<1>m. /\ publishers' \in [Publishers -> PublisherRows] /\ publishers'[u] = Ready
      /\ \A v \in Publishers \ {u} : publishers'[v] = publishers[v]
    BY <1>b, <1>r DEF PublicationTypeOK, LogDelivery, Goes
<1>u. UNCHANGED <<text, attached, sources, places, received, failures, deliveries>>
    BY DEF LogDelivery
<1>e. /\ Writer(u) => /\ standing' = [standing EXCEPT ![Place(u)] = [f |-> w.f, text |-> w.text, copies |-> w.done]]
                      /\ disturbed' = IF w.thorough THEN disturbed \ {Place(u)} ELSE disturbed
      /\ ~Writer(u) => standing' = standing /\ disturbed' = disturbed
    BY <1>d DEF LogDelivery
<1>f. delivered' \in [Destinations -> [Fragments -> Nat]]
    BY <1>b, <1>c DEF PublicationTypeOK, LogDelivery
<1> HIDE DEF w
<1>1. PublicationTypeOK'
  <2>1. standing' \in [Places -> [f : Fragments, text : Texts, copies : SUBSET Attachments] \cup {Nowhere}]
    <3>1. [f |-> w.f, text |-> w.text, copies |-> w.done] \in [f : Fragments, text : Texts, copies : SUBSET Attachments]
        BY <1>c
    <3> QED BY <3>1, <1>b, <1>e DEF PublicationTypeOK
  <2>2. disturbed' \subseteq Places
      BY <1>b, <1>e DEF PublicationTypeOK
  <2> QED BY <2>1, <2>2, <1>b, <1>m, <1>u, <1>f DEF PublicationTypeOK
<1>2. ~Writer(u)' /\ StepsFit(u)'
    BY <1>m, <1>r DEF Writer, Busy, StepsFit
<1>3. /\ disturbed \ {Place(u)} \subseteq disturbed'
      /\ ~Writer(u) => disturbed \subseteq disturbed'
      /\ Writer(u) /\ Place(u) \in disturbed /\ publishers[u].thorough = FALSE => Place(u) \in disturbed'
    BY <1>e, <1>c DEF w
<1>4. \A p \in Places : p # Place(u) \/ ~Writer(u) => standing'[p] = standing[p]
    BY <1>e, <1>b DEF PublicationTypeOK
<1>5. ASSUME NEW p \in Places, Writer(u), p = Place(u), OfOne(p), p \notin disturbed'
      PROVE  StandsAt(p)'
  <2>1. Sole(u)
      BY <1>5, <1>e, <1>c DEF Sole, w
  <2>2. TextIsThere(u) /\ \A a \in Attachments : ~Pending(u, a)
      BY <1>5, <1>a, <1>c DEF TextIsThere, Pending, w
  <2>3. /\ places[p].text = <<w.f, w.text>> /\ \A a \in w.done : Kept(p, a)
        /\ \A a \in Attachments : attached[w.f][a] = p => Kept(p, a)
      BY <2>1, <2>2, <1>b, <1>5 DEF WorkStands, w
  <2>4. \A f \in Fragments, a \in Attachments : attached[f][a] = p => f = w.f
    <3> SUFFICES ASSUME NEW f \in Fragments, NEW a \in Attachments, attached[f][a] = p
                 PROVE  f = w.f
        OBVIOUS
    <3>1. PICK d \in Destinations : PlaceOf[d, f] = p
        BY DEF PubInv, PathsAreOwn
    <3>2. PlaceOf[w.d, w.f] = p
        BY <1>5 DEF Place, w
    <3>3. w.f \in Fragments /\ w.d \in Destinations
        BY <1>c
    <3> QED BY <1>5, <3>1, <3>2, <3>3 DEF OfOne
  <2>5. standing'[p] = [f |-> w.f, text |-> w.text, copies |-> w.done]
      BY <1>5, <1>e, <1>b DEF PublicationTypeOK
  <2>6. standing'[p].f = w.f /\ standing'[p].text = w.text /\ standing'[p].copies = w.done
      BY <2>5
  <2> HIDE DEF w
  <2> QED BY <2>3, <2>4, <2>6, <1>u DEF StandsAt, Kept
<1>6. \A p \in Places : Writer(u) /\ p = Place(u) /\ OfOne(p) /\ p \notin disturbed' => StandsAt(p)'
    BY <1>5
<1> QED BY <1>1, <1>2, <1>3, <1>4, <1>6, <1>m, <1>u, LeavingStands

LEMMA GiveUpStands ==
    ASSUME PublicationAssumption, PubInv, NEW u \in Publishers, GiveUp(u)
    PROVE  PubInv'
<1>a. Busy(u) /\ StepsFit(u) /\ PublicationTypeOK
    BY DEF GiveUp, Busy, PubInv
<1>c. Place(u) \in Places
    BY <1>a, PlacesAreThere
<1>d. Writer(u) <=> Writes(publishers[u].d)
    BY <1>a DEF Writer
<1>r. Ready \in PublisherRows /\ Ready.step = "ready"
    BY DEF Ready, PublisherRows, Texts, PublicationAssumption
<1>m. /\ publishers' \in [Publishers -> PublisherRows] /\ publishers'[u] = Ready
      /\ \A v \in Publishers \ {u} : publishers'[v] = publishers[v]
    BY <1>a, <1>r DEF PublicationTypeOK, GiveUp, Goes
<1>u. UNCHANGED <<text, attached, sources, places, standing, received, delivered, deliveries>>
    BY DEF GiveUp
<1>e. disturbed' = IF Writer(u) THEN disturbed \cup {Place(u)} ELSE disturbed
    BY <1>d DEF GiveUp
<1>f. failures' \in 0..MaxFailures
    BY <1>a DEF PublicationTypeOK, GiveUp, CannotCopy, Failure, PublicationAssumption
<1>1. PublicationTypeOK'
    BY <1>a, <1>c, <1>e, <1>m, <1>u, <1>f DEF PublicationTypeOK
<1>2. ~Writer(u)' /\ StepsFit(u)'
    BY <1>m, <1>r DEF Writer, Busy, StepsFit
<1>3. \A p \in Places : Writer(u) /\ p = Place(u) /\ OfOne(p) /\ p \notin disturbed' => StandsAt(p)'
    BY <1>e
<1> QED BY <1>1, <1>2, <1>3, <1>e, <1>m, <1>u, LeavingStands

LEMMA CallsStand ==
    ASSUME PublicationAssumption, PubInv, NEW u \in Publishers, Call(u) \/ CallFails(u)
    PROVE  PubInv'
<1> DEFINE w == publishers[u]
<1>a. Busy(u) /\ w.step = "calling" /\ StepsFit(u) /\ PublicationTypeOK
    BY DEF Call, CallFails, Busy, PubInv
<1>b. /\ ~Writer(u) /\ Kind(u) = "remote" /\ w \in PublisherRows
      /\ w.f \in Fragments /\ w.d \in Destinations
    BY <1>a, KindsAreKnown DEF Writer, StepsFit, PublicationTypeOK
<1>m. PICK x \in PublisherRows : /\ Goes(u, x)
                                 /\ x.step \in {"calling", "logging", "ready"}
                                 /\ \/ /\ x.f = w.f /\ x.d = w.d /\ x.from = w.from
                                       /\ x.todo = w.todo /\ x.done = w.done
                                    \/ x.step = "ready"
  <2>1. [w EXCEPT !.step = "logging"] \in PublisherRows
      BY <1>b DEF PublisherRows
  <2>2. [w EXCEPT !.calls = @ + 1] \in PublisherRows
      BY <1>b DEF PublisherRows
  <2>3. Ready \in PublisherRows /\ Ready.step = "ready"
      BY DEF Ready, PublisherRows, Texts, PublicationAssumption
  <2>4. CASE Goes(u, [w EXCEPT !.step = "logging"])
      BY <2>4, <2>1, <1>b DEF PublisherRows
  <2>5. CASE Goes(u, [w EXCEPT !.calls = @ + 1])
      BY <2>5, <2>2, <1>b, <1>a DEF PublisherRows
  <2>6. CASE Goes(u, Ready)
      BY <2>6, <2>3
  <2> QED BY <2>4, <2>5, <2>6 DEF Call, CallFails, RetryOrFail
<1>n. /\ publishers' \in [Publishers -> PublisherRows] /\ publishers'[u] = x
      /\ \A v \in Publishers \ {u} : publishers'[v] = publishers[v]
    BY <1>a, <1>m DEF PublicationTypeOK, Goes
<1>u. UNCHANGED <<text, attached, sources, places, standing, disturbed, delivered, deliveries>>
    BY DEF Call, CallFails
<1>e. received' \in [Destinations -> [Fragments -> Nat]]
  <2>1. received \in [Destinations -> [Fragments -> Nat]]
      BY <1>a DEF PublicationTypeOK
  <2>2. CASE Arrives(u)
      BY <2>1, <2>2, <1>b DEF Arrives
  <2>3. CASE received' = received
      BY <2>1, <2>3
  <2> QED BY <2>2, <2>3 DEF Call, CallFails
<1>f. failures' \in 0..MaxFailures
    BY <1>a DEF PublicationTypeOK, Call, CallFails, Failure, PublicationAssumption
<1>1. PublicationTypeOK'
    BY <1>a, <1>n, <1>u, <1>e, <1>f DEF PublicationTypeOK
<1> HIDE DEF w
<1>2. ~Writer(u)' /\ StepsFit(u)'
  <2>1. CASE x.step = "ready"
      BY <2>1, <1>n DEF Writer, Busy, StepsFit
  <2>2. CASE x.step # "ready"
    <3>1. Kind(u)' = Kind(u) /\ publishers'[u].d = publishers[u].d /\ publishers'[u].f = publishers[u].f
        BY <2>2, <1>m, <1>n DEF Kind, w
    <3>2. ~Writer(u)'
        BY <3>1, <1>a, <1>b DEF Writer
    <3>3. StepsFit(u)'
        BY <3>1, <2>2, <1>a, <1>b, <1>m, <1>n DEF StepsFit, Busy, w
    <3> QED BY <3>2, <3>3
  <2> QED BY <2>1, <2>2
<1> QED BY <1>1, <1>2, <1>b, <1>n, <1>u, LeavingStands

LEMMA DeliverStands ==
    ASSUME PublicationAssumption, PubInv, NEW u \in Publishers, NEW f \in Fragments, NEW d \in Destinations,
           Deliver(u, f, d)
    PROVE  PubInv'
<1>0. PICK p : p = PlaceOf[d, f]
    OBVIOUS
<1>1. PICK others : others = IF Writes(d) THEN At(p) ELSE {}
    OBVIOUS
<1>2. PICK x : x = [Ready EXCEPT !.step = FirstStep[KindOf[d]], !.f = f, !.d = d, !.text = text[f],
                                 !.from = attached[f], !.todo = HasAttached(f), !.thorough = others = {}]
    OBVIOUS
<1>a. /\ publishers[u].step = "ready" /\ ~Busy(u) /\ PublicationTypeOK
      /\ KindOf[d] \in {"file", "bundle", "remote"} /\ p \in Places
      /\ Writes(d) <=> KindOf[d] # "remote"
    BY <1>0 DEF Deliver, Busy, PubInv, PublicationAssumption, Writes
<1>b. /\ publishers' = [v \in Publishers |->
             IF v = u THEN x
             ELSE IF v \in others THEN [publishers[v] EXCEPT !.thorough = FALSE]
             ELSE publishers[v]]
      /\ disturbed' = IF others = {} THEN disturbed ELSE disturbed \cup {p}
    BY <1>0, <1>1, <1>2 DEF Deliver
<1>c. UNCHANGED <<text, attached, sources, places, standing, received, delivered, failures>>
    BY DEF Deliver
<1>d. deliveries' \in 0..MaxDeliveries
  <2>1. deliveries > 0 /\ deliveries' = deliveries - 1
      BY DEF Deliver
  <2> QED BY <2>1, <1>a DEF PublicationTypeOK, PublicationAssumption
<1>s. FirstStep[KindOf[d]] = IF KindOf[d] = "file" THEN "opening"
                             ELSE IF KindOf[d] = "bundle" THEN "copying" ELSE "calling"
    BY <1>a DEF FirstStep
<1>x. /\ x \in PublisherRows /\ x.step = FirstStep[KindOf[d]] /\ x.f = f /\ x.d = d
      /\ x.from = attached[f] /\ x.todo = HasAttached(f) /\ x.done = {}
      /\ x.thorough \in BOOLEAN /\ (x.thorough = TRUE <=> others = {})
  <2>1. PICK alone \in BOOLEAN : alone = (others = {})
      OBVIOUS
  <2>2. PICK first \in {"opening", "copying", "calling"} : first = FirstStep[KindOf[d]]
      BY <1>s
  <2>3. text[f] \in Texts /\ attached[f] \in PathRows /\ HasAttached(f) \in SUBSET Attachments
      BY <1>a DEF PublicationTypeOK, HasAttached
  <2>4. x = [step |-> first, f |-> f, d |-> d, text |-> text[f], from |-> attached[f], todo |-> HasAttached(f),
             done |-> {}, at |-> Nowhere, calls |-> 0, thorough |-> alone]
      BY <1>2, <2>1, <2>2 DEF Ready
  <2>5. x \in PublisherRows
      BY <2>3, <2>4 DEF PublisherRows
  <2> QED BY <2>1, <2>2, <2>4, <2>5
<1>m. publishers'[u] = x
    BY <1>b
<1>o. \A v \in Publishers \ {u} :
          /\ publishers'[v] \in PublisherRows
          /\ publishers'[v].step = publishers[v].step /\ publishers'[v].f = publishers[v].f
          /\ publishers'[v].d = publishers[v].d /\ publishers'[v].text = publishers[v].text
          /\ publishers'[v].from = publishers[v].from /\ publishers'[v].todo = publishers[v].todo
          /\ publishers'[v].done = publishers[v].done /\ publishers'[v].at = publishers[v].at
          /\ v \in others => publishers'[v].thorough = FALSE
          /\ v \notin others => publishers'[v] = publishers[v]
  <2> SUFFICES ASSUME NEW v \in Publishers \ {u}
               PROVE  /\ publishers'[v] \in PublisherRows
                      /\ publishers'[v].step = publishers[v].step /\ publishers'[v].f = publishers[v].f
                      /\ publishers'[v].d = publishers[v].d /\ publishers'[v].text = publishers[v].text
                      /\ publishers'[v].from = publishers[v].from /\ publishers'[v].todo = publishers[v].todo
                      /\ publishers'[v].done = publishers[v].done /\ publishers'[v].at = publishers[v].at
                      /\ v \in others => publishers'[v].thorough = FALSE
                      /\ v \notin others => publishers'[v] = publishers[v]
      OBVIOUS
  <2>1. publishers[v] \in PublisherRows
      BY <1>a DEF PublicationTypeOK
  <2>2. CASE v \in others
    <3>1. publishers'[v] = [publishers[v] EXCEPT !.thorough = FALSE]
        BY <2>2, <1>b
    <3> QED BY <3>1, <2>1, <2>2 DEF PublisherRows
  <2>3. CASE v \notin others
      BY <2>1, <2>3, <1>b
  <2> QED BY <2>2, <2>3
<1>r. \A v \in Publishers \ {u} : /\ Place(v)' = Place(v) /\ Kind(v)' = Kind(v)
                                  /\ Writer(v)' <=> Writer(v)
                                  /\ Busy(v)' <=> Busy(v)
    BY <1>o DEF Place, Kind, Writer, Busy
<1>p. /\ Place(u)' = p /\ Kind(u)' = KindOf[d] /\ Busy(u)'
      /\ Writer(u)' <=> Writes(d)
    BY <1>0, <1>a, <1>m, <1>x, <1>s DEF Place, Kind, Writer, Busy
<1>q. \A v \in Publishers \ {u} : Writer(v) /\ Place(v) = p /\ Writes(d) <=> v \in others
  <2> SUFFICES ASSUME NEW v \in Publishers \ {u}
               PROVE  Writer(v) /\ Place(v) = p /\ Writes(d) <=> v \in others
      OBVIOUS
  <2>1. v \in At(p) <=> Writer(v) /\ Place(v) = p
      BY DEF At, Writer, Busy
  <2> QED BY <2>1, <1>1
<1>3. PublicationTypeOK'
  <2>1. publishers' \in [Publishers -> PublisherRows]
    <3>1. \A v \in Publishers : publishers'[v] \in PublisherRows
        BY <1>m, <1>x, <1>o
    <3> QED BY <3>1, <1>b
  <2>2. disturbed' \subseteq Places
      BY <1>a, <1>b DEF PublicationTypeOK
  <2> QED BY <2>1, <2>2, <1>a, <1>c, <1>d DEF PublicationTypeOK
<1>4. \A v \in Publishers : StepsFit(v)'
  <2>1. StepsFit(u)'
    <3>1. attached[f] \in PathRows
        BY <1>a DEF PublicationTypeOK
    <3> QED BY <3>1, <1>m, <1>x, <1>p, <1>a, <1>s DEF StepsFit
  <2>2. ASSUME NEW v \in Publishers \ {u} PROVE StepsFit(v)'
      BY <1>o, <1>r DEF PubInv, StepsFit
  <2> QED BY <2>1, <2>2
<1>5. Crowded'
  <2> SUFFICES ASSUME NEW v \in Publishers, NEW y \in Publishers, v # y,
                      Writer(v)', Writer(y)', Place(v)' = Place(y)'
               PROVE  Place(v)' \in disturbed' /\ publishers'[v].thorough = FALSE
      BY DEF Crowded
  <2>1. CASE v = u
    <3>1. y \in others
        BY <2>1, <1>r, <1>p, <1>q
    <3> QED BY <3>1, <2>1, <1>b, <1>m, <1>x, <1>p
  <2>2. CASE y = u
    <3>1. v \in others /\ Place(v)' = p
        BY <2>2, <1>r, <1>p, <1>q
    <3> QED BY <3>1, <2>2, <1>b, <1>o
  <2>3. CASE v # u /\ y # u
    <3>1. Writer(v) /\ Writer(y) /\ Place(v) = Place(y) /\ Place(v)' = Place(v)
        BY <2>3, <1>r
    <3>2. Place(v) \in disturbed /\ publishers[v].thorough = FALSE
        BY <3>1 DEF PubInv, Crowded
    <3> QED BY <3>1, <3>2, <2>3, <1>b, <1>o
  <2> QED BY <2>1, <2>2, <2>3
<1>6. ASSUME NEW v \in Publishers \ {u}, Sole(v)'
      PROVE  WorkStands(v)'
  <2>1. Writer(v) /\ Place(v)' = Place(v) /\ Kind(v)' = Kind(v)
      BY <1>6, <1>r DEF Sole
  <2>2. v \notin others
    <3> SUFFICES ASSUME v \in others PROVE FALSE
        OBVIOUS
    <3>1. publishers'[v].thorough = FALSE /\ Place(v) = p
        BY <1>o, <1>q
    <3>2. p \in disturbed'
        BY <1>b
    <3> QED BY <3>1, <3>2, <2>1, <1>6 DEF Sole
  <2>3. publishers'[v] = publishers[v]
      BY <2>2, <1>o
  <2>4. Place(v) \notin disturbed' => Place(v) \notin disturbed
      BY <1>b
  <2>5. Sole(v)
      BY <2>1, <2>3, <2>4, <1>6 DEF Sole
  <2>6. \A a \in Attachments : /\ Pending(v, a)' <=> Pending(v, a)
                               /\ Kept(Place(v), a)' <=> Kept(Place(v), a)
      BY <2>1, <2>3, <1>c DEF Pending, Kept
  <2>7. publishers[v].done \subseteq Attachments /\ publishers[v].todo \subseteq Attachments
      BY <1>a DEF PublicationTypeOK, PublisherRows
  <2>8. TextIsThere(v)' <=> TextIsThere(v)
      BY <2>1, <2>3 DEF TextIsThere
  <2>9. WorkStands(v)
      BY DEF PubInv
  <2> QED BY <1>c, <2>1, <2>3, <2>4, <2>5, <2>6, <2>7, <2>8, <2>9 DEF WorkStands
<1>7. ASSUME Sole(u)'
      PROVE  WorkStands(u)'
  <2>1. Writes(d) /\ OfOne(p) /\ others = {}
      BY <1>7, <1>m, <1>x, <1>p, <1>b DEF Sole
  <2>2. ~TextIsThere(u)'
      BY <2>1, <1>a, <1>m, <1>x, <1>p, <1>s DEF TextIsThere
  <2>3. p \notin disturbed' => StandsAt(p)
    <3>1. At(p) = {} /\ (p \notin disturbed' => p \notin disturbed)
        BY <2>1, <1>1, <1>b
    <3>2. \A q \in Places : Calm(q) => StandsAt(q)
        BY StandingApart DEF PubInv
    <3> QED BY <2>1, <3>1, <3>2, <1>a DEF Calm
  <2>4. \A a \in Attachments : attached[f][a] = p => Pending(u, a)'
    <3>1. \A a \in Attachments : attached[f][a] = p => a \in HasAttached(f)
        BY <1>a DEF HasAttached, PublicationAssumption
    <3> QED BY <3>1, <1>m, <1>x DEF Pending
  <2>5. \A a \in Attachments : p \notin disturbed' /\ attached[f][a] = p => Kept(p, a)'
      BY <2>3, <1>c DEF StandsAt, Kept
  <2>6. publishers'[u].f = f /\ publishers'[u].done = {} /\ publishers'[u].from = attached[f]
        /\ publishers'[u].todo \subseteq Attachments
      BY <1>m, <1>x DEF HasAttached
  <2> QED BY <2>2, <2>4, <2>5, <2>6, <1>p, <1>c DEF WorkStands
<1>8. PathsAreOwn'
    BY <1>c DEF PubInv, PathsAreOwn
<1>9. ASSUME NEW q \in Places, Calm(q)'
      PROVE  StandsAt(q)'
  <2>1. \A v \in Publishers : Writer(v) => Place(v) # q
      BY <1>9, <1>a, <1>r DEF Calm, At, Writer, Busy
  <2>2. q \notin disturbed
      BY <1>9, <1>b DEF Calm
  <2>3. Calm(q)
      BY <1>9, <2>1, <2>2 DEF Calm, At, Writer, Busy
  <2>4. StandsAt(q)
      BY <2>3, StandingApart DEF PubInv
  <2> QED BY <2>4, <1>c DEF StandsAt, Kept
<1>10. PublicationStands'
    BY <1>9 DEF PublicationStands, StandsAt, Kept
<1>11. \A v \in Publishers : WorkStands(v)'
    BY <1>6, <1>7 DEF WorkStands
<1> QED BY <1>3, <1>4, <1>5, <1>8, <1>10, <1>11 DEF PubInv

LEMMA PublicationKeeps ==
    ASSUME PublicationAssumption
    PROVE  PubInv /\ [PublicationNext]_publicationVars => PubInv'
<1> SUFFICES ASSUME PubInv, [PublicationNext]_publicationVars
             PROVE  PubInv'
    OBVIOUS
<1>t. PublicationTypeOK
    BY DEF PubInv
<1>1. CASE UNCHANGED publicationVars
  <2>1. UNCHANGED <<text, attached, sources, places, publishers, standing, disturbed, received, delivered, failures, deliveries>>
      BY <1>1 DEF publicationVars
  <2>2. PublicationTypeOK'
      BY <1>t, <2>1 DEF PublicationTypeOK
  <2> QED BY <2>1, <2>2, DataStands
<1>2. ASSUME NEW u \in Publishers, PublisherStep(u)
      PROVE  PubInv'
    BY <1>2, DeliverStands, EmptyStands, WriteStands, EndStands, CopiedStands, BeginStands, SkipStands,
       LeaveStands, RecordStands, LogStands, GiveUpStands, CallsStand DEF PublisherStep
<1>3. ASSUME NEW f \in Fragments, Revise(f)
      PROVE  PubInv'
  <2>1. PublicationTypeOK'
    <3>1. text[f] + 1 \in Texts
        BY <1>3, <1>t DEF PublicationTypeOK, Texts, Revise, PublicationAssumption
    <3> QED BY <3>1, <1>3, <1>t DEF PublicationTypeOK, Revise
  <2> QED BY <2>1, <1>3, DataStands DEF Revise
<1>4. ASSUME NEW f \in Fragments, ReplaceAttachments(f)
      PROVE  PubInv'
  <2>1. PICK S \in SUBSET Attachments :
            attached' = [attached EXCEPT ![f] = [a \in Attachments |-> IF a \in S THEN Nowhere ELSE NotAttached]]
      BY <1>4 DEF ReplaceAttachments
  <2>2. [a \in Attachments |-> IF a \in S THEN Nowhere ELSE NotAttached] \in PathRows
      BY DEF PathRows
  <2>3. PublicationTypeOK'
      BY <2>1, <2>2, <1>4, <1>t DEF PublicationTypeOK, ReplaceAttachments
  <2>4. \A g \in Fragments, a \in Attachments :
            attached'[g][a] \in Places => attached'[g][a] = attached[g][a]
      BY <2>1, <1>t DEF PublicationTypeOK, PublicationAssumption
  <2> QED BY <2>3, <2>4, <1>4, DataStands DEF ReplaceAttachments
<1>5. ASSUME NEW a \in Attachments, SourceVanishes(a)
      PROVE  PubInv'
  <2>1. PublicationTypeOK'
      BY <1>5, <1>t DEF PublicationTypeOK, SourceVanishes
  <2> QED BY <2>1, <1>5, DataStands DEF SourceVanishes
<1> QED BY <1>1, <1>2, <1>3, <1>4, <1>5 DEF PublicationNext

\* The invariant holds in every reachable state.
THEOREM PublicationInvariantHolds ==
    ASSUME PublicationAssumption
    PROVE  PublicationSpec => []PubInv
<1>1. PublicationInit => PubInv
    BY FirstStates
<1>2. PubInv /\ [PublicationNext]_publicationVars => PubInv'
    BY PublicationKeeps
<1> QED BY <1>1, <1>2, PTL DEF PublicationSpec

(***************************************************************************)
(* While nothing overlapped, failed or changed since, a directory of one   *)
(* fragment holds the text and the copies of its last delivery, and what   *)
(* is recorded as published there is there (FileDestinationExecutor,       *)
(* WritePinterestPinBundle, UpdateFragmentAttachmentStoragePaths).         *)
(***************************************************************************)
THEOREM WhatIsPublishedStands ==
    ASSUME PublicationAssumption
    PROVE  PublicationSpec => []PublicationStands
<1>1. PubInv => PublicationStands
    BY DEF PubInv
<1> QED BY <1>1, PublicationInvariantHolds, PTL

--------------------------------------------------------------------------------
(***************************************************************************)
(* Calls.  Those that arrived were logged, are about to be, or failed.     *)
(***************************************************************************)
Logging(d, f) ==
    {u \in Publishers : /\ publishers[u].step = "logging"
                        /\ publishers[u].d = d /\ publishers[u].f = f}

CallInv ==
    \A d \in Destinations, f \in Fragments :
        /\ IsFiniteSet(Logging(d, f))
        /\ received[d][f] <= delivered[d][f] + (MaxFailures - failures) + Cardinality(Logging(d, f))

\* What one element more or less does to the size of a finite set.
LEMMA Joining ==
    ASSUME NEW S, NEW T, NEW u, IsFiniteSet(S), T = S \/ T = S \cup {u} \/ T = S \ {u}
    PROVE  /\ IsFiniteSet(T) /\ Cardinality(T) \in Nat /\ Cardinality(S) \in Nat
           /\ Cardinality(S) <= Cardinality(T) + 1
           /\ u \notin T \/ u \in S => Cardinality(T) <= Cardinality(S)
           /\ T = S \cup {u} /\ u \notin S => Cardinality(T) = Cardinality(S) + 1
           /\ S \subseteq T => Cardinality(S) <= Cardinality(T)
<1>1. /\ IsFiniteSet(S \cup {u}) /\ IsFiniteSet(S \ {u})
      /\ Cardinality(S) \in Nat
      /\ Cardinality(S \cup {u}) = IF u \in S THEN Cardinality(S) ELSE Cardinality(S) + 1
      /\ Cardinality(S \ {u}) = IF u \in S THEN Cardinality(S) - 1 ELSE Cardinality(S)
    BY FS_AddElement, FS_RemoveElement, FS_CardinalityType
<1>2. CASE T = S
    BY <1>1, <1>2
<1>3. CASE T = S \cup {u}
  <2>1. u \in S => T = S
      BY <1>3
  <2> QED BY <1>1, <1>3, <2>1, FS_CardinalityType
<1>4. CASE T = S \ {u}
  <2>1. u \notin S => T = S
      BY <1>4
  <2> QED BY <1>1, <1>4, <2>1, FS_CardinalityType
<1> QED BY <1>2, <1>3, <1>4

\* Whose rows a step leaves alone log what they logged.
LEMMA LoggingFrame ==
    ASSUME NEW u \in Publishers, NEW d, NEW f,
           \A v \in Publishers \ {u} : /\ publishers'[v].step = publishers[v].step
                                       /\ publishers'[v].d = publishers[v].d
                                       /\ publishers'[v].f = publishers[v].f
    PROVE  \/ Logging(d, f)' = Logging(d, f)
           \/ Logging(d, f)' = Logging(d, f) \cup {u}
           \/ Logging(d, f)' = Logging(d, f) \ {u}
BY DEF Logging

LEMMA CallsStart ==
    ASSUME PublicationAssumption
    PROVE  PublicationInit => CallInv
<1> SUFFICES ASSUME PublicationInit, NEW d \in Destinations, NEW f \in Fragments
             PROVE  /\ IsFiniteSet(Logging(d, f))
                    /\ received[d][f] <= delivered[d][f] + (MaxFailures - failures) + Cardinality(Logging(d, f))
    BY DEF CallInv
<1>1. Logging(d, f) = {}
    BY DEF PublicationInit, Logging, Ready
<1>2. IsFiniteSet({}) /\ Cardinality({}) = 0
    BY FS_EmptySet
<1> QED BY <1>1, <1>2 DEF PublicationInit, PublicationAssumption

LEMMA CountsAreNumbers ==
    ASSUME PublicationAssumption, PubInv, NEW d \in Destinations, NEW f \in Fragments
    PROVE  /\ received[d][f] \in Nat /\ delivered[d][f] \in Nat /\ failures \in Nat /\ MaxFailures \in Nat
BY DEF PubInv, PublicationTypeOK, PublicationAssumption

\* No call arrives, and whoever was logging loses a failure.
LEMMA QuietSteps ==
    ASSUME PublicationAssumption, PubInv, PubInv', CallInv, NEW u \in Publishers,
           \A v \in Publishers \ {u} : /\ publishers'[v].step = publishers[v].step
                                       /\ publishers'[v].d = publishers[v].d
                                       /\ publishers'[v].f = publishers[v].f,
           received' = received, delivered' = delivered,
           \/ publishers[u].step # "logging" /\ failures' <= failures
           \/ failures' = failures - 1
    PROVE  CallInv'
<1> SUFFICES ASSUME NEW d \in Destinations, NEW f \in Fragments
             PROVE  /\ IsFiniteSet(Logging(d, f)')
                    /\ received'[d][f] <= delivered'[d][f] + (MaxFailures - failures')
                                            + Cardinality(Logging(d, f)')
    BY DEF CallInv
<1> DEFINE S == Logging(d, f)
           T == Logging(d, f)'
<1>1. IsFiniteSet(S) /\ received[d][f] <= delivered[d][f] + (MaxFailures - failures) + Cardinality(S)
    BY DEF CallInv
<1>2. T = S \/ T = S \cup {u} \/ T = S \ {u}
    BY LoggingFrame
<1>3. publishers[u].step # "logging" => S \subseteq T
    BY <1>2 DEF Logging
<1>4. /\ received[d][f] \in Nat /\ delivered[d][f] \in Nat /\ failures \in Nat /\ MaxFailures \in Nat
      /\ failures' \in Nat
    BY CountsAreNumbers DEF PubInv, PublicationTypeOK
<1> HIDE DEF S, T
<1>5. /\ IsFiniteSet(T) /\ Cardinality(T) \in Nat /\ Cardinality(S) \in Nat
      /\ Cardinality(S) <= Cardinality(T) + 1
      /\ S \subseteq T => Cardinality(S) <= Cardinality(T)
    BY <1>1, <1>2, Joining
<1>6. received[d][f] <= delivered[d][f] + (MaxFailures - failures') + Cardinality(T)
    BY <1>1, <1>3, <1>4, <1>5
<1> QED BY <1>5, <1>6 DEF T

LEMMA CallCounts ==
    ASSUME PublicationAssumption, PubInv, PubInv', CallInv, NEW u \in Publishers, Call(u) \/ CallFails(u)
    PROVE  CallInv'
<1> SUFFICES ASSUME NEW d \in Destinations, NEW f \in Fragments
             PROVE  /\ IsFiniteSet(Logging(d, f)')
                    /\ received'[d][f] <= delivered'[d][f] + (MaxFailures - failures')
                                            + Cardinality(Logging(d, f)')
    BY DEF CallInv
<1> DEFINE S == Logging(d, f)
           T == Logging(d, f)'
           here == publishers[u].d = d /\ publishers[u].f = f
<1>1. IsFiniteSet(S) /\ received[d][f] <= delivered[d][f] + (MaxFailures - failures) + Cardinality(S)
    BY DEF CallInv
<1>t. /\ publishers \in [Publishers -> PublisherRows] /\ publishers[u] \in PublisherRows
      /\ received \in [Destinations -> [Fragments -> Nat]]
    BY DEF PubInv, PublicationTypeOK
<1>o. \A v \in Publishers \ {u} : publishers'[v] = publishers[v]
    BY <1>t DEF Call, CallFails, RetryOrFail, Goes
<1>2. T = S \/ T = S \cup {u} \/ T = S \ {u}
    BY <1>o, LoggingFrame
<1>3. u \notin S /\ S \subseteq T
  <2>1. u \notin S
      BY DEF Logging, Call, CallFails
  <2> QED BY <2>1, <1>2
<1>4. /\ received[d][f] \in Nat /\ delivered[d][f] \in Nat /\ failures \in Nat /\ MaxFailures \in Nat
      /\ failures' \in Nat
    BY CountsAreNumbers DEF PubInv, PublicationTypeOK
<1>5. delivered' = delivered
    BY DEF Call, CallFails
<1>6. /\ received' = received \/ Arrives(u)
      /\ Arrives(u) => received'[d][f] = IF here THEN received[d][f] + 1 ELSE received[d][f]
    BY <1>t DEF Call, CallFails, Arrives
<1>7. CASE Call(u)
  <2>1. publishers'[u] = [publishers[u] EXCEPT !.step = "logging"]
      BY <1>7, <1>t DEF Call, Goes
  <2>2. /\ publishers'[u].step = "logging" /\ publishers'[u].d = publishers[u].d
        /\ publishers'[u].f = publishers[u].f
      BY <2>1, <1>t DEF PublisherRows
  <2>3. here => T = S \cup {u}
      BY <2>2, <1>2 DEF Logging
  <2>4. failures' = failures
      BY <1>7 DEF Call
  <2> HIDE DEF S, T, here
  <2>5. /\ IsFiniteSet(T) /\ Cardinality(T) \in Nat /\ Cardinality(S) \in Nat
        /\ here => Cardinality(T) = Cardinality(S) + 1
        /\ Cardinality(S) <= Cardinality(T)
      BY <1>1, <1>2, <1>3, <2>3, Joining
  <2>6. received'[d][f] <= delivered[d][f] + (MaxFailures - failures) + Cardinality(T)
      BY <1>1, <1>4, <1>6, <2>5
  <2> QED BY <1>5, <2>4, <2>5, <2>6 DEF T
<1>8. CASE CallFails(u)
  <2>4. failures' = failures - 1
      BY <1>8 DEF CallFails, Failure
  <2> HIDE DEF S, T, here
  <2>5. /\ IsFiniteSet(T) /\ Cardinality(T) \in Nat /\ Cardinality(S) \in Nat
        /\ Cardinality(S) <= Cardinality(T)
      BY <1>1, <1>2, <1>3, Joining
  <2>6. received'[d][f] <= delivered[d][f] + (MaxFailures - (failures - 1)) + Cardinality(T)
      BY <1>1, <1>4, <1>6, <2>5
  <2> QED BY <1>5, <2>4, <2>5, <2>6 DEF T
<1> QED BY <1>7, <1>8

LEMMA LogCounts ==
    ASSUME PublicationAssumption, PubInv, PubInv', CallInv, NEW u \in Publishers, LogDelivery(u)
    PROVE  CallInv'
<1> SUFFICES ASSUME NEW d \in Destinations, NEW f \in Fragments
             PROVE  /\ IsFiniteSet(Logging(d, f)')
                    /\ received'[d][f] <= delivered'[d][f] + (MaxFailures - failures')
                                            + Cardinality(Logging(d, f)')
    BY DEF CallInv
<1> DEFINE S == Logging(d, f)
           T == Logging(d, f)'
           here == publishers[u].d = d /\ publishers[u].f = f
<1>1. IsFiniteSet(S) /\ received[d][f] <= delivered[d][f] + (MaxFailures - failures) + Cardinality(S)
    BY DEF CallInv
<1>t. /\ publishers \in [Publishers -> PublisherRows]
      /\ delivered \in [Destinations -> [Fragments -> Nat]]
    BY DEF PubInv, PublicationTypeOK
<1>o. \A v \in Publishers \ {u} : publishers'[v] = publishers[v]
    BY <1>t DEF LogDelivery, Goes
<1>2. T = S \/ T = S \cup {u} \/ T = S \ {u}
    BY <1>o, LoggingFrame
<1>3. ~here => S \subseteq T
    BY <1>2 DEF Logging
<1>4. /\ received[d][f] \in Nat /\ delivered[d][f] \in Nat /\ failures \in Nat /\ MaxFailures \in Nat
    BY CountsAreNumbers
<1>5. received' = received /\ failures' = failures
    BY DEF LogDelivery
<1>6. delivered'[d][f] = IF here THEN delivered[d][f] + 1 ELSE delivered[d][f]
    BY <1>t DEF LogDelivery
<1> HIDE DEF S, T, here
<1>7. /\ IsFiniteSet(T) /\ Cardinality(T) \in Nat /\ Cardinality(S) \in Nat
      /\ Cardinality(S) <= Cardinality(T) + 1
      /\ ~here => Cardinality(S) <= Cardinality(T)
    BY <1>1, <1>2, <1>3, Joining
<1>8. received[d][f] <= delivered'[d][f] + (MaxFailures - failures) + Cardinality(T)
    BY <1>1, <1>4, <1>6, <1>7
<1> QED BY <1>5, <1>7, <1>8 DEF T

LEMMA CallInvKept ==
    ASSUME PublicationAssumption
    PROVE  PubInv /\ PubInv' /\ CallInv /\ [PublicationNext]_publicationVars => CallInv'
<1> SUFFICES ASSUME PubInv, PubInv', CallInv, [PublicationNext]_publicationVars
             PROVE  CallInv'
    OBVIOUS
<1>t. /\ publishers \in [Publishers -> PublisherRows] /\ failures \in Nat
      /\ \A v \in Publishers : publishers[v] \in PublisherRows
    BY DEF PubInv, PublicationTypeOK, PublicationAssumption
<1>1. CASE UNCHANGED <<publishers, received, delivered, failures>>
    BY <1>1 DEF CallInv, Logging
<1>2. ASSUME NEW u \in Publishers, PublisherStep(u)
      PROVE  CallInv'
  <2>1. ASSUME NEW f \in Fragments, NEW d \in Destinations, Deliver(u, f, d)
        PROVE  CallInv'
    <3>1. \A v \in Publishers \ {u} : /\ publishers'[v].step = publishers[v].step
                                      /\ publishers'[v].d = publishers[v].d
                                      /\ publishers'[v].f = publishers[v].f
        BY <2>1, <1>t DEF Deliver, PublisherRows
    <3>2. UNCHANGED <<received, delivered, failures>> /\ publishers[u].step # "logging"
        BY <2>1 DEF Deliver
    <3> QED BY <3>1, <3>2, <1>t, QuietSteps
  <2>2. ASSUME \/ EmptyText(u) \/ WriteText(u) \/ EndCopy(u) \/ Copied(u) \/ RecordPaths(u)
               \/ \E a \in Attachments : BeginCopy(u, a) \/ CopyNotNeeded(u, a)
        PROVE  CallInv'
    <3>1. \A v \in Publishers \ {u} : publishers'[v] = publishers[v]
        BY <2>2, <1>t DEF EmptyText, WriteText, EndCopy, Copied, RecordPaths, BeginCopy, CopyNotNeeded, Goes
    <3>2. UNCHANGED <<received, delivered, failures>> /\ publishers[u].step # "logging"
        BY <2>2 DEF EmptyText, WriteText, EndCopy, Copied, RecordPaths, BeginCopy, CopyNotNeeded, OnlyFiles
    <3> QED BY <3>1, <3>2, <1>t, QuietSteps
  <2>3. ASSUME NEW a \in Attachments, LeaveOut(u, a)
        PROVE  CallInv'
    <3>1. \A v \in Publishers \ {u} : publishers'[v] = publishers[v]
        BY <2>3, <1>t DEF LeaveOut, Goes
    <3>2. /\ UNCHANGED <<received, delivered>> /\ publishers[u].step # "logging"
          /\ failures' <= failures
        BY <2>3, <1>t DEF LeaveOut, CannotCopy, Failure
    <3> QED BY <3>1, <3>2, QuietSteps
  <2>4. CASE GiveUp(u)
    <3>1. \A v \in Publishers \ {u} : publishers'[v] = publishers[v]
        BY <2>4, <1>t DEF GiveUp, Goes
    <3>2. /\ UNCHANGED <<received, delivered>>
          /\ \/ publishers[u].step # "logging" /\ failures' <= failures
             \/ failures' = failures - 1
        BY <2>4, <1>t DEF GiveUp, CannotCopy, Failure
    <3> QED BY <3>1, <3>2, QuietSteps
  <2> QED BY <1>2, <2>1, <2>2, <2>3, <2>4, CallCounts, LogCounts DEF PublisherStep
<1> QED BY <1>1, <1>2 DEF PublicationNext, publicationVars, Revise, ReplaceAttachments, SourceVanishes

(***************************************************************************)
(* A remote destination gets a fragment no more often than the deliveries  *)
(* that are or will be logged, and the failures, account for               *)
(* (ExecuteDestinationWithRetry, markRetryable).                           *)
(***************************************************************************)
THEOREM RemoteCopiesStayAccounted ==
    ASSUME PublicationAssumption
    PROVE  PublicationSpec => []RemoteCopiesAreAccounted
<1>1. PublicationInit => CallInv
    BY CallsStart
<1>2. PubInv /\ PubInv' /\ CallInv /\ [PublicationNext]_publicationVars => CallInv'
    BY CallInvKept
<1>3. CallInv => RemoteCopiesAreAccounted
    BY DEF CallInv, RemoteCopiesAreAccounted, Logging
<1> QED BY <1>1, <1>2, <1>3, PublicationInvariantHolds, PTL DEF PublicationSpec
================================================================================
