--------------------------- MODULE CaptureProtocol ---------------------------
(***************************************************************************)
(* The manifest-first capture protocol of a browser extension: POST the    *)
(* manifest (CaptureRepository.Accept), PUT the bytes it is asked for      *)
(* (CaptureService.StoreAssetContent), POST the completion report          *)
(* (CompleteCapture).  Any call may be repeated or abandoned by a client   *)
(* that lost its answer, and captures of one page share variants.          *)
(*                                                                         *)
(* A payload is the semantic content of a manifest with its submitter; two *)
(* payloads differ in their semantic digest.  Fragment, tags, annotations  *)
(* and enrichment rows of an acceptance commit with it and are not kept    *)
(* here.                                                                   *)
(***************************************************************************)
EXTENDS MediaCustody

CONSTANTS Captures, Payloads,
          ManifestOf,     \* payload -> variant -> what its manifest says of it
          ReportKeys, NoAttempt, NoReport

VARIABLES
    attempts,    \* capture_attempts with their acceptance snapshot
    outcomes,    \* capture_asset_outcomes: capture -> variant -> outcome
    reports,     \* capture_completion_reports with their status snapshot
    told         \* every answer each capture's client has been given (history)

protocolVars == <<attempts, outcomes, reports, told>>
vars == <<custodyVars, protocolVars>>

Actions == {"request_upload", "reuse_blob", "server_acquire", "reference_only", "rejected"}
Stored == {"uploaded", "already_available"}
Missing == {"not_available", "failed"}
Terminal == {"complete", "partial"}
Outcomes == {"none", "deferred"} \cup Stored \cup Missing
Reported == {"none", "uploaded", "failed", "deferred"}

Manifest(p) == DOMAIN ManifestOf[p]
Bound(c) == DOMAIN attempts[c].actions
Accepted(c) == attempts[c] # NoAttempt

\* What a manifest says of a variant: its transfer decides the state the row starts in.
ManifestRows == [action   : Actions \ {"reuse_blob"},
                 custody  : Custodies,
                 state    : {"reference_only", "pending", "failed"},
                 expected : Digests \cup {NoDigest}]

\* Rows of an attempt with payload p and of the report on it.
AttemptRows(p) == [payload : {p}, actions : [Manifest(p) -> Actions],
                   completion : {"accepting", "transferring"} \cup Terminal]
StatusRows(p) == [completion : Terminal, outcomes : [Manifest(p) -> Outcomes]]
ReportRows(p) == [key : ReportKeys, said : [Manifest(p) -> Reported], status : StatusRows(p)]
AllAttempts == UNION {AttemptRows(p) : p \in Payloads}
AllReports == UNION {ReportRows(p) : p \in Payloads}
AllAnswers == [accepted  : SUBSET UNION {[Manifest(p) -> Actions] : p \in Payloads},
               completed : SUBSET UNION {StatusRows(p) : p \in Payloads}]
Uploads == [variant : Variants, digest : Digests, by : Captures, created : BOOLEAN]

ASSUME ProtocolAssumption ==
    /\ CustodyAssumption
    /\ \A p \in Payloads :
           /\ Manifest(p) \subseteq Variants
           /\ \A v \in Manifest(p) : ManifestOf[p][v] \in ManifestRows
           /\ NoAttempt \notin AttemptRows(p) /\ NoReport \notin ReportRows(p)
    /\ NoUpload \notin Uploads

(***************************************************************************)
(* Accept.  Each variant of the manifest is upserted, and each binding     *)
(* gets its instruction: reuse the bytes of the variant, else attach the   *)
(* blob already known under the expected digest, else what was asked.      *)
(***************************************************************************)
RowFor(p, v) == SeenAgain(variants[v], ManifestOf[p][v])

KnownDigest(p, v) ==
    LET asked == ManifestOf[p][v].expected
    IN  IF asked # NoDigest THEN asked ELSE RowFor(p, v).expected

HasKnownBlob(p, v) ==
    /\ RowFor(p, v).state # "available"
    /\ KnownDigest(p, v) # NoDigest
    /\ ManifestOf[p][v].action \notin {"reference_only", "rejected"}
    /\ blobs[KnownDigest(p, v)] # "none"

Instruction(p, v) ==
    IF RowFor(p, v).state = "available" \/ HasKnownBlob(p, v)
    THEN "reuse_blob" ELSE ManifestOf[p][v].action

Acceptable(p) ==
    \A v \in Manifest(p) :
        /\ SameVariant(variants[v], ManifestOf[p][v])
        /\ HasKnownBlob(p, v) =>
               CanAttach(RowFor(p, v), KnownDigest(p, v), blobs[KnownDigest(p, v)])

AcceptNew(c, p) ==
    /\ NoWriter
    /\ ~Accepted(c) /\ Acceptable(p)
    /\ variants' = [v \in Variants |->
           IF v \notin Manifest(p) THEN variants[v]
           ELSE IF HasKnownBlob(p, v) THEN Attached(RowFor(p, v), KnownDigest(p, v))
           ELSE RowFor(p, v)]
    /\ LET answer == [v \in Manifest(p) |-> Instruction(p, v)]
       IN  /\ attempts' = [attempts EXCEPT ![c] =
                  [payload |-> p, actions |-> answer, completion |-> "accepting"]]
           /\ told' = [told EXCEPT ![c].accepted = @ \cup {answer}]
    /\ outcomes' = [outcomes EXCEPT ![c] = [v \in Manifest(p) |-> "none"]]
    /\ UNCHANGED <<blobs, files, upload, acquisitions, faults, crashed, reports>>

\* Slip: a repeat is answered from the tables as they are now.
AcceptAgainAnew(c, p) ==
    /\ NoWriter
    /\ Accepted(c) /\ attempts[c].payload = p
    /\ told' = [told EXCEPT ![c].accepted =
                   @ \cup {[v \in Manifest(p) |-> Instruction(p, v)]}]
    /\ UNCHANGED <<custodyVars, attempts, outcomes, reports>>

\* The same capture id and content again: the stored snapshot is the answer.
\* Other content under that id is refused and changes nothing.
AcceptAgain(c, p) ==
    /\ NoWriter
    /\ Accepted(c) /\ attempts[c].payload = p
    /\ told' = [told EXCEPT ![c].accepted = @ \cup {attempts[c].actions}]
    /\ UNCHANGED <<custodyVars, attempts, outcomes, reports>>

(***************************************************************************)
(* StoreAssetContent: the guard ValidateAssetUploadOn and the closing      *)
(* RecordUploadedOutcomeOn run inside the upload's transaction.            *)
(***************************************************************************)
UploadAllowed(c, v) ==
    /\ Accepted(c) /\ v \in Bound(c)
    /\ attempts[c].completion \notin Terminal
    /\ attempts[c].actions[v] \in {"request_upload", "reuse_blob"}

PutContent(c, v, d) ==
    /\ UploadAllowed(c, v)
    /\ InstallBytes(v, d, c)
    /\ UNCHANGED protocolVars

FinishContent ==
    /\ AttachUpload
    /\ outcomes' = [outcomes EXCEPT ![upload.by][upload.variant] = "uploaded"]
    /\ attempts' = [attempts EXCEPT ![upload.by].completion =
                       IF @ = "accepting" THEN "transferring" ELSE @]
    /\ UNCHANGED <<reports, told>>

LoseContent == (AbortUpload \/ CrashUpload) /\ UNCHANGED protocolVars

(***************************************************************************)
(* CompleteCapture with a report of what the client did, "none" for a      *)
(* variant it does not mention.                                            *)
(***************************************************************************)
HasBytes(v) == variants[v].state = "available"

\* Slip: a client's word is enough.
ReportIsCredibleAlways(c, report) == TRUE

\* FE never believes in bytes it has not verified.
ReportIsCredible(c, report) ==
    \A v \in Bound(c) : report[v] = "uploaded" => HasBytes(v)

FinalOutcome(c, v, said) ==
    CASE HasBytes(v) -> IF outcomes[c][v] = "uploaded" THEN "uploaded" ELSE "already_available"
      [] ~HasBytes(v) /\ said # "none" -> said
      [] OTHER -> IF attempts[c].actions[v] \in {"reference_only", "server_acquire"}
                  THEN "deferred" ELSE "not_available"

LeavesPartial(c, v, said) ==
    /\ ~HasBytes(v)
    /\ \/ attempts[c].actions[v] \in {"request_upload", "rejected"}
       \/ said = "none" /\ attempts[c].actions[v] = "reuse_blob"

MarkedFailed(c, v, said) ==
    ~HasBytes(v) /\ said \in Missing /\ attempts[c].actions[v] = "request_upload"

FirstReport(c, key, report) ==
    LET final == [v \in Bound(c) |-> FinalOutcome(c, v, report[v])]
        completion == IF \E v \in Bound(c) : LeavesPartial(c, v, report[v])
                      THEN "partial" ELSE "complete"
        status == [completion |-> completion, outcomes |-> final]
    IN  /\ reports[c] = NoReport /\ attempts[c].completion \notin Terminal
        /\ \A other \in Captures : reports[other] # NoReport => reports[other].key # key
        /\ ReportIsCredible(c, report)
        /\ variants' = [v \in Variants |->
               IF v \in Bound(c) /\ MarkedFailed(c, v, report[v])
               THEN [variants[v] EXCEPT !.state = "failed"] ELSE variants[v]]
        /\ outcomes' = [outcomes EXCEPT ![c] = final]
        /\ attempts' = [attempts EXCEPT ![c].completion = completion]
        /\ reports' = [reports EXCEPT ![c] =
               [key |-> key, said |-> report, status |-> status]]
        /\ told' = [told EXCEPT ![c].completed = @ \cup {status}]
        /\ UNCHANGED <<blobs, files, upload, acquisitions, faults, crashed>>

\* The exact report again: its stored status.  Any other is refused.
ReportAgain(c, key, report) ==
    /\ reports[c] # NoReport /\ reports[c].key = key /\ reports[c].said = report
    /\ told' = [told EXCEPT ![c].completed = @ \cup {reports[c].status}]
    /\ UNCHANGED <<custodyVars, attempts, outcomes, reports>>

CompleteCapture(c, key, report) ==
    /\ NoWriter /\ Accepted(c)
    /\ FirstReport(c, key, report) \/ ReportAgain(c, key, report)

Acquire(a, t, custody) ==
    RequestAssetAcquisition(a, t, custody) /\ UNCHANGED protocolVars

Init ==
    /\ CustodyInit
    /\ attempts = [c \in Captures |-> NoAttempt]
    /\ outcomes = [c \in Captures |-> <<>>]
    /\ reports = [c \in Captures |-> NoReport]
    /\ told = [c \in Captures |-> [accepted |-> {}, completed |-> {}]]

Next ==
    \/ \E c \in Captures, p \in Payloads : AcceptNew(c, p) \/ AcceptAgain(c, p)
    \/ \E c \in Captures, v \in Variants, d \in Digests : PutContent(c, v, d)
    \/ FinishContent \/ LoseContent
    \/ \E c \in Captures : Accepted(c) /\
           \E key \in ReportKeys, report \in [Bound(c) -> Reported] :
               CompleteCapture(c, key, report)
    \/ \E a \in AcquisitionIds, t \in Targets, custody \in Custodies \ {"reference"} :
           Acquire(a, t, custody)

Spec == Init /\ [][Next]_vars

TypeOK ==
    /\ CustodyTypeOK
    /\ upload \in Uploads \cup {NoUpload}
    /\ attempts \in [Captures -> AllAttempts \cup {NoAttempt}]
    /\ DOMAIN outcomes = Captures
    /\ \A c \in Captures : Accepted(c) => outcomes[c] \in [Bound(c) -> Outcomes]
    /\ reports \in [Captures -> AllReports \cup {NoReport}]
    /\ told \in [Captures -> AllAnswers]

(***************************************************************************)
(* Properties.                                                             *)
(***************************************************************************)
\* A capture is never told that bytes are stored unless they are, and one
\* that is complete has bytes for everything the client had to send, however
\* uploads, failure reports and other captures of the variant interleave.
OutcomeIsBacked ==
    \A c \in Captures : Accepted(c) =>
        /\ \A v \in Bound(c) : outcomes[c][v] \in Stored => HasBytes(v)
        /\ attempts[c].completion = "complete" =>
               \A v \in Bound(c) :
                   attempts[c].actions[v] \in {"request_upload", "reuse_blob", "rejected"} =>
                       HasBytes(v)

\* A client that repeats a call because it lost the answer gets the answer of
\* the first time, though the tables may have moved on since.
AnswersAreStable ==
    \A c \in Captures :
        Cardinality(told[c].accepted) <= 1 /\ Cardinality(told[c].completed) <= 1
=============================================================================
