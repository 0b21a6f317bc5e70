---------------------------- MODULE MediaCustody ----------------------------
(***************************************************************************)
(* Who holds the bytes of an attachment: the asset_variants and            *)
(* media_blobs tables (repository/media.go), the content-addressed files   *)
(* beside the database (blobstore/file.go), the upload transaction that    *)
(* spans both (service/media.go) and the explicit custody requests         *)
(* (repository/asset_acquisition.go).                                      *)
(*                                                                         *)
(* Every transaction here is BEGIN IMMEDIATE, so it is one step.  The only *)
(* one that also touches the disk is the upload: it is two steps, the file *)
(* and the commit, and `upload' is the write lock it holds between them.   *)
(* A digest stands for the bytes it names.                                 *)
(***************************************************************************)
EXTENDS Integers, FiniteSets

CONSTANTS Variants, Digests, NoDigest, NoUpload,
          Targets,            \* (asset, kind) pairs an acquisition can name
          TargetOf,           \* variant -> its target
          AcquisitionVariant, \* target -> the variant an acquisition creates
          AcquisitionIds, NoVariant,
          MaxFaults           \* failed commits and crashes

CustodyAssumption ==
    /\ NoDigest \notin Digests /\ NoVariant \notin Variants
    /\ TargetOf \in [Variants -> Targets]
    /\ AcquisitionVariant \in [Targets -> Variants]
    /\ MaxFaults \in Nat

VARIABLES
    variants,      \* the asset_variants rows
    blobs,         \* media_blobs: digest -> retention, "none" without a row
    files,         \* digests whose file exists under the blob root
    upload,        \* the upload that holds the write lock
    acquisitions,  \* asset_acquisition_requests
    faults,        \* failures left
    crashed        \* has an upload died with its file installed?

custodyVars == <<variants, blobs, files, upload, acquisitions, faults, crashed>>

Custodies == {"reference", "cache", "mirror", "adopted"}
VariantRows == [state    : {"absent", "reference_only", "pending", "available", "failed"},
                custody  : Custodies,
                expected : Digests \cup {NoDigest},
                digest   : Digests \cup {NoDigest}]
Acquisitions == [target : Targets, custody : Custodies \ {"reference"},
                 variant : Variants]

Absent == [state |-> "absent", custody |-> "reference",
           expected |-> NoDigest, digest |-> NoDigest]
Present(v) == variants[v].state # "absent"
NoWriter == upload = NoUpload
Fault == faults > 0 /\ faults' = faults - 1

(***************************************************************************)
(* Rows.  SeenAgain is upsertAssetVariant on a row that exists: it fills   *)
(* gaps and leaves the state alone; SameVariant is its conflict check.     *)
(***************************************************************************)
Indefinite == {"mirror", "adopted"}
RetentionFor(custody) == IF custody = "cache" THEN "cache" ELSE "indefinite"

Agree(d, e) == d = NoDigest \/ e = NoDigest \/ d = e

SameVariant(row, seen) ==
    \/ row.state = "absent"
    \/ /\ row.custody = seen.custody
       /\ Agree(row.expected, seen.expected) /\ Agree(row.digest, seen.expected)

SeenAgain(row, seen) ==
    IF row.state = "absent"
    THEN [state |-> seen.state, custody |-> seen.custody,
          expected |-> seen.expected, digest |-> NoDigest]
    ELSE [row EXCEPT !.expected = IF @ = NoDigest THEN seen.expected ELSE @]

\* AttachBlobOn: what it refuses, the row it leaves, the blob row it leaves.
CanAttach(row, d, retention) ==
    /\ Agree(row.expected, d) /\ Agree(row.digest, d)
    /\ row.custody # "reference"
    /\ row.custody \in Indefinite => retention = "indefinite"

Attached(row, d) == [row EXCEPT !.expected = d, !.digest = d, !.state = "available"]

Retained(old, new) == IF "indefinite" \in {old, new} THEN "indefinite" ELSE "cache"

References(d) == {v \in Variants : variants[v].digest = d}

(***************************************************************************)
(* The upload.  InstallBytes is everything up to and including Put: the    *)
(* lock, the checks and the hard link.  AttachUpload is the rest of the    *)
(* transaction, which commits.                                             *)
(***************************************************************************)
InstallBytes(v, d, by) ==
    /\ NoWriter
    /\ Present(v) /\ variants[v].custody # "reference"
    /\ Agree(variants[v].expected, d)
    /\ files' = files \cup {d}
    /\ upload' = [variant |-> v, digest |-> d, by |-> by, created |-> d \notin files]
    /\ UNCHANGED <<variants, blobs, acquisitions, faults, crashed>>

AttachUpload ==
    LET v == upload.variant
        d == upload.digest
        retention == RetentionFor(variants[v].custody)
    IN  /\ ~NoWriter
        /\ CanAttach(variants[v], d, retention)
        /\ variants' = [variants EXCEPT ![v] = Attached(@, d)]
        /\ blobs' = [blobs EXCEPT ![d] = Retained(@, retention)]
        /\ upload' = NoUpload
        /\ UNCHANGED <<files, acquisitions, faults, crashed>>

\* Slip: a failed commit leaves its file.
AbortKeepsFile ==
    /\ ~NoWriter /\ Fault
    /\ upload' = NoUpload
    /\ UNCHANGED <<variants, blobs, files, acquisitions, crashed>>

\* The attach, the outcome or the commit fails: the file goes if this upload
\* created it and no row names it, and the transaction rolls back.
AbortUpload ==
    /\ ~NoWriter /\ Fault
    /\ files' = IF upload.created /\ References(upload.digest) = {}
                THEN files \ {upload.digest} ELSE files
    /\ upload' = NoUpload
    /\ UNCHANGED <<variants, blobs, acquisitions, crashed>>

\* The process dies with the file installed: SQLite rolls back, the file stays.
CrashUpload ==
    /\ ~NoWriter /\ Fault
    /\ upload' = NoUpload
    /\ crashed' = (crashed \/ upload.created)
    /\ UNCHANGED <<variants, blobs, files, acquisitions>>

(***************************************************************************)
(* RequestAssetAcquisition: an explicit custody command, once per id.      *)
(***************************************************************************)
CustodyMayBecome(current, requested) ==
    \/ current = requested
    \/ current = "reference"
    \/ current = "cache" /\ requested = "mirror"

Acquired(row, custody) ==
    [row EXCEPT !.custody = custody,
                !.state = IF @ = "available" THEN @ ELSE "pending"]

\* The variant the request is about: the one of its kind, or among several
\* the one an earlier acquisition created; otherwise a new one.
AcquisitionTarget(t) ==
    LET found == {v \in Variants : Present(v) /\ TargetOf[v] = t}
    IN  IF Cardinality(found) = 1 THEN found
        ELSE IF found = {} THEN {AcquisitionVariant[t]}
        ELSE found \cap {AcquisitionVariant[t]}

\* Slip: a new request always starts over.
AcquireStartsOver(a, t, custody) ==
    /\ NoWriter
    /\ acquisitions[a] = NoVariant /\ \E v \in Variants : Present(v)
    /\ \E v \in AcquisitionTarget(t) :
        /\ Present(v) => CustodyMayBecome(variants[v].custody, custody)
        /\ variants' = [variants EXCEPT ![v].custody = custody, ![v].state = "pending"]
        /\ acquisitions' = [acquisitions EXCEPT ![a] =
               [target |-> t, custody |-> custody, variant |-> v]]
    /\ UNCHANGED <<blobs, files, upload, faults, crashed>>

\* A repeated id with the same semantics changes nothing and another one is
\* refused, so only the first request of an id is a step.
RequestAssetAcquisition(a, t, custody) ==
    /\ NoWriter
    /\ acquisitions[a] = NoVariant
    /\ \E v \in Variants : Present(v)                  \* the asset is known
    /\ \E v \in AcquisitionTarget(t) :
        LET d == variants[v].digest
        IN  /\ Present(v) => CustodyMayBecome(variants[v].custody, custody)
            /\ variants' = [variants EXCEPT ![v] = Acquired(@, custody)]
            /\ blobs' = IF d # NoDigest /\ RetentionFor(custody) = "indefinite"
                        THEN [blobs EXCEPT ![d] = "indefinite"] ELSE blobs
            /\ acquisitions' = [acquisitions EXCEPT ![a] =
                   [target |-> t, custody |-> custody, variant |-> v]]
    /\ UNCHANGED <<files, upload, faults, crashed>>

CustodyInit ==
    /\ variants = [v \in Variants |-> Absent]
    /\ blobs = [d \in Digests |-> "none"]
    /\ files = {}
    /\ upload = NoUpload
    /\ acquisitions = [a \in AcquisitionIds |-> NoVariant]
    /\ faults = MaxFaults
    /\ crashed = FALSE

CustodyTypeOK ==
    /\ variants \in [Variants -> VariantRows]
    /\ blobs \in [Digests -> {"none", "cache", "indefinite"}]
    /\ files \subseteq Digests
    /\ acquisitions \in [AcquisitionIds -> Acquisitions \cup {NoVariant}]
    /\ faults \in 0..MaxFaults
    /\ crashed \in BOOLEAN

(***************************************************************************)
(* Properties of the two stores together.                                  *)
(***************************************************************************)
\* A variant shown as available, and every blob row, has its verified file on
\* disk and the digest its manifest asked for, whatever uploads, failed
\* commits and crashes interleave (StoreVariantContentAtomic, AttachBlobOn);
\* the ones FE promised to mirror or adopt are kept indefinitely, also when the
\* promise is made after a cache already shares the blob.  And a file no row
\* names is left only by a crash between the hard link and the commit, never
\* by an upload that failed (the compensation of media.go).
AvailableHasBytes ==
    /\ \A d \in files : blobs[d] = "none" => crashed \/ (~NoWriter /\ upload.digest = d)
    /\ \A d \in Digests : blobs[d] # "none" => d \in files
    /\ \A v \in Variants : variants[v].state = "available" =>
           /\ variants[v].digest \in Digests /\ blobs[variants[v].digest] # "none"
           /\ variants[v].expected = variants[v].digest
           /\ variants[v].custody \in Indefinite => blobs[variants[v].digest] = "indefinite"

\* Verified bytes are never degraded: no failure report, later manifest or
\* custody request takes them away or swaps them, and retention only rises.
KeepsBytes ==
    /\ \A v \in Variants : variants[v].state = "available" =>
           variants'[v].state = "available" /\ variants'[v].digest = variants[v].digest
    /\ \A d \in Digests : blobs[d] = "indefinite" => blobs'[d] = "indefinite"
BytesAreKept == [][KeepsBytes]_custodyVars
=============================================================================
