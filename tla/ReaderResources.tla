---------------------------- MODULE ReaderResources ----------------------------
(***************************************************************************)
(* The article and the media of an item (internal/service/                 *)
(* reader_resources.go, internal/repository/reader_resources.go and        *)
(* internal/api/reader_resources.go): a revision is named together with    *)
(* its fragment, a variant together with its revision; its row is read,    *)
(* then its blob row, then the file is opened, checked and served.  In     *)
(* between, bytes may arrive, and somebody may change the files on disk.   *)
(*                                                                         *)
(* A content is what a file holds; its digest is the content itself.  A    *)
(* blob lies under its digest, media of before custody under a path of     *)
(* their own.  A file that is replaced leaves the open one as it was; one  *)
(* that is rewritten in place does not.                                    *)
(***************************************************************************)
EXTENDS Integers, Sequences, FiniteSets

CONSTANTS
    Contents,     \* what files may hold
    SizeOf,       \* content -> bytes
    SniffedOf,    \* content -> the media type its bytes show
    Rows,         \* the asset_variants rows to begin with
    Aliases,      \* ids of fragments that the item has replaced, and its own
    Attached,     \* the revisions of the item that show the variant
    Ranges,       \* the ranges asked for: [first, last], Nothing where open
    LegacyPath, Nothing

Families == {"raster", "video", "text", "active", "unknown"}
Row == [state : {"pending", "available", "failed"}, custody : {"reference", "cache", "mirror", "adopted"},
        retryable : BOOLEAN, blob : Contents \cup {Nothing}, expected : Contents \cup {Nothing},
        legacy : BOOLEAN, kind : {"image", "video", "document"}, declared : Families \cup {Nothing}]
Paths == Contents \cup {LegacyPath}
Requests == [fragment : Aliases \cup {"another"}, revision : 1..2, range : Ranges]

ResourceAssumption ==
    /\ LegacyPath \notin Contents /\ Nothing \notin Contents \cup Nat
    /\ SizeOf \in [Contents -> Nat] /\ SniffedOf \in [Contents -> Families]
    /\ Rows \subseteq Row
    /\ \A r \in Rows : r.blob = Nothing
    /\ Attached \subseteq 1..2
    /\ \A r \in Ranges : r = Nothing \/ r \in [first : Nat \cup {Nothing}, last : Nat \cup {Nothing}]

VARIABLES
    variantRow,  \* the variant's row
    blobs,       \* media_blobs
    paths,       \* what each file holds
    request,     \* what is asked for, and how far the answer is
    answer       \* how it ended

resourceVars == <<variantRow, blobs, paths, request, answer>>

Unasked == [step |-> "idle", asked |-> Nothing, row |-> Nothing, blob |-> Nothing,
            path |-> Nothing, content |-> Nothing, rewritten |-> FALSE]
Unavailable(reason, retryable) == [code |-> "unavailable", reason |-> reason, retryable |-> retryable]
Broken(reason) == [code |-> "integrity", reason |-> reason, retryable |-> FALSE]
NotFound == [code |-> "not_found", reason |-> "none", retryable |-> FALSE]

Ends(a) == request' = Unasked /\ answer' = a /\ UNCHANGED <<variantRow, blobs, paths>>
Goes(r) == request' = r /\ UNCHANGED <<variantRow, blobs, paths, answer>>

ResourceInit ==
    /\ variantRow \in Rows
    /\ blobs = {}
    /\ paths \in [Paths -> Contents \cup {Nothing}]
    /\ \A c \in Contents : paths[c] = Nothing
    /\ request = Unasked /\ answer = NotFound

\* Revisions and what they show never change, so these reads are one step.
GetRevision(q) ==
    /\ request.step = "idle"
    /\ IF q.fragment \notin Aliases \/ q.revision \notin Attached THEN Ends(NotFound)
       ELSE Goes([Unasked EXCEPT !.step = "variant", !.asked = q])

GetVariant ==
    /\ request.step = "variant"
    /\ Goes([request EXCEPT !.step = IF variantRow.blob = Nothing THEN "open" ELSE "blob", !.row = variantRow])

FindBlob ==
    /\ request.step = "blob"
    /\ IF request.row.blob \in blobs THEN Goes([request EXCEPT !.step = "open", !.blob = request.row.blob])
       ELSE Ends(NotFound)

(***************************************************************************)
(* Opening.                                                                *)
(***************************************************************************)
\* Only a pending one, or one that failed for now, is worth asking for again.
Withheld(r) ==
    LET state == IF r.custody = "reference" THEN "reference_only" ELSE r.state
    IN  Unavailable(state, state = "pending" \/ (state = "failed" /\ r.retryable))

Opens(path) == Goes([request EXCEPT !.step = "verify", !.path = path, !.content = paths[path]])

OpenMedia ==
    /\ request.step = "open"
    /\ LET r == request.row IN
       IF r.state # "available" \/ r.custody = "reference" THEN Ends(Withheld(r))
       ELSE IF request.blob # Nothing
            THEN IF paths[request.blob] = Nothing THEN Ends(Broken("blob cannot be opened"))
                 ELSE Opens(request.blob)
       ELSE IF r.custody = "adopted" /\ r.legacy
            THEN IF paths[LegacyPath] = Nothing THEN Ends(Unavailable("legacy_path_not_authorized", FALSE))
                 ELSE Opens(LegacyPath)
       ELSE Ends(Unavailable("verified_bytes_unavailable", FALSE))

\* All that the rows say of the bytes.
Expected == {request.row.expected, request.row.blob, request.blob} \ {Nothing}
SizesAgree(content) == request.blob # Nothing => SizeOf[request.blob] = SizeOf[content]
\* Slip: files of the right size are not read.
SizesOnly(content) == SizesAgree(content)
Agrees(content) == SizesAgree(content) /\ \A d \in Expected : d = content

Verify ==
    /\ request.step = "verify"
    /\ IF Agrees(request.content) THEN Goes([request EXCEPT !.step = "sniff"])
       ELSE Ends(Broken("media digest mismatch"))

(***************************************************************************)
(* What is served.                                                         *)
(***************************************************************************)
FamilyOf == [image |-> "raster", video |-> "video", document |-> "text"]
allowedReaderMediaType(kind, type) == type = FamilyOf[kind]
safeReaderMediaType(r, sniffed) ==
    /\ sniffed \notin {"active", "unknown"} /\ r.declared # "active"
    /\ r.declared \notin {Nothing, "unknown"} => r.declared = sniffed
    /\ allowedReaderMediaType(r.kind, sniffed)

SafeType ==
    /\ request.step = "sniff"
    /\ IF safeReaderMediaType(request.row, SniffedOf[request.content]) THEN Goes([request EXCEPT !.step = "serve"])
       ELSE Ends(Unavailable("unsafe_or_mismatched_mime", FALSE))

validSingleByteRange(range, size) ==
    IF range.first = Nothing THEN range.last # Nothing /\ range.last > 0 /\ size > 0
    ELSE range.first < size /\ (range.last = Nothing \/ range.last >= range.first)

\* The bytes a valid range selects, counted from 0.
Slice(range, size) ==
    IF range = Nothing THEN <<0, size - 1>>
    ELSE IF range.first = Nothing
         THEN <<IF range.last > size THEN 0 ELSE size - range.last, size - 1>>
    ELSE <<range.first, IF range.last = Nothing \/ range.last >= size THEN size - 1 ELSE range.last>>

ServeContent ==
    /\ request.step = "serve"
    /\ LET size == SizeOf[request.content]
           range == request.asked.range
       IN  IF range # Nothing /\ ~validSingleByteRange(range, size)
           THEN Ends([code |-> "bad_range", reason |-> "none", retryable |-> FALSE])
           ELSE Ends([code |-> "served", content |-> request.content, row |-> request.row,
                      asked |-> request.asked, rewritten |-> request.rewritten,
                      slice |-> Slice(range, size), size |-> size])

(***************************************************************************)
(* Articles are read from the revision itself, which is checked against    *)
(* its digest.                                                             *)
(***************************************************************************)
Article(q, whole) ==
    /\ request.step = "idle"
    /\ Ends(IF q.fragment \notin Aliases THEN NotFound
            ELSE IF ~whole THEN Broken("revision content digest mismatch")
            ELSE [code |-> "article", reason |-> "none", retryable |-> FALSE])

(***************************************************************************)
(* Meanwhile.                                                              *)
(***************************************************************************)
Arrives(c) ==
    /\ variantRow.state # "available" /\ variantRow.custody # "reference"
    /\ variantRow.expected \in {Nothing, c}
    /\ blobs' = blobs \cup {c} /\ paths' = [paths EXCEPT ![c] = c]
    /\ variantRow' = [variantRow EXCEPT !.state = "available", !.blob = c, !.expected = c]
    /\ UNCHANGED <<request, answer>>

\* A file is lost, or another one takes its place.
Replaced(p, c) ==
    /\ paths[p] # Nothing /\ paths[p] # c
    /\ paths' = [paths EXCEPT ![p] = c]
    /\ UNCHANGED <<variantRow, blobs, request, answer>>

Rewritten(p, c) ==
    /\ paths[p] # Nothing /\ paths[p] # c
    /\ paths' = [paths EXCEPT ![p] = c]
    /\ request' = IF request.path = p /\ request.content = paths[p]
                  THEN [request EXCEPT !.content = c, !.rewritten = request.step \in {"sniff", "serve"} \/ @]
                  ELSE request
    /\ UNCHANGED <<variantRow, blobs, answer>>

ResourceNext ==
    \/ \E q \in Requests : GetRevision(q)
    \/ \E q \in [fragment : Aliases \cup {"another"}, revision : 1..2], whole \in BOOLEAN : Article(q, whole)
    \/ GetVariant \/ FindBlob \/ OpenMedia \/ Verify \/ SafeType \/ ServeContent
    \/ \E c \in Contents : Arrives(c)
    \/ \E p \in Paths, c \in Contents \cup {Nothing} : Replaced(p, c)
    \/ \E p \in Paths, c \in Contents : Rewritten(p, c)

ResourceSpec == ResourceInit /\ [][ResourceNext]_resourceVars

(***************************************************************************)
(* What is served was asked for and is what was kept: the variant is shown *)
(* by the revision that was named, its bytes are FE's own and agree with   *)
(* every digest that was known of them, however the row changed and        *)
(* whatever became of the file in the meantime, and a range that is        *)
(* accepted selects bytes the file has (OpenMedia, ServeContent).          *)
(* Excepted is a file that somebody rewrites in place after it was         *)
(* checked.                                                                *)
(***************************************************************************)
ServedIsKept ==
    answer.code = "served" =>
        /\ answer.asked.revision \in Attached /\ answer.asked.fragment \in Aliases
        /\ answer.row.state = "available" /\ answer.row.custody # "reference"
        /\ ~answer.rewritten =>
               /\ answer.row.blob # Nothing => answer.content = answer.row.blob
               /\ answer.row.expected # Nothing => answer.content = answer.row.expected
               /\ SniffedOf[answer.content] # "active"
        /\ answer.asked.range # Nothing =>
               answer.slice[1] \in 0..answer.slice[2] /\ answer.slice[2] < answer.size
================================================================================
