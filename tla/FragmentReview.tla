--------------------------- MODULE FragmentReview ---------------------------
(***************************************************************************)
(* One manually captured link and the writers of its fragment row: the     *)
(* intake (service/fragments.go, legacycapture/service.go,                 *)
(* repository/fragments.go), the inbox reviewer (service/inbox_reviewer.go *)
(* and service/manual_enrichment.go) and the user's edits                  *)
(* (UpdateManualFragment).  The intake is one transaction; a review and an *)
(* edit read the row, take their time and write it back in several         *)
(* statements, none of which looks at what the row has become.             *)
(*                                                                         *)
(* The two statement pairs with which an edit writes the same metadata     *)
(* before and after reindexing are one step each; the user's notes stand   *)
(* beside the tags in the metadata and share their fate; summary, title,   *)
(* path and attachments are written beside the metadata and left out.      *)
(***************************************************************************)
EXTENDS Naturals, Sequences, FiniteSets, SequencesExt

CONSTANTS Captures,        \* requests the intake may get: [material, tags]
          Materials,       \* material digests of the source item
          Tags,            \* tags a user or a capture gives
          Domain,          \* the entity derived from the link
          Editors, NoMaterial,
          MaxAttempts,     \* maxLinkEnrichmentAttempts
          MaxEdits,        \* bound: edits begun
          MaxFaults        \* bound: reviews, edits and intakes that die half way

ASSUME ReviewConstants ==
    /\ MaxAttempts \in Nat \ {0} /\ MaxEdits \in Nat /\ MaxFaults \in Nat
    /\ Captures \subseteq [material : Materials, tags : SUBSET Tags]
    /\ Domain \notin Tags /\ NoMaterial \notin Materials

VARIABLES
    meta,        \* fragments.metadata_json: what the writers share of it
    entities,    \* fragment_entities
    revisions,   \* fragment_revisions: material digests by ordinal
    current,     \* fragments.current_revision_id, as its digest
    accepted,    \* capture_attempts: the semantic digests accepted
    inbox,       \* the fragment has an inbox row
    routed,      \* fragments.status is no longer "inbox"
    staging,     \* an intake has accepted and not yet run its inbox stage
    review,      \* what the inbox reviewer holds
    edits,       \* what each editor holds
    edited,      \* bound: edits begun so far
    fetches,     \* history: fallback fetches of this capture while nothing overlapped
    asked,       \* history: the material last captured, unless repeated exactly
    expected,    \* history: what the last capture or edit leaves to be shown
    clashes,     \* history: a review and an edit overlapped, something else did
    faults

row == <<meta, entities>>
capture == <<revisions, current, accepted, asked>>
history == <<fetches, expected, clashes>>
vars == <<row, capture, inbox, routed, staging, review, edits, edited, history, faults>>

Links == {"pending", "done", "failed"}
MetaRows == [tags : SUBSET Tags, link : Links, attempts : 0..MaxAttempts,
             reviewed : BOOLEAN]
EntitySets == SUBSET (Tags \cup {Domain})

\* EnrichIntake: new metadata; the local fetch worked or it did not.
Fresh(link) == [tags |-> {}, link |-> link, attempts |-> 0, reviewed |-> FALSE]
Blank == Fresh("pending")
Idle == [step |-> "idle", meta |-> Blank, entities |-> {}, tags |-> {}]
Reviewing == review.step # "idle"
Editing == {e \in Editors : edits[e].step # "idle"}
Exists == revisions # <<>>

Held(steps) == [step : steps, meta : MetaRows, entities : EntitySets,
                tags : SUBSET Tags]
ReviewStates == Held({"idle", "read", "gathered", "fetched", "derived"})
EditStates == Held({"idle", "read", "gathered", "saved", "again"})

TypeOK ==
    /\ meta \in MetaRows /\ entities \in EntitySets
    /\ revisions \in Seq(Materials) /\ current \in Materials \cup {NoMaterial}
    /\ accepted \subseteq Captures
    /\ inbox \in BOOLEAN /\ routed \in BOOLEAN /\ staging \in BOOLEAN
    /\ review \in ReviewStates /\ edits \in [Editors -> EditStates]
    /\ edited \in 0..MaxEdits /\ faults \in 0..MaxFaults

Init ==
    /\ meta = Blank /\ entities = {}
    /\ revisions = <<>> /\ current = NoMaterial /\ accepted = {}
    /\ inbox = FALSE /\ routed = FALSE /\ staging = FALSE
    /\ review = Idle /\ edits = [e \in Editors |-> Idle] /\ edited = 0
    /\ fetches = 0
    /\ asked = NoMaterial
    /\ expected = [tags |-> {}, entities |-> {}]
    /\ clashes = {} /\ faults = MaxFaults

(***************************************************************************)
(* The intake.                                                             *)
(***************************************************************************)
\* Slip: a known revision is taken for the current one.
ResolveKnownAsCurrent(material) ==
    /\ revisions' = IF material \in ToSet(revisions) THEN revisions
                    ELSE Append(revisions, material)
    /\ current' = IF material \in ToSet(revisions) THEN current ELSE material

\* upsertFragmentResolved chooses the revision of a material digest: a known
\* one is made current again, a new one is appended.
Resolve(material) ==
    /\ revisions' = IF material \in ToSet(revisions) THEN revisions
                    ELSE Append(revisions, material)
    /\ current' = material

\* applyLegacyProjectionOn replaces the row's metadata with the capture's own,
\* also when the revision is the one already shown, and merges the entities.
Project(c, link) ==
    /\ meta' = Fresh(link)
    /\ entities' = entities \cup c.tags \cup {Domain}
    /\ fetches' = 0
    /\ expected' = [tags |-> {}, entities |-> expected.entities \cup c.tags \cup {Domain}]

\* legacycapture.Accept inside captures.Accept, one transaction.  The inbox
\* stage follows if the fragment was inserted or updated and still awaits a route.
Capture(c, link) ==
    /\ c \notin accepted
    /\ accepted' = accepted \cup {c}
    /\ Resolve(c.material)
    /\ Project(c, link)
    /\ staging' = (staging \/ (current # c.material /\ ~routed))
    /\ asked' = c.material
    /\ clashes' = IF Reviewing \/ Editing # {} THEN clashes \cup {"other"} ELSE clashes
    /\ UNCHANGED <<inbox, routed, review, edits, edited, faults>>

\* The same semantic digest again: the first answer, nothing is written.
ReplayCapture(c) ==
    /\ c \in accepted
    /\ asked' = IF c.material = current THEN asked ELSE NoMaterial
    /\ UNCHANGED <<row, revisions, current, accepted, inbox, routed, staging,
                   review, edits, edited, history, faults>>

\* InboxStage.Run.
StageInbox ==
    /\ staging /\ staging' = FALSE /\ inbox' = TRUE
    /\ UNCHANGED <<row, capture, routed, review, edits, edited, history, faults>>

\* The routing stage, the drainer or a user routes the fragment and takes it
\* out of the inbox.
Routed ==
    /\ inbox /\ inbox' = FALSE /\ routed' = TRUE
    /\ UNCHANGED <<row, capture, staging, review, edits, edited, history, faults>>

(***************************************************************************)
(* The inbox reviewer, one goroutine.                                      *)
(***************************************************************************)
\* reviewFragment skips a reviewed fragment unless its link is still pending.
StartReview ==
    /\ ~Reviewing /\ inbox
    /\ ~meta.reviewed \/ meta.link = "pending"
    /\ review' = [Idle EXCEPT !.step = "read", !.meta = meta]
    /\ clashes' = IF Editing # {} THEN clashes \cup {"review"} ELSE clashes
    /\ UNCHANGED <<row, capture, inbox, routed, staging, edits, edited, fetches, expected, faults>>

GatherForReview ==
    /\ review.step = "read"
    /\ review' = [review EXCEPT !.step = "gathered", !.entities = entities]
    /\ UNCHANGED <<row, capture, inbox, routed, staging, edits, edited, history, faults>>

\* shouldRetryLinkEnrichment.
ShouldRetry(attempts) == attempts < MaxAttempts

Retries(m) == m.link = "pending" /\ ShouldRetry(m.attempts)

\* Slip: an attempt that finds the page blocked is not counted.
LinkAfterUncounted(m, local, fetched) ==
    IF Retries(m)
    THEN [m EXCEPT !.link = IF fetched THEN "done" ELSE "pending",
                   !.attempts = IF fetched THEN 0 ELSE @]
    ELSE [m EXCEPT !.link = local]

\* ReviewURL, generic link: EnrichIntake fetches locally again and its status
\* overlays the row's; a link that was pending when the review began is given
\* to the fallback provider while attempts are left.
LinkAfter(m, local, fetched) ==
    IF Retries(m)
    THEN IF fetched THEN [m EXCEPT !.link = "done", !.attempts = 0]
         ELSE [m EXCEPT !.attempts = @ + 1,
                        !.link = IF ShouldRetry(m.attempts + 1) THEN "pending" ELSE "failed"]
    ELSE [m EXCEPT !.link = local]

FetchLink ==
    /\ review.step = "gathered"
    /\ \E local \in {"pending", "done"}, fetched \in BOOLEAN :
           review' = [review EXCEPT !.step = "fetched",
                                    !.meta = [LinkAfter(@, local, fetched) EXCEPT !.reviewed = TRUE]]
    /\ fetches' = fetches + (IF Retries(review.meta) /\ clashes = {} THEN 1 ELSE 0)
    /\ UNCHANGED <<row, capture, inbox, routed, staging, edits, edited, expected, clashes, faults>>

\* Slip: the review's metadata is written without what the row already had.
WriteReviewAlone ==
    /\ review.step = "fetched"
    /\ meta' = [review.meta EXCEPT !.tags = {}]
    /\ review' = [review EXCEPT !.step = "derived"]
    /\ UNCHANGED <<entities, capture, inbox, routed, staging, edits, edited, history, faults>>

\* applyEnrichment: UpdateDerivedFields with the merged metadata of the read.
WriteReview ==
    /\ review.step = "fetched"
    /\ meta' = review.meta
    /\ review' = [review EXCEPT !.step = "derived"]
    /\ UNCHANGED <<entities, capture, inbox, routed, staging, edits, edited, history, faults>>

\* mergeEntities and ReplaceFragmentEntities; then only the wording of the
\* inbox row changes.
WriteReviewEntities ==
    /\ review.step = "derived"
    /\ entities' = review.entities \cup {Domain}
    /\ review' = Idle
    /\ UNCHANGED <<meta, capture, inbox, routed, staging, edits, edited, history, faults>>

ReviewerStep ==
    StartReview \/ GatherForReview \/ FetchLink \/ WriteReview \/ WriteReviewEntities

(***************************************************************************)
(* An edit: UpdateManualFragment.                                          *)
(***************************************************************************)
BeginEdit(e, tags) ==
    /\ edits[e].step = "idle" /\ Exists /\ edited < MaxEdits
    /\ edits' = [edits EXCEPT ![e] =
           [step |-> "read", meta |-> [meta EXCEPT !.tags = tags],
            entities |-> {}, tags |-> tags]]
    /\ edited' = edited + 1
    /\ clashes' = clashes \cup (IF Reviewing THEN {"review"} ELSE {})
                          \cup (IF Editing # {} THEN {"other"} ELSE {})
    /\ UNCHANGED <<row, capture, inbox, routed, staging, review, fetches, expected, faults>>

\* The entities to write back: all but the tags, and the tags of the edit.
GatherForEdit(e) ==
    /\ edits[e].step = "read"
    /\ edits' = [edits EXCEPT ![e].step = "gathered",
                              ![e].entities = (entities \ Tags) \cup edits[e].tags]
    /\ UNCHANGED <<row, capture, inbox, routed, staging, review, edited, history, faults>>

\* UpdateEditableFields and UpdateDerivedFields, before and after reindexing.
SaveEdit(e, from, to) ==
    /\ edits[e].step = from
    /\ meta' = edits[e].meta
    /\ edits' = [edits EXCEPT ![e].step = to]
    /\ UNCHANGED <<entities, capture, inbox, routed, staging, review, edited, history, faults>>

\* ReplaceFragmentEntities with the list of the read; the edit is answered.
FinishEdit(e) ==
    /\ edits[e].step = "again"
    /\ entities' = edits[e].entities
    /\ expected' = [tags |-> edits[e].tags,
                    entities |-> (expected.entities \ Tags) \cup edits[e].tags]
    /\ edits' = [edits EXCEPT ![e] = Idle]
    /\ UNCHANGED <<meta, capture, inbox, routed, staging, review, edited, fetches, clashes, faults>>

EditorStep(e) ==
    \/ GatherForEdit(e)
    \/ SaveEdit(e, "gathered", "saved")
    \/ SaveEdit(e, "saved", "again")
    \/ FinishEdit(e)

\* The process dies or a write fails: reviews, edits and intakes stop where
\* they are, and the attempt of a fetch not yet written is forgotten.
Interrupted ==
    /\ Reviewing \/ Editing # {} \/ staging
    /\ faults > 0 /\ faults' = faults - 1
    /\ review' = Idle /\ edits' = [e \in Editors |-> Idle] /\ staging' = FALSE
    /\ clashes' = IF Reviewing \/ Editing # {} THEN clashes \cup {"other"} ELSE clashes
    /\ UNCHANGED <<row, capture, inbox, routed, edited, fetches, expected>>

Next ==
    \/ \E c \in Captures : (\E link \in {"pending", "done"} : Capture(c, link)) \/ ReplayCapture(c)
    \/ StageInbox \/ Routed
    \/ ReviewerStep
    \/ \E e \in Editors : (\E t \in SUBSET Tags : BeginEdit(e, t)) \/ EditorStep(e)
    \/ Interrupted

Spec == Init /\ [][Next]_vars

(***************************************************************************)
(* Properties.                                                             *)
(***************************************************************************)
\* The paid fallback is asked at most MaxAttempts times, however the reviews
\* are spread and edits come between them, as long as no edit overlaps a
\* review and no review dies with its count.
FetchesAreCapped == fetches <= MaxAttempts

\* The row shows what came last.  Its material is that of the last capture,
\* except after an exact repetition of an earlier one: a source that goes from A
\* to B and back to A.  With no session in flight and none ever overlapped, its
\* tags (and with them its notes) are those of the last edit or of a capture
\* after it, reviewed or not, and its entities exactly those that captures,
\* reviews and edits left.
AtRest == ~Reviewing /\ Editing = {}
RowShowsTheLatest ==
    /\ asked \in {current, NoMaterial}
    /\ AtRest /\ clashes = {} => meta.tags = expected.tags /\ entities = expected.entities

=============================================================================
