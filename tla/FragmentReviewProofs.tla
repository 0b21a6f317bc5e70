------------------------- MODULE FragmentReviewProofs -------------------------
(***************************************************************************)
(* Theorems about FragmentReview, for every number of editors, captures,   *)
(* tags, attempts and faults: the paid fetches of a capture are bounded,   *)
(* and the row shows what came last.  And about ReaderPages, for all       *)
(* fragments, scopes, page sizes and clocks: a listing is complete, and    *)
(* what it shows hangs together.                                           *)
(***************************************************************************)
EXTENDS FragmentReview, ReaderPages, FiniteSetTheorems, WellFoundedInduction, TLAPS

\* The fetches of the capture are counted in m: while its link is pending the
\* attempts cover them, and afterwards no review takes the link up again.
Capped(m) ==
    /\ m.link = "pending" => fetches <= m.attempts
    /\ (m.link # "pending" /\ fetches > 0) => m.reviewed

\* What the reviewer holds fits the row: nobody else has written it.
ReviewFits ==
    /\ review.step \in {"read", "gathered"} =>
           review.meta = meta /\ (~meta.reviewed \/ meta.link = "pending")
    /\ review.step = "fetched" => review.meta.tags = meta.tags /\ Capped(review.meta)
    /\ review.step # "fetched" => Capped(meta)
    /\ review.step \in {"gathered", "fetched", "derived"} => review.entities = entities

\* So does what an editor holds, but for the tags it is about to write.
EditFits(e) ==
    edits[e].step # "idle" =>
        /\ edits[e].meta = [meta EXCEPT !.tags = edits[e].tags]
        /\ edits[e].step # "read" => edits[e].entities = (entities \ Tags) \cup edits[e].tags
        /\ edits[e].step \in {"saved", "again"} => meta.tags = edits[e].tags

Alone ==
    /\ Reviewing => Editing = {}
    /\ \A e, f \in Editing : e = f

RowShown ==
    /\ entities = expected.entities
    /\ (\A e \in Editors : edits[e].step \notin {"saved", "again"}) => meta.tags = expected.tags

\* While nothing has overlapped.
Calm == Alone /\ ReviewFits /\ RowShown /\ \A e \in Editors : EditFits(e)

ReviewTypeOK ==
    /\ TypeOK
    /\ fetches \in 0..MaxAttempts
    /\ expected \in [tags : SUBSET Tags, entities : EntitySets]
    /\ asked \in {current, NoMaterial}

ReviewInv ==
    /\ ReviewTypeOK
    /\ staging \/ inbox \/ Reviewing => Domain \in expected.entities
    /\ clashes = {} => Calm

-------------------------------------------------------------------------------
(***************************************************************************)
(* The rows that the steps build.                                          *)
(***************************************************************************)
LEMMA MetaFields ==
    ASSUME NEW m \in MetaRows
    PROVE  /\ m.tags \in SUBSET Tags /\ m.link \in Links
           /\ m.attempts \in 0..MaxAttempts /\ m.reviewed \in BOOLEAN
BY DEF MetaRows

LEMMA FreshRow ==
    ASSUME NEW link \in {"pending", "done"}
    PROVE  /\ Fresh(link) \in MetaRows /\ Fresh(link).tags = {} /\ Fresh(link).link = link
           /\ Fresh(link).attempts = 0 /\ Fresh(link).reviewed = FALSE
BY ReviewConstants DEF Fresh, MetaRows, Links

LEMMA SessionFields ==
    ASSUME NEW steps, NEW s \in Held(steps)
    PROVE  s.step \in steps /\ s.meta \in MetaRows /\ s.entities \in EntitySets /\ s.tags \in SUBSET Tags
BY DEF Held

LEMMA IdleSession ==
    ASSUME NEW steps, "idle" \in steps
    PROVE  Idle \in Held(steps) /\ Idle.step = "idle"
<1>1. Blank \in MetaRows
  BY FreshRow DEF Blank
<1> HIDE DEF Blank
<1> QED BY <1>1 DEF Idle, Held, EntitySets

LEMMA TaggedRow ==
    ASSUME NEW m \in MetaRows, NEW t \in SUBSET Tags
    PROVE  /\ [m EXCEPT !.tags = t] \in MetaRows /\ [m EXCEPT !.tags = t].tags = t
           /\ [m EXCEPT !.tags = t].link = m.link
           /\ [m EXCEPT !.tags = t].attempts = m.attempts
           /\ [m EXCEPT !.tags = t].reviewed = m.reviewed
           /\ \A u : [[m EXCEPT !.tags = t] EXCEPT !.tags = u] = [m EXCEPT !.tags = u]
           /\ [m EXCEPT !.tags = m.tags] = m
BY DEF MetaRows

\* What a review makes of the row: a retry is counted or ends the waiting.
LEMMA FetchedRow ==
    ASSUME NEW m \in MetaRows, NEW local \in {"pending", "done"}, NEW fetched \in BOOLEAN,
           NEW n, n = [LinkAfter(m, local, fetched) EXCEPT !.reviewed = TRUE]
    PROVE  /\ n \in MetaRows /\ n.tags = m.tags /\ n.reviewed = TRUE
           /\ Retries(m) => n.link = "done" \/ n.attempts = m.attempts + 1
           /\ ~Retries(m) => n.attempts = m.attempts
<1> DEFINE k == LinkAfter(m, local, fetched)
<1>1. m.attempts \in 0..MaxAttempts /\ m.link \in Links /\ MaxAttempts \in Nat
  BY MetaFields, ReviewConstants
<1>2. /\ k \in MetaRows /\ k.tags = m.tags
      /\ Retries(m) => k.link = "done" \/ k.attempts = m.attempts + 1
      /\ ~Retries(m) => k.attempts = m.attempts
  <2>1. CASE Retries(m) /\ fetched
    <3>1. k = [m EXCEPT !.link = "done", !.attempts = 0]
      BY <2>1 DEF LinkAfter
    <3>2. "done" \in Links /\ 0 \in 0..MaxAttempts
      BY <1>1 DEF Links
    <3> HIDE DEF k
    <3>3. k \in MetaRows
      BY <3>1, <3>2 DEF MetaRows
    <3>4. k.tags = m.tags /\ k.link = "done"
      BY <3>1 DEF MetaRows
    <3> QED BY <2>1, <3>3, <3>4
  <2>2. CASE Retries(m) /\ ~fetched
    <3> DEFINE link == IF ShouldRetry(m.attempts + 1) THEN "pending" ELSE "failed"
    <3>1. k = [m EXCEPT !.attempts = @ + 1, !.link = link]
      BY <2>2 DEF LinkAfter
    <3>2. link \in Links /\ m.attempts + 1 \in 0..MaxAttempts
      BY <1>1, <2>2 DEF Retries, ShouldRetry, Links
    <3> HIDE DEF k, link
    <3> QED BY <1>1, <2>2, <3>1, <3>2 DEF MetaRows
  <2>3. CASE ~Retries(m)
    <3>1. k = [m EXCEPT !.link = local]
      BY <2>3 DEF LinkAfter
    <3> HIDE DEF k
    <3> QED BY <1>1, <2>3, <3>1 DEF MetaRows, Links
  <2> QED BY <2>1, <2>2, <2>3
<1>3. n = [k EXCEPT !.reviewed = TRUE]
  OBVIOUS
<1> HIDE DEF k
<1> QED BY <1>2, <1>3 DEF MetaRows

\* In flight.
LEMMA InFlight ==
    ASSUME ReviewTypeOK
    PROVE  /\ review.step \in {"idle", "read", "gathered", "fetched", "derived"}
           /\ review.meta \in MetaRows /\ review.entities \in EntitySets
           /\ \A e \in Editors : /\ edits[e] \in EditStates
                                 /\ edits[e].step \in {"idle", "read", "gathered", "saved", "again"}
                                 /\ edits[e].meta \in MetaRows /\ edits[e].tags \in SUBSET Tags
                                 /\ edits[e].entities \in EntitySets
<1>1. review \in ReviewStates /\ edits \in [Editors -> EditStates]
  BY DEF ReviewTypeOK, TypeOK
<1> QED BY <1>1, SessionFields DEF ReviewStates, EditStates


-------------------------------------------------------------------------------
(***************************************************************************)
(* Steps beside the row.                                                   *)
(***************************************************************************)
LEMMA CalmStays ==
    ASSUME Calm, UNCHANGED <<meta, entities, review, edits, fetches, expected>>
    PROVE  Calm'
BY DEF Calm, Alone, ReviewFits, RowShown, EditFits, Capped, Editing, Reviewing

LEMMA BesideTheRow ==
    ASSUME ReviewInv, (\E c \in Captures : ReplayCapture(c)) \/ StageInbox \/ Routed \/ UNCHANGED vars
    PROVE  ReviewInv'
<1>1. UNCHANGED <<meta, entities, review, edits, fetches, expected, clashes, revisions, current, accepted, edited, faults>>
  BY DEF ReplayCapture, StageInbox, Routed, row, capture, history, vars
<1>2. asked' \in {current', NoMaterial}
  <2>1. CASE asked' = asked
    BY <1>1, <2>1 DEF ReviewInv, ReviewTypeOK
  <2>2. CASE asked' = NoMaterial
    BY <2>2
  <2>3. asked' = asked \/ asked' = NoMaterial
    BY DEF ReplayCapture, StageInbox, Routed, capture, vars
  <2> QED BY <2>1, <2>2, <2>3
<1>3. inbox' \in BOOLEAN /\ routed' \in BOOLEAN /\ staging' \in BOOLEAN
  BY DEF ReplayCapture, StageInbox, Routed, vars, ReviewInv, ReviewTypeOK, TypeOK
<1>4. ReviewTypeOK'
  BY <1>1, <1>2, <1>3 DEF ReviewInv, ReviewTypeOK, TypeOK
<1>5. staging' \/ inbox' => staging \/ inbox
  BY DEF ReplayCapture, StageInbox, Routed, vars
<1>6. (staging \/ inbox \/ Reviewing => Domain \in expected.entities)'
  BY <1>1, <1>5 DEF ReviewInv, Reviewing
<1>7. (clashes = {} => Calm)'
  BY <1>1, CalmStays DEF ReviewInv
<1> QED BY <1>4, <1>6, <1>7 DEF ReviewInv

(***************************************************************************)
(* A capture writes the whole row at once.                                 *)
(***************************************************************************)
LEMMA CaptureKeeps ==
    ASSUME ReviewInv, NEW c \in Captures, NEW link \in {"pending", "done"}, Capture(c, link)
    PROVE  ReviewInv'
<1>1. /\ meta' = Fresh(link) /\ entities' = entities \cup c.tags \cup {Domain} /\ fetches' = 0
      /\ expected' = [tags |-> {}, entities |-> expected.entities \cup c.tags \cup {Domain}]
      /\ revisions' = (IF c.material \in ToSet(revisions) THEN revisions ELSE Append(revisions, c.material))
      /\ current' = c.material /\ asked' = c.material /\ accepted' = accepted \cup {c}
      /\ staging' = (staging \/ (current # c.material /\ ~routed))
      /\ UNCHANGED <<inbox, routed, review, edits, edited, faults>>
  BY DEF Capture, Resolve, Project
<1>2. /\ ReviewTypeOK /\ c.material \in Materials /\ c.tags \in SUBSET Tags /\ MaxAttempts \in Nat
      /\ expected.entities \in EntitySets /\ entities \in EntitySets
  BY ReviewConstants DEF ReviewInv, ReviewTypeOK, TypeOK
<1>3. entities' \in EntitySets /\ expected'.entities \in EntitySets /\ expected'.tags = {}
      /\ Domain \in expected'.entities /\ expected' \in [tags : SUBSET Tags, entities : EntitySets]
  BY <1>1, <1>2 DEF EntitySets
<1>4. meta' \in MetaRows
  BY <1>1, FreshRow
<1>5. revisions' \in Seq(Materials) /\ current' \in Materials /\ accepted' \subseteq Captures /\ staging' \in BOOLEAN
  BY <1>1, <1>2 DEF ReviewTypeOK, TypeOK
<1>6. ReviewTypeOK'
  BY <1>1, <1>2, <1>3, <1>4, <1>5 DEF ReviewTypeOK, TypeOK
<1>7. ASSUME clashes' = {} PROVE Calm'
  <2>1. ~Reviewing /\ Editing = {} /\ clashes = {}
    BY <1>7 DEF Capture
  <2>2. review'.step = "idle" /\ \A e \in Editors : edits'[e].step = "idle"
    BY <1>1, <2>1 DEF Reviewing, Editing
  <2>3. ReviewFits'
    BY <1>1, <2>2, FreshRow DEF ReviewFits, Capped
  <2>4. Alone' /\ \A e \in Editors : EditFits(e)'
    BY <2>2 DEF Alone, Reviewing, Editing, EditFits
  <2>5. entities = expected.entities
    BY <2>1 DEF ReviewInv, Calm, RowShown
  <2>6. RowShown'
    BY <1>1, <2>5, FreshRow DEF RowShown
  <2> QED BY <2>3, <2>4, <2>6 DEF Calm
<1> QED BY <1>3, <1>6, <1>7 DEF ReviewInv

(***************************************************************************)
(* The reviewer.                                                           *)
(***************************************************************************)
\* What a step of the reviewer leaves alone, and the type of what it takes up.
LEMMA ReviewerTypes ==
    ASSUME ReviewTypeOK, meta' \in MetaRows, entities' \in EntitySets, review' \in ReviewStates,
           fetches' \in 0..MaxAttempts,
           UNCHANGED <<capture, inbox, routed, staging, edits, edited, expected, faults>>
    PROVE  ReviewTypeOK'
BY DEF ReviewTypeOK, TypeOK, capture

LEMMA ReviewerAlone ==
    ASSUME Calm, Reviewing
    PROVE  /\ \A e \in Editors : edits[e].step = "idle"
           /\ entities = expected.entities /\ meta.tags = expected.tags
BY DEF Calm, Alone, Editing, RowShown

LEMMA ReviewerCalm ==
    ASSUME \A e \in Editors : edits[e].step = "idle", edits' = edits,
           ReviewFits', entities' = expected'.entities, meta'.tags = expected'.tags
    PROVE  Calm'
BY DEF Calm, Alone, Editing, Reviewing, EditFits, RowShown

LEMMA StartReviewKeeps == ASSUME ReviewInv, StartReview PROVE ReviewInv'
<1>1. /\ ~Reviewing /\ inbox /\ (~meta.reviewed \/ meta.link = "pending")
      /\ review' = [Idle EXCEPT !.step = "read", !.meta = meta]
      /\ UNCHANGED <<row, capture, inbox, routed, staging, edits, edited, fetches, expected, faults>>
  BY DEF StartReview
<1>2. ReviewTypeOK /\ meta \in MetaRows /\ entities \in EntitySets /\ fetches \in 0..MaxAttempts
  BY DEF ReviewInv, ReviewTypeOK, TypeOK
<1>3. review' \in ReviewStates /\ review'.step = "read" /\ review'.meta = meta
  BY <1>1, <1>2, IdleSession DEF ReviewStates, Held, Idle
<1>4. ReviewTypeOK'
  BY <1>1, <1>2, <1>3, ReviewerTypes DEF row
<1>5. Domain \in expected'.entities
  BY <1>1 DEF ReviewInv
<1>6. ASSUME clashes' = {} PROVE Calm'
  <2>1. clashes = {} /\ Editing = {}
    BY <1>6 DEF StartReview
  <2>2. Calm /\ \A e \in Editors : edits[e].step = "idle"
    BY <2>1 DEF ReviewInv, Editing
  <2>3. Capped(meta) /\ entities = expected.entities /\ meta.tags = expected.tags
    BY <1>1, <2>2 DEF Calm, ReviewFits, RowShown, Reviewing
  <2>4. Capped(meta)'
    BY <1>1, <2>3 DEF Capped, row
  <2>5. ReviewFits'
    BY <1>1, <1>3, <2>4 DEF ReviewFits, row
  <2> QED BY <1>1, <2>2, <2>3, <2>5, ReviewerCalm DEF row
<1> QED BY <1>4, <1>5, <1>6 DEF ReviewInv

LEMMA GatherForReviewKeeps == ASSUME ReviewInv, GatherForReview PROVE ReviewInv'
<1>1. /\ review.step = "read" /\ review' = [review EXCEPT !.step = "gathered", !.entities = entities]
      /\ UNCHANGED <<row, capture, inbox, routed, staging, edits, edited, fetches, expected, clashes, faults>>
  BY DEF GatherForReview, history
<1>2. ReviewTypeOK /\ review \in ReviewStates /\ meta \in MetaRows /\ entities \in EntitySets /\ fetches \in 0..MaxAttempts
  BY DEF ReviewInv, ReviewTypeOK, TypeOK
<1>3. review' \in ReviewStates /\ review'.step = "gathered" /\ review'.meta = review.meta /\ review'.entities = entities
  BY <1>1, <1>2 DEF ReviewStates, Held
<1>4. ReviewTypeOK'
  BY <1>1, <1>2, <1>3, ReviewerTypes DEF row
<1>5. Domain \in expected'.entities
  BY <1>1 DEF ReviewInv, Reviewing
<1>6. ASSUME clashes' = {} PROVE Calm'
  <2>1. Calm /\ Reviewing
    BY <1>1, <1>6 DEF ReviewInv, Reviewing
  <2>2. ReviewFits /\ Capped(meta)
    BY <1>1, <2>1 DEF Calm, ReviewFits
  <2>3. Capped(meta)'
    BY <1>1, <2>2 DEF Capped, row
  <2>4. ReviewFits'
    BY <1>1, <1>3, <2>2, <2>3 DEF ReviewFits, row
  <2> QED BY <1>1, <2>1, <2>4, ReviewerAlone, ReviewerCalm DEF row
<1> QED BY <1>4, <1>5, <1>6 DEF ReviewInv

LEMMA FetchLinkKeeps == ASSUME ReviewInv, FetchLink PROVE ReviewInv'
<1>1. /\ review.step = "gathered"
      /\ fetches' = fetches + (IF Retries(review.meta) /\ clashes = {} THEN 1 ELSE 0)
      /\ UNCHANGED <<row, capture, inbox, routed, staging, edits, edited, expected, clashes, faults>>
  BY DEF FetchLink
<1>2. ReviewTypeOK /\ review \in ReviewStates /\ review.meta \in MetaRows /\ meta \in MetaRows
      /\ entities \in EntitySets /\ fetches \in 0..MaxAttempts /\ MaxAttempts \in Nat
  BY InFlight, ReviewConstants DEF ReviewInv, ReviewTypeOK, TypeOK
<1>3. PICK local \in {"pending", "done"}, fetched \in BOOLEAN :
          review' = [review EXCEPT !.step = "fetched",
                                   !.meta = [LinkAfter(@, local, fetched) EXCEPT !.reviewed = TRUE]]
  BY DEF FetchLink
<1>n. PICK n : n = [LinkAfter(review.meta, local, fetched) EXCEPT !.reviewed = TRUE]
  OBVIOUS
<1>4. review' = [review EXCEPT !.step = "fetched", !.meta = n]
  BY <1>2, <1>3, <1>n DEF ReviewStates, Held
<1>5. /\ n \in MetaRows /\ n.tags = review.meta.tags /\ n.reviewed = TRUE
      /\ Retries(review.meta) => n.link = "done" \/ n.attempts = review.meta.attempts + 1
      /\ ~Retries(review.meta) => n.attempts = review.meta.attempts
  <2>1. PICK m \in MetaRows : m = review.meta
    BY <1>2
  <2>2. n = [LinkAfter(m, local, fetched) EXCEPT !.reviewed = TRUE]
    BY <1>n, <2>1
  <2>3. /\ n \in MetaRows /\ n.tags = m.tags /\ n.reviewed = TRUE
        /\ Retries(m) => n.link = "done" \/ n.attempts = m.attempts + 1
        /\ ~Retries(m) => n.attempts = m.attempts
    BY <1>3, <2>2, FetchedRow
  <2> QED BY <2>1, <2>3
<1>6. review' \in ReviewStates /\ review'.step = "fetched" /\ review'.meta = n /\ review'.entities = review.entities
  BY <1>2, <1>4, <1>5 DEF ReviewStates, Held
<1>7. review.meta.attempts \in 0..MaxAttempts /\ (Retries(review.meta) => review.meta.attempts < MaxAttempts)
  BY <1>2, MetaFields DEF Retries, ShouldRetry
<1>8. ASSUME clashes = {} PROVE Calm /\ ReviewFits /\ review.meta = meta /\ Capped(review.meta)
                                /\ (review.meta.link # "pending" => fetches = 0)
                                /\ review.entities = entities
  <2>1. Calm /\ ReviewFits
    BY <1>8 DEF ReviewInv, Calm
  <2>2. review.meta = meta /\ (~meta.reviewed \/ meta.link = "pending") /\ Capped(meta) /\ review.entities = entities
    BY <1>1, <2>1 DEF ReviewFits
  <2>3. meta.link # "pending" => fetches = 0
    BY <1>2, <2>2 DEF Capped
  <2> QED BY <2>1, <2>2, <2>3
<1>9. Retries(review.meta) => review.meta.link = "pending"
  BY DEF Retries
<1>10. fetches' \in 0..MaxAttempts
  <2>1. CASE Retries(review.meta) /\ clashes = {}
    <3>1. fetches <= review.meta.attempts
      BY <1>8, <1>9, <2>1 DEF Capped
    <3> QED BY <1>1, <1>2, <1>7, <2>1, <3>1
  <2>2. CASE ~(Retries(review.meta) /\ clashes = {})
    BY <1>1, <1>2, <2>2
  <2> QED BY <2>1, <2>2
<1>11. ReviewTypeOK'
  BY <1>1, <1>2, <1>6, <1>10, ReviewerTypes DEF row
<1>12. Domain \in expected'.entities
  BY <1>1 DEF ReviewInv, Reviewing
<1>13. ASSUME clashes' = {} PROVE Calm'
  <2>1. Calm /\ Reviewing /\ clashes = {}
    BY <1>1, <1>8, <1>13 DEF Reviewing
  <2>2. n.link = "pending" => fetches' <= n.attempts
    <3>1. CASE Retries(review.meta)
      <4>1. fetches <= review.meta.attempts /\ fetches' = fetches + 1
        BY <1>1, <1>8, <1>9, <2>1, <3>1 DEF Capped
      <4> QED BY <1>2, <1>5, <1>7, <3>1, <4>1
    <3>2. CASE ~Retries(review.meta)
      <4>1. fetches' = fetches /\ n.attempts = review.meta.attempts
        BY <1>1, <1>2, <1>5, <3>2
      <4>2. fetches <= review.meta.attempts
        BY <1>2, <1>7, <1>8, <2>1 DEF Capped
      <4> QED BY <4>1, <4>2
    <3> QED BY <3>1, <3>2
  <2>3. review'.meta.link = "pending" => fetches' <= review'.meta.attempts
    BY <1>6, <2>2
  <2>4. review'.meta.reviewed = TRUE /\ review'.meta.tags = meta'.tags /\ review'.entities = entities'
    BY <1>1, <1>5, <1>6, <1>8, <2>1 DEF row
  <2>5. ReviewFits'
    BY <1>6, <2>3, <2>4 DEF ReviewFits, Capped
  <2> QED BY <1>1, <2>1, <2>5, ReviewerAlone, ReviewerCalm DEF row
<1> QED BY <1>11, <1>12, <1>13 DEF ReviewInv

LEMMA WriteReviewKeeps == ASSUME ReviewInv, WriteReview PROVE ReviewInv'
<1>1. /\ review.step = "fetched" /\ meta' = review.meta /\ review' = [review EXCEPT !.step = "derived"]
      /\ UNCHANGED <<entities, capture, inbox, routed, staging, edits, edited, fetches, expected, clashes, faults>>
  BY DEF WriteReview, history
<1>2. ReviewTypeOK /\ review \in ReviewStates /\ review.meta \in MetaRows /\ entities \in EntitySets /\ fetches \in 0..MaxAttempts
  BY InFlight DEF ReviewInv, ReviewTypeOK, TypeOK
<1>3. /\ review' \in ReviewStates /\ review'.step = "derived" /\ review'.meta = review.meta
      /\ review'.entities = review.entities
  BY <1>1, <1>2 DEF ReviewStates, Held
<1>4. ReviewTypeOK'
  BY <1>1, <1>2, <1>3, ReviewerTypes
<1>5. Domain \in expected'.entities
  BY <1>1 DEF ReviewInv, Reviewing
<1>6. ASSUME clashes' = {} PROVE Calm'
  <2>1. Calm /\ Reviewing
    BY <1>1, <1>6 DEF ReviewInv, Reviewing
  <2>2. review.meta.tags = meta.tags /\ Capped(review.meta) /\ review.entities = entities
    BY <1>1, <2>1 DEF Calm, ReviewFits
  <2>3. Capped(meta)'
    BY <1>1, <2>2 DEF Capped
  <2>4. ReviewFits'
    BY <1>1, <1>3, <2>2, <2>3 DEF ReviewFits
  <2> QED BY <1>1, <2>1, <2>2, <2>4, ReviewerAlone, ReviewerCalm
<1> QED BY <1>4, <1>5, <1>6 DEF ReviewInv

LEMMA WriteReviewEntitiesKeeps == ASSUME ReviewInv, WriteReviewEntities PROVE ReviewInv'
<1>1. /\ review.step = "derived" /\ entities' = review.entities \cup {Domain} /\ review' = Idle
      /\ UNCHANGED <<meta, capture, inbox, routed, staging, edits, edited, fetches, expected, clashes, faults>>
  BY DEF WriteReviewEntities, history
<1>2. ReviewTypeOK /\ meta \in MetaRows /\ review.entities \in EntitySets /\ fetches \in 0..MaxAttempts
  BY InFlight DEF ReviewInv, ReviewTypeOK, TypeOK
<1>3. review' \in ReviewStates /\ review'.step = "idle"
  BY <1>1, IdleSession DEF ReviewStates
<1>4. entities' \in EntitySets
  BY <1>1, <1>2 DEF EntitySets
<1>5. ReviewTypeOK'
  BY <1>1, <1>2, <1>3, <1>4, ReviewerTypes
<1>6. Domain \in expected.entities
  BY <1>1 DEF ReviewInv, Reviewing
<1>7. ASSUME clashes' = {} PROVE Calm'
  <2>1. Calm /\ Reviewing
    BY <1>1, <1>7 DEF ReviewInv, Reviewing
  <2>2. Capped(meta) /\ review.entities = entities
    BY <1>1, <2>1 DEF Calm, ReviewFits
  <2>3. Capped(meta)'
    BY <1>1, <2>2 DEF Capped
  <2>4. ReviewFits'
    BY <1>3, <2>3 DEF ReviewFits
  <2>5. entities' = expected'.entities
    BY <1>1, <1>6, <2>1, <2>2, ReviewerAlone
  <2> QED BY <1>1, <2>1, <2>4, <2>5, ReviewerAlone, ReviewerCalm
<1> QED BY <1>1, <1>5, <1>6, <1>7 DEF ReviewInv

(***************************************************************************)
(* The editors.                                                            *)
(***************************************************************************)
\* One editor moves.
LEMMA EditorTypes ==
    ASSUME ReviewTypeOK, NEW e \in Editors, NEW s \in EditStates, edits' = [edits EXCEPT ![e] = s],
           meta' \in MetaRows, entities' \in EntitySets,
           expected' \in [tags : SUBSET Tags, entities : EntitySets], edited' \in 0..MaxEdits,
           UNCHANGED <<capture, inbox, routed, staging, review, fetches, faults>>
    PROVE  /\ ReviewTypeOK' /\ edits'[e] = s
           /\ \A f \in Editors : f # e => edits'[f] = edits[f]
<1>1. edits \in [Editors -> EditStates]
  BY DEF ReviewTypeOK, TypeOK
<1>2. edits' \in [Editors -> EditStates] /\ edits'[e] = s /\ \A f \in Editors : f # e => edits'[f] = edits[f]
  BY <1>1
<1>3. ReviewTypeOK'
  BY <1>2 DEF ReviewTypeOK, TypeOK, capture
<1> QED BY <1>2, <1>3

LEMMA EditorAlone ==
    ASSUME Calm, NEW e \in Editors, edits[e].step # "idle"
    PROVE  /\ review.step = "idle" /\ \A f \in Editors : f # e => edits[f].step = "idle"
           /\ entities = expected.entities /\ Capped(meta) /\ EditFits(e)
BY DEF Calm, Alone, Editing, Reviewing, RowShown, ReviewFits

LEMMA EditorCalm ==
    ASSUME NEW e \in Editors, review.step = "idle", review' = review,
           \A f \in Editors : f # e => edits'[f].step = "idle",
           EditFits(e)', Capped(meta)', RowShown'
    PROVE  Calm'
<1>1. review'.step = "idle"
  OBVIOUS
<1>2. Alone'
  BY <1>1 DEF Alone, Editing, Reviewing
<1>3. ReviewFits'
  BY <1>1 DEF ReviewFits
<1>4. \A f \in Editors : EditFits(f)'
  BY DEF EditFits
<1> QED BY <1>2, <1>3, <1>4 DEF Calm

LEMMA BeginEditKeeps ==
    ASSUME ReviewInv, NEW e \in Editors, NEW t \in SUBSET Tags, BeginEdit(e, t) PROVE ReviewInv'
<1> DEFINE m == [meta EXCEPT !.tags = t]
           s == [step |-> "read", meta |-> m, entities |-> {}, tags |-> t]
<1>1. /\ edits[e].step = "idle" /\ edited < MaxEdits /\ edits' = [edits EXCEPT ![e] = s]
      /\ edited' = edited + 1
      /\ UNCHANGED <<row, capture, inbox, routed, staging, review, fetches, expected, faults>>
  BY DEF BeginEdit
<1>2. /\ ReviewTypeOK /\ meta \in MetaRows /\ entities \in EntitySets /\ edited \in 0..MaxEdits
      /\ expected \in [tags : SUBSET Tags, entities : EntitySets] /\ MaxEdits \in Nat
  BY ReviewConstants DEF ReviewInv, ReviewTypeOK, TypeOK
<1>3. m \in MetaRows
  BY <1>2, TaggedRow
<1> HIDE DEF m
<1>4. s \in EditStates
  BY <1>3 DEF EditStates, Held, EntitySets
<1>5. s.step = "read" /\ s.meta = m /\ s.tags = t
  OBVIOUS
<1> HIDE DEF s
<1>6. edited' \in 0..MaxEdits
  BY <1>1, <1>2
<1>7. ReviewTypeOK' /\ edits'[e] = s /\ \A f \in Editors : f # e => edits'[f] = edits[f]
  BY <1>1, <1>2, <1>4, <1>6, EditorTypes DEF row
<1>8. (staging \/ inbox \/ Reviewing => Domain \in expected.entities)'
  BY <1>1 DEF ReviewInv, Reviewing
<1>9. ASSUME clashes' = {} PROVE Calm'
  <2>1. clashes = {} /\ ~Reviewing /\ Editing = {}
    BY <1>9 DEF BeginEdit
  <2>2. Calm /\ review.step = "idle" /\ \A f \in Editors : edits[f].step = "idle"
    BY <2>1 DEF ReviewInv, Editing, Reviewing
  <2>3. Capped(meta) /\ entities = expected.entities /\ meta.tags = expected.tags
    BY <2>2 DEF Calm, ReviewFits, RowShown
  <2>4. Capped(meta)'
    BY <1>1, <2>3 DEF Capped, row
  <2>5. RowShown'
    BY <1>1, <2>3 DEF RowShown, row
  <2>6. edits'[e].meta = [meta' EXCEPT !.tags = edits'[e].tags]
    BY <1>1, <1>5, <1>7 DEF row, m
  <2>7. EditFits(e)'
    BY <1>5, <1>7, <2>6 DEF EditFits
  <2> QED BY <1>1, <1>7, <2>2, <2>4, <2>5, <2>7, EditorCalm
<1> QED BY <1>7, <1>8, <1>9 DEF ReviewInv

LEMMA GatherForEditKeeps ==
    ASSUME ReviewInv, NEW e \in Editors, GatherForEdit(e) PROVE ReviewInv'
<1> DEFINE kept == (entities \ Tags) \cup edits[e].tags
           s == [edits[e] EXCEPT !.step = "gathered", !.entities = kept]
<1>1. /\ edits[e].step = "read"
      /\ edits' = [edits EXCEPT ![e].step = "gathered", ![e].entities = kept]
      /\ UNCHANGED <<row, capture, inbox, routed, staging, review, edited, fetches, expected, clashes, faults>>
  BY DEF GatherForEdit, history
<1>2. /\ ReviewTypeOK /\ meta \in MetaRows /\ entities \in EntitySets /\ edited \in 0..MaxEdits
      /\ edits \in [Editors -> EditStates] /\ edits[e] \in EditStates /\ edits[e].tags \in SUBSET Tags
      /\ expected \in [tags : SUBSET Tags, entities : EntitySets]
  BY InFlight DEF ReviewInv, ReviewTypeOK, TypeOK
<1>3. kept \in EntitySets
  BY <1>2 DEF EntitySets
<1>4. edits' = [edits EXCEPT ![e] = s]
  BY <1>1, <1>2
<1> HIDE DEF kept
<1>5. s \in EditStates /\ s.step = "gathered" /\ s.entities = kept /\ s.meta = edits[e].meta /\ s.tags = edits[e].tags
  BY <1>2, <1>3 DEF EditStates, Held
<1> HIDE DEF s
<1>6. ReviewTypeOK' /\ edits'[e] = s /\ \A f \in Editors : f # e => edits'[f] = edits[f]
  BY <1>1, <1>2, <1>4, <1>5, EditorTypes DEF row
<1>7. (staging \/ inbox \/ Reviewing => Domain \in expected.entities)'
  BY <1>1 DEF ReviewInv, Reviewing
<1>8. ASSUME clashes' = {} PROVE Calm'
  <2>1. Calm
    BY <1>1, <1>8 DEF ReviewInv
  <2>2. /\ review.step = "idle" /\ \A f \in Editors : f # e => edits[f].step = "idle"
        /\ entities = expected.entities /\ Capped(meta) /\ EditFits(e)
    BY <1>1, <2>1, EditorAlone
  <2>3. meta.tags = expected.tags
    <3>1. \A f \in Editors : edits[f].step \notin {"saved", "again"}
      BY <1>1, <2>2
    <3> QED BY <2>1, <3>1 DEF Calm, RowShown
  <2>4. Capped(meta)'
    BY <1>1, <2>2 DEF Capped, row
  <2>5. RowShown'
    BY <1>1, <2>2, <2>3 DEF RowShown, row
  <2>6. edits'[e].meta = [meta' EXCEPT !.tags = edits'[e].tags]
    BY <1>1, <1>5, <1>6, <2>2 DEF row, EditFits
  <2>7. EditFits(e)'
    BY <1>1, <1>5, <1>6, <2>6 DEF EditFits, kept, row
  <2> QED BY <1>1, <1>6, <2>2, <2>4, <2>5, <2>7, EditorCalm
<1> QED BY <1>6, <1>7, <1>8 DEF ReviewInv

LEMMA SaveEditKeeps ==
    ASSUME ReviewInv, NEW e \in Editors, NEW from \in {"gathered", "saved"}, NEW to \in {"saved", "again"},
           SaveEdit(e, from, to)
    PROVE  ReviewInv'
<1> DEFINE s == [edits[e] EXCEPT !.step = to]
<1>1. /\ edits[e].step = from /\ meta' = edits[e].meta
      /\ edits' = [edits EXCEPT ![e].step = to]
      /\ UNCHANGED <<entities, capture, inbox, routed, staging, review, edited, fetches, expected, clashes, faults>>
  BY DEF SaveEdit, history
<1>2. /\ ReviewTypeOK /\ edits[e].meta \in MetaRows /\ meta \in MetaRows /\ entities \in EntitySets
      /\ edits \in [Editors -> EditStates] /\ edits[e] \in EditStates /\ edits[e].tags \in SUBSET Tags
      /\ edited \in 0..MaxEdits /\ expected \in [tags : SUBSET Tags, entities : EntitySets]
  BY InFlight DEF ReviewInv, ReviewTypeOK, TypeOK
<1>3. edits' = [edits EXCEPT ![e] = s]
  BY <1>1, <1>2
<1>4. /\ s \in EditStates /\ s.step = to /\ s.entities = edits[e].entities /\ s.meta = edits[e].meta
      /\ s.tags = edits[e].tags
  BY <1>2 DEF EditStates, Held
<1> HIDE DEF s
<1>5. ReviewTypeOK' /\ edits'[e] = s /\ \A f \in Editors : f # e => edits'[f] = edits[f]
  BY <1>1, <1>2, <1>3, <1>4, EditorTypes
<1>6. (staging \/ inbox \/ Reviewing => Domain \in expected.entities)'
  BY <1>1 DEF ReviewInv, Reviewing
<1>7. ASSUME clashes' = {} PROVE Calm'
  <2>1. Calm /\ edits[e].step # "idle" /\ edits[e].step # "read"
    BY <1>1, <1>7 DEF ReviewInv
  <2>2. /\ review.step = "idle" /\ \A f \in Editors : f # e => edits[f].step = "idle"
        /\ entities = expected.entities /\ Capped(meta)
        /\ edits[e].meta = [meta EXCEPT !.tags = edits[e].tags]
        /\ edits[e].entities = (entities \ Tags) \cup edits[e].tags
    BY <2>1, EditorAlone DEF EditFits
  <2>3. /\ meta'.link = meta.link /\ meta'.attempts = meta.attempts /\ meta'.reviewed = meta.reviewed
        /\ meta'.tags = edits[e].tags /\ meta' = [meta' EXCEPT !.tags = edits[e].tags]
    <3>1. meta \in MetaRows /\ edits[e].tags \in SUBSET Tags /\ meta' = [meta EXCEPT !.tags = edits[e].tags]
      BY <1>1, <1>2, <2>2
    <3>2. meta'.link = meta.link /\ meta'.attempts = meta.attempts /\ meta'.reviewed = meta.reviewed
          /\ meta'.tags = edits[e].tags
      BY <3>1, TaggedRow
    <3>3. meta' = [meta' EXCEPT !.tags = edits[e].tags]
      BY <3>1, TaggedRow
    <3> QED BY <3>2, <3>3
  <2>4. Capped(meta)'
    BY <1>1, <2>2, <2>3 DEF Capped
  <2>5. RowShown'
    BY <1>1, <1>4, <1>5, <2>2 DEF RowShown
  <2>6. EditFits(e)'
    BY <1>1, <1>4, <1>5, <2>2, <2>3 DEF EditFits
  <2> QED BY <1>1, <1>5, <2>2, <2>4, <2>5, <2>6, EditorCalm
<1> QED BY <1>5, <1>6, <1>7 DEF ReviewInv

LEMMA FinishEditKeeps ==
    ASSUME ReviewInv, NEW e \in Editors, FinishEdit(e) PROVE ReviewInv'
<1>1. /\ edits[e].step = "again" /\ entities' = edits[e].entities
      /\ expected' = [tags |-> edits[e].tags, entities |-> (expected.entities \ Tags) \cup edits[e].tags]
      /\ edits' = [edits EXCEPT ![e] = Idle]
      /\ UNCHANGED <<meta, capture, inbox, routed, staging, review, edited, fetches, clashes, faults>>
  BY DEF FinishEdit
<1>2. /\ ReviewTypeOK /\ meta \in MetaRows /\ edits[e].entities \in EntitySets /\ edits[e].tags \in SUBSET Tags
      /\ edited \in 0..MaxEdits /\ expected.entities \in EntitySets
  BY InFlight DEF ReviewInv, ReviewTypeOK, TypeOK
<1>3. Idle \in EditStates /\ Idle.step = "idle"
  BY IdleSession DEF EditStates
<1>4. expected' \in [tags : SUBSET Tags, entities : EntitySets]
  BY <1>1, <1>2 DEF EntitySets
<1>5. ReviewTypeOK' /\ edits'[e] = Idle /\ \A f \in Editors : f # e => edits'[f] = edits[f]
  BY <1>1, <1>2, <1>3, <1>4, EditorTypes
<1>6. (staging \/ inbox \/ Reviewing => Domain \in expected.entities)'
  BY <1>1, ReviewConstants DEF ReviewInv, Reviewing
<1>7. ASSUME clashes' = {} PROVE Calm'
  <2>1. Calm
    BY <1>1, <1>7 DEF ReviewInv
  <2>2. /\ review.step = "idle" /\ \A f \in Editors : f # e => edits[f].step = "idle"
        /\ entities = expected.entities /\ Capped(meta)
        /\ edits[e].entities = (entities \ Tags) \cup edits[e].tags /\ meta.tags = edits[e].tags
    BY <1>1, <2>1, EditorAlone DEF EditFits
  <2>3. Capped(meta)'
    BY <1>1, <2>2 DEF Capped
  <2>4. RowShown'
    BY <1>1, <2>2 DEF RowShown
  <2>5. EditFits(e)'
    BY <1>3, <1>5 DEF EditFits
  <2> QED BY <1>1, <1>5, <2>2, <2>3, <2>4, <2>5, EditorCalm
<1> QED BY <1>5, <1>6, <1>7 DEF ReviewInv

(***************************************************************************)
(* Everything in flight stops.                                             *)
(***************************************************************************)
LEMMA InterruptedKeeps == ASSUME ReviewInv, Interrupted PROVE ReviewInv'
<1>1. /\ faults > 0 /\ faults' = faults - 1 /\ review' = Idle /\ staging' = FALSE
      /\ edits' = [e \in Editors |-> Idle]
      /\ UNCHANGED <<row, capture, inbox, routed, edited, fetches, expected>>
  BY DEF Interrupted
<1>2. Idle \in ReviewStates /\ Idle \in EditStates /\ Idle.step = "idle"
  BY IdleSession DEF ReviewStates, EditStates
<1>3. faults' \in 0..MaxFaults
  BY <1>1, ReviewConstants DEF ReviewInv, ReviewTypeOK, TypeOK
<1>4. review' \in ReviewStates /\ edits' \in [Editors -> EditStates]
  BY <1>1, <1>2
<1>5. ReviewTypeOK'
  BY <1>1, <1>3, <1>4 DEF ReviewInv, ReviewTypeOK, TypeOK, row, capture
<1>6. review'.step = "idle" /\ \A e \in Editors : edits'[e].step = "idle"
  BY <1>1, <1>2
<1>7. (staging \/ inbox \/ Reviewing => Domain \in expected.entities)'
  BY <1>1, <1>6 DEF ReviewInv, Reviewing
<1>8. ASSUME clashes' = {} PROVE Calm'
  <2>1. Calm /\ review.step = "idle" /\ \A e \in Editors : edits[e].step = "idle"
    BY <1>8 DEF Interrupted, ReviewInv, Reviewing, Editing
  <2>2. Capped(meta) /\ entities = expected.entities /\ meta.tags = expected.tags
    BY <2>1 DEF Calm, ReviewFits, RowShown
  <2>3. Capped(meta)'
    BY <1>1, <2>2 DEF Capped, row
  <2>4. ReviewFits' /\ Alone' /\ \A e \in Editors : EditFits(e)'
    BY <1>6, <2>3 DEF ReviewFits, Alone, Editing, Reviewing, EditFits
  <2>5. RowShown'
    BY <1>1, <2>2 DEF RowShown, row
  <2> QED BY <2>4, <2>5 DEF Calm
<1> QED BY <1>5, <1>7, <1>8 DEF ReviewInv

-------------------------------------------------------------------------------
LEMMA InitCalm == Init => ReviewInv
<1> SUFFICES ASSUME Init PROVE ReviewInv
  OBVIOUS
<1>1. Blank \in MetaRows /\ Blank.tags = {} /\ Blank.link = "pending" /\ Blank.attempts = 0
  BY FreshRow DEF Blank
<1>2. Idle \in ReviewStates /\ Idle \in EditStates /\ Idle.step = "idle"
  BY IdleSession DEF ReviewStates, EditStates
<1>3. review \in ReviewStates /\ edits \in [Editors -> EditStates] /\ meta \in MetaRows
  BY <1>1, <1>2 DEF Init
<1>4. /\ entities \in EntitySets /\ expected \in [tags : SUBSET Tags, entities : EntitySets]
      /\ expected.tags = {} /\ expected.entities = entities
  BY DEF Init, EntitySets
<1>5. /\ fetches \in 0..MaxAttempts /\ edited \in 0..MaxEdits /\ faults \in 0..MaxFaults
  BY ReviewConstants DEF Init
<1>6. ReviewTypeOK
  <2>1. revisions \in Seq(Materials) /\ current \in Materials \cup {NoMaterial} /\ accepted \subseteq Captures
        /\ asked \in {current, NoMaterial}
    BY DEF Init
  <2>2. inbox \in BOOLEAN /\ routed \in BOOLEAN /\ staging \in BOOLEAN
    BY DEF Init
  <2> QED BY <1>3, <1>4, <1>5, <2>1, <2>2 DEF ReviewTypeOK, TypeOK
<1>7. review.step = "idle" /\ \A e \in Editors : edits[e].step = "idle"
  BY <1>2 DEF Init
<1>8. Capped(meta)
  BY <1>1 DEF Init, Capped
<1>9. ReviewFits /\ Alone /\ \A e \in Editors : EditFits(e)
  BY <1>7, <1>8 DEF ReviewFits, Alone, Editing, Reviewing, EditFits
<1>10. RowShown
  BY <1>1, <1>4 DEF RowShown, Init
<1>11. ~Reviewing /\ ~inbox /\ ~staging
  BY <1>7 DEF Init, Reviewing
<1> QED BY <1>6, <1>9, <1>10, <1>11 DEF ReviewInv, Calm

LEMMA NextKeeps == ReviewInv /\ [Next]_vars => ReviewInv'
<1> SUFFICES ASSUME ReviewInv, [Next]_vars PROVE ReviewInv'
  OBVIOUS
<1>1. CASE \E c \in Captures : \E link \in {"pending", "done"} : Capture(c, link)
  BY <1>1, CaptureKeeps
<1>2. CASE (\E c \in Captures : ReplayCapture(c)) \/ StageInbox \/ Routed \/ UNCHANGED vars
  BY <1>2, BesideTheRow
<1>3. CASE ReviewerStep
  BY <1>3, StartReviewKeeps, GatherForReviewKeeps, FetchLinkKeeps, WriteReviewKeeps, WriteReviewEntitiesKeeps
     DEF ReviewerStep
<1>4. ASSUME NEW e \in Editors, (\E t \in SUBSET Tags : BeginEdit(e, t)) \/ EditorStep(e) PROVE ReviewInv'
  BY <1>4, BeginEditKeeps, GatherForEditKeeps, SaveEditKeeps, FinishEditKeeps DEF EditorStep
<1>5. CASE Interrupted
  BY <1>5, InterruptedKeeps
<1> QED BY <1>1, <1>2, <1>3, <1>4, <1>5 DEF Next

(***************************************************************************)
(* The inductive invariant: as long as no review and edit overlapped, what *)
(* each of them holds fits the row it will write.                          *)
(***************************************************************************)
THEOREM ReviewInvariantHolds == Spec => []ReviewInv
BY InitCalm, NextKeeps, PTL DEF Spec

(***************************************************************************)
(* The paid fallback is asked at most MaxAttempts times for one capture    *)
(* (ReviewURL, shouldRetryLinkEnrichment).                                 *)
(***************************************************************************)
THEOREM FetchesStayCapped == Spec => []FetchesAreCapped
<1>1. ReviewInv => FetchesAreCapped
  BY ReviewConstants DEF ReviewInv, ReviewTypeOK, FetchesAreCapped
<1> QED BY <1>1, ReviewInvariantHolds, PTL

(***************************************************************************)
(* What the row shows at rest is what the last capture or edit left, and   *)
(* its material the one captured last (upsertFragmentResolved,             *)
(* applyLegacyProjectionOn, applyEnrichment, UpdateManualFragment).        *)
(***************************************************************************)
THEOREM TheLatestIsShown == Spec => []RowShowsTheLatest
<1>1. ReviewInv => RowShowsTheLatest
  BY DEF ReviewInv, ReviewTypeOK, RowShowsTheLatest, AtRest, Calm, RowShown, Editing, Reviewing
<1> QED BY <1>1, ReviewInvariantHolds, PTL

(***************************************************************************)
(* The pages of a reader.  Every set of numbers has a least one, and every *)
(* bounded set a greatest.                                                 *)
(***************************************************************************)
LEMMA LeastExists ==
    ASSUME NEW T \in SUBSET Nat, T # {}
    PROVE  \E x \in T : \A y \in T : x <= y
<1>1. PICK x \in T : \A y \in T : ~(<<y, x>> \in OpToRel(<, Nat))
    BY NatLessThanWellFounded, WFMin
<1>2. \A y \in T : ~(y < x)
    BY <1>1 DEF OpToRel
<1> QED BY <1>2

LEMMA GreatestExists ==
    ASSUME NEW bound \in Nat, NEW T \in SUBSET (0..bound), T # {}
    PROVE  \E x \in T : \A y \in T : y <= x
<1> DEFINE N == {n \in Nat : \E t \in T : n = bound - t}
<1>1. N \in SUBSET Nat /\ N # {}
  <2>1. PICK t \in T : TRUE
    OBVIOUS
  <2>2. bound - t \in Nat
    OBVIOUS
  <2> QED BY <2>2
<1>2. PICK n \in N : \A m \in N : n <= m
    BY <1>1, LeastExists
<1>3. PICK x \in T : n = bound - x
    BY <1>2
<1>4. ASSUME NEW y \in T PROVE y <= x
  <2>1. bound - y \in N
    OBVIOUS
  <2> QED BY <2>1, <1>2, <1>3
<1> QED BY <1>4

(***************************************************************************)
(* The order of a page: every finite set of fragments can be enumerated    *)
(* from the latest to the earliest, by induction over its size.            *)
(***************************************************************************)
Enumerates(q, S, at) ==
    /\ q \in [1..Cardinality(S) -> S]
    /\ \A i, j \in 1..Cardinality(S) :
           i < j => at[q[j]] < at[q[i]] \/ (at[q[j]] = at[q[i]] /\ q[j] < q[i])

LEMMA EarliestExists ==
    ASSUME NEW T \in SUBSET Nat, T # {}, NEW at, \A f \in T : at[f] \in Nat
    PROVE  \E x \in T : \A y \in T \ {x} : at[x] < at[y] \/ (at[x] = at[y] /\ x < y)
<1> DEFINE A == {a \in Nat : \E f \in T : at[f] = a}
<1>1. A \in SUBSET Nat /\ A # {}
    OBVIOUS
<1>2. PICK a \in A : \A b \in A : a <= b
    BY <1>1, LeastExists
<1> DEFINE B == {f \in T : at[f] = a}
<1>3. B \in SUBSET Nat /\ B # {}
    OBVIOUS
<1>4. PICK x \in B : \A y \in B : x <= y
    BY <1>3, LeastExists
<1>5. ASSUME NEW y \in T \ {x} PROVE at[x] < at[y] \/ (at[x] = at[y] /\ x < y)
  <2>1. a <= at[y] /\ at[x] = a /\ at[y] \in Nat /\ a \in Nat /\ x \in Nat /\ y \in Nat
      BY <1>2
  <2>2. CASE at[y] = a
    <3>1. x <= y
        BY <1>4, <2>2
    <3> QED BY <2>1, <2>2, <3>1
  <2>3. CASE at[y] # a
      BY <2>1, <2>3
  <2> QED BY <2>2, <2>3
<1> QED BY <1>5

LEMMA EnumerationExists ==
    ASSUME NEW S \in SUBSET Nat, IsFiniteSet(S), NEW at, \A f \in S : at[f] \in Nat
    PROVE  \E q : Enumerates(q, S, at)
<1> DEFINE Bad == {n \in Nat : \E T \in SUBSET S : Cardinality(T) = n /\ ~\E q : Enumerates(q, T, at)}
<1>1. SUFFICES ASSUME Bad # {} PROVE FALSE
    BY FS_CardinalityType
<1>2. PICK n \in Bad : \A m \in Bad : n <= m
    BY <1>1, LeastExists
<1>3. PICK T \in SUBSET S : Cardinality(T) = n /\ ~\E q : Enumerates(q, T, at)
    BY <1>2
<1>4. IsFiniteSet(T) /\ n \in Nat
    BY FS_Subset
<1>5. CASE T = {}
  <2>1. Cardinality(T) = 0
      BY <1>5, FS_EmptySet
  <2>2. Enumerates([i \in 1..0 |-> 0], T, at)
      BY <2>1, <1>5 DEF Enumerates
  <2> QED BY <1>3, <2>2
<1>6. CASE T # {}
  <2>1. PICK x \in T : \A y \in T \ {x} : at[x] < at[y] \/ (at[x] = at[y] /\ x < y)
      BY <1>6, EarliestExists
  <2>2. Cardinality(T \ {x}) = n - 1
      BY <1>3, <1>4, FS_RemoveElement
  <2>3. n - 1 \in Nat
    <3>1. IsFiniteSet(T \ {x})
        BY <1>4, FS_RemoveElement
    <3> QED BY <2>2, <3>1, FS_CardinalityType
  <2>4. PICK q : Enumerates(q, T \ {x}, at)
      BY <1>2, <2>2, <2>3
  <2> DEFINE r == [i \in 1..n |-> IF i = n THEN x ELSE q[i]]
  <2>5. q \in [1..n - 1 -> T \ {x}]
      BY <2>2, <2>4 DEF Enumerates
  <2>6. r \in [1..n -> T]
      BY <2>5, <1>4
  <2>7. ASSUME NEW i \in 1..n, NEW j \in 1..n, i < j
        PROVE  at[r[j]] < at[r[i]] \/ (at[r[j]] = at[r[i]] /\ r[j] < r[i])
    <3>1. i \in 1..n - 1 /\ r[i] = q[i] /\ q[i] \in T \ {x}
        BY <2>7, <2>5, <1>4
    <3>2. CASE j = n
        BY <3>1, <3>2, <2>1
    <3>3. CASE j # n
      <4>1. j \in 1..n - 1 /\ r[j] = q[j]
          BY <3>3, <1>4
      <4> QED BY <4>1, <3>1, <2>7, <2>4, <2>2 DEF Enumerates
    <3> QED BY <3>2, <3>3
  <2>8. Enumerates(r, T, at)
      BY <2>6, <2>7, <1>3 DEF Enumerates
  <2> QED BY <1>3, <2>8
<1> QED BY <1>5, <1>6

LEMMA EnumerationIsComplete ==
    ASSUME NEW S \in SUBSET Nat, IsFiniteSet(S), NEW at, \A f \in S : at[f] \in Nat,
           NEW q, Enumerates(q, S, at)
    PROVE  \A f \in S : \E i \in 1..Cardinality(S) : q[i] = f
<1> DEFINE n == Cardinality(S)
<1>1. n \in Nat
    BY FS_CardinalityType
<1>2. IsFiniteSet(1..n) /\ Cardinality(1..n) = n
    BY <1>1, FS_Interval
<1>3. q \in [1..n -> S]
    BY DEF Enumerates
<1>4. ASSUME NEW i \in 1..n, NEW j \in 1..n, q[i] = q[j] PROVE i = j
  <2>1. ~(i < j) /\ ~(j < i)
    <3>1. at[q[i]] \in Nat /\ at[q[j]] \in Nat /\ q[i] \in Nat /\ q[j] \in Nat
        BY <1>3
    <3>2. at[q[i]] = at[q[j]]
        BY <1>4
    <3> QED BY <3>1, <3>2, <1>4 DEF Enumerates
  <2> QED BY <2>1, <1>1
<1>5. q \in Injection(1..n, S)
    BY <1>3, <1>4 DEF Injection, IsInjective
<1>6. q \in Surjection(1..n, S)
    BY <1>2, <1>5, FS_Injection
<1> QED BY <1>6 DEF Surjection

(***************************************************************************)
(* The listing.                                                            *)
(***************************************************************************)
ScopeNames == {"inbox", "library", "all"}

Steps == {"idle", "coverage", "tags", "annotations", "effects", "project", "shown", "ended"}
Reading == {"coverage", "tags", "annotations", "effects", "project"}

Typed ==
    /\ fragments \in [Fragments -> Fragment]
    /\ now \in Nat
    /\ \A f \in Fragments : InTime(fragments[f].journal, now)

Cursors == {NoValue} \cup [at : Nat, id : Nat]
BaseRows ==
    [id : Fragments, at : Nat, revision : DOMAIN MediaOf, inbox : BOOLEAN, captured : BOOLEAN,
     state : {"unread", "in_progress", "read"}, aggregate : Nat]

\* b is shown after c.
After(b, c) == b.at < c.at \/ (b.at = c.at /\ b.id < c.id)
Place(f, scope) == [at |-> SortAt(f, scope), id |-> f]

\* The bases of a page are in order, from the cursor on ...
PageFits(page, cursor) ==
    /\ page \in Seq(BaseRows) /\ Len(page) <= Limit
    /\ \A i, j \in 1..Len(page) : i < j => After(page[j], page[i])
    /\ cursor # NoValue => \A i \in 1..Len(page) : After(page[i], cursor)

\* ... and miss none of these fragments, unless it comes after a full page.
PageCovers(page, scope, cursor, those) ==
    /\ \A i \in 1..Len(page) : page[i].id \in those => page[i].at = SortAt(page[i].id, scope)
    /\ \A f \in those : Beyond(f, scope, cursor) =>
           \/ \E i \in 1..Len(page) : page[i].id = f
           \/ Len(page) = Limit /\ After(Place(f, scope), page[Limit])

LEMMA Constants ==
    /\ Fragments \in SUBSET Nat /\ IsFiniteSet(Fragments)
    /\ NoValue \notin Nat /\ NoValue \notin [at : Nat, id : Nat]
    /\ PageSize \in Nat /\ PageSize > 0 /\ Limit \in Nat /\ Limit = PageSize + 1
    /\ Scopes \subseteq ScopeNames
BY ReaderAssumption DEF Limit, ScopeNames

LEMMA RowIsTyped ==
    ASSUME Typed, NEW f \in Fragments
    PROVE  /\ fragments[f].alias \in Fragments \cup {NoValue} /\ fragments[f].ingested \in Nat
           /\ fragments[f].captured \in Nat \cup {NoValue} /\ fragments[f].staged \in Nat \cup {NoValue}
           /\ fragments[f].revision \in DOMAIN MediaOf /\ fragments[f].journal \in Seq(Events)
           /\ fragments[f].state \in {"unread", "in_progress", "read"} /\ fragments[f].notes \in Nat
<1>1. fragments[f] \in Fragment
    BY DEF Typed
<1> QED BY <1>1 DEF Fragment

LEMMA SortAtIsTyped ==
    ASSUME Typed, NEW f \in Fragments, NEW scope, InScope(f, scope)
    PROVE  SortAt(f, scope) \in Nat
BY RowIsTyped DEF SortAt, InScope

LEMMA CommandsAreFinite ==
    ASSUME NEW journal \in Seq(Events)
    PROVE  /\ IsFiniteSet(CommandsIn(journal)) /\ Cardinality(CommandsIn(journal)) \in Nat
           /\ CommandsIn(journal) \in SUBSET (1..Len(journal))
<1>1. IsFiniteSet(1..Len(journal))
    BY FS_Interval
<1>2. CommandsIn(journal) \in SUBSET (1..Len(journal))
    BY DEF CommandsIn
<1> QED BY <1>1, <1>2, FS_Subset, FS_CardinalityType

LEMMA BaseIsTyped ==
    ASSUME Typed, NEW f \in Fragments, NEW scope, SortAt(f, scope) \in Nat, NEW revision \in DOMAIN MediaOf
    PROVE  /\ Base(f, scope, revision) \in BaseRows
           /\ Base(f, scope, revision).id = f /\ Base(f, scope, revision).at = SortAt(f, scope)
           /\ Base(f, scope, revision).aggregate = Cardinality(CommandsIn(fragments[f].journal))
BY RowIsTyped, CommandsAreFinite DEF Base, BaseRows

LEMMA MinOfTwo ==
    ASSUME NEW a \in Nat, NEW b \in Nat
    PROVE  Min({a, b}) = IF a <= b THEN a ELSE b
<1>1. PICK m \in {a, b} : \A y \in {a, b} : m <= y
  <2>1. CASE a <= b
      BY <2>1
  <2>2. CASE b <= a
      BY <2>2
  <2> QED BY <2>1, <2>2
<1>2. PICK k : k = Min({a, b})
    OBVIOUS
<1>3. k \in {a, b} /\ \A y \in {a, b} : k <= y
    BY <1>1, <1>2 DEF Min
<1> QED BY <1>2, <1>3

LEMMA ListBasesFit ==
    ASSUME Typed, NEW scope \in ScopeNames, NEW cursor \in Cursors,
           NEW those \in SUBSET Fragments, \A f \in those : InScope(f, scope)
    PROVE  /\ PageFits(ListBases(scope, cursor), cursor)
           /\ PageCovers(ListBases(scope, cursor), scope, cursor, those)
           /\ \A i \in 1..Len(ListBases(scope, cursor)) :
                  LET b == ListBases(scope, cursor)[i] IN
                  b.aggregate = Cardinality(CommandsIn(fragments[b.id].journal))
<1>f. PICK found : found = {f \in Fragments : InScope(f, scope) /\ Beyond(f, scope, cursor)}
    OBVIOUS
<1>a. PICK at : at = [f \in found |-> SortAt(f, scope)]
    OBVIOUS
<1>1. found \in SUBSET Nat /\ found \in SUBSET Fragments /\ IsFiniteSet(found)
    BY <1>f, Constants, FS_Subset
<1>2. \A f \in found : at[f] = SortAt(f, scope) /\ at[f] \in Nat
    BY <1>f, <1>a, SortAtIsTyped
<1>n. PICK n : n = Cardinality(found)
    OBVIOUS
<1>3. n \in Nat
    BY <1>1, <1>n, FS_CardinalityType
<1>o. PICK order : order = CHOOSE q \in [1..n -> found] : \A i, j \in DOMAIN q : i < j => Follows(q[j], q[i], scope)
    OBVIOUS
<1>4. Enumerates(order, found, at)
  <2>1. PICK q : Enumerates(q, found, at)
      BY <1>1, <1>2, EnumerationExists
  <2>2. q \in [1..n -> found] /\ \A i, j \in DOMAIN q : i < j => Follows(q[j], q[i], scope)
      BY <2>1, <1>2, <1>n DEF Enumerates, Follows
  <2>3. order \in [1..n -> found] /\ \A i, j \in DOMAIN order : i < j => Follows(order[j], order[i], scope)
      BY <2>2, <1>o
  <2> QED BY <2>3, <1>2, <1>n DEF Enumerates, Follows
<1>5. order \in [1..n -> found] /\ \A f \in found : \E i \in 1..n : order[i] = f
  <2>1. order \in [1..n -> found]
      BY <1>4, <1>n DEF Enumerates
  <2>2. \A f \in found : \E i \in 1..Cardinality(found) : order[i] = f
      BY <1>1, <1>2, <1>4, EnumerationIsComplete
  <2> QED BY <2>1, <2>2, <1>n
<1>k. PICK k : k = Min({Limit, n})
    OBVIOUS
<1>6. k \in Nat /\ k <= Limit /\ k <= n /\ (k = Limit \/ k = n)
    BY <1>3, <1>k, Constants, MinOfTwo
<1>p. PICK page : page = [i \in 1..k |-> Base(order[i], scope, fragments[order[i]].revision)]
    OBVIOUS
<1>7. ListBases(scope, cursor) = page
    BY <1>f, <1>n, <1>o, <1>k, <1>p DEF ListBases
<1>8. ASSUME NEW i \in 1..k
      PROVE  /\ page[i] \in BaseRows /\ page[i].id = order[i] /\ page[i].at = at[order[i]]
             /\ page[i].aggregate = Cardinality(CommandsIn(fragments[order[i]].journal))
             /\ i \in 1..n /\ order[i] \in found
  <2>1. i \in 1..n /\ order[i] \in found /\ order[i] \in Fragments
    <3>1. i \in 1..n
        BY <1>3, <1>6
    <3> QED BY <3>1, <1>1, <1>5
  <2>2. fragments[order[i]].revision \in DOMAIN MediaOf
      BY <2>1, RowIsTyped
  <2>3. SortAt(order[i], scope) \in Nat /\ at[order[i]] = SortAt(order[i], scope)
      BY <2>1, <1>2
  <2>4. page[i] = Base(order[i], scope, fragments[order[i]].revision)
      BY <1>p
  <2> QED BY <2>1, <2>2, <2>3, <2>4, BaseIsTyped
<1>9. page \in Seq(BaseRows) /\ Len(page) = k
  <2>1. page \in [1..k -> BaseRows]
      BY <1>8, <1>p
  <2> QED BY <2>1, <1>6
<1>10. PageFits(page, cursor)
  <2>1. ASSUME NEW i \in 1..k, NEW j \in 1..k, i < j PROVE After(page[j], page[i])
      BY <2>1, <1>8, <1>4, <1>n DEF After, Enumerates
  <2>2. ASSUME NEW i \in 1..k, cursor # NoValue PROVE After(page[i], cursor)
    <3>1. Beyond(order[i], scope, cursor)
        BY <1>8, <1>f
    <3> QED BY <3>1, <2>2, <1>8, <1>2 DEF Beyond, After
  <2> QED BY <2>1, <2>2, <1>9, <1>6 DEF PageFits
<1>11. PageCovers(page, scope, cursor, those)
  <2>1. ASSUME NEW i \in 1..k PROVE page[i].at = SortAt(page[i].id, scope)
      BY <1>8, <1>2
  <2>2. ASSUME NEW f \in those, Beyond(f, scope, cursor), ~\E i \in 1..k : page[i].id = f
        PROVE  k = Limit /\ After(Place(f, scope), page[Limit])
    <3>1. f \in found
        BY <2>2, <1>f
    <3>2. PICK j \in 1..n : order[j] = f
        BY <3>1, <1>5
    <3>3. j \notin 1..k
        BY <2>2, <3>2, <1>8
    <3>4. k = Limit /\ k < j /\ k \in 1..k /\ k \in 1..n
        BY <3>2, <3>3, <1>6, <1>3, Constants
    <3>5. at[order[j]] < at[order[k]] \/ (at[order[j]] = at[order[k]] /\ order[j] < order[k])
        BY <3>4, <3>2, <1>4, <1>n DEF Enumerates
    <3> QED BY <3>1, <3>2, <3>4, <3>5, <1>2, <1>8 DEF After, Place
  <2> QED BY <2>1, <2>2, <1>9 DEF PageCovers
<1> QED BY <1>7, <1>8, <1>9, <1>10, <1>11

(***************************************************************************)
(* What happens meanwhile.                                                 *)
(***************************************************************************)
SaysOfTags == {"observed", "add", "suppress"}
HasEffect == {"command", "log"}

\* A journal only grows, and of what was recorded nothing changes but a state.
Grew(older, newer) ==
    /\ Len(older) <= Len(newer)
    /\ \A i \in 1..Len(older) :
           /\ newer[i].what = older[i].what /\ newer[i].at = older[i].at
           /\ older[i].what \in SaysOfTags => newer[i].tag = older[i].tag
           /\ older[i].what \in HasEffect => newer[i].ref = older[i].ref

\* F replaces f; what is not touched stays in its place.
Rewrites(f, F) ==
    /\ fragments' = [fragments EXCEPT ![f] = F]
    /\ F \in Fragment /\ Grew(fragments[f].journal, F.journal) /\ InTime(F.journal, now)
    /\ F.alias = fragments[f].alias
    /\ untouched' \subseteq untouched
    /\ f \in untouched' =>
           /\ F.captured = fragments[f].captured /\ F.ingested = fragments[f].ingested
           /\ F.staged = fragments[f].staged \/ pageRequest.scope # "inbox"
    /\ now' = now /\ pageRequest' = pageRequest /\ listed' = listed

LEMMA EventIsTyped ==
    ASSUME NEW e \in Events
    PROVE  /\ e.what \in SaysOfTags \cup HasEffect /\ e.at \in Nat
           /\ e.what \in SaysOfTags => e.tag \in ReaderTags
           /\ e.what \in HasEffect => e.ref \in Refs
BY DEF Events, SaysOfTags, HasEffect

LEMMA SecondOfAt ==
    ASSUME NEW second \in Nat, NEW rank \in Ranks
    PROVE  At(second, rank) \in Nat /\ Second(At(second, rank)) = second
BY DEF Ranks, At, Second

LEMMA GrewTrivially ==
    ASSUME NEW journal \in Seq(Events)
    PROVE  Grew(journal, journal)
BY DEF Grew

LEMMA JournalGrows ==
    ASSUME NEW journal \in Seq(Events), NEW second \in Nat, InTime(journal, second),
           NEW rank \in Ranks, \A d \in Range(journal) : d.at # At(second, rank),
           NEW e \in Events, e.at = At(second, rank)
    PROVE  /\ Append(journal, e) \in Seq(Events) /\ InTime(Append(journal, e), second)
           /\ Grew(journal, Append(journal, e))
<1> PICK n : n = Len(journal)
    OBVIOUS
<1> PICK newer : newer = Append(journal, e)
    OBVIOUS
<1>1. /\ newer \in Seq(Events) /\ Len(newer) = n + 1 /\ n \in Nat
      /\ newer[n + 1] = e /\ \A i \in 1..n : newer[i] = journal[i]
    OBVIOUS
<1>2. e.at \in Nat /\ Second(e.at) = second
    BY SecondOfAt
<1>3. \A i \in 1..n : journal[i].at # e.at /\ journal[i].at \in Nat
    BY EventIsTyped DEF Range
<1>4. DOMAIN newer = 1..n + 1 /\ DOMAIN journal = 1..n
    BY <1>1
<1>5. \A i \in DOMAIN newer : Second(newer[i].at) <= second
  <2> TAKE i \in DOMAIN newer
  <2>1. CASE i = n + 1
      BY <2>1, <1>1, <1>2
  <2>2. CASE i \in 1..n
      BY <2>2, <1>1, <1>4 DEF InTime
  <2> QED BY <2>1, <2>2, <1>4, <1>1
<1>6. ASSUME NEW i \in DOMAIN newer, NEW j \in DOMAIN newer, i < j
      PROVE  Second(newer[i].at) <= Second(newer[j].at) /\ newer[i].at # newer[j].at
  <2>1. i \in 1..n /\ newer[i] = journal[i]
      BY <1>1, <1>4, <1>6
  <2>2. CASE j = n + 1
    <3>1. Second(journal[i].at) <= second
        BY <2>1, <1>4 DEF InTime
    <3> QED BY <2>1, <2>2, <3>1, <1>1, <1>2, <1>3
  <2>3. CASE j \in 1..n
      BY <2>1, <2>3, <1>1, <1>4, <1>6 DEF InTime
  <2> QED BY <2>2, <2>3, <1>4, <1>1
<1>7. InTime(newer, second)
    BY <1>5, <1>6 DEF InTime
<1>8. Grew(journal, newer)
    BY <1>1 DEF Grew
<1> QED BY <1>1, <1>7, <1>8

LEMMA JournalRewrites ==
    ASSUME Typed, NEW f \in Fragments, NEW journal \in Seq(Events), InTime(journal, now),
           Grew(fragments[f].journal, journal),
           fragments' = [fragments EXCEPT ![f].journal = journal],
           now' = now, pageRequest' = pageRequest, listed' = listed, untouched' = untouched
    PROVE  \E F : Rewrites(f, F)
<1>1. PICK x : x = fragments[f]
    OBVIOUS
<1>2. x \in Fragment
    BY <1>1 DEF Typed
<1>3. PICK F : F = [x EXCEPT !.journal = journal]
    OBVIOUS
<1>4. /\ F \in Fragment /\ F.journal = journal /\ F.alias = x.alias /\ F.captured = x.captured
      /\ F.ingested = x.ingested /\ F.staged = x.staged
    BY <1>2, <1>3 DEF Fragment
<1>5. fragments' = [fragments EXCEPT ![f] = F]
    BY <1>1, <1>3
<1> QED BY <1>1, <1>4, <1>5 DEF Rewrites

LEMMA RecordedRewrites ==
    ASSUME Typed, NEW f \in Fragments, NEW rank \in Ranks, NewTime(f, At(now, rank)),
           NEW e \in Events, e.at = At(now, rank), fragments' = Recorded(f, e),
           now' = now, pageRequest' = pageRequest, listed' = listed, untouched' = untouched
    PROVE  \E F : Rewrites(f, F)
<1>1. fragments[f].journal \in Seq(Events) /\ InTime(fragments[f].journal, now) /\ now \in Nat
    BY RowIsTyped DEF Typed
<1>2. PICK journal : journal = Append(fragments[f].journal, e)
    OBVIOUS
<1>3. journal \in Seq(Events) /\ InTime(journal, now) /\ Grew(fragments[f].journal, journal)
    BY <1>1, <1>2, JournalGrows DEF NewTime
<1>4. fragments' = [fragments EXCEPT ![f].journal = journal]
    BY <1>2 DEF Recorded
<1> QED BY <1>3, <1>4, JournalRewrites

LEMMA TagRewrites ==
    ASSUME Typed, NEW f \in Fragments, NEW t \in ReaderTags, NEW rank \in Ranks,
           Observe(f, t, rank) \/ \E what \in {"add", "suppress"} : ApplyTag(f, t, what, rank)
    PROVE  \E F : Rewrites(f, F)
<1>1. At(now, rank) \in Nat
    BY SecondOfAt DEF Typed
<1>2. PICK what \in SaysOfTags :
          /\ NewTime(f, At(now, rank))
          /\ fragments' = Recorded(f, [what |-> what, tag |-> t, at |-> At(now, rank)])
          /\ now' = now /\ pageRequest' = pageRequest /\ listed' = listed /\ untouched' = untouched
    BY DEF Observe, ApplyTag, SaysOfTags
<1>3. [what |-> what, tag |-> t, at |-> At(now, rank)] \in Events
    BY <1>1 DEF Events, SaysOfTags
<1> QED BY <1>2, <1>3, RecordedRewrites

LEMMA EffectRewrites ==
    ASSUME Typed, NEW f \in Fragments, NEW what \in {"command", "log"}, NEW of \in Reports, NEW rank \in Ranks,
           RecordEffect(f, what, of, rank)
    PROVE  \E F : Rewrites(f, F)
<1>1. At(now, rank) \in Nat
    BY SecondOfAt DEF Typed
<1>2. /\ of.on \in {"routing", "materialization"} /\ of.ref \in Refs
      /\ of.state \in {"pending", "succeeded", "failed"}
  <2>1. of \in [on : {"routing", "materialization"}, ref : Refs, state : {"pending", "succeeded", "failed"}]
      BY ReaderAssumption
  <2> QED BY <2>1
<1>3. PICK state : state = IF what = "command" THEN "pending" ELSE of.state
    OBVIOUS
<1>4. PICK e : e = [what |-> what, on |-> of.on, ref |-> of.ref, at |-> At(now, rank), state |-> state]
    OBVIOUS
<1>5. state \in {"pending", "succeeded", "partial", "failed"}
    BY <1>2, <1>3
<1>6. e \in Events /\ e.at = At(now, rank)
    BY <1>1, <1>2, <1>4, <1>5 DEF Events
<1>7. fragments' = Recorded(f, e)
    BY <1>3, <1>4 DEF RecordEffect
<1> QED BY <1>6, <1>7, RecordedRewrites DEF RecordEffect

LEMMA SettleRewrites ==
    ASSUME Typed, NEW f \in Fragments, NEW i \in DOMAIN fragments[f].journal,
           NEW state \in {"succeeded", "partial", "failed"}, Settle(f, i, state)
    PROVE  \E F : Rewrites(f, F)
<1>1. PICK older : older = fragments[f].journal
    OBVIOUS
<1>2. older \in Seq(Events) /\ InTime(older, now) /\ i \in 1..Len(older)
    BY <1>1, RowIsTyped DEF Typed
<1>3. PICK e : e = older[i]
    OBVIOUS
<1>4. PICK d : d = [e EXCEPT !.state = state]
    OBVIOUS
<1>5. e \in Events /\ e.what = "command"
    BY <1>1, <1>2, <1>3 DEF Settle
<1>6. d \in Events /\ d.what = e.what /\ d.at = e.at /\ d.ref = e.ref
    BY <1>4, <1>5 DEF Events
<1>7. PICK newer : newer = [older EXCEPT ![i] = d]
    OBVIOUS
<1>8. /\ newer \in Seq(Events) /\ Len(newer) = Len(older)
      /\ \A j \in 1..Len(older) : newer[j] = IF j = i THEN d ELSE older[j]
    BY <1>2, <1>6, <1>7
<1>9. Grew(older, newer)
    BY <1>3, <1>5, <1>6, <1>8 DEF Grew, SaysOfTags
<1>10. InTime(newer, now)
  <2>1. DOMAIN newer = DOMAIN older /\ DOMAIN older = 1..Len(older)
      BY <1>2, <1>8
  <2>2. \A j \in DOMAIN older : newer[j].at = older[j].at
      BY <2>1, <1>8, <1>6, <1>3
  <2> QED BY <2>1, <2>2, <1>2 DEF InTime
<1>11. fragments' = [fragments EXCEPT ![f].journal = newer]
    BY <1>1, <1>3, <1>4, <1>7 DEF Settle
<1> QED BY <1>1, <1>8, <1>9, <1>10, <1>11, JournalRewrites DEF Settle

\* What changes the row but not the journal.
LEMMA RowRewrites ==
    ASSUME Typed, NEW f \in Fragments, NEW F \in Fragment, fragments' = [fragments EXCEPT ![f] = F],
           F.journal = fragments[f].journal, F.alias = fragments[f].alias, untouched' \subseteq untouched,
           f \in untouched' =>
               /\ F.captured = fragments[f].captured /\ F.ingested = fragments[f].ingested
               /\ F.staged = fragments[f].staged \/ pageRequest.scope # "inbox",
           now' = now, pageRequest' = pageRequest, listed' = listed
    PROVE  Rewrites(f, F)
<1>1. fragments[f].journal \in Seq(Events) /\ InTime(fragments[f].journal, now)
    BY RowIsTyped DEF Typed
<1> QED BY <1>1, GrewTrivially DEF Rewrites

LEMMA CaptureRewrites ==
    ASSUME Typed, NEW f \in Fragments, NEW rank \in Ranks, NEW revision \in DOMAIN MediaOf,
           CaptureAgain(f, revision, rank)
    PROVE  \E F : Rewrites(f, F)
<1>1. At(now, rank) \in Nat
    BY SecondOfAt DEF Typed
<1>2. PICK x : x = fragments[f]
    OBVIOUS
<1>3. x \in Fragment
    BY <1>2 DEF Typed
<1>4. PICK summary : summary = IF revision = x.revision THEN x.summary ELSE "none"
    OBVIOUS
<1>5. PICK F : F = [x EXCEPT !.captured = At(now, rank), !.staged = At(now, rank), !.revision = revision,
                             !.notes = x.notes + 1, !.summary = summary]
    OBVIOUS
<1>6. summary \in {"none", "safe", "unsafe"} /\ x.notes + 1 \in Nat
    BY <1>3, <1>4 DEF Fragment
<1>7. F \in Fragment /\ F.journal = x.journal /\ F.alias = x.alias
    BY <1>1, <1>3, <1>5, <1>6 DEF Fragment
<1>8. fragments' = [fragments EXCEPT ![f] = F] /\ untouched' = untouched \ {f}
    BY <1>2, <1>4, <1>5 DEF CaptureAgain
<1> QED BY <1>2, <1>7, <1>8, RowRewrites DEF CaptureAgain

LEMMA MeanwhileRewrites ==
    ASSUME Typed, NEW f \in Fragments, Meanwhile(f)
    PROVE  \E F : Rewrites(f, F)
<1>1. PICK x : x = fragments[f]
    OBVIOUS
<1>2. x \in Fragment
    BY <1>1 DEF Typed
<1>3. CASE \E t \in ReaderTags, rank \in Ranks :
               Observe(f, t, rank) \/ \E what \in {"add", "suppress"} : ApplyTag(f, t, what, rank)
    BY <1>3, TagRewrites
<1>4. CASE \E what \in {"command", "log"}, of \in Reports, rank \in Ranks : RecordEffect(f, what, of, rank)
    BY <1>4, EffectRewrites
<1>5. CASE \E i \in DOMAIN fragments[f].journal, state \in {"succeeded", "partial", "failed"} : Settle(f, i, state)
    BY <1>5, SettleRewrites
<1>6. ASSUME NEW state \in {"in_progress", "read"}, Read(f, state) PROVE \E F : Rewrites(f, F)
  <2>1. PICK F : F = [x EXCEPT !.state = state]
      OBVIOUS
  <2>2. /\ F \in Fragment /\ F.journal = x.journal /\ F.alias = x.alias
        /\ F.captured = x.captured /\ F.ingested = x.ingested /\ F.staged = x.staged
      BY <1>2, <2>1 DEF Fragment
  <2>3. fragments' = [fragments EXCEPT ![f] = F]
      BY <1>6, <1>1, <2>1 DEF Read
  <2> QED BY <1>6, <1>1, <2>2, <2>3, RowRewrites DEF Read
<1>7. ASSUME NEW summary \in {"safe", "unsafe"}, SelectObservation(f, summary) PROVE \E F : Rewrites(f, F)
  <2>1. PICK F : F = [x EXCEPT !.summary = summary]
      OBVIOUS
  <2>2. /\ F \in Fragment /\ F.journal = x.journal /\ F.alias = x.alias
        /\ F.captured = x.captured /\ F.ingested = x.ingested /\ F.staged = x.staged
      BY <1>2, <2>1 DEF Fragment
  <2>3. fragments' = [fragments EXCEPT ![f] = F]
      BY <1>7, <1>1, <2>1 DEF SelectObservation
  <2> QED BY <1>7, <1>1, <2>2, <2>3, RowRewrites DEF SelectObservation
<1>8. CASE \E rank \in Ranks : \E r \in {fragments[f].revision, fragments[f].revision + 1} \cap DOMAIN MediaOf :
               CaptureAgain(f, r, rank)
    BY <1>8, CaptureRewrites
<1>9. ASSUME Unstage(f) PROVE \E F : Rewrites(f, F)
  <2>1. PICK F : F = [x EXCEPT !.staged = NoValue]
      OBVIOUS
  <2>2. /\ F \in Fragment /\ F.journal = x.journal /\ F.alias = x.alias
        /\ F.captured = x.captured /\ F.ingested = x.ingested
      BY <1>2, <2>1 DEF Fragment
  <2>3. fragments' = [fragments EXCEPT ![f] = F]
      BY <1>9, <1>1, <2>1 DEF Unstage
  <2>4. untouched' = IF pageRequest.scope = "inbox" THEN untouched \ {f} ELSE untouched
      BY <1>9 DEF Unstage
  <2>5. untouched' \subseteq untouched /\ (f \in untouched' => pageRequest.scope # "inbox")
      BY <2>4
  <2> QED BY <1>9, <1>1, <2>2, <2>3, <2>5, RowRewrites DEF Unstage
<1> QED BY <1>3, <1>4, <1>5, <1>6, <1>7, <1>8, <1>9 DEF Meanwhile

(***************************************************************************)
(* The invariant of a listing.                                             *)
(***************************************************************************)
RequestOK ==
    /\ pageRequest.step \in Steps /\ pageRequest.scope \in ScopeNames /\ pageRequest.cursor \in Cursors
    /\ pageRequest = [step |-> pageRequest.step, scope |-> pageRequest.scope, cursor |-> pageRequest.cursor,
                      item |-> pageRequest.item, bases |-> pageRequest.bases,
                      coverage |-> pageRequest.coverage, media |-> pageRequest.media,
                      tags |-> pageRequest.tags, annotations |-> pageRequest.annotations,
                      effects |-> pageRequest.effects]

ListedTyped ==
    /\ listed \in Seq(Range(listed))
    /\ \A i \in DOMAIN listed : listed[i].id \in Fragments /\ listed[i].at \in Nat

\* What is untouched is in scope, where it was when it was shown.
StillThere == pageRequest.step # "idle" => \A f \in untouched : InScope(f, pageRequest.scope)
AsListed ==
    pageRequest.step # "idle" =>
        \A i \in DOMAIN listed : listed[i].id \in untouched =>
            listed[i].at = SortAt(listed[i].id, pageRequest.scope)

\* It was shown if and only if it is not beyond the cursor; at the end it was shown.
ShownOnce(f) == \E i \in DOMAIN listed : Shown(f) = {i}
ListedSoFar ==
    pageRequest.step \notin {"idle", "ended"} => \A f \in untouched :
        IF Beyond(f, pageRequest.scope, pageRequest.cursor) THEN Shown(f) = {} ELSE ShownOnce(f)
ListedAll == pageRequest.step = "ended" => \A f \in untouched : ShownOnce(f)

InOrder ==
    \A f, g \in untouched : \A i \in Shown(f), j \in Shown(g) : i < j => listed[i].at >= listed[j].at

PageIsRight ==
    pageRequest.step \in Reading =>
        /\ PageFits(pageRequest.bases, pageRequest.cursor)
        /\ PageCovers(pageRequest.bases, pageRequest.scope, pageRequest.cursor, untouched)

ListingInv ==
    /\ Typed /\ RequestOK /\ untouched \in SUBSET Fragments /\ ListedTyped
    /\ StillThere /\ AsListed /\ ListedSoFar /\ ListedAll /\ InOrder /\ PageIsRight

LEMMA ListingShowsOnce ==
    ASSUME ListingInv
    PROVE  UntouchedListedOnce
<1>1. ASSUME NEW f \in untouched, ShownOnce(f) PROVE Cardinality(Shown(f)) = 1
    BY <1>1, FS_Singleton DEF ShownOnce
<1> QED BY <1>1 DEF ListingInv, ListedAll, InOrder, UntouchedListedOnce

LEMMA ListingInit ==
    ASSUME ReaderInit
    PROVE  ListingInv
<1>1. /\ fragments \in Starts /\ now = 0 /\ listed = <<>> /\ untouched = {}
      /\ pageRequest = IdleRequest
    BY DEF ReaderInit
<1>2. Typed
    BY <1>1, ReaderAssumption DEF Typed
<1>3. RequestOK /\ pageRequest.step = "idle"
    BY <1>1 DEF RequestOK, IdleRequest, Steps, ScopeNames, Cursors
<1>4. ListedTyped
    BY <1>1 DEF ListedTyped
<1> QED
    BY <1>1, <1>2, <1>3, <1>4
    DEF ListingInv, StillThere, AsListed, ListedSoFar, ListedAll, InOrder, PageIsRight, Reading

\* The order of the listing.
LEMMA AfterIsTransitive ==
    ASSUME NEW b, NEW c, NEW d, b.at \in Nat, b.id \in Nat, c.at \in Nat, c.id \in Nat,
           d.at \in Nat, d.id \in Nat
    PROVE  /\ After(b, c) /\ After(c, d) => After(b, d)
           /\ After(c, d) /\ ~After(b, d) => ~After(b, c)
           /\ ~(After(b, c) /\ After(c, b)) /\ ~After(b, b)
           /\ After(b, d) => b.at <= d.at
           /\ ~After(b, d) => b.at >= d.at
BY DEF After

LEMMA BeyondIsAfter ==
    ASSUME NEW f, NEW scope, NEW cursor
    PROVE  Beyond(f, scope, cursor) <=> cursor = NoValue \/ After(Place(f, scope), cursor)
BY DEF Beyond, After, Place

LEMMA MeanwhileKeepsListing ==
    ASSUME ListingInv, NEW f \in Fragments, Meanwhile(f)
    PROVE  ListingInv'
<1>1. PICK F : Rewrites(f, F)
    BY MeanwhileRewrites DEF ListingInv
<1>2. /\ fragments' = [fragments EXCEPT ![f] = F] /\ F \in Fragment /\ untouched' \subseteq untouched
      /\ now' = now /\ pageRequest' = pageRequest /\ listed' = listed
      /\ InTime(F.journal, now) /\ F.alias = fragments[f].alias
    BY <1>1 DEF Rewrites
<1>3. Typed'
    BY <1>2 DEF Typed, ListingInv
<1>4. RequestOK' /\ ListedTyped'
    BY <1>2 DEF RequestOK, ListedTyped, ListingInv
<1>5. untouched \in SUBSET Fragments /\ fragments \in [Fragments -> Fragment]
    BY DEF ListingInv, Typed
<1>6. PICK scope : scope = pageRequest.scope
    OBVIOUS
<1>7. ASSUME NEW g \in untouched', pageRequest.step # "idle"
      PROVE  SortAt(g, scope)' = SortAt(g, scope) /\ InScope(g, scope)' /\ g \in untouched /\ g \in Fragments
  <2>1. g \in untouched /\ g \in Fragments /\ InScope(g, scope)
      BY <1>2, <1>5, <1>6, <1>7 DEF ListingInv, StillThere
  <2>2. CASE g = f
    <3>1. /\ fragments'[g] = F /\ F.captured = fragments[f].captured /\ F.ingested = fragments[f].ingested
          /\ F.staged = fragments[f].staged \/ scope # "inbox"
        BY <1>1, <1>2, <1>5, <1>6, <1>7, <2>1, <2>2 DEF Rewrites
    <3> QED BY <2>1, <2>2, <3>1, <1>2 DEF SortAt, InScope
  <2>3. CASE g # f
    <3>1. fragments'[g] = fragments[g]
        BY <1>2, <1>5, <2>1, <2>3
    <3> QED BY <2>1, <3>1 DEF SortAt, InScope
  <2> QED BY <2>1, <2>2, <2>3
<1>8. ASSUME NEW g \in untouched', pageRequest.step # "idle", NEW cursor
      PROVE  Beyond(g, scope, cursor)' <=> Beyond(g, scope, cursor)
    BY <1>7, <1>8 DEF Beyond
<1>9. \A g : (Shown(g)' = Shown(g)) /\ (ShownOnce(g)' <=> ShownOnce(g))
    BY <1>2 DEF Shown, ShownOnce
<1>10. StillThere' /\ AsListed'
    BY <1>2, <1>6, <1>7 DEF StillThere, AsListed, ListingInv
<1>11. ListedSoFar' /\ ListedAll'
    BY <1>2, <1>6, <1>7, <1>8, <1>9 DEF ListedSoFar, ListedAll, ListingInv
<1>12. InOrder'
    BY <1>2, <1>9 DEF InOrder, ListingInv
<1>13. PageIsRight'
  <2> SUFFICES ASSUME pageRequest.step \in Reading PROVE PageIsRight'
      BY <1>2 DEF PageIsRight
  <2>1. PICK page, cursor : page = pageRequest.bases /\ cursor = pageRequest.cursor
      OBVIOUS
  <2>2. pageRequest.step # "idle"
      BY DEF Reading
  <2>3. PageFits(page, cursor) /\ PageCovers(page, scope, cursor, untouched)
      BY <2>1, <1>6 DEF PageIsRight, ListingInv
  <2>4. PageCovers(page, scope, cursor, untouched)'
    <3>1. \A i \in 1..Len(page) : page[i].id \in untouched' => page[i].at = SortAt(page[i].id, scope)'
        BY <2>2, <2>3, <1>7 DEF PageCovers
    <3>2. ASSUME NEW g \in untouched', Beyond(g, scope, cursor)'
          PROVE  \/ \E i \in 1..Len(page) : page[i].id = g
                 \/ Len(page) = Limit /\ After(Place(g, scope), page[Limit])'
        BY <2>2, <2>3, <3>2, <1>7, <1>8 DEF PageCovers, Place, After
    <3> QED BY <3>1, <3>2 DEF PageCovers
  <2>5. PageFits(page, cursor)'
      BY <2>3 DEF PageFits
  <2> QED BY <1>2, <1>6, <2>1, <2>4, <2>5 DEF PageIsRight
<1> QED BY <1>2, <1>3, <1>4, <1>5, <1>10, <1>11, <1>12, <1>13 DEF ListingInv

LEMMA TickKeepsListing ==
    ASSUME ListingInv, Tick
    PROVE  ListingInv'
<1>1. now' = now + 1 /\ UNCHANGED <<fragments, pageRequest, listed, untouched>>
    BY DEF Tick
<1>2. Typed'
  <2>1. ASSUME NEW f \in Fragments PROVE InTime(fragments[f].journal, now')
    <3>1. PICK journal : journal = fragments[f].journal
        OBVIOUS
    <3>2. journal \in Seq(Events) /\ InTime(journal, now) /\ now \in Nat
        BY <3>1, RowIsTyped DEF ListingInv, Typed
    <3>3. \A i \in DOMAIN journal : Second(journal[i].at) \in Nat
        BY <3>2, EventIsTyped DEF Second
    <3>4. \A i \in DOMAIN journal : Second(journal[i].at) <= now'
        BY <1>1, <3>2, <3>3 DEF InTime
    <3> QED BY <3>1, <3>2, <3>4 DEF InTime
  <2> QED BY <1>1, <2>1 DEF ListingInv, Typed
<1>3. UNCHANGED <<RequestOK, ListedTyped, StillThere, AsListed, ListedSoFar, ListedAll, InOrder, PageIsRight>>
    BY <1>1
    DEF RequestOK, ListedTyped, StillThere, AsListed, ListedSoFar, ListedAll, InOrder, PageIsRight,
        Shown, ShownOnce, Beyond, SortAt, InScope, PageCovers, PageFits, After, Place
<1> QED BY <1>1, <1>2, <1>3 DEF ListingInv

\* The reads after the bases.
LEMMA ReadGoesOn ==
    ASSUME RequestOK, LoadCoverage \/ LoadTags \/ LoadAnnotations \/ LoadEffects
    PROVE  /\ RequestOK'
           /\ pageRequest.step \in Reading /\ pageRequest'.step \in Reading
           /\ pageRequest'.scope = pageRequest.scope /\ pageRequest'.cursor = pageRequest.cursor
           /\ pageRequest'.bases = pageRequest.bases
           /\ UNCHANGED <<fragments, now, listed, untouched>>
<1>1. CASE LoadCoverage
    BY <1>1 DEF RequestOK, LoadCoverage, Reads, Reading, Steps
<1>2. CASE LoadTags
    BY <1>2 DEF RequestOK, LoadTags, Reads, Reading, Steps
<1>3. CASE LoadAnnotations
    BY <1>3 DEF RequestOK, LoadAnnotations, Reads, Reading, Steps
<1>4. CASE LoadEffects
    BY <1>4 DEF RequestOK, LoadEffects, Reads, Reading, Steps
<1> QED BY <1>1, <1>2, <1>3, <1>4

LEMMA LoadKeepsListing ==
    ASSUME ListingInv, LoadCoverage \/ LoadTags \/ LoadAnnotations \/ LoadEffects
    PROVE  ListingInv'
<1>1. /\ RequestOK'
      /\ pageRequest.step \in Reading /\ pageRequest'.step \in Reading
      /\ pageRequest'.scope = pageRequest.scope /\ pageRequest'.cursor = pageRequest.cursor
      /\ pageRequest'.bases = pageRequest.bases
      /\ UNCHANGED <<fragments, now, listed, untouched>>
    BY ReadGoesOn DEF ListingInv
<1>2. /\ pageRequest.step \notin {"idle", "ended"} /\ pageRequest'.step \notin {"idle", "ended"}
    BY <1>1 DEF Reading
<1>3. Typed' /\ ListedTyped' /\ InOrder'
    BY <1>1 DEF ListingInv, Typed, ListedTyped, InOrder, Shown
<1>4. StillThere' /\ AsListed'
    BY <1>1, <1>2 DEF ListingInv, StillThere, AsListed, InScope, SortAt
<1>5. ListedSoFar' /\ ListedAll'
    BY <1>1, <1>2 DEF ListingInv, ListedSoFar, ListedAll, Shown, ShownOnce, Beyond, SortAt
<1>6. PageIsRight'
    BY <1>1, <1>2 DEF ListingInv, PageIsRight, PageCovers, PageFits, Beyond, SortAt, After, Place
<1> QED BY <1>1, <1>3, <1>4, <1>5, <1>6 DEF ListingInv

LEMMA ListFirstKeepsListing ==
    ASSUME ListingInv, NEW scope \in Scopes, ListFirst(scope)
    PROVE  ListingInv'
<1>1. PICK page : page = ListBases(scope, NoValue)
    OBVIOUS
<1>2. scope \in ScopeNames /\ NoValue \in Cursors
    BY Constants DEF Cursors
<1>3. /\ pageRequest'.step = "coverage" /\ pageRequest'.scope = scope /\ pageRequest'.cursor = NoValue
      /\ pageRequest'.bases = page /\ RequestOK'
      /\ UNCHANGED <<fragments, now>> /\ listed' = <<>>
      /\ untouched' = {f \in Fragments : InScope(f, scope)}
    BY <1>1, <1>2 DEF ListFirst, IdleRequest, RequestOK, Steps
<1>4. PICK those : those = {f \in Fragments : InScope(f, scope)}
    OBVIOUS
<1>5. PageFits(page, NoValue) /\ PageCovers(page, scope, NoValue, those)
    BY <1>1, <1>2, <1>4, ListBasesFit DEF ListingInv
<1>6. Typed' /\ ListedTyped'
    BY <1>3 DEF ListingInv, Typed, ListedTyped
<1>7. \A f : Shown(f)' = {}
    BY <1>3 DEF Shown
<1>8. \A f : Beyond(f, scope, NoValue)'
    BY DEF Beyond
<1>9. StillThere' /\ AsListed' /\ ListedSoFar' /\ ListedAll' /\ InOrder'
    BY <1>3, <1>7, <1>8 DEF StillThere, AsListed, ListedSoFar, ListedAll, InOrder, InScope
<1>10. PageIsRight'
    BY <1>3, <1>4, <1>5 DEF PageIsRight, PageFits, PageCovers, Beyond, SortAt, After, Place
<1> QED BY <1>3, <1>4, <1>6, <1>9, <1>10 DEF ListingInv

LEMMA ListNextKeepsListing ==
    ASSUME ListingInv, ListNext
    PROVE  ListingInv'
<1>1. PICK page : page = ListBases(pageRequest.scope, pageRequest.cursor)
    OBVIOUS
<1>2. /\ pageRequest.step = "shown" /\ pageRequest'.step = "coverage" /\ RequestOK'
      /\ pageRequest'.scope = pageRequest.scope /\ pageRequest'.cursor = pageRequest.cursor
      /\ pageRequest'.bases = page /\ UNCHANGED <<fragments, now, listed, untouched>>
    BY <1>1 DEF ListNext, RequestOK, ListingInv, Steps
<1>3. PageFits(page, pageRequest.cursor) /\ PageCovers(page, pageRequest.scope, pageRequest.cursor, untouched)
    BY <1>1, <1>2, ListBasesFit DEF ListingInv, RequestOK, StillThere
<1>4. Typed' /\ ListedTyped' /\ InOrder'
    BY <1>2 DEF ListingInv, Typed, ListedTyped, InOrder, Shown
<1>5. StillThere' /\ AsListed'
    BY <1>2 DEF ListingInv, StillThere, AsListed, InScope, SortAt
<1>6. ListedSoFar' /\ ListedAll'
    BY <1>2 DEF ListingInv, ListedSoFar, ListedAll, Shown, ShownOnce, Beyond, SortAt
<1>7. PageIsRight'
    BY <1>2, <1>3 DEF PageIsRight, PageCovers, PageFits, Beyond, SortAt, After, Place
<1> QED BY <1>2, <1>4, <1>5, <1>6, <1>7 DEF ListingInv

LEMMA LeaveKeepsListing ==
    ASSUME ListingInv, Leave
    PROVE  ListingInv'
<1>1. /\ pageRequest'.step = "idle" /\ RequestOK' /\ UNCHANGED <<fragments, now, listed, untouched>>
    BY DEF Leave, IdleRequest, RequestOK, Steps, ScopeNames, Cursors
<1>2. Typed' /\ ListedTyped' /\ InOrder'
    BY <1>1 DEF ListingInv, Typed, ListedTyped, InOrder, Shown
<1> QED
    BY <1>1, <1>2 DEF ListingInv, StillThere, AsListed, ListedSoFar, ListedAll, PageIsRight, Reading

LEMMA DetailFits ==
    ASSUME Typed, NEW f \in Fragments, NEW revision \in DOMAIN MediaOf \cup {NoValue},
           DetailBases(f, revision) # <<>>
    PROVE  \E b \in BaseRows :
               /\ DetailBases(f, revision) = <<b>>
               /\ b.aggregate = Cardinality(CommandsIn(fragments[b.id].journal))
<1>1. PICK g : g = Canonical(f)
    OBVIOUS
<1>2. g \in Fragments
    BY <1>1, RowIsTyped DEF Canonical
<1>3. SortAt(g, "all") \in Nat
    BY <1>2, RowIsTyped DEF SortAt
<1>4. PICK r \in DOMAIN MediaOf : DetailBases(f, revision) = <<Base(g, "all", r)>>
    BY <1>1, <1>2, RowIsTyped DEF DetailBases
<1> QED BY <1>2, <1>3, <1>4, BaseIsTyped

LEMMA GetKeepsListing ==
    ASSUME ListingInv, NEW f \in Fragments, NEW revision \in DOMAIN MediaOf \cup {NoValue}, Get(f, revision)
    PROVE  ListingInv'
<1>1. PICK b \in BaseRows : DetailBases(f, revision) = <<b>>
    BY DetailFits DEF Get, ListingInv
<1>2. /\ pageRequest'.step = "coverage" /\ pageRequest'.scope = "all" /\ pageRequest'.cursor = NoValue
      /\ pageRequest'.bases = <<b>> /\ RequestOK'
      /\ UNCHANGED <<fragments, now>> /\ listed' = <<>> /\ untouched' = {}
    BY <1>1 DEF Get, IdleRequest, RequestOK, Steps, ScopeNames, Cursors
<1>3. Typed' /\ ListedTyped'
    BY <1>2 DEF ListingInv, Typed, ListedTyped
<1>4. PageFits(<<b>>, NoValue)
    BY Constants DEF PageFits
<1>5. PageIsRight'
    BY <1>2, <1>4 DEF PageIsRight, PageFits, PageCovers
<1> QED
    BY <1>2, <1>3, <1>5 DEF ListingInv, StillThere, AsListed, ListedSoFar, ListedAll, InOrder

(***************************************************************************)
(* A page is shown: its first items join the listing, and the last of them *)
(* is the cursor if there are more.                                        *)
(***************************************************************************)
LEMMA ConcatenationIsListed ==
    ASSUME NEW older, older \in Seq(Range(older)), NEW n \in Nat, NEW newer, newer = [i \in 1..n |-> newer[i]]
    PROVE  /\ older \o newer \in Seq(Range(older \o newer))
           /\ Len(older) \in Nat /\ DOMAIN older = 1..Len(older)
           /\ Len(older \o newer) = Len(older) + n /\ DOMAIN (older \o newer) = 1..(Len(older) + n)
           /\ \A i \in 1..Len(older) : (older \o newer)[i] = older[i]
           /\ \A i \in 1..n : (older \o newer)[Len(older) + i] = newer[i]
<1>1. PICK all : all = Range(older) \cup {newer[i] : i \in 1..n}
    OBVIOUS
<1>2. older \in Seq(all)
  <2>1. Range(older) \subseteq all
      BY <1>1
  <2> QED BY <2>1
<1>3. newer \in Seq(all) /\ Len(newer) = n
  <2>1. newer \in [1..n -> all]
      BY <1>1
  <2> QED BY <2>1
<1>4. PICK joined : joined = older \o newer
    OBVIOUS
<1>5. /\ joined \in Seq(all) /\ Len(older) \in Nat /\ DOMAIN older = 1..Len(older)
      /\ Len(joined) = Len(older) + n /\ DOMAIN joined = 1..(Len(older) + n)
      /\ \A i \in 1..Len(older) : joined[i] = older[i]
      /\ \A i \in 1..n : joined[Len(older) + i] = newer[i]
    BY <1>2, <1>3, <1>4
<1>6. joined \in Seq(Range(joined))
  <2>1. joined \in [1..Len(joined) -> Range(joined)] /\ Len(joined) \in Nat
      BY <1>5 DEF Range
  <2> QED BY <2>1
<1> QED BY <1>4, <1>5, <1>6

\* How many items a page shows, and whether more follow.
PageLength == Min({PageSize, Len(pageRequest.bases)})
HasNext == Len(pageRequest.bases) > PageSize

LEMMA PageIsShown ==
    ASSUME RequestOK, listed \in Seq(Range(listed)), pageRequest.bases \in Seq(BaseRows), ProjectPage
    PROVE  /\ PageLength \in Nat /\ PageLength <= Len(pageRequest.bases)
           /\ HasNext => PageLength = PageSize
           /\ ~HasNext => PageLength = Len(pageRequest.bases)
           /\ listed' \in Seq(Range(listed)')
           /\ Len(listed) \in Nat /\ DOMAIN listed = 1..Len(listed)
           /\ DOMAIN listed' = 1..(Len(listed) + PageLength)
           /\ \A i \in 1..Len(listed) : listed'[i] = listed[i]
           /\ \A i \in 1..PageLength : listed'[Len(listed) + i] = projectReaderItem(i)
           /\ RequestOK' /\ pageRequest'.scope = pageRequest.scope
           /\ pageRequest.step = "project" /\ pageRequest'.step = IF HasNext THEN "shown" ELSE "ended"
           /\ pageRequest'.cursor = IF HasNext THEN [at |-> pageRequest.bases[PageLength].at,
                                                     id |-> pageRequest.bases[PageLength].id]
                                    ELSE NoValue
           /\ UNCHANGED <<fragments, now, untouched, events>>
<1>1. PICK n : n = PageLength
    OBVIOUS
<1>2. PICK k : k = Len(pageRequest.bases)
    OBVIOUS
<1>3. k \in Nat
    BY <1>2
<1>4. n \in Nat /\ n <= k /\ (k > PageSize => n = PageSize) /\ (~(k > PageSize) => n = k)
    BY <1>1, <1>2, <1>3, Constants, MinOfTwo DEF PageLength
<1>5. PICK newer : newer = [i \in 1..n |-> projectReaderItem(i)]
    OBVIOUS
<1>6. PICK last : last = pageRequest.bases[n]
    OBVIOUS
<1>7. /\ pageRequest.step = "project" /\ listed' = listed \o newer
      /\ pageRequest' = [IdleRequest EXCEPT !.step = IF HasNext THEN "shown" ELSE "ended",
                         !.scope = pageRequest.scope, !.item = pageRequest.item,
                         !.cursor = IF HasNext THEN [at |-> last.at, id |-> last.id] ELSE NoValue]
      /\ UNCHANGED <<fragments, now, untouched, events>>
    BY <1>1, <1>5, <1>6 DEF ProjectPage, PageLength, HasNext
<1>8. /\ listed' \in Seq(Range(listed')) /\ Len(listed) \in Nat /\ DOMAIN listed = 1..Len(listed)
      /\ DOMAIN listed' = 1..(Len(listed) + n)
      /\ \A i \in 1..Len(listed) : listed'[i] = listed[i]
      /\ \A i \in 1..n : listed'[Len(listed) + i] = newer[i]
    BY <1>4, <1>5, <1>7, ConcatenationIsListed
<1>9. \A i \in 1..n : listed'[Len(listed) + i] = projectReaderItem(i)
    BY <1>5, <1>8
<1>10. HasNext => last.at \in Nat /\ last.id \in Nat
  <2> SUFFICES ASSUME HasNext PROVE last.at \in Nat /\ last.id \in Nat
      OBVIOUS
  <2>1. n \in 1..k
      BY <1>2, <1>4, Constants DEF HasNext
  <2>2. last \in BaseRows
      BY <2>1, <1>2, <1>6
  <2> QED BY <2>2, Constants DEF BaseRows
<1>11. PICK cursor : cursor = IF HasNext THEN [at |-> last.at, id |-> last.id] ELSE NoValue
    OBVIOUS
<1>12. cursor \in Cursors
    BY <1>10, <1>11 DEF Cursors
<1>13. /\ RequestOK' /\ pageRequest'.scope = pageRequest.scope
       /\ pageRequest'.step = (IF HasNext THEN "shown" ELSE "ended") /\ pageRequest'.cursor = cursor
    BY <1>7, <1>11, <1>12 DEF RequestOK, IdleRequest, Steps
<1> QED BY <1>1, <1>2, <1>4, <1>6, <1>7, <1>8, <1>9, <1>11, <1>13 DEF HasNext, Range

LEMMA ItemNamesItsBase ==
    ASSUME NEW i
    PROVE  /\ projectReaderItem(i).id = pageRequest.bases[i].id
           /\ projectReaderItem(i).at = pageRequest.bases[i].at
BY DEF projectReaderItem

\* What the page, of which n items are shown, says of an untouched fragment.
Places(page, n, scope, cursor, f) ==
    /\ ~Beyond(f, scope, cursor) => \A i \in 1..Len(page) : page[i].id # f
    /\ \A i, j \in 1..Len(page) : page[i].id = f /\ page[j].id = f => i = j
    /\ \A i \in 1..n : HasNext /\ page[i].id = f => ~After(Place(f, scope), page[n])
    /\ (Beyond(f, scope, cursor) /\ \A i \in 1..n : page[i].id # f) =>
           HasNext /\ After(Place(f, scope), page[n])
    /\ (HasNext /\ ~Beyond(f, scope, cursor)) => ~After(Place(f, scope), page[n])

LEMMA PagePlaces ==
    ASSUME ListingInv, pageRequest.step = "project", NEW page, page = pageRequest.bases,
           NEW cursor, cursor = pageRequest.cursor, NEW scope, scope = pageRequest.scope,
           NEW n \in Nat, n <= Len(page), HasNext => n = PageSize, ~HasNext => n = Len(page),
           NEW f \in untouched
    PROVE  Places(page, n, scope, cursor, f)
<1>1. page = pageRequest.bases /\ cursor = pageRequest.cursor /\ scope = pageRequest.scope
    OBVIOUS
<1>2. PageFits(page, cursor) /\ PageCovers(page, scope, cursor, untouched)
    BY <1>1 DEF ListingInv, PageIsRight, Reading
<1>3. PICK place : place = Place(f, scope)
    OBVIOUS
<1>4. place.at \in Nat /\ place.id = f /\ place.id \in Nat /\ place.at = SortAt(f, scope)
  <2>1. f \in Fragments /\ InScope(f, scope)
      BY <1>1 DEF ListingInv, StillThere
  <2> QED BY <1>1, <1>3, <2>1, SortAtIsTyped, Constants DEF ListingInv, Place
<1>5. PICK k : k = Len(page)
    OBVIOUS
<1>6. page \in Seq(BaseRows) /\ k \in Nat /\ n \in Nat /\ n <= k /\ k <= Limit
    BY <1>1, <1>2, <1>5 DEF PageFits
<1>7. \A i \in 1..k : page[i].at \in Nat /\ page[i].id \in Nat
  <2>1. \A i \in 1..k : page[i] \in BaseRows
      BY <1>5, <1>6
  <2> QED BY <2>1, Constants DEF BaseRows
<1>8. \A i, j \in 1..k : i < j => After(page[j], page[i])
    BY <1>2, <1>5 DEF PageFits
<1>9. ASSUME NEW i \in 1..k, page[i].id = f
      PROVE  /\ page[i].at = place.at /\ Beyond(f, scope, cursor)
             /\ \A c : (After(page[i], c) <=> After(place, c)) /\ (After(c, page[i]) <=> After(c, place))
  <2>1. page[i].at = place.at
      BY <1>2, <1>4, <1>5, <1>9 DEF PageCovers
  <2>2. \A c : (After(page[i], c) <=> After(place, c)) /\ (After(c, page[i]) <=> After(c, place))
      BY <2>1, <1>4, <1>9 DEF After
  <2>3. cursor # NoValue => After(page[i], cursor)
      BY <1>2, <1>5 DEF PageFits
  <2> QED BY <2>1, <2>2, <2>3, <1>1, <1>3, BeyondIsAfter
<1>10. ASSUME NEW i \in 1..k, NEW j \in 1..k, page[i].id = f, page[j].id = f PROVE i = j
  <2>1. ~After(page[i], page[j]) /\ ~After(page[j], page[i])
    <3>1. page[i].at = page[j].at /\ page[i].at \in Nat /\ f \in Nat
        BY <1>10, <1>9, <1>4
    <3> QED BY <3>1, <1>10 DEF After
  <2> QED BY <2>1, <1>8
<1>11. ASSUME NEW i \in 1..n, page[i].id = f, HasNext PROVE ~After(place, page[n])
  <2>1. i \in 1..k /\ n \in 1..k /\ (i = n \/ i < n)
      BY <1>6
  <2>2. CASE i = n
    <3>1. ~After(page[n], page[n])
        BY <1>7, <2>1 DEF After
    <3> QED BY <2>2, <3>1, <1>9, <1>11, <2>1
  <2>3. CASE i < n
    <3>1. After(page[n], page[i]) /\ After(page[n], place)
        BY <2>1, <2>3, <1>8, <1>9, <1>11
    <3> QED BY <3>1, <2>1, <1>4, <1>7, AfterIsTransitive
  <2> QED BY <2>1, <2>2, <2>3
<1>12. ASSUME Beyond(f, scope, cursor), \A i \in 1..n : page[i].id # f
       PROVE  HasNext /\ After(place, page[n])
  <2>1. CASE \E i \in 1..k : page[i].id = f
    <3>1. PICK i \in 1..k : page[i].id = f
        BY <2>1
    <3>2. n < i /\ n < k
        BY <3>1, <1>6, <1>12
    <3>3. HasNext /\ n = PageSize
        BY <3>2, <1>1, <1>5
    <3>4. n \in 1..k
        BY <3>2, <3>3, <1>6, Constants
    <3>5. After(page[i], page[n])
        BY <3>1, <3>2, <3>4, <1>8
    <3> QED BY <3>1, <3>3, <3>5, <1>9
  <2>2. CASE k = Limit /\ After(place, page[Limit])
    <3>1. HasNext /\ n = PageSize
      <4>1. k = Limit /\ Limit > PageSize
          BY <2>2, Constants
      <4>2. Len(pageRequest.bases) = k
          BY <1>1, <1>5
      <4>3. HasNext
          BY <4>1, <4>2 DEF HasNext
      <4> QED BY <4>3
    <3>2. n \in 1..k /\ k \in 1..k /\ n < k
        BY <2>2, <3>1, <1>6, Constants
    <3>4. After(place, page[k])
        BY <2>2
    <3>5. After(page[k], page[n])
        BY <3>2, <1>8
    <3>6. After(place, page[n])
        BY <3>2, <3>4, <3>5, <1>4, <1>7, AfterIsTransitive
    <3> QED BY <3>1, <3>6
  <2> QED BY <2>1, <2>2, <1>1, <1>2, <1>3, <1>5, <1>12 DEF PageCovers
<1>13. ASSUME HasNext, ~Beyond(f, scope, cursor) PROVE ~After(place, page[n])
  <2>1. n \in 1..k
      BY <1>13, <1>6, Constants
  <2>2. cursor # NoValue /\ ~After(place, cursor)
      BY <1>13, <1>1, <1>3, BeyondIsAfter
  <2>3. After(page[n], cursor)
      BY <2>1, <2>2, <1>2, <1>5 DEF PageFits
  <2>4. cursor.at \in Nat /\ cursor.id \in Nat
      BY <2>2, <1>1 DEF ListingInv, RequestOK, Cursors
  <2> QED BY <2>1, <2>2, <2>3, <2>4, <1>4, <1>7, AfterIsTransitive
<1> QED BY <1>1, <1>3, <1>5, <1>9, <1>10, <1>11, <1>12, <1>13 DEF Places

LEMMA ProjectKeepsListing ==
    ASSUME ListingInv, ProjectPage
    PROVE  ListingInv'
<1>1. PICK n, m, page, cursor, scope :
          /\ n = PageLength /\ m = Len(listed)
          /\ page = pageRequest.bases /\ cursor = pageRequest.cursor /\ scope = pageRequest.scope
    OBVIOUS
<1>2. /\ RequestOK /\ pageRequest.step = "project" /\ pageRequest.step \in Reading
      /\ untouched \in SUBSET Fragments /\ PageFits(page, cursor) /\ PageCovers(page, scope, cursor, untouched)
    BY <1>1 DEF ListingInv, ProjectPage, PageIsRight, Reading
<1>3. page \in Seq(BaseRows) /\ listed \in Seq(Range(listed))
    BY <1>2 DEF PageFits, ListingInv, ListedTyped
<1>4. /\ n \in Nat /\ n <= Len(page) /\ (HasNext => n = PageSize) /\ (~HasNext => n = Len(page))
      /\ m \in Nat /\ DOMAIN listed = 1..m /\ DOMAIN listed' = 1..(m + n)
      /\ listed' \in Seq(Range(listed)') /\ RequestOK'
      /\ \A i \in 1..m : listed'[i] = listed[i]
      /\ \A i \in 1..n : listed'[m + i].id = page[i].id /\ listed'[m + i].at = page[i].at
    BY <1>1, <1>2, <1>3, PageIsShown, ItemNamesItsBase
<1>5. /\ pageRequest'.scope = scope /\ pageRequest'.step = (IF HasNext THEN "shown" ELSE "ended")
      /\ HasNext => pageRequest'.cursor = [at |-> page[n].at, id |-> page[n].id]
      /\ UNCHANGED <<fragments, now, untouched>>
    BY <1>1, <1>2, <1>3, PageIsShown
<1>6. \A i \in 1..Len(page) : page[i].at \in Nat /\ page[i].id \in Fragments
  <2>1. \A i \in 1..Len(page) : page[i] \in BaseRows
      BY <1>3
  <2> QED BY <2>1 DEF BaseRows
<1>7. \A i \in DOMAIN listed' : i \in 1..m \/ \E j \in 1..n : i = m + j
  <2> TAKE i \in DOMAIN listed'
  <2>1. CASE i \in 1..m
      BY <2>1
  <2>2. CASE i \notin 1..m
    <3>1. i - m \in 1..n /\ i = m + (i - m)
        BY <2>2, <1>4
    <3> QED BY <3>1
  <2> QED BY <2>1, <2>2
<1>8. \A i \in 1..n : i \in 1..Len(page) /\ m + i \in 1..(m + n) /\ ~(m + i \in 1..m)
    BY <1>3, <1>4
<1>9. Typed'
    BY <1>5 DEF ListingInv, Typed
<1>10. ListedTyped'
  <2>1. ASSUME NEW i \in DOMAIN listed' PROVE listed'[i].id \in Fragments /\ listed'[i].at \in Nat
    <3>1. CASE i \in 1..m
        BY <3>1, <1>4 DEF ListingInv, ListedTyped
    <3>2. CASE \E j \in 1..n : i = m + j
        BY <3>2, <1>4, <1>6, <1>8
    <3> QED BY <3>1, <3>2, <1>7
  <2> QED BY <2>1, <1>4 DEF ListedTyped
<1>11. StillThere'
    BY <1>1, <1>2, <1>5 DEF ListingInv, StillThere, InScope
<1>12. AsListed'
  <2>1. ASSUME NEW i \in DOMAIN listed', listed'[i].id \in untouched
        PROVE  listed'[i].at = SortAt(listed'[i].id, scope)
    <3>1. CASE i \in 1..m
        BY <3>1, <2>1, <1>1, <1>2, <1>4 DEF ListingInv, AsListed
    <3>2. CASE \E j \in 1..n : i = m + j
      <4>1. PICK j \in 1..n : i = m + j
          BY <3>2
      <4>2. j \in 1..Len(page) /\ listed'[i].id = page[j].id /\ listed'[i].at = page[j].at
          BY <4>1, <1>4, <1>8
      <4> QED BY <4>2, <2>1, <1>2 DEF PageCovers
    <3> QED BY <3>1, <3>2, <1>7
  <2> QED BY <2>1, <1>5 DEF AsListed, SortAt
<1>13. ASSUME NEW f \in untouched
       PROVE  /\ Beyond(f, scope, cursor) => Shown(f) = {}
              /\ ~Beyond(f, scope, cursor) => ShownOnce(f)
    BY <1>1, <1>2, <1>13 DEF ListingInv, ListedSoFar
<1>14. ASSUME NEW f
       PROVE  /\ \A i \in 1..m : i \in Shown(f)' <=> i \in Shown(f)
              /\ \A i \in 1..n : m + i \in Shown(f)' <=> page[i].id = f
              /\ Shown(f) \subseteq 1..m /\ Shown(f)' \subseteq 1..(m + n)
    BY <1>4, <1>8 DEF Shown
<1>15. ASSUME NEW f \in untouched
       PROVE  /\ HasNext => (Beyond(f, scope, [at |-> page[n].at, id |-> page[n].id]) => Shown(f)' = {})
              /\ HasNext => (~Beyond(f, scope, [at |-> page[n].at, id |-> page[n].id]) => ShownOnce(f)')
              /\ ~HasNext => ShownOnce(f)'
  <2>1. PICK place : place = Place(f, scope)
      OBVIOUS
  <2>2. /\ ~Beyond(f, scope, cursor) => \A i \in 1..Len(page) : page[i].id # f
        /\ \A i, j \in 1..Len(page) : page[i].id = f /\ page[j].id = f => i = j
        /\ \A i \in 1..n : HasNext /\ page[i].id = f => ~After(place, page[n])
        /\ (Beyond(f, scope, cursor) /\ \A i \in 1..n : page[i].id # f) => HasNext /\ After(place, page[n])
        /\ HasNext /\ ~Beyond(f, scope, cursor) => ~After(place, page[n])
    <3>1. page = pageRequest.bases /\ cursor = pageRequest.cursor /\ scope = pageRequest.scope
        BY <1>1
    <3>2. n \in Nat /\ n <= Len(page) /\ (HasNext => n = PageSize) /\ (~HasNext => n = Len(page))
        BY <1>4
    <3>3. Places(page, n, scope, cursor, f)
        BY <3>1, <3>2, <1>2, PagePlaces
    <3> QED BY <3>3, <2>1 DEF Places
  <2>3. HasNext => (Beyond(f, scope, [at |-> page[n].at, id |-> page[n].id]) <=> After(place, page[n]))
    <3> SUFFICES ASSUME HasNext
                 PROVE  Beyond(f, scope, [at |-> page[n].at, id |-> page[n].id]) <=> After(place, page[n])
        OBVIOUS
    <3>1. PICK last : last = [at |-> page[n].at, id |-> page[n].id]
        OBVIOUS
    <3>2. n \in 1..Len(page)
        BY <1>3, <1>4, Constants
    <3>3. last \in [at : Nat, id : Nat]
        BY <3>1, <3>2, <1>6, Constants
    <3>4. last # NoValue
        BY <3>3, Constants
    <3>5. After(place, last) <=> After(place, page[n])
        BY <3>1 DEF After
    <3> QED BY <3>1, <3>4, <3>5, <2>1, BeyondIsAfter
  <2>4. CASE ~Beyond(f, scope, cursor)
    <3>1. PICK i \in DOMAIN listed : Shown(f) = {i}
        BY <1>13, <2>4 DEF ShownOnce
    <3>2. \A j \in 1..n : m + j \notin Shown(f)'
        BY <1>14, <1>8, <2>2, <2>4
    <3>3. Shown(f)' \subseteq DOMAIN listed'
        BY <1>14, <1>4
    <3>4. \A j \in Shown(f)' : j \in 1..m
        BY <3>2, <3>3, <1>7
    <3>5. Shown(f)' = Shown(f)
      <4>1. PICK before, after : before = Shown(f) /\ after = Shown(f)'
          OBVIOUS
      <4>2. before \subseteq 1..m /\ \A j \in 1..m : j \in after <=> j \in before
          BY <4>1, <1>14
      <4>3. \A j \in after : j \in 1..m
          BY <4>1, <3>4
      <4>4. after = before
          BY <4>2, <4>3, Zenon
      <4> QED BY <4>1, <4>4
    <3>6. i \in DOMAIN listed'
        BY <3>1, <1>4
    <3>7. ShownOnce(f)'
        BY <3>1, <3>5, <3>6 DEF ShownOnce
    <3> QED BY <3>7, <2>2, <2>3, <2>4
  <2>5. CASE Beyond(f, scope, cursor) /\ \E i \in 1..n : page[i].id = f
    <3>1. PICK i \in 1..n : page[i].id = f
        BY <2>5
    <3>2. \A j \in Shown(f)' : j \notin 1..m
        BY <2>5, <1>13, <1>14
    <3>3. \A j \in 1..n : m + j \in Shown(f)' => j = i
        BY <1>14, <1>8, <2>2, <3>1
    <3>4. Shown(f)' \subseteq DOMAIN listed'
        BY <1>14, <1>4
    <3>5. \A j \in Shown(f)' : j = m + i
        BY <3>2, <3>3, <3>4, <1>7
    <3>6. m + i \in Shown(f)' /\ m + i \in DOMAIN listed'
        BY <3>1, <1>14, <1>8, <1>4
    <3>7. Shown(f)' = {m + i}
        BY <3>5, <3>6
    <3>8. ShownOnce(f)'
        BY <3>6, <3>7 DEF ShownOnce
    <3> QED BY <3>1, <3>8, <2>2, <2>3
  <2>6. CASE Beyond(f, scope, cursor) /\ \A i \in 1..n : page[i].id # f
    <3>1. Shown(f)' = {}
      <4>1. \A j \in 1..m : j \notin Shown(f)'
          BY <2>6, <1>13, <1>14
      <4>2. \A j \in 1..n : m + j \notin Shown(f)'
          BY <2>6, <1>14
      <4>3. Shown(f)' \subseteq DOMAIN listed'
          BY <1>14, <1>4
      <4> QED BY <4>1, <4>2, <4>3, <1>7
    <3>2. HasNext /\ After(place, page[n])
        BY <2>6, <2>2
    <3> QED BY <3>1, <3>2, <2>3
  <2> QED BY <2>4, <2>5, <2>6
<1>16. ListedSoFar' /\ ListedAll'
  <2>1. \A f, c : Beyond(f, scope, c)' <=> Beyond(f, scope, c)
      BY <1>5 DEF Beyond, SortAt
  <2>2. CASE HasNext
    <3>1. PICK c : c = [at |-> page[n].at, id |-> page[n].id]
        OBVIOUS
    <3>2. ASSUME NEW f \in untouched' PROVE IF Beyond(f, scope, c)' THEN Shown(f)' = {} ELSE ShownOnce(f)'
        BY <2>1, <2>2, <3>1, <1>5, <1>15
    <3>3. ListedSoFar'
        BY <2>2, <3>1, <3>2, <1>5 DEF ListedSoFar
    <3> QED BY <2>2, <3>3, <1>5 DEF ListedAll
  <2>3. CASE ~HasNext
    <3>1. \A f \in untouched' : ShownOnce(f)'
        BY <2>3, <1>5, <1>15
    <3> QED BY <2>3, <3>1, <1>5 DEF ListedSoFar, ListedAll
  <2> QED BY <2>2, <2>3
<1>17. InOrder'
  <2> SUFFICES ASSUME NEW f \in untouched, NEW g \in untouched,
                      NEW i \in Shown(f)', NEW j \in Shown(g)', i < j
               PROVE  listed'[i].at >= listed'[j].at
      BY <1>5 DEF InOrder
  <2>1. /\ i \in DOMAIN listed' /\ j \in DOMAIN listed' /\ listed'[i].id = f /\ listed'[j].id = g
        /\ listed'[i].at \in Nat /\ listed'[j].at \in Nat
      BY <1>10 DEF Shown, ListedTyped
  <2>2. CASE j \in 1..m
    <3>1. i \in 1..m
        BY <2>1, <2>2, <1>4
    <3> QED BY <2>2, <3>1, <1>4, <1>14 DEF ListingInv, InOrder
  <2>3. CASE i \in 1..m /\ \E k \in 1..n : j = m + k
    <3>1. PICK k \in 1..n : j = m + k
        BY <2>3
    <3>2. i \in Shown(f)
        BY <2>3, <1>14
    <3>3. ~Beyond(f, scope, cursor)
        BY <3>2, <1>13
    <3>4. cursor # NoValue /\ ~After(Place(f, scope), cursor)
        BY <3>3, BeyondIsAfter
    <3>5. cursor.at \in Nat /\ cursor.id \in Nat
        BY <3>4, <1>1, <1>2 DEF RequestOK, Cursors
    <3>6. After(page[k], cursor) /\ page[k].at = listed'[j].at
        BY <3>1, <3>4, <1>2, <1>4, <1>8 DEF PageFits
    <3>7. listed'[i].at = SortAt(f, scope)
        BY <2>1, <1>5, <1>12 DEF AsListed, SortAt
    <3>8. listed'[i].at >= cursor.at
        BY <2>1, <3>4, <3>5, <3>7 DEF After, Place
    <3>9. page[k].at <= cursor.at
        BY <2>1, <3>5, <3>6 DEF After
    <3> QED BY <2>1, <3>5, <3>6, <3>8, <3>9
  <2>4. CASE \E k, l \in 1..n : i = m + k /\ j = m + l
    <3>1. PICK k \in 1..n, l \in 1..n : i = m + k /\ j = m + l
        BY <2>4
    <3>2. k \in 1..Len(page) /\ l \in 1..Len(page) /\ k < l
        BY <3>1, <1>4, <1>8
    <3>3. After(page[l], page[k])
        BY <3>2, <1>2 DEF PageFits
    <3>4. page[l].at = listed'[j].at /\ page[k].at = listed'[i].at
        BY <3>1, <1>4
    <3> QED BY <2>1, <3>3, <3>4 DEF After
  <2> QED BY <2>1, <2>2, <2>3, <2>4, <1>7
<1>18. PageIsRight'
    BY <1>5 DEF PageIsRight, Reading
<1> QED BY <1>2, <1>4, <1>5, <1>9, <1>10, <1>11, <1>12, <1>16, <1>17, <1>18 DEF ListingInv

LEMMA ListingStep ==
    ASSUME ListingInv, [ReaderNext]_readerVars
    PROVE  ListingInv'
<1>1. CASE UNCHANGED readerVars
  <2>1. UNCHANGED <<fragments, now, pageRequest, listed, untouched>>
      BY <1>1 DEF readerVars
  <2> QED
      BY <2>1
      DEF ListingInv, Typed, RequestOK, ListedTyped, StillThere, AsListed, ListedSoFar, ListedAll, InOrder,
          PageIsRight, Shown, ShownOnce, Beyond, SortAt, InScope, PageCovers, PageFits, After, Place
<1>2. CASE ReaderNext
    BY <1>2, ListFirstKeepsListing, GetKeepsListing, ListNextKeepsListing, LoadKeepsListing, ProjectKeepsListing,
       LeaveKeepsListing, TickKeepsListing, MeanwhileKeepsListing DEF ReaderNext, RequestNext
<1> QED BY <1>1, <1>2

(***************************************************************************)
(* A listing that was followed to its end has shown every item exactly     *)
(* once that stayed in its scope and was not captured or staged anew, and  *)
(* those in the order of their times, for all fragments, scopes, page      *)
(* sizes and interleavings (List, keyset cursor).                          *)
(***************************************************************************)
THEOREM ListingsAreComplete == ReaderSpec => []UntouchedListedOnce
<1>1. ReaderSpec => []ListingInv
    BY ListingInit, ListingStep, PTL DEF ReaderSpec
<1> QED BY <1>1, ListingShowsOnce, PTL

(***************************************************************************)
(* What hangs together.  m entries had been made when the bases were read, *)
(* n when the tags were: both are looked for in the journal as it is now.  *)
(***************************************************************************)
AggregateFits(journal, aggregate) ==
    \E m \in 0..Len(journal) : aggregate = CountTo(journal, m)
ReferencesFit(journal, aggregate, references) ==
    \E m \in 0..Len(journal) :
        /\ aggregate = CountTo(journal, m)
        /\ \A k \in 1..m : journal[k].what = "command" => journal[k].ref \in references
TagsFit(journal, aggregate, tags) ==
    \E n \in 0..Len(journal) :
        /\ CountTo(journal, n) >= aggregate
        /\ \A t \in ReaderTags : ~Unclear(journal, t) => (t \in tags <=> StandsAt(journal, n, t))

LEMMA CountIsTyped ==
    ASSUME NEW journal \in Seq(Events), NEW n
    PROVE  IsFiniteSet({i \in CommandsIn(journal) : i <= n}) /\ CountTo(journal, n) \in Nat
<1>1. {i \in CommandsIn(journal) : i <= n} \in SUBSET CommandsIn(journal)
    OBVIOUS
<1> QED BY <1>1, CommandsAreFinite, FS_Subset, FS_CardinalityType DEF CountTo

LEMMA CountToAll ==
    ASSUME NEW journal \in Seq(Events)
    PROVE  CountTo(journal, Len(journal)) = Cardinality(CommandsIn(journal))
<1>1. {i \in CommandsIn(journal) : i <= Len(journal)} = CommandsIn(journal)
    BY CommandsAreFinite
<1> QED BY <1>1 DEF CountTo

LEMMA CountIsMonotone ==
    ASSUME NEW journal \in Seq(Events), NEW m \in Nat, NEW n \in Nat, m <= n
    PROVE  /\ CountTo(journal, m) <= CountTo(journal, n)
           /\ m < n /\ n \in CommandsIn(journal) => CountTo(journal, m) < CountTo(journal, n)
<1>1. PICK S, T : S = {i \in CommandsIn(journal) : i <= m} /\ T = {i \in CommandsIn(journal) : i <= n}
    OBVIOUS
<1>2. CommandsIn(journal) \subseteq Nat
    BY CommandsAreFinite
<1>3. S \in SUBSET T /\ IsFiniteSet(T) /\ IsFiniteSet(S)
  <2>1. \A i \in S : i \in T
      BY <1>1, <1>2
  <2>2. IsFiniteSet(T) /\ IsFiniteSet(S)
      BY <1>1, CountIsTyped
  <2> QED BY <2>1, <2>2
<1>4. Cardinality(S) <= Cardinality(T) /\ (Cardinality(S) = Cardinality(T) => S = T)
    BY <1>3, FS_Subset
<1>5. Cardinality(S) \in Nat /\ Cardinality(T) \in Nat
    BY <1>3, FS_CardinalityType
<1>6. m < n /\ n \in CommandsIn(journal) => S # T
    BY <1>1
<1> QED BY <1>1, <1>4, <1>5, <1>6 DEF CountTo

LEMMA CountIsKept ==
    ASSUME NEW older \in Seq(Events), NEW newer \in Seq(Events), Grew(older, newer), NEW n \in 0..Len(older)
    PROVE  CountTo(newer, n) = CountTo(older, n)
<1>1. \A i \in 1..n : i \in DOMAIN older /\ i \in DOMAIN newer /\ newer[i].what = older[i].what
  <2> TAKE i \in 1..n
  <2>1. i \in 1..Len(older) /\ Len(older) \in Nat /\ Len(newer) \in Nat /\ Len(older) <= Len(newer)
      BY DEF Grew
  <2>2. i \in DOMAIN older /\ i \in DOMAIN newer
      BY <2>1
  <2> QED BY <2>1, <2>2 DEF Grew
<1>2. {i \in CommandsIn(newer) : i <= n} = {i \in CommandsIn(older) : i <= n}
  <2>1. \A i : i \in DOMAIN newer /\ i <= n <=> i \in 1..n
      BY DEF Grew
  <2>2. \A i : i \in DOMAIN older /\ i <= n <=> i \in 1..n
      OBVIOUS
  <2> QED BY <1>1, <2>1, <2>2 DEF CommandsIn
<1> QED BY <1>2 DEF CountTo

LEMMA WordsAreKept ==
    ASSUME NEW older \in Seq(Events), NEW newer \in Seq(Events), Grew(older, newer), NEW t
    PROVE  /\ \A i \in 1..Len(older) : i \in Words(newer, t) <=> i \in Words(older, t)
           /\ Words(older, t) \subseteq 1..Len(older) /\ Words(newer, t) \subseteq 1..Len(newer)
           /\ Unclear(older, t) => Unclear(newer, t)
<1>1. \A i \in 1..Len(older) : i \in Words(newer, t) <=> i \in Words(older, t)
    BY DEF Words, Grew, SaysOfTags
<1>2. Words(older, t) \subseteq 1..Len(older) /\ Words(newer, t) \subseteq 1..Len(newer)
    BY DEF Words
<1>3. \A i \in 1..Len(older) : newer[i].at = older[i].at
    BY DEF Grew
<1>4. Unclear(older, t) => Unclear(newer, t)
    BY <1>1, <1>2, <1>3 DEF Unclear
<1> QED BY <1>1, <1>2, <1>4

LEMMA StandIsKept ==
    ASSUME NEW older \in Seq(Events), NEW newer \in Seq(Events), Grew(older, newer),
           NEW n \in 0..Len(older), NEW t
    PROVE  StandsAt(newer, n, t) <=> StandsAt(older, n, t)
<1>1. PICK words : words = {i \in Words(older, t) : i <= n}
    OBVIOUS
<1>2. {i \in Words(newer, t) : i <= n} = words
  <2>1. \A i \in Words(newer, t) : i <= n => i \in 1..Len(older)
      BY WordsAreKept
  <2> QED BY <1>1, <2>1, WordsAreKept
<1>3. \A i \in words : i \in 1..Len(older)
    BY <1>1, WordsAreKept
<1>4. \A i \in words : newer[i].what = older[i].what
    BY <1>3 DEF Grew
<1>5. \A i \in 1..n : (newer[i].what = "observed" /\ newer[i].tag = t) <=>
                      (older[i].what = "observed" /\ older[i].tag = t)
    BY DEF Grew, SaysOfTags
<1> QED BY <1>1, <1>2, <1>4, <1>5 DEF StandsAt

LEMMA FitsAreKept ==
    ASSUME NEW older \in Seq(Events), NEW newer \in Seq(Events), Grew(older, newer), NEW aggregate
    PROVE  /\ AggregateFits(older, aggregate) => AggregateFits(newer, aggregate)
           /\ \A references : ReferencesFit(older, aggregate, references) =>
                  ReferencesFit(newer, aggregate, references)
           /\ \A tags : TagsFit(older, aggregate, tags) => TagsFit(newer, aggregate, tags)
<1>1. \A m \in 0..Len(older) : m \in 0..Len(newer) /\ CountTo(newer, m) = CountTo(older, m)
    BY CountIsKept DEF Grew
<1>2. AggregateFits(older, aggregate) => AggregateFits(newer, aggregate)
    BY <1>1 DEF AggregateFits
<1>3. ASSUME NEW references, ReferencesFit(older, aggregate, references)
      PROVE  ReferencesFit(newer, aggregate, references)
  <2>1. PICK m \in 0..Len(older) :
            /\ aggregate = CountTo(older, m)
            /\ \A k \in 1..m : older[k].what = "command" => older[k].ref \in references
      BY <1>3 DEF ReferencesFit
  <2>2. \A k \in 1..m : newer[k].what = "command" => newer[k].ref \in references
    <3> TAKE k \in 1..m
    <3>1. k \in 1..Len(older)
        OBVIOUS
    <3> QED BY <2>1, <3>1 DEF Grew, HasEffect
  <2> QED BY <1>1, <2>1, <2>2 DEF ReferencesFit
<1>4. ASSUME NEW tags, TagsFit(older, aggregate, tags) PROVE TagsFit(newer, aggregate, tags)
  <2>1. PICK n \in 0..Len(older) :
            /\ CountTo(older, n) >= aggregate
            /\ \A t \in ReaderTags : ~Unclear(older, t) => (t \in tags <=> StandsAt(older, n, t))
      BY <1>4 DEF TagsFit
  <2>2. \A t \in ReaderTags : ~Unclear(newer, t) => (t \in tags <=> StandsAt(newer, n, t))
      BY <2>1, WordsAreKept, StandIsKept
  <2> QED BY <1>1, <2>1, <2>2 DEF TagsFit
<1> QED BY <1>2, <1>3, <1>4

(***************************************************************************)
(* The tags: the reader's last word comes after all that was observed, and *)
(* after the other words, whose times tell their order.                    *)
(***************************************************************************)
LEMMA PrecedenceIsStrict ==
    ASSUME NEW e \in Events, NEW d \in Events
    PROVE  ~(Precedes(e, d) /\ Precedes(d, e))
BY EventIsTyped DEF Precedes, SourceOrder

LEMMA LatestIsThat ==
    ASSUME NEW facts \in SUBSET Events, NEW e \in facts, \A d \in facts \ {e} : Precedes(d, e)
    PROVE  Latest(facts) = e
<1>1. PICK x : x = Latest(facts)
    OBVIOUS
<1>2. x \in facts /\ \A d \in facts \ {x} : Precedes(d, x)
    BY <1>1 DEF Latest
<1>3. x = e
    BY <1>2, PrecedenceIsStrict
<1> QED BY <1>1, <1>3

\* The last of what was observed: their times differ.
LEMMA LastObserved ==
    ASSUME NEW facts \in SUBSET Events, facts # {}, \A e \in facts : e.what = "observed",
           \A e, d \in facts : e # d => e.at # d.at, NEW most \in Nat, \A e \in facts : e.at <= most
    PROVE  Latest(facts) \in facts
<1> DEFINE Left == {a \in Nat : \E e \in facts : a = most - e.at}
<1>1. \A e \in facts : e.at \in Nat /\ most - e.at \in Nat
    BY EventIsTyped
<1>2. Left \in SUBSET Nat /\ Left # {}
    BY <1>1
<1>3. PICK a \in Left : \A b \in Left : a <= b
    BY <1>2, LeastExists
<1>4. PICK e \in facts : a = most - e.at
    BY <1>3
<1>5. ASSUME NEW d \in facts \ {e} PROVE Precedes(d, e)
  <2>1. most - d.at \in Left
      BY <1>1
  <2>2. a <= most - d.at /\ d.at # e.at
      BY <2>1, <1>3
  <2>3. d.at < e.at
      BY <2>2, <1>1, <1>4
  <2> QED BY <2>3 DEF Precedes, SourceOrder
<1> QED BY <1>5, LatestIsThat

LEMMA TagsAsTheyStand ==
    ASSUME NEW journal \in Seq(Events), NEW second \in Nat, InTime(journal, second),
           NEW t \in ReaderTags, ~Unclear(journal, t)
    PROVE  t \in projectReaderTags({e \in Range(journal) : e.what \in SaysOfTags})
               <=> StandsAt(journal, Len(journal), t)
<1>1. PICK on : on = {e \in {d \in Range(journal) : d.what \in SaysOfTags} : e.tag = t}
    OBVIOUS
<1>2. PICK words : words = Words(journal, t)
    OBVIOUS
<1>3. PICK n : n = Len(journal)
    OBVIOUS
<1>4. /\ n \in Nat /\ DOMAIN journal = 1..n /\ \A i \in 1..n : journal[i] \in Events
    BY <1>3
<1>5. on \in SUBSET Events /\ \A e \in on : e.what \in SaysOfTags /\ e.tag = t /\ \E i \in 1..n : e = journal[i]
    BY <1>1, <1>4 DEF Range
<1>6. \A i \in 1..n : journal[i].what \in SaysOfTags /\ journal[i].tag = t => journal[i] \in on
    BY <1>1, <1>4 DEF Range
<1>7. /\ words \subseteq 1..n
      /\ \A i \in 1..n : i \in words <=> journal[i].what \in {"add", "suppress"} /\ journal[i].tag = t
    BY <1>2, <1>4 DEF Words
<1>8. t \in projectReaderTags({e \in Range(journal) : e.what \in SaysOfTags})
          <=> on # {} /\ Latest(on).what # "suppress"
    BY <1>1 DEF projectReaderTags
<1>w. n \in Nat /\ words \in SUBSET (1..n)
    BY <1>4, <1>7
<1>9. {i \in words : i <= n} = words
  <2>1. \A i \in words : i <= n
      BY <1>w
  <2> QED BY <2>1, Zenon
<1>10. CASE words = {}
  <2>1. StandsAt(journal, n, t) <=> \E i \in 1..n : journal[i].what = "observed" /\ journal[i].tag = t
      BY <1>2, <1>9, <1>10 DEF StandsAt
  <2>2. \A e \in on : e.what = "observed"
      BY <1>5, <1>7, <1>10 DEF SaysOfTags
  <2>3. on # {} <=> \E i \in 1..n : journal[i].what = "observed" /\ journal[i].tag = t
      BY <2>2, <1>5, <1>6 DEF SaysOfTags
  <2>4. \A i, j \in 1..n : journal[i].at = journal[j].at => i = j
      BY <1>4 DEF InTime
  <2>5. \A e, d \in on : e # d => e.at # d.at
      BY <2>4, <1>5
  <2> PICK most \in Nat : most = 2 * second + 1
      OBVIOUS
  <2>6. \A e \in on : e.at <= most
    <3> TAKE e \in on
    <3>1. PICK i \in 1..n : e = journal[i]
        BY <1>5
    <3>2. Second(e.at) <= second /\ e.at \in Nat
        BY <3>1, <1>4, EventIsTyped DEF InTime
    <3> QED BY <3>2 DEF Second
  <2>7. ASSUME on # {} PROVE Latest(on) \in on
    <3>1. on \in SUBSET Events
        BY <1>5
    <3> QED BY <3>1, <2>2, <2>5, <2>6, <2>7, LastObserved
  <2> QED BY <1>3, <1>8, <2>1, <2>2, <2>3, <2>7
<1>11. CASE words # {}
  <2>1. PICK l \in words : \A j \in words : j <= l
    <3>1. words \in SUBSET (0..n)
        BY <1>4, <1>7
    <3> QED BY <3>1, <1>4, <1>11, GreatestExists
  <2>2. PICK e : e = journal[l]
      OBVIOUS
  <2>3. l \in 1..n /\ e \in on /\ e \in Events /\ e.what \in {"add", "suppress"}
      BY <2>1, <2>2, <1>4, <1>6, <1>7 DEF SaysOfTags
  <2>4. ASSUME NEW d \in on \ {e} PROVE Precedes(d, e)
    <3>1. PICK i \in 1..n : d = journal[i]
        BY <1>5
    <3>2. d.what \in SaysOfTags /\ d.tag = t
        BY <1>5
    <3>3. CASE d.what = "observed"
        BY <3>3, <2>3 DEF Precedes, SourceOrder
    <3>4. CASE d.what \in {"add", "suppress"}
      <4>1. i \in words
          BY <3>1, <3>2, <3>4, <1>7
      <4>2. i < l
          BY <4>1, <3>1, <2>1, <2>2, <1>4, <1>7
      <4>3. Second(d.at) <= Second(e.at)
          BY <4>2, <3>1, <2>2, <2>3, <1>4 DEF InTime
      <4>4. Second(d.at) # Second(e.at)
          BY <4>1, <4>2, <3>1, <2>1, <2>2, <1>2, <1>4, <1>7 DEF Unclear
      <4>5. d.at \in Nat /\ e.at \in Nat
          BY <2>3, <1>5, EventIsTyped
      <4>6. d.at < e.at
          BY <4>3, <4>4, <4>5 DEF Second
      <4> QED BY <4>6, <3>4, <2>3 DEF Precedes, SourceOrder
    <3> QED BY <3>2, <3>3, <3>4 DEF SaysOfTags
  <2>5. Latest(on) = e
      BY <2>3, <2>4, <1>5, LatestIsThat
  <2>6. StandsAt(journal, n, t) <=> \E i \in words : (\A j \in words : j <= i) /\ journal[i].what = "add"
    <3>1. PICK still : still = {i \in Words(journal, t) : i <= n}
        OBVIOUS
    <3>2. StandsAt(journal, n, t) <=>
              IF still = {} THEN \E i \in 1..n : journal[i].what = "observed" /\ journal[i].tag = t
              ELSE \E i \in still : (\A j \in still : j <= i) /\ journal[i].what = "add"
        BY <3>1, Zenon DEF StandsAt
    <3>3. still = words
        BY <3>1, <1>2, <1>9, Zenon
    <3> QED BY <3>2, <3>3, <1>11
  <2>7. \A i \in words : (\A j \in words : j <= i) => i = l
      BY <2>1, <1>w
  <2>8. StandsAt(journal, n, t) <=> e.what = "add"
      BY <2>1, <2>2, <2>6, <2>7
  <2> QED BY <1>3, <1>8, <2>3, <2>5, <2>8
<1> QED BY <1>10, <1>11

(***************************************************************************)
(* The invariant of what is shown.                                         *)
(***************************************************************************)
JournalOf(f) == fragments[f].journal

BaseHangs(b) == AggregateFits(JournalOf(b.id), b.aggregate)
BaseTags(b, tags) == TagsFit(JournalOf(b.id), b.aggregate, tags)
BaseReferences(b, references) == ReferencesFit(JournalOf(b.id), b.aggregate, references)

BasesHang ==
    pageRequest.step \in Reading =>
        \A i \in 1..Len(pageRequest.bases) : BaseHangs(pageRequest.bases[i])
MediaHang ==
    pageRequest.step \in Reading \ {"coverage"} =>
        \A i \in 1..Len(pageRequest.bases) : pageRequest.media[i] = MediaOf[pageRequest.bases[i].revision]
TagsHang ==
    pageRequest.step \in {"annotations", "effects", "project"} =>
        \A i \in 1..Len(pageRequest.bases) :
            BaseTags(pageRequest.bases[i], projectReaderTags(pageRequest.tags[i]))
EffectsHang ==
    pageRequest.step = "project" =>
        \A i \in 1..Len(pageRequest.bases) :
            BaseReferences(pageRequest.bases[i], {e.ref : e \in pageRequest.effects[i]})

ItemHangs(item) ==
    /\ item.acquisition = projectReaderMedia(MediaOf[item.revision])
    /\ BaseReferences(item, item.references) /\ BaseTags(item, item.tags)
ListedHang == \A i \in DOMAIN listed : ItemHangs(listed[i])

HangInv == ListingInv /\ BasesHang /\ MediaHang /\ TagsHang /\ EffectsHang /\ ListedHang

LEMMA BasesAreTyped ==
    ASSUME ListingInv, pageRequest.step \in Reading
    PROVE  /\ pageRequest.bases \in Seq(BaseRows)
           /\ \A i \in 1..Len(pageRequest.bases) :
                  /\ pageRequest.bases[i] \in BaseRows /\ pageRequest.bases[i].id \in Fragments
                  /\ JournalOf(pageRequest.bases[i].id) \in Seq(Events)
<1>1. pageRequest.bases \in Seq(BaseRows)
    BY DEF ListingInv, PageIsRight, PageFits
<1>2. ASSUME NEW i \in 1..Len(pageRequest.bases)
      PROVE  pageRequest.bases[i] \in BaseRows /\ pageRequest.bases[i].id \in Fragments
  <2>1. pageRequest.bases[i] \in BaseRows
      BY <1>1
  <2> QED BY <2>1 DEF BaseRows
<1> QED BY <1>1, <1>2, RowIsTyped DEF ListingInv, JournalOf

LEMMA ItemsHang ==
    ASSUME HangInv
    PROVE  ItemsHangTogether
<1> SUFFICES ASSUME NEW i \in DOMAIN listed, NEW item, item = listed[i],
                    NEW journal, journal = JournalOf(item.id)
             PROVE  /\ item.acquisition = projectReaderMedia(MediaOf[item.revision])
                    /\ RefersTo(journal, item.aggregate) \subseteq item.references
                    /\ TagsFit(journal, item.aggregate, item.tags)
    BY DEF ItemsHangTogether, TagsFit, JournalOf
<1>1. ItemHangs(item)
    BY DEF HangInv, ListedHang
<1>2. journal \in Seq(Events)
    BY RowIsTyped DEF HangInv, ListingInv, ListedTyped, JournalOf
<1>3. PICK m \in 0..Len(journal) :
          /\ item.aggregate = CountTo(journal, m)
          /\ \A k \in 1..m : journal[k].what = "command" => journal[k].ref \in item.references
    BY <1>1 DEF ItemHangs, BaseReferences, ReferencesFit
<1>4. ASSUME NEW k \in CommandsIn(journal), journal[k].what = "command", CountTo(journal, k) <= item.aggregate
      PROVE  journal[k].ref \in item.references
  <2>1. k \in 1..Len(journal) /\ k \in Nat /\ m \in Nat
      BY <1>2, CommandsAreFinite
  <2>2. ~(m < k)
    <3>1. m < k => CountTo(journal, m) < CountTo(journal, k)
        BY <2>1, <1>2, CountIsMonotone
    <3>2. CountTo(journal, m) \in Nat /\ CountTo(journal, k) \in Nat
        BY <1>2, CountIsTyped
    <3> QED BY <3>1, <3>2, <1>3, <1>4
  <2>3. k \in 1..m
      BY <2>1, <2>2
  <2> QED BY <2>3, <1>3, <1>4
<1>5. RefersTo(journal, item.aggregate) \subseteq item.references
    BY <1>4 DEF RefersTo
<1> QED BY <1>1, <1>5 DEF ItemHangs, BaseTags

LEMMA HangInit ==
    ASSUME ReaderInit
    PROVE  HangInv
<1>1. pageRequest.step = "idle" /\ listed = <<>>
    BY DEF ReaderInit, IdleRequest
<1> QED
    BY <1>1, ListingInit DEF HangInv, BasesHang, MediaHang, TagsHang, EffectsHang, ListedHang, Reading

\* What hangs together goes on to, while the journals grow.
LEMMA BaseHangsOn ==
    ASSUME Typed, Typed', \A g \in Fragments : Grew(JournalOf(g), JournalOf(g)'), NEW b, b.id \in Fragments
    PROVE  /\ BaseHangs(b) => BaseHangs(b)'
           /\ \A tags : BaseTags(b, tags) => TagsFit(JournalOf(b.id)', b.aggregate, tags)
           /\ \A references : BaseReferences(b, references) =>
                  ReferencesFit(JournalOf(b.id)', b.aggregate, references)
<1>1. PICK older, newer : older = JournalOf(b.id) /\ newer = JournalOf(b.id)'
    OBVIOUS
<1>2. older \in Seq(Events)
    BY <1>1, RowIsTyped DEF JournalOf
<1>3. newer \in Seq(Events)
  <2>1. fragments'[b.id] \in Fragment
      BY DEF Typed
  <2> QED BY <2>1, <1>1 DEF JournalOf, Fragment
<1>4. Grew(older, newer)
    BY <1>1
<1>5. /\ AggregateFits(older, b.aggregate) => AggregateFits(newer, b.aggregate)
      /\ \A references : ReferencesFit(older, b.aggregate, references) =>
             ReferencesFit(newer, b.aggregate, references)
      /\ \A tags : TagsFit(older, b.aggregate, tags) => TagsFit(newer, b.aggregate, tags)
    BY <1>2, <1>3, <1>4, FitsAreKept
<1>6. BaseHangs(b)' <=> AggregateFits(newer, b.aggregate)
    BY <1>1 DEF BaseHangs, AggregateFits
<1> QED BY <1>1, <1>5, <1>6 DEF BaseHangs, BaseTags, BaseReferences

LEMMA JournalsGrow ==
    ASSUME Typed
    PROVE  /\ UNCHANGED fragments => \A g \in Fragments : Grew(JournalOf(g), JournalOf(g)')
           /\ \A F : \A f \in Fragments : Rewrites(f, F) =>
                  \A g \in Fragments : Grew(JournalOf(g), JournalOf(g)')
<1>1. \A g \in Fragments : Grew(JournalOf(g), JournalOf(g))
    BY RowIsTyped, GrewTrivially DEF JournalOf
<1>2. UNCHANGED fragments => \A g \in Fragments : Grew(JournalOf(g), JournalOf(g)')
    BY <1>1 DEF JournalOf
<1>3. ASSUME NEW f \in Fragments, NEW F, Rewrites(f, F), NEW g \in Fragments
      PROVE  Grew(JournalOf(g), JournalOf(g)')
  <2>1. fragments' = [fragments EXCEPT ![f] = F] /\ Grew(JournalOf(f), F.journal)
      BY <1>3 DEF Rewrites, JournalOf
  <2>2. fragments \in [Fragments -> Fragment]
      BY DEF Typed
  <2>3. CASE g = f
      BY <2>1, <2>2, <2>3 DEF JournalOf
  <2>4. CASE g # f
    <3>1. JournalOf(g)' = JournalOf(g)
        BY <2>1, <2>2, <2>4 DEF JournalOf
    <3> QED BY <3>1, <1>1
  <2> QED BY <2>3, <2>4
<1> QED BY <1>2, <1>3

LEMMA HangsOn ==
    ASSUME HangInv, ListingInv', \A g \in Fragments : Grew(JournalOf(g), JournalOf(g)'),
           pageRequest' = pageRequest, listed' = listed
    PROVE  HangInv'
<1>1. Typed /\ Typed' /\ ListingInv
    BY DEF HangInv, ListingInv
<1>2. ASSUME pageRequest.step \in Reading
      PROVE  \A i \in 1..Len(pageRequest.bases) : pageRequest.bases[i].id \in Fragments
    BY <1>1, <1>2, BasesAreTyped
<1>3. BasesHang'
  <2> SUFFICES ASSUME pageRequest.step \in Reading, NEW i \in 1..Len(pageRequest.bases),
                      NEW b, b = pageRequest.bases[i]
               PROVE  BaseHangs(b)'
      BY DEF BasesHang
  <2>1. BaseHangs(b) /\ b.id \in Fragments
      BY <1>2 DEF HangInv, BasesHang
  <2> QED BY <2>1, <1>1, BaseHangsOn
<1>4. MediaHang'
    BY DEF HangInv, MediaHang
<1>5. TagsHang'
  <2> SUFFICES ASSUME pageRequest.step \in {"annotations", "effects", "project"},
                      NEW i \in 1..Len(pageRequest.bases), NEW b, b = pageRequest.bases[i],
                      NEW tags, tags = projectReaderTags(pageRequest.tags[i])
               PROVE  BaseTags(b, tags)'
      BY DEF TagsHang
  <2>1. BaseTags(b, tags) /\ b.id \in Fragments
      BY <1>2 DEF HangInv, TagsHang, Reading
  <2>2. TagsFit(JournalOf(b.id)', b.aggregate, tags)
      BY <2>1, <1>1, BaseHangsOn
  <2> QED BY <2>2 DEF BaseTags, TagsFit
<1>6. EffectsHang'
  <2> SUFFICES ASSUME pageRequest.step = "project",
                      NEW i \in 1..Len(pageRequest.bases), NEW b, b = pageRequest.bases[i],
                      NEW references, references = {e.ref : e \in pageRequest.effects[i]}
               PROVE  BaseReferences(b, references)'
      BY DEF EffectsHang
  <2>1. BaseReferences(b, references) /\ b.id \in Fragments
      BY <1>2 DEF HangInv, EffectsHang, Reading
  <2>2. ReferencesFit(JournalOf(b.id)', b.aggregate, references)
      BY <2>1, <1>1, BaseHangsOn
  <2> QED BY <2>2 DEF BaseReferences, ReferencesFit
<1>7. ListedHang'
  <2> SUFFICES ASSUME NEW i \in DOMAIN listed, NEW item, item = listed[i]
               PROVE  ItemHangs(item)'
      BY DEF ListedHang
  <2>1. ItemHangs(item) /\ item.id \in Fragments
      BY DEF HangInv, ListingInv, ListedTyped, ListedHang
  <2>2. /\ TagsFit(JournalOf(item.id)', item.aggregate, item.tags)
        /\ ReferencesFit(JournalOf(item.id)', item.aggregate, item.references)
      BY <2>1, <1>1, BaseHangsOn DEF ItemHangs
  <2> QED BY <2>1, <2>2 DEF ItemHangs, BaseTags, BaseReferences, TagsFit, ReferencesFit
<1> QED BY <1>3, <1>4, <1>5, <1>6, <1>7 DEF HangInv

LEMMA NothingMoves ==
    ASSUME UNCHANGED fragments
    PROVE  /\ \A b : BaseHangs(b)' <=> BaseHangs(b)
           /\ \A b, tags : BaseTags(b, tags)' <=> BaseTags(b, tags)
           /\ \A b, references : BaseReferences(b, references)' <=> BaseReferences(b, references)
           /\ \A item : ItemHangs(item)' <=> ItemHangs(item)
<1>1. \A f : JournalOf(f)' = JournalOf(f)
    BY DEF JournalOf
<1>2. \A b : BaseHangs(b)' <=> BaseHangs(b)
    BY <1>1 DEF BaseHangs, AggregateFits
<1>3. \A b, tags : BaseTags(b, tags)' <=> BaseTags(b, tags)
    BY <1>1 DEF BaseTags, TagsFit
<1>4. \A b, references : BaseReferences(b, references)' <=> BaseReferences(b, references)
    BY <1>1 DEF BaseReferences, ReferencesFit
<1> QED BY <1>2, <1>3, <1>4 DEF ItemHangs

\* A base counts every command that there is.
LEMMA FreshBaseHangs ==
    ASSUME Typed, NEW b, b.id \in Fragments, b.aggregate = Cardinality(CommandsIn(fragments[b.id].journal))
    PROVE  BaseHangs(b)
<1>1. JournalOf(b.id) \in Seq(Events)
    BY RowIsTyped DEF JournalOf
<1>2. b.aggregate = CountTo(JournalOf(b.id), Len(JournalOf(b.id)))
    BY <1>1, CountToAll DEF JournalOf
<1>3. Len(JournalOf(b.id)) \in 0..Len(JournalOf(b.id))
    BY <1>1
<1> QED BY <1>2, <1>3 DEF BaseHangs, AggregateFits

\* A page of bases has been read.
LEMMA PageHangs ==
    ASSUME HangInv, ListingInv', pageRequest'.step = "coverage", UNCHANGED fragments,
           listed' = listed \/ listed' = <<>>,
           \A i \in 1..Len(pageRequest'.bases) :
               LET b == pageRequest'.bases[i] IN
               b.aggregate = Cardinality(CommandsIn(fragments[b.id].journal))
    PROVE  HangInv'
<1>1. BasesHang'
  <2>1. ASSUME NEW i \in 1..Len(pageRequest'.bases) PROVE BaseHangs(pageRequest'.bases[i])
    <3>1. pageRequest'.bases[i] \in BaseRows
        BY DEF ListingInv, PageIsRight, PageFits, Reading
    <3>2. pageRequest'.bases[i].id \in Fragments
        BY <3>1 DEF BaseRows
    <3> QED BY <3>2, FreshBaseHangs DEF HangInv, ListingInv
  <2> QED BY <2>1, NothingMoves DEF BasesHang
<1>2. ListedHang'
    BY NothingMoves DEF HangInv, ListedHang
<1> QED BY <1>1, <1>2 DEF HangInv, MediaHang, TagsHang, EffectsHang

LEMMA ListHangs ==
    ASSUME HangInv, ListingInv', ListNext \/ \E scope \in Scopes : ListFirst(scope)
    PROVE  HangInv'
<1>1. PICK scope \in ScopeNames, cursor \in Cursors :
          /\ pageRequest'.bases = ListBases(scope, cursor) /\ pageRequest'.step = "coverage"
          /\ UNCHANGED fragments /\ (listed' = listed \/ listed' = <<>>)
  <2>1. CASE ListNext
      BY <2>1 DEF ListNext, HangInv, ListingInv, RequestOK
  <2>2. ASSUME NEW scope \in Scopes, ListFirst(scope)
        PROVE  /\ pageRequest'.bases = ListBases(scope, NoValue) /\ pageRequest'.step = "coverage"
               /\ UNCHANGED fragments /\ (listed' = listed \/ listed' = <<>>)
               /\ scope \in ScopeNames /\ NoValue \in Cursors
      BY <2>2, Constants DEF ListFirst, IdleRequest, Cursors
  <2> QED BY <2>1, <2>2
<1>2. {} \in SUBSET Fragments /\ \A f \in {} : InScope(f, scope)
    OBVIOUS
<1>3. \A i \in 1..Len(ListBases(scope, cursor)) :
          LET b == ListBases(scope, cursor)[i] IN
          b.aggregate = Cardinality(CommandsIn(fragments[b.id].journal))
    BY <1>2, ListBasesFit DEF HangInv, ListingInv
<1> QED BY <1>1, <1>3, PageHangs

LEMMA GetHangs ==
    ASSUME HangInv, ListingInv', NEW f \in Fragments, NEW revision \in DOMAIN MediaOf \cup {NoValue},
           Get(f, revision)
    PROVE  HangInv'
<1>1. PICK b \in BaseRows :
          /\ DetailBases(f, revision) = <<b>>
          /\ b.aggregate = Cardinality(CommandsIn(fragments[b.id].journal))
    BY DetailFits DEF Get, HangInv, ListingInv
<1>2. /\ pageRequest'.bases = <<b>> /\ pageRequest'.step = "coverage" /\ UNCHANGED fragments /\ listed' = <<>>
    BY <1>1 DEF Get, IdleRequest
<1>3. \A i \in 1..Len(pageRequest'.bases) : pageRequest'.bases[i] = b
    BY <1>2
<1> QED BY <1>1, <1>2, <1>3, PageHangs

LEMMA LeaveHangs ==
    ASSUME HangInv, ListingInv', Leave
    PROVE  HangInv'
<1>1. pageRequest'.step = "idle" /\ UNCHANGED <<fragments, listed>>
    BY DEF Leave, IdleRequest
<1>2. ListedHang'
    BY <1>1, NothingMoves DEF HangInv, ListedHang
<1> QED BY <1>1, <1>2 DEF HangInv, BasesHang, MediaHang, TagsHang, EffectsHang, Reading

(***************************************************************************)
(* The reads.                                                              *)
(***************************************************************************)
LEMMA FreshTagsFit ==
    ASSUME Typed, NEW b, b.id \in Fragments, BaseHangs(b)
    PROVE  BaseTags(b, projectReaderTags(loadTags(b.id)))
<1>1. PICK journal : journal = JournalOf(b.id)
    OBVIOUS
<1>2. journal \in Seq(Events) /\ InTime(journal, now) /\ now \in Nat
    BY <1>1, RowIsTyped DEF JournalOf, Typed
<1>3. PICK m \in 0..Len(journal) : b.aggregate = CountTo(journal, m)
    BY <1>1 DEF BaseHangs, AggregateFits
<1>4. PICK n : n = Len(journal)
    OBVIOUS
<1>5. n \in Nat /\ n \in 0..Len(journal) /\ m \in Nat /\ m <= n
    BY <1>2, <1>4
<1>6. CountTo(journal, n) >= b.aggregate
    BY <1>2, <1>3, <1>5, CountIsMonotone, CountIsTyped
<1>7. loadTags(b.id) = {e \in Range(journal) : e.what \in SaysOfTags}
    BY <1>1 DEF loadTags, JournalOf, SaysOfTags
<1>8. \A t \in ReaderTags : ~Unclear(journal, t) =>
          (t \in projectReaderTags(loadTags(b.id)) <=> StandsAt(journal, n, t))
    BY <1>2, <1>4, <1>7, TagsAsTheyStand
<1> QED BY <1>1, <1>5, <1>6, <1>8 DEF BaseTags, TagsFit

LEMMA FreshReferencesFit ==
    ASSUME Typed, NEW b, b.id \in Fragments, BaseHangs(b)
    PROVE  BaseReferences(b, {e.ref : e \in loadEffects(b.id)})
<1>1. PICK journal, references : journal = JournalOf(b.id) /\ references = {e.ref : e \in loadEffects(b.id)}
    OBVIOUS
<1>2. journal \in Seq(Events)
    BY <1>1, RowIsTyped DEF JournalOf
<1>3. PICK m \in 0..Len(journal) : b.aggregate = CountTo(journal, m)
    BY <1>1 DEF BaseHangs, AggregateFits
<1>4. ASSUME NEW k \in 1..m, journal[k].what = "command" PROVE journal[k].ref \in references
  <2>1. k \in DOMAIN journal
      BY <1>2
  <2>2. journal[k] \in loadEffects(b.id)
      BY <2>1, <1>1, <1>4 DEF loadEffects, JournalOf, Range
  <2> QED BY <2>2, <1>1
<1> QED BY <1>1, <1>3, <1>4 DEF BaseReferences, ReferencesFit

LEMMA LoadHangs ==
    ASSUME HangInv, ListingInv', LoadCoverage \/ LoadTags \/ LoadAnnotations \/ LoadEffects
    PROVE  HangInv'
<1>1. /\ pageRequest.step \in Reading /\ pageRequest'.step \in Reading
      /\ pageRequest'.bases = pageRequest.bases /\ UNCHANGED <<fragments, listed>>
    BY ReadGoesOn DEF HangInv, ListingInv
<1>2. PICK page : page = pageRequest.bases
    OBVIOUS
<1>3. /\ DOMAIN page = 1..Len(page)
      /\ \A i \in 1..Len(page) : page[i].id \in Fragments /\ BaseHangs(page[i])
    BY <1>1, <1>2, BasesAreTyped DEF HangInv, BasesHang
<1>4. Typed /\ RequestOK
    BY DEF HangInv, ListingInv
<1>5. BasesHang' /\ ListedHang'
    BY <1>1, NothingMoves DEF HangInv, BasesHang, ListedHang
<1>6. CASE LoadCoverage
  <2>1. /\ pageRequest'.step = "tags"
        /\ \A i \in 1..Len(page) : pageRequest'.media[i] = MediaOf[page[i].revision]
      BY <1>2, <1>3, <1>4, <1>6 DEF LoadCoverage, Reads, ForEach, RequestOK
  <2> QED BY <2>1, <1>1, <1>2, <1>5 DEF HangInv, MediaHang, TagsHang, EffectsHang
<1>7. CASE LoadTags
  <2>1. /\ pageRequest.step = "tags" /\ pageRequest'.step = "annotations" /\ pageRequest'.media = pageRequest.media
        /\ \A i \in 1..Len(page) : pageRequest'.tags[i] = loadTags(page[i].id)
      BY <1>2, <1>3, <1>4, <1>7 DEF LoadTags, Reads, ForEach, RequestOK
  <2>2. \A i \in 1..Len(page) : BaseTags(page[i], projectReaderTags(pageRequest'.tags[i]))
      BY <2>1, <1>3, <1>4, FreshTagsFit
  <2>3. TagsHang'
      BY <2>2, <1>1, <1>2, NothingMoves DEF TagsHang
  <2> QED BY <2>1, <2>3, <1>1, <1>5 DEF HangInv, MediaHang, EffectsHang, Reading
<1>8. CASE LoadAnnotations
  <2>1. /\ pageRequest.step = "annotations" /\ pageRequest'.step = "effects"
        /\ pageRequest'.media = pageRequest.media /\ pageRequest'.tags = pageRequest.tags
      BY <1>4, <1>8 DEF LoadAnnotations, Reads, RequestOK
  <2>2. TagsHang'
      BY <2>1, <1>1, NothingMoves DEF HangInv, TagsHang
  <2> QED BY <2>1, <2>2, <1>1, <1>5 DEF HangInv, MediaHang, EffectsHang, Reading
<1>9. CASE LoadEffects
  <2>1. /\ pageRequest.step = "effects" /\ pageRequest'.step = "project"
        /\ pageRequest'.media = pageRequest.media /\ pageRequest'.tags = pageRequest.tags
        /\ \A i \in 1..Len(page) : pageRequest'.effects[i] = loadEffects(page[i].id)
      BY <1>2, <1>3, <1>4, <1>9 DEF LoadEffects, Reads, ForEach, RequestOK
  <2>2. \A i \in 1..Len(page) : BaseReferences(page[i], {e.ref : e \in pageRequest'.effects[i]})
      BY <2>1, <1>3, <1>4, FreshReferencesFit
  <2>3. EffectsHang'
      BY <2>2, <1>1, <1>2, NothingMoves DEF EffectsHang
  <2>4. TagsHang'
      BY <2>1, <1>1, NothingMoves DEF HangInv, TagsHang
  <2> QED BY <2>1, <2>3, <2>4, <1>1, <1>5 DEF HangInv, MediaHang, Reading
<1> QED BY <1>6, <1>7, <1>8, <1>9

LEMMA ItemIsProjected ==
    ASSUME NEW i
    PROVE  /\ projectReaderItem(i).id = pageRequest.bases[i].id
           /\ projectReaderItem(i).revision = pageRequest.bases[i].revision
           /\ projectReaderItem(i).aggregate = pageRequest.bases[i].aggregate
           /\ projectReaderItem(i).acquisition = projectReaderMedia(pageRequest.media[i])
           /\ projectReaderItem(i).tags = projectReaderTags(pageRequest.tags[i])
           /\ projectReaderItem(i).references = {e.ref : e \in pageRequest.effects[i]}
BY DEF projectReaderItem

LEMMA ProjectHangs ==
    ASSUME HangInv, ListingInv', ProjectPage
    PROVE  HangInv'
<1>1. RequestOK /\ listed \in Seq(Range(listed)) /\ pageRequest.step = "project" /\ pageRequest.step \in Reading
    BY DEF HangInv, ListingInv, ListedTyped, ProjectPage, Reading
<1>2. pageRequest.bases \in Seq(BaseRows)
    BY <1>1, BasesAreTyped DEF HangInv
<1>3. PICK n, m : n = PageLength /\ m = Len(listed)
    OBVIOUS
<1>4. /\ n \in Nat /\ n <= Len(pageRequest.bases) /\ m \in Nat
      /\ DOMAIN listed = 1..m /\ DOMAIN listed' = 1..(m + n)
      /\ \A i \in 1..m : listed'[i] = listed[i]
      /\ \A i \in 1..n : listed'[m + i] = projectReaderItem(i)
      /\ pageRequest'.step \in {"shown", "ended"} /\ UNCHANGED fragments
    BY <1>1, <1>2, <1>3, PageIsShown
<1>5. ASSUME NEW i \in 1..n PROVE ItemHangs(projectReaderItem(i))
  <2>1. PICK item, b : item = projectReaderItem(i) /\ b = pageRequest.bases[i]
      OBVIOUS
  <2>2. i \in 1..Len(pageRequest.bases)
      BY <1>2, <1>4
  <2>3. /\ pageRequest.media[i] = MediaOf[b.revision]
        /\ BaseTags(b, projectReaderTags(pageRequest.tags[i]))
        /\ BaseReferences(b, {e.ref : e \in pageRequest.effects[i]})
      BY <2>1, <2>2, <1>1 DEF HangInv, MediaHang, TagsHang, EffectsHang, Reading
  <2>4. /\ item.id = b.id /\ item.revision = b.revision /\ item.aggregate = b.aggregate
        /\ item.acquisition = projectReaderMedia(pageRequest.media[i])
        /\ item.tags = projectReaderTags(pageRequest.tags[i])
        /\ item.references = {e.ref : e \in pageRequest.effects[i]}
      BY <2>1, ItemIsProjected
  <2>5. BaseTags(item, item.tags) /\ BaseReferences(item, item.references)
      BY <2>3, <2>4 DEF BaseTags, BaseReferences
  <2> QED BY <2>1, <2>3, <2>4, <2>5 DEF ItemHangs
<1>6. ASSUME NEW i \in DOMAIN listed' PROVE ItemHangs(listed'[i])
  <2>1. CASE i \in 1..m
      BY <2>1, <1>4 DEF HangInv, ListedHang
  <2>2. CASE i \notin 1..m
    <3>1. i - m \in 1..n /\ i = m + (i - m)
        BY <2>2, <1>4
    <3> QED BY <3>1, <1>4, <1>5
  <2> QED BY <2>1, <2>2
<1>7. ListedHang'
    BY <1>4, <1>6, NothingMoves DEF ListedHang
<1> QED BY <1>4, <1>7 DEF HangInv, BasesHang, MediaHang, TagsHang, EffectsHang, Reading

LEMMA HangStep ==
    ASSUME HangInv, [ReaderNext]_readerVars
    PROVE  HangInv'
<1>1. ListingInv' /\ Typed
    BY ListingStep DEF HangInv, ListingInv
<1>2. CASE UNCHANGED readerVars
    BY <1>1, <1>2, JournalsGrow, HangsOn DEF readerVars
<1>3. CASE Tick
    BY <1>1, <1>3, JournalsGrow, HangsOn DEF Tick
<1>4. ASSUME NEW f \in Fragments, Meanwhile(f) PROVE HangInv'
  <2>1. PICK F : Rewrites(f, F)
      BY <1>1, <1>4, MeanwhileRewrites
  <2>2. pageRequest' = pageRequest /\ listed' = listed
      BY <2>1 DEF Rewrites
  <2> QED BY <2>1, <2>2, <1>1, JournalsGrow, HangsOn
<1>5. CASE RequestNext
    BY <1>1, <1>5, ListHangs, GetHangs, LoadHangs, ProjectHangs, LeaveHangs DEF RequestNext
<1> QED BY <1>2, <1>3, <1>4, <1>5 DEF ReaderNext

(***************************************************************************)
(* Whatever is recorded between the reads of a page, an item it shows has  *)
(* the media of its revision, what every command up to its aggregate did,  *)
(* and the tags as the reader last said, for all fragments, tags, routes   *)
(* and interleavings (projectReaderItem, projectReaderTags).               *)
(***************************************************************************)
THEOREM ShownItemsHangTogether == ReaderSpec => []ItemsHangTogether
<1>1. ReaderSpec => []HangInv
    BY HangInit, HangStep, PTL DEF ReaderSpec
<1> QED BY <1>1, ItemsHang, PTL
================================================================================
