-------------------------- MODULE MCFragmentReview --------------------------
(***************************************************************************)
(* Small instances of six parts that share nothing: the review of a       *)
(* captured link, the imports and the paid enrichment of transcripts, and  *)
(* the reads that show what is stored.  A behaviour is one of one part;    *)
(* the variables of the others stay off, or as they are at first.          *)
(*                                                                         *)
(* FragmentReview: a link captured as mA, again with a tag, and as mB.     *)
(* CodexCapture: the rollout of a forked thread, which grows by up to      *)
(* three records of any kind or gives way to one of another thread.        *)
(* AntigravityCapture: up to three steps, read two at a time.              *)
(* TranscriptEnrichment: two sessions that one call each enriches, a run   *)
(* and a forced run, in either order or overlapping.                       *)
(* ReaderPages: a captured fragment with a later revision, one that was    *)
(* not captured, and an alias, listed one to a page.                       *)
(* ReaderResources: two contents of one size, of which one is known, and a *)
(* shorter one that no reader may be given.                                *)
(***************************************************************************)
EXTENDS FragmentReview, CodexCapture, AntigravityCapture, TranscriptEnrichment, ReaderPages, ReaderResources, TLC

CONSTANTS mA, mB, tagged, Off, None,
          ta, tb, said, called, used,
          s1, s2, run, forced,
          tag1, ref1, b1, b2, b3, it1, p0

VARIABLE part

readVars == <<readerVars, resourceVars>>
partsVars == <<part, vars, codexVars, antigravityVars, enrichmentVars, readVars>>

Plain == [material |-> mA, tags |-> {}]
MCCaptures == {Plain, [Plain EXCEPT !.tags = {tagged}], [Plain EXCEPT !.material = mB]}

\* Bound: the plain capture of mA comes first, which leaves the orders in which
\* mA is repeated before or after mB.
PlainFirst == accepted # {} => Plain \in accepted

Meta(thread, fork) == [what |-> "session_meta", thread |-> thread, parent |-> None, fork |-> fork]
Says(role) == [what |-> "message", text |-> said, role |-> role]
MCRecords ==
    {Meta(ta, tb), Meta(tb, None), Says("assistant"), [what |-> "event", text |-> said],
     [what |-> "reasoning"], [what |-> "invalid"], [what |-> "call", id |-> called],
     [what |-> "usage", amount |-> used], [what |-> "count", amount |-> used]}
    \cup [what : {"output", "end"}, id : {called}, failed : BOOLEAN]

Slots == (run :> 2) @@ (forced :> 1)
OneEach == [s \in {s1, s2} |-> 1]

ItemRow(alias, captured, staged) ==
    [alias |-> alias, ingested |-> 0, captured |-> captured, staged |-> staged, revision |-> 1,
     summary |-> "none", state |-> "unread", notes |-> 0, journal |-> <<>>]
MCStarts == {<<ItemRow(None, 0, 0), ItemRow(None, None, 0), ItemRow(1, None, None)>>}
MCReports == {[on |-> "routing", ref |-> ref1, state |-> "succeeded"]}
Medium(kind, role, state) == [kind |-> kind, role |-> role, state |-> state]
MCMediaOf == <<<<Medium("video", "primary", "reference_only"), Medium("image", "poster", "available")>>, <<>>>>

VariantRow(state, kept, known, underPath, declared) ==
    [state |-> state, custody |-> kept, retryable |-> TRUE, blob |-> None, expected |-> known,
     legacy |-> underPath, kind |-> "image", declared |-> declared]
MCRows ==
    {VariantRow("pending", "mirror", None, FALSE, "raster"), VariantRow("failed", "cache", b1, FALSE, None),
     VariantRow("available", "adopted", None, TRUE, None), VariantRow("available", "adopted", b1, TRUE, "unknown"),
     VariantRow("available", "reference", None, FALSE, None), VariantRow("available", "mirror", None, FALSE, None)}
MCSizeOf == (b1 :> 2) @@ (b2 :> 2) @@ (b3 :> 1)
MCSniffedOf == (b1 :> "raster") @@ (b2 :> "raster") @@ (b3 :> "active")
Bytes(first, end) == [first |-> first, last |-> end]
MCRanges == {None, Bytes(0, 0), Bytes(1, 5), Bytes(2, None), Bytes(None, 3), Bytes(1, 0)}

MCRollouts == {<<Meta(ta, tb)>>}
MCOtherRollouts == {<<Meta(tb, None), Says("user")>>}

ASSUME PartsAssumption == AntigravityAssumption /\ EnrichmentConstants /\ ResourceAssumption

\* The initial states of one part, or its variables off.  The others have one
\* initial state each and stay in it.
MediaStarts ==
    IF part = "resources" THEN ResourceInit
    ELSE variantRow = Off /\ blobs = Off /\ paths = Off /\ request = Off /\ answer = NotFound

PartsInit ==
    /\ part \in {"review", "codex", "antigravity", "transcripts", "pages", "resources"}
    /\ Init /\ AntigravityInit /\ EnrichmentInit /\ ReaderInit /\ CodexInit /\ MediaStarts

PartsNext ==
    \/ /\ UNCHANGED <<part, antigravityVars, enrichmentVars, readVars>>
       /\ \/ part = "review" /\ Next /\ PlainFirst' /\ UNCHANGED codexVars
          \/ part = "codex" /\ CodexNext /\ UNCHANGED vars
    \/ /\ UNCHANGED <<part, vars, codexVars, readVars>>
       /\ \/ part = "antigravity" /\ AntigravityNext /\ UNCHANGED enrichmentVars
          \/ part = "transcripts" /\ EnrichmentNext /\ UNCHANGED antigravityVars
    \/ /\ UNCHANGED <<part, vars, codexVars, antigravityVars, enrichmentVars>>
       /\ \/ part = "pages" /\ ReaderNext /\ UNCHANGED resourceVars
          \/ part = "resources" /\ ResourceNext /\ UNCHANGED readerVars

PartsSpec == PartsInit /\ [][PartsNext]_partsVars

Symmetric == Permutations({s1, s2})
=============================================================================
