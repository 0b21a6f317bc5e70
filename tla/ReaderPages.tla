------------------------------ MODULE ReaderPages ------------------------------
(***************************************************************************)
(* What a reader is shown (internal/service/reader.go and                  *)
(* internal/repository/reader.go): pages of items, or one item in detail,  *)
(* for the one principal the API uses.  A page is six SELECTs outside any  *)
(* transaction: the items first, then what belongs to them, while captures,*)
(* enrichment, routing and the reader's own commands go on.  Pages are     *)
(* continued from the last item shown, by its time and its id.             *)
(*                                                                         *)
(* What is recorded about a fragment is one journal: tags that were        *)
(* observed, tags the reader added or removed, commands with an effect and *)
(* the entries of the route log.  Times are stored as text without         *)
(* trailing zeros and compared as text, so within a second their order is  *)
(* any; a time is a second and a rank within it, and the two events of a   *)
(* fragment never have the same time.  Texts, captions, sizes, links and   *)
(* playback are left out; what matters of a media item is what it is, the  *)
(* place it has and how its bytes fare.                                    *)
(***************************************************************************)
EXTENDS Naturals, Sequences, FiniteSets, FiniteSetsExt, Functions

CONSTANTS
    Fragments,    \* fragments, by id: numbers, for ids are ordered
    Starts,       \* the sets of fragments to begin with
    MediaOf,      \* MediaOf[r]: the media of the r-th revision
    ReaderTags, Refs,   \* tags; the routes and destinations effects refer to
    Reports,      \* what the route log may report: [on, ref, state]
    Scopes,       \* the scopes that are listed
    NoValue,
    PageSize, MaxTicks, MaxEvents

Ranks == 0..1
At(second, rank) == 2 * second + rank
Second(at) == at \div 2
Events == [what : {"observed", "add", "suppress"}, tag : ReaderTags, at : Nat]
            \cup [what : {"command", "log"}, on : {"routing", "materialization"}, ref : Refs,
                  state : {"pending", "succeeded", "partial", "failed"}, at : Nat]
Fragment == [alias : Fragments \cup {NoValue}, ingested : Nat, captured : Nat \cup {NoValue},
             staged : Nat \cup {NoValue}, revision : DOMAIN MediaOf,
             summary : {"none", "safe", "unsafe"}, state : {"unread", "in_progress", "read"},
             notes : Nat, journal : Seq(Events)]

\* What is recorded has times of its own, later in later seconds.
InTime(journal, second) ==
    /\ \A i \in DOMAIN journal : Second(journal[i].at) <= second
    /\ \A i, j \in DOMAIN journal : i < j =>
           Second(journal[i].at) <= Second(journal[j].at) /\ journal[i].at # journal[j].at

ASSUME ReaderAssumption ==
    /\ Fragments \subseteq Nat /\ IsFiniteSet(Fragments) /\ NoValue \notin Nat \cup [at : Nat, id : Nat] /\ PageSize \in Nat \ {0}
    /\ \A s \in Starts : s \in [Fragments -> Fragment] /\ \A f \in Fragments : InTime(s[f].journal, 0)
    /\ Scopes \subseteq {"inbox", "library", "all"}
    /\ Reports \subseteq [on : {"routing", "materialization"}, ref : Refs, state : {"pending", "succeeded", "failed"}]

VARIABLES
    fragments,   \* the fragments and all that is recorded about them
    now,         \* the second of the clock
    pageRequest,     \* what is asked for, and how far the answer is
    listed,      \* what the pages of this listing have shown
    untouched,   \* history: in scope since the listing began, with the same time
    events       \* what has happened so far

readerVars == <<fragments, now, pageRequest, listed, untouched, events>>

IdleRequest == [step |-> "idle", scope |-> "all", cursor |-> NoValue, item |-> NoValue,
              bases |-> <<>>, coverage |-> NoValue, media |-> NoValue, tags |-> NoValue,
              annotations |-> NoValue, effects |-> NoValue]

(***************************************************************************)
(* The bases.                                                              *)
(***************************************************************************)
InScope(f, scope) == fragments[f].alias = NoValue /\ (scope = "inbox" => fragments[f].staged # NoValue)

SortAt(f, scope) ==
    IF scope = "inbox" THEN fragments[f].staged
    ELSE IF fragments[f].captured # NoValue THEN fragments[f].captured ELSE fragments[f].ingested

\* Slip: the last item of a page is the first of the next.
BeyondOrAt(f, scope, cursor) ==
    cursor = NoValue \/ SortAt(f, scope) < cursor.at \/ (SortAt(f, scope) = cursor.at /\ f <= cursor.id)

Beyond(f, scope, cursor) ==
    cursor = NoValue \/ SortAt(f, scope) < cursor.at \/ (SortAt(f, scope) = cursor.at /\ f < cursor.id)

\* The entries that are commands, and how many of the first n are.
CommandsIn(journal) == {i \in DOMAIN journal : journal[i].what \in {"add", "suppress", "command"}}
CountTo(journal, n) == Cardinality({i \in CommandsIn(journal) : i <= n})

Base(f, scope, revision) ==
    [id |-> f, at |-> SortAt(f, scope), revision |-> revision, inbox |-> fragments[f].staged # NoValue,
     captured |-> fragments[f].captured # NoValue, state |-> fragments[f].state,
     aggregate |-> Cardinality(CommandsIn(fragments[f].journal))]

Limit == PageSize + 1

\* The latest item comes first.
Follows(f, g, scope) ==
    SortAt(f, scope) < SortAt(g, scope) \/ (SortAt(f, scope) = SortAt(g, scope) /\ f < g)

ListBases(scope, cursor) ==
    LET found == {f \in Fragments : InScope(f, scope) /\ Beyond(f, scope, cursor)}
        order == CHOOSE q \in [1..Cardinality(found) -> found] :
                     \A i, j \in DOMAIN q : i < j => Follows(q[j], q[i], scope)
    IN  [i \in 1..Min({Limit, Cardinality(found)}) |-> Base(order[i], scope, fragments[order[i]].revision)]

\* An item is also found under the id of a fragment it has replaced.
Canonical(f) == IF fragments[f].alias = NoValue THEN f ELSE fragments[f].alias

DetailBases(f, revision) ==
    LET g == Canonical(f)
    IN  IF revision = NoValue THEN <<Base(g, "all", fragments[g].revision)>>
        ELSE IF revision <= fragments[g].revision THEN <<Base(g, "all", revision)>> ELSE <<>>

(***************************************************************************)
(* Tags: what the reader says of a tag comes after all that was observed.  *)
(***************************************************************************)
SourceOrder(e) == IF e.what = "observed" THEN 1 ELSE 2
\* Slip: what was observed since then is put after the reader's word.
PrecedesInTime(e, d) == e.at < d.at
Precedes(e, d) == SourceOrder(e) < SourceOrder(d) \/ (SourceOrder(e) = SourceOrder(d) /\ e.at < d.at)

Latest(facts) == CHOOSE e \in facts : \A d \in facts \ {e} : Precedes(d, e)

loadTags(f) == {e \in Range(fragments[f].journal) : e.what \in {"observed", "add", "suppress"}}

projectReaderTags(facts) ==
    {t \in ReaderTags : LET on == {e \in facts : e.tag = t} IN on # {} /\ Latest(on).what # "suppress"}

(***************************************************************************)
(* Effects: for each route and destination the last entry counts, a        *)
(* command before an entry of the log of the same time.                    *)
(***************************************************************************)
loadEffects(f) == {e \in Range(fragments[f].journal) : e.what \in {"command", "log"}}

projectReaderEffects(entries, on) ==
    [r \in {e.ref : e \in {x \in entries : x.on = on}} |->
        (CHOOSE e \in {x \in entries : x.on = on /\ x.ref = r} :
            \A d \in {x \in entries : x.on = on /\ x.ref = r} : d.at <= e.at).state]

summarizeReaderEffects(states) ==
    IF DOMAIN states = {} THEN "none"
    ELSE IF Range(states) \in {{"pending"}, {"succeeded"}, {"failed"}} THEN CHOOSE s \in Range(states) : TRUE
    ELSE "partial"

(***************************************************************************)
(* Media.                                                                  *)
(***************************************************************************)
readerRenderableRole(role) == role \in {"primary", "gallery_item", "hero", "inline"}

readerRenderer(media) ==
    LET Shown(kinds) == {i \in DOMAIN media : media[i].kind \in kinds /\ readerRenderableRole(media[i].role)}
    IN  IF Cardinality(Shown({"image", "video"})) > 1 THEN "gallery"
        ELSE IF Shown({"video"}) # {} THEN "video"
        ELSE IF Shown({"image"}) # {} THEN "image"
        ELSE IF Shown({"audio"}) # {} THEN "audio"
        ELSE IF Shown({"document"}) # {} THEN "document"
        ELSE "article"

projectReaderMedia(media) ==
    [s \in {"pending", "available", "reference_only", "failed"} |->
        Cardinality({i \in DOMAIN media : media[i].state = s})]

\* An observation that was selected and is not safe is not shown.
selectedReaderText(summary) == IF summary = "safe" THEN "observed" ELSE "deterministic"

Commands == {"add_tag", "remove_tag", "update_curated_note", "set_reading_progress", "route", "materialize"}
readerCommandCapabilities(state, captured, media) ==
    Commands \cup (IF captured THEN {"append_capture_note"} ELSE {})
             \cup (IF state # "read" THEN {"mark_read"} ELSE {})
             \cup (IF state # "unread" THEN {"mark_unread"} ELSE {})
             \cup (IF media # <<>> THEN {"request_asset_acquisition"} ELSE {})

projectReaderItem(i) ==
    LET b == pageRequest.bases[i] IN
    [id |-> b.id, at |-> b.at, revision |-> b.revision, aggregate |-> b.aggregate,
     summary |-> selectedReaderText(pageRequest.coverage[i]), renderer |-> readerRenderer(pageRequest.media[i]),
     acquisition |-> projectReaderMedia(pageRequest.media[i]), tags |-> projectReaderTags(pageRequest.tags[i]),
     annotations |-> pageRequest.annotations[i], triage |-> b.inbox,
     routing |-> summarizeReaderEffects(projectReaderEffects(pageRequest.effects[i], "routing")),
     materialization |-> summarizeReaderEffects(projectReaderEffects(pageRequest.effects[i], "materialization")),
     references |-> {e.ref : e \in pageRequest.effects[i]},
     actions |-> readerCommandCapabilities(b.state, b.captured, pageRequest.media[i])]

(***************************************************************************)
(* A request: the bases, and then one read after the other.                *)
(***************************************************************************)
ReaderInit ==
    /\ fragments \in Starts
    /\ now = 0 /\ events = 0
    /\ pageRequest = IdleRequest /\ listed = <<>> /\ untouched = {}

ListFirst(scope) ==
    /\ pageRequest.step \in {"idle", "ended"}
    /\ pageRequest' = [IdleRequest EXCEPT !.step = "coverage", !.scope = scope, !.bases = ListBases(scope, NoValue)]
    /\ untouched' = {f \in Fragments : InScope(f, scope)}
    /\ listed' = <<>>
    /\ UNCHANGED <<fragments, now, events>>

ListNext ==
    /\ pageRequest.step = "shown" /\ pageRequest.cursor # NoValue
    /\ pageRequest' = [pageRequest EXCEPT !.step = "coverage", !.bases = ListBases(pageRequest.scope, pageRequest.cursor)]
    /\ UNCHANGED <<fragments, now, listed, untouched, events>>

Get(f, revision) ==
    /\ pageRequest.step \in {"idle", "ended"}
    /\ DetailBases(f, revision) # <<>>
    /\ pageRequest' = [IdleRequest EXCEPT !.step = "coverage", !.item = Canonical(f), !.bases = DetailBases(f, revision)]
    /\ listed' = <<>> /\ untouched' = {}
    /\ UNCHANGED <<fragments, now, events>>

ForEach(Read(_)) == [i \in DOMAIN pageRequest.bases |-> Read(pageRequest.bases[i])]
Reads(step, r) ==
    /\ pageRequest.step = step
    /\ pageRequest' = r
    /\ UNCHANGED <<fragments, now, listed, untouched, events>>

\* What is selected is kept with its revision; only the current one's changes.
\* The media of a revision never do, so it is no matter when they are read.
SelectedText(b) == IF b.revision = fragments[b.id].revision THEN fragments[b.id].summary ELSE "none"
LoadCoverage ==
    Reads("coverage", [pageRequest EXCEPT !.step = "tags", !.coverage = ForEach(SelectedText),
                                          !.media = ForEach(LAMBDA b : MediaOf[b.revision])])
LoadTags ==
    Reads("tags", [pageRequest EXCEPT !.step = "annotations", !.tags = ForEach(LAMBDA b : loadTags(b.id))])
LoadAnnotations ==
    Reads("annotations", [pageRequest EXCEPT !.step = "effects",
                                             !.annotations = ForEach(LAMBDA b : fragments[b.id].notes)])
LoadEffects ==
    Reads("effects", [pageRequest EXCEPT !.step = "project", !.effects = ForEach(LAMBDA b : loadEffects(b.id))])

\* One item more than fits tells that there is a next page.
ProjectPage ==
    /\ pageRequest.step = "project"
    /\ LET n == Min({PageSize, Len(pageRequest.bases)})
           hasNext == Len(pageRequest.bases) > PageSize
           last == pageRequest.bases[n]
       IN  /\ listed' = listed \o [i \in 1..n |-> projectReaderItem(i)]
           /\ pageRequest' = [IdleRequest EXCEPT !.step = IF hasNext THEN "shown" ELSE "ended",
                              !.scope = pageRequest.scope, !.item = pageRequest.item,
                              !.cursor = IF hasNext THEN [at |-> last.at, id |-> last.id] ELSE NoValue]
    /\ UNCHANGED <<fragments, now, untouched, events>>

Leave ==
    /\ pageRequest.step = "shown"
    /\ pageRequest' = IdleRequest
    /\ UNCHANGED <<fragments, now, listed, untouched, events>>

(***************************************************************************)
(* Meanwhile.                                                              *)
(***************************************************************************)
Happens == events < MaxEvents /\ events' = events + 1

Recorded(f, e) == [fragments EXCEPT ![f].journal = Append(@, e)]
NewTime(f, at) == \A e \in Range(fragments[f].journal) : e.at # at

Observe(f, t, rank) ==
    /\ Happens /\ NewTime(f, At(now, rank))
    /\ fragments' = Recorded(f, [what |-> "observed", tag |-> t, at |-> At(now, rank)])
    /\ UNCHANGED <<now, pageRequest, listed, untouched>>

\* What the reader said of a tag.
Words(journal, t) == {i \in DOMAIN journal : journal[i].what \in {"add", "suppress"} /\ journal[i].tag = t}
LastWord(journal, t, i) == \A j \in Words(journal, t) : j <= i

\* Saying again what was said last changes nothing.
ApplyTag(f, t, what, rank) ==
    /\ Happens /\ NewTime(f, At(now, rank))
    /\ \A i \in Words(fragments[f].journal, t) : LastWord(fragments[f].journal, t, i) =>
           fragments[f].journal[i].what # what
    /\ fragments' = Recorded(f, [what |-> what, tag |-> t, at |-> At(now, rank)])
    /\ UNCHANGED <<now, pageRequest, listed, untouched>>

RecordEffect(f, what, of, rank) ==
    /\ Happens /\ NewTime(f, At(now, rank))
    /\ fragments' = Recorded(f, [what |-> what, on |-> of.on, ref |-> of.ref, at |-> At(now, rank),
                               state |-> IF what = "command" THEN "pending" ELSE of.state])
    /\ UNCHANGED <<now, pageRequest, listed, untouched>>

Settle(f, i, state) ==
    /\ Happens
    /\ LET e == fragments[f].journal[i] IN e.what = "command" /\ e.state = "pending"
    /\ fragments' = [fragments EXCEPT ![f].journal[i].state = state]
    /\ UNCHANGED <<now, pageRequest, listed, untouched>>

Read(f, state) ==
    /\ Happens
    /\ fragments' = [fragments EXCEPT ![f].state = state]
    /\ UNCHANGED <<now, pageRequest, listed, untouched>>

SelectObservation(f, summary) ==
    /\ Happens
    /\ fragments' = [fragments EXCEPT ![f].summary = summary]
    /\ UNCHANGED <<now, pageRequest, listed, untouched>>

CaptureAgain(f, revision, rank) ==
    /\ Happens
    /\ fragments' = [fragments EXCEPT ![f] =
           [@ EXCEPT !.captured = At(now, rank), !.staged = At(now, rank), !.revision = revision,
                     !.notes = fragments[f].notes + 1,
                     !.summary = IF revision = fragments[f].revision THEN fragments[f].summary ELSE "none"]]
    /\ untouched' = untouched \ {f}
    /\ UNCHANGED <<now, pageRequest, listed>>

Unstage(f) ==
    /\ Happens
    /\ fragments[f].staged # NoValue
    /\ fragments' = [fragments EXCEPT ![f].staged = NoValue]
    /\ untouched' = IF pageRequest.scope = "inbox" THEN untouched \ {f} ELSE untouched
    /\ UNCHANGED <<now, pageRequest, listed>>

Tick ==
    /\ now < MaxTicks /\ now' = now + 1
    /\ UNCHANGED <<fragments, pageRequest, listed, untouched, events>>

RequestNext ==
    \/ \E scope \in Scopes : ListFirst(scope)
    \/ \E f \in Fragments, r \in DOMAIN MediaOf \cup {NoValue} : Get(f, r)
    \/ ListNext \/ LoadCoverage \/ LoadTags \/ LoadAnnotations \/ LoadEffects
    \/ ProjectPage \/ Leave

\* Whatever names an alias works on the fragment that replaced it.
Meanwhile(f) ==
    \/ \E t \in ReaderTags, rank \in Ranks :
          Observe(f, t, rank) \/ \E what \in {"add", "suppress"} : ApplyTag(f, t, what, rank)
    \/ \E what \in {"command", "log"}, of \in Reports, rank \in Ranks : RecordEffect(f, what, of, rank)
    \/ \E i \in DOMAIN fragments[f].journal, state \in {"succeeded", "partial", "failed"} : Settle(f, i, state)
    \/ \E state \in {"in_progress", "read"} : Read(f, state)
    \/ \E summary \in {"safe", "unsafe"} : SelectObservation(f, summary)
    \/ \E rank \in Ranks : \E r \in {fragments[f].revision, fragments[f].revision + 1} \cap DOMAIN MediaOf :
          CaptureAgain(f, r, rank)
    \/ Unstage(f)

ReaderNext == RequestNext \/ Tick \/ \E f \in {g \in Fragments : fragments[g].alias = NoValue} : Meanwhile(f)
ReaderSpec == ReaderInit /\ [][ReaderNext]_readerVars

(***************************************************************************)
(* A listing that was followed to its end has shown every item exactly     *)
(* once that stayed in its scope and was not captured or staged anew since *)
(* the listing began, however the others moved; and no item it has shown   *)
(* stands before one of a later time, while neither was touched (List,     *)
(* keyset cursor).                                                         *)
(***************************************************************************)
Shown(f) == {i \in DOMAIN listed : listed[i].id = f}
UntouchedListedOnce ==
    pageRequest.item = NoValue =>
        /\ pageRequest.step = "ended" => \A f \in untouched : Cardinality(Shown(f)) = 1
        /\ \A f, g \in untouched : \A i \in Shown(f), j \in Shown(g) :
               i < j => listed[i].at >= listed[j].at

(***************************************************************************)
(* An item that is shown hangs together, although its parts were read one  *)
(* after the other.  The media are those of the revision that is named.    *)
(* A command formed on it may rely on its revision: it shows what every    *)
(* command up to that revision did.  The reader's last word on a tag       *)
(* decides whether it is shown, whatever was observed before or after.     *)
(* Excepted are tags added and removed within one second, whose times do   *)
(* not tell which was first.                                               *)
(***************************************************************************)
RefersTo(journal, n) ==
    {journal[i].ref : i \in {k \in CommandsIn(journal) : journal[k].what = "command" /\ CountTo(journal, k) <= n}}
Unclear(journal, t) ==
    \E i, j \in Words(journal, t) : i # j /\ Second(journal[i].at) = Second(journal[j].at)

\* What was to be said of a tag when n entries had been made.
StandsAt(journal, n, t) ==
    LET words == {i \in Words(journal, t) : i <= n}
    IN  IF words = {} THEN \E i \in 1..n : journal[i].what = "observed" /\ journal[i].tag = t
        ELSE \E i \in words : (\A j \in words : j <= i) /\ journal[i].what = "add"

ItemsHangTogether ==
    \A i \in DOMAIN listed :
        LET item == listed[i]
            journal == fragments[item.id].journal
        IN  /\ item.acquisition = projectReaderMedia(MediaOf[item.revision])
            /\ RefersTo(journal, item.aggregate) \subseteq item.references
            /\ \E n \in 0..Len(journal) :
                   /\ CountTo(journal, n) >= item.aggregate
                   /\ \A t \in ReaderTags : ~Unclear(journal, t) => (t \in item.tags <=> StandsAt(journal, n, t))
================================================================================
