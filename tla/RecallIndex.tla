----------------------------- MODULE RecallIndex -----------------------------
(***************************************************************************)
(* What is derived from a fragment's text and kept beside it: its entity   *)
(* rows (repository/entities.go), the links to similar fragments           *)
(* (recall/sqlite.go) and the memory it is searched by (recall/vanta.go).  *)
(*                                                                         *)
(* A pass accepts a text and runs the directive stage and, last, the       *)
(* recall stage on what it accepted; an edit (UpdateManualFragment) and a  *)
(* review (applyEnrichment) rewrite the title and the entity rows.  Each   *)
(* of their writes is a statement or a transaction of its own.             *)
(* Which metadata and tags an edit leaves is FragmentReview; the stages    *)
(* between directives and recall are RouteDelivery.                        *)
(***************************************************************************)
EXTENDS Naturals, FiniteSets, SequencesExt

CONSTANTS
    Fragments,      \* of one source and source type, aliases apart: siblings
    CreatedAt,      \* fragment -> created_at: its rank, which stays what it was first
    Materials,      \* contents a source item may have
    Sessions,       \* passes, edits and reviews that may be under way
    NoMaterial,
    ToolsOf,        \* text -> values extract.FromFragment finds in it
    DirectivesOf,   \* material -> commands the directive stage finds in it
    MaxCandidates,  \* siblings a pass looks at, the newest ones
    MaxRungs,       \* bound: rungs of Kinds that two siblings may share
    MaxCaptures, MaxEdits, MaxFaults   \* bounds: captures, edits and reviews, failures

Titles == {"own", "edited", "reviewed"}
Texts == [content : Materials, title : Titles]
Kinds == <<"source", "terms", "topics", "entities">>

IndexAssumption ==
    /\ NoMaterial \notin Materials \cup Fragments
    /\ IsFiniteSet(Fragments) /\ CreatedAt \in [Fragments -> Nat]
    /\ MaxCandidates \in Nat \ {0} /\ MaxRungs \in 1..Len(Kinds)
    /\ MaxCaptures \in Nat /\ MaxEdits \in Nat /\ MaxFaults \in Nat

VARIABLES
    text,       \* fragments: content and title
    rows,       \* fragment_entities: [kind, value]
    links,      \* fragment_links: <<fragment, related fragment, kind>>
    memory,     \* fragment -> the text of its current memory revision
    sessions,   \* who is under way, and how far
    disturbed,  \* history: sessions overlapped or one failed since the last pass alone
    retitled,   \* history: an edit, a review or a repetition changed the title since
    captures, edits, faults

indexVars == <<text, rows, links, memory, sessions, disturbed, retitled, captures, edits, faults>>

NoText == [content |-> NoMaterial, title |-> "own"]
Resting == [step |-> "rest", kind |-> "pass", f |-> NoMaterial, text |-> NoText,
            rows |-> {}, todo |-> {}, alone |-> TRUE]
Exists(f) == text[f] # NoText
On(f) == {s \in Sessions : sessions[s].step # "rest" /\ sessions[s].f = f}

EntitiesOf(kind, values) == {[kind |-> kind, value |-> v] : v \in values}
OfKind(S, kind) == {r \in S : r.kind = kind}

IndexInit ==
    /\ text = [f \in Fragments |-> NoText]
    /\ rows = [f \in Fragments |-> {}]
    /\ links = {}
    /\ memory = [f \in Fragments |-> NoText]
    /\ sessions = [s \in Sessions |-> Resting]
    /\ disturbed = {} /\ retitled = {}
    /\ captures = MaxCaptures /\ edits = MaxEdits /\ faults = MaxFaults

Goes(s, to) == sessions' = [sessions EXCEPT ![s] = to]

\* A session begins: whoever else is at work on the fragment is not alone.
Begins(s, to) ==
    LET others == On(to.f) IN
    /\ sessions[s].step = "rest"
    /\ sessions' = [v \in Sessions |->
           IF v = s THEN [to EXCEPT !.alone = others = {}]
           ELSE IF v \in others THEN [sessions[v] EXCEPT !.alone = FALSE] ELSE sessions[v]]
    /\ disturbed' = IF others = {} THEN disturbed ELSE disturbed \cup {to.f}

(***************************************************************************)
(* A pass.                                                                 *)
(***************************************************************************)
\* legacycapture.Accept commits the text; the stages follow with what it returned.
Accept(s, f, m) ==
    LET t == [content |-> m, title |-> "own"] IN
    /\ captures > 0 /\ captures' = captures - 1
    /\ text[f].content # m
    /\ text' = [text EXCEPT ![f] = t]
    /\ Begins(s, [Resting EXCEPT !.step = "directives", !.f = f, !.text = t])
    /\ UNCHANGED <<rows, links, memory, retitled, edits, faults>>

\* A title is written over whatever the others on the fragment wrote.
Retitle(f, title) == text' = [text EXCEPT ![f].title = title]

\* The same material with another note or tag: the projection is written again
\* and the outcome is "skipped", so every stage returns at once.
Repeat(f) ==
    /\ Exists(f)
    /\ captures > 0 /\ captures' = captures - 1
    /\ Retitle(f, "own")
    /\ retitled' = retitled \cup {f}
    /\ UNCHANGED <<rows, links, memory, sessions, disturbed, edits, faults>>

\* ReplaceFragmentEntitiesByKind.
TagDirectives(s) ==
    LET w == sessions[s] IN
    /\ w.step = "directives"
    /\ rows' = [rows EXCEPT ![w.f] =
           (@ \ OfKind(@, "directive")) \cup EntitiesOf("directive", DirectivesOf[w.text.content])]
    /\ Goes(s, [w EXCEPT !.step = "entities"])
    /\ UNCHANGED <<text, links, memory, disturbed, retitled, captures, edits, faults>>

(***************************************************************************)
(* IndexFragment.  The summary it writes first is wording.                 *)
(***************************************************************************)
\* Slip: what others wrote for the fragment is replaced as well.
IndexAllEntities(s) ==
    LET w == sessions[s] IN
    /\ w.step = "entities"
    /\ rows' = [rows EXCEPT ![w.f] = EntitiesOf("tool", ToolsOf[w.text])]
    /\ Goes(s, [w EXCEPT !.step = "candidates"])
    /\ UNCHANGED <<text, links, memory, disturbed, retitled, captures, edits, faults>>

\* ReplaceFragmentEntitiesByKindAndSource.
IndexEntities(s) ==
    LET w == sessions[s] IN
    /\ w.step = "entities"
    /\ rows' = [rows EXCEPT ![w.f] =
           (@ \ OfKind(@, "tool")) \cup EntitiesOf("tool", ToolsOf[w.text])]
    /\ Goes(s, [w EXCEPT !.step = "candidates"])
    /\ UNCHANGED <<text, links, memory, disturbed, retitled, captures, edits, faults>>

\* ORDER BY created_at DESC LIMIT 5: siblings that are there, the newest ones; the
\* order of two of the same time is open.
NewestOf(f, C) ==
    /\ \A h \in C : h # f /\ Exists(h)
    /\ Cardinality(C) <= MaxCandidates
    /\ \A g \in Fragments \ (C \cup {f}) : Exists(g) =>
           Cardinality(C) = MaxCandidates /\ \A h \in C : CreatedAt[g] <= CreatedAt[h]

\* The links two siblings earn, each with its reverse: the first rung by their
\* source alone, the others by the words of their titles and stored summaries.
Earned(f, g, rungs) == {<<f, g, Kinds[i]>> : i \in 1..rungs} \cup {<<g, f, Kinds[i]>> : i \in 1..rungs}

Looks(s, C) ==
    LET w == sessions[s] IN
    /\ w.step = "candidates"
    /\ \E rungs \in [C -> 1..MaxRungs] :
           Goes(s, [w EXCEPT !.step = "linking",
                             !.todo = UNION {Earned(w.f, g, rungs[g]) : g \in C}])
    /\ UNCHANGED <<text, rows, links, memory, disturbed, retitled, captures, edits, faults>>

\* Slip: only fragments that were indexed before are candidates.
FindCandidatesIndexed(s) ==
    \E C \in SUBSET {g \in Fragments : memory[g] # NoText} :
        sessions[s].f \notin C /\ Cardinality(C) <= MaxCandidates /\ Looks(s, C)

\* FindRelationCandidates reads the siblings as they are now.
FindCandidates(s) ==
    \E C \in SUBSET Fragments : NewestOf(sessions[s].f, C) /\ Looks(s, C)

\* UpsertRelation, one row; the order of the candidates is open.
Link(s) ==
    LET w == sessions[s] IN
    /\ w.step = "linking"
    /\ \E l \in w.todo : links' = links \cup {l} /\ Goes(s, [w EXCEPT !.todo = @ \ {l}])
    /\ UNCHANGED <<text, rows, memory, disturbed, retitled, captures, edits, faults>>

\* VantaIndexer supersedes the current revision with the text it was given.
Remember(s) ==
    LET w == sessions[s] IN
    /\ w.step = "linking" /\ w.todo = {}
    /\ memory' = [memory EXCEPT ![w.f] = w.text]
    /\ IF w.kind = "pass"
       THEN /\ Goes(s, Resting)
            /\ disturbed' = IF w.alone THEN disturbed \ {w.f} ELSE disturbed
            /\ retitled' = IF text[w.f] = w.text THEN retitled \ {w.f} ELSE retitled
       ELSE Goes(s, [w EXCEPT !.step = "restoring"]) /\ UNCHANGED <<disturbed, retitled>>
    /\ UNCHANGED <<text, rows, links, captures, edits, faults>>

(***************************************************************************)
(* An edit and a review.  Both replace all entity rows with a list they    *)
(* made of the rows they read before.                                      *)
(***************************************************************************)
Revises(s, f, kind, step) ==
    /\ Exists(f)
    /\ edits > 0 /\ edits' = edits - 1
    /\ Begins(s, [Resting EXCEPT !.step = step, !.kind = kind, !.f = f, !.rows = rows[f]])
    /\ UNCHANGED <<text, rows, links, memory, retitled, captures, faults>>

BeginEdit(s, f) == Revises(s, f, "edit", "editing")
BeginReview(s, f) == Revises(s, f, "review", "reviewing")

\* The title is written and the row read back for IndexFragment.
WriteTitle(s) ==
    LET w == sessions[s]
        t == [text[w.f] EXCEPT !.title = IF w.kind = "edit" THEN "edited" ELSE "reviewed"]
    IN  /\ w.step \in {"editing", "reviewing"}
        /\ text' = [text EXCEPT ![w.f] = t]
        /\ retitled' = retitled \cup {w.f}
        /\ Goes(s, [w EXCEPT !.text = t, !.step = IF w.kind = "edit" THEN "entities" ELSE "restoring"])
        /\ UNCHANGED <<rows, links, memory, disturbed, captures, edits, faults>>

\* ReplaceFragmentEntities; UpdateManualFragment writes the title once more.
RestoreRows(s) ==
    LET w == sessions[s] IN
    /\ w.step = "restoring"
    /\ rows' = [rows EXCEPT ![w.f] = w.rows]
    /\ IF w.kind = "edit"
       THEN Retitle(w.f, "edited")
       ELSE UNCHANGED text
    /\ Goes(s, Resting)
    /\ UNCHANGED <<links, memory, disturbed, retitled, captures, edits, faults>>

\* An error of a statement or of the memory, or the process dies.
Abandon(s) ==
    LET w == sessions[s] IN
    /\ w.step # "rest" /\ faults > 0 /\ faults' = faults - 1
    /\ disturbed' = disturbed \cup {w.f}
    /\ Goes(s, Resting)
    /\ UNCHANGED <<text, rows, links, memory, retitled, captures, edits>>

SessionStep(s) ==
    \/ \E f \in Fragments : BeginEdit(s, f) \/ BeginReview(s, f)
    \/ \E f \in Fragments, m \in Materials : Accept(s, f, m)
    \/ TagDirectives(s) \/ IndexEntities(s) \/ FindCandidates(s) \/ Link(s) \/ Remember(s)
    \/ WriteTitle(s) \/ RestoreRows(s) \/ Abandon(s)

IndexNext == (\E s \in Sessions : SessionStep(s)) \/ (\E f \in Fragments : Repeat(f))

IndexSpec == IndexInit /\ [][IndexNext]_indexVars

Values == (UNION {ToolsOf[t] : t \in Texts}) \cup (UNION {DirectivesOf[m] : m \in Materials})
EntityRows == [kind : {"directive", "tool"}, value : Values]
LinkRows == Fragments \X Fragments \X {Kinds[i] : i \in 1..Len(Kinds)}
SessionRows ==
    [step : {"rest", "directives", "entities", "candidates", "linking", "restoring", "editing", "reviewing"},
     kind : {"pass", "edit", "review"}, f : Fragments \cup {NoMaterial}, text : Texts \cup {NoText},
     rows : SUBSET EntityRows, todo : SUBSET LinkRows, alone : BOOLEAN]

IndexTypeOK ==
    /\ text \in [Fragments -> Texts \cup {NoText}]
    /\ rows \in [Fragments -> SUBSET EntityRows]
    /\ links \subseteq LinkRows
    /\ memory \in [Fragments -> Texts \cup {NoText}]
    /\ sessions \in [Sessions -> SessionRows]
    /\ disturbed \subseteq Fragments /\ retitled \subseteq Fragments
    /\ captures \in 0..MaxCaptures /\ edits \in 0..MaxEdits /\ faults \in 0..MaxFaults

Settled(f) == Exists(f) /\ On(f) = {} /\ f \notin disturbed

(***************************************************************************)
(* A fragment nobody is working on has the directive rows of its content   *)
(* and is remembered by it, and has the tool rows of its text unless its   *)
(* title changed since the last pass: no stage undoes what another one     *)
(* wrote (DirectiveStage, RecallStage, ReplaceFragmentEntitiesByKind).     *)
(* Excepted are fragments where two sessions overlapped or one failed, as  *)
(* long as no pass had them to itself afterwards.                          *)
(***************************************************************************)
RowsFollowText ==
    \A f \in Fragments : Settled(f) =>
        /\ OfKind(rows[f], "directive") = EntitiesOf("directive", DirectivesOf[text[f].content])
        /\ memory[f].content = text[f].content
        /\ f \notin retitled => OfKind(rows[f], "tool") = EntitiesOf("tool", ToolsOf[text[f]])

\* g is sure to be among the candidates of f: fewer siblings than the limit are at
\* least as new.
Among(f, g) ==
    Cardinality({h \in Fragments \ {f, g} : Exists(h) /\ CreatedAt[h] >= CreatedAt[g]}) < MaxCandidates
Near(f, g) == Among(f, g) /\ Among(g, f)

(***************************************************************************)
(* Two siblings that recall can find are linked by their source, both      *)
(* ways, however their passes interleave, if each is among the newest      *)
(* siblings of the other: whichever looked for candidates later found the  *)
(* other's text (IndexFragment, FindRelationCandidates).                   *)
(***************************************************************************)
SiblingsAreLinked ==
    \A f, g \in Fragments :
        f # g /\ memory[f] # NoText /\ memory[g] # NoText /\ Near(f, g) =>
            <<f, g, "source">> \in links

(***************************************************************************)
(* An edit reindexes the fragment: "Recall indexing recomputes             *)
(* summary/entity state from content" (UpdateManualFragment).  So a        *)
(* fragment edited by nobody else meanwhile has the tools of its new text. *)
(***************************************************************************)
EditIsIndexed ==
    \A f \in Fragments : Settled(f) /\ text[f].title = "edited" =>
        OfKind(rows[f], "tool") = EntitiesOf("tool", ToolsOf[text[f]])
=============================================================================
