------------------------------ MODULE StoreOpen ------------------------------
(***************************************************************************)
(* The opening of the database (store/store.go): a server or a command     *)
(* applies the migrations that are missing, then gives the rows written    *)
(* before migration 011 an identity and revisions                          *)
(* (fragment_identity_backfill.go) and their attachments a place in the    *)
(* media model (media_backfill.go), and only then captures.  Several       *)
(* processes open the same file; what each finds undone it does in one     *)
(* transaction, but it may have looked before another had done it.         *)
(*                                                                         *)
(* A process that dies or waits too long for the write lock leaves         *)
(* nothing of the transaction it was in.                                   *)
(***************************************************************************)
EXTENDS Naturals, Sequences, FiniteSets, SequencesExt, FiniteSetsExt

CONSTANTS
    Openers, Items, Materials, Nothing,
    Histories,     \* legacy fragments by ingested_at: [item, material, private]
    MediaIn,       \* material -> how many attachments it has
    Migrations,    \* how many migration files there are
    MaxOpens, MaxCaptures   \* bounds

StoreAssumption ==
    /\ Items \cap Nat = {} /\ Nothing \notin Materials \cup Items \cup Nat
    /\ Histories \subseteq Seq([item : Items, material : Materials, private : BOOLEAN])
    /\ MediaIn \in [Materials -> Nat]
    /\ Migrations \in Nat \ {0} /\ MaxOpens \in Nat /\ MaxCaptures \in Nat

VARIABLES
    legacy,       \* the fragments found, oldest first; their ids are their places
    applied,      \* schema_migrations, with how often each took effect
    backfilled,   \* the backfills that left their state row
    identities,   \* fragment_source_identities: item -> fragment
    aliases,      \* fragment_identity_aliases: fragment -> fragment
    revisions,    \* fragment_revisions
    current,      \* fragments.current_revision_id, as its material
    attachments,     \* fragment_attachments: fragment -> positions
    refs,         \* attachment_refs: [fragment, material, position, by]
    openers,      \* what each process is doing
    opens, taken  \* history: opens so far; item -> materials captured

storeVars == <<legacy, applied, backfilled, identities, aliases, revisions,
               current, attachments, refs, openers, opens, taken>>
rowsOfStore == <<identities, aliases, revisions, current, attachments, refs, taken>>

LegacyIds == DOMAIN legacy
\* The id of a fragment without a legacy row is made of its identity.
Ids == LegacyIds \cup Items
Closed == [step |-> "closed", at |-> 1]
Serving == {o \in Openers : openers[o].step = "serving"}
Proceeds(o, step) == openers' = [openers EXCEPT ![o].step = step]
Fails(o) == openers' = [openers EXCEPT ![o] = Closed]

StoreInit ==
    /\ legacy \in Histories
    /\ applied = [m \in 1..Migrations |-> IF m = 1 /\ legacy # <<>> THEN 1 ELSE 0]
    /\ backfilled = {}
    /\ identities = [i \in Items |-> Nothing]
    /\ aliases = [f \in Ids |-> f]
    /\ revisions = {}
    /\ current = [f \in Ids |-> Nothing]
    /\ attachments = [f \in Ids |-> IF f \in LegacyIds THEN 1..MediaIn[legacy[f].material] ELSE {}]
    /\ refs = {}
    /\ openers = [o \in Openers |-> Closed]
    /\ opens = 0
    /\ taken = [i \in Items |-> <<>>]

(***************************************************************************)
(* Open and migrate.                                                       *)
(***************************************************************************)
Open(o) ==
    /\ openers[o].step = "closed" /\ opens < MaxOpens
    /\ opens' = opens + 1
    /\ openers' = [openers EXCEPT ![o] = [step |-> "looking", at |-> 1]]
    /\ UNCHANGED <<legacy, applied, backfilled, rowsOfStore>>

\* migrationApplied, outside the transaction.
Look(o) ==
    LET m == openers[o].at IN
    /\ openers[o].step = "looking"
    /\ IF m > Migrations THEN Proceeds(o, "backfilling")
       ELSE IF applied[m] = 0 THEN Proceeds(o, "applying")
       ELSE openers' = [openers EXCEPT ![o].at = @ + 1]
    /\ UNCHANGED <<legacy, applied, backfilled, opens, rowsOfStore>>

\* The statements and the name, which is a primary key, in one transaction.
Apply(o) ==
    LET m == openers[o].at IN
    /\ openers[o].step = "applying"
    /\ IF applied[m] = 0
       THEN /\ applied' = [applied EXCEPT ![m] = @ + 1]
            /\ openers' = [openers EXCEPT ![o] = [step |-> "looking", at |-> m + 1]]
       ELSE Fails(o) /\ UNCHANGED applied
    /\ UNCHANGED <<legacy, backfilled, opens, rowsOfStore>>

(***************************************************************************)
(* backfillFragmentIdentity.                                               *)
(***************************************************************************)
\* The state is read on the pool, before the transaction.
LookForIdentity(o) ==
    /\ openers[o].step = "backfilling"
    /\ Proceeds(o, IF "identity" \in backfilled THEN "media" ELSE "identifying")
    /\ UNCHANGED <<legacy, applied, backfilled, opens, rowsOfStore>>

Projected == {f \in Ids : f \in LegacyIds \/ current[f] # Nothing}
Rows(i) == {f \in LegacyIds : legacy[f].item = i}
\* The last row observed is the fragment, the others are its aliases.
Canonical(i) == Max(Rows(i))
HasRows == {i \in Items : Rows(i) # {}}
\* A revision per material, numbered in the order they were first observed.
Firsts(i) == {f \in Rows(i) : \A g \in Rows(i) : g < f => legacy[g].material # legacy[f].material}
Revisions(i) ==
    {[fragment |-> Canonical(i), material |-> legacy[f].material,
      ordinal |-> Cardinality({g \in Firsts(i) : g <= f}), legacy |-> f] : f \in Firsts(i)}

\* The row of a legacy fragment points to the revision of its own material.
Select(f) == legacy[f].material

Private == \E f \in LegacyIds : legacy[f].private

\* A transaction over all fragments.
IdentifyRows(o) ==
    /\ backfilled' = backfilled \cup {"identity"}
    /\ identities' = [i \in Items |-> IF i \in HasRows THEN Canonical(i) ELSE identities[i]]
    /\ aliases' = [f \in Ids |-> IF f \in LegacyIds THEN Canonical(legacy[f].item) ELSE aliases[f]]
    /\ revisions' = revisions \cup UNION {Revisions(i) : i \in HasRows}
    /\ current' = [f \in Ids |-> IF f \in LegacyIds THEN Select(f) ELSE current[f]]
    /\ Proceeds(o, "media")
    /\ UNCHANGED <<attachments, refs, taken>>

\* Slip: rows that are there already are replaced.
IdentifyAnyway(o) ==
    /\ openers[o].step = "identifying" /\ ~Private
    /\ IdentifyRows(o)
    /\ UNCHANGED <<legacy, applied, opens>>

\* The transaction's last row is a primary key: it fails where another process
\* was faster.  Private transcripts must be disposed of first.
Identify(o) ==
    /\ openers[o].step = "identifying"
    /\ IF Private \/ "identity" \in backfilled
       THEN Fails(o) /\ UNCHANGED <<backfilled, rowsOfStore>>
       ELSE IdentifyRows(o)
    /\ UNCHANGED <<legacy, applied, opens>>

(***************************************************************************)
(* backfillMedia: BEGIN IMMEDIATE, then the state is read.                 *)
(***************************************************************************)
\* The revision a row's attachments belong to: its own, else the one it shows.
RevisionOf(f) ==
    LET own == {r \in revisions : r.legacy = f}
        shown == {r \in revisions : r.fragment = aliases[f] /\ r.material = current[f]}
    IN  IF own # {} THEN own ELSE {r \in shown : r.legacy \in {Nothing, f}}

Backfilled(f) ==
    {[fragment |-> r.fragment, material |-> r.material, position |-> p, by |-> "backfill"] :
        r \in RevisionOf(f), p \in attachments[f]}

Taken(r) == \E s \in refs : s.fragment = r.fragment /\ s.material = r.material /\ s.position = r.position

BackfillMedia(o) ==
    /\ openers[o].step = "media"
    /\ IF "media" \in backfilled
       THEN UNCHANGED <<backfilled, refs>>
       ELSE /\ backfilled' = backfilled \cup {"media"}
            /\ refs' = refs \cup {r \in UNION {Backfilled(f) : f \in Projected} : ~Taken(r)}
    /\ Proceeds(o, "serving")
    /\ UNCHANGED <<legacy, applied, opens, identities, aliases, revisions, current, attachments, taken>>

(***************************************************************************)
(* A process that is open captures: upsertFragmentResolved with its media  *)
(* manifest and the projection, whose attachments may be more.             *)
(***************************************************************************)
Capture(o, i, m) ==
    LET f == IF identities[i] = Nothing THEN i ELSE identities[i]
        history == {r \in revisions : r.fragment = f}
        known == \E r \in history : r.material = m
    IN  /\ o \in Serving
        /\ FoldSet(LAMBDA j, n : n + Len(taken[j]), 0, Items) < MaxCaptures
        /\ taken' = [taken EXCEPT ![i] = Append(@, m)]
        /\ identities' = [identities EXCEPT ![i] = f]
        /\ current' = [current EXCEPT ![f] = m]
        /\ \E n \in {MediaIn[m], MediaIn[m] + 1} : attachments' = [attachments EXCEPT ![f] = 1..n]
        /\ IF known THEN UNCHANGED <<revisions, refs>>
           ELSE /\ revisions' = revisions \cup
                       {[fragment |-> f, material |-> m, ordinal |-> Cardinality(history) + 1, legacy |-> Nothing]}
                /\ refs' = refs \cup
                       {[fragment |-> f, material |-> m, position |-> p, by |-> "capture"] : p \in 1..MediaIn[m]}
    /\ UNCHANGED <<legacy, applied, backfilled, aliases, openers, opens>>

\* The process ends, dies, or gives up waiting for the lock.
Close(o) ==
    /\ openers[o].step # "closed" /\ Fails(o)
    /\ UNCHANGED <<legacy, applied, backfilled, opens, rowsOfStore>>

StoreNext ==
    \E o \in Openers :
        \/ Open(o) \/ Look(o) \/ Apply(o) \/ LookForIdentity(o) \/ Identify(o) \/ BackfillMedia(o)
        \/ \E i \in Items, m \in Materials : Capture(o, i, m)
        \/ Close(o)

StoreSpec == StoreInit /\ [][StoreNext]_storeVars

StoreTypeOK ==
    /\ applied \in [1..Migrations -> Nat] /\ backfilled \subseteq {"identity", "media"}
    /\ identities \in [Items -> Ids \cup {Nothing}] /\ aliases \in [Ids -> Ids]
    /\ current \in [Ids -> Materials \cup {Nothing}]

(***************************************************************************)
(* However many processes open the file at once, every migration takes     *)
(* effect once and in order, and what was there before migration 011 is    *)
(* neither lost nor mixed with what is captured afterwards (migrate,       *)
(* backfillFragmentIdentity, backfillMedia): a process that captures finds *)
(* every migration applied, each legacy row resolving to the one           *)
(* fragment of its item, and its material among that fragment's revisions  *)
(* in the order of observation.  A fragment shows the material captured    *)
(* last, or else the one observed last; and a revision has the media of    *)
(* its material, once, and no display attachment among them.               *)
(***************************************************************************)
LastOf(i) ==
    IF taken[i] # <<>> THEN Last(taken[i])
    ELSE IF Rows(i) # {} THEN legacy[Canonical(i)].material ELSE Nothing

HistorySurvives ==
    /\ \A m \in 1..Migrations : applied[m] <= 1 /\ (m > 1 /\ applied[m] = 1 => applied[m - 1] = 1)
    /\ Serving # {} =>
        /\ \A m \in 1..Migrations : applied[m] = 1
        /\ \A f \in LegacyIds : \E r \in revisions :
               /\ r.fragment = aliases[f] /\ aliases[f] = identities[legacy[f].item]
               /\ r.material = legacy[f].material
        /\ \A r, s \in revisions : r.fragment = s.fragment /\ r.legacy # Nothing
               /\ (s.legacy = Nothing \/ r.legacy < s.legacy) /\ r # s => r.ordinal < s.ordinal
        /\ \A i \in Items : identities[i] # Nothing => current[identities[i]] = LastOf(i)
        /\ \A r \in revisions :
               Cardinality({s \in refs : s.fragment = r.fragment /\ s.material = r.material}) = MediaIn[r.material]
=============================================================================
