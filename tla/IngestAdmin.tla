---------------------------- MODULE IngestAdmin ----------------------------
(***************************************************************************)
(* The configuration file and the requests that rewrite it under the       *)
(* running ingests: create, update, enable and delete an ingest, set its   *)
(* archive policy (service/ingest_admin.go), and read and replace the      *)
(* whole configuration (api/config_handlers.go).                           *)
(*                                                                         *)
(* Every request loads the file, changes its copy and saves it; a save     *)
(* reads the file once more to merge into it, empties it and writes it     *)
(* (config.Save, os.WriteFile).  No lock spans any two of these steps.     *)
(* The module shows each as a step, and what the workers and the engines   *)
(* of IngestRuntime find in the file at every moment.                      *)
(***************************************************************************)
EXTENDS IngestRuntime

CONSTANTS
    Names, Main,    \* ingests; Main is the one that is scheduled and run
    Absent,         \* no such ingest
    RuleKeys,       \* keys an ingest's rules and labels may have
    Admins,         \* requests under way at a time
    MaxEdits        \* bound on the edits begun

ASSUME AdminAssumption ==
    /\ Main \in Names
    /\ MaxEdits \in Nat
    /\ Absent \notin [enabled : BOOLEAN, rules : SUBSET RuleKeys]
    /\ ConfigStates = {"ok", "missing", "broken"}

VARIABLES
    file,       \* the configuration file
    admins,     \* request -> its step, its copy and what it edits of it
    edits,      \* edits left
    asked,      \* what the requests, in the order their saves ended, asked for
    undone      \* ingests a save may have put back to what it had read earlier

adminVars == <<file, admins, edits, asked, undone>>
allAdminVars == <<runtimeVars, adminVars>>

Entries == [enabled : BOOLEAN, rules : SUBSET RuleKeys]
Entry(on, r) == [enabled |-> on, rules |-> r]
Configs == [Names -> Entries \cup {Absent}]
AdminSteps == {"idle", "holding", "saving", "merged", "emptied"}
IdleAdmin == [step |-> "idle", wanted |-> Absent, text |-> Absent, edited |-> {}, stale |-> FALSE]

AdminTypeOK ==
    /\ file \in [state : {"whole", "empty", "mangled"}, ingests : Configs]
    /\ admins \in [Admins -> [step : AdminSteps, wanted : Configs \cup {Absent}, text : Configs \cup {Absent},
                              edited : SUBSET Names, stale : BOOLEAN]]
    /\ edits \in 0..MaxEdits
    /\ asked \in Configs
    /\ undone \in SUBSET Names

\* Config.Validate: "at least one ingest is required".
Valid(c) == \E n \in Names : c[n] # Absent

Loads(f) == f.state = "whole" /\ Valid(f.ingests)

\* What config.Load and FindIngest make of the file.
View(f) ==
    IF ~Loads(f) THEN "broken" ELSE IF f.ingests[Main] = Absent THEN "missing" ELSE "ok"

\* Slip: a merge that keeps a dropped ingest.
MergedKeepingDropped(f, c) ==
    [n \in Names |-> IF f.state = "whole" /\ c[n] = Absent THEN f.ingests[n] ELSE c[n]]

(***************************************************************************)
(* mergeYAML: an ingest is kept, added or dropped as the copy says, and    *)
(* its fields take the copy's values; but a map keeps the keys the copy no *)
(* longer has.  Nothing can be merged into an empty file.                  *)
(***************************************************************************)
Merged(f, c) ==
    [n \in Names |->
        IF f.state = "whole" /\ c[n] # Absent /\ f.ingests[n] # Absent
        THEN [c[n] EXCEPT !.rules = @ \cup f.ingests[n].rules]
        ELSE c[n]]

AdminInit ==
    /\ RuntimeInit
    /\ file = [state |-> "whole",
               ingests |-> [n \in Names |-> Entry(TRUE, RuleKeys)]]
    /\ admins = [a \in Admins |-> IdleAdmin]
    /\ edits = MaxEdits
    /\ asked = file.ingests
    /\ undone = {}

(***************************************************************************)
(* The requests, up to the save: config.Load and the change of the copy.   *)
(* A file that does not load refuses them all.                             *)
(***************************************************************************)
Save(a, copy, edited, stale) ==
    admins' = [admins EXCEPT ![a] =
        [IdleAdmin EXCEPT !.step = "saving", !.wanted = copy, !.edited = edited, !.stale = stale]]

Change(a, n, entry) ==
    /\ admins[a].step = "idle"
    /\ edits > 0 /\ edits' = edits - 1
    /\ Loads(file)
    /\ Save(a, [file.ingests EXCEPT ![n] = entry], {n}, FALSE)
    /\ UNCHANGED <<runtimeVars, file, asked, undone>>

Create(a, n) ==
    /\ file.ingests[n] = Absent
    /\ \E on \in BOOLEAN, r \in SUBSET RuleKeys : Change(a, n, Entry(on, r))

Update(a, n) ==
    /\ file.ingests[n] # Absent
    /\ \E on \in BOOLEAN, r \in SUBSET RuleKeys : Change(a, n, Entry(on, r))

SetEnabled(a, n) ==
    /\ file.ingests[n] # Absent
    /\ \E on \in BOOLEAN : Change(a, n, [file.ingests[n] EXCEPT !.enabled = on])

UpdateArchivePolicy(a, n) ==
    /\ file.ingests[n] # Absent
    /\ \E policy \in SUBSET RuleKeys : Change(a, n, [file.ingests[n] EXCEPT !.rules = policy])

Delete(a, n) ==
    /\ file.ingests[n] # Absent
    /\ \E other \in Names \ {n} : file.ingests[other] # Absent
    /\ Change(a, n, Absent)

\* The client keeps what it got for as long as it likes, then sends it changed.
ConfigGet(a) ==
    /\ admins[a].step = "idle"
    /\ edits > 0 /\ edits' = edits - 1
    /\ Loads(file)
    /\ admins' = [admins EXCEPT ![a] = [IdleAdmin EXCEPT !.step = "holding", !.wanted = file.ingests]]
    /\ UNCHANGED <<runtimeVars, file, asked, undone>>

ConfigUpdate(a) ==
    /\ admins[a].step = "holding"
    /\ \E n \in Names, on \in BOOLEAN, r \in SUBSET RuleKeys, keep \in BOOLEAN :
        LET c == [admins[a].wanted EXCEPT ![n] = IF keep THEN Entry(on, r) ELSE Absent] IN
            IF Valid(c)
            THEN Save(a, c, Names, admins[a].stale)
            ELSE admins' = [admins EXCEPT ![a] = IdleAdmin]
    /\ UNCHANGED <<runtimeVars, file, edits, asked, undone>>

(***************************************************************************)
(* config.Save.                                                            *)
(***************************************************************************)
Unreadable(state) == [state |-> state, ingests |-> [n \in Names |-> Absent]]

FileBecomes(f) ==
    /\ file' = f
    /\ config' = View(f)
    /\ UNCHANGED <<runs, ingestJobs, workers, callers, ingested, lost, faults, fireVars>>

MergeIntoOriginal(a) ==
    /\ admins[a].step = "saving"
    /\ admins' = [admins EXCEPT ![a] =
        IF file.state = "mangled" THEN IdleAdmin
        ELSE [@ EXCEPT !.step = "merged", !.text = Merged(file, admins[a].wanted)]]
    /\ UNCHANGED <<runtimeVars, file, edits, asked, undone>>

EmptyFile(a) ==
    /\ admins[a].step = "merged"
    /\ FileBecomes(Unreadable("empty"))
    /\ admins' = [admins EXCEPT ![a].step = "emptied"]
    /\ UNCHANGED <<edits, asked, undone>>

\* Over what another save wrote since the file was emptied, the longer text's
\* end stays behind the shorter one.
WriteFile(a) ==
    /\ admins[a].step = "emptied"
    /\ \/ FileBecomes([state |-> "whole", ingests |-> admins[a].text])
       \/ file.state # "empty" /\ FileBecomes(Unreadable("mangled"))
    /\ asked' = [n \in Names |-> IF n \in admins[a].edited THEN admins[a].wanted[n] ELSE asked[n]]
    /\ undone' = IF admins[a].stale THEN undone \cup (Names \ admins[a].edited)
                                    ELSE undone \ admins[a].edited
    /\ admins' = [b \in Admins |->
        IF b = a THEN IdleAdmin ELSE [admins[b] EXCEPT !.stale = admins[b].step # "idle"]]
    /\ UNCHANGED edits

\* Reading or writing fails, or the process dies; the client may also give up.
SaveFails(a) ==
    /\ admins[a].step # "idle"
    /\ admins' = [admins EXCEPT ![a] = IdleAdmin]
    /\ UNCHANGED <<runtimeVars, file, edits, asked, undone>>

Request(a) ==
    \/ \E n \in Names : Create(a, n) \/ Update(a, n) \/ SetEnabled(a, n)
                            \/ UpdateArchivePolicy(a, n) \/ Delete(a, n)
    \/ ConfigGet(a) \/ ConfigUpdate(a)
    \/ MergeIntoOriginal(a) \/ EmptyFile(a) \/ WriteFile(a) \/ SaveFails(a)

AdminNext ==
    \/ \E a \in Admins : Request(a)
    \/ RuntimeStep /\ UNCHANGED adminVars

AdminSpec == AdminInit /\ [][AdminNext]_allAdminVars

(***************************************************************************)
(* Properties.                                                             *)
(***************************************************************************)
SameIngest(e, f) == (e = Absent) = (f = Absent) /\ (e # Absent => e.enabled = f.enabled)

(***************************************************************************)
(* A file that is whole loads, and it has the ingests the requests asked   *)
(* for, enabled or not as they asked, one edit after the other: however    *)
(* requests overlap, only a save whose request had read the file before    *)
(* another save ended may undo what that one did, and only to ingests it   *)
(* did not edit itself (config.Save, IngestAdminService,                   *)
(* handleConfigUpdate).                                                    *)
(***************************************************************************)
EditsAddUp ==
    file.state = "whole" =>
        /\ Loads(file)
        /\ \A n \in Names \ undone : SameIngest(file.ingests[n], asked[n])

(***************************************************************************)
(* "omitted fields are cleared, not preserved": a saved ingest has the     *)
(* rules it was saved with and no other (Update,                           *)
(* service/ingest_admin.go:139-142).                                       *)
(***************************************************************************)
OmittedIsCleared ==
    file.state = "whole" => \A n \in Names \ undone : file.ingests[n] = asked[n]
===============================================================================
