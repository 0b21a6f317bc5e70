----------------------------- MODULE CodexCapture -----------------------------
(***************************************************************************)
(* The import of one Codex rollout file (internal/ingest/codex): a file of *)
(* records that grows while it is read, from the place the last import     *)
(* reached or, where that no longer fits, from its beginning.  What an     *)
(* append means depends on what was read before it, and the rows of a      *)
(* batch are merged into those that are stored (transcript/derived.go).    *)
(*                                                                         *)
(* A record is one line.  Messages come twice in many files, as response   *)
(* items and as events; models, times, sizes and excerpts are left out.    *)
(* Imports of one file do not overlap here, and the window before the      *)
(* cursor is taken to tell whether the file still begins with what was     *)
(* read: TranscriptImport is about either.                                 *)
(***************************************************************************)
EXTENDS Naturals, FiniteSets, SequencesExt

CONSTANTS
    Threads, Texts, ToolCalls, Amounts,   \* threads, messages, tool calls, usage rows
    Records,         \* the records that may be appended
    Rollouts,        \* the files to begin with
    OtherRollouts,   \* the files a sync may put in the place of this one
    HeaderLines,     \* how far readHeader looks
    Unset, MaxRolloutChanges

RolloutRecord ==
    [what : {"session_meta"}, thread : Threads, parent : Threads \cup {Unset}, fork : Threads \cup {Unset}]
        \cup [what : {"message"}, text : Texts, role : {"user", "assistant"}]
        \cup [what : {"event"}, text : Texts]
        \cup [what : {"reasoning", "invalid"}]
        \cup [what : {"call"}, id : ToolCalls]
        \cup [what : {"output", "end"}, id : ToolCalls, failed : BOOLEAN]
        \cup [what : {"usage", "count"}, amount : Amounts]

RolloutCursor == [read : Seq(RolloutRecord), thread : Threads, line : Nat, open : BOOLEAN]

ASSUME CodexAssumption ==
    /\ Records \subseteq RolloutRecord /\ Rollouts \cup OtherRollouts \subseteq Seq(RolloutRecord)
    /\ Unset \notin Threads \cup RolloutCursor /\ HeaderLines \in Nat

VARIABLES
    rollout,         \* the records in the file
    ending,          \* its last line: "whole", "cut" off, or whole but for its newline ("open")
    rolloutCursor,   \* tx_cursors row: what was read, and the thread it is stored under
    stored,          \* the rows of each thread
    rolloutImport,   \* what an ingest run is doing with the file
    cuts,            \* history: how much had been read when the batches of this thread ended
    header,          \* history: the session records that readHeader saw at last
    rolloutChanges

rolloutVars == <<rollout, ending, rolloutChanges>>
codexVars == <<rolloutVars, rolloutCursor, stored, rolloutImport, cuts, header>>

NoRows == [turns |-> {}, tools |-> <<>>, usage |-> {}, parent |-> Unset]
IdleImport == [step |-> "idle", hadCursor |-> FALSE, base |-> Unset, batch |-> Unset, header |-> <<>>]

CodexInit ==
    /\ rollout \in Rollouts /\ ending = "whole" /\ rolloutChanges = 0
    /\ rolloutCursor = Unset /\ rolloutImport = IdleImport /\ cuts = {} /\ header = <<>>
    /\ stored = [t \in Threads |-> NoRows]

(***************************************************************************)
(* The file.                                                               *)
(***************************************************************************)
Changes == rolloutChanges < MaxRolloutChanges /\ rolloutChanges' = rolloutChanges + 1

AppendRecord ==
    /\ Changes /\ ending = "whole"
    /\ \E r \in Records : rollout' = Append(rollout, r)
    /\ ending' \in {"whole", "cut", "open"}
    /\ UNCHANGED <<rolloutCursor, stored, rolloutImport, cuts, header>>

FinishRecord ==
    /\ ending # "whole" /\ ending' = "whole"
    /\ UNCHANGED <<rollout, rolloutCursor, stored, rolloutImport, cuts, header, rolloutChanges>>

ReplaceRollout ==
    /\ Changes
    /\ rollout' \in OtherRollouts \ {rollout} /\ ending' = "whole"
    /\ UNCHANGED <<rolloutCursor, stored, rolloutImport, cuts, header>>

\* A last line that is not yet a record is left for the next import.
RolloutLines == IF ending = "cut" THEN Front(rollout) ELSE rollout

(***************************************************************************)
(* What a sequence of records says.                                        *)
(***************************************************************************)
Those(rs, kinds) == {i \in DOMAIN rs : rs[i].what \in kinds}
Metas(rs) == [i \in Those(rs, {"session_meta"}) |-> rs[i]]

\* The first of the session records names the file's thread, records of others
\* are its ancestry, and another record of the thread replaces the first.
FirstMeta(metas) == metas[Min(DOMAIN metas)]
ParentOf(metas) ==
    LET own == Max({i \in DOMAIN metas : metas[i].thread = FirstMeta(metas).thread})
        given == IF metas[own].parent # Unset THEN metas[own].parent ELSE metas[own].fork
        later == {i \in DOMAIN metas : i > own}
    IN  IF given # Unset THEN given
        ELSE IF later # {} THEN metas[Min(later)].thread ELSE Unset

Header == Metas(SubSeq(RolloutLines, 1, Min({Len(RolloutLines), HeaderLines})))

\* The session records but the first.
Ancestry(metas) == DOMAIN metas \ {Min(DOMAIN metas)}
readHeader(metas) ==
    IF DOMAIN metas = {} THEN Unset
    ELSE IF FirstMeta(metas).parent # Unset THEN FirstMeta(metas).parent
    ELSE IF Ancestry(metas) # {} THEN metas[Min(Ancestry(metas))].thread ELSE FirstMeta(metas).fork

\* Events repeat response items: they count where there are none of these.
Messages(rs) == IF Those(rs, {"message"}) # {} THEN Those(rs, {"message"}) ELSE Those(rs, {"event"})

HasThinking(rs, i) ==
    /\ rs[i].what = "message" /\ rs[i].role = "assistant"
    /\ \E j \in 1..(i - 1) :
           /\ rs[j].what = "reasoning"
           /\ \A k \in (j + 1)..(i - 1) : rs[k].what = "message" => rs[k].role # "assistant"

\* The rows are named after their lines, of which firstLine came before.
Turns(rs, firstLine) ==
    {[id |-> firstLine + i, text |-> rs[i].text, thinking |-> HasThinking(rs, i)] : i \in Messages(rs)}

\* A call goes with the message before it.
TurnOf(rs, firstLine, i) ==
    LET earlier == {j \in Those(rs, {"message"}) : j < i}
    IN  IF earlier = {} THEN 0 ELSE firstLine + (CHOOSE j \in earlier : \A k \in earlier : k <= j)

\* A result that failed says that the call did.
Outcome(rs, id) ==
    LET results == {i \in Those(rs, {"output", "end"}) : rs[i].id = id}
    IN  IF results = {} THEN "none" ELSE IF \E i \in results : rs[i].failed THEN "error" ELSE "ok"

Tool(rs, firstLine, id) ==
    LET named == {i \in Those(rs, {"call"}) : rs[i].id = id}
    IN  [turn |-> IF named = {} THEN 0
                  ELSE TurnOf(rs, firstLine, CHOOSE i \in named : \A j \in named : j <= i),
         status |-> Outcome(rs, id)]

Tools(rs, firstLine) ==
    [id \in {rs[i].id : i \in Those(rs, {"call", "output", "end"})} |-> Tool(rs, firstLine, id)]

\* Records of single responses beat the running counts.
Usage(rs) ==
    LET kind == IF Those(rs, {"usage"}) # {} THEN "usage" ELSE "count"
    IN  {[kind |-> kind, amount |-> rs[i].amount] : i \in Those(rs, {kind})}

(***************************************************************************)
(* collectSegment.                                                         *)
(***************************************************************************)
ImportGoes(r) == rolloutImport' = r /\ UNCHANGED <<rolloutVars, rolloutCursor, stored, cuts, header>>

RolloutContinues == rolloutCursor # Unset /\ IsPrefix(rolloutCursor.read, RolloutLines)

LookUp ==
    /\ rolloutImport = IdleImport
    /\ ImportGoes([IdleImport EXCEPT !.step = "parse", !.hadCursor = rolloutCursor # Unset,
                                     !.base = IF RolloutContinues THEN rolloutCursor ELSE Unset])

ReadBefore == IF rolloutImport.base = Unset THEN <<>> ELSE rolloutImport.base.read
Got == SubSeq(RolloutLines, Len(ReadBefore) + 1, Len(RolloutLines))

\* The newline that a line lacked when it was read is an empty line now.
FirstLine ==
    IF rolloutImport.base = Unset THEN 0
    ELSE rolloutImport.base.line + (IF rolloutImport.base.open THEN 1 ELSE 0)
NothingNew ==
    /\ Got = <<>>
    /\ rolloutImport.base # Unset =>
           Len(RolloutLines) < Len(ReadBefore) \/ rolloutImport.base.open = (ending = "open")

Thread ==
    IF rolloutImport.base # Unset THEN rolloutImport.base.thread
    ELSE IF DOMAIN Metas(Got) = {} THEN Unset ELSE FirstMeta(Metas(Got)).thread

\* Which of the two streams a file uses is settled over the whole file.
OnlyEvents == rolloutImport.base # Unset /\ Those(Got, {"message"}) = {} /\ Those(Got, {"event"}) # {}

\* A record that cannot be read costs the file its place in this run.
Rejected == Those(Got, {"invalid"}) # {}

RolloutBatch(read, firstLine, got) ==
    [thread |-> Thread, turns |-> Turns(got, firstLine), tools |-> Tools(got, firstLine), usage |-> Usage(got),
     parent |-> IF rolloutImport.base = Unset THEN ParentOf(Metas(got)) ELSE Unset,
     cursor |-> [read |-> read \o got, thread |-> Thread,
                 line |-> firstLine + Len(got), open |-> ending = "open"]]

ParseRollout ==
    /\ rolloutImport.step = "parse"
    /\ IF Rejected \/ NothingNew THEN ImportGoes(IdleImport)
       ELSE IF OnlyEvents THEN ImportGoes([rolloutImport EXCEPT !.base = Unset])
       ELSE IF Thread = Unset \/ (rolloutImport.base = Unset /\ Messages(Got) = {}) THEN ImportGoes(IdleImport)
       ELSE ImportGoes([rolloutImport EXCEPT !.step = IF rolloutImport.base = Unset THEN "accept" ELSE "header",
                                             !.batch = RolloutBatch(ReadBefore, FirstLine, Got)])

\* The header is in the part that was read earlier.
ReadHeader ==
    /\ rolloutImport.step = "header"
    /\ ImportGoes([rolloutImport EXCEPT !.step = "accept", !.header = Header,
                                        !.batch.parent = readHeader(Header)])

\* Slip: the rows stay when the whole file is read again for its events.
ResetsForCursor == rolloutImport.hadCursor /\ ~RolloutContinues
ResetsRollout == rolloutImport.hadCursor /\ rolloutImport.base = Unset

\* applyDetail: turns are kept as they were first stored, calls are merged.
MergedTurns(old, new) == old \cup {t \in new : \A o \in old : o.id # t.id}
MergedTools(old, new) ==
    [id \in DOMAIN old \cup DOMAIN new |->
        IF id \notin DOMAIN old THEN new[id]
        ELSE IF id \notin DOMAIN new THEN old[id]
        ELSE [turn |-> IF new[id].turn # 0 THEN new[id].turn ELSE old[id].turn,
              status |-> IF new[id].status # "none" THEN new[id].status ELSE old[id].status]]

AcceptRollout ==
    /\ rolloutImport.step = "accept"
    /\ LET b == rolloutImport.batch
           old == IF ResetsRollout THEN [stored[b.thread] EXCEPT !.turns = {}, !.tools = <<>>, !.usage = {}]
                  ELSE stored[b.thread]
       IN  /\ stored' = [stored EXCEPT ![b.thread] =
                  [turns |-> MergedTurns(old.turns, b.turns), tools |-> MergedTools(old.tools, b.tools),
                   usage |-> old.usage \cup b.usage, parent |-> b.parent]]
           /\ rolloutCursor' = b.cursor
           /\ cuts' = IF rolloutImport.base = Unset THEN {} ELSE cuts \cup {Len(rolloutImport.base.read)}
           /\ header' = rolloutImport.header
    /\ rolloutImport' = IdleImport
    /\ UNCHANGED rolloutVars

\* The run dies, or its transaction fails.
AbandonImport == rolloutImport # IdleImport /\ ImportGoes(IdleImport)

CodexNext ==
    \/ AppendRecord \/ FinishRecord \/ ReplaceRollout
    \/ LookUp \/ ParseRollout \/ ReadHeader \/ AcceptRollout \/ AbandonImport

CodexSpec == CodexInit /\ [][CodexNext]_codexVars

(***************************************************************************)
(* What is stored of the thread is what one read of all its records would  *)
(* have given, in however many batches they were read, whatever was half   *)
(* written or replaced, and whichever imports died (collectSegment,        *)
(* parseRollout and applyDetail).  What a cut between two batches really   *)
(* changes is excepted:                                                    *)
(*   - events that were read before the first response item stay, although *)
(*     the items repeat them;                                              *)
(*   - counts that were read without a record of a response stay or come   *)
(*     on top of the records;                                              *)
(*   - reasoning is forgotten where the message it led to is read later;   *)
(*   - a result counts for nothing once another batch brings one;          *)
(*   - the parent is read off the header of the file as it is then, where  *)
(*     a second record of the thread itself, or of another thread than the *)
(*     one it was forked from, is taken for the parent's.                  *)
(***************************************************************************)
Before(rs, c, kinds) == {i \in Those(rs, kinds) : i <= c}
After(rs, c, kinds) == {i \in Those(rs, kinds) : i > c}
EventsFirst(rs, ends) ==
    \E c \in ends : /\ Before(rs, c, {"message"}) = {} /\ Before(rs, c, {"event"}) # {}
                    /\ After(rs, c, {"message"}) # {}
CountsApart(rs, ends) == ends # {} /\ Those(rs, {"usage"}) # {}
ReasoningApart(rs, ends, i) == \E c \in ends : c < i /\ Before(rs, c, {"reasoning"}) # {}
ResultsApart(rs, ends, id) ==
    \E i, j \in Those(rs, {"output", "end"}), c \in ends : rs[i].id = id /\ rs[j].id = id /\ i <= c /\ c < j
HeaderTells(metas) ==
    /\ header = metas
    /\ \A i \in Ancestry(metas) : metas[i].thread # FirstMeta(metas).thread
    /\ Ancestry(metas) # {} => FirstMeta(metas).fork \in {Unset, metas[Min(Ancestry(metas))].thread}

TurnsAreStored(rs, rows, ends) ==
    LET whole == Turns(rs, 0)
    IN  \A t \in Texts :
            /\ Cardinality({r \in rows : r.text = t}) = Cardinality({r \in whole : r.text = t})
            /\ (\E r \in rows : r.text = t /\ r.thinking) => \E r \in whole : r.text = t /\ r.thinking
            /\ (\E i \in Messages(rs) : rs[i].text = t /\ HasThinking(rs, i) /\ ~ReasoningApart(rs, ends, i))
                   => \E r \in rows : r.text = t /\ r.thinking

ToolsAreStored(rs, rows, ends) ==
    /\ DOMAIN rows = DOMAIN Tools(rs, 0)
    /\ \A id \in DOMAIN rows :
           /\ rows[id].status = "none" <=> Outcome(rs, id) = "none"
           /\ rows[id].status = "error" => Outcome(rs, id) = "error"
           /\ ~ResultsApart(rs, ends, id) => rows[id].status = Outcome(rs, id)

RolloutIsStored ==
    rolloutCursor # Unset =>
        LET read == rolloutCursor.read
            rows == stored[rolloutCursor.thread]
            metas == Metas(read)
        IN  /\ EventsFirst(read, cuts) \/ TurnsAreStored(read, rows.turns, cuts)
            /\ ToolsAreStored(read, rows.tools, cuts)
            /\ Usage(read) \subseteq rows.usage
            /\ CountsApart(read, cuts) \/ rows.usage = Usage(read)
            /\ (cuts = {} \/ HeaderTells(metas)) => rows.parent = ParentOf(metas)
================================================================================
