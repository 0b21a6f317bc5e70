--------------------------- MODULE TranscriptImport ---------------------------
(***************************************************************************)
(* The import of one growing session file into the private transcript      *)
(* store (internal/ingest/claude, internal/transcript/derived.go and       *)
(* store.go).  A tool appends to the file, or a sync truncates and         *)
(* replaces it, while ingest runs look up the stored cursor, read on from  *)
(* it and accept what they read in one transaction.  Two ingest runs may   *)
(* overlap: a scheduled one and one asked for by hand.                     *)
(*                                                                         *)
(* The unit is the line.  Every line is an event with an id of its own;    *)
(* offsets count lines, and the tail digest covers the last Window lines   *)
(* before the offset.                                                      *)
(***************************************************************************)
EXTENDS Naturals, FiniteSets, SequencesExt

CONSTANTS Lines,           \* the events the file may hold
          Importers,       \* ingest runs that may work at the same time
          Window,          \* lines the tail digest covers (tailWindow bytes)
          NoCursor,
          MaxChanges,      \* times the file is appended to or replaced
          MaxFaults        \* runs that die, rejected records, failed transactions

ASSUME ImportConstants ==
    /\ Window \in Nat \ {0} /\ MaxChanges \in Nat /\ MaxFaults \in Nat
    /\ IsFiniteSet(Lines)

VARIABLES
    file,        \* the lines in the file
    half,        \* is the last of them still being written?
    turns,       \* tx_turns of the session: ids of the stored lines
    cursor,      \* tx_cursors row of the file
    importers,   \* what each run is doing with the file
    undercut,    \* history: lines were accepted on top of rows that another run had dropped
    crossed,     \* history: lines were accepted on a cursor that another run had moved
    changes, faults

vars == <<file, half, turns, cursor, importers, undercut, crossed, changes, faults>>

Files == SetToAllKPermutations(Lines) \cup {<<>>}
\* A cursor: its offset is the length of "read", the lines it stands for; the
\* code keeps of these only the digest of "tail".
Cursor(read, tail) == [read |-> read, tail |-> tail]
LastLines(s) == IF Len(s) <= Window THEN s ELSE SubSeq(s, Len(s) - Window + 1, Len(s))

Idle == [step |-> "idle", base |-> NoCursor, hadCursor |-> FALSE,
         got |-> <<>>, overtaken |-> FALSE]
\* "base" is where the run starts to read: the stored cursor while it is valid,
\* and NoCursor for the whole file.
Incremental(i) == importers[i].base # NoCursor
Start(i) == IF Incremental(i) THEN importers[i].base.read ELSE <<>>
StartTail(i) == IF Incremental(i) THEN importers[i].base.tail ELSE <<>>

Init ==
    /\ file = <<>> /\ half = FALSE
    /\ turns = {} /\ cursor = NoCursor
    /\ importers = [i \in Importers |-> Idle]
    /\ undercut = FALSE /\ crossed = FALSE
    /\ changes = 0 /\ faults = MaxFaults

store == <<turns, cursor, undercut, crossed>>

(***************************************************************************)
(* The file, which is written by others.                                   *)
(***************************************************************************)
Change == changes < MaxChanges /\ changes' = changes + 1

\* The tool appends a line, in one write or not.
AppendLine ==
    /\ Change /\ ~half
    /\ \E l \in Lines \ ToSet(file) : file' = Append(file, l)
    /\ half' \in BOOLEAN
    /\ UNCHANGED <<store, importers, faults>>

FinishLine ==
    /\ half /\ half' = FALSE
    /\ UNCHANGED <<file, store, importers, changes, faults>>

\* A sync truncates the file, or puts another one in its place.
Replace ==
    /\ Change
    /\ \E f \in Files \ {file} : file' = f
    /\ half' = FALSE
    /\ UNCHANGED <<store, importers, faults>>

\* readLine / parseSegment: an unterminated last line waits for the next run.
WholeLines == IF half THEN Front(file) ELSE file

(***************************************************************************)
(* One ingest run on this file: collectSegment reads the cursor, the       *)
(* window before it and then the file; Accept follows when all files of    *)
(* the source were read.                                                   *)
(***************************************************************************)
\* Slip: a file that is long enough is taken for the one read before.
CursorFits == cursor # NoCursor /\ Len(cursor.read) <= Len(WholeLines)

\* The bytes before the stored offset are those that were read.
CursorValid ==
    /\ cursor # NoCursor
    /\ Len(cursor.read) <= Len(WholeLines)
    /\ LastLines(SubSeq(WholeLines, 1, Len(cursor.read))) = cursor.tail

Look(i) ==
    /\ importers[i] = Idle
    /\ importers' = [importers EXCEPT ![i] =
           [Idle EXCEPT !.step = "looked", !.hadCursor = cursor # NoCursor,
                        !.base = IF CursorValid THEN cursor ELSE NoCursor]]
    /\ UNCHANGED <<file, half, store, changes, faults>>

\* Read to the end of the file as it is now; "unchanged" or "empty" ends here.
Parse(i) ==
    /\ importers[i].step = "looked"
    /\ LET got == SubSeq(WholeLines, Len(Start(i)) + 1, Len(WholeLines))
       IN  importers' = [importers EXCEPT ![i] =
               IF got = <<>> THEN Idle ELSE [@ EXCEPT !.step = "parsed", !.got = got]]
    /\ UNCHANGED <<file, half, store, changes, faults>>

\* Does the acceptance of i drop what is stored of the session?
Resets(i) == importers[i].hadCursor /\ ~Incremental(i)

\* Slip: the cursor is moved in a transaction of its own, before the rows.
AcceptMovesCursorFirst(i) ==
    /\ importers[i].step = "parsed"
    /\ IF cursor # NoCursor /\ cursor.read = Start(i) \o importers[i].got
       THEN /\ turns' = turns \cup ToSet(importers[i].got)
            /\ importers' = [importers EXCEPT ![i] = Idle]
            /\ UNCHANGED cursor
       ELSE /\ cursor' = Cursor(Start(i) \o importers[i].got,
                                LastLines(StartTail(i) \o importers[i].got))
            /\ UNCHANGED <<turns, importers>>
    /\ UNCHANGED <<file, half, undercut, crossed, changes, faults>>

\* acceptDetail and applyDetail: rows and cursor in one transaction; a line
\* that is stored already is left alone.
Accept(i) ==
    /\ importers[i].step = "parsed"
    /\ turns' = (IF Resets(i) THEN {} ELSE turns) \cup ToSet(importers[i].got)
    /\ cursor' = Cursor(Start(i) \o importers[i].got, LastLines(StartTail(i) \o importers[i].got))
    /\ importers' = [j \in Importers |->
           IF j = i THEN Idle
           ELSE IF Resets(i) /\ importers[j] # Idle THEN [importers[j] EXCEPT !.overtaken = TRUE]
           ELSE importers[j]]
    /\ undercut' = (undercut \/ (Incremental(i) /\ importers[i].overtaken))
    /\ crossed' = (crossed \/ (cursor # importers[i].base /\ ~Resets(i)))
    /\ UNCHANGED <<file, half, changes, faults>>

\* The run ends without a trace: the process dies, the file cannot be read, the
\* store refuses the record or its transaction fails.
GiveUp(i) ==
    /\ importers[i] # Idle
    /\ faults > 0 /\ faults' = faults - 1
    /\ importers' = [importers EXCEPT ![i] = Idle]
    /\ UNCHANGED <<file, half, store, changes>>

Import(i) == Look(i) \/ Parse(i) \/ Accept(i)

Next ==
    \/ AppendLine \/ FinishLine \/ Replace
    \/ \E i \in Importers : Import(i) \/ GiveUp(i)

Spec == Init /\ [][Next]_vars

\* A scheduled ingest comes back for as long as the server runs.
FairSpec == Spec /\ \A i \in Importers : WF_vars(Import(i))

(***************************************************************************)
(* Properties.                                                             *)
(***************************************************************************)
\* No line is skipped for good: all that the cursor says was read is stored,
\* however runs overlap and the file is cut or replaced between their steps.  The
\* exception is the lost update of two runs: one reads on from a cursor while
\* another drops the rows before it.
ConsumedIsStored ==
    cursor # NoCursor /\ ~undercut => ToSet(cursor.read) \subseteq turns

\* What the digest cannot tell: the file holds other lines than those that were
\* read, but only farther back from the cursor than the window reaches.
Unnoticed ==
    /\ cursor # NoCursor
    /\ Len(cursor.read) <= Len(WholeLines)
    /\ LET kept == SubSeq(WholeLines, 1, Len(cursor.read)) IN
           kept # cursor.read /\ LastLines(kept) = LastLines(cursor.read)

\* When the file has come to rest, the store ends up with exactly its lines:
\* whatever was truncated, replaced or half written when it was read is noticed
\* and read again.  Excepted are a file rewritten only before the window of the
\* tail digest, which stays unnoticed, and two runs that crossed.  (A file that
\* was emptied keeps its last session.)
StoreCatchesUp ==
    <>[](\/ turns = ToSet(WholeLines) \/ WholeLines = <<>>
         \/ Unnoticed \/ crossed \/ undercut)
=============================================================================
