-------------------------- MODULE AntigravityCapture --------------------------
(***************************************************************************)
(* The import of one Antigravity conversation (internal/ingest/            *)
(* antigravity): a database of numbered steps, of which a sync puts a new  *)
(* snapshot in place whenever the producer has gone on.  A step that runs  *)
(* may still change; the cursor is the first step that has not been        *)
(* consumed, and the identity of the last one that has been.               *)
(*                                                                         *)
(* A snapshot is replaced, never rewritten, so a database that is open     *)
(* stays as it is; its size and time together are its stamp.  Models,      *)
(* usage, thinking and tool output are left out, and a step is what it     *)
(* does to the rows: a turn, whose text is partial while it runs and which *)
(* may make a call, or the execution of a call.  Brain artifacts are read  *)
(* whole and keep no state.                                                *)
(***************************************************************************)
EXTENDS Naturals, Sequences

CONSTANTS
    Calls, Absent,
    BatchSteps,    \* maxBatchSteps
    MaxSteps, MaxChanges

\* A step that is running or aborted may still change; of one that stopped it is
\* not known how (status 4 or 5 without error details).
Outcomes == {"done", "failed"}
Statuses == {"running", "aborted", "stopped"} \cup Outcomes
\* A step's uuid and its time of creation tell it from others of its number.
Steps == [what : {"turn", "execution", "unsupported"}, call : Calls \cup {Absent},
          status : Statuses, born : Nat]
nonTerminal(s) == s.status \in {"running", "aborted"}

AntigravityAssumption == BatchSteps \in Nat \ {0} /\ Absent \notin Calls \cup Nat

VARIABLES
    steps,     \* the snapshot in place
    pending,   \* is there a WAL or a journal with data next to it?
    stamp,     \* its size and time
    cursor,    \* tx_cursors row: [next, digest, stamp]
    turns,     \* tx_turns: the text of each stored step
    results,   \* tx_tool_calls: the result of each stored call
    reader,    \* what an ingest run is doing with the conversation
    early,     \* history: steps that ran when they were stored
    passed     \* history: steps that ran when they were consumed, because others followed them

antigravityVars == <<steps, pending, stamp, cursor, turns, results, reader, early, passed>>

IdleReader == [step |-> "idle", stamp |-> 0, cursor |-> Absent, from |-> Absent, batch |-> <<>>, partial |-> FALSE]

AntigravityInit ==
    /\ steps = <<>> /\ pending = FALSE /\ stamp = 1
    /\ cursor = Absent /\ turns = <<>> /\ results = <<>>
    /\ reader = IdleReader /\ early = {} /\ passed = {}

(***************************************************************************)
(* Snapshots.                                                              *)
(***************************************************************************)
Synced(snapshot) ==
    /\ stamp <= MaxChanges /\ stamp' = stamp + 1
    /\ steps' = snapshot /\ pending' \in BOOLEAN
    /\ UNCHANGED <<cursor, turns, results, reader, early, passed>>

MadeStep(what, call, status) == [what |-> what, call |-> call, status |-> status, born |-> stamp]

NewStep ==
    /\ Len(steps) < MaxSteps
    /\ \E what \in {"turn", "execution", "unsupported"}, status \in {"running", "done"} :
       \E call \in IF what = "turn" THEN Calls \cup {Absent} ELSE IF what = "execution" THEN Calls ELSE {Absent} :
           Synced(Append(steps, MadeStep(what, call, status)))

StepChanges ==
    \E i \in DOMAIN steps, status \in Statuses \ {"running"} :
        nonTerminal(steps[i]) /\ status # steps[i].status /\ Synced([steps EXCEPT ![i].status = status])

\* The conversation is taken up again from an earlier step.
TakenBack == \E i \in DOMAIN steps : Synced(SubSeq(steps, 1, i - 1))

Checkpoint ==
    /\ pending /\ pending' = FALSE
    /\ UNCHANGED <<steps, stamp, cursor, turns, results, reader, early, passed>>

(***************************************************************************)
(* captureConversation.                                                    *)
(***************************************************************************)
ReaderGoes(r) == reader' = r /\ UNCHANGED <<steps, pending, stamp, cursor, turns, results, early, passed>>

snapshotReady == ~pending
Unchanged == cursor # Absent /\ cursor.stamp = stamp

OpenSnapshot ==
    /\ reader = IdleReader
    /\ snapshotReady /\ ~Unchanged
    /\ ReaderGoes([IdleReader EXCEPT !.step = "read", !.stamp = stamp, !.cursor = cursor])

digest(i) == steps[i].born
CursorStands(c) == c # Absent /\ c.next > 1 /\ c.next - 1 \in DOMAIN steps /\ digest(c.next - 1) = c.digest

\* A pass reads so many steps; where more remain, the next one goes on.
LoadSteps ==
    /\ reader.step = "read"
    /\ LET from == IF CursorStands(reader.cursor) THEN reader.cursor.next ELSE 1
           all == SubSeq(steps, from, Len(steps))
           partial == Len(all) > BatchSteps
       IN  IF all = <<>> THEN ReaderGoes(IdleReader)
           ELSE ReaderGoes([reader EXCEPT !.step = "check", !.from = IF CursorStands(reader.cursor) THEN from ELSE Absent,
                                    !.batch = IF partial THEN SubSeq(all, 1, BatchSteps) ELSE all,
                                    !.partial = partial])

\* A database that has been replaced or written to in the meantime ends the run
\* or is left for the next one.
Check ==
    /\ reader.step = "check"
    /\ ReaderGoes(IF snapshotReady /\ reader.stamp = stamp THEN [reader EXCEPT !.step = "accept"] ELSE IdleReader)

Incremental == reader.from # Absent
First == IF Incremental THEN reader.from ELSE 1
Number(i) == First + i - 1
Batch == reader.batch

text(s) == IF nonTerminal(s) THEN "partial" ELSE "whole"
TurnRows == [n \in {Number(i) : i \in {j \in DOMAIN Batch : Batch[j].what = "turn"}} |-> text(Batch[n - First + 1])]

\* toolResult: a turn names its calls; an execution tells of one where it is done or
\* has error details, which an aborted one has.  Any other leaves the call as it was.
Known(s) == s.status \in Outcomes \cup {"aborted"}
outcome(s) == IF s.status = "done" THEN "done" ELSE "failed"
Named == {Batch[i].call : i \in {j \in DOMAIN Batch : Batch[j].what = "turn"}} \ {Absent}
Told(call) == {i \in DOMAIN Batch : Batch[i].what = "execution" /\ Batch[i].call = call /\ Known(Batch[i])}
ToolRows ==
    [c \in Named \cup {d \in Calls : Told(d) # {}} |->
        IF Told(c) = {} THEN "none" ELSE outcome(Batch[CHOOSE i \in Told(c) : \A j \in Told(c) : j <= i])]

\* Slip: all that was read is consumed.
ConsumedWhole == Len(Batch)
\* The steps at the end of the log that may still change are read again.
Consumed ==
    IF reader.partial THEN Len(Batch)
    ELSE CHOOSE n \in 0..Len(Batch) :
             /\ \A i \in (n + 1)..Len(Batch) : nonTerminal(Batch[i])
             /\ n > 0 => ~nonTerminal(Batch[n])

nextCursor ==
    IF Consumed = 0
    THEN [next |-> First, digest |-> IF Incremental THEN reader.cursor.digest ELSE Absent]
    ELSE [next |-> Number(Consumed) + 1, digest |-> Batch[Consumed].born]

Resets == reader.cursor # Absent /\ ~Incremental

\* applyDetail: what is stored of a turn stands; a result is filled in.
Accept ==
    /\ reader.step = "accept"
    /\ LET oldTurns == IF Resets THEN <<>> ELSE turns
           oldResults == IF Resets THEN <<>> ELSE results
           running == {Number(i) : i \in {j \in DOMAIN Batch : nonTerminal(Batch[j])}}
           followed == {Number(i) : i \in {j \in DOMAIN Batch : \/ reader.partial
                                             \/ \E k \in DOMAIN Batch : k > j /\ ~nonTerminal(Batch[k])}}
       IN  /\ turns' = [n \in DOMAIN oldTurns \cup DOMAIN TurnRows |->
                  IF n \in DOMAIN oldTurns THEN oldTurns[n] ELSE TurnRows[n]]
           /\ results' = [c \in DOMAIN oldResults \cup DOMAIN ToolRows |->
                  IF c \notin DOMAIN ToolRows THEN oldResults[c]
                  ELSE IF c \in DOMAIN oldResults /\ ToolRows[c] = "none" THEN oldResults[c]
                  ELSE ToolRows[c]]
           /\ early' = (IF Resets THEN {} ELSE early) \cup (running \ DOMAIN oldTurns)
           /\ passed' = (IF Resets THEN {} ELSE passed) \cup (running \cap followed)
    /\ cursor' = [next |-> nextCursor.next, digest |-> nextCursor.digest,
                  stamp |-> IF reader.partial THEN 0 ELSE reader.stamp]
    /\ reader' = IdleReader
    /\ UNCHANGED <<steps, pending, stamp>>

\* The run dies, or its transaction fails.
GiveUp == reader # IdleReader /\ ReaderGoes(IdleReader)

AntigravityNext ==
    \/ NewStep \/ StepChanges \/ TakenBack \/ Checkpoint
    \/ OpenSnapshot \/ LoadSteps \/ Check \/ Accept \/ GiveUp

AntigravitySpec == AntigravityInit /\ [][AntigravityNext]_antigravityVars

(***************************************************************************)
(* "Steps in a trailing run with status 2, 6 or 7 (running or aborted) are *)
(* not consumed, so they are read again once the producer has synced their *)
(* final state" (capture.go): while the last consumed step is in place,    *)
(* every consumed step is stored as it is now, and what became of a call   *)
(* is known from a step that executed it, unless none of its executions    *)
(* tells: one that stopped leaves its call as it was.  Excepted are a turn *)
(* that was first read while it ran, which keeps the text it had then      *)
(* although it is read again, and a step that ran while another behind it  *)
(* had ended or the batch went on: it is consumed as it was.               *)
(***************************************************************************)
ConversationIsStored ==
    CursorStands(cursor) =>
        \A n \in 1..(cursor.next - 1) \ passed :
            /\ ~nonTerminal(steps[n])
            /\ steps[n].what = "turn" =>
                   /\ n \in DOMAIN turns
                   /\ n \notin early => turns[n] = "whole"
                   /\ steps[n].call # Absent => steps[n].call \in DOMAIN results
            /\ steps[n].what = "execution" /\ steps[n].status \in Outcomes =>
                   steps[n].call \in DOMAIN results /\ results[steps[n].call] # "none"
================================================================================
