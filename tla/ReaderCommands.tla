--------------------------- MODULE ReaderCommands ---------------------------
(***************************************************************************)
(* The commands a reader sends about one fragment                          *)
(* (internal/repository/reader_commands.go and                             *)
(* internal/service/reader_commands.go), for the one principal the API     *)
(* uses.  A local command (tags, notes, reading state) is one transaction; *)
(* an external one (asset acquisition, route, materialize) reserves a      *)
(* receipt, acts outside that transaction and finalizes the receipt, so    *)
(* the client's repetitions, a crash or a cancelled request can come in    *)
(* between.                                                                *)
(*                                                                         *)
(* A command is named by its id; the idempotency key is a second name of   *)
(* the same command, and a request that reuses one of the two for another  *)
(* content is refused and changes nothing, so it is not a step.            *)
(***************************************************************************)
EXTENDS Naturals, FiniteSets

CONSTANTS Commands,        \* command identities the client uses
          Handlers,        \* HTTP requests being served at the same time
          WritesOf,        \* WritesOf[c]: the contents the client may send as c
          Positions,       \* reading positions owned by the current revision
          NoCommand, NoPosition, NoBody, NoReceipt,
          MaxFaults        \* cancelled requests, failed writes and crashes

Local == {"add_tag", "remove_tag", "append_capture_note", "update_curated_note",
          "set_reading_progress", "mark_read", "mark_unread"}
Effects == {"route", "materialize"}
Kinds == Local \cup Effects \cup {"request_asset_acquisition"}
Terminal == {"succeeded", "failed", "uncertain"}
Writes == UNION {WritesOf[c] : c \in Commands}
Receipts == [write : Writes, state : Terminal \cup {"pending", "executing"}, revision : Nat]
Calls == [command : Commands \cup {NoCommand},
          step : {"idle", "reserved", "claimed", "finished"},
          outcome : Terminal \cup {"none"}]

ASSUME CommandConstants ==
    /\ MaxFaults \in Nat
    /\ NoCommand \notin Commands /\ NoPosition \notin Positions /\ NoReceipt \notin Receipts
    /\ \A c \in Commands : \A w \in WritesOf[c] :
           /\ w.kind \in Kinds
           /\ w.expected \in Nat /\ w.seen \in Nat      \* expected_revision, expected_note_revision

VARIABLES
    receipts,      \* reader_command_receipts (with its effect row) by command id
    aggregate,     \* reader_command_aggregates: the revision the reader shows
    overlay,       \* reader_tag_overlay_events
    reading,       \* reading_states
    note,          \* curated_notes
    annotations,   \* capture_annotations appended by commands
    custody,       \* custody of the asset the commands ask for
    acquired,      \* asset_acquisition_requests: commands recorded there
    calls,         \* what each handler is doing
    invoked,       \* history: times the effect of a command was invoked
    unsettled,     \* history: commands whose handler was lost before it finalized
    misreported,   \* history: acquisitions reported failed by a transient error
    faults

stores == <<aggregate, overlay, reading, note, annotations>>
history == <<invoked, unsettled, misreported, faults>>
vars == <<receipts, stores, custody, acquired, calls, history>>

Idle == [command |-> NoCommand, step |-> "idle", outcome |-> "none"]
Receipt(w, state, revision) == [write |-> w, state |-> state, revision |-> revision]
Known(c) == receipts[c] # NoReceipt
Settled(c) == Known(c) /\ receipts[c].state \in Terminal
Custodies == {"reference", "cache", "mirror", "adopted"}

TypeOK ==
    /\ receipts \in [Commands -> Receipts \cup {NoReceipt}]
    /\ aggregate \in Nat
    /\ calls \in [Handlers -> Calls]
    /\ invoked \in [Commands -> Nat]

Init ==
    /\ receipts = [c \in Commands |-> NoReceipt]
    /\ aggregate = 0 /\ overlay = {} /\ annotations = {}
    /\ reading = [status |-> "unread", position |-> NoPosition, revision |-> 0]
    /\ note = [body |-> NoBody, revision |-> 0]
    /\ custody = "reference" /\ acquired = {}
    /\ calls = [h \in Handlers |-> Idle]
    /\ invoked = [c \in Commands |-> 0]
    /\ unsettled = {} /\ misreported = {} /\ faults = MaxFaults

(***************************************************************************)
(* ApplyLocal: one BEGIN IMMEDIATE transaction.  A command that changes    *)
(* nothing still leaves a receipt; a refused one leaves none.              *)
(***************************************************************************)
\* findReaderCommandReceipt found neither name; the aggregate gate lets a
\* stale view through (adding a tag commutes) and refuses an invented one.
New(c, w) ==
    /\ ~Known(c)
    /\ w.expected <= aggregate

\* The command's receipt, the bump of the aggregate if it changed something.
Succeed(c, w, changed) ==
    /\ aggregate' = IF changed THEN aggregate + 1 ELSE aggregate
    /\ receipts' = [receipts EXCEPT ![c] = Receipt(w, "succeeded", aggregate')]
    /\ UNCHANGED <<custody, acquired, calls, history>>

\* The newest overlay event of a tag, as a set of at most one.
Newest(tag) ==
    {e \in overlay : e.tag = tag /\ \A f \in overlay : f.tag = tag => f.revision <= e.revision}

\* applyReaderTagOn.  Removing must have seen the current aggregate.
ApplyTag(c, w) ==
    LET action == IF w.kind = "add_tag" THEN "add" ELSE "suppress"
        changed == \A e \in Newest(w.arg) : e.action # action
    IN  /\ w.kind \in {"add_tag", "remove_tag"} /\ New(c, w)
        /\ w.kind = "remove_tag" => w.expected = aggregate
        /\ overlay' = IF changed
                      THEN overlay \cup {[command |-> c, tag |-> w.arg, action |-> action,
                                          revision |-> aggregate + 1]}
                      ELSE overlay
        /\ Succeed(c, w, changed)
        /\ UNCHANGED <<reading, note, annotations>>

\* appendReaderCaptureNoteOn: an annotation id is bound once.
AppendCaptureNote(c, w) ==
    /\ w.kind = "append_capture_note" /\ New(c, w)
    /\ w.arg \notin annotations
    /\ annotations' = annotations \cup {w.arg}
    /\ Succeed(c, w, TRUE)
    /\ UNCHANGED <<overlay, reading, note>>

\* updateReaderCuratedNoteOn: compared with the note's own revision.
UpdateCuratedNote(c, w) ==
    /\ w.kind = "update_curated_note" /\ New(c, w)
    /\ w.seen = note.revision
    /\ LET changed == note.revision = 0 \/ note.body # w.arg
       IN  /\ note' = IF changed THEN [body |-> w.arg, revision |-> note.revision + 1] ELSE note
           /\ Succeed(c, w, changed)
    /\ UNCHANGED <<overlay, reading, annotations>>

\* The reading state a command asks for; marking read keeps the position.
Asked(w) ==
    CASE w.kind = "set_reading_progress" -> [status |-> "in_progress", position |-> w.arg]
      [] w.kind = "mark_read"   -> [status |-> "read", position |-> reading.position]
      [] w.kind = "mark_unread" -> [status |-> "unread", position |-> NoPosition]

\* applyReadingStateOn: the expected revision is the one of the reading state,
\* behind the gate that compares the same number with the aggregate.
ApplyReading(c, w) ==
    /\ w.kind \in {"set_reading_progress", "mark_read", "mark_unread"} /\ New(c, w)
    /\ w.expected = reading.revision
    /\ LET changed == Asked(w) # [status |-> reading.status, position |-> reading.position]
       IN  /\ reading' = [status |-> Asked(w).status, position |-> Asked(w).position,
                          revision |-> reading.revision + (IF changed THEN 1 ELSE 0)]
           /\ Succeed(c, w, changed)
    /\ UNCHANGED <<overlay, note, annotations>>

ApplyLocal(c, w) ==
    ApplyTag(c, w) \/ AppendCaptureNote(c, w) \/ UpdateCuratedNote(c, w) \/ ApplyReading(c, w)

(***************************************************************************)
(* External commands: reserve, (claim,) act, finalize.                     *)
(***************************************************************************)
Serve(h, c, step) ==
    calls' = [calls EXCEPT ![h] = [command |-> c, step |-> step, outcome |-> "none"]]
Leave(h) == calls' = [calls EXCEPT ![h] = Idle]
Finish(h, outcome) ==
    calls' = [calls EXCEPT ![h] = [command |-> calls[h].command, step |-> "finished", outcome |-> outcome]]

\* reserveExternal: the receipt and the effect intent in one transaction.  The
\* aggregate is not bumped before the command is finalized.
Reserve(h, c, w) ==
    /\ calls[h] = Idle
    /\ w.kind \notin Local /\ New(c, w)
    /\ w.kind \in Effects => w.expected = aggregate
    /\ receipts' = [receipts EXCEPT ![c] = Receipt(w, "pending", aggregate)]
    /\ Serve(h, c, "reserved")
    /\ UNCHANGED <<stores, custody, acquired, history>>

\* The client repeats a command whose receipt is still pending and this request
\* takes it up; any other receipt is the answer and the request changes nothing.
Resume(h, c) ==
    /\ calls[h] = Idle
    /\ Known(c) /\ receipts[c].state = "pending"
    /\ Serve(h, c, "reserved")
    /\ UNCHANGED <<receipts, stores, custody, acquired, history>>

\* Slip: every request that comes with a reserved command invokes its effect.
ClaimAlways(h) ==
    LET c == calls[h].command IN
    /\ calls[h].step = "reserved" /\ receipts[c].write.kind \in Effects
    /\ receipts' = [receipts EXCEPT ![c].state =
                        IF @ = "pending" THEN "executing" ELSE @]
    /\ Serve(h, c, "claimed")
    /\ UNCHANGED <<stores, custody, acquired, history>>

\* ClaimEffect: only one of the requests that saw "pending" gets the effect.
ClaimEffect(h) ==
    LET c == calls[h].command IN
    /\ calls[h].step = "reserved" /\ receipts[c].write.kind \in Effects
    /\ IF receipts[c].state = "pending"
       THEN /\ receipts' = [receipts EXCEPT ![c].state = "executing"]
            /\ Serve(h, c, "claimed")
       ELSE Leave(h) /\ UNCHANGED receipts
    /\ UNCHANGED <<stores, custody, acquired, history>>

\* RouteFragment or MaterializeFragmentToDestinationID: it succeeds, fails, or
\* the request is cancelled meanwhile and nobody knows.
InvokeEffect(h) ==
    /\ calls[h].step = "claimed"
    /\ invoked' = [invoked EXCEPT ![calls[h].command] = @ + 1]
    /\ \E outcome \in Terminal : Finish(h, outcome)
    /\ UNCHANGED <<receipts, stores, custody, acquired, unsettled, misreported, faults>>

CustodyMayBecome(current, requested) ==
    \/ current = requested
    \/ current = "reference"
    \/ current = "cache" /\ requested = "mirror"

\* Slip: a repeated acquisition command is judged again.
AcquireAnew(h) ==
    LET c == calls[h].command
        requested == receipts[c].write.arg
    IN  /\ calls[h].step = "reserved" /\ receipts[c].write.kind = "request_asset_acquisition"
        /\ IF CustodyMayBecome(custody, requested)
           THEN custody' = requested /\ acquired' = acquired \cup {c} /\ Finish(h, "succeeded")
           ELSE UNCHANGED <<custody, acquired>> /\ Finish(h, "failed")
        /\ UNCHANGED <<receipts, stores, history>>

\* AssetAcquisitionService.Request, a transaction of its own: a command already
\* recorded there is answered as before, a new one may be refused.
RequestAcquisition(h) ==
    LET c == calls[h].command
        requested == receipts[c].write.arg
    IN  /\ calls[h].step = "reserved" /\ receipts[c].write.kind = "request_asset_acquisition"
        /\ IF c \in acquired
           THEN UNCHANGED <<custody, acquired>> /\ Finish(h, "succeeded")
           ELSE IF CustodyMayBecome(custody, requested)
           THEN custody' = requested /\ acquired' = acquired \cup {c} /\ Finish(h, "succeeded")
           ELSE UNCHANGED <<custody, acquired>> /\ Finish(h, "failed")
        /\ UNCHANGED <<receipts, stores, history>>

\* Slip: a failed effect returns its error before the receipt is finalized.
FinalizeSuccessOnly(h) ==
    LET c == calls[h].command IN
    /\ calls[h].step = "finished"
    /\ IF Settled(c) \/ calls[h].outcome # "succeeded"
       THEN UNCHANGED <<aggregate, receipts>>
       ELSE /\ aggregate' = aggregate + 1
            /\ receipts' = [receipts EXCEPT ![c].state = "succeeded", ![c].revision = aggregate + 1]
    /\ Leave(h)
    /\ UNCHANGED <<overlay, reading, note, annotations, custody, acquired, history>>

\* FinalizeExternal: the first outcome stays and gets a revision of its own.
FinalizeExternal(h) ==
    LET c == calls[h].command IN
    /\ calls[h].step = "finished"
    /\ IF Settled(c)
       THEN UNCHANGED <<aggregate, receipts>>
       ELSE /\ aggregate' = aggregate + 1
            /\ receipts' = [receipts EXCEPT ![c] = Receipt(@.write, calls[h].outcome, aggregate + 1)]
    /\ Leave(h)
    /\ UNCHANGED <<overlay, reading, note, annotations, custody, acquired, history>>

(***************************************************************************)
(* What interrupts a request.                                              *)
(***************************************************************************)
Fault == faults > 0 /\ faults' = faults - 1

\* The transaction of the acquisition meets a busy or failing database: any
\* error of Request makes the command a failed one.
AcquisitionFails(h) ==
    LET c == calls[h].command IN
    /\ calls[h].step = "reserved" /\ receipts[c].write.kind = "request_asset_acquisition"
    /\ Fault
    /\ Finish(h, "failed")
    /\ misreported' = misreported \cup {c}
    /\ UNCHANGED <<receipts, stores, custody, acquired, invoked, unsettled>>

\* A handler ends before it finalizes: the client has gone and its context is
\* cancelled, or the claim or the finalization cannot be written.
Cancelled(h) ==
    /\ calls[h] # Idle /\ Fault
    /\ unsettled' = unsettled \cup {calls[h].command}
    /\ Leave(h)
    /\ UNCHANGED <<receipts, stores, custody, acquired, invoked, misreported>>

\* The process dies: every request it serves is gone.
Crash ==
    /\ Fault
    /\ unsettled' = unsettled \cup {calls[h].command : h \in {g \in Handlers : calls[g] # Idle}}
    /\ calls' = [h \in Handlers |-> Idle]
    /\ UNCHANGED <<receipts, stores, custody, acquired, invoked, misreported>>

Advance(h) ==
    ClaimEffect(h) \/ InvokeEffect(h) \/ RequestAcquisition(h) \/ FinalizeExternal(h)

Next ==
    \/ \E c \in Commands : \E w \in WritesOf[c] : ApplyLocal(c, w)
    \/ \E h \in Handlers, c \in Commands : \E w \in WritesOf[c] : Reserve(h, c, w)
    \/ \E h \in Handlers, c \in Commands : Resume(h, c)
    \/ \E h \in Handlers : Advance(h) \/ AcquisitionFails(h) \/ Cancelled(h)
    \/ Crash

Spec == Init /\ [][Next]_vars

\* A request that is not cancelled runs to its end; clients owe nothing.
FairSpec == Spec /\ \A h \in Handlers : WF_vars(Advance(h))

(***************************************************************************)
(* Properties.                                                             *)
(***************************************************************************)
\* A route or a materialization is invoked at most once per command, however
\* often the client repeats it and wherever the server stops (ClaimEffect; the
\* schema promises it of a crash).
EffectAtMostOnce == \A c \in Commands : invoked[c] <= 1

\* The receipt of an acquisition says what the acquisition table holds: success
\* only if the request is there, and failure only if it is not, unless one of
\* two concurrent requests met a transient error.
ReceiptMatchesAcquisition ==
    \A c \in Commands : Known(c) /\ receipts[c].write.kind = "request_asset_acquisition" =>
        /\ receipts[c].state = "succeeded" => c \in acquired
        /\ receipts[c].state = "failed" /\ c \in acquired => c \in misreported

\* A settled receipt keeps its outcome and its revision, whichever of several
\* requests comes back later (FinalizeExternal's terminal replay).
SettledIsFinal ==
    [][\A c \in Commands : Settled(c) => receipts'[c] = receipts[c]]_vars

\* A reserved command settles unless the request that served it was lost; the
\* code has no recovery that takes it up again.
ReservedSettles ==
    \A c \in Commands :
        (Known(c) /\ ~Settled(c)) ~> (Settled(c) \/ c \in unsettled)
=============================================================================
