----------------------------- MODULE Publication -----------------------------
(***************************************************************************)
(* What a delivery does to its destination, step by step: the executors of *)
(* ingest/destination_writer.go and the bundle of ffs/writer.go, run by    *)
(* the ingest pass, the queue drainer and the manual routing alike, and    *)
(* the rows of repository/attachments.go that remember where an attachment *)
(* was published.                                                          *)
(*                                                                         *)
(* A destination of kind "file" gets a directory: fragment.md, emptied and *)
(* written, then a copy of each local attachment.  A "bundle" (provider    *)
(* ffs) has its attachments copied first, from where they were published   *)
(* before or else from their source, and an error there leaves only that   *)
(* attachment out.  A "remote" destination (mcp, api, cli, callback) gets  *)
(* a call.                                                                 *)
(* Who delivers what, and what becomes of a failed delivery, is            *)
(* RouteDelivery.                                                          *)
(***************************************************************************)
EXTENDS Integers, FiniteSets

CONSTANTS
    Fragments, Attachments, Destinations, Publishers, Places,
    Nowhere, NotAttached,
    KindOf,         \* destination -> "file", "bundle" or "remote"
    PlaceOf,        \* <<destination, fragment>> -> the directory written
    MaxDeliveries,  \* bound on the deliveries begun
    MaxChanges,     \* bound on new texts and attachment lists
    MaxAttempts,    \* of a remote destination's retry configuration
    MaxFailures     \* calls, writes and processes that fail

PublicationAssumption ==
    /\ {Nowhere, NotAttached} \cap Places = {}
    /\ KindOf \in [Destinations -> {"file", "bundle", "remote"}]
    /\ PlaceOf \in [Destinations \X Fragments -> Places]
    /\ MaxDeliveries \in Nat /\ MaxChanges \in Nat /\ MaxAttempts \in Nat \ {0} /\ MaxFailures \in Nat

VARIABLES
    text,        \* fragment -> its current text
    attached,    \* fragment_attachments: fragment, attachment -> storage_path
    sources,     \* attachments whose source file is still there
    places,      \* directory -> its fragment.md and its attachments
    publishers,  \* who is delivering, and how far it is
    standing,    \* directory -> what its last delivery put there
    disturbed,   \* directories where a delivery failed or two overlapped since
    received,    \* remote destination, fragment -> copies it accepted
    delivered,   \* destination, fragment -> deliveries that were logged
    failures,    \* failures left
    deliveries   \* deliveries left to begin

publicationVars == <<text, attached, sources, places, publishers, standing,
                     disturbed, received, delivered, failures, deliveries>>

Texts == 0..MaxChanges
Ready == [step |-> "ready", f |-> Nowhere, d |-> Nowhere, text |-> 0, from |-> Nowhere, todo |-> {},
          done |-> {}, at |-> Nowhere, calls |-> 0, thorough |-> TRUE]
Untouched == [text |-> "none", copies |-> [a \in Attachments |-> "none"]]

Place(u) == PlaceOf[publishers[u].d, publishers[u].f]
Kind(u) == KindOf[publishers[u].d]
Writes(d) == KindOf[d] \in {"file", "bundle"}
At(p) == {u \in Publishers : publishers[u].step # "ready" /\ Writes(publishers[u].d) /\ Place(u) = p}
HasAttached(f) == {a \in Attachments : attached[f][a] # NotAttached}
Failure == failures > 0 /\ failures' = failures - 1

PublicationInit ==
    /\ text = [f \in Fragments |-> 0]
    /\ attached = [f \in Fragments |-> [a \in Attachments |-> Nowhere]]
    /\ sources = Attachments
    /\ places = [p \in Places |-> Untouched]
    /\ publishers = [u \in Publishers |-> Ready]
    /\ standing = [p \in Places |-> Nowhere]
    /\ disturbed = {}
    /\ received = [d \in Destinations |-> [f \in Fragments |-> 0]]
    /\ delivered = [d \in Destinations |-> [f \in Fragments |-> 0]]
    /\ failures = MaxFailures
    /\ deliveries = MaxDeliveries

(***************************************************************************)
(* What happens to a fragment meanwhile.                                   *)
(***************************************************************************)
Revise(f) ==
    /\ text[f] < MaxChanges
    /\ text' = [text EXCEPT ![f] = @ + 1]
    /\ UNCHANGED <<attached, sources, places, publishers, standing, disturbed,
                   received, delivered, failures, deliveries>>

\* The rows are deleted and written anew, so what was published is forgotten.
ReplaceAttachments(f) ==
    /\ text[f] > 0
    /\ \E S \in SUBSET Attachments :
        attached' = [attached EXCEPT ![f] = [a \in Attachments |-> IF a \in S THEN Nowhere ELSE NotAttached]]
    /\ UNCHANGED <<text, sources, places, publishers, standing, disturbed,
                   received, delivered, failures, deliveries>>

SourceVanishes(a) ==
    /\ a \in sources /\ sources' = sources \ {a}
    /\ UNCHANGED <<text, attached, places, publishers, standing, disturbed,
                   received, delivered, failures, deliveries>>

(***************************************************************************)
(* A delivery, from the reads of its caller to its entry in route_log.     *)
(***************************************************************************)
Goes(u, to) == publishers' = [publishers EXCEPT ![u] = to]

FirstStep == [file |-> "opening", bundle |-> "copying", remote |-> "calling"]

Deliver(u, f, d) ==
    LET p == PlaceOf[d, f]
        others == IF Writes(d) THEN At(p) ELSE {}
    IN  /\ publishers[u].step = "ready"
        /\ deliveries > 0 /\ deliveries' = deliveries - 1
        /\ publishers' = [v \in Publishers |->
               IF v = u THEN [Ready EXCEPT !.step = FirstStep[KindOf[d]], !.f = f, !.d = d,
                                  !.text = text[f], !.from = attached[f], !.todo = HasAttached(f),
                                  !.thorough = others = {}]
               ELSE IF v \in others THEN [publishers[v] EXCEPT !.thorough = FALSE]
               ELSE publishers[v]]
        /\ disturbed' = IF others = {} THEN disturbed ELSE disturbed \cup {p}
    /\ UNCHANGED <<text, attached, sources, places, standing, received, delivered, failures>>

OnlyFiles == UNCHANGED <<text, attached, sources, standing, disturbed, received, delivered, failures, deliveries>>

\* os.WriteFile truncates fragment.md, then writes it.
EmptyText(u) ==
    /\ publishers[u].step = "opening"
    /\ places' = [places EXCEPT ![Place(u)].text = "cut"]
    /\ Goes(u, [publishers[u] EXCEPT !.step = "writing"])
    /\ OnlyFiles

WriteText(u) ==
    /\ publishers[u].step = "writing"
    /\ places' = [places EXCEPT ![Place(u)].text = <<publishers[u].f, publishers[u].text>>]
    /\ Goes(u, [publishers[u] EXCEPT !.step = IF Kind(u) = "file" THEN "copying" ELSE "recording"])
    /\ OnlyFiles

\* The file a copy is made from: a bundle prefers what was published before.
From(u, a) == IF Kind(u) = "bundle" THEN publishers[u].from[a] ELSE Nowhere
Readable(u, a) ==
    LET q == From(u, a) IN
        IF q \in Places THEN places[q].copies[a] # "none" ELSE a \in sources

BeginCopy(u, a) ==
    /\ publishers[u].step = "copying" /\ a \in publishers[u].todo
    /\ Readable(u, a)
    /\ From(u, a) # Place(u)
    /\ places' = [places EXCEPT ![Place(u)].copies[a] = "cut"]
    /\ Goes(u, [publishers[u] EXCEPT !.step = "filling", !.todo = @ \ {a}, !.at = a])
    /\ OnlyFiles

\* What another delivery has only half written is copied as it is.
Filled(u, a) ==
    LET q == From(u, a) IN
        IF q \in Places /\ places[q].copies[a] # "whole" THEN "short" ELSE "whole"

EndCopy(u) ==
    LET a == publishers[u].at IN
    /\ publishers[u].step = "filling"
    /\ places' = [places EXCEPT ![Place(u)].copies[a] = Filled(u, a)]
    /\ Goes(u, [publishers[u] EXCEPT !.step = "copying", !.done = @ \cup {a}, !.at = Nowhere])
    /\ OnlyFiles

\* copyFileIfNeeded finds size and time unchanged, as it does for sure when the
\* published file is itself the source.
CopyNotNeeded(u, a) ==
    /\ publishers[u].step = "copying" /\ Kind(u) = "bundle" /\ a \in publishers[u].todo
    /\ Readable(u, a)
    /\ From(u, a) = Place(u) \/ places[Place(u)].copies[a] = "whole"
    /\ Goes(u, [publishers[u] EXCEPT !.todo = @ \ {a}, !.done = @ \cup {a},
                                     !.thorough = @ /\ From(u, a) # Place(u)])
    /\ UNCHANGED places /\ OnlyFiles

CannotCopy(u, a) ==
    \/ publishers[u].step = "filling" /\ a = publishers[u].at /\ Failure
    \/ /\ publishers[u].step = "copying" /\ a \in publishers[u].todo
       /\ \/ ~Readable(u, a) /\ UNCHANGED failures
          \/ Readable(u, a) /\ Failure

\* Slip: the attachment counts as published though its copy failed.
LeaveOutAsPublished(u, a) ==
    /\ CannotCopy(u, a) /\ Kind(u) = "bundle"
    /\ Goes(u, [publishers[u] EXCEPT !.step = "copying", !.todo = @ \ {a}, !.at = Nowhere,
                                     !.done = @ \cup {a}])
    /\ UNCHANGED <<text, attached, sources, places, standing, disturbed, received, delivered, deliveries>>

\* What was published here before stays as it was, whole or not.
LeaveOut(u, a) ==
    /\ CannotCopy(u, a) /\ Kind(u) = "bundle"
    /\ Goes(u, [publishers[u] EXCEPT !.step = "copying", !.todo = @ \ {a}, !.at = Nowhere,
                                     !.thorough = @ /\ From(u, a) # Place(u)])
    /\ UNCHANGED <<text, attached, sources, places, standing, disturbed, received, delivered, deliveries>>

Copied(u) ==
    /\ publishers[u].step = "copying" /\ publishers[u].todo = {}
    /\ Goes(u, [publishers[u] EXCEPT !.step = IF Kind(u) = "file" THEN "recording" ELSE "opening"])
    /\ UNCHANGED places /\ OnlyFiles

\* UpdateFragmentAttachmentStoragePaths: the rows that are still there.
RecordPaths(u) ==
    LET w == publishers[u] IN
    /\ w.step = "recording"
    /\ attached' = [attached EXCEPT ![w.f] = [a \in Attachments |->
           IF a \in w.done /\ @[a] # NotAttached THEN Place(u) ELSE @[a]]]
    /\ Goes(u, [w EXCEPT !.step = "logging"])
    /\ UNCHANGED <<text, sources, places, standing, disturbed, received, delivered, failures, deliveries>>

LogDelivery(u) ==
    LET w == publishers[u] IN
    /\ w.step = "logging"
    /\ delivered' = [delivered EXCEPT ![w.d][w.f] = @ + 1]
    /\ IF Writes(w.d)
       THEN /\ standing' = [standing EXCEPT ![Place(u)] =
                                [f |-> w.f, text |-> w.text, copies |-> w.done]]
            /\ disturbed' = IF w.thorough THEN disturbed \ {Place(u)} ELSE disturbed
       ELSE UNCHANGED <<standing, disturbed>>
    /\ Goes(u, Ready)
    /\ UNCHANGED <<text, attached, sources, places, received, failures, deliveries>>

\* An error or the death of the process; nothing is cleaned up.  A file
\* destination gives up without another's doing when a source is gone.
GiveUp(u) ==
    LET w == publishers[u] IN
    /\ w.step # "ready"
    /\ \/ Failure
       \/ /\ Kind(u) = "file" /\ UNCHANGED failures
          /\ \E a \in Attachments : CannotCopy(u, a) /\ ~Readable(u, a)
    /\ disturbed' = IF Writes(w.d) THEN disturbed \cup {Place(u)} ELSE disturbed
    /\ Goes(u, Ready)
    /\ UNCHANGED <<text, attached, sources, places, standing, received, delivered, deliveries>>

(***************************************************************************)
(* A remote destination.  An error of the transport, a 429 or a 5xx may be *)
(* retried (markRetryable), whether or not the other side had acted on the *)
(* call; a refusal may not.                                                *)
(***************************************************************************)
Arrives(u) == received' = [received EXCEPT ![publishers[u].d][publishers[u].f] = @ + 1]

RetryOrFail(u) ==
    LET w == publishers[u] IN
        \/ w.calls + 1 < MaxAttempts /\ Goes(u, [w EXCEPT !.calls = @ + 1])
        \/ Goes(u, Ready)

\* Slip: an answer of the other side counts as an error of the transport.
CallRetriesAnswers(u) ==
    /\ publishers[u].step = "calling"
    /\ Arrives(u)
    /\ publishers[u].calls + 1 < MaxAttempts /\ Goes(u, [publishers[u] EXCEPT !.calls = @ + 1])
    /\ UNCHANGED <<text, attached, sources, places, standing, disturbed, delivered, failures, deliveries>>

Call(u) ==
    /\ publishers[u].step = "calling"
    /\ Arrives(u)
    /\ Goes(u, [publishers[u] EXCEPT !.step = "logging"])
    /\ UNCHANGED <<text, attached, sources, places, standing, disturbed, delivered, failures, deliveries>>

CallFails(u) ==
    /\ publishers[u].step = "calling" /\ Failure
    /\ Arrives(u) \/ UNCHANGED received
    /\ RetryOrFail(u)
    /\ UNCHANGED <<text, attached, sources, places, standing, disturbed, delivered, deliveries>>

PublisherStep(u) ==
    \/ \E f \in Fragments, d \in Destinations : Deliver(u, f, d)
    \/ EmptyText(u) \/ WriteText(u) \/ EndCopy(u) \/ Copied(u)
    \/ \E a \in Attachments : BeginCopy(u, a) \/ CopyNotNeeded(u, a) \/ LeaveOut(u, a)
    \/ RecordPaths(u) \/ LogDelivery(u) \/ GiveUp(u)
    \/ Call(u) \/ CallFails(u)

PublicationNext ==
    \/ \E u \in Publishers : PublisherStep(u)
    \/ \E f \in Fragments : Revise(f) \/ ReplaceAttachments(f)
    \/ \E a \in Attachments : SourceVanishes(a)

PublicationSpec == PublicationInit /\ [][PublicationNext]_publicationVars

CopyStates == {"none", "cut", "short", "whole"}
PlaceRows == [text : {"none", "cut"} \cup (Fragments \X Texts), copies : [Attachments -> CopyStates]]
PathRows == [Attachments -> Places \cup {Nowhere, NotAttached}]
PublisherRows ==
    [step : {"ready", "opening", "writing", "copying", "filling", "recording", "logging", "calling"},
     f : Fragments \cup {Nowhere}, d : Destinations \cup {Nowhere}, text : Texts,
     from : PathRows \cup {Nowhere}, todo : SUBSET Attachments, done : SUBSET Attachments,
     at : Attachments \cup {Nowhere}, calls : Nat, thorough : BOOLEAN]

PublicationTypeOK ==
    /\ text \in [Fragments -> Texts]
    /\ attached \in [Fragments -> PathRows]
    /\ sources \subseteq Attachments
    /\ places \in [Places -> PlaceRows]
    /\ publishers \in [Publishers -> PublisherRows]
    /\ standing \in [Places -> [f : Fragments, text : Texts, copies : SUBSET Attachments] \cup {Nowhere}]
    /\ disturbed \subseteq Places
    /\ received \in [Destinations -> [Fragments -> Nat]]
    /\ delivered \in [Destinations -> [Fragments -> Nat]]
    /\ failures \in 0..MaxFailures
    /\ deliveries \in 0..MaxDeliveries

\* A path template may send two fragments to one directory.
OfOne(p) ==
    \A f, g \in Fragments, d, e \in Destinations : PlaceOf[d, f] = p /\ PlaceOf[e, g] = p => f = g
Calm(p) == OfOne(p) /\ At(p) = {} /\ p \notin disturbed

(***************************************************************************)
(* A directory of one fragment holds what its last delivery put there,     *)
(* text and copies, and an attachment is recorded where its copy is, as    *)
(* long as nobody is delivering there, and nobody gave up there or         *)
(* overlapped with another since the last delivery that made every copy    *)
(* itself (FileDestinationExecutor, WritePinterestPinBundle).  The copy of *)
(* a copy that was just being written is short, and nobody notices.        *)
(***************************************************************************)
PublicationStands ==
    \A p \in Places : Calm(p) =>
        /\ standing[p] # Nowhere =>
               /\ places[p].text = <<standing[p].f, standing[p].text>>
               /\ \A a \in standing[p].copies : places[p].copies[a] \in {"short", "whole"}
        /\ \A f \in Fragments, a \in Attachments :
               attached[f][a] = p => places[p].copies[a] \in {"short", "whole"}

(***************************************************************************)
(* A remote destination accepts a fragment once per delivery: what it got  *)
(* beyond the deliveries that are logged is no more than the calls and     *)
(* processes that failed after it had acted (ExecuteDestinationWithRetry). *)
(***************************************************************************)
RemoteCopiesAreAccounted ==
    \A d \in Destinations, f \in Fragments :
        received[d][f] <= delivered[d][f] + (MaxFailures - failures)
            + Cardinality({u \in Publishers : /\ publishers[u].step = "logging"
                                              /\ publishers[u].d = d /\ publishers[u].f = f})
=============================================================================
