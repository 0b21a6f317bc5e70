---------------------------- MODULE RouteDelivery ----------------------------
(***************************************************************************)
(* Routing in front of the delivery queue: pipeline workers take a source  *)
(* item through RouteStage and InboxStage (internal/ingest/pipeline.go),   *)
(* people route fragments by hand (internal/service/routing.go), routes    *)
(* and destinations are deleted, and all of them share the fragment's      *)
(* status, the inbox and the queue with the drainers of DeliveryQueue.     *)
(*                                                                         *)
(* A request is one matched route of one version of a fragment's content,  *)
(* or one fragment of one manual call (VersionOf is 0).  A match whose     *)
(* route is not auto_route only writes the route log and is left out.      *)
(***************************************************************************)
EXTENDS DeliveryQueue

CONSTANTS
    Workers, Routers,
    NoFragment,
    VersionOf,      \* the version of its fragment a request routes; 0: manual
    RouteOrder,     \* the place of a request's route in what ListRoutes returns
    Async,          \* the callback destinations
    MaxVersions     \* bound on the contents a source item goes through

ASSUME PipeAssumption ==
    /\ NoFragment \notin Fragments /\ MaxVersions \in Nat
    /\ VersionOf \in [Requests -> 0..MaxVersions]
    /\ RouteOrder \in [Requests -> Nat]
    /\ Async \subseteq Destinations

VARIABLES
    routes,     \* the destinations that still have routes
    versions,   \* fragment -> versions accepted; 0 is a fragment not yet met
    passes,     \* worker -> its StageContext and where it is
    routers,    \* manual caller -> what is left of its call
    asked,      \* manual requests that were made
    cut,        \* fragments one of whose passes ended in an error or a crash
    repeated    \* of those, the ones whose content was ingested again since

pipeVars == <<routes, versions, passes, routers, asked, cut, repeated>>
allVars == <<vars, pipeVars>>

IdlePass == [step |-> "idle", frag |-> NoFragment, version |-> 0,
             todo |-> {}, delivered |-> FALSE, seen |-> "inbox"]
IdleRouter == [step |-> "idle", todo |-> {}, req |-> NoRequest]

PassState == [step : {"idle", "accepted", "matching", "delivered", "clearing", "staging"},
              frag : Fragments \cup {NoFragment}, version : 0..MaxVersions,
              todo : SUBSET Requests, delivered : BOOLEAN, seen : {"inbox", "routed"}]
RouterState == [step : {"idle", "delivering", "acked", "routed"},
                todo : SUBSET Requests, req : MaybeRequest]

PipeTypeOK ==
    /\ TypeOK
    /\ routes \in SUBSET Destinations
    /\ versions \in [Fragments -> 0..MaxVersions]
    /\ passes \in [Workers -> PassState]
    /\ routers \in [Routers -> RouterState]
    /\ asked \in SUBSET Requests
    /\ cut \in SUBSET Fragments
    /\ repeated \in SUBSET cut

PipeInit ==
    /\ QueueInit
    /\ status = [f \in Fragments |-> "inbox"]
    /\ inbox = {}
    /\ dests = Destinations
    /\ routes = Destinations
    /\ versions = [f \in Fragments |-> 0]
    /\ passes = [w \in Workers |-> IdlePass]
    /\ routers = [m \in Routers |-> IdleRouter]
    /\ asked = {}
    /\ cut = {}
    /\ repeated = {}

(***************************************************************************)
(* A pass.  SourceItem's new content is accepted in one transaction; the   *)
(* stages after it work on the fragment as that transaction returned it.   *)
(***************************************************************************)
AcceptVersion(w, f) ==
    /\ passes[w].step = "idle"
    /\ versions[f] < MaxVersions
    /\ versions' = [versions EXCEPT ![f] = @ + 1]
    /\ passes' = [passes EXCEPT ![w] =
          [step |-> "accepted", frag |-> f, version |-> versions[f] + 1,
           todo |-> {}, delivered |-> FALSE, seen |-> status[f]]]
    /\ UNCHANGED <<vars, routes, routers, asked, cut, repeated>>

(***************************************************************************)
(* The next run, or the retry of the job that failed, presents the same    *)
(* content: the acceptance is a replay, the outcome UpsertSkipped, and     *)
(* RouteStage and InboxStage return at once.                               *)
(***************************************************************************)
RepeatVersion(f) ==
    /\ f \in cut \ repeated
    /\ repeated' = repeated \cup {f}
    /\ UNCHANGED <<vars, routes, versions, passes, routers, asked, cut>>

Matches(f, v) ==
    {r \in Requests : FragOf[r] = f /\ VersionOf[r] = v /\ DestOf[r] \in routes}

ListRoutes(w) ==
    /\ passes[w].step = "accepted"
    /\ passes' = [passes EXCEPT ![w] =
          [@ EXCEPT !.step = "matching", !.todo = Matches(passes[w].frag, passes[w].version)]]
    /\ UNCHANGED <<vars, routes, versions, routers, asked, cut, repeated>>

NextMatch(w, r) ==
    /\ passes[w].step = "matching" /\ r \in passes[w].todo
    /\ \A q \in passes[w].todo : RouteOrder[r] <= RouteOrder[q]
MatchDone(w, r) == passes' = [passes EXCEPT ![w].todo = @ \ {r}]
InlineAck(r) ==
    /\ acked' = [acked EXCEPT ![r] = AckUpTo2(@)]
    /\ UNCHANGED <<jobs, dead, drainers, operators, replays, cooling, accepted, purged, faults, routeVars>>

(***************************************************************************)
(* Slips, as in DeliveryQueue.                                             *)
(***************************************************************************)
MatchDeliveredIsTheLast(w, r) ==
    /\ NextMatch(w, r)
    /\ DestOf[r] \in dests \ Async
    /\ InlineAck(r)
    /\ passes' = [passes EXCEPT ![w] = [@ EXCEPT !.todo = {}, !.delivered = TRUE]]
    /\ UNCHANGED <<routes, versions, routers, asked, cut, repeated>>

StageInboxNever(w) ==
    /\ passes[w].step = "staging"
    /\ passes' = [passes EXCEPT ![w] = IdlePass]
    /\ UNCHANGED <<vars, routes, versions, routers, asked, cut, repeated>>

(***************************************************************************)
(* runMatch on the next match.  A callback destination is never called     *)
(* inline; a failed inline delivery goes the same way, to the queue.       *)
(***************************************************************************)
MatchDelivered(w, r) ==
    /\ NextMatch(w, r)
    /\ DestOf[r] \in dests \ Async
    /\ InlineAck(r)
    /\ passes' = [passes EXCEPT ![w] =
          [@ EXCEPT !.todo = passes[w].todo \ {r}, !.delivered = TRUE]]
    /\ UNCHANGED <<routes, versions, routers, asked, cut, repeated>>

MatchQueued(w, r) ==
    /\ NextMatch(w, r)
    /\ DestOf[r] \in dests
    /\ EnqueueDestinationRetry(r)
    /\ MatchDone(w, r)
    /\ UNCHANGED <<routes, versions, routers, asked, cut, repeated>>

\* When the enqueue fails as well, only the route log knows of the match.
MatchOnlyLogged(w, r) ==
    /\ NextMatch(w, r)
    /\ DestOf[r] \in dests
    /\ faults > 0
    /\ faults' = faults - 1
    /\ MatchDone(w, r)
    /\ UNCHANGED <<jobs, dead, drainers, operators, replays, cooling, accepted, acked, purged, routeVars>>
    /\ UNCHANGED <<routes, versions, routers, asked, cut, repeated>>

CutPass(w) ==
    /\ cut' = cut \cup {passes[w].frag}
    /\ passes' = [passes EXCEPT ![w] = IdlePass]

\* GetDestination fails for a destination deleted since ListRoutes.
MatchHasNoDestination(w, r) ==
    /\ NextMatch(w, r)
    /\ DestOf[r] \notin dests
    /\ CutPass(w)
    /\ UNCHANGED <<vars, routes, versions, routers, asked, repeated>>

EndMatches(w) ==
    /\ passes[w].step = "matching" /\ passes[w].todo = {}
    /\ passes' = [passes EXCEPT ![w].step = IF passes[w].delivered THEN "delivered" ELSE "staging"]
    /\ UNCHANGED <<vars, routes, versions, routers, asked, cut, repeated>>

MarkPassRouted(w) ==
    /\ passes[w].step = "delivered"
    /\ status' = [status EXCEPT ![passes[w].frag] = "routed"]
    /\ passes' = [passes EXCEPT ![w] = [@ EXCEPT !.step = "clearing", !.seen = "routed"]]
    /\ UNCHANGED <<queueVars, inbox, dests, routes, versions, routers, asked, cut, repeated>>

ClearPass(w) ==
    /\ passes[w].step = "clearing"
    /\ inbox' = inbox \ {passes[w].frag}
    /\ passes' = [passes EXCEPT ![w].step = "staging"]
    /\ UNCHANGED <<queueVars, status, dests, routes, versions, routers, asked, cut, repeated>>

\* InboxStage goes by the status the pass saw, not by the one in the table.
StageInbox(w) ==
    /\ passes[w].step = "staging"
    /\ inbox' = IF passes[w].seen = "inbox" THEN inbox \cup {passes[w].frag} ELSE inbox
    /\ passes' = [passes EXCEPT ![w] = IdlePass]
    /\ UNCHANGED <<queueVars, status, dests, routes, versions, routers, asked, cut, repeated>>

\* A stage returns an error, or the process dies: the run ends there.
AbandonPass(w) ==
    /\ passes[w].step # "idle"
    /\ faults > 0
    /\ faults' = faults - 1
    /\ CutPass(w)
    /\ UNCHANGED <<jobs, dead, drainers, operators, replays, cooling, accepted, acked, purged, routeVars>>
    /\ UNCHANGED <<routes, versions, routers, asked, repeated>>

(***************************************************************************)
(* Manual routing.  RouteFragment takes one fragment, wherever it is;      *)
(* ApplyRouteByEntity takes what the inbox lists and goes on after an item *)
(* that failed.  Both read the destination once, at the start.             *)
(***************************************************************************)
Manual == {r \in Requests : VersionOf[r] = 0}

StartRouting(m, reqs) ==
    /\ routers[m].step = "idle"
    /\ reqs # {} /\ reqs \subseteq Manual \ asked
    /\ asked' = asked \cup reqs
    /\ routers' = [routers EXCEPT ![m] = [step |-> "delivering", todo |-> reqs, req |-> NoRequest]]
    /\ UNCHANGED <<vars, routes, versions, passes, cut, repeated>>

RouteFragment(m, r) ==
    /\ versions[FragOf[r]] > 0
    /\ DestOf[r] \in routes \cap dests
    /\ StartRouting(m, {r})

ApplyRouteByEntity(m, t) ==
    /\ t \in routes \cap dests
    /\ StartRouting(m, {r \in Manual \ asked : DestOf[r] = t /\ FragOf[r] \in inbox})

After(todo) == IF todo = {} THEN IdleRouter
               ELSE [step |-> "delivering", todo |-> todo, req |-> NoRequest]
ItemDone(m, r) == routers' = [routers EXCEPT ![m] = After(@.todo \ {r})]

ItemDelivered(m, r) ==
    /\ routers[m].step = "delivering" /\ r \in routers[m].todo
    /\ DestOf[r] \notin Async
    /\ InlineAck(r)
    /\ routers' = [routers EXCEPT ![m] = [step |-> "acked", todo |-> @.todo \ {r}, req |-> r]]
    /\ UNCHANGED <<routes, versions, passes, asked, cut, repeated>>

ItemQueued(m, r) ==
    /\ routers[m].step = "delivering" /\ r \in routers[m].todo
    /\ EnqueueDestinationRetry(r)
    /\ ItemDone(m, r)
    /\ UNCHANGED <<routes, versions, passes, asked, cut, repeated>>

ItemFailed(m, r) ==
    /\ routers[m].step = "delivering" /\ r \in routers[m].todo
    /\ faults > 0
    /\ faults' = faults - 1
    /\ ItemDone(m, r)
    /\ UNCHANGED <<jobs, dead, drainers, operators, replays, cooling, accepted, acked, purged, routeVars>>
    /\ UNCHANGED <<routes, versions, passes, asked, cut, repeated>>

MarkItemRouted(m) ==
    /\ routers[m].step = "acked"
    /\ status' = [status EXCEPT ![FragOf[routers[m].req]] = "routed"]
    /\ routers' = [routers EXCEPT ![m].step = "routed"]
    /\ UNCHANGED <<queueVars, inbox, dests, routes, versions, passes, asked, cut, repeated>>

ClearItem(m) ==
    /\ routers[m].step = "routed"
    /\ inbox' = inbox \ {FragOf[routers[m].req]}
    /\ routers' = [routers EXCEPT ![m] = After(@.todo)]
    /\ UNCHANGED <<queueVars, status, dests, routes, versions, passes, asked, cut, repeated>>

AbandonRouting(m) ==
    /\ routers[m].step # "idle"
    /\ faults > 0
    /\ faults' = faults - 1
    /\ routers' = [routers EXCEPT ![m] = IdleRouter]
    /\ UNCHANGED <<jobs, dead, drainers, operators, replays, cooling, accepted, acked, purged, routeVars>>
    /\ UNCHANGED <<routes, versions, passes, asked, cut, repeated>>

(***************************************************************************)
(* DeleteDestination with force: the routes go first, in a write of their  *)
(* own.                                                                    *)
(***************************************************************************)
DeleteRoutesForDestination(t) ==
    /\ t \in routes
    /\ routes' = routes \ {t}
    /\ UNCHANGED <<vars, versions, passes, routers, asked, cut, repeated>>

DropDestination(t) ==
    /\ t \notin routes
    /\ DeleteDestination(t)
    /\ UNCHANGED pipeVars

(***************************************************************************)
(* The specification.                                                      *)
(***************************************************************************)
Pass(w) ==
    \/ \E f \in Fragments : AcceptVersion(w, f)
    \/ ListRoutes(w)
    \/ \E r \in Requests : \/ MatchDelivered(w, r) \/ MatchQueued(w, r) \/ MatchOnlyLogged(w, r)
                           \/ MatchHasNoDestination(w, r)
    \/ EndMatches(w) \/ MarkPassRouted(w) \/ ClearPass(w) \/ StageInbox(w) \/ AbandonPass(w)

Route(m) ==
    \/ \E r \in Requests : RouteFragment(m, r) \/ ItemDelivered(m, r) \/ ItemQueued(m, r) \/ ItemFailed(m, r)
    \/ \E t \in Destinations : ApplyRouteByEntity(m, t)
    \/ MarkItemRouted(m) \/ ClearItem(m) \/ AbandonRouting(m)

PipeNext ==
    \/ \E w \in Workers : Pass(w)
    \/ \E f \in Fragments : RepeatVersion(f)
    \/ \E m \in Routers : Route(m)
    \/ \E t \in Destinations : DeleteRoutesForDestination(t) \/ DropDestination(t)
    \/ QueueNext /\ UNCHANGED pipeVars

PipeSpec == PipeInit /\ [][PipeNext]_allVars

-------------------------------------------------------------------------------
(***************************************************************************)
(* Properties.                                                             *)
(***************************************************************************)
InFlight(f) == \E w \in Workers : passes[w].frag = f

(***************************************************************************)
(* "Nothing gets lost; nothing gets mis-filed silently": between passes, a *)
(* fragment some version of which was accepted waits in the inbox or has   *)
(* been routed, unless a pass on it was cut off; and whoever marked it     *)
(* routed, a drainer, a pass or a person, some destination acknowledged    *)
(* it.                                                                     *)
(***************************************************************************)
FragmentAccounted ==
    \A f \in Fragments :
        /\ versions[f] > 0 /\ ~InFlight(f) =>
               f \in inbox \/ status[f] = "routed" \/ f \in cut
        /\ status[f] = "routed" => \E r \in Requests : FragOf[r] = f /\ acked[r] > 0

(***************************************************************************)
(* "Nothing gets lost" (docs/identity.md:19): a fragment whose pass was    *)
(* cut off is accounted for at the latest when its content has been        *)
(* ingested again.                                                         *)
(***************************************************************************)
NothingGetsLost ==
    \A f \in repeated : ~InFlight(f) =>
        \/ f \in inbox
        \/ status[f] = "routed"
        \/ \E r \in Requests : FragOf[r] = f /\ Kept(r)

(***************************************************************************)
(* A fragment leaves the inbox only after its status says routed: a crash  *)
(* between the two writes never hides an unrouted fragment.                *)
(***************************************************************************)
OnlyRoutedLeaveInbox ==
    [][\A f \in inbox : f \in inbox' \/ status[f] = "routed"]_allVars

(***************************************************************************)
(* Fan-out: when a pass ends, every route that matched was acknowledged or *)
(* queued, not just the first, unless a write failed, the pass was cut off *)
(* or the route was deleted.                                               *)
(***************************************************************************)
EveryMatchGetsATurn ==
    \A r \in Requests \ Manual :
        versions[FragOf[r]] >= VersionOf[r] /\ ~InFlight(FragOf[r]) =>
            \/ acked[r] > 0 \/ r \in accepted
            \/ faults < MaxFaults \/ FragOf[r] \in cut \/ DestOf[r] \notin routes
===============================================================================
