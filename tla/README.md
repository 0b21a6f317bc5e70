# Fragments Engine in TLA+

A formal model of the parts of Fragments Engine where several processes, people,
clients and failures meet: how a fragment gets from ingestion to its
destinations and out of the inbox, how ingest runs are scheduled and settle, how
media, enrichments, commands and transcripts are kept, and what a reader is
shown of it. The modules are translated from the Go source under `internal/`;
TLC checks them on small instances and TLAPS proves the main theorems for
instances of every size. `PROJECT.json` names, for each definition, the lines it
models.

## The system

| Part | State it keeps | Operations | Who else touches that state |
|---|---|---|---|
| Ingest pipeline (`ingest/pipeline.go`) | fragment rows, `fragments.status`, inbox rows, route log | accept an item, then the stages attachment, directive, route, inbox, recall | drainers, people routing by hand, the inbox reviewer |
| Delivery queue (`service/delivery_queue.go`, `app/queue_runtime.go`) | `delivery_jobs`, `delivery_failed_jobs`, `queue_job_events` | enqueue, drain, retry, dead-letter, replay, purge | every process: the server's ticker, CLI and API drains |
| Manual routing (`service/routing.go`) | routes, destinations, and all of the above | RouteFragment, ApplyRouteByEntity, DeleteDestination, MaterializeRoute | pipeline, drainers |
| Destination execution (`ingest/delivery.go`, `destination_writer.go`, `ffs/writer.go`) | directories, published paths of attachments | one delivery with inline retries | called by the three above |
| Ingest runtime (`app/ingest_*.go`, `repository/ingest_*.go`) | schedules, fires, run rows, `ingest_jobs` | fire, dispatch, run, record | several engines and workers |
| Configuration and its administration (`config`, `service/ingest_admin.go`, `api/config_handlers.go`) | the configuration file | load, edit, merge, save | every request, every worker and engine that loads it |
| Fragment identity, intake and review (`repository/fragments.go`, `legacycapture`, `service/inbox_reviewer.go`, `manual_enrichment.go`) | fragments, revisions, metadata, entities, inbox | capture, review, fetch, edit | pipeline, API intake, reviewer, users |
| Store (`store`) | schema, backfills of identities and media | open | every process that starts |
| Capture protocol and media custody (`repository/captures.go`, `capture_protocol.go`, `media.go`, `blobstore`) | attempts, outcomes, reports, variants, blob rows and files | accept, upload, complete, acquire | browser clients that repeat calls |
| Enrichment jobs (`repository/enrichment.go`) | coverage, observations, jobs, attempts, leases | observe, plan, claim, complete, fail | several workers, callers, captures |
| Provider adapters (`provider`) | none; the provider's answers change | identity, metadata, media, manifest | enrichment workers |
| Transcripts (`ingest/claude`, `codex`, `antigravity`, `transcript`, `enrich`) | `transcripts.db`: turns, cursors, results, spend | import, derive, enrich | overlapping ingest and enrichment runs |
| Recall index (`recall`, `service/fragments.go`) | entity rows, links, memory | index, link, edit, review | pipeline, users, reviewer |
| Reader (`repository/reader*.go`, `service/reader*.go`, `api/reader_resources.go`) | command journal, fragment versions | execute a command once, list, show, serve bytes | several browser tabs, captures, deliveries |
| Surfaces (`mcp`, `cmd`, `apps/sysop`, the rest of `api`) | none | decode, authorise, call a service | |

They interact through one SQLite database, the two job tables in it, the
private transcript database, the configuration file and the files under the blob
root and the destinations. A statement or an explicit transaction is atomic;
nothing else is. The queue and scheduler libraries are outside the repository:
they are modelled from how they are opened and called, and from what the
repository's tests ask of them.

What makes the system hard:

* `processJob` makes four writes (status, inbox, delete, log) after an
  acknowledgement that cannot be taken back; `ReplayFailed` makes three.
  Any of them may fail, and the process may die between any two.
* A reservation lapses after 60 seconds whether or not its holder still works,
  and the holder then acts on the row by its id. Leases of enrichment jobs and
  claims of fires lapse in the same way.
* The pipeline keeps the fragment it read at acceptance through all stages,
  while drainers and people change status and inbox underneath. Reviews and
  edits read a row, take their time and write it back.
* An acceptance commits before the stages run, and repeating it is a no-op.
* A run row and its job are written apart, no update of the row looks at it, and
  two workers may hold the same run; a fire may be dispatched by an engine whose
  claim has lapsed.
* Fan-out: several destinations of one fragment succeed, fail or are queued
  independently, but share one status and one inbox row.
* Clients repeat captures, uploads, reports and commands whose answer was lost,
  after the tables have moved on.
* Transcript files grow, are cut in the middle of a line and are replaced while
  two runs read them.
* The configuration is one file that every request rewrites whole.

## Modules

| Module | What it models |
|---|---|
| `JobTable` | The reserved-job table of the external queue library: push, pop, release, delete, and the lapse of a reservation, as operators on a table value. |
| `DeliveryQueue` | `delivery_queue.go`: enqueue, drain, retry, dead letter, replay, purge. |
| `DeliveryLedger` | What the queue promises, without jobs, rows or processes: a submitted request stays held until delivered or discarded. |
| `RouteDelivery` | The pipeline's route and inbox stages, manual routing and the deletion of destinations, composed with `DeliveryQueue` (it extends it and shares its variables). |
| `IngestRuns` | The run rows and the ingest worker: create, push, work, retry, dead-letter, OnFailed. |
| `IngestRuntime` | Schedules, fires and their dispatch in front of `IngestRuns` (it extends it and shares its variables). |
| `IngestAdmin` | The configuration file and the requests that rewrite it, under `IngestRuntime` (it extends it; what a worker finds in the file is the runtime's `config`). |
| `MediaCustody`, `CaptureProtocol` | Variants, blob rows and blob files; the capture protocol above them (it extends custody). |
| `EnrichmentJobs` | Coverage, observations, planning, leases and results of capabilities. |
| `ReaderCommands` | The reader's commands: claim, effect, finalisation. |
| `FragmentReview` | A captured link between intake, reviewer and user. |
| `TranscriptImport` | One growing session file, its cursor and its stored lines. |
| `CodexCapture`, `AntigravityCapture` | What an import of a Codex rollout, an Antigravity conversation makes of a file that is cut anywhere. |
| `TranscriptEnrichment` | A paid enrichment run: plan, budgets, calls, ledger, result, index. |
| `Publication` | What a delivery writes, step by step, and the paths that are remembered. |
| `RecallIndex` | Entity rows, links and memory under passes, edits and reviews. |
| `StoreOpen` | Migrations and backfills by several processes. |
| `ProviderAdapters` | The Instagram, Pinterest and YouTube adapters as answers to every request. |
| `ReaderPages`, `ReaderResources` | Listings and details read by several statements; bytes served from files that may change. |
| `MCDeliveryQueue`, `MCRouteDelivery`, `MCIngestRuntime`, `MCIngestAdmin`, `MCReaderCommands` | Small instances for TLC. `TranscriptImport` needs none: its configuration gives it numbers only. |
| `MCParts`, `MCEnrichment`, `MCFragmentReview` | Several parts that share no state, side by side: a behaviour is one of one part, chosen in the initial state, and the variables of the others stay as they are. One run checks them all, with the invariants and action properties of each. |

The theorems stand in `DeliveryProofs` (queue, ledger, routing), `IngestProofs`
(runs, schedules, fires, configuration), `CustodyProofs` (captures, media custody,
publication), `DerivationProofs` (enrichment jobs, recall index), `ReaderProofs`
(commands, served media), `FragmentReviewProofs` (reviews, listings and details),
`SourceProofs` (imports, rollouts, provider adapters) and `StorageProofs` (opening the store, transcript results, conversations).

### State and code

Each database write is one action, in the code's order; the reads between two
writes belong to the action of the write or decision that uses them. What a
process has read and holds is a record of its own (`drainers[d]`, `passes[w]`,
`calls[h]`, `review`, ...), because the tables move on meanwhile; keeping that
copy is the point of the models. An error return and the death of the process
usually have the same effect (the copy is gone, the writes stay) and are then one
action, which spends a *fault*. Variables marked *history* are never read by an
action that models code. Definitions under "Slips" are mistaken variants of
actions. They are part of no specification; substituting one for the action it
varies shows that a property notices the mistake.

`DeliveryQueue`. A *request* is one call of `EnqueueDestinationRetry`. The
payload of a job and of a dead letter is the request. `jobs` and `dead` are the
two tables, `drainers[d]` and `operators[o]` the local variables of a running
`processJob` and `ReplayFailed`/`PurgeFailed`. `status`, `inbox` and `dests` are the
parts of the fragment, inbox and destination tables the queue reads and writes.
`replays` and `cooling` stand for the `replay` rows of `queue_job_events` that
`validateReplayPolicy` counts. `accepted`, `acked` (counted up to two) and `purged`
are history. The attempt loop inside `ExecuteDestinationWithRetry` is one step
here and is taken apart in `Publication`.

`RouteDelivery`. A request is one matched route of one version of a fragment's
content, so the worker that hands a match to the queue takes the queue's very
action. `passes[w]` is the `StageContext`: the fragment, the status it *saw*, the
matches still to do, taken in the order of `ListRoutes` (`RouteOrder`), and
whether one was delivered. `routers[m]` is a manual call. `cut` and `repeated` are
history: which passes ended early and whether their content was presented
again.

`IngestRuns`, `IngestRuntime`, `IngestAdmin`. `runs` is the status column of
`ingest_runs`, `ingestJobs` the job table, `callers[c]` the run an
`EnqueueIngestRun` has created and not yet pushed, `workers[w]` the handler's
position and its copy of the job. `config` is what the file (and the store it names)
would do if opened now: resolve the ingest, lack it, or fail. Time is a small
clock and the schedule is due at every tick; `fires` are the rows of
`gosched_fires` keyed by the occurrence they belong to, `dispatches` those of
`ingest_fire_dispatches`, `engines[e]` what an engine listed or claimed, `editors[u]`
the `next_run` an `Update` has computed and not yet written. `CreateFire` and
`DispatchFire` are single steps because the code runs each in a transaction. That
a fire's identity is its schedule and due time is an assumption on the scheduler
library; the code's replay fence (`ingest_fires.go:14`) makes sense only with it.
In `IngestAdmin`, `file` is the configuration file, which a save empties and then
writes, and `admins[a]` a request with the copy it loaded; the merge that keeps
what the copy omits is modelled key by key.

`MediaCustody`, `CaptureProtocol`. Every transaction is `BEGIN IMMEDIATE` and so one
step. The upload also touches the disk: it installs its file, then commits, and
`upload` is the write lock it holds between the two. A digest stands for the
bytes it names. `attempts`, `outcomes` and `reports` are the tables with their
snapshots, `told` every answer a client was given.

`EnrichmentJobs`. The tables, with jobs named by the key of their UNIQUE
constraint and claim tokens by job and attempt; `lateEvidence` is the history of
capabilities that a capture resolved while a job for them was open.

`ReaderCommands`. `receipts` with their effect rows, the aggregate and what the
commands write; `calls[h]` is a handler between its claim and its finalisation.

`FragmentReview`, `RecallIndex`. The metadata, entity and revision rows of one
fragment, resp. the index of the siblings of one source, and what an intake, review or
edit that is under way holds of them. The modules split the work of an edit: which
metadata it leaves is `FragmentReview`, which entity rows and links is `RecallIndex`.
A pass looks at the newest siblings only (`NewestOf`, five in the code). All of them
earn the link of their source; which further rungs two of them earn depends on their
words and is left open (`Looks`).

`TranscriptImport`, `CodexCapture`, `AntigravityCapture`. The file, the cursor row,
the stored rows and the run that is reading. `TranscriptImport` is about
overlapping runs, half-written lines and replaced files; the other two, with one
run at a time, about what a cut of the file anywhere makes of its records.

`TranscriptEnrichment`. `rows`, `indexed`, `ledger` are the tables, `runs` and `work`
the summaries and workers of the runs; a reply costs 1.

`Publication`, `StoreOpen`, `ProviderAdapters`, `ReaderPages`, `ReaderResources`. The
directories and the publishers' positions; the legacy rows and what each opening
process has looked at; what the provider says now and what was answered last; the
fragments with one journal of what is recorded of them and the page under way;
the variant row, the files, and the request between row and file.

## What is checked

Deadlock is not checked because the system may really stop, with everything
resolved and every budget of the instance used up.

| Run | Instance | Properties |
|---|---|---|
| `queue` | 1 request, 2 job rows, 3 dead-letter rows, 2 drainers, 1 operator who may force a replay, 2 tries, 1 fault; fair | `NothingLost`, `RepeatsAreFaults`, `ImplementsLedger`, `EveryRequestResolves` |
| `route` | 1 fragment in 2 versions, a file and a callback route, 2 workers, 1 drainer, 1 manual caller, 1 job row, 1 dead-letter row, 1 try, deletion, 1 fault | `FragmentAccounted`, `EveryMatchGetsATurn` |
| `route_crash` | 1 worker, 1 fault | `NothingGetsLost`, violated |
| `runtime_liveness` | 2 runs and jobs, 2 engines, 2 workers, no editor or caller, 2 tries, 1 tick, 1 fault; fair | `NextIsUnfired`, `OneRunPerFire`, `EveryRunSettles`, `DueOccurrenceRuns` |
| `ingest_admin` | 2 requests over 2 ingests, 2 edits (two only while there is no schedule), 1 run, worker, caller, engine and schedule editor, 1 try, 1 fault | `EditsAddUp`, `OpenRunIsTended` |
| `ingest_update` | 2 requests, one of which may omit a rule | `OmittedIsCleared`, violated |
| `reader_commands` | 3 commands, 2 handlers, 1 fault; fair | `EffectAtMostOnce`, `ReceiptMatchesAcquisition`, `ReservedSettles` |
| `fragment_review` | six parts, below | `FetchesAreCapped`, `RowShowsTheLatest`; `RolloutIsStored`; `ConversationIsStored`; `SpendIsBounded`, `ResultIsKept`; `UntouchedListedOnce`, `ItemsHangTogether`; `ServedIsKept` |
| `transcript_import` | 3 lines, 2 importers, a window of 1, 3 changes of the file, 1 fault; fair | `ConsumedIsStored`, `StoreCatchesUp` |
| `enrichment` | two parts, below | `WorkIsExclusive`, `PendingHasJob`, `BestIsShown`; `RowsFollowText`, `SiblingsAreLinked` |
| `parts` | four parts, below | `PublicationStands`, `RemoteCopiesAreAccounted`; `HistorySurvives`; `AvailableHasBytes`, `OutcomeIsBacked`, `AnswersAreStable`, `BytesAreKept`; `OneItemOneAsset`, `AnswersAreHonest` |
| `recall_edit` | the parts of `enrichment` | `EditIsIndexed`, violated |

The parts of `fragment_review`: *review*: 3 captures of 2 materials, the plain one of
the first material first (`PlainFirst`), 1 editor, 1 edit, 2 attempts, 1 fault;
*codex*: 13 kinds of record, 3 changes of the file; *antigravity*: 3 steps with one
call, read two at a time, 4 changes; *transcripts*: 2 sessions, a run with two slots
and a forced run with one, caps 1 a run and 2 in total, 1 fault; *pages*: 3
fragments, one an alias, a page size of 1, 2 events, 1 tick; *resources*: 3 contents,
6 rows, 6 ranges.

The parts of `enrichment`: *jobs*: one capability, 2 captures, 2 workers, 1 caller, 2
observations, 3 jobs, 1 tick; *index*: 3 fragments,
one older than the other two, of which a pass looks at one, 2 materials, 2 sessions, 3
captures, 1 edit or review, 1 rung, 1 fault.

The parts of `parts`: *publication*: 1 fragment with an attachment, 3 destinations,
2 publishers, 3 deliveries, 1 change, 2 attempts, 1 failure; *store*: 2 openers, up to
3 legacy rows, 3 migrations, 3 opens, 2 captures; *capture*: 2 captures of a page
with 5 variants, 2 payloads, 2 digests, 1 acquisition, 1 fault; *providers*: 2 posts
of which the provider says one of eight things.

What the properties say:

* Queue. `NothingLost`: every accepted request has a job, a dead letter or a purge,
  or was acknowledged and its fragment routed. `RepeatsAreFaults`: with one operator
  a second acknowledgement and a try beyond the maximum need a fault. With two
  operators, who may both push a copy of one dead letter, they do not. `ImplementsLedger` is the refinement; `EveryRequestResolves` says that
  each request is acknowledged, dead-lettered or purged in the end.
* Routing. `FragmentAccounted`: between passes a fragment is in the inbox or routed,
  unless its pass was cut off, and routed means some destination has it.
  `EveryMatchGetsATurn`: fan-out reaches every route that matched.
* Ingest runtime. `OneRunPerFire`; `NextIsUnfired` (an unedited schedule never stands at
  an occurrence that has a fire; with an editor it can, and `CreateFire` then undoes
  every advance until the next edit); `EveryRunSettles`, `DueOccurrenceRuns`;
  `OpenRunIsTended`: a run that says queued or running has a caller, a job or a
  worker behind it but after the things that really leave one behind (a caller or
  worker that dies between two writes, an OnFailed that fails or finds the file
  broken). It is stated for a single fault; two can leave one more.
* Configuration. `EditsAddUp`: what the requests asked for stands in the file, but for
  what a save from an older copy takes back.
* Reader commands. `EffectAtMostOnce`, `ReceiptMatchesAcquisition`; `ReservedSettles`: a
  command that is reserved is settled unless its handler was lost after the claim
  (which leaves it executing for good).
* Review. `FetchesAreCapped`: the paid fallback is asked at most so often while nothing
  overlaps. `RowShowsTheLatest`: the row shows the material last captured (but for an
  exact repetition of an older capture), and the last edit unless a review overlapped.
* Transcripts. `ConsumedIsStored`: what lies before the cursor is stored, but for rows
  that another run undercut; `StoreCatchesUp`: a file that rests is stored in the
  end, but for runs that crossed and for a file rewritten only before the window of the
  tail digest (4096 bytes in the code), which nothing notices. `RolloutIsStored`: an
  import cut anywhere leaves what a single import would, but for the exceptions it names
  (events stored before the first response item stay, and so on). A failed output or end
  is never taken back: the comment at `codex/capture.go:524` speaks of end events that
  override it, but no line of the code does, so neither does the model.
  `ConversationIsStored`: every consumed step is stored as it is now, and the result of
  a call is known from the steps that tell one, which a step that stopped without error
  details does not; a turn first read while it runs keeps its partial text. `SpendIsBounded`: what is paid exceeds the caps by no more than the open
  workers of the runs in progress can add, plus what was never entered;
  `ResultIsKept`: a stored result is not lost, but to a forced run's failure.
* Enrichment. `WorkIsExclusive`: a job has one running attempt, a capability one open
  job but after late evidence; `PendingHasJob`; `BestIsShown`.
* Captures. `AvailableHasBytes`, `BytesAreKept`, `OutcomeIsBacked`, `AnswersAreStable`.
* Publication. `PublicationStands`: a directory of one fragment, where nothing overlapped
  or failed since, holds the text and the copies of its last delivery, and every
  path recorded there, if that delivery made every copy itself;
  `RemoteCopiesAreAccounted`: a remote destination gets a fragment no more often than
  deliveries and lost answers account for.
* Recall. `RowsFollowText`: where nothing overlapped or failed since, the rows follow
  the text, but for retitling without reindexing and the finding below.
  `SiblingsAreLinked`: two siblings that recall can find are linked by their source in
  both directions, also where their passes overlapped, if each is among the newest
  siblings of the other. The limit leaves older siblings without a link for good.
* Store. `HistorySurvives`: legacy rows and new captures become one history.
* Providers. `OneItemOneAsset`, `AnswersAreHonest`. Reads. `UntouchedListedOnce`,
  `ItemsHangTogether`, `ServedIsKept`.

### Bounds, and why they are enough

* *Rows.* Ids are never reused, so the number of rows bounds the pushes: enough for
  a request to be enqueued, dead-lettered, replayed and dead-lettered again.
* *Faults.* One fault covers every single failure at every point: a failed
  read, a failed write, a crash, a reservation that lapses under its holder.
  Two add repetitions of the same recovery. The theorems hold for any number.
* *Tries.* One or two; with two, the release path is taken.
* *Actors.* Two of each kind whose overlap matters, one of the others.
* *Versions, materials, ticks, digests.* Two where the new one must be told from the
  old one; one tick where a single occurrence's way to the end matters.
* *Limits.* The window of the digest is 1 of 3 lines, the candidates of a pass 1 of 3
  fragments, the page 1 of 3 items: each limit leaves something out. Without its
  exception for the window, or `Near` for the candidates, TLC refutes the property.
* *Claims* of a fire are not bounded: a claim is identified by its engine.
* Symmetry is used for processes and row ids, in safety runs only.
* `Bounded` (`MCIngestAdmin`), a state constraint, combines two edits of the file only
  while there is no schedule; `PlainFirst` (`MCFragmentReview`), a condition on the steps
  of its part, has the plain capture come first. Neither cuts a step that a property
  of its run is about.

### Fairness

`DeliveryQueue`: weak fairness of each drainer, because `RunQueueDrainer` calls
`Drain` on every tick for as long as the server runs and logs errors without
stopping, and of each reservation's lapse, because wall-clock time passes.
Operators, callers and faults get none.

`IngestRuntime`: the same for workers, engines, lapses and the clock, which the
server starts once and which run until it stops (`api/server.go:315`). Listing due
schedules and claiming a due fire have strong fairness, because a poll goes
through all that is due: one fire that is claimed over and over does not keep the
engine from another. Nobody edits the file there; while it does not resolve, an
engine retries without end, as the code does.

`ReaderCommands`: a handler that runs goes on (`Advance`); clients owe nothing.
`TranscriptImport`: an ingest run that has begun goes on, and the scheduler begins
new ones. The other modules make no promise about the end and have no fairness.

### Where the code and its documents differ

1. `route_crash`: the acceptance of an item commits before its stages run, and its
   repetition is skipped by them. A crash in between leaves a fragment with status
   `inbox`, no inbox row and no delivery ("Nothing gets lost",
   `docs/identity.md:19`).
2. `ingest_update`: a save merges the edited copy into the file key by key, so a key
   that an update leaves out stands in the file (`config/merge.go:61`); the comment
   on `Update` says "omitted fields are cleared" (`ingest_admin.go:141`).
3. `recall_edit`: `UpdateManualFragment` puts back the entity rows it read before it
   reindexed (`service/fragments.go:534`); the comment above says that only the
   manual summary, metadata and tags are restored.

Behaviour that the properties name as an exception, rather than hide: two
operators who replay one dead letter; a fragment routed by a callback before
`InboxStage` and then staged by the status read earlier; a schedule put back by an
edit; a second job beside one whose coverage late evidence resolved; a review that
overwrites an edit; a fetch too many after an overlap; a repeated capture that
leaves an older material shown; a cursor taken back by an overlapping import;
budgets that overlapping runs multiply; a reader command that stays executing; an
edit of the configuration undone by an older save; a cut copy that later deliveries
skip; titles changed by a review without reindexing.

## What is proved

All theorems hold for every number of processes, rows, requests and faults; they
assume what the modules' named ASSUMEs say (constants are of their types, "none"
values are outside the sets, policy constants are positive, the lines of a file,
the runs and the sessions are finitely many, `SpendConstants`).

| Module | Theorems |
|---|---|
| `DeliveryProofs` | `TypesHold`, `InvariantHolds`, `NoRequestIsLost` (`NothingLost`), `RepeatsComeFromFaults` (`RepeatsAreFaults`), `SettledRequestsLeaveTheInbox`, `QueueKeepsTheLedger` (`ImplementsLedger`); of the pipeline `PipeInvariantHolds`, `FragmentsStayAccounted` (`FragmentAccounted`), `TheInboxKeepsTheUnrouted`, `EveryMatchIsServed` (`EveryMatchGetsATurn`) |
| `IngestProofs` | `FireTypesHold`, `RuntimeTypesHold`, `ScheduleNeverStuck` (`NextIsUnfired`, where nobody edits), `FiresRunOnce` (`OneRunPerFire`); of the configuration `AdminImplementsRuntime`, `EditsStand` (`EditsAddUp`); of the runs under both `AdminRunsAreTended` (`OpenRunIsTended`) |
| `CustodyProofs` | `CaptureInvariantHolds`, `BytesAreBacked` (`AvailableHasBytes`), `BytesStay` (`BytesAreKept`), `OutcomesAreBacked` (`OutcomeIsBacked`), `RepeatsGetTheFirstAnswer` (`AnswersAreStable`); of publication `PublicationInvariantHolds`, `WhatIsPublishedStands` (`PublicationStands`), `RemoteCopiesStayAccounted` (`RemoteCopiesAreAccounted`) |
| `DerivationProofs` | `JobInvariantHolds`, `WorkStaysExclusive` (`WorkIsExclusive`), `PendingIsNeverOrphaned` (`PendingHasJob`), `TheBestStaysShown` (`BestIsShown`); of the index `RowsStayTrue` (`RowsFollowText`), `SiblingsStayLinked` (`SiblingsAreLinked`) |
| `ReaderProofs` | `CommandInvariant`, `EffectsRunAtMostOnce` (`EffectAtMostOnce`), `SettledReceiptsAreFinal`, `ReceiptsTellTheTruth` (`ReceiptMatchesAcquisition`); of served media `ServedBytesAreKept` (`ServedIsKept`) |
| `FragmentReviewProofs` | `ReviewInvariantHolds`, `FetchesStayCapped` (`FetchesAreCapped`), `TheLatestIsShown` (`RowShowsTheLatest`); of reads `ListingsAreComplete` (`UntouchedListedOnce`), `ShownItemsHangTogether` (`ItemsHangTogether`) |
| `SourceProofs` | `NoLineIsSkipped` (`ConsumedIsStored`); of rollouts `RolloutsAreKept` (`RolloutIsStored`); of the adapters `ItemsAreAssets` (`OneItemOneAsset`), `AdaptersAreHonest` (`AnswersAreHonest`) |
| `StorageProofs` | `HistoryIsKept` (`HistorySurvives`), `ResultsAreKept` (`ResultIsKept`), `SpendingIsBounded` (`SpendIsBounded`), `ConversationsAreKept` (`ConversationIsStored`) |

**The queue.** `NothingLost` is not inductive: a dead letter that an operator has
replayed and is about to delete resolves nothing, and a drainer that says it has
cleared the inbox must really have done so. `IInv` therefore says what each local
copy means in the tables (`DrainerOK`, `OperatorOK`), that rows in use name accepted
requests (`JobsNamed`, `RowsNamed`), and that each accepted request is `Resolved` by
something no single write can take away: a held job, a dead letter that nobody is
about to delete, a purge, or a delivery whose fragment is routed and out of the
inbox. The proof goes through the facts that no step takes back (`Grows`); from them
`BystandersOK` concludes for every process that does not move, and one lemma for
drainers, one for operators and one for the rest deal with the one that does.

**Repetitions.** `RepeatsAreFaults` needs a count: the tries a request has made, those
that are open, those its held copies may still make, and the faults used never
exceed what the maximum allows, with one of slack for a reserved job whose holder
no longer has the latest copy. Before the first fault the picture is simpler, and
the invariant says so: each reserved job has one drainer, a request stands in one
place, and what was acknowledged stands only under the drainer about to delete it.
Sets of holders are compared one process at a time, so their finiteness is part
of the invariant. The theorem is about a single operator, as the property is.

**The ledger.** `QueueKeepsTheLedger` is the step simulation that follows. A drainer's
steps are the ledger's deliver, close and take up again (a copy pushed back by a
lapsed reservation or a release), an operator's are take up, close and discard, and
everything else stutters. The one step that needs `IInv'` is the deletion of a
replayed dead letter: that the request is still held, or was delivered, is what
`Resolved` says of the state after it.

**Routing.** `PipeIInv` adds to the types what a drainer, a pass or a router has noted
of its request and fragment: that it was acknowledged, or that its status says
routed, which is never taken back (`Sticks`). For fan-out, `MatchesTended` says that
a match of an accepted version has had its turn, or some pass on that very version
has it still to come (`AwaitsTurn`): it is yet to list the routes, or has the match
on its list. What counts as a turn is never taken back (`TurnsStick`), so only the
pass that moves has to be looked at.

**Schedules.** `NextIsUnfired` is not inductive, since `CreateFire` may advance to any
later occurrence. `Ahead` (no occurrence from the schedule's next one on has a fire)
and `Unborn` (before the schedule exists nothing has fired) make it so. That editors
break it is why the theorem assumes there are none. For `OneRunPerFire` the
invariant says that whoever names a run (job, worker, caller, dispatch) names one
that exists (`RunsAreKnown`), that engines stand at ticks, and that dispatches are
injective and, where nobody calls for runs, reach every run there is
(`FiresMakeRuns`); equal cardinality follows from the bijection (`PairsCount`).

**Tended runs.** `OpenRunIsTended` is about what stands behind an open run, and the proof
follows the one piece that can stand for it: a job is pushed for one run and by one
caller (`JobsAreNamed`); until something fails a reserved job has exactly one worker
(`OneWorkerPerJob`), who closes the run before it deletes the job
(`FinishedIsClosed`); so an open run is the payload of a live job or the run of a
caller (`OpenHasHelp`), and the first failure leaves at most what the property
excepts. `MaxFaults \in 0..1` in `AdminRunsAreTended` is the property's own "single
fault": with two, TLC finds a run that two failures together leave behind.

**Configuration.** `IngestAdmin` is shown to refine `IngestRuntime`: every state of the
file is one of the runtime's `config`, and a save is steps of its `EditConfig`. So
what is proved of the runtime with its arbitrary configuration holds under these
requests. `EditsStand` says that a request's copy differs from the file only where a
save since its load has written, which `undone` names.

**Reader commands.** A command's effect runs under a claim that its receipt records;
the invariant ties every call to the receipt it holds.

**Served media.** `ServedIsKept` compares what is sent with the row, the file and the
digest, each of which may change after it was looked at. The invariant (`KeptInv`)
says, for every step of a request, what it has made sure of and nobody can take
back: the row it read, that the row names a stored blob, that the row may be served,
that the opened content agrees with the row or was rewritten in place. Only such
a rewriting, which the property excepts, changes an open file; a rename or deletion
does not reach it.

**Enrichment.** A token's attempt runs exactly while its job runs under that lease
(`AttemptsMatch`); an open job means a coverage row that is pending, unless late
evidence resolved it, and planning passes a pending row by, hence one open job
(`OneOpen`); the row that is shown holds the best of the observations that count
(`ShownIsBest`). That there *is* a best one, and a first where several are equal,
comes from the well-foundedness of the natural order.

**Recall.** For `RowsFollowText` the invariant says of each session that is alone on its
fragment what it has written (`MineOK`), and of each that is not that the fragment
is disturbed. For `SiblingsAreLinked` sessions are compared in pairs: a session that has
looked for candidates owes the links to every near sibling remembered by then, and has
them done or to do (`Owes`); of two such sessions one found the other, so the second to
finish leaves the links of both. What is due only shrinks, because texts come in and
never go (`DueShrinks`); and the limit never leaves out a near sibling: those it
could be passed over for are as new as it and fewer than the limit (`NearIsFound`).

**Captures and custody.** `LockHolds` says what the write lock protects while an upload
has its file and not its row: the file is there, its blob had no row if the upload
created it, a file it found without a row was left by a crash, and the capture and
variant are those it checked. With `DigestIsVerified` (only bytes that are there
have a digest), `ReuseIsBacked` (whoever is told to reuse bytes can) and
`AnswersAreStored` (every answer is the snapshot in the table) the four properties
follow. A step that only raises retentions, keeps rows with bytes and backs new
ones preserves custody, so each operation of the protocol is looked at for that
alone.

**Publication.** A publisher has its directory to itself for as long as it counts as
thorough, or the directory as undisturbed. Then what it has done stands there, and
what it has not done is still to come or was there before; where two overlap, the
directory is disturbed and neither is thorough (`Crowded`). For remote destinations
the copies received never exceed the deliveries logged, those about to be, and the
failures used. The proof attempt showed that the model counted a bundle which had left
out an attachment that stood published in its very directory as thorough: with two
failures `PublicationStands` was false. `LeaveOut` now says what such a delivery
is worth.

**Review.** While nothing overlapped (`Calm`), the reviewer or the one editor that is at
work holds the row as it is, an editor with its own tags in place; the fetches are
counted in the attempts of a pending link, and once the link is no longer pending
the row is reviewed and not taken up again (`Capped`). The two properties follow,
since both except what overlapped (`clashes`).

**Pages.** For `UntouchedListedOnce` the invariant says of a listing: an untouched item
is shown exactly if it does not stand beyond the cursor; the page under way is
sorted, lies beyond the cursor and holds every untouched item there, unless a full
page stands before that item; what was shown of an untouched item has its present
time. So a continuation shows each item that was due and none twice. That a page
can be sorted at all, which the model's choice takes for granted, is proved by
adding the latest item of a finite set to an order of the others. For
`ItemsHangTogether` a base names the number of commands among the first entries of a
journal, and each part that was read later holds what stood after some longer
beginning: a journal only grows and an entry, once made, changes nothing but
its state (`Rewrites`), so what was read stays true of it. The reader's last word of
a tag decides as soon as no two of them share a second; `TagsAsTheyStand` is the
comparison of the latest fact, which the projection takes, with the latest word.

**Imports.** While nothing was undercut, the rows before the stored cursor, and before
the position from which any run that was not overtaken reads on, are stored
(`Backed`). Only a run that starts from the whole file drops rows, and it
overtakes every other.

**Opening the store.** `OpeningInv` says what every process has behind it: migrations are
applied in order and once, the media backfill follows the identity backfill, and
whoever serves has seen both. `RowsInv` says what the tables hold between the two
backfills, whoever ran them: before the first nothing, after it each legacy row
resolves to its item's canonical row with its material among the revisions, no
material twice, and numbers rising with the ids of the legacy rows they stand for
(`Resolved`, `OneOfEach`, `Numbered`); until the second no reference, after it the
media of each revision once (`Unplaced`, `Placed`). That the ordinals of the first
backfill rise, and stay below the next one to be given, is a comparison of
cardinalities of finite sets.

**Transcript results.** `ResultIsKept` is an action property. A run plans a session only if
it has no result (or the run is forced), and everything between planning and saving
is exposed to other runs: `NoSecondResult` says that a run which is not forced and
works on a session with a result saved it itself or overlapped with another, and
`WorkIsOfRuns` and `OverlapIsCounted` make the overlap a fact that the history
`peak` remembers.

**Spending.** `SpendIsBounded` is about sums over runs and sessions. They are defined as
cardinalities (`Total`), so that the library's theorems about finite sets replace the
induction. Of each run `InTime` says that its sum and the most its open sessions may
cost stay within the bound of one run, because the last of them began below the cap;
`CallsOK` says what a session has cost by how far it is. `Owed` is what a run in
progress may still enter in the ledger. The ledger and what all runs in progress owe
stay within `peak` times that bound (`SpendInv`): a reply moves from what is owed into
the ledger or is lost, a session that is done moves into the sum, and a run that begins
owes what the ledger leaves while each of the others owes one bound at most. That sum
needs no two runs to be alike: three that overlap in pairs only are covered by `peak`
two.

**Conversations.** A step carries the stamp of the snapshot it was born in, and later
steps later ones (`BornInOrder`); so one step that is still in place proves that
all before it are, and that those which had ended are as they were (`Became`). The
cursor is older than the snapshot in place (`CursorIsOld`), which is why a step
that takes the place of the last consumed one is always noticed; a reader that
holds a batch relies on the same for its steps (`HoldsSteps`), however the file is
replaced before it accepts. Results are compared only for steps that ended done or
failed; the others tell none, or while aborted one that may still change.

**Rollouts.** `RolloutIsStored` compares what many batches left with what one parse of
the whole file would make. `CodexInv` describes the rows by the file that was read,
whatever cuts there were: each message has one row, under an id of its own that is no
greater than the line reached, with its thinking unless that was cut off
(`TurnsAre`); calls, usage and parent are those of the whole except where `cuts` says
that results, counts or the header stood apart. Of an import under way it says where
it works from (the stored cursor, or the beginning) and that its batch is made of some
records that stood there (`FromRecords`); the file may be replaced meanwhile. The
lemmas are about two consecutive pieces of one sequence (`Joined`): messages, thinking,
the outcome of a call, usage and session records of the whole out of those of the
pieces (`MessagesAreJoined`, `ThinkingStays`, `ThinkingShifts`, `OutcomesAreJoined`,
`UsageIsJoined`). That `Unset` is no cursor and no thread is assumed
(`CodexAssumption`). Session records are kept by position, which is what the proof
reasons about; the first of them is the least position.

**Providers.** For `OneItemOneAsset` the invariant says of every variant that was handed out
which media it is named after (`HandedOut`); identities are injective in what they
are made of, so two variants share an asset exactly if they share the media. That no
image is named like the one of a pin whose image the provider left unnamed is an
assumption on the provider (`ProviderAssumption`). `AnswersAreHonest` is a lemma per
adapter and capability: the manifest of each is `Identified` (variants with one
identity fare alike), and what an adapter answers from such a manifest is `Honest`.

Only model-checked: liveness, as fairness is beyond the provers used. Every safety
invariant and action property that a passing run checks is also the statement of a
theorem. The type invariants of their modules document the state.

## Not modelled, and why

* Event and route-log rows other than the replay count: they are written last,
  read by people, and no decision depends on them.
* Matching rules, templates, prompts and parsers, which decide only *which* of the
  modelled cases a request, a reply or a text is.
* Routes that need manual review, which write only the log; edits of routes and
  policies.
* Back-off delays: a released job may be popped at once, which is the more
  demanding case.
* Foreign keys, which depend on the pooled connection (`store/store.go:33`); the
  schema upgrade and redaction of the transcript store; browsing and search, which
  only read.
* The words by which two siblings earn links beyond that of their source; the tie-break
  on confidence between observations; that the states of acquisitions in a detail are
  read by a statement of their own.
* The web application, the MCP server, authentication and the command line, which
  keep no state of their own.
* Everything listed as `not_modelled` or left out in the notes of `PROJECT.json`.

## Plan

Modelled in this order: delivery queue and ledger; routing; ingest runs, schedules
and configuration; captures and custody; enrichment jobs; reader commands; review;
transcripts; publication, recall, store; providers and reads.
