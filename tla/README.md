# Argus (RepoMapper): formal models

TLA+ models of the local Argus service (`service/hydra_graph/`) and of the VS
Code extension that runs it (`extension/src/`), checked with TLC and, where
marked, proved with TLAPS. Every definition is translated from the source at
this commit; `PROJECT.json` maps definitions to lines.

## The system

Argus analyses a repository, turns it into *source cards* (one per file, symbol
or summary, optionally with an exact "BYOG" graph), uploads the cards to a
HydraDB collection and answers questions and views from that collection. The
collection is the only graph; what is kept locally is bookkeeping.

| Component | State | Operations | What makes it correct |
|---|---|---|---|
| Synchronisation (`sync.py`, `hydradb.py`, `cards.py`) | manifest file, in-progress marker file, in-memory status and manifest; HydraDB collection | sync, cancel, crash, restart | queries are let through only while the verified manifest describes the collection; a marker covers every remote write; recovery is always possible |
| Index jobs (`index_jobs.py`, `indexing_service.py`, handlers in `api.py`, `indexing.ts`) | previews with single-use tokens, job records, one worker thread per job | preview, confirm, cancel, poll, worker progress | a token is spent once; one job runs per repository; a job is completed iff its sync is verified; every job ends |
| Events and Observe (`events.py`, Observe handlers, `observe.ts`, `graphPanel.ts`) | event ring, subscriber queues, sessions; in a window: log, cursor, base view | emit, stream, start/record/complete a session; follow, poll, pause, report, leave | a cursor never skips without a reported gap; an event is accepted once; a session ends once; the newest view is shown |
| Query path (`query.py`, `relations.py`, `flow.py`, `views.py`) | relation cache | question, relation reads, completion rounds, flows, budgets, views | a ready answer comes from one revision; nothing is cut silently |
| Evolution (`evolution_service.py`, `evolution.py`, `checkpoints.py`, `diff.py`, commands in `extension.ts`) | two checkpoint slots, cards of the evolution collection, bindings of refreshed lenses; in a window: the pending comparison | capture, publish, save/open/accept a lens | a delta connects two verified revisions and is published whole; what is left of a failed attempt never stops the next |
| Managed runtime (`managedRuntime.ts`) | owner lock file, child process, connection promise | connect or start, attach, replace stale lock, release | at most one owner; a crashed owner can be replaced |
| Managed IPC and credentials (`managed.py`, `credentials.ts`, `managedProtocol.ts`) | one line to VS Code, remembered answers; in VS Code: bindings, secret storage | configured, lease, get/put/delete a record | no remembered answer outlives a change of the binding by more than its two seconds |
| MCP OAuth (`mcp_oauth.py`) | code and token records behind IPC, attached projects | authorise, exchange a code, refresh, revoke | of one consent one code or one pair lives; a token a client holds is kept |
| Analysis (`analyzer.py`, `discovery.py`, `entrypoints.py`, `projections.py`, `models.py`, `ids.py`) | none | pure functions over a working tree | determinism of ids and cards |
| CLI, MCP server, config, diagnostics, security helpers | little | glue | - |
| Webview, wizard, `web/`, `evaluation/`, packaging | UI state | presentation, scripts | - |

**Interaction.** A job worker calls `SyncService.sync` with the job's cancel
flag; `sync` emits events; the query path and the evolution service read
`SyncService.status` (verified revision, indeterminate flag) before they read
HydraDB; a query in a session emits events that name the view it stores, and
windows that follow the session fetch that view; the extension owns the process,
hands it credentials over IPC and polls jobs and events over HTTP.

**Hard behaviours.** Partial remote writes; process death between two file
writes; calls that time out on the client but go on at the server; cancellation
between batches; two confirmations racing; tokens expiring; events emitted
outside a lock; a ring shared by all sessions; a collection replaced source by
source under a running question; a lock taken after the check it should cover;
two windows replacing one stale lock; a token pair stored and removed record by record
over a line that may fail; an answer that was asked for before a dialog and stored
after it. They are listed line by line under
`hazards` in `PROJECT.json`.

## Modules

| Module | Models | Uses |
|---|---|---|
| `SyncService` | `sync.py`, its two files, the retries of `hydradb.py`, the HydraDB collection | instantiates `VerifiedRevision` |
| `VerifiedRevision` | what synchronisation promises: a verified snapshot, a gate, a collection | - |
| `IndexJobs` | `indexing_service.py`, `index_jobs.py`, the index handlers of `api.py`, `indexing.ts` | - |
| `OwnerLock` | `managedRuntime.ts`: owner lock, child process, window lifecycle | - |
| `Events` | `events.py` and the handlers and tools that record events | - |
| `Follow` | the follow session of `graphPanel.ts` with the log of `observe.ts` | extends `Events`: window and service composed |
| `Evolution` | `evolution_service.py`, `checkpoints.py` | - |
| `Comparison` | the comparison command of `extension.ts`, other clients, crashes | extends `Evolution`: window and service composed |
| `RepositoryQuery` | `query.py`, `relations.py` against a synchronisation | - |
| `AnswerView` | `flow.py`, the budgets of `query.py`, `views.py`, as functions of a response | - |
| `GraphDelta` | `diff.py`, change events and their acceptance, as functions of two graphs | - |
| `ManagedAccess` | `managed.py`, `mcp_oauth.py`, the attachment of projects in `api.py` | - |
| `SyncServiceProofs`, `IndexJobsProofs`, `FollowProofs`, `ComparisonProofs`, `RepositoryQueryProofs`, `AnswerViewProofs`, `GraphDeltaProofs`, `ManagedRuntimeProofs` | theorems | extend the module they name; `ManagedRuntimeProofs` both `OwnerLock` and `ManagedAccess` |
| `MCSyncService`, `MCIndexJobs`, `MCOwnerLock`, `MCFollow`, `MCComparison`, `MCRepositoryQuery`, `MCAlgorithms`, `MCManagedRuntime` | instances for TLC | extend the module they name; `MCAlgorithms` both pure ones, `MCManagedRuntime` `OwnerLock` and `ManagedAccess` |

Definitions called a mutation or a bug in their comment are not part of a
specification: each is a plausible mistake in the code that one property is
known to notice (`mutants` in `PROJECT.json`).

### SyncService

`man`, `status`, `indet`, `interrupted` are the attributes of the Python object,
`mfile` and `marker` the two files under `.hydra-graph/`, `remote` the
collection, `pc` the place of the one thread that holds `_operation_lock`. `Begin`
computes the plan (added, replaced, removed, stale graphs) from the last verified
manifest, forced when a sync was interrupted. `SendClear`, `SendUpload`,
`SendDelete` write the marker before the first remote write and issue one batch;
`HydraApplies` takes its writes one at a time, so a call that fails may have
taken effect in part. `Acknowledged`, `Retry`, `Poll`, `PersistManifest` and
`Publish` are the successful path; `Rejected`, `Unavailable`, `Cancel`,
`MarkerFails`, `SaveFails` and `Escapes` (an exception `_sync_locked` does not catch:
at the start, from a malformed answer to a delete or to a poll, from credentials
while the manifest is made) the ways out; `Crash` and `Restart` may
come between any two steps. With `LateWrites`, the writes of an attempt that was given
up (`Retry`, `Unavailable`, `Crash`) stay in `late` and may land at any time. A card keeps its revision and whether it carries an
exact graph; two cards are equal iff they hash alike.

`VerifiedRevision` says it without the machinery: while the gate is open the
collection agrees with the verified snapshot on every source of it; the
verified snapshot changes only behind a closed gate and only to what the
collection holds. `PromiseKept` is the refinement, with the manifest file as the
snapshot and the gate of the query layer as the gate.

Assumptions about HydraDB: an upsert without a graph keeps the stored graph
(the comment in `sync.py` says so), a delete of an absent source is confirmed,
and a status poll tells of the newest upload. `LateWrites` says whether a call
that was abandoned after a timeout may still take effect later. If it may, no
client could keep the promise, so safety is checked and proved for
`LateWrites = FALSE`; liveness is checked with `TRUE`.

### IndexJobs

Each window runs the loop of `runSafeIndexing`: preview, confirm (perhaps twice,
as a retried request), poll. `pc` is where its current request stands. The
analysis reads the project in three steps (`Discover`, `Revise`, `Analyse`), and
`Change` may edit files or commit between any two; a `Draft` records which
contents each step saw. `LookUp`, `Compare`, `Consume`, `StartJob` are the steps
of `POST /api/index` between two acquisitions of a lock. `worker` is the thread
of a job; the sync it runs returns ready, withdrawn or broken, which is all that
`_run_index_job` uses of `SyncService`. `Restart` forgets everything in memory.
Constants bound tokens issued, jobs started and tokens that expire.

### OwnerLock

`lock` is the lock file: who created it, whether the record was written, and
whether that process lives. `pc` is where `connectOrStart` stands between two
awaits; `holds` is `ownerHandle`, `removing` counts releases whose `fs.rm` has
not run, `child` and `session` are the fields of the same name. `Throws` is any
rejected promise on the way, `Probe` and `Final` the end of a start.
`ServiceExits` runs the exit handler if the host lives; `Dispose` leaves a
`connectOrStart` that is under way to go on, as it does in the code; `Ends` is
the end of the host process. `robbed` is a history variable: some step removed
the lock of a process that is alive. Left out: ports (a window reaches some
service that is up) and reuse of process ids.

### ManagedAccess

What the managed service asks of VS Code over its one line. `secrets` are the keys
that `SecretStorage` holds, `codes` and `pairs` the contents of every record made, by
number; `configured` is the cache of `ManagedCredentialProvider`, `bound` the bindings
in VS Code, `registered` the projects of `_projects`.

`provider` is the OAuth method under way. Its methods never suspend, so there is one,
but it makes a request per record: `Consent` (the dialog, which holds the line:
`LineFree`), `Load` (get a record and decide), `RemoveRecords` and `WriteRecords` (one
record each, the other of the pair first), `Issue` (contents of a new pair).
`RequestFails` ends the method with or without the effect of the request,
`ServiceDies` ends it, forgets what is in memory and leaves `secrets`; `Answered` may
lose the answer, and `Present` lets the client present what it was given again.

`caller` is a thread in `configured` (`Configured`, `StatusAnswer`, `Remember`) or
`acquire` (`Lease`, `LeaseAnswer`, `Forget`), each step between two locks. `Edit` is the
user, `Tick` the clock. History: `changed` (when a binding last changed), `granted`
(what reached a client) and `spent` (what was exchanged, revoked or found expired, with
the other of its pair). Left out: registered clients (one client presents everything),
scopes, and records that do not parse. Revoking an access token of a project that is not
attached leaves its records, since `load_access_token` does not find it (`Revocable`).

### Events and Follow

In `Events` a handler is a thread with a record of what it does next (`call`).
`EventBus.emit` is `AppendEvent` under the lock, then one `Put` per subscriber
after it, with `DropOldest` and `PutAgain` when a queue is full. `Register`,
`Complete` and `Pruned` are the registry; `Record`, `Pin`, `Query` the requests
that check a session and emit later; a query goes through `Label` (the revision is
read again), `Answer` and `StoreView`, the view being stored after the event that
names it. `Resync` changes the verified revision at any time. An event's number
stands for its identifier and timestamp; the ring is the last `HistoryLimit`
numbers.

`Follow` adds one window. `log` is `ObserveEventLog` with the session it belongs
to, `base` the stored view on display, `misses` the count of 404s. `Ask`, `Serve`
and `Receive`/`Break`/`Ignore` are one poll: request, answer of the service at
that moment, answer in the window, which may have left, paused or begun anew
since. `ViewArrives` ends a fetch: with the view, with 404, which is counted, or with
any other failure, after which the next poll fetches again. `Report` and `Reported` a mutation of the
chain, `Stop` and `Leave` the two halves of `stopObserveFollowing`. `got` and
`accepts` are history.

### Evolution and Comparison

A handler holds `_operation_lock` from `TakeLock` to its answer; `CheckCapture`,
`Publish` (loading the pair) and `Clear` run outside it, as in the code. `Publish` refuses
a pair whose delta has more than `MAX_CHANGE_FACTS` facts or an oversized card
(`Unpublishable`, any set of pairs), and, as a fault, without credentials. `Analyse`
reads the tree, `VerifyCapture` compares the cards with the verified manifest.
`Send` uploads a batch, or part of it with an error; `IndexCard` finishes a card
at HydraDB; `Poll` asks only for cards not yet seen completed. `Refresh` binds a
stored view to the lens, `AcceptLens` needs the binding. A revision names one
content of the working tree.

`Comparison` is the command of a window, whose `flow` survives everything and is
dropped only after a publication was reported ready. `Other` stands for other
clients, `Abandon` for a timeout or reload, `ServiceCrash` for a killed service.
`shared` records that somebody else used the checkpoints or that an answer to a
confirmed publication was lost.

### RepositoryQuery

`Ask` reads the verified revision, `CheckState` the gate, each at its own moment; a
question that names its revision (`asked`) needs neither.
`Retrieve` and `RetrieveTests` are the calls of `_retrieve`; HydraDB may return any
subset of what passes the filters, and with a fault ignores the revision filter.
`ReadRelations` looks into the cache, `ReadOne` reads one source, `Complete` is one
round of joining cards, `Normalize` the answer. `StartSync`, `Replace`, `EndSync`
are what a query sees of a synchronisation: sources change one at a time.

### AnswerView and GraphDelta

Pure code, as operators over a response and over two graphs. Responses and graphs
grow by one element per step, so every one within the bounds is a state (`Return...`;
`additional` are the texts of `additional_context`). A relation may have no identifier
(`NoId`), as `_group_relation_ids`, `_flow_edges` and `_symbol_graph` allow for; the two
names under which the code looks for one are not told apart.
`AnswerView` translates `assemble_flow_paths`, the budgets of
`normalize_query_response` and `build_product_view`; the
references are `Balls` (what lies within k relations, by definition) and the sets of
returned relations, of which `Promised` are those that no rule of the code may lose
without saying so: `_without_covered_groups` compares identifiers only, so a relation
without one can go with its path. `Search` is the breadth-first search of `_shortest_path`, one
`Round` per node taken from the queue: the edges of a node that lead somewhere new,
one per target, are entered in the order of `_adjacency` (`Before`, `InOrder`). It goes
on until the queue is empty, where the code stops at the target; the path to the target
is the same, as a path that was entered never changes. `GraphDelta` translates `compare_graphs`, `build_change_event`
and `_validated_records`; relations have the four qualities of `RelationQuality`, and
several statements of one fact compete (`LastStatements`). The references are the graphs themselves
(`AcceptedIsWhole` applies what was read to the graph before) and the mirror image
of the comparison.

## Runs

| Run | Question | Bounds | States |
|---|---|---|---|
| `sync_safety` | Does an open gate tell the truth after any failures, and is the promise kept? | 2 ids, 2 revisions, batches of 1, no retries | 1.3 M |
| `sync_liveness` | Does every sync end, and do failures leave nothing that makes syncs fail for ever? | 1 id, 2 revisions, 1 retry, late writes | 330 K |
| `index_races` | One job, one job per token, an end to every run and job? | 2 windows, 2 tokens, 2 jobs, limits of 1, no expiry | 320 K |
| `index_content` | Is only what was shown uploaded, and only what was verified reported? | 2 windows, 1 token, 2 contents, 1 commit, 2 expiries, failing git | 1.3 M |
| `owner_lock` | One owner and one service, unless a live lock is removed? | 2 windows, 2 services, 1 fault, 1 crash, 1 reopening | 1.1 M |
| `managed_recovery` | After crashes, is the service reached again? One generation of tokens per consent, none lost, no stale answer? | 2 windows, 3 services, 1 crash, no faults; 2 projects, 2 threads, 1 code, 2 pairs, 2 ticks, 1 edit, 1 failure, 1 death; lifetimes of 1 and 2, cache of 1 | 470 K |
| `follow` | Does a window miss, repeat or fail to show anything, and do sessions end? | 2 threads, 1 stream, 5 events, 2 sessions, 3 syncs, 1 pause, 1 failure (poll, report or fetch), 2 misses of a view; ring 2, log 2, every other limit 1 or 2 | 360 K |
| `evolution` | Are checkpoints verified, publications whole, and does a comparison that can be published end? | 2 threads, 2 revisions, 1 fact, one pair too large, batches of 1, 2 edits, 1 fault, 3 commands | 230 K |
| `query` | Is a ready answer of one revision, and is every question answered? | 3 sources (1 test), 2 revisions, 2 questions (of the current or a named revision), 1 sync, 1 fault, cache of 2 | 530 K |
| `algorithms` | Are flows, budgets, views, deltas and accepted records what they say? | 4 nodes, 7 relations (2 without identifier), 1 path of 6, 1 further text; 2 paths, 6 relations, 3 hops, 4 of text, 3 nodes, 3 edges; 4 functions in 5 versions, a call in 3 qualities, a test, 3 facts | 340 K |
| `sync_stale_graph`, `query_cache` | counterexamples, below | as `sync_safety`, `query` | - |

Why these bounds are enough to be worth running: two ids with batches of one give
every prefix of a partial upload, delete and clear; two revisions give a change
and a change back; a queue, ring or limit of one or two is full after as many
steps, so overflow happens in the shortest behaviours; two windows with two tokens
race each other both with one token and with different ones; one crash leaves a
stale lock for two windows to race for; five events overflow a ring of two while a
poll is under way and let a session start, be reported to, publish a view and
complete; three commands besides a comparison hold the lock, the lens and both
slots; three sources with two relation reads leave one source to the next round; two misses
let the fetch after a 404 be tried again and given up; each of the budgets of
`algorithms` (paths, relations, hops of a path while relations are left, text, nodes,
edges) is exceeded by some response, and some response loses a
relation without an identifier; two
pairs let a refresh follow an exchange, each with a failing request or a death at any
record, and two ticks let a code, an access token, a refresh token or a cached answer
run out between two requests.
The `owner_` and `managed_` runs allow deadlock since all windows may be closed for good, and so
do `follow`, `evolution`, `query` and `algorithms`, whose events, commands, questions
or inputs are used up. `Services` must be larger where liveness is checked, since a
start waits for a free process slot in the model and not in the code. In the code
the ring and the log keep 500 events and 1,000 identifiers are remembered
(`ClientHistory >= HistoryLimit` and `SeenLimit >= ClientHistory` are assumptions of
`Follow`).

Some MC specifications leave combinations out to stay small. `MCFollow`: once a
session was started, no stream is subscribed and one synchronisation is enough
(`StreamsApart`); streams and sessions share only the history, which streams do not
read. `MCComparison`: several commands of other clients run together only apart from
a comparison, edits and faults (`CommandsApart`). `MCAlgorithms` explores either
pure module, never both in one behaviour (`Unstarted`), relations in the order of a
listing, a path with at most two of them, and a further text only beside four chunks and
no relations (`FewAround`). `MCManagedRuntime` explores windows that
crash and replace the service, or one service that runs, and credentials until a code was made, which
includes the time a consent dialog is open (`CallersApart`), of one project
(`OneProjectAsked`): tokens do not depend on credentials, nor projects on each other.
The theorems hold without
these restrictions.

### Disagreements with a run

Each ends in a counterexample; `findings` in `PROJECT.json` quotes the line that
says otherwise.

- `sync_stale_graph`: an upload with relations fails half way, the next revision
  has none; its graph stays, because only the verified manifest is consulted.
- `query_cache`: a relation read that falls into a synchronisation gets the
  relations being uploaded and is cached under the old revision. Grounding keeps
  them out of ready answers (`OneRevision`), but a question of the old revision,
  should it be verified again, finds no relations for that source.

### Observations

Seen while modelling, without a run of their own; the properties are stated so
that they hold beside them.

- `sync.py:246`: a source only a failed sync uploaded, and the next snapshot lacks,
  is never deleted (`.agents/ingestion-and-sync.md:168` asks for no stale edges).
- `api.py:892`: two confirmations both pass the early check; the one
  `IndexJobStore.start` refuses has already spent its token (comment at `api.py:879`).
- `api.py:1026`: a commit after the preview that leaves the analysed files alone
  is uploaded under the old revision's name (`docs/indexing-and-sync.md:33`). A file
  that changes after discovery hashed it and back after the analysis read it gives
  equal hashes for different cards; what is uploaded is still what was shown.
- `managedRuntime.ts:382`: between reading a stale record and removing the file,
  another window takes the lock and loses it; so does one whose record is not
  written yet (`docs/managed-runtime.md:29`). `OneOwner` and `OneService` are
  therefore stated unless `robbed`.
- `managedRuntime.ts:175`: a start that fails before the child exists never releases
  the lock (`docs/managed-runtime.md:27`); and `dispose` during a start lets
  `connectOrStart` spawn a service nobody stops.
- `events.py:147`: `complete` emits after it released the lock, and recorders check
  the session before they emit, so events may follow `session_completed` or precede
  `session_started` (`docs/observe.md:23` calls them the boundary).
- `events.py:237`: "slow SSE consumers keep only the newest" - between `get_nowait`
  and the second `put_nowait` another handler may fill the place, and the newest
  event is the one lost.
- `query.py:135`: the label of `query_started` and of its filter is read before the
  gate, so a question may ask for a revision that is no longer stored; it then comes
  back empty and ready under that name, never with foreign chunks.
- `evolution_service.py:176`: the slots are cleared after the operation lock was
  released, so a checkpoint captured meanwhile is deleted although no publication
  used it (`.agents/decisions.md:193`). And when the answer to a confirmed publication is lost, the
  window keeps a comparison whose checkpoints are gone and that cannot finish
  (`docs/troubleshooting.md:230`).
- `evolution.py:427`: a recorded pair with more than 49 facts fails, as
  `docs/compare-and-preserve.md:78` says, but it fails every time: the command never
  drops a pair whose after revision is recorded (`extension.ts:173`), so the comparison
  stays pending for ever. `ComparisonEnds` is stated for the other pairs.
- `query.py:1130`: a group is dropped when its identified relations lie within one
  flow, so a relation without an identifier that came beside them is lost, and the answer
  does not say it was truncated. The comment at `query.py:675` says that "a group holding
  anything extra stays", the docstring at `query.py:1122` "Drop groups whose every
  relation already appears". `NothingLostSilently` promises nothing of such a relation
  (`Promised`).
- `mcp_oauth.py:193`: an access token of a project that is not attached is not found and
  so not revoked, though the client is told that it was.
- `mcp_oauth.py:190`: presenting an access token that has expired removes its refresh
  token too, so a client that learns of the expiry by using the token has to be
  authorised again ("rotating one-day refresh tokens", `docs/mcp-and-agents.md:34`).
- `mcp_oauth.py:248`: a failure or death between the two records leaves an access token
  nobody was given; it is harmless (`OneGeneration` still holds) but never removed.
- `managed.py:186`: a refused lease forgets the cached answer so that it "must not
  outlive it", but a `configured()` that was answered before may store its answer after
  that. It is still bounded by the two seconds from when it was asked
  (`ConfiguredIsRecent`).
- `managedRuntime.ts:96`: the timer of two minutes ends when the consent URI is opened;
  the picker and the dialog after it have none, and all other requests wait.
- `managedRuntime.ts:331`: a rejected read in `credential_status` is caught by nobody,
  so the request is never answered and the line stays taken.
- `diff.py:301`: a strongly connected component that gained or lost a member counts
  as a new dependency cycle.
- `views.py:190`: `aggregates[:max_edges]` is cut by position, edges by node; when
  nodes are cut, a returned edge may lack its aggregate (D-023 in
  `.agents/decisions.md`). The view does say it was truncated.

## Fairness

`SyncService`: the thread that holds the operation lock keeps running
(`WF(Progress \/ Failure)`): each of its waits ends by an answer, the HTTP
timeout, the retry limit or the polling deadline. `SyncEnds` needs no more.
`RecoverySucceeds` also assumes (`Served`, a premise of the property) that a
stopped service is started again and that HydraDB applies and indexes what it accepted,
and that at some time the surroundings stop causing `Trouble`: refused or lost calls,
retries (an attempt that was given up may land in the middle of the next phase), file
errors, cancellations, crashes, sources that newly turn errored. It does not assume that
syncs succeed: failing on what an earlier failure left (`FailsOnResidue`: a source the
sync waits for is errored or absent) is not `Trouble`, and a forced recovery that did not
send everything again would fail on it for ever.
`IndexJobs`: request handlers and worker threads run, and a sync returns,
which is `SyncEnds`. `OwnerLock`: each window's event loop runs its callbacks, a
session expires (tokens carry a deadline), a spawned service comes up unless it
fails, and a killed one ends. `Follow`: handler threads run; the poller's timer asks
again and its request is answered or fails; a fetch and a report come back.
Leaving is strongly fair: the request to complete is sent once the report before it
is back, and a free handler thread, which other requests may take again and again,
serves it in the end. `Comparison`: handler threads run; a thread that waits for
the operation lock gets it if it is free again and again (strong fairness; Python's
locks do not starve a waiter for ever); HydraDB finishes cards; and the user takes
up a comparison that can go on and does not cancel it for ever, which is a premise
about people that `ComparisonEnds` needs: it says that the state left by failures
never makes going on impossible. `RepositoryQuery`: the threads that serve questions
run. `ComparisonEnds` holds for pairs that can be published. Crashes, faults, users, edits, the clock, pauses and cancellations are under no
fairness otherwise.

## Proofs

All theorems hold for every value of the constants under the named assumptions
of the modules. Each safety theorem follows from an inductive invariant.

**SyncService** (`TypeCorrect`, `Inductive`, `OpenGate`, `UnmarkedDisk`,
`OpenGateDisk`, `ManifestAdvances`, `Refinement`, `StepsAreBounded`, `SyncsRunOut`).
`OpenGate` to `Refinement` assume `LateWrites = FALSE`. An open gate says nothing about a sync half done, so the
invariant follows the thread: `MarkerInv` (marker, flag and gate say the same),
`ManifestInv` (without a marker both manifests are what HydraDB holds), `PhaseInv`
(which work may remain at each `pc`), `RequestInv` (outstanding writes belong to
the current batch), `ProgressInv` (what is no longer on the lists is done) and
`UntouchedInv` (what was never on them is as verified before). `ProgressInv` and
`UntouchedInv` together give `Held(cand)` when the lists are empty, which is where
the manifest is saved.
The step counts assume `IsFiniteSet(Ids)` only. `StepsLeft` weighs each source on a
list with a send, its retries and its answer, and each upload not yet reported with the
poll that reports it; every step of the thread lowers it and nothing else raises it
while a sync runs, so a sync takes at most 3·|Ids|·(MaxRetries + 2) + |Ids| + 3 steps. This
needs `BatchInv`: a call is about something still on its list, else an answer would
take nothing off. It is the safety half of `SyncEnds`; that some step is always possible
and is taken is the other half, which is fairness and stays with TLC.

**IndexJobs** (`TypeCorrect`, `Inductive`, `OneJob`, `SingleUse`, `ShownOnly`,
`HonestReport`, `Retention`). `JobsInv` (running records and working threads are
the same jobs), `KeptInv` (the retained records are the running ones and the
finished queue), `TokenInv` (a token spent, or in the hands of a request that will
start a job, is not in the store and no one else's), `ContentInv` (what a request
or job carries is what its token's preview described) and `StoreInv`.

**OwnerLock** (`TypeCorrect`, `OneHolder`, `OneChild`). `LockInv` (unless robbed,
the holder, or the releaser whose `rm` is pending, is the live process the file
names), `HostInv` (what a dead host leaves; only `dispose` kills) and `ServiceInv`
(an open window with a running child, or about to start one, holds the lock).
With `LockInv` alone one service would not follow: a window could start a second
child after it lost the lock to its own exit handler.

**Follow** (`ObserveTypes`, `SessionBound`, `OneCompletion`, `NothingSkipped`,
`AcceptedOnceOnly`). The
invariant has a part for each side. `ServiceInv`: types, the bounds of the registry,
`OnceOK` for starts and completions (no two events, made or about to be appended, of
one session) and `Retired` (a session whose completion is made or due is not
active); without the handlers that are about to append, neither is inductive.
`ClientInv`: `LogInv` (the log is typed and has accepted everything between start
and cursor), `PollInv` (a request for the session that is followed asks after its
present cursor, and an answer to it has no hole between that cursor and its last
event and no more events than the ring holds, so that cutting it to the log's
history loses nothing; this is where the assumption that the log is as long as the
ring is used) and `RestInv` (views, fetches and reports refer to events that
exist). The cursor moves with polls only: with `PollInv` for reports too, the
invariant would be false.
`AcceptedOnceOnly` assumes `[]FewAhead`: at no time are more events accepted past the
cursor, or past the event of an unanswered report, than `SeenLimit - ClientHistory`, in
the code 1,000 - 500. Only reports run ahead of the cursor, so this says that a window
does not make 500 reports while a poll is under way; the code has nothing that forbids
it. `OnceInv` then keeps the identifiers of all events that may arrive again among the
remembered ones, although those at or before the cursor are forgotten. The run has
limits so tight that the hypothesis fails in it, identifiers are forgotten, and
`AcceptedOnce` is found to hold all the same within its five events.

**Comparison** (`TypeCorrect`, `CheckpointsVerified`, `OneOperation`,
`BaselineKept`, `WholePublication`). `ServiceOK` describes each handler by what it
carries: a capture about to be stored was verified; of a write, the cards it no
longer lists were sent while it sends, and are completed while it waits, the lens
with the handler's own baseline. Exactly the handler that works holds the lock
(`LockHeld`), so no other can undo that. `WindowOK` keeps the window's requests
meaningful. `WholePublication` is an action property that follows from the state
before the step.

**RepositoryQuery** (`OneRevisionOnly`, `QueryTypes`, `StepsAreBounded`, `QuestionsRunOut`). Every question is idle, in progress with a
window of chunks, or faithful to the revision it names. Nothing is assumed of the
cache or of the relations read: the second look for a conflict and the grounding
in `Normalize` are enough, which is why `query_cache` does no harm to a ready answer.
`QueryTypes` says what is known of the cache: at most `CacheLimit` entries and one per
key, whatever order `get` moves them to; a permutation of entries with different keys
has different keys.
Rounds are counted and a round reads no more than `RelationSources` sources
(`AllCounted`), so a question takes at most 4 + (CompletionRounds + 1)·(RelationSources
+ 2) steps, each of its thread's steps leaves it fewer, and neither a synchronisation nor
another question gives it more: the safety half of `QueryEnds`, in the same way.

**AnswerView** (`ResponsesAreTyped`, `FlowsStayShortest`, `FlowsMissNothing`,
`NothingIsLostSilently`). The three properties are about every response, not about
how it came back, so each holds for all typed responses (`ResponsesAreTyped`). What a
recursive function computes is proved by the least counterexample: `<` on the numbers is
well founded, so a claim that fails somewhere fails first somewhere, and the step
from the place before refutes it (`LeastNat`, `UpTo`). `Recursion` shows in
the same way that the functions defined by recursion exist, which `CHOOSE` alone does not give.
The search has the invariant `Searching`: a path that was entered is a chain of
relations from the anchor and no shorter one exists (`Chains`, `Nearest`); the queue
is sorted by distance and spans at most two (`Sorted`); and what is one relation from a
node already taken was entered (`Closed`). A round takes one node and
every node enters the queue once, so after `Cardinality(Nodes)` rounds it is empty, and with
`Closed` whatever lies within `HopsPerPath` relations was reached (`Covered`).
`InOrderFacts` counts the edges before an edge to show that `InOrder` lists each once, for
which `Before` must be a strict order: relations are told apart by their identifiers, and
those without by the place where they came first (`OrderFacts`).
Of the flows: while the limit of paths is not reached, every candidate of two hops or more lies within
one that was kept (`Chosen`); a route whose relations all lie on another is a
stretch of it, since a shortest route meets no node twice (`RouteInside`), so its
anchor comes before its target on the kept one. Of the budgets: what does not say it
was cut is whole, group by group (`LimitedFacts`), text by text (`ClipFacts`,
`TextFacts`), and a view that is not cut is its
graph (`ViewFacts`, `AggregatedFacts`); a promised relation of a group that was dropped
is, by its identifier, one of a flow.

**GraphDelta** (`MirroredAlways`, `AcceptedAreWhole`). Both are about graphs of any
size. `Mirror` proves that exchanging the two graphs exchanges the parts of
`compare_graphs`: scores and candidates are symmetric, so a pair is the unique best of
both its nodes in one direction iff it is in the other; relations, qualities and
evidence follow part by part. That no fact changes its quality into two others needs
the invariant below: of the statements of one fact a side counts one (`OneStatement`).
`AcceptedIsWhole` needs two arguments. Of the records: as
the pages name the same event and count and none is twice, they are an injection into
the facts of the change, and as many as there are, hence all of them (`told`). Of the
facts: applied to the graph before, they give the graph after, nodes
(`NodesTurned`) and edges with their qualities (`EdgesTurned`) apart. The invariant says
only that the graphs are finite, with one element per identifier, and that a returned
record is one that was published or one of another event.

**ManagedAccess** (`ManagedRuntimeProofs`, as is OwnerLock: `AccessTypes`, `OneLives`, `OnlyOnce`, `Kept`, `Recent`). The records
are an invariant of their own, `RecordsInv`: what is stored was made (`MadeInv`), what
was exchanged is not stored (`FromInv`), a method under way is about a key that was made
and not exchanged yet (`MethodInv`), and `StageInv` says for each place a method can be
interrupted at what may still be stored of the same consent: both records while the
other of the pair is to be removed, the presented one after it, none before `Issue` and
the first write, the access token alone before the second. Without `StageInv` the two
records of `_issue_tokens` could meet an older pair. `Kept` and `ExchangedOnce` are part
of the invariant. The answers are another, `AnswersInv`: an answer on its way that was
asked for after the last change is right (`CacheInv`), and nothing was asked in the
future; so an entry can outlive a change by the cache's seconds only, however long the
line was taken.

Proved for every instance and repeated by no run:
`OpenGateMatchesDisk` (`OpenGateDisk`), `SessionsBounded` (`SessionBound`),
`RetentionBounded` (`Retention`), `StepsBounded` and `StepsRunOut` of `SyncServiceProofs`
(`StepsAreBounded`, `SyncsRunOut`) and of `RepositoryQueryProofs` (`StepsAreBounded`,
`QuestionsRunOut`); so is `ExchangedOnce` (`OnlyOnce`).

Only model-checked: liveness (`SyncEnds`, `RecoverySucceeds`, `RunEnds`,
`SlotFrees`, `Recovers`, `ViewCatchesUp`, `LeftIsCompleted`, `ComparisonEnds`,
`QueryEnds`), which is out of the prover's reach (of `SyncEnds` and `QueryEnds` the
step counts above are proved); `AcceptedOnce` without `FewAhead`;
and the counterexamples. Every invariant and every action property of a run
is stated by a theorem.

## Not modelled

Parsing, card construction, ranking and the texts of queries, how a lens selects
and describes its records, layout and the rest of the user interface: pure or
presentational. Progress figures of a job and events of a sync: they feed
nothing back. Legacy manifests without a list of exact graphs. A thread that
cannot be started. The frames of the managed line and its startup handshake (every
answer is matched by its id; a wrong one fails the request, which `RequestFails`
covers), registered MCP clients and scopes, and how long a dialog stays open. The events
that replay the paths of an answer after its result event: they are of the same session
and revision and name the same view. Hazards without a
property are listed with the reason in `PROJECT.json`.

## What could come next

1. Two `SyncService` instances over one pair of files and one collection (service
   and command line).
2. Leases and consent inside `SyncService` and `RepositoryQuery`: a synchronisation
   whose credentials are withdrawn between two batches.
3. `SyncService` in place of the external synchronisation of `RepositoryQuery` and
   `Evolution`.
4. Proofs: that a lens that is accepted is the one that was shown, a repaired owner lock
   without `robbed`, and a step count for the comparison's handlers as the safety half
   of `ComparisonEnds`.
