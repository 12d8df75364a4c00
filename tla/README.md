# Verification of tangled-spindle-nix

A TLA+ development for the spindle in `src/crates`: a CI server that receives
pipeline events from knots, runs their workflows in containers, and reports their
statuses and logs. Modules model the code, TLC checks them on small instances, and
TLAPS proves properties of each for every size.

Paths below are relative to `src/crates`.

## 1. Inventory

| Component | State | Operations | Talks to | Module |
|---|---|---|---|---|
| Job queue (`spindle-queue`) | channel, dispatcher, semaphore, shutdown token | `new`, `submit`, the dispatcher's loop | called by the orchestrator; runs its jobs | `JobQueue` |
| Orchestrator (`tangled-spindle/src/orchestrator.rs`) | one job per pipeline, one task per workflow | `process_pipeline_event`, `execute_pipeline`, `execute_workflow`, `emit_status_event` | knot consumer's channel, queue, engine, secrets, database, notifier | `Orchestrator` |
| Status table (`spindle-db/src/status.rs`) | one row per workflow id | `status_*`, `cancel_orphaned` | orchestrator, `cancel_pipeline`, start of the server, `/logs` | `Orchestrator` |
| Status events (`notifier.rs`, `router.rs`, `spindle-db/src/events.rs`) | events table, broadcast channel, a cursor per client | `insert_event`, `notify`, `events_ws` | orchestrator, websocket clients | `EventStream` |
| Engine (`spindle-engine`) | map of workflow states, containers, workspaces | `init_workflow`, `setup_workflow`, `run_step`, `destroy_workflow` | orchestrator | `Engine`, `Builds` |
| Log stream (`workflow_logger.rs`, `router.rs`) | log file, reader's offset | logger writers, `logs_ws`, `send_log_file`, `wait_for_file` | engine, status table, websocket clients | `LogStream` |
| Knot consumer (`spindle-knot`, `spindle-db/src/events.rs`) | a task and an entry per knot, a cursor per row | `subscribe`, `unsubscribe`, `restore_subscriptions`, the connection's loop | database, pipeline channel | `KnotConsumer` |
| Jetstream client (`spindle-jetstream/src/client.rs`) | watched DIDs, cursor, saved cursor | `run`, `connect_and_process`, `handle_message` | database, channel to the ingester | `Access` |
| Ingester (`spindle-jetstream/src/ingester.rs`) | none of its own | `ingest_member`, `ingest_repo`, `ingest_collaborator` | database, RBAC, knot consumer | `Access` |
| RBAC (`spindle-rbac`) | policies and roles, in memory | add and remove of members, owners, repositories, collaborators; `is_*` checks | ingester, XRPC, start | `Access` |
| XRPC (`spindle-xrpc/src/handlers.rs`) | none of its own | members, secrets, `cancel_pipeline`, listings | database, RBAC, secrets | `Access`, `Secrets`, `Orchestrator` |
| Service authentication (`service_auth.rs`) | none | bearer tokens and JWTs | every XRPC handler | `ServiceAuth` |
| Secrets (`spindle-secrets`) | SQLite table or OpenBao paths | put, delete, list, read by a pipeline | XRPC, orchestrator | `Secrets` |
| Configuration (`config.rs`, `main.rs`) | none | `Config::from_env`, command line | start of everything | `Config` |
| Server (`server.rs`) | shutdown token, tasks | start, event loops, shutdown | all of the above | the module each part concerns |
| Models (`spindle-models`) | none | ids, trigger variables, steps, masking | all of the above | `Manifest` |
| Nix dependencies (`nix_deps.rs`) | cache directory, Nix store | parsing, expression, hash, `build_nix_env` | engine, local runner | `Manifest`, `Builds` |
| Local runner (`spindle-run`) | `any_failed`, home of the steps | `main` over a list of files | Nix dependencies | `Builds` |

Where the difficulty lies:

- **Interleaving.** Pipelines, workflow tasks, request handlers, the dispatcher and the
  event loops run in parallel. Every database call is a step of its own (one mutex around
  one connection), so check-then-write and write-then-emit pairs can be cut in two, and so
  can the table, RBAC and watch-list writes of one membership event.
- **Dropped futures.** Three timeouts (workflow, pipeline, destroy), `abort` and a caller
  that hangs up stop a task wherever it awaits, and nowhere else. What runs in
  `spawn_blocking` is not stopped at all.
- **Locks held across an await.** `unsubscribe` waits for a task that may be waiting for
  the lock `unsubscribe` holds.
- **Queues at their limit.** The job channel, the semaphore, the pipeline and ingestion
  channels, the broadcast channel and the backfill query each have a limit that changes
  what happens next.
- **Cursors.** Four of them (knots, Jetstream, `/events`, `/logs`), each moved at some
  point relative to what it stands for, and saved at another.
- **Restart.** The tables survive; the queue, the tasks, the map of containers, what is in
  a channel and the RBAC roles do not. The next start may have another configuration.

`PROJECT.json` lists each hazard at its line with the properties that watch it.

What makes each component correct:

- queue: permits are conserved; an accepted job is in one place, runs once, in order,
  and is lost only to a shutdown; a shutdown stops the queue;
- orchestrator: work only under a permit; every permit comes back; no announced
  workflow is forgotten; the environment is destroyed; rows and events agree and follow
  the life of a workflow;
- events: a client gets each event once, in order, and its cursor never lies;
- engine: a container has one owner; a step finds its container; nothing is left at the
  end;
- log stream: output is filed under the step that printed it; a client reads the file
  without gap or repetition; the stream ends;
- knot consumer: one live task per knot, and the table knows it; no pipeline runs twice;
  none is lost but in ways that can be named; the lock comes back;
- access: roles follow the tables after every event, call and restart; the cursor covers
  only what was dealt with; replays converge;
- secrets: an answered change is what the next pipeline gets; a read gives nothing nobody
  stored;
- builds: a workflow runs with the packages and variables of its own file; a failure is
  not forgotten.

## 2. The modules

`WorkerPool` and `WorkflowLifecycle` are abstract specifications; the rest models code.
`Orchestrator` instantiates `JobQueue`; `Secrets` extends `ServiceAuth` and `Config`;
`Builds` extends `Manifest`. Each `MC` module instantiates one for TLC, and each
`...Proofs` module holds the theorems about one; `StreamProofs` those about `EventStream`
and `LogStream`, whose definitions therefore differ in name.

Conventions: an action is a handler's code from one await (or database call) to the next.
`moves` counts calls, faults, crashes and whatever else the environment may do at will,
and `MaxMoves` bounds it. History variables are named in each module; no guard of the code
reads them.

### JobQueue, and what it promises: WorkerPool

`JobQueue` has one action per branch of `submit` and per step of `run_dispatcher`.
`buffer` is the channel, `holding` the job whose permit is being awaited (outside the
`select`), `permits` and `running` the semaphore, `shutdown` and `handle` the two ways
to end. `rx.close()` is a separate step from leaving the loop: a job submitted in
between is accepted and abandoned.

`WorkerPool` is the promise: a FIFO line with `Room` places, at most `Workers` running
jobs, each of which ends at most once. `ImplementsPool` is the refinement, with
`waiting <- holding \o buffer` and `Room <- QueueSize + 1`: the module comment at
`lib.rs:9` has the spawned task acquire the permit, but it is the dispatcher that does,
with the job in its hand.

### Orchestrator, and what the status table promises: WorkflowLifecycle

`Orchestrator` instantiates `JobQueue` with pipelines as jobs and adds:

- `intake`: `process_pipeline_event`, which has no await but is cut by others at each
  database call (row, event, row, event, ..., submit, and failed rows if refused); a
  workflow is its position in the manifests, and `left` the positions the loop still has;
- `job`: a pipeline's job, awaiting secrets or its tasks, under `pipeline_timeout`;
- `task`: a workflow's task. `spawned`, `setup`, `steps` and `destroy` are where it
  awaits and can be aborted; `announce`, `record` and `report` are between a write and
  the next, where it cannot;
- `status` and `emitted`: the table and the events. `status_pending` inserts or ignores,
  the others update without looking; each may fail and the code goes on;
- `env` and `straggling`: workspaces and containers that `destroy_workflow` can find, and
  what an interrupted task left to the blocking threads, where it cannot: the creation of a
  workspace, or a step's command, which keeps its container until it ends (`Leaves`,
  `StragglerEnds`);
- `cancel_pipeline` in its two steps, `Shutdown` and `Restart` with the cancellation of
  orphaned rows.

Actions of `JobQueue` appear conjoined with the orchestrator's own: `Submit` is
`Queue!SubmitOk` or a refusal, `JobDone` and `JobTimeout` are `Queue!Finish`.
`WorkflowLifecycle` states the life of a row; `RowsLiveOneLife` is the refinement.
`QueueUnderContract` is that of `JobQueue`, in each process: a restart begins a new queue.

### EventStream

`Stamp`, `Insert` and `Notify` are the three steps of `emit_status_event` (read the
clock, insert, broadcast); several emitters run in parallel, and an event the database
refuses (`InsertFails`) is not broadcast. `Subscribe`, `Backfill`, `SendBackfill`, `Lag`
and `Receive` are `events_ws`; a backfill is the set of the `Limit` oldest events after the
cursor (`EventsAfter`), and `Comes` has them sent oldest first. When the query fails
(`BackfillFails`) the handler goes on without. `received`, `missed`, `cut` and `disorder`
are history variables: what reached the client, what the broadcast channel overwrote, what
a backfill left out or failed to read, and whether two emissions overlapped. A connection
may break anywhere; the client returns with the time of the last event it has. A restart
keeps only the table.

### Engine

The container is a value with an owner: `states` (the map), `blocking` (the step's
blocking task) or the setup that spawned it. `TakeContainer` and `BlockingEnds` are the
two halves of `run_step`; a timeout between them takes the run out of `listening`, and
the task's result is then dropped. `child` is the container's own side (external: the
hakoniwa crate and the runner script) and `pipe` the exit codes it printed that nobody
has read. The blocking task reads up to the first line that looks like an exit code, or to
the end of a dead container's output, and looks no further: a command may print such a
line, or one that is not UTF-8 (`Spoof`), and the container then goes back into the map
while it is `busy`, where the next step's command waits in its stdin (`queued`). Dropping a
container closes its pipes: idle, it dies; busy, it is `ending` and dies with its command.
`fscalls` are the interrupted `create_dir_all` and `remove_dir_all`, which go on
and end later (`FileCallEnds`), or not at all if they failed; `overtaken` are the
executions whose workspace came up after `destroy_workflow` had looked for it. Empty
commands are skipped by `run_step` and not counted in `Steps`.

### KnotConsumer

`tasks` are the connection tasks this process has spawned, `entry` the table
`connections` and `holder` its write lock while `unsubscribe` keeps it across its await
(`subscribe` holds it for one step). A task is at the head of its loop (`start`),
connecting, reading (the `select!`), noting its cursor in the shared table, which takes
the lock (`note`), sending to the pipeline channel, or waiting for a backoff. `Read` moves
the cursor to the local time in memory and on disk before the event is sent, as the code
does; `Note` and `Send` cannot be cancelled, `Leave` competes with `Read`. `AddKnot` is
`ingest_repo`'s row and call, `Restore` the start, `Consume` and `ProcessorStops` the other
end of the channel. Events are numbered by the time they happened and clocks agree; the
knot (external) replays what is newer than the cursor and, without one, everything or
nothing.

### Access

The Jetstream client, the ingester, the owner's `add_member` and `remove_member`, the
tables and RBAC, in one module because its question is whether they agree. `pos`, `cursor`,
`unsaved` and `hand` are the client (the cursor moves in `Read`, is saved in `Send` once in
`SaveEvery` events, or in `Disconnected` and `ClientStops`); `chan` is the channel;
`doing` is what the ingester and the one XRPC call are at, a list of steps ("table",
"roles", "watch") of which `Advance` takes one at a time. `members`, `watchlist`, `repos`
and `saved` survive `Crash` and `Exit`; `roles` and `policies` are rebuilt by `Start`, for
the owner only. `HangUp` is a caller that goes away while the handler awaits. `Enforce` is
the matcher of the RBAC model text. The client's `add_did` and `remove_did` are not called
by the program; the watch set it sends is the one it read at the start.

### LogStream

`lines` is the log file, a line being two chunks since serde_json writes to the file
without a buffer (`half`, `Newline`). The task runs a step (`RunStep`), a blocking thread
copies the container's output (`Output`, `Sentinel`, `StepReturns`) and the task writes
the control lines. The shell in the container is one for all steps: `running` is the
command it executes and `given` those written to it, so output that looks like the
sentinel (or is not UTF-8) ends a step early and what is left is read by the next. Its
stdout is one for all, too: a process that a step leaves in the background (`behind`) goes
on printing after the true sentinel, and what it prints is filed under the step that is
read by then. `Serve` is `logs_ws`:
waiting for the file, reading it to the end, waiting for the watcher or the interval,
asking the table, reading once more, closing. `offset` is the reader's position after
the last whole line; `foreign` marks rows made final by another than the task.

### ServiceAuth, Config and Secrets

`ServiceAuth` is `from_request_parts` and `verify_jwt`, check by check with the answer of
each; `Config` is `Config::from_env` over a record of variables and files, with the
precedence of the token over the token file and what a bad value does. `Secrets` starts
under any of several configurations, takes XRPC calls of several callers through
authentication (`CheckCaller`), the naming of the repository (`Resolve`: by path, or by AT
URI looked up in the repositories registered so far) and the manager (`Act`, `ActFails`,
`List`), while a pipeline reads (`ReadRows` at once for SQLite; `ListNames` and `GetValue`
one by one for OpenBao). SQLite's values are pairs of a value and the token they were
encrypted with. A call that fails, or whose caller hangs up, may leave its change behind
(`late`), on a blocking thread or on its way to OpenBao, and it may be made at any time
after (`Lands`), over those that were answered meanwhile; SQLite's end with the process, OpenBao's
do not. Where a change may yet be made, or went to a repository the name did not mean, the
place is `unsure`. `Nested` are the keys with a slash, which OpenBao stores and never
lists; `blank` the names for which its answer lacked the value. A key with a character that
ends or changes a URL is left out.

### Manifest and Builds

`Manifest` has the pure parts as operators: dependencies and their Nix expression, hash and
variable names; the variables of a trigger by kind; the clone step; `init_workflow`; the
environment of the container and of a local step. `Builds` runs them, several jobs at a
time: the spindle's workflows and invocations of `spindle-run` share `nixfile` and `cache`
(by content hash) and the Nix store, whose garbage collector is external. Writing a file is
truncating it and filling it (`WriteExpr`, `WriteExprEnds`); `NixReads` may come in between.
`Evaluates` and `Contents` say what Nix makes of an expression: it refuses a name bound
twice, and takes each package from what its variable imports. An expression is two functions
of the sources, its bindings and its paths: their order in the text only numbers the URLs.
`Fed` are the bytes that `compute_content_hash` hashes, sources and packages with separators
that are not escaped, and `ContentHash` is as good as they are: two lists of dependencies
with the same bytes have one name in the cache. `LocalEnv` is the order in which
`spindle-run` stacks a step's variables: `TERM` and `USER` of its own process, where it has
them (`ProcessVars`), lie above the file's.

## 3. What is checked

| Run | Configuration | Shows |
|---|---|---|
| `queue` | `JobQueue.cfg` | permits conserved, jobs in one place, lost only by closing; `JobQueue` implements `WorkerPool`; accepted jobs are served; a shutdown stops |
| `orch_safety` | `OrchestratorSafety.cfg` | work under permits, nobody forgotten, order of events, environments destroyed, the row lifecycle, the queue within its contract |
| `orch_live` | `OrchestratorLive.cfg` | events follow rows and results survive, with a cancellation, a failing write and a restart; permits come back, tasks end, workflows settle |
| `orch_cancelled` | `OrchestratorCancelled.cfg` | a violation: see below |
| `stream` | `EventStream.cfg` | each event at most once and in order; truthful cursors and delivery, up to the losses below |
| `engine` | `Engine.cfg` | one owner per container; steps find their container; nothing left behind but a running command |
| `knot` | `KnotConsumer.cfg` | one live task per knot, events sent at most once and delivered but for named losses, the lock comes back |
| `access` | `Access.cfg` | roles follow tables, the saved cursor covers what it passed, replays converge, every event is heard |
| `access_deletes` | `AccessDeletes.cfg` | a violation: see below |
| `logs` | `LogStream.cfg` | output under its step, the client gets the file, the stream ends |
| `secrets` | `Secrets.cfg` | answered changes are seen, reads are current, over both managers and six configurations |
| `jobs` | `Builds.cfg` | own packages, layers of variables in order, exit status tells of failures |

The type invariants of the newer modules are the first conjunct of one of their
invariants; `queue`'s is part of what is proved. The exceptions in the properties are as
informative as the properties. They name every way in which the code gives something up:

- `WorkUnderPermit`, `SomebodyHasIt`, `WorkflowsSettle` and `EnvDestroyed` except
  pipelines whose `pipeline_timeout` fired: that path aborts the tasks and leaves the
  row running and the environment in place. `EnvDestroyed` also excepts a workspace that a
  workflow timeout left to a blocking thread and that came up after the task was over, and
  says of a container in a blocking task only that a timeout left it there
  (`nix_engine.rs:384`; its end is `StragglersDie`). `SomebodyHasIt` also excepts failed writes and
  what a shutdown left in the queue; `EventsInOrder` lets a failed write leave out an
  event, never disorder or double one.
- `CursorTruthful` and `EventArrives` (of `EventStream`) except emissions that overlap
  (`disorder`), events the broadcast channel overwrote (`missed`) and events a backfill
  left out or failed to read (`cut`). `router.rs:218` and `notifier.rs:26` suggest that a client recovers from
  a lag with its cursor; it does not, since the next live event moves the cursor over what
  it missed.
- `StepFindsContainer`, `CleanAfter` and `StragglersDie` speak of executions whose id
  nobody shares (`Alone`). `OneOwner` speaks of all: two executions with one id replace,
  take and destroy each other's container, so that steps of one run in the container of
  the other, but none is used twice at a time or becomes unreachable. That the container in
  the map executes nothing is promised only of containers that never printed a line that
  was read as an exit code (`spoofed`): after one, the next step's command waits behind the
  one that runs, and is given its exit code.
- `CleanAfter` excepts the workspace of an execution whose interrupted `create_dir_all`
  ended after `destroy_workflow` had looked (`overtaken`), and besides a container that its
  blocking task has, one whose pipes were closed while it was busy, which takes a false
  exit code.
- `Pool` has `QueueSize + 1` places: `lib.rs:58` calls `queue_size` the maximum number of
  jobs waiting for a worker, but the one in the dispatcher's hand waits too.
- `AtMostOnce` except knots whose cancelled task outlived `unsubscribe`'s five seconds
  (`doubled`) or whose cursor could not be written (`unsaved`). `EventArrives` (of
  `KnotConsumer`) except events a replay from the local time passed over (`skipped`),
  events in a task's hand or in the channel when the process or the processor ended
  (`dropped`), and knots that were unsubscribed.
- `RolesFollowTables` except members of earlier runs, whose roles no start gives back
  (`unrestored`), and DIDs of which two operations overlapped or one was dropped half way
  (`uncertain`). `CursorCovers` and `EventHeard` except what an error or the end of the
  process cut off (`torn`) and what Jetstream never sent (`missed`): a member added while
  the client runs is not watched before the next start.
- `ReplayConverges` except DIDs that a call was about, those whose last event was cut off, and
  those whose last event is by somebody a call was about: `remove_member` takes its subject
  off the watch list, so a restart replays an older event of another author and not the
  later one of the removed author, and the older one stands.
- `StepsKeepTheirOutput` excepts commands that print a line with the sentinel or one that
  is not UTF-8 (`spoofed`), and has a line of an earlier step under a later one only if that
  step left a process behind. `ClientGetsTheLog` excepts rows that became final while
  something still wrote (`foreign`). `StreamEnds` needs the log file to exist: `wait_for_file` has no limit.
- `PutIsSeen` except names that leave a doubt (an AT URI whose record key is not the
  repository's name, once two are registered), repositories whose sanitized paths are equal,
  and reads that fail: after a change of token one row that cannot be decrypted fails the
  read of all, and `execute_pipeline` runs without secrets. Nor does it speak of a name one
  of whose changes met an error or was hung up, until a change is answered when no other is
  on its way any more: what was hung up may overwrite what is answered 200 after it.
  With OpenBao it excepts keys with a slash, which are stored and then neither listed nor
  given (`openbao.rs:387`), and answers without a value.
- `ReadIsCurrent` excepts the latter too: `openbao.rs:274` makes them an empty secret, which
  nobody may have stored. Of a key with a slash a read of OpenBao gives nothing.
- `StepEnvironment` says that `TANGLED_SHA` is the commit that is fetched only of triggers
  that have no part but their kind's: `orchestrator.rs:169` takes the push's commit whatever
  the kind, `PipelineEnvVars::build` the commit of the part that the kind names.
- `EnvIsOwn` says which environment a step is given, not that it is still in the store: no
  garbage-collection root is registered. It excepts files whose dependencies make the same
  bytes for the hash as those of another file beside them (`Confused`): a NUL or a line feed
  in a source or a package is taken for a separator, and then one of the two runs with the
  packages of the other.

### Where the code and its documentation disagree

Two runs check a sentence of the repository and find it violated.

| Run | Sentence | What the code does |
|---|---|---|
| `orch_cancelled` | `spindle-models/src/status.rs:35`, terminal states | a cancelled workflow's row is overwritten, in the run by the failed of a pipeline that the queue refuses (`orchestrator.rs:312`) |
| `access_deletes` | `spindle-jetstream/src/ingester.rs:163`, "Delete: Remove the member" | the author of the deleted record is removed, not the member it named |

The first has a second way: `execute_workflow` looks at no row either, and writes running
(`orchestrator.rs:432`) and its result over a cancellation.

Others are visible in the models without a run of their own:

- `spindle-xrpc/src/handlers.rs:13` and the comments on `put_secret`, `list_secrets`,
  `delete_secret` and `cancel_pipeline` require a member; the handlers take any caller that
  authenticates (`CheckCaller` of `Secrets`).
- `spindle-db/src/status.rs:6` gives each workflow execution one row; nameless workflows of
  a pipeline are all "unnamed" and share it.
- `router.rs:156` subscribes first to avoid a race and recognises duplicates by their time;
  an event with an older or equal time that is broadcast later is dropped (`Duplicate` of
  `EventStream`).
- `router.rs:157` speaks of a backfill of all events after the cursor; `events.rs:85` cuts
  it at 100, and the gap up to the live stream stays (`cut`).
- `spindle-engine/src/traits.rs:140` has destroy clean up what setup allocated; a container
  in a blocking task survives (`Engine`).
- `router.rs:257` streams NDJSON lines; a reader that meets a line of which only a part was
  written sends that part as a message and the rest as another (`LineEnd` of `LogStream`).
- `spindle-knot/src/consumer.rs:221` resets the backoff after a successful connection; the
  code does so when `stream_events` returns Ok, not when a connection that worked breaks.

### Bounds

- `queue`: 5 jobs, 2 permits, 2 places. Five jobs fill both workers, the dispatcher's
  hand and the channel; with fewer taken out, the channel refuses one. Two places are
  what it takes to tell the oldest job from the newest.
- `orch_safety`: two pipelines on one permit and one place, three tasks; both timeouts,
  a refusal and a shutdown. No faults, cancellations or restarts, which other runs have.
- `orch_live`: one pipeline of one workflow beside an event without anything to run and
  one of an unknown repository; one failing write, one cancellation, one restart. One
  cancellation can fall between any two steps of the task, one restart anywhere.
- `stream`: 3 events in all and as many distinct times (`MaxEvents`), a channel and a
  backfill of 2, two emitters, a broken connection and a crash. The limits of the code
  are 1024 and 100; what matters is whether a client can pass them, and it can.
- `engine`: two executions, one of two steps and one of one, with ids of their own or one
  id; one abort or failed removal, one container that prints a false line, one exit code
  unread at a time. Two are enough to replace, take and destroy each other's entry; two
  steps to put a container back, idle or busy, and take it again.
- `knot`: one knot, two callers, two events of which the first may be of another kind, a
  channel of one place, two moves. The table's entries are independent and meet only in
  the lock, for which two callers on one knot compete as two knots would; two moves are an
  unsubscribe and a subscribe, a fault in each, or a failure before a restart.
- `access`: the owner and two DIDs, one repository, histories of three events, a save every
  second event, a channel of one place, two moves. Three events are an addition, a removal
  and an addition by another, so that a replay can begin at each of them and a call can
  silence one of its authors; with a save every second event, a restart replays one or two.
- `logs`: two steps, two lines of output, two moves: a step's left output can only meet the
  next one, and two moves combine a false sentinel or a process left behind with a timeout,
  or a cancellation with a hang-up.
- `secrets`: two repositories of one DID, registered in either order or not at all, one with
  a record key of its own; three secrets, one with a slash in its key; two values, two
  callers, six configurations of which some are refused, four moves. One secret gets all
  changes, by path and by URI, the others are put by path. Four moves are a change that is
  hung up, one that is answered, and a read or a list after the first has landed; or a
  change, a restart with another token and a read. The manager stays the same across
  restarts: a change of manager starts from another store, which nobody promises to have
  filled.
- `jobs`: files that share a hash, differ in it, differ and yet make the same bytes for it,
  bind one Nix name twice, have unreadable parts or no steps, in groups of one or two jobs, with every kind of trigger and one of two
  parts; two moves.

### Fairness, and why the code justifies it

- The tokio runtime polls every task that is ready: weak fairness of the dispatcher, of
  the event loops once they have an event, of a task between its awaits, of the log
  writer and of a connected websocket handler.
- tokio's `RwLock` and semaphore are fair queues and `select!` picks among its ready
  branches at random: strong fairness in `KnotConsumer`, where a task's turn at the lock, or
  its token against the next event, may be disabled in between.
- `tokio::time::timeout` wraps the workflow (`workflow_timeout`), the pipeline
  (`workflow_timeout` + 120 s), `destroy_workflow` (60 s) and the join in `unsubscribe`
  (5 s): weak fairness of `WorkflowTimeout`, `JobTimeout`, `Destroy` and `JoinTimeout`.
- Nothing else is fair. Secrets, setup and steps may hang (the OpenBao client has no
  timeout), a command may print or run for ever, knots need not send events, clients need
  not connect, connections may fail (`MaxMoves` times), and nobody has to shut down or
  cancel.
- A blocking task returns once there is a line to end its reading or its container has died
  (`BlockingEnds`).
- `JobQueue` alone assumes that jobs end; `Orchestrator` shows it (`PermitComesBack`).

`CHECK_DEADLOCK FALSE` in every configuration: all jobs done, all events sent or all
executions over is a legitimate end.

## 4. What is proved

### The queue

`JobQueueProofs` holds for every set of jobs, every `MaxJobs` (0 included) and every
`QueueSize` of at least 1. Its only assumption is `QueueAssumption`: `mpsc::channel`
panics on a capacity of 0.

The invariants are not inductive by themselves. `OnePlacePerJob` needs the dispatcher to
have a job exactly while it acquires, or `StartJob` could start nothing;
`LostOnlyByClosing` needs that a dispatcher leaves its loop without the token only when
the channel is empty and no sender is left; `PermitsAccounted` needs the running jobs to
be a finite set. These are `DispatcherConsistent`, and with it the conjunction
`QueueInv` is inductive. The proof goes action by action, with lemmas on the range of a
sequence under append, head and tail, and on the cardinality of a set that gains or
loses one element.

- `QueueInvariant`: `Spec => []QueueInv`.
- `PermitsNeverLeak`, `NoJobLostOrDoubled`, `OnlyShutdownDropsJobs`: its parts.
- `QueueImplementsPool`: `Spec => Pool!Spec`. Each step of the queue is a step of the
  pool or leaves it unchanged; `QueueInv` supplies that a submitted job is fresh, that a
  free permit is a free worker, and that the line has room.

### The orchestrator

`OrchestratorProofs` holds for every set of deliveries and workflows, every number of
permits and places, and every number of faults, cancellations and restarts.
`WorkUnderPermit` says that a task lives only while its pipeline holds a permit, unless
the pipeline timed out. By itself it is not inductive: a job could be started a second
time while its tasks live, or finish while they do. `WorkInv` adds that the dispatcher has
a pipeline in its hand exactly while it acquires (`HandFull`); that who waits in the queue
waits once, in the channel or in that hand, and has not begun (`WaitsOnce`); that a job that
has begun was accepted and holds a permit until it is done (`JobUnderPermit`); and that a
task is alive only while its job awaits it, or after the pipeline timeout (`TaskUnderJob`).

- `WorkInvariant`: `Spec => []WorkInv`.
- `TasksWorkUnderPermits`: `Spec => []WorkUnderPermit`.

`EnvDestroyed` (no environment outlives its task) is inductive in `EnvInv` only together
with `WorkInv`: spawning the tasks of a pipeline gives them a new beginning, and it is
`TaskUnderJob` that says that none of them lived. `EnvHeld` names the task that will destroy
an environment, from its setup until `destroy`, or the thread that made it too late;
`ResultPlaces` says where a task with a result is, so that those that go round the
destruction because they have no log file did not set anything up, and those that timed out
did not begin again; `StragglersTimedOut` has a timeout for whatever a thread still does.

- `EnvInvariant`: `Spec => []EnvInv`.
- `EnvironmentsDestroyed`: `Spec => []EnvDestroyed`.

The other properties are about a workflow's life. `LifeInv` is what the variables say of it
together: an event the loop has in hand was not accepted before (`LoopTookIt`), a task lives
in a job that spawned it (`TaskAfterJob`), an accepted pipeline whose job has not begun is in
line or was dropped with the line (`LineKept`), and a permit that is out belongs to a job
that will return it (`PermitUnderJob`). From these, `Phase` reads off where a workflow is,
and a lemma shows once that every step of a process is a `LifeStep`: it moves one workflow by
one row write or one event, or moves none backwards and writes nothing, or is the write of
`cancel_pipeline`. What follows is proved over phases, not over the actions again.

- `LifeInvariant`, `TypeInvariant`: `Spec => []LifeInv`, `Spec => []TypeInv` (all of `TypeOK`).
- `NoWorkflowForgotten`: `SomebodyHasIt`. Somebody carries each row that is pending or running
  (`Carried`): a workflow before its result, or one that was given up. It is the phase that
  makes it inductive, for a row of an id that several workflows share too.
- `QueueKeepsContract`: `QueueUnderContract`.

The rest speaks of workflows whose id is their own, `OwnIds`: two nameless (or same-named)
workflows of a pipeline write one row, and so do the two deliveries of one pipeline, and
then rows and events do get out of step. `OwnIds` is a hypothesis on the constants, which say
what is delivered. `OwnInv` joins a workflow's row and its events to its phase: what was
announced is a beginning of a life as long as the phase says (`ToldInOrder`), there is no
result before the task records one (`RowOpen`), without failed writes the row is what was
last announced or what is due (`RowFollowed`), and without cancellations as well it is what
the phase says (`RowExact`).

- `OwnInvariant`: `OwnIds` gives `Spec => []OwnInv`.
- `EventsComeInOrder`, `EventsFollowTheRows`: `EventsInOrder` and `EventsFollowRows`.
- `ResultsAreKept`: the action property `ResultsSurvive`.
- `RowsLiveTheirLife`: the refinement `RowsLiveOneLife` of `WorkflowLifecycle`, when no write
  fails and nobody cancels (`MaxFaults = 0`, `MaxCancels = 0`); with either, the code does
  not implement it (`orch_cancelled`).

### The engine

`EngineProofs` holds for all executions, ids and namings (any executions may share an id),
and numbers of steps, under `EngineAssumption`, which types the constants. The idea of
`EngineInv` is that a container never leaves the id it was made for (`Homes`): so those who
might hold it are the setup that made it, the map's entry of that id and the blocking
tasks of executions with that id, and `OwnedOnce` says that these exclude each other.
`Quiet` says that a container that printed nothing false has one command at a time and
answers it once, which is why the one in the map is idle; `Reachable` has an owner for each
container that listens, and lets none be dropped busy but a `spoofed` one; `Phases` relates where an
execution is to its blocking task; `OwnEntry` says what is in the entry of an id at each
point of the one execution that has it for itself.

- `EngineInvariant`: `Spec => []EngineInv`.
- `OneOwnerEach`, `StepsFindContainers`, `NothingLeftBehind`: `OneOwner`,
  `StepFindsContainer` and `CleanAfter`.

### The knot consumer

`KnotConsumerProofs` holds for all knots, callers, capacities, logs and numbers of faults.
That an event is sent once rests on what was read: of a knot it is not newer than the row
(`Saved`), nor than the cursor and position of the knot's task (`Ahead`), there is one such
task (`OneTask`), and what it has in hand was not sent before (`Unsent`). The two exceptions
of the property are where these fail: `doubled` for `OneTask`, `unsaved` for `Saved`.

- `Inductive`: `Spec => []ConsumerInv`.
- `OwnedTasks`, `SentOnce`: `EntryOwnsTask` and `AtMostOnce`.

### Status events

`StreamProofs` holds for all emitters, clients, channel capacities, backfill limits, broken
connections and restarts. `StreamInv` has three parts. `TypeInv` includes that who has read
the clock has a place left in the table (`Room`). `Ordered` puts the cursor between what a
client got and what is left of its backfill, so that neither the backfill nor the live stream
can send anything twice: this is all that `OnceInOrder` needs, overlapping emissions or not.
`CalmInv` holds until emissions overlap. `Calm` says that ids, times and places in the
channel then go together: the process broadcasts the end of the table, in order, and at
most the newest event is inserted and not broadcast. `Covered` says of a client that all up
to its cursor, all that was broadcast before its place in the channel, and all that is older
than something in its hand, it has, has in hand, or lost in a way that is named. The
second of these is why subscribing before the query matters; the third lets a connection
break in the middle of a backfill.

- `StreamInvariant`: `EventsSpec => []StreamInv`.
- `EventsOnceInOrder`, `CursorsAreTruthful`: `OnceInOrder` and `CursorTruthful`.

### The log stream

`StreamProofs` holds for every number of steps, lines and disturbances. `Position` makes
`offset` the number of chunks sent; what takes an argument is the end of the stream:
the handler reads the row, then the file once more, so a final row must mean that nobody
writes. `Quiet` says so, unless a cancellation, a timeout or a crash came in between
(`foreign`), and needs that a thread copies only for a task that awaits it.

- `ClientsGetTheLog`: `Spec => []ClientGetsTheLog`.

That each line is filed where it belongs needs to know, of each place the task can be in, what
the file ends with: `Turn` says which mark (start or end of a step) was written last, that no
thread copies when a step starts, and how many commands the shell was given; `InTurn` that
without a false sentinel the command that runs is the one whose output is copied, and that
who is `behind` had its turn before. `Filed`
is the property itself, kept because a line that is appended does not move those before it.

- `OutputStaysWithItsStep`: `Spec => []StepsKeepTheirOutput`.

### Access

`AccessProofs` holds for all DIDs, histories, intervals between saves, capacities and
disturbances. The saved cursor comes from the cursor in memory, which comes from the
position in the stream: `CursorInv` says of all three what `CursorCovers` says of the first,
and that a process that has ended has nothing on its way, since the next one starts from
the saved cursor with an empty channel.

- `SavedCursorCovers`: `Spec => []CursorCovers`.

The roles and the tables differ while an operation stands between its steps, and an
operation that is dropped there leaves them so. `AccessInv` gives each operation a list of
steps that is an end of its kind's list (`OpsInv`), says which roles and policies there can
be at all (`RolesInv`: the owner's role on the spindle is the owner's, a repository's comes
with its row and its policy), and lets a DID's row and role differ only while one operation
has it between "table" and "roles" (`AgreeInv`). Two operations on one DID make it
`uncertain`, so that the proof follows one at a time.

- `AccessInvariant`: `Spec => []AccessInv`.
- `RolesAgree`: `Spec => []RolesFollowTables`.

That replays end where the history ends is an argument about order. `ReplayInv` says that
events keep the order of the log from the stream to the ingester and lie behind the cursor
(`OrderInv`); that behind an event on its way is every later one the client was sent, and
nothing wanted lies between the cursor and the position in the stream (`StreamInv`); that a
client without a cursor begins after all that was seen (`SeenInv`); that the author of what
was seen is still listened to unless a call was about it (`WatchInv`). Then, of each DID, the
last event that was seen is what its row says, or it or a later one is on its way, or it
lies after the cursor from which the stream goes on or starts again (`LastInv`). A replayed
older event changes the row only while the last one is behind it.

- `ReplaysConverge`: `Spec => []ReplayConverges`.

All of this assumes `AccessAssumption`: the owner is a DID, a record that does not parse
names none, histories are sequences of events, and the interval between saves and the capacity are positive.

### Secrets

`SecretsProofs` holds for all repositories, paths, secrets, values and deployments, under
`SecretsAssumption` (the string that marks absence in the model is no value). A read
of OpenBao takes names first and values later; `ReadInv` says what is so far gathered of it,
and that what the store has now is among what was held since the read began. That an
answered change is found needs more: between the answer and the read other calls may fail
half-way, or change another repository than they meant. `SecretsInv` says that a place has
what was last wanted of it unless a change of it is in doubt (`AsWanted`), that every change which may
still be made is of a place in doubt (`LateInv`), that a name which
leaves no doubt is resolved to the repository that was meant (`CallInv`), that a list was
told the names that are wanted, and that what a read holds of each secret
includes a value it may find (`Sought`). The proof of `PutIsSeen` then needs the cardinality
of `held`: what changed while the read went on is excepted.

- `SecretsInvariant`: `Spec => []SecretsInv`, `TypeOK` among it.
- `AnsweredIsSeen`: `Spec => []PutIsSeen`.
- `ReadsAreCurrent`: `Spec => []ReadIsCurrent`.

### Builds

`BuildsProofs` holds for all invocations, files, dependencies, steps and errors, under
`BuildsAssumption` (files are sequences, and so are their steps; `SourceOrder` has every
source a file names). `ExitInv` counts the steps of the current file that succeeded, and
says that the files before it have passed unless `any_failed` is set.

`EnvIsOwn` is not inductive: what a job finds in the cache is what others wrote there.
`BuildInv` adds what each shared file may hold (`DiskInv`: nothing, or the expression or the
path of dependencies that somebody side by side asks for and that make the bytes it is named
by, and a path only of an expression that Nix accepts; without confusion these are the very
dependencies of who reads it) and, place by place, what the job has read and built (`BuildOk`). Two facts about
the operators finish it: an expression that binds no name twice has the packages of the
file's dependencies, each from its own source (`ContentsAreOwn`), and a file of which no
expression is made asks for nothing (`NothingIsOwn`).

- `ExitStatusTells`: `Spec => []ExitTellsFailure`.
- `BuildInvariant`: `Spec => []BuildInv`.
- `EnvironmentIsOwn`: `Spec => []EnvIsOwn`.
- `LayersInOrder`: `Spec => []StepEnvironment`. `VarsInv` says, place by place, what the job's
  variables were made of; the rest is about one environment over another (`Overlay`,
  `FiveLayers`), the commit a trigger names (`TriggersSha`) and the one the clone step gets
  (`StepsFetch`). `BuildsAssumption` and `ManifestAssumption` add that an input's variable
  has a name of its own, which its prefix `TANGLED_INPUT_` gives it.

### Only model-checked

- Liveness (`AcceptedIsServed`, `ShutdownStops`, `PermitComesBack`, `TasksEnd`,
  `WorkflowsSettle`, both `EventArrives`, `StragglersDie`, `LockComesBack`, `EventHeard`,
  `StreamEnds`), which needs fairness and `ENABLED`, out of the prover's reach.

## 5. Not modelled, and what is left

Left out by intent:

- What is abstracted to a value: JSON and YAML syntax, tokens and signatures as bytes,
  AES-GCM, the text of commands and logs, timestamps of rows, HTTP routing and the
  listener, the read-only listings, printing, the options of systemd-run and the
  environment of its user manager, clap.
- External: knots, Jetstream, the DID directory, OpenBao, Nix and its garbage collector,
  the container.
- The lengths of backoffs. What they delay is modelled as a wait of any length.
- `add_did` and `remove_did` of the Jetstream client and the renewal of the OpenBao token,
  which the program never calls; `limit_walltime`, which it never applies.
- Errors in reading a table at the start, which the code takes for an empty table.
- Pure functions of strings: the normalisation of ids, `sanitize_repo_path` (its collisions
  appear as the constant `PlaceOf`), the masking of secrets, which works line by line, so
  that a secret of several lines is masked only where a line holds all of it.
- Panics of tasks.

Known from the models, with no property that could hold: `max_jobs` may be 0, durations
wrap silently (`Config`); two channels may have one Nix name, and then the expression is
refused (`Manifest`); the clone URL of `init_workflow` and `TANGLED_REPO_URL` differ; the
home of `spindle-run`'s steps is shared by its invocations and removed by the first to end.

Left for later: larger instances (two knots, two followed logs, a change of the secrets
manager across a restart).
