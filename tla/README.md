# Furniture workflow website: TLA+ models

This directory models the part of the repository that decides, pays, counts and
recovers: how a site is scanned and a job drafted, how products are found for
it, the worker that buys 3D models for them, the engines that drive it, and the
control plane that queues and judges its processes. TLC checks the models on
small instances; TLAPS proves some of the results for every value of the
constants.

Paths are relative to the repository. These short names are used throughout:

| short | file |
|---|---|
| pipeline | `workers/production_pipeline.py` |
| provider client | `workers/modeling_provider.py` |
| worker entry | `workers/native_runtime.py` |
| tick | `packages/workflow-engine/src/furniture_workflow_engine/runtime.py` |
| task engine | `engine.py`, `model.py` of the same package |
| pool | `packages/workflow_core/candidate_pool.py` |
| run service | `services/api/app/services/production_runtime.py` |
| routes | `services/api/app/api/routes/control_plane.py` |
| scan service | `services/api/app/services/site_scan_runtime.py` |
| analyzer | `services/api/app/services/native_site_analysis.py` |
| brain | `services/api/app/services/brain_provider.py` |
| acquisition | `services/api/app/services/product_acquisition.py` |
| HTTP client | `workers/scrape/http_client.py` |

## 1. Inventory

### How an order runs

An operator drafts a job in the web front end and scans its site: a thread of
the *scan service* reads pages, asks an agent of the *brain* about what it does
not understand, goes on in a browser where needed, and writes categories and a
profile of the site. The operator chooses categories, fixes a target
(`EXACT_N`, `UP_TO_N`, `ALL`), approves a provider and starts the job. The
*run service* makes a `production_runs` row, queues it if all slots are taken,
and otherwise writes the job's *contract* and spawns one *worker process* per
run. The worker lets *acquisition* find products, puts them into the *candidate
pool* (a JSON file), and `ProductionPipeline.run` ticks the *production engine*
over it: capture, media, visual, category, date, dimension, naming, catalog,
model input, submit, poll, download. `submit` is where money is spent; its
*ledger* is a database table the worker commits to itself. When candidates fail,
acquisition is asked for more. The worker reports by appending to an event file;
the API process ingests that file whenever the front end polls, projects it on
the job row, and judges a worker that has exited. A job that needs a person
stops with a named event; resume starts a new worker on the same pool and
ledger.

### Components, state, operations

| component | state | operations | what makes it correct |
|---|---|---|---|
| Provider ledger (pipeline 1678-2181, provider client) | `production_provider_tasks`, raw GLB files, registry | submit, poll, download, reconcile checkpoints | no candidate billed twice; calls within the approved limit; pool, ledger and files agree after any crash |
| Candidate pool (pool) | `candidate_pool.json`, event journal | transition, claim, retire, counts, policy lock | legal states only, terminal states stay, counts match the states |
| Production engine (tick; pipeline `run`, `_deliver`) | the tick's counters, refill rounds, gates, the pool | tick, refill, Ready Pool, boundaries, delivery | Exact-N, quotas, no lost or surplus paid model, every run ends at a named boundary |
| Task engine (`engine.py`) | snapshot and event log of an enterprise workflow | new, make ready, start, succeed, transition, unlock | tasks in order, gated, none forgotten, log explains state |
| Run service and routes | `production_jobs.status`, `production_runs`, `runtime_events`, processes, event files | start, queue, promote, launch, ingest, judge, relaunch, resume, cancel, delete, edit | at most the allowed workers, each owned by a run; verdicts that match what the worker said |
| Acquisition (acquisition, HTTP client) | `acquisition_checkpoint.json`: cursors of categories, products, emitted products, status, whether the agent was asked | discover, read a page, store, ask the agent, emit a batch | every product found is handed out once; a shortage is only told when the categories are exhausted |
| Order policy, locks, quotas (`order_policy.py`, `locks.py`, pipeline 183-216, 318-370, 2408-2452) | target, policy hash and locks in the pool | lock or migrate a policy, distribute a target over categories | a paid job keeps its policy; shares add up to the target |
| Site scan (scan service, analyzer) | `site_scan_runs`, `site_categories`, snapshots, `site_profiles`, an executor of threads and the set of scheduled scans | start, resume, restart, analyse, analyse in the browser, persist, delete with the site | no scan left behind; the current categories are one scan's; no late scan undoes a newer profile |
| Brain (brain, analyzer 1242-1685) | a loop's turn, budget and findings; the bridge's session, lock, cancelled, request and response files | ask a model, ask an operator through files, run tools, settle, cancel | answers belong to their question; a profile is validated by evidence; every loop ends |
| Drafting and approval (routes) | the job's columns, its policy, `provider_safety_checks`, the contract | create, choose categories, change the target, approve, switch the provider, start, resume | a paid contract is an approved one; the contract has the categories that were chosen |
| Delivery and normalisation (pipeline 3034-3213, `blender_adapter.py`) | batch directory, archives | validate, normalise, QA, pack, receipt | what is packed is what was completed |
| Production gate, source policy (`production_gate.py`, `source_*.py`) | none | decide | no unapproved source, no unapproved payment |
| Naming, attributes, dimensions | none | text rules | unique file names |
| Unused library modules (`exact_n.py`, `agent_tasks.py`, `frozen_catalog.py`, `runtime_files.py`, `generation_scope.py`, `source_profiles.py`, `coverage.py`) | JSON files, counters | reserve, enqueue, freeze, migrate | exported and tested, called by no code of the API or the worker |
| Front end, database set-up, configuration, diagnostics, scripts | none of their own | - | - |

### How they interact

* run service -> worker: a process, its contract file, `--resume`; `cancel-job`
  is a second process appending to the same event file.
* worker -> run service: the event file (append, read by sequence) and the
  `exit`, seen only by probing the pid.
* worker -> ledger, registry: commits in the API's SQLite database; pool and GLB
  files are written beside it, not in one transaction.
* worker -> acquisition: a call at the start and from the tick's refill. The
  checkpoint (what was emitted) and the pool (what was taken) are two files,
  written one after the other.
* scan thread -> database: status updates in transactions of their own, the result
  in one. It writes the job's row too, if the scan was started for a job.
* scan thread -> brain: a remote model, or request and response files that an
  operator handles. Two agents with the same evidence share one session file.
* tick -> pipeline: callbacks (`adapter.stage_*`, `on_item_complete`); each
  visit's outcome is written to the pool before the next candidate is visited.
* front end -> API: polls every 5 seconds; polls are what moves the queue.

### What is hard here

Crashes between two stores; an answer lost after money was spent; a budget
counted from rows that lag behind; counters compared at `>=` against a target;
slots that a never-answered submission holds for good; event files read while
they are written, by several requests at once; a stale row written back after a
two-second wait; relaunches that must not repeat a pause; scans of one site that
end in another order than they began, with a restart in between; an operator and
a deadline that answer at once; lock files nobody removes; a page that cannot be
told from the last one. Section 8 and the
`hazards` of `PROJECT.json` list them at their lines.

## 2. Modules

| module | models | status |
|---|---|---|
| `ProviderLedger` | pipeline submit, poll, download, the reconciliations at start, the tick around them, crashes at every durable step | checked, proved |
| `PaidOrder` | abstract: what an order promises about paid models | implemented by `ProductionEngine` (checked, proved) |
| `ProductionEngine` | `run`, `tick`, all stages, refill, quotas, boundaries, resume | checked, proved |
| `WorkflowEngine` | task engine | checked, proved |
| `StepByStep` | abstract: tasks finish one at a time, in order | implemented by `WorkflowEngine` (checked, proved) |
| `ControlPlane` | run service, worker processes, the routes that start and stop jobs | checked, proved |
| `SiteScan` | scan service: the scans of one site, their threads, the browser stage, restart, resume, what is stored of a result | checked and proved through `JobDrafting` |
| `JobDrafting` | `EXTENDS SiteScan`: one job from form to contract, while the site is scanned | checked, proved |
| `BrainAgent` | the agent's loop, its tools, remote model or file bridge | checked, proved |
| `ProductAcquisition` | the acquisition checkpoint, discovery, the pagination agent, emission into the pool, the policy lock, refills | checked, proved |
| `ProviderLedgerProofs`, `ProviderBudgetProofs`, `ProductionEngineProofs`, `WorkflowEngineProofs`, `ControlPlaneProofs`, `JobDraftingProofs`, `BrainAgentProofs`, `ProductAcquisitionProofs` | proofs | |
| `MC*` | constants for TLC: orders, endings, sites, messages, symmetry | |

`ProductionEngine` and `ProviderLedger` look at the same worker at two
granularities. In `ProductionEngine` a visit (the adapter's stage and the pool
write that applies its outcome) is one step, so that all stages, quotas and
boundaries fit; `ProviderLedger` cuts the paid visits open at every durable
write. `PaidOrder` is the interface between the two: slots, target, and no ended
candidate paid again. `ControlPlane` sees a worker only from outside: the events
it appends, its ending, its death.

The newer modules meet these at their edges. `JobDrafting` composes the scan
threads with the routes that draft a job, because both write the job's row; of the
job's run it keeps what `ControlPlane` makes of it (queued, running, ended). What
it hands on is the contract. `ProductAcquisition` begins with the contract's
target and ends at the pool: a candidate in it is delivered or fails, which is
`ProductionEngine` in one step, and `ProductionEngine` in turn has acquisition as
`Refill`, one step that adds candidates or ends the supply. `BrainAgent` is one
call inside `SiteScan`'s `Analyze`, whose receipts are its possible outcomes.

### ProviderLedger and the code

* `item`, `capWait`, `poolTask`, `renamed`, `inputHash` are the pool's fields
  (`state`, `provider_status`, `provider_task_id`, the naming reconciliation
  marker, the model input hash); `ledger` is the row (status, key, task id,
  `post_attempts`, `billable_attempts`); `file`, `registry` the raw GLB and the
  permanent registry; `created`, `fate` belong to the provider.
* `Start` reopens naming and download checkpoints (pipeline 1509-1622). The scan
  of a tick is `cursor`; `Skip`, `VisitLock`, `SubmitKnownTask`, `SubmitAmbiguous`,
  `SubmitOverBudget`, `SubmitWithinBudget` are the ways `_stage_submit` leaves its
  checks; `PrepareLedger`, `MarkInFlight`, `CreateTask`, `CommitCreate` the commits
  around the POST (1797-1856); `Poll`, `Download`, `InspectGlb` the other stages;
  `Apply*` the pool write of `_apply`; `RecordCompletion` the registry callback;
  `EndTick`, `Deliver` the end.
* `Crash*` kill the worker between any two of them, in the POST (the provider may
  have the task) and in a download (a partial file stays).
* Data left out: hashes other than "changed or not", response bodies, URLs, times.

### ProductionEngine and the code

* `item`, `why`, `glb`, `capRows`, `repaired`, `gates` are the pool, the rejection
  reason a blocker is read from, and the files; `cursor`, `steps`, `status`,
  `progressed`, `changed` the tick's locals; `outcome` the event `run` stopped with.
* `BeginTick`, `Skip`, `Visit`, `EndTick`, `Refill` are `tick`; `RefillReadyPool`,
  `CompleteReadyPool`, `Deliver`, `SupplyExhausted`, `ManualReconciliation`,
  `WaitForCapacity`, `AfterTick` are the branches of `run` in its order; `Start`
  and `StartEmpty` a start or resume; `TickLimit` the bounded loop's end.
* `Answers` lists what a stage can answer besides "accept": what a site, reviewer
  or provider says is any of them. The sets `VisualAnswers`, `DimensionAnswers`,
  `QaAnswers`, ... name the helper (of the pipeline or of `blender_adapter.py`)
  that gives them and the state it is asked in.

### WorkflowEngine and the code

`status`, `attempt`, `events` are the snapshot and the log; `Start`, `Succeed`,
`Move` the accepted transitions; a refused one raises and changes nothing. `Explained`
says of any log, and of any snapshot, that one tells the other's story.
`ALLOWED_TRANSITIONS`, `Prerequisites`, `GatesOpen`, `Unlocked` are the code's
table and checks.

### ControlPlane and the code

* `jobs` is `production_jobs.status`, `runs` the rows of `production_runs` by
  creation, `procs` the worker processes by launch, `pending` the rows of an event
  file the database does not have yet. `lastEvent` and `lastTerminal` replace
  the time stamps: they hold the number of launches when the latest event and the
  latest terminal event were *ingested*, which is what `created_at >= launch_time`
  compares.
* A poll is `Ingest` (load the row, read the file) followed by `LeaveRunning`,
  `JudgeEnded`, `Relaunch` or `JudgeFailed`, with the row as it was loaded. A
  thread that has written holds SQLite's write lock (`locked`) until it commits;
  `Committed` writes only the attributes it changed, as the ORM does. `Pick`
  and `Launch` are `_promote_next` and `_launch`; the operator's requests are one
  action per outcome.
* `Emit`, `Work`, `Exit`, `Die` are the worker: `Endings` lists the rows of events
  `run` and `_deliver` can end with.
* `JobAfter` is `ingest_event`'s effect of one row on the job's status, `StatusAfter`
  that of all rows of one reading. It is written without the fold, so that it can be
  reasoned about; the assumption `StatusesAssumption` of `MCControlPlane` compares the two
  on all files of up to three events.
* One ingestion of a file, one cancel and one deletion are single steps; so are
  flush, spawn and commit of a launch, because the write lock spans them. Fields
  for display (progress, notes, artifacts, heartbeat) and the contract are left
  out; the startup grace period is a choice (`MayBeStarting`).

### SiteScan and the code

* `scan` is `site_scan_runs`; `scheduled` and `queue` are `_scheduled` and the
  executor's queue; `thread` is where each `_execute` stands, with the profile it loaded
  when it began (`seen`), its receipt and whether it found a row of its first category;
  `rows`, `snapshots`, `profile` are the stored results. `older` replaces the
  comparison of time stamps: the scans started before the profile was last written.
  `jobRunning` and `bound` are the two columns of the job a scan writes.
* `start`, `resume` are the routes' calls; `Restart` the death of the API process
  with `reconcile_all` of the next; `Begin`, `Analyze`, `AnalyzeBrowser`,
  `Raise`, `Persist`, `PersistFails`, `PersistNothing`, `Leave` the steps of a
  thread between its commits. `Persist` is one transaction; what it read before the
  write lock (the category looked up by the autoflush) is read in `Answered`.
* `PersistsProfile` is the optimistic check of `_persist`; `ForgetSite` is
  `delete_control_site` while threads run.

### JobDrafting and the code

* `job` is the job's row and its policy, `safe` the providers whose latest
  `provider_safety_checks` row is ready, `run` the job's latest run, `contract` the
  file `_contract` writes at every launch. `chosen` and `approved` are history: what
  the operator last selected and approved.
* Each action is a route of `control_plane.py` with its refusals; `Decide` stands for
  those decisions that change nothing here but the status. `Launch` is promotion
  from the queue or a relaunch: neither checks the provider again.

### BrainAgent and the code

* `agent` is the loop of one thread (turn, budget of tool calls, calls still to run,
  what each tool found, the profile) and its place in `_chat_once`; `session`,
  `lock`, `cancelled`, `requests` are the bridge's files. `shown` is history: the
  strategies a tool has shown to work in this run.
* `Lock`, `Busy`, `FindStale`, `Steal`, `ReadSession`, `WriteSession`, `Unlock`,
  `Poll`, `Settle` cut the bridge at every file operation another process can come
  between. `Respond`, `Cancel` are `codex_bridge_respond.py` and the operator,
  `GrowsStale` the clock, `Crash` the API process.
* `_agent_dispatch` keeps of a tool what a later `finish_site_profile` reads.

### ProductAcquisition and the code

* `site` is what the collector can see: pages with products in four places, the page
  that follows and the control that may or may not say so. `checkpoint` is the file,
  `memory` the payload `discover` works on, `worker` the process and the call it is
  in, `pool` what of the candidate pool matters, `skipped` history: products seen and
  not stored.
* `_target_and_quotas`, `LockPolicy`, `Discover`, `ReadHtmlPage`, `ReadGraphqlPage`,
  `RepeatedCursor`, `PageFails`, `Conclude`, `SelectBatch`, `SelectUnverified`,
  `SelectNothing`, `add_candidates` are the steps from contract to pool, split where
  a file is written; `Settle` and `Tick` the engine around them.
* `Stored` is `_store_product`'s setdefault: a product keeps its first place, however
  many links lead to it. The links whose own page fails are passed over.
* `SiteAssumption` says which sites are supposed: a category has a first page, an end
  that is told is an end, a page without products is the last, a control that does not
  lead on leads back. On other sites no collector could tell a shortage. It is a named
  assumption about the world, not about the code; TLC checks it of the four sites.

## 3. Runs

Every run of a passing configuration is exhaustive for its bounds. Deadlock is not
checked because the systems stop: an order is delivered or waits for a person, a
workflow is finished, starts are used up.

| run | question | bounds, and why they are enough |
|---|---|---|
| `LedgerCrashes` | Can a crash or a lost answer bill twice, overshoot, or leave pool and ledger in disagreement? | 2 candidates for a target of 1 with one slot: the second competes for what the first leaves; 2 crashes (a crash and a crash during its recovery), 3 POSTs, retry switch on |
| `LedgerBudgetAfterCrash` | (violation) the documented budget | 2 candidates, limit 1, 1 crash: a hidden row and one more |
| `EngineStages` | All stages, all answers, refill, resume: refinement of `PaidOrder`, complete delivery, no overshoot, an exact Ready Pool | 3 candidates for a target of 2, so that one is surplus; 2 slots, 2 visits a tick; all 18 answers; 2 starts, the provider may be switched on between them |
| `EngineTurns` | Quotas, gates, short delivery, progress and termination | 2 categories with a share of 1, 3 candidates of which two compete |
| `EngineSlotSpin` | (violation) a tick that can do nothing says so | 1 slot, the default |
| `WorkflowTasks` | Order, gates, log, review of unknown submissions | 3 tasks, each with a gate; 10 events are enough for two tasks to fail, wait or be unknown, be reviewed and run again |
| `ControlRuns` | Queueing, crash, relaunch, resume, cancel, delete and edit of two jobs on one slot, requests one at a time: does the queue move, is every run settled, every worker owned? | 3 requests on 2 runs: two starts fill the slot and queue, and a resume, cancel, deletion or edit comes anywhere; 3 launches (later spawns fail, as a spawn can); a delivery or a block |
| `ControlPolls` | Two requests at once on one run, any interleaving | 2 threads, 1 run, 2 requests (a start and any other), 3 launches, the ending with most events |
| `ControlShortage` | (violation) a shortage is kept for the operator | one job, one worker |
| `SiteScans` | Scans of a site that overlap, are resumed or die, while a job is drafted and launched: is a scan left behind, are the stored results one scan's, what does the contract say? | 2 categories, one the parent of the other; 2 scans on 2 threads, so that one can begin, end and write during the other; 1 death or resume; 3 requests (choose, approve, start, or an edit between); providers off, approvable and not |
| `BrainAgents` | Does an agent end, with its own answers and an earned profile, whatever an operator, a lock, a crash or a second agent does? | 2 capabilities, 2 strategies, 2 turns, 5 tool calls: enough to find, disprove and finish; 1 second agent or 1 crash |
| `Acquisitions` | Is every product handed out once, and a shortage told only when there is one? | 4 sites (told ends; a page without a readable next; a next that leads back; data pages beyond the page limit) of 4 products on 3 pages; 2 cursors; page limit 2, 2 refill rounds, 3 processes |

The configurations list each run's properties, the modules say what each means.
Type invariants are checked in `EngineStages` and `ControlRuns` and proved; those of
`ProviderLedger`, `WorkflowEngine` and `ProductAcquisition` are proved only, those of
`SiteScan` and `JobDrafting` are conjuncts of their proved invariant. `TypeOK` of
`BrainAgent` is kept by no run: it holds with `BrainAgents` (add it to its invariants),
and the proofs use the weaker types they state.

Bounds named in the guards: `MaxPosts`, `MaxCrashes` (ledger); `MaxStarts`,
`Answers` (engine); `MaxEvents` (tasks); `MaxRuns`, `MaxRequests`, `MaxLaunches`,
`EndingsTried` (control plane); `MaxScans`, `MaxInterruptions`, `MaxRequests`,
`L1Answers`, `L2Answers`, `QuickResume` (scans and drafting); `MaxDisturbances`,
`RemoteMessages`, `BridgeMessages` (agents); `MaxStarts`, `Sites`, `AgentAnswers`
(acquisition, whose limits `MAX_ACQUISITION_PAGES`, `MAX_REFILL_ROUNDS`,
`ALL_PRODUCTS` are the code's own, made small). With `QuickResume = FALSE` a scan is
not resumed in the moment between its last write and its thread's end (section 4).
Symmetry is used in `ControlPolls` (threads) only, which checks no liveness.

### Fairness

* `ProductionEngine`: weak fairness of `WorkerStep`, because a live worker
  goes on, and strong fairness of `DecisiveVisit`: a stage asked again and again
  answers in the end (pipeline polls with bounded waits). Nothing is assumed of
  `TickLimit`, of resumes, or of which answer comes.
* `ControlPlane`: weak fairness of worker steps and of finishing a request that
  has begun; strong fairness of judging, promoting and polling, because the front
  end polls every five seconds (`production-console.tsx` 804) between other
  requests, reconciles at API start (`main.py` 32), and in the end finds a launch
  older than its grace period. Nothing is assumed of the operator; a worker may die
  at any time.
* `BrainAgent`: weak fairness of each agent's steps, because a thread goes on: a
  request has a timeout, a wait at the bridge a deadline. Nothing is assumed of the
  operator; a lock is only stale if it gets so.
* `ProductAcquisition`: weak fairness of `DiscoveryStep`, because `discover` is one
  call whose requests have timeouts. Nothing is assumed of starts or deaths.
* `ProviderLedger`, `WorkflowEngine`, `SiteScan` and `JobDrafting` state no liveness.

## 4. Findings

Three statements of the repository are refuted by a run.

1. **Budget after a crash** (`LedgerBudgetAfterCrash`, `CreatesWithinLimit`). A row
   left in `CREATE_IN_FLIGHT` has `billable_attempts` 0 and is not counted by the
   budget loop (pipeline 1776), although the hardening report says it occupies
   quota. One more POST per crash can leave. The theorem `BudgetHolds` shows
   that it is never more than one per crash.
2. **A full slot is not a boundary** (`EngineSlotSpin`, `EveryTickDoesSomething`).
   With the default single slot held by an unknown submission and a target of two,
   ticks do nothing and report `RUNNING` until the tick limit. The theorem `TicksAreBusy`
   shows that there is no other cause: with at least as many slots as models ordered, no
   tick that reports `RUNNING` has done nothing.
3. **A shortage turns into a failure** (`ControlShortage`, `ShortageIsKept`).
   `HUMAN_DECISION_REQUIRED` follows `TARGET_SHORTAGE` with status `RUNNING` and
   overwrites the job's status; the verdict falls through to `FAILED`, and the
   button that accepts the shortage is shown for `TARGET_SHORTAGE` only.

### Further disagreements and how to reproduce them

These are stated in the modules and kept by no run. Each is reached by the
configuration named, with the change given and only that property.

| property (module) | start from | change | what happens |
|---|---|---|---|
| `DeliveredIsRegistered` (`ProviderLedger`) | `LedgerCrashes` | none | a crash between the pool's `COMPLETED` and the recorder leaves a delivered model out of the registry for good (tick 563) |
| `AtMostOneCreate` | `LedgerCrashes` | `AmbiguousTextMatches = TRUE` | a transport error whose text holds a capacity word is taken for a refusal and posted again (pipeline 1827) |
| `PromisedRetryIsPosted` | `LedgerCrashes` | none | the retry `WEBSITE_PROVIDER_RETRY_AMBIGUOUS_CREATE` promises is stopped by the ambiguity check of the next visit (pipeline 1759) |
| `QuotaKept` (`ProductionEngine`) | `EngineTurns` with `Spec` | `MaxStarts = 2` | a share given away after a failed download is exceeded when the resume revives the download (tick 267); the theorem `OnlyRevivalOverruns` shows that nothing else does it |
| `SpilloverFillsOnlyDeficit` | `EngineTurns` with `Spec` | `NumCandidates = 4`, `Categories = {"a","b","z"}`, `CategoryOf <- ScarceCategories`, `Quota <- OneEachOfThree`, `Spillover = "AUTO_IF_EXPLICIT"`, `Target = 3`, `StartStates = {"MODEL_INPUT_LOCKED"}`, `Answers = {"reject"}` | two candidates fill one deficit (tick 281) |
| `ReviewStopsAtBoundary` | `EngineStages` | none | one candidate's review stops a job in which another could go on (pipeline 2888) |
| `ReadyPoolIsFormed` | `EngineStages` | `StartStates = {"NAMING_READY"}`, `Providers = {"OFF"}`, `Answers = {"reject", "off"}` | one rejected candidate keeps `ready == len(records)` false for ever (pipeline 2711) |
| `SlotsRespected` (`ControlPlane`) | `ControlRuns` with `Spec` | `Threads = {t1, t2}` | two starts both find a free slot (run service 945); with one thread it is proved (`SlotsHold`) |
| `LaunchedJobKeepsTaxonomy` (`JobDrafting`) | `SiteScans` | none | a resumed scan of the job binds it to its new snapshot while it runs (scan service 545), and the next launch takes that (comment 387-389) |
| `ActiveIsScheduled` (`SiteScan`) | `SiteScans` | `QuickResume = TRUE` | a resume between a scan's last write and its thread's end finds it still in `_scheduled`: `QUEUED`, with no thread until the next start of the API |
| `AnsweredOnce` (`BrainAgent`) | `BrainAgents` with `Spec` | none | a restarted loop begins at turn 1 and asks again what the operator answered (comment brain 689-690) |
| `NoSupersededAnswer` | `BrainAgents` with `Spec` | none | an agent polls its own request, whatever request the session names by then, and takes its answer (comment brain 809-810) |
| `NoFalseShortage` (`ProductAcquisition`) | `Acquisitions` | drop its conjunct about `checkpoint.agent` | after a page or an end told by the agent the status is no longer `PAGINATION_UNVERIFIED`, so a shortage is told although the page was not followed, or another cursor is unproven (acquisition 1282-1286; `docs/WEBSITE_V2_CHANGE_FEEDBACK_20260902.md` 125) |

Others were met while reading and are part of the models, stated by no property:

* Scan service: `_merge_enrichment` keeps first-pass evidence (285), but categories
  and profile of the first pass are dropped when the browser is refused; a resumed
  scan cannot promote its `VALIDATED` profile over the `DRAFT` it wrote earlier
  (480-510); `LIVE_SCAN_REQUIRED` is neither terminal nor resumable; of two scans at
  once one may end `FAILED` although its result was good (`PersistFails`).
* Routes: a site can be deleted while its run is `RUNNING` (docstring 1623-1624),
  because a persisting scan or `MODIFY_TARGET` overwrites the job's status, which is
  all the check looks at; `MODIFY_TARGET` changes a running job's target, which the
  edit route refuses (comment 1827-1828); after switching the provider away and back
  a start passes on the old check (1842).
* Brain: the session is settled without the lock, over what became of it; two waiters
  that find one stale lock can remove a live one (`Steal`) and hold two requests for
  one turn (comment 712); a cancelled loop asks its single question in a session of
  its own; a profile earned in a loop that does not converge is dropped (`FallBack`).
* Acquisition: the agent counts as asked even when it is not configured, so it is
  never asked later; links beyond the limit, and products whose own page failed, are
  dropped for good with their page marked as read (`skipped`); a batch emitted and not
  written to the pool is lost with the process; a recount of mode `ALL` can block a
  paid job for good (`LockPolicy`); a shortage is told after `MAX_REFILL_ROUNDS`
  though supply remains; `ALL` of a site with more than 5000 products counts 5000.

## 5. Proofs

| theorem | says, for every value of the constants |
|---|---|
| `TypeCorrect` | the ledger model's state keeps its type |
| `LedgerInvariant` | `LedgerInv` is inductive |
| `NoDoubleBilling` | at most one task is ever made for a candidate |
| `PoolMatchesLedger` | a task in the pool is in the ledger; a completed candidate has a `DELIVERED` row and a valid file |
| `UnknownIsFinal` | an ambiguous create is never posted again |
| `ExactNHolds` | never more finished models than ordered |
| `BudgetHolds` | paid calls exceed the limit by at most the number of crashes |
| `SlotsHold` | active tasks and unknown submissions never exceed the slots |
| `TypeCorrect` (`ProductionEngine`) | the engine writes no state, reason or outcome the code does not name |
| `DeliveryInvHolds` | `DeliveryInv` is inductive |
| `ExactNHolds` (`ProductionEngine`) | never more finished models than ordered, whatever is refilled, resumed or revived |
| `ExactNDeliveredHolds` | an `EXACT_N` order without an accepted shortage is delivered with exactly its target |
| `ShortDeliveryHolds` | a short delivery leaves no candidate that could still become a model |
| `StopsLeaveNoPaidModelHolds` | a stop for a decision leaves no paid model in flight |
| `ReadyPoolHolds` | a Ready Pool of an `EXACT_N` order holds exactly the target |
| `EngineImplementsPaidOrder` | the engine implements `PaidOrder` |
| `GatesHold`, `QuotaHolds` | in a job started once, delivered orders passed their gates and categories keep their shares |
| `OnlyRevivalOverruns` | for any number of starts, only a resume that revives a download breaks a share |
| `TicksAreBusy` | with enough slots, a tick that reports `RUNNING` did something |
| `WorkflowTyped`, `WorkflowSequential`, `WorkflowForgetsNothing` | task engine: types, order, no stall |
| `WorkflowIsStepByStep` | the task engine implements `StepByStep` |
| `WorkflowLogged` | the log's invariant is inductive |
| `WorkflowLogExplains`, `WorkflowUnknownReviewed` | the log replays to the snapshot; an unknown submission is reviewed before it runs again, for logs of any length |
| `BaseHolds`, `TypeCorrect` (`ControlPlane`) | rows, processes and threads are well formed and know their own run's job |
| `SucceededHolds` | a run is `SUCCEEDED` only if a worker announced a completed delivery of its job, for any number of threads |
| `RelaunchHolds` | a poll never launches a run again whose claimed process announced an end, for any number of threads |
| `SlotsHold`, `WorkersHold` | requests and polls served one at a time: no more running runs than slots, and every live worker is owned by one |
| `DraftingInvariant` | `IInv` of scans and drafting is inductive |
| `RowsAreOneSnapshot` | a site's current categories are those of one snapshot, in whatever order scans end |
| `ProfileIsNotUndone` | a stored profile is replaced only by a scan that saw it, a validated one only by a validated one |
| `ActiveIsScheduledHolds` | a scan under way has a thread or a place in the queue, however often the process dies, as long as no scan is resumed before its thread has ended |
| `PaidIsApproved` | no contract pays what was not approved for its provider and limit |
| `SelectionIsKept` | a contract bound to its selection holds every selected category |
| `ProfileIsKept` | every launch takes the profile the first launch froze |
| `AgentInvariant` | `IInv` of the agents is inductive |
| `ProfilesAreEarned` | each strategy of a validated profile was shown to work in the run it comes from |
| `AnswersAreOwn` | the answer an agent waits for is to a question of its own run and turn |
| `CancelledIsSilent` | a cancelled run asks nothing more |
| `AcquisitionInvariant` | `IInv` of the acquisition model is inductive |
| `BatchesAreNew` | a batch is never empty and repeats no candidate of the pool, whenever the worker dies |
| `PolicyIsKept` | a target under which something was paid is not changed |
| `TypeCorrect` (`ProductAcquisition`) | the acquisition model's state keeps its type |
| `ShortageIsTrue` | a job that says its categories have no more, with no page or end told by the agent, has handed out or passed over every product they show |

**Assumptions.** `ConstantsAssumption`, `EngineAssumption`, `TasksAssumption`,
`ControlAssumption`, `CountAssumption`, `ScanAssumption` and `DraftingAssumption` (types
and ranges the code enforces; of the engine also that acquisition brings no candidate that
was submitted already, of the control plane that no job is called "none", the value
of a row without one); `SiteAssumption` about the sites, for `ShortageIsTrue` and
the types of what is stored. The theorems about money assume
`~AmbiguousTextMatches`, that a transport error's text is never mistaken for a
capacity answer; section 4 shows they fail without it.

**Argument for the ledger.** That a candidate is billed once is not
inductive: the step that posts must know no POST reached the provider before.
`LedgerInv` adds what each row says about the provider (`RowInv`: a made task
has a POST on record and its row is not `CAPACITY_WAIT`), what the pool says
about the row (`PoolInv`), and what the worker knows at each program point
(`WorkerInv`: at "inflight" the row is neither unknown nor has a task and nothing was
created). A crash discards the program point but not the row, and a row left in
`CREATE_IN_FLIGHT` is ambiguous to the next worker, so "inflight" is unreachable for
it. TLC checks `LedgerInv` in `LedgerCrashes`.

**Budget.** `BudgetInv` bounds the candidates with a task by the counted
rows plus the hidden ones (`CREATE_IN_FLIGHT` rows that no running visit owns), and
the hidden ones by the crashes; a submission counts before it posts. **Slots.**
`SlotsInv` bounds the set of active and unknown candidates, which reconciliation only
shrinks or keeps. **Exact-N.** `ExactNInv` carries the comparison made before a
visit to the write that completes it.

**Production engine.** `RunInv` says what each place of `run` knows: in a scan the
target is not reached, so one visit adds at most the model that reaches it; after a
tick, what its status says of the pool. `DeliveryInv` adds the properties of a stopped job,
and with them is inductive, because the pool no longer changes once the job is down
(a resume first leaves that state). For the refinement the lemmas split the steps into
visits, starts and the rest: a visit of a submitted candidate is an action of `PaidOrder`
or a stutter, a start reopens exactly the downloads that can be reconciled, and everything
else leaves the submitted candidates alone. The **Ready Pool** is a counting argument: the
rank of a lock, the number of locks created before it, numbers the locks from 0 without a
gap, so the locks of a rank below the target are as many as the target. `QuotaHolds` and
`GatesHold` carry the hypothesis `MaxStarts = 1`, because a resume breaks the first
(section 4) and may skip a gate after a failed recorder (the hazard at tick 571);
`OnlyRevivalOverruns` needs no such hypothesis. `TicksAreBusy` assumes `NoSlotBinds`: slots
for the whole target, a visit limit above 0, and a share for each candidate's category
if there are shares at all. If then no candidate may be visited, what is open is unknown
submissions alone, and they fill the target: that is the boundary `tick` tests for.

**Task engine.** `Sequential` is inductive with the types: a transition to ready or
running checks the prerequisites, every other leaves a task that was already past
them, and no transition leaves `succeeded`. The refinement maps the finished tasks to
`done`; `Sequential` makes them a prefix. The log's theorems need no induction
over its length: `LogInv` says that a task's last entry leads to its status, that its starts
are its attempts, and that each entry takes up where the task's entry before it ended.
One lemma shows that appending one entry keeps that, and every operation appends one, or
two of different tasks.

**Control plane.** `Base` is the types with what everybody knows of whom: a row's process is
of that row's job, and a thread's copies of a row are of its run's job, however stale they
are. It holds for any number of threads, although a commit writes single
attributes of a stale row over a newer one (`Committed`). On top of it `SucceededHolds`
needs that a job that says COMPLETED, and a file that is about to, go back to an announced
delivery (`CompletedWasDelivered`), and `RelaunchHolds` that an announced end is
never forgotten: it is still in the job's file, or was ingested after the launch
(`EndsAreSeen`), so a poll that has read the file sees it. The two theorems about workers are
for requests and polls served one at a time (`OneAtATime`), because two threads do break
`SlotsRespected` (section 4). `OwnInv` adds to `Base` that a live worker is its run's latest
and the run is `RUNNING`, and that a thread's row is the run's row, its slot still
free and its old worker gone when it launches.

**Scans and drafting.** A contract is written by a launch, long after the approval,
from the job's row as it is then. `ReadyIsApproved` says what the row must keep in
between: a job that may pay was approved with the provider and limit it has.
`SelectionStands` ties the job's categories to the snapshot they were chosen from;
it needs `CurrentRowsAreOneSnapshot`, because a choice is made among the current rows.
`ProfileFrozen` ties the job to its contract. For the profile
`SeenIsCurrent` says that a thread whose scan was started since the last write has
seen that very version, so the comparison at its own write means what it should.
For the queue `SchedInv` says that a queued scan is queued once and has no thread, and
that only a scan that was started is scheduled. Such an entry then becomes exactly one
thread, and `Restart` finds each interrupted scan in the table: the ranks of a set's
scans number them without a gap (`RankIsOnto`), so `ByCreation` lists each once. The
theorem supposes `~QuickResume`; section 4 shows that it fails otherwise.

**Agents.** What the loop has found was shown before (`FoundIsShown`), and only the
step that replaces a finding or finishes a profile touches it. That an answer is the
agent's own is not inductive, because a request is taken over from a session file that
others write outside the lock: `SessionsName` says a session never names a
request of another run or another turn than it says, and `AgentsAsk` that an agent,
and the copy of the session a late settlement writes back, name such requests too.
Mutual exclusion is not used, and does not hold.

**Acquisition.** Checkpoint and pool are written one after the other. `BatchIsNew`
is not inductive: it needs that the pool only holds what the checkpoint has
emitted, also for a worker between the two writes, and that a discovery works on a
payload whose `emitted` is the file's (`EmittedFirst`). The policy's theorem needs
that nothing is made or paid before a target is locked (`TargetFirst`). `Shapes`
carries the types both rest on. These two use no assumption about sites.

`NoFalseShortage` does, and it is far from inductive. `CursorInv`: of every category,
each page was read or follows the page the cursor is at, and the products of the pages
that were read are stored or were passed over; a cursor without a next page that is
not exhausted claims nothing, and keeps the status unproven. It holds of the file and of the
payload in memory until an agent tells a page or an end (`ReadInv`). Because pages
that follow one another are the least set that goes on, one page read takes the place
of what follows it without an induction. `DiscoveryInv`: a discovery's limit is at
least what was handed out and what is needed (here `DISCOVERY_FACTOR >= 1`), so when
it stops there is enough, or an end is unproven, or all was read. `selected` are
the first available products in order of storage (`RankIsOnto`): fewer than needed are
all there are, which makes the empty batch a true end. `CountInv` carries the count of a
target `ALL` from the lock to the end of the job.

**Only model-checked.** Liveness (`EveryRunEnds`, `EveryRunSettles`, `EveryAgentEnds`,
`EveryDiscoveryEnds`): outside the prover's reach, as is `ENABLED`. That the finished
status of a job is the fold of its events' effects (`StatusesAssumption`): TLC compares the
two.

## 6. Plan

Order: what spends money first, then what drives it, then what starts it, then
what feeds it.

1. `ProviderLedger` - done, proved.
2. `ProductionEngine`, `PaidOrder` - done, proved but for liveness; next:
   `ProviderLedger` as an implementation of `PaidOrder`.
3. `WorkflowEngine`, `StepByStep` - done, proved.
4. `ControlPlane` - done, proved but for liveness; next: a crash of the API process
   between spawn and commit; the savepoint's early commit.
5. `SiteScan`, `JobDrafting` - done, proved.
6. `BrainAgent` - done, proved but for liveness.
7. `ProductAcquisition` - done, proved but for liveness.
8. Quotas (`_target_and_quotas`): even and proportional distribution as functions,
   against a reference definition; proof that shares add up to the target.
9. Packing of a delivery; the Blender stage's own states.

## 7. Not modelled, and why

Everything in the inventory without a module above. Page parsing, image and mesh
inspection, naming and dimension text rules are heuristics on data: their answers
are inputs of `ProductionEngine`, `SiteScan` and `ProductAcquisition`. The Blender
subprocess, the remote models and the reviewer are external. Of the HTTP client only
that a request answers or fails is kept; robots rules, delays and the budget of
requests decide which. Front end, database set-up, configuration, diagnostics and
scripts keep no state the properties are about. The unused library modules are not
part of the running system.

Within modelled parts: the pool's file lock and journal text,
`abandon_submission_unknown` (called by tests only), wall-clock waits, artifacts and
progress counts, Windows process listing, the body of a review decision, batches of
jobs, token budgets and transport retries of a remote model, the lock that lets one
scan at a time use the browser, and the switch that pauses background work.

## 8. Hazards without a property

`PROJECT.json` lists the hazards with their lines and the properties that cover them.
Four have none: `BLENDER_NOT_CONFIGURED`, which no resume revives (pipeline 2089);
files of one name in a batch, and files of an earlier batch packed again (pipeline
3099); a crash of the API between spawn and commit (run service 882); the early commit
of a savepoint, with the stale row a refused duplicate leaves (run service 501). Items
4 and 9 of the plan are where they belong. Smaller ones stand outside the list: the
capacity clock that is never reset (pipeline 1678), the version 1 migration of the
task engine (`model.py` 192), and processes missed by the Windows listing (run
service 120).
