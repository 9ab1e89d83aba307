--------------------------- MODULE ProviderLedger ---------------------------
(***************************************************************************)
(* The paid half of one production job: WebsiteStageAdapter's submit, poll *)
(* and download stages (workers/production_pipeline.py) as the engine's    *)
(* tick drives them, against the durable provider ledger                   *)
(* (production_provider_tasks), the durable candidate pool, the raw GLB    *)
(* files and the permanent registry.                                       *)
(*                                                                         *)
(* One worker process runs the job.  Every durable write (a ledger commit, *)
(* a pool write, a file, a registry commit) is a step of its own, so the   *)
(* worker can crash between any two of them; what it holds in memory (pc,  *)
(* cur, answer) is then lost and the next worker starts from what is on    *)
(* disk.  The provider is external: it answers a create POST, and the      *)
(* answer may be lost after it made, and billed, a task.                   *)
(***************************************************************************)
EXTENDS Naturals, FiniteSets

CONSTANTS
    NumCandidates,        \* candidates of the pool, numbered by created_at
    Target,               \* Exact-N target of the order
    CallLimit,            \* approved_provider_call_limit
    MaxSlots,             \* RuntimePolicy.max_provider_slots
    RetryAmbiguous,       \* WEBSITE_PROVIDER_RETRY_AMBIGUOUS_CREATE is on
    AmbiguousTextMatches, \* the text of a create_http_error may hold one of the
                          \* capacity words is_capacity_rejection looks for
    MaxPosts,             \* bound: capacity answers stop after this many POSTs
    MaxCrashes            \* bound: crashes of the worker

ASSUME ConstantsAssumption ==
    /\ NumCandidates \in Nat /\ Target \in Nat \ {0} /\ CallLimit \in Nat
    /\ MaxSlots \in 1..5
    /\ RetryAmbiguous \in BOOLEAN /\ AmbiguousTextMatches \in BOOLEAN
    /\ MaxPosts \in Nat /\ MaxCrashes \in Nat

Candidates == 1..NumCandidates

MAX_UNRESOLVED_SUBMISSIONS == 3

max_steps_per_tick == 20

(* The ItemStates a candidate can take from the naming stage on. *)
ItemStates ==
    {"NAMING_READY", "CATALOG_READY", "MODEL_INPUT_LOCKED", "PROVIDER_ACTIVE",
     "PROVIDER_SUCCESS", "PROVIDER_FAILED", "RAW_GLB_INVALID", "MANUAL_REVIEW",
     "QUARANTINED_SUBMISSION_UNKNOWN", "HARD_STOP_ITEM", "COMPLETED"}

LedgerStatuses ==
    {"NONE", "PREPARED", "CREATE_IN_FLIGHT", "ACTIVE", "CAPACITY_WAIT",
     "FAILED", "SUBMISSION_UNKNOWN", "PROVIDER_SUCCESS", "DOWNLOAD_FAILED",
     "RAW_GLB_INVALID", "MODEL_DIMENSION_CONFLICT", "BLENDER_QA_FAILED",
     "DELIVERED"}

(* A row: its idempotency key, whether it has a provider task ID, the POSTs *)
(* sent (post_attempts) and those known to be billed (billable_attempts).   *)
LedgerRows ==
    [status: LedgerStatuses, key: {0, 1}, task: BOOLEAN, posts: Nat, billable: {0, 1}]

(* What is in the file a raw GLB is downloaded to: nothing, the truncated  *)
(* bytes of a crashed download, a broken container, or a valid model.      *)
Files == {"none", "partial", "broken", "valid"}

VARIABLES
    \* the candidate pool
    item,        \* state of each candidate
    capWait,     \* provider_status = CAPACITY_WAIT
    poolTask,    \* provider_task_id is set in the pool
    renamed,     \* lineage.naming_contract_reconciled is current
    inputHash,   \* version of the model input hash, hence of the key
    \* the ledger: one row per candidate (uq_production_provider_candidate)
    ledger,
    \* files and registry
    file, registry,
    \* the provider, external
    created,     \* tasks it made, and billed, for each candidate
    fate,        \* how the task ends
    \* the worker's memory
    pc, cursor, cur, answer,
    \* the outcome of the job, and the crashes so far
    delivered, crashes

pool     == <<item, capWait, poolTask, renamed, inputHash>>
provider == <<created, fate>>
worker   == <<pc, cursor, cur, answer>>
vars == <<pool, ledger, file, registry, provider, worker, delivered, crashes>>

NoLedger ==
    [status |-> "NONE", key |-> 0, task |-> FALSE, posts |-> 0, billable |-> 0]

Answers ==
    {"none", "task", "capacity", "rejected", "lost", "resumed", "unknown",
     "retry", "limit", "accepted", "failed", "pending", "success", "download_failed",
     "invalid", "dimension_conflict", "qa_failed"}

PCs == {"down", "scan", "prepare", "inflight", "post", "commit", "qa", "apply",
        "register", "after", "done"}

TypeOK ==
    /\ item \in [Candidates -> ItemStates]
    /\ capWait \in [Candidates -> BOOLEAN]
    /\ poolTask \in [Candidates -> BOOLEAN]
    /\ renamed \in [Candidates -> BOOLEAN]
    /\ inputHash \in [Candidates -> {0, 1}]
    /\ ledger \in [Candidates -> LedgerRows]
    /\ file \in [Candidates -> Files]
    /\ registry \subseteq Candidates
    /\ created \in [Candidates -> Nat]
    /\ fate \in [Candidates -> {"undecided", "succeeds", "fails"}]
    /\ pc \in PCs
    /\ pc \notin {"down", "scan", "done"} => cur \in Candidates
    /\ cursor \in 0..NumCandidates
    /\ cur \in 0..NumCandidates
    /\ answer \in Answers
    /\ delivered \subseteq Candidates
    /\ crashes \in 0..MaxCrashes

(***************************************************************************)
(* Counts over the durable pool, as the tick reads them.                   *)
(***************************************************************************)
InState(S) == {c \in Candidates : item[c] \in S}

success_count == Cardinality(InState({"COMPLETED"}))

active_provider_count ==
    Cardinality({c \in InState({"PROVIDER_ACTIVE"}) : poolTask[c]})

unresolved_submission_unknown_count ==
    Cardinality(InState({"QUARANTINED_SUBMISSION_UNKNOWN"}))

(* Mutant: a quarantined submission gives its slot up. *)
outstanding_providerActive ==
    active_provider_count + Cardinality(InState({"PROVIDER_SUCCESS"}))

outstanding_provider ==
    active_provider_count + unresolved_submission_unknown_count
        + Cardinality(InState({"PROVIDER_SUCCESS"}))

next_stage_for(s) ==
    CASE s = "NAMING_READY"       -> "catalog"
      [] s = "CATALOG_READY"      -> "model_input"
      [] s = "MODEL_INPUT_LOCKED" -> "submit"
      [] s = "PROVIDER_ACTIVE"    -> "poll"
      [] s = "PROVIDER_SUCCESS"   -> "download"
      [] OTHER                    -> "none"

(***************************************************************************)
(* The call budget, read from the durable ledger before every create POST: *)
(* billable attempts of rows with a task or in a chargeable state, plus    *)
(* one for each row left in SUBMISSION_UNKNOWN.                            *)
(***************************************************************************)
ChargeableStates ==
    {"ACTIVE", "CREATE_IN_FLIGHT", "SUBMISSION_UNKNOWN", "PROVIDER_SUCCESS",
     "DELIVERED"}

Billed ==
    {c \in Candidates :
        /\ ledger[c].billable = 1
        /\ ledger[c].task \/ ledger[c].status \in ChargeableStates}

Unknown == {c \in Candidates : ledger[c].status = "SUBMISSION_UNKNOWN"}

consumed_calls == Cardinality(Billed) + Cardinality(Unknown)

HasBudget == CallLimit > 0 /\ consumed_calls + 1 <= CallLimit

(* The row the idempotency key of the candidate's current input selects. *)
LedgerFound(c) == ledger[c].status # "NONE" /\ ledger[c].key = inputHash[c]

(* The commit of a new status, the row's other fields unchanged.  Mutant:  *)
(* the row is written afresh and forgets its task and its attempts.        *)
MarkLedgerAfresh(c, s) == ledger' = [ledger EXCEPT ![c] = [NoLedger EXCEPT !.status = s]]

MarkLedger(c, s) == ledger' = [ledger EXCEPT ![c].status = s]

-----------------------------------------------------------------------------
(***************************************************************************)
(* A candidate arrives from the qualification stages, unsubmitted.         *)
(***************************************************************************)
Init ==
    /\ item = [c \in Candidates |-> "CATALOG_READY"]
    /\ capWait = [c \in Candidates |-> FALSE]
    /\ poolTask = [c \in Candidates |-> FALSE]
    /\ renamed = [c \in Candidates |-> FALSE]
    /\ inputHash = [c \in Candidates |-> 0]
    /\ ledger = [c \in Candidates |-> NoLedger]
    /\ file = [c \in Candidates |-> "none"]
    /\ registry = {}
    /\ created = [c \in Candidates |-> 0]
    /\ fate = [c \in Candidates |-> "undecided"]
    /\ pc = "down" /\ cursor = 0 /\ cur = 0 /\ answer = "none"
    /\ delivered = {}
    /\ crashes = 0

(***************************************************************************)
(* A worker starts or resumes the job.  Before the first tick it runs the  *)
(* two reconciliations: unsubmitted candidates whose naming has not been   *)
(* re-checked go back to NAMING_READY (a new naming contract may give the  *)
(* candidate another name, hence another model input hash and another      *)
(* idempotency key), and rejected candidates whose raw GLB is on disk and  *)
(* valid go back to the download stage.                                    *)
(***************************************************************************)
NamingReconcilable(c) ==
    /\ item[c] = "MODEL_INPUT_LOCKED"
    /\ ~poolTask[c] /\ ~capWait[c] /\ ~renamed[c]

DownloadReconcilable(c) ==
    /\ item[c] \in {"RAW_GLB_INVALID", "MANUAL_REVIEW", "PROVIDER_FAILED",
                    "HARD_STOP_ITEM"}
    /\ poolTask[c]
    /\ ledger[c].status \in {"MODEL_DIMENSION_CONFLICT", "RAW_GLB_INVALID",
                             "BLENDER_QA_FAILED", "DOWNLOAD_FAILED", "DELIVERED"}
    /\ file[c] = "valid"

Start ==
    /\ pc = "down"
    /\ LET D == {c \in Candidates : DownloadReconcilable(c)}
       IN \E N \in SUBSET {c \in Candidates : NamingReconcilable(c)} :
          \E newName \in SUBSET N :
            /\ item' = [c \in Candidates |->
                          IF c \in N THEN "NAMING_READY"
                          ELSE IF c \in D THEN "PROVIDER_SUCCESS"
                          ELSE item[c]]
            /\ renamed' = [c \in Candidates |-> renamed[c] \/ c \in N]
            /\ inputHash' = [c \in Candidates |->
                               IF c \in newName THEN 1 ELSE inputHash[c]]
            /\ capWait' = [c \in Candidates |-> capWait[c] /\ c \notin D]
    /\ pc' = "scan" /\ cursor' = 0 /\ cur' = 0 /\ answer' = "none"
    /\ UNCHANGED <<poolTask, ledger, file, registry, provider, delivered, crashes>>

(***************************************************************************)
(* The tick walks the candidates in creation order.                        *)
(***************************************************************************)
MaySubmit ==
    /\ outstanding_provider < MaxSlots
    /\ success_count + outstanding_provider < Target

(* A tick returns at once when the order is complete. *)
Ticking == cursor = 0 => success_count < Target

(* The candidate under the cursor has no stage, or its submit must wait. *)
Skip ==
    /\ pc = "scan" /\ cursor < NumCandidates /\ Ticking
    /\ LET stage == next_stage_for(item[cursor + 1])
       IN stage = "none" \/ (stage = "submit" /\ ~MaySubmit)
    /\ cursor' = cursor + 1
    /\ UNCHANGED <<pool, ledger, file, registry, provider, pc, cur, answer,
                   delivered, crashes>>

(* The worker turns to the candidate under the cursor. *)
Visiting(c, stage) ==
    /\ pc = "scan" /\ cursor < NumCandidates /\ Ticking
    /\ c = cursor + 1
    /\ next_stage_for(item[c]) = stage
    /\ cursor' = c /\ cur' = c

(* The catalog and model input stages only write the pool. *)
VisitLock(c) ==
    /\ \/ Visiting(c, "catalog") /\ item' = [item EXCEPT ![c] = "CATALOG_READY"]
       \/ Visiting(c, "model_input")
          /\ item' = [item EXCEPT ![c] = "MODEL_INPUT_LOCKED"]
    /\ UNCHANGED <<capWait, poolTask, renamed, inputHash, ledger, file, registry,
                   provider, pc, answer, delivered, crashes>>

(***************************************************************************)
(* _stage_submit.  A known task is resumed without a POST.                 *)
(***************************************************************************)
SubmitKnownTask(c) ==
    /\ Visiting(c, "submit") /\ MaySubmit
    /\ LedgerFound(c) /\ ledger[c].task
    /\ pc' = "apply" /\ answer' = "resumed"
    /\ UNCHANGED <<pool, ledger, file, registry, provider, delivered, crashes>>

(* Mutants: only the status says that a POST was sent; only a row the crash *)
(* left in flight is ambiguous.                                            *)
AmbiguousByStatus(c) ==
    LedgerFound(c) /\ ~ledger[c].task /\ ledger[c].status = "SUBMISSION_UNKNOWN"

AmbiguousInFlight(c) ==
    LedgerFound(c) /\ ~ledger[c].task /\ ledger[c].status = "CREATE_IN_FLIGHT"

AmbiguousCheckpoint(c) ==
    /\ LedgerFound(c) /\ ~ledger[c].task
    /\ \/ ledger[c].status = "SUBMISSION_UNKNOWN"
       \/ ledger[c].posts > 0 /\ ledger[c].status # "CAPACITY_WAIT"

(* An earlier POST may have reached the provider: never POST again. *)
SubmitAmbiguous(c) ==
    /\ Visiting(c, "submit") /\ MaySubmit
    /\ AmbiguousCheckpoint(c)
    /\ MarkLedger(c, "SUBMISSION_UNKNOWN")
    /\ pc' = "apply" /\ answer' = "unknown"
    /\ UNCHANGED <<pool, file, registry, provider, delivered, crashes>>

MayPost(c) == ~(LedgerFound(c) /\ ledger[c].task) /\ ~AmbiguousCheckpoint(c)

SubmitOverBudget(c) ==
    /\ Visiting(c, "submit") /\ MaySubmit
    /\ MayPost(c) /\ ~HasBudget
    /\ pc' = "apply" /\ answer' = "limit"
    /\ UNCHANGED <<pool, ledger, file, registry, provider, delivered, crashes>>

SubmitWithinBudget(c) ==
    /\ Visiting(c, "submit") /\ MaySubmit
    /\ MayPost(c) /\ HasBudget
    /\ pc' = IF LedgerFound(c) THEN "inflight" ELSE "prepare"
    /\ answer' = "none"
    /\ UNCHANGED <<pool, ledger, file, registry, provider, delivered, crashes>>

(* The PREPARED row is committed ...                                       *)
PrepareLedger ==
    /\ pc = "prepare"
    /\ ledger[cur].status = "NONE"
    /\ ledger' = [ledger EXCEPT ![cur] =
                    [NoLedger EXCEPT !.status = "PREPARED", !.key = inputHash[cur]]]
    /\ pc' = "inflight"
    /\ UNCHANGED <<pool, file, registry, provider, cursor, cur, answer, delivered,
                   crashes>>

(* ... unless the candidate already has a row under another key: the       *)
(* unique constraint fails the insert, run_job emits JOB_FAILED and exits. *)
LedgerConflict ==
    /\ pc = "prepare"
    /\ ledger[cur].status # "NONE"
    /\ pc' = "down" /\ answer' = "none"
    /\ UNCHANGED <<pool, ledger, file, registry, provider, cursor, cur, delivered,
                   crashes>>

(* CREATE_IN_FLIGHT is durable before the POST leaves. *)
MarkInFlight ==
    /\ pc = "inflight"
    /\ ledger' = [ledger EXCEPT ![cur].status = "CREATE_IN_FLIGHT",
                                ![cur].posts = @ + 1]
    /\ pc' = "post"
    /\ UNCHANGED <<pool, file, registry, provider, cursor, cur, answer, delivered,
                   crashes>>

(***************************************************************************)
(* create_task.  "lost" is a create_http_error or a body without a task    *)
(* ID: the provider may or may not have made the task.                     *)
(***************************************************************************)
ProviderMakesTask == created' = [created EXCEPT ![cur] = @ + 1]

CreateTask ==
    /\ pc = "post"
    /\ \/ ProviderMakesTask /\ answer' = "task"
       \/ answer' = "lost" /\ (ProviderMakesTask \/ UNCHANGED created)
       \/ answer' = "rejected" /\ UNCHANGED created
       \/ /\ answer' = "capacity" /\ ledger[cur].posts < MaxPosts
          /\ UNCHANGED created
       \/ /\ AmbiguousTextMatches /\ ledger[cur].posts < MaxPosts
          /\ answer' = "capacity" /\ ProviderMakesTask
    /\ pc' = "commit"
    /\ UNCHANGED <<pool, ledger, file, registry, fate, cursor, cur, delivered,
                   crashes>>

(* The ledger commit after the answer; the StageOutcome follows from it.   *)
Retries == RetryAmbiguous /\ answer = "lost" /\ ledger[cur].posts < 2

CommitCreate ==
    /\ pc = "commit"
    /\ \/ /\ answer = "task" /\ answer' = "accepted"
          /\ ledger' = [ledger EXCEPT ![cur].status = "ACTIVE",
                                      ![cur].task = TRUE, ![cur].billable = 1]
       \/ /\ answer = "capacity" /\ answer' = "capacity"
          /\ MarkLedger(cur, "CAPACITY_WAIT")
       \/ /\ answer = "rejected" /\ answer' = "failed"
          /\ MarkLedger(cur, "FAILED")
       \/ /\ answer = "lost"
          /\ answer' \in (IF Retries THEN {"retry", "unknown"} ELSE {"unknown"})
          /\ MarkLedger(cur, "SUBMISSION_UNKNOWN")
    /\ pc' = "apply"
    /\ UNCHANGED <<pool, file, registry, provider, cursor, cur, delivered, crashes>>

(***************************************************************************)
(* _stage_poll: the provider answers status 3, status 4 or not in time;    *)
(* the ledger is committed with the answer.                                *)
(***************************************************************************)
Poll(c) ==
    /\ Visiting(c, "poll")
    /\ \/ /\ fate[c] # "fails" /\ fate' = [fate EXCEPT ![c] = "succeeds"]
          /\ answer' = "success"
          /\ MarkLedger(c, "PROVIDER_SUCCESS")
       \/ /\ fate[c] # "succeeds" /\ fate' = [fate EXCEPT ![c] = "fails"]
          /\ answer' = "failed"
          /\ MarkLedger(c, "FAILED")
       \/ /\ UNCHANGED fate /\ answer' = "pending"
          /\ MarkLedger(c, "ACTIVE")
    /\ pc' = "apply"
    /\ UNCHANGED <<pool, file, registry, created, delivered, crashes>>

(***************************************************************************)
(* _stage_download: the file already on disk is used as it is; otherwise   *)
(* the provider's result is fetched into it.                               *)
(***************************************************************************)
Download(c) ==
    /\ Visiting(c, "download")
    /\ \/ /\ file[c] # "none"
          /\ pc' = "qa" /\ answer' = "none" /\ UNCHANGED <<file, ledger>>
       \/ /\ file[c] = "none" /\ pc' = "qa" /\ answer' = "none"
          /\ \E bytes \in {"broken", "valid"} : file' = [file EXCEPT ![c] = bytes]
          /\ UNCHANGED ledger
       \/ /\ file[c] = "none" /\ pc' = "apply" /\ answer' = "download_failed"
          /\ MarkLedger(c, "DOWNLOAD_FAILED")
          /\ UNCHANGED file
    /\ UNCHANGED <<pool, registry, provider, delivered, crashes>>

(* validate_glb. *)
GlbIsValid(c) == file[c] = "valid"

(* Validation, the orientation review and Blender normalization and QA.    *)
InspectGlb ==
    /\ pc = "qa"
    /\ \/ /\ ~GlbIsValid(cur) /\ answer' = "invalid"
          /\ MarkLedger(cur, "RAW_GLB_INVALID")
       \/ /\ GlbIsValid(cur) /\ answer' = "accepted"
          /\ MarkLedger(cur, "DELIVERED")
       \/ /\ GlbIsValid(cur) /\ answer' = "dimension_conflict"
          /\ MarkLedger(cur, "MODEL_DIMENSION_CONFLICT")
       \/ /\ GlbIsValid(cur) /\ answer' = "qa_failed"
          /\ MarkLedger(cur, "BLENDER_QA_FAILED")
       \/ /\ GlbIsValid(cur) /\ answer' = "pending"
          /\ UNCHANGED ledger
    /\ pc' = "apply"
    /\ UNCHANGED <<pool, file, registry, provider, cursor, cur, delivered, crashes>>

-----------------------------------------------------------------------------
(***************************************************************************)
(* _apply: the pool write for the outcome of the stage just run.           *)
(***************************************************************************)
Stage == next_stage_for(item[cur])

SetItem(s) == item' = [item EXCEPT ![cur] = s]

ApplySubmit ==
    /\ pc = "apply" /\ Stage = "submit"
    /\ \/ /\ answer \in {"accepted", "resumed"}       \* mark_provider_task
          /\ SetItem("PROVIDER_ACTIVE")
          /\ poolTask' = [poolTask EXCEPT ![cur] = TRUE]
          /\ capWait' = [capWait EXCEPT ![cur] = FALSE]
          /\ pc' = "after"
       \/ /\ answer = "unknown"                       \* quarantine
          /\ SetItem("QUARANTINED_SUBMISSION_UNKNOWN")
          /\ capWait' = [capWait EXCEPT ![cur] = FALSE]
          /\ pc' = IF unresolved_submission_unknown_count + 1
                          > MAX_UNRESOLVED_SUBMISSIONS
                     THEN "down" ELSE "after"
          /\ UNCHANGED poolTask
       \/ /\ answer = "limit"                         \* PROVIDER_CALL_LIMIT_REACHED
          /\ SetItem("HARD_STOP_ITEM")
          /\ pc' = "down"
          /\ UNCHANGED <<poolTask, capWait>>
       \/ /\ answer \in {"capacity", "retry"}
          /\ capWait' = [capWait EXCEPT ![cur] = (answer = "capacity")]
          /\ pc' = "after"
          /\ UNCHANGED <<item, poolTask>>
       \/ /\ answer = "failed"                        \* PROVIDER_REJECTED
          /\ SetItem("PROVIDER_FAILED")
          /\ capWait' = [capWait EXCEPT ![cur] = FALSE]
          /\ pc' = "after"
          /\ UNCHANGED poolTask
    /\ answer' = "none"
    /\ UNCHANGED <<renamed, inputHash, ledger, file, registry, provider, cursor, cur,
                   delivered, crashes>>

ApplyPoll ==
    /\ pc = "apply" /\ Stage = "poll"
    /\ \/ answer = "success" /\ SetItem("PROVIDER_SUCCESS")
       \/ answer = "failed" /\ SetItem("PROVIDER_FAILED")
       \/ answer = "pending" /\ UNCHANGED item
    /\ pc' = "after" /\ answer' = "none"
    /\ UNCHANGED <<capWait, poolTask, renamed, inputHash, ledger, file, registry,
                   provider, cursor, cur, delivered, crashes>>

(* A valid GLB completes the candidate (mark_raw_glb) unless its hash is   *)
(* one the pool already has.                                               *)
ApplyDownload ==
    /\ pc = "apply" /\ Stage = "download"
    /\ \/ answer = "accepted" /\ SetItem("COMPLETED") /\ pc' = "register"
       \/ answer = "accepted" /\ SetItem("RAW_GLB_INVALID") /\ pc' = "after"
       \/ /\ answer \in {"download_failed", "invalid", "qa_failed"}
          /\ SetItem("RAW_GLB_INVALID") /\ pc' = "after"
       \/ answer = "dimension_conflict" /\ SetItem("MANUAL_REVIEW") /\ pc' = "after"
       \/ answer = "pending" /\ UNCHANGED item /\ pc' = "after"
    /\ answer' = "none"
    /\ UNCHANGED <<capWait, poolTask, renamed, inputHash, ledger, file, registry,
                   provider, cursor, cur, delivered, crashes>>

(* The completion recorder writes the permanent registry; if it fails the  *)
(* job hard stops (REGISTRY_WRITE_FAILED) and the worker exits.            *)
RecordCompletion ==
    /\ pc = "register"
    /\ \/ registry' = registry \cup {cur} /\ pc' = "after"
       \/ UNCHANGED registry /\ pc' = "down"
    /\ UNCHANGED <<pool, ledger, file, provider, cursor, cur, answer, delivered,
                   crashes>>

(* Mutant: the tick goes on after a step without looking at the count. *)
NextCandidateUnchecked ==
    /\ pc = "after"
    /\ pc' = "scan" /\ cur' = 0
    /\ UNCHANGED <<pool, ledger, file, registry, provider, cursor, answer, delivered,
                   crashes>>

(* After each step the tick compares the success count with the target.    *)
NextCandidate ==
    /\ pc = "after" /\ success_count < Target
    /\ pc' = "scan" /\ cur' = 0
    /\ UNCHANGED <<pool, ledger, file, registry, provider, cursor, answer, delivered,
                   crashes>>

(* Exact-N reached, at the top of a tick or after a step: deliver and end. *)
Deliver ==
    /\ \/ pc = "after"
       \/ pc = "scan" /\ cursor = 0
    /\ success_count >= Target
    /\ delivered' = InState({"COMPLETED"})
    /\ pc' = "done"
    /\ UNCHANGED <<pool, ledger, file, registry, provider, cursor, cur, answer, crashes>>

(***************************************************************************)
(* The end of a tick that did not reach the target: behind the last        *)
(* candidate, or after the steps of a tick.  With provider tasks           *)
(* active or stages left the loop of run() ticks again, up to its bound    *)
(* and unless it blocks on a review or on provider capacity; at the        *)
(* reconciliation boundary and with no supply left it stops.               *)
(***************************************************************************)
AtManualReconciliation ==
    /\ active_provider_count = 0
    /\ unresolved_submission_unknown_count > 0
    /\ success_count + unresolved_submission_unknown_count >= Target
    /\ InState({"PROVIDER_SUCCESS"}) = {}

StagesRemain == \E c \in Candidates : next_stage_for(item[c]) # "none"

EndTick ==
    /\ pc = "scan" /\ success_count < Target
    /\ cursor = NumCandidates \/ cursor >= max_steps_per_tick
    /\ \/ ~AtManualReconciliation /\ StagesRemain /\ cursor' = 0 /\ pc' = "scan"
       \/ pc' = "down" /\ UNCHANGED cursor
    /\ UNCHANGED <<pool, ledger, file, registry, provider, cur, answer, delivered,
                   crashes>>

(***************************************************************************)
(* The worker process dies between two durable writes.  A crash during a   *)
(* download leaves the bytes written so far in the target file.            *)
(***************************************************************************)
Crash ==
    /\ pc \notin {"down", "done"} /\ crashes < MaxCrashes
    /\ crashes' = crashes + 1
    /\ pc' = "down" /\ answer' = "none"
    /\ UNCHANGED <<pool, ledger, file, registry, provider, cursor, cur, delivered>>

CrashInDownload(c) ==
    /\ pc = "scan" /\ cursor < NumCandidates /\ c = cursor + 1
    /\ Ticking /\ crashes < MaxCrashes
    /\ next_stage_for(item[c]) = "download" /\ file[c] = "none"
    /\ file' = [file EXCEPT ![c] = "partial"]
    /\ crashes' = crashes + 1
    /\ pc' = "down" /\ answer' = "none"
    /\ UNCHANGED <<pool, ledger, registry, provider, cursor, cur, delivered>>

(* A crash while the POST is on the wire: the provider may have the task.  *)
CrashInCreate ==
    /\ pc = "post" /\ crashes < MaxCrashes
    /\ ProviderMakesTask
    /\ crashes' = crashes + 1
    /\ pc' = "down" /\ answer' = "none"
    /\ UNCHANGED <<pool, ledger, file, registry, fate, cursor, cur, delivered>>

Submit(c) ==
    \/ SubmitKnownTask(c) \/ SubmitAmbiguous(c)
    \/ SubmitOverBudget(c) \/ SubmitWithinBudget(c)

WorkerStep ==
    \/ Skip
    \/ \E c \in Candidates : VisitLock(c) \/ Submit(c) \/ Poll(c) \/ Download(c)
    \/ PrepareLedger \/ LedgerConflict \/ MarkInFlight \/ CreateTask \/ CommitCreate
    \/ InspectGlb
    \/ ApplySubmit \/ ApplyPoll \/ ApplyDownload \/ RecordCompletion
    \/ NextCandidate \/ Deliver \/ EndTick

Next ==
    \/ Start
    \/ WorkerStep
    \/ Crash \/ CrashInCreate
    \/ \E c \in Candidates : CrashInDownload(c)

Spec == Init /\ [][Next]_vars

-----------------------------------------------------------------------------
(***************************************************************************)
(* Safety.                                                                 *)
(***************************************************************************)

(* No candidate is ever billed twice: whatever crashes, restarts, renamings *)
(* and lost answers happen, the provider makes at most one task for it.     *)
AtMostOneCreate == \A c \in Candidates : created[c] <= 1

Created == {c \in Candidates : created[c] > 0}

(* The call budget, as far as the code keeps it: the tasks the provider     *)
(* made exceed the approved limit by at most the number of worker crashes   *)
(* (each crash can hide one CREATE_IN_FLIGHT row from consumed_calls).      *)
CreatesWithinLimitAndCrashes == Cardinality(Created) <= CallLimit + crashes

(* The call budget as the documents state it: CREATE_IN_FLIGHT rows count,  *)
(* and no POST beyond the approved limit is sent.                           *)
CreatesWithinLimit == Cardinality(Created) <= CallLimit

(* Exact-N: the order never holds more finished models than were ordered,   *)
(* although reconciled downloads and new submissions compete for the slots. *)
ExactNNotExceeded == success_count <= Target

(* The paid slots: tasks being modelled and submissions nobody can account  *)
(* for never hold more than max_provider_slots, although reconciliation     *)
(* puts candidates back and a quarantined candidate never gives its slot up. *)
ProviderSlotsRespected ==
    active_provider_count + unresolved_submission_unknown_count <= MaxSlots

(* Write-ahead order: a task the pool shows is a task the ledger can prove, *)
(* and the provider made it.                                                *)
PoolTaskIsInLedger ==
    \A c \in Candidates : poolTask[c] => ledger[c].task /\ created[c] > 0

(* A completed candidate has a valid file and a ledger row that says so.    *)
CompletedIsDelivered ==
    \A c \in Candidates :
        item[c] = "COMPLETED" => /\ ledger[c].status = "DELIVERED"
                                 /\ ledger[c].task
                                 /\ file[c] = "valid"

(* An ambiguous create is never POSTed again, by any later worker.          *)
UnknownNeverPostsAgain ==
    [][\A c \in Candidates :
          ledger[c].status = "SUBMISSION_UNKNOWN"
            => ledger'[c].posts = ledger[c].posts]_vars

(* The comment on the RETRY_AMBIGUOUS branch: one bounded retry of a network *)
(* ambiguity.  A candidate left in the pool for that retry is not declared  *)
(* unknown by the visit that should have POSTed it again.                   *)
RetryPromised(c) ==
    /\ pc = "scan" /\ item[c] = "MODEL_INPUT_LOCKED"
    /\ ledger[c].status = "SUBMISSION_UNKNOWN" /\ ledger[c].posts = 1

PromisedRetryIsPosted ==
    [][\A c \in Candidates : RetryPromised(c) /\ cur' = c => answer' # "unknown"]_vars

(* Every delivered model is in the permanent registry.                      *)
DeliveredIsRegistered == delivered \subseteq registry

-----------------------------------------------------------------------------
(***************************************************************************)
(* The inductive invariant the safety proofs rest on (without ambiguous    *)
(* capacity texts): what a ledger row says about the provider, what the    *)
(* pool says about the row, and what the worker knows at each point of a   *)
(* visit.                                                                  *)
(***************************************************************************)
RowInv(c) ==
    /\ created[c] <= 1
    /\ created[c] > 0 => ledger[c].posts > 0 /\ ledger[c].status # "CAPACITY_WAIT"
    /\ ledger[c].task => created[c] > 0 /\ ledger[c].billable = 1
    /\ ledger[c].status = "NONE" => ledger[c].posts = 0 /\ ~ledger[c].task

PoolInv(c) ==
    /\ poolTask[c] => ledger[c].task
    /\ item[c] \in {"PROVIDER_ACTIVE", "PROVIDER_SUCCESS", "COMPLETED"} => poolTask[c]
    /\ item[c] = "COMPLETED" => ledger[c].status = "DELIVERED" /\ file[c] = "valid"

Submitting == pc \in {"prepare", "inflight", "post", "commit"}

WorkerInv ==
    /\ Submitting => item[cur] = "MODEL_INPUT_LOCKED"
    /\ pc = "inflight" => /\ ledger[cur].status \notin {"NONE", "SUBMISSION_UNKNOWN"}
                          /\ ~ledger[cur].task /\ created[cur] = 0
    /\ pc \in {"post", "commit"} => /\ ledger[cur].status = "CREATE_IN_FLIGHT"
                                    /\ ledger[cur].posts > 0 /\ ~ledger[cur].task
    /\ pc = "post" => created[cur] = 0
    /\ pc = "commit" => /\ answer \in {"task", "capacity", "rejected", "lost"}
                        /\ answer = "task" => created[cur] = 1
                        /\ answer \in {"capacity", "rejected"} => created[cur] = 0
    /\ pc = "qa" => item[cur] = "PROVIDER_SUCCESS"
    /\ pc = "apply" /\ item[cur] = "MODEL_INPUT_LOCKED"
           /\ answer \in {"accepted", "resumed"} => ledger[cur].task
    /\ pc = "apply" /\ item[cur] = "PROVIDER_SUCCESS" /\ answer = "accepted"
           => ledger[cur].status = "DELIVERED" /\ file[cur] = "valid"
    /\ pc = "apply" =>
           item[cur] \in {"MODEL_INPUT_LOCKED", "PROVIDER_ACTIVE", "PROVIDER_SUCCESS"}

LedgerInv == /\ \A c \in Candidates : RowInv(c) /\ PoolInv(c)
             /\ WorkerInv

=============================================================================
