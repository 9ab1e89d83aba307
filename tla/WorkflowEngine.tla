---------------------------- MODULE WorkflowEngine ----------------------------
(***************************************************************************)
(* The task engine of packages/workflow-engine (engine.py, model.py): an   *)
(* ordered sequence of tasks, each a state machine, with prerequisites,    *)
(* approval gates and an append-only event log.  The engine is a pure      *)
(* function of its state: a transition that raises changes nothing, so     *)
(* only the transitions it accepts are steps.                              *)
(***************************************************************************)
EXTENDS Naturals, Sequences, FiniteSets

CONSTANTS
    NumTasks,          \* length of TASK_SEQUENCE (12 in the code)
    MODEL_GENERATION,  \* positions of the gated tasks
    BLENDER_EXPORT,
    ENTERPRISE_INPUT,
    Hashes,            \* catalog lock and approval hashes
    NoHash,            \* a gate that was not given
    MaxEvents          \* bound: transitions of one workflow

ASSUME TasksAssumption ==
    /\ NumTasks \in Nat \ {0}
    /\ MODEL_GENERATION \in 1..NumTasks
    /\ BLENDER_EXPORT \in 1..NumTasks
    /\ ENTERPRISE_INPUT \in 1..NumTasks

Tasks == 1..NumTasks

Waits == {"waiting_provider", "provider_capacity_wait", "waiting_refill",
          "waiting_external_upload", "waiting_external_export"}

JobStatus ==
    Waits \cup {"pending", "ready", "running", "needs_review", "paused_challenge",
                "submission_unknown", "manual_reconciliation", "supply_exhausted",
                "job_blocked_software_error", "blocked", "succeeded", "failed", "cancelled"}

Final == {"succeeded", "cancelled"}

(* Mutant: an unknown submission may simply be run again. *)
AllowedTransitionsRetryUnknown ==
    [s \in JobStatus |->
        IF s = "submission_unknown" THEN {"running", "manual_reconciliation", "cancelled"}
        ELSE IF s = "pending" THEN {"ready", "cancelled"}
        ELSE IF s = "ready" THEN {"running", "blocked", "cancelled"}
        ELSE IF s = "running" THEN JobStatus \ {"pending", "ready", "running"}
        ELSE {}]

ALLOWED_TRANSITIONS ==
    [s \in JobStatus |->
        CASE s \in Final             -> {}
          [] s = "pending"           -> {"ready", "cancelled"}
          [] s = "ready"             -> {"running", "blocked", "cancelled"}
          [] s = "running"           -> JobStatus \ {"pending", "ready", "running"}
          [] s = "needs_review"      -> {"ready", "running", "blocked", "cancelled"}
          [] s = "paused_challenge"  -> {"running", "needs_review", "cancelled"}
          [] s = "waiting_provider"  -> {"running", "needs_review", "cancelled"}
          [] s = "waiting_refill"    -> {"running", "supply_exhausted", "cancelled"}
          [] s \in Waits \ {"waiting_provider", "waiting_refill"}
                                     -> {"running", "cancelled"}
          [] s = "submission_unknown"    -> {"manual_reconciliation", "cancelled"}
          [] s = "manual_reconciliation" -> {"needs_review", "cancelled"}
          [] s = "job_blocked_software_error" -> {"needs_review", "cancelled"}
          [] s \in {"supply_exhausted", "blocked"} -> {"ready", "cancelled"}
          [] s = "failed"            -> {"ready", "blocked", "cancelled"}]

Gates == [catalog : Hashes \cup {NoHash}, paid : Hashes \cup {NoHash},
          export : Hashes \cup {NoHash}, input : BOOLEAN]

VARIABLES
    status,   \* status of each task
    attempt,  \* how often each task was started
    events    \* the event log: task, from and to of each transition

vars == <<status, attempt, events>>

Events == [task : Tasks, from : JobStatus, to : JobStatus]

TypeOK ==
    /\ status \in [Tasks -> JobStatus]
    /\ attempt \in [Tasks -> Nat]
    /\ events \in Seq(Events)

Event(i, from, to) == [task |-> i, from |-> from, to |-> to]

(* WorkflowEngine.new: the first task is ready. *)
Init ==
    /\ status = [i \in Tasks |-> IF i = 1 THEN "ready" ELSE "pending"]
    /\ attempt = [i \in Tasks |-> 0]
    /\ events = <<Event(1, "pending", "ready")>>

-----------------------------------------------------------------------------
PriorSucceeded(i) == \A j \in 1..(i - 1) : status[j] = "succeeded"

(* Mutants: a task is made ready unchecked; nothing is checked. *)
PrerequisitesOnStart(i, to) == to = "running" => PriorSucceeded(i)
PrerequisitesUnchecked(i, to) == TRUE

(* _require_prerequisites *)
Prerequisites(i, to) == to \in {"ready", "running"} => PriorSucceeded(i)

(* _require_gates; g is the GateContext of the call. *)
GatesOpen(i, g) ==
    /\ i \in {MODEL_GENERATION, BLENDER_EXPORT} => g.catalog # NoHash
    /\ i = MODEL_GENERATION => g.paid = g.catalog
    /\ i = BLENDER_EXPORT /\ i # MODEL_GENERATION => g.export = g.catalog
    /\ i = ENTERPRISE_INPUT /\ i \notin {MODEL_GENERATION, BLENDER_EXPORT} => g.input

(* Mutant: nothing is unlocked. *)
UnlockedNone(s) == {}

(* _unlock_ready_tasks, after a success made the statuses s. *)
Unlocked(s) ==
    {k \in Tasks : s[k] = "pending" /\ \A j \in 1..(k - 1) : s[j] = "succeeded"}

(* Mutant: the unlocking is not logged. *)
UnlockEventsUnlogged(s) == <<>>

(* The first unlocked task is ready, not succeeded, so it unlocks no other. *)
UnlockEvents(s) ==
    IF Unlocked(s) = {} THEN <<>>
    ELSE <<Event(CHOOSE k \in Unlocked(s) : TRUE, "pending", "ready")>>

Logged(i, to) == Append(events, Event(i, status[i], to))

(* WorkflowEngine.transition, for each kind of status it moves task i to.  *)
Start(i, g) ==
    /\ "running" \in ALLOWED_TRANSITIONS[status[i]]
    /\ Prerequisites(i, "running") /\ GatesOpen(i, g)
    /\ status' = [status EXCEPT ![i] = "running"]
    /\ attempt' = [attempt EXCEPT ![i] = @ + 1]
    /\ events' = Logged(i, "running")

Succeed(i) ==
    LET moved == [status EXCEPT ![i] = "succeeded"]
    IN /\ "succeeded" \in ALLOWED_TRANSITIONS[status[i]]
       /\ status' = [k \in Tasks |-> IF k \in Unlocked(moved) THEN "ready" ELSE moved[k]]
       /\ events' = Logged(i, "succeeded") \o UnlockEvents(moved)
       /\ UNCHANGED attempt

Move(i, to) ==
    /\ to \in ALLOWED_TRANSITIONS[status[i]] \ {"running", "succeeded"}
    /\ Prerequisites(i, to)
    /\ status' = [status EXCEPT ![i] = to]
    /\ events' = Logged(i, to)
    /\ UNCHANGED attempt

Next ==
    /\ Len(events) < MaxEvents
    /\ \E i \in Tasks :
         \/ \E g \in Gates : Start(i, g)
         \/ Succeed(i)
         \/ \E to \in JobStatus : Move(i, to)

Spec == Init /\ [][Next]_vars

-----------------------------------------------------------------------------
(***************************************************************************)
(* Properties.                                                             *)
(***************************************************************************)

(* The workflow is sequential: a task that was ever started, finished or   *)
(* merely made ready has all tasks before it finished, for good.           *)
Sequential ==
    \A i \in Tasks : status[i] \notin {"pending", "cancelled"} => PriorSucceeded(i)

(* The workflow never stalls: a task whose predecessors are finished is not *)
(* left pending (_unlock_ready_tasks runs on every success).               *)
NothingForgotten == \A i \in Tasks : PriorSucceeded(i) => status[i] # "pending"

(* The events of a task, by their places in the log. *)
Own(i, log) == {n \in 1..Len(log) : log[n].task = i}

(* The last of the events S of a log leads to status s. *)
LeadsTo(S, log, s) ==
    IF S = {} THEN s = "pending"
    ELSE \E n \in S : log[n].to = s /\ \A m \in S : m <= n

Starts(i, log) == {n \in Own(i, log) : log[n].to = "running"}

Explained(st, at, log) ==
    \A i \in Tasks :
        /\ LeadsTo(Own(i, log), log, st[i])
        /\ \A n \in Own(i, log) : LeadsTo({m \in Own(i, log) : m < n}, log, log[n].from)
        /\ at[i] = Cardinality(Starts(i, log))

(* The log replays to the state: the events of a task chain from pending to *)
(* its present status, and its attempts are its starts.                    *)
LogExplainsState == Explained(status, attempt, events)

Reviewed(log) ==
    \A i \in Tasks : \A m, n \in Own(i, log) :
        m < n /\ log[m].to = "submission_unknown" /\ log[n].to = "running"
          => \E k \in Own(i, log) : k \in m..n /\ log[k].to = "needs_review"

(* A submission of unknown outcome is run again only after a reviewer saw   *)
(* it: between the two events of its task lies a needs_review.             *)
UnknownIsReviewed == Reviewed(events)

(***************************************************************************)
(* The engine implements StepByStep: tasks finish one at a time, in order. *)
(***************************************************************************)
Steps == INSTANCE StepByStep WITH done <- {i \in Tasks : status[i] = "succeeded"}

ImplementsStepByStep == Steps!Spec
=============================================================================
