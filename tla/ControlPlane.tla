---------------------------- MODULE ControlPlane ----------------------------
(***************************************************************************)
(* The control plane of the website: ProductionRuntimeService              *)
(* (services/api/app/services/production_runtime.py) queues and launches   *)
(* the runs of the production jobs, reads the event files their worker     *)
(* processes append to (workers/native_runtime.py) and judges each worker  *)
(* that has exited; the routes of control_plane.py start, resume, cancel,  *)
(* edit and delete jobs.                                                   *)
(*                                                                         *)
(* Requests are served by Threads.  A thread loads a row, looks at the     *)
(* processes and the events, and writes the row back: what it writes are   *)
(* the attributes it changed, over what another thread may have written    *)
(* meanwhile.  With one thread the requests are served one at a time.      *)
(***************************************************************************)
EXTENDS Naturals, FiniteSets, SequencesExt

CONSTANTS
    Jobs,                        \* production jobs, approved and ready
    Threads,                     \* requests served at the same time
    MAX_ACTIVE_PRODUCTION_JOBS,  \* worker slots
    MaxRuns,                     \* bound: runs made
    MaxLaunches,                 \* bound: processes spawned, later spawns fail
    MaxRequests,                 \* bound: requests of the operator not refused
    EndingsTried                 \* bound: the ways a worker ends

MAX_EMPTY_LAUNCH_RETRIES == 1
MAX_CRASH_RESUME_RETRIES == 1

Runs == 1..MaxRuns

TERMINAL_RUNTIME_EVENTS ==
    {"JOB_COMPLETED", "JOB_BLOCKED", "JOB_FAILED", "JOB_CANCELLED", "HUMAN_REQUIRED",
     "TARGET_SHORTAGE"}

Events == TERMINAL_RUNTIME_EVENTS
    \cup {"JOB_STARTED", "DELIVERY_COMPLETED", "READY_POOL_COMPLETED",
          "HUMAN_DECISION_REQUIRED"}

JobStatuses ==
    {"POLICY_READY", "QUEUED", "RUNNING", "READY_POOL", "TARGET_SHORTAGE",
     "HUMAN_REQUIRED", "BLOCKED", "COMPLETED", "FAILED", "CANCELLED", "DELETED"}

RunStatuses == {"NONE", "QUEUED", "RUNNING", "SUCCEEDED", "BLOCKED", "FAILED", "CANCELLED"}

(* The rows of events a worker can end with: what ProductionPipeline.run    *)
(* and _deliver emit from a decision to stop until they return or raise.    *)
Endings ==
    {<<"DELIVERY_COMPLETED", "JOB_COMPLETED">>,
     <<"JOB_BLOCKED">>, <<"HUMAN_REQUIRED">>, <<"JOB_FAILED">>,
     <<"READY_POOL_COMPLETED", "JOB_BLOCKED">>,
     <<"TARGET_SHORTAGE">>,
     <<"TARGET_SHORTAGE", "HUMAN_DECISION_REQUIRED">>,
     <<"TARGET_SHORTAGE", "JOB_BLOCKED">>, <<"TARGET_SHORTAGE", "JOB_FAILED">>,
     <<"TARGET_SHORTAGE", "DELIVERY_COMPLETED", "JOB_COMPLETED">>}

ASSUME ControlAssumption ==
    /\ MAX_ACTIVE_PRODUCTION_JOBS \in Nat \ {0}
    /\ MaxRuns \in Nat \ {0} /\ MaxLaunches \in Nat /\ MaxRequests \in Nat
    /\ EndingsTried \subseteq Endings /\ "none" \notin Jobs

VARIABLES
    jobs,         \* production_jobs.status
    runs,         \* production_runs; a run's number is its place by created_at
    made,         \* runs created
    procs,        \* worker processes by pid, in launch order
    pending,      \* rows of each job's event file not ingested yet
    lastEvent,    \* launches when the job's latest event was ingested, 0: none
    lastTerminal, \* the same of the latest terminal event
    checkpoint,   \* jobs with a candidate pool on disk
    thread,       \* what each thread is doing, with the row as it loaded it
    requests,     \* requests served so far
    delivered     \* jobs of which some worker announced JOB_COMPLETED (history)

events == <<pending, lastEvent, lastTerminal>>
vars == <<jobs, runs, made, procs, events, checkpoint, thread, requests, delivered>>

NoRun == [job |-> "none", status |-> "NONE", position |-> 0, resume |-> FALSE,
          attempts |-> 0, pid |-> 0, claimed |-> 0]

Idle == [at |-> "idle", run |-> 0, loaded |-> NoRun, row |-> NoRun, locked |-> FALSE]

launches == Len(procs)

RunRows == [job : Jobs \cup {"none"}, status : RunStatuses, position : Nat,
            resume : BOOLEAN, attempts : Nat, pid : Nat, claimed : Nat]

Processes == [run : Runs, job : Jobs, alive : BOOLEAN, ending : BOOLEAN,
              todo : Seq(Events), said : Events \cup {"none"}]

ThreadStates == [at : {"idle", "judge", "launch"}, run : Runs \cup {0},
                 loaded : RunRows, row : RunRows, locked : BOOLEAN]

TypeOK ==
    /\ jobs \in [Jobs -> JobStatuses]
    /\ runs \in [Runs -> RunRows]
    /\ made \in 0..MaxRuns /\ requests \in 0..MaxRequests
    /\ \A r \in Runs : runs[r].pid <= launches /\ runs[r].claimed <= launches
    /\ procs \in Seq(Processes)
    /\ pending \in [Jobs -> Seq(Events)]
    /\ lastEvent \in [Jobs -> 0..launches] /\ lastTerminal \in [Jobs -> 0..launches]
    /\ checkpoint \subseteq Jobs /\ delivered \subseteq Jobs
    /\ thread \in [Threads -> ThreadStates]

Init ==
    /\ jobs = [j \in Jobs |-> "POLICY_READY"]
    /\ runs = [r \in Runs |-> NoRun] /\ made = 0
    /\ procs = <<>>
    /\ pending = [j \in Jobs |-> <<>>]
    /\ lastEvent = [j \in Jobs |-> 0] /\ lastTerminal = [j \in Jobs |-> 0]
    /\ checkpoint = {} /\ delivered = {}
    /\ thread = [t \in Threads |-> Idle]
    /\ requests = 0

(***************************************************************************)
(* Queries.                                                                *)
(***************************************************************************)
InStatus(s) == {r \in Runs : runs[r].status = s}

(* Mutant: the runs that wait for a decision count too. *)
active_runsOpen == InStatus("RUNNING") \cup InStatus("BLOCKED")

active_runs == InStatus("RUNNING")

FreeSlot == Cardinality(active_runs) < MAX_ACTIVE_PRODUCTION_JOBS

RunsOf(j) == {r \in Runs : runs[r].job = j}

(* The run of the job created last, 0 if it has none. *)
latest_run(j) ==
    IF RunsOf(j) = {} THEN 0 ELSE CHOOSE r \in RunsOf(j) : \A q \in RunsOf(j) : q <= r

(* The queued run _promote_next takes. *)
Before(q, r) ==
    \/ runs[q].position < runs[r].position
    \/ runs[q].position = runs[r].position /\ q < r

NextQueued ==
    {r \in InStatus("QUEUED") : \A q \in InStatus("QUEUED") \ {r} : Before(r, q)}

Promotable == FreeSlot /\ InStatus("QUEUED") # {}

(* A thread that has written holds the write lock of the database until it  *)
(* commits.                                                                 *)
CanWrite(t) == \A u \in Threads \ {t} : ~thread[u].locked

(* What a commit leaves of a row another thread may have changed or deleted *)
(* meanwhile: only the attributes the thread changed are written.           *)
Committed(r, loaded, row) ==
    IF loaded # NoRun /\ runs[r] = NoRun THEN NoRun
    ELSE [f \in DOMAIN row |-> IF row[f] = loaded[f] THEN runs[r][f] ELSE row[f]]

SetJob(j, s) == jobs' = [jobs EXCEPT ![j] = IF @ = "DELETED" THEN @ ELSE s]

(***************************************************************************)
(* Worker processes.                                                       *)
(***************************************************************************)
Spawned(r, j) ==
    [run |-> r, job |-> j, alive |-> TRUE, ending |-> FALSE,
     todo |-> <<"JOB_STARTED">>, said |-> "none"]

Alive(l) == l \in 1..launches /\ procs[l].alive

(* The worker appends the next of its events. *)
Emit(l) ==
    LET e == Head(procs[l].todo)
        j == procs[l].job
    IN /\ Alive(l) /\ procs[l].todo # <<>>
       /\ pending' = [pending EXCEPT ![j] = Append(@, e)]
       /\ procs' = [procs EXCEPT ![l].todo = Tail(@),
                                 ![l].said = IF e \in TERMINAL_RUNTIME_EVENTS THEN e ELSE @]
       /\ delivered' = IF e = "JOB_COMPLETED" THEN delivered \cup {j} ELSE delivered
       /\ UNCHANGED <<jobs, runs, made, lastEvent, lastTerminal, checkpoint, thread, requests>>

(* The worker has a candidate pool, works on it and decides how to end. *)
Work(l) ==
    /\ Alive(l) /\ procs[l].todo = <<>> /\ ~procs[l].ending
    /\ checkpoint' = checkpoint \cup {procs[l].job}
    /\ \E e \in EndingsTried : procs' = [procs EXCEPT ![l].todo = e, ![l].ending = TRUE]
    /\ UNCHANGED <<jobs, runs, made, events, thread, requests, delivered>>

Exit(l) ==
    /\ Alive(l) /\ procs[l].todo = <<>> /\ procs[l].ending
    /\ procs' = [procs EXCEPT ![l].alive = FALSE]
    /\ UNCHANGED <<jobs, runs, made, events, checkpoint, thread, requests, delivered>>

(* The process dies anywhere, before its first event included. *)
Dead(p) == [p EXCEPT !.alive = FALSE, !.ending = TRUE, !.todo = <<>>]

Die(l) ==
    /\ Alive(l) /\ ~(procs[l].todo = <<>> /\ procs[l].ending)
    /\ procs' = [procs EXCEPT ![l] = Dead(@)]
    /\ UNCHANGED <<jobs, runs, made, events, checkpoint, thread, requests, delivered>>

(***************************************************************************)
(* ingest_event: the job's status after an event.                          *)
(***************************************************************************)
(* Events that only say that the job goes on. *)
GoesOn == {"JOB_STARTED", "DELIVERY_COMPLETED", "HUMAN_DECISION_REQUIRED"}

(* Mutant: the event's name becomes the status. *)
JobAfterByName(status, e) ==
    IF e \notin GoesOn THEN e ELSE IF status = "POLICY_READY" THEN status ELSE "RUNNING"

JobAfter(status, e) ==
    CASE e \in {"TARGET_SHORTAGE", "HUMAN_REQUIRED"} -> e
      [] e = "READY_POOL_COMPLETED" -> "READY_POOL"
      [] e = "JOB_COMPLETED" -> "COMPLETED"
      [] e = "JOB_FAILED"    -> "FAILED"
      [] e = "JOB_CANCELLED" -> "CANCELLED"
      [] e = "JOB_BLOCKED"   -> "BLOCKED"
      [] OTHER -> IF status = "POLICY_READY" THEN status ELSE "RUNNING"

(* The status after one row and the next: the last row decides, and a ready *)
(* job is still ready before it only if the others say that it goes on.     *)
StatusAfter(status, rows) ==
    IF rows = <<>> THEN status
    ELSE JobAfter(IF \A i \in 1..(Len(rows) - 1) : rows[i] \in GoesOn THEN status ELSE "RUNNING",
                  rows[Len(rows)])

HasTerminal(j) == \E i \in DOMAIN pending[j] : pending[j][i] \in TERMINAL_RUNTIME_EVENTS

(* _ingest_file: every row of the file that is not in the database yet. *)
IngestFile(j) ==
    /\ SetJob(j, StatusAfter(jobs[j], pending[j]))
    /\ pending' = [pending EXCEPT ![j] = <<>>]
    /\ lastEvent' = [lastEvent EXCEPT ![j] = IF pending[j] # <<>> THEN launches ELSE @]
    /\ lastTerminal' = [lastTerminal EXCEPT ![j] = IF HasTerminal(j) THEN launches ELSE @]

-----------------------------------------------------------------------------
(***************************************************************************)
(* A poll of the front end: reconcile_all takes every RUNNING run, reads    *)
(* its event file, and looks at its process.                               *)
(***************************************************************************)
Ingest(t, r) ==
    LET j == runs[r].job
    IN /\ thread[t].at = "idle" /\ runs[r].status = "RUNNING"
       /\ pending[j] # <<>> => CanWrite(t)
       /\ IngestFile(j)
       /\ thread' = [thread EXCEPT ![t] =
                       [at |-> "judge", run |-> r, loaded |-> runs[r], row |-> runs[r],
                        locked |-> pending[j] # <<>>]]
       /\ UNCHANGED <<runs, made, procs, checkpoint, requests, delivered>>

(* Mutant: a run whose worker announced its end is not waited for. *)
ExitedOrAnnounced(s) == ~Alive(s.pid) \/ lastTerminal[s.job] >= s.claimed

Exited(s) == ~Alive(s.pid)

(* Since the launch of the run's process: by the time of ingestion. *)
TerminalSeen(s) == lastTerminal[s.job] >= s.claimed

(* Within RUNTIME_STARTUP_GRACE_SECONDS of its launch a process that cannot *)
(* be seen may still be starting: how old a launch is, is not modelled.     *)
MayBeStarting(s) == ~TerminalSeen(s)

LeaveRunning(t) ==
    LET s == thread[t].loaded
    IN /\ thread[t].at = "judge" /\ CanWrite(t)
       /\ ~Exited(s) \/ MayBeStarting(s) \/ jobs[s.job] = "DELETED"
       /\ thread' = [thread EXCEPT ![t] = Idle]
       /\ UNCHANGED <<jobs, runs, made, procs, events, checkpoint, requests, delivered>>

(* Otherwise the file is read once more (RUNTIME_EVENT_FLUSH_SECONDS) if no *)
(* terminal event was seen.                                                 *)
Judging(t) ==
    LET s == thread[t].loaded
    IN thread[t].at = "judge" /\ CanWrite(t) /\ Exited(s) /\ jobs[s.job] # "DELETED"

Flush(s) == IF TerminalSeen(s) THEN UNCHANGED <<jobs, events>> ELSE IngestFile(s.job)

(* Mutant: what was read before the flush decides. *)
EndAnnouncedBefore(s) == TerminalSeen(s)

EndAnnounced(s) == TerminalSeen(s) \/ HasTerminal(s.job)

(* Mutant: an exit without a failure is a success. *)
VerdictLenient(status) ==
    CASE status = "CANCELLED" -> "CANCELLED"
      [] status \in {"BLOCKED", "HUMAN_REQUIRED", "TARGET_SHORTAGE"} -> "BLOCKED"
      [] status = "FAILED" -> "FAILED"
      [] OTHER -> "SUCCEEDED"

Verdict(status) ==
    CASE status = "COMPLETED" -> "SUCCEEDED"
      [] status = "CANCELLED" -> "CANCELLED"
      [] status \in {"BLOCKED", "HUMAN_REQUIRED", "TARGET_SHORTAGE"} -> "BLOCKED"
      [] OTHER -> "FAILED"

Commit(t, row) ==
    LET r == thread[t].run
    IN runs' = [runs EXCEPT ![r] = Committed(r, thread[t].loaded, row)]

(* The worker announced its end: the job's status says how the run ended. *)
JudgeEnded(t) ==
    LET s == thread[t].loaded
    IN /\ Judging(t) /\ EndAnnounced(s)
       /\ Flush(s)
       /\ Commit(t, [s EXCEPT !.status = Verdict(jobs'[s.job]), !.pid = 0])
       /\ thread' = [thread EXCEPT ![t] = Idle]
       /\ UNCHANGED <<made, procs, checkpoint, requests, delivered>>

EventSeen(s) == lastEvent[s.job] >= s.claimed \/ pending[s.job] # <<>>

RetriesEmpty(s) == ~EventSeen(s) /\ s.attempts < MAX_EMPTY_LAUNCH_RETRIES + 1

RetriesCrash(s) == s.job \in checkpoint /\ s.attempts < MAX_CRASH_RESUME_RETRIES + 1

(* The worker died without a word, or after some work: it is launched once  *)
(* more, from its checkpoint if it has one.                                 *)
Relaunch(t) ==
    LET s == thread[t].loaded
    IN /\ Judging(t) /\ ~EndAnnounced(s)
       /\ RetriesEmpty(s) \/ RetriesCrash(s)
       /\ Flush(s)
       /\ thread' = [thread EXCEPT ![t].at = "launch",
                                   ![t].row.resume = IF RetriesEmpty(s) THEN @ ELSE TRUE,
                                   ![t].locked = @ \/ pending[s.job] # <<>>]
       /\ UNCHANGED <<runs, made, procs, checkpoint, requests, delivered>>

JudgeFailed(t) ==
    LET s == thread[t].loaded
    IN /\ Judging(t) /\ ~EndAnnounced(s)
       /\ ~RetriesEmpty(s) /\ ~RetriesCrash(s)
       /\ pending' = [pending EXCEPT ![s.job] = <<>>]
       /\ lastEvent' = [lastEvent EXCEPT ![s.job] =
                          IF pending[s.job] # <<>> THEN launches ELSE @]
       /\ SetJob(s.job, "FAILED")
       /\ Commit(t, [s EXCEPT !.status = "FAILED", !.pid = 0])
       /\ thread' = [thread EXCEPT ![t] = Idle]
       /\ UNCHANGED <<made, procs, lastTerminal, checkpoint, requests, delivered>>

(* _promote_next, while slots are free. *)
Pick(t) ==
    /\ thread[t].at = "idle" /\ Promotable
    /\ \E r \in NextQueued :
         thread' = [thread EXCEPT ![t] = [at |-> "launch", run |-> r, loaded |-> runs[r],
                                          row |-> runs[r], locked |-> FALSE]]
    /\ UNCHANGED <<jobs, runs, made, procs, events, checkpoint, requests, delivered>>

(* _launch: a process is spawned, or cannot be; the row is committed. *)
Launch(t) ==
    LET row == thread[t].row
        pid == launches + 1
        n   == row.attempts + 1
    IN /\ thread[t].at = "launch" /\ CanWrite(t)
       /\ \/ /\ launches < MaxLaunches
             /\ procs' = Append(procs, Spawned(thread[t].run, row.job))
             /\ Commit(t, [row EXCEPT !.status = "RUNNING", !.attempts = n,
                                      !.pid = pid, !.claimed = pid])
             /\ SetJob(row.job, "RUNNING")
          \/ /\ Commit(t, [row EXCEPT !.status = "FAILED", !.attempts = n])
             /\ SetJob(row.job, "FAILED")
             /\ UNCHANGED procs
       /\ thread' = [thread EXCEPT ![t] = Idle]
       /\ UNCHANGED <<made, events, checkpoint, requests, delivered>>

(***************************************************************************)
(* The operator's requests.  Start, resume and cancel reconcile and promote *)
(* first, so that none of them finds a run it could promote.               *)
(***************************************************************************)
Serves(t, j) ==
    /\ thread[t].at = "idle" /\ jobs[j] # "DELETED"
    /\ requests < MaxRequests /\ requests' = requests + 1

ServesFirst(t, j) == Serves(t, j) /\ ~Promotable

LatestStatus(j) == IF latest_run(j) = 0 THEN "NONE" ELSE runs[latest_run(j)].status

MayStart(j) == LatestStatus(j) \notin {"RUNNING", "BLOCKED"}

MayResume(j) == LatestStatus(j) \notin {"NONE", "RUNNING", "SUCCEEDED", "CANCELLED"}

StartNow(t, j) ==
    /\ ServesFirst(t, j) /\ MayStart(j) /\ made < MaxRuns /\ FreeSlot
    /\ made' = made + 1
    /\ thread' = [thread EXCEPT ![t] =
                    [at |-> "launch", run |-> made + 1, loaded |-> NoRun,
                     row |-> [NoRun EXCEPT !.job = j], locked |-> FALSE]]
    /\ UNCHANGED <<jobs, runs, procs, events, checkpoint, delivered>>

StartQueued(t, j) ==
    /\ ServesFirst(t, j) /\ MayStart(j) /\ made < MaxRuns /\ ~FreeSlot /\ CanWrite(t)
    /\ made' = made + 1
    /\ runs' = [runs EXCEPT ![made + 1] =
                  [NoRun EXCEPT !.job = j, !.status = "QUEUED",
                                !.position = Cardinality(InStatus("QUEUED")) + 1]]
    /\ SetJob(j, "QUEUED")
    /\ UNCHANGED <<procs, events, checkpoint, thread, delivered>>

(* The attempts are counted afresh for every resume. *)
Resumed(r, position) ==
    [runs[r] EXCEPT !.status = "QUEUED", !.resume = TRUE, !.pid = 0, !.attempts = 0,
                    !.position = position]

ResumeNow(t, j) ==
    /\ ServesFirst(t, j) /\ MayResume(j) /\ FreeSlot
    /\ LET r == latest_run(j)
       IN thread' = [thread EXCEPT ![t] = [at |-> "launch", run |-> r, loaded |-> runs[r],
                                           row |-> Resumed(r, 0), locked |-> FALSE]]
    /\ UNCHANGED <<jobs, runs, made, procs, events, checkpoint, delivered>>

ResumeQueued(t, j) ==
    /\ ServesFirst(t, j) /\ MayResume(j) /\ ~FreeSlot /\ CanWrite(t)
    /\ LET r == latest_run(j)
       IN runs' = [runs EXCEPT ![r] = Resumed(r, Cardinality(InStatus("QUEUED")))]
    /\ SetJob(j, "QUEUED")
    /\ UNCHANGED <<made, procs, events, checkpoint, thread, delivered>>

Cancelled(r) == [runs EXCEPT ![r].status = "CANCELLED", ![r].pid = 0]

(* A live worker is told by an event in its file, killed, and its file read; *)
(* the statuses are then written whatever they were.                        *)
Cancel(t, j) ==
    LET r == latest_run(j)
    IN /\ ServesFirst(t, j) /\ CanWrite(t)
       /\ r # 0
       /\ runs' = Cancelled(r)
       /\ jobs' = [jobs EXCEPT ![j] = "CANCELLED"]
       /\ IF runs[r].status = "RUNNING" /\ Alive(runs[r].pid)
            THEN /\ procs' = [procs EXCEPT ![runs[r].pid] = Dead(@)]
                 /\ pending' = [pending EXCEPT ![j] = <<>>]
                 /\ lastEvent' = [lastEvent EXCEPT ![j] = launches]
                 /\ lastTerminal' = [lastTerminal EXCEPT ![j] = launches]
            ELSE UNCHANGED <<procs, events>>
       /\ UNCHANGED <<made, checkpoint, thread, delivered>>

(* cancel-job exceeds its five seconds: the request fails after the event   *)
(* was written, with the number of the worker's latest event if both read   *)
(* the same last number.                                                    *)
CancelTimesOut(t, j) ==
    LET r == latest_run(j)
    IN /\ ServesFirst(t, j) /\ r # 0
       /\ runs[r].status = "RUNNING" /\ Alive(runs[r].pid)
       /\ \E before \in {pending[j]} \cup (IF pending[j] = <<>> THEN {} ELSE {Front(pending[j])}) :
            pending' = [pending EXCEPT ![j] = Append(before, "JOB_CANCELLED")]
       /\ UNCHANGED <<jobs, runs, made, procs, lastEvent, lastTerminal, checkpoint, thread,
                      delivered>>

NotRunning(j) == \A r \in RunsOf(j) : runs[r].status # "RUNNING"

(* The rows of the job's runs go with it. *)
Delete(t, j) ==
    /\ Serves(t, j) /\ CanWrite(t) /\ NotRunning(j)
    /\ jobs' = [jobs EXCEPT ![j] = "DELETED"]
    /\ runs' = [r \in Runs |-> IF runs[r].job = j THEN NoRun ELSE runs[r]]
    /\ UNCHANGED <<made, procs, events, checkpoint, thread, delivered>>

(* The policy or the provider is changed: the job is to be approved again. *)
Edit(t, j) ==
    /\ Serves(t, j) /\ CanWrite(t) /\ NotRunning(j)
    /\ jobs' = [jobs EXCEPT ![j] = "POLICY_READY"]
    /\ UNCHANGED <<runs, made, procs, events, checkpoint, thread, delivered>>

Judge(t) == JudgeEnded(t) \/ Relaunch(t) \/ JudgeFailed(t)

WorkerStep == \E l \in 1..launches : Emit(l) \/ Work(l) \/ Exit(l)

Request(t, j) ==
    \/ StartNow(t, j) \/ StartQueued(t, j) \/ ResumeNow(t, j) \/ ResumeQueued(t, j)
    \/ Cancel(t, j) \/ CancelTimesOut(t, j) \/ Delete(t, j) \/ Edit(t, j)

Next ==
    \/ WorkerStep
    \/ \E l \in 1..launches : Die(l)
    \/ \E t \in Threads :
         \/ \E r \in Runs : Ingest(t, r)
         \/ LeaveRunning(t) \/ Judge(t) \/ Pick(t) \/ Launch(t)
         \/ \E j \in Jobs : Request(t, j)

Spec == Init /\ [][Next]_vars

(***************************************************************************)
(* Worker processes go on, and a request once begun is finished.  The front *)
(* end polls every five seconds: each poll takes the running runs and the   *)
(* queue again, between other requests, and in the end finds a launch older *)
(* than its grace period.  Nothing is assumed of the operator, and a worker *)
(* may die.                                                                *)
(***************************************************************************)
FairSpec ==
    /\ Spec
    /\ WF_vars(WorkerStep)
    /\ \A t \in Threads :
         /\ WF_vars(LeaveRunning(t) \/ Launch(t))
         /\ SF_vars(Judge(t)) /\ SF_vars(Pick(t))
    /\ SF_vars(\E t \in Threads, r \in Runs : Ingest(t, r))

-----------------------------------------------------------------------------
(***************************************************************************)
(* Properties.                                                             *)
(***************************************************************************)

(* At most MAX_ACTIVE_PRODUCTION_JOBS worker processes live at a time, and  *)
(* each of them is the process of a run that is RUNNING: no worker goes on  *)
(* for a run that was judged, cancelled, relaunched or deleted (the guards  *)
(* of _reconcile_run_once, cancel, delete and _promote_next together).      *)
WorkersAreOwned ==
    LET live == {l \in 1..launches : procs[l].alive}
    IN /\ Cardinality(live) <= MAX_ACTIVE_PRODUCTION_JOBS
       /\ \A l \in live : runs[procs[l].run].status = "RUNNING" /\ runs[procs[l].run].pid = l

(* There are never more RUNNING runs than slots (_active_runs: at most      *)
(* MAX_ACTIVE_PRODUCTION_JOBS).                                             *)
SlotsRespected == Cardinality(active_runs) <= MAX_ACTIVE_PRODUCTION_JOBS

(* A worker is launched again on its own only after a process, the one its  *)
(* run was last claimed for, that had not announced an end: a pause for a   *)
(* person, a shortage or a delivery is never run a second time (the comment *)
(* on MAX_CRASH_RESUME_RETRIES).                                            *)
RelaunchOnlyCrashed ==
    [][\A t \in Threads :
          thread[t].at = "judge" /\ thread'[t].at = "launch"
            => procs[thread[t].loaded.claimed].said = "none"]_vars

(* A run is SUCCEEDED only if a worker of its job announced a completed     *)
(* delivery, whatever was cancelled, retried or lost before.                *)
SucceededWasDelivered ==
    \A r \in Runs : runs[r].status = "SUCCEEDED" => runs[r].job \in delivered

(* Queued and running runs are settled in the end (requests being bounded, *)
(* all of them): the queue moves, and no run stays RUNNING without a        *)
(* process.                                                                 *)
OpenRuns == InStatus("QUEUED") \cup InStatus("RUNNING")

EveryRunSettles == OpenRuns # {} ~> OpenRuns = {}

(* A run whose worker announced a shortage is not judged FAILED: the        *)
(* shortage is kept for the operator's decision                             *)
(* (WEBSITE_HANDOFF_ALIGNMENT_REPORT_20260902: Exact-N keeps                *)
(* TARGET_SHORTAGE).                                                        *)
ShortageIsKept ==
    [][\A r \in Runs :
          runs[r].status = "RUNNING" /\ runs'[r].status = "FAILED"
            => procs[runs[r].pid].said # "TARGET_SHORTAGE"]_vars
=============================================================================
