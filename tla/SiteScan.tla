------------------------------ MODULE SiteScan ------------------------------
(***************************************************************************)
(* The scans of one site: SiteScanRuntimeService                           *)
(* (services/api/app/services/site_scan_runtime.py) runs each scan on a    *)
(* thread of a small executor; NativeSiteAnalyzer                          *)
(* (native_site_analysis.py) answers it with a receipt, after a visible    *)
(* browser pass if the public pages did not suffice; _persist then writes  *)
(* the snapshot, the current category rows, the site's profile and, for a  *)
(* scan attached to the job, the job's row, in one transaction.            *)
(*                                                                         *)
(* SQLite lets one writer in at a time, and _persist holds the write lock  *)
(* from its first flush to its commit.  Only what it reads before, whether *)
(* the first category has a row, can have changed when it writes.          *)
(***************************************************************************)
EXTENDS Naturals, FiniteSets, SequencesExt

CONSTANTS
    Categories,      \* paths of categories; a row's id is a hash of its path
    MAX_HTTP_SCANS,  \* threads of the executor
    L1Answers,       \* bound: receipts of analyze tried
    L2Answers,       \* bound: receipts of analyze_browser tried
    MaxScans,        \* bound: scans started
    MaxInterruptions,\* bound: deaths of the API process and resumes by the operator, together
    QuickResume      \* whether a scan is resumed before its thread has ended

ACTIVE == {"QUEUED", "ANALYZING", "L2_BROWSER"}

(* Statuses with which _execute leaves at once.                            *)
Ended ==
    {"READY", "PARTIAL", "FAILED", "HUMAN_REQUIRED", "ROBOTS_DENIED", "TEMPORARY_FAILURE",
     "ACCESS_CHANGE_REQUIRED", "SESSION_CONTINUITY_BROKEN", "BRAIN_NOT_CONFIGURED",
     "BROWSER_RUNTIME_NOT_INSTALLED"}

Resumable == Ended \ {"READY", "ROBOTS_DENIED"}

ReceiptStatuses == Ended \cup {"BROWSER_REQUIRED", "LIVE_SCAN_REQUIRED"}

Receipts == [status : ReceiptStatuses, categories : SUBSET Categories]

(* What analyze can answer: categories with some count unknown are PARTIAL, *)
(* and every refused or failed request answers without categories.          *)
L1Receipts ==
    {r \in Receipts :
       \/ r.status \in {"READY", "PARTIAL"}
       \/ r.categories = {}
          /\ r.status \notin {"BROWSER_RUNTIME_NOT_INSTALLED"}}

(* What analyze_browser can answer: an access decision keeps the categories *)
(* when it came from the count probes.                                      *)
L2Receipts ==
    {r \in Receipts :
       /\ r.status \notin {"ROBOTS_DENIED", "LIVE_SCAN_REQUIRED"}
       /\ r.status \in {"BRAIN_NOT_CONFIGURED", "BROWSER_RUNTIME_NOT_INSTALLED"}
            => r.categories = {}}

Scans == 1..MaxScans

ASSUME ScanAssumption ==
    /\ MAX_HTTP_SCANS \in Nat \ {0}
    /\ L1Answers \subseteq L1Receipts /\ L2Answers \subseteq L2Receipts
    /\ {MaxScans, MaxInterruptions} \subseteq Nat
    /\ QuickResume \in BOOLEAN

VARIABLES
    site,       \* whether the site is registered
    scan,       \* site_scan_runs by order of creation
    scheduled,  \* SiteScanRuntimeService._scheduled
    queue,      \* scans submitted to the executor and not begun
    thread,     \* what the thread of each begun scan is doing
    rows,       \* site_categories: the snapshot of each path's row, 0 without one
    snapshots,  \* site_taxonomy_snapshots with their frozen category rows
    forgotten,  \* how many of the first snapshots were deleted with the site
    profile,    \* site_profiles
    older,      \* scans started before the profile was last written
    jobRunning, \* whether production_jobs.status is RUNNING, all that is ever asked of it
    bound,      \* policy.category_snapshot_id of the job, 0 without one
    interruptions  \* deaths of the API process and resumes so far

scanning == <<site, scan, scheduled, queue, thread, rows, snapshots, forgotten,
              profile, older, interruptions>>
jobRow == <<jobRunning, bound>>
scanVars == <<scanning, jobRow>>

NoScan == [status |-> "NONE", resume_count |-> 0, job |-> FALSE]

ProfileStatuses == {"NONE", "VALIDATED", "DRAFT", "STALE", "BLOCKED"}

(* A profile's version is a hash of its content: a new one is named by the  *)
(* snapshot it was written with; one built and never written is 0.          *)
NoProfile == [version |-> 0, status |-> "NONE"]

Idle == [at |-> "idle", seen |-> NoProfile, receipt |-> [status |-> "NONE", categories |-> {}],
         drafted |-> "NONE", drifted |-> FALSE, found |-> FALSE]

TypeOK ==
    /\ site \in BOOLEAN
    /\ scan \in [Scans -> [status : ReceiptStatuses \cup ACTIVE \cup {"NONE", "GONE"},
                           resume_count : Nat, job : BOOLEAN]]
    /\ scheduled \subseteq Scans /\ queue \in Seq(Scans)
    /\ ToSet(queue) \subseteq scheduled
    /\ \A s \in Scans :
         /\ thread[s].at \in {"idle", "analyze", "browser", "persist", "leave"}
         /\ thread[s].at # "idle" => s \in scheduled \ ToSet(queue)
    /\ rows \in [Categories -> 0..Len(snapshots)]
    /\ forgotten <= Len(snapshots) /\ bound <= Len(snapshots)
    /\ profile.status \in ProfileStatuses /\ older \subseteq Scans

ScanInit ==
    /\ site = TRUE
    /\ scan = [s \in Scans |-> NoScan]
    /\ scheduled = {} /\ queue = <<>>
    /\ thread = [s \in Scans |-> Idle]
    /\ rows = [c \in Categories |-> 0]
    /\ snapshots = <<>> /\ forgotten = 0
    /\ profile = NoProfile /\ older = {}
    /\ interruptions = 0

(***************************************************************************)
(* Starting, scheduling and resuming.                                      *)
(***************************************************************************)
Known == {s \in Scans : scan[s].status \notin {"NONE", "GONE"}}

_schedule(s) ==
    IF s \in scheduled THEN UNCHANGED <<scheduled, queue>>
    ELSE scheduled' = scheduled \cup {s} /\ queue' = Append(queue, s)

(* A new scan, attached to the job or not; the routes register the site     *)
(* again if it was deleted.                                                  *)
start(withJob) ==
    \E s \in Scans :
       /\ scan[s].status = "NONE" /\ \A t \in 1..s-1 : scan[t].status # "NONE"
       /\ scan' = [scan EXCEPT ![s] = [status |-> "QUEUED", resume_count |-> 0, job |-> withJob]]
       /\ site' = TRUE
       /\ jobRunning' = (jobRunning /\ ~ withJob)
       /\ _schedule(s)
       /\ UNCHANGED <<thread, rows, snapshots, forgotten, profile, older, bound,
                      interruptions>>

resume ==
    \E s \in Known :
       /\ interruptions < MaxInterruptions
       /\ scan[s].status \in Resumable
       /\ QuickResume \/ s \notin scheduled
       /\ scan' = [scan EXCEPT ![s].status = "QUEUED"]
       /\ interruptions' = interruptions + 1
       /\ _schedule(s)
       /\ UNCHANGED <<site, thread, rows, snapshots, forgotten, profile, older, jobRow>>

(* A partial result is resumed once by itself: its first run counted 1.     *)
AutoResumed(s) == scan[s].status = "PARTIAL" /\ scan[s].resume_count <= 1

(* Mutant: a scan in the browser is not taken up again. *)
InterruptedOnPages == {s \in Known : scan[s].status \in {"QUEUED", "ANALYZING"}}

Interrupted == {s \in Known : scan[s].status \in ACTIVE}

(* The scans of a set by order of creation. *)
ByCreation(S) ==
    [i \in 1..Cardinality(S) |-> CHOOSE s \in S : Cardinality({t \in S : t <= s}) = i]

(* The API process dies with its threads; the next one schedules what was   *)
(* under way, then the partial results older than a minute.                 *)
Restart ==
    \E due \in SUBSET {s \in Known : AutoResumed(s)} :
       /\ interruptions < MaxInterruptions
       /\ interruptions' = interruptions + 1
       /\ thread' = [s \in Scans |-> Idle]
       /\ scan' = [s \in Scans |->
                     IF s \in due THEN [scan[s] EXCEPT !.status = "QUEUED"] ELSE scan[s]]
       /\ scheduled' = Interrupted \cup due
       /\ queue' = ByCreation(Interrupted) \o ByCreation(due)
       /\ UNCHANGED <<site, rows, snapshots, forgotten, profile, older, jobRow>>

(***************************************************************************)
(* The thread of a scan.                                                   *)
(***************************************************************************)
Begun == {s \in Scans : thread[s].at # "idle"}

Done(s) == thread' = [thread EXCEPT ![s] = [Idle EXCEPT !.at = "leave"]]

(* A thread takes the next scan; one that ended, or is gone, is left alone. *)
Begin ==
    LET s == Head(queue) IN
    /\ queue # <<>> /\ Cardinality(Begun) < MAX_HTTP_SCANS
    /\ queue' = Tail(queue)
    /\ IF s \notin Known \/ scan[s].status \in Ended
         THEN Done(s) /\ UNCHANGED scan
         ELSE /\ scan' = [scan EXCEPT ![s].status = "ANALYZING", ![s].resume_count = @ + 1]
              /\ thread' = [thread EXCEPT ![s].at = "analyze", ![s].seen = profile]
    /\ UNCHANGED <<site, scheduled, rows, snapshots, forgotten, profile, older, jobRow,
                   interruptions>>

_needs_browser_enrichment(receipt) ==
    receipt.status \in {"BROWSER_REQUIRED", "HUMAN_REQUIRED", "PARTIAL"}

First(categories) == CHOOSE c \in categories : TRUE

(* The receipt is written, and _persist looks its first category up before it *)
(* holds the write lock.                                                      *)
Answered(s, receipt, draft) ==
    thread' = [thread EXCEPT ![s].at = "persist", ![s].receipt = receipt,
                 ![s].drafted = draft.status, ![s].drifted = draft.drifted,
                 ![s].found = receipt.categories # {} /\ rows[First(receipt.categories)] # 0]

(* A stored profile drifts when the site's platform has changed, and always  *)
(* when it is marked stale.                                                  *)
Drifts(seen) ==
    CASE seen.status = "NONE"  -> {FALSE}
      [] seen.status = "STALE" -> {TRUE}
      [] OTHER                 -> BOOLEAN

(* Profiles a receipt of analyze may carry: one the brain agent has earned,  *)
(* the stored one as it is, or a default plan, marked stale if the stored    *)
(* one has drifted.  A result that goes on to the browser keeps none of them. *)
ProfileDrafts(receipt, seen) ==
    {d \in [status : ProfileStatuses \cup {"SAME"}, drifted : BOOLEAN] :
       IF receipt.status = "READY" /\ receipt.categories # {}
         THEN /\ d.status \in {"VALIDATED", "SAME", "DRAFT", "STALE"} /\ d.drifted \in Drifts(seen)
              /\ d.status = "SAME" => seen.status = "VALIDATED"
              /\ d.status \in {"SAME", "DRAFT"} => ~ d.drifted
              /\ d.status = "STALE" => d.drifted
         ELSE /\ d.status = IF receipt.status \in {"READY", "BRAIN_NOT_CONFIGURED"} THEN "DRAFT" ELSE "BLOCKED"
              /\ ~ d.drifted}

Analyze(s) ==
    /\ thread[s].at = "analyze"
    /\ \E receipt \in L1Answers :
         IF _needs_browser_enrichment(receipt)
           THEN /\ thread' = [thread EXCEPT ![s].at = "browser"]
                /\ scan' = IF s \in Known THEN [scan EXCEPT ![s].status = "L2_BROWSER"] ELSE scan
           ELSE /\ \E draft \in ProfileDrafts(receipt, thread[s].seen) : Answered(s, receipt, draft)
                /\ UNCHANGED scan
    /\ UNCHANGED <<site, scheduled, queue, rows, snapshots, forgotten, profile, older, jobRow,
                   interruptions>>

(* An exception of the analyzer that it does not turn into a receipt.        *)
Raise(s) ==
    /\ thread[s].at \in {"analyze", "browser"}
    /\ Done(s)
    /\ scan' = IF s \in Known THEN [scan EXCEPT ![s].status = "FAILED"] ELSE scan
    /\ jobRunning' = (jobRunning /\ ~ (s \in Known /\ scan[s].job))
    /\ UNCHANGED <<site, scheduled, queue, rows, snapshots, forgotten, profile, older, bound,
                   interruptions>>

(* The browser pass answers for both: the first pass is kept as a summary    *)
(* (and its counts, which no property here looks at).                        *)
AnalyzeBrowser(s) ==
    /\ thread[s].at = "browser"
    /\ \E receipt \in L2Answers :
         Answered(s, receipt,
                  [status  |-> IF receipt.status \in {"READY", "PARTIAL", "BRAIN_NOT_CONFIGURED"}
                                 THEN "DRAFT" ELSE "BLOCKED",
                   drifted |-> FALSE])
    /\ UNCHANGED <<site, scan, scheduled, queue, rows, snapshots, forgotten, profile, older,
                   jobRow, interruptions>>

(***************************************************************************)
(* Persisting a receipt.                                                   *)
(***************************************************************************)
(* Its row was deleted by another scan (or with the site), or inserted by    *)
(* another: the flush fails and nothing is written.                          *)
Conflict(s) ==
    LET found == thread[s].receipt.categories IN
    found # {} /\ thread[s].found # (rows[First(found)] # 0)

incoming_status(s) ==
    IF thread[s].drafted = "SAME" THEN "VALIDATED" ELSE thread[s].drafted

(* Mutant: the version this scan observed is not compared. *)
PersistsProfileBlindly(s) ==
    ~ (profile.status = "VALIDATED" /\ incoming_status(s) # "VALIDATED")

(* A validated profile is replaced by a validated one only, and one written  *)
(* since the scan was started only by its own version or by the profile     *)
(* that names it as the version it migrates.                                 *)
PersistsProfile(s) ==
    /\ ~ (profile.status = "VALIDATED" /\ incoming_status(s) # "VALIDATED")
    /\ \/ profile.status = "NONE"
       \/ s \notin older
       \/ thread[s].drafted = "SAME" /\ thread[s].seen.version = profile.version
       \/ /\ thread[s].drafted = "VALIDATED" /\ thread[s].drifted
          /\ thread[s].seen.version = profile.version

(* Mutant: a rescan leaves the rows of categories it did not find. *)
RowsMerged(found, id) == [c \in Categories |-> IF c \in found THEN id ELSE rows[c]]

(* The current rows become those of the new snapshot, unless it is empty.    *)
RowsAfter(found, id) ==
    IF found = {} THEN rows ELSE [c \in Categories |-> IF c \in found THEN id ELSE 0]

_persist(s) ==
    LET receipt == thread[s].receipt
        id      == Len(snapshots) + 1
        new     == [version |-> IF thread[s].drafted = "SAME" THEN thread[s].seen.version ELSE id,
                    status  |-> incoming_status(s)]
        writes  == PersistsProfile(s) /\ new # profile
    IN
    /\ scan' = [scan EXCEPT ![s].status = receipt.status]
    /\ snapshots' = Append(snapshots, receipt)
    /\ rows' = RowsAfter(receipt.categories, id)
    /\ profile' = IF writes THEN new ELSE profile
    /\ older' = IF writes THEN Known ELSE older
    /\ IF scan[s].job THEN bound' = id /\ jobRunning' = FALSE ELSE UNCHANGED jobRow

Persist(s) ==
    /\ thread[s].at = "persist" /\ s \in Known /\ ~ Conflict(s)
    /\ _persist(s)
    /\ Done(s)
    /\ UNCHANGED <<site, scheduled, queue, forgotten, interruptions>>

PersistFails(s) ==
    /\ thread[s].at = "persist" /\ s \in Known /\ Conflict(s)
    /\ scan' = [scan EXCEPT ![s].status = "FAILED"]
    /\ jobRunning' = (jobRunning /\ ~ scan[s].job)
    /\ Done(s)
    /\ UNCHANGED <<site, scheduled, queue, rows, snapshots, forgotten, profile, older, bound,
                   interruptions>>

(* The scan was deleted with its site: there is nothing to write to.         *)
PersistNothing(s) ==
    /\ thread[s].at = "persist" /\ s \notin Known
    /\ Done(s)
    /\ UNCHANGED <<site, scan, scheduled, queue, rows, snapshots, forgotten, profile, older,
                   jobRow, interruptions>>

(* Only now may the scan be scheduled again.                                 *)
Leave(s) ==
    /\ thread[s].at = "leave"
    /\ thread' = [thread EXCEPT ![s] = Idle]
    /\ scheduled' = scheduled \ {s}
    /\ UNCHANGED <<site, scan, queue, rows, snapshots, forgotten, profile, older, jobRow,
                   interruptions>>

ThreadStep(s) ==
    \/ Analyze(s) \/ Raise(s) \/ AnalyzeBrowser(s)
    \/ Persist(s) \/ PersistFails(s) \/ PersistNothing(s) \/ Leave(s)

(* delete_control_site: everything of the site but the frozen categories.    *)
ForgetSite ==
    /\ site /\ site' = FALSE
    /\ scan' = [s \in Scans |-> IF s \in Known THEN [scan[s] EXCEPT !.status = "GONE"] ELSE scan[s]]
    /\ rows' = [c \in Categories |-> 0]
    /\ forgotten' = Len(snapshots)
    /\ profile' = NoProfile /\ older' = {}
    /\ UNCHANGED <<scheduled, queue, thread, snapshots, jobRow, interruptions>>

ScanStep == Begin \/ \E s \in Scans : ThreadStep(s)

(***************************************************************************)
(* Properties.                                                             *)
(***************************************************************************)

(* The site's current categories are those of one snapshot and of all of it, *)
(* whatever scans of the site were persisted at the same time.               *)
CurrentRowsAreOneSnapshot ==
    LET present == {c \in Categories : rows[c] # 0} IN
    present # {} =>
      \E id \in forgotten + 1 .. Len(snapshots) :
         snapshots[id].categories = present /\ \A c \in present : rows[c] = id

(* Optimistic concurrency of the profile: who replaces a stored profile had   *)
(* seen that very version when it began, so no late scan undoes a newer one,  *)
(* and a validated profile gives way to a validated one only.                 *)
NoStaleProfileOverwrite ==
    [][profile.status # "NONE" /\ profile' # profile /\ site' =>
         /\ \E s \in Scans : /\ thread[s].at = "persist" /\ thread'[s].at = "leave"
                             /\ thread[s].seen.version = profile.version
         /\ profile.status = "VALIDATED" => profile'.status = "VALIDATED"]_scanVars

(* No scan is left behind: one that is under way has a thread that works on   *)
(* it or a place in the executor's queue, after every death of the API        *)
(* process and every resume; with the threads' progress this is what ends it. *)
ActiveIsScheduled ==
    \A s \in Known : scan[s].status \in ACTIVE =>
       s \in ToSet(queue) \/ thread[s].at \in {"analyze", "browser", "persist"}

=============================================================================
