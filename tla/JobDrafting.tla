---------------------------- MODULE JobDrafting ----------------------------
(***************************************************************************)
(* One production job from its form to its contract: the routes of         *)
(* control_plane.py that create it, choose its categories and target,      *)
(* approve its provider and edit it, and ProductionRuntimeService, which   *)
(* writes the contract anew at every launch of a worker                    *)
(* (production_runtime.py, _contract).  Scans of the site, the job's own   *)
(* and others, run meanwhile (SiteScan), and write the job's row too.      *)
(*                                                                         *)
(* The run of the job is an abstraction of module ControlPlane: queued     *)
(* while the worker slots are taken by other jobs, launched, relaunched    *)
(* after a crash, ended.                                                   *)
(***************************************************************************)
EXTENDS SiteScan

CONSTANTS
    Parent,       \* the parent path of each category, NoParent without one
    NoParent,
    FormScopes,   \* category ids a new job may come with, unchecked
    Providers,    \* providers the form offers, "OFF" among them
    Targets,      \* target values tried
    Limits,       \* provider call limits the operator may enter, 0 for none
    Configured,   \* whether LUX3D_API_KEY and LUX3D_BASE_URL are set
    MaxRequests   \* bound: requests of the operator

ASSUME DraftingAssumption ==
    /\ Parent \in [Categories -> Categories \cup {NoParent}]
    /\ FormScopes \subseteq SUBSET Categories
    /\ "OFF" \in Providers /\ Targets \subseteq Nat \ {0} /\ Limits \subseteq Nat
    /\ Configured \in BOOLEAN /\ MaxRequests \in Nat

VARIABLES
    job,       \* the columns of production_jobs and the policy
    safe,      \* provider_safety_checks: providers whose latest check is ready
    run,       \* status of the job's latest production_runs row
    contract,  \* job_contract.json
    chosen,    \* snapshot and scope of the operator's last selection (history)
    approved,  \* provider and limit approved since the provider was chosen (history)
    requests   \* requests so far

drafting == <<job, safe, run, contract, chosen, approved, requests>>
vars == <<scanVars, drafting>>

NoContract == [provider |-> "none", paid |-> FALSE, limit |-> 0, target |-> 0,
               categories |-> {}, snapshot |-> 0, profile |-> 0]

NotApproved == [provider |-> "none", limit |-> 0]

Init ==
    /\ ScanInit
    /\ jobRunning = FALSE /\ bound = 0
    /\ job \in [provider : Providers, safety : {"NOT_CHECKED"}, limit : {0}, target : Targets,
                categories : FormScopes, profile : {0}]
    /\ safe = {} /\ run = "NONE" /\ contract = NoContract
    /\ chosen = [snapshot |-> 0, categories |-> {}]
    /\ approved = NotApproved
    /\ requests = 0

Requested == requests < MaxRequests /\ requests' = requests + 1

(***************************************************************************)
(* Drafting.                                                               *)
(***************************************************************************)
Scan ==
    /\ Requested /\ start(TRUE)
    /\ UNCHANGED <<job, safe, run, contract, chosen, approved>>

ScanWithoutJob ==
    /\ Requested /\ start(FALSE)
    /\ UNCHANGED <<job, safe, run, contract, chosen, approved>>

ResumeScan == resume /\ UNCHANGED drafting

_BLOCKED_TAXONOMY_STATUSES ==
    {"HUMAN_REQUIRED", "BROWSER_REQUIRED", "BROWSER_RUNTIME_NOT_INSTALLED",
     "TEMPORARY_FAILURE", "ACCESS_CHANGE_REQUIRED", "SESSION_CONTINUITY_BROKEN", "FAILED",
     "BRAIN_NOT_CONFIGURED"}

current_snapshot == IF Len(snapshots) > forgotten THEN Len(snapshots) ELSE 0

LatestScanStatus == IF Known = {} THEN "NONE" ELSE scan[CHOOSE s \in Known : \A t \in Known : t <= s].status

(* The categories the operator is shown: none while the latest scan runs or   *)
(* is blocked, nor after a blocked one.                                       *)
_taxonomy_read_model ==
    IF \/ LatestScanStatus \in ACTIVE \cup _BLOCKED_TAXONOMY_STATUSES
       \/ current_snapshot # 0 /\ snapshots[current_snapshot].status \in _BLOCKED_TAXONOMY_STATUSES
      THEN {}
      ELSE {c \in Categories : rows[c] # 0 /\ current_snapshot \in {0, rows[c]}}

(* A parent is dropped when one of its children is chosen with it.            *)
Compacted(ids) == ids \ {Parent[c] : c \in ids}

AddCategories ==
    \E ids \in SUBSET _taxonomy_read_model :
       /\ Requested /\ Compacted(ids) # {}
       /\ job' = [job EXCEPT !.categories = Compacted(ids)]
       /\ bound' = IF current_snapshot # 0 THEN current_snapshot ELSE bound
       /\ chosen' = [snapshot |-> bound', categories |-> Compacted(ids)]
       /\ jobRunning' = FALSE
       /\ UNCHANGED <<scanning, safe, run, contract, approved>>

ModifyTarget ==
    \E n \in Targets :
       /\ Requested
       /\ job' = [job EXCEPT !.target = n]
       /\ jobRunning' = FALSE
       /\ UNCHANGED <<scanning, bound, safe, run, contract, chosen, approved>>

(* The other answers to a shortage, and the answers to a review.              *)
Decide ==
    /\ Requested
    /\ jobRunning' = FALSE
    /\ UNCHANGED <<scanning, bound, job, safe, run, contract, chosen, approved>>

(* The limit when none is entered, for an order counted in all (neither of    *)
(* mode ALL nor per category).                                                *)
_default_provider_call_limit == job.target

approve_job ==
    \E entered \in Limits :
       LET limit == IF entered = 0 THEN _default_provider_call_limit ELSE entered
           ready == job.provider = "lux3d" /\ Configured
       IN
       /\ Requested
       /\ IF job.provider = "OFF"
            THEN /\ job' = [job EXCEPT !.safety = "NOT_APPLICABLE_PROVIDER_OFF", !.limit = 0]
                 /\ approved' = [provider |-> "OFF", limit |-> 0]
                 /\ UNCHANGED safe
            ELSE /\ job' = [job EXCEPT !.safety = IF ready THEN "PRODUCTION_READY" ELSE "PRODUCTION_BLOCKED",
                                        !.limit = limit]
                 /\ safe' = IF ready THEN safe \cup {job.provider} ELSE safe \ {job.provider}
                 /\ approved' = [provider |-> job.provider, limit |-> limit]
       /\ jobRunning' = FALSE
       /\ UNCHANGED <<scanning, bound, run, contract, chosen>>

(* Mutant: the new provider keeps the old one's safety. *)
SwitchedUnchecked(provider) == [job EXCEPT !.provider = provider]

Switched(provider) == [job EXCEPT !.provider = provider, !.safety = "NOT_CHECKED"]

(* Editing the provider is refused while a run is RUNNING, not while queued.  *)
SwitchProvider ==
    \E provider \in Providers \ {job.provider} :
       /\ Requested /\ run # "RUNNING"
       /\ job' = Switched(provider)
       /\ jobRunning' = FALSE
       /\ approved' = NotApproved
       /\ UNCHANGED <<scanning, bound, safe, run, contract, chosen>>

(***************************************************************************)
(* Production.                                                             *)
(***************************************************************************)

(* Mutant: the rows of the site as they are now. *)
ScopeRowsNow == {c \in job.categories : rows[c] # 0}

(* The chosen categories that have a row: in the bound snapshot's frozen      *)
(* rows, which outlive the site, or without one among the current rows.       *)
ScopeRows ==
    IF bound = 0 THEN {c \in job.categories : rows[c] # 0}
    ELSE job.categories \cap snapshots[bound].categories

(* Mutant: every launch takes the site's present profile. *)
FrozenProfileRead == profile.version

(* The profile is frozen with the first launch that finds one.                *)
FrozenProfile == IF job.profile # 0 THEN job.profile ELSE profile.version

_contract ==
    /\ contract' = [provider   |-> job.provider,
                    paid       |-> job.provider # "OFF" /\ job.safety = "PRODUCTION_READY",
                    limit      |-> job.limit,
                    target     |-> job.target,
                    categories |-> ScopeRows,
                    snapshot   |-> bound,
                    profile    |-> FrozenProfile]
    /\ run' = "RUNNING" /\ jobRunning' = TRUE

_provider_ready == job.provider = "OFF" \/ job.provider \in safe

(* Launched at once, or queued if other jobs hold the slots; a resume goes     *)
(* the same way.                                                              *)
LaunchOrQueue(j) ==
    \/ _contract /\ job' = [j EXCEPT !.profile = FrozenProfile]
    \/ /\ run' = "QUEUED" /\ jobRunning' = FALSE /\ job' = j
       /\ UNCHANGED contract

start_production_job ==
    /\ Requested
    /\ run \in {"NONE", "QUEUED", "FAILED", "SUCCEEDED", "CANCELLED"}
    /\ job.categories # {} /\ _provider_ready
    /\ LaunchOrQueue(IF job.provider = "OFF"
                       THEN [job EXCEPT !.safety = "NOT_APPLICABLE_PROVIDER_OFF"] ELSE job)
    /\ UNCHANGED <<scanning, bound, safe, chosen, approved>>

resume_production_job ==
    /\ Requested
    /\ run \in {"QUEUED", "BLOCKED", "FAILED"}
    /\ _provider_ready
    /\ LaunchOrQueue(job)
    /\ UNCHANGED <<scanning, bound, safe, chosen, approved>>

(* Promotion from the queue, and the relaunch of a crashed worker: neither     *)
(* looks at the provider again.                                               *)
Launch ==
    /\ run \in {"QUEUED", "RUNNING"}
    /\ _contract
    /\ job' = [job EXCEPT !.profile = FrozenProfile]
    /\ UNCHANGED <<scanning, bound, safe, chosen, approved, requests>>

RunEnds ==
    /\ run = "RUNNING"
    /\ \E end \in {"BLOCKED", "FAILED", "SUCCEEDED"} :
         run' = end /\ jobRunning' = FALSE
    /\ UNCHANGED <<scanning, bound, job, safe, contract, chosen, approved, requests>>

cancel_production_job ==
    /\ Requested /\ run # "NONE"
    /\ run' = "CANCELLED" /\ jobRunning' = FALSE
    /\ UNCHANGED <<scanning, bound, job, safe, contract, chosen, approved>>

(* Refused while some job of the site is running, by the job's status.        *)
delete_control_site ==
    /\ Requested /\ ~ jobRunning
    /\ ForgetSite
    /\ UNCHANGED <<job, safe, run, contract, chosen, approved>>

(***************************************************************************)
(* Specification.                                                          *)
(***************************************************************************)
Next ==
    \/ ScanStep /\ UNCHANGED drafting
    \/ Restart /\ UNCHANGED drafting
    \/ ResumeScan
    \/ Scan \/ ScanWithoutJob
    \/ AddCategories \/ ModifyTarget \/ Decide
    \/ approve_job \/ SwitchProvider
    \/ start_production_job \/ resume_production_job \/ cancel_production_job
    \/ Launch \/ RunEnds
    \/ delete_control_site

Spec == Init /\ [][Next]_vars

(***************************************************************************)
(* Properties.                                                             *)
(***************************************************************************)

(* A contract that permits paid calls names the provider the operator has     *)
(* approved since choosing it, and the limit of that approval, whatever was   *)
(* edited while the run was queued or between two launches.                   *)
PaidContractIsApproved ==
    [][contract' # contract /\ contract'.paid =>
         approved = [provider |-> contract'.provider, limit |-> contract'.limit]]_vars

(* A job still bound to the snapshot its categories were chosen from is        *)
(* launched with exactly these categories, after other scans of the site and  *)
(* after the site was deleted.                                                *)
ContractKeepsSelection ==
    [][contract' # contract /\ contract'.snapshot = chosen.snapshot /\ chosen.snapshot # 0
         => contract'.categories = chosen.categories]_vars

(* Once a contract names a profile of the site, every later one names it.      *)
FrozenProfileKept ==
    [][contract.profile # 0 => contract'.profile = contract.profile]_vars

(* site_scan_runtime.py:387-389: "A running/paused Job must continue to use    *)
(* the taxonomy it selected even after a later rescan."                        *)
LaunchedJobKeepsTaxonomy ==
    [][contract.snapshot # 0 /\ chosen.snapshot = contract.snapshot /\ chosen' = chosen
         => contract'.snapshot = contract.snapshot]_vars

=============================================================================
