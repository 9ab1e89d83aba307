------------------------- MODULE JobDraftingProofs -------------------------
(***************************************************************************)
(* What holds of a job and of its site's scans for any number of scans,    *)
(* threads, deaths of the API process and requests of the operator: the    *)
(* current categories are one snapshot's, and a contract is what the       *)
(* operator approved and chose.                                            *)
(***************************************************************************)
EXTENDS JobDrafting, FiniteSetTheorems, TLAPS

Results == [status : ReceiptStatuses \cup {"NONE"}, categories : SUBSET Categories]

Drafted == ProfileStatuses \cup {"SAME"}

Profiles == [version : Nat, status : Drafted]

Threads ==
    [at : {"idle", "analyze", "browser", "persist", "leave"}, seen : Profiles, receipt : Results,
     drafted : Drafted, drifted : BOOLEAN, found : BOOLEAN]

Safeties ==
    {"NOT_CHECKED", "NOT_APPLICABLE_PROVIDER_OFF", "PRODUCTION_READY", "PRODUCTION_BLOCKED"}

ThreadsTyped == thread \in [Scans -> Threads] /\ profile \in Profiles

StoredTyped ==
    /\ snapshots \in Seq(Results) /\ rows \in [Categories -> Nat]
    /\ forgotten \in Nat /\ forgotten <= Len(snapshots)
    /\ bound \in Nat /\ bound <= Len(snapshots)

JobTyped ==
    /\ job \in [provider : Providers, safety : Safeties, limit : Nat, target : Nat,
                categories : SUBSET Categories, profile : Nat]
    /\ chosen \in [snapshot : Nat, categories : SUBSET Categories]
    /\ chosen.snapshot <= Len(snapshots)

(* What is ready is what was approved: no switch of the provider in between. *)
ReadyIsApproved ==
    job.provider # "OFF" /\ job.safety = "PRODUCTION_READY"
      => approved = [provider |-> job.provider, limit |-> job.limit]

(* While the job is bound to the snapshot of the selection, its categories   *)
(* are the selected ones and the snapshot has all of them.                   *)
SelectionStands ==
    chosen.snapshot # 0 /\ bound = chosen.snapshot =>
      /\ job.categories = chosen.categories
      /\ chosen.categories \subseteq snapshots[bound].categories

ProfileFrozen == contract.profile # 0 => job.profile = contract.profile

IInv ==
    /\ ThreadsTyped /\ StoredTyped /\ JobTyped
    /\ CurrentRowsAreOneSnapshot
    /\ ReadyIsApproved /\ SelectionStands /\ ProfileFrozen

-----------------------------------------------------------------------------
LEMMA IdleTyped == Idle \in Threads /\ NoProfile \in Profiles
<1>1. NoProfile \in Profiles
  BY DEF NoProfile, Profiles, Drafted, ProfileStatuses
<1>2. [status |-> "NONE", categories |-> {}] \in Results
  BY DEF Results
<1>3. QED
  BY <1>1, <1>2 DEF Idle, Threads, Drafted, ProfileStatuses

LEMMA InitIInv == Init => IInv
<1> SUFFICES ASSUME Init PROVE IInv
  OBVIOUS
<1> USE DEF Init, ScanInit
<1>1. ThreadsTyped
  BY IdleTyped DEF ThreadsTyped
<1>2. StoredTyped
  BY DEF StoredTyped
<1>3. JobTyped
  <2>1. job \in [provider : Providers, safety : Safeties, limit : Nat, target : Nat,
                 categories : SUBSET Categories, profile : Nat]
    <3>1. /\ job = [provider |-> job.provider, safety |-> job.safety, limit |-> job.limit,
                    target |-> job.target, categories |-> job.categories, profile |-> job.profile]
          /\ job.provider \in Providers /\ job.safety = "NOT_CHECKED" /\ job.limit = 0
          /\ job.target \in Targets /\ job.categories \in FormScopes /\ job.profile = 0
      OBVIOUS
    <3>2. job.target \in Nat /\ job.categories \in SUBSET Categories
      BY <3>1, DraftingAssumption
    <3>3. QED
      BY <3>1, <3>2 DEF Safeties
  <2>2. QED
    BY <2>1 DEF JobTyped
<1>4. CurrentRowsAreOneSnapshot
  BY DEF CurrentRowsAreOneSnapshot
<1>5. ReadyIsApproved /\ SelectionStands /\ ProfileFrozen
  BY DEF ReadyIsApproved, SelectionStands, ProfileFrozen, NoContract
<1>6. QED
  BY <1>1, <1>2, <1>3, <1>4, <1>5 DEF IInv

(* A step that writes no result.                                             *)
LEMMA NothingStoredKeeps ==
    ASSUME IInv, ThreadsTyped', UNCHANGED <<snapshots, rows, forgotten, bound, drafting>>
    PROVE  IInv'
BY DEF IInv, StoredTyped, JobTyped, CurrentRowsAreOneSnapshot, ReadyIsApproved,
       SelectionStands, ProfileFrozen, drafting

(* A request or a launch, which leaves the scans and what they stored alone.  *)
LEMMA NothingScannedKeeps ==
    ASSUME IInv, UNCHANGED scanning, bound' \in Nat, bound' <= Len(snapshots), JobTyped',
           ReadyIsApproved', SelectionStands', ProfileFrozen'
    PROVE  IInv'
BY DEF IInv, ThreadsTyped, StoredTyped, CurrentRowsAreOneSnapshot, scanning

LEMMA BeginKeeps ==
    ASSUME IInv, Begin, UNCHANGED drafting
    PROVE  IInv'
<1>1. ThreadsTyped'
  <2> DEFINE s == Head(queue)
  <2>1. CASE Done(s) /\ UNCHANGED profile
    BY <2>1, IdleTyped DEF Done, IInv, ThreadsTyped, Threads
  <2>2. CASE /\ thread' = [thread EXCEPT ![s].at = "analyze", ![s].seen = profile]
             /\ UNCHANGED profile
    BY <2>2 DEF IInv, ThreadsTyped, Threads
  <2>3. QED
    BY <2>1, <2>2 DEF Begin
<1>2. QED
  BY <1>1, NothingStoredKeeps DEF Begin, jobRow

(* The receipts and drafts that a thread carries to _persist.                *)
LEMMA AnsweredTyped ==
    ASSUME IInv, NEW s \in Scans, NEW receipt \in Receipts, NEW draft,
           draft.status \in Drafted, draft.drifted \in BOOLEAN,
           Answered(s, receipt, draft), UNCHANGED profile
    PROVE  ThreadsTyped'
<1>1. receipt \in Results
  BY DEF Receipts, Results
<1>2. QED
  <2>1. thread' = [thread EXCEPT ![s] = [thread[s] EXCEPT
                     !.at = "persist", !.receipt = receipt, !.drafted = draft.status,
                     !.drifted = draft.drifted,
                     !.found = receipt.categories # {} /\ rows[First(receipt.categories)] # 0]]
    BY DEF Answered
  <2>2. (receipt.categories # {} /\ rows[First(receipt.categories)] # 0) \in BOOLEAN
    OBVIOUS
  <2>3. thread[s] \in Threads
    BY DEF IInv, ThreadsTyped
  <2>4. thread'[s] \in Threads
    BY <1>1, <2>1, <2>2, <2>3 DEF Threads, IInv, ThreadsTyped
  <2>5. QED
    BY <2>1, <2>4 DEF IInv, ThreadsTyped

LEMMA DraftsTyped ==
    ASSUME IInv, NEW s \in Scans, NEW receipt, NEW draft \in ProfileDrafts(receipt, thread[s].seen)
    PROVE  draft.status \in Drafted /\ draft.drifted \in BOOLEAN
BY DEF ProfileDrafts, Drafted

LEMMA AnalyzeKeeps ==
    ASSUME IInv, NEW s \in Scans, Analyze(s), UNCHANGED drafting
    PROVE  IInv'
<1>1. PICK receipt \in L1Answers :
        \/ thread' = [thread EXCEPT ![s].at = "browser"]
        \/ \E draft \in ProfileDrafts(receipt, thread[s].seen) : Answered(s, receipt, draft)
  BY DEF Analyze
<1>2. receipt \in Receipts
  BY ScanAssumption DEF L1Receipts
<1>3. ThreadsTyped'
  <2>1. CASE thread' = [thread EXCEPT ![s].at = "browser"]
    BY <2>1 DEF Analyze, IInv, ThreadsTyped, Threads
  <2>2. ASSUME NEW draft \in ProfileDrafts(receipt, thread[s].seen), Answered(s, receipt, draft)
        PROVE  ThreadsTyped'
    BY <1>2, <2>2, DraftsTyped, AnsweredTyped DEF Analyze
  <2>3. QED
    BY <1>1, <2>1, <2>2
<1>4. QED
  BY <1>3, NothingStoredKeeps DEF Analyze, jobRow

LEMMA AnalyzeBrowserKeeps ==
    ASSUME IInv, NEW s \in Scans, AnalyzeBrowser(s), UNCHANGED drafting
    PROVE  IInv'
<1>1. PICK receipt \in L2Answers :
        Answered(s, receipt,
                 [status  |-> IF receipt.status \in {"READY", "PARTIAL", "BRAIN_NOT_CONFIGURED"}
                                THEN "DRAFT" ELSE "BLOCKED",
                  drifted |-> FALSE])
  BY DEF AnalyzeBrowser
<1>2. receipt \in Receipts
  BY ScanAssumption DEF L2Receipts
<1>3. ThreadsTyped'
  BY <1>1, <1>2, AnsweredTyped DEF AnalyzeBrowser, Drafted, ProfileStatuses
<1>4. QED
  BY <1>3, NothingStoredKeeps DEF AnalyzeBrowser, jobRow

(* A thread that ends without a result.                                      *)
LEMMA DoneTyped ==
    ASSUME IInv, NEW s, Done(s) \/ thread' = [thread EXCEPT ![s] = Idle], UNCHANGED profile
    PROVE  ThreadsTyped'
<1>1. [Idle EXCEPT !.at = "leave"] \in Threads
  BY IdleTyped DEF Threads
<1>2. QED
  BY <1>1, IdleTyped DEF Done, IInv, ThreadsTyped

LEMMA EndsWithoutResultKeeps ==
    ASSUME IInv, NEW s \in Scans, UNCHANGED drafting,
           Raise(s) \/ PersistFails(s) \/ PersistNothing(s) \/ Leave(s)
    PROVE  IInv'
<1>1. ThreadsTyped'
  BY DoneTyped DEF Raise, PersistFails, PersistNothing, Leave
<1>2. QED
  BY <1>1, NothingStoredKeeps DEF Raise, PersistFails, PersistNothing, Leave, jobRow

LEMMA PersistKeeps ==
    ASSUME IInv, NEW s \in Scans, Persist(s), UNCHANGED drafting
    PROVE  IInv'
<1> DEFINE receipt == thread[s].receipt
           id == Len(snapshots) + 1
<1>1. thread[s] \in Threads /\ receipt \in Results /\ id \in Nat
  BY DEF IInv, ThreadsTyped, StoredTyped, Threads
<1>2. /\ snapshots' = Append(snapshots, receipt)
      /\ rows' = RowsAfter(receipt.categories, id)
      /\ bound' = id \/ bound' = bound
      /\ UNCHANGED forgotten
  BY DEF Persist, _persist, jobRow
<1>3. /\ Len(snapshots') = id /\ snapshots'[id] = receipt /\ snapshots' \in Seq(Results)
      /\ \A i \in 1..Len(snapshots) : snapshots'[i] = snapshots[i]
  BY <1>1, <1>2 DEF IInv, StoredTyped
<1>4. ThreadsTyped'
  <2>1. Done(s)
    BY DEF Persist
  <2>2. incoming_status(s) \in Drafted
    BY <1>1 DEF incoming_status, Threads, Drafted, ProfileStatuses
  <2>3. thread[s].seen.version \in Nat
    BY <1>1 DEF Threads, Profiles
  <2>4. profile' \in Profiles
    BY <1>1, <2>2, <2>3 DEF Persist, _persist, Profiles, IInv, ThreadsTyped
  <2>5. [Idle EXCEPT !.at = "leave"] \in Threads
    BY IdleTyped DEF Threads
  <2>6. QED
    BY <2>1, <2>4, <2>5 DEF Done, IInv, ThreadsTyped
<1>5. StoredTyped'
  <2>1. rows' \in [Categories -> Nat]
    BY <1>1, <1>2 DEF RowsAfter, IInv, StoredTyped
  <2>2. QED
    BY <1>1, <1>2, <1>3, <2>1 DEF IInv, StoredTyped
<1>6. JobTyped'
  BY <1>3 DEF IInv, JobTyped, StoredTyped, drafting
<1>7. CurrentRowsAreOneSnapshot'
  <2>1. CASE receipt.categories = {}
    <3>1. rows' = rows
      BY <1>2, <2>1 DEF RowsAfter
    <3>2. forgotten' + 1 .. Len(snapshots') = (forgotten + 1 .. Len(snapshots)) \cup {id}
      BY <1>2, <1>3 DEF IInv, StoredTyped
    <3>3. QED
      BY <1>2, <1>3, <3>1, <3>2 DEF IInv, StoredTyped, CurrentRowsAreOneSnapshot
  <2>2. CASE receipt.categories # {}
    <3>1. receipt.categories \subseteq Categories
      BY <1>1 DEF Results
    <3>2. rows' = [c \in Categories |-> IF c \in receipt.categories THEN id ELSE 0]
      BY <1>2, <2>2 DEF RowsAfter
    <3>3. {c \in Categories : rows'[c] # 0} = receipt.categories
      BY <1>1, <3>1, <3>2 DEF IInv, StoredTyped
    <3>4. id \in forgotten' + 1 .. Len(snapshots')
      BY <1>2, <1>3 DEF IInv, StoredTyped
    <3>5. QED
      BY <1>3, <3>1, <3>2, <3>3, <3>4 DEF CurrentRowsAreOneSnapshot
  <2>3. QED
    BY <2>1, <2>2
<1>8. SelectionStands'
  <2>1. SUFFICES ASSUME chosen.snapshot # 0, bound' = chosen.snapshot
                 PROVE  /\ job.categories = chosen.categories
                        /\ chosen.categories \subseteq snapshots'[bound'].categories
    BY DEF SelectionStands, drafting
  <2>2. bound' = bound /\ bound \in 1..Len(snapshots)
    BY <1>2, <2>1 DEF IInv, StoredTyped, JobTyped
  <2>3. QED
    BY <1>3, <2>1, <2>2 DEF IInv, SelectionStands
<1>9. ReadyIsApproved' /\ ProfileFrozen'
  BY DEF IInv, ReadyIsApproved, ProfileFrozen, drafting
<1>10. QED
  BY <1>4, <1>5, <1>6, <1>7, <1>8, <1>9 DEF IInv

LEMMA ScanStepKeeps ==
    ASSUME IInv, ScanStep, UNCHANGED drafting
    PROVE  IInv'
BY BeginKeeps, AnalyzeKeeps, AnalyzeBrowserKeeps, EndsWithoutResultKeeps, PersistKeeps
   DEF ScanStep, ThreadStep

LEMMA RestartKeeps ==
    ASSUME IInv, Restart, UNCHANGED drafting
    PROVE  IInv'
<1>1. ThreadsTyped'
  BY IdleTyped DEF Restart, IInv, ThreadsTyped
<1>2. QED
  BY <1>1, NothingStoredKeeps DEF Restart, jobRow

(* The routes that start, resume or forget scans.                            *)
LEMMA ScanRequestKeeps ==
    ASSUME IInv, Scan \/ ScanWithoutJob \/ ResumeScan
    PROVE  IInv'
<1>1. /\ UNCHANGED <<thread, rows, snapshots, forgotten, profile, bound>>
      /\ UNCHANGED <<job, contract, chosen, approved>>
  BY DEF Scan, ScanWithoutJob, ResumeScan, start, resume, drafting, jobRow
<1>2. QED
  BY <1>1 DEF IInv, ThreadsTyped, StoredTyped, JobTyped, CurrentRowsAreOneSnapshot,
              ReadyIsApproved, SelectionStands, ProfileFrozen

LEMMA DeleteSiteKeeps ==
    ASSUME IInv, delete_control_site
    PROVE  IInv'
<1>1. /\ rows' = [c \in Categories |-> 0] /\ forgotten' = Len(snapshots) /\ profile' = NoProfile
      /\ UNCHANGED <<thread, snapshots, bound, job, contract, chosen, approved>>
  BY DEF delete_control_site, ForgetSite, jobRow
<1>2. ThreadsTyped' /\ StoredTyped'
  BY <1>1, IdleTyped DEF IInv, ThreadsTyped, StoredTyped
<1>3. CurrentRowsAreOneSnapshot'
  BY <1>1 DEF CurrentRowsAreOneSnapshot
<1>4. QED
  BY <1>1, <1>2, <1>3 DEF IInv, JobTyped, ReadyIsApproved, SelectionStands, ProfileFrozen

LEMMA AddCategoriesKeeps ==
    ASSUME IInv, AddCategories
    PROVE  IInv'
<1>1. PICK ids \in SUBSET _taxonomy_read_model :
        /\ Compacted(ids) # {}
        /\ job' = [job EXCEPT !.categories = Compacted(ids)]
        /\ bound' = IF current_snapshot # 0 THEN current_snapshot ELSE bound
        /\ chosen' = [snapshot |-> bound', categories |-> Compacted(ids)]
  BY DEF AddCategories
<1>2. UNCHANGED <<scanning, contract, approved>>
  BY DEF AddCategories
<1>3. \A c \in _taxonomy_read_model :
        c \in Categories /\ rows[c] # 0 /\ current_snapshot \in {0, rows[c]}
  BY DEF _taxonomy_read_model
<1>4. Compacted(ids) \subseteq ids /\ ids \subseteq Categories
  BY <1>3 DEF Compacted
(* A row that is shown is of the current snapshot: there is one.             *)
<1>5. \A c \in ids : /\ current_snapshot \in forgotten + 1 .. Len(snapshots)
                     /\ c \in snapshots[current_snapshot].categories
  <2>1. SUFFICES ASSUME NEW c \in ids
                 PROVE  /\ current_snapshot \in forgotten + 1 .. Len(snapshots)
                        /\ c \in snapshots[current_snapshot].categories
    OBVIOUS
  <2>2. c \in Categories /\ rows[c] # 0 /\ current_snapshot \in {0, rows[c]}
    BY <1>3
  <2>3. PICK id \in forgotten + 1 .. Len(snapshots) :
          snapshots[id].categories = {d \in Categories : rows[d] # 0} /\ rows[c] = id
    BY <2>2 DEF IInv, CurrentRowsAreOneSnapshot
  <2>4. current_snapshot # 0
    BY <2>3 DEF current_snapshot, IInv, StoredTyped
  <2>5. QED
    BY <2>2, <2>3, <2>4
<1>6. bound' \in Nat /\ bound' <= Len(snapshots)
  BY <1>1 DEF current_snapshot, IInv, StoredTyped
<1>7. SelectionStands'
  <2>1. bound' = current_snapshot
    BY <1>1, <1>4, <1>5 DEF IInv, StoredTyped
  <2>2. Compacted(ids) \subseteq snapshots[bound'].categories
    BY <1>4, <1>5, <2>1
  <2>3. QED
    BY <1>1, <1>2, <2>2 DEF SelectionStands, IInv, JobTyped, scanning
<1>8. JobTyped'
  BY <1>1, <1>2, <1>4, <1>6 DEF IInv, JobTyped, scanning
<1>9. ReadyIsApproved' /\ ProfileFrozen'
  BY <1>1, <1>2 DEF IInv, JobTyped, ReadyIsApproved, ProfileFrozen
<1>10. QED
  BY <1>2, <1>6, <1>7, <1>8, <1>9, NothingScannedKeeps

(* Requests that leave categories and snapshot alone.                        *)
LEMMA JobKeeps ==
    ASSUME IInv, UNCHANGED <<scanning, bound, contract, chosen>>, JobTyped',
           job'.categories = job.categories, job'.profile = job.profile, ReadyIsApproved'
    PROVE  IInv'
<1>1. SelectionStands' /\ ProfileFrozen'
  BY DEF IInv, SelectionStands, ProfileFrozen, scanning
<1>2. bound' \in Nat /\ bound' <= Len(snapshots)
  BY DEF IInv, StoredTyped
<1>3. QED
  BY <1>1, <1>2, NothingScannedKeeps

LEMMA EditKeeps ==
    ASSUME IInv, ModifyTarget \/ Decide \/ RunEnds \/ cancel_production_job
    PROVE  IInv'
<1>1. CASE ModifyTarget
  <2>1. PICK n \in Targets : job' = [job EXCEPT !.target = n]
    BY <1>1 DEF ModifyTarget
  <2>2. n \in Nat
    BY DraftingAssumption
  <2>3. QED
    BY <1>1, <2>1, <2>2, JobKeeps
       DEF ModifyTarget, IInv, JobTyped, ReadyIsApproved, scanning
<1>2. CASE Decide \/ RunEnds \/ cancel_production_job
  BY <1>2, JobKeeps
     DEF Decide, RunEnds, cancel_production_job, IInv, JobTyped, ReadyIsApproved, scanning
<1>3. QED
  BY <1>1, <1>2

LEMMA ApproveKeeps ==
    ASSUME IInv, approve_job
    PROVE  IInv'
<1>1. UNCHANGED <<scanning, bound, contract, chosen>>
  BY DEF approve_job
<1>2. CASE job.provider = "OFF"
  <2>1. job' = [job EXCEPT !.safety = "NOT_APPLICABLE_PROVIDER_OFF", !.limit = 0]
    BY <1>2 DEF approve_job
  <2>2. QED
    BY <1>1, <2>1, JobKeeps DEF IInv, JobTyped, Safeties, ReadyIsApproved, scanning
<1>3. CASE job.provider # "OFF"
  <2>1. PICK limit \in Nat, safety \in {"PRODUCTION_READY", "PRODUCTION_BLOCKED"} :
          /\ job' = [job EXCEPT !.safety = safety, !.limit = limit]
          /\ approved' = [provider |-> job.provider, limit |-> limit]
    <3>1. job.target \in Nat /\ Limits \subseteq Nat
      BY DraftingAssumption DEF IInv, JobTyped
    <3>2. QED
      BY <1>3, <3>1 DEF approve_job, _default_provider_call_limit
  <2>2. QED
    BY <1>1, <2>1, JobKeeps DEF IInv, JobTyped, Safeties, ReadyIsApproved, scanning
<1>4. QED
  BY <1>2, <1>3

LEMMA SwitchKeeps ==
    ASSUME IInv, SwitchProvider
    PROVE  IInv'
<1>1. PICK provider \in Providers : job' = [job EXCEPT !.provider = provider, !.safety = "NOT_CHECKED"]
  BY DEF SwitchProvider, Switched
<1>2. QED
  BY <1>1, JobKeeps DEF SwitchProvider, IInv, JobTyped, Safeties, ReadyIsApproved, scanning

(* A launch freezes the profile; a queued run does not.                      *)
LEMMA LaunchKeeps ==
    ASSUME IInv, NEW safety \in Safeties,
           safety = "PRODUCTION_READY" => safety = job.safety,
           \/ _contract /\ job' = [[job EXCEPT !.safety = safety] EXCEPT !.profile = FrozenProfile]
           \/ job' = [job EXCEPT !.safety = safety] /\ UNCHANGED contract,
           UNCHANGED <<scanning, bound, chosen, approved>>
    PROVE  IInv'
<1>1. FrozenProfile \in Nat
  BY DEF FrozenProfile, IInv, JobTyped, ThreadsTyped, Profiles
<1>2. JobTyped'
  BY <1>1 DEF IInv, JobTyped, scanning
<1>3. ReadyIsApproved'
  BY DEF IInv, JobTyped, ReadyIsApproved
<1>4. SelectionStands'
  BY DEF IInv, JobTyped, SelectionStands, scanning
<1>5. ProfileFrozen'
  <2>1. CASE _contract /\ job' = [[job EXCEPT !.safety = safety] EXCEPT !.profile = FrozenProfile]
    <3>1. contract'.profile = FrozenProfile
      BY <2>1 DEF _contract
    <3>2. job'.profile = FrozenProfile
      BY <2>1 DEF IInv, JobTyped
    <3>3. QED
      BY <3>1, <3>2 DEF ProfileFrozen
  <2>2. CASE job' = [job EXCEPT !.safety = safety] /\ UNCHANGED contract
    BY <2>2 DEF IInv, JobTyped, ProfileFrozen
  <2>3. QED
    BY <2>1, <2>2
<1>6. bound' \in Nat /\ bound' <= Len(snapshots)
  BY DEF IInv, StoredTyped
<1>7. QED
  BY <1>2, <1>3, <1>4, <1>5, <1>6, NothingScannedKeeps

LEMMA ProductionKeeps ==
    ASSUME IInv, start_production_job \/ resume_production_job \/ Launch
    PROVE  IInv'
<1>1. job.safety \in Safeties
  BY DEF IInv, JobTyped
<1>2. job = [job EXCEPT !.safety = job.safety]
  BY DEF IInv, JobTyped
<1>3. ASSUME LaunchOrQueue(job) \/ (_contract /\ job' = [job EXCEPT !.profile = FrozenProfile]),
             UNCHANGED <<scanning, bound, chosen, approved>>
      PROVE  IInv'
  BY <1>1, <1>2, <1>3, LaunchKeeps DEF LaunchOrQueue
<1>4. CASE start_production_job
  <2>1. CASE job.provider = "OFF"
    <3>1. LaunchOrQueue([job EXCEPT !.safety = "NOT_APPLICABLE_PROVIDER_OFF"])
      BY <1>4, <2>1 DEF start_production_job
    <3>2. QED
      BY <1>4, <3>1, LaunchKeeps DEF start_production_job, LaunchOrQueue, Safeties
  <2>2. CASE job.provider # "OFF"
    BY <1>3, <1>4, <2>2 DEF start_production_job
  <2>3. QED
    BY <2>1, <2>2
<1>5. CASE resume_production_job \/ Launch
  BY <1>3, <1>5 DEF resume_production_job, Launch
<1>6. QED
  BY <1>4, <1>5

LEMMA NextIInv == IInv /\ [Next]_vars => IInv'
<1> SUFFICES ASSUME IInv, [Next]_vars PROVE IInv'
  OBVIOUS
<1>1. CASE ScanStep /\ UNCHANGED drafting
  BY <1>1, ScanStepKeeps
<1>2. CASE Restart /\ UNCHANGED drafting
  BY <1>2, RestartKeeps
<1>3. CASE Scan \/ ScanWithoutJob \/ ResumeScan
  BY <1>3, ScanRequestKeeps
<1>4. CASE AddCategories
  BY <1>4, AddCategoriesKeeps
<1>5. CASE ModifyTarget \/ Decide \/ RunEnds \/ cancel_production_job
  BY <1>5, EditKeeps
<1>6. CASE approve_job
  BY <1>6, ApproveKeeps
<1>7. CASE SwitchProvider
  BY <1>7, SwitchKeeps
<1>8. CASE start_production_job \/ resume_production_job \/ Launch
  BY <1>8, ProductionKeeps
<1>9. CASE delete_control_site
  BY <1>9, DeleteSiteKeeps
<1>10. CASE UNCHANGED vars
  BY <1>10 DEF vars, scanVars, scanning, jobRow, drafting, IInv, ThreadsTyped, StoredTyped,
               JobTyped, CurrentRowsAreOneSnapshot, ReadyIsApproved, SelectionStands, ProfileFrozen
<1>11. QED
  BY <1>1, <1>2, <1>3, <1>4, <1>5, <1>6, <1>7, <1>8, <1>9, <1>10 DEF Next

-----------------------------------------------------------------------------
(* The inductive invariant of scans and drafting: what is stored is typed    *)
(* and one snapshot's, what is ready was approved, what was chosen stands.    *)
THEOREM DraftingInvariant == Spec => []IInv
BY InitIInv, NextIInv, PTL DEF Spec

(* Whatever scans end in whatever order, the site's current categories are    *)
(* those of one snapshot (_persist).                                         *)
THEOREM RowsAreOneSnapshot == Spec => []CurrentRowsAreOneSnapshot
<1>1. IInv => CurrentRowsAreOneSnapshot
  BY DEF IInv
<1>2. QED
  BY <1>1, DraftingInvariant, PTL

(* A step that writes a contract is a launch, and leaves scans and the history *)
(* alone.                                                                     *)
LEMMA ContractsAreLaunched ==
    ASSUME [Next]_vars, contract' # contract
    PROVE  /\ _contract /\ UNCHANGED <<bound, snapshots, chosen, approved>>
           /\ start_production_job \/ resume_production_job \/ Launch
<1>1. start_production_job \/ resume_production_job \/ Launch
  BY DEF Next, vars, drafting, ResumeScan, Scan, ScanWithoutJob, AddCategories, ModifyTarget,
         Decide, approve_job, SwitchProvider, cancel_production_job, RunEnds, delete_control_site
<1>2. QED
  BY <1>1 DEF start_production_job, resume_production_job, Launch, LaunchOrQueue, scanning

(* No contract lets a worker pay that the operator has not approved, for this  *)
(* provider and with this limit, since the provider was chosen (approve_job,   *)
(* the edit route and _contract together).                                    *)
THEOREM PaidIsApproved == Spec => PaidContractIsApproved
<1>1. IInv /\ [Next]_vars => [contract' # contract /\ contract'.paid =>
         approved = [provider |-> contract'.provider, limit |-> contract'.limit]]_vars
  <2> SUFFICES ASSUME IInv, [Next]_vars, contract' # contract, contract'.paid
               PROVE  approved = [provider |-> contract'.provider, limit |-> contract'.limit]
    OBVIOUS
  <2>1. _contract
    BY ContractsAreLaunched
  <2>2. /\ contract'.provider = job.provider /\ contract'.limit = job.limit
        /\ job.provider # "OFF" /\ job.safety = "PRODUCTION_READY"
    BY <2>1 DEF _contract
  <2>3. QED
    BY <2>2 DEF IInv, ReadyIsApproved
<1>2. QED
  BY <1>1, DraftingInvariant, PTL DEF Spec, PaidContractIsApproved

(* The contract of a job bound to its selection has the selected categories:   *)
(* the frozen rows of the snapshot hold them all, whatever became of the       *)
(* current rows (_contract, site_category_snapshots).                         *)
THEOREM SelectionIsKept == Spec => ContractKeepsSelection
<1>1. IInv /\ [Next]_vars =>
        [contract' # contract /\ contract'.snapshot = chosen.snapshot /\ chosen.snapshot # 0
           => contract'.categories = chosen.categories]_vars
  <2> SUFFICES ASSUME IInv, [Next]_vars, contract' # contract,
                      contract'.snapshot = chosen.snapshot, chosen.snapshot # 0
               PROVE  contract'.categories = chosen.categories
    OBVIOUS
  <2>1. _contract
    BY ContractsAreLaunched
  <2>2. contract'.snapshot = bound /\ contract'.categories = ScopeRows
    BY <2>1 DEF _contract
  <2>3. ScopeRows = job.categories \cap snapshots[bound].categories
    BY <2>2 DEF ScopeRows
  <2>4. QED
    BY <2>2, <2>3 DEF IInv, SelectionStands
<1>2. QED
  BY <1>1, DraftingInvariant, PTL DEF Spec, ContractKeepsSelection

(* The profile a job was first launched with is the profile of every later     *)
(* launch (policy.frozen_site_profile).                                       *)
THEOREM ProfileIsKept == Spec => FrozenProfileKept
<1>1. IInv /\ [Next]_vars => [contract.profile # 0 => contract'.profile = contract.profile]_vars
  <2> SUFFICES ASSUME IInv, [Next]_vars, contract.profile # 0
               PROVE  contract'.profile = contract.profile
    OBVIOUS
  <2>1. CASE contract' # contract
    <3>1. _contract
      BY <2>1, ContractsAreLaunched
    <3>2. contract'.profile = FrozenProfile
      BY <3>1 DEF _contract
    <3>3. QED
      BY <3>2 DEF FrozenProfile, IInv, ProfileFrozen
  <2>2. CASE contract' = contract
    BY <2>2
  <2>3. QED
    BY <2>1, <2>2
<1>2. QED
  BY <1>1, DraftingInvariant, PTL DEF Spec, FrozenProfileKept

-----------------------------------------------------------------------------
(***************************************************************************)
(* The site's profile, which scans that began before it was written may    *)
(* not overwrite.                                                          *)
(***************************************************************************)
ScansTyped ==
    scan \in [Scans -> [status : ReceiptStatuses \cup ACTIVE \cup {"NONE", "GONE"},
                        resume_count : Nat, job : BOOLEAN]]

Analyzing(s) == thread[s].at \in {"analyze", "browser", "persist"}

(* A scan is only analyzed once it was started, and one started since the    *)
(* profile was last written has seen that very profile.                      *)
SeenIsCurrent ==
    \A s \in Scans : Analyzing(s) =>
       /\ scan[s].status # "NONE"
       /\ s \in Known \ older /\ profile.status # "NONE" => thread[s].seen.version = profile.version

OInv == ScansTyped /\ SeenIsCurrent

LEMMA InitOInv == Init => OInv
BY DEF Init, ScanInit, OInv, ScansTyped, SeenIsCurrent, Analyzing, NoScan, Idle, ReceiptStatuses

(* Threads only go on with what they saw; no scan comes back or is written to. *)
LEMMA NothingSeenKeeps ==
    ASSUME OInv, ScansTyped', UNCHANGED <<profile, older>>,
           \A s \in Scans : Analyzing(s)' =>
              /\ Analyzing(s) /\ thread'[s].seen = thread[s].seen
              /\ scan[s].status # "NONE" => scan'[s].status # "NONE"
              /\ s \in Known' => s \in Known
    PROVE  OInv'
BY DEF OInv, SeenIsCurrent

(* A thread that has answered goes on with what it saw when it began; one     *)
(* that ends is analyzing no more.                                           *)
LEMMA ThreadsGoOn ==
    ASSUME IInv, NEW s \in Scans,
           Analyze(s) \/ AnalyzeBrowser(s) \/ Raise(s) \/ PersistFails(s) \/ PersistNothing(s) \/ Leave(s)
    PROVE  /\ UNCHANGED <<profile, older>>
           /\ \A t \in Scans : Analyzing(t)' => Analyzing(t) /\ thread'[t].seen = thread[t].seen
<1>1. UNCHANGED <<profile, older>>
  BY DEF Analyze, AnalyzeBrowser, Raise, PersistFails, PersistNothing, Leave
<1>2. thread \in [Scans -> Threads]
  BY DEF IInv, ThreadsTyped
<1>3. CASE thread[s].at \in {"analyze", "browser"} /\ thread'[s].seen = thread[s].seen
           /\ \A t \in Scans \ {s} : thread'[t] = thread[t]
  BY <1>1, <1>3 DEF Analyzing
<1>4. ASSUME NEW receipt, NEW draft, Answered(s, receipt, draft)
      PROVE  thread'[s].seen = thread[s].seen /\ \A t \in Scans \ {s} : thread'[t] = thread[t]
  BY <1>2, <1>4 DEF Answered, Threads
<1>5. CASE Raise(s) \/ PersistFails(s) \/ PersistNothing(s) \/ Leave(s)
  <2>1. Done(s) \/ thread' = [thread EXCEPT ![s] = Idle]
    BY <1>5 DEF Raise, PersistFails, PersistNothing, Leave
  <2>2. QED
    BY <1>1, <1>2, <2>1 DEF Done, Idle, Analyzing
<1>6. CASE Analyze(s)
  <2>1. CASE thread' = [thread EXCEPT ![s].at = "browser"]
    BY <1>2, <1>3, <1>6, <2>1 DEF Analyze, Threads
  <2>2. CASE thread' # [thread EXCEPT ![s].at = "browser"]
    BY <1>3, <1>4, <1>6, <2>2 DEF Analyze
  <2>3. QED
    BY <2>1, <2>2
<1>7. CASE AnalyzeBrowser(s)
  BY <1>3, <1>4, <1>7 DEF AnalyzeBrowser
<1>8. QED
  BY <1>5, <1>6, <1>7

(* Only a scan that is there is written to.                                  *)
LEMMA ScansGoOn ==
    ASSUME OInv, NEW s \in Scans,
           Analyze(s) \/ AnalyzeBrowser(s) \/ Raise(s) \/ PersistFails(s) \/ PersistNothing(s) \/ Leave(s)
    PROVE  /\ ScansTyped'
           /\ \A t \in Scans : /\ scan[t].status # "NONE" => scan'[t].status # "NONE"
                               /\ t \in Known' => t \in Known
<1>1. \/ scan' = scan
      \/ s \in Known /\ \E st \in {"L2_BROWSER", "FAILED"} : scan' = [scan EXCEPT ![s].status = st]
  BY DEF Analyze, AnalyzeBrowser, Raise, PersistFails, PersistNothing, Leave
<1>2. QED
  BY <1>1 DEF OInv, ScansTyped, Known, ACTIVE, ReceiptStatuses, Ended

LEMMA BeginSees ==
    ASSUME IInv, OInv, Begin
    PROVE  OInv'
<1> DEFINE s == Head(queue)
<1>1. UNCHANGED <<profile, older>> /\ thread \in [Scans -> Threads]
  BY DEF Begin, IInv, ThreadsTyped
<1>2. CASE Done(s) /\ UNCHANGED scan
  BY <1>1, <1>2 DEF Done, Idle, OInv, ScansTyped, SeenIsCurrent, Analyzing, Known
<1>3. CASE /\ s \in Known
           /\ scan' = [scan EXCEPT ![s].status = "ANALYZING", ![s].resume_count = @ + 1]
           /\ thread' = [thread EXCEPT ![s].at = "analyze", ![s].seen = profile]
  <2>1. s \in Scans
    BY <1>3 DEF Known
  <2>2. ScansTyped'
    BY <1>3, <2>1 DEF OInv, ScansTyped, ACTIVE
  <2>3. scan'[s].status = "ANALYZING" /\ thread'[s].seen = profile
    BY <1>1, <1>3, <2>1 DEF OInv, ScansTyped, Threads
  <2>4. \A t \in Scans \ {s} : scan'[t] = scan[t] /\ thread'[t] = thread[t]
    BY <1>1, <1>3, <2>1 DEF OInv, ScansTyped
  <2>5. QED
    BY <1>1, <1>3, <2>1, <2>2, <2>3, <2>4 DEF OInv, SeenIsCurrent, Analyzing, Known
<1>4. QED
  BY <1>2, <1>3 DEF Begin

(* A new profile makes every scan that is there an older one.                *)
LEMMA PersistSees ==
    ASSUME IInv, OInv, NEW s \in Scans, Persist(s)
    PROVE  OInv'
<1>1. thread \in [Scans -> Threads] /\ Done(s) /\ s \in Known
  BY DEF IInv, ThreadsTyped, Persist
<1>2. /\ scan' = [scan EXCEPT ![s].status = thread[s].receipt.status]
      /\ UNCHANGED <<profile, older>> \/ older' = Known
  BY DEF Persist, _persist
<1>3. thread[s].receipt.status \in ReceiptStatuses \cup {"NONE"}
  BY <1>1 DEF Threads, Results
<1>4. ScansTyped'
  BY <1>2, <1>3 DEF OInv, ScansTyped
<1>5. \A t \in Scans : t \in Known' => t \in Known
  BY <1>1, <1>2 DEF OInv, ScansTyped, Known
<1>6. \A t \in Scans : Analyzing(t)' => t # s /\ Analyzing(t) /\ thread'[t] = thread[t] /\ scan'[t] = scan[t]
  BY <1>1, <1>2 DEF Done, Idle, Analyzing, OInv, ScansTyped
<1>7. QED
  BY <1>2, <1>4, <1>5, <1>6 DEF OInv, SeenIsCurrent

LEMMA StartSees ==
    ASSUME OInv, start(TRUE) \/ start(FALSE)
    PROVE  OInv'
<1>1. PICK s \in Scans, withJob \in BOOLEAN :
        /\ scan[s].status = "NONE"
        /\ scan' = [scan EXCEPT ![s] = [status |-> "QUEUED", resume_count |-> 0, job |-> withJob]]
  BY DEF start
<1>2. UNCHANGED <<thread, profile, older>>
  BY DEF start
<1>3. ScansTyped'
  BY <1>1 DEF OInv, ScansTyped, ACTIVE
<1>4. \A t \in Scans \ {s} : scan'[t] = scan[t]
  BY <1>1 DEF OInv, ScansTyped
<1>5. ~Analyzing(s) /\ \A t \in Scans \ {s} : t \in Known' <=> t \in Known
  BY <1>1, <1>4 DEF OInv, SeenIsCurrent, Known
<1>6. QED
  BY <1>1, <1>2, <1>3, <1>4, <1>5 DEF OInv, SeenIsCurrent, Analyzing

LEMMA OthersSee ==
    ASSUME IInv, OInv, resume \/ Restart \/ ForgetSite
    PROVE  OInv'
<1>1. CASE resume
  <2>1. PICK s \in Known : scan' = [scan EXCEPT ![s].status = "QUEUED"]
    BY <1>1 DEF resume
  <2>2. QED
    BY <1>1, <2>1 DEF resume, OInv, ScansTyped, SeenIsCurrent, Analyzing, Known, ACTIVE
<1>2. CASE Restart
  <2>1. PICK due \in SUBSET {s \in Known : AutoResumed(s)} :
          scan' = [s \in Scans |-> IF s \in due THEN [scan[s] EXCEPT !.status = "QUEUED"] ELSE scan[s]]
    BY <1>2 DEF Restart
  <2>2. ScansTyped'
    BY <2>1 DEF OInv, ScansTyped, ACTIVE
  <2>3. \A s \in Scans : ~Analyzing(s)'
    BY <1>2 DEF Restart, Analyzing, Idle
  <2>4. QED
    BY <2>2, <2>3 DEF OInv, SeenIsCurrent
<1>3. CASE ForgetSite
  <2>1. scan' = [s \in Scans |-> IF s \in Known THEN [scan[s] EXCEPT !.status = "GONE"] ELSE scan[s]]
    BY <1>3 DEF ForgetSite
  <2>2. ScansTyped' /\ \A s \in Scans : scan[s].status # "NONE" => scan'[s].status # "NONE"
    BY <2>1 DEF OInv, ScansTyped, Known
  <2>3. profile'.status = "NONE" /\ UNCHANGED thread
    BY <1>3 DEF ForgetSite, NoProfile
  <2>4. QED
    BY <2>2, <2>3 DEF OInv, SeenIsCurrent, Analyzing
<1>4. QED
  BY <1>1, <1>2, <1>3

LEMMA NextOInv == IInv /\ OInv /\ [Next]_vars => OInv'
<1> SUFFICES ASSUME IInv, OInv, [Next]_vars PROVE OInv'
  OBVIOUS
<1>1. CASE ScanStep
  <2>1. ASSUME NEW s \in Scans, ThreadStep(s), ~Persist(s) PROVE OInv'
    BY <2>1, ThreadsGoOn, ScansGoOn, NothingSeenKeeps DEF ThreadStep
  <2>2. QED
    BY <1>1, <2>1, BeginSees, PersistSees DEF ScanStep
<1>2. CASE Scan \/ ScanWithoutJob
  BY <1>2, StartSees DEF Scan, ScanWithoutJob
<1>3. CASE Restart \/ ResumeScan \/ delete_control_site
  BY <1>3, OthersSee DEF ResumeScan, delete_control_site
<1>4. CASE UNCHANGED <<thread, scan, profile, older>>
  BY <1>4 DEF OInv, ScansTyped, SeenIsCurrent, Analyzing, Known
<1>5. QED
  BY <1>1, <1>2, <1>3, <1>4
     DEF Next, vars, scanVars, scanning, AddCategories, ModifyTarget, Decide, approve_job,
         SwitchProvider, start_production_job, resume_production_job, cancel_production_job,
         Launch, RunEnds

(* What a scan sees of the profile is what its write is compared with: only a  *)
(* scan that saw the present profile replaces it, and a validated one is       *)
(* replaced by a validated one (the optimistic check of _persist).             *)
THEOREM ProfileIsNotUndone == Spec => NoStaleProfileOverwrite
<1> DEFINE Undone ==
      profile.status # "NONE" /\ profile' # profile /\ site' =>
         /\ \E s \in Scans : /\ thread[s].at = "persist" /\ thread'[s].at = "leave"
                             /\ thread[s].seen.version = profile.version
         /\ profile.status = "VALIDATED" => profile'.status = "VALIDATED"
<1>1. IInv /\ OInv /\ [Next]_vars => [Undone]_scanVars
  <2> SUFFICES ASSUME IInv, OInv, [Next]_vars, profile.status # "NONE", profile' # profile, site'
               PROVE  /\ \E s \in Scans : /\ thread[s].at = "persist" /\ thread'[s].at = "leave"
                                          /\ thread[s].seen.version = profile.version
                      /\ profile.status = "VALIDATED" => profile'.status = "VALIDATED"
    OBVIOUS
  <2>1. PICK s \in Scans : Persist(s)
    BY DEF Next, vars, scanVars, scanning, Scan, ScanWithoutJob, ResumeScan, start, resume,
           AddCategories, ModifyTarget, Decide, approve_job, SwitchProvider,
           start_production_job, resume_production_job, cancel_production_job, Launch, RunEnds,
           delete_control_site, ForgetSite, Restart, ScanStep, ThreadStep, Begin, Analyze,
           AnalyzeBrowser, Raise, PersistFails, PersistNothing, Leave
  <2>2. /\ PersistsProfile(s) /\ profile'.status = incoming_status(s)
        /\ thread[s].at = "persist" /\ s \in Known
    BY <2>1 DEF Persist, _persist
  <2>3. thread'[s].at = "leave"
    BY <2>1 DEF Persist, Done, Idle, IInv, ThreadsTyped
  <2>4. thread[s].seen.version = profile.version
    BY <2>2 DEF PersistsProfile, OInv, SeenIsCurrent, Analyzing
  <2>5. QED
    BY <2>2, <2>3, <2>4 DEF PersistsProfile
<1>2. Spec => []OInv
  BY InitOInv, NextOInv, DraftingInvariant, PTL DEF Spec
<1>3. QED
  BY <1>1, <1>2, DraftingInvariant, PTL DEF Spec, NoStaleProfileOverwrite


-----------------------------------------------------------------------------
(***************************************************************************)
(* What is under way is worked on or waits for a thread.  A scan's rank in *)
(* a set, the number of scans of the set created up to it, numbers them    *)
(* 1, 2, 3, ..., so that a restart queues each of them, and each once.     *)
(***************************************************************************)
UpTo(s, S) == {t \in S : t <= s}

LEMMA ScansFinite ==
    ASSUME NEW S \in SUBSET Scans
    PROVE  IsFiniteSet(S) /\ Cardinality(S) \in Nat
<1>1. IsFiniteSet(Scans)
  BY ScanAssumption, FS_Interval DEF Scans
<1> QED
  BY <1>1, FS_Subset, FS_CardinalityType

LEMMA RankIsInjective ==
    ASSUME NEW S \in SUBSET Scans, NEW s \in S, NEW t \in S, s < t
    PROVE  Cardinality(UpTo(s, S)) < Cardinality(UpTo(t, S))
<1>1. \A r \in S : r \in Nat
  BY ScanAssumption DEF Scans
<1>2. /\ UpTo(s, S) \in SUBSET Scans /\ UpTo(t, S) \in SUBSET Scans
      /\ t \notin UpTo(s, S) /\ UpTo(s, S) \cup {t} \subseteq UpTo(t, S)
  BY <1>1 DEF UpTo
<1>3. /\ IsFiniteSet(UpTo(s, S)) /\ Cardinality(UpTo(s, S)) \in Nat
      /\ IsFiniteSet(UpTo(t, S)) /\ Cardinality(UpTo(t, S)) \in Nat
  BY <1>2, ScansFinite
<1>4. Cardinality(UpTo(s, S) \cup {t}) = Cardinality(UpTo(s, S)) + 1
  BY <1>2, <1>3, FS_AddElement
<1>5. Cardinality(UpTo(s, S) \cup {t}) <= Cardinality(UpTo(t, S))
  BY <1>2, <1>3, FS_Subset
<1> QED
  BY <1>3, <1>4, <1>5

LEMMA RankIsOnto ==
    ASSUME NEW S \in SUBSET Scans
    PROVE  /\ Cardinality(S) \in Nat
           /\ \A s \in S : Cardinality(UpTo(s, S)) \in 1..Cardinality(S)
           /\ \A s, t \in S : Cardinality(UpTo(s, S)) = Cardinality(UpTo(t, S)) => s = t
           /\ \A i \in 1..Cardinality(S) : \E s \in S : Cardinality(UpTo(s, S)) = i
<1> DEFINE n == Cardinality(S)
           rank == [s \in S |-> Cardinality(UpTo(s, S))]
<1>1. IsFiniteSet(S) /\ n \in Nat
  BY ScansFinite
<1>2. IsFiniteSet(1..n) /\ Cardinality(1..n) = n
  <2> HIDE DEF n
  <2> QED
    BY <1>1, FS_Interval
<1>3. ASSUME NEW s \in S PROVE Cardinality(UpTo(s, S)) \in 1..n
  <2>1. s \in Nat
    BY ScanAssumption DEF Scans
  <2>2. UpTo(s, S) \in SUBSET S /\ {s} \in SUBSET UpTo(s, S) /\ UpTo(s, S) \in SUBSET Scans
    <3>1. s \in UpTo(s, S)
      BY <2>1 DEF UpTo
    <3>2. UpTo(s, S) \in SUBSET S
      BY DEF UpTo
    <3> QED
      BY <3>1, <3>2
  <2>3. IsFiniteSet(UpTo(s, S)) /\ Cardinality(UpTo(s, S)) \in Nat
    BY <2>2, ScansFinite
  <2>4. Cardinality(UpTo(s, S)) <= n
    BY <1>1, <2>2, FS_Subset
  <2>5. Cardinality({s}) = 1
    BY FS_Singleton
  <2>6. Cardinality({s}) <= Cardinality(UpTo(s, S))
    BY <2>2, <2>3, FS_Subset
  <2> QED
    BY <1>1, <2>3, <2>4, <2>5, <2>6
<1>4. ASSUME NEW s \in S, NEW t \in S, Cardinality(UpTo(s, S)) = Cardinality(UpTo(t, S))
      PROVE  s = t
  <2>1. s \in Nat /\ t \in Nat
    BY ScanAssumption DEF Scans
  <2>2. ~(s < t) /\ ~(t < s)
    BY <1>1, <1>3, <1>4, RankIsInjective
  <2> QED
    BY <2>1, <2>2
<1>5. rank \in Injection(S, 1..n)
  BY <1>3, <1>4 DEF Injection, IsInjective
<1>6. rank \in Surjection(S, 1..n)
  BY <1>1, <1>2, <1>5, FS_Injection
<1> QED
  BY <1>1, <1>3, <1>4, <1>6 DEF Surjection

(* The order of creation of a set names each of its scans, and each once.    *)
LEMMA InCreationOrder ==
    ASSUME NEW S \in SUBSET Scans
    PROVE  /\ ByCreation(S) \in Seq(S)
           /\ \A i, j \in 1..Len(ByCreation(S)) : ByCreation(S)[i] = ByCreation(S)[j] => i = j
           /\ \A s \in S : \E i \in 1..Len(ByCreation(S)) : ByCreation(S)[i] = s
<1> DEFINE n == Cardinality(S)
           q == ByCreation(S)
<1>1. n \in Nat
  BY RankIsOnto
<1>2. ASSUME NEW i \in 1..n
      PROVE  q[i] \in S /\ Cardinality(UpTo(q[i], S)) = i
  <2>1. \E s \in S : Cardinality(UpTo(s, S)) = i
    BY RankIsOnto
  <2>2. q[i] = CHOOSE s \in S : Cardinality(UpTo(s, S)) = i
    BY DEF ByCreation, UpTo
  <2> QED
    BY <2>1, <2>2
<1>3. q = [i \in 1..n |-> q[i]]
  <2>1. q = [i \in 1..n |-> CHOOSE s \in S : Cardinality(UpTo(s, S)) = i]
    BY DEF ByCreation, UpTo
  <2> DEFINE Place(i) == CHOOSE s \in S : Cardinality(UpTo(s, S)) = i
  <2>2. q = [i \in 1..n |-> Place(i)]
    BY <2>1
  <2> HIDE DEF q, n, Place
  <2> QED
    BY <2>2
<1>4. q \in Seq(S) /\ Len(q) = n
  <2> HIDE DEF q, n
  <2> QED
    BY <1>1, <1>2, <1>3
<1>5. \A i, j \in 1..n : q[i] = q[j] => i = j
  <2> HIDE DEF q
  <2> QED
    BY <1>2
<1>6. ASSUME NEW s \in S PROVE \E i \in 1..n : q[i] = s
  <2>1. Cardinality(UpTo(s, S)) \in 1..n
    BY RankIsOnto
  <2>2. q[Cardinality(UpTo(s, S))] \in S
        /\ Cardinality(UpTo(q[Cardinality(UpTo(s, S))], S)) = Cardinality(UpTo(s, S))
    BY <1>2, <2>1
  <2>3. q[Cardinality(UpTo(s, S))] = s
    BY <2>2, RankIsOnto
  <2> QED
    BY <2>1, <2>3
<1> QED
  BY <1>4, <1>5, <1>6

-----------------------------------------------------------------------------
InQueue(s) == \E i \in 1..Len(queue) : queue[i] = s

(* A scan that is queued is queued once, and has no thread.                  *)
QueueInv ==
    /\ queue \in Seq(Scans) /\ scheduled \subseteq Scans
    /\ \A i, j \in 1..Len(queue) : queue[i] = queue[j] => i = j
    /\ \A s \in Scans : InQueue(s) => s \in scheduled /\ thread[s].at = "idle"
    /\ \A s \in Scans : thread[s].at # "idle" => s \in scheduled

(* Only a scan that was started is scheduled, and only a real receipt is     *)
(* persisted.                                                                *)
StartedInv ==
    \A s \in Scans :
       /\ s \in scheduled => scan[s].status # "NONE"
       /\ thread[s].at = "persist" => thread[s].receipt.status # "NONE"

SchedInv == QueueInv /\ StartedInv /\ ActiveIsScheduled

LEMMA QueueSet ==
    ASSUME queue \in Seq(Scans), NEW s
    PROVE  s \in ToSet(queue) <=> InQueue(s)
BY DEF ToSet, InQueue

LEMMA InitSched == Init => SchedInv
<1> SUFFICES ASSUME Init PROVE SchedInv
  OBVIOUS
<1> USE DEF Init, ScanInit
<1>1. QueueInv
  BY DEF QueueInv, InQueue, Idle
<1>2. StartedInv
  BY DEF StartedInv, Idle
<1>3. ActiveIsScheduled
  BY DEF ActiveIsScheduled, Known, NoScan
<1> QED
  BY <1>1, <1>2, <1>3 DEF SchedInv

(* A thread goes on with its scan, or ends it.                               *)
LEMMA ThreadKeepsSched ==
    ASSUME SchedInv, NEW s \in Scans, thread[s].at # "idle", UNCHANGED queue,
           UNCHANGED scheduled \/ (scheduled' = scheduled \ {s} /\ thread'[s].at = "idle"),
           \A t \in Scans \ {s} : thread'[t] = thread[t] /\ scan'[t] = scan[t],
           scan'[s].status # "NONE",
           thread'[s].at = "persist" => thread'[s].receipt.status # "NONE",
           scan'[s].status \in ACTIVE => thread'[s].at \in {"analyze", "browser", "persist"}
    PROVE  SchedInv'
<1>1. \A t \in Scans : InQueue(t)' <=> InQueue(t)
  BY DEF InQueue
<1>2. ~InQueue(s) /\ s \in scheduled
  BY DEF SchedInv, QueueInv
<1>3. QueueInv'
  BY <1>1, <1>2 DEF SchedInv, QueueInv
<1>4. StartedInv'
  BY DEF SchedInv, StartedInv
<1>5. ActiveIsScheduled'
  <2>1. SUFFICES ASSUME NEW t \in Scans, scan'[t].status \in ACTIVE
                 PROVE  t \in ToSet(queue') \/ thread'[t].at \in {"analyze", "browser", "persist"}
    BY DEF ActiveIsScheduled, Known
  <2>2. CASE t # s
    <3>1. t \in Known
      BY <2>1, <2>2 DEF Known, ACTIVE
    <3>2. t \in ToSet(queue) \/ thread[t].at \in {"analyze", "browser", "persist"}
      BY <2>1, <2>2, <3>1 DEF SchedInv, ActiveIsScheduled
    <3> QED
      BY <2>2, <3>2
  <2>3. CASE t = s
    BY <2>1, <2>3
  <2> QED
    BY <2>2, <2>3
<1> QED
  BY <1>3, <1>4, <1>5 DEF SchedInv

LEMMA LeavingIsNotActive ==
    ASSUME SchedInv, NEW s \in Scans, thread[s].at = "leave"
    PROVE  scan[s].status \notin ACTIVE
<1>1. s \notin ToSet(queue)
  BY QueueSet DEF SchedInv, QueueInv
<1> QED
  BY <1>1 DEF SchedInv, ActiveIsScheduled, Known, ACTIVE

LEMMA AnsweredSched ==
    ASSUME IInv, SchedInv, NEW s \in Scans, thread[s].at # "idle",
           NEW receipt \in Receipts, NEW draft, Answered(s, receipt, draft),
           UNCHANGED <<scan, queue, scheduled>>
    PROVE  SchedInv'
<1>1. thread \in [Scans -> Threads]
  BY DEF IInv, ThreadsTyped
<1>2. /\ thread'[s].at = "persist" /\ thread'[s].receipt = receipt
      /\ \A t \in Scans \ {s} : thread'[t] = thread[t]
  BY <1>1 DEF Answered, Threads
<1>3. receipt.status # "NONE"
  BY DEF Receipts, ReceiptStatuses, Ended
<1>4. scan'[s].status # "NONE"
  BY DEF SchedInv, QueueInv, StartedInv
<1> QED
  BY <1>2, <1>3, <1>4, ThreadKeepsSched

LEMMA ThreadSched ==
    ASSUME IInv, OInv, SchedInv, NEW s \in Scans, ThreadStep(s)
    PROVE  SchedInv'
<1>1. thread \in [Scans -> Threads]
  BY DEF IInv, ThreadsTyped
<1>2. scan[s].status # "NONE" \/ thread[s].at = "idle"
  BY DEF SchedInv, QueueInv, StartedInv
<1>3. CASE Analyze(s)
  <2>1. PICK receipt \in L1Answers :
          \/ /\ thread' = [thread EXCEPT ![s].at = "browser"]
             /\ scan' = IF s \in Known THEN [scan EXCEPT ![s].status = "L2_BROWSER"] ELSE scan
          \/ /\ \E draft \in ProfileDrafts(receipt, thread[s].seen) : Answered(s, receipt, draft)
             /\ UNCHANGED scan
    BY <1>3 DEF Analyze
  <2>2. receipt \in Receipts /\ thread[s].at = "analyze" /\ UNCHANGED <<queue, scheduled>>
    BY <1>3, ScanAssumption DEF Analyze, L1Receipts
  <2>3. CASE /\ thread' = [thread EXCEPT ![s].at = "browser"]
             /\ scan' = IF s \in Known THEN [scan EXCEPT ![s].status = "L2_BROWSER"] ELSE scan
    <3>1. thread'[s].at = "browser" /\ \A t \in Scans \ {s} : thread'[t] = thread[t]
      BY <1>1, <2>3 DEF Threads
    <3>2. scan'[s].status # "NONE" /\ \A t \in Scans \ {s} : scan'[t] = scan[t]
      BY <1>2, <2>2, <2>3 DEF OInv, ScansTyped
    <3> QED
      BY <2>2, <3>1, <3>2, ThreadKeepsSched
  <2>4. ASSUME NEW draft, Answered(s, receipt, draft), UNCHANGED scan
        PROVE  SchedInv'
    BY <2>2, <2>4, AnsweredSched
  <2> QED
    BY <2>1, <2>3, <2>4
<1>4. CASE AnalyzeBrowser(s)
  <2>1. PICK receipt \in L2Answers, draft \in {[status |-> st, drifted |-> FALSE] : st \in {"DRAFT", "BLOCKED"}} :
          Answered(s, receipt, draft)
    BY <1>4 DEF AnalyzeBrowser
  <2>2. receipt \in Receipts /\ thread[s].at = "browser" /\ UNCHANGED <<scan, queue, scheduled>>
    BY <1>4, ScanAssumption DEF AnalyzeBrowser, L2Receipts
  <2> QED
    BY <2>1, <2>2, AnsweredSched
<1>5. CASE Raise(s) \/ Persist(s) \/ PersistFails(s) \/ PersistNothing(s)
  <2>1. Done(s) /\ thread[s].at # "idle" /\ UNCHANGED <<queue, scheduled>>
    BY <1>5 DEF Raise, Persist, PersistFails, PersistNothing
  <2>2. thread'[s].at = "leave" /\ \A t \in Scans \ {s} : thread'[t] = thread[t]
    BY <1>1, <2>1 DEF Done, Idle
  <2>3. \/ s \notin Known /\ scan' = scan
        \/ scan' = [scan EXCEPT ![s].status = "FAILED"]
        \/ /\ scan' = [scan EXCEPT ![s].status = thread[s].receipt.status]
           /\ thread[s].at = "persist"
    BY <1>5 DEF Raise, Persist, _persist, PersistFails, PersistNothing
  <2>4. thread[s].at = "persist" => thread[s].receipt.status \in ReceiptStatuses
    <3>1. thread[s].receipt.status \in ReceiptStatuses \cup {"NONE"}
      BY <1>1 DEF Threads, Results
    <3> QED
      BY <3>1 DEF SchedInv, StartedInv
  <2>5. /\ scan'[s].status # "NONE" /\ scan'[s].status \notin ACTIVE
        /\ \A t \in Scans \ {s} : scan'[t] = scan[t]
    <3>1. CASE s \notin Known /\ scan' = scan
      BY <1>2, <2>1, <3>1 DEF Known, ACTIVE
    <3>2. CASE scan' = [scan EXCEPT ![s].status = "FAILED"]
      BY <3>2 DEF OInv, ScansTyped, ACTIVE
    <3>3. CASE /\ scan' = [scan EXCEPT ![s].status = thread[s].receipt.status]
               /\ thread[s].at = "persist"
      BY <2>4, <3>3 DEF OInv, ScansTyped, ACTIVE, ReceiptStatuses, Ended
    <3> QED
      BY <2>3, <3>1, <3>2, <3>3
  <2> QED
    BY <2>1, <2>2, <2>5, ThreadKeepsSched
<1>6. CASE Leave(s)
  <2>1. /\ thread[s].at = "leave" /\ thread' = [thread EXCEPT ![s] = Idle]
        /\ scheduled' = scheduled \ {s} /\ UNCHANGED <<scan, queue>>
    BY <1>6 DEF Leave
  <2>2. thread'[s].at = "idle" /\ \A t \in Scans \ {s} : thread'[t] = thread[t]
    BY <1>1, <2>1 DEF Idle
  <2> QED
    BY <1>2, <2>1, <2>2, LeavingIsNotActive, ThreadKeepsSched
<1> QED
  BY <1>3, <1>4, <1>5, <1>6 DEF ThreadStep

(* The thread that takes the head of the queue works on it, unless the scan  *)
(* has ended or is gone.                                                     *)
LEMMA BeginSched ==
    ASSUME IInv, OInv, SchedInv, Begin
    PROVE  SchedInv'
<1> DEFINE s == Head(queue)
<1>1. /\ queue \in Seq(Scans) /\ queue # <<>> /\ queue' = Tail(queue)
      /\ UNCHANGED scheduled /\ thread \in [Scans -> Threads]
  BY DEF Begin, SchedInv, QueueInv, IInv, ThreadsTyped
<1>2. /\ s = queue[1] /\ s \in Scans /\ Len(queue) \in Nat \ {0}
      /\ queue' \in Seq(Scans) /\ Len(queue') = Len(queue) - 1
      /\ \A i \in 1..Len(queue') : queue'[i] = queue[i + 1]
  BY <1>1
<1>3. InQueue(s) /\ s \in scheduled /\ scan[s].status # "NONE"
  BY <1>2 DEF InQueue, SchedInv, QueueInv, StartedInv
<1>4. /\ \A i, j \in 1..Len(queue') : queue'[i] = queue'[j] => i = j
      /\ \A i \in 1..Len(queue') : queue'[i] # s
  BY <1>2 DEF SchedInv, QueueInv
<1>5. \A t \in Scans : InQueue(t)' => InQueue(t) /\ t # s
  BY <1>2, <1>4 DEF InQueue
<1>6. \A t \in Scans \ {s} : InQueue(t) => InQueue(t)'
  <2>1. SUFFICES ASSUME NEW t \in Scans \ {s}, NEW i \in 1..Len(queue), queue[i] = t
                 PROVE  InQueue(t)'
    BY DEF InQueue
  <2>2. i - 1 \in 1..Len(queue') /\ (i - 1) + 1 = i
    BY <1>2, <2>1
  <2> QED
    BY <1>2, <2>1, <2>2 DEF InQueue
<1>7. /\ thread'[s].at \in {"leave", "analyze"}
      /\ \A t \in Scans \ {s} : thread'[t] = thread[t] /\ scan'[t] = scan[t]
      /\ scan'[s].status # "NONE"
      /\ scan'[s].status \in ACTIVE => thread'[s].at = "analyze"
  <2>1. CASE (s \notin Known \/ scan[s].status \in Ended) /\ Done(s) /\ UNCHANGED scan
    <3>1. scan[s].status \notin ACTIVE
      BY <1>2, <2>1 DEF Known, ACTIVE, Ended
    <3> QED
      BY <1>1, <1>2, <1>3, <2>1, <3>1 DEF Done, Idle
  <2>2. CASE /\ scan' = [scan EXCEPT ![s].status = "ANALYZING", ![s].resume_count = @ + 1]
             /\ thread' = [thread EXCEPT ![s].at = "analyze", ![s].seen = profile]
    <3>1. thread'[s].at = "analyze" /\ \A t \in Scans \ {s} : thread'[t] = thread[t]
      BY <1>1, <1>2, <2>2 DEF Threads
    <3>2. scan'[s].status = "ANALYZING" /\ \A t \in Scans \ {s} : scan'[t] = scan[t]
      BY <1>2, <2>2 DEF OInv, ScansTyped
    <3> QED
      BY <3>1, <3>2
  <2> QED
    BY <2>1, <2>2 DEF Begin
<1>8. QueueInv'
  <2> HIDE DEF s
  <2> QED
    BY <1>1, <1>2, <1>3, <1>4, <1>5, <1>7 DEF SchedInv, QueueInv
<1>9. StartedInv'
  <2> HIDE DEF s
  <2> QED
    BY <1>1, <1>7 DEF SchedInv, StartedInv
<1>10. ActiveIsScheduled'
  <2> HIDE DEF s
  <2>1. SUFFICES ASSUME NEW t \in Scans, scan'[t].status \in ACTIVE
                 PROVE  t \in ToSet(queue)' \/ thread'[t].at \in {"analyze", "browser", "persist"}
    BY DEF ActiveIsScheduled, Known
  <2>2. CASE t # s
    <3>1. t \in Known /\ scan[t].status \in ACTIVE
      BY <1>7, <2>1, <2>2 DEF Known, ACTIVE
    <3>2. InQueue(t) \/ thread[t].at \in {"analyze", "browser", "persist"}
      BY <1>1, <3>1, QueueSet DEF SchedInv, ActiveIsScheduled
    <3>3. InQueue(t)' => t \in ToSet(queue)'
      BY <1>2 DEF InQueue, ToSet
    <3> QED
      BY <1>6, <1>7, <2>2, <3>2, <3>3
  <2>3. CASE t = s
    BY <1>7, <2>1, <2>3
  <2> QED
    BY <2>2, <2>3
<1> QED
  BY <1>8, <1>9, <1>10 DEF SchedInv

(* A scan that is not scheduled is put at the end of the queue.              *)
LEMMA ScheduleSched ==
    ASSUME SchedInv, NEW s \in Scans, s \notin scheduled, _schedule(s), UNCHANGED thread,
           \A t \in Scans \ {s} : scan'[t] = scan[t], scan'[s].status # "NONE"
    PROVE  SchedInv'
<1>1. /\ scheduled' = scheduled \cup {s} /\ queue' = Append(queue, s)
      /\ queue \in Seq(Scans)
  BY DEF _schedule, SchedInv, QueueInv
<1>2. /\ queue' \in Seq(Scans) /\ Len(queue) \in Nat /\ Len(queue') = Len(queue) + 1
      /\ queue'[Len(queue) + 1] = s
      /\ \A i \in 1..Len(queue) : queue'[i] = queue[i]
  BY <1>1
<1>3. ~InQueue(s) /\ thread[s].at = "idle"
  BY DEF SchedInv, QueueInv
<1>4. \A t \in Scans : InQueue(t)' <=> InQueue(t) \/ t = s
  <2>1. 1..Len(queue') = 1..Len(queue) \cup {Len(queue) + 1}
    BY <1>2
  <2> QED
    BY <1>2, <2>1 DEF InQueue
<1>5. \A i, j \in 1..Len(queue') : queue'[i] = queue'[j] => i = j
  <2>1. \A i \in 1..Len(queue') : i \in 1..Len(queue) \/ i = Len(queue) + 1
    BY <1>2
  <2>2. \A i \in 1..Len(queue) : queue'[i] # s
    BY <1>2, <1>3 DEF InQueue
  <2>3. \A i, j \in 1..Len(queue) : queue'[i] = queue'[j] => i = j
    BY <1>2 DEF SchedInv, QueueInv
  <2> QED
    BY <1>2, <2>1, <2>2, <2>3
<1>6. QueueInv'
  BY <1>1, <1>2, <1>3, <1>4, <1>5 DEF SchedInv, QueueInv
<1>7. StartedInv'
  BY <1>1 DEF SchedInv, StartedInv
<1>8. ActiveIsScheduled'
  <2>1. SUFFICES ASSUME NEW t \in Scans, scan'[t].status \in ACTIVE
                 PROVE  t \in ToSet(queue)' \/ thread'[t].at \in {"analyze", "browser", "persist"}
    BY DEF ActiveIsScheduled, Known
  <2>2. InQueue(t)' => t \in ToSet(queue)'
    BY <1>2 DEF InQueue, ToSet
  <2>3. CASE t # s
    <3>1. t \in Known /\ scan[t].status \in ACTIVE
      BY <2>1, <2>3 DEF Known, ACTIVE
    <3>2. InQueue(t) \/ thread[t].at \in {"analyze", "browser", "persist"}
      BY <1>1, <3>1, QueueSet DEF SchedInv, ActiveIsScheduled
    <3> QED
      BY <1>4, <2>2, <3>2
  <2> QED
    BY <1>4, <2>2, <2>3
<1> QED
  BY <1>6, <1>7, <1>8 DEF SchedInv

(* The next process queues what was under way and what it takes up again:    *)
(* each of them, and each once, because a partial result is not active.      *)
LEMMA RestartSched ==
    ASSUME OInv, SchedInv, Restart
    PROVE  SchedInv'
<1>1. PICK due \in SUBSET {s \in Known : AutoResumed(s)} :
        /\ thread' = [s \in Scans |-> Idle]
        /\ scan' = [s \in Scans |->
                      IF s \in due THEN [scan[s] EXCEPT !.status = "QUEUED"] ELSE scan[s]]
        /\ scheduled' = Interrupted \cup due
        /\ queue' = ByCreation(Interrupted) \o ByCreation(due)
  BY DEF Restart
<1> DEFINE q == ByCreation(Interrupted)
           r == ByCreation(due)
<1>2. /\ Interrupted \in SUBSET Scans /\ due \in SUBSET Scans
      /\ \A s \in Interrupted \cup due : s \in Known
      /\ Interrupted \cap due = {}
  BY <1>1 DEF Interrupted, Known, AutoResumed, ACTIVE
<1>3. /\ q \in Seq(Interrupted)
      /\ \A i, j \in 1..Len(q) : q[i] = q[j] => i = j
      /\ \A s \in Interrupted : \E i \in 1..Len(q) : q[i] = s
  BY <1>2, InCreationOrder
<1>4. /\ r \in Seq(due)
      /\ \A i, j \in 1..Len(r) : r[i] = r[j] => i = j
      /\ \A s \in due : \E i \in 1..Len(r) : r[i] = s
  BY <1>2, InCreationOrder
<1> HIDE DEF q, r
<1>5. /\ Len(q) \in Nat /\ Len(r) \in Nat
      /\ \A i \in 1..Len(q) : q[i] \in Interrupted
      /\ \A i \in 1..Len(r) : r[i] \in due
      /\ q \in Seq(Scans) /\ r \in Seq(Scans)
  BY <1>2, <1>3, <1>4
<1>6. /\ queue' \in Seq(Scans) /\ Len(queue') = Len(q) + Len(r)
      /\ \A i \in 1..Len(q) : queue'[i] = q[i]
      /\ \A i \in 1..Len(r) : queue'[Len(q) + i] = r[i]
  <2>1. queue' = q \o r
    BY <1>1 DEF q, r
  <2> QED
    BY <1>5, <2>1
<1>7. \A i \in 1..Len(queue') :
        \/ i \in 1..Len(q) /\ queue'[i] = q[i] /\ q[i] \in Interrupted
        \/ /\ i - Len(q) \in 1..Len(r) /\ i \notin 1..Len(q)
           /\ queue'[i] = r[i - Len(q)] /\ r[i - Len(q)] \in due
  <2>1. SUFFICES ASSUME NEW i \in 1..Len(queue'), i \notin 1..Len(q)
                 PROVE  /\ i - Len(q) \in 1..Len(r)
                        /\ queue'[i] = r[i - Len(q)] /\ r[i - Len(q)] \in due
    BY <1>5, <1>6
  <2>2. i - Len(q) \in 1..Len(r) /\ Len(q) + (i - Len(q)) = i
    BY <1>5, <1>6, <2>1
  <2>3. queue'[Len(q) + (i - Len(q))] = r[i - Len(q)]
    BY <1>6, <2>2
  <2> QED
    BY <1>5, <2>2, <2>3
<1>8. \A s \in Interrupted \cup due : InQueue(s)'
  <2>1. ASSUME NEW s \in Interrupted PROVE InQueue(s)'
    <3>1. PICK i \in 1..Len(q) : q[i] = s
      BY <1>3
    <3>2. i \in 1..Len(queue') /\ queue'[i] = s
      BY <1>5, <1>6, <3>1
    <3> QED
      BY <3>2 DEF InQueue
  <2>2. ASSUME NEW s \in due PROVE InQueue(s)'
    <3>1. PICK i \in 1..Len(r) : r[i] = s
      BY <1>4
    <3>2. Len(q) + i \in 1..Len(queue') /\ queue'[Len(q) + i] = s
      BY <1>5, <1>6, <3>1
    <3> QED
      BY <3>2 DEF InQueue
  <2> QED
    BY <2>1, <2>2
<1>9. \A i, j \in 1..Len(queue') : queue'[i] = queue'[j] => i = j
  <2>1. SUFFICES ASSUME NEW i \in 1..Len(queue'), NEW j \in 1..Len(queue'), queue'[i] = queue'[j]
                 PROVE  i = j
    OBVIOUS
  <2>2. CASE i \in 1..Len(q) /\ j \in 1..Len(q)
    BY <1>3, <1>6, <2>1, <2>2
  <2>3. CASE i \notin 1..Len(q) /\ j \notin 1..Len(q)
    <3> DEFINE k == i - Len(q)
               l == j - Len(q)
    <3>1. k \in 1..Len(r) /\ l \in 1..Len(r) /\ r[k] = queue'[i] /\ r[l] = queue'[j]
      BY <1>7, <2>1, <2>3
    <3>2. k = l
      <4> HIDE DEF k, l
      <4> QED
        BY <1>4, <2>1, <3>1
    <3> QED
      BY <1>5, <1>6, <3>2
  <2>4. CASE ~(i \in 1..Len(q) <=> j \in 1..Len(q))
    <3>1. \A k \in 1..Len(queue') : k \in 1..Len(q) => queue'[k] \in Interrupted
      BY <1>7
    <3>2. \A k \in 1..Len(queue') : k \notin 1..Len(q) => queue'[k] \in due
      BY <1>7
    <3> QED
      BY <1>2, <2>1, <2>4, <3>1, <3>2
  <2> QED
    BY <2>2, <2>3, <2>4
<1>10. QueueInv'
  <2>1. \A s \in Scans : InQueue(s)' => s \in scheduled'
    BY <1>1, <1>7 DEF InQueue
  <2>2. \A s \in Scans : thread'[s].at = "idle"
    BY <1>1 DEF Idle
  <2>3. scheduled' \subseteq Scans
    BY <1>1, <1>2
  <2> QED
    BY <1>6, <1>9, <2>1, <2>2, <2>3 DEF QueueInv
<1>11. StartedInv'
  <2>1. \A s \in Scans : thread'[s].at # "persist"
    BY <1>1 DEF Idle
  <2>2. \A s \in Known : scan'[s].status # "NONE"
    BY <1>1 DEF OInv, ScansTyped, Known
  <2> QED
    BY <1>1, <1>2, <2>1, <2>2 DEF StartedInv
<1>12. ActiveIsScheduled'
  <2>1. SUFFICES ASSUME NEW s \in Scans, scan'[s].status \in ACTIVE PROVE s \in ToSet(queue)'
    BY DEF ActiveIsScheduled, Known
  <2>2. s \in Interrupted \cup due
    BY <1>1, <2>1 DEF Interrupted, Known, ACTIVE
  <2> QED
    BY <1>8, <2>2 DEF InQueue, ToSet
<1> QED
  BY <1>10, <1>11, <1>12 DEF SchedInv

LEMMA NextSched == ~QuickResume /\ IInv /\ OInv /\ SchedInv /\ [Next]_vars => SchedInv'
<1> SUFFICES ASSUME ~QuickResume, IInv, OInv, SchedInv, [Next]_vars PROVE SchedInv'
  OBVIOUS
<1>1. CASE ScanStep
  BY <1>1, BeginSched, ThreadSched DEF ScanStep
<1>2. CASE Scan \/ ScanWithoutJob
  <2>1. PICK s \in Scans, withJob \in BOOLEAN :
          /\ scan[s].status = "NONE" /\ _schedule(s) /\ UNCHANGED thread
          /\ scan' = [scan EXCEPT ![s] = [status |-> "QUEUED", resume_count |-> 0, job |-> withJob]]
    BY <1>2 DEF Scan, ScanWithoutJob, start
  <2>2. s \notin scheduled
    BY <2>1 DEF SchedInv, StartedInv
  <2>3. scan'[s].status # "NONE" /\ \A t \in Scans \ {s} : scan'[t] = scan[t]
    BY <2>1 DEF OInv, ScansTyped
  <2> QED
    BY <2>1, <2>2, <2>3, ScheduleSched
<1>3. CASE ResumeScan
  <2>1. PICK s \in Known :
          /\ s \notin scheduled /\ _schedule(s) /\ UNCHANGED thread
          /\ scan' = [scan EXCEPT ![s].status = "QUEUED"]
    BY <1>3 DEF ResumeScan, resume
  <2>2. s \in Scans
    BY DEF Known
  <2>3. scan'[s].status # "NONE" /\ \A t \in Scans \ {s} : scan'[t] = scan[t]
    BY <2>1, <2>2 DEF OInv, ScansTyped
  <2> QED
    BY <2>1, <2>2, <2>3, ScheduleSched
<1>4. CASE Restart
  BY <1>4, RestartSched
<1>5. CASE delete_control_site
  <2>1. /\ UNCHANGED <<scheduled, queue, thread>>
        /\ scan' = [s \in Scans |-> IF s \in Known THEN [scan[s] EXCEPT !.status = "GONE"] ELSE scan[s]]
    BY <1>5 DEF delete_control_site, ForgetSite
  <2>2. \A s \in Scans : /\ scan[s].status # "NONE" => scan'[s].status # "NONE"
                         /\ scan'[s].status \notin ACTIVE
    BY <2>1 DEF OInv, ScansTyped, Known, ACTIVE
  <2>3. QueueInv'
    BY <2>1 DEF SchedInv, QueueInv, InQueue
  <2>4. StartedInv'
    BY <2>1, <2>2 DEF SchedInv, StartedInv
  <2>5. ActiveIsScheduled'
    BY <2>2 DEF ActiveIsScheduled, Known
  <2> QED
    BY <2>3, <2>4, <2>5 DEF SchedInv
<1>6. CASE UNCHANGED <<scheduled, queue, thread, scan>>
  BY <1>6 DEF SchedInv, QueueInv, InQueue, StartedInv, ActiveIsScheduled, Known
<1> QED
  BY <1>1, <1>2, <1>3, <1>4, <1>5, <1>6
     DEF Next, vars, scanVars, scanning, AddCategories, ModifyTarget, Decide, approve_job,
         SwitchProvider, start_production_job, resume_production_job, cancel_production_job,
         Launch, RunEnds

(* A scan that is under way is worked on or queued, whatever dies, is        *)
(* resumed, ends or is forgotten, as long as no scan is resumed before its    *)
(* last thread has ended (_schedule, reconcile_all).                          *)
THEOREM ActiveIsScheduledHolds == ~QuickResume => (Spec => []ActiveIsScheduled)
<1> SUFFICES ASSUME ~QuickResume PROVE Spec => []ActiveIsScheduled
  OBVIOUS
<1>1. IInv /\ OInv /\ SchedInv /\ [Next]_vars => SchedInv'
  BY NextSched
<1>2. SchedInv => ActiveIsScheduled
  BY DEF SchedInv
<1> QED
  BY <1>1, <1>2, InitIInv, InitOInv, InitSched, NextIInv, NextOInv, PTL DEF Spec

=============================================================================
