------------------------ MODULE ProviderLedgerProofs ------------------------
(***************************************************************************)
(* Proofs about ProviderLedger, for every number of candidates, target,    *)
(* call limit, slot count and number of crashes.                           *)
(***************************************************************************)
EXTENDS ProviderLedger, TLAPS

-----------------------------------------------------------------------------
(***************************************************************************)
(* What the updates of the ledger do to its rows.                          *)
(***************************************************************************)

SameElsewhere(c) == \A d \in Candidates \ {c} : ledger'[d] = ledger[d]

(* A status commit changes the status of one row only. *)
LEMMA MarkLedgerFacts ==
    ASSUME ledger \in [Candidates -> LedgerRows], NEW c \in Candidates,
           NEW s \in LedgerStatuses, MarkLedger(c, s)
    PROVE  /\ ledger' \in [Candidates -> LedgerRows]
           /\ SameElsewhere(c)
           /\ ledger'[c].status = s
           /\ ledger'[c].task = ledger[c].task
           /\ ledger'[c].posts = ledger[c].posts
           /\ ledger'[c].billable = ledger[c].billable
<1>1. ledger[c] \in LedgerRows
    OBVIOUS
<1>2. [ledger[c] EXCEPT !.status = s] \in LedgerRows
    BY <1>1 DEF LedgerRows
<1>3. ledger' = [ledger EXCEPT ![c] = [ledger[c] EXCEPT !.status = s]]
    BY DEF MarkLedger
<1>. QED  BY <1>1, <1>2, <1>3 DEF SameElsewhere, LedgerRows

(* The PREPARED row. *)
LEMMA PrepareFacts ==
    ASSUME TypeOK, PrepareLedger
    PROVE  /\ ledger' \in [Candidates -> LedgerRows]
           /\ SameElsewhere(cur)
           /\ ledger'[cur].status = "PREPARED" /\ ~ledger'[cur].task
           /\ ledger'[cur].posts = 0
<1>1. cur \in Candidates /\ inputHash[cur] \in {0, 1}
    BY DEF TypeOK, PrepareLedger
<1>2. [NoLedger EXCEPT !.status = "PREPARED", !.key = inputHash[cur]] \in LedgerRows
    BY <1>1 DEF NoLedger, LedgerRows, LedgerStatuses
<1>. QED  BY <1>1, <1>2 DEF TypeOK, PrepareLedger, SameElsewhere, NoLedger

(* The row of a POST about to leave. *)
LEMMA InFlightFacts ==
    ASSUME TypeOK, MarkInFlight
    PROVE  /\ ledger' \in [Candidates -> LedgerRows]
           /\ SameElsewhere(cur)
           /\ ledger'[cur].status = "CREATE_IN_FLIGHT"
           /\ ledger'[cur].task = ledger[cur].task
           /\ ledger'[cur].billable = ledger[cur].billable
           /\ ledger'[cur].posts = ledger[cur].posts + 1
<1>1. cur \in Candidates /\ ledger \in [Candidates -> LedgerRows]
    BY DEF TypeOK, MarkInFlight
<1>2. ledger[cur] \in LedgerRows /\ ledger[cur].posts \in Nat
    BY <1>1 DEF LedgerRows
<1>3. PICK n \in Nat : n = ledger[cur].posts + 1
    BY <1>2
<1>4. ledger' = [ledger EXCEPT ![cur] =
                   [ledger[cur] EXCEPT !.status = "CREATE_IN_FLIGHT", !.posts = n]]
    BY <1>3 DEF MarkInFlight
<1>5. [ledger[cur] EXCEPT !.status = "CREATE_IN_FLIGHT", !.posts = n] \in LedgerRows
    BY <1>2, <1>3 DEF LedgerRows, LedgerStatuses
<1>. QED  BY <1>1, <1>2, <1>3, <1>4, <1>5 DEF SameElsewhere, LedgerRows

(* The row of a task the provider confirmed. *)
LEMMA TaskFacts ==
    ASSUME ledger \in [Candidates -> LedgerRows], NEW c \in Candidates,
           ledger' = [ledger EXCEPT ![c].status = "ACTIVE", ![c].task = TRUE,
                                    ![c].billable = 1]
    PROVE  /\ ledger' \in [Candidates -> LedgerRows]
           /\ SameElsewhere(c)
           /\ ledger'[c].status = "ACTIVE" /\ ledger'[c].task
           /\ ledger'[c].posts = ledger[c].posts
           /\ ledger'[c].billable = 1
<1>1. ledger[c] \in LedgerRows
    OBVIOUS
<1>2. [ledger[c] EXCEPT !.status = "ACTIVE", !.task = TRUE, !.billable = 1]
        \in LedgerRows
    BY <1>1 DEF LedgerRows, LedgerStatuses
<1>3. ledger' = [ledger EXCEPT ![c] =
                   [ledger[c] EXCEPT !.status = "ACTIVE", !.task = TRUE, !.billable = 1]]
    OBVIOUS
<1>. QED  BY <1>1, <1>2, <1>3 DEF SameElsewhere, LedgerRows

-----------------------------------------------------------------------------
(***************************************************************************)
(* Type correctness.                                                       *)
(***************************************************************************)
LEMMA StatusNames ==
    {"SUBMISSION_UNKNOWN", "CREATE_IN_FLIGHT", "ACTIVE", "CAPACITY_WAIT", "FAILED",
     "PROVIDER_SUCCESS", "DOWNLOAD_FAILED", "RAW_GLB_INVALID", "DELIVERED",
     "MODEL_DIMENSION_CONFLICT", "BLENDER_QA_FAILED"} \subseteq LedgerStatuses
    BY DEF LedgerStatuses

(* The ways a step writes the ledger. *)
LEMMA LedgerWrites ==
    ASSUME TypeOK, [Next]_vars
    PROVE  \/ UNCHANGED ledger
           \/ PrepareLedger \/ MarkInFlight
           \/ \E c \in Candidates, s \in LedgerStatuses : MarkLedger(c, s)
           \/ \E c \in Candidates :
                 ledger' = [ledger EXCEPT ![c].status = "ACTIVE", ![c].task = TRUE,
                                          ![c].billable = 1]
<1>1. CASE Start \/ Skip \/ LedgerConflict \/ CreateTask \/ ApplySubmit \/ ApplyPoll
           \/ ApplyDownload \/ RecordCompletion \/ NextCandidate \/ Deliver \/ EndTick
           \/ Crash \/ CrashInCreate \/ UNCHANGED vars
           \/ \E c \in Candidates : VisitLock(c) \/ CrashInDownload(c)
    BY <1>1 DEF Start, Skip, LedgerConflict, CreateTask, ApplySubmit, ApplyPoll,
                ApplyDownload, RecordCompletion, NextCandidate, Deliver, EndTick,
                Crash, CrashInCreate, vars, VisitLock, CrashInDownload
<1>2. CASE \E c \in Candidates : Submit(c) \/ Poll(c) \/ Download(c)
    BY <1>2, StatusNames DEF Submit, SubmitKnownTask, SubmitAmbiguous,
       SubmitOverBudget, SubmitWithinBudget, Poll, Download
<1>3. CASE CommitCreate
    BY <1>3, StatusNames DEF CommitCreate, TypeOK
<1>4. CASE InspectGlb
    BY <1>4, StatusNames DEF InspectGlb, TypeOK
<1>. QED  BY <1>1, <1>2, <1>3, <1>4 DEF Next, WorkerStep

(* The ledger part of the type. *)
LEMMA LedgerTypeStep ==
    ASSUME TypeOK, [Next]_vars
    PROVE  ledger' \in [Candidates -> LedgerRows]
<1>1. ledger \in [Candidates -> LedgerRows]
    BY DEF TypeOK
<1>. QED  BY <1>1, LedgerWrites, MarkLedgerFacts, PrepareFacts, InFlightFacts, TaskFacts

(* Every step keeps the types. *)
LEMMA TypeStep == TypeOK /\ [Next]_vars => TypeOK'
<1> SUFFICES ASSUME TypeOK, [Next]_vars PROVE TypeOK'
    OBVIOUS
<1>0. ledger' \in [Candidates -> LedgerRows]
    BY LedgerTypeStep
<1>1. CASE Start
  <2>1. item' \in [Candidates -> ItemStates] /\ capWait' \in [Candidates -> BOOLEAN]
        /\ renamed' \in [Candidates -> BOOLEAN] /\ inputHash' \in [Candidates -> {0, 1}]
    BY <1>1 DEF TypeOK, Start, ItemStates
  <2>. QED  BY <1>0, <1>1, <2>1, ConstantsAssumption
               DEF TypeOK, Start, PCs, Answers, provider
<1>2. CASE Skip
    BY <1>0, <1>2, ConstantsAssumption DEF TypeOK, Skip, pool, provider
<1>3. ASSUME NEW c \in Candidates, VisitLock(c) PROVE TypeOK'
  <2>1. cursor' \in 0..NumCandidates /\ cur' \in 0..NumCandidates /\ pc = "scan"
    BY <1>3, ConstantsAssumption DEF VisitLock, Visiting, Candidates
  <2>2. item' \in [Candidates -> ItemStates]
    BY <1>3 DEF VisitLock, TypeOK, ItemStates
  <2>. QED  BY <1>0, <1>3, <2>1, <2>2 DEF TypeOK, VisitLock, provider
<1>4. ASSUME NEW c \in Candidates, Submit(c) PROVE TypeOK'
  <2>1. cursor' = c /\ cur' = c /\ crashes' = crashes /\ delivered' = delivered
        /\ UNCHANGED <<pool, file, registry, provider>>
        /\ pc' \in PCs /\ answer' \in Answers
    BY <1>4 DEF Submit, SubmitKnownTask, SubmitAmbiguous, SubmitOverBudget,
                SubmitWithinBudget, Visiting, PCs, Answers
  <2>. QED  BY <1>0, <2>1, ConstantsAssumption DEF TypeOK, pool, provider, Candidates
<1>5. ASSUME NEW c \in Candidates, Poll(c) PROVE TypeOK'
  <2>1. cursor' = c /\ cur' = c /\ pc' = "apply" /\ answer' \in Answers
    BY <1>5 DEF Poll, Visiting, Answers
  <2>2. fate' \in [Candidates -> {"undecided", "succeeds", "fails"}]
    BY <1>5 DEF Poll, TypeOK
  <2>. QED  BY <1>0, <1>5, <2>1, <2>2, ConstantsAssumption
               DEF TypeOK, Poll, pool, PCs, Candidates
<1>6. ASSUME NEW c \in Candidates, Download(c) PROVE TypeOK'
  <2>1. cursor' = c /\ cur' = c /\ pc' \in PCs /\ answer' \in Answers
    BY <1>6 DEF Download, Visiting, Answers, PCs
  <2>2. file' \in [Candidates -> Files]
    BY <1>6 DEF Download, TypeOK, Files
  <2>. QED  BY <1>0, <1>6, <2>1, <2>2, ConstantsAssumption
               DEF TypeOK, Download, pool, provider, Candidates
<1>7. CASE PrepareLedger \/ LedgerConflict \/ MarkInFlight
    BY <1>0, <1>7 DEF TypeOK, PrepareLedger, LedgerConflict, MarkInFlight, PCs, Answers,
                      pool, provider
<1>8. CASE CreateTask
  <2>1. created' \in [Candidates -> Nat] /\ answer' \in Answers
    BY <1>8 DEF CreateTask, ProviderMakesTask, TypeOK, Answers
  <2>. QED  BY <1>0, <1>8, <2>1 DEF TypeOK, CreateTask, PCs, pool
<1>9. CASE CommitCreate
  <2>1. answer' \in Answers
    BY <1>9 DEF CommitCreate, Answers
  <2>. QED  BY <1>0, <1>9, <2>1 DEF TypeOK, CommitCreate, PCs, pool, provider
<1>10. CASE InspectGlb
    BY <1>0, <1>10 DEF TypeOK, InspectGlb, PCs, Answers, pool, provider
<1>11. CASE ApplySubmit
  <2>1. item' \in [Candidates -> ItemStates] /\ capWait' \in [Candidates -> BOOLEAN]
        /\ poolTask' \in [Candidates -> BOOLEAN]
    BY <1>11 DEF ApplySubmit, SetItem, TypeOK, ItemStates
  <2>2. pc' \in {"after", "down"} /\ pc = "apply"
    BY <1>11 DEF ApplySubmit
  <2>. QED  BY <1>0, <1>11, <2>1, <2>2 DEF TypeOK, ApplySubmit, PCs, Answers, provider
<1>12. CASE ApplyPoll \/ ApplyDownload
  <2>1. item' \in [Candidates -> ItemStates]
    BY <1>12 DEF ApplyPoll, ApplyDownload, SetItem, TypeOK, ItemStates
  <2>. QED  BY <1>0, <1>12, <2>1 DEF TypeOK, ApplyPoll, ApplyDownload, PCs, Answers,
                                    provider
<1>13. CASE RecordCompletion
  <2>1. registry' \subseteq Candidates
    BY <1>13 DEF RecordCompletion, TypeOK
  <2>. QED  BY <1>0, <1>13, <2>1 DEF TypeOK, RecordCompletion, PCs, pool, provider
<1>14. CASE NextCandidate \/ EndTick
    BY <1>0, <1>14, ConstantsAssumption DEF TypeOK, NextCandidate, EndTick, PCs, pool,
                                            provider
<1>15. CASE Deliver
    BY <1>0, <1>15 DEF TypeOK, Deliver, InState, PCs, pool, provider
<1>16. CASE Crash \/ CrashInCreate \/ \E c \in Candidates : CrashInDownload(c)
  <2>1. created' \in [Candidates -> Nat]
    BY <1>16 DEF Crash, CrashInCreate, CrashInDownload, ProviderMakesTask, TypeOK, provider
  <2>2. file' \in [Candidates -> Files]
    BY <1>16 DEF Crash, CrashInCreate, CrashInDownload, TypeOK, Files
  <2>3. crashes' \in 0..MaxCrashes
    BY <1>16, ConstantsAssumption DEF Crash, CrashInCreate, CrashInDownload, TypeOK
  <2>. QED  BY <1>0, <1>16, <2>1, <2>2, <2>3
               DEF TypeOK, Crash, CrashInCreate, CrashInDownload, PCs, Answers, pool,
                   provider
<1>17. CASE UNCHANGED vars
    BY <1>17 DEF TypeOK, vars, pool, provider, worker
<1>. QED
    BY <1>1, <1>2, <1>3, <1>4, <1>5, <1>6, <1>7, <1>8, <1>9, <1>10, <1>11, <1>12,
       <1>13, <1>14, <1>15, <1>16, <1>17 DEF Next, WorkerStep

LEMMA TypeInit == Init => TypeOK
<1> SUFFICES ASSUME Init PROVE TypeOK
    OBVIOUS
<1>1. NoLedger \in LedgerRows
    BY DEF NoLedger, LedgerRows, LedgerStatuses
<1>. QED  BY <1>1, ConstantsAssumption
             DEF Init, TypeOK, ItemStates, Files, PCs, Answers

(* The state of the pool, the ledger, the files and the worker keeps its   *)
(* type in every execution, crashes and restarts included.                 *)
THEOREM TypeCorrect == Spec => []TypeOK
<1>. QED  BY TypeInit, TypeStep, PTL DEF Spec

-----------------------------------------------------------------------------
(***************************************************************************)
(* The inductive invariant.  A POST leaves only from "inflight", where the *)
(* row shows no POST that could have reached the provider; every crash     *)
(* afterwards leaves a row whose posts > 0 stops the next worker.          *)
(***************************************************************************)
LEMMA InvInit == Init => LedgerInv
    BY DEF Init, LedgerInv, RowInv, PoolInv, WorkerInv, Submitting, NoLedger

(* Steps that leave the ledger, the provider and the file alone. *)
LEMMA InvStepPool ==
    ASSUME TypeOK, LedgerInv, UNCHANGED <<ledger, created, file>>,
           \/ Start \/ Skip \/ LedgerConflict \/ RecordCompletion \/ NextCandidate
           \/ Deliver \/ EndTick \/ Crash \/ ApplySubmit \/ ApplyPoll \/ ApplyDownload
           \/ UNCHANGED vars
           \/ \E c \in Candidates :
                VisitLock(c) \/ SubmitKnownTask(c) \/ SubmitOverBudget(c)
                    \/ SubmitWithinBudget(c)
    PROVE  LedgerInv'
<1>1. \A c \in Candidates : RowInv(c)'
    BY DEF LedgerInv, RowInv
<1>2. CASE Start
  <2>1. \A c \in Candidates : PoolInv(c)'
    BY <1>2 DEF Start, TypeOK, LedgerInv, PoolInv, DownloadReconcilable,
                NamingReconcilable
  <2>. QED  BY <1>1, <1>2, <2>1 DEF Start, LedgerInv, WorkerInv, Submitting
<1>3. CASE Skip \/ LedgerConflict \/ RecordCompletion \/ NextCandidate
           \/ Deliver \/ EndTick \/ Crash
  <2>1. UNCHANGED <<item, poolTask>> /\ pc' \in {"down", "scan", "done", "after"}
    BY <1>3 DEF Skip, LedgerConflict, RecordCompletion, NextCandidate, Deliver, EndTick,
                Crash, pool
  <2>. QED  BY <1>1, <2>1 DEF LedgerInv, PoolInv, WorkerInv, Submitting
<1>4. CASE ApplySubmit
  <2>1. cur' = cur /\ cur \in Candidates /\ pc' \in {"down", "after"}
        /\ item[cur] = "MODEL_INPUT_LOCKED" /\ item \in [Candidates -> ItemStates]
        /\ poolTask \in [Candidates -> BOOLEAN]
    BY <1>4 DEF ApplySubmit, Stage, next_stage_for, TypeOK, LedgerInv, WorkerInv
  <2>2. \A c \in Candidates \ {cur} : item'[c] = item[c] /\ poolTask'[c] = poolTask[c]
    BY <1>4, <2>1 DEF ApplySubmit, SetItem
  <2>3. PoolInv(cur)'
    BY <1>4, <2>1 DEF ApplySubmit, SetItem, PoolInv, LedgerInv, WorkerInv
  <2>4. \A c \in Candidates : PoolInv(c)'
    BY <2>1, <2>2, <2>3 DEF PoolInv, LedgerInv
  <2>. QED  BY <1>1, <2>1, <2>4 DEF LedgerInv, WorkerInv, Submitting
<1>5. CASE ApplyPoll
  <2>1. cur' = cur /\ cur \in Candidates /\ pc' = "after" /\ item[cur] = "PROVIDER_ACTIVE"
        /\ item \in [Candidates -> ItemStates] /\ poolTask' = poolTask
    BY <1>5 DEF ApplyPoll, Stage, next_stage_for, TypeOK, LedgerInv, WorkerInv
  <2>2. \A c \in Candidates \ {cur} : item'[c] = item[c]
    BY <1>5, <2>1 DEF ApplyPoll, SetItem
  <2>3. PoolInv(cur)'
    BY <1>5, <2>1 DEF ApplyPoll, SetItem, PoolInv, LedgerInv
  <2>4. \A c \in Candidates : PoolInv(c)'
    BY <2>1, <2>2, <2>3 DEF PoolInv, LedgerInv
  <2>. QED  BY <1>1, <2>1, <2>4 DEF LedgerInv, WorkerInv, Submitting
<1>6. CASE ApplyDownload
  <2>1. cur' = cur /\ cur \in Candidates /\ pc' \in {"after", "register"}
        /\ item[cur] = "PROVIDER_SUCCESS"
        /\ item \in [Candidates -> ItemStates] /\ poolTask' = poolTask
    BY <1>6 DEF ApplyDownload, Stage, next_stage_for, TypeOK, LedgerInv, WorkerInv
  <2>2. \A c \in Candidates \ {cur} : item'[c] = item[c]
    BY <1>6, <2>1 DEF ApplyDownload, SetItem
  <2>3. PoolInv(cur)'
    BY <1>6, <2>1 DEF ApplyDownload, SetItem, PoolInv, LedgerInv, WorkerInv
  <2>4. \A c \in Candidates : PoolInv(c)'
    BY <2>1, <2>2, <2>3 DEF PoolInv, LedgerInv
  <2>. QED  BY <1>1, <2>1, <2>4 DEF LedgerInv, WorkerInv, Submitting
<1>7. ASSUME NEW c \in Candidates, VisitLock(c) PROVE LedgerInv'
  <2>1. pc = "scan" /\ pc' = "scan" /\ poolTask' = poolTask
        /\ item' \in {[item EXCEPT ![c] = "CATALOG_READY"],
                      [item EXCEPT ![c] = "MODEL_INPUT_LOCKED"]}
    BY <1>7 DEF VisitLock, Visiting
  <2>2. \A d \in Candidates : PoolInv(d)'
    BY <2>1 DEF TypeOK, LedgerInv, PoolInv
  <2>. QED  BY <1>1, <2>1, <2>2 DEF LedgerInv, WorkerInv, Submitting
<1>8. ASSUME NEW c \in Candidates, SubmitKnownTask(c) \/ SubmitOverBudget(c)
      PROVE  LedgerInv'
  <2>1. cur' = c /\ pc' = "apply" /\ item[c] = "MODEL_INPUT_LOCKED"
        /\ UNCHANGED <<item, poolTask>>
        /\ answer' \in {"resumed", "limit"}
        /\ (answer' = "resumed" => ledger[c].task)
    BY <1>8 DEF SubmitKnownTask, SubmitOverBudget, Visiting, next_stage_for, pool,
                TypeOK, ItemStates
  <2>. QED  BY <1>1, <2>1 DEF LedgerInv, PoolInv, WorkerInv, Submitting
<1>9. ASSUME NEW c \in Candidates, SubmitWithinBudget(c) PROVE LedgerInv'
  <2>1. cur' = c /\ pc' \in {"inflight", "prepare"} /\ item[c] = "MODEL_INPUT_LOCKED"
        /\ UNCHANGED <<item, poolTask>>
    BY <1>9 DEF SubmitWithinBudget, Visiting, next_stage_for, pool, TypeOK, ItemStates
  <2>2. ASSUME pc' = "inflight"
        PROVE  /\ ledger[c].status \notin {"NONE", "SUBMISSION_UNKNOWN"}
               /\ ~ledger[c].task /\ created[c] = 0
    <3>1. LedgerFound(c) /\ MayPost(c)
      BY <1>9, <2>2 DEF SubmitWithinBudget
    <3>2. ledger[c].posts \in Nat /\ created[c] \in Nat
      BY DEF TypeOK, LedgerRows
    <3>3. ledger[c].status \notin {"NONE", "SUBMISSION_UNKNOWN"} /\ ~ledger[c].task
          /\ (ledger[c].posts = 0 \/ ledger[c].status = "CAPACITY_WAIT")
      BY <3>1, <3>2 DEF MayPost, AmbiguousCheckpoint, LedgerFound
    <3>. QED  BY <3>2, <3>3 DEF LedgerInv, RowInv
  <2>. QED  BY <1>1, <2>1, <2>2 DEF LedgerInv, PoolInv, WorkerInv, Submitting
<1>10. CASE UNCHANGED vars
    BY <1>10 DEF vars, pool, provider, worker, LedgerInv, RowInv, PoolInv, WorkerInv,
                 Submitting
<1>. QED  BY <1>2, <1>3, <1>4, <1>5, <1>6, <1>7, <1>8, <1>9, <1>10

(* Steps that write the ledger, the provider or the file. *)
LEMMA InvStepSubmit ==
    ASSUME TypeOK, LedgerInv,
           \/ \E c \in Candidates : SubmitAmbiguous(c)
           \/ PrepareLedger \/ MarkInFlight
    PROVE  LedgerInv'
<1>1. ASSUME NEW c \in Candidates, SubmitAmbiguous(c) PROVE LedgerInv'
  <2>1. /\ cur' = c /\ pc' = "apply" /\ item[c] = "MODEL_INPUT_LOCKED"
        /\ UNCHANGED <<item, poolTask, created, file>>
        /\ answer' = "unknown" /\ MarkLedger(c, "SUBMISSION_UNKNOWN")
        /\ ledger[c].status # "NONE" /\ ~ledger[c].task
        /\ ledger \in [Candidates -> LedgerRows]
    BY <1>1 DEF SubmitAmbiguous, AmbiguousCheckpoint, LedgerFound, Visiting,
                next_stage_for, pool, provider, TypeOK, ItemStates
  <2>2. /\ SameElsewhere(c)
        /\ ledger'[c].status = "SUBMISSION_UNKNOWN" /\ ~ledger'[c].task
        /\ ledger'[c].posts = ledger[c].posts
    BY <2>1, MarkLedgerFacts, StatusNames
  <2>3. \A d \in Candidates : RowInv(d)' /\ PoolInv(d)'
    BY <2>1, <2>2 DEF SameElsewhere, RowInv, PoolInv, LedgerInv
  <2>. QED  BY <2>1, <2>3 DEF LedgerInv, WorkerInv, Submitting
<1>2. CASE PrepareLedger
  <2>1. /\ cur' = cur /\ cur \in Candidates /\ pc' = "inflight"
        /\ UNCHANGED <<item, poolTask, created, file>>
        /\ item[cur] = "MODEL_INPUT_LOCKED" /\ ledger[cur].status = "NONE"
    BY <1>2 DEF PrepareLedger, pool, provider, TypeOK, LedgerInv, WorkerInv, Submitting
  <2>2. /\ SameElsewhere(cur)
        /\ ledger'[cur].status = "PREPARED" /\ ~ledger'[cur].task
        /\ ledger'[cur].posts = 0
    BY <1>2, PrepareFacts
  <2>3. created[cur] = 0 /\ ~ledger[cur].task
    BY <2>1 DEF LedgerInv, RowInv, TypeOK
  <2>4. \A d \in Candidates : RowInv(d)' /\ PoolInv(d)'
    BY <2>1, <2>2, <2>3 DEF SameElsewhere, RowInv, PoolInv, LedgerInv
  <2>. QED  BY <2>1, <2>2, <2>3, <2>4 DEF LedgerInv, WorkerInv, Submitting
<1>3. CASE MarkInFlight
  <2>1. /\ cur' = cur /\ cur \in Candidates /\ pc' = "post"
        /\ UNCHANGED <<item, poolTask, created, file>>
        /\ item[cur] = "MODEL_INPUT_LOCKED" /\ ledger[cur].status # "NONE"
        /\ ~ledger[cur].task /\ created[cur] = 0 /\ ledger[cur].posts \in Nat
    BY <1>3 DEF MarkInFlight, pool, provider, TypeOK, LedgerInv, WorkerInv, Submitting,
                LedgerRows
  <2>2. /\ SameElsewhere(cur)
        /\ ledger'[cur].status = "CREATE_IN_FLIGHT" /\ ~ledger'[cur].task
        /\ ledger'[cur].posts > 0
    BY <1>3, <2>1, InFlightFacts
  <2>3. \A d \in Candidates : RowInv(d)' /\ PoolInv(d)'
    BY <2>1, <2>2 DEF SameElsewhere, RowInv, PoolInv, LedgerInv
  <2>. QED  BY <2>1, <2>2, <2>3 DEF LedgerInv, WorkerInv, Submitting
<1>. QED  BY <1>1, <1>2, <1>3

(* The POST, its answer and a crash in between. *)
LEMMA InvStepCreate ==
    ASSUME ~AmbiguousTextMatches, TypeOK, LedgerInv,
           CreateTask \/ CommitCreate \/ CrashInCreate
    PROVE  LedgerInv'
<1>1. CASE CreateTask \/ CrashInCreate
  <2>1. /\ cur' = cur /\ cur \in Candidates /\ pc = "post" /\ pc' \in {"commit", "down"}
        /\ UNCHANGED <<item, poolTask, ledger, file>>
        /\ created \in [Candidates -> Nat]
        /\ created' \in {created, [created EXCEPT ![cur] = @ + 1]}
    BY <1>1 DEF CreateTask, CrashInCreate, ProviderMakesTask, pool, TypeOK
  <2>2. /\ \A d \in Candidates \ {cur} : created'[d] = created[d]
        /\ created[cur] = 0 /\ created'[cur] \in {0, 1}
        /\ ledger[cur].posts > 0 /\ ledger[cur].status = "CREATE_IN_FLIGHT"
        /\ ~ledger[cur].task
    BY <2>1 DEF LedgerInv, WorkerInv
  <2>3. \A d \in Candidates : RowInv(d)' /\ PoolInv(d)'
    BY <2>1, <2>2 DEF RowInv, PoolInv, LedgerInv
  <2>4. pc' = "commit" =>
           /\ answer' \in {"task", "capacity", "rejected", "lost"}
           /\ (answer' = "task" => created'[cur] = 1)
           /\ (answer' \in {"capacity", "rejected"} => created'[cur] = 0)
    BY <1>1, <2>1, <2>2 DEF CreateTask, CrashInCreate, ProviderMakesTask
  <2>. QED  BY <2>1, <2>2, <2>3, <2>4 DEF LedgerInv, WorkerInv, Submitting
<1>2. CASE CommitCreate
  <2>1. /\ cur' = cur /\ cur \in Candidates /\ pc = "commit" /\ pc' = "apply"
        /\ UNCHANGED <<item, poolTask, created, file>>
        /\ item[cur] = "MODEL_INPUT_LOCKED" /\ ledger[cur].posts > 0 /\ ~ledger[cur].task
        /\ ledger \in [Candidates -> LedgerRows]
        /\ created[cur] <= 1
    BY <1>2 DEF CommitCreate, pool, provider, TypeOK, LedgerInv, WorkerInv, Submitting,
                RowInv
  <2>2. /\ SameElsewhere(cur)
        /\ ledger'[cur].posts = ledger[cur].posts
        /\ \/ /\ answer = "task" /\ answer' = "accepted"
              /\ ledger'[cur].status = "ACTIVE"
              /\ ledger'[cur].task /\ ledger'[cur].billable = 1
           \/ /\ answer \in {"capacity", "rejected"} /\ answer' \in {"capacity", "failed"}
              /\ ~ledger'[cur].task /\ ledger'[cur].status \in {"CAPACITY_WAIT", "FAILED"}
           \/ /\ answer = "lost" /\ answer' \in {"retry", "unknown"}
              /\ ~ledger'[cur].task /\ ledger'[cur].status = "SUBMISSION_UNKNOWN"
    <3>1. CASE answer = "task"
      BY <1>2, <2>1, <3>1, TaskFacts DEF CommitCreate
    <3>2. CASE answer \in {"capacity", "rejected"}
      BY <1>2, <2>1, <3>2, MarkLedgerFacts, StatusNames DEF CommitCreate
    <3>3. CASE answer = "lost"
      BY <1>2, <2>1, <3>3, MarkLedgerFacts, StatusNames DEF CommitCreate
    <3>. QED  BY <1>2, <3>1, <3>2, <3>3 DEF CommitCreate
  <2>3. /\ (answer = "task" => created[cur] = 1)
        /\ (answer \in {"capacity", "rejected"} => created[cur] = 0)
    BY <2>1 DEF LedgerInv, WorkerInv
  <2>4. \A d \in Candidates : RowInv(d)' /\ PoolInv(d)'
    BY <2>1, <2>2, <2>3 DEF SameElsewhere, RowInv, PoolInv, LedgerInv
  <2>. QED  BY <2>1, <2>2, <2>4 DEF LedgerInv, WorkerInv, Submitting
<1>. QED  BY <1>1, <1>2

(* Poll, download and inspection. *)
LEMMA InvStepResult ==
    ASSUME TypeOK, LedgerInv,
           \/ InspectGlb
           \/ \E c \in Candidates : Poll(c) \/ Download(c) \/ CrashInDownload(c)
    PROVE  LedgerInv'
<1>. ledger \in [Candidates -> LedgerRows] /\ file \in [Candidates -> Files]
     /\ item \in [Candidates -> ItemStates]
    BY DEF TypeOK
<1>1. ASSUME NEW c \in Candidates, Poll(c) PROVE LedgerInv'
  <2>1. /\ cur' = c /\ pc' = "apply" /\ item[c] = "PROVIDER_ACTIVE"
        /\ UNCHANGED <<item, poolTask, created, file>>
    BY <1>1 DEF Poll, Visiting, next_stage_for, pool
  <2>2. \E st \in {"PROVIDER_SUCCESS", "FAILED", "ACTIVE"} : MarkLedger(c, st)
    BY <1>1 DEF Poll
  <2>3. /\ SameElsewhere(c) /\ ledger'[c].status \in {"PROVIDER_SUCCESS", "FAILED", "ACTIVE"}
        /\ ledger'[c].task = ledger[c].task /\ ledger'[c].posts = ledger[c].posts
        /\ ledger'[c].billable = ledger[c].billable
    BY <2>2, MarkLedgerFacts, StatusNames
  <2>4. \A d \in Candidates : RowInv(d)' /\ PoolInv(d)'
    BY <2>1, <2>3 DEF SameElsewhere, RowInv, PoolInv, LedgerInv
  <2>. QED  BY <2>1, <2>4 DEF LedgerInv, WorkerInv, Submitting
<1>2. ASSUME NEW c \in Candidates, Download(c) PROVE LedgerInv'
  <2>1. /\ cur' = c /\ pc' \in {"qa", "apply"} /\ item[c] = "PROVIDER_SUCCESS"
        /\ UNCHANGED <<item, poolTask, created>>
        /\ (pc' = "apply" => answer' = "download_failed")
    BY <1>2 DEF Download, Visiting, next_stage_for, pool, provider
  <2>2. /\ \A d \in Candidates \ {c} : file'[d] = file[d]
        /\ (UNCHANGED ledger \/ MarkLedger(c, "DOWNLOAD_FAILED"))
    BY <1>2 DEF Download
  <2>3. /\ SameElsewhere(c)
        /\ ledger'[c].status \in {ledger[c].status, "DOWNLOAD_FAILED"}
        /\ ledger'[c].task = ledger[c].task /\ ledger'[c].posts = ledger[c].posts
        /\ ledger'[c].billable = ledger[c].billable
    BY <2>2, MarkLedgerFacts, StatusNames DEF SameElsewhere
  <2>4. \A d \in Candidates : RowInv(d)' /\ PoolInv(d)'
    BY <2>1, <2>2, <2>3 DEF SameElsewhere, RowInv, PoolInv, LedgerInv
  <2>. QED  BY <2>1, <2>4 DEF LedgerInv, WorkerInv, Submitting
<1>3. CASE InspectGlb
  <2>1. /\ cur' = cur /\ cur \in Candidates /\ pc' = "apply"
        /\ item[cur] = "PROVIDER_SUCCESS"
        /\ UNCHANGED <<item, poolTask, created, file>>
        /\ (answer' = "accepted" => MarkLedger(cur, "DELIVERED") /\ file[cur] = "valid")
    BY <1>3 DEF InspectGlb, GlbIsValid, pool, provider, TypeOK, LedgerInv, WorkerInv
  <2>2. UNCHANGED ledger
        \/ \E st \in {"RAW_GLB_INVALID", "DELIVERED", "MODEL_DIMENSION_CONFLICT",
                      "BLENDER_QA_FAILED"} : MarkLedger(cur, st)
    BY <1>3 DEF InspectGlb
  <2>3. /\ SameElsewhere(cur)
        /\ ledger'[cur].status \in {ledger[cur].status, "RAW_GLB_INVALID", "DELIVERED",
                                    "MODEL_DIMENSION_CONFLICT", "BLENDER_QA_FAILED"}
        /\ ledger'[cur].task = ledger[cur].task /\ ledger'[cur].posts = ledger[cur].posts
        /\ ledger'[cur].billable = ledger[cur].billable
    BY <2>1, <2>2, MarkLedgerFacts, StatusNames DEF SameElsewhere
  <2>4. answer' = "accepted" => ledger'[cur].status = "DELIVERED"
    BY <2>1, MarkLedgerFacts, StatusNames
  <2>5. \A d \in Candidates : RowInv(d)' /\ PoolInv(d)'
    BY <2>1, <2>3 DEF SameElsewhere, RowInv, PoolInv, LedgerInv
  <2>. QED  BY <2>1, <2>4, <2>5 DEF LedgerInv, WorkerInv, Submitting
<1>4. ASSUME NEW c \in Candidates, CrashInDownload(c) PROVE LedgerInv'
  <2>1. /\ pc' = "down" /\ item[c] = "PROVIDER_SUCCESS"
        /\ UNCHANGED <<item, poolTask, created, ledger>>
        /\ \A d \in Candidates \ {c} : file'[d] = file[d]
    BY <1>4 DEF CrashInDownload, next_stage_for, pool, provider
  <2>2. \A d \in Candidates : RowInv(d)' /\ PoolInv(d)'
    BY <2>1 DEF RowInv, PoolInv, LedgerInv
  <2>. QED  BY <2>1, <2>2 DEF LedgerInv, WorkerInv, Submitting
<1>. QED  BY <1>1, <1>2, <1>3, <1>4

LEMMA InvStep ==
    ASSUME ~AmbiguousTextMatches, TypeOK, LedgerInv, [Next]_vars
    PROVE  LedgerInv'
<1>1. CASE \/ Start \/ Skip \/ LedgerConflict \/ RecordCompletion \/ NextCandidate
           \/ Deliver \/ EndTick \/ Crash \/ ApplySubmit \/ ApplyPoll \/ ApplyDownload
           \/ UNCHANGED vars
           \/ \E c \in Candidates :
                VisitLock(c) \/ SubmitKnownTask(c) \/ SubmitOverBudget(c)
                    \/ SubmitWithinBudget(c)
  <2>1. UNCHANGED <<ledger, created, file>>
    BY <1>1 DEF Start, Skip, LedgerConflict, RecordCompletion, NextCandidate, Deliver,
                EndTick, Crash, ApplySubmit, ApplyPoll, ApplyDownload, vars, VisitLock,
                SubmitKnownTask, SubmitOverBudget, SubmitWithinBudget, provider
  <2>. QED  BY <1>1, <2>1, InvStepPool
<1>2. CASE \/ \E c \in Candidates : SubmitAmbiguous(c)
           \/ PrepareLedger \/ MarkInFlight
    BY <1>2, InvStepSubmit
<1>3. CASE CreateTask \/ CommitCreate \/ CrashInCreate
    BY <1>3, InvStepCreate
<1>4. CASE \/ InspectGlb
           \/ \E c \in Candidates : Poll(c) \/ Download(c) \/ CrashInDownload(c)
    BY <1>4, InvStepResult
<1>. QED  BY <1>1, <1>2, <1>3, <1>4 DEF Next, WorkerStep, Submit

-----------------------------------------------------------------------------
(***************************************************************************)
(* The theorems.                                                           *)
(***************************************************************************)

(* The inductive invariant holds in every execution. *)
THEOREM LedgerInvariant ==
    ASSUME ~AmbiguousTextMatches
    PROVE  Spec => [](TypeOK /\ LedgerInv)
<1>1. Init => TypeOK /\ LedgerInv
    BY TypeInit, InvInit
<1>2. TypeOK /\ LedgerInv /\ [Next]_vars => TypeOK' /\ LedgerInv'
    BY TypeStep, InvStep
<1>. QED  BY <1>1, <1>2, PTL DEF Spec

(* Whatever crashes and restarts happen, for any number of candidates and  *)
(* any call limit, no candidate is billed twice, provided the text of a    *)
(* failed request never looks like a capacity answer.                      *)
THEOREM NoDoubleBilling ==
    ASSUME ~AmbiguousTextMatches
    PROVE  Spec => []AtMostOneCreate
<1>1. LedgerInv => AtMostOneCreate
    BY DEF LedgerInv, RowInv, AtMostOneCreate
<1>. QED  BY <1>1, LedgerInvariant, PTL

(* Every task the pool shows is in the ledger, and every model it calls    *)
(* complete has a DELIVERED row and a valid file.                          *)
THEOREM PoolMatchesLedger ==
    ASSUME ~AmbiguousTextMatches
    PROVE  Spec => [](PoolTaskIsInLedger /\ CompletedIsDelivered)
<1>1. LedgerInv => PoolTaskIsInLedger /\ CompletedIsDelivered
    BY DEF LedgerInv, RowInv, PoolInv, PoolTaskIsInLedger, CompletedIsDelivered
<1>. QED  BY <1>1, LedgerInvariant, PTL

=============================================================================
