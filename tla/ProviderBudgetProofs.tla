------------------------ MODULE ProviderBudgetProofs ------------------------
(***************************************************************************)
(* The counting properties of ProviderLedger: Exact-N, provider slots and  *)
(* the paid-call budget, for every value of the constants.                 *)
(***************************************************************************)
EXTENDS ProviderLedgerProofs, FiniteSetTheorems

-----------------------------------------------------------------------------
LEMMA CandidatesFinite ==
    /\ IsFiniteSet(Candidates)
    /\ \A S \in SUBSET Candidates : IsFiniteSet(S) /\ Cardinality(S) \in Nat
<1>1. IsFiniteSet(Candidates)
    BY FS_Interval, ConstantsAssumption DEF Candidates
<1>. QED  BY <1>1, FS_Subset, FS_CardinalityType

(* A set that gains at most one candidate grows by at most one. *)
LEMMA GrowsByOne ==
    ASSUME NEW S \in SUBSET Candidates, NEW T \in SUBSET Candidates, NEW x,
           T \subseteq S \cup {x}
    PROVE  Cardinality(T) <= Cardinality(S) + 1
<1>1. IsFiniteSet(S) /\ Cardinality(S) \in Nat /\ Cardinality(T) \in Nat
    BY CandidatesFinite
<1>2. IsFiniteSet(S \cup {x}) /\ Cardinality(S \cup {x}) <= Cardinality(S) + 1
      /\ Cardinality(S \cup {x}) \in Nat
    BY <1>1, FS_AddElement
<1>3. Cardinality(T) <= Cardinality(S \cup {x})
    BY <1>2, FS_Subset
<1>. QED  BY <1>1, <1>2, <1>3

LEMMA Shrinks ==
    ASSUME NEW S \in SUBSET Candidates, NEW T \in SUBSET Candidates, T \subseteq S
    PROVE  Cardinality(T) <= Cardinality(S)
    BY CandidatesFinite, FS_Subset

LEMMA UnionBound ==
    ASSUME NEW S \in SUBSET Candidates, NEW T \in SUBSET Candidates
    PROVE  Cardinality(S \cup T) <= Cardinality(S) + Cardinality(T)
<1>1. S \cap T \in SUBSET Candidates
    OBVIOUS
<1>2. IsFiniteSet(S) /\ IsFiniteSet(T) /\ Cardinality(S) \in Nat
      /\ Cardinality(T) \in Nat /\ Cardinality(S \cap T) \in Nat
    BY <1>1, CandidatesFinite
<1>3. Cardinality(S \cup T) = Cardinality(S) + Cardinality(T) - Cardinality(S \cap T)
    BY <1>2, FS_Union
<1>. QED  BY <1>2, <1>3

-----------------------------------------------------------------------------
(***************************************************************************)
(* Exact-N.  A visit starts only below the target and completes at most    *)
(* one candidate.                                                          *)
(***************************************************************************)
Completed == InState({"COMPLETED"})

ExactNInv ==
    /\ success_count <= Target
    /\ pc \in {"prepare", "inflight", "post", "commit", "qa", "apply"}
         => success_count < Target
    /\ pc = "scan" /\ cursor > 0 => success_count < Target

LEMMA CompletedStep ==
    ASSUME TypeOK, [Next]_vars
    PROVE  /\ Completed \in SUBSET Candidates /\ Completed' \in SUBSET Candidates
           /\ Completed' \subseteq Completed \/ ApplyDownload
           /\ ApplyDownload => Completed' \subseteq Completed \cup {cur}
<1>1. Completed \in SUBSET Candidates /\ Completed' \in SUBSET Candidates
    BY DEF Completed, InState
<1>2. item \in [Candidates -> ItemStates]
    BY DEF TypeOK
<1>3. ASSUME ~ApplyDownload, NEW c \in Candidates, item'[c] = "COMPLETED"
      PROVE  item[c] = "COMPLETED"
  <2>1. CASE Start
    BY <1>2, <1>3, <2>1 DEF Start
  <2>2. CASE \E d \in Candidates : VisitLock(d)
    BY <1>2, <1>3, <2>2 DEF VisitLock
  <2>3. CASE ApplySubmit \/ ApplyPoll
    BY <1>2, <1>3, <2>3 DEF ApplySubmit, ApplyPoll, SetItem
  <2>4. CASE UNCHANGED item
    BY <1>3, <2>4
  <2>. QED
    BY <1>3, <2>1, <2>2, <2>3, <2>4
       DEF Next, WorkerStep, vars, pool, Skip, Submit, SubmitKnownTask, SubmitAmbiguous,
           SubmitOverBudget, SubmitWithinBudget, Poll, Download, PrepareLedger,
           LedgerConflict, MarkInFlight, CreateTask, CommitCreate, InspectGlb,
           RecordCompletion, NextCandidate, Deliver, EndTick, Crash, CrashInCreate,
           CrashInDownload
<1>4. ApplyDownload => Completed' \subseteq Completed \cup {cur}
    BY <1>2 DEF ApplyDownload, SetItem, Completed, InState
<1>. QED  BY <1>1, <1>3, <1>4 DEF Completed, InState

LEMMA ExactNStep ==
    ASSUME TypeOK, TypeOK', ExactNInv, [Next]_vars
    PROVE  ExactNInv'
<1>. DEFINE Busy == {"prepare", "inflight", "post", "commit", "qa", "apply"}
<1>1. success_count \in Nat /\ success_count' \in Nat /\ Target \in Nat
    BY CandidatesFinite, CompletedStep, ConstantsAssumption DEF success_count, Completed
<1>2. CASE ApplyDownload
  <2>1. pc = "apply" /\ pc' \notin Busy
    BY <1>2 DEF ApplyDownload
  <2>2. success_count' <= success_count + 1
    BY <1>2, CompletedStep, GrowsByOne DEF success_count, Completed
  <2>3. pc' # "scan"
    BY <1>2 DEF ApplyDownload
  <2>. QED  BY <1>1, <2>1, <2>2, <2>3 DEF ExactNInv
<1>3. CASE ~ApplyDownload
  <2>1. success_count' <= success_count
    BY <1>3, CompletedStep, Shrinks DEF success_count, Completed
  <2>2. pc' \in Busy => pc \in Busy \/ success_count < Target
    BY <1>3 DEF ExactNInv, Ticking, TypeOK,
        Next, WorkerStep, vars, worker, Visiting, Start, Skip, VisitLock, Submit,
        SubmitKnownTask, SubmitAmbiguous, SubmitOverBudget, SubmitWithinBudget, Poll,
        Download, PrepareLedger, LedgerConflict, MarkInFlight, CreateTask, CommitCreate,
        InspectGlb, ApplySubmit, ApplyPoll, RecordCompletion, NextCandidate, Deliver,
        EndTick, Crash, CrashInCreate, CrashInDownload
  <2>3. pc' = "scan" /\ cursor' > 0 => success_count < Target
    BY <1>3 DEF ExactNInv, Ticking, TypeOK,
        Next, WorkerStep, vars, worker, Visiting, Start, Skip, VisitLock, Submit,
        SubmitKnownTask, SubmitAmbiguous, SubmitOverBudget, SubmitWithinBudget, Poll,
        Download, PrepareLedger, LedgerConflict, MarkInFlight, CreateTask, CommitCreate,
        InspectGlb, ApplySubmit, ApplyPoll, RecordCompletion, NextCandidate, Deliver,
        EndTick, Crash, CrashInCreate, CrashInDownload
  <2>. QED  BY <1>1, <2>1, <2>2, <2>3 DEF ExactNInv
<1>. QED  BY <1>2, <1>3

(* The order never holds more finished models than its target, for any     *)
(* number of candidates, slots and crashes.                                *)
THEOREM ExactNHolds == Spec => []ExactNNotExceeded
<1>1. Init => ExactNInv
  <2>1. ASSUME Init PROVE success_count = 0
    <3>1. InState({"COMPLETED"}) = {}
      BY <2>1 DEF Init, InState
    <3>. QED  BY <3>1, FS_EmptySet DEF success_count
  <2>. QED  BY <2>1, ConstantsAssumption DEF Init, ExactNInv
<1>2. TypeOK /\ TypeOK' /\ ExactNInv /\ [Next]_vars => ExactNInv'
    BY ExactNStep
<1>3. ExactNInv => ExactNNotExceeded
    BY DEF ExactNInv, ExactNNotExceeded
<1>. QED  BY <1>1, <1>2, <1>3, TypeCorrect, PTL DEF Spec

-----------------------------------------------------------------------------
(***************************************************************************)
(* The budget.  Created is covered by the rows consumed_calls counts and   *)
(* by the rows a crash hid from it: CREATE_IN_FLIGHT without a task ID.    *)
(***************************************************************************)
Hidden ==
    {c \in Created : /\ ~ledger[c].task /\ ledger[c].status # "SUBMISSION_UNKNOWN"
                     /\ ~(pc \in {"post", "commit"} /\ c = cur)}

BudgetInv ==
    /\ Cardinality(Hidden) <= crashes
    /\ Cardinality(Created) <= CallLimit + crashes
    /\ pc \in {"prepare", "inflight", "post"}
         => Cardinality(Created) + 1 <= CallLimit + crashes

LEMMA BudgetSets ==
    ASSUME TypeOK
    PROVE  /\ Created \in SUBSET Candidates /\ Hidden \in SUBSET Candidates
           /\ Cardinality(Created) \in Nat /\ Cardinality(Hidden) \in Nat
           /\ crashes \in Nat /\ CallLimit \in Nat
<1>1. Created \in SUBSET Candidates /\ Hidden \in SUBSET Candidates
    BY DEF Created, Hidden
<1>2. crashes \in Nat /\ CallLimit \in Nat
    BY ConstantsAssumption DEF TypeOK
<1>. QED  BY <1>1, <1>2, CandidatesFinite

(* Between visits every created task is billed, unknown or hidden. *)
LEMMA CreatedIsCovered ==
    ASSUME TypeOK, LedgerInv, pc = "scan", HasBudget, Cardinality(Hidden) <= crashes
    PROVE  Cardinality(Created) + 1 <= CallLimit + crashes
<1>1. Created \subseteq (Billed \cup Unknown) \cup Hidden
    BY DEF Created, Billed, Unknown, Hidden, LedgerInv, RowInv
<1>2. /\ Billed \in SUBSET Candidates /\ Unknown \in SUBSET Candidates
      /\ Hidden \in SUBSET Candidates /\ Created \in SUBSET Candidates
      /\ Billed \cup Unknown \in SUBSET Candidates
      /\ (Billed \cup Unknown) \cup Hidden \in SUBSET Candidates
    BY DEF Billed, Unknown, Hidden, Created
<1>3. /\ Cardinality(Billed) \in Nat /\ Cardinality(Unknown) \in Nat
      /\ Cardinality(Hidden) \in Nat /\ Cardinality(Created) \in Nat
      /\ Cardinality(Billed \cup Unknown) \in Nat
      /\ Cardinality((Billed \cup Unknown) \cup Hidden) \in Nat
      /\ crashes \in Nat /\ CallLimit \in Nat
    BY <1>2, CandidatesFinite, BudgetSets
<1>4. Cardinality(Billed \cup Unknown) <= Cardinality(Billed) + Cardinality(Unknown)
    BY <1>2, UnionBound
<1>5. Cardinality((Billed \cup Unknown) \cup Hidden)
        <= Cardinality(Billed \cup Unknown) + Cardinality(Hidden)
    BY <1>2, UnionBound
<1>6. Cardinality(Created) <= Cardinality((Billed \cup Unknown) \cup Hidden)
    BY <1>1, <1>2, Shrinks
<1>. QED  BY <1>3, <1>4, <1>5, <1>6 DEF HasBudget, consumed_calls

(* What a step does to the two sets. *)
LEMMA BudgetSetsStep ==
    ASSUME ~AmbiguousTextMatches, TypeOK, LedgerInv, LedgerInv', TypeOK', [Next]_vars
    PROVE  /\ Created' \subseteq Created
                \/ ((CreateTask \/ CrashInCreate) /\ Created' \subseteq Created \cup {cur})
           /\ Hidden' \subseteq Hidden
                \/ ((Crash \/ CrashInCreate) /\ Hidden' \subseteq Hidden \cup {cur})
<1>0. created \in [Candidates -> Nat] /\ ledger \in [Candidates -> LedgerRows]
    BY DEF TypeOK
<1>1. CASE CreateTask \/ CrashInCreate
  <2>1. /\ cur' = cur /\ pc = "post" /\ UNCHANGED ledger /\ (CreateTask => pc' = "commit")
        /\ \A d \in Candidates \ {cur} : created'[d] = created[d]
    BY <1>0, <1>1 DEF CreateTask, CrashInCreate, ProviderMakesTask
  <2>. QED  BY <1>1, <2>1 DEF Created, Hidden
<1>2. CASE Crash
    BY <1>2 DEF Crash, Created, Hidden, provider
<1>3. CASE CommitCreate
  <2>1. /\ cur' = cur /\ cur \in Candidates /\ UNCHANGED created
        /\ answer \in {"task", "capacity", "rejected", "lost"}
        /\ (answer \in {"capacity", "rejected"} => created[cur] = 0)
    BY <1>3 DEF CommitCreate, provider, TypeOK, LedgerInv, WorkerInv
  <2>2. SameElsewhere(cur)
        /\ \/ ledger'[cur].task \/ ledger'[cur].status = "SUBMISSION_UNKNOWN"
           \/ answer \in {"capacity", "rejected"}
    BY <1>0, <1>3, <2>1, TaskFacts, MarkLedgerFacts, StatusNames DEF CommitCreate
  <2>. QED  BY <2>1, <2>2 DEF SameElsewhere, Created, Hidden
<1>4. CASE PrepareLedger \/ MarkInFlight
  <2>1. /\ SameElsewhere(cur) /\ UNCHANGED created /\ cur' = cur
        /\ pc \notin {"post", "commit"}
    BY <1>4, PrepareFacts, InFlightFacts DEF PrepareLedger, MarkInFlight, provider
  <2>2. cur \notin Created'
    BY <1>4, <2>1 DEF PrepareLedger, MarkInFlight, LedgerInv, WorkerInv, Created
  <2>. QED  BY <2>1, <2>2 DEF SameElsewhere, Created, Hidden
<1>5. ASSUME NEW c \in Candidates, SubmitAmbiguous(c) PROVE
          Created' \subseteq Created /\ Hidden' \subseteq Hidden
  <2>1. /\ UNCHANGED created /\ pc = "scan" /\ MarkLedger(c, "SUBMISSION_UNKNOWN")
    BY <1>5 DEF SubmitAmbiguous, Visiting, provider
  <2>2. SameElsewhere(c) /\ ledger'[c].status = "SUBMISSION_UNKNOWN"
    BY <1>0, <2>1, MarkLedgerFacts, StatusNames
  <2>. QED  BY <2>1, <2>2 DEF SameElsewhere, Created, Hidden
<1>6. ASSUME NEW c \in Candidates,
             Poll(c) \/ Download(c) \/ (InspectGlb /\ c = cur)
      PROVE  Created' \subseteq Created /\ Hidden' \subseteq Hidden
  <2>1. /\ UNCHANGED created /\ pc \in {"scan", "qa"}
        /\ item[c] \in {"PROVIDER_ACTIVE", "PROVIDER_SUCCESS"}
    BY <1>6 DEF Poll, Download, InspectGlb, Visiting, next_stage_for, provider,
                LedgerInv, WorkerInv
  <2>2. ledger[c].task
    BY <2>1 DEF LedgerInv, PoolInv
  <2>3. UNCHANGED ledger \/ \E st \in LedgerStatuses : MarkLedger(c, st)
    BY <1>6, StatusNames DEF Poll, Download, InspectGlb
  <2>4. SameElsewhere(c) /\ ledger'[c].task
    BY <1>0, <2>2, <2>3, MarkLedgerFacts DEF SameElsewhere
  <2>. QED  BY <2>1, <2>4 DEF SameElsewhere, Created, Hidden
<1>7. CASE InspectGlb
  <2>1. cur \in Candidates
    BY <1>7 DEF InspectGlb, TypeOK
  <2>. QED  BY <1>6, <1>7, <2>1
<1>8. CASE \/ Start \/ Skip \/ LedgerConflict \/ RecordCompletion \/ NextCandidate
           \/ Deliver \/ EndTick \/ ApplySubmit \/ ApplyPoll \/ ApplyDownload
           \/ UNCHANGED vars
           \/ \E c \in Candidates :
                VisitLock(c) \/ SubmitKnownTask(c) \/ SubmitOverBudget(c)
                    \/ SubmitWithinBudget(c) \/ CrashInDownload(c)
  <2>1. /\ UNCHANGED <<ledger, created>>
        /\ (pc \in {"post", "commit"} => pc' = pc /\ cur' = cur)
    BY <1>8 DEF Start, Skip, LedgerConflict, RecordCompletion, NextCandidate, Deliver,
                EndTick, ApplySubmit, ApplyPoll, ApplyDownload, vars, VisitLock, Visiting,
                SubmitKnownTask, SubmitOverBudget, SubmitWithinBudget, CrashInDownload,
                provider, worker
  <2>. QED  BY <2>1 DEF Created, Hidden
<1>. QED  BY <1>1, <1>2, <1>3, <1>4, <1>5, <1>6, <1>7, <1>8 DEF Next, WorkerStep, Submit

LEMMA BudgetStep ==
    ASSUME ~AmbiguousTextMatches, TypeOK, LedgerInv, LedgerInv', TypeOK', BudgetInv,
           [Next]_vars
    PROVE  BudgetInv'
<1>1. /\ Created \in SUBSET Candidates /\ Hidden \in SUBSET Candidates
      /\ Created' \in SUBSET Candidates /\ Hidden' \in SUBSET Candidates
      /\ Cardinality(Created) \in Nat /\ Cardinality(Hidden) \in Nat
      /\ Cardinality(Created') \in Nat /\ Cardinality(Hidden') \in Nat
      /\ crashes \in Nat /\ crashes' \in Nat /\ CallLimit \in Nat
  <2>1. Created' \in SUBSET Candidates /\ Hidden' \in SUBSET Candidates
    BY DEF Created, Hidden
  <2>. QED  BY <2>1, BudgetSets, CandidatesFinite, ConstantsAssumption DEF TypeOK
<1>2. CASE CreateTask
  <2>1. pc = "post" /\ pc' = "commit" /\ crashes' = crashes
        /\ ~Crash /\ ~CrashInCreate
    BY <1>2, <1>1 DEF CreateTask, Crash, CrashInCreate
  <2>2. Cardinality(Created') <= Cardinality(Created) + 1
    BY <1>1, BudgetSetsStep, GrowsByOne, Shrinks
  <2>3. Cardinality(Hidden') <= Cardinality(Hidden)
    BY <1>1, <2>1, BudgetSetsStep, Shrinks
  <2>. QED  BY <1>1, <2>1, <2>2, <2>3 DEF BudgetInv
<1>3. CASE Crash \/ CrashInCreate
  <2>1. crashes' = crashes + 1 /\ pc' = "down"
    BY <1>3 DEF Crash, CrashInCreate
  <2>2. Cardinality(Created') <= Cardinality(Created) + 1
    BY <1>1, BudgetSetsStep, GrowsByOne, Shrinks
  <2>3. Cardinality(Hidden') <= Cardinality(Hidden) + 1
    BY <1>1, BudgetSetsStep, GrowsByOne, Shrinks
  <2>. QED  BY <1>1, <2>1, <2>2, <2>3 DEF BudgetInv
<1>4. CASE ~(CreateTask \/ Crash \/ CrashInCreate)
  <2>1. Cardinality(Created') <= Cardinality(Created)
        /\ Cardinality(Hidden') <= Cardinality(Hidden)
    BY <1>1, <1>4, BudgetSetsStep, Shrinks
  <2>2. crashes' \in {crashes, crashes + 1}
    BY <1>4 DEF Next, WorkerStep, vars, Start, Skip, VisitLock, Submit,
        SubmitKnownTask, SubmitAmbiguous, SubmitOverBudget, SubmitWithinBudget, Poll,
        Download, PrepareLedger, LedgerConflict, MarkInFlight, CommitCreate,
        InspectGlb, ApplySubmit, ApplyPoll, ApplyDownload, RecordCompletion,
        NextCandidate, Deliver, EndTick, CrashInDownload
  <2>3. pc' \in {"prepare", "inflight", "post"} =>
            pc \in {"prepare", "inflight", "post"}
            \/ (pc = "scan" /\ HasBudget)
    BY <1>4 DEF Next, WorkerStep, vars, worker, Visiting, Start, Skip, VisitLock, Submit,
        SubmitKnownTask, SubmitAmbiguous, SubmitOverBudget, SubmitWithinBudget, Poll,
        Download, PrepareLedger, LedgerConflict, MarkInFlight, CommitCreate,
        InspectGlb, ApplySubmit, ApplyPoll, ApplyDownload, RecordCompletion,
        NextCandidate, Deliver, EndTick, CrashInDownload
  <2>4. pc = "scan" /\ HasBudget => Cardinality(Created) + 1 <= CallLimit + crashes
    BY CreatedIsCovered DEF BudgetInv
  <2>. QED  BY <1>1, <2>1, <2>2, <2>3, <2>4 DEF BudgetInv
<1>. QED  BY <1>2, <1>3, <1>4

(* The provider never makes more tasks than the approved call limit plus   *)
(* the number of worker crashes: each crash can hide at most one           *)
(* CREATE_IN_FLIGHT row from the count the next submission reads.          *)
THEOREM BudgetHolds ==
    ASSUME ~AmbiguousTextMatches
    PROVE  Spec => []CreatesWithinLimitAndCrashes
<1>1. Init => BudgetInv
  <2>1. ASSUME Init PROVE Created = {} /\ Hidden = {}
    BY <2>1 DEF Init, Created, Hidden
  <2>. QED  BY <2>1, FS_EmptySet, ConstantsAssumption DEF Init, BudgetInv
<1>2. /\ TypeOK /\ LedgerInv /\ TypeOK' /\ LedgerInv' /\ BudgetInv /\ [Next]_vars
      => BudgetInv'
    BY BudgetStep
<1>3. BudgetInv => CreatesWithinLimitAndCrashes
    BY DEF BudgetInv, CreatesWithinLimitAndCrashes
<1>. QED  BY <1>1, <1>2, <1>3, LedgerInvariant, PTL DEF Spec

-----------------------------------------------------------------------------
(***************************************************************************)
(* The provider slots.                                                     *)
(***************************************************************************)
Active  == {c \in InState({"PROVIDER_ACTIVE"}) : poolTask[c]}
Unknowns == InState({"QUARANTINED_SUBMISSION_UNKNOWN"})
Held    == Active \cup Unknowns

SlotsInv ==
    /\ Cardinality(Held) <= MaxSlots
    /\ pc \in {"prepare", "inflight", "post", "commit", "apply"}
          /\ item[cur] = "MODEL_INPUT_LOCKED" => Cardinality(Held) + 1 <= MaxSlots

LEMMA HeldSets ==
    ASSUME TypeOK
    PROVE  /\ Held \in SUBSET Candidates /\ Cardinality(Held) \in Nat
           /\ Cardinality(Held) = active_provider_count
                                     + unresolved_submission_unknown_count
<1>1. Active \in SUBSET Candidates /\ Unknowns \in SUBSET Candidates
      /\ Held \in SUBSET Candidates /\ Active \cap Unknowns = {}
    BY DEF Held, Active, Unknowns, InState
<1>2. IsFiniteSet(Active) /\ IsFiniteSet(Unknowns) /\ Cardinality(Active) \in Nat
      /\ Cardinality(Unknowns) \in Nat /\ Cardinality(Held) \in Nat
    BY <1>1, CandidatesFinite
<1>3. Cardinality(Active \cap Unknowns) = 0
    BY <1>1, FS_EmptySet
<1>4. Cardinality(Held) = Cardinality(Active) + Cardinality(Unknowns)
                             - Cardinality(Active \cap Unknowns)
    BY <1>2, FS_Union DEF Held
<1>. QED  BY <1>1, <1>2, <1>3, <1>4
             DEF Active, Unknowns, active_provider_count,
                 unresolved_submission_unknown_count

(* Only the pool write after a submit takes a slot. *)
LEMMA HeldStep ==
    ASSUME TypeOK, [Next]_vars
    PROVE  /\ Held' \in SUBSET Candidates
           /\ Held' \subseteq Held \/ ApplySubmit
           /\ ApplySubmit => Held' \subseteq Held \cup {cur}
<1>1. item \in [Candidates -> ItemStates] /\ poolTask \in [Candidates -> BOOLEAN]
    BY DEF TypeOK
<1>2. Held' \in SUBSET Candidates
    BY DEF Held, Active, Unknowns, InState
<1>3. ApplySubmit => Held' \subseteq Held \cup {cur}
    BY <1>1 DEF ApplySubmit, SetItem, Held, Active, Unknowns, InState
<1>4. CASE Start
    BY <1>1, <1>4 DEF Start, Held, Active, Unknowns, InState
<1>5. CASE \E c \in Candidates : VisitLock(c)
    BY <1>1, <1>5 DEF VisitLock, Held, Active, Unknowns, InState
<1>6. CASE ApplyPoll \/ ApplyDownload
    BY <1>1, <1>6 DEF ApplyPoll, ApplyDownload, SetItem, Held, Active, Unknowns, InState
<1>7. CASE UNCHANGED <<item, poolTask>>
    BY <1>7 DEF Held, Active, Unknowns, InState
<1>. QED
    BY <1>2, <1>3, <1>4, <1>5, <1>6, <1>7
       DEF Next, WorkerStep, vars, pool, Skip, Submit, SubmitKnownTask, SubmitAmbiguous,
           SubmitOverBudget, SubmitWithinBudget, Poll, Download, PrepareLedger,
           LedgerConflict, MarkInFlight, CreateTask, CommitCreate, InspectGlb,
           RecordCompletion, NextCandidate, Deliver, EndTick, Crash, CrashInCreate,
           CrashInDownload

LEMMA SlotsStep ==
    ASSUME TypeOK, TypeOK', LedgerInv, SlotsInv, [Next]_vars
    PROVE  SlotsInv'
<1>1. /\ Held \in SUBSET Candidates /\ Held' \in SUBSET Candidates
      /\ Cardinality(Held) \in Nat /\ Cardinality(Held') \in Nat /\ MaxSlots \in Nat
    BY HeldSets, HeldStep, CandidatesFinite, ConstantsAssumption
<1>2. CASE ApplySubmit
  <2>1. pc = "apply" /\ item[cur] = "MODEL_INPUT_LOCKED" /\ pc' \in {"after", "down"}
    BY <1>2 DEF ApplySubmit, Stage, next_stage_for, LedgerInv, WorkerInv
  <2>2. Cardinality(Held') <= Cardinality(Held) + 1
    BY <1>1, <1>2, HeldStep, GrowsByOne
  <2>. QED  BY <1>1, <2>1, <2>2 DEF SlotsInv
<1>3. CASE ~ApplySubmit
  <2>1. Cardinality(Held') <= Cardinality(Held)
    BY <1>1, <1>3, HeldStep, Shrinks
  <2>. DEFINE AtSubmit == /\ pc \in {"prepare", "inflight", "post", "commit", "apply"}
                          /\ item[cur] = "MODEL_INPUT_LOCKED"
  <2>2. AtSubmit' => AtSubmit \/ Cardinality(Held) + 1 <= MaxSlots
    <3>1. CASE \E c \in Candidates : Submit(c)
      <4>1. MaySubmit
        BY <3>1 DEF Submit, SubmitKnownTask, SubmitAmbiguous, SubmitOverBudget,
                    SubmitWithinBudget
      <4>2. Cardinality(InState({"PROVIDER_SUCCESS"})) \in Nat
            /\ active_provider_count \in Nat /\ unresolved_submission_unknown_count \in Nat
        BY CandidatesFinite DEF InState, active_provider_count,
           unresolved_submission_unknown_count
      <4>. QED  BY <1>1, <4>1, <4>2, HeldSets DEF MaySubmit, outstanding_provider
    <3>2. CASE \E c \in Candidates : Poll(c) \/ Download(c)
      BY <3>2 DEF Poll, Download, Visiting, next_stage_for, pool
    <3>3. CASE InspectGlb
      BY <3>3 DEF InspectGlb, pool, LedgerInv, WorkerInv
    <3>. QED
      BY <1>3, <3>1, <3>2, <3>3
         DEF Next, WorkerStep, vars, worker, pool, Start, Skip, VisitLock, Visiting,
             PrepareLedger, LedgerConflict, MarkInFlight, CreateTask, CommitCreate,
             ApplyPoll, ApplyDownload, RecordCompletion, NextCandidate, Deliver, EndTick,
             Crash, CrashInCreate, CrashInDownload
  <2>. QED  BY <1>1, <2>1, <2>2 DEF SlotsInv
<1>. QED  BY <1>2, <1>3

(* Tasks being modelled and submissions nobody can account for never hold  *)
(* more than max_provider_slots, across crashes and restarts.              *)
THEOREM SlotsHold ==
    ASSUME ~AmbiguousTextMatches
    PROVE  Spec => []ProviderSlotsRespected
<1>1. Init => SlotsInv
  <2>1. ASSUME Init PROVE Held = {}
    BY <2>1 DEF Init, Held, Active, Unknowns, InState
  <2>. QED  BY <2>1, FS_EmptySet, ConstantsAssumption DEF Init, SlotsInv
<1>2. TypeOK /\ LedgerInv /\ TypeOK' /\ SlotsInv /\ [Next]_vars => SlotsInv'
    BY SlotsStep
<1>3. TypeOK /\ SlotsInv => ProviderSlotsRespected
    BY HeldSets DEF SlotsInv, ProviderSlotsRespected
<1>. QED  BY <1>1, <1>2, <1>3, LedgerInvariant, PTL DEF Spec

-----------------------------------------------------------------------------
(* Once a create is ambiguous its candidate is never POSTed again, by this *)
(* worker or any later one.                                                *)
THEOREM UnknownIsFinal ==
    ASSUME ~AmbiguousTextMatches
    PROVE  Spec => UnknownNeverPostsAgain
<1>1. ASSUME TypeOK, LedgerInv, [Next]_vars, NEW c \in Candidates,
             ledger[c].status = "SUBMISSION_UNKNOWN"
      PROVE  ledger'[c].posts = ledger[c].posts
  <2>. ledger \in [Candidates -> LedgerRows]
    BY <1>1 DEF TypeOK
  <2>1. CASE PrepareLedger
    BY <1>1, <2>1, PrepareFacts DEF PrepareLedger, SameElsewhere
  <2>2. CASE MarkInFlight
    BY <1>1, <2>2, InFlightFacts DEF MarkInFlight, SameElsewhere, LedgerInv, WorkerInv
  <2>3. ASSUME NEW d \in Candidates, NEW st \in LedgerStatuses, MarkLedger(d, st)
        PROVE  ledger'[c].posts = ledger[c].posts
    BY <2>3, MarkLedgerFacts DEF SameElsewhere
  <2>4. ASSUME NEW d \in Candidates,
               ledger' = [ledger EXCEPT ![d].status = "ACTIVE", ![d].task = TRUE,
                                        ![d].billable = 1]
        PROVE  ledger'[c].posts = ledger[c].posts
    BY <2>4, TaskFacts DEF SameElsewhere
  <2>. QED  BY <1>1, <2>1, <2>2, <2>3, <2>4, LedgerWrites
<1>2. TypeOK /\ LedgerInv /\ [Next]_vars
        => \A c \in Candidates : ledger[c].status = "SUBMISSION_UNKNOWN"
                                   => ledger'[c].posts = ledger[c].posts
    BY <1>1
<1>. QED  BY <1>2, LedgerInvariant, PTL DEF Spec, UnknownNeverPostsAgain

=============================================================================
