----------------------- MODULE ProductionEngineProofs -----------------------
(***************************************************************************)
(* Type correctness of ProductionEngine, the delivery properties, the      *)
(* Ready Pool, the paid order it implements, and what one start of the job *)
(* keeps, for every value of the constants.                                *)
(***************************************************************************)
EXTENDS ProductionEngine, FiniteSetTheorems, TLAPS

-----------------------------------------------------------------------------
(***************************************************************************)
(* What the stages make of a candidate.                                    *)
(***************************************************************************)
LEMMA LiveStatesAre ==
    LiveStates = {"DISCOVERED", "CAPTURE_READY", "MEDIA_READY", "VISUAL_PENDING",
                  "VISUAL_ACCEPTED", "CATEGORY_ACCEPTED", "DATE_ACCEPTED",
                  "DIMENSION_PENDING", "DIMENSION_READY", "NAMING_READY",
                  "CATALOG_READY", "MODEL_INPUT_LOCKED", "PROVIDER_ACTIVE",
                  "PROVIDER_SUCCESS"}
    BY DEF LiveStates, next_stage

StageInputs ==
    {"DISCOVERED", "CAPTURE_READY", "MEDIA_READY", "VISUAL_PENDING", "VISUAL_ACCEPTED",
     "CATEGORY_ACCEPTED", "DATE_ACCEPTED", "DIMENSION_PENDING", "DIMENSION_READY",
     "NAMING_READY", "CATALOG_READY"}

(* The stages before the submission neither pay nor end a candidate. *)
LEMMA UnpaidStage ==
    ASSUME NEW s \in StageInputs, NEW a \in StageAnswers[next_stage[s]]
    PROVE  /\ NewState(next_stage[s], s, a) \in ItemStates \ (SubmittedStates \cup {"ABSENT"})
           /\ a \notin HardStops /\ a # "unknown"
           /\ next_stage[s] \notin {"submit", "poll", "download"}
<1>. USE DEF StageAnswers, next_stage, NewState, accepted_state, rejected_state,
        PendingAnswers, HardStops, ItemStates, TERMINAL_ITEM_STATES, SubmittedStates,
        EndedStates
<1>1. CASE s = "DISCOVERED"
    BY <1>1, LiveStatesAre DEF CaptureAnswers
<1>2. CASE s = "CAPTURE_READY"
    BY <1>2, LiveStatesAre DEF MediaAnswers
<1>3. CASE s \in {"MEDIA_READY", "VISUAL_PENDING"}
    BY <1>3, LiveStatesAre DEF VisualAnswers, DecisionAnswers, NextImageAnswers
<1>4. CASE s = "VISUAL_ACCEPTED"
    BY <1>4, LiveStatesAre DEF CategoryAnswers
<1>5. CASE s \in {"DATE_ACCEPTED", "DIMENSION_PENDING"}
    BY <1>5, LiveStatesAre
       DEF DimensionAnswers, LookupAnswers, EstimateAnswers, GovernedAnswers
<1>6. CASE s = "DIMENSION_READY"
    BY <1>6, LiveStatesAre DEF NamingAnswers
<1>7. CASE s \in {"CATEGORY_ACCEPTED", "NAMING_READY", "CATALOG_READY"}
    BY <1>7, LiveStatesAre
<1>. QED  BY <1>1, <1>2, <1>3, <1>4, <1>5, <1>6, <1>7 DEF StageInputs

LEMMA SubmitStage ==
    ASSUME NEW a \in StageAnswers["submit"]
    PROVE  NewState("submit", "MODEL_INPUT_LOCKED", a) =
               IF a = "accept" THEN "PROVIDER_ACTIVE"
               ELSE IF a = "unknown" THEN "QUARANTINED_SUBMISSION_UNKNOWN"
               ELSE IF a = "limit" THEN "HARD_STOP_ITEM"
               ELSE IF a = "reject" THEN "PROVIDER_FAILED"
               ELSE "MODEL_INPUT_LOCKED"
    BY DEF StageAnswers, SubmitAnswers, NewState, accepted_state, rejected_state,
           PendingAnswers, HardStops

LEMMA PollStage ==
    ASSUME NEW a \in StageAnswers["poll"]
    PROVE  /\ NewState("poll", "PROVIDER_ACTIVE", a) =
               IF a = "accept" THEN "PROVIDER_SUCCESS"
               ELSE IF a = "reject" THEN "PROVIDER_FAILED"
               ELSE "PROVIDER_ACTIVE"
           /\ a \notin HardStops /\ a # "unknown"
    BY DEF StageAnswers, PollAnswers, NewState, accepted_state, rejected_state,
           PendingAnswers, HardStops

LEMMA DownloadStage ==
    ASSUME NEW a \in StageAnswers["download"]
    PROVE  /\ NewState("download", "PROVIDER_SUCCESS", a) =
               IF a = "accept" THEN "COMPLETED"
               ELSE IF a = "conflict" THEN "MANUAL_REVIEW"
               ELSE IF a = "blender" THEN "HARD_STOP_ITEM"
               ELSE IF a = "orientation" THEN "PROVIDER_SUCCESS"
               ELSE "RAW_GLB_INVALID"
           /\ a # "unknown"
    BY DEF StageAnswers, DownloadAnswers, FileAnswers, OrientationAnswers, QaAnswers,
           NewState, accepted_state, rejected_state, PendingAnswers, HardStops

(* The three paid states and their stages; every other live state is one of *)
(* StageInputs.                                                              *)
LEMMA StageOf ==
    /\ LiveStates = StageInputs \cup {"MODEL_INPUT_LOCKED", "PROVIDER_ACTIVE",
                                      "PROVIDER_SUCCESS"}
    /\ next_stage["MODEL_INPUT_LOCKED"] = "submit"
    /\ next_stage["PROVIDER_ACTIVE"] = "poll"
    /\ next_stage["PROVIDER_SUCCESS"] = "download"
    BY LiveStatesAre DEF StageInputs, next_stage

LEMMA VisitOutcome ==
    ASSUME item \in [Candidates -> ItemStates], NEW c \in Candidates, NEW a, Visit(c, a)
    PROVE  /\ item[c] \in LiveStates /\ a \in StageAnswers[next_stage[item[c]]]
           /\ item' = [item EXCEPT ![c] = item'[c]]
           /\ item'[c] = NewState(next_stage[item[c]], item[c], a)
           /\ item'[c] \in ItemStates \ {"ABSENT"}
           /\ item[c] \in StageInputs => item'[c] \notin SubmittedStates
           /\ item[c] = "MODEL_INPUT_LOCKED" =>
                item'[c] \in {"MODEL_INPUT_LOCKED", "PROVIDER_ACTIVE", "HARD_STOP_ITEM",
                              "QUARANTINED_SUBMISSION_UNKNOWN", "PROVIDER_FAILED"}
           /\ item[c] = "PROVIDER_ACTIVE" =>
                item'[c] \in {"PROVIDER_ACTIVE", "PROVIDER_SUCCESS", "PROVIDER_FAILED"}
           /\ item[c] = "PROVIDER_SUCCESS" =>
                item'[c] \in {"PROVIDER_SUCCESS", "COMPLETED", "MANUAL_REVIEW",
                              "HARD_STOP_ITEM", "RAW_GLB_INVALID"}
<1>. DEFINE n == NewState(next_stage[item[c]], item[c], a)
<1>1. item[c] \in LiveStates /\ a \in StageAnswers[next_stage[item[c]]]
      /\ item' = [item EXCEPT ![c] = n]
    BY DEF Visit, MayVisit
<1>2. item'[c] = n /\ item' = [item EXCEPT ![c] = item'[c]]
    BY <1>1
<1>3. CASE item[c] \in StageInputs
    BY <1>1, <1>2, <1>3, UnpaidStage DEF StageInputs
<1>4. CASE item[c] = "MODEL_INPUT_LOCKED"
    BY <1>1, <1>2, <1>4, SubmitStage, StageOf
       DEF ItemStates, TERMINAL_ITEM_STATES, StageInputs
<1>5. CASE item[c] = "PROVIDER_ACTIVE"
    BY <1>1, <1>2, <1>5, PollStage, StageOf
       DEF ItemStates, TERMINAL_ITEM_STATES, StageInputs
<1>6. CASE item[c] = "PROVIDER_SUCCESS"
    BY <1>1, <1>2, <1>6, DownloadStage, StageOf
       DEF ItemStates, TERMINAL_ITEM_STATES, StageInputs
<1>. QED  BY <1>1, <1>3, <1>4, <1>5, <1>6, StageOf

-----------------------------------------------------------------------------
(***************************************************************************)
(* Type correctness.                                                       *)
(***************************************************************************)
LEMMA BlockerType == Blocker \in Outcomes
    BY DEF Blocker, Outcomes

LEMMA TickStatusType ==
    TickStatus \in {"RUNNING", "WAITING_PROVIDER", "MANUAL_RECONCILIATION"}
    BY DEF TickStatus

LEMMA ArriveType ==
    ASSUME item \in [Candidates -> ItemStates], NEW S, Arrive(S)
    PROVE  item' \in [Candidates -> ItemStates]
    BY StageOf DEF Arrive, ItemStates, StageInputs

LEMMA ProviderType ==
    ASSUME provider \in Providers, ChooseProvider
    PROVE  provider' \in Providers
    BY EngineAssumption DEF ChooseProvider

LEMMA VisitType ==
    ASSUME TypeOK, NEW c \in Candidates, NEW a, Visit(c, a)
    PROVE  TypeOK'
<1>1. item' \in [Candidates -> ItemStates]
    BY VisitOutcome DEF TypeOK
<1>2. why' \in [Candidates -> Reasons]
  <2>1. (IF a \in Reasons THEN a ELSE "none") \in Reasons
    BY DEF Reasons
  <2>. QED  BY <2>1 DEF Visit, TypeOK
<1>3. glb' \in [Candidates -> {"none", "valid", "copy"}]
  <2>1. NewGlb(c, a) \in {"none", "valid", "copy"}
    BY DEF NewGlb, TypeOK
  <2>. QED  BY <2>1 DEF Visit, TypeOK
<1>4. capRows' \subseteq Candidates
    BY DEF Visit, TypeOK
<1>5. cursor' \in 0..NumCandidates /\ steps' \in 0..MaxStepsPerTick
    BY EngineAssumption DEF Visit, TypeOK, Candidates
<1>6. progressed' \in BOOLEAN /\ changed' \in BOOLEAN
    BY Zenon DEF Visit
<1>7. gates' \subseteq Gates /\ pc' \in {"down", "after", "scan"}
      /\ status' \in RuntimeStatuses /\ outcome' \in Outcomes
    BY DEF Visit, TypeOK, ReachedGates, Stop, RuntimeStatuses, Outcomes
<1>8. UNCHANGED <<repaired, rounds, contract>>
    BY DEF Visit
<1>. QED
    BY <1>1, <1>2, <1>3, <1>4, <1>5, <1>6, <1>7, <1>8 DEF TypeOK, contract, Gates

LEMMA TypeStep ==
    ASSUME TypeOK, [Next]_vars
    PROVE  TypeOK'
<1>1. CASE Start
    BY <1>1, ProviderType, StageOf, EngineAssumption
       DEF Start, MayStart, TypeOK, ItemStates, StageInputs, Reasons, Outcomes, tick, Gates
<1>2. CASE StartEmpty
  <2>1. item' \in [Candidates -> ItemStates]
    BY <1>2, ArriveType DEF StartEmpty, TypeOK
  <2>. QED
    BY <1>2, <2>1, ProviderType, EngineAssumption
       DEF StartEmpty, MayStart, Stop, TypeOK, Outcomes, tick, Gates
<1>3. CASE TickLimit
    BY <1>3 DEF TickLimit, Stop, TypeOK, Outcomes, tick, pool, contract, Gates
<1>4. CASE RefillReadyPool
    BY <1>4, ArriveType DEF RefillReadyPool, Stop, TypeOK, Outcomes, tick, contract, Gates
<1>5. CASE CompleteReadyPool
    BY <1>5 DEF CompleteReadyPool, Stop, TypeOK, Outcomes, tick, contract, Gates,
                ItemStates, TERMINAL_ITEM_STATES
<1>6. CASE BeginTick
  <2>1. item' \in [Candidates -> ItemStates]
    BY <1>6 DEF BeginTick, TypeOK, ItemStates, TERMINAL_ITEM_STATES
  <2>2. changed' \in BOOLEAN /\ progressed' \in BOOLEAN
    BY <1>6, Zenon DEF BeginTick
  <2>3. pc' \in {"after", "scan"} /\ status' \in RuntimeStatuses
        /\ cursor' = 0 /\ steps' = 0
        /\ UNCHANGED <<why, glb, capRows, repaired, gates, rounds, outcome, contract>>
    BY <1>6 DEF BeginTick, RuntimeStatuses
  <2>. QED  BY <2>1, <2>2, <2>3, EngineAssumption DEF TypeOK, contract, Gates
<1>7. CASE Skip
    BY <1>7, EngineAssumption DEF Skip, TypeOK, pool, contract, Gates
<1>8. CASE \E c \in Candidates, a \in Answers \cup {"accept"} : Visit(c, a)
    BY <1>8, VisitType
<1>9. CASE EndTick
    BY <1>9, TickStatusType DEF EndTick, TypeOK, RuntimeStatuses, pool, contract, Gates
<1>10. CASE Refill
  <2>1. item' \in [Candidates -> ItemStates]
    BY <1>10, ArriveType DEF Refill, TypeOK
  <2>2. rounds' \in 0..MaxRefillRounds
    BY <1>10, EngineAssumption DEF Refill, TypeOK
  <2>3. pc' \in {"down", "after"} /\ status' \in RuntimeStatuses /\ outcome' \in Outcomes
    BY <1>10 DEF Refill, Stop, TypeOK, RuntimeStatuses, Outcomes
  <2>4. changed' \in BOOLEAN
    BY <1>10, Zenon DEF Refill, TypeOK
  <2>. QED  BY <1>10, <2>1, <2>2, <2>3, <2>4 DEF Refill, TypeOK, contract, Gates
<1>11. CASE Deliver \/ SupplyExhausted \/ ManualReconciliation \/ WaitForCapacity
    BY <1>11 DEF Deliver, SupplyExhausted, ManualReconciliation, WaitForCapacity, Stop,
                 TypeOK, Outcomes, tick, pool, contract, Gates
<1>12. CASE AfterTick
    BY <1>12, BlockerType DEF AfterTick, Stop, TypeOK, Outcomes, tick, pool, contract, Gates
<1>13. CASE UNCHANGED vars
    BY <1>13 DEF vars, TypeOK, tick, pool, contract, Gates
<1>. QED
    BY <1>1, <1>2, <1>3, <1>4, <1>5, <1>6, <1>7, <1>8, <1>9, <1>10, <1>11, <1>12, <1>13
       DEF Next, WorkerStep

(* Every variable of the job keeps its type: no visit, restart or refill    *)
(* writes a state, a reason or an outcome the code does not name.           *)
THEOREM TypeCorrect == Spec => []TypeOK
<1>1. Init => TypeOK
  <2>. SUFFICES ASSUME Init PROVE TypeOK
    OBVIOUS
  <2>1. item \in [Candidates -> ItemStates]
    BY EngineAssumption DEF Init, ItemStates
  <2>2. why \in [Candidates -> Reasons] /\ glb \in [Candidates -> {"none", "valid", "copy"}]
    BY DEF Init, Reasons
  <2>3. cursor \in 0..NumCandidates /\ steps \in 0..MaxStepsPerTick
        /\ rounds \in 0..MaxRefillRounds /\ starts \in 0..MaxStarts
    BY EngineAssumption DEF Init
  <2>4. provider \in Providers /\ capRows = {} /\ repaired = {} /\ gates = {}
        /\ pc = "down" /\ status \in RuntimeStatuses /\ outcome \in Outcomes
        /\ progressed \in BOOLEAN /\ changed \in BOOLEAN
    BY DEF Init, RuntimeStatuses, Outcomes
  <2>. QED  BY <2>1, <2>2, <2>3, <2>4 DEF TypeOK
<1>2. TypeOK /\ [Next]_vars => TypeOK'
    BY TypeStep
<1>. QED  BY <1>1, <1>2, PTL DEF Spec

-----------------------------------------------------------------------------
(***************************************************************************)
(* What a step does to the submitted candidates.                           *)
(***************************************************************************)
SomeVisit == \E c \in Candidates, a \in Answers \cup {"accept"} : Visit(c, a)

(* Away from the submitted states a step may move a candidate as it likes. *)
KeepsSubmitted(c) ==
    \/ item'[c] = item[c]
    \/ item[c] \notin SubmittedStates /\ item'[c] \notin SubmittedStates

LEMMA StartStep ==
    ASSUME TypeOK, Start, NEW c \in Candidates
    PROVE  IF DownloadReconcilable(c) THEN item'[c] = "PROVIDER_SUCCESS"
           ELSE KeepsSubmitted(c)
<1>1. PICK N \in SUBSET {d \in Candidates : NamingReconcilable(d)} :
        item' = [d \in Candidates |->
                    IF d \in N THEN "NAMING_READY"
                    ELSE IF DownloadReconcilable(d) THEN "PROVIDER_SUCCESS" ELSE item[d]]
    BY DEF Start
<1>. QED
    BY <1>1 DEF NamingReconcilable, DownloadReconcilable, KeepsSubmitted, SubmittedStates,
                EndedStates

LEMMA ArriveStep ==
    ASSUME TypeOK, NEW S \in Arrivals \cup {{}}, Arrive(S), NEW c \in Candidates
    PROVE  KeepsSubmitted(c)
    BY DEF Arrive, Arrivals, Present, KeepsSubmitted, SubmittedStates, EndedStates

LEMMA OtherStep ==
    ASSUME TypeOK, [Next]_vars, ~SomeVisit, ~Start, NEW c \in Candidates
    PROVE  KeepsSubmitted(c)
<1>1. CASE StartEmpty \/ RefillReadyPool \/ Refill
    BY <1>1, ArriveStep DEF StartEmpty, RefillReadyPool, Refill, KeepsSubmitted
<1>2. CASE CompleteReadyPool
    BY <1>2 DEF CompleteReadyPool, SurplusLocks, Ready, InState, KeepsSubmitted,
                SubmittedStates, EndedStates
<1>3. CASE BeginTick
    BY <1>3 DEF BeginTick, OverquotaLocks, Ready, InState, KeepsSubmitted,
                SubmittedStates, EndedStates
<1>. QED
    BY <1>1, <1>2, <1>3
       DEF Next, WorkerStep, SomeVisit, KeepsSubmitted, vars, pool, TickLimit, Skip,
           EndTick, Deliver, SupplyExhausted, ManualReconciliation, WaitForCapacity,
           AfterTick

LEMMA CandidatesFinite ==
    /\ IsFiniteSet(Candidates)
    /\ \A S \in SUBSET Candidates : IsFiniteSet(S) /\ Cardinality(S) \in Nat
<1>1. IsFiniteSet(Candidates)
    BY FS_Interval, EngineAssumption DEF Candidates
<1>. QED  BY <1>1, FS_Subset, FS_CardinalityType

LEMMA InStateIsSubset ==
    /\ \A S : InState(S) \in SUBSET Candidates
    /\ \A S : InState(S)' \in SUBSET Candidates
    /\ success_count \in Nat /\ success_count' \in Nat
<1>1. /\ \A S : InState(S) \in SUBSET Candidates
      /\ \A S : InState(S)' \in SUBSET Candidates
    BY DEF InState
<1>. QED  BY <1>1, CandidatesFinite DEF success_count

(* Only a download that is accepted adds a finished model, and only one; no *)
(* step takes one away.                                                     *)
LEMMA QuietCount ==
    ASSUME TypeOK, [Next]_vars, ~SomeVisit
    PROVE  success_count' = success_count
<1>1. ASSUME NEW c \in Candidates
      PROVE  item'[c] = "COMPLETED" <=> item[c] = "COMPLETED"
    BY StartStep, OtherStep
       DEF DownloadReconcilable, KeepsSubmitted, SubmittedStates
<1>2. InState({"COMPLETED"})' = InState({"COMPLETED"})
    BY <1>1 DEF InState
<1>. QED  BY <1>2 DEF success_count

LEMMA VisitCount ==
    ASSUME TypeOK, NEW c \in Candidates, NEW a, Visit(c, a)
    PROVE  success_count' =
               success_count + (IF item'[c] = "COMPLETED" THEN 1 ELSE 0)
<1>. DEFINE D == InState({"COMPLETED"})
<1>1. item \in [Candidates -> ItemStates] /\ item' = [item EXCEPT ![c] = item'[c]]
      /\ item[c] # "COMPLETED"
    BY VisitOutcome, StageOf DEF TypeOK, StageInputs
<1>2. D' = IF item'[c] = "COMPLETED" THEN D \cup {c} ELSE D
    BY <1>1 DEF InState
<1>3. c \notin D /\ IsFiniteSet(D) /\ Cardinality(D) \in Nat
    BY <1>1, InStateIsSubset, CandidatesFinite DEF InState
<1>4. Cardinality(D \cup {c}) = Cardinality(D) + 1
    BY <1>3, FS_AddElement
<1>5. success_count = Cardinality(D) /\ success_count' = Cardinality(D')
    BY DEF success_count
<1>. HIDE DEF D
<1>. QED  BY <1>2, <1>3, <1>4, <1>5

-----------------------------------------------------------------------------
(***************************************************************************)
(* What the job knows at each point of a tick: below the target while it   *)
(* scans, nothing left to do when the supply is exhausted, no open model   *)
(* at the manual reconciliation boundary; and only a stopped job has an    *)
(* outcome, so that what held when it stopped still holds.                 *)
(***************************************************************************)
RunInv ==
    /\ success_count <= Target
    /\ pc = "scan" => success_count < Target
    /\ pc # "down" => outcome = "none"
    /\ pc = "after" /\ status = "SUCCEEDED" => success_count >= Target
    /\ pc = "after" /\ status = "SUPPLY_EXHAUSTED" => Live = {}
    /\ pc = "after" /\ status = "MANUAL_RECONCILIATION"
         => InState({"PROVIDER_ACTIVE", "PROVIDER_SUCCESS"}) = {}

DeliveryInv ==
    /\ RunInv
    /\ ExactNDelivered
    /\ ShortDeliveryIsFinal
    /\ StopsLeaveNoPaidModel

LEMMA RunInvVisit ==
    ASSUME TypeOK, RunInv, NEW c \in Candidates, NEW a, Visit(c, a)
    PROVE  /\ RunInv'
           /\ outcome' \in {"none", "HARD_STOP"}
           /\ outcome' # "none" => pc' = "down"
<1>. DEFINE completed == success_count + (IF item'[c] = "COMPLETED" THEN 1 ELSE 0)
<1>1. success_count' = completed /\ success_count \in Nat /\ Target \in Nat
    BY VisitCount, InStateIsSubset, EngineAssumption
<1>2. pc = "scan" /\ success_count < Target /\ outcome = "none"
    BY DEF Visit, RunInv
<1>3. \/ pc' = "down" /\ outcome' = "HARD_STOP"
      \/ /\ pc' = IF TargetReached(completed) THEN "after" ELSE "scan"
         /\ status' = IF TargetReached(completed) THEN "SUCCEEDED" ELSE status
         /\ outcome' = outcome
    BY VisitOutcome DEF Visit, Stop, TypeOK
<1>. HIDE DEF completed
<1>4. completed \in Nat /\ completed <= Target
    BY <1>1, <1>2 DEF completed
<1>. QED  BY <1>1, <1>2, <1>3, <1>4 DEF RunInv, TargetReached

LEMMA RunInvQuiet ==
    ASSUME TypeOK, RunInv, [Next]_vars, ~SomeVisit
    PROVE  RunInv'
<1>1. success_count' = success_count /\ success_count \in Nat /\ Target \in Nat
    BY QuietCount, InStateIsSubset, EngineAssumption
<1>2. success_count' <= Target
    BY <1>1 DEF RunInv
<1>3. pc' = "scan" => success_count' < Target
  <2>1. pc' = "scan" => pc = "scan" \/ ~TargetReached(success_count)
    BY DEF SomeVisit, Next, WorkerStep, vars, pool, Stop, Start, StartEmpty, TickLimit,
           RefillReadyPool, CompleteReadyPool, BeginTick, Skip, EndTick, Refill, Deliver,
           SupplyExhausted, ManualReconciliation, WaitForCapacity, AfterTick
  <2>. QED  BY <1>1, <2>1 DEF RunInv, TargetReached
<1>4. pc' # "down" => outcome' = "none"
    BY DEF RunInv, SomeVisit, Next, WorkerStep, vars, pool, contract, Stop, Start, StartEmpty,
           TickLimit, RefillReadyPool, CompleteReadyPool, BeginTick, Skip, EndTick, Refill,
           Deliver, SupplyExhausted, ManualReconciliation, WaitForCapacity, AfterTick,
           Ticking, ScanEnds
<1>5. pc' = "after" => \/ UNCHANGED <<pc, status, item>>
                       \/ BeginTick /\ status' = "SUCCEEDED" /\ TargetReached(success_count)
                       \/ EndTick \/ Refill
    BY DEF SomeVisit, Next, WorkerStep, vars, pool, tick, Stop, Start, StartEmpty, TickLimit,
           RefillReadyPool, CompleteReadyPool, BeginTick, Skip, Deliver,
           SupplyExhausted, ManualReconciliation, WaitForCapacity, AfterTick
<1>6. EndTick => /\ status' = TickStatus /\ UNCHANGED item
    BY DEF EndTick, pool
<1>7. Refill /\ pc' = "after" =>
         \/ status' = "RUNNING"
         \/ status' = "SUPPLY_EXHAUSTED" /\ Live = {} /\ UNCHANGED item
    BY DEF Refill, Stop
<1>8. TickStatus = "MANUAL_RECONCILIATION"
        => InState({"PROVIDER_ACTIVE", "PROVIDER_SUCCESS"}) = {}
  <2>1. SUFFICES ASSUME TickStatus = "MANUAL_RECONCILIATION"
                 PROVE  InState({"PROVIDER_ACTIVE"}) = {} /\ InState({"PROVIDER_SUCCESS"}) = {}
    BY DEF InState
  <2>2. ~(active_provider_count > 0) /\ AtManualReconciliation
    BY <2>1 DEF TickStatus
  <2>3. active_provider_count \in Nat /\ IsFiniteSet(InState({"PROVIDER_ACTIVE"}))
    BY InStateIsSubset, CandidatesFinite DEF active_provider_count
  <2>4. active_provider_count = 0
    BY <2>2, <2>3
  <2>. QED
    BY <2>2, <2>3, <2>4, FS_EmptySet DEF AtManualReconciliation, active_provider_count
<1>9. pc' = "after" /\ status' = "SUCCEEDED" => success_count' >= Target
    BY <1>1, <1>5, <1>6, <1>7, TickStatusType DEF RunInv, TargetReached
<1>10. pc' = "after" /\ status' = "SUPPLY_EXHAUSTED" => Live' = {}
    BY <1>5, <1>6, <1>7, TickStatusType DEF RunInv, Live, InState
<1>11. pc' = "after" /\ status' = "MANUAL_RECONCILIATION"
         => InState({"PROVIDER_ACTIVE", "PROVIDER_SUCCESS"})' = {}
    BY <1>5, <1>6, <1>7, <1>8, TickStatusType DEF RunInv, InState
<1>. QED  BY <1>2, <1>3, <1>4, <1>9, <1>10, <1>11 DEF RunInv

(* An outcome is only given up by a start, and only a delivery, which is    *)
(* final, or a stop at the end of a tick concerns the properties.           *)
LEMMA OutcomeStep ==
    ASSUME TypeOK, RunInv, [Next]_vars
    PROVE  \/ outcome' \in {"none", "HARD_STOP", "BOUNDED_TICK_LIMIT", "READY_POOL",
                            "TARGET_SHORTAGE", "DISCOVERY", "L2_BROWSER", "DELIVERY_QA",
                            "PROVIDER_CAPACITY", "ORIENTATION_REVIEW", "DIMENSION_LOOKUP",
                            "BRAIN_DECISION"}
           \/ UNCHANGED <<item, pc, outcome>>
           \/ Deliver \/ SupplyExhausted \/ ManualReconciliation
<1>1. CASE SomeVisit
    BY <1>1, RunInvVisit DEF SomeVisit
<1>2. CASE pc # "down" /\ ~SomeVisit
  <2>1. outcome = "none"
    BY <1>2 DEF RunInv
  <2>2. Blocker \in {"none", "L2_BROWSER", "ORIENTATION_REVIEW", "DIMENSION_LOOKUP",
                     "BRAIN_DECISION"}
    BY DEF Blocker
  <2>. QED
    BY <1>2, <2>1, <2>2
       DEF SomeVisit, Next, WorkerStep, vars, pool, Stop, Start, StartEmpty,
           TickLimit, RefillReadyPool, CompleteReadyPool, BeginTick, Skip, EndTick,
           Refill, WaitForCapacity, AfterTick
<1>3. CASE pc = "down" /\ ~SomeVisit
    BY <1>3 DEF SomeVisit, Next, WorkerStep, vars, pool, Stop, Start, StartEmpty,
           TickLimit, RefillReadyPool, CompleteReadyPool, BeginTick, Skip, EndTick,
           Refill, WaitForCapacity, AfterTick, ScanEnds, Ticking
<1>. QED  BY <1>2, <1>3, <1>1

LEMMA DeliveryStep ==
    ASSUME TypeOK, DeliveryInv, [Next]_vars
    PROVE  DeliveryInv'
<1>1. RunInv'
    BY RunInvVisit, RunInvQuiet DEF DeliveryInv, SomeVisit
<1>2. success_count \in Nat /\ success_count' \in Nat /\ Target \in Nat
    BY InStateIsSubset, EngineAssumption
<1>3. CASE outcome' \notin {"DELIVERED", "HUMAN_DECISION", "SUBMISSION_UNKNOWN"}
    BY <1>1, <1>3
       DEF DeliveryInv, ExactNDelivered, ShortDeliveryIsFinal, StopsLeaveNoPaidModel
<1>4. CASE UNCHANGED <<item, pc, outcome>>
    BY <1>1, <1>4
       DEF DeliveryInv, ExactNDelivered, ShortDeliveryIsFinal, StopsLeaveNoPaidModel,
           success_count, InState, Present
<1>5. CASE Deliver /\ outcome' = "DELIVERED"
  <2>1. UNCHANGED item /\ RunInv
    BY <1>5 DEF Deliver, pool, DeliveryInv
  <2>2. success_count' = success_count /\ Present' = Present
        /\ InState(TERMINAL_ITEM_STATES)' = InState(TERMINAL_ITEM_STATES)
    BY <2>1 DEF success_count, InState, Present
  <2>3. CASE status = "SUCCEEDED"
    BY <1>1, <1>2, <1>5, <2>1, <2>2, <2>3
       DEF Deliver, RunInv, DeliveryInv, ExactNDelivered, ShortDeliveryIsFinal,
           StopsLeaveNoPaidModel, TargetReached
  <2>4. CASE status = "SUPPLY_EXHAUSTED" /\ DeliversShort
    <3>1. Live = {}
      BY <1>5, <2>1, <2>4 DEF Deliver, RunInv
    <3>2. Present = InState(TERMINAL_ITEM_STATES)
      BY <3>1 DEF Present, Live, InState, TypeOK, ItemStates, TERMINAL_ITEM_STATES
    <3>. QED
      BY <1>1, <1>5, <2>2, <2>4, <3>2
         DEF DeliveryInv, ExactNDelivered, ShortDeliveryIsFinal, StopsLeaveNoPaidModel,
             DeliversShort
  <2>. QED  BY <1>5, <2>3, <2>4 DEF Deliver
<1>6. CASE SupplyExhausted \/ ManualReconciliation
  <2>1. UNCHANGED item /\ RunInv /\ outcome' # "DELIVERED"
    BY <1>6 DEF SupplyExhausted, ManualReconciliation, Stop, pool, DeliveryInv
  <2>2. InState({"PROVIDER_ACTIVE", "PROVIDER_SUCCESS"})' = {}
    BY <1>6, <2>1, StageOf
       DEF SupplyExhausted, ManualReconciliation, RunInv, Live, InState
  <2>. QED
    BY <1>1, <2>1, <2>2
       DEF DeliveryInv, ExactNDelivered, ShortDeliveryIsFinal, StopsLeaveNoPaidModel
<1>7. DeliveryInv => RunInv
    BY DEF DeliveryInv
<1>8. Deliver => outcome' \in {"DELIVERED", "DELIVERY_QA"}
    BY DEF Deliver, Stop
<1>. QED  BY <1>3, <1>4, <1>5, <1>6, <1>7, <1>8, OutcomeStep

LEMMA DeliveryInit == Init => DeliveryInv
<1>. SUFFICES ASSUME Init PROVE DeliveryInv
    OBVIOUS
<1>1. InState({"COMPLETED"}) = {}
    BY EngineAssumption DEF Init, InState, SubmittedStates
<1>2. success_count = 0
    BY <1>1, FS_EmptySet DEF success_count
<1>. QED
    BY <1>2, EngineAssumption
       DEF Init, DeliveryInv, RunInv, ExactNDelivered, ShortDeliveryIsFinal,
           StopsLeaveNoPaidModel

(* The inductive invariant: finished and reserved models fit the target,    *)
(* and how run() stopped tells what is left in the pool.                    *)
THEOREM DeliveryInvHolds == Spec => []DeliveryInv
<1>1. TypeOK /\ DeliveryInv /\ [Next]_vars => DeliveryInv'
    BY DeliveryStep
<1>. QED  BY <1>1, DeliveryInit, TypeCorrect, PTL DEF Spec

(* The order never holds more finished models than target_count, for any    *)
(* number of candidates, slots, refills and resumes.                        *)
THEOREM ExactNHolds == Spec => []ExactNNotExceeded
<1>1. DeliveryInv => ExactNNotExceeded
    BY DEF DeliveryInv, RunInv, ExactNNotExceeded
<1>. QED  BY <1>1, DeliveryInvHolds, PTL

(* An EXACT_N order without an accepted shortage is delivered only with     *)
(* exactly target_count models.                                             *)
THEOREM ExactNDeliveredHolds == Spec => []ExactNDelivered
<1>1. DeliveryInv => ExactNDelivered
    BY DEF DeliveryInv
<1>. QED  BY <1>1, DeliveryInvHolds, PTL

(* When fewer models than the target are delivered no candidate of the pool *)
(* could still become one.                                                  *)
THEOREM ShortDeliveryHolds == Spec => []ShortDeliveryIsFinal
<1>1. DeliveryInv => ShortDeliveryIsFinal
    BY DEF DeliveryInv
<1>. QED  BY <1>1, DeliveryInvHolds, PTL

(* A stop for a decision on a shortage or on an unknown submission leaves   *)
(* no paid model being generated or undownloaded.                           *)
THEOREM StopsLeaveNoPaidModelHolds == Spec => []StopsLeaveNoPaidModel
<1>1. DeliveryInv => StopsLeaveNoPaidModel
    BY DEF DeliveryInv
<1>. QED  BY <1>1, DeliveryInvHolds, PTL

-----------------------------------------------------------------------------
(***************************************************************************)
(* The Ready Pool.  A lock's rank, the number of locks created before it,  *)
(* numbers the locks 0, 1, 2, ... without a gap: it is injective into an   *)
(* interval of the same size, hence onto.  So the locks of rank below the  *)
(* target are as many as the target.                                       *)
(***************************************************************************)
Before(c, S) == {d \in S : d < c}

LEMMA RankIsInjective ==
    ASSUME NEW S \in SUBSET Candidates, NEW c \in S, NEW e \in S, c < e
    PROVE  Cardinality(Before(c, S)) < Cardinality(Before(e, S))
<1>1. /\ Before(c, S) \in SUBSET Candidates /\ Before(e, S) \in SUBSET Candidates
      /\ c \notin Before(c, S) /\ Before(c, S) \cup {c} \subseteq Before(e, S)
  <2>1. \A d \in S : d \in Nat
    BY EngineAssumption DEF Candidates
  <2>. QED  BY <2>1 DEF Before
<1>2. /\ IsFiniteSet(Before(c, S)) /\ Cardinality(Before(c, S)) \in Nat
      /\ IsFiniteSet(Before(e, S)) /\ Cardinality(Before(e, S)) \in Nat
    BY <1>1, CandidatesFinite
<1>3. Cardinality(Before(c, S) \cup {c}) = Cardinality(Before(c, S)) + 1
    BY <1>1, <1>2, FS_AddElement
<1>4. Cardinality(Before(c, S) \cup {c}) <= Cardinality(Before(e, S))
    BY <1>1, <1>2, FS_Subset
<1>. QED  BY <1>2, <1>3, <1>4

LEMMA RankIsOnto ==
    ASSUME NEW S \in SUBSET Candidates, NEW j \in Nat, j < Cardinality(S)
    PROVE  \E c \in S : Cardinality(Before(c, S)) = j
<1>. DEFINE n == Cardinality(S)
            I == 0..(n - 1)
            rank == [c \in S |-> Cardinality(Before(c, S))]
<1>1. IsFiniteSet(S) /\ n \in Nat /\ n > 0
    BY CandidatesFinite
<1>2. IsFiniteSet(I) /\ Cardinality(I) = n
  <2>1. 0 \in Int /\ n - 1 \in Int /\ ~(0 > n - 1) /\ (n - 1) - 0 + 1 = n
    BY <1>1
  <2>. HIDE DEF n
  <2>. QED  BY <2>1, FS_Interval
<1>3. ASSUME NEW c \in S PROVE rank[c] \in I
  <2>1. /\ Before(c, S) \in SUBSET S /\ Before(c, S) \in SUBSET Candidates
        /\ Before(c, S) # S
    <3>1. c \in Nat
      BY EngineAssumption DEF Candidates
    <3>2. c \notin Before(c, S)
      BY <3>1 DEF Before
    <3>. QED  BY <3>2 DEF Before
  <2>2. Cardinality(Before(c, S)) \in Nat /\ Cardinality(Before(c, S)) <= n
        /\ Cardinality(Before(c, S)) # n
    BY <1>1, <2>1, CandidatesFinite, FS_Subset
  <2>. QED  BY <1>1, <2>2
<1>4. ASSUME NEW c \in S, NEW e \in S, rank[c] = rank[e] PROVE c = e
  <2>1. c \in Nat /\ e \in Nat
    BY EngineAssumption DEF Candidates
  <2>2. ~(c < e) /\ ~(e < c)
    BY <1>1, <1>3, <1>4, RankIsInjective
  <2>. QED  BY <2>1, <2>2
<1>5. rank \in Injection(S, I)
    BY <1>3, <1>4 DEF Injection, IsInjective
<1>6. rank \in Surjection(S, I)
    BY <1>1, <1>2, <1>5, FS_Injection
<1>7. j \in I
    BY <1>1
<1>. QED  BY <1>6, <1>7 DEF Surjection

LEMMA FirstLocks ==
    ASSUME NEW S \in SUBSET Candidates, NEW n \in Nat, n <= Cardinality(S)
    PROVE  Cardinality({c \in S : Cardinality(Before(c, S)) < n}) = n
<1>. DEFINE K == {c \in S : Cardinality(Before(c, S)) < n}
            I == 0..(n - 1)
            rank == [c \in K |-> Cardinality(Before(c, S))]
<1>1. IsFiniteSet(K) /\ Cardinality(S) \in Nat
    BY CandidatesFinite
<1>2. Cardinality(I) = n
    BY FS_Interval
<1>3. ASSUME NEW c \in K PROVE rank[c] \in I
  <2>1. Before(c, S) \in SUBSET Candidates
    BY DEF Before
  <2>. QED  BY <2>1, CandidatesFinite
<1>4. ASSUME NEW c \in K, NEW e \in K, rank[c] = rank[e] PROVE c = e
  <2>1. c \in Nat /\ e \in Nat /\ c \in S /\ e \in S
    BY EngineAssumption DEF Candidates
  <2>2. ~(c < e) /\ ~(e < c)
    BY <1>3, <1>4, <2>1, RankIsInjective
  <2>. QED  BY <2>1, <2>2
<1>5. ASSUME NEW j \in I PROVE \E c \in K : rank[c] = j
  <2>1. j \in Nat /\ j < n /\ j < Cardinality(S)
    BY <1>1
  <2>2. PICK c \in S : Cardinality(Before(c, S)) = j
    BY <2>1, RankIsOnto
  <2>. QED  BY <2>1, <2>2
<1>6. rank \in Bijection(K, I)
    BY <1>3, <1>4, <1>5 DEF Bijection, Injection, IsInjective, Surjection
<1>7. ExistsBijection(K, I)
    BY <1>6 DEF ExistsBijection
<1>. QED  BY <1>1, <1>2, <1>7, FS_Bijection

ReadyPoolInv == RunInv /\ ReadyPoolIsExact

LEMMA ReadyPoolStep ==
    ASSUME TypeOK, ReadyPoolInv, RunInv', [Next]_vars
    PROVE  ReadyPoolInv'
<1>. SUFFICES ASSUME outcome' = "READY_POOL", TargetMode = "EXACT_N"
              PROVE  Cardinality(Ready)' = Target
    BY DEF ReadyPoolInv, ReadyPoolIsExact
<1>1. CompleteReadyPool \/ UNCHANGED <<item, outcome>>
  <2>1. CASE SomeVisit
    BY <2>1, RunInvVisit DEF SomeVisit, ReadyPoolInv
  <2>2. CASE pc # "down" /\ ~SomeVisit
    <3>1. outcome = "none" /\ Blocker # "READY_POOL"
      BY <2>2 DEF ReadyPoolInv, RunInv, Blocker
    <3>. QED
      BY <2>2, <3>1
         DEF SomeVisit, Next, WorkerStep, vars, pool, Stop, Start, StartEmpty, TickLimit,
             RefillReadyPool, BeginTick, Skip, EndTick, Refill, Deliver, SupplyExhausted,
             ManualReconciliation, WaitForCapacity, AfterTick
  <2>3. CASE pc = "down" /\ ~SomeVisit
    BY <2>3
       DEF SomeVisit, Next, WorkerStep, vars, pool, Stop, Start, StartEmpty, TickLimit,
           RefillReadyPool, BeginTick, Skip, EndTick, Refill, Deliver, SupplyExhausted,
           ManualReconciliation, WaitForCapacity, AfterTick, ScanEnds, Ticking
  <2>. QED  BY <2>1, <2>2, <2>3
<1>2. CASE UNCHANGED <<item, outcome>>
    BY <1>2 DEF ReadyPoolInv, ReadyPoolIsExact, Ready, InState
<1>3. CASE CompleteReadyPool
  <2>1. /\ Ready \in SUBSET Candidates /\ Target \in Nat
        /\ Cardinality(Ready) \in Nat /\ Target <= Cardinality(Ready)
    BY <1>3, InStateIsSubset, CandidatesFinite, EngineAssumption
       DEF CompleteReadyPool, ReadyPoolFull, Ready
  <2>2. ASSUME NEW c \in Ready PROVE Cardinality(Before(c, Ready)) \in Nat
    BY <2>1, CandidatesFinite DEF Before
  <2>3. Ready' = {c \in Ready : c \notin SurplusLocks}
    BY <1>3 DEF CompleteReadyPool, Ready, InState
  <2>4. Ready' = {c \in Ready : Cardinality(Before(c, Ready)) < Target}
    BY <2>1, <2>2, <2>3 DEF SurplusLocks, Before
  <2>. QED  BY <2>1, <2>4, FirstLocks
<1>. QED  BY <1>1, <1>2, <1>3

(* A Ready Pool of an EXACT_N order holds exactly target_count locks,       *)
(* however many the ticks before it locked.                                 *)
THEOREM ReadyPoolHolds == Spec => []ReadyPoolIsExact
<1>1. Init => ReadyPoolIsExact
    BY DEF Init, ReadyPoolIsExact
<1>2. DeliveryInv => RunInv
    BY DEF DeliveryInv
<1>3. TypeOK /\ ReadyPoolInv /\ RunInv' /\ [Next]_vars => ReadyPoolInv'
    BY ReadyPoolStep
<1>4. ReadyPoolInv <=> RunInv /\ ReadyPoolIsExact
    BY DEF ReadyPoolInv
<1>. QED  BY <1>1, <1>2, <1>3, <1>4, DeliveryInvHolds, TypeCorrect, PTL DEF Spec

-----------------------------------------------------------------------------
(***************************************************************************)
(* The paid order.  Every visit of a submitted candidate is one action of  *)
(* PaidOrder, a start reopens the reconcilable downloads, and nothing else *)
(* touches a submitted candidate.                                          *)
(***************************************************************************)
PaidStates == {"PROVIDER_ACTIVE", "PROVIDER_SUCCESS", "QUARANTINED_SUBMISSION_UNKNOWN"}

Done  == InState({"COMPLETED"})
Paid  == InState(PaidStates)
Ended == InState(EndedStates)

LEMMA PaidIsOutstanding == Cardinality(Paid) = outstanding_provider
<1>. DEFINE A == InState({"PROVIDER_ACTIVE"})
            Q == InState({"QUARANTINED_SUBMISSION_UNKNOWN"})
            U == InState({"PROVIDER_SUCCESS"})
<1>1. /\ A \cup Q \in SUBSET Candidates
      /\ IsFiniteSet(A) /\ IsFiniteSet(Q) /\ IsFiniteSet(U) /\ IsFiniteSet(A \cup Q)
      /\ Cardinality(A) \in Nat /\ Cardinality(Q) \in Nat /\ Cardinality(U) \in Nat
  <2>1. A \in SUBSET Candidates /\ Q \in SUBSET Candidates /\ U \in SUBSET Candidates
    BY InStateIsSubset
  <2>2. A \cup Q \in SUBSET Candidates
    BY <2>1
  <2>. QED  BY <2>1, <2>2, CandidatesFinite
<1>2. A \cap Q = {} /\ (A \cup Q) \cap U = {} /\ Paid = (A \cup Q) \cup U
    BY DEF InState, Paid, PaidStates
<1>. HIDE DEF A, Q, U
<1>3. Cardinality(A \cup Q) = Cardinality(A) + Cardinality(Q) - 0
    BY <1>1, <1>2, FS_Union, FS_EmptySet
<1>4. Cardinality((A \cup Q) \cup U) = Cardinality(A \cup Q) + Cardinality(U) - 0
  <2>. DEFINE B == A \cup Q
  <2>1. IsFiniteSet(B) /\ IsFiniteSet(U) /\ B \cap U = {}
    BY <1>1, <1>2
  <2>. HIDE DEF B
  <2>2. Cardinality(B \cup U) = Cardinality(B) + Cardinality(U) - Cardinality(B \cap U)
    BY <2>1, FS_Union
  <2>. QED  BY <2>1, <2>2, FS_EmptySet DEF B
<1>. QED
    BY <1>1, <1>2, <1>3, <1>4
       DEF A, Q, U, outstanding_provider, active_provider_count, unresolved_submission_unknown_count

LEMMA SameCardinality == \A S : Order!Cardinality(S) = Cardinality(S)
    BY DEF Order!Cardinality, Cardinality

LEMMA OrderVisit ==
    ASSUME TypeOK, RunInv, NEW c \in Candidates, NEW a, Visit(c, a)
    PROVE  \/ Order!Reserve(c) \/ Order!Refuse(c) \/ Order!Finish(c) \/ Order!Fail(c)
           \/ UNCHANGED <<Done, Paid, Ended>>
<1>. DEFINE s == item[c]
            n == item'[c]
<1>1. /\ item \in [Candidates -> ItemStates] /\ item' = [item EXCEPT ![c] = n]
      /\ s \in LiveStates /\ n \in ItemStates
    BY VisitOutcome DEF TypeOK
<1>2. /\ Done' = IF n = "COMPLETED" THEN Done \cup {c} ELSE Done \ {c}
      /\ Paid' = IF n \in PaidStates THEN Paid \cup {c} ELSE Paid \ {c}
      /\ Ended' = IF n \in EndedStates THEN Ended \cup {c} ELSE Ended \ {c}
    BY <1>1 DEF Done, Paid, Ended, InState
<1>3. /\ c \in Done <=> s = "COMPLETED"
      /\ c \in Paid <=> s \in PaidStates
      /\ c \in Ended <=> s \in EndedStates
    BY DEF Done, Paid, Ended, InState
<1>4. c \notin Done /\ c \notin Ended
    BY <1>1, <1>3, LiveStatesAre DEF EndedStates
<1>5. CASE s \in StageInputs
  <2>1. s \notin PaidStates /\ n \notin SubmittedStates
    BY <1>1, <1>5, VisitOutcome DEF StageInputs, PaidStates
  <2>. QED
    BY <1>2, <1>3, <1>4, <2>1 DEF SubmittedStates, PaidStates
<1>6. CASE s = "MODEL_INPUT_LOCKED"
  <2>1. c \notin Paid
    BY <1>3, <1>6 DEF PaidStates
  <2>2. Cardinality(Paid) < MaxSlots /\ Cardinality(Done) + Cardinality(Paid) < Target
    BY <1>6, PaidIsOutstanding DEF Visit, MayVisit, MaySubmit, Done, success_count
  <2>3. CASE n \in {"PROVIDER_ACTIVE", "QUARANTINED_SUBMISSION_UNKNOWN"}
    <3>1. Order!Reserve(c)
      BY <1>2, <1>4, <2>1, <2>2, <2>3, SameCardinality
         DEF Order!Reserve, Done, Paid, Ended, PaidStates, EndedStates
    <3>. QED  BY <3>1
  <2>4. CASE n \in {"HARD_STOP_ITEM", "PROVIDER_FAILED"}
    <3>1. Order!Refuse(c)
      BY <1>2, <1>4, <2>1, <2>4
         DEF Order!Refuse, Done, Paid, Ended, PaidStates, EndedStates
    <3>. QED  BY <3>1
  <2>5. CASE n = "MODEL_INPUT_LOCKED"
    BY <1>2, <1>4, <2>1, <2>5 DEF PaidStates, EndedStates
  <2>. QED  BY <1>1, <1>6, <2>3, <2>4, <2>5, VisitOutcome
<1>7. CASE s \in {"PROVIDER_ACTIVE", "PROVIDER_SUCCESS"}
  <2>1. c \in Paid
    BY <1>3, <1>7 DEF PaidStates
  <2>2. CASE n \in {"PROVIDER_ACTIVE", "PROVIDER_SUCCESS"}
    BY <1>2, <1>4, <2>1, <2>2 DEF PaidStates, EndedStates
  <2>3. CASE n = "COMPLETED"
    <3>1. Cardinality(Done) < Target
      BY DEF Visit, RunInv, Done, success_count
    <3>2. Order!Finish(c)
      BY <1>2, <1>4, <2>1, <2>3, <3>1, SameCardinality
         DEF Order!Finish, Done, Paid, Ended, PaidStates, EndedStates
    <3>. QED  BY <3>2
  <2>4. CASE n \in EndedStates
    <3>1. Order!Fail(c)
      BY <1>2, <1>4, <2>1, <2>4
         DEF Order!Fail, Done, Paid, Ended, PaidStates, EndedStates
    <3>. QED  BY <3>1
  <2>. QED  BY <1>1, <1>7, <2>2, <2>3, <2>4, VisitOutcome DEF EndedStates
<1>. QED  BY <1>1, <1>5, <1>6, <1>7, StageOf

LEMMA OrderStart ==
    ASSUME TypeOK, Start
    PROVE  \E S \in SUBSET Candidates : Order!Reopen(S)
<1>. DEFINE S == {c \in Candidates : DownloadReconcilable(c)}
<1>1. ASSUME NEW c \in Candidates
      PROVE  IF c \in S THEN item'[c] = "PROVIDER_SUCCESS" /\ item[c] \in EndedStates
             ELSE KeepsSubmitted(c)
    BY StartStep DEF DownloadReconcilable, EndedStates
<1>2. /\ S \subseteq Ended /\ Done' = Done
      /\ Paid' = Paid \cup S /\ Ended' = Ended \ S
    BY <1>1
       DEF Done, Paid, Ended, InState, PaidStates, EndedStates, SubmittedStates,
           KeepsSubmitted
<1>3. Order!Reopen(S)
    BY <1>2 DEF Order!Reopen, Done, Paid, Ended, PaidStates, EndedStates
<1>. QED  BY <1>3

LEMMA OrderStep ==
    ASSUME TypeOK, RunInv, [Next]_vars
    PROVE  [Order!Next]_(Order!order)
<1>1. CASE SomeVisit
  <2>1. PICK c \in Candidates, a \in Answers \cup {"accept"} : Visit(c, a)
    BY <1>1 DEF SomeVisit
  <2>2. CASE UNCHANGED <<Done, Paid, Ended>>
    BY <2>2 DEF Order!order, Done, Paid, Ended, PaidStates, EndedStates
  <2>. QED  BY <2>1, <2>2, OrderVisit DEF Order!Next
<1>2. CASE Start
    BY <1>2, OrderStart DEF Order!Next
<1>3. CASE ~SomeVisit /\ ~Start
  <2>1. UNCHANGED <<Done, Paid, Ended>>
    BY <1>3, OtherStep
       DEF Done, Paid, Ended, InState, PaidStates, EndedStates, SubmittedStates,
           KeepsSubmitted
  <2>. QED  BY <2>1 DEF Order!order, Done, Paid, Ended, PaidStates, EndedStates
<1>. QED  BY <1>1, <1>2, <1>3

(* The job is a paid order: it opens at most max_provider_slots             *)
(* reservations, never more than the target has room for, bills no ended    *)
(* candidate again and keeps every finished model.                          *)
THEOREM EngineImplementsPaidOrder == Spec => ImplementsPaidOrder
<1>1. Init => Order!Init
  <2>1. SUFFICES ASSUME Init
                 PROVE  Done = {} /\ Paid = {} /\ Ended = {}
    BY DEF Order!Init, Done, Paid, Ended, PaidStates, EndedStates
  <2>2. \A c \in Candidates : item[c] \notin SubmittedStates
    BY <2>1, EngineAssumption DEF Init, SubmittedStates, EndedStates
  <2>. QED
    BY <2>2 DEF Done, Paid, Ended, InState, PaidStates, SubmittedStates
<1>2. DeliveryInv => RunInv
    BY DEF DeliveryInv
<1>3. TypeOK /\ RunInv /\ [Next]_vars => [Order!Next]_(Order!order)
    BY OrderStep
<1>. QED
    BY <1>1, <1>2, <1>3, DeliveryInvHolds, TypeCorrect, PTL
       DEF Spec, ImplementsPaidOrder, Order!Spec

-----------------------------------------------------------------------------
(***************************************************************************)
(* What one start of the job keeps.  A resume may take up a model whose    *)
(* category was refilled meanwhile, or a completion whose gates were not   *)
(* recorded, so these two hold for a job that is started once.             *)
(***************************************************************************)
Fresh == pc = "down" /\ outcome = "none" /\ success_count = 0
           /\ \A c \in Candidates : glb[c] = "none"

GatesRecorded == \A g \in Gates : success_count >= g => g \in gates

FirstRunInv ==
    /\ starts = 0 => Fresh
    /\ pc # "down" \/ outcome = "DELIVERED" => GatesRecorded

LEMMA FirstStart ==
    ASSUME TypeOK, FirstRunInv, MaxStarts = 1, Start \/ StartEmpty
    PROVE  Fresh /\ starts' = 1
    BY DEF TypeOK, FirstRunInv, Start, StartEmpty, MayStart

LEMMA FirstRunStep ==
    ASSUME TypeOK, RunInv, FirstRunInv, MaxStarts = 1, [Next]_vars
    PROVE  FirstRunInv'
<1>1. success_count \in Nat /\ success_count' \in Nat
    BY InStateIsSubset
<1>2. CASE SomeVisit
  <2>1. PICK c \in Candidates, a \in Answers \cup {"accept"} : Visit(c, a)
    BY <1>2 DEF SomeVisit
  <2>2. pc = "scan" /\ UNCHANGED starts /\ starts # 0
    BY <2>1 DEF Visit, contract, FirstRunInv, Fresh
  <2>3. CASE pc' = "down" /\ outcome' = "HARD_STOP"
    BY <2>2, <2>3 DEF FirstRunInv
  <2>4. CASE gates' = IF item'[c] = "COMPLETED" THEN ReachedGates(success_count') ELSE gates
    <3>1. item'[c] # "COMPLETED" => success_count' = success_count
      BY <1>1, <2>1, VisitCount
    <3>2. GatesRecorded /\ Gates' = Gates
      BY <2>2 DEF FirstRunInv, Gates
    <3>3. GatesRecorded'
      BY <1>1, <2>4, <3>1, <3>2 DEF GatesRecorded, ReachedGates
    <3>. QED  BY <2>2, <3>3 DEF FirstRunInv
  <2>5. \/ pc' = "down" /\ outcome' = "HARD_STOP"
        \/ gates' = IF item'[c] = "COMPLETED" THEN ReachedGates(success_count') ELSE gates
    BY <2>1, VisitOutcome, VisitCount DEF Visit, Stop, TypeOK
  <2>. QED  BY <2>3, <2>4, <2>5
<1>3. CASE Start \/ StartEmpty
  <2>1. Fresh /\ starts' = 1 /\ pc = "down"
    BY <1>3, FirstStart DEF Fresh
  <2>2. ~SomeVisit
    BY <2>1 DEF SomeVisit, Visit
  <2>3. success_count' = 0
    BY <2>1, <2>2, QuietCount DEF Fresh
  <2>4. \A g \in Gates' : g \in Nat /\ g > 0
    BY EngineAssumption DEF Gates
  <2>. QED  BY <2>1, <2>3, <2>4 DEF FirstRunInv, GatesRecorded
<1>4. CASE ~SomeVisit /\ ~Start /\ ~StartEmpty
  <2>1. success_count' = success_count /\ Gates' = Gates
    BY <1>4, QuietCount DEF Gates
  <2>2. /\ UNCHANGED <<gates, starts>>
        /\ pc' # "down" \/ outcome' = "DELIVERED" => pc # "down" \/ outcome = "DELIVERED"
        /\ pc = "down" => UNCHANGED <<pc, outcome, glb>>
    BY <1>4
       DEF SomeVisit, Next, WorkerStep, vars, pool, contract, TickLimit, RefillReadyPool,
           CompleteReadyPool, BeginTick, Skip, EndTick, Refill, Deliver, SupplyExhausted,
           ManualReconciliation, WaitForCapacity, AfterTick, ScanEnds, Ticking
  <2>. QED  BY <2>1, <2>2 DEF FirstRunInv, Fresh, GatesRecorded
<1>. QED  BY <1>2, <1>3, <1>4

LEMMA FirstRunInit == Init => FirstRunInv
<1>. SUFFICES ASSUME Init PROVE FirstRunInv
    OBVIOUS
<1>1. InState({"COMPLETED"}) = {}
    BY EngineAssumption DEF Init, InState, SubmittedStates
<1>2. success_count = 0
    BY <1>1, FS_EmptySet DEF success_count
<1>. QED  BY <1>2 DEF Init, FirstRunInv, Fresh

(* Every finished model of a delivered order was seen by the progressive    *)
(* gates it reached, when no resume followed a completion the registry did  *)
(* not take (_record_reached_gates).                                        *)
THEOREM GatesHold == MaxStarts = 1 => (Spec => []DeliveredPassedGates)
<1>. SUFFICES ASSUME MaxStarts = 1 PROVE Spec => []DeliveredPassedGates
    OBVIOUS
<1>1. DeliveryInv => RunInv
    BY DEF DeliveryInv
<1>2. TypeOK /\ RunInv /\ FirstRunInv /\ [Next]_vars => FirstRunInv'
    BY FirstRunStep
<1>3. FirstRunInv => DeliveredPassedGates
    BY DEF FirstRunInv, GatesRecorded, DeliveredPassedGates
<1>. QED
    BY <1>1, <1>2, <1>3, FirstRunInit, DeliveryInvHolds, TypeCorrect, PTL DEF Spec

-----------------------------------------------------------------------------
OpenStates == {"COMPLETED", "PROVIDER_ACTIVE", "PROVIDER_SUCCESS"}

(* Only a submission below the share, or a resume that takes up an old      *)
(* download, adds to what a category holds.                                 *)
LEMMA CategoryVisit ==
    ASSUME TypeOK, NEW c \in Candidates, NEW a, Visit(c, a), NEW k
    PROVE  \/ OfCategory(k, OpenStates)' \subseteq OfCategory(k, OpenStates)
           \/ /\ OfCategory(k, OpenStates)' \subseteq OfCategory(k, OpenStates) \cup {c}
              /\ CategoryOf[c] = k /\ MaySubmit(c)
<1>1. /\ item \in [Candidates -> ItemStates] /\ item' = [item EXCEPT ![c] = item'[c]]
      /\ item[c] \in LiveStates
    BY VisitOutcome DEF TypeOK
<1>2. OfCategory(k, OpenStates)' \subseteq OfCategory(k, OpenStates) \cup {c}
    BY <1>1 DEF OfCategory, InState
<1>3. CASE CategoryOf[c] # k \/ item'[c] \notin OpenStates \/ item[c] \in OpenStates
    BY <1>1, <1>3 DEF OfCategory, InState
<1>4. CASE item'[c] \in OpenStates /\ item[c] \notin OpenStates
  <2>1. item[c] = "MODEL_INPUT_LOCKED"
    BY <1>1, <1>4, VisitOutcome, StageOf DEF OpenStates, SubmittedStates
  <2>2. MaySubmit(c)
    BY <2>1 DEF Visit, MayVisit
  <2>. QED  BY <1>2, <1>3, <2>2
<1>. QED  BY <1>3, <1>4

Revival == Start /\ \E c \in Candidates : DownloadReconcilable(c)

LEMMA CategoryQuiet ==
    ASSUME TypeOK, [Next]_vars, ~SomeVisit, ~Revival, NEW k
    PROVE  OfCategory(k, OpenStates)' = OfCategory(k, OpenStates)
<1>1. \A c \in Candidates : KeepsSubmitted(c)
    BY StartStep, OtherStep DEF Revival
<1>. QED
    BY <1>1 DEF KeepsSubmitted, SubmittedStates, OpenStates, OfCategory, InState

LEMMA QuotaStep ==
    ASSUME TypeOK, QuotaKept, [Next]_vars, ~Revival
    PROVE  QuotaKept'
<1>. SUFFICES ASSUME QuotaMode # "NONE", Spillover # "AUTO_IF_EXPLICIT",
                     NEW k \in Categories
              PROVE  category_outstanding(k)' <= Quota[k]
    BY DEF QuotaKept
<1>. DEFINE H == OfCategory(k, OpenStates)
<1>1. category_outstanding(k) <= Quota[k] /\ Quota[k] \in Nat
    BY EngineAssumption DEF QuotaKept
<1>2. H \in SUBSET Candidates /\ H' \in SUBSET Candidates
    BY DEF OfCategory, InState
<1>3. category_outstanding(k) = Cardinality(H) /\ category_outstanding(k)' = Cardinality(H')
    BY DEF category_outstanding, OpenStates
<1>4. IsFiniteSet(H) /\ Cardinality(H) \in Nat /\ Cardinality(H') \in Nat
    BY <1>2, CandidatesFinite
<1>5. CASE H' \subseteq H
  <2>1. Cardinality(H') <= Cardinality(H)
    BY <1>4, <1>5, FS_Subset
  <2>. QED  BY <1>1, <1>3, <1>4, <2>1
<1>6. ASSUME NEW c \in Candidates, H' \subseteq H \cup {c}, CategoryOf[c] = k, MaySubmit(c)
      PROVE  category_outstanding(k)' <= Quota[k]
  <2>1. category_outstanding(k) < Quota[k]
    BY <1>6 DEF MaySubmit, category_has_capacity, SpilloverOpen
  <2>2. IsFiniteSet(H \cup {c}) /\ Cardinality(H \cup {c}) \in Nat
        /\ Cardinality(H \cup {c}) <= Cardinality(H) + 1
    <3>. HIDE DEF H
    <3>1. /\ IsFiniteSet(H \cup {c})
          /\ Cardinality(H \cup {c}) = IF c \in H THEN Cardinality(H) ELSE Cardinality(H) + 1
      BY <1>4, FS_AddElement
    <3>. QED  BY <1>4, <3>1
  <2>3. Cardinality(H') <= Cardinality(H \cup {c})
    BY <1>6, <2>2, FS_Subset
  <2>. QED  BY <1>1, <1>3, <1>4, <2>1, <2>2, <2>3
<1>7. CASE SomeVisit
    BY <1>5, <1>6, <1>7, CategoryVisit DEF SomeVisit
<1>8. CASE ~SomeVisit
    BY <1>5, <1>8, CategoryQuiet
<1>. QED  BY <1>7, <1>8

(* However often the job is resumed, only a resume that takes up an old     *)
(* download makes a category hold more than its share.                      *)
THEOREM OnlyRevivalOverruns == Spec => [][~Revival /\ QuotaKept => QuotaKept']_vars
<1>1. TypeOK /\ [Next]_vars => [~Revival /\ QuotaKept => QuotaKept']_vars
    BY QuotaStep
<1>. QED  BY <1>1, TypeCorrect, PTL DEF Spec

(* Without spillover no category ever holds more models, finished or being  *)
(* generated, than its share of the order, as long as no resume takes up a  *)
(* download whose share was given away meanwhile.                           *)
THEOREM QuotaHolds == MaxStarts = 1 => (Spec => []QuotaKept)
<1>. SUFFICES ASSUME MaxStarts = 1 PROVE Spec => []QuotaKept
    OBVIOUS
<1>1. Init => QuotaKept
  <2>. SUFFICES ASSUME Init, NEW k \in Categories
                PROVE  category_outstanding(k) <= Quota[k]
    BY DEF QuotaKept
  <2>0. \A c \in Candidates : item[c] \notin SubmittedStates
    BY EngineAssumption DEF Init, SubmittedStates, EndedStates
  <2>1. OfCategory(k, {"COMPLETED", "PROVIDER_ACTIVE", "PROVIDER_SUCCESS"}) = {}
    BY <2>0 DEF OfCategory, InState, SubmittedStates
  <2>2. category_outstanding(k) = 0 /\ Quota[k] \in Nat
    BY <2>1, FS_EmptySet, EngineAssumption DEF category_outstanding
  <2>. QED  BY <2>2
<1>2. DeliveryInv => RunInv
    BY DEF DeliveryInv
<1>3. TypeOK /\ RunInv /\ FirstRunInv /\ [Next]_vars => FirstRunInv'
    BY FirstRunStep
<1>4. TypeOK /\ FirstRunInv /\ QuotaKept /\ [Next]_vars => QuotaKept'
    BY QuotaStep, FirstStart DEF Revival, Fresh, DownloadReconcilable
<1>. QED
    BY <1>1, <1>2, <1>3, <1>4, FirstRunInit, DeliveryInvHolds, TypeCorrect, PTL DEF Spec

-----------------------------------------------------------------------------
(***************************************************************************)
(* Ticks that do nothing.  A tick in which nothing was visited saw the     *)
(* same pool from its beginning to its end.                                *)
(***************************************************************************)
IdleScan ==
    pc = "scan" /\ steps = 0 /\ ~changed
      => OverquotaLocks = {} /\ \A c \in 1..cursor : ~MayVisit(c)

(* What a candidate may do depends on the states of the pool alone. *)
LEMMA SamePool ==
    ASSUME UNCHANGED item
    PROVE  /\ OverquotaLocks' = OverquotaLocks
           /\ \A c : MayVisit(c)' = MayVisit(c)
<1>1. success_count' = success_count /\ outstanding_provider' = outstanding_provider
    BY DEF success_count, outstanding_provider, active_provider_count,
           unresolved_submission_unknown_count, InState
<1>2. \A k, S : OfCategory(k, S)' = OfCategory(k, S)
    BY DEF OfCategory, InState
<1>3. \A k : category_outstanding(k)' = category_outstanding(k)
    BY <1>2 DEF category_outstanding
<1>4. \A k : Deficit(k)' = Deficit(k)
    BY <1>2, <1>3 DEF Deficit, category_has_remaining_supply, LiveStates
<1>5. SpilloverOpen' = SpilloverOpen
    BY <1>4 DEF SpilloverOpen
<1>6. OverquotaLocks' = OverquotaLocks
    BY <1>2, <1>5 DEF OverquotaLocks, Ready, InState
<1>7. \A c : MayVisit(c)' = MayVisit(c)
    BY <1>1, <1>3, <1>5 DEF MayVisit, MaySubmit, category_has_capacity
<1>. QED  BY <1>6, <1>7

LEMMA IdleScanStep ==
    ASSUME TypeOK, IdleScan, [Next]_vars
    PROVE  IdleScan'
<1>. SUFFICES ASSUME pc' = "scan", steps' = 0, ~changed'
              PROVE  OverquotaLocks' = {} /\ \A c \in 1..cursor' : ~MayVisit(c)'
    BY DEF IdleScan
<1>1. CASE BeginTick
  <2>1. cursor' = 0 /\ OverquotaLocks = {}
    BY <1>1 DEF BeginTick
  <2>2. item' = item
    BY <1>1, <2>1 DEF BeginTick, TypeOK
  <2>. QED  BY <2>1, <2>2, SamePool
<1>2. CASE Skip
  <2>1. /\ UNCHANGED <<item, steps, changed>> /\ pc = "scan"
        /\ cursor' = cursor + 1 /\ ~MayVisit(cursor + 1) /\ cursor \in Nat
    BY <1>2 DEF Skip, pool, TypeOK
  <2>2. \A c \in 1..cursor' : c \in 1..cursor \/ c = cursor + 1
    BY <2>1
  <2>. QED  BY <2>1, <2>2, SamePool DEF IdleScan
<1>3. CASE UNCHANGED <<item, pc, steps, changed, cursor>>
    BY <1>3, SamePool DEF IdleScan
<1>4. CASE SomeVisit
  <2>1. steps' = steps + 1 /\ steps \in Nat
    BY <1>4 DEF SomeVisit, Visit, TypeOK
  <2>. QED  BY <2>1
<1>. QED
    BY <1>1, <1>2, <1>3, <1>4
       DEF Next, WorkerStep, SomeVisit, vars, pool, tick, Stop, Start, StartEmpty,
           TickLimit, RefillReadyPool, CompleteReadyPool, EndTick, Refill, Deliver,
           SupplyExhausted, ManualReconciliation, WaitForCapacity, AfterTick

(* Enough slots for the target, a step per tick, every category in the      *)
(* quota lock.                                                              *)
NoSlotBinds ==
    /\ MaxSlots >= Target /\ MaxStepsPerTick > 0
    /\ QuotaMode = "NONE" \/ \A c \in Candidates : CategoryOf[c] \in Categories

(* If nothing that is left may be visited, the order is at a boundary: a    *)
(* lock is held back by a full category, which the tick's beginning would   *)
(* have rejected, or by open reservations, which are then all unknown.      *)
LEMMA IdleTickIsBoundary ==
    ASSUME TypeOK, RunInv, NoSlotBinds, pc = "scan", OverquotaLocks = {},
           \A c \in Candidates : ~MayVisit(c), Live # {}, active_provider_count = 0
    PROVE  AtManualReconciliation
<1>1. ASSUME NEW c \in Live PROVE item[c] = "MODEL_INPUT_LOCKED" /\ ~MaySubmit(c)
    BY <1>1 DEF Live, InState, MayVisit
<1>2. PICK c \in Candidates : item[c] = "MODEL_INPUT_LOCKED" /\ ~MaySubmit(c)
    BY <1>1 DEF Live, InState
<1>3. InState({"PROVIDER_ACTIVE"}) = {} /\ InState({"PROVIDER_SUCCESS"}) = {}
    BY <1>1, StageOf DEF Live, InState
<1>4. Cardinality(InState({"PROVIDER_SUCCESS"})) = 0
      /\ outstanding_provider = unresolved_submission_unknown_count
      /\ unresolved_submission_unknown_count \in Nat
  <2>1. unresolved_submission_unknown_count \in Nat
    BY InStateIsSubset, CandidatesFinite DEF unresolved_submission_unknown_count
  <2>. QED  BY <1>3, <2>1, FS_EmptySet DEF outstanding_provider
<1>5. category_has_capacity(c)
  <2>1. SUFFICES ASSUME QuotaMode # "NONE", ~SpilloverOpen
                 PROVE  category_outstanding(CategoryOf[c]) < Quota[CategoryOf[c]]
    BY DEF NoSlotBinds, category_has_capacity
  <2>. DEFINE k == CategoryOf[c]
  <2>2. k \in Categories /\ Quota[k] \in Nat
    BY <2>1, EngineAssumption DEF NoSlotBinds
  <2>3. category_outstanding(k) = Cardinality(OfCategory(k, {"COMPLETED"}))
    <3>1. OfCategory(k, {"COMPLETED", "PROVIDER_ACTIVE", "PROVIDER_SUCCESS"})
            = OfCategory(k, {"COMPLETED"})
      BY <1>3 DEF OfCategory, InState
    <3>. QED  BY <3>1 DEF category_outstanding
  <2>4. category_outstanding(k) \in Nat
    <3>1. OfCategory(k, {"COMPLETED"}) \in SUBSET Candidates
      BY DEF OfCategory, InState
    <3>. QED  BY <2>3, <3>1, CandidatesFinite
  <2>5. ~(category_outstanding(k) >= Quota[k])
    BY <1>2, <2>1, <2>2, <2>3 DEF OverquotaLocks, Ready, InState
  <2>. HIDE DEF k
  <2>. QED  BY <2>2, <2>4, <2>5 DEF k
<1>6. success_count + unresolved_submission_unknown_count >= Target
      /\ unresolved_submission_unknown_count > 0
  <2>1. success_count \in Nat /\ success_count < Target /\ Target \in Nat /\ MaxSlots \in Nat
        /\ MaxSlots >= Target
    BY InStateIsSubset, EngineAssumption DEF RunInv, NoSlotBinds
  <2>2. ~(outstanding_provider < MaxSlots) \/ ~(success_count + outstanding_provider < Target)
    BY <1>2, <1>5 DEF MaySubmit
  <2>. QED  BY <1>4, <2>1, <2>2
<1>. QED  BY <1>3, <1>6 DEF AtManualReconciliation

BusyInv == RunInv /\ IdleScan /\ EveryTickDoesSomething

LEMMA BusyStep ==
    ASSUME TypeOK, BusyInv, NoSlotBinds, [Next]_vars
    PROVE  EveryTickDoesSomething'
<1>. SUFFICES ASSUME pc' = "after", status' = "RUNNING" PROVE (steps > 0 \/ changed)'
    BY DEF EveryTickDoesSomething
<1>1. CASE EndTick
  <2>1. SUFFICES ASSUME ~(steps > 0), ~changed PROVE FALSE
    BY <1>1 DEF EndTick
  <2>2. /\ steps = 0 /\ pc = "scan" /\ cursor = NumCandidates
        /\ TickStatus = "RUNNING" /\ Live # {}
    BY <1>1, <2>1, EngineAssumption DEF EndTick, ScanEnds, TypeOK, NoSlotBinds
  <2>3. OverquotaLocks = {} /\ \A c \in Candidates : ~MayVisit(c)
    BY <2>1, <2>2 DEF BusyInv, IdleScan, Candidates
  <2>4. ~(active_provider_count > 0) /\ ~AtManualReconciliation
    BY <2>2 DEF TickStatus
  <2>5. active_provider_count \in Nat
    BY InStateIsSubset, CandidatesFinite DEF active_provider_count
  <2>6. active_provider_count = 0
    BY <2>4, <2>5
  <2>. QED  BY <2>2, <2>3, <2>4, <2>6, IdleTickIsBoundary DEF BusyInv
<1>2. CASE Refill
    BY <1>2 DEF Refill, Stop
<1>3. CASE UNCHANGED <<pc, status, steps, changed>>
    BY <1>3 DEF BusyInv, EveryTickDoesSomething
<1>4. CASE SomeVisit
  <2>1. pc' = "after" => status' = "SUCCEEDED"
    BY <1>4, VisitOutcome DEF SomeVisit, Visit, Stop, TypeOK
  <2>. QED  BY <2>1
<1>. QED
    BY <1>1, <1>2, <1>3, <1>4
       DEF Next, WorkerStep, SomeVisit, vars, pool, tick, Stop, Start, StartEmpty,
           TickLimit, RefillReadyPool, CompleteReadyPool, BeginTick, Skip, Deliver,
           SupplyExhausted, ManualReconciliation, WaitForCapacity, AfterTick

(* With at least as many slots as models ordered, a tick that reports       *)
(* RUNNING visited or rejected a candidate or was given new ones.  So the   *)
(* idle ticks of the run EngineSlotSpin have one cause, fewer slots than    *)
(* the target (the boundary in tick() compares with the target alone).      *)
THEOREM TicksAreBusy == NoSlotBinds => (Spec => []EveryTickDoesSomething)
<1>. SUFFICES ASSUME NoSlotBinds PROVE Spec => []EveryTickDoesSomething
    OBVIOUS
<1>1. Init => IdleScan /\ EveryTickDoesSomething
    BY DEF Init, IdleScan, EveryTickDoesSomething
<1>2. DeliveryInv => RunInv
    BY DEF DeliveryInv
<1>3. TypeOK /\ IdleScan /\ [Next]_vars => IdleScan'
    BY IdleScanStep
<1>4. TypeOK /\ RunInv /\ IdleScan /\ EveryTickDoesSomething /\ [Next]_vars
        => EveryTickDoesSomething'
    BY BusyStep DEF BusyInv
<1>. QED
    BY <1>1, <1>2, <1>3, <1>4, DeliveryInvHolds, TypeCorrect, PTL DEF Spec
=============================================================================
