-------------------------- MODULE ProductionEngine --------------------------
(***************************************************************************)
(* One production job as ProductionPipeline.run (workers/                  *)
(* production_pipeline.py) drives it: the loop of run(), the tick of       *)
(* ProductionWorkflowEngine (packages/workflow-engine, runtime.py) over    *)
(* all stages of a candidate, the category quotas, replacement supply, and *)
(* the ways the job stops and is resumed.                                  *)
(*                                                                         *)
(* A visit of a candidate - the adapter's stage and the pool write that    *)
(* applies its outcome - is one step here; ProviderLedger takes the paid   *)
(* stages apart.  What a stage answers depends on the site, the reviewer   *)
(* and the provider, so it is any answer the stage can give.               *)
(***************************************************************************)
EXTENDS Naturals, FiniteSets, FiniteSetsExt

CONSTANTS
    NumCandidates,    \* products of the selected scope, numbered by created_at
    StartStates,      \* states the checkpoint's candidates can be in
    Categories,       \* keys of the category quota lock
    CategoryOf,       \* category of each candidate
    Quota,            \* categories of the order policy lock
    QuotaMode,        \* category_quota_mode: REQUIRED or NONE
    Spillover,        \* ASK, STOP or AUTO_IF_EXPLICIT
    Target,           \* target_count
    TargetMode,       \* EXACT_N, UP_TO_N or ALL
    AllowShortfall,   \* allow_shortfall_delivery
    Providers,        \* OFF, ON or both: what the owner chooses in the contract
    MaxSlots,         \* max_provider_slots
    MaxStepsPerTick,  \* max_steps_per_tick
    MaxRefillRounds,  \* max_refill_rounds
    Answers,          \* bound: what the stages answer besides "accept"
    MaxStarts         \* bound: starts and resumes of the job

Candidates == 1..NumCandidates

MAX_UNRESOLVED_SUBMISSIONS == 3

TERMINAL_ITEM_STATES ==
    {"HISTORICAL_DUPLICATE", "DATE_REJECTED", "ABANDONED_SUBMISSION_UNKNOWN",
     "CAPTURE_REJECTED", "MEDIA_REJECTED", "VISUAL_REJECTED", "CATEGORY_REJECTED",
     "DIMENSION_REJECTED", "NAMING_REVIEW", "PROVIDER_FAILED", "RAW_GLB_INVALID",
     "MANUAL_REVIEW", "QUARANTINED_SUBMISSION_UNKNOWN", "HARD_STOP_ITEM", "COMPLETED",
     "ORDER_COMPLETE_NOT_NEEDED"}

next_stage ==
    [DISCOVERED |-> "capture", CAPTURE_READY |-> "media", MEDIA_READY |-> "visual",
     VISUAL_PENDING |-> "visual", VISUAL_ACCEPTED |-> "category",
     CATEGORY_ACCEPTED |-> "date", DATE_ACCEPTED |-> "dimension",
     DIMENSION_PENDING |-> "dimension", DIMENSION_READY |-> "naming",
     NAMING_READY |-> "catalog", CATALOG_READY |-> "model_input",
     MODEL_INPUT_LOCKED |-> "submit", PROVIDER_ACTIVE |-> "poll",
     PROVIDER_SUCCESS |-> "download"]

LiveStates == DOMAIN next_stage
ItemStates == LiveStates \cup TERMINAL_ITEM_STATES \cup {"ABSENT"}

EndedStates == {"PROVIDER_FAILED", "RAW_GLB_INVALID", "MANUAL_REVIEW", "HARD_STOP_ITEM"}

(* The candidates a paid call was made or refused for. *)
SubmittedStates ==
    {"PROVIDER_ACTIVE", "PROVIDER_SUCCESS", "QUARANTINED_SUBMISSION_UNKNOWN", "COMPLETED"}
        \cup EndedStates

(* The checkpoint's candidates are not submitted by this order yet.          *)
ASSUME EngineAssumption ==
    /\ NumCandidates \in Nat /\ Target \in Nat \ {0}
    /\ MaxSlots \in Nat /\ MaxStepsPerTick \in Nat
    /\ MaxRefillRounds \in Nat /\ MaxStarts \in Nat
    /\ StartStates \subseteq ItemStates \ (SubmittedStates \cup {"ABSENT"})
    /\ Quota \in [Categories -> Nat]
    /\ Providers \subseteq {"OFF", "ON"}

accepted_state ==
    [capture |-> "CAPTURE_READY", media |-> "MEDIA_READY", visual |-> "VISUAL_ACCEPTED",
     category |-> "CATEGORY_ACCEPTED", date |-> "DATE_ACCEPTED",
     dimension |-> "DIMENSION_READY", naming |-> "NAMING_READY",
     catalog |-> "CATALOG_READY", model_input |-> "MODEL_INPUT_LOCKED",
     submit |-> "PROVIDER_ACTIVE", poll |-> "PROVIDER_SUCCESS", download |-> "COMPLETED"]

rejected_state ==
    [capture |-> "CAPTURE_REJECTED", media |-> "MEDIA_REJECTED",
     visual |-> "VISUAL_REJECTED", category |-> "CATEGORY_REJECTED",
     dimension |-> "DIMENSION_REJECTED", naming |-> "NAMING_REVIEW",
     submit |-> "PROVIDER_FAILED", poll |-> "PROVIDER_FAILED",
     download |-> "RAW_GLB_INVALID"]

PendingAnswers ==
    {"l2", "brain", "review", "dimension", "dimension_l2", "access", "off", "gate",
     "capacity", "timeout", "orientation"}

HardStops == {"limit", "blender"}

Reasons == PendingAnswers \cup {"none", "retry"}

Outcomes ==
    {"none", "DELIVERED", "READY_POOL", "TARGET_SHORTAGE", "HUMAN_DECISION",
     "SUBMISSION_UNKNOWN", "PROVIDER_CAPACITY", "ORIENTATION_REVIEW",
     "DIMENSION_LOOKUP", "BRAIN_DECISION", "L2_BROWSER", "DISCOVERY", "HARD_STOP",
     "DELIVERY_QA", "BOUNDED_TICK_LIMIT"}

RuntimeStatuses ==
    {"RUNNING", "WAITING_PROVIDER", "SUCCEEDED", "SUPPLY_EXHAUSTED",
     "MANUAL_RECONCILIATION"}

VARIABLES
    provider,   \* the contract's provider, OFF or ON
    item,       \* state of each candidate; ABSENT while not in the pool
    why,        \* what its rejection_reason says it waits for
    glb,        \* valid raw GLB on disk: none, valid, or a copy of a finished one
    capRows,    \* candidates whose ledger row is CAPACITY_WAIT
    repaired,   \* lineage.naming_contract_reconciled is current
    gates,      \* progressive gates with a PASS receipt
    pc, cursor, steps, status,
    progressed, \* a visit of this tick returned True
    changed,    \* _candidate_progress_signature differs from before the tick
    rounds,     \* refill_rounds of this engine
    outcome,    \* the event the worker stopped with
    starts

pool == <<item, why, glb, capRows, repaired, gates>>
tick == <<cursor, steps, status, progressed, changed>>
contract == <<provider, starts>>
vars == <<pool, pc, tick, rounds, outcome, contract>>

Gates == {g \in {1, 3, Target} : g <= Target}

TypeOK ==
    /\ provider \in Providers
    /\ item \in [Candidates -> ItemStates]
    /\ why \in [Candidates -> Reasons]
    /\ glb \in [Candidates -> {"none", "valid", "copy"}]
    /\ capRows \subseteq Candidates /\ repaired \subseteq Candidates
    /\ gates \subseteq Gates
    /\ pc \in {"down", "top", "scan", "end", "after"}
    /\ cursor \in 0..NumCandidates /\ steps \in 0..MaxStepsPerTick
    /\ status \in RuntimeStatuses
    /\ progressed \in BOOLEAN /\ changed \in BOOLEAN
    /\ rounds \in 0..MaxRefillRounds
    /\ outcome \in Outcomes
    /\ starts \in 0..MaxStarts

(***************************************************************************)
(* What each stage can answer.  A pending answer is named for the reason it *)
(* leaves on the candidate.                                                 *)
(***************************************************************************)
(* Out of scope, an identity conflict or already in the registry. *)
CaptureAnswers == {"accept", "reject"}

(* l2: the image needs the visible browser. *)
MediaAnswers == {"accept", "reject", "l2"}

(* _product_decision: there is no review of the product yet.                 *)
DecisionAnswers == {"brain"}

(* _retry_same_product_with_next_image: the next image is bound, or needs    *)
(* the visible browser.                                                      *)
NextImageAnswers == {"retry", "l2"}

(* review: a second review is asked for.                                     *)
VisualAnswers == {"accept", "reject", "review"} \cup DecisionAnswers \cup NextImageAnswers

CategoryAnswers == {"accept", "reject"}

(* The official lookup is incomplete, or behind the visible browser          *)
(* (dimension_l2), or the site denies access.                                *)
LookupAnswers == {"dimension", "dimension_l2", "access"}

(* The brain has not estimated a dimension to scale by.                      *)
EstimateAnswers == {"brain"}

(* What was found makes a set of dimensions, none, or needs a unit.          *)
GovernedAnswers == {"accept", "reject", "dimension"}

DimensionAnswers == LookupAnswers \cup EstimateAnswers \cup GovernedAnswers

NamingAnswers == {"accept", "reject"}

(* gate: the production gate has not passed; unknown: the create's outcome  *)
(* is ambiguous; limit: the approved calls are used up.                     *)
SubmitAnswers ==
    IF provider = "ON" THEN {"accept", "reject", "gate", "capacity", "unknown", "limit"}
    ELSE {"off"}

PollAnswers == {"accept", "reject", "timeout"}

(* validate_glb: no file, or not a GLB.                                      *)
FileAnswers == {"invalid"}

(* _orientation_review: the four views need a review.                        *)
OrientationAnswers == {"orientation"}

(* normalize_and_qa: the geometry misses the official dimensions, or the     *)
(* tool fails.                                                               *)
QaAnswers == {"conflict", "qa_failed"}

(* duplicate: the bytes of another model; blender: there is no tool.         *)
DownloadAnswers ==
    {"accept", "duplicate", "blender"} \cup FileAnswers \cup OrientationAnswers \cup QaAnswers

StageAnswers ==
    [capture |-> CaptureAnswers, media |-> MediaAnswers, visual |-> VisualAnswers,
     category |-> CategoryAnswers, date |-> {"accept"}, dimension |-> DimensionAnswers,
     naming |-> NamingAnswers, catalog |-> {"accept"}, model_input |-> {"accept"},
     submit |-> SubmitAnswers, poll |-> PollAnswers, download |-> DownloadAnswers]

(***************************************************************************)
(* Counts over the pool.                                                   *)
(***************************************************************************)
InState(S) == {c \in Candidates : item[c] \in S}

success_count == Cardinality(InState({"COMPLETED"}))
active_provider_count == Cardinality(InState({"PROVIDER_ACTIVE"}))
unresolved_submission_unknown_count ==
    Cardinality(InState({"QUARANTINED_SUBMISSION_UNKNOWN"}))

outstanding_provider ==
    active_provider_count + unresolved_submission_unknown_count
        + Cardinality(InState({"PROVIDER_SUCCESS"}))

(* Mutant: the target is noticed one model late. *)
TargetReachedLate(n) == n > Target

TargetReached(n) == n >= Target

Present == {c \in Candidates : item[c] # "ABSENT"}

(* Mutant: a candidate that waits for something no longer counts. *)
LiveUnblocked == {c \in InState(LiveStates) : why[c] \notin PendingAnswers}

Live == InState(LiveStates)
Ready   == InState({"MODEL_INPUT_LOCKED"})

Monus(a, b) == IF a > b THEN a - b ELSE 0

refill_needed ==
    Monus(Target, success_count + active_provider_count
                      + unresolved_submission_unknown_count)

(***************************************************************************)
(* Category quotas.                                                        *)
(***************************************************************************)
OfCategory(k, S) == {c \in InState(S) : CategoryOf[c] = k}

(* Mutant: a model being generated does not take its category's share yet. *)
category_outstandingDone(k) == Cardinality(OfCategory(k, {"COMPLETED"}))

category_outstanding(k) ==
    Cardinality(OfCategory(k, {"COMPLETED", "PROVIDER_ACTIVE", "PROVIDER_SUCCESS"}))

category_has_remaining_supply(k) == OfCategory(k, LiveStates) # {}

Deficit(k) ==
    IF category_has_remaining_supply(k) THEN 0 ELSE Monus(Quota[k], category_outstanding(k))

spillover_deficit == MapThenSumSet(Deficit, Categories)

(* _spillover_deficit() > 0: the sum is positive when one share is open.     *)
SpilloverOpen ==
    Spillover = "AUTO_IF_EXPLICIT" /\ \E k \in Categories : Deficit(k) > 0

category_has_capacity(c) ==
    \/ QuotaMode = "NONE"
    \/ /\ CategoryOf[c] \in Categories
       /\ \/ category_outstanding(CategoryOf[c]) < Quota[CategoryOf[c]]
          \/ SpilloverOpen

OverquotaLocks ==
    IF QuotaMode = "NONE" \/ SpilloverOpen THEN {}
    ELSE {c \in Ready :
            /\ CategoryOf[c] \in Categories
            /\ Cardinality(OfCategory(CategoryOf[c], {"COMPLETED"})) >= Quota[CategoryOf[c]]}

-----------------------------------------------------------------------------
(***************************************************************************)
(* The checkpoint the job starts from: the first candidates of the scope   *)
(* are in the pool, none of them submitted by this order yet.              *)
(***************************************************************************)
Init ==
    /\ provider \in Providers
    /\ \E m \in 0..NumCandidates :
         item \in {f \in [Candidates -> StartStates \cup {"ABSENT"}] :
                     \A c \in Candidates : f[c] = "ABSENT" <=> c > m}
    /\ why = [c \in Candidates |-> "none"]
    /\ glb = [c \in Candidates |-> "none"]
    /\ capRows = {} /\ repaired = {} /\ gates = {}
    /\ pc = "down" /\ cursor = 0 /\ steps = 0 /\ status = "RUNNING"
    /\ progressed = FALSE /\ changed = FALSE
    /\ rounds = 0 /\ outcome = "none" /\ starts = 0

Stop(o) == pc' = "down" /\ outcome' = o

(* Supply arrives in the order of the source: the next products. *)
Arrivals == {{c \in Candidates \ Present : c <= m} : m \in Candidates}

Arrive(S) == item' = [c \in Candidates |-> IF c \in S THEN "DISCOVERED" ELSE item[c]]

(***************************************************************************)
(* A worker starts or resumes the job: the naming and the download         *)
(* checkpoints are reconciled, an empty pool is filled for the first time. *)
(***************************************************************************)
NamingReconcilable(c) ==
    /\ item[c] \in {"MODEL_INPUT_LOCKED", "NAMING_REVIEW"}
    /\ why[c] # "capacity" /\ c \notin repaired

(* Of the four states the code names, the ledger row and the file only     *)
(* allow these two.                                                        *)
DownloadReconcilable(c) ==
    /\ item[c] \in {"RAW_GLB_INVALID", "MANUAL_REVIEW"}
    /\ glb[c] # "none"

MayStart == pc = "down" /\ outcome # "DELIVERED" /\ starts < MaxStarts

(* Before the start the owner may have approved a provider: the order       *)
(* policy of a job without ledger rows migrates.  Bound: it is not switched *)
(* off again (with ledger rows run() refuses such a policy and stops).      *)
ChooseProvider == provider' \in IF provider = "OFF" THEN Providers ELSE {"ON"}

Start ==
    /\ MayStart /\ Present # {} /\ ChooseProvider
    /\ \E N \in SUBSET {c \in Candidates : NamingReconcilable(c)} :
         /\ item' = [c \in Candidates |->
                       IF c \in N THEN "NAMING_READY"
                       ELSE IF DownloadReconcilable(c) THEN "PROVIDER_SUCCESS"
                       ELSE item[c]]
         /\ why' = [c \in Candidates |->
                      IF c \in N \/ DownloadReconcilable(c) THEN "none" ELSE why[c]]
         /\ repaired' = repaired \cup N
    /\ pc' = "top" /\ rounds' = 0 /\ outcome' = "none" /\ starts' = starts + 1
    /\ UNCHANGED <<glb, capRows, gates, tick>>

StartEmpty ==
    /\ MayStart /\ Present = {} /\ ChooseProvider
    /\ starts' = starts + 1 /\ rounds' = 0
    /\ \/ /\ \E S \in Arrivals : Arrive(S)
          /\ pc' = "top" /\ outcome' = "none"
       \/ (Stop("TARGET_SHORTAGE") \/ Stop("DISCOVERY") \/ Stop("L2_BROWSER"))
          /\ UNCHANGED item
    /\ UNCHANGED <<why, glb, capRows, repaired, gates, tick>>

(***************************************************************************)
(* The top of run()'s loop.  With the provider OFF the job only forms a    *)
(* Ready Pool of model inputs.                                             *)
(***************************************************************************)
ReadyPoolShort ==
    provider = "OFF" /\ Ready # {} /\ Ready = Present /\ Cardinality(Ready) < Target

ReadyPoolFull == provider = "OFF" /\ Cardinality(Ready) >= Target

RefillReadyPool ==
    /\ pc = "top" /\ ReadyPoolShort
    /\ \/ /\ \E S \in Arrivals \cup {{}} : Arrive(S)
          /\ UNCHANGED <<pc, outcome>>
       \/ /\ Stop(IF TargetMode = "EXACT_N" THEN "TARGET_SHORTAGE" ELSE "READY_POOL")
          /\ UNCHANGED item
    /\ UNCHANGED <<why, glb, capRows, repaired, gates, tick, rounds, contract>>

(* Mutant: one lock too many is kept. *)
SurplusLocksOffByOne == {c \in Ready : Cardinality({d \in Ready : d < c}) > Target}

(* The first Target locks in creation order are kept. *)
SurplusLocks == {c \in Ready : Cardinality({d \in Ready : d < c}) >= Target}

CompleteReadyPool ==
    /\ pc = "top" /\ ReadyPoolFull
    /\ LET R == IF TargetMode = "EXACT_N" THEN SurplusLocks ELSE {}
       IN item' = [c \in Candidates |->
                     IF c \in R THEN "ORDER_COMPLETE_NOT_NEEDED" ELSE item[c]]
    /\ Stop("READY_POOL")
    /\ UNCHANGED <<why, glb, capRows, repaired, gates, tick, rounds, contract>>

(* The loop has a bounded number of ticks. *)
TickLimit ==
    /\ pc = "top"
    /\ Stop("BOUNDED_TICK_LIMIT")
    /\ UNCHANGED <<pool, tick, rounds, contract>>

BeginTick ==
    /\ pc = "top" /\ ~ReadyPoolShort /\ ~ReadyPoolFull
    /\ IF TargetReached(success_count)
         THEN pc' = "after" /\ status' = "SUCCEEDED" /\ changed' = FALSE /\ UNCHANGED item
         ELSE /\ pc' = "scan" /\ status' = "RUNNING"
              /\ changed' = (OverquotaLocks # {})
              /\ item' = [c \in Candidates |->
                            IF c \in OverquotaLocks THEN "CATEGORY_REJECTED" ELSE item[c]]
    /\ cursor' = 0 /\ steps' = 0 /\ progressed' = FALSE
    /\ UNCHANGED <<why, glb, capRows, repaired, gates, rounds, outcome, contract>>

(***************************************************************************)
(* The tick visits the live candidates in creation order.                  *)
(***************************************************************************)
(* Mutant: only the models being generated hold a slot. *)
MaySubmitActiveOnly(c) ==
    /\ category_has_capacity(c)
    /\ active_provider_count < MaxSlots
    /\ success_count + active_provider_count < Target

MaySubmit(c) ==
    /\ category_has_capacity(c)
    /\ outstanding_provider < MaxSlots
    /\ success_count + outstanding_provider < Target

MayVisit(c) ==
    /\ item[c] \in LiveStates
    /\ item[c] = "MODEL_INPUT_LOCKED" => MaySubmit(c)

Skip ==
    /\ pc = "scan" /\ cursor < NumCandidates /\ steps < MaxStepsPerTick
    /\ ~MayVisit(cursor + 1)
    /\ cursor' = cursor + 1
    /\ UNCHANGED <<pool, pc, steps, status, progressed, changed, rounds, outcome, contract>>

(* Answers the files and the pool allow. *)
Possible(c, a) ==
    /\ a = "duplicate" => success_count > 0
    /\ a = "accept" /\ item[c] = "PROVIDER_SUCCESS" => glb[c] # "copy"
    /\ a = "invalid" => glb[c] = "none"

(* Mutant: the pool takes over the status of the ledger row. *)
NewStateOfLedger(stage, s, a) ==
    CASE a = "accept"   -> accepted_state[stage]
      [] a = "conflict" -> "MANUAL_REVIEW"
      [] a = "unknown"  -> "SUBMISSION_UNKNOWN"
      [] a \in HardStops -> "HARD_STOP_ITEM"
      [] a \in PendingAnswers \cup {"retry"} -> s
      [] OTHER -> rejected_state[stage]

NewState(stage, s, a) ==
    CASE a = "accept"   -> accepted_state[stage]
      [] a = "conflict" -> "MANUAL_REVIEW"
      [] a = "unknown"  -> "QUARANTINED_SUBMISSION_UNKNOWN"
      [] a \in HardStops -> "HARD_STOP_ITEM"
      [] a \in PendingAnswers /\ stage = "visual"    -> "VISUAL_PENDING"
      [] a \in PendingAnswers /\ stage = "dimension" -> "DIMENSION_PENDING"
      [] a \in PendingAnswers \cup {"retry"}         -> s
      [] OTHER -> rejected_state[stage]

NewGlb(c, a) ==
    CASE a \in {"conflict", "qa_failed"} /\ glb[c] = "none" -> "valid"
      [] a = "orientation" /\ glb[c] = "none" -> "valid"
      [] a = "duplicate" -> "copy"
      [] OTHER -> glb[c]

(* Mutant: a gate is recorded one completion late. *)
ReachedGatesLate(n) == {g \in Gates : g < n}

(* _record_reached_gates, after a completion the registry accepted. *)
ReachedGates(n) == {g \in Gates : g <= n}

(* One visit: the stage runs, _apply writes its outcome, and the tick looks *)
(* at the success count again.  A registry that cannot be written stops the *)
(* job before the gates are recorded.                                       *)
Visit(c, a) ==
    LET stage     == next_stage[item[c]]
        new       == NewState(stage, item[c], a)
        reason    == IF a \in Reasons THEN a ELSE "none"
        completed == success_count + (IF new = "COMPLETED" THEN 1 ELSE 0)
        unknown   == unresolved_submission_unknown_count + 1
    IN /\ pc = "scan" /\ cursor < NumCandidates /\ steps < MaxStepsPerTick
       /\ c = cursor + 1 /\ MayVisit(c)
       /\ a \in StageAnswers[stage] /\ a \in Answers \cup {"accept"} /\ Possible(c, a)
       /\ item' = [item EXCEPT ![c] = new]
       /\ why' = [why EXCEPT ![c] = reason]
       /\ glb' = [glb EXCEPT ![c] = IF stage = "download" THEN NewGlb(c, a) ELSE @]
       /\ capRows' = IF stage # "submit" \/ a = "gate" \/ a = "limit" THEN capRows
                     ELSE IF a = "capacity" THEN capRows \cup {c} ELSE capRows \ {c}
       /\ cursor' = c /\ steps' = steps + 1
       /\ progressed' = (progressed \/ a \notin PendingAnswers \cup {"retry"})
       /\ changed' = (changed \/ new # item[c] \/ reason # why[c])
       /\ \/ /\ a \in HardStops \/ (a = "unknown" /\ unknown > MAX_UNRESOLVED_SUBMISSIONS)
             /\ Stop("HARD_STOP") /\ UNCHANGED <<gates, status>>
          \/ /\ new = "COMPLETED"
             /\ Stop("HARD_STOP") /\ UNCHANGED <<gates, status>>
          \/ /\ a \notin HardStops
             /\ a = "unknown" => unknown <= MAX_UNRESOLVED_SUBMISSIONS
             /\ gates' = IF new = "COMPLETED" THEN ReachedGates(completed) ELSE gates
             /\ pc' = IF TargetReached(completed) THEN "after" ELSE "scan"
             /\ status' = IF TargetReached(completed) THEN "SUCCEEDED" ELSE status
             /\ UNCHANGED outcome
       /\ UNCHANGED <<repaired, rounds, contract>>

(***************************************************************************)
(* The end of a tick below the target.                                     *)
(***************************************************************************)
(* Mutant: the boundary is noticed one reservation late. *)
AtManualReconciliationLate ==
    /\ unresolved_submission_unknown_count > 0
    /\ success_count + unresolved_submission_unknown_count > Target
    /\ InState({"PROVIDER_SUCCESS"}) = {}

(* Mutant: a downloaded model still to be checked is overlooked. *)
AtManualReconciliationEarly ==
    /\ unresolved_submission_unknown_count > 0
    /\ success_count + unresolved_submission_unknown_count >= Target

AtManualReconciliation ==
    /\ unresolved_submission_unknown_count > 0
    /\ success_count + unresolved_submission_unknown_count >= Target
    /\ InState({"PROVIDER_SUCCESS"}) = {}

CapacityWait == \E c \in Ready : why[c] = "capacity"

ScanEnds == pc = "scan" /\ (cursor = NumCandidates \/ steps = MaxStepsPerTick)

TickStatus ==
    IF active_provider_count > 0 THEN "WAITING_PROVIDER"
    ELSE IF AtManualReconciliation THEN "MANUAL_RECONCILIATION"
    ELSE IF ~progressed /\ CapacityWait THEN "WAITING_PROVIDER"
    ELSE "RUNNING"

EndTick ==
    /\ ScanEnds
    /\ TickStatus # "RUNNING" \/ Live # {}
    /\ status' = TickStatus /\ pc' = "after"
    /\ UNCHANGED <<pool, cursor, steps, progressed, changed, rounds, outcome, contract>>

(* Nothing is left to do: replacements are asked for, a bounded number of   *)
(* times; without any the supply is exhausted.                              *)
Refill ==
    /\ ScanEnds
    /\ TickStatus = "RUNNING" /\ Live = {}
    /\ \/ /\ rounds < MaxRefillRounds /\ refill_needed > 0
          /\ rounds' = rounds + 1
          /\ \/ /\ \E S \in Arrivals : S # {} /\ Arrive(S)
                /\ status' = "RUNNING" /\ changed' = TRUE /\ pc' = "after"
                /\ UNCHANGED outcome
             \/ /\ status' = "SUPPLY_EXHAUSTED" /\ pc' = "after"
                /\ UNCHANGED <<item, changed, outcome>>
             \/ /\ Stop("DISCOVERY") \/ Stop("L2_BROWSER")
                /\ UNCHANGED <<item, status, changed>>
       \/ /\ rounds >= MaxRefillRounds \/ refill_needed = 0
          /\ status' = "SUPPLY_EXHAUSTED" /\ pc' = "after"
          /\ UNCHANGED <<item, changed, rounds, outcome>>
    /\ UNCHANGED <<why, glb, capRows, repaired, gates, cursor, steps, progressed, contract>>

(***************************************************************************)
(* run() looks at the tick's status and at the pool.                       *)
(***************************************************************************)
(* Mutant: a shortage is delivered unasked. *)
DeliversShortUnasked == success_count > 0

(* A shortage is delivered when the owner accepted it or the order is not   *)
(* EXACT_N.  (The Ready Pool this branch offers with the provider OFF needs *)
(* a lock, and a lock is a live candidate: the supply is then not          *)
(* exhausted.)                                                              *)
DeliversShort ==
    /\ success_count > 0
    /\ AllowShortfall \/ (TargetMode # "EXACT_N" /\ provider = "ON")

(* _deliver; a missing normalized model blocks it. *)
Deliver ==
    /\ pc = "after"
    /\ status = "SUCCEEDED" \/ (status = "SUPPLY_EXHAUSTED" /\ DeliversShort)
    /\ Stop("DELIVERED") \/ Stop("DELIVERY_QA")
    /\ UNCHANGED <<pool, tick, rounds, contract>>

SupplyExhausted ==
    /\ pc = "after" /\ status = "SUPPLY_EXHAUSTED" /\ ~DeliversShort
    /\ Stop("HUMAN_DECISION")
    /\ UNCHANGED <<pool, tick, rounds, contract>>

ManualReconciliation ==
    /\ pc = "after" /\ status = "MANUAL_RECONCILIATION"
    /\ Stop("SUBMISSION_UNKNOWN")
    /\ UNCHANGED <<pool, tick, rounds, contract>>

Ticking == pc = "after" /\ status \in {"RUNNING", "WAITING_PROVIDER"}

(* provider_capacity_waiting: wait and tick again, or give up waiting. *)
WaitForCapacity ==
    /\ Ticking /\ capRows # {}
    /\ \/ pc' = "top" /\ UNCHANGED outcome
       \/ Stop("PROVIDER_CAPACITY")
    /\ UNCHANGED <<pool, tick, rounds, contract>>

Waiting(reasons) == \E c \in Live : why[c] \in reasons

OrientationBlocks == Waiting({"orientation"})

DimensionPending ==
    \E c \in InState({"DIMENSION_PENDING"}) : why[c] \in {"dimension", "dimension_l2"}

QualifiedProgress ==
    InState({"DIMENSION_READY", "NAMING_READY", "CATALOG_READY", "MODEL_INPUT_LOCKED"}) # {}

VisualBrainPending == \E c \in InState({"VISUAL_PENDING"}) : why[c] = "brain"

Blocker ==
    IF changed
    THEN CASE OrientationBlocks -> "ORIENTATION_REVIEW"
           [] ~OrientationBlocks /\ DimensionPending /\ ~QualifiedProgress
                -> "DIMENSION_LOOKUP"
           [] ~OrientationBlocks /\ (QualifiedProgress \/ ~DimensionPending)
                /\ VisualBrainPending -> "BRAIN_DECISION"
           [] OTHER -> "none"
    ELSE IF OrientationBlocks THEN "ORIENTATION_REVIEW"
    ELSE IF Waiting({"l2", "dimension_l2"}) THEN "L2_BROWSER"
    ELSE IF DimensionPending THEN "DIMENSION_LOOKUP"
    ELSE IF Waiting({"brain"}) THEN "BRAIN_DECISION"
    ELSE "none"

AfterTick ==
    /\ Ticking /\ capRows = {}
    /\ IF Blocker = "none" THEN pc' = "top" /\ UNCHANGED outcome ELSE Stop(Blocker)
    /\ UNCHANGED <<pool, tick, rounds, contract>>

WorkerStep ==
    \/ RefillReadyPool \/ CompleteReadyPool \/ BeginTick
    \/ Skip \/ \E c \in Candidates, a \in Answers \cup {"accept"} : Visit(c, a)
    \/ EndTick \/ Refill
    \/ Deliver \/ SupplyExhausted \/ ManualReconciliation \/ WaitForCapacity \/ AfterTick

Next == Start \/ StartEmpty \/ TickLimit \/ WorkerStep

Spec == Init /\ [][Next]_vars

(* The visits whose stage gives a final answer. *)
DecisiveVisit == \E c \in Candidates : Visit(c, "accept") \/ Visit(c, "reject")

(***************************************************************************)
(* The worker process keeps taking steps while it lives, and a stage that  *)
(* is asked again and again answers in the end.  Nothing is assumed of     *)
(* TickLimit, of resumes, or of which answer comes.                        *)
(***************************************************************************)
FairSpec == Spec /\ WF_vars(WorkerStep) /\ SF_vars(DecisiveVisit)

-----------------------------------------------------------------------------
(***************************************************************************)
(* Properties.                                                             *)
(***************************************************************************)

(* The order never holds more finished models than target_count, whatever  *)
(* the slots, the revived downloads and the resumes: tick() looks at the   *)
(* count again after every visit.                                          *)
ExactNNotExceeded == success_count <= Target

(* An EXACT_N order whose owner did not accept a shortage is delivered only *)
(* when complete, also when the supply, the refills and the resumes ran out *)
(* on the way (the SUPPLY_EXHAUSTED branch of run()).                       *)
ExactNDelivered ==
    outcome = "DELIVERED" /\ TargetMode = "EXACT_N" /\ ~AllowShortfall
        => success_count = Target

(* A short delivery is final: no candidate of the pool could still become   *)
(* a model when the supply was declared exhausted.                          *)
ShortDeliveryIsFinal ==
    outcome = "DELIVERED" /\ ~TargetReached(success_count)
        => Present = InState(TERMINAL_ITEM_STATES)

(* A category never holds more models, finished or being generated, than   *)
(* its share of the order, unless the order allows spillover               *)
(* (_category_has_capacity: a full category is a hard share).              *)
QuotaKept ==
    QuotaMode # "NONE" /\ Spillover # "AUTO_IF_EXPLICIT"
        => \A k \in Categories : category_outstanding(k) <= Quota[k]

(* Models a category holds beyond its share. *)
Overrun == MapThenSumSet(LAMBDA k : Monus(category_outstanding(k), Quota[k]), Categories)

Submission(c) == item[c] = "MODEL_INPUT_LOCKED" /\ item'[c] = "PROVIDER_ACTIVE"

(* With spillover a full category submits again only for a share some      *)
(* exhausted category leaves open: what has already spilled over counts.   *)
SpilloverFillsOnlyDeficit ==
    [][\A c \in Candidates :
          Submission(c) /\ QuotaMode # "NONE"
              /\ category_outstanding(CategoryOf[c]) >= Quota[CategoryOf[c]]
            => Overrun < spillover_deficit]_vars

(* When the job stops for a decision on a shortage or on an unknown        *)
(* submission no paid model is still being generated or undownloaded, so   *)
(* the count it reports is final.                                          *)
StopsLeaveNoPaidModel ==
    pc = "down" /\ outcome \in {"HUMAN_DECISION", "SUBMISSION_UNKNOWN"}
        => InState({"PROVIDER_ACTIVE", "PROVIDER_SUCCESS"}) = {}

(* A Ready Pool of an EXACT_N order holds exactly target_count locks: one   *)
(* tick may lock several more, which run() retires in creation order.       *)
ReadyPoolIsExact ==
    outcome = "READY_POOL" /\ TargetMode = "EXACT_N" => Cardinality(Ready) = Target

(* With the provider OFF the job forms its Ready Pool or asks for more      *)
(* supply: it is not left with a few locks that no tick moves (the          *)
(* condition ready = len(records) of run() before the refill).              *)
ReadyPoolIsFormed ==
    provider = "OFF" /\ pc = "after" /\ status = "RUNNING" => changed \/ Live # Ready

(* A tick that reports RUNNING did something or has something to do: the    *)
(* job does not spin on model inputs it never submits (the comment on the   *)
(* manual reconciliation boundary in tick()).                               *)
EveryTickDoesSomething ==
    pc = "after" /\ status = "RUNNING" => steps > 0 \/ changed

(* A job is stopped for a local review only when no other candidate can     *)
(* proceed (the comment above the changed-tick branch of run()).            *)
ReviewStopsAtBoundary ==
    outcome = "BRAIN_DECISION" => \A c \in Live : why[c] \in PendingAnswers

(* A model that completed was seen by the progressive gates it reached      *)
(* before the order is delivered (_record_reached_gates).                   *)
DeliveredPassedGates == outcome = "DELIVERED" => \A g \in Gates : success_count >= g => g \in gates

(* With an answering site, reviewer and provider every run of the worker    *)
(* ends: in a delivery or at a named boundary.                              *)
EveryRunEnds == pc = "top" ~> pc = "down"

(***************************************************************************)
(* The paid half of this specification implements PaidOrder: an order that *)
(* reserves at most its slots and its target, bills no ended candidate     *)
(* again and never gives up a finished model.                              *)
(***************************************************************************)
Order == INSTANCE PaidOrder WITH
    done  <- InState({"COMPLETED"}),
    paid  <- InState({"PROVIDER_ACTIVE", "PROVIDER_SUCCESS",
                      "QUARANTINED_SUBMISSION_UNKNOWN"}),
    ended <- InState(EndedStates)

(* The refinement: every step of the job is a step of the paid order or     *)
(* changes nothing of it.                                                   *)
ImplementsPaidOrder == Order!Spec
=============================================================================
