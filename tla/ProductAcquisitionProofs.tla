---------------------- MODULE ProductAcquisitionProofs ----------------------
(***************************************************************************)
(* What holds of the acquisition for every site, every bound and every     *)
(* number of deaths of the worker: a batch is new, the policy of a paid    *)
(* job stands, and a job that says the source has no more says the truth.  *)
(* The first two rest on the order of two writes, the checkpoint's emitted *)
(* before the pool's items, and on where a target is set; the third on the *)
(* cursors, the counts of a discovery and the order in which products are  *)
(* handed out.                                                             *)
(***************************************************************************)
EXTENDS ProductAcquisition, FiniteSetTheorems, SequenceTheorems, TLAPS

(* Only the fields of the records matter here, never what they hold.         *)
IsPayload(p) ==
    p = [cursors |-> p.cursors, products |-> p.products, emitted |-> p.emitted,
         status |-> p.status, agent |-> p.agent]

Shapes ==
    /\ IsPayload(checkpoint) /\ IsPayload(memory)
    /\ worker = [at |-> worker.at, purpose |-> worker.purpose, needed |-> worker.needed,
                 limit |-> worker.limit, batch |-> worker.batch, rounds |-> worker.rounds,
                 starts |-> worker.starts, reason |-> worker.reason]
    /\ pool = [items |-> pool.items, passed |-> pool.passed, failed |-> pool.failed,
               target |-> pool.target, paid |-> pool.paid]

(* What is in the pool was handed out, and so is the batch on its way to it; *)
(* a discovery works on what the file says was handed out.                   *)
EmittedFirst ==
    /\ pool.items \subseteq checkpoint.emitted
    /\ worker.at \in {"pages", "select"} => memory.emitted = checkpoint.emitted
    /\ worker.at = "add" =>
         /\ worker.batch \subseteq checkpoint.emitted
         /\ worker.batch # {} /\ worker.batch \cap pool.items = {}

(* Candidates are made, and paid for, under a locked target only.            *)
TargetFirst ==
    /\ pool.paid => pool.target # 0
    /\ worker.at = "running" => pool.target # 0
    /\ worker.at \in {"pages", "select", "add"} /\ worker.purpose # "target" => pool.target # 0

IInv == Shapes /\ EmittedFirst /\ TargetFirst

-----------------------------------------------------------------------------
LEMMA InitIInv == Init => IInv
BY DEF Init, IInv, Shapes, IsPayload, EmittedFirst, TargetFirst, FirstPayload, Idle

LEMMA EndsKeeps ==
    ASSUME IInv, NEW j, NEW reason, Ends(j, reason), UNCHANGED checkpoint,
           pool' = pool
    PROVE  IInv'
BY DEF IInv, Shapes, IsPayload, EmittedFirst, TargetFirst, Ends, Idle

(* The beginning of a discovery, by a worker w in the middle of its step.    *)
LEMMA DiscoverKeeps ==
    ASSUME IInv, NEW purpose, NEW needed, NEW w,
           w = [at |-> w.at, purpose |-> w.purpose, needed |-> w.needed,
                limit |-> w.limit, batch |-> w.batch, rounds |-> w.rounds,
                starts |-> w.starts, reason |-> w.reason],
           Discover(w, purpose, needed), UNCHANGED checkpoint,
           pool'.items = pool.items,
           pool' = [items |-> pool'.items, passed |-> pool'.passed, failed |-> pool'.failed,
                    target |-> pool'.target, paid |-> pool'.paid],
           pool'.paid => pool'.target # 0,
           purpose # "target" => pool'.target # 0
    PROVE  IInv'
<1>1. worker'.at \in {"pages", "select"} /\ worker'.purpose = purpose
  BY DEF Discover
<1>2. worker' = [at |-> worker'.at, purpose |-> worker'.purpose, needed |-> worker'.needed,
                 limit |-> worker'.limit, batch |-> worker'.batch, rounds |-> worker'.rounds,
                 starts |-> worker'.starts, reason |-> worker'.reason]
  BY DEF Discover
<1>3. QED
  BY <1>1, <1>2 DEF IInv, Shapes, IsPayload, EmittedFirst, TargetFirst, Discover

(* What SelectBatch hands out is in memory and was not handed out before.    *)
LEMMA SelectedIsNew == Selected \cap memory.emitted = {}
BY DEF Selected, Available

LEMMA NewTargetIsPositive == NewTarget # 0
<1>1. CASE mode = "ALL"
  BY <1>1 DEF NewTarget, Larger
<1>2. CASE mode # "ALL"
  BY <1>2, CountAssumption DEF NewTarget
<1>3. QED BY <1>1, <1>2

LEMMA PageReadKeeps ==
    ASSUME IInv, NEW c, NEW stored, worker.at = "pages", PageRead(c, stored)
    PROVE  IInv'
BY DEF IInv, Shapes, IsPayload, EmittedFirst, TargetFirst, PageRead

LEMMA RecoveredKeeps ==
    ASSUME NEW p, IsPayload(p), NEW answer
    PROVE  IsPayload(Recovered(p, answer)) /\ Recovered(p, answer).emitted = p.emitted
BY DEF Recovered, IsPayload

LEMMA NextIInv == IInv /\ [Next]_vars => IInv'
<1> SUFFICES ASSUME IInv, [Next]_vars PROVE IInv'
  OBVIOUS
<1>1. CASE Start
  BY <1>1 DEF Start, IInv, Shapes, IsPayload, EmittedFirst, TargetFirst, Idle
<1>2. CASE Crash
  BY <1>2, EndsKeeps DEF Crash, EndsAs
<1>3. CASE _target_and_quotas
  <2>1. CASE mode = "ALL"
    BY <1>3, <2>1, DiscoverKeeps DEF _target_and_quotas, IInv, Shapes, TargetFirst
  <2>2. CASE mode # "ALL"
    BY <1>3, <2>2 DEF _target_and_quotas, IInv, Shapes, IsPayload, EmittedFirst, TargetFirst
  <2>3. QED BY <2>1, <2>2
<1>4. CASE LockPolicy
  <2>1. CASE ~MayLock(NewTarget)
    BY <1>4, <2>1, EndsKeeps DEF LockPolicy, EndsAs
  <2>2. CASE MayLock(NewTarget)
    <3>1. /\ pool' = [pool EXCEPT !.target = NewTarget]
          /\ UNCHANGED checkpoint
      BY <1>4, <2>2 DEF LockPolicy, Locked
    <3>2. pool'.items = pool.items /\ pool'.target # 0
      BY <3>1, NewTargetIsPositive DEF IInv, Shapes
    <3>3. pool' = [items |-> pool'.items, passed |-> pool'.passed, failed |-> pool'.failed,
                   target |-> pool'.target, paid |-> pool'.paid]
      BY <3>1 DEF IInv, Shapes
    <3>4. CASE pool.items = {}
      BY <1>4, <2>2, <3>1, <3>2, <3>3, <3>4, DiscoverKeeps
         DEF LockPolicy, refill, IInv, Shapes
    <3>5. CASE pool.items # {}
      BY <1>4, <2>2, <3>1, <3>2, <3>3, <3>5
         DEF LockPolicy, IInv, Shapes, IsPayload, EmittedFirst, TargetFirst
    <3>6. QED BY <3>4, <3>5
  <2>3. QED BY <2>1, <2>2
<1>5. CASE DiscoveryStep
  <2>1. ASSUME NEW c \in Scopes, ReadHtmlPage(c) PROVE IInv'
    BY <2>1, PageReadKeeps DEF ReadHtmlPage, MayRead
  <2>2. ASSUME NEW c \in Scopes, ReadGraphqlPage(c) PROVE IInv'
    BY <2>2, PageReadKeeps DEF ReadGraphqlPage, MayRead
  <2>3. ASSUME NEW c \in Scopes, RepeatedCursor(c) PROVE IInv'
    BY <2>3 DEF RepeatedCursor, IInv, Shapes, IsPayload, EmittedFirst, TargetFirst
  <2>4. CASE PageFails
    BY <2>4, EndsKeeps DEF PageFails, EndsAs
  <2>5. CASE Conclude
    <3> DEFINE told == [memory EXCEPT !.status = discovery_status(memory, worker.limit)]
    <3>1. IsPayload(told) /\ told.emitted = memory.emitted
      BY DEF IInv, Shapes, IsPayload
    <3>2. IsPayload(memory') /\ memory'.emitted = memory.emitted
      <4>1. memory' = told \/ \E answer \in AgentAnswers : memory' = Recovered(told, answer)
        BY <2>5 DEF Conclude
      <4>2. QED BY <3>1, <4>1, RecoveredKeeps
    <3>3. /\ worker.at = "pages" /\ checkpoint' = memory' /\ pool' = pool
          /\ worker' = [worker EXCEPT !.at = "select"]
      BY <2>5 DEF Conclude
    <3>4. QED
      BY <3>2, <3>3 DEF IInv, Shapes, IsPayload, EmittedFirst, TargetFirst
  <2>6. CASE SelectBatch
    <3>1. /\ worker.at = "select" /\ Selected # {} /\ pool' = pool
          /\ memory' = [memory EXCEPT !.emitted = memory.emitted \cup Selected]
          /\ checkpoint' = memory'
          /\ worker' = [worker EXCEPT !.at = "add", !.batch = Selected]
      BY <2>6 DEF SelectBatch, EmittedAfter
    <3>2. Selected \cap pool.items = {}
      BY <3>1, SelectedIsNew DEF IInv, EmittedFirst
    <3> HIDE DEF Selected
    <3>3. QED
      BY <3>1, <3>2 DEF IInv, Shapes, IsPayload, EmittedFirst, TargetFirst
  <2>7. CASE SelectUnverified
    BY <2>7, EndsKeeps DEF SelectUnverified, EndsAs
  <2>8. CASE SelectNothing
    <3>1. CASE worker.purpose = "target"
      BY <2>8, <3>1 DEF SelectNothing, IInv, Shapes, IsPayload, EmittedFirst, TargetFirst
    <3>2. CASE worker.purpose # "target"
      BY <2>8, <3>2, EndsKeeps DEF SelectNothing, SupplyEnds
    <3>3. QED BY <3>1, <3>2
  <2>9. QED
    BY <1>5, <2>1, <2>2, <2>3, <2>4, <2>5, <2>6, <2>7, <2>8 DEF DiscoveryStep
<1>6. CASE add_candidates
  <2>1. /\ worker.at = "add" /\ UNCHANGED checkpoint
        /\ pool' = [pool EXCEPT !.items = pool.items \cup worker.batch]
    BY <1>6 DEF add_candidates
  <2>2. ~(worker.batch \subseteq pool.items)
    BY <2>1 DEF IInv, EmittedFirst
  <2>3. UNCHANGED memory
        /\ worker' = [worker EXCEPT !.at = IF worker.purpose = "target" THEN "lock" ELSE "running",
                                    !.batch = {}, !.purpose = "none", !.needed = 0, !.limit = 0]
    BY <1>6, <2>2 DEF add_candidates
  <2>4. QED
    BY <2>1, <2>3 DEF IInv, Shapes, IsPayload, EmittedFirst, TargetFirst
<1>7. ASSUME NEW p \in Products, Settle(p) PROVE IInv'
  BY <1>7 DEF Settle, IInv, Shapes, IsPayload, EmittedFirst, TargetFirst
<1>8. CASE Tick
  <2> DEFINE w == [worker EXCEPT !.rounds = worker.rounds + 1]
             needed == pool.target - Cardinality(pool.passed)
  <2>1. ASSUME refill(w, "refill", needed), worker.at = "running", UNCHANGED <<checkpoint, pool>>
        PROVE  IInv'
    <3>1. w = [at |-> w.at, purpose |-> w.purpose, needed |-> w.needed,
               limit |-> w.limit, batch |-> w.batch, rounds |-> w.rounds,
               starts |-> w.starts, reason |-> w.reason]
      BY DEF IInv, Shapes
    <3>2. pool.target # 0 /\ pool' = pool
      BY <2>1 DEF IInv, TargetFirst
    <3>3. Discover(w, "refill", Larger(REFILL_FACTOR * needed, needed))
      BY <2>1 DEF refill
    <3> HIDE DEF w, needed
    <3>4. QED
      BY <2>1, <3>1, <3>2, <3>3, DiscoverKeeps DEF IInv, Shapes
  <2>2. \/ \E j, reason : Ends(j, reason)
        \/ refill(w, "refill", needed)
    BY <1>8 DEF Tick, EndsAs, SupplyEnds
  <2>3. worker.at = "running" /\ UNCHANGED <<checkpoint, pool>>
    BY <1>8 DEF Tick
  <2>4. QED
    BY <2>1, <2>2, <2>3, EndsKeeps
<1>9. CASE UNCHANGED vars
  BY <1>9 DEF vars, IInv, Shapes, IsPayload, EmittedFirst, TargetFirst
<1>10. QED
  BY <1>1, <1>2, <1>3, <1>4, <1>5, <1>6, <1>7, <1>8, <1>9 DEF Next

(* The inductive invariant of the acquisition.                               *)
THEOREM AcquisitionInvariant == Spec => []IInv
BY InitIInv, NextIInv, PTL DEF Spec

(* No product is handed to the pool twice, whenever the worker dies: so no   *)
(* refill comes back with nothing but the pool's own candidates.             *)
THEOREM BatchesAreNew == Spec => []BatchIsNew
<1>1. IInv => BatchIsNew
  BY DEF IInv, EmittedFirst, BatchIsNew
<1>2. QED
  BY <1>1, AcquisitionInvariant, PTL

(* A count of ALL that comes out larger never replaces the policy under      *)
(* which something was paid for.                                             *)
THEOREM PolicyIsKept == Spec => PaidPolicyIsKept
<1>1. IInv /\ [Next]_vars => [pool.paid => pool'.target = pool.target]_vars
  <2> SUFFICES ASSUME IInv, Next, pool.paid PROVE pool'.target = pool.target
    BY DEF vars
  <2>1. CASE LockPolicy
    BY <2>1 DEF LockPolicy, Locked, MayLock, IInv, Shapes, TargetFirst
  <2>2. CASE add_candidates
    BY <2>2 DEF add_candidates, IInv, Shapes
  <2>3. ASSUME NEW p \in Products, Settle(p) PROVE pool'.target = pool.target
    BY <2>3 DEF Settle, IInv, Shapes
  <2>4. ASSUME UNCHANGED pool PROVE pool'.target = pool.target
    BY <2>4
  <2>5. Start \/ Crash \/ _target_and_quotas \/ DiscoveryStep \/ Tick => UNCHANGED pool
    BY DEF Start, Crash, _target_and_quotas, DiscoveryStep, Tick, ReadHtmlPage, ReadGraphqlPage,
           PageRead, RepeatedCursor, PageFails, Conclude, SelectBatch, SelectUnverified, SelectNothing
  <2>6. QED BY <2>1, <2>2, <2>3, <2>4, <2>5 DEF Next
<1>2. QED
  BY <1>1, AcquisitionInvariant, PTL DEF Spec, PaidPolicyIsKept


-----------------------------------------------------------------------------
(***************************************************************************)
(* Places of a sequence.  The rank of a place in a finite set of places,   *)
(* the number of places of the set up to it, numbers them without a gap.   *)
(***************************************************************************)
UpTo(i, S) == {j \in S : j <= i}

LEMMA RanksFinite ==
    ASSUME NEW S, IsFiniteSet(S), NEW i
    PROVE  IsFiniteSet(UpTo(i, S)) /\ Cardinality(UpTo(i, S)) \in Nat
           /\ Cardinality(UpTo(i, S)) <= Cardinality(S)
<1>1. UpTo(i, S) \in SUBSET S
  BY DEF UpTo
<1> QED
  BY <1>1, FS_Subset, FS_CardinalityType

LEMMA RankIsInjective ==
    ASSUME NEW S \in SUBSET Nat, IsFiniteSet(S), NEW i \in S, NEW j \in S, i < j
    PROVE  Cardinality(UpTo(i, S)) < Cardinality(UpTo(j, S))
<1>1. j \notin UpTo(i, S) /\ UpTo(i, S) \cup {j} \in SUBSET UpTo(j, S)
  <2>1. \A k \in S : k \in Nat
    OBVIOUS
  <2>2. j \notin UpTo(i, S) /\ j \in UpTo(j, S)
    BY <2>1 DEF UpTo
  <2>3. \A k \in UpTo(i, S) : k \in UpTo(j, S)
    BY <2>1 DEF UpTo
  <2> QED
    BY <2>2, <2>3
<1>2. /\ IsFiniteSet(UpTo(i, S)) /\ Cardinality(UpTo(i, S)) \in Nat
      /\ IsFiniteSet(UpTo(j, S)) /\ Cardinality(UpTo(j, S)) \in Nat
  BY RanksFinite
<1>3. Cardinality(UpTo(i, S) \cup {j}) = Cardinality(UpTo(i, S)) + 1
  BY <1>1, <1>2, FS_AddElement
<1>4. Cardinality(UpTo(i, S) \cup {j}) <= Cardinality(UpTo(j, S))
  BY <1>1, <1>2, FS_Subset
<1> QED
  BY <1>2, <1>3, <1>4

LEMMA RankIsOnto ==
    ASSUME NEW S \in SUBSET Nat, IsFiniteSet(S)
    PROVE  /\ Cardinality(S) \in Nat
           /\ \A i \in S : Cardinality(UpTo(i, S)) \in 1..Cardinality(S)
           /\ \A i, j \in S : Cardinality(UpTo(i, S)) = Cardinality(UpTo(j, S)) => i = j
           /\ \A n \in 1..Cardinality(S) : \E i \in S : Cardinality(UpTo(i, S)) = n
<1> DEFINE n == Cardinality(S)
           rank == [i \in S |-> Cardinality(UpTo(i, S))]
<1>1. n \in Nat
  BY FS_CardinalityType
<1>2. IsFiniteSet(1..n) /\ Cardinality(1..n) = n
  <2> HIDE DEF n
  <2> QED
    BY <1>1, FS_Interval
<1>3. ASSUME NEW i \in S PROVE Cardinality(UpTo(i, S)) \in 1..n
  <2>1. IsFiniteSet(UpTo(i, S)) /\ Cardinality(UpTo(i, S)) \in Nat /\ Cardinality(UpTo(i, S)) <= n
    BY RanksFinite
  <2>2. {i} \in SUBSET UpTo(i, S)
    BY DEF UpTo
  <2>3. Cardinality({i}) = 1
    BY FS_Singleton
  <2>4. Cardinality({i}) <= Cardinality(UpTo(i, S))
    BY <2>1, <2>2, FS_Subset
  <2> QED
    BY <1>1, <2>1, <2>3, <2>4
<1>4. ASSUME NEW i \in S, NEW j \in S, Cardinality(UpTo(i, S)) = Cardinality(UpTo(j, S))
      PROVE  i = j
  <2>1. ~(i < j) /\ ~(j < i)
    BY <1>1, <1>3, <1>4, RankIsInjective
  <2> QED
    BY <2>1
<1>5. rank \in Injection(S, 1..n)
  BY <1>3, <1>4 DEF Injection, IsInjective
<1>6. rank \in Surjection(S, 1..n)
  BY <1>1, <1>2, <1>5, FS_Injection
<1> QED
  BY <1>1, <1>3, <1>4, <1>6 DEF Surjection

LEMMA LeastPlace ==
    ASSUME NEW S \in SUBSET Nat, IsFiniteSet(S), S # {}
    PROVE  Min(S) \in S
<1>1. Cardinality(S) \in Nat /\ Cardinality(S) # 0
  BY FS_EmptySet, FS_CardinalityType
<1>2. PICK i \in S : Cardinality(UpTo(i, S)) = 1
  BY <1>1, RankIsOnto
<1>3. ASSUME NEW j \in S, ~(i <= j) PROVE FALSE
  <2>1. Cardinality(UpTo(j, S)) < 1
    BY <1>2, <1>3, RankIsInjective
  <2> QED
    BY <1>1, <2>1, RankIsOnto
<1>4. \E k \in S : \A j \in S : k <= j
  BY <1>3
<1> QED
  BY <1>4 DEF Min

(* What a page gives is a sequence of products, the first that is not empty. *)
LEMMA LinksAreProducts ==
    ASSUME NEW page \in PageContents
    PROVE  Links(page) \in Seq(Products)
<1> DEFINE full == {i \in DOMAIN page.found : page.found[i] # <<>>}
<1>1. page.found \in Seq(Seq(Products))
  BY DEF PageContents
<1>2. /\ Len(page.found) \in Nat /\ DOMAIN page.found = 1..Len(page.found)
      /\ \A i \in DOMAIN page.found : page.found[i] \in Seq(Products)
  BY <1>1
<1>3. IsFiniteSet(1..Len(page.found))
  BY <1>2, FS_Interval
<1>4. full \in SUBSET (1..Len(page.found)) /\ full \in SUBSET Nat
  BY <1>2
<1>5. IsFiniteSet(full)
  BY <1>3, <1>4, FS_Subset
<1>6. CASE full = {}
  BY <1>6 DEF Links
<1>7. CASE full # {}
  <2>1. Min(full) \in full
    BY <1>4, <1>5, <1>7, LeastPlace
  <2>2. Links(page) = page.found[Min(full)]
    BY <1>7 DEF Links
  <2> QED
    BY <1>2, <2>1, <2>2
<1> QED
  BY <1>6, <1>7

Distinct(s) == \A i, j \in 1..Len(s) : s[i] = s[j] => i = j

(* What is stored stays where it is; what is added was not there, and comes  *)
(* once.                                                                     *)
LEMMA StoredKeeps ==
    ASSUME NEW products \in Seq(Products), NEW found \in Seq(Products), NEW unanswered
    PROVE  LET stored == Stored(products, found, unanswered) IN
           /\ stored \in Seq(Products)
           /\ Len(products) <= Len(stored)
           /\ \A i \in 1..Len(products) : stored[i] = products[i]
           /\ \A i \in 1..Len(stored) : i > Len(products) => stored[i] \notin ToSet(products)
           /\ Distinct(products) => Distinct(stored)
<1> DEFINE answered == DOMAIN found \ unanswered
           new == {i \in answered : /\ found[i] \notin ToSet(products)
                                    /\ \A j \in answered : j < i => found[j] # found[i]}
           place(n) == CHOOSE i \in new : Cardinality(UpTo(i, new)) = n
           count == Cardinality(new)
           added == [n \in 1..count |-> found[place(n)]]
           stored == Stored(products, found, unanswered)
<1>1. stored = products \o added
  BY DEF Stored, UpTo
<1>2. Len(found) \in Nat /\ DOMAIN found = 1..Len(found)
  OBVIOUS
<1>3. new \in SUBSET Nat /\ IsFiniteSet(new) /\ count \in Nat
  <2>1. IsFiniteSet(1..Len(found))
    BY <1>2, FS_Interval
  <2>2. new \in SUBSET (1..Len(found))
    BY <1>2
  <2>3. IsFiniteSet(new)
    BY <2>1, <2>2, FS_Subset
  <2>4. count \in Nat
    BY <2>3, FS_CardinalityType
  <2> QED
    BY <2>2, <2>3, <2>4
<1>4. ASSUME NEW n \in 1..count
      PROVE  place(n) \in new /\ Cardinality(UpTo(place(n), new)) = n
  <2>1. \E i \in new : Cardinality(UpTo(i, new)) = n
    <3> HIDE DEF new
    <3> QED
      BY <1>3, RankIsOnto
  <2> HIDE DEF new
  <2> QED
    BY <2>1
<1>5. ASSUME NEW n \in 1..count, NEW m \in 1..count, found[place(n)] = found[place(m)]
      PROVE  n = m
  <2>1. ASSUME NEW i \in new, NEW j \in new, found[i] = found[j] PROVE i = j
    <3>1. i \in answered /\ j \in answered /\ ~(j < i) /\ ~(i < j)
      BY <2>1
    <3> QED
      BY <3>1, <1>2
  <2>2. place(n) \in new /\ place(m) \in new
    BY <1>4
  <2> HIDE DEF new
  <2>3. place(n) = place(m)
    BY <1>5, <2>1, <2>2
  <2> QED
    BY <2>3, <1>4
<1>6. /\ added \in Seq(Products) /\ Len(added) = count
      /\ \A n \in 1..count : added[n] \notin ToSet(products)
      /\ \A n, m \in 1..count : added[n] = added[m] => n = m
  <2>1. \A n \in 1..count : found[place(n)] \in Products /\ found[place(n)] \notin ToSet(products)
    <3> SUFFICES ASSUME NEW n \in 1..count
                 PROVE  found[place(n)] \in Products /\ found[place(n)] \notin ToSet(products)
      OBVIOUS
    <3>1. place(n) \in new
      BY <1>4
    <3> HIDE DEF place
    <3> QED
      BY <3>1, <1>2
  <2> HIDE DEF place, new, count
  <2> QED
    BY <1>3, <1>5, <2>1
<1> HIDE DEF stored, added, count
<1>7. /\ stored \in Seq(Products) /\ Len(stored) = Len(products) + count
      /\ \A i \in 1..Len(products) : stored[i] = products[i]
      /\ \A i \in 1..Len(stored) : i > Len(products) =>
            /\ i - Len(products) \in 1..count /\ stored[i] = added[i - Len(products)]
  <2>1. /\ stored \in Seq(Products) /\ Len(stored) = Len(products) + Len(added)
        /\ \A i \in 1..Len(products) + Len(added) :
              stored[i] = IF i <= Len(products) THEN products[i] ELSE added[i - Len(products)]
    BY <1>1, <1>6, ConcatProperties
  <2>2. Len(products) \in Nat /\ count \in Nat /\ Len(added) = count
    BY <1>3, <1>6
  <2> QED
    BY <2>1, <2>2
<1>8. \A i \in 1..Len(stored) : i > Len(products) => stored[i] \notin ToSet(products)
  BY <1>6, <1>7
<1>9. ASSUME Distinct(products) PROVE Distinct(stored)
  <2> SUFFICES ASSUME NEW i \in 1..Len(stored), NEW j \in 1..Len(stored), stored[i] = stored[j]
               PROVE  i = j
    BY DEF Distinct
  <2>0. Len(products) \in Nat
    OBVIOUS
  <2>1. CASE i <= Len(products) /\ j <= Len(products)
    BY <1>7, <1>9, <2>0, <2>1 DEF Distinct
  <2>2. CASE i > Len(products) /\ j > Len(products)
    BY <1>6, <1>7, <2>0, <2>2
  <2>3. ASSUME NEW k \in 1..Len(products) PROVE stored[k] \in ToSet(products)
    BY <1>7, <2>0 DEF ToSet
  <2>4. CASE i <= Len(products) /\ j > Len(products)
    BY <1>8, <2>0, <2>3, <2>4
  <2>5. CASE i > Len(products) /\ j <= Len(products)
    BY <1>8, <2>0, <2>3, <2>5
  <2> QED
    BY <2>0, <2>1, <2>2, <2>4, <2>5
<1>10. Len(products) <= Len(stored)
  BY <1>3, <1>7
<1> QED
  BY <1>7, <1>8, <1>9, <1>10 DEF stored

-----------------------------------------------------------------------------
(***************************************************************************)
(* The pages that follow one another, on a site that is supposed.          *)
(***************************************************************************)
LEMMA FollowingFacts ==
    ASSUME NEW s \in Sites, NEW p \in Pages
    PROVE  /\ Following(s.contents, p) \subseteq Pages
           /\ p \in Following(s.contents, p)
           /\ GoesOn(s.contents, Following(s.contents, p))
           /\ \A q \in Pages : p \in Following(s.contents, q) =>
                 Following(s.contents, p) \subseteq Following(s.contents, q)
           /\ s.contents[p].more = NoPage => Following(s.contents, p) = {p}
           /\ s.contents[p].more # NoPage =>
                 /\ s.contents[p].more \in Pages
                 /\ Following(s.contents, p) \subseteq {p} \cup Following(s.contents, s.contents[p].more)
<1> DEFINE F(q) == Following(s.contents, q)
           more(q) == s.contents[q].more
<1>1. \A q \in Pages : more(q) \in Pages \cup {NoPage}
  BY SiteAssumption DEF PageContents, MaybePages
<1>2. \A q \in Pages : F(q) \subseteq Pages /\ q \in F(q)
  BY DEF Following
<1>3. ASSUME NEW q \in Pages PROVE GoesOn(s.contents, F(q))
  <2> SUFFICES ASSUME NEW r \in F(q), more(r) # NoPage PROVE more(r) \in F(q)
    BY DEF GoesOn
  <2>1. r \in Pages /\ more(r) \in Pages
    BY <1>1 DEF Following
  <2>2. ASSUME NEW S \in SUBSET Pages, q \in S, GoesOn(s.contents, S) PROVE more(r) \in S
    <3>1. r \in S
      BY <2>2 DEF Following
    <3> QED
      BY <2>2, <3>1 DEF GoesOn
  <2> QED
    BY <2>1, <2>2 DEF Following
<1>4. ASSUME NEW q \in Pages, p \in F(q) PROVE F(p) \subseteq F(q)
  BY <1>4 DEF Following
<1>5. ASSUME more(p) = NoPage PROVE F(p) = {p}
  <2>1. GoesOn(s.contents, {p})
    BY <1>5 DEF GoesOn
  <2> QED
    BY <2>1 DEF Following
<1>6. ASSUME more(p) # NoPage
      PROVE  more(p) \in Pages /\ F(p) \subseteq {p} \cup F(more(p))
  <2>1. more(p) \in Pages
    BY <1>1, <1>6
  <2>2. more(p) \in F(more(p)) /\ F(more(p)) \subseteq Pages /\ GoesOn(s.contents, F(more(p)))
    BY <1>2, <1>3, <2>1
  <2>3. GoesOn(s.contents, {p} \cup F(more(p)))
    BY <2>2 DEF GoesOn
  <2>4. {p} \cup F(more(p)) \in SUBSET Pages
    BY <2>2
  <2>5. \A r \in F(p) : r \in {p} \cup F(more(p))
    BY <2>3, <2>4 DEF Following
  <2> QED
    BY <2>1, <2>5
<1> QED
  BY <1>2, <1>3, <1>4, <1>5, <1>6

-----------------------------------------------------------------------------
(***************************************************************************)
(* Types.  A payload names a product once and hands out only what it has.  *)
(***************************************************************************)
Sound(P) == P \in Payload /\ Distinct(P.products) /\ P.emitted \subseteq ToSet(P.products)

FinitePool == IsFiniteSet(pool.items) /\ IsFiniteSet(pool.passed) /\ IsFiniteSet(worker.batch)

TInv == TypeOK /\ Sound(checkpoint) /\ Sound(memory) /\ FinitePool

Workers ==
    [at : {"off", "target", "lock", "pages", "select", "add", "running"},
     purpose : {"none", "target", "initial", "refill"},
     needed : Nat, limit : Nat, batch : SUBSET Products, rounds : Nat,
     starts : 0..MaxStarts, reason : {"none", "supply", "rounds"}]

Pools ==
    [items : SUBSET Products, passed : SUBSET Products, failed : SUBSET Products,
     target : Nat, paid : BOOLEAN]

Jobs == {"QUEUED", "RUNNING", "BLOCKED", "HUMAN_REQUIRED", "FAILED", "TARGET_SHORTAGE", "COMPLETED"}

LEMMA ImageOfPlaces ==
    ASSUME NEW s, NEW I, IsFiniteSet(I)
    PROVE  LET T == {s[i] : i \in I} IN
           /\ IsFiniteSet(T) /\ Cardinality(T) <= Cardinality(I)
           /\ (\A i, j \in I : s[i] = s[j] => i = j) => Cardinality(T) = Cardinality(I)
<1> DEFINE T == {s[i] : i \in I}
           f == [i \in I |-> s[i]]
<1>1. f \in Surjection(I, T)
  BY DEF Surjection
<1>2. (\A i, j \in I : s[i] = s[j] => i = j) => f \in Injection(I, T)
  BY DEF Injection, IsInjective
<1> HIDE DEF f, T
<1>3. QED
  BY <1>1, <1>2, FS_Surjection DEF T

LEMMA PlacesFinite ==
    ASSUME NEW s \in Seq(Products)
    PROVE  /\ IsFiniteSet(DOMAIN s) /\ Cardinality(DOMAIN s) = Len(s)
           /\ Len(s) \in Nat /\ DOMAIN s = 1..Len(s)
           /\ IsFiniteSet(ToSet(s)) /\ ToSet(s) \subseteq Products
<1>1. Len(s) \in Nat /\ DOMAIN s = 1..Len(s)
  OBVIOUS
<1>2. IsFiniteSet(1..Len(s)) /\ Cardinality(1..Len(s)) = Len(s)
  BY <1>1, FS_Interval
<1>3. IsFiniteSet(ToSet(s))
  BY <1>1, <1>2, ImageOfPlaces DEF ToSet
<1>4. ToSet(s) \subseteq Products
  BY DEF ToSet
<1> QED
  BY <1>1, <1>2, <1>3, <1>4

LEMMA SelectedTyped ==
    ASSUME Sound(memory)
    PROVE  Selected \subseteq ToSet(memory.products) /\ IsFiniteSet(Selected) /\ Selected \subseteq Products
<1> DEFINE chosen == {i \in Available(memory) :
                        Cardinality({j \in Available(memory) : j < i}) < worker.needed}
<1>1. memory.products \in Seq(Products)
  BY DEF Sound, Payload
<1>2. chosen \in SUBSET DOMAIN memory.products
  BY DEF Available
<1>3. IsFiniteSet(chosen)
  BY <1>1, <1>2, PlacesFinite, FS_Subset
<1>4. Selected = {memory.products[i] : i \in chosen}
  BY DEF Selected
<1>5. Selected \subseteq ToSet(memory.products)
  BY <1>2, <1>4 DEF ToSet
<1> HIDE DEF chosen
<1>6. IsFiniteSet(Selected)
  BY <1>3, <1>4, ImageOfPlaces
<1> QED
  BY <1>1, <1>5, <1>6, PlacesFinite

LEMMA InitTInv == Init => TInv
<1> SUFFICES ASSUME Init PROVE TInv
  OBVIOUS
<1>1. FirstPayload(site) \in Payload
  <2>1. site.entry \in [Scopes -> Pages]
    BY SiteAssumption DEF Init
  <2>2. [c \in Scopes |-> [next |-> site.entry[c], seen |-> {}, exhausted |-> FALSE]]
          \in [Scopes -> Cursor]
    BY <2>1 DEF Cursor, MaybePages
  <2>3. <<>> \in Seq(Products)
    OBVIOUS
  <2> QED
    BY <2>2, <2>3 DEF FirstPayload, Payload, Statuses
<1>2. Sound(FirstPayload(site))
  BY <1>1 DEF Sound, FirstPayload, Distinct
<1>3. Idle \in Workers
  BY CountAssumption DEF Workers, Idle
<1>4. pool \in Pools
  BY DEF Pools, Init
<1>5. TypeOK
  BY <1>1, <1>3, <1>4 DEF Init, TypeOK, Workers, Pools
<1> QED
  BY <1>2, <1>5, FS_EmptySet DEF Init, TInv, FinitePool, Idle

LEMMA EndsTyped ==
    ASSUME TInv, NEW j \in Jobs, NEW reason \in {"none", "supply", "rounds"}, Ends(j, reason),
           UNCHANGED <<site, mode, checkpoint, skipped>>, pool' \in Pools,
           IsFiniteSet(pool'.items), IsFiniteSet(pool'.passed)
    PROVE  TInv'
<1>1. worker' \in Workers /\ worker'.batch = {}
  BY DEF Ends, Idle, Workers, TInv, TypeOK
<1>2. job' \in Jobs /\ memory' = checkpoint
  BY DEF Ends
<1> QED
  BY <1>1, <1>2, FS_EmptySet DEF TInv, TypeOK, Workers, Pools, Jobs, Sound, FinitePool

LEMMA DiscoverTyped ==
    ASSUME TInv, NEW w \in Workers, IsFiniteSet(w.batch),
           NEW purpose \in {"target", "initial", "refill"}, NEW needed \in Nat,
           Discover(w, purpose, needed), UNCHANGED <<site, mode, checkpoint, skipped>>,
           job' \in Jobs, pool' \in Pools, IsFiniteSet(pool'.items), IsFiniteSet(pool'.passed)
    PROVE  TInv'
<1>1. Len(checkpoint.products) \in Nat
  BY DEF TInv, Sound, Payload
<1>2. DISCOVERY_FACTOR * needed \in Nat /\ DISCOVERY_FLOOR \in Nat
  BY CountAssumption
<1>3. Len(checkpoint.products) + Larger(DISCOVERY_FACTOR * needed, DISCOVERY_FLOOR) \in Nat
  BY <1>1, <1>2 DEF Larger
<1>4. worker' \in Workers /\ worker'.batch = w.batch /\ memory' = checkpoint
  BY <1>3 DEF Discover, Workers
<1> QED
  BY <1>4 DEF TInv, TypeOK, Workers, Pools, Jobs, Sound, FinitePool

LEMMA RefillsSomething ==
    ASSUME NEW needed \in Nat, needed # 0
    PROVE  Larger(REFILL_FACTOR * needed, needed) \in Nat /\ Larger(REFILL_FACTOR * needed, needed) >= 1
<1>1. REFILL_FACTOR * needed \in Nat
  BY CountAssumption
<1> QED
  BY <1>1 DEF Larger

(* What a step of the reading does: it stores some of a sequence of products. *)
LEMMA PageGives ==
    ASSUME TInv, NEW c \in Scopes, ReadHtmlPage(c) \/ ReadGraphqlPage(c)
    PROVE  /\ MayRead(c)
           /\ \E found \in Seq(Products), unanswered \in SUBSET Nat :
                 PageRead(c, Stored(memory.products, found, unanswered))
<1> DEFINE page == site.contents[memory.cursors[c].next]
           most == Smaller(Len(Links(page)), Larger(worker.limit, 1))
           first == SubSeq(Links(page), 1, most)
<1>1. MayRead(c)
  BY DEF ReadHtmlPage, ReadGraphqlPage
<1>2. Links(page) \in Seq(Products)
  <2>1. memory.cursors[c] \in Cursor /\ memory.cursors[c].next \in Pages
    BY <1>1 DEF TInv, Sound, Payload, MayRead, Open, Cursor, MaybePages
  <2>2. page \in PageContents
    BY <2>1, SiteAssumption DEF TInv, TypeOK
  <2> QED
    BY <2>2, LinksAreProducts
<1>3. CASE ReadHtmlPage(c)
  <2>1. \E unanswered \in SUBSET DOMAIN first : PageRead(c, Stored(memory.products, first, unanswered))
    BY <1>3 DEF ReadHtmlPage
  <2> HIDE DEF page
  <2>2. most \in Nat /\ most <= Len(Links(page))
    BY <1>2 DEF Smaller, Larger, TInv, TypeOK
  <2> HIDE DEF most
  <2>3. first \in Seq(Products)
    BY <1>2, <2>2
  <2>4. SUBSET DOMAIN first \subseteq SUBSET Nat
    BY <2>3
  <2> QED
    BY <1>1, <2>1, <2>3, <2>4
<1>4. CASE ReadGraphqlPage(c)
  <2>1. PageRead(c, Stored(memory.products, Links(page), {}))
    BY <1>4 DEF ReadGraphqlPage
  <2>2. {} \in SUBSET Nat
    OBVIOUS
  <2> QED
    BY <1>1, <1>2, <2>1, <2>2
<1> QED
  BY <1>3, <1>4

(* A page that is read is a page of the site, and what it gives is stored.   *)
LEMMA PageReadTyped ==
    ASSUME TInv, NEW c \in Scopes, MayRead(c),
           NEW found \in Seq(Products), NEW unanswered,
           PageRead(c, Stored(memory.products, found, unanswered))
    PROVE  TInv'
<1> DEFINE cursor == memory.cursors[c]
           page == site.contents[cursor.next]
           stored == Stored(memory.products, found, unanswered)
<1>1. /\ memory.products \in Seq(Products) /\ Distinct(memory.products)
      /\ memory.emitted \subseteq ToSet(memory.products)
      /\ memory \in Payload /\ cursor \in Cursor
  BY DEF TInv, Sound, Payload
<1>2. cursor.next \in Pages /\ page \in PageContents
  BY <1>1, SiteAssumption DEF MayRead, Open, Cursor, MaybePages, TInv, TypeOK
<1>3. CursorAfter(cursor, page) \in Cursor
  <2>1. page.control \in MaybePages /\ cursor.seen \cup {cursor.next} \in SUBSET Pages
    BY <1>1, <1>2 DEF PageContents, Cursor
  <2>2. (IF page.graphql THEN page.more = NoPage ELSE IsExhausted(page)) \in BOOLEAN
    BY DEF IsExhausted, _pagination_cursor
  <2> QED
    BY <2>1, <2>2 DEF CursorAfter, Cursor, _pagination_cursor
<1>4. /\ stored \in Seq(Products) /\ Len(memory.products) <= Len(stored) /\ Distinct(stored)
      /\ \A i \in 1..Len(memory.products) : stored[i] = memory.products[i]
  BY <1>1, StoredKeeps
<1>5. ToSet(memory.products) \subseteq ToSet(stored)
  BY <1>1, <1>4 DEF ToSet
<1> HIDE DEF stored, cursor, page
<1>6. /\ memory' = [memory EXCEPT !.products = stored, !.cursors[c] = CursorAfter(cursor, page)]
      /\ checkpoint' = memory' /\ skipped' = skipped \cup (ToSet(Links(page)) \ ToSet(stored))
      /\ UNCHANGED <<site, mode, job, worker, pool>>
  BY DEF PageRead, stored, cursor, page
<1>7. memory' \in Payload /\ memory'.products = stored /\ memory'.emitted = memory.emitted
  BY <1>1, <1>3, <1>4, <1>6 DEF Payload
<1>8. Sound(memory)'
  BY <1>1, <1>4, <1>5, <1>7 DEF Sound
<1>9. skipped' \subseteq Products
  <2>1. Links(page) \in Seq(Products)
    BY <1>2, LinksAreProducts DEF page
  <2> QED
    BY <1>6, <2>1, PlacesFinite DEF TInv, TypeOK
<1> QED
  BY <1>6, <1>8, <1>9 DEF TInv, TypeOK, FinitePool, Sound

(* What the agent answers keeps the payload sound and what it had.           *)
LEMMA RecoveredTyped ==
    ASSUME NEW P, Sound(P), NEW answer \in Recoveries
    PROVE  LET Q == Recovered(P, answer) IN
           /\ Sound(Q) /\ Q.emitted = P.emitted
           /\ Len(P.products) <= Len(Q.products)
           /\ \A i \in 1..Len(P.products) : Q.products[i] = P.products[i]
           /\ \A i \in 1..Len(Q.products) : i > Len(P.products) => Q.products[i] \notin ToSet(P.products)
           /\ Q.agent \in {"NEXT", "END"} \/ (Q.cursors = P.cursors /\ Q.status = P.status)
<1> DEFINE stored == Stored(P.products, answer.products, {})
           fixed == [P EXCEPT !.products = stored]
           given(c) == c \in Unproven(P) /\ \A d \in Unproven(P) : c <= d
           Q == Recovered(P, answer)
<1>1. P \in Payload /\ P.products \in Seq(Products) /\ answer.products \in Seq(Products)
  BY DEF Sound, Payload, Recoveries
<1>2. /\ stored \in Seq(Products) /\ Len(P.products) <= Len(stored) /\ Distinct(stored)
      /\ \A i \in 1..Len(P.products) : stored[i] = P.products[i]
      /\ \A i \in 1..Len(stored) : i > Len(P.products) => stored[i] \notin ToSet(P.products)
  BY <1>1, StoredKeeps DEF Sound
<1>3. ToSet(P.products) \subseteq ToSet(stored)
  BY <1>1, <1>2 DEF ToSet
<1> HIDE DEF stored
<1>4. fixed \in Payload /\ fixed.products = stored /\ fixed.emitted = P.emitted
      /\ fixed.cursors = P.cursors /\ fixed.status = P.status
  BY <1>1, <1>2 DEF Payload
<1>5. Q \in Payload /\ Q.products = stored /\ Q.emitted = P.emitted
      /\ (Q.agent \in {"NEXT", "END"} \/ (Q.cursors = P.cursors /\ Q.status = P.status))
  <2>1. CASE answer.next # NoPage
    <3> DEFINE cs == [c \in Scopes |-> IF given(c) THEN [P.cursors[c] EXCEPT !.next = answer.next]
                                       ELSE P.cursors[c]]
    <3>1. cs \in [Scopes -> Cursor]
      BY <1>1 DEF Payload, Cursor, Recoveries
    <3>2. Q = [fixed EXCEPT !.agent = "NEXT", !.status = "AGENT_RECOVERED", !.cursors = cs]
      BY <1>4, <2>1 DEF Recovered, stored
    <3> HIDE DEF cs, fixed, Q
    <3> QED
      BY <1>4, <3>1, <3>2 DEF Payload, Statuses
  <2>2. CASE answer.next = NoPage /\ answer.end
    <3> DEFINE cs == [c \in Scopes |-> IF given(c) THEN [P.cursors[c] EXCEPT !.exhausted = TRUE]
                                       ELSE P.cursors[c]]
    <3>1. cs \in [Scopes -> Cursor]
      BY <1>1 DEF Payload, Cursor
    <3>2. Q = [fixed EXCEPT !.agent = "END", !.status = "EXHAUSTED", !.cursors = cs]
      BY <1>4, <2>2 DEF Recovered, stored
    <3> HIDE DEF cs, fixed, Q
    <3> QED
      BY <1>4, <3>1, <3>2 DEF Payload, Statuses
  <2>3. CASE answer.next = NoPage /\ ~answer.end
    <3>1. Q = [fixed EXCEPT !.agent = "NOTHING"]
      BY <2>3 DEF Recovered, stored
    <3> HIDE DEF fixed, Q
    <3> QED
      BY <1>4, <3>1 DEF Payload
  <2> QED
    BY <2>1, <2>2, <2>3
<1> HIDE DEF Q
<1>6. Sound(Q)
  BY <1>2, <1>3, <1>5 DEF Sound
<1> QED
  BY <1>2, <1>5, <1>6 DEF Q

(* The end of the reading: what the payload of the file and of memory become. *)
LEMMA ConcludeGives ==
    ASSUME TInv, Conclude
    PROVE  LET told == [memory EXCEPT !.status = discovery_status(memory, worker.limit)] IN
           /\ Sound(told)
           /\ \/ memory' = told
              \/ /\ told.status = "PAGINATION_UNVERIFIED" /\ memory.agent = "NOT_ASKED"
                 /\ \E answer \in Recoveries : memory' = Recovered(told, answer)
           /\ checkpoint' = memory' /\ worker' = [worker EXCEPT !.at = "select"]
<1> DEFINE told == [memory EXCEPT !.status = discovery_status(memory, worker.limit)]
<1>1. memory \in Payload
  BY DEF TInv, Sound
<1>2. discovery_status(memory, worker.limit) \in Statuses
  BY <1>1 DEF discovery_status, Payload, Statuses
<1>3. told \in Payload /\ told.products = memory.products /\ told.emitted = memory.emitted
  BY <1>1, <1>2 DEF Payload
<1>4. Sound(told)
  BY <1>3 DEF TInv, Sound
<1>5. \/ memory' = told
      \/ /\ told.status = "PAGINATION_UNVERIFIED" /\ memory.agent = "NOT_ASKED"
         /\ \E answer \in AgentAnswers : memory' = Recovered(told, answer)
  <2>1. told.agent = memory.agent
    BY <1>1 DEF Payload
  <2> QED
    BY <2>1 DEF Conclude
<1>6. AgentAnswers \subseteq Recoveries
  BY CountAssumption
<1> QED
  BY <1>4, <1>5, <1>6 DEF Conclude

LEMMA ConcludeTyped == TInv /\ Conclude => TInv'
<1> SUFFICES ASSUME TInv, Conclude PROVE TInv'
  OBVIOUS
<1>1. Sound(memory)' /\ checkpoint' = memory'
  <2> DEFINE told == [memory EXCEPT !.status = discovery_status(memory, worker.limit)]
  <2>1. /\ Sound(told) /\ checkpoint' = memory'
        /\ memory' = told \/ \E answer \in Recoveries : memory' = Recovered(told, answer)
    BY ConcludeGives
  <2> HIDE DEF told
  <2>2. CASE memory' = told
    BY <2>1, <2>2 DEF Sound
  <2>3. ASSUME NEW answer \in Recoveries, memory' = Recovered(told, answer) PROVE Sound(memory)'
    <3>1. Sound(Recovered(told, answer))
      BY <2>1, RecoveredTyped
    <3> QED
      BY <2>3, <3>1 DEF Sound
  <2> QED
    BY <2>1, <2>2, <2>3
<1>2. worker' \in Workers /\ worker'.batch = worker.batch
  BY ConcludeGives DEF TInv, TypeOK, Workers
<1> QED
  BY <1>1, <1>2 DEF Conclude, TInv, TypeOK, Workers, Sound, FinitePool

LEMMA NextTInv == TInv /\ [Next]_vars => TInv'
<1> SUFFICES ASSUME TInv, [Next]_vars PROVE TInv'
  OBVIOUS
<1> USE DEF Jobs
<1>0. /\ pool \in Pools /\ worker \in Workers /\ job \in Jobs
      /\ IsFiniteSet(pool.items) /\ IsFiniteSet(pool.passed) /\ IsFiniteSet(worker.batch)
      /\ Cardinality(pool.items) \in Nat /\ Cardinality(pool.passed) \in Nat
  BY FS_CardinalityType DEF TInv, TypeOK, Pools, Workers, FinitePool
<1>1. CASE Start
  <2>1. worker' \in Workers /\ worker'.batch = {}
    <3>1. worker.starts + 1 \in 0..MaxStarts
      BY <1>0, <1>1, CountAssumption DEF Start, Workers
    <3>2. worker' = [at |-> "target", purpose |-> "none", needed |-> 0, limit |-> 0, batch |-> {},
                     rounds |-> 0, starts |-> worker.starts + 1, reason |-> "none"]
      BY <1>1 DEF Start, Idle
    <3> QED
      BY <3>1, <3>2 DEF Workers
  <2> QED
    BY <1>1, <2>1, FS_EmptySet DEF Start, TInv, TypeOK, Workers, Sound, FinitePool
<1>2. CASE Crash
  <2>1. Ends("FAILED", "none")
    BY <1>2 DEF Crash, EndsAs
  <2> QED
    BY <1>0, <1>2, <2>1, EndsTyped DEF Crash
<1>3. CASE _target_and_quotas
  <2>1. CASE mode = "ALL"
    <3>1. ALL_PRODUCTS \in Nat
      BY CountAssumption
    <3>2. Discover(worker, "target", ALL_PRODUCTS)
      BY <1>3, <2>1 DEF _target_and_quotas
    <3> QED
      BY <1>0, <1>3, <3>1, <3>2, DiscoverTyped DEF _target_and_quotas
  <2>2. CASE mode # "ALL"
    <3>1. worker' \in Workers /\ worker'.batch = worker.batch
      BY <1>0, <1>3, <2>2 DEF _target_and_quotas, Workers
    <3> QED
      BY <1>3, <2>2, <3>1 DEF _target_and_quotas, TInv, TypeOK, Workers, Sound, FinitePool
  <2> QED
    BY <2>1, <2>2
<1>4. CASE LockPolicy
  <2>1. NewTarget \in Nat /\ NewTarget # 0
    <3>1. CASE mode = "ALL"
      BY <1>0, <3>1 DEF NewTarget, Larger
    <3>2. CASE mode # "ALL"
      BY <3>2, CountAssumption DEF NewTarget
    <3> QED
      BY <3>1, <3>2
  <2>2. CASE ~MayLock(NewTarget)
    <3>1. Ends("BLOCKED", "none") /\ UNCHANGED <<site, mode, checkpoint, skipped, pool>>
      BY <1>4, <2>2 DEF LockPolicy, EndsAs
    <3> QED
      BY <1>0, <3>1, EndsTyped
  <2>3. CASE MayLock(NewTarget)
    <3>1. pool' = [pool EXCEPT !.target = NewTarget] /\ UNCHANGED <<site, mode, checkpoint, skipped, job>>
      BY <1>4, <2>3 DEF LockPolicy, Locked
    <3>2. pool' \in Pools /\ pool'.items = pool.items /\ pool'.passed = pool.passed
      BY <1>0, <2>1, <3>1 DEF Pools
    <3>3. CASE pool.items = {}
      <4>1. Discover(worker, "initial", Larger(REFILL_FACTOR * NewTarget, NewTarget))
        BY <1>4, <2>3, <3>3 DEF LockPolicy, refill
      <4>2. Larger(REFILL_FACTOR * NewTarget, NewTarget) \in Nat
        BY <2>1, RefillsSomething
      <4> QED
        BY <1>0, <3>1, <3>2, <4>1, <4>2, DiscoverTyped
    <3>4. CASE pool.items # {}
      <4>1. /\ worker' = [worker EXCEPT !.at = "running", !.purpose = "none", !.needed = 0, !.limit = 0]
            /\ memory' = memory
        BY <1>4, <2>3, <3>4 DEF LockPolicy
      <4>2. worker' \in Workers /\ worker'.batch = worker.batch
        BY <1>0, <4>1 DEF Workers
      <4> QED
        BY <1>0, <3>1, <3>2, <4>1, <4>2 DEF TInv, TypeOK, Workers, Pools, Sound, FinitePool
    <3> QED
      BY <3>3, <3>4
  <2> QED
    BY <2>2, <2>3
<1>5. CASE DiscoveryStep
  <2>1. ASSUME NEW c \in Scopes, ReadHtmlPage(c) \/ ReadGraphqlPage(c) PROVE TInv'
    BY <2>1, PageGives, PageReadTyped
  <2>3. ASSUME NEW c \in Scopes, RepeatedCursor(c) PROVE TInv'
    <3>1. memory' = [memory EXCEPT !.cursors[c] = AfterRepeat(memory.cursors[c])]
          /\ UNCHANGED <<site, mode, job, checkpoint, worker, pool, skipped>>
      BY <2>3 DEF RepeatedCursor
    <3>2. memory \in Payload /\ AfterRepeat(memory.cursors[c]) \in Cursor
      BY DEF TInv, Sound, Payload, AfterRepeat, Cursor, MaybePages
    <3>3. memory' \in Payload /\ memory'.products = memory.products /\ memory'.emitted = memory.emitted
      BY <3>1, <3>2 DEF Payload
    <3>4. Sound(memory)'
      BY <3>3 DEF Sound, TInv
    <3> QED
      BY <3>1, <3>4 DEF TInv, TypeOK, Sound, FinitePool
  <2>4. CASE PageFails
    <3>1. PICK j \in Refusals : Ends(j, "none")
      BY <2>4 DEF PageFails, EndsAs
    <3> QED
      BY <1>0, <2>4, <3>1, EndsTyped DEF PageFails, Refusals
  <2>5. CASE SelectBatch
    <3>1. /\ memory' = [memory EXCEPT !.emitted = memory.emitted \cup Selected]
          /\ checkpoint' = memory' /\ worker' = [worker EXCEPT !.at = "add", !.batch = Selected]
          /\ UNCHANGED <<site, mode, job, pool, skipped>>
      BY <2>5 DEF SelectBatch, EmittedAfter
    <3>2. Selected \subseteq ToSet(memory.products) /\ IsFiniteSet(Selected) /\ Selected \subseteq Products
      BY SelectedTyped DEF TInv
    <3> HIDE DEF Selected
    <3>3. Sound(memory)'
      <4>1. memory \in Payload
        BY DEF TInv, Sound
      <4>2. memory' \in Payload /\ memory'.products = memory.products
            /\ memory'.emitted = memory.emitted \cup Selected
        BY <3>1, <3>2, <4>1 DEF Payload
      <4> QED
        BY <3>2, <4>2 DEF Sound, TInv
    <3>4. worker' \in Workers /\ worker'.batch = Selected
      BY <1>0, <3>1, <3>2 DEF Workers
    <3> QED
      BY <3>1, <3>2, <3>3, <3>4 DEF TInv, TypeOK, Workers, Sound, FinitePool
  <2>6. CASE SelectUnverified
    <3>1. Ends("BLOCKED", "none")
      BY <2>6 DEF SelectUnverified, EndsAs
    <3> QED
      BY <1>0, <2>6, <3>1, EndsTyped DEF SelectUnverified
  <2>7. CASE SelectNothing
    <3>1. CASE worker.purpose = "target"
      <4>1. worker' \in Workers /\ worker'.batch = worker.batch
        BY <1>0, <2>7, <3>1 DEF SelectNothing, Workers
      <4> QED
        BY <2>7, <3>1, <4>1 DEF SelectNothing, TInv, TypeOK, Workers, Sound, FinitePool
    <3>2. CASE worker.purpose # "target"
      <4>1. \E j \in Jobs : Ends(j, "supply")
        BY <2>7, <3>2 DEF SelectNothing, SupplyEnds
      <4> QED
        BY <1>0, <2>7, <4>1, EndsTyped DEF SelectNothing
    <3> QED
      BY <3>1, <3>2
  <2> QED
    BY <1>5, <2>1, <2>3, <2>4, <2>5, <2>6, <2>7, ConcludeTyped DEF DiscoveryStep
<1>6. CASE add_candidates
  <2>1. /\ pool' = [pool EXCEPT !.items = pool.items \cup worker.batch]
        /\ UNCHANGED <<site, mode, checkpoint, skipped>>
    BY <1>6 DEF add_candidates
  <2>2. pool' \in Pools /\ pool'.items = pool.items \cup worker.batch /\ pool'.passed = pool.passed
    BY <1>0, <2>1 DEF Pools, Workers
  <2>3. IsFiniteSet(pool'.items)
    BY <1>0, <2>2, FS_Union
  <2>4. CASE worker.purpose = "refill" /\ worker.batch \subseteq pool.items
    <3>1. \E j \in Jobs : Ends(j, "supply")
      BY <1>6, <2>4 DEF add_candidates, SupplyEnds
    <3> QED
      BY <1>0, <2>1, <2>2, <2>3, <3>1, EndsTyped
  <2>5. CASE ~(worker.purpose = "refill" /\ worker.batch \subseteq pool.items)
    <3>1. /\ worker' = [worker EXCEPT !.at = IF worker.purpose = "target" THEN "lock" ELSE "running",
                                      !.batch = {}, !.purpose = "none", !.needed = 0, !.limit = 0]
          /\ UNCHANGED <<job, memory>>
      BY <1>6, <2>5 DEF add_candidates
    <3>2. worker' \in Workers /\ worker'.batch = {}
      BY <1>0, <3>1 DEF Workers
    <3> QED
      BY <1>0, <2>1, <2>2, <2>3, <3>1, <3>2, FS_EmptySet
         DEF TInv, TypeOK, Workers, Pools, Sound, FinitePool
  <2> QED
    BY <2>4, <2>5
<1>7. ASSUME NEW p \in Products, Settle(p) PROVE TInv'
  <2>1. \/ pool' = [pool EXCEPT !.passed = pool.passed \cup {p}, !.paid = TRUE]
        \/ \E paid \in BOOLEAN : pool' = [pool EXCEPT !.failed = pool.failed \cup {p}, !.paid = paid]
    <3>1. pool.paid \in BOOLEAN
      BY <1>0 DEF Pools
    <3> QED
      BY <1>7, <3>1 DEF Settle
  <2>2. /\ pool' \in Pools /\ pool'.items = pool.items
        /\ pool'.passed = pool.passed \/ pool'.passed = pool.passed \cup {p}
    BY <1>0, <2>1 DEF Pools
  <2>3. IsFiniteSet(pool'.passed)
    <3>1. IsFiniteSet(pool.passed \cup {p})
      BY <1>0, FS_AddElement
    <3> QED
      BY <1>0, <2>2, <3>1
  <2> QED
    <3>1. UNCHANGED <<site, mode, job, checkpoint, memory, worker, skipped>>
      BY <1>7 DEF Settle
    <3> QED
      BY <1>0, <2>2, <2>3, <3>1 DEF TInv, TypeOK, Workers, Pools, Sound, FinitePool
<1>8. CASE Tick
  <2> DEFINE w == [worker EXCEPT !.rounds = worker.rounds + 1]
             needed == pool.target - Cardinality(pool.passed)
  <2>1. UNCHANGED <<site, mode, checkpoint, pool, skipped>>
    BY <1>8 DEF Tick
  <2>2. CASE \E j \in Jobs, reason \in {"none", "supply", "rounds"} : Ends(j, reason)
    BY <1>0, <2>1, <2>2, EndsTyped
  <2>3. CASE /\ Cardinality(pool.passed) < pool.target
             /\ refill(w, "refill", needed) /\ UNCHANGED job
    <3>1. needed \in Nat /\ needed # 0
      BY <1>0, <2>3 DEF Pools
    <3>2. w \in Workers /\ w.batch = worker.batch
      BY <1>0 DEF Workers
    <3>3. Discover(w, "refill", Larger(REFILL_FACTOR * needed, needed)) /\ job' = job
      BY <2>3 DEF refill
    <3> HIDE DEF w, needed
    <3>4. Larger(REFILL_FACTOR * needed, needed) \in Nat
      BY <3>1, RefillsSomething
    <3> QED
      BY <1>0, <2>1, <3>2, <3>3, <3>4, DiscoverTyped
  <2> QED
    BY <1>8, <2>2, <2>3 DEF Tick, EndsAs, SupplyEnds
<1>9. CASE UNCHANGED vars
  BY <1>9 DEF vars, TInv, TypeOK, Sound, FinitePool
<1> QED
  BY <1>1, <1>2, <1>3, <1>4, <1>5, <1>6, <1>7, <1>8, <1>9 DEF Next

(* Every file, process and pool keeps its shape, and a payload names no      *)
(* product twice and hands out only what it has (_store_product, discover).  *)
THEOREM TypeCorrect == Spec => []TypeOK
<1>1. TInv => TypeOK
  BY DEF TInv
<1> QED
  BY <1>1, InitTInv, NextTInv, PTL DEF Spec

-----------------------------------------------------------------------------
(***************************************************************************)
(* What a payload says about the pages, until the agent told it a page or  *)
(* an end: the products of a page that was read are stored or skipped, and *)
(* every page of a category was read or follows the cursor's next.         *)
(***************************************************************************)
AgentTold(P) == P.agent \in {"NEXT", "END"}

CursorInv(s, c, cursor, known) ==
    LET category == Following(s.contents, s.entry[c]) IN
    /\ \A p \in cursor.seen : ToSet(Links(s.contents[p])) \subseteq known
    /\ cursor.seen = {} => ~cursor.exhausted /\ cursor.next = s.entry[c]
    /\ cursor.exhausted => category \subseteq cursor.seen
    /\ ~cursor.exhausted /\ cursor.next # NoPage =>
          category \subseteq cursor.seen \cup Following(s.contents, cursor.next)

ReadInv(P, s, missed) ==
    AgentTold(P)
      \/ \A c \in Scopes : CursorInv(s, c, P.cursors[c], ToSet(P.products) \cup missed)

RInv == ReadInv(memory, site, skipped) /\ ReadInv(checkpoint, site, skipped)

(* A page that is read takes the place of what follows the cursor's next.    *)
LEMMA CursorGoesOn ==
    ASSUME NEW s \in Sites, NEW c \in Scopes, NEW cursor \in Cursor, NEW known, NEW more,
           known \subseteq more, CursorInv(s, c, cursor, known),
           ~cursor.exhausted, cursor.next # NoPage,
           ToSet(Links(s.contents[cursor.next])) \subseteq more
    PROVE  CursorInv(s, c, CursorAfter(cursor, s.contents[cursor.next]), more)
<1> DEFINE p == cursor.next
           page == s.contents[p]
           next == CursorAfter(cursor, page)
           category == Following(s.contents, s.entry[c])
           F(q) == Following(s.contents, q)
<1>1. p \in Pages /\ page \in PageContents
  BY SiteAssumption DEF Cursor, MaybePages
<1>2. /\ next.next = page.control /\ next.seen = cursor.seen \cup {p}
      /\ next.exhausted = (IF page.graphql THEN page.more = NoPage ELSE IsExhausted(page))
  BY DEF CursorAfter, _pagination_cursor
<1>3. category \subseteq cursor.seen \cup F(p)
  BY DEF CursorInv
<1>4. /\ page.more = NoPage => F(p) = {p}
      /\ page.more # NoPage => F(p) \subseteq {p} \cup F(page.more)
      /\ \A q \in Pages : p \in F(q) => F(p) \subseteq F(q)
  BY <1>1, FollowingFacts
<1>5. \A q \in next.seen : ToSet(Links(s.contents[q])) \subseteq more
  BY <1>2 DEF CursorInv
<1>6. ASSUME next.exhausted PROVE category \subseteq next.seen
  <2>1. page.more = NoPage
    BY <1>1, <1>2, <1>6, SiteAssumption DEF IsExhausted
  <2> QED
    BY <1>2, <1>3, <1>4, <2>1
<1>7. ASSUME next.next # NoPage PROVE category \subseteq next.seen \cup F(next.next)
  <2>1. CASE page.control = page.more
    BY <1>2, <1>3, <1>4, <1>7, <2>1
  <2>2. CASE page.control # page.more
    <3>1. p \in F(page.control)
      BY <1>1, <1>2, <1>7, <2>2, SiteAssumption
    <3>2. page.control \in Pages
      BY <1>1, <1>2, <1>7 DEF PageContents, MaybePages
    <3> QED
      BY <1>2, <1>3, <1>4, <3>1, <3>2
  <2> QED
    BY <2>1, <2>2
<1>8. next.seen # {}
  BY <1>2
<1> HIDE DEF next
<1>9. CursorInv(s, c, next, more)
  BY <1>5, <1>6, <1>7, <1>8 DEF CursorInv
<1> QED
  BY <1>9 DEF next

LEMMA InitRInv == Init => RInv
<1> SUFFICES ASSUME Init PROVE RInv
  OBVIOUS
<1>1. site \in Sites /\ site.entry \in [Scopes -> Pages]
  BY SiteAssumption DEF Init
<1>2. ASSUME NEW c \in Scopes
      PROVE  CursorInv(site, c, FirstPayload(site).cursors[c],
                       ToSet(FirstPayload(site).products) \cup skipped)
  BY <1>1 DEF FirstPayload, CursorInv
<1> QED
  BY <1>2 DEF Init, RInv, ReadInv

LEMMA PageReadReads ==
    ASSUME TInv, RInv, NEW c \in Scopes, MayRead(c),
           NEW stored, PageRead(c, stored), ToSet(memory.products) \subseteq ToSet(stored)
    PROVE  RInv'
<1> DEFINE cursor == memory.cursors[c]
           page == site.contents[cursor.next]
<1>1. /\ memory \in Payload /\ cursor \in Cursor /\ memory.cursors \in [Scopes -> Cursor]
      /\ site \in Sites /\ ~cursor.exhausted /\ cursor.next # NoPage
  BY DEF TInv, TypeOK, Payload, MayRead, Open
<1>2. /\ memory' = [memory EXCEPT !.products = stored, !.cursors[c] = CursorAfter(cursor, page)]
      /\ checkpoint' = memory' /\ site' = site
      /\ skipped' = skipped \cup (ToSet(Links(page)) \ ToSet(stored))
  BY DEF PageRead
<1> DEFINE known == ToSet(memory.products) \cup skipped
           more == ToSet(stored) \cup skipped'
<1>3. known \subseteq more /\ ToSet(Links(page)) \subseteq more
  BY <1>2
<1>4. /\ memory'.products = stored /\ memory'.agent = memory.agent
      /\ memory'.cursors[c] = CursorAfter(cursor, page)
      /\ \A d \in Scopes : d # c => memory'.cursors[d] = memory.cursors[d]
  BY <1>1, <1>2 DEF Payload
<1> HIDE DEF known, more
<1>5. ReadInv(memory', site, skipped')
  <2>1. CASE AgentTold(memory)
    BY <1>4, <2>1 DEF ReadInv, AgentTold
  <2>2. CASE ~AgentTold(memory)
    <3>1. \A d \in Scopes : CursorInv(site, d, memory.cursors[d], known)
      BY <2>2 DEF RInv, ReadInv, known
    <3>2. CursorInv(site, c, CursorAfter(cursor, page), more)
      BY <1>1, <1>3, <3>1, CursorGoesOn
    <3>3. \A d \in Scopes : d # c => CursorInv(site, d, memory.cursors[d], more)
      BY <1>3, <3>1 DEF CursorInv
    <3>4. \A d \in Scopes : CursorInv(site, d, memory'.cursors[d], more)
      BY <1>4, <3>2, <3>3
    <3>5. more = ToSet(memory'.products) \cup skipped'
      BY <1>4 DEF more
    <3> QED
      BY <3>4, <3>5 DEF ReadInv
  <2> QED
    BY <2>1, <2>2
<1> QED
  BY <1>2, <1>5 DEF RInv

LEMMA StoredGrows ==
    ASSUME NEW s \in Seq(Products), NEW t \in Seq(Products), Len(s) <= Len(t),
           \A i \in 1..Len(s) : t[i] = s[i]
    PROVE  ToSet(s) \subseteq ToSet(t)
BY DEF ToSet

LEMMA PagesReadWell ==
    ASSUME TInv, RInv, NEW c \in Scopes, ReadHtmlPage(c) \/ ReadGraphqlPage(c)
    PROVE  RInv'
<1>1. PICK found \in Seq(Products), unanswered \in SUBSET Nat :
         MayRead(c) /\ PageRead(c, Stored(memory.products, found, unanswered))
  BY PageGives
<1> DEFINE stored == Stored(memory.products, found, unanswered)
<1>2. memory.products \in Seq(Products)
  BY DEF TInv, Sound, Payload
<1>3. /\ stored \in Seq(Products) /\ Len(memory.products) <= Len(stored)
      /\ \A i \in 1..Len(memory.products) : stored[i] = memory.products[i]
  BY <1>2, StoredKeeps
<1> HIDE DEF stored
<1>4. ToSet(memory.products) \subseteq ToSet(stored)
  BY <1>2, <1>3, StoredGrows
<1> QED
  BY <1>1, <1>4, PageReadReads DEF stored

(* A repeated next gives up a category that is not proven to end.            *)
LEMMA RepeatedReads ==
    ASSUME TInv, RInv, NEW c \in Scopes, RepeatedCursor(c)
    PROVE  RInv'
<1> DEFINE cursor == memory.cursors[c]
<1>1. /\ memory' = [memory EXCEPT !.cursors[c] = AfterRepeat(cursor)]
      /\ UNCHANGED <<site, checkpoint, skipped>>
  BY DEF RepeatedCursor
<1>2. /\ memory \in Payload /\ memory.cursors \in [Scopes -> Cursor]
      /\ ~cursor.exhausted /\ cursor.next \in cursor.seen
  BY DEF TInv, Sound, Payload, RepeatedCursor, MayRead, Open, IsNewPage
<1>3. /\ memory'.products = memory.products /\ memory'.agent = memory.agent
      /\ memory'.cursors[c] = AfterRepeat(cursor)
      /\ \A d \in Scopes : d # c => memory'.cursors[d] = memory.cursors[d]
  BY <1>1, <1>2 DEF Payload
<1>4. ReadInv(memory', site, skipped)
  <2>1. CASE AgentTold(memory)
    BY <1>3, <2>1 DEF ReadInv, AgentTold
  <2>2. CASE ~AgentTold(memory)
    <3> DEFINE known == ToSet(memory.products) \cup skipped
    <3>1. \A d \in Scopes : CursorInv(site, d, memory.cursors[d], known)
      BY <2>2 DEF RInv, ReadInv
    <3>2. /\ AfterRepeat(cursor).next = NoPage /\ AfterRepeat(cursor).seen = cursor.seen
          /\ AfterRepeat(cursor).exhausted = cursor.exhausted
      BY <1>2 DEF AfterRepeat, Cursor
    <3>3. CursorInv(site, c, AfterRepeat(cursor), known)
      BY <1>2, <3>1, <3>2 DEF CursorInv
    <3>4. \A d \in Scopes : CursorInv(site, d, memory'.cursors[d], known)
      BY <1>3, <3>1, <3>3
    <3> QED
      BY <1>3, <3>4 DEF ReadInv
  <2> QED
    BY <2>1, <2>2
<1> QED
  BY <1>1, <1>4 DEF RInv

(* The agent's products add to what is known; its page and its end are the   *)
(* ones the invariant stops at.                                              *)
LEMMA ConcludeReads ==
    ASSUME TInv, RInv, Conclude
    PROVE  RInv'
<1> DEFINE told == [memory EXCEPT !.status = discovery_status(memory, worker.limit)]
<1>1. /\ Sound(told) /\ checkpoint' = memory'
      /\ \/ memory' = told
         \/ /\ memory.agent = "NOT_ASKED"
            /\ \E answer \in Recoveries : memory' = Recovered(told, answer)
  BY ConcludeGives
<1>2. /\ told.products = memory.products /\ told.cursors = memory.cursors
      /\ told.agent = memory.agent
  BY DEF TInv, Sound, Payload
<1>3. UNCHANGED <<site, skipped>>
  BY DEF Conclude
<1>4. ReadInv(told, site, skipped)
  BY <1>2 DEF RInv, ReadInv, AgentTold
<1> HIDE DEF told
<1>5. ASSUME NEW answer \in Recoveries, memory' = Recovered(told, answer),
             memory.agent = "NOT_ASKED"
      PROVE  ReadInv(memory', site, skipped)
  <2> DEFINE Q == Recovered(told, answer)
  <2>1. /\ Sound(Q) /\ Len(told.products) <= Len(Q.products)
        /\ \A i \in 1..Len(told.products) : Q.products[i] = told.products[i]
        /\ Q.agent \in {"NEXT", "END"} \/ (Q.cursors = told.cursors /\ Q.status = told.status)
    BY <1>1, RecoveredTyped
  <2>2. ~AgentTold(told)
    BY <1>2, <1>5 DEF AgentTold
  <2>3. ReadInv(memory', site, skipped)
    <3> HIDE DEF Q
    <3>1. told.products \in Seq(Products) /\ Q.products \in Seq(Products)
      BY <1>1, <2>1 DEF Sound, Payload
    <3>2. ToSet(told.products) \subseteq ToSet(Q.products)
      BY <2>1, <3>1, StoredGrows
    <3>3. \A c \in Scopes : CursorInv(site, c, told.cursors[c], ToSet(Q.products) \cup skipped)
      BY <1>4, <2>2, <3>2 DEF ReadInv, CursorInv
    <3>4. ReadInv(Q, site, skipped)
      BY <2>1, <3>3 DEF ReadInv, AgentTold
    <3> QED
      BY <1>5, <3>4 DEF Q
  <2> QED
    BY <2>3
<1>6. ReadInv(memory', site, skipped)
  BY <1>1, <1>4, <1>5
<1> QED
  BY <1>1, <1>3, <1>6 DEF RInv

LEMMA NextRInv == TInv /\ RInv /\ [Next]_vars => RInv'
<1> SUFFICES ASSUME TInv, RInv, [Next]_vars PROVE RInv'
  OBVIOUS
<1>1. CASE DiscoveryStep
  <2>1. CASE SelectBatch
    <3>1. /\ memory' = [memory EXCEPT !.emitted = memory.emitted \cup Selected]
          /\ checkpoint' = memory' /\ UNCHANGED <<site, skipped>>
      BY <2>1 DEF SelectBatch, EmittedAfter
    <3>2. /\ memory'.cursors = memory.cursors /\ memory'.products = memory.products
          /\ memory'.agent = memory.agent
      BY <3>1 DEF TInv, Sound, Payload
    <3> QED
      BY <3>1, <3>2 DEF RInv, ReadInv, AgentTold
  <2>2. CASE PageFails \/ SelectUnverified \/ SelectNothing
    BY <2>2 DEF PageFails, SelectUnverified, SelectNothing, SupplyEnds, EndsAs, Ends, RInv
  <2> QED
    BY <1>1, <2>1, <2>2, PagesReadWell, RepeatedReads, ConcludeReads DEF DiscoveryStep
<1>2. CASE UNCHANGED <<site, checkpoint, skipped>> /\ memory' \in {memory, checkpoint}
  BY <1>2 DEF RInv
<1>3. Start \/ Crash \/ _target_and_quotas \/ LockPolicy \/ add_candidates
        \/ (\E p \in Products : Settle(p)) \/ Tick \/ UNCHANGED vars
      => UNCHANGED <<site, checkpoint, skipped>> /\ memory' \in {memory, checkpoint}
  BY DEF Start, Crash, _target_and_quotas, LockPolicy, add_candidates, Settle, Tick, vars,
         EndsAs, Ends, SupplyEnds, Discover, refill
<1> QED
  BY <1>1, <1>2, <1>3 DEF Next

-----------------------------------------------------------------------------
(***************************************************************************)
(* What a discovery leaves to be handed out.                               *)
(***************************************************************************)
Handed(P) == {i \in DOMAIN P.products : P.products[i] \in P.emitted}

LEMMA HandedAndAvailable ==
    ASSUME NEW P, Sound(P)
    PROVE  /\ Cardinality(Handed(P)) \in Nat /\ Cardinality(Available(P)) \in Nat
           /\ Cardinality(Handed(P)) + Cardinality(Available(P)) = Len(P.products)
           /\ Len(P.products) \in Nat
           /\ IsFiniteSet(Available(P)) /\ Available(P) \in SUBSET Nat
<1>1. P.products \in Seq(Products)
  BY DEF Sound, Payload
<1>2. /\ IsFiniteSet(DOMAIN P.products) /\ Cardinality(DOMAIN P.products) = Len(P.products)
      /\ DOMAIN P.products = 1..Len(P.products) /\ Len(P.products) \in Nat
  BY <1>1, PlacesFinite
<1>3. Handed(P) \in SUBSET DOMAIN P.products /\ Available(P) \in SUBSET DOMAIN P.products
  BY DEF Handed, Available
<1>4. Handed(P) \cup Available(P) = DOMAIN P.products /\ Handed(P) \cap Available(P) = {}
  BY DEF Handed, Available
<1>5. IsFiniteSet(Handed(P)) /\ IsFiniteSet(Available(P))
  BY <1>2, <1>3, FS_Subset
<1>6. Cardinality(Handed(P)) \in Nat /\ Cardinality(Available(P)) \in Nat
  BY <1>5, FS_CardinalityType
<1>7. Cardinality(Handed(P) \cup Available(P))
        = Cardinality(Handed(P)) + Cardinality(Available(P)) - Cardinality(Handed(P) \cap Available(P))
  BY <1>5, FS_Union
<1>8. Cardinality(Handed(P) \cap Available(P)) = 0
  BY <1>4, FS_EmptySet
<1>9. Available(P) \in SUBSET Nat
  BY <1>2, <1>3
<1>10. Cardinality(Handed(P) \cup Available(P)) = Len(P.products)
  BY <1>2, <1>4
<1>11. Cardinality(Handed(P)) + Cardinality(Available(P)) = Len(P.products)
  BY <1>6, <1>7, <1>8, <1>10
<1> QED
  BY <1>2, <1>5, <1>6, <1>9, <1>11

(* New products are not handed out yet.                                      *)
LEMMA HandedKept ==
    ASSUME NEW P, NEW Q, Sound(P), Sound(Q), Q.emitted = P.emitted,
           Len(P.products) <= Len(Q.products),
           \A i \in 1..Len(P.products) : Q.products[i] = P.products[i],
           \A i \in 1..Len(Q.products) : i > Len(P.products) => Q.products[i] \notin ToSet(P.products)
    PROVE  Handed(Q) = Handed(P)
<1>1. /\ DOMAIN P.products = 1..Len(P.products) /\ Len(P.products) \in Nat
      /\ DOMAIN Q.products = 1..Len(Q.products) /\ Len(Q.products) \in Nat
  BY PlacesFinite DEF Sound, Payload
<1>2. P.emitted \subseteq ToSet(P.products)
  BY DEF Sound
<1>3. \A i \in Handed(Q) : i \in Handed(P)
  BY <1>1, <1>2 DEF Handed
<1>4. \A i \in Handed(P) : i \in Handed(Q)
  BY <1>1 DEF Handed
<1> QED
  BY <1>3, <1>4

(* Fewer than needed are selected only if nothing more is there.             *)
LEMMA SelectedIsAll ==
    ASSUME Sound(memory), worker.needed \in Nat, Cardinality(Selected) < worker.needed
    PROVE  /\ Cardinality(Available(memory)) < worker.needed
           /\ Selected = {memory.products[i] : i \in Available(memory)}
<1> DEFINE A == Available(memory)
           n == worker.needed
           chosen == {i \in A : Cardinality({j \in A : j < i}) < n}
           first == {i \in A : Cardinality(UpTo(i, A)) <= n}
<1>1. IsFiniteSet(A) /\ A \in SUBSET Nat /\ Cardinality(A) \in Nat
  BY HandedAndAvailable
<1>2. \A i, j \in A : memory.products[i] = memory.products[j] => i = j
  BY PlacesFinite DEF Sound, Payload, Distinct, Available
<1>3. Selected = {memory.products[i] : i \in chosen}
  BY DEF Selected
<1> HIDE DEF A, n
<1>4. n \in Nat /\ Cardinality(Selected) < n
  BY DEF n
<1>5. ASSUME NEW i \in A
      PROVE  Cardinality(UpTo(i, A)) = Cardinality({j \in A : j < i}) + 1
             /\ Cardinality({j \in A : j < i}) \in Nat
  <2> DEFINE below == {j \in A : j < i}
  <2>1. \A j \in A : j \in Nat
    BY <1>1
  <2>2. below \in SUBSET A /\ i \notin below /\ UpTo(i, A) = below \cup {i}
    BY <2>1 DEF UpTo
  <2> HIDE DEF below
  <2>3. IsFiniteSet(below) /\ Cardinality(below) \in Nat
    BY <1>1, <2>2, FS_Subset, FS_CardinalityType
  <2>4. Cardinality(below \cup {i}) = Cardinality(below) + 1
    BY <2>2, <2>3, FS_AddElement
  <2> QED
    BY <2>2, <2>3, <2>4 DEF below
<1>6. chosen = first
  BY <1>4, <1>5
<1> HIDE DEF chosen
<1>7. ASSUME ~(Cardinality(A) < n) PROVE FALSE
  <2> DEFINE rank == [i \in first |-> Cardinality(UpTo(i, A))]
  <2>1. first \in SUBSET A
    OBVIOUS
  <2>2. IsFiniteSet(first)
    BY <1>1, <2>1, FS_Subset
  <2>3. \A i \in first : Cardinality(UpTo(i, A)) \in 1..n
    BY <1>1, <1>4, RankIsOnto
  <2>4. \A k \in 1..n : \E i \in first : Cardinality(UpTo(i, A)) = k
    <3>1. \A k \in 1..n : k \in 1..Cardinality(A)
      BY <1>1, <1>4, <1>7
    <3>2. \A k \in 1..n : \E i \in A : Cardinality(UpTo(i, A)) = k
      BY <1>1, <3>1, RankIsOnto
    <3> QED
      BY <1>4, <3>2
  <2> HIDE DEF first
  <2>5. rank \in Surjection(first, 1..n)
    BY <2>3, <2>4 DEF Surjection
  <2>6. Cardinality(1..n) <= Cardinality(first)
    BY <2>2, <2>5, FS_Surjection
  <2>7. Cardinality(1..n) = n
    BY <1>4, FS_Interval
  <2>8. Cardinality(Selected) = Cardinality(first)
    <3>1. \A i, j \in first : memory.products[i] = memory.products[j] => i = j
      BY <1>2, <2>1
    <3> QED
      BY <1>3, <1>6, <2>2, <3>1, ImageOfPlaces
  <2>9. Cardinality(first) \in Nat
    BY <2>2, FS_CardinalityType
  <2> QED
    BY <1>4, <2>6, <2>7, <2>8, <2>9
<1>8. first = A
  <2>1. \A i \in A : Cardinality(UpTo(i, A)) <= n
    BY <1>1, <1>4, <1>7, RankIsOnto
  <2> QED
    BY <2>1
<1> QED
  BY <1>3, <1>6, <1>7, <1>8 DEF A, n

Supplied(P, s, needed) ==
    \/ Cardinality(Available(P)) >= needed
    \/ P.status = "PAGINATION_UNVERIFIED"
    \/ \A c \in Scopes : Following(s.contents, s.entry[c]) \subseteq P.cursors[c].seen

(* A discovery looks for more than is needed; when it has looked, there is   *)
(* enough, an unproven end, or nothing that was not read.                    *)
DiscoveryInv ==
    /\ worker.at # "off" => job = "RUNNING"
    /\ worker.at # "pages" => memory = checkpoint
    /\ memory.products = checkpoint.products /\ memory.emitted = checkpoint.emitted
    /\ memory.agent = checkpoint.agent
    /\ worker.at \in {"pages", "select"} =>
          /\ worker.needed >= 1
          /\ worker.purpose = "target" => mode = "ALL" /\ worker.needed = ALL_PRODUCTS
    /\ worker.at = "pages" => Cardinality(Handed(memory)) + worker.needed <= worker.limit
    /\ worker.at = "select" => AgentTold(memory) \/ Supplied(memory, site, worker.needed)

SiteOffers(s) ==
    UNION {ToSet(Links(s.contents[p])) :
             p \in UNION {Following(s.contents, s.entry[c]) : c \in Scopes}}

AllHandedOut(P, s, missed) ==
    \/ AgentTold(P) \/ Cardinality(P.emitted) >= ALL_PRODUCTS
    \/ SiteOffers(s) \subseteq P.emitted \cup missed

(* A target of ALL is the count of everything.                               *)
CountInv ==
    mode = "ALL" =>
      /\ worker.at \in {"lock", "add", "running"} => AllHandedOut(checkpoint, site, skipped)
      /\ worker.at \in {"pages", "select"} /\ worker.purpose # "target" =>
            AllHandedOut(checkpoint, site, skipped)

SupplyInv == TInv /\ IInv /\ RInv /\ DiscoveryInv /\ CountInv /\ NoFalseShortage

LEMMA EmittedFinite ==
    ASSUME NEW P, Sound(P)
    PROVE  IsFiniteSet(P.emitted) /\ Cardinality(P.emitted) \in Nat
<1>1. IsFiniteSet(ToSet(P.products)) /\ P.emitted \in SUBSET ToSet(P.products)
  BY PlacesFinite DEF Sound, Payload
<1>2. IsFiniteSet(P.emitted)
  BY <1>1, FS_Subset
<1> QED
  BY <1>2, FS_CardinalityType

(* What was all stays all.                                                   *)
LEMMA AllHandedOutStays ==
    ASSUME NEW P, NEW Q, Sound(P), Sound(Q), P.emitted \subseteq Q.emitted,
           AgentTold(P) => AgentTold(Q), NEW s, NEW missed, NEW more, missed \subseteq more,
           AllHandedOut(P, s, missed)
    PROVE  AllHandedOut(Q, s, more)
<1>1. Cardinality(P.emitted) <= Cardinality(Q.emitted)
  BY EmittedFinite, FS_Subset
<1>2. /\ Cardinality(P.emitted) \in Nat /\ Cardinality(Q.emitted) \in Nat
      /\ ALL_PRODUCTS \in Nat
  BY EmittedFinite, CountAssumption
<1>3. CASE Cardinality(P.emitted) >= ALL_PRODUCTS
  BY <1>1, <1>2, <1>3 DEF AllHandedOut
<1> QED
  BY <1>3 DEF AllHandedOut

(* A discovery that ends with less than is needed and no unproven page hands *)
(* out what the site offers.                                                 *)
LEMMA SelectsAll ==
    ASSUME TInv, RInv, DiscoveryInv, worker.at = "select", ~IsUnverified,
           ~AgentTold(memory), Cardinality(Selected) < worker.needed
    PROVE  SiteOffers(site) \subseteq memory.emitted \cup Selected \cup skipped
<1>1. Sound(memory) /\ worker.needed \in Nat
  BY DEF TInv, TypeOK
<1>2. /\ Cardinality(Available(memory)) < worker.needed
      /\ Selected = {memory.products[i] : i \in Available(memory)}
  BY <1>1, SelectedIsAll
<1>3. Cardinality(Available(memory)) \in Nat
  BY <1>1, HandedAndAvailable
<1>4. memory.status # "PAGINATION_UNVERIFIED"
  BY DEF IsUnverified
<1>5. Supplied(memory, site, worker.needed)
  BY DEF DiscoveryInv
<1>6. \A c \in Scopes : Following(site.contents, site.entry[c]) \subseteq memory.cursors[c].seen
  BY <1>1, <1>2, <1>3, <1>4, <1>5 DEF Supplied
<1>7. \A c \in Scopes : CursorInv(site, c, memory.cursors[c], ToSet(memory.products) \cup skipped)
  BY DEF RInv, ReadInv
<1>8. SiteOffers(site) \subseteq ToSet(memory.products) \cup skipped
  BY <1>6, <1>7 DEF SiteOffers, CursorInv
<1>9. ToSet(memory.products) \subseteq memory.emitted \cup Selected
  BY <1>2 DEF ToSet, Available
<1> HIDE DEF Selected
<1> QED
  BY <1>8, <1>9

-----------------------------------------------------------------------------
LEMMA InitSupplyInv == Init => SupplyInv
<1> SUFFICES ASSUME Init PROVE SupplyInv
  OBVIOUS
<1>1. DiscoveryInv /\ CountInv /\ NoFalseShortage
  BY DEF Init, DiscoveryInv, CountInv, NoFalseShortage, ClaimsAll, Idle
<1> QED
  BY <1>1, InitTInv, InitIInv, InitRInv DEF SupplyInv

LEMMA RunningClaimsNothing == job = "RUNNING" => NoFalseShortage
BY DEF NoFalseShortage, ClaimsAll

LEMMA EndsKeepsCount ==
    ASSUME NEW j, NEW reason, Ends(j, reason), UNCHANGED checkpoint
    PROVE  DiscoveryInv' /\ CountInv'
BY DEF Ends, DiscoveryInv, CountInv, Idle

(* A process that ends without a claim.                                      *)
LEMMA EndsWithoutClaim ==
    ASSUME NEW j, NEW reason, Ends(j, reason), UNCHANGED checkpoint,
           j \notin {"TARGET_SHORTAGE", "COMPLETED"} \/ reason = "rounds"
    PROVE  DiscoveryInv' /\ CountInv' /\ NoFalseShortage'
<1>1. job' = j /\ worker'.reason = reason
  BY DEF Ends, Idle
<1>2. NoFalseShortage'
  BY <1>1 DEF NoFalseShortage, ClaimsAll
<1> QED
  BY <1>2, EndsKeepsCount

(* The beginning of a discovery.                                             *)
LEMMA DiscoverClaims ==
    ASSUME SupplyInv, NEW w, w \in Workers, NEW purpose, NEW needed \in Nat, needed >= 1,
           Discover(w, purpose, needed), UNCHANGED <<site, mode, job, checkpoint, skipped>>,
           job = "RUNNING",
           purpose = "target" => mode = "ALL" /\ needed = ALL_PRODUCTS,
           mode = "ALL" /\ purpose # "target" => AllHandedOut(checkpoint, site, skipped)
    PROVE  DiscoveryInv' /\ CountInv' /\ NoFalseShortage'
<1> DEFINE limit == Len(checkpoint.products) + Larger(DISCOVERY_FACTOR * needed, DISCOVERY_FLOOR)
           at == IF Cardinality(Available(checkpoint)) < needed THEN "pages" ELSE "select"
<1>1. /\ memory' = checkpoint /\ worker'.purpose = purpose /\ worker'.needed = needed
      /\ worker'.limit = limit /\ worker'.at = at
  BY DEF Discover, Workers
<1>2. Sound(checkpoint)
  BY DEF SupplyInv, TInv
<1>3. /\ Cardinality(Handed(checkpoint)) \in Nat /\ Cardinality(Available(checkpoint)) \in Nat
      /\ Cardinality(Handed(checkpoint)) <= Len(checkpoint.products)
      /\ Len(checkpoint.products) \in Nat
  BY <1>2, HandedAndAvailable
<1>4. Larger(DISCOVERY_FACTOR * needed, DISCOVERY_FLOOR) >= needed
      /\ Larger(DISCOVERY_FACTOR * needed, DISCOVERY_FLOOR) \in Nat
  <2>1. DISCOVERY_FACTOR \in Nat \ {0} /\ DISCOVERY_FLOOR \in Nat
    BY CountAssumption
  <2>2. DISCOVERY_FACTOR * needed \in Nat
    BY <2>1
  <2>3. DISCOVERY_FACTOR * needed >= needed
    BY <2>1
  <2> QED
    BY <2>1, <2>2, <2>3 DEF Larger
<1>5. Cardinality(Handed(checkpoint)) + needed <= limit
  BY <1>3, <1>4
<1>6. at \in {"pages", "select"}
      /\ (at = "select" => Cardinality(Available(checkpoint)) >= needed)
  BY <1>3
<1> HIDE DEF limit, at
<1>7. DiscoveryInv'
  BY <1>1, <1>5, <1>6 DEF DiscoveryInv, Supplied
<1>8. CountInv'
  BY <1>1, <1>6 DEF CountInv
<1> QED
  BY <1>7, <1>8 DEF NoFalseShortage, ClaimsAll

LEMMA PagesCount ==
    ASSUME SupplyInv, NEW c \in Scopes, ReadHtmlPage(c) \/ ReadGraphqlPage(c)
    PROVE  DiscoveryInv' /\ CountInv' /\ NoFalseShortage'
<1>0. TInv /\ DiscoveryInv /\ CountInv
  BY DEF SupplyInv
<1>1. PICK found \in Seq(Products), unanswered \in SUBSET Nat :
         MayRead(c) /\ PageRead(c, Stored(memory.products, found, unanswered))
  BY <1>0, PageGives
<1> DEFINE stored == Stored(memory.products, found, unanswered)
           cursor == CursorAfter(memory.cursors[c], site.contents[memory.cursors[c].next])
<1>2. /\ memory' = [memory EXCEPT !.products = stored, !.cursors[c] = cursor]
      /\ checkpoint' = memory' /\ UNCHANGED <<site, mode, job, worker, pool>>
      /\ skipped \subseteq skipped' /\ worker.at = "pages"
  BY <1>1 DEF PageRead, MayRead
<1>3. Sound(memory) /\ Sound(memory')
  <2>1. TInv'
    BY <1>0, <1>1, PageReadTyped
  <2> QED
    BY <1>0, <2>1 DEF TInv, Sound
<1>4. memory.products \in Seq(Products) /\ memory \in Payload
  BY <1>3 DEF Sound, Payload
<1>5. /\ Len(memory.products) <= Len(stored)
      /\ \A i \in 1..Len(memory.products) : stored[i] = memory.products[i]
      /\ \A i \in 1..Len(stored) : i > Len(memory.products) => stored[i] \notin ToSet(memory.products)
  BY <1>4, StoredKeeps
<1> HIDE DEF stored, cursor
<1>6. /\ memory'.products = stored /\ memory'.emitted = memory.emitted
      /\ memory'.agent = memory.agent
  BY <1>2, <1>4 DEF Payload
<1>7. Handed(memory') = Handed(memory)
  BY <1>3, <1>5, <1>6, HandedKept
<1>8. DiscoveryInv'
  BY <1>0, <1>2, <1>6, <1>7 DEF DiscoveryInv, Handed
<1>9. CountInv'
  <2> SUFFICES ASSUME mode = "ALL", worker.purpose # "target"
               PROVE  AllHandedOut(memory', site, skipped')
    BY <1>2 DEF CountInv
  <2>1. AllHandedOut(checkpoint, site, skipped) /\ Sound(checkpoint)
    BY <1>0, <1>2 DEF CountInv, TInv
  <2>2. memory'.emitted = checkpoint.emitted /\ memory'.agent = checkpoint.agent
    BY <1>0, <1>6 DEF DiscoveryInv
  <2> QED
    BY <1>2, <1>3, <2>1, <2>2, AllHandedOutStays DEF AgentTold
<1>10. job' = "RUNNING"
  BY <1>0, <1>2 DEF DiscoveryInv
<1> QED
  BY <1>8, <1>9, <1>10 DEF NoFalseShortage, ClaimsAll

LEMMA RepeatedCounts ==
    ASSUME SupplyInv, NEW c \in Scopes, RepeatedCursor(c)
    PROVE  DiscoveryInv' /\ CountInv' /\ NoFalseShortage'
<1>1. /\ memory' = [memory EXCEPT !.cursors[c] = AfterRepeat(memory.cursors[c])]
      /\ UNCHANGED <<site, mode, job, checkpoint, worker, pool, skipped>>
      /\ worker.at = "pages" /\ memory \in Payload
  BY DEF RepeatedCursor, MayRead, SupplyInv, TInv, Sound
<1>2. /\ memory'.products = memory.products /\ memory'.emitted = memory.emitted
      /\ memory'.agent = memory.agent
  BY <1>1 DEF Payload
<1>3. DiscoveryInv'
  BY <1>1, <1>2 DEF SupplyInv, DiscoveryInv, Handed
<1>4. CountInv'
  BY <1>1 DEF SupplyInv, CountInv
<1> QED
  BY <1>1, <1>3, <1>4 DEF SupplyInv, DiscoveryInv, NoFalseShortage, ClaimsAll

(* No page is left to read and none is unproven: every page was read.        *)
LEMMA AllProvenIsAllRead ==
    ASSUME TInv, RInv, ~AgentTold(memory), Open(memory) = {}, Unproven(memory) = {}
    PROVE  \A c \in Scopes : /\ memory.cursors[c].exhausted
                             /\ Following(site.contents, site.entry[c]) \subseteq memory.cursors[c].seen
<1> SUFFICES ASSUME NEW c \in Scopes
             PROVE  /\ memory.cursors[c].exhausted
                    /\ Following(site.contents, site.entry[c]) \subseteq memory.cursors[c].seen
  OBVIOUS
<1>1. CursorInv(site, c, memory.cursors[c], ToSet(memory.products) \cup skipped)
  BY DEF RInv, ReadInv
<1>2. ASSUME ~memory.cursors[c].exhausted PROVE FALSE
  <2>1. memory.cursors[c].seen = {}
    BY <1>2 DEF Unproven, Visited
  <2>2. memory.cursors[c].next = site.entry[c]
    BY <1>1, <2>1 DEF CursorInv
  <2>3. memory.cursors[c].next # NoPage
    BY <2>2, SiteAssumption, CountAssumption DEF TInv, TypeOK
  <2>4. Cardinality(memory.cursors[c].seen) < MAX_ACQUISITION_PAGES
    <3>1. Cardinality({}) = 0
      BY FS_EmptySet
    <3> QED
      BY <2>1, <3>1, CountAssumption
  <2> QED
    BY <1>2, <2>3, <2>4 DEF Open
<1> QED
  BY <1>1, <1>2 DEF CursorInv

(* What the end of the reading leaves is enough, unproven, or everything.    *)
LEMMA ConcludeSupplies ==
    ASSUME SupplyInv, Conclude
    PROVE  AgentTold(memory') \/ Supplied(memory', site, worker.needed)
<1> DEFINE told == [memory EXCEPT !.status = discovery_status(memory, worker.limit)]
<1>0. TInv /\ RInv /\ DiscoveryInv
  BY DEF SupplyInv
<1>1. /\ Sound(told)
      /\ \/ memory' = told
         \/ /\ told.status = "PAGINATION_UNVERIFIED" /\ memory.agent = "NOT_ASKED"
            /\ \E answer \in Recoveries : memory' = Recovered(told, answer)
  BY <1>0, ConcludeGives
<1>2. /\ told.products = memory.products /\ told.cursors = memory.cursors
      /\ told.emitted = memory.emitted
      /\ told.agent = memory.agent /\ told.status = discovery_status(memory, worker.limit)
  BY <1>0 DEF TInv, Sound, Payload
<1>3. /\ worker.at = "pages" /\ (Open(memory) = {} \/ Len(memory.products) >= worker.limit)
      /\ Sound(memory) /\ worker.limit \in Nat /\ worker.needed \in Nat
      /\ Cardinality(Handed(memory)) + worker.needed <= worker.limit
  BY <1>0 DEF Conclude, DiscoveryInv, TInv, TypeOK
<1>4. Handed(told) = Handed(memory)
  BY <1>2 DEF Handed
<1> HIDE DEF told
<1>5. ASSUME NEW answer \in Recoveries, memory' = Recovered(told, answer)
      PROVE  /\ Sound(memory') /\ Len(told.products) <= Len(memory'.products)
             /\ Handed(memory') = Handed(told)
             /\ AgentTold(memory') \/ (memory'.status = told.status /\ memory'.cursors = told.cursors)
  <2> DEFINE Q == Recovered(told, answer)
  <2>1. /\ Sound(Q) /\ Q.emitted = told.emitted /\ Len(told.products) <= Len(Q.products)
        /\ \A i \in 1..Len(told.products) : Q.products[i] = told.products[i]
        /\ \A i \in 1..Len(Q.products) : i > Len(told.products) => Q.products[i] \notin ToSet(told.products)
        /\ Q.agent \in {"NEXT", "END"} \/ (Q.cursors = told.cursors /\ Q.status = told.status)
    BY <1>1, RecoveredTyped
  <2> HIDE DEF Q
  <2>2. Handed(Q) = Handed(told)
    BY <1>1, <2>1, HandedKept
  <2> QED
    BY <1>5, <2>1, <2>2 DEF Q, AgentTold
<1>6. /\ Sound(memory') /\ Len(told.products) <= Len(memory'.products)
      /\ Handed(memory') = Handed(told)
      /\ AgentTold(memory') \/ (memory'.status = told.status /\ memory'.cursors = told.cursors)
  <2>1. Len(told.products) \in Nat
    BY <1>1, HandedAndAvailable
  <2> QED
    BY <1>1, <1>5, <2>1
<1>7. CASE Len(memory.products) >= worker.limit
  <2>1. /\ Cardinality(Handed(memory')) + Cardinality(Available(memory')) = Len(memory'.products)
        /\ Cardinality(Handed(memory')) \in Nat /\ Cardinality(Available(memory')) \in Nat
        /\ Len(memory'.products) \in Nat
    BY <1>6, HandedAndAvailable
  <2>2. Len(memory.products) \in Nat
    BY <1>3, HandedAndAvailable
  <2>3. Cardinality(Handed(memory')) = Cardinality(Handed(memory)) /\ Len(memory.products) <= Len(memory'.products)
    BY <1>2, <1>4, <1>6
  <2>4. Cardinality(Available(memory')) >= worker.needed
    BY <1>3, <1>7, <2>1, <2>2, <2>3
  <2> QED
    BY <2>4 DEF Supplied
<1>8. CASE ~(Len(memory.products) >= worker.limit)
  <2>1. Len(memory.products) < worker.limit /\ Open(memory) = {}
    <3>1. Len(memory.products) \in Nat
      BY <1>3, HandedAndAvailable
    <3> QED
      BY <1>3, <1>8, <3>1
  <2>2. CASE Unproven(memory) # {}
    <3>1. told.status = "PAGINATION_UNVERIFIED"
      BY <1>2, <2>1, <2>2 DEF discovery_status
    <3> QED
      BY <1>6, <3>1 DEF Supplied
  <2>3. CASE Unproven(memory) = {}
    <3>1. CASE AgentTold(memory)
      <4>1. memory' = told
        BY <1>1, <3>1 DEF AgentTold
      <4> QED
        BY <1>2, <3>1, <4>1 DEF AgentTold
    <3>2. CASE ~AgentTold(memory)
      <4>1. \A c \in Scopes : Following(site.contents, site.entry[c]) \subseteq memory.cursors[c].seen
        BY <1>0, <2>1, <2>3, <3>2, AllProvenIsAllRead
      <4> QED
        BY <1>2, <1>6, <4>1 DEF Supplied
    <3> QED
      BY <3>1, <3>2
  <2> QED
    BY <2>2, <2>3
<1> QED
  BY <1>7, <1>8

LEMMA ConcludeCounts ==
    ASSUME SupplyInv, Conclude
    PROVE  DiscoveryInv' /\ CountInv' /\ NoFalseShortage'
<1> DEFINE told == [memory EXCEPT !.status = discovery_status(memory, worker.limit)]
<1>0. TInv /\ DiscoveryInv /\ CountInv
  BY DEF SupplyInv
<1>1. /\ Sound(told)
      /\ \/ memory' = told
         \/ /\ memory.agent = "NOT_ASKED"
            /\ \E answer \in Recoveries : memory' = Recovered(told, answer)
      /\ checkpoint' = memory' /\ worker' = [worker EXCEPT !.at = "select"]
  BY <1>0, ConcludeGives
<1>2. told.emitted = memory.emitted /\ told.agent = memory.agent
  BY <1>0 DEF TInv, Sound, Payload
<1> HIDE DEF told
<1>3. ASSUME NEW answer \in Recoveries, memory' = Recovered(told, answer)
      PROVE  Sound(memory') /\ memory'.emitted = told.emitted
  BY <1>1, <1>3, RecoveredTyped
<1>4. /\ Sound(memory') /\ memory'.emitted = memory.emitted
      /\ AgentTold(memory) => AgentTold(memory')
  BY <1>1, <1>2, <1>3 DEF AgentTold
<1>5. UNCHANGED <<site, mode, job, pool, skipped>> /\ worker.at = "pages"
  BY DEF Conclude
<1>6. /\ worker'.at = "select" /\ worker'.needed = worker.needed
      /\ worker'.purpose = worker.purpose
  BY <1>0, <1>1 DEF TInv, TypeOK
<1>7. AgentTold(memory') \/ Supplied(memory', site, worker.needed)
  BY ConcludeSupplies
<1>8. DiscoveryInv'
  BY <1>0, <1>1, <1>5, <1>6, <1>7 DEF DiscoveryInv
<1>9. CountInv'
  <2> SUFFICES ASSUME mode = "ALL", worker.purpose # "target"
               PROVE  AllHandedOut(memory', site, skipped)
    BY <1>1, <1>5, <1>6 DEF CountInv
  <2>1. AllHandedOut(checkpoint, site, skipped) /\ Sound(checkpoint)
    BY <1>0, <1>5 DEF CountInv, TInv
  <2>2. memory'.emitted = checkpoint.emitted /\ (AgentTold(checkpoint) => AgentTold(memory'))
    BY <1>0, <1>4 DEF DiscoveryInv, AgentTold
  <2> QED
    BY <1>4, <2>1, <2>2, AllHandedOutStays
<1>10. job' = "RUNNING"
  BY <1>0, <1>5 DEF DiscoveryInv
<1> QED
  BY <1>8, <1>9, <1>10 DEF NoFalseShortage, ClaimsAll

(* The first batch of a job of mode ALL is all there is, or the most it      *)
(* counts.                                                                   *)
LEMMA BatchCounts ==
    ASSUME SupplyInv, SelectBatch
    PROVE  DiscoveryInv' /\ CountInv' /\ NoFalseShortage'
<1>0. TInv /\ RInv /\ DiscoveryInv /\ CountInv
  BY DEF SupplyInv
<1>1. /\ memory' = [memory EXCEPT !.emitted = memory.emitted \cup Selected]
      /\ checkpoint' = memory' /\ worker' = [worker EXCEPT !.at = "add", !.batch = Selected]
      /\ UNCHANGED <<site, mode, job, pool, skipped>>
      /\ worker.at = "select" /\ ~IsUnverified
  BY DEF SelectBatch, EmittedAfter
<1>2. Sound(memory) /\ Sound(memory')
  <2>1. TInv'
    <3>1. [Next]_vars
      BY DEF Next, DiscoveryStep
    <3> QED
      BY <1>0, <3>1, NextTInv
  <2> QED
    BY <1>0, <2>1 DEF TInv, Sound
<1>3. /\ memory'.products = memory.products /\ memory'.agent = memory.agent
      /\ memory'.emitted = memory.emitted \cup Selected
  BY <1>1, <1>2 DEF Sound, Payload
<1>4. worker'.at = "add"
  BY <1>0, <1>1 DEF TInv, TypeOK
<1>5. DiscoveryInv'
  BY <1>0, <1>1, <1>4 DEF DiscoveryInv
<1>6. ASSUME mode = "ALL" PROVE AllHandedOut(memory', site, skipped)
  <2>1. CASE worker.purpose # "target"
    <3>1. AllHandedOut(checkpoint, site, skipped) /\ Sound(checkpoint)
      BY <1>0, <1>1, <1>6, <2>1 DEF CountInv, TInv
    <3>2. checkpoint.emitted \subseteq memory'.emitted /\ (AgentTold(checkpoint) => AgentTold(memory'))
      BY <1>0, <1>3 DEF DiscoveryInv, AgentTold
    <3> HIDE DEF Selected
    <3> QED
      BY <1>2, <3>1, <3>2, AllHandedOutStays
  <2>2. CASE worker.purpose = "target"
    <3>1. worker.needed = ALL_PRODUCTS
      BY <1>0, <1>1, <2>2 DEF DiscoveryInv
    <3>2. CASE AgentTold(memory) \/ Cardinality(memory'.emitted) >= ALL_PRODUCTS
      BY <1>3, <3>2 DEF AllHandedOut, AgentTold
    <3>3. CASE ~AgentTold(memory) /\ ~(Cardinality(memory'.emitted) >= ALL_PRODUCTS)
      <4>1. IsFiniteSet(memory'.emitted) /\ Cardinality(memory'.emitted) \in Nat
        BY <1>2, EmittedFinite
      <4>2. Selected \in SUBSET memory'.emitted
        BY <1>3
      <4>3. IsFiniteSet(Selected) /\ Cardinality(Selected) <= Cardinality(memory'.emitted)
        BY <4>1, <4>2, FS_Subset
      <4>4. Cardinality(Selected) \in Nat /\ ALL_PRODUCTS \in Nat
        BY <4>3, FS_CardinalityType, CountAssumption
      <4>5. Cardinality(Selected) < worker.needed
        BY <3>1, <3>3, <4>1, <4>3, <4>4
      <4>6. SiteOffers(site) \subseteq memory.emitted \cup Selected \cup skipped
        BY <1>0, <1>1, <3>3, <4>5, SelectsAll
      <4> HIDE DEF Selected
      <4> QED
        BY <1>3, <4>6 DEF AllHandedOut
    <3> QED
      BY <3>2, <3>3
  <2> QED
    BY <2>1, <2>2
<1>7. CountInv'
  BY <1>1, <1>4, <1>6 DEF CountInv
<1>8. job' = "RUNNING"
  BY <1>0, <1>1 DEF DiscoveryInv
<1> QED
  BY <1>5, <1>7, <1>8 DEF NoFalseShortage, ClaimsAll

(* A job that is told its supply is exhausted was handed everything.         *)
LEMMA NothingCounts ==
    ASSUME SupplyInv, SelectNothing
    PROVE  DiscoveryInv' /\ CountInv' /\ NoFalseShortage'
<1>0. TInv /\ RInv /\ DiscoveryInv /\ CountInv
  BY DEF SupplyInv
<1>1. /\ worker.at = "select" /\ ~IsUnverified /\ Selected = {}
      /\ UNCHANGED <<site, mode, checkpoint, pool, skipped>>
  BY DEF SelectNothing
<1>2. memory = checkpoint /\ worker.needed >= 1 /\ worker.needed \in Nat
  BY <1>0, <1>1 DEF DiscoveryInv, TInv, TypeOK
<1>3. AgentTold(checkpoint) \/ SiteOffers(site) \subseteq checkpoint.emitted \cup skipped
  <2> SUFFICES ASSUME ~AgentTold(memory)
               PROVE  SiteOffers(site) \subseteq memory.emitted \cup skipped
    BY <1>2
  <2>1. Cardinality(Selected) = 0
    BY <1>1, FS_EmptySet
  <2>2. Cardinality(Selected) < worker.needed
    BY <1>2, <2>1
  <2>3. SiteOffers(site) \subseteq memory.emitted \cup Selected \cup skipped
    BY <1>0, <1>1, <2>2, SelectsAll
  <2> QED
    BY <1>1, <2>3
<1>4. CASE worker.purpose = "target"
  <2>1. worker' = [worker EXCEPT !.at = "lock"] /\ UNCHANGED <<job, memory>>
    BY <1>4 DEF SelectNothing
  <2>2. worker'.at = "lock" /\ job = "RUNNING"
    BY <1>0, <1>1, <2>1 DEF TInv, TypeOK, DiscoveryInv
  <2>3. DiscoveryInv'
    BY <1>0, <1>1, <1>2, <2>1, <2>2 DEF DiscoveryInv
  <2>4. CountInv'
    BY <1>1, <1>3, <2>2 DEF CountInv, AllHandedOut
  <2> QED
    BY <2>1, <2>2, <2>3, <2>4 DEF NoFalseShortage, ClaimsAll
<1>5. CASE worker.purpose # "target"
  <2>1. \E j : Ends(j, "supply")
    BY <1>5 DEF SelectNothing, SupplyEnds
  <2>2. DiscoveryInv' /\ CountInv'
    BY <1>1, <2>1, EndsKeepsCount
  <2>3. NoFalseShortage'
    BY <1>1, <1>3 DEF NoFalseShortage, Offered, SiteOffers, AgentTold
  <2> QED
    BY <2>2, <2>3
<1> QED
  BY <1>4, <1>5

LEMMA TickCounts ==
    ASSUME SupplyInv, Tick
    PROVE  DiscoveryInv' /\ CountInv' /\ NoFalseShortage'
<1>0. TInv /\ DiscoveryInv /\ CountInv
  BY DEF SupplyInv
<1>1. worker.at = "running" /\ UNCHANGED <<site, mode, checkpoint, pool, skipped>>
  BY DEF Tick
<1>2. /\ Cardinality(pool.passed) \in Nat /\ pool.target \in Nat /\ worker \in Workers
      /\ job = "RUNNING"
  BY <1>0, <1>1, FS_CardinalityType DEF TInv, TypeOK, FinitePool, Workers, DiscoveryInv
<1>3. CASE Cardinality(pool.passed) >= pool.target /\ EndsAs("COMPLETED")
  <2>1. Ends("COMPLETED", "none")
    BY <1>3 DEF EndsAs
  <2>2. DiscoveryInv' /\ CountInv'
    BY <1>1, <2>1, EndsKeepsCount
  <2>3. ASSUME ClaimsAll', checkpoint.agent \notin {"NEXT", "END"}
        PROVE  Offered' \subseteq checkpoint'.emitted \cup skipped'
    <3>1. mode = "ALL" /\ Cardinality(checkpoint.emitted) < ALL_PRODUCTS
      BY <1>1, <1>2, <1>3, <2>1, <2>3 DEF ClaimsAll, Ends
    <3>2. Cardinality(checkpoint.emitted) \in Nat /\ ALL_PRODUCTS \in Nat
      BY <1>0, EmittedFinite, CountAssumption DEF TInv
    <3>3. AllHandedOut(checkpoint, site, skipped)
      BY <1>0, <1>1, <3>1 DEF CountInv
    <3> QED
      BY <1>1, <2>3, <3>1, <3>2, <3>3 DEF AllHandedOut, AgentTold, Offered, SiteOffers
  <2> QED
    BY <1>1, <2>2, <2>3 DEF NoFalseShortage
<1>4. CASE SupplyEnds("rounds")
  BY <1>1, <1>4, EndsWithoutClaim DEF SupplyEnds
<1> DEFINE w == [worker EXCEPT !.rounds = worker.rounds + 1]
           needed == pool.target - Cardinality(pool.passed)
<1>5. CASE Cardinality(pool.passed) < pool.target /\ refill(w, "refill", needed) /\ UNCHANGED job
  <2>1. needed \in Nat /\ needed # 0
    BY <1>2, <1>5
  <2>2. w \in Workers
    BY <1>2 DEF Workers
  <2>3. Discover(w, "refill", Larger(REFILL_FACTOR * needed, needed)) /\ UNCHANGED job
    BY <1>5 DEF refill
  <2>4. mode = "ALL" => AllHandedOut(checkpoint, site, skipped)
    BY <1>0, <1>1 DEF CountInv
  <2> HIDE DEF w, needed
  <2>5. Larger(REFILL_FACTOR * needed, needed) \in Nat /\ Larger(REFILL_FACTOR * needed, needed) >= 1
    BY <2>1, RefillsSomething
  <2> QED
    BY <1>1, <1>2, <2>2, <2>3, <2>4, <2>5, DiscoverClaims
<1> QED
  BY <1>3, <1>4, <1>5 DEF Tick

LEMMA LockCounts ==
    ASSUME SupplyInv, LockPolicy
    PROVE  DiscoveryInv' /\ CountInv' /\ NoFalseShortage'
<1>0. TInv /\ DiscoveryInv /\ CountInv
  BY DEF SupplyInv
<1>1. worker.at = "lock" /\ UNCHANGED <<site, mode, checkpoint, skipped>>
  BY DEF LockPolicy
<1>2. worker \in Workers /\ job = "RUNNING" /\ memory = checkpoint
      /\ Cardinality(pool.items) \in Nat
  BY <1>0, <1>1, FS_CardinalityType DEF TInv, TypeOK, FinitePool, Workers, DiscoveryInv
<1>3. mode = "ALL" => AllHandedOut(checkpoint, site, skipped)
  BY <1>0, <1>1 DEF CountInv
<1>4. CASE ~MayLock(NewTarget)
  <2>1. Ends("BLOCKED", "none")
    BY <1>4 DEF LockPolicy, EndsAs
  <2> QED
    BY <1>1, <2>1, EndsWithoutClaim
<1>5. CASE MayLock(NewTarget) /\ pool.items = {}
  <2>1. Discover(worker, "initial", Larger(REFILL_FACTOR * NewTarget, NewTarget)) /\ UNCHANGED job
    BY <1>5 DEF LockPolicy, refill
  <2>2. NewTarget \in Nat /\ NewTarget # 0
    <3>1. NewTarget \in Nat
      BY <1>2, CountAssumption DEF NewTarget, Larger
    <3> QED
      BY <3>1, NewTargetIsPositive
  <2>3. Larger(REFILL_FACTOR * NewTarget, NewTarget) \in Nat
        /\ Larger(REFILL_FACTOR * NewTarget, NewTarget) >= 1
    BY <2>2, RefillsSomething
  <2> QED
    BY <1>1, <1>2, <1>3, <2>1, <2>3, DiscoverClaims
<1>6. CASE MayLock(NewTarget) /\ pool.items # {}
  <2>1. /\ worker' = [worker EXCEPT !.at = "running", !.purpose = "none", !.needed = 0, !.limit = 0]
        /\ UNCHANGED <<memory, job>>
    BY <1>6 DEF LockPolicy
  <2>2. worker'.at = "running"
    BY <1>2, <2>1 DEF Workers
  <2>3. DiscoveryInv'
    BY <1>0, <1>1, <1>2, <2>1, <2>2 DEF DiscoveryInv
  <2>4. CountInv'
    BY <1>1, <1>3, <2>2 DEF CountInv
  <2> QED
    BY <1>2, <2>1, <2>3, <2>4 DEF NoFalseShortage, ClaimsAll
<1> QED
  BY <1>4, <1>5, <1>6

LEMMA AddCounts ==
    ASSUME SupplyInv, add_candidates
    PROVE  DiscoveryInv' /\ CountInv' /\ NoFalseShortage'
<1>0. TInv /\ DiscoveryInv /\ CountInv
  BY DEF SupplyInv
<1>1. worker.at = "add" /\ UNCHANGED <<site, mode, checkpoint, skipped>>
  BY DEF add_candidates
<1>2. ~(worker.batch \subseteq pool.items)
  BY <1>1 DEF SupplyInv, IInv, EmittedFirst
<1>3. /\ worker' = [worker EXCEPT !.at = IF worker.purpose = "target" THEN "lock" ELSE "running",
                                  !.batch = {}, !.purpose = "none", !.needed = 0, !.limit = 0]
      /\ UNCHANGED <<job, memory>>
  BY <1>2 DEF add_candidates
<1>4. worker'.at \in {"lock", "running"}
  BY <1>0, <1>3 DEF TInv, TypeOK
<1>5. DiscoveryInv'
  BY <1>0, <1>1, <1>3, <1>4 DEF DiscoveryInv
<1>6. CountInv'
  BY <1>0, <1>1, <1>4 DEF CountInv
<1> QED
  BY <1>0, <1>1, <1>3, <1>5, <1>6 DEF DiscoveryInv, NoFalseShortage, ClaimsAll

LEMMA NextSupplyInv == SupplyInv /\ [Next]_vars => SupplyInv'
<1> SUFFICES ASSUME SupplyInv, [Next]_vars PROVE SupplyInv'
  OBVIOUS
<1>0. TInv /\ IInv /\ RInv /\ DiscoveryInv /\ CountInv /\ NoFalseShortage
  BY DEF SupplyInv
<1>1. ASSUME Start PROVE DiscoveryInv' /\ CountInv' /\ NoFalseShortage'
  <2>1. worker'.at = "target" /\ job' = "RUNNING" /\ UNCHANGED <<checkpoint, memory>>
        /\ worker.at = "off"
    BY <1>1 DEF Start, Idle
  <2>2. DiscoveryInv' /\ CountInv'
    BY <1>0, <2>1 DEF DiscoveryInv, CountInv
  <2> QED
    BY <2>1, <2>2 DEF NoFalseShortage, ClaimsAll
<1>2. ASSUME Crash PROVE DiscoveryInv' /\ CountInv' /\ NoFalseShortage'
  BY <1>2, EndsWithoutClaim DEF Crash, EndsAs
<1>3. ASSUME _target_and_quotas PROVE DiscoveryInv' /\ CountInv' /\ NoFalseShortage'
  <2>1. worker.at = "target" /\ UNCHANGED <<site, mode, job, checkpoint, skipped>>
    BY <1>3 DEF _target_and_quotas
  <2>2. job = "RUNNING" /\ worker \in Workers /\ memory = checkpoint
    BY <1>0, <2>1 DEF DiscoveryInv, TInv, TypeOK, Workers
  <2>3. CASE mode = "ALL"
    <3>1. ALL_PRODUCTS \in Nat /\ ALL_PRODUCTS >= 1
      BY CountAssumption
    <3>2. Discover(worker, "target", ALL_PRODUCTS)
      BY <1>3, <2>3 DEF _target_and_quotas
    <3> QED
      BY <2>1, <2>2, <2>3, <3>1, <3>2, DiscoverClaims
  <2>4. CASE mode # "ALL"
    <3>1. worker' = [worker EXCEPT !.at = "lock"] /\ UNCHANGED memory
      BY <1>3, <2>4 DEF _target_and_quotas
    <3>2. worker'.at = "lock"
      BY <2>2, <3>1 DEF Workers
    <3>3. DiscoveryInv' /\ CountInv'
      BY <1>0, <2>1, <2>2, <2>4, <3>1, <3>2 DEF DiscoveryInv, CountInv
    <3> QED
      BY <2>1, <2>2, <3>3 DEF NoFalseShortage, ClaimsAll
  <2> QED
    BY <2>3, <2>4
<1>4. ASSUME DiscoveryStep PROVE DiscoveryInv' /\ CountInv' /\ NoFalseShortage'
  <2>1. CASE PageFails
    <3>1. \E j \in Refusals : Ends(j, "none")
      BY <2>1 DEF PageFails, EndsAs
    <3> QED
      BY <2>1, <3>1, EndsWithoutClaim DEF PageFails, Refusals
  <2>2. CASE SelectUnverified
    BY <2>2, EndsWithoutClaim DEF SelectUnverified, EndsAs
  <2> QED
    BY <1>4, <2>1, <2>2, PagesCount, RepeatedCounts, ConcludeCounts, BatchCounts, NothingCounts
       DEF DiscoveryStep
<1>5. ASSUME NEW p \in Products, Settle(p)
      PROVE  DiscoveryInv' /\ CountInv' /\ NoFalseShortage'
  BY <1>0, <1>5 DEF Settle, DiscoveryInv, CountInv, NoFalseShortage, ClaimsAll
<1>6. ASSUME UNCHANGED vars PROVE DiscoveryInv' /\ CountInv' /\ NoFalseShortage'
  BY <1>0, <1>6 DEF vars, DiscoveryInv, CountInv, NoFalseShortage, ClaimsAll, Offered
<1>7. DiscoveryInv' /\ CountInv' /\ NoFalseShortage'
  BY <1>1, <1>2, <1>3, <1>4, <1>5, <1>6, LockCounts, AddCounts, TickCounts DEF Next
<1>8. TInv' /\ IInv' /\ RInv'
  BY <1>0, NextTInv, NextIInv, NextRInv
<1> QED
  BY <1>7, <1>8 DEF SupplyInv

(* A job never says that its categories have no more while a product they    *)
(* show was neither handed out nor passed over, however pages fail, cursors  *)
(* repeat and processes die, until the agent tells a page or an end.         *)
THEOREM ShortageIsTrue == Spec => []NoFalseShortage
<1>1. SupplyInv => NoFalseShortage
  BY DEF SupplyInv
<1> QED
  BY <1>1, InitSupplyInv, NextSupplyInv, PTL DEF Spec

=============================================================================
