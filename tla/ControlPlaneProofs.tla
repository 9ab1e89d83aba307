------------------------- MODULE ControlPlaneProofs -------------------------
(* Proofs about the control plane, for any number of jobs, runs, launches   *)
(* and requests.                                                            *)
EXTENDS ControlPlane, FiniteSetTheorems, WellFoundedInduction, TLAPS

(* A value as a thread's commit leaves it. *)
Kept(new, loaded, stored) == IF new = loaded THEN stored ELSE new

LEMMA EmptyRows ==
    /\ NoRun \in RunRows /\ NoRun.pid = 0 /\ NoRun.claimed = 0
    /\ NoRun.status = "NONE" /\ NoRun.job = "none"
    /\ Idle \in ThreadStates /\ Idle.at = "idle"
BY DEF NoRun, RunRows, RunStatuses, Idle, ThreadStates

LEMMA CommittedRow ==
    ASSUME NEW r \in Runs, runs[r] \in RunRows, NEW loaded \in RunRows, NEW row \in RunRows
    PROVE  LET c == Committed(r, loaded, row)
           IN /\ loaded # NoRun /\ runs[r] = NoRun => c = NoRun
              /\ c \in RunRows
              /\ ~(loaded # NoRun /\ runs[r] = NoRun) =>
                   /\ c.job = Kept(row.job, loaded.job, runs[r].job)
                   /\ c.status = Kept(row.status, loaded.status, runs[r].status)
                   /\ c.pid = Kept(row.pid, loaded.pid, runs[r].pid)
                   /\ c.claimed = Kept(row.claimed, loaded.claimed, runs[r].claimed)
<1> DEFINE columns == {"job", "status", "position", "resume", "attempts", "pid", "claimed"}
           c == [f \in columns |-> IF row[f] = loaded[f] THEN runs[r][f] ELSE row[f]]
<1>1. DOMAIN row = columns
  BY DEF RunRows
<1>2. Committed(r, loaded, row) = IF loaded # NoRun /\ runs[r] = NoRun THEN NoRun ELSE c
  BY <1>1 DEF Committed
<1>3. /\ c.job = Kept(row.job, loaded.job, runs[r].job)
      /\ c.status = Kept(row.status, loaded.status, runs[r].status)
      /\ c.pid = Kept(row.pid, loaded.pid, runs[r].pid)
      /\ c.claimed = Kept(row.claimed, loaded.claimed, runs[r].claimed)
      /\ c.position = Kept(row.position, loaded.position, runs[r].position)
      /\ c.resume = Kept(row.resume, loaded.resume, runs[r].resume)
      /\ c.attempts = Kept(row.attempts, loaded.attempts, runs[r].attempts)
  BY DEF Kept
<1>4. c \in RunRows
  <2>1. /\ c.job \in Jobs \cup {"none"} /\ c.status \in RunStatuses /\ c.pid \in Nat
        /\ c.claimed \in Nat /\ c.position \in Nat /\ c.attempts \in Nat
    BY <1>3 DEF Kept, RunRows
  <2>2. c.resume \in BOOLEAN
    BY <1>3 DEF Kept, RunRows
  <2>3. c = [x \in columns |-> c[x]]
    OBVIOUS
  <2> HIDE DEF c
  <2> QED
    BY <2>1, <2>2, <2>3 DEF RunRows
<1> HIDE DEF c
<1> QED
  BY <1>2, <1>3, <1>4, EmptyRows

LEMMA StatusAfterRows ==
    ASSUME NEW s \in JobStatuses, NEW rows \in Seq(Events)
    PROVE  /\ StatusAfter(s, rows) \in JobStatuses
           /\ StatusAfter(s, rows) = "COMPLETED" =>
                \/ s = "COMPLETED"
                \/ \E i \in DOMAIN rows : rows[i] = "JOB_COMPLETED"
<1>1. CASE rows = <<>>
  BY <1>1 DEF StatusAfter
<1>2. CASE rows # <<>>
  <2>1. Len(rows) \in DOMAIN rows /\ rows[Len(rows)] \in Events
    BY <1>2
  <2>2. ASSUME NEW before \in JobStatuses, NEW e \in Events
        PROVE  /\ JobAfter(before, e) \in JobStatuses
               /\ JobAfter(before, e) = "COMPLETED" => e = "JOB_COMPLETED"
    BY DEF JobAfter, JobStatuses, Events, TERMINAL_RUNTIME_EVENTS
  <2>3. "RUNNING" \in JobStatuses
    BY DEF JobStatuses
  <2> QED
    BY <1>2, <2>1, <2>2, <2>3 DEF StatusAfter
<1> QED
  BY <1>1, <1>2

LEMMA EndingsAreRows == EndingsTried \subseteq Seq(Events)
<1>1. Endings \subseteq Seq(Events)
  BY DEF Endings, Events, TERMINAL_RUNTIME_EVENTS
<1> QED
  BY <1>1, ControlAssumption

LEMMA CountedRuns ==
    ASSUME NEW s
    PROVE  IsFiniteSet(InStatus(s)) /\ Cardinality(InStatus(s)) \in Nat
<1>1. IsFiniteSet(Runs)
  BY ControlAssumption, FS_Interval DEF Runs
<1>2. InStatus(s) \subseteq Runs
  BY DEF InStatus
<1> QED
  BY <1>1, <1>2, FS_Subset, FS_CardinalityType

(* Some run of a nonempty set was created last: of the sets of its members  *)
(* from one on, one has no proper part among them.                          *)
LEMMA LastRun ==
    ASSUME NEW S, S \subseteq Runs, S # {}
    PROVE  \E r \in S : \A q \in S : q <= r
<1> DEFINE from == [x \in S |-> {y \in S : y >= x}]
           T == {from[x] : x \in S}
<1>1. IsFiniteSet(Runs) /\ Runs \subseteq Nat
  BY ControlAssumption, FS_Interval DEF Runs
<1>2. T \subseteq FiniteSubsetsOf(Runs)
  <2>1. ASSUME NEW x \in S PROVE from[x] \in SUBSET Runs
    OBVIOUS
  <2>2. ASSUME NEW U \in SUBSET Runs PROVE U \in FiniteSubsetsOf(Runs)
    <3>1. IsFiniteSet(U)
      BY <1>1, FS_Subset
    <3> QED
      BY <3>1 DEF FiniteSubsetsOf
  <2> HIDE DEF from
  <2> QED
    BY <2>1, <2>2
<1>3. PICK A \in T : \A B \in T : <<B, A>> \notin StrictSubsetOrdering(Runs)
  <2>1. IsWellFoundedOn(StrictSubsetOrdering(Runs), FiniteSubsetsOf(Runs))
    BY FS_StrictSubsetOrderingWellFounded
  <2>2. T # {}
    OBVIOUS
  <2> HIDE DEF T
  <2> QED
    BY <2>1, <2>2, <1>2, WFMin
<1>4. PICK r \in S : A = from[r]
  OBVIOUS
<1>5. ASSUME NEW q \in S PROVE q <= r
  <2>1. SUFFICES ASSUME r < q PROVE FALSE
    BY <1>1
  <2>2. from[q] \subseteq from[r] /\ r \in from[r] /\ r \notin from[q]
    <3>1. \A y \in S : y \in Nat
      BY <1>1
    <3>2. from[q] = {y \in S : y >= q} /\ from[r] = {y \in S : y >= r}
      OBVIOUS
    <3> HIDE DEF from
    <3> QED
      BY <3>1, <3>2, <2>1
  <2>3. <<from[q], from[r]>> \in StrictSubsetOrdering(Runs)
    BY <2>2 DEF StrictSubsetOrdering
  <2> QED
    BY <2>3, <1>3, <1>4
<1> QED
  BY <1>5

LEMMA LatestRun ==
    ASSUME NEW j
    PROVE  latest_run(j) # 0 => latest_run(j) \in Runs /\ runs[latest_run(j)].job = j
<1>1. CASE RunsOf(j) = {}
  BY <1>1 DEF latest_run
<1>2. CASE RunsOf(j) # {}
  <2>1. \E r \in RunsOf(j) : \A q \in RunsOf(j) : q <= r
    BY <1>2, LastRun DEF RunsOf
  <2> QED
    BY <1>2, <2>1 DEF latest_run, RunsOf
<1> QED
  BY <1>1, <1>2

-----------------------------------------------------------------------------
(* What the rows and the threads agree on, however stale a thread's row is. *)

(* A row names processes that were launched, the one it claims for its job; *)
(* a running one claims some.                                               *)
Backed(g, ps) ==
    /\ g.pid <= Len(ps) /\ g.claimed <= Len(ps)
    /\ g.claimed # 0 => ps[g.claimed].job = g.job
    /\ g.status = "RUNNING" => g.claimed # 0

(* A thread's row is of the job of its run, unless the run was deleted.      *)
Doing(s, rs, m) ==
    s.at # "idle" =>
      /\ s.run \in 1..m /\ s.row.job \in Jobs
      /\ s.loaded = NoRun \/ s.loaded.job = s.row.job
      /\ rs[s.run] = NoRun \/ rs[s.run].job = s.row.job
      /\ s.at = "judge" => s.row = s.loaded /\ s.row.status = "RUNNING"

SameJob(s, z) ==
    s.at # "idle" /\ z.at # "idle" /\ s.run = z.run => s.row.job = z.row.job

Loaded(s, ps) ==
    Backed(s.loaded, ps) /\ s.row.claimed = s.loaded.claimed /\ s.row.pid \in {0, s.loaded.pid}

RowOf(r, g, m) == g # NoRun => g.job \in Jobs /\ r <= m

KnownIn(rs, m, ps, th) ==
    /\ \A r \in Runs : Backed(rs[r], ps) /\ RowOf(r, rs[r], m)
    /\ \A t \in Threads : Doing(th[t], rs, m) /\ Loaded(th[t], ps)
    /\ \A t, u \in Threads : SameJob(th[t], th[u])

Known == KnownIn(runs, made, procs, thread)

Typed(rs, m, ps, th) ==
    /\ rs \in [Runs -> RunRows] /\ m \in 0..MaxRuns
    /\ ps \in Seq(Processes) /\ th \in [Threads -> ThreadStates]

(* Processes are launched, none is forgotten. *)
Grown(ps, qs) ==
    Len(ps) <= Len(qs) /\ \A l \in 1..Len(ps) : qs[l].job = ps[l].job

LEMMA BackedGrows ==
    ASSUME NEW ps \in Seq(Processes), NEW qs \in Seq(Processes), Grown(ps, qs),
           NEW g \in RunRows, Backed(g, ps)
    PROVE  Backed(g, qs)
<1>1. g.claimed \in Nat /\ g.pid \in Nat /\ Len(ps) \in Nat /\ Len(qs) \in Nat
  BY DEF RunRows
<1> QED
  BY <1>1 DEF Backed, Grown

LEMMA KnownGrows ==
    ASSUME NEW rs, NEW m, NEW ps, NEW qs \in Seq(Processes), NEW th,
           Typed(rs, m, ps, th), KnownIn(rs, m, ps, th), Grown(ps, qs)
    PROVE  KnownIn(rs, m, qs, th)
<1>1. \A r \in Runs : Backed(rs[r], qs)
  BY BackedGrows DEF Typed, KnownIn
<1>2. \A t \in Threads : Loaded(th[t], qs)
  <2>1. \A t \in Threads : th[t].loaded \in RunRows
    BY DEF Typed, ThreadStates
  <2> QED
    BY <2>1, BackedGrows DEF Typed, KnownIn, Loaded
<1> QED
  BY <1>1, <1>2 DEF KnownIn

(* A thread turns to something else. *)
LEMMA KnownTurns ==
    ASSUME NEW rs, NEW m, NEW ps, NEW th, NEW t \in Threads, NEW s \in ThreadStates,
           Typed(rs, m, ps, th), KnownIn(rs, m, ps, th),
           Doing(s, rs, m), Loaded(s, ps), \A u \in Threads \ {t} : SameJob(s, th[u])
    PROVE  KnownIn(rs, m, ps, [th EXCEPT ![t] = s])
<1> DEFINE th2 == [th EXCEPT ![t] = s]
<1>1. th2[t] = s /\ \A u \in Threads \ {t} : th2[u] = th[u]
  BY DEF Typed
<1>2. \A u \in Threads : Doing(th2[u], rs, m) /\ Loaded(th2[u], ps)
  BY <1>1 DEF KnownIn
<1>3. \A u, v \in Threads : SameJob(th2[u], th2[v])
  BY <1>1 DEF KnownIn, SameJob
<1> QED
  BY <1>2, <1>3 DEF KnownIn

LEMMA KnownStops ==
    ASSUME NEW rs, NEW m, NEW ps, NEW th, NEW t \in Threads,
           Typed(rs, m, ps, th), KnownIn(rs, m, ps, th)
    PROVE  KnownIn(rs, m, ps, [th EXCEPT ![t] = Idle])
<1>1. Idle \in ThreadStates /\ Doing(Idle, rs, m) /\ \A u \in Threads : SameJob(Idle, th[u])
  BY EmptyRows DEF Doing, SameJob
<1>2. Loaded(Idle, ps)
  BY EmptyRows DEF Loaded, Idle, Backed, Typed
<1> QED
  BY <1>1, <1>2, KnownTurns

(* Rows are rewritten, deleted or added. *)
LEMMA KnownRows ==
    ASSUME NEW rs, NEW m, NEW ps, NEW th, NEW rs2 \in [Runs -> RunRows], NEW m2 \in {m, m + 1},
           Typed(rs, m, ps, th), KnownIn(rs, m, ps, th),
           \A r \in Runs :
             /\ Backed(rs2[r], ps)
             /\ \/ rs2[r] = NoRun
                \/ rs[r] # NoRun /\ rs2[r].job = rs[r].job
                \/ r = m2 /\ m2 = m + 1 /\ rs2[r].job \in Jobs
    PROVE  KnownIn(rs2, m2, ps, th)
<1>1. m \in Nat /\ m2 \in Nat /\ m <= m2 /\ Runs \subseteq Nat
  BY ControlAssumption DEF Typed, Runs
<1>2. \A r \in Runs : RowOf(r, rs2[r], m2)
  BY <1>1 DEF KnownIn, RowOf
<1>3. ASSUME NEW t \in Threads PROVE Doing(th[t], rs2, m2)
  <2>1. SUFFICES ASSUME th[t].at # "idle" PROVE Doing(th[t], rs2, m2)
    BY DEF Doing
  <2>2. th[t].run \in 1..m /\ th[t].run \in Runs
    BY <2>1, ControlAssumption DEF KnownIn, Doing, Typed, Runs
  <2>3. th[t].run # m + 1 /\ th[t].run \in 1..m2
    BY <2>2, <1>1
  <2>4. Doing(th[t], rs, m)
    BY DEF KnownIn
  <2>5. rs2[th[t].run] = NoRun \/ rs2[th[t].run].job = th[t].row.job
    BY <2>1, <2>2, <2>3, <2>4 DEF Doing
  <2> QED
    BY <2>1, <2>3, <2>4, <2>5 DEF Doing
<1> QED
  BY <1>2, <1>3 DEF KnownIn

(* A thread commits a row of its run and is done.  What is left is a row of *)
(* the job or no row.                                                       *)
LEMMA KnownCommits ==
    ASSUME NEW rs, NEW m, NEW ps, NEW th, NEW t \in Threads, NEW g \in RunRows,
           Typed(rs, m, ps, th), KnownIn(rs, m, ps, th), th[t].at # "idle",
           g = NoRun \/ g.job = th[t].row.job, Backed(g, ps)
    PROVE  KnownIn([rs EXCEPT ![th[t].run] = g], m, ps, [th EXCEPT ![t] = Idle])
<1> DEFINE rs2 == [rs EXCEPT ![th[t].run] = g]
           th2 == [th EXCEPT ![t] = Idle]
<1>1. th[t].run \in Runs /\ th[t].run \in 1..m /\ th[t].row.job \in Jobs /\ m \in Nat
  BY ControlAssumption DEF KnownIn, Doing, Typed, Runs
<1>2. \A r \in Runs : rs2[r] = IF r = th[t].run THEN g ELSE rs[r]
  BY DEF Typed
<1>3. \A r \in Runs : Backed(rs2[r], ps) /\ RowOf(r, rs2[r], m)
  BY <1>1, <1>2 DEF KnownIn, RowOf
<1>4. ASSUME NEW u \in Threads PROVE Doing(th[u], rs2, m)
  <2>1. CASE th[u].at = "idle"
    BY <2>1 DEF Doing
  <2>2. CASE th[u].at # "idle"
    <3>1. Doing(th[u], rs, m) /\ SameJob(th[u], th[t])
      BY DEF KnownIn
    <3>2. th[u].run \in Runs
      BY <3>1, <2>2, ControlAssumption DEF Doing, Typed, Runs
    <3>3. rs2[th[u].run] = NoRun \/ rs2[th[u].run].job = th[u].row.job
      BY <3>1, <3>2, <2>2, <1>2 DEF Doing, SameJob
    <3> QED
      BY <3>1, <3>3, <2>2 DEF Doing
  <2> QED
    BY <2>1, <2>2
<1>5. rs2 \in [Runs -> RunRows]
  BY <1>1 DEF Typed
<1> HIDE DEF rs2
<1>6. KnownIn(rs2, m, ps, th)
  BY <1>3, <1>4 DEF KnownIn
<1>7. Typed(rs2, m, ps, th)
  BY <1>5 DEF Typed
<1>8. KnownIn(rs2, m, ps, [th EXCEPT ![t] = Idle])
  BY <1>6, <1>7, KnownStops
<1> QED
  BY <1>8 DEF rs2

(* What a thread's commit of a judged row, or of a failed launch, leaves.    *)
LEMMA CommitLeaves ==
    ASSUME Typed(runs, made, procs, thread), Known, NEW t \in Threads, thread[t].at # "idle",
           NEW row \in RunRows, row.job = thread[t].row.job, row.status # "RUNNING",
           row.claimed = thread[t].loaded.claimed, row.pid \in {0, thread[t].loaded.pid}
    PROVE  LET c == Committed(thread[t].run, thread[t].loaded, row)
           IN /\ c \in RunRows /\ Backed(c, procs)
              /\ c = NoRun \/ c.job = row.job
              /\ c.status = "SUCCEEDED" =>
                   \/ row.status = "SUCCEEDED"
                   \/ /\ runs[thread[t].run] # NoRun
                      /\ runs[thread[t].run].status = "SUCCEEDED"
<1> DEFINE r == thread[t].run
           loaded == thread[t].loaded
           g == runs[r]
           c == Committed(r, loaded, row)
<1>1. /\ r \in Runs /\ loaded \in RunRows /\ g \in RunRows /\ Len(procs) \in Nat
      /\ Doing(thread[t], runs, made) /\ Loaded(thread[t], procs) /\ Backed(g, procs)
  BY ControlAssumption DEF Known, KnownIn, Doing, Typed, ThreadStates, Runs
<1>2. /\ loaded = NoRun \/ loaded.job = row.job
      /\ g = NoRun \/ g.job = row.job
      /\ row.job \in Jobs /\ row.job # "none"
      /\ Backed(loaded, procs)
      /\ row.claimed = loaded.claimed /\ row.pid \in {0, loaded.pid}
  BY <1>1, ControlAssumption DEF Doing, Loaded
<1> HIDE DEF r, loaded, g
<1>3. CASE loaded # NoRun /\ g = NoRun
  <2>1. c = NoRun
    BY <1>1, <1>3, CommittedRow DEF g
  <2>2. Backed(NoRun, procs) /\ NoRun.status # "SUCCEEDED" /\ NoRun \in RunRows
    BY <1>1, EmptyRows DEF Backed
  <2> QED
    BY <2>1, <2>2 DEF c, r, loaded
<1>4. CASE ~(loaded # NoRun /\ g = NoRun)
  <2>1. /\ c \in RunRows
        /\ c.job = Kept(row.job, loaded.job, g.job)
        /\ c.status = Kept(row.status, loaded.status, g.status)
        /\ c.pid = Kept(row.pid, loaded.pid, g.pid)
        /\ c.claimed = Kept(row.claimed, loaded.claimed, g.claimed)
    BY <1>1, <1>4, CommittedRow DEF g
  <2> HIDE DEF c
  <2>2. c.job = row.job
    BY <2>1, <1>2, <1>4, EmptyRows DEF Kept
  <2>3. c.claimed = g.claimed /\ c.pid \in {0, g.pid}
    BY <2>1, <1>2 DEF Kept
  <2>4. c.status = "RUNNING" => g.status = "RUNNING"
    BY <2>1 DEF Kept
  <2>5. g.claimed # 0 => g # NoRun
    BY EmptyRows
  <2>6. Backed(c, procs)
    <3>1. c.pid <= Len(procs) /\ c.claimed <= Len(procs)
      BY <2>3, <1>1 DEF Backed
    <3>2. c.claimed # 0 => procs[c.claimed].job = c.job
      BY <2>2, <2>3, <2>5, <1>1, <1>2 DEF Backed
    <3>3. c.status = "RUNNING" => c.claimed # 0
      BY <2>3, <2>4, <1>1 DEF Backed
    <3> QED
      BY <3>1, <3>2, <3>3 DEF Backed
  <2>7. c.status = "SUCCEEDED" => row.status = "SUCCEEDED" \/ (g # NoRun /\ g.status = "SUCCEEDED")
    BY <2>1, EmptyRows DEF Kept
  <2> QED
    BY <2>1, <2>2, <2>6, <2>7 DEF c, r, loaded, g
<1> QED
  BY <1>3, <1>4

(* And of a launch. *)
LEMMA LaunchLeaves ==
    ASSUME Typed(runs, made, procs, thread), Known, NEW t \in Threads, thread[t].at # "idle",
           NEW ps \in Seq(Processes), Grown(procs, ps), Len(ps) = Len(procs) + 1,
           NEW row \in RunRows, row.job = thread[t].row.job, row.status = "RUNNING",
           row.claimed = Len(ps), row.pid = Len(ps), ps[Len(ps)].job = row.job
    PROVE  LET c == Committed(thread[t].run, thread[t].loaded, row)
           IN /\ c \in RunRows /\ Backed(c, ps)
              /\ c = NoRun \/ c.job = row.job
              /\ c.status = "SUCCEEDED" =>
                   runs[thread[t].run] # NoRun /\ runs[thread[t].run].status = "SUCCEEDED"
<1> DEFINE r == thread[t].run
           loaded == thread[t].loaded
           g == runs[r]
           c == Committed(r, loaded, row)
<1>1. /\ r \in Runs /\ loaded \in RunRows /\ g \in RunRows /\ Len(procs) \in Nat
      /\ Doing(thread[t], runs, made) /\ Loaded(thread[t], procs) /\ Backed(g, procs)
  BY ControlAssumption DEF Known, KnownIn, Doing, Typed, ThreadStates, Runs
<1>2. /\ loaded = NoRun \/ loaded.job = row.job
      /\ g = NoRun \/ g.job = row.job
      /\ row.job \in Jobs /\ row.job # "none"
      /\ Backed(loaded, procs)
  BY <1>1, ControlAssumption DEF Doing, Loaded
<1> HIDE DEF r, loaded, g
<1>3. CASE loaded # NoRun /\ g = NoRun
  <2>1. c = NoRun
    BY <1>1, <1>3, CommittedRow DEF g
  <2>2. Backed(NoRun, ps) /\ NoRun.status # "SUCCEEDED" /\ NoRun \in RunRows
    BY <1>1, EmptyRows DEF Backed
  <2> QED
    BY <2>1, <2>2 DEF c, r, loaded
<1>4. CASE ~(loaded # NoRun /\ g = NoRun)
  <2>1. /\ c \in RunRows
        /\ c.job = Kept(row.job, loaded.job, g.job)
        /\ c.status = Kept(row.status, loaded.status, g.status)
        /\ c.pid = Kept(row.pid, loaded.pid, g.pid)
        /\ c.claimed = Kept(row.claimed, loaded.claimed, g.claimed)
    BY <1>1, <1>4, CommittedRow DEF g
  <2> HIDE DEF c
  <2>2. c.job = row.job
    BY <2>1, <1>2, <1>4, EmptyRows DEF Kept
  <2>3. loaded.pid # Len(ps) /\ loaded.claimed # Len(ps)
    BY <1>1, <1>2 DEF Backed, RunRows
  <2>4. c.claimed = Len(ps) /\ c.pid = Len(ps)
    BY <2>1, <2>3 DEF Kept
  <2>5. Backed(c, ps)
    BY <2>2, <2>4, <1>1 DEF Backed
  <2>6. c.status = "SUCCEEDED" => g # NoRun /\ g.status = "SUCCEEDED"
    BY <2>1, EmptyRows DEF Kept
  <2> QED
    BY <2>1, <2>2, <2>5, <2>6 DEF c, r, loaded, g
<1> QED
  BY <1>3, <1>4

-----------------------------------------------------------------------------
(* The inductive invariant the others rest on. *)
Base == TypeOK /\ Known

(* What is not of the rows, processes and threads. *)
RestTyped(js, req, pen, le, lt, cp, del, n) ==
    /\ js \in [Jobs -> JobStatuses] /\ req \in 0..MaxRequests
    /\ pen \in [Jobs -> Seq(Events)]
    /\ le \in [Jobs -> 0..n] /\ lt \in [Jobs -> 0..n]
    /\ cp \subseteq Jobs /\ del \subseteq Jobs

LEMMA BaseIs ==
    Base <=> /\ Typed(runs, made, procs, thread)
             /\ RestTyped(jobs, requests, pending, lastEvent, lastTerminal, checkpoint,
                          delivered, launches)
             /\ Known
<1>1. ASSUME Known PROVE \A r \in Runs : runs[r].pid <= launches /\ runs[r].claimed <= launches
  BY <1>1 DEF Known, KnownIn, Backed, launches
<1> QED
  BY <1>1 DEF Base, TypeOK, Typed, RestTyped

LEMMA BaseNext ==
    ASSUME Typed(runs', made', procs', thread'), Known',
           RestTyped(jobs', requests', pending', lastEvent', lastTerminal', checkpoint',
                     delivered', launches')
    PROVE  Base'
<1>1. \A r \in Runs : runs'[r].pid <= launches' /\ runs'[r].claimed <= launches'
  BY DEF Known, KnownIn, Backed, launches
<1> QED
  BY <1>1 DEF Base, TypeOK, Typed, RestTyped

LEMMA SetJobTyped ==
    ASSUME jobs \in [Jobs -> JobStatuses], NEW j, NEW s \in JobStatuses, SetJob(j, s)
    PROVE  jobs' \in [Jobs -> JobStatuses]
BY DEF SetJob

LEMMA NamedStatuses ==
    {"POLICY_READY", "QUEUED", "RUNNING", "FAILED", "CANCELLED", "DELETED"} \subseteq JobStatuses
BY DEF JobStatuses

LEMMA IngestTyped ==
    ASSUME Base, NEW j \in Jobs, IngestFile(j)
    PROVE  RestTyped(jobs', requests, pending', lastEvent', lastTerminal', checkpoint,
                     delivered, launches)
<1>1. RestTyped(jobs, requests, pending, lastEvent, lastTerminal, checkpoint, delivered, launches)
      /\ launches \in 0..launches
  BY BaseIs DEF Typed, launches
<1>2. jobs' \in [Jobs -> JobStatuses]
  <2>1. StatusAfter(jobs[j], pending[j]) \in JobStatuses
    BY <1>1, StatusAfterRows DEF RestTyped
  <2> QED
    BY <1>1, <2>1, SetJobTyped DEF RestTyped, IngestFile
<1>3. pending' \in [Jobs -> Seq(Events)]
  <2>1. <<>> \in Seq(Events)
    OBVIOUS
  <2> QED
    BY <1>1, <2>1 DEF RestTyped, IngestFile
<1>4. lastEvent' \in [Jobs -> 0..launches]
  BY <1>1 DEF RestTyped, IngestFile
<1>5. lastTerminal' \in [Jobs -> 0..launches]
  BY <1>1 DEF RestTyped, IngestFile
<1> QED
  BY <1>1, <1>2, <1>3, <1>4, <1>5 DEF RestTyped

LEMMA RestGrows ==
    ASSUME NEW js, NEW req, NEW pen, NEW le, NEW lt, NEW cp, NEW del,
           NEW m \in Nat, NEW n \in Nat, m <= n, RestTyped(js, req, pen, le, lt, cp, del, m)
    PROVE  RestTyped(js, req, pen, le, lt, cp, del, n)
BY DEF RestTyped

LEMMA BaseInit == Init => Base
<1> SUFFICES ASSUME Init PROVE Base
  OBVIOUS
<1>1. Typed(runs, made, procs, thread)
  BY EmptyRows, ControlAssumption DEF Init, Typed
<1>2. RestTyped(jobs, requests, pending, lastEvent, lastTerminal, checkpoint, delivered, launches)
  BY ControlAssumption, NamedStatuses DEF Init, RestTyped, launches
<1>3. Known
  <2>1. \A r \in Runs : Backed(runs[r], procs) /\ RowOf(r, runs[r], made)
    BY EmptyRows DEF Init, Backed, RowOf
  <2>2. \A t \in Threads : Doing(thread[t], runs, made) /\ Loaded(thread[t], procs)
    BY EmptyRows DEF Init, Doing, Loaded, Backed, Idle
  <2>3. \A t, u \in Threads : SameJob(thread[t], thread[u])
    BY EmptyRows DEF Init, SameJob
  <2> QED
    BY <2>1, <2>2, <2>3 DEF Known, KnownIn
<1> QED
  BY <1>1, <1>2, <1>3, BaseIs

(* A worker's step: of the processes, one changes, and keeps its job.        *)
LEMMA ProcessChanges ==
    ASSUME Base, NEW l \in 1..launches, NEW p \in Processes, p.job = procs[l].job
    PROVE  /\ [procs EXCEPT ![l] = p] \in Seq(Processes)
           /\ Len([procs EXCEPT ![l] = p]) = Len(procs)
           /\ Grown(procs, [procs EXCEPT ![l] = p])
<1>1. procs \in Seq(Processes)
  BY BaseIs DEF Typed
<1> QED
  BY <1>1 DEF launches, Grown

LEMMA ProcessesChange ==
    ASSUME Base, NEW l \in 1..launches, NEW p \in Processes, p.job = procs[l].job,
           procs' = [procs EXCEPT ![l] = p], UNCHANGED <<runs, made, thread>>
    PROVE  Typed(runs', made', procs', thread') /\ Known' /\ launches' = launches
<1> DEFINE ps == [procs EXCEPT ![l] = p]
<1>1. ps \in Seq(Processes) /\ Len(ps) = Len(procs) /\ Grown(procs, ps)
  BY ProcessChanges
<1>2. Typed(runs, made, procs, thread) /\ KnownIn(runs, made, procs, thread)
  BY BaseIs DEF Known
<1> HIDE DEF ps
<1>3. KnownIn(runs, made, ps, thread)
  BY <1>1, <1>2, KnownGrows
<1>4. Typed(runs, made, ps, thread)
  BY <1>1, <1>2 DEF Typed
<1> QED
  BY <1>1, <1>3, <1>4 DEF ps, Known, launches

LEMMA ProcessIs ==
    ASSUME Base, NEW l \in 1..launches
    PROVE  procs[l] \in Processes /\ procs[l].job \in Jobs
<1>1. procs \in Seq(Processes)
  BY BaseIs DEF Typed
<1>2. procs[l] \in Processes
  BY <1>1 DEF launches
<1> QED
  BY <1>2 DEF Processes

LEMMA EmitKeeps ==
    ASSUME Base, NEW l \in 1..launches, Emit(l)
    PROVE  Base'
<1> DEFINE e == Head(procs[l].todo)
           j == procs[l].job
           p == [procs[l] EXCEPT !.todo = Tail(procs[l].todo),
                                 !.said = IF e \in TERMINAL_RUNTIME_EVENTS THEN e ELSE @]
<1>1. procs[l] \in Processes /\ j \in Jobs
  BY ProcessIs
<1>2. procs[l].todo \in Seq(Events) /\ procs[l].todo # <<>>
  BY <1>1 DEF Emit, Processes
<1>3. e \in Events /\ Tail(procs[l].todo) \in Seq(Events)
  BY <1>2
<1>4. p \in Processes /\ p.job = procs[l].job
  <2> DEFINE rest == Tail(procs[l].todo)
             said == IF e \in TERMINAL_RUNTIME_EVENTS THEN e ELSE procs[l].said
  <2>1. rest \in Seq(Events) /\ said \in Events \cup {"none"}
    BY <1>1, <1>3 DEF Processes
  <2>2. p = [procs[l] EXCEPT !.todo = rest, !.said = said]
    BY <1>1 DEF Processes
  <2> HIDE DEF rest, said, p
  <2> QED
    BY <2>1, <2>2, <1>1 DEF Processes
<1>5. procs' = [procs EXCEPT ![l] = p] /\ UNCHANGED <<runs, made, thread>>
  <2>1. procs \in Seq(Processes)
    BY BaseIs DEF Typed
  <2> QED
    BY <2>1, <1>1 DEF Emit, launches
<1> HIDE DEF p
<1>6. Typed(runs', made', procs', thread') /\ Known' /\ launches' = launches
  BY <1>4, <1>5, ProcessesChange
<1>7. RestTyped(jobs', requests', pending', lastEvent', lastTerminal', checkpoint', delivered', launches)
  <2>1. RestTyped(jobs, requests, pending, lastEvent, lastTerminal, checkpoint, delivered, launches)
    BY BaseIs
  <2>2. pending' = [pending EXCEPT ![j] = Append(pending[j], e)] /\ delivered' \subseteq delivered \cup {j}
    BY DEF Emit
  <2>3. pending' \in [Jobs -> Seq(Events)]
    <3>1. Append(pending[j], e) \in Seq(Events)
      BY <2>1, <1>1, <1>3 DEF RestTyped
    <3> QED
      BY <2>1, <2>2, <3>1 DEF RestTyped
  <2> QED
    BY <2>1, <2>2, <2>3, <1>1 DEF RestTyped, Emit
<1> QED
  BY <1>6, <1>7, BaseNext

LEMMA WorkKeeps ==
    ASSUME Base, NEW l \in 1..launches, Work(l)
    PROVE  Base'
<1>1. procs[l] \in Processes /\ procs[l].job \in Jobs
  BY ProcessIs
<1>2. PICK e \in EndingsTried : procs' = [procs EXCEPT ![l].todo = e, ![l].ending = TRUE]
  BY DEF Work
<1>3. e \in Seq(Events)
  BY EndingsAreRows
<1> DEFINE p == [procs[l] EXCEPT !.todo = e, !.ending = TRUE]
<1>4. p \in Processes /\ p.job = procs[l].job
  BY <1>1, <1>3 DEF Processes
<1>5. procs' = [procs EXCEPT ![l] = p] /\ UNCHANGED <<runs, made, thread>>
  <2>1. procs \in Seq(Processes)
    BY BaseIs DEF Typed
  <2> QED
    BY <2>1, <1>1, <1>2 DEF Work, launches
<1> HIDE DEF p
<1>6. Typed(runs', made', procs', thread') /\ Known' /\ launches' = launches
  BY <1>4, <1>5, ProcessesChange
<1>7. RestTyped(jobs', requests', pending', lastEvent', lastTerminal', checkpoint', delivered', launches)
  BY <1>1, BaseIs DEF RestTyped, Work, events
<1> QED
  BY <1>6, <1>7, BaseNext

LEMMA DeadProcess ==
    ASSUME NEW p \in Processes
    PROVE  Dead(p) \in Processes /\ Dead(p).job = p.job /\ Dead(p).run = p.run
           /\ Dead(p).said = p.said /\ Dead(p).alive = FALSE
<1>1. <<>> \in Seq(Events)
  OBVIOUS
<1> QED
  BY <1>1 DEF Dead, Processes

LEMMA EndKeeps ==
    ASSUME Base, NEW l \in 1..launches, Exit(l) \/ Die(l)
    PROVE  Base'
<1>1. procs[l] \in Processes
  BY ProcessIs
<1> DEFINE p == [procs[l] EXCEPT !.alive = FALSE]
<1>2. p \in Processes /\ p.job = procs[l].job
  BY <1>1 DEF Processes
<1>3. Dead(procs[l]) \in Processes /\ Dead(procs[l]).job = procs[l].job
  BY <1>1, DeadProcess
<1>4. PICK q \in Processes : q.job = procs[l].job /\ procs' = [procs EXCEPT ![l] = q]
  <2>1. CASE Exit(l)
    <3>1. procs \in Seq(Processes)
      BY BaseIs DEF Typed
    <3>2. procs' = [procs EXCEPT ![l] = p]
      BY <2>1, <3>1 DEF Exit, launches
    <3> HIDE DEF p
    <3> QED
      BY <1>2, <3>2
  <2>2. CASE Die(l)
    <3>1. procs' = [procs EXCEPT ![l] = Dead(procs[l])]
      BY <2>2 DEF Die
    <3> QED
      BY <1>3, <3>1
  <2> QED
    BY <2>1, <2>2
<1>5. UNCHANGED <<jobs, runs, made, events, checkpoint, thread, requests, delivered>>
  BY DEF Exit, Die
<1>6. Typed(runs', made', procs', thread') /\ Known' /\ launches' = launches
  BY <1>4, <1>5, ProcessesChange
<1>7. RestTyped(jobs', requests', pending', lastEvent', lastTerminal', checkpoint', delivered', launches)
  BY <1>5, BaseIs DEF events
<1> QED
  BY <1>6, <1>7, BaseNext

-----------------------------------------------------------------------------
(* Steps of a thread. *)
LEMMA ThreadIs ==
    ASSUME Base, NEW t \in Threads
    PROVE  LET s == thread[t]
           IN /\ s \in ThreadStates /\ s.loaded \in RunRows /\ s.row \in RunRows
              /\ Doing(s, runs, made) /\ Loaded(s, procs)
              /\ s.at # "idle" => s.run \in Runs /\ runs[s.run] \in RunRows /\ s.row.job \in Jobs
              /\ s.at = "judge" => /\ s.loaded = s.row /\ s.loaded.job \in Jobs
                                   /\ s.loaded.status = "RUNNING" /\ s.loaded # NoRun
<1>1. Typed(runs, made, procs, thread) /\ Known
  BY BaseIs
<1>2. thread[t] \in ThreadStates
  BY <1>1 DEF Typed
<1>3. thread[t].loaded \in RunRows /\ thread[t].row \in RunRows
  BY <1>2 DEF ThreadStates
<1>4. Doing(thread[t], runs, made) /\ Loaded(thread[t], procs)
  BY <1>1 DEF Known, KnownIn
<1>5. thread[t].at # "idle" =>
        thread[t].run \in Runs /\ runs[thread[t].run] \in RunRows /\ thread[t].row.job \in Jobs
  BY <1>1, <1>4, ControlAssumption DEF Doing, Typed, Runs
<1>6. thread[t].at = "judge" =>
        /\ thread[t].loaded = thread[t].row /\ thread[t].loaded.job \in Jobs
        /\ thread[t].loaded.status = "RUNNING" /\ thread[t].loaded # NoRun
  BY <1>4, EmptyRows DEF Doing
<1> QED
  BY <1>2, <1>3, <1>4, <1>5, <1>6

LEMMA TurnNext ==
    ASSUME Base, NEW t \in Threads, NEW s \in ThreadStates,
           thread' = [thread EXCEPT ![t] = s], UNCHANGED <<runs, made, procs>>,
           Doing(s, runs, made), Loaded(s, procs), \A u \in Threads \ {t} : SameJob(s, thread[u])
    PROVE  Typed(runs', made', procs', thread') /\ Known' /\ launches' = launches
<1>1. Typed(runs, made, procs, thread) /\ KnownIn(runs, made, procs, thread)
  BY BaseIs DEF Known
<1>2. KnownIn(runs, made, procs, [thread EXCEPT ![t] = s])
  BY <1>1, KnownTurns
<1> QED
  BY <1>1, <1>2 DEF Known, Typed, launches

LEMMA StopNext ==
    ASSUME Base, NEW t \in Threads,
           thread' = [thread EXCEPT ![t] = Idle], UNCHANGED <<runs, made, procs>>
    PROVE  Typed(runs', made', procs', thread') /\ Known' /\ launches' = launches
<1>1. Typed(runs, made, procs, thread) /\ KnownIn(runs, made, procs, thread)
  BY BaseIs DEF Known
<1>2. KnownIn(runs, made, procs, [thread EXCEPT ![t] = Idle])
  BY <1>1, KnownStops
<1> QED
  BY <1>1, <1>2, EmptyRows DEF Known, Typed, launches

LEMMA CommitNext ==
    ASSUME Base, NEW t \in Threads, thread[t].at # "idle",
           NEW g \in RunRows, g = NoRun \/ g.job = thread[t].row.job,
           NEW ps \in Seq(Processes), Grown(procs, ps), Backed(g, ps),
           procs' = ps, runs' = [runs EXCEPT ![thread[t].run] = g],
           thread' = [thread EXCEPT ![t] = Idle], made' = made
    PROVE  Typed(runs', made', procs', thread') /\ Known' /\ launches <= launches'
<1>1. Typed(runs, made, procs, thread) /\ KnownIn(runs, made, procs, thread)
  BY BaseIs DEF Known
<1>2. KnownIn(runs, made, ps, thread) /\ Typed(runs, made, ps, thread)
  BY <1>1, KnownGrows DEF Typed
<1>3. KnownIn([runs EXCEPT ![thread[t].run] = g], made, ps, [thread EXCEPT ![t] = Idle])
  BY <1>2, KnownCommits
<1>4. thread[t].run \in Runs
  BY ThreadIs
<1>5. Typed(runs', made', procs', thread')
  BY <1>1, <1>4, EmptyRows DEF Typed
<1>6. launches <= launches'
  BY DEF Grown, launches
<1> QED
  BY <1>3, <1>5, <1>6 DEF Known

(* Rows change, no thread does. *)
LEMMA RowsNext ==
    ASSUME Base, runs' \in [Runs -> RunRows], made' \in {made, made + 1}, made' \in 0..MaxRuns,
           procs' \in Seq(Processes), Len(procs') = Len(procs), Grown(procs, procs'),
           UNCHANGED thread,
           \A r \in Runs :
             /\ Backed(runs'[r], procs)
             /\ \/ runs'[r] = NoRun
                \/ runs[r] # NoRun /\ runs'[r].job = runs[r].job
                \/ r = made' /\ made' = made + 1 /\ runs'[r].job \in Jobs
    PROVE  Typed(runs', made', procs', thread') /\ Known' /\ launches' = launches
<1>1. Typed(runs, made, procs, thread) /\ KnownIn(runs, made, procs, thread)
  BY BaseIs DEF Known
<1>2. KnownIn(runs', made', procs, thread)
  BY <1>1, KnownRows
<1>3. Typed(runs', made', procs, thread) /\ Typed(runs', made', procs', thread)
  BY <1>1 DEF Typed
<1>4. KnownIn(runs', made', procs', thread)
  BY <1>2, <1>3, KnownGrows
<1> QED
  BY <1>3, <1>4 DEF Known, launches

LEMMA IngestKeeps ==
    ASSUME Base, NEW t \in Threads, NEW r \in Runs, Ingest(t, r)
    PROVE  Base'
<1> DEFINE s == [at |-> "judge", run |-> r, loaded |-> runs[r], row |-> runs[r],
                 locked |-> pending[runs[r].job] # <<>>]
<1>1. Typed(runs, made, procs, thread) /\ KnownIn(runs, made, procs, thread)
  BY BaseIs DEF Known
<1>2. /\ runs[r] \in RunRows /\ runs[r].status = "RUNNING" /\ runs[r] # NoRun
      /\ runs[r].job \in Jobs /\ r \in 1..made /\ Backed(runs[r], procs)
  <2>1. runs[r].status = "RUNNING" /\ RowOf(r, runs[r], made)
    BY <1>1 DEF Ingest, KnownIn
  <2> QED
    BY <1>1, <2>1, EmptyRows DEF Typed, RowOf, KnownIn, Runs
<1>3. s \in ThreadStates
  BY <1>2 DEF ThreadStates
<1>4. Doing(s, runs, made) /\ Loaded(s, procs)
  BY <1>2 DEF Doing, Loaded
<1>5. \A u \in Threads \ {t} : SameJob(s, thread[u])
  BY <1>1, <1>2 DEF SameJob, KnownIn, Doing
<1>6. thread' = [thread EXCEPT ![t] = s] /\ UNCHANGED <<runs, made, procs, checkpoint, requests, delivered>>
      /\ IngestFile(runs[r].job)
  BY DEF Ingest
<1> HIDE DEF s
<1>7. Typed(runs', made', procs', thread') /\ Known' /\ launches' = launches
  BY <1>3, <1>4, <1>5, <1>6, TurnNext
<1>8. RestTyped(jobs', requests', pending', lastEvent', lastTerminal', checkpoint', delivered', launches')
  BY <1>2, <1>6, <1>7, IngestTyped
<1> QED
  BY <1>7, <1>8, BaseNext

LEMMA LeaveKeeps ==
    ASSUME Base, NEW t \in Threads, LeaveRunning(t)
    PROVE  Base'
<1>1. thread' = [thread EXCEPT ![t] = Idle] /\ UNCHANGED <<jobs, runs, made, procs, events, checkpoint, requests, delivered>>
  BY DEF LeaveRunning
<1>2. Typed(runs', made', procs', thread') /\ Known' /\ launches' = launches
  BY <1>1, StopNext
<1>3. RestTyped(jobs', requests', pending', lastEvent', lastTerminal', checkpoint', delivered', launches')
  BY <1>1, <1>2, BaseIs DEF events
<1> QED
  BY <1>2, <1>3, BaseNext

LEMMA FlushTyped ==
    ASSUME Base, NEW s \in RunRows, s.job \in Jobs, Flush(s)
    PROVE  RestTyped(jobs', requests, pending', lastEvent', lastTerminal', checkpoint,
                     delivered, launches)
<1>1. CASE TerminalSeen(s)
  BY <1>1, BaseIs DEF Flush, events
<1>2. CASE ~TerminalSeen(s)
  BY <1>2, IngestTyped DEF Flush
<1> QED
  BY <1>1, <1>2

(* The row a judged run is left with. *)
LEMMA JudgedRow ==
    ASSUME Base, NEW t \in Threads, thread[t].at = "judge", NEW v \in RunStatuses, v # "RUNNING"
    PROVE  LET row == [thread[t].loaded EXCEPT !.status = v, !.pid = 0]
               c == Committed(thread[t].run, thread[t].loaded, row)
           IN /\ c \in RunRows /\ Backed(c, procs)
              /\ c = NoRun \/ c.job = thread[t].row.job
              /\ c.status = "SUCCEEDED" =>
                   \/ v = "SUCCEEDED"
                   \/ /\ runs[thread[t].run] # NoRun
                      /\ runs[thread[t].run].status = "SUCCEEDED"
<1> DEFINE row == [thread[t].loaded EXCEPT !.status = v, !.pid = 0]
<1>1. thread[t].loaded \in RunRows /\ thread[t].loaded = thread[t].row
  BY ThreadIs
<1>2. /\ row \in RunRows /\ row.job = thread[t].row.job /\ row.status = v
      /\ row.claimed = thread[t].loaded.claimed /\ row.pid = 0
  BY <1>1 DEF RunRows
<1>3. Typed(runs, made, procs, thread) /\ Known
  BY BaseIs
<1> HIDE DEF row
<1>4. LET c == Committed(thread[t].run, thread[t].loaded, row)
      IN /\ c \in RunRows /\ Backed(c, procs)
         /\ c = NoRun \/ c.job = row.job
         /\ c.status = "SUCCEEDED" =>
              \/ row.status = "SUCCEEDED"
              \/ /\ runs[thread[t].run] # NoRun
                 /\ runs[thread[t].run].status = "SUCCEEDED"
  BY <1>2, <1>3, CommitLeaves
<1> QED
  BY <1>2, <1>4 DEF row

LEMMA SameProcesses ==
    ASSUME Base
    PROVE  procs \in Seq(Processes) /\ Grown(procs, procs)
<1>1. procs \in Seq(Processes)
  BY BaseIs DEF Typed
<1> QED
  BY <1>1 DEF Grown

LEMMA VerdictIsStatus ==
    ASSUME NEW s
    PROVE  /\ Verdict(s) \in RunStatuses /\ Verdict(s) # "RUNNING"
           /\ Verdict(s) = "SUCCEEDED" => s = "COMPLETED"
BY DEF Verdict, RunStatuses

LEMMA JudgeEndedKeeps ==
    ASSUME Base, NEW t \in Threads, JudgeEnded(t)
    PROVE  Base'
<1> DEFINE s == thread[t].loaded
           v == Verdict(jobs'[s.job])
           g == Committed(thread[t].run, s, [s EXCEPT !.status = v, !.pid = 0])
<1>1. /\ thread[t].at = "judge" /\ Flush(s) /\ thread' = [thread EXCEPT ![t] = Idle]
      /\ runs' = [runs EXCEPT ![thread[t].run] = g]
      /\ UNCHANGED <<made, procs, checkpoint, requests, delivered>>
  BY DEF JudgeEnded, Judging, Commit
<1>2. s \in RunRows /\ s.job \in Jobs
  BY <1>1, ThreadIs
<1>3. v \in RunStatuses /\ v # "RUNNING"
  BY VerdictIsStatus
<1> HIDE DEF v
<1>4. g \in RunRows /\ Backed(g, procs) /\ (g = NoRun \/ g.job = thread[t].row.job)
  BY <1>1, <1>3, JudgedRow
<1> HIDE DEF g
<1>5. Typed(runs', made', procs', thread') /\ Known' /\ launches <= launches'
  BY <1>1, <1>4, SameProcesses, CommitNext
<1>6. launches' = launches
  BY <1>1 DEF launches
<1>7. RestTyped(jobs', requests', pending', lastEvent', lastTerminal', checkpoint', delivered', launches')
  BY <1>1, <1>2, <1>6, FlushTyped
<1> QED
  BY <1>5, <1>7, BaseNext

LEMMA JudgeFailedKeeps ==
    ASSUME Base, NEW t \in Threads, JudgeFailed(t)
    PROVE  Base'
<1> DEFINE s == thread[t].loaded
           g == Committed(thread[t].run, s, [s EXCEPT !.status = "FAILED", !.pid = 0])
<1>1. /\ thread[t].at = "judge" /\ thread' = [thread EXCEPT ![t] = Idle]
      /\ runs' = [runs EXCEPT ![thread[t].run] = g]
      /\ SetJob(s.job, "FAILED")
      /\ pending' = [pending EXCEPT ![s.job] = <<>>]
      /\ lastEvent' = [lastEvent EXCEPT ![s.job] = IF pending[s.job] # <<>> THEN launches ELSE @]
      /\ UNCHANGED <<made, procs, lastTerminal, checkpoint, requests, delivered>>
  BY DEF JudgeFailed, Judging, Commit
<1>2. s \in RunRows /\ s.job \in Jobs
  BY <1>1, ThreadIs
<1>3. g \in RunRows /\ Backed(g, procs) /\ (g = NoRun \/ g.job = thread[t].row.job)
  <2>1. "FAILED" \in RunStatuses
    BY DEF RunStatuses
  <2> QED
    BY <1>1, <2>1, JudgedRow
<1> HIDE DEF g
<1>4. Typed(runs', made', procs', thread') /\ Known' /\ launches <= launches'
  BY <1>1, <1>3, SameProcesses, CommitNext
<1>5. launches' = launches /\ launches \in 0..launches
  BY <1>1, SameProcesses DEF launches
<1>6. RestTyped(jobs', requests', pending', lastEvent', lastTerminal', checkpoint', delivered', launches')
  <2>1. RestTyped(jobs, requests, pending, lastEvent, lastTerminal, checkpoint, delivered, launches)
    BY BaseIs
  <2>2. jobs' \in [Jobs -> JobStatuses]
    BY <2>1, <1>1, SetJobTyped, NamedStatuses DEF RestTyped
  <2>3. pending' \in [Jobs -> Seq(Events)]
    <3>1. <<>> \in Seq(Events)
      OBVIOUS
    <3> QED
      BY <2>1, <3>1, <1>1 DEF RestTyped
  <2>4. lastEvent' \in [Jobs -> 0..launches]
    <3>1. lastEvent \in [Jobs -> 0..launches]
      BY <2>1 DEF RestTyped
    <3> HIDE DEF s
    <3> QED
      BY <3>1, <1>1, <1>5
  <2> QED
    BY <2>1, <2>2, <2>3, <2>4, <1>1, <1>5 DEF RestTyped
<1> QED
  BY <1>4, <1>6, BaseNext

LEMMA RelaunchKeeps ==
    ASSUME Base, NEW t \in Threads, Relaunch(t)
    PROVE  Base'
<1> DEFINE old == thread[t].loaded
           resume == IF RetriesEmpty(old) THEN thread[t].row.resume ELSE TRUE
           locked == thread[t].locked \/ pending[old.job] # <<>>
           s == [thread[t] EXCEPT !.at = "launch", !.row.resume = resume, !.locked = locked]
<1>1. /\ thread[t].at = "judge" /\ Flush(old)
      /\ UNCHANGED <<runs, made, procs, checkpoint, requests, delivered>>
  BY DEF Relaunch, Judging
<1>2. /\ thread[t] \in ThreadStates /\ old \in RunRows /\ old.job \in Jobs
      /\ thread[t].row \in RunRows /\ Doing(thread[t], runs, made) /\ Loaded(thread[t], procs)
  BY <1>1, ThreadIs
<1>3. resume \in BOOLEAN
  BY <1>2 DEF RunRows
<1>4. locked \in BOOLEAN
  BY <1>2 DEF ThreadStates
<1>5. thread' = [thread EXCEPT ![t] = s]
  <2>1. thread' = [thread EXCEPT ![t].at = "launch", ![t].row.resume = resume, ![t].locked = locked]
    BY DEF Relaunch
  <2>2. thread \in [Threads -> ThreadStates]
    BY BaseIs DEF Typed
  <2>3. thread[t] = [at |-> thread[t].at, run |-> thread[t].run, loaded |-> old,
                     row |-> thread[t].row, locked |-> thread[t].locked]
    BY <1>2 DEF ThreadStates
  <2> HIDE DEF resume, locked
  <2> QED
    BY <2>1, <2>2, <2>3
<1> HIDE DEF resume, locked
<1>6. /\ s \in ThreadStates /\ s.at = "launch" /\ s.run = thread[t].run /\ s.loaded = old
      /\ s.row.job = thread[t].row.job /\ s.row.pid = thread[t].row.pid
      /\ s.row.claimed = thread[t].row.claimed
  BY <1>2, <1>3, <1>4 DEF ThreadStates, RunRows
<1>7. Doing(s, runs, made) /\ Loaded(s, procs)
  BY <1>1, <1>2, <1>6 DEF Doing, Loaded
<1>8. \A u \in Threads \ {t} : SameJob(s, thread[u])
  BY <1>1, <1>6, BaseIs DEF SameJob, Known, KnownIn
<1> HIDE DEF s
<1>9. Typed(runs', made', procs', thread') /\ Known' /\ launches' = launches
  BY <1>1, <1>5, <1>6, <1>7, <1>8, TurnNext
<1>10. RestTyped(jobs', requests', pending', lastEvent', lastTerminal', checkpoint', delivered', launches')
  BY <1>1, <1>2, <1>9, FlushTyped
<1> QED
  BY <1>9, <1>10, BaseNext

(* A thread takes a run up: of its job, and of that job only.                *)
LEMMA TakeNext ==
    ASSUME Base, NEW t \in Threads, NEW r \in Runs, runs[r] # NoRun, NEW row \in RunRows,
           row.job = runs[r].job, row.claimed = runs[r].claimed, row.pid \in {0, runs[r].pid},
           thread' = [thread EXCEPT ![t] = [at |-> "launch", run |-> r, loaded |-> runs[r],
                                            row |-> row, locked |-> FALSE]],
           UNCHANGED <<runs, made, procs>>
    PROVE  Typed(runs', made', procs', thread') /\ Known' /\ launches' = launches
<1> DEFINE s == [at |-> "launch", run |-> r, loaded |-> runs[r], row |-> row, locked |-> FALSE]
<1>1. Typed(runs, made, procs, thread) /\ KnownIn(runs, made, procs, thread)
  BY BaseIs DEF Known
<1>2. runs[r] \in RunRows /\ runs[r].job \in Jobs /\ r \in 1..made /\ Backed(runs[r], procs)
  BY <1>1 DEF Typed, RowOf, KnownIn, Runs
<1>3. s \in ThreadStates
  BY <1>2 DEF ThreadStates
<1>4. Doing(s, runs, made) /\ Loaded(s, procs)
  BY <1>2 DEF Doing, Loaded
<1>5. \A u \in Threads \ {t} : SameJob(s, thread[u])
  BY <1>1, <1>2 DEF SameJob, KnownIn, Doing
<1> HIDE DEF s
<1> QED
  BY <1>3, <1>4, <1>5, TurnNext DEF s

LEMMA PickKeeps ==
    ASSUME Base, NEW t \in Threads, Pick(t)
    PROVE  Base'
<1>1. PICK r \in NextQueued :
         thread' = [thread EXCEPT ![t] = [at |-> "launch", run |-> r, loaded |-> runs[r],
                                          row |-> runs[r], locked |-> FALSE]]
  BY DEF Pick
<1>2. UNCHANGED <<jobs, runs, made, procs, events, checkpoint, requests, delivered>>
  BY DEF Pick
<1>3. r \in Runs /\ runs[r] # NoRun
  BY EmptyRows DEF NextQueued, InStatus
<1>4. runs[r] \in RunRows
  BY <1>3, BaseIs DEF Typed
<1>5. Typed(runs', made', procs', thread') /\ Known' /\ launches' = launches
  BY <1>1, <1>2, <1>3, <1>4, TakeNext
<1>6. RestTyped(jobs', requests', pending', lastEvent', lastTerminal', checkpoint', delivered', launches')
  BY <1>2, <1>5, BaseIs DEF events
<1> QED
  BY <1>5, <1>6, BaseNext

LEMMA SpawnedProcess ==
    ASSUME NEW r \in Runs, NEW j \in Jobs
    PROVE  /\ Spawned(r, j) \in Processes /\ Spawned(r, j).job = j /\ Spawned(r, j).run = r
           /\ Spawned(r, j).said = "none" /\ Spawned(r, j).alive
<1>1. <<"JOB_STARTED">> \in Seq(Events)
  BY DEF Events
<1> QED
  BY <1>1 DEF Spawned, Processes

(* The row of a launch that failed, and of one that did not.                 *)
LEMMA FailedLaunchRow ==
    ASSUME Base, NEW t \in Threads, thread[t].at = "launch"
    PROVE  LET row == [thread[t].row EXCEPT !.status = "FAILED", !.attempts = thread[t].row.attempts + 1]
               c == Committed(thread[t].run, thread[t].loaded, row)
           IN /\ c \in RunRows /\ Backed(c, procs)
              /\ c = NoRun \/ c.job = thread[t].row.job
              /\ c.status = "SUCCEEDED" =>
                   /\ runs[thread[t].run] # NoRun
                   /\ runs[thread[t].run].status = "SUCCEEDED"
<1> DEFINE n == thread[t].row.attempts + 1
           row == [thread[t].row EXCEPT !.status = "FAILED", !.attempts = n]
<1>1. thread[t].row \in RunRows /\ Loaded(thread[t], procs)
  BY ThreadIs
<1>2. n \in Nat
  BY <1>1 DEF RunRows
<1> HIDE DEF n
<1>3. /\ row \in RunRows /\ row.job = thread[t].row.job /\ row.status = "FAILED"
      /\ row.claimed = thread[t].row.claimed /\ row.pid = thread[t].row.pid
  BY <1>1, <1>2 DEF RunRows, RunStatuses
<1>4. row.claimed = thread[t].loaded.claimed /\ row.pid \in {0, thread[t].loaded.pid}
  BY <1>1, <1>3 DEF Loaded
<1>5. Typed(runs, made, procs, thread) /\ Known
  BY BaseIs
<1> HIDE DEF row
<1>6. LET c == Committed(thread[t].run, thread[t].loaded, row)
      IN /\ c \in RunRows /\ Backed(c, procs)
         /\ c = NoRun \/ c.job = row.job
         /\ c.status = "SUCCEEDED" =>
              \/ row.status = "SUCCEEDED"
              \/ /\ runs[thread[t].run] # NoRun
                 /\ runs[thread[t].run].status = "SUCCEEDED"
  BY <1>3, <1>4, <1>5, CommitLeaves
<1> QED
  BY <1>3, <1>6 DEF row, n

LEMMA LaunchedRow ==
    ASSUME Base, NEW t \in Threads, thread[t].at = "launch"
    PROVE  LET pid == launches + 1
               ps == Append(procs, Spawned(thread[t].run, thread[t].row.job))
               row == [thread[t].row EXCEPT !.status = "RUNNING",
                                            !.attempts = thread[t].row.attempts + 1,
                                            !.pid = pid, !.claimed = pid]
               c == Committed(thread[t].run, thread[t].loaded, row)
           IN /\ ps \in Seq(Processes) /\ Grown(procs, ps) /\ Len(ps) = launches + 1
              /\ c \in RunRows /\ Backed(c, ps)
              /\ c = NoRun \/ c.job = thread[t].row.job
              /\ c.status = "SUCCEEDED" =>
                   /\ runs[thread[t].run] # NoRun
                   /\ runs[thread[t].run].status = "SUCCEEDED"
<1> DEFINE n == thread[t].row.attempts + 1
           pid == launches + 1
           p == Spawned(thread[t].run, thread[t].row.job)
           ps == Append(procs, p)
           row == [thread[t].row EXCEPT !.status = "RUNNING", !.attempts = n, !.pid = pid,
                                        !.claimed = pid]
<1>1. /\ thread[t].row \in RunRows /\ thread[t].run \in Runs /\ thread[t].row.job \in Jobs
  BY ThreadIs
<1>2. n \in Nat
  BY <1>1 DEF RunRows
<1>3. p \in Processes /\ p.job = thread[t].row.job
  BY <1>1, SpawnedProcess
<1>4. /\ ps \in Seq(Processes) /\ Len(ps) = Len(procs) + 1 /\ ps[Len(ps)] = p
      /\ Grown(procs, ps) /\ pid = Len(ps) /\ pid \in Nat
  <2>1. procs \in Seq(Processes)
    BY SameProcesses
  <2> HIDE DEF p
  <2> QED
    BY <2>1, <1>3 DEF Grown, launches
<1> HIDE DEF n, pid, p, ps
<1>5. /\ row \in RunRows /\ row.job = thread[t].row.job /\ row.status = "RUNNING"
      /\ row.claimed = Len(ps) /\ row.pid = Len(ps)
  BY <1>1, <1>2, <1>4 DEF RunRows, RunStatuses
<1>6. Typed(runs, made, procs, thread) /\ Known
  BY BaseIs
<1> HIDE DEF row
<1>7. LET c == Committed(thread[t].run, thread[t].loaded, row)
      IN /\ c \in RunRows /\ Backed(c, ps)
         /\ c = NoRun \/ c.job = row.job
         /\ c.status = "SUCCEEDED" =>
              /\ runs[thread[t].run] # NoRun
              /\ runs[thread[t].run].status = "SUCCEEDED"
  BY <1>3, <1>4, <1>5, <1>6, LaunchLeaves
<1> QED
  BY <1>4, <1>5, <1>7 DEF row, n, pid, ps, p, launches

(* A launch, in terms of the rows above. *)
LaunchFails(t) ==
    /\ Commit(t, [thread[t].row EXCEPT !.status = "FAILED", !.attempts = thread[t].row.attempts + 1])
    /\ SetJob(thread[t].row.job, "FAILED")
    /\ UNCHANGED procs

LaunchSucceeds(t) ==
    /\ procs' = Append(procs, Spawned(thread[t].run, thread[t].row.job))
    /\ Commit(t, [thread[t].row EXCEPT !.status = "RUNNING",
                                       !.attempts = thread[t].row.attempts + 1,
                                       !.pid = launches + 1, !.claimed = launches + 1])
    /\ SetJob(thread[t].row.job, "RUNNING")

LEMMA LaunchIs ==
    ASSUME NEW t \in Threads, Launch(t)
    PROVE  /\ thread[t].at = "launch" /\ thread' = [thread EXCEPT ![t] = Idle]
           /\ UNCHANGED <<made, events, checkpoint, requests, delivered>>
           /\ LaunchFails(t) \/ LaunchSucceeds(t)
BY DEF Launch, LaunchFails, LaunchSucceeds

LEMMA LaunchKeeps ==
    ASSUME Base, NEW t \in Threads, Launch(t)
    PROVE  Base'
<1>1. /\ thread[t].at = "launch" /\ thread' = [thread EXCEPT ![t] = Idle]
      /\ UNCHANGED <<made, events, checkpoint, requests, delivered>>
  BY LaunchIs
<1>2. thread[t].row.job \in Jobs
  BY <1>1, ThreadIs
<1>3. CASE LaunchFails(t)
  <2> DEFINE g == Committed(thread[t].run, thread[t].loaded,
                    [thread[t].row EXCEPT !.status = "FAILED", !.attempts = thread[t].row.attempts + 1])
  <2>1. runs' = [runs EXCEPT ![thread[t].run] = g] /\ procs' = procs
    BY <1>3 DEF LaunchFails, Commit
  <2>2. g \in RunRows /\ Backed(g, procs) /\ (g = NoRun \/ g.job = thread[t].row.job)
    BY <1>1, FailedLaunchRow
  <2> HIDE DEF g
  <2>3. Typed(runs', made', procs', thread') /\ Known' /\ launches <= launches'
    BY <1>1, <2>1, <2>2, SameProcesses, CommitNext
  <2>4. jobs' \in [Jobs -> JobStatuses]
    BY <1>3, SetJobTyped, NamedStatuses, BaseIs DEF RestTyped, LaunchFails
  <2>5. RestTyped(jobs', requests', pending', lastEvent', lastTerminal', checkpoint', delivered', launches')
    BY <1>1, <2>1, <2>4, BaseIs DEF events, RestTyped, launches
  <2> QED
    BY <2>3, <2>5, BaseNext
<1>4. CASE LaunchSucceeds(t)
  <2> DEFINE row == [thread[t].row EXCEPT !.status = "RUNNING",
                                       !.attempts = thread[t].row.attempts + 1,
                                       !.pid = launches + 1, !.claimed = launches + 1]
             ps == Append(procs, Spawned(thread[t].run, thread[t].row.job))
             g == Committed(thread[t].run, thread[t].loaded, row)
  <2>1. runs' = [runs EXCEPT ![thread[t].run] = g] /\ procs' = ps
    BY <1>4 DEF LaunchSucceeds, Commit
  <2>2. /\ ps \in Seq(Processes) /\ Grown(procs, ps) /\ Len(ps) = launches + 1
        /\ g \in RunRows /\ Backed(g, ps) /\ (g = NoRun \/ g.job = thread[t].row.job)
    BY <1>1, LaunchedRow
  <2> HIDE DEF g, ps, row
  <2>3. Typed(runs', made', procs', thread') /\ Known' /\ launches <= launches'
    BY <1>1, <2>1, <2>2, CommitNext
  <2>4. jobs' \in [Jobs -> JobStatuses]
    BY <1>4, SetJobTyped, NamedStatuses, BaseIs DEF RestTyped, LaunchSucceeds
  <2>5. RestTyped(jobs', requests', pending', lastEvent', lastTerminal', checkpoint', delivered', launches)
    BY <1>1, <2>4, BaseIs DEF events, RestTyped
  <2>6. launches \in Nat /\ launches' \in Nat
    BY <2>1, <2>2, SameProcesses DEF launches
  <2>7. RestTyped(jobs', requests', pending', lastEvent', lastTerminal', checkpoint', delivered', launches')
    BY <2>3, <2>5, <2>6, RestGrows
  <2> QED
    BY <2>3, <2>7, BaseNext
<1> QED
  BY <1>3, <1>4, LaunchIs

-----------------------------------------------------------------------------
(* The operator's requests. *)
LEMMA CountedRequest ==
    ASSUME Base, requests < MaxRequests, requests' = requests + 1
    PROVE  requests' \in 0..MaxRequests
BY BaseIs, ControlAssumption DEF RestTyped

LEMMA StartNowKeeps ==
    ASSUME Base, NEW t \in Threads, NEW j \in Jobs, StartNow(t, j)
    PROVE  Base'
<1> DEFINE row == [NoRun EXCEPT !.job = j]
           s == [at |-> "launch", run |-> made + 1, loaded |-> NoRun, row |-> row, locked |-> FALSE]
<1>1. /\ made < MaxRuns /\ made' = made + 1 /\ thread' = [thread EXCEPT ![t] = s]
      /\ UNCHANGED <<jobs, runs, procs, events, checkpoint, delivered>>
      /\ requests < MaxRequests /\ requests' = requests + 1
  BY DEF StartNow, ServesFirst, Serves
<1>2. Typed(runs, made, procs, thread) /\ KnownIn(runs, made, procs, thread)
  BY BaseIs DEF Known
<1>3. made \in Nat /\ made + 1 \in Runs /\ made + 1 \in 0..MaxRuns
  BY <1>1, <1>2, ControlAssumption DEF Typed, Runs
<1>4. row \in RunRows /\ row.job = j /\ row.claimed = 0 /\ row.pid = 0
  BY EmptyRows DEF RunRows, NoRun
<1>5. runs[made + 1] = NoRun
  BY <1>2, <1>3 DEF KnownIn, RowOf
<1>6. KnownIn(runs, made + 1, procs, thread) /\ Typed(runs, made + 1, procs, thread)
  <2>1. \A r \in Runs : Backed(runs[r], procs) /\ RowOf(r, runs[r], made + 1)
    BY <1>2, <1>3 DEF KnownIn, RowOf, Runs
  <2>2. \A u \in Threads : Doing(thread[u], runs, made + 1)
    BY <1>2, <1>3 DEF KnownIn, Doing
  <2> QED
    BY <2>1, <2>2, <1>2, <1>3 DEF KnownIn, Typed
<1>7. s \in ThreadStates
  BY <1>3, <1>4, EmptyRows DEF ThreadStates
<1> HIDE DEF row
<1>8. Doing(s, runs, made + 1)
  <2>1. s.run = made + 1 /\ s.row = row /\ s.loaded = NoRun /\ s.at = "launch"
    OBVIOUS
  <2> HIDE DEF s
  <2> QED
    BY <2>1, <1>3, <1>4, <1>5 DEF Doing
<1>9. Loaded(s, procs)
  <2>1. s.row = row /\ s.loaded = NoRun
    OBVIOUS
  <2>2. Len(procs) \in Nat
    BY SameProcesses
  <2> HIDE DEF s
  <2> QED
    BY <2>1, <2>2, <1>4, EmptyRows DEF Loaded, Backed
<1>10. \A u \in Threads \ {t} : SameJob(s, thread[u])
  BY <1>2, <1>3 DEF SameJob, KnownIn, Doing
<1> HIDE DEF s
<1>11. KnownIn(runs, made + 1, procs, [thread EXCEPT ![t] = s])
  BY <1>6, <1>7, <1>8, <1>9, <1>10, KnownTurns
<1>12. Typed(runs', made', procs', thread') /\ Known'
  BY <1>1, <1>6, <1>7, <1>11 DEF Known, Typed
<1>13. RestTyped(jobs', requests', pending', lastEvent', lastTerminal', checkpoint', delivered', launches')
  BY <1>1, CountedRequest, BaseIs DEF events, RestTyped, launches
<1> QED
  BY <1>12, <1>13, BaseNext

LEMMA StartQueuedKeeps ==
    ASSUME Base, NEW t \in Threads, NEW j \in Jobs, StartQueued(t, j)
    PROVE  Base'
<1> DEFINE n == Cardinality(InStatus("QUEUED")) + 1
           g == [NoRun EXCEPT !.job = j, !.status = "QUEUED", !.position = n]
<1>1. /\ made < MaxRuns /\ made' = made + 1 /\ runs' = [runs EXCEPT ![made + 1] = g]
      /\ SetJob(j, "QUEUED")
      /\ UNCHANGED <<procs, events, checkpoint, thread, delivered>>
      /\ requests < MaxRequests /\ requests' = requests + 1
  BY DEF StartQueued, ServesFirst, Serves
<1>2. Typed(runs, made, procs, thread) /\ KnownIn(runs, made, procs, thread)
  BY BaseIs DEF Known
<1>3. made \in Nat /\ made + 1 \in Runs /\ made + 1 \in 0..MaxRuns
  BY <1>1, <1>2, ControlAssumption DEF Typed, Runs
<1>4. n \in Nat
  BY CountedRuns
<1> HIDE DEF n
<1>5. g \in RunRows /\ g.job = j /\ g.claimed = 0 /\ g.pid = 0 /\ g.status = "QUEUED"
  BY <1>4 DEF RunRows, NoRun, RunStatuses
<1> HIDE DEF g
<1>6. Backed(g, procs)
  BY <1>5, SameProcesses DEF Backed
<1>7. runs' \in [Runs -> RunRows] /\ \A r \in Runs : runs'[r] = IF r = made + 1 THEN g ELSE runs[r]
  BY <1>1, <1>2, <1>5 DEF Typed
<1>8. \A r \in Runs :
        /\ Backed(runs'[r], procs)
        /\ \/ runs'[r] = NoRun
           \/ runs[r] # NoRun /\ runs'[r].job = runs[r].job
           \/ r = made' /\ made' = made + 1 /\ runs'[r].job \in Jobs
  BY <1>1, <1>2, <1>5, <1>6, <1>7 DEF KnownIn
<1>9. Typed(runs', made', procs', thread') /\ Known' /\ launches' = launches
  BY <1>1, <1>3, <1>7, <1>8, SameProcesses, RowsNext
<1>10. jobs' \in [Jobs -> JobStatuses]
  BY <1>1, SetJobTyped, NamedStatuses, BaseIs DEF RestTyped
<1>11. RestTyped(jobs', requests', pending', lastEvent', lastTerminal', checkpoint', delivered', launches')
  BY <1>1, <1>9, <1>10, CountedRequest, BaseIs DEF events, RestTyped
<1> QED
  BY <1>9, <1>11, BaseNext

LEMMA ResumedRow ==
    ASSUME Base, NEW j \in Jobs, MayResume(j), NEW n \in Nat
    PROVE  LET r == latest_run(j)
               g == Resumed(r, n)
           IN /\ r \in Runs /\ runs[r] # NoRun /\ runs[r].job = j
              /\ runs[r].status \notin {"NONE", "RUNNING", "SUCCEEDED", "CANCELLED"}
              /\ g \in RunRows /\ g.job = runs[r].job /\ g.claimed = runs[r].claimed /\ g.pid = 0
              /\ g.status = "QUEUED" /\ Backed(g, procs)
<1> DEFINE r == latest_run(j)
           g == Resumed(r, n)
<1>1. /\ r # 0 /\ runs[r].status \notin {"NONE", "RUNNING", "SUCCEEDED", "CANCELLED"}
  BY DEF MayResume, LatestStatus
<1>2. r \in Runs /\ runs[r].job = j
  BY <1>1, LatestRun
<1> HIDE DEF r
<1>3. runs[r] \in RunRows /\ Backed(runs[r], procs) /\ runs[r] # NoRun
  BY <1>1, <1>2, EmptyRows, BaseIs DEF Typed, Known, KnownIn
<1>4. g \in RunRows /\ g.job = runs[r].job /\ g.claimed = runs[r].claimed /\ g.pid = 0 /\ g.status = "QUEUED"
  BY <1>3 DEF Resumed, RunRows, RunStatuses
<1> HIDE DEF g
<1>5. Backed(g, procs)
  BY <1>3, <1>4, SameProcesses DEF Backed
<1> QED
  BY <1>1, <1>2, <1>3, <1>4, <1>5 DEF r, g

LEMMA ResumeNowKeeps ==
    ASSUME Base, NEW t \in Threads, NEW j \in Jobs, ResumeNow(t, j)
    PROVE  Base'
<1> DEFINE r == latest_run(j)
           row == Resumed(r, 0)
<1>1. /\ thread' = [thread EXCEPT ![t] = [at |-> "launch", run |-> r, loaded |-> runs[r],
                                           row |-> row, locked |-> FALSE]]
      /\ UNCHANGED <<jobs, runs, made, procs, events, checkpoint, delivered>>
      /\ requests < MaxRequests /\ requests' = requests + 1 /\ MayResume(j)
  BY DEF ResumeNow, ServesFirst, Serves
<1>2. /\ r \in Runs /\ runs[r] # NoRun /\ row \in RunRows
      /\ row.job = runs[r].job /\ row.claimed = runs[r].claimed /\ row.pid = 0
  BY <1>1, ResumedRow
<1> HIDE DEF r, row
<1>3. Typed(runs', made', procs', thread') /\ Known' /\ launches' = launches
  BY <1>1, <1>2, TakeNext
<1>4. RestTyped(jobs', requests', pending', lastEvent', lastTerminal', checkpoint', delivered', launches')
  BY <1>1, <1>3, CountedRequest, BaseIs DEF events, RestTyped
<1> QED
  BY <1>3, <1>4, BaseNext

(* Some rows are rewritten, for the same jobs, or deleted. *)
LEMMA RewriteNext ==
    ASSUME Base, runs' \in [Runs -> RunRows], UNCHANGED <<made, thread>>,
           procs' \in Seq(Processes), Len(procs') = Len(procs), Grown(procs, procs'),
           \A r \in Runs :
             \/ runs'[r] \in {NoRun, runs[r]}
             \/ /\ runs[r] # NoRun /\ runs'[r].job = runs[r].job
                /\ runs'[r].pid = 0 /\ runs'[r].claimed = runs[r].claimed
                /\ runs'[r].status # "RUNNING"
    PROVE  Typed(runs', made', procs', thread') /\ Known' /\ launches' = launches
<1>1. Typed(runs, made, procs, thread) /\ KnownIn(runs, made, procs, thread)
  BY BaseIs DEF Known
<1>2. Len(procs) \in Nat /\ Backed(NoRun, procs)
  BY SameProcesses, EmptyRows DEF Backed
<1>3. ASSUME NEW r \in Runs
      PROVE  /\ Backed(runs'[r], procs)
             /\ \/ runs'[r] = NoRun
                \/ runs[r] # NoRun /\ runs'[r].job = runs[r].job
  BY <1>1, <1>2 DEF KnownIn, Backed
<1>4. made' \in {made, made + 1} /\ made' \in 0..MaxRuns
  BY <1>1 DEF Typed
<1> QED
  BY <1>3, <1>4, RowsNext

LEMMA ResumeQueuedKeeps ==
    ASSUME Base, NEW t \in Threads, NEW j \in Jobs, ResumeQueued(t, j)
    PROVE  Base'
<1> DEFINE r == latest_run(j)
           n == Cardinality(InStatus("QUEUED"))
           row == Resumed(r, n)
<1>1. /\ runs' = [runs EXCEPT ![r] = row] /\ SetJob(j, "QUEUED")
      /\ UNCHANGED <<made, procs, events, checkpoint, thread, delivered>>
      /\ requests < MaxRequests /\ requests' = requests + 1 /\ MayResume(j)
  BY DEF ResumeQueued, ServesFirst, Serves
<1>2. n \in Nat
  BY CountedRuns
<1> HIDE DEF n
<1>3. /\ r \in Runs /\ runs[r] # NoRun /\ row \in RunRows /\ row.status = "QUEUED"
      /\ row.job = runs[r].job /\ row.claimed = runs[r].claimed /\ row.pid = 0
  BY <1>1, <1>2, ResumedRow
<1> HIDE DEF r, row
<1>4. /\ runs' \in [Runs -> RunRows]
      /\ \A q \in Runs : runs'[q] = IF q = r THEN row ELSE runs[q]
  BY <1>1, <1>3, BaseIs DEF Typed
<1>5. \A q \in Runs :
        \/ runs'[q] \in {NoRun, runs[q]}
        \/ /\ runs[q] # NoRun /\ runs'[q].job = runs[q].job
           /\ runs'[q].pid = 0 /\ runs'[q].claimed = runs[q].claimed
           /\ runs'[q].status # "RUNNING"
  BY <1>3, <1>4
<1>6. Typed(runs', made', procs', thread') /\ Known' /\ launches' = launches
  BY <1>1, <1>4, <1>5, SameProcesses, RewriteNext
<1>7. jobs' \in [Jobs -> JobStatuses]
  BY <1>1, SetJobTyped, NamedStatuses, BaseIs DEF RestTyped
<1>8. RestTyped(jobs', requests', pending', lastEvent', lastTerminal', checkpoint', delivered', launches')
  BY <1>1, <1>6, <1>7, CountedRequest, BaseIs DEF events, RestTyped
<1> QED
  BY <1>6, <1>8, BaseNext

(* What a cancel does to the worker. *)
Killed(j) ==
    LET r == latest_run(j)
    IN IF runs[r].status = "RUNNING" /\ Alive(runs[r].pid)
         THEN /\ procs' = [procs EXCEPT ![runs[r].pid] = Dead(@)]
              /\ pending' = [pending EXCEPT ![j] = <<>>]
              /\ lastEvent' = [lastEvent EXCEPT ![j] = launches]
              /\ lastTerminal' = [lastTerminal EXCEPT ![j] = launches]
         ELSE UNCHANGED <<procs, events>>

LEMMA CancelIs ==
    ASSUME Base, NEW t \in Threads, NEW j \in Jobs, Cancel(t, j)
    PROVE  LET r == latest_run(j)
           IN /\ requests < MaxRequests /\ requests' = requests + 1 /\ thread[t].at = "idle"
              /\ r \in Runs /\ runs[r].job = j /\ runs[r] # NoRun
              /\ runs' = Cancelled(r) /\ Killed(j)
              /\ jobs' = [jobs EXCEPT ![j] = "CANCELLED"]
              /\ UNCHANGED <<made, checkpoint, thread, delivered>>
<1>1. /\ latest_run(j) # 0
      /\ requests < MaxRequests /\ requests' = requests + 1 /\ thread[t].at = "idle"
      /\ runs' = Cancelled(latest_run(j)) /\ Killed(j)
      /\ jobs' = [jobs EXCEPT ![j] = "CANCELLED"]
      /\ UNCHANGED <<made, checkpoint, thread, delivered>>
  BY DEF Cancel, Killed, ServesFirst, Serves
<1>2. latest_run(j) \in Runs /\ runs[latest_run(j)].job = j
  BY <1>1, LatestRun
<1>3. j # "none"
  BY ControlAssumption
<1>4. runs[latest_run(j)] # NoRun
  BY <1>2, <1>3, EmptyRows
<1> QED
  BY <1>1, <1>2, <1>4

LEMMA CancelledRow ==
    ASSUME Base, NEW r \in Runs, runs[r] # NoRun
    PROVE  /\ Cancelled(r) \in [Runs -> RunRows]
           /\ \A q \in Runs \ {r} : Cancelled(r)[q] = runs[q]
           /\ Cancelled(r)[r].job = runs[r].job /\ Cancelled(r)[r].pid = 0
           /\ Cancelled(r)[r].claimed = runs[r].claimed /\ Cancelled(r)[r].status = "CANCELLED"
<1> DEFINE g == [runs[r] EXCEPT !.status = "CANCELLED", !.pid = 0]
<1>1. runs \in [Runs -> RunRows]
  BY BaseIs DEF Typed
<1>2. /\ g \in RunRows /\ g.job = runs[r].job /\ g.pid = 0 /\ g.claimed = runs[r].claimed
      /\ g.status = "CANCELLED"
  BY <1>1 DEF RunRows, RunStatuses
<1>3. Cancelled(r) = [runs EXCEPT ![r] = g]
  BY <1>1 DEF Cancelled
<1> HIDE DEF g
<1> QED
  BY <1>1, <1>2, <1>3

LEMMA CancelKeeps ==
    ASSUME Base, NEW t \in Threads, NEW j \in Jobs, Cancel(t, j)
    PROVE  Base'
<1> DEFINE r == latest_run(j)
           l == runs[r].pid
<1>1. /\ requests < MaxRequests /\ requests' = requests + 1
      /\ r \in Runs /\ runs[r] # NoRun /\ runs' = Cancelled(r) /\ Killed(j)
      /\ jobs' = [jobs EXCEPT ![j] = "CANCELLED"]
      /\ UNCHANGED <<made, checkpoint, thread, delivered>>
  BY CancelIs
<1>2. /\ procs' \in Seq(Processes) /\ Len(procs') = Len(procs) /\ Grown(procs, procs')
  <2>1. CASE runs[r].status = "RUNNING" /\ Alive(l)
    <3>1. procs' = [procs EXCEPT ![l] = Dead(procs[l])] /\ l \in 1..launches
      BY <1>1, <2>1 DEF Killed, Alive
    <3>2. procs[l] \in Processes
      BY <3>1, ProcessIs
    <3>3. Dead(procs[l]) \in Processes /\ Dead(procs[l]).job = procs[l].job
      BY <3>2, DeadProcess
    <3> QED
      BY <3>1, <3>3, ProcessChanges
  <2>2. CASE ~(runs[r].status = "RUNNING" /\ Alive(l))
    <3>1. procs' = procs
      BY <1>1, <2>2 DEF Killed
    <3> QED
      BY <3>1, SameProcesses
  <2> QED
    BY <2>1, <2>2
<1>3. RestTyped(jobs, requests, pending, lastEvent, lastTerminal, checkpoint, delivered, launches)
      /\ launches \in 0..launches
  BY BaseIs, SameProcesses DEF launches
<1>4. pending' \in [Jobs -> Seq(Events)]
  <2>1. <<>> \in Seq(Events)
    OBVIOUS
  <2>2. pending' = pending \/ pending' = [pending EXCEPT ![j] = <<>>]
    BY <1>1 DEF Killed, events
  <2> QED
    BY <2>1, <2>2, <1>3 DEF RestTyped
<1>5. lastEvent' \in [Jobs -> 0..launches] /\ lastTerminal' \in [Jobs -> 0..launches]
  <2>1. /\ lastEvent' = lastEvent \/ lastEvent' = [lastEvent EXCEPT ![j] = launches]
        /\ lastTerminal' = lastTerminal \/ lastTerminal' = [lastTerminal EXCEPT ![j] = launches]
    BY <1>1 DEF Killed, events
  <2> QED
    BY <2>1, <1>3 DEF RestTyped
<1>6. Typed(runs', made', procs', thread') /\ Known' /\ launches' = launches
  <2> HIDE DEF r
  <2>1. \A q \in Runs :
        \/ runs'[q] \in {NoRun, runs[q]}
        \/ /\ runs[q] # NoRun /\ runs'[q].job = runs[q].job
           /\ runs'[q].pid = 0 /\ runs'[q].claimed = runs[q].claimed
           /\ runs'[q].status # "RUNNING"
    BY <1>1, CancelledRow
  <2>2. runs' \in [Runs -> RunRows]
    BY <1>1, CancelledRow
  <2> QED
    BY <1>1, <1>2, <2>1, <2>2, RewriteNext
<1>7. jobs' \in [Jobs -> JobStatuses]
  BY <1>1, <1>3, NamedStatuses DEF RestTyped
<1>8. RestTyped(jobs', requests', pending', lastEvent', lastTerminal', checkpoint', delivered', launches')
  BY <1>1, <1>3, <1>4, <1>5, <1>6, <1>7, CountedRequest DEF RestTyped
<1> QED
  BY <1>6, <1>8, BaseNext

(* The rows of the file when a cancel timed out: all that were not ingested, *)
(* or all but the last, and then its own.                                   *)
LEMMA TimedOutFile ==
    ASSUME Base, NEW t \in Threads, NEW j \in Jobs, CancelTimesOut(t, j)
    PROVE  \E before \in Seq(Events) :
             /\ pending' = [pending EXCEPT ![j] = Append(before, "JOB_CANCELLED")]
             /\ \A i \in DOMAIN before : i \in DOMAIN pending[j] /\ before[i] = pending[j][i]
<1>1. PICK before \in {pending[j]} \cup (IF pending[j] = <<>> THEN {} ELSE {Front(pending[j])}) :
         pending' = [pending EXCEPT ![j] = Append(before, "JOB_CANCELLED")]
  BY DEF CancelTimesOut
<1>2. pending[j] \in Seq(Events)
  BY BaseIs DEF RestTyped
<1>3. CASE before = pending[j]
  BY <1>1, <1>2, <1>3
<1>4. CASE pending[j] # <<>> /\ before = Front(pending[j])
  <2>1. before \in Seq(Events) /\ \A i \in DOMAIN before : i \in DOMAIN pending[j] /\ before[i] = pending[j][i]
    BY <1>2, <1>4 DEF Front
  <2> QED
    BY <2>1, <1>1
<1> QED
  BY <1>1, <1>3, <1>4

LEMMA CancelTimesOutKeeps ==
    ASSUME Base, NEW t \in Threads, NEW j \in Jobs, CancelTimesOut(t, j)
    PROVE  Base'
<1>1. /\ requests < MaxRequests /\ requests' = requests + 1
      /\ UNCHANGED <<jobs, runs, made, procs, lastEvent, lastTerminal, checkpoint, thread, delivered>>
  BY DEF CancelTimesOut, ServesFirst, Serves
<1>2. PICK before \in Seq(Events) : pending' = [pending EXCEPT ![j] = Append(before, "JOB_CANCELLED")]
  BY TimedOutFile
<1>3. RestTyped(jobs, requests, pending, lastEvent, lastTerminal, checkpoint, delivered, launches)
  BY BaseIs
<1>4. pending' \in [Jobs -> Seq(Events)]
  <2>1. Append(before, "JOB_CANCELLED") \in Seq(Events)
    <3>1. "JOB_CANCELLED" \in Events
      BY DEF Events, TERMINAL_RUNTIME_EVENTS
    <3> QED
      BY <3>1
  <2> QED
    BY <1>2, <1>3, <2>1 DEF RestTyped
<1>5. Typed(runs', made', procs', thread') /\ Known' /\ launches' = launches
  BY <1>1, BaseIs DEF Known, launches
<1>6. RestTyped(jobs', requests', pending', lastEvent', lastTerminal', checkpoint', delivered', launches')
  BY <1>1, <1>3, <1>4, <1>5, CountedRequest DEF RestTyped
<1> QED
  BY <1>5, <1>6, BaseNext

LEMMA DeleteKeeps ==
    ASSUME Base, NEW t \in Threads, NEW j \in Jobs, Delete(t, j)
    PROVE  Base'
<1>1. /\ requests < MaxRequests /\ requests' = requests + 1
      /\ jobs' = [jobs EXCEPT ![j] = "DELETED"]
      /\ runs' = [r \in Runs |-> IF runs[r].job = j THEN NoRun ELSE runs[r]]
      /\ UNCHANGED <<made, procs, events, checkpoint, thread, delivered>>
  BY DEF Delete, Serves
<1>2. runs' \in [Runs -> RunRows] /\ \A r \in Runs : runs'[r] \in {NoRun, runs[r]}
  BY <1>1, EmptyRows, BaseIs DEF Typed
<1>3. Typed(runs', made', procs', thread') /\ Known' /\ launches' = launches
  BY <1>1, <1>2, SameProcesses, RewriteNext
<1>4. RestTyped(jobs', requests', pending', lastEvent', lastTerminal', checkpoint', delivered', launches')
  BY <1>1, <1>3, NamedStatuses, CountedRequest, BaseIs DEF RestTyped, events
<1> QED
  BY <1>3, <1>4, BaseNext

LEMMA EditKeeps ==
    ASSUME Base, NEW t \in Threads, NEW j \in Jobs, Edit(t, j)
    PROVE  Base'
<1>1. /\ requests < MaxRequests /\ requests' = requests + 1
      /\ jobs' = [jobs EXCEPT ![j] = "POLICY_READY"]
      /\ UNCHANGED <<runs, made, procs, events, checkpoint, thread, delivered>>
  BY DEF Edit, Serves
<1>2. Typed(runs', made', procs', thread') /\ Known' /\ launches' = launches
  BY <1>1, BaseIs DEF Known, launches
<1>3. RestTyped(jobs', requests', pending', lastEvent', lastTerminal', checkpoint', delivered', launches')
  BY <1>1, <1>2, NamedStatuses, CountedRequest, BaseIs DEF RestTyped, events
<1> QED
  BY <1>2, <1>3, BaseNext

LEMMA BaseStep == Base /\ [Next]_vars => Base'
<1> SUFFICES ASSUME Base, [Next]_vars PROVE Base'
  OBVIOUS
<1>1. CASE \E l \in 1..launches : Emit(l) \/ Work(l) \/ Exit(l) \/ Die(l)
  BY <1>1, EmitKeeps, WorkKeeps, EndKeeps
<1>2. ASSUME NEW t \in Threads, NEW r \in Runs, Ingest(t, r) PROVE Base'
  BY <1>2, IngestKeeps
<1>3. ASSUME NEW t \in Threads, LeaveRunning(t) \/ Judge(t) \/ Pick(t) \/ Launch(t) PROVE Base'
  BY <1>3, LeaveKeeps, JudgeEndedKeeps, JudgeFailedKeeps, RelaunchKeeps, PickKeeps, LaunchKeeps
     DEF Judge
<1>4. ASSUME NEW t \in Threads, NEW j \in Jobs, Request(t, j) PROVE Base'
  BY <1>4, StartNowKeeps, StartQueuedKeeps, ResumeNowKeeps, ResumeQueuedKeeps, CancelKeeps,
     CancelTimesOutKeeps, DeleteKeeps, EditKeeps DEF Request
<1>5. CASE UNCHANGED vars
  <2>1. Typed(runs', made', procs', thread') /\ Known' /\ launches' = launches
    BY <1>5, BaseIs DEF Known, launches, vars
  <2>2. RestTyped(jobs', requests', pending', lastEvent', lastTerminal', checkpoint', delivered', launches')
    BY <1>5, <2>1, BaseIs DEF vars, events
  <2> QED
    BY <2>1, <2>2, BaseNext
<1> QED
  BY <1>1, <1>2, <1>3, <1>4, <1>5 DEF Next, WorkerStep

(* The inductive invariant: types, and what every row, process and thread    *)
(* knows of the launches and of its own run's job.                           *)
THEOREM BaseHolds == Spec => []Base
BY BaseInit, BaseStep, PTL DEF Spec

(* Every row, process, thread and file is well formed, and a thread's row is *)
(* of its own run's job, however many threads serve requests.               *)
THEOREM TypeCorrect == Spec => []TypeOK
<1>1. Base => TypeOK
  BY DEF Base
<1> QED
  BY <1>1, BaseHolds, PTL

-----------------------------------------------------------------------------
(* A completed job, and an announcement of it that was not read yet, go back *)
(* to a worker's delivery.                                                  *)
Announced(pen, j) == \E i \in DOMAIN pen[j] : pen[j][i] = "JOB_COMPLETED"

CompletedWasDelivered ==
    \A j \in Jobs : jobs[j] = "COMPLETED" \/ Announced(pending, j) => j \in delivered

DeliveredInv == Base /\ SucceededWasDelivered /\ CompletedWasDelivered

LEMMA IngestDelivered ==
    ASSUME DeliveredInv, NEW j \in Jobs, IngestFile(j), UNCHANGED delivered
    PROVE  CompletedWasDelivered'
<1>1. RestTyped(jobs, requests, pending, lastEvent, lastTerminal, checkpoint, delivered, launches)
  BY BaseIs DEF DeliveredInv
<1>2. \A k \in Jobs : pending'[k] = IF k = j THEN <<>> ELSE pending[k]
  BY <1>1 DEF IngestFile, RestTyped
<1>3. \A k \in Jobs : ~Announced(pending', k) \/ Announced(pending, k)
  BY <1>2 DEF Announced
<1>4. \A k \in Jobs \ {j} : jobs'[k] = jobs[k]
  BY <1>1 DEF IngestFile, SetJob, RestTyped
<1>5. jobs'[j] = "COMPLETED" => j \in delivered
  <2>1. jobs'[j] = "COMPLETED" => jobs[j] = "COMPLETED" \/ StatusAfter(jobs[j], pending[j]) = "COMPLETED"
    BY <1>1 DEF IngestFile, SetJob, RestTyped
  <2>2. StatusAfter(jobs[j], pending[j]) = "COMPLETED" => jobs[j] = "COMPLETED" \/ Announced(pending, j)
    BY <1>1, StatusAfterRows DEF RestTyped, Announced
  <2> QED
    BY <2>1, <2>2 DEF DeliveredInv, CompletedWasDelivered
<1> QED
  BY <1>3, <1>4, <1>5 DEF DeliveredInv, CompletedWasDelivered

LEMMA FlushDelivered ==
    ASSUME DeliveredInv, NEW s, s.job \in Jobs, Flush(s), UNCHANGED delivered
    PROVE  CompletedWasDelivered'
<1>1. CASE TerminalSeen(s)
  BY <1>1 DEF Flush, events, DeliveredInv, CompletedWasDelivered, Announced
<1>2. CASE ~TerminalSeen(s)
  BY <1>2, IngestDelivered DEF Flush
<1> QED
  BY <1>1, <1>2

(* The status of a job is set to something else. *)
LEMMA OtherStatus ==
    ASSUME DeliveredInv, NEW j, NEW s, s # "COMPLETED",
           SetJob(j, s) \/ jobs' = [jobs EXCEPT ![j] = s] \/ UNCHANGED jobs,
           \A k \in Jobs : Announced(pending', k) => Announced(pending, k), UNCHANGED delivered
    PROVE  CompletedWasDelivered'
<1>1. jobs \in [Jobs -> JobStatuses]
  BY BaseIs DEF DeliveredInv, RestTyped
<1>2. \A k \in Jobs : jobs'[k] = "COMPLETED" => jobs[k] = "COMPLETED"
  BY <1>1 DEF SetJob
<1> QED
  BY <1>2 DEF DeliveredInv, CompletedWasDelivered

(* A thread commits, and is right if its row says SUCCEEDED. *)
LEMMA CommitDelivered ==
    ASSUME DeliveredInv, NEW t \in Threads, thread[t].at # "idle", NEW g \in RunRows,
           g = NoRun \/ g.job = thread[t].row.job,
           runs' = [runs EXCEPT ![thread[t].run] = g],
           g.status = "SUCCEEDED" =>
             \/ thread[t].row.job \in delivered
             \/ /\ runs[thread[t].run] # NoRun
                /\ runs[thread[t].run].status = "SUCCEEDED",
           UNCHANGED delivered
    PROVE  SucceededWasDelivered'
<1>1. Base /\ SucceededWasDelivered
  BY DEF DeliveredInv
<1>2. /\ thread[t].run \in Runs
      /\ runs[thread[t].run] = NoRun \/ runs[thread[t].run].job = thread[t].row.job
  BY <1>1, ThreadIs DEF Doing
<1>3. \A r \in Runs : runs'[r] = IF r = thread[t].run THEN g ELSE runs[r]
  BY <1>1, BaseIs DEF Typed
<1>4. g.status = "SUCCEEDED" => g.job \in delivered
  BY <1>1, <1>2, EmptyRows DEF SucceededWasDelivered
<1> QED
  BY <1>1, <1>3, <1>4 DEF SucceededWasDelivered

LEMMA WorkersDelivered ==
    ASSUME DeliveredInv, NEW l \in 1..launches, Emit(l) \/ Work(l) \/ Exit(l) \/ Die(l)
    PROVE  SucceededWasDelivered' /\ CompletedWasDelivered'
<1>1. CASE Emit(l)
  <2> DEFINE e == Head(procs[l].todo)
             j == procs[l].job
  <2>1. /\ pending' = [pending EXCEPT ![j] = Append(pending[j], e)]
        /\ delivered' = IF e = "JOB_COMPLETED" THEN delivered \cup {j} ELSE delivered
        /\ UNCHANGED <<jobs, runs>>
    BY <1>1 DEF Emit
  <2>2. pending \in [Jobs -> Seq(Events)] /\ j \in Jobs
    BY ProcessIs, BaseIs DEF DeliveredInv, RestTyped
  <2>3. ASSUME NEW k \in Jobs, Announced(pending', k) PROVE k \in delivered'
    <3>1. CASE k # j
      <4>1. Announced(pending, k)
        BY <2>1, <2>2, <2>3, <3>1 DEF Announced
      <4> QED
        BY <4>1, <2>1 DEF DeliveredInv, CompletedWasDelivered
    <3>2. CASE k = j
      <4>1. pending[j] \in Seq(Events) /\ pending'[j] = Append(pending[j], e)
        BY <2>1, <2>2
      <4>2. Announced(pending, j) \/ e = "JOB_COMPLETED"
        <5> HIDE DEF e, j
        <5>1. PICK i \in DOMAIN pending'[j] : pending'[j][i] = "JOB_COMPLETED"
          BY <2>3, <3>2 DEF Announced
        <5>2. \/ i \in DOMAIN pending[j] /\ pending[j][i] = "JOB_COMPLETED"
              \/ e = "JOB_COMPLETED"
          BY <4>1, <5>1
        <5> QED
          BY <5>2 DEF Announced
      <4> QED
        BY <4>2, <2>1, <3>2 DEF DeliveredInv, CompletedWasDelivered
    <3> QED
      BY <3>1, <3>2
  <2> QED
    BY <2>1, <2>3 DEF DeliveredInv, CompletedWasDelivered, SucceededWasDelivered
<1>2. CASE Work(l) \/ Exit(l) \/ Die(l)
  <2>1. UNCHANGED <<jobs, runs, pending, delivered>>
    BY <1>2 DEF Work, Exit, Die, events
  <2> QED
    BY <2>1 DEF DeliveredInv, CompletedWasDelivered, SucceededWasDelivered, Announced
<1> QED
  BY <1>1, <1>2

LEMMA PollsDelivered ==
    ASSUME DeliveredInv, NEW t \in Threads,
           \/ \E r \in Runs : Ingest(t, r)
           \/ LeaveRunning(t) \/ Judge(t) \/ Pick(t) \/ Launch(t)
    PROVE  SucceededWasDelivered' /\ CompletedWasDelivered'
<1>1. Base /\ SucceededWasDelivered
  BY DEF DeliveredInv
<1>2. ASSUME NEW r \in Runs, Ingest(t, r) PROVE SucceededWasDelivered' /\ CompletedWasDelivered'
  <2>1. runs[r].job \in Jobs
    <3>1. RowOf(r, runs[r], made) /\ runs[r].status = "RUNNING"
      BY <1>1, <1>2, BaseIs DEF Known, KnownIn, Ingest
    <3> QED
      BY <3>1, EmptyRows DEF RowOf
  <2>2. IngestFile(runs[r].job) /\ UNCHANGED <<runs, delivered>>
    BY <1>2 DEF Ingest
  <2> QED
    BY <1>1, <2>1, <2>2, IngestDelivered DEF SucceededWasDelivered
<1>3. CASE LeaveRunning(t) \/ Pick(t)
  <2>1. UNCHANGED <<jobs, runs, pending, delivered>>
    BY <1>3 DEF LeaveRunning, Pick, events
  <2> QED
    BY <2>1 DEF DeliveredInv, CompletedWasDelivered, SucceededWasDelivered, Announced
<1>4. CASE Relaunch(t)
  <2>1. thread[t].at = "judge" /\ Flush(thread[t].loaded) /\ UNCHANGED <<runs, delivered>>
    BY <1>4 DEF Relaunch, Judging
  <2>2. thread[t].loaded.job \in Jobs
    BY <1>1, <2>1, ThreadIs
  <2> QED
    BY <1>1, <2>1, <2>2, FlushDelivered DEF SucceededWasDelivered
<1>5. CASE JudgeEnded(t)
  <2> DEFINE s == thread[t].loaded
             v == Verdict(jobs'[s.job])
             g == Committed(thread[t].run, s, [s EXCEPT !.status = v, !.pid = 0])
  <2>1. /\ thread[t].at = "judge" /\ Flush(s)
        /\ runs' = [runs EXCEPT ![thread[t].run] = g] /\ UNCHANGED delivered
    BY <1>5 DEF JudgeEnded, Judging, Commit
  <2>2. s.job \in Jobs /\ s = thread[t].row
    BY <1>1, <2>1, ThreadIs
  <2>3. CompletedWasDelivered'
    BY <2>1, <2>2, FlushDelivered
  <2>4. v \in RunStatuses /\ v # "RUNNING" /\ (v = "SUCCEEDED" => s.job \in delivered)
    <3>1. v = "SUCCEEDED" => jobs'[s.job] = "COMPLETED"
      BY VerdictIsStatus
    <3>2. v \in RunStatuses /\ v # "RUNNING"
      BY VerdictIsStatus
    <3> QED
      BY <3>1, <3>2, <2>1, <2>2, <2>3 DEF CompletedWasDelivered
  <2> HIDE DEF v
  <2>5. /\ g \in RunRows /\ (g = NoRun \/ g.job = thread[t].row.job)
        /\ g.status = "SUCCEEDED" =>
             \/ v = "SUCCEEDED"
             \/ /\ runs[thread[t].run] # NoRun
                /\ runs[thread[t].run].status = "SUCCEEDED"
    BY <1>1, <2>1, <2>4, JudgedRow
  <2> HIDE DEF g
  <2>6. SucceededWasDelivered'
    BY <2>1, <2>2, <2>4, <2>5, CommitDelivered
  <2> QED
    BY <2>3, <2>6
<1>6. CASE JudgeFailed(t)
  <2> DEFINE s == thread[t].loaded
             g == Committed(thread[t].run, s, [s EXCEPT !.status = "FAILED", !.pid = 0])
  <2>1. /\ thread[t].at = "judge" /\ SetJob(s.job, "FAILED")
        /\ pending' = [pending EXCEPT ![s.job] = <<>>]
        /\ runs' = [runs EXCEPT ![thread[t].run] = g] /\ UNCHANGED delivered
    BY <1>6 DEF JudgeFailed, Judging, Commit
  <2>2. /\ g \in RunRows /\ (g = NoRun \/ g.job = thread[t].row.job)
        /\ g.status = "SUCCEEDED" =>
             /\ runs[thread[t].run] # NoRun
             /\ runs[thread[t].run].status = "SUCCEEDED"
    <3>1. "FAILED" \in RunStatuses
      BY DEF RunStatuses
    <3> QED
      BY <1>1, <2>1, <3>1, JudgedRow
  <2> HIDE DEF g
  <2>3. SucceededWasDelivered'
    BY <2>1, <2>2, CommitDelivered
  <2>4. \A k \in Jobs : Announced(pending', k) => Announced(pending, k)
    BY <1>1, <2>1, BaseIs DEF RestTyped, Announced
  <2> QED
    BY <2>1, <2>3, <2>4, OtherStatus
<1>7. CASE Launch(t)
  <2>1. /\ thread[t].at = "launch" /\ UNCHANGED <<pending, delivered>>
        /\ LaunchFails(t) \/ LaunchSucceeds(t)
    BY <1>7, LaunchIs DEF events
  <2>2. CompletedWasDelivered'
    BY <2>1, OtherStatus DEF LaunchFails, LaunchSucceeds, Announced
  <2>3. PICK g \in RunRows :
          /\ runs' = [runs EXCEPT ![thread[t].run] = g]
          /\ g = NoRun \/ g.job = thread[t].row.job
          /\ g.status = "SUCCEEDED" =>
               /\ runs[thread[t].run] # NoRun
               /\ runs[thread[t].run].status = "SUCCEEDED"
    <3>1. CASE LaunchFails(t)
      BY <1>1, <2>1, <3>1, FailedLaunchRow DEF LaunchFails, Commit
    <3>2. CASE LaunchSucceeds(t)
      BY <1>1, <2>1, <3>2, LaunchedRow DEF LaunchSucceeds, Commit
    <3> QED
      BY <2>1, <3>1, <3>2
  <2>4. SucceededWasDelivered'
    BY <2>1, <2>3, CommitDelivered
  <2> QED
    BY <2>2, <2>4
<1> QED
  BY <1>2, <1>3, <1>4, <1>5, <1>6, <1>7 DEF Judge

LEMMA RequestsDelivered ==
    ASSUME DeliveredInv, NEW t \in Threads, NEW j \in Jobs, Request(t, j)
    PROVE  SucceededWasDelivered' /\ CompletedWasDelivered'
<1>1. Base /\ SucceededWasDelivered
  BY DEF DeliveredInv
<1>2. RestTyped(jobs, requests, pending, lastEvent, lastTerminal, checkpoint, delivered, launches)
      /\ runs \in [Runs -> RunRows]
  BY <1>1, BaseIs DEF Typed
(* No request makes a run a success, or gives one another job. *)
<1>3. CASE /\ \A r \in Runs : runs'[r].status = "SUCCEEDED" =>
                 runs[r].status = "SUCCEEDED" /\ runs'[r].job = runs[r].job
           /\ \E s \in JobStatuses \ {"COMPLETED"} :
                 SetJob(j, s) \/ jobs' = [jobs EXCEPT ![j] = s] \/ UNCHANGED jobs
           /\ \A k \in Jobs : Announced(pending', k) => Announced(pending, k)
           /\ UNCHANGED delivered
  BY <1>1, <1>3, OtherStatus DEF SucceededWasDelivered
<1>4. CASE StartNow(t, j) \/ ResumeNow(t, j) \/ Edit(t, j)
  <2>1. UNCHANGED <<runs, pending, delivered>>
    BY <1>4 DEF StartNow, ResumeNow, Edit, events
  <2>2. jobs' = [jobs EXCEPT ![j] = "POLICY_READY"] \/ UNCHANGED jobs
    BY <1>4 DEF StartNow, ResumeNow, Edit
  <2>3. "POLICY_READY" \in JobStatuses \ {"COMPLETED"}
    BY NamedStatuses
  <2> QED
    BY <1>3, <2>1, <2>2, <2>3 DEF Announced
<1>5. CASE StartQueued(t, j) \/ ResumeQueued(t, j)
  <2>1. SetJob(j, "QUEUED") /\ UNCHANGED <<pending, delivered>>
    BY <1>5 DEF StartQueued, ResumeQueued, events
  <2>2. PICK r, g : runs' = [runs EXCEPT ![r] = g] /\ g.status = "QUEUED"
    <3>1. CASE StartQueued(t, j)
      <4> DEFINE g == [NoRun EXCEPT !.job = j, !.status = "QUEUED",
                                    !.position = Cardinality(InStatus("QUEUED")) + 1]
      <4>1. runs' = [runs EXCEPT ![made + 1] = g]
        BY <3>1 DEF StartQueued
      <4>2. g.status = "QUEUED"
        BY DEF NoRun
      <4> HIDE DEF g
      <4> QED
        BY <4>1, <4>2
    <3>2. CASE ResumeQueued(t, j)
      <4>1. /\ runs' = [runs EXCEPT ![latest_run(j)] = Resumed(latest_run(j), Cardinality(InStatus("QUEUED")))]
            /\ MayResume(j)
        BY <3>2 DEF ResumeQueued
      <4>2. Resumed(latest_run(j), Cardinality(InStatus("QUEUED"))).status = "QUEUED"
        BY <1>1, <4>1, ResumedRow, CountedRuns
      <4> QED
        BY <4>1, <4>2
    <3> QED
      BY <1>5, <3>1, <3>2
  <2>3. \A q \in Runs : runs'[q] = runs[q] \/ runs'[q].status # "SUCCEEDED"
    BY <2>2, <1>2
  <2>4. "QUEUED" \in JobStatuses \ {"COMPLETED"}
    BY NamedStatuses
  <2> QED
    BY <1>3, <2>1, <2>3, <2>4 DEF Announced
<1>6. CASE Cancel(t, j)
  <2> DEFINE r == latest_run(j)
  <2>1. /\ r \in Runs /\ runs[r] # NoRun /\ runs' = Cancelled(r) /\ Killed(j)
        /\ jobs' = [jobs EXCEPT ![j] = "CANCELLED"] /\ UNCHANGED delivered
    BY <1>1, <1>6, CancelIs
  <2>2. \A k \in Jobs : Announced(pending', k) => Announced(pending, k)
    <3>1. pending' = pending \/ pending' = [pending EXCEPT ![j] = <<>>]
      BY <2>1 DEF Killed, events
    <3>2. \A k \in Jobs : pending'[k] \in {pending[k], <<>>}
      BY <3>1, <1>2 DEF RestTyped
    <3> QED
      BY <3>2 DEF Announced
  <2> HIDE DEF r
  <2>3. \A q \in Runs : runs'[q] = runs[q] \/ runs'[q].status # "SUCCEEDED"
    BY <1>1, <2>1, CancelledRow
  <2>4. "CANCELLED" \in JobStatuses \ {"COMPLETED"}
    BY NamedStatuses
  <2> QED
    BY <1>3, <2>1, <2>2, <2>3, <2>4
<1>7. CASE CancelTimesOut(t, j)
  <2>1. UNCHANGED <<jobs, runs, delivered>>
    BY <1>7 DEF CancelTimesOut
  <2>2. PICK before \in Seq(Events) :
          /\ pending' = [pending EXCEPT ![j] = Append(before, "JOB_CANCELLED")]
          /\ \A i \in DOMAIN before : i \in DOMAIN pending[j] /\ before[i] = pending[j][i]
    BY <1>1, <1>7, TimedOutFile
  <2>3. ASSUME NEW k \in Jobs, Announced(pending', k) PROVE Announced(pending, k)
    <3>1. CASE k # j
      BY <1>2, <2>2, <2>3, <3>1 DEF Announced, RestTyped
    <3>2. CASE k = j
      <4>1. pending'[j] = Append(before, "JOB_CANCELLED")
        BY <1>2, <2>2 DEF RestTyped
      <4>2. PICK i \in DOMAIN pending'[j] : pending'[j][i] = "JOB_COMPLETED"
        BY <2>3, <3>2 DEF Announced
      <4>3. i \in 1..(Len(before) + 1) /\ i # Len(before) + 1
        BY <4>1, <4>2
      <4>4. i \in DOMAIN before /\ before[i] = "JOB_COMPLETED"
        BY <4>1, <4>2, <4>3
      <4> QED
        BY <4>4, <2>2, <3>2 DEF Announced
    <3> QED
      BY <3>1, <3>2
  <2>4. "RUNNING" \in JobStatuses \ {"COMPLETED"}
    BY NamedStatuses
  <2> QED
    BY <1>3, <2>1, <2>3, <2>4
<1>8. CASE Delete(t, j)
  <2>1. /\ jobs' = [jobs EXCEPT ![j] = "DELETED"] /\ UNCHANGED <<pending, delivered>>
        /\ runs' = [r \in Runs |-> IF runs[r].job = j THEN NoRun ELSE runs[r]]
    BY <1>8 DEF Delete, events
  <2>2. \A q \in Runs : runs'[q] = runs[q] \/ runs'[q].status # "SUCCEEDED"
    <3>1. NoRun.status # "SUCCEEDED"
      BY EmptyRows
    <3> QED
      BY <2>1, <3>1
  <2>3. "DELETED" \in JobStatuses \ {"COMPLETED"}
    BY NamedStatuses
  <2> QED
    BY <1>3, <2>1, <2>2, <2>3 DEF Announced
<1> QED
  BY <1>4, <1>5, <1>6, <1>7, <1>8 DEF Request

LEMMA DeliveredStep == DeliveredInv /\ [Next]_vars => DeliveredInv'
<1> SUFFICES ASSUME DeliveredInv, [Next]_vars PROVE DeliveredInv'
  OBVIOUS
<1>1. Base'
  BY BaseStep DEF DeliveredInv
<1>2. CASE \E l \in 1..launches : Emit(l) \/ Work(l) \/ Exit(l) \/ Die(l)
  BY <1>1, <1>2, WorkersDelivered DEF DeliveredInv
<1>3. ASSUME NEW t \in Threads,
             \/ \E r \in Runs : Ingest(t, r)
             \/ LeaveRunning(t) \/ Judge(t) \/ Pick(t) \/ Launch(t)
      PROVE  DeliveredInv'
  BY <1>1, <1>3, PollsDelivered DEF DeliveredInv
<1>4. ASSUME NEW t \in Threads, NEW j \in Jobs, Request(t, j) PROVE DeliveredInv'
  BY <1>1, <1>4, RequestsDelivered DEF DeliveredInv
<1>5. CASE UNCHANGED vars
  BY <1>1, <1>5 DEF DeliveredInv, SucceededWasDelivered, CompletedWasDelivered, Announced, vars, events
<1> QED
  BY <1>2, <1>3, <1>4, <1>5 DEF Next, WorkerStep

(* A run is SUCCEEDED only if a worker of its job announced a completed      *)
(* delivery: whatever stale rows the threads write back, whatever was        *)
(* cancelled, retried or lost, and although a job's status may be older than *)
(* its file (_reconcile_run_once, 729-747).                                 *)
THEOREM SucceededHolds == Spec => []SucceededWasDelivered
<1>1. Init => DeliveredInv
  <2> SUFFICES ASSUME Init PROVE DeliveredInv
    OBVIOUS
  <2>1. \A r \in Runs : runs[r].status # "SUCCEEDED"
    BY EmptyRows DEF Init
  <2>2. \A j \in Jobs : jobs[j] # "COMPLETED" /\ ~Announced(pending, j)
    BY DEF Init, Announced
  <2> QED
    BY <2>1, <2>2, BaseInit DEF DeliveredInv, SucceededWasDelivered, CompletedWasDelivered
<1>2. DeliveredInv => SucceededWasDelivered
  BY DEF DeliveredInv
<1> QED
  BY <1>1, <1>2, DeliveredStep, PTL DEF Spec

-----------------------------------------------------------------------------
(* An end a worker announced is never forgotten: it is in the job's file, or *)
(* it was ingested when the worker's launch was already counted.            *)
EndSeen(pen, lt, j, l) ==
    \/ \E i \in DOMAIN pen[j] : pen[j][i] \in TERMINAL_RUNTIME_EVENTS
    \/ lt[j] >= l

EndsAreSeen ==
    \A l \in 1..launches :
       procs[l].said # "none" => EndSeen(pending, lastTerminal, procs[l].job, l)

SaidInv == Base /\ EndsAreSeen

NothingForgotten ==
    \A j \in Jobs, l \in 1..launches :
       EndSeen(pending, lastTerminal, j, l) => EndSeen(pending', lastTerminal', j, l)

LEMMA SameWords ==
    ASSUME SaidInv, NothingForgotten, launches' = launches,
           \A l \in 1..launches : procs'[l].job = procs[l].job /\ procs'[l].said = procs[l].said
    PROVE  EndsAreSeen'
<1>1. \A l \in 1..launches : procs[l].job \in Jobs
  BY ProcessIs DEF SaidInv
<1> QED
  BY <1>1 DEF SaidInv, EndsAreSeen, NothingForgotten

LEMMA IngestForgetsNothing ==
    ASSUME Base, NEW j \in Jobs, IngestFile(j)
    PROVE  NothingForgotten
<1>1. RestTyped(jobs, requests, pending, lastEvent, lastTerminal, checkpoint, delivered, launches)
      /\ launches \in Nat
  BY BaseIs, SameProcesses DEF launches
<1>2. \A k \in Jobs \ {j} : pending'[k] = pending[k] /\ lastTerminal'[k] = lastTerminal[k]
  BY <1>1 DEF IngestFile, RestTyped
<1>3. lastTerminal'[j] = IF HasTerminal(j) THEN launches ELSE lastTerminal[j]
  BY <1>1 DEF IngestFile, RestTyped
<1>4. ASSUME NEW l \in 1..launches, EndSeen(pending, lastTerminal, j, l)
      PROVE  lastTerminal'[j] >= l
  BY <1>1, <1>3, <1>4 DEF EndSeen, HasTerminal
<1> QED
  BY <1>2, <1>4 DEF NothingForgotten, EndSeen

LEMMA SameFiles ==
    ASSUME UNCHANGED <<pending, lastTerminal>>
    PROVE  NothingForgotten
BY DEF NothingForgotten, EndSeen

LEMMA FlushForgetsNothing ==
    ASSUME Base, NEW s, s.job \in Jobs, Flush(s)
    PROVE  NothingForgotten
<1>1. CASE TerminalSeen(s)
  BY <1>1, SameFiles DEF Flush, events
<1>2. CASE ~TerminalSeen(s)
  BY <1>2, IngestForgetsNothing DEF Flush
<1> QED
  BY <1>1, <1>2

LEMMA WorkersSaid ==
    ASSUME SaidInv, NEW l \in 1..launches, Emit(l) \/ Work(l) \/ Exit(l) \/ Die(l)
    PROVE  EndsAreSeen'
<1>1. Base /\ procs \in Seq(Processes) /\ procs[l] \in Processes /\ procs[l].job \in Jobs
  BY SameProcesses, ProcessIs DEF SaidInv
<1>2. CASE Emit(l)
  <2> DEFINE e == Head(procs[l].todo)
             j == procs[l].job
  <2>1. /\ pending' = [pending EXCEPT ![j] = Append(pending[j], e)] /\ lastTerminal' = lastTerminal
        /\ procs' = [procs EXCEPT ![l].todo = Tail(@),
                                  ![l].said = IF e \in TERMINAL_RUNTIME_EVENTS THEN e ELSE @]
    BY <1>2 DEF Emit
  <2>2. /\ launches' = launches
        /\ \A k \in 1..launches : procs'[k].job = procs[k].job
        /\ \A k \in 1..launches :
             procs'[k].said = procs[k].said \/ (k = l /\ e \in TERMINAL_RUNTIME_EVENTS)
    <3> DEFINE rest == Tail(procs[l].todo)
               said == IF e \in TERMINAL_RUNTIME_EVENTS THEN e ELSE procs[l].said
               p == [procs[l] EXCEPT !.todo = rest, !.said = said]
    <3>1. procs' = [procs EXCEPT ![l] = p]
      BY <1>1, <2>1 DEF launches, Processes
    <3>2. p.job = procs[l].job /\ p.said = said
      BY <1>1 DEF Processes
    <3>3. said = procs[l].said \/ e \in TERMINAL_RUNTIME_EVENTS
      OBVIOUS
    <3> HIDE DEF p, said, rest, e
    <3> QED
      BY <1>1, <3>1, <3>2, <3>3 DEF launches
  <2>3. pending \in [Jobs -> Seq(Events)]
    BY <1>1, BaseIs DEF RestTyped
  <2> HIDE DEF e, j
  <2>4. /\ \A k \in Jobs \ {j} : pending'[k] = pending[k]
        /\ \A i \in DOMAIN pending[j] : i \in DOMAIN pending'[j] /\ pending'[j][i] = pending[j][i]
        /\ Len(pending[j]) + 1 \in DOMAIN pending'[j] /\ pending'[j][Len(pending[j]) + 1] = e
    <3>1. pending[j] \in Seq(Events) /\ pending'[j] = Append(pending[j], e)
      BY <1>1, <2>1, <2>3 DEF j
    <3> QED
      BY <3>1, <2>1, <2>3
  <2>5. NothingForgotten
    BY <2>1, <2>4 DEF NothingForgotten, EndSeen
  <2>6. e \in TERMINAL_RUNTIME_EVENTS => \A k \in Nat : EndSeen(pending', lastTerminal', j, k)
    BY <2>4 DEF EndSeen
  <2>7. ASSUME NEW k \in 1..launches, procs'[k].said # "none"
        PROVE  EndSeen(pending', lastTerminal', procs'[k].job, k)
    <3>1. procs[k].job \in Jobs /\ procs'[k].job = procs[k].job /\ k \in Nat
      BY <1>1, <2>2, ProcessIs
    <3>2. CASE procs'[k].said = procs[k].said
      BY <2>5, <2>7, <3>1, <3>2 DEF SaidInv, EndsAreSeen, NothingForgotten
    <3>3. CASE k = l /\ e \in TERMINAL_RUNTIME_EVENTS
      BY <2>6, <3>1, <3>3 DEF j
    <3> QED
      BY <2>2, <3>2, <3>3
  <2> QED
    BY <2>2, <2>7 DEF EndsAreSeen
<1>3. CASE Work(l) \/ Exit(l) \/ Die(l)
  <2>1. UNCHANGED <<pending, lastTerminal>>
    BY <1>3 DEF Work, Exit, Die, events
  <2>2. PICK p : /\ procs' = [procs EXCEPT ![l] = p]
                 /\ p.job = procs[l].job /\ p.said = procs[l].said
    <3>1. CASE Work(l)
      <4>1. PICK e \in EndingsTried : procs' = [procs EXCEPT ![l].todo = e, ![l].ending = TRUE]
        BY <3>1 DEF Work
      <4> DEFINE p == [procs[l] EXCEPT !.todo = e, !.ending = TRUE]
      <4>2. procs' = [procs EXCEPT ![l] = p]
        BY <1>1, <4>1 DEF launches
      <4>3. p.job = procs[l].job /\ p.said = procs[l].said
        BY <1>1 DEF Processes
      <4> HIDE DEF p
      <4> QED
        BY <4>2, <4>3
    <3>2. CASE Exit(l)
      <4> DEFINE p == [procs[l] EXCEPT !.alive = FALSE]
      <4>1. procs' = [procs EXCEPT ![l] = p]
        BY <1>1, <3>2 DEF Exit, launches
      <4>2. p.job = procs[l].job /\ p.said = procs[l].said
        BY <1>1 DEF Processes
      <4> HIDE DEF p
      <4> QED
        BY <4>1, <4>2
    <3>3. CASE Die(l)
      BY <1>1, <3>3, DeadProcess DEF Die
    <3> QED
      BY <1>3, <3>1, <3>2, <3>3
  <2>3. /\ launches' = launches
        /\ \A k \in 1..launches : procs'[k].job = procs[k].job /\ procs'[k].said = procs[k].said
    BY <1>1, <2>2 DEF launches
  <2> QED
    BY <2>1, <2>3, SameFiles, SameWords
<1> QED
  BY <1>2, <1>3

LEMMA PollsSaid ==
    ASSUME SaidInv, NEW t \in Threads,
           \/ \E r \in Runs : Ingest(t, r)
           \/ LeaveRunning(t) \/ Judge(t) \/ Pick(t)
    PROVE  EndsAreSeen'
<1>1. Base
  BY DEF SaidInv
<1>2. procs' = procs /\ launches' = launches
  BY DEF Ingest, LeaveRunning, Judge, JudgeEnded, Relaunch, JudgeFailed, Pick, launches
<1>3. ASSUME NEW r \in Runs, Ingest(t, r) PROVE NothingForgotten
  <2>1. runs[r].job \in Jobs
    <3>1. RowOf(r, runs[r], made) /\ runs[r].status = "RUNNING"
      BY <1>1, <1>3, BaseIs DEF Known, KnownIn, Ingest
    <3> QED
      BY <3>1, EmptyRows DEF RowOf
  <2> QED
    BY <1>1, <1>3, <2>1, IngestForgetsNothing DEF Ingest
<1>4. CASE LeaveRunning(t) \/ Pick(t)
  BY <1>2, <1>4, SameFiles, SameWords DEF LeaveRunning, Pick, events
<1>5. CASE Relaunch(t) \/ JudgeEnded(t)
  <2>1. thread[t].at = "judge" /\ Flush(thread[t].loaded)
    BY <1>5 DEF Relaunch, JudgeEnded, Judging
  <2>2. thread[t].loaded.job \in Jobs
    BY <1>1, <2>1, ThreadIs
  <2> QED
    BY <1>1, <1>2, <2>1, <2>2, FlushForgetsNothing, SameWords
<1>6. CASE JudgeFailed(t)
  <2> DEFINE j == thread[t].loaded.job
  <2>1. /\ pending' = [pending EXCEPT ![j] = <<>>] /\ lastTerminal' = lastTerminal
        /\ ~HasTerminal(j)
    BY <1>6 DEF JudgeFailed, EndAnnounced
  <2>2. NothingForgotten
    <3>1. pending \in [Jobs -> Seq(Events)]
      BY <1>1, BaseIs DEF RestTyped
    <3>2. \A k \in Jobs : k = j \/ pending'[k] = pending[k]
      BY <2>1, <3>1
    <3> QED
      BY <2>1, <3>2 DEF NothingForgotten, EndSeen, HasTerminal
  <2> QED
    BY <1>2, <2>2, SameWords
<1> QED
  BY <1>2, <1>3, <1>4, <1>5, <1>6, SameWords DEF Judge

LEMMA LaunchSaid ==
    ASSUME SaidInv, NEW t \in Threads, Launch(t)
    PROVE  EndsAreSeen'
<1>1. /\ Base /\ thread[t].at = "launch" /\ UNCHANGED <<pending, lastTerminal>>
      /\ LaunchFails(t) \/ LaunchSucceeds(t)
  BY LaunchIs DEF SaidInv, events
<1>2. NothingForgotten
  BY <1>1, SameFiles
<1>3. CASE LaunchFails(t)
  BY <1>2, <1>3, SameWords DEF LaunchFails, launches
<1>4. CASE LaunchSucceeds(t)
  <2> DEFINE p == Spawned(thread[t].run, thread[t].row.job)
  <2>1. procs' = Append(procs, p) /\ p.said = "none" /\ procs \in Seq(Processes)
    BY <1>1, <1>4, SameProcesses, ThreadIs, SpawnedProcess DEF LaunchSucceeds
  <2> HIDE DEF p
  <2>2. /\ launches' = launches + 1 /\ launches \in Nat
        /\ procs'[launches + 1] = p /\ \A l \in 1..launches : procs'[l] = procs[l]
    BY <2>1 DEF launches
  <2>3. ASSUME NEW l \in 1..launches', procs'[l].said # "none"
        PROVE  EndSeen(pending', lastTerminal', procs'[l].job, l)
    <3>1. l # launches + 1
      BY <2>1, <2>2, <2>3
    <3>2. l \in 1..(launches + 1)
      BY <2>2
    <3>3. l \in 1..launches /\ procs'[l] = procs[l]
      BY <2>2, <3>1, <3>2
    <3> QED
      BY <1>1, <2>3, <3>3 DEF SaidInv, EndsAreSeen
  <2> QED
    BY <2>3 DEF EndsAreSeen
<1> QED
  BY <1>1, <1>3, <1>4

LEMMA RequestsSaid ==
    ASSUME SaidInv, NEW t \in Threads, NEW j \in Jobs, Request(t, j)
    PROVE  EndsAreSeen'
<1>1. Base /\ procs \in Seq(Processes) /\ launches \in Nat
  BY SameProcesses DEF SaidInv, launches
<1>2. RestTyped(jobs, requests, pending, lastEvent, lastTerminal, checkpoint, delivered, launches)
  BY <1>1, BaseIs
<1>3. CASE \/ StartNow(t, j) \/ StartQueued(t, j) \/ ResumeNow(t, j) \/ ResumeQueued(t, j)
           \/ Delete(t, j) \/ Edit(t, j)
  <2>1. UNCHANGED <<pending, lastTerminal, procs>>
    BY <1>3 DEF StartNow, StartQueued, ResumeNow, ResumeQueued, Delete, Edit, events
  <2> QED
    BY <2>1, SameFiles, SameWords DEF launches
<1>4. CASE Cancel(t, j)
  <2> DEFINE r == latest_run(j)
             l == runs[r].pid
  <2>1. Killed(j)
    BY <1>1, <1>4, CancelIs
  <2>2. CASE runs[r].status = "RUNNING" /\ Alive(l)
    <3>1. /\ procs' = [procs EXCEPT ![l] = Dead(procs[l])] /\ l \in 1..launches
          /\ pending' = [pending EXCEPT ![j] = <<>>]
          /\ lastTerminal' = [lastTerminal EXCEPT ![j] = launches]
      BY <2>1, <2>2 DEF Killed, Alive
    <3> HIDE DEF l
    <3>2. Dead(procs[l]).job = procs[l].job /\ Dead(procs[l]).said = procs[l].said
      BY <1>1, <3>1, ProcessIs, DeadProcess
    <3>3. /\ launches' = launches
          /\ \A k \in 1..launches : procs'[k].job = procs[k].job /\ procs'[k].said = procs[k].said
      BY <1>1, <3>1, <3>2 DEF launches
    <3>4. /\ \A k \in Jobs \ {j} : pending'[k] = pending[k] /\ lastTerminal'[k] = lastTerminal[k]
          /\ lastTerminal'[j] = launches
      BY <1>2, <3>1 DEF RestTyped
    <3>5. \A k \in 1..launches : lastTerminal'[j] >= k
      BY <1>1, <3>4
    <3>6. NothingForgotten
      BY <3>4, <3>5 DEF NothingForgotten, EndSeen
    <3> QED
      BY <3>3, <3>6, SameWords
  <2>3. CASE ~(runs[r].status = "RUNNING" /\ Alive(l))
    <3>1. UNCHANGED <<pending, lastTerminal, procs>>
      BY <2>1, <2>3 DEF Killed, events
    <3> QED
      BY <3>1, SameFiles, SameWords DEF launches
  <2> QED
    BY <2>2, <2>3
<1>5. CASE CancelTimesOut(t, j)
  <2>1. lastTerminal' = lastTerminal /\ procs' = procs
    BY <1>5 DEF CancelTimesOut
  <2>2. PICK before \in Seq(Events) : pending' = [pending EXCEPT ![j] = Append(before, "JOB_CANCELLED")]
    BY <1>1, <1>5, TimedOutFile
  <2>3. pending'[j] = Append(before, "JOB_CANCELLED") /\ \A k \in Jobs \ {j} : pending'[k] = pending[k]
    BY <1>2, <2>2 DEF RestTyped
  <2>4. /\ Len(before) + 1 \in DOMAIN pending'[j]
        /\ pending'[j][Len(before) + 1] \in TERMINAL_RUNTIME_EVENTS
    BY <2>3 DEF TERMINAL_RUNTIME_EVENTS
  <2>5. NothingForgotten
    BY <2>1, <2>3, <2>4 DEF NothingForgotten, EndSeen
  <2> QED
    BY <2>1, <2>5, SameWords DEF launches
<1> QED
  BY <1>3, <1>4, <1>5 DEF Request

LEMMA SaidStep == SaidInv /\ [Next]_vars => SaidInv'
<1> SUFFICES ASSUME SaidInv, [Next]_vars PROVE SaidInv'
  OBVIOUS
<1>1. Base'
  BY BaseStep DEF SaidInv
<1>2. CASE \E l \in 1..launches : Emit(l) \/ Work(l) \/ Exit(l) \/ Die(l)
  BY <1>1, <1>2, WorkersSaid DEF SaidInv
<1>3. ASSUME NEW t \in Threads,
             \/ \E r \in Runs : Ingest(t, r)
             \/ LeaveRunning(t) \/ Judge(t) \/ Pick(t) \/ Launch(t)
      PROVE  SaidInv'
  BY <1>1, <1>3, PollsSaid, LaunchSaid DEF SaidInv
<1>4. ASSUME NEW t \in Threads, NEW j \in Jobs, Request(t, j) PROVE SaidInv'
  BY <1>1, <1>4, RequestsSaid DEF SaidInv
<1>5. CASE UNCHANGED vars
  BY <1>1, <1>5, SameFiles, SameWords DEF SaidInv, vars, events, launches
<1> QED
  BY <1>2, <1>3, <1>4, <1>5 DEF Next, WorkerStep

LEMMA OnlyRelaunch ==
    ASSUME Base, [Next]_vars, NEW t \in Threads,
           thread[t].at = "judge", thread'[t].at = "launch"
    PROVE  Relaunch(t)
<1>1. thread \in [Threads -> ThreadStates] /\ Idle.at = "idle"
  BY BaseIs, EmptyRows DEF Typed
<1>2. thread' # thread
  OBVIOUS
<1>3. CASE \E l \in 1..launches : Emit(l) \/ Work(l) \/ Exit(l) \/ Die(l)
  BY <1>2, <1>3 DEF Emit, Work, Exit, Die
<1>4. ASSUME NEW u \in Threads, NEW r \in Runs, Ingest(u, r) PROVE FALSE
  <2>1. thread[u].at = "idle" /\ \E s : thread' = [thread EXCEPT ![u] = s]
    BY <1>4 DEF Ingest
  <2>2. u # t
    BY <2>1
  <2> QED
    BY <1>1, <2>1, <2>2
<1>5. ASSUME NEW u \in Threads, LeaveRunning(u) \/ JudgeEnded(u) \/ JudgeFailed(u) \/ Launch(u)
      PROVE  FALSE
  <2>1. thread' = [thread EXCEPT ![u] = Idle]
    BY <1>5 DEF LeaveRunning, JudgeEnded, JudgeFailed, Launch
  <2> QED
    BY <1>1, <2>1
<1>6. ASSUME NEW u \in Threads, Pick(u) PROVE FALSE
  <2>1. thread[u].at = "idle" /\ \E s : thread' = [thread EXCEPT ![u] = s]
    BY <1>6 DEF Pick
  <2>2. u # t
    BY <2>1
  <2> QED
    BY <1>1, <2>1, <2>2
<1>7. ASSUME NEW u \in Threads, u # t, Relaunch(u) PROVE FALSE
  <2>1. \A v \in Threads \ {u} : thread'[v] = thread[v]
    BY <1>1, <1>7 DEF Relaunch
  <2> QED
    BY <1>7, <2>1
<1>8. ASSUME NEW u \in Threads, NEW j \in Jobs, Request(u, j) PROVE FALSE
  <2>1. thread[u].at = "idle" /\ \E s : thread' = [thread EXCEPT ![u] = s]
    <3>1. thread[u].at = "idle"
      BY <1>8 DEF Request, StartNow, StartQueued, ResumeNow, ResumeQueued, Cancel, CancelTimesOut,
             Delete, Edit, ServesFirst, Serves
    <3>2. CASE StartNow(u, j) \/ ResumeNow(u, j)
      BY <3>1, <3>2 DEF StartNow, ResumeNow
    <3>3. CASE \/ StartQueued(u, j) \/ ResumeQueued(u, j) \/ Cancel(u, j)
               \/ CancelTimesOut(u, j) \/ Delete(u, j) \/ Edit(u, j)
      BY <1>2, <3>3 DEF StartQueued, ResumeQueued, Cancel, CancelTimesOut, Delete, Edit
    <3> QED
      BY <1>8, <3>2, <3>3 DEF Request
  <2>2. u # t
    BY <2>1
  <2> QED
    BY <1>1, <2>1, <2>2
<1>9. CASE UNCHANGED vars
  BY <1>2, <1>9 DEF vars
<1> QED
  BY <1>3, <1>4, <1>5, <1>6, <1>7, <1>8, <1>9 DEF Next, WorkerStep, Judge

(* No worker is launched a second time once the process its run was claimed  *)
(* for has announced an end: not by a poll that read the file before, nor by *)
(* one whose row was overwritten meanwhile, nor after a cancel that timed    *)
(* out and cost the file its last row.                                      *)
THEOREM RelaunchHolds == Spec => RelaunchOnlyCrashed
<1>1. Init => SaidInv
  <2>1. Init => EndsAreSeen
    BY DEF Init, EndsAreSeen, launches
  <2> QED
    BY <2>1, BaseInit DEF SaidInv
<1>2. ASSUME SaidInv, [Next]_vars, NEW t \in Threads,
             thread[t].at = "judge", thread'[t].at = "launch"
      PROVE  procs[thread[t].loaded.claimed].said = "none"
  <2> DEFINE s == thread[t].loaded
  <2>1. Base /\ Relaunch(t)
    BY <1>2, OnlyRelaunch DEF SaidInv
  <2>2. /\ s \in RunRows /\ s.job \in Jobs /\ s.status = "RUNNING" /\ Loaded(thread[t], procs)
        /\ launches \in Nat
    BY <1>2, <2>1, ThreadIs, SameProcesses DEF launches
  <2>3. /\ s.claimed \in 1..launches /\ procs[s.claimed].job = s.job
    BY <2>2 DEF Loaded, Backed, RunRows, launches
  <2>4. ~EndSeen(pending, lastTerminal, s.job, s.claimed)
    BY <2>1 DEF Relaunch, EndAnnounced, TerminalSeen, HasTerminal, EndSeen
  <2> QED
    BY <1>2, <2>3, <2>4 DEF SaidInv, EndsAreSeen
<1>3. SaidInv /\ [Next]_vars =>
        [\A t \in Threads : thread[t].at = "judge" /\ thread'[t].at = "launch"
                              => procs[thread[t].loaded.claimed].said = "none"]_vars
  BY <1>2
<1> QED
  BY <1>1, <1>3, SaidStep, PTL DEF Spec, RelaunchOnlyCrashed

-----------------------------------------------------------------------------
(* Requests served one at a time: the row a thread holds is the run's row,   *)
(* and a run about to be launched has a slot and no live worker.             *)
OneAtATime == \A t, u \in Threads : t = u

Owned == \A l \in 1..launches :
            procs[l].alive => runs[procs[l].run].status = "RUNNING" /\ runs[procs[l].run].pid = l

NoWorker(ps, r) == \A l \in 1..Len(ps) : ps[l].alive => ps[l].run # r

Fresh(t) ==
    /\ thread[t].at # "idle" => thread[t].loaded = runs[thread[t].run]
    /\ thread[t].at = "launch" =>
         /\ FreeSlot \/ runs[thread[t].run].status = "RUNNING"
         /\ NoWorker(procs, thread[t].run)

OwnInv == Base /\ Owned /\ SlotsRespected /\ \A t \in Threads : Fresh(t)

LEMMA IdleIsFresh ==
    ASSUME NEW t \in Threads, thread'[t].at = "idle"
    PROVE  Fresh(t)'
BY DEF Fresh

LEMMA StopsFresh ==
    ASSUME OneAtATime, Base, NEW t \in Threads, thread' = [thread EXCEPT ![t] = Idle]
    PROVE  \A u \in Threads : Fresh(u)'
<1>1. thread \in [Threads -> ThreadStates]
  BY BaseIs DEF Typed
<1>2. \A u \in Threads : thread'[u].at = "idle"
  BY <1>1, EmptyRows DEF OneAtATime
<1> QED
  BY <1>2, IdleIsFresh

LEMMA IdleFresh ==
    ASSUME OneAtATime, NEW t \in Threads, thread[t].at = "idle", UNCHANGED thread
    PROVE  \A u \in Threads : Fresh(u)'
BY IdleIsFresh DEF OneAtATime

(* A thread's turn that changes no row and no process. *)
LEMMA TurnsFresh ==
    ASSUME OneAtATime, Base, NEW t \in Threads, NEW s,
           thread' = [thread EXCEPT ![t] = s], UNCHANGED <<runs, procs>>,
           s.at # "idle" => s.loaded = runs[s.run],
           s.at = "launch" => /\ FreeSlot \/ runs[s.run].status = "RUNNING"
                              /\ NoWorker(procs, s.run)
    PROVE  \A u \in Threads : Fresh(u)'
<1>1. thread \in [Threads -> ThreadStates]
  BY BaseIs DEF Typed
<1>2. \A u \in Threads : thread'[u] = s
  BY <1>1 DEF OneAtATime
<1>3. FreeSlot' <=> FreeSlot
  BY DEF FreeSlot, active_runs, InStatus
<1> QED
  BY <1>2, <1>3 DEF Fresh

(* Runs leave RUNNING only without a worker, workers only end. *)
LEMMA OwnedKept ==
    ASSUME OwnInv, Len(procs') = Len(procs),
           \A l \in 1..launches :
             procs'[l].run = procs[l].run /\ (procs'[l].alive => procs[l].alive),
           \A r \in Runs :
             \/ runs'[r] = runs[r]
             \/ runs'[r].status # "RUNNING" /\ NoWorker(procs', r)
    PROVE  Owned' /\ SlotsRespected'
<1>1. launches' = launches /\ launches = Len(procs) /\ Len(procs) \in Nat
  BY SameProcesses DEF launches, OwnInv
<1>2. \A l \in 1..launches : procs[l].run \in Runs
  BY ProcessIs DEF Processes, OwnInv
<1>3. Owned'
  <2> SUFFICES ASSUME NEW l \in 1..launches, procs'[l].alive
               PROVE  /\ runs'[procs'[l].run].status = "RUNNING"
                      /\ runs'[procs'[l].run].pid = l
    BY <1>1 DEF Owned
  <2>1. /\ runs[procs[l].run].status = "RUNNING" /\ runs[procs[l].run].pid = l
        /\ procs'[l].run = procs[l].run
    BY DEF OwnInv, Owned
  <2>2. ~NoWorker(procs', procs[l].run)
    BY <1>1, <2>1 DEF NoWorker
  <2> QED
    BY <1>2, <2>1, <2>2
<1>4. SlotsRespected'
  <2>1. active_runs' \in SUBSET active_runs
    BY DEF active_runs, InStatus
  <2>2. IsFiniteSet(active_runs) /\ Cardinality(active_runs) \in Nat
    BY CountedRuns DEF active_runs
  <2>3. Cardinality(active_runs') <= Cardinality(active_runs) /\ IsFiniteSet(active_runs')
    BY <2>1, <2>2, FS_Subset
  <2>4. Cardinality(active_runs') \in Nat
    BY <2>3, FS_CardinalityType
  <2> QED
    BY <2>2, <2>3, <2>4, ControlAssumption DEF SlotsRespected, OwnInv
<1> QED
  BY <1>3, <1>4

LEMMA NobodyWorks ==
    ASSUME OwnInv, NEW r, runs[r].status # "RUNNING" \/ ~Alive(runs[r].pid)
    PROVE  NoWorker(procs, r)
BY DEF OwnInv, Owned, NoWorker, Alive, launches

LEMMA WorkersOwned ==
    ASSUME OwnInv, NEW l \in 1..launches, Emit(l) \/ Work(l) \/ Exit(l) \/ Die(l)
    PROVE  OwnInv'
<1>1. Base /\ procs \in Seq(Processes) /\ procs[l] \in Processes
  BY SameProcesses, ProcessIs DEF OwnInv
<1>2. Base'
  BY <1>1, EmitKeeps, WorkKeeps, EndKeeps
<1>3. PICK p : /\ procs' = [procs EXCEPT ![l] = p]
               /\ p.run = procs[l].run /\ (p.alive => procs[l].alive)
  <2>1. CASE Emit(l)
    <3> DEFINE e == Head(procs[l].todo)
               rest == Tail(procs[l].todo)
               said == IF e \in TERMINAL_RUNTIME_EVENTS THEN e ELSE procs[l].said
               p == [procs[l] EXCEPT !.todo = rest, !.said = said]
    <3>1. procs' = [procs EXCEPT ![l] = p]
      BY <1>1, <2>1 DEF Emit, launches, Processes
    <3>2. p.run = procs[l].run /\ (p.alive => procs[l].alive)
      BY <1>1 DEF Processes
    <3> HIDE DEF p
    <3> QED
      BY <3>1, <3>2
  <2>2. CASE Work(l)
    <3>1. PICK e \in EndingsTried : procs' = [procs EXCEPT ![l].todo = e, ![l].ending = TRUE]
      BY <2>2 DEF Work
    <3> DEFINE p == [procs[l] EXCEPT !.todo = e, !.ending = TRUE]
    <3>2. procs' = [procs EXCEPT ![l] = p]
      BY <1>1, <3>1 DEF launches
    <3>3. p.run = procs[l].run /\ (p.alive => procs[l].alive)
      BY <1>1 DEF Processes
    <3> HIDE DEF p
    <3> QED
      BY <3>2, <3>3
  <2>3. CASE Exit(l)
    <3> DEFINE p == [procs[l] EXCEPT !.alive = FALSE]
    <3>1. procs' = [procs EXCEPT ![l] = p]
      BY <1>1, <2>3 DEF Exit, launches
    <3>2. p.run = procs[l].run /\ ~p.alive
      BY <1>1 DEF Processes
    <3> HIDE DEF p
    <3> QED
      BY <3>1, <3>2
  <2>4. CASE Die(l)
    <3>1. procs' = [procs EXCEPT ![l] = Dead(procs[l])]
      BY <2>4 DEF Die
    <3>2. Dead(procs[l]).run = procs[l].run /\ ~Dead(procs[l]).alive
      BY <1>1, DeadProcess
    <3> QED
      BY <3>1, <3>2
  <2> QED
    BY <2>1, <2>2, <2>3, <2>4
<1>4. UNCHANGED <<runs, thread>>
  BY DEF Emit, Work, Exit, Die
<1>5. /\ Len(procs') = Len(procs)
      /\ \A k \in 1..launches : procs'[k].run = procs[k].run /\ (procs'[k].alive => procs[k].alive)
  BY <1>1, <1>3 DEF launches
<1>6. Owned' /\ SlotsRespected'
  BY <1>4, <1>5, OwnedKept
<1>7. ASSUME NEW t \in Threads PROVE Fresh(t)'
  <2>1. \A r : NoWorker(procs, r) => NoWorker(procs', r)
    BY <1>5 DEF NoWorker, launches
  <2>2. FreeSlot' <=> FreeSlot
    BY <1>4 DEF FreeSlot, active_runs, InStatus
  <2> QED
    BY <1>4, <2>1, <2>2 DEF Fresh, OwnInv
<1> QED
  BY <1>2, <1>6, <1>7 DEF OwnInv

(* A row nobody else wrote is committed as it is. *)
LEMMA CommittedFresh ==
    ASSUME Base, NEW t \in Threads, thread[t].at # "idle",
           thread[t].loaded = runs[thread[t].run], NEW row \in RunRows
    PROVE  LET c == Committed(thread[t].run, thread[t].loaded, row)
           IN c \in RunRows /\ c.status = row.status /\ c.pid = row.pid
<1>1. thread[t].run \in Runs /\ runs[thread[t].run] \in RunRows /\ thread[t].loaded \in RunRows
  BY ThreadIs
<1> QED
  BY <1>1, CommittedRow DEF Kept

LEMMA JudgedOwned ==
    ASSUME OneAtATime, OwnInv, NEW t \in Threads, thread[t].at = "judge", Exited(thread[t].loaded),
           NEW v \in RunStatuses, v # "RUNNING",
           Commit(t, [thread[t].loaded EXCEPT !.status = v, !.pid = 0]),
           thread' = [thread EXCEPT ![t] = Idle], procs' = procs, Base'
    PROVE  OwnInv'
<1> DEFINE r == thread[t].run
           row == [thread[t].loaded EXCEPT !.status = v, !.pid = 0]
           g == Committed(r, thread[t].loaded, row)
<1>1. /\ Base /\ r \in Runs /\ thread[t].loaded \in RunRows /\ thread[t].loaded = runs[r]
      /\ runs \in [Runs -> RunRows]
  BY ThreadIs, BaseIs DEF OwnInv, Fresh, Typed
<1>2. row \in RunRows /\ row.status = v
  BY <1>1 DEF RunRows
<1> HIDE DEF row
<1>3. g \in RunRows /\ g.status = v
  BY <1>1, <1>2, CommittedFresh
<1>4. runs' = [runs EXCEPT ![r] = g]
  BY DEF Commit, row
<1> HIDE DEF g
<1>5. NoWorker(procs', r)
  BY <1>1, NobodyWorks DEF Exited
<1>6. \A q \in Runs :
        runs'[q] = runs[q] \/ (runs'[q].status # "RUNNING" /\ NoWorker(procs', q))
  BY <1>1, <1>3, <1>4, <1>5
<1>7. Owned' /\ SlotsRespected'
  BY <1>6, OwnedKept
<1>8. \A u \in Threads : Fresh(u)'
  BY <1>1, StopsFresh
<1> QED
  BY <1>7, <1>8 DEF OwnInv

LEMMA SameOwned ==
    ASSUME OwnInv, UNCHANGED <<runs, procs>>
    PROVE  Owned' /\ SlotsRespected'
BY DEF OwnInv, Owned, SlotsRespected, active_runs, InStatus, launches

LEMMA PollsOwned ==
    ASSUME OneAtATime, OwnInv, NEW t \in Threads, Base',
           \/ \E r \in Runs : Ingest(t, r)
           \/ LeaveRunning(t) \/ Judge(t) \/ Pick(t)
    PROVE  OwnInv'
<1>1. Base /\ Fresh(t)
  BY DEF OwnInv
<1>2. ASSUME NEW r \in Runs, Ingest(t, r) PROVE OwnInv'
  <2> DEFINE s == [at |-> "judge", run |-> r, loaded |-> runs[r], row |-> runs[r],
                   locked |-> pending[runs[r].job] # <<>>]
  <2>1. UNCHANGED <<runs, procs>> /\ thread' = [thread EXCEPT ![t] = s]
    BY <1>2 DEF Ingest
  <2>2. s.at = "judge" /\ s.loaded = runs[s.run]
    OBVIOUS
  <2> HIDE DEF s
  <2>3. \A u \in Threads : Fresh(u)'
    BY <1>1, <2>1, <2>2, TurnsFresh
  <2> QED
    BY <2>1, <2>3, SameOwned DEF OwnInv
<1>3. CASE LeaveRunning(t)
  <2>1. UNCHANGED <<runs, procs>> /\ thread' = [thread EXCEPT ![t] = Idle]
    BY <1>3 DEF LeaveRunning
  <2> QED
    BY <1>1, <2>1, StopsFresh, SameOwned DEF OwnInv
<1>4. CASE Pick(t)
  <2>1. PICK r \in NextQueued :
           thread' = [thread EXCEPT ![t] = [at |-> "launch", run |-> r, loaded |-> runs[r],
                                            row |-> runs[r], locked |-> FALSE]]
    BY <1>4 DEF Pick
  <2> DEFINE s == [at |-> "launch", run |-> r, loaded |-> runs[r], row |-> runs[r], locked |-> FALSE]
  <2>2. UNCHANGED <<runs, procs>> /\ FreeSlot
    BY <1>4 DEF Pick, Promotable
  <2>3. runs[r].status # "RUNNING"
    BY DEF NextQueued, InStatus
  <2>4. NoWorker(procs, r)
    BY <2>3, NobodyWorks
  <2>5. s.run = r /\ s.loaded = runs[s.run]
    OBVIOUS
  <2>6. thread' = [thread EXCEPT ![t] = s]
    BY <2>1
  <2> HIDE DEF s
  <2>7. \A u \in Threads : Fresh(u)'
    BY <1>1, <2>2, <2>4, <2>5, <2>6, TurnsFresh
  <2> QED
    BY <2>2, <2>7, SameOwned DEF OwnInv
<1>5. CASE Relaunch(t)
  <2> DEFINE s == thread'[t]
  <2>1. /\ thread[t].at = "judge" /\ Exited(thread[t].loaded) /\ UNCHANGED <<runs, procs>>
    BY <1>5 DEF Relaunch, Judging
  <2>2. /\ thread[t] \in ThreadStates /\ thread[t].loaded = runs[thread[t].run]
        /\ thread[t].loaded.status = "RUNNING" /\ thread \in [Threads -> ThreadStates]
    BY <1>1, <2>1, ThreadIs, BaseIs DEF Fresh, Typed
  <2>3. s.run = thread[t].run /\ s.loaded = thread[t].loaded
    BY <1>5, <2>2 DEF Relaunch, ThreadStates
  <2>4. \A u \in Threads : u = t
    BY DEF OneAtATime
  <2>5. thread' = [thread EXCEPT ![t] = s]
    <3>1. thread' \in [Threads -> ThreadStates]
      BY DEF Base, TypeOK
    <3> QED
      BY <2>2, <2>4, <3>1
  <2>6. NoWorker(procs, s.run)
    BY <2>1, <2>2, <2>3, NobodyWorks DEF Exited
  <2> HIDE DEF s
  <2>7. \A u \in Threads : Fresh(u)'
    BY <1>1, <2>1, <2>2, <2>3, <2>5, <2>6, TurnsFresh
  <2> QED
    BY <2>1, <2>7, SameOwned DEF OwnInv
<1>6. CASE JudgeEnded(t)
  <2> DEFINE v == Verdict(jobs'[thread[t].loaded.job])
  <2>1. /\ thread[t].at = "judge" /\ Exited(thread[t].loaded) /\ procs' = procs
        /\ Commit(t, [thread[t].loaded EXCEPT !.status = v, !.pid = 0])
        /\ thread' = [thread EXCEPT ![t] = Idle]
    BY <1>6 DEF JudgeEnded, Judging
  <2>2. v \in RunStatuses /\ v # "RUNNING"
    BY VerdictIsStatus
  <2> HIDE DEF v
  <2> QED
    BY <2>1, <2>2, JudgedOwned
<1>7. CASE JudgeFailed(t)
  <2>1. /\ thread[t].at = "judge" /\ Exited(thread[t].loaded) /\ procs' = procs
        /\ Commit(t, [thread[t].loaded EXCEPT !.status = "FAILED", !.pid = 0])
        /\ thread' = [thread EXCEPT ![t] = Idle]
    BY <1>7 DEF JudgeFailed, Judging
  <2>2. "FAILED" \in RunStatuses
    BY DEF RunStatuses
  <2> QED
    BY <2>1, <2>2, JudgedOwned
<1> QED
  BY <1>2, <1>3, <1>4, <1>5, <1>6, <1>7 DEF Judge

LEMMA LaunchOwned ==
    ASSUME OneAtATime, OwnInv, NEW t \in Threads, Base', Launch(t)
    PROVE  OwnInv'
<1> DEFINE r == thread[t].run
<1>1. /\ Base /\ thread[t].at = "launch" /\ thread' = [thread EXCEPT ![t] = Idle]
      /\ LaunchFails(t) \/ LaunchSucceeds(t)
  BY LaunchIs DEF OwnInv
<1>2. /\ r \in Runs /\ thread[t].row \in RunRows /\ thread[t].row.job \in Jobs
      /\ runs \in [Runs -> RunRows] /\ thread[t].loaded = runs[r]
      /\ FreeSlot \/ runs[r].status = "RUNNING"
      /\ NoWorker(procs, r) /\ procs \in Seq(Processes)
  BY <1>1, ThreadIs, BaseIs, SameProcesses DEF OwnInv, Fresh, Typed
<1>3. \A u \in Threads : Fresh(u)'
  BY <1>1, StopsFresh
<1> DEFINE n == thread[t].row.attempts + 1
<1>4. n \in Nat /\ launches + 1 \in Nat /\ launches = Len(procs) /\ launches \in Nat
  BY <1>2 DEF RunRows, launches
<1> HIDE DEF r
<1>5. CASE LaunchFails(t)
  <2> DEFINE row == [thread[t].row EXCEPT !.status = "FAILED", !.attempts = n]
             g == Committed(thread[t].run, thread[t].loaded, row)
  <2>1. runs' = [runs EXCEPT ![r] = g] /\ procs' = procs
    BY <1>5 DEF LaunchFails, Commit, r
  <2>2. row \in RunRows /\ row.status = "FAILED"
    <3> HIDE DEF n
    <3> QED
      BY <1>2, <1>4 DEF RunRows, RunStatuses
  <2> HIDE DEF row
  <2>3. g \in RunRows /\ g.status = "FAILED"
    BY <1>1, <1>2, <2>2, CommittedFresh DEF r
  <2> HIDE DEF g
  <2>4. \A q \in Runs :
          runs'[q] = runs[q] \/ (runs'[q].status # "RUNNING" /\ NoWorker(procs', q))
    BY <1>2, <2>1, <2>3
  <2>5. Owned' /\ SlotsRespected'
    BY <2>1, <2>4, OwnedKept
  <2> QED
    BY <1>3, <2>5 DEF OwnInv
<1>6. CASE LaunchSucceeds(t)
  <2> DEFINE pid == launches + 1
             row == [thread[t].row EXCEPT !.status = "RUNNING", !.attempts = n,
                                          !.pid = pid, !.claimed = pid]
             g == Committed(thread[t].run, thread[t].loaded, row)
             p == Spawned(r, thread[t].row.job)
  <2>1. runs' = [runs EXCEPT ![r] = g] /\ procs' = Append(procs, p)
    BY <1>6 DEF LaunchSucceeds, Commit, r
  <2>2. row \in RunRows /\ row.status = "RUNNING" /\ row.pid = pid
    <3> HIDE DEF n, pid
    <3> QED
      BY <1>2, <1>4 DEF RunRows, RunStatuses, pid
  <2> HIDE DEF row
  <2>3. g \in RunRows /\ g.status = "RUNNING" /\ g.pid = pid
    BY <1>1, <1>2, <2>2, CommittedFresh DEF r
  <2>4. p.run = r /\ p \in Processes
    BY <1>2, SpawnedProcess
  <2> HIDE DEF g, p
  <2>5. /\ launches' = pid /\ procs'[pid] = p
        /\ \A l \in 1..launches : procs'[l] = procs[l]
    BY <1>2, <1>4, <2>1, <2>4 DEF launches
  <2>6. /\ runs'[r] = g /\ \A q \in Runs \ {r} : runs'[q] = runs[q]
    BY <1>2, <2>1
  <2>7. Owned'
    <3> SUFFICES ASSUME NEW l \in 1..launches', procs'[l].alive
                 PROVE  /\ runs'[procs'[l].run].status = "RUNNING"
                        /\ runs'[procs'[l].run].pid = l
      BY DEF Owned
    <3>1. CASE l = pid
      BY <2>3, <2>4, <2>5, <2>6, <3>1
    <3>2. CASE l # pid
      <4>1. l \in 1..launches /\ procs'[l] = procs[l]
        BY <1>4, <2>5, <3>2
      <4>2. procs[l].run # r /\ procs[l].run \in Runs
        BY <1>1, <1>2, <1>4, <4>1, ProcessIs DEF NoWorker, Processes
      <4> QED
        BY <2>6, <4>1, <4>2 DEF OwnInv, Owned
    <3> QED
      BY <3>1, <3>2
  <2>8. SlotsRespected'
    <3>1. active_runs' = active_runs \cup {r}
      BY <1>2, <2>3, <2>6 DEF active_runs, InStatus
    <3>2. IsFiniteSet(active_runs) /\ Cardinality(active_runs) \in Nat
      BY CountedRuns DEF active_runs
    <3>3. Cardinality(active_runs \cup {r})
            = IF r \in active_runs THEN Cardinality(active_runs) ELSE Cardinality(active_runs) + 1
      BY <3>2, FS_AddElement
    <3>4. r \in active_runs \/ Cardinality(active_runs) < MAX_ACTIVE_PRODUCTION_JOBS
      BY <1>2 DEF FreeSlot, active_runs, InStatus
    <3>5. Cardinality(active_runs) <= MAX_ACTIVE_PRODUCTION_JOBS
      BY DEF OwnInv, SlotsRespected
    <3>6. Cardinality(active_runs \cup {r}) <= MAX_ACTIVE_PRODUCTION_JOBS
      BY <3>2, <3>3, <3>4, <3>5, ControlAssumption
    <3> QED
      BY <3>1, <3>6 DEF SlotsRespected
  <2> QED
    BY <1>3, <2>7, <2>8 DEF OwnInv
<1> QED
  BY <1>1, <1>5, <1>6

LEMMA RequestsOwned ==
    ASSUME OneAtATime, OwnInv, NEW t \in Threads, NEW j \in Jobs, Base', Request(t, j)
    PROVE  OwnInv'
<1>1. /\ Base /\ procs \in Seq(Processes) /\ launches = Len(procs)
      /\ runs \in [Runs -> RunRows] /\ KnownIn(runs, made, procs, thread) /\ made \in 0..MaxRuns
  BY SameProcesses, BaseIs DEF OwnInv, launches, Typed, Known
(* No row becomes RUNNING, and only rows without a worker change.            *)
<1>2. ASSUME thread[t].at = "idle", UNCHANGED <<procs, thread>>,
             \A r \in Runs : runs'[r] = runs[r] \/ (runs'[r].status # "RUNNING" /\ NoWorker(procs, r))
      PROVE  OwnInv'
  <2>1. Owned' /\ SlotsRespected'
    BY <1>2, OwnedKept DEF NoWorker
  <2> QED
    BY <1>2, <2>1, IdleFresh DEF OwnInv
<1>3. thread[t].at = "idle"
  BY DEF Request, StartNow, StartQueued, ResumeNow, ResumeQueued, Cancel, CancelTimesOut,
     Delete, Edit, ServesFirst, Serves
<1>4. CASE CancelTimesOut(t, j) \/ Edit(t, j)
  <2>1. UNCHANGED <<runs, procs, thread>>
    BY <1>4 DEF CancelTimesOut, Edit
  <2> QED
    BY <1>2, <1>3, <2>1
<1>5. CASE Delete(t, j)
  <2>1. /\ runs' = [r \in Runs |-> IF runs[r].job = j THEN NoRun ELSE runs[r]]
        /\ UNCHANGED <<procs, thread>> /\ NotRunning(j)
    BY <1>5 DEF Delete
  <2>2. \A r \in Runs : runs[r].job = j => runs[r].status # "RUNNING"
    BY <2>1 DEF NotRunning, RunsOf
  <2>3. NoRun.status # "RUNNING"
    BY EmptyRows
  <2>4. \A r \in Runs : runs[r].job = j => NoWorker(procs, r)
    BY <2>2, NobodyWorks
  <2> QED
    BY <1>2, <1>3, <2>1, <2>3, <2>4
<1>6. CASE StartQueued(t, j)
  <2> DEFINE g == [NoRun EXCEPT !.job = j, !.status = "QUEUED",
                                !.position = Cardinality(InStatus("QUEUED")) + 1]
  <2>1. /\ runs' = [runs EXCEPT ![made + 1] = g] /\ UNCHANGED <<procs, thread>> /\ made < MaxRuns
    BY <1>6 DEF StartQueued
  <2>2. g.status = "QUEUED"
    BY DEF NoRun
  <2> HIDE DEF g
  <2>3. made + 1 \in Runs /\ runs[made + 1] = NoRun
    BY <1>1, <2>1, ControlAssumption DEF KnownIn, RowOf, Runs
  <2>4. NoWorker(procs, made + 1)
    BY <2>3, EmptyRows, NobodyWorks
  <2>5. \A r \in Runs : runs'[r] = IF r = made + 1 THEN g ELSE runs[r]
    BY <1>1, <2>1
  <2> QED
    BY <1>2, <1>3, <2>1, <2>2, <2>4, <2>5
<1>7. CASE ResumeQueued(t, j)
  <2> DEFINE r == latest_run(j)
             n == Cardinality(InStatus("QUEUED"))
             g == Resumed(r, n)
  <2>1. /\ runs' = [runs EXCEPT ![r] = g] /\ UNCHANGED <<procs, thread>> /\ MayResume(j)
    BY <1>7 DEF ResumeQueued
  <2>2. n \in Nat
    BY CountedRuns
  <2> HIDE DEF n
  <2>3. g.status = "QUEUED" /\ r \in Runs /\ runs[r].status # "RUNNING"
    BY <1>1, <2>1, <2>2, ResumedRow
  <2> HIDE DEF g, r
  <2>4. NoWorker(procs, r)
    BY <2>3, NobodyWorks
  <2>5. \A q \in Runs : runs'[q] = IF q = r THEN g ELSE runs[q]
    BY <1>1, <2>1
  <2> QED
    BY <1>2, <1>3, <2>1, <2>3, <2>4, <2>5
<1>8. CASE Cancel(t, j)
  <2> DEFINE r == latest_run(j)
             l == runs[r].pid
  <2>1. r \in Runs /\ runs[r] # NoRun /\ runs' = Cancelled(r) /\ Killed(j) /\ UNCHANGED thread
    BY <1>1, <1>8, CancelIs
  <2>2. /\ \A q \in Runs \ {r} : runs'[q] = runs[q]
        /\ runs'[r].status # "RUNNING"
    BY <1>1, <2>1, CancelledRow
  <2>3. CASE runs[r].status = "RUNNING" /\ Alive(l)
    <3>1. procs' = [procs EXCEPT ![l] = Dead(procs[l])] /\ l \in 1..launches
      BY <2>1, <2>3 DEF Killed, Alive
    <3>2. ~Dead(procs[l]).alive /\ Dead(procs[l]).run = procs[l].run
      BY <1>1, <3>1, ProcessIs, DeadProcess
    <3>3. /\ Len(procs') = Len(procs) /\ ~procs'[l].alive
          /\ \A k \in 1..launches :
               procs'[k].run = procs[k].run /\ (procs'[k].alive => procs[k].alive)
      BY <1>1, <3>1, <3>2
    <3>4. NoWorker(procs', r)
      BY <1>1, <3>3 DEF NoWorker, OwnInv, Owned
    <3>5. Owned' /\ SlotsRespected'
      BY <2>2, <3>3, <3>4, OwnedKept
    <3> QED
      BY <1>3, <2>1, <3>5, IdleFresh DEF OwnInv
  <2>4. CASE ~(runs[r].status = "RUNNING" /\ Alive(l))
    <3>1. procs' = procs
      BY <2>1, <2>4 DEF Killed
    <3>2. NoWorker(procs, r)
      BY <2>4, NobodyWorks
    <3> QED
      BY <1>2, <1>3, <2>1, <2>2, <3>1, <3>2
  <2> QED
    BY <2>3, <2>4
<1>9. CASE StartNow(t, j)
  <2> DEFINE row == [NoRun EXCEPT !.job = j]
             s == [at |-> "launch", run |-> made + 1, loaded |-> NoRun, row |-> row, locked |-> FALSE]
  <2>1. /\ thread' = [thread EXCEPT ![t] = s] /\ UNCHANGED <<runs, procs>> /\ FreeSlot
        /\ made < MaxRuns
    BY <1>9 DEF StartNow
  <2>2. made + 1 \in Runs /\ runs[made + 1] = NoRun
    BY <1>1, <2>1, ControlAssumption DEF KnownIn, RowOf, Runs
  <2>3. NoWorker(procs, made + 1)
    BY <2>2, EmptyRows, NobodyWorks
  <2>4. s.run = made + 1 /\ s.loaded = NoRun
    OBVIOUS
  <2> HIDE DEF s
  <2>5. \A u \in Threads : Fresh(u)'
    BY <1>1, <2>1, <2>2, <2>3, <2>4, TurnsFresh
  <2> QED
    BY <2>1, <2>5, SameOwned DEF OwnInv
<1>10. CASE ResumeNow(t, j)
  <2> DEFINE r == latest_run(j)
             s == [at |-> "launch", run |-> r, loaded |-> runs[r], row |-> Resumed(r, 0), locked |-> FALSE]
  <2>1. /\ thread' = [thread EXCEPT ![t] = s] /\ UNCHANGED <<runs, procs>> /\ FreeSlot /\ MayResume(j)
    BY <1>10 DEF ResumeNow
  <2>2. runs[r].status # "RUNNING"
    BY <1>1, <2>1, ResumedRow
  <2>3. NoWorker(procs, r)
    BY <2>2, NobodyWorks
  <2>4. s.run = r /\ s.loaded = runs[s.run]
    OBVIOUS
  <2> HIDE DEF s
  <2>5. \A u \in Threads : Fresh(u)'
    BY <1>1, <2>1, <2>3, <2>4, TurnsFresh
  <2> QED
    BY <2>1, <2>5, SameOwned DEF OwnInv
<1> QED
  BY <1>4, <1>5, <1>6, <1>7, <1>8, <1>9, <1>10 DEF Request

LEMMA OwnInit == Init => OwnInv
<1> SUFFICES ASSUME Init PROVE OwnInv
  OBVIOUS
<1>1. Owned
  BY DEF Init, Owned, launches
<1>2. SlotsRespected
  <2>1. active_runs = {}
    BY EmptyRows DEF Init, active_runs, InStatus
  <2> QED
    BY <2>1, FS_EmptySet, ControlAssumption DEF SlotsRespected
<1>3. \A t \in Threads : Fresh(t)
  BY EmptyRows DEF Init, Fresh
<1> QED
  BY <1>1, <1>2, <1>3, BaseInit DEF OwnInv

LEMMA OwnStep == OneAtATime /\ OwnInv /\ [Next]_vars => OwnInv'
<1> SUFFICES ASSUME OneAtATime, OwnInv, [Next]_vars PROVE OwnInv'
  OBVIOUS
<1>1. Base'
  BY BaseStep DEF OwnInv
<1>2. CASE \E l \in 1..launches : Emit(l) \/ Work(l) \/ Exit(l) \/ Die(l)
  BY <1>2, WorkersOwned
<1>3. ASSUME NEW t \in Threads,
             \/ \E r \in Runs : Ingest(t, r)
             \/ LeaveRunning(t) \/ Judge(t) \/ Pick(t) \/ Launch(t)
      PROVE  OwnInv'
  BY <1>1, <1>3, PollsOwned, LaunchOwned
<1>4. ASSUME NEW t \in Threads, NEW j \in Jobs, Request(t, j) PROVE OwnInv'
  BY <1>1, <1>4, RequestsOwned
<1>5. CASE UNCHANGED vars
  <2>1. UNCHANGED <<runs, procs, thread>>
    BY <1>5 DEF vars
  <2> QED
    BY <1>1, <2>1, SameOwned DEF OwnInv, Fresh, FreeSlot, active_runs, InStatus
<1> QED
  BY <1>2, <1>3, <1>4, <1>5 DEF Next, WorkerStep

(* Served one at a time, requests and polls never leave more runs RUNNING    *)
(* than there are slots: the slot counted by start(), resume() and           *)
(* _promote_next is still free when the worker is launched.                 *)
THEOREM SlotsHold == OneAtATime => (Spec => []SlotsRespected)
<1> SUFFICES ASSUME OneAtATime PROVE Spec => []SlotsRespected
  OBVIOUS
<1>1. OwnInv => SlotsRespected
  BY DEF OwnInv
<1>2. OwnInv /\ [Next]_vars => OwnInv'
  BY OwnStep
<1> QED
  BY <1>1, <1>2, OwnInit, PTL DEF Spec

(* Then no worker lives but the one its RUNNING run names, and there are no  *)
(* more of them than slots: a run is judged, cancelled, relaunched or        *)
(* deleted only without a live worker, however the workers die.             *)
THEOREM WorkersHold == OneAtATime => (Spec => []WorkersAreOwned)
<1> SUFFICES ASSUME OneAtATime PROVE Spec => []WorkersAreOwned
  OBVIOUS
<1>1. OwnInv => WorkersAreOwned
  <2> SUFFICES ASSUME OwnInv PROVE WorkersAreOwned
    OBVIOUS
  <2> DEFINE live == {l \in 1..launches : procs[l].alive}
             f == [l \in live |-> procs[l].run]
  <2>1. \A l \in live : runs[procs[l].run].status = "RUNNING" /\ runs[procs[l].run].pid = l
    BY DEF OwnInv, Owned
  <2>2. \A l \in live : procs[l].run \in active_runs
    BY <2>1, ProcessIs DEF OwnInv, Processes, active_runs, InStatus
  <2>3. f \in Injection(live, active_runs)
    <3>1. f \in [live -> active_runs]
      BY <2>2
    <3>2. \A k, l \in live : f[k] = f[l] => k = l
      BY <2>1
    <3> QED
      BY <3>1, <3>2, Zenon DEF Injection, IsInjective
  <2>4. IsFiniteSet(active_runs) /\ Cardinality(active_runs) \in Nat
    BY CountedRuns DEF active_runs
  <2> HIDE DEF f, live
  <2>5. Cardinality(live) <= Cardinality(active_runs) /\ IsFiniteSet(live)
    BY <2>3, <2>4, FS_Injection
  <2>6. Cardinality(live) \in Nat
    BY <2>5, FS_CardinalityType
  <2>7. Cardinality(live) <= MAX_ACTIVE_PRODUCTION_JOBS
    BY <2>4, <2>5, <2>6, ControlAssumption DEF OwnInv, SlotsRespected
  <2> QED
    BY <2>1, <2>7 DEF WorkersAreOwned, live
<1>2. OwnInv /\ [Next]_vars => OwnInv'
  BY OwnStep
<1> QED
  BY <1>1, <1>2, OwnInit, PTL DEF Spec
=============================================================================
