------------------------- MODULE WorkflowEngineProofs -------------------------
(* Proofs that the task engine is well typed, sequential and complete, and  *)
(* that it implements StepByStep, for any number of tasks and any log.      *)
EXTENDS WorkflowEngine, SequenceTheorems, FiniteSetTheorems, TLAPS

(* What the transition table says about the statuses the proofs turn on. *)
LEMMA Table ==
    ASSUME NEW s \in JobStatus
    PROVE  /\ ALLOWED_TRANSITIONS[s] \subseteq JobStatus
           /\ "pending" \notin ALLOWED_TRANSITIONS[s]
           /\ "succeeded" \in ALLOWED_TRANSITIONS[s] => s = "running"
           /\ s = "succeeded" => ALLOWED_TRANSITIONS[s] = {}
           /\ s = "pending" => ALLOWED_TRANSITIONS[s] \subseteq {"ready", "cancelled"}
           /\ s = "cancelled" => ALLOWED_TRANSITIONS[s] = {}
BY DEF ALLOWED_TRANSITIONS, JobStatus, Waits, Final

LEMMA Statuses ==
    {"pending", "ready", "running", "succeeded", "cancelled"} \subseteq JobStatus
BY DEF JobStatus, Waits

LEMMA FirstTask == 1 \in Tasks
BY TasksAssumption DEF Tasks

LEMMA UnlockLog ==
    ASSUME NEW s \in [Tasks -> JobStatus]
    PROVE  UnlockEvents(s) \in Seq(Events)
<1>1. CASE Unlocked(s) = {}
  BY <1>1 DEF UnlockEvents
<1>2. CASE Unlocked(s) # {}
  <2> DEFINE k == CHOOSE k \in Unlocked(s) : TRUE
  <2>1. k \in Tasks
    BY <1>2 DEF Unlocked
  <2>2. Event(k, "pending", "ready") \in Events
    BY <2>1, Statuses DEF Event, Events
  <2>3. UnlockEvents(s) = <<Event(k, "pending", "ready")>>
    BY <1>2 DEF UnlockEvents
  <2> QED
    BY <2>2, <2>3
<1> QED
  BY <1>1, <1>2

LEMMA LogGrows ==
    ASSUME TypeOK, NEW i \in Tasks, NEW to \in JobStatus
    PROVE  Logged(i, to) \in Seq(Events)
<1>1. Event(i, status[i], to) \in Events
  BY DEF TypeOK, Event, Events
<1> QED
  BY <1>1 DEF Logged, TypeOK

-----------------------------------------------------------------------------
LEMMA TypeInit == Init => TypeOK
<1> SUFFICES ASSUME Init PROVE TypeOK
  OBVIOUS
<1>1. Event(1, "pending", "ready") \in Events
  BY Statuses, FirstTask DEF Event, Events
<1>2. events \in Seq(Events)
  BY <1>1 DEF Init
<1>3. status \in [Tasks -> JobStatus]
  BY Statuses DEF Init
<1>4. attempt \in [Tasks -> Nat]
  BY DEF Init
<1> QED
  BY <1>2, <1>3, <1>4 DEF TypeOK

LEMMA TypeStep == TypeOK /\ [Next]_vars => TypeOK'
<1> SUFFICES ASSUME TypeOK, [Next]_vars PROVE TypeOK'
  OBVIOUS
<1>1. ASSUME NEW i \in Tasks, NEW g \in Gates, Start(i, g) PROVE TypeOK'
  <2>1. events' \in Seq(Events)
    BY <1>1, LogGrows, Statuses DEF Start
  <2>2. status' \in [Tasks -> JobStatus]
    BY <1>1, Statuses DEF Start, TypeOK
  <2>3. attempt' \in [Tasks -> Nat]
    BY <1>1 DEF Start, TypeOK
  <2> QED
    BY <2>1, <2>2, <2>3 DEF TypeOK
<1>2. ASSUME NEW i \in Tasks, Succeed(i) PROVE TypeOK'
  <2> DEFINE moved == [status EXCEPT ![i] = "succeeded"]
  <2>1. moved \in [Tasks -> JobStatus]
    BY Statuses DEF TypeOK
  <2>2. events' = Logged(i, "succeeded") \o UnlockEvents(moved)
    BY <1>2 DEF Succeed
  <2>3. Logged(i, "succeeded") \in Seq(Events)
    BY LogGrows, Statuses
  <2>4. UnlockEvents(moved) \in Seq(Events)
    BY <2>1, UnlockLog
  <2>5. events' \in Seq(Events)
    <3> HIDE DEF moved
    <3> QED BY <2>2, <2>3, <2>4
  <2>6. status' = [k \in Tasks |-> IF k \in Unlocked(moved) THEN "ready" ELSE moved[k]]
    BY <1>2 DEF Succeed
  <2>7. status' \in [Tasks -> JobStatus]
    <3> HIDE DEF moved
    <3> QED BY <2>1, <2>6, Statuses
  <2>8. attempt' = attempt
    BY <1>2 DEF Succeed
  <2> QED
    BY <2>5, <2>7, <2>8 DEF TypeOK
<1>3. ASSUME NEW i \in Tasks, NEW to \in JobStatus, Move(i, to) PROVE TypeOK'
  <2>1. events' \in Seq(Events)
    BY <1>3, LogGrows DEF Move
  <2>2. status' \in [Tasks -> JobStatus]
    BY <1>3 DEF Move, TypeOK
  <2>3. attempt' = attempt
    BY <1>3 DEF Move
  <2> QED
    BY <2>1, <2>2, <2>3 DEF TypeOK
<1>4. CASE UNCHANGED vars
  BY <1>4 DEF vars, TypeOK
<1> QED
  BY <1>1, <1>2, <1>3, <1>4 DEF Next

(* Every reachable workflow state is one WorkflowState can hold, with a log *)
(* of well-formed events.                                                  *)
THEOREM WorkflowTyped == Spec => []TypeOK
BY TypeInit, TypeStep, PTL DEF Spec

-----------------------------------------------------------------------------
(* A task that moves has its predecessors finished, or was only cancelled. *)
LEMMA MovedInOrder ==
    ASSUME TypeOK, Sequential, NEW i \in Tasks,
           NEW to \in ALLOWED_TRANSITIONS[status[i]],
           to \in {"ready", "running"} => PriorSucceeded(i),
           to # "cancelled"
    PROVE  PriorSucceeded(i)
<1>1. status[i] \in JobStatus
  BY DEF TypeOK
<1>2. CASE status[i] = "pending"
  BY <1>1, <1>2, Table
<1>3. CASE status[i] = "cancelled"
  BY <1>1, <1>3, Table
<1>4. CASE status[i] \notin {"pending", "cancelled"}
  BY <1>4 DEF Sequential
<1> QED
  BY <1>2, <1>3, <1>4

LEMMA SequentialInit == Init => Sequential
BY FirstTask DEF Init, Sequential, PriorSucceeded, Tasks

(* Moving one unfinished task keeps the finished ones finished. *)
LEMMA SequentialMove ==
    ASSUME TypeOK, Sequential, NEW i \in Tasks,
           NEW to \in ALLOWED_TRANSITIONS[status[i]],
           to \in {"ready", "running"} => PriorSucceeded(i),
           status' = [status EXCEPT ![i] = to]
    PROVE  Sequential'
<1>1. status[i] # "succeeded"
  BY Table DEF TypeOK
<1>2. ASSUME NEW k \in Tasks, status'[k] \notin {"pending", "cancelled"},
             NEW j \in 1..(k - 1)
      PROVE  status'[j] = "succeeded"
  <2>1. j \in Tasks
    BY <1>2, TasksAssumption DEF Tasks
  <2>2. CASE k = i
    <3>1. to # "cancelled"
      BY <1>2, <2>2 DEF TypeOK
    <3>2. PriorSucceeded(i)
      BY <3>1, MovedInOrder
    <3>3. status[j] = "succeeded" /\ j # i
      BY <2>2, <3>2, <1>2 DEF PriorSucceeded, Tasks
    <3> QED
      BY <3>3, <2>1 DEF TypeOK
  <2>3. CASE k # i
    <3>1. status[k] \notin {"pending", "cancelled"}
      BY <1>2, <2>3 DEF TypeOK
    <3>2. status[j] = "succeeded"
      BY <3>1, <1>2 DEF Sequential, PriorSucceeded
    <3> QED
      BY <3>2, <1>1, <2>1 DEF TypeOK
  <2> QED
    BY <2>2, <2>3
<1> QED
  BY <1>2 DEF Sequential, PriorSucceeded

LEMMA SequentialStep == TypeOK /\ Sequential /\ [Next]_vars => Sequential'
<1> SUFFICES ASSUME TypeOK, Sequential, [Next]_vars PROVE Sequential'
  OBVIOUS
<1>1. ASSUME NEW i \in Tasks, NEW g \in Gates, Start(i, g) PROVE Sequential'
  BY <1>1, SequentialMove DEF Start, Prerequisites
<1>2. ASSUME NEW i \in Tasks, Succeed(i) PROVE Sequential'
  <2> DEFINE moved == [status EXCEPT ![i] = "succeeded"]
  <2>1. status[i] = "running"
    BY <1>2, Table DEF Succeed, TypeOK
  <2>2. PriorSucceeded(i)
    BY <2>1 DEF Sequential
  <2>3. \A k \in Tasks : status'[k] = IF k \in Unlocked(moved) THEN "ready" ELSE moved[k]
    BY <1>2 DEF Succeed
  <2>4. ASSUME NEW k \in Tasks, status'[k] \notin {"pending", "cancelled"},
               NEW j \in 1..(k - 1)
        PROVE  status'[j] = "succeeded"
    <3>1. j \in Tasks
      BY <2>4, TasksAssumption DEF Tasks
    <3>2. moved[j] = "succeeded"
      <4>1. CASE k \in Unlocked(moved)
        BY <4>1, <2>4 DEF Unlocked
      <4>2. CASE k \notin Unlocked(moved) /\ k = i
        BY <4>2, <2>2, <3>1, <2>4 DEF PriorSucceeded, TypeOK
      <4>3. CASE k \notin Unlocked(moved) /\ k # i
        <5>1. status[k] \notin {"pending", "cancelled"}
          BY <4>3, <2>3, <2>4 DEF TypeOK
        <5> QED
          BY <5>1, <2>4, <3>1 DEF Sequential, PriorSucceeded, TypeOK
      <4> QED
        BY <4>1, <4>2, <4>3
    <3>3. j \notin Unlocked(moved)
      BY <3>2 DEF Unlocked
    <3> QED
      BY <3>1, <3>2, <3>3, <2>3
  <2> QED
    BY <2>4 DEF Sequential, PriorSucceeded
<1>3. ASSUME NEW i \in Tasks, NEW to \in JobStatus, Move(i, to) PROVE Sequential'
  BY <1>3, SequentialMove DEF Move, Prerequisites
<1>4. CASE UNCHANGED vars
  BY <1>4 DEF vars, Sequential, PriorSucceeded
<1> QED
  BY <1>1, <1>2, <1>3, <1>4 DEF Next

(* Whatever the transitions asked for, a task is never started, waited for  *)
(* or finished before all tasks in front of it are finished.               *)
THEOREM WorkflowSequential == Spec => []Sequential
BY WorkflowTyped, SequentialInit, SequentialStep, PTL DEF Spec

-----------------------------------------------------------------------------
LEMMA ForgottenInit == Init => NothingForgotten
<1> SUFFICES ASSUME Init, NEW k \in Tasks, PriorSucceeded(k), status[k] = "pending"
             PROVE  FALSE
  BY DEF NothingForgotten
<1>1. k # 1 /\ status[1] = "ready"
  BY FirstTask DEF Init
<1>2. 1 \in 1..(k - 1)
  BY <1>1 DEF Tasks
<1> QED
  BY <1>1, <1>2 DEF PriorSucceeded

LEMMA ForgottenMove ==
    ASSUME TypeOK, NothingForgotten, NEW i \in Tasks,
           NEW to \in ALLOWED_TRANSITIONS[status[i]] \ {"succeeded"},
           status' = [status EXCEPT ![i] = to]
    PROVE  NothingForgotten'
<1>1. to # "pending"
  BY Table DEF TypeOK
<1>2. ASSUME NEW k \in Tasks, PriorSucceeded(k)' PROVE status'[k] # "pending"
  <2>1. ASSUME NEW j \in 1..(k - 1) PROVE status[j] = "succeeded"
    <3>1. j \in Tasks
      BY <2>1, TasksAssumption DEF Tasks
    <3>2. status'[j] = "succeeded"
      BY <1>2, <2>1 DEF PriorSucceeded
    <3> QED
      BY <3>1, <3>2 DEF TypeOK
  <2>2. status[k] # "pending"
    BY <2>1 DEF NothingForgotten, PriorSucceeded
  <2> QED
    BY <2>2, <1>1 DEF TypeOK
<1> QED
  BY <1>2 DEF NothingForgotten

LEMMA ForgottenStep == TypeOK /\ NothingForgotten /\ [Next]_vars => NothingForgotten'
<1> SUFFICES ASSUME TypeOK, NothingForgotten, [Next]_vars PROVE NothingForgotten'
  OBVIOUS
<1>1. ASSUME NEW i \in Tasks, NEW g \in Gates, Start(i, g) PROVE NothingForgotten'
  BY <1>1, ForgottenMove DEF Start
<1>2. ASSUME NEW i \in Tasks, Succeed(i) PROVE NothingForgotten'
  <2> DEFINE moved == [status EXCEPT ![i] = "succeeded"]
  <2>1. \A k \in Tasks : status'[k] = IF k \in Unlocked(moved) THEN "ready" ELSE moved[k]
    BY <1>2 DEF Succeed
  <2>2. ASSUME NEW k \in Tasks, PriorSucceeded(k)', status'[k] = "pending" PROVE FALSE
    <3>1. moved[k] = "pending" /\ k \notin Unlocked(moved)
      BY <2>1, <2>2
    <3>2. ASSUME NEW j \in 1..(k - 1) PROVE moved[j] = "succeeded"
      <4>1. j \in Tasks
        BY <3>2, TasksAssumption DEF Tasks
      <4>2. status'[j] = "succeeded"
        BY <2>2, <3>2 DEF PriorSucceeded
      <4> QED
        BY <4>1, <4>2, <2>1
    <3> QED
      BY <3>1, <3>2 DEF Unlocked
  <2> QED
    BY <2>2 DEF NothingForgotten
<1>3. ASSUME NEW i \in Tasks, NEW to \in JobStatus, Move(i, to) PROVE NothingForgotten'
  BY <1>3, ForgottenMove DEF Move
<1>4. CASE UNCHANGED vars
  BY <1>4 DEF vars, NothingForgotten, PriorSucceeded
<1> QED
  BY <1>1, <1>2, <1>3, <1>4 DEF Next

(* A finished task always unlocks its successor: no task whose turn it is   *)
(* stays pending.                                                          *)
THEOREM WorkflowForgetsNothing == Spec => []NothingForgotten
BY WorkflowTyped, ForgottenInit, ForgottenStep, PTL DEF Spec

-----------------------------------------------------------------------------
(***************************************************************************)
(* The refinement: the finished tasks are a prefix, and a success extends  *)
(* it by the next task.                                                    *)
(***************************************************************************)
Done == {i \in Tasks : status[i] = "succeeded"}

LEMMA DoneInit == Init => Steps!Init
BY DEF Init, Steps!Init

(* Moving a task to a status other than succeeded finishes none and undoes  *)
(* none.                                                                   *)
LEMMA DoneMove ==
    ASSUME TypeOK, NEW i \in Tasks,
           NEW to \in ALLOWED_TRANSITIONS[status[i]] \ {"succeeded"},
           status' = [status EXCEPT ![i] = to]
    PROVE  Done' = Done
<1>1. status[i] # "succeeded"
  BY Table DEF TypeOK
<1> QED
  BY <1>1 DEF Done, TypeOK

LEMMA DoneSucceed ==
    ASSUME TypeOK, Sequential, NEW i \in Tasks, Succeed(i)
    PROVE  Done = 1..(i - 1) /\ Done' = 1..i
<1> DEFINE moved == [status EXCEPT ![i] = "succeeded"]
<1>1. status[i] = "running"
  BY Table DEF Succeed, TypeOK
<1>2. PriorSucceeded(i)
  BY <1>1 DEF Sequential
<1>3. \A k \in Tasks : status'[k] = IF k \in Unlocked(moved) THEN "ready" ELSE moved[k]
  BY DEF Succeed
<1>4. \A k \in Tasks : status'[k] = "succeeded" <=> moved[k] = "succeeded"
  BY <1>3 DEF Unlocked
<1>5. \A k \in Tasks : k > i => status[k] # "succeeded"
  <2> SUFFICES ASSUME NEW k \in Tasks, k > i, status[k] = "succeeded" PROVE FALSE
    OBVIOUS
  <2>1. PriorSucceeded(k)
    BY DEF Sequential
  <2>2. i \in 1..(k - 1)
    BY DEF Tasks
  <2> QED
    BY <2>1, <2>2, <1>1 DEF PriorSucceeded
<1>6. Done = 1..(i - 1)
  BY <1>1, <1>2, <1>5, TasksAssumption DEF Done, PriorSucceeded, Tasks
<1>7. Done' = {k \in Tasks : moved[k] = "succeeded"}
  BY <1>4 DEF Done
<1>8. {k \in Tasks : moved[k] = "succeeded"} = Done \cup {i}
  BY DEF Done, TypeOK
<1>9. 1..(i - 1) \cup {i} = 1..i
  BY DEF Tasks
<1> QED
  BY <1>6, <1>7, <1>8, <1>9

LEMMA DoneStep == TypeOK /\ Sequential /\ [Next]_vars => [Steps!Next]_(Done)
<1> SUFFICES ASSUME TypeOK, Sequential, [Next]_vars PROVE [Steps!Next]_(Done)
  OBVIOUS
<1>1. ASSUME NEW i \in Tasks, NEW g \in Gates, Start(i, g) PROVE Done' = Done
  BY <1>1, DoneMove DEF Start
<1>2. ASSUME NEW i \in Tasks, Succeed(i) PROVE Steps!Next
  <2>1. Done = 1..(i - 1) /\ Done' = 1..i
    BY <1>2, DoneSucceed
  <2>2. Steps!Finish(i)
    BY <2>1 DEF Steps!Finish, Done
  <2> QED
    BY <2>2 DEF Steps!Next, Tasks
<1>3. ASSUME NEW i \in Tasks, NEW to \in JobStatus, Move(i, to) PROVE Done' = Done
  BY <1>3, DoneMove DEF Move
<1>4. CASE UNCHANGED vars
  BY <1>4 DEF vars, Done
<1> QED
  BY <1>1, <1>2, <1>3, <1>4 DEF Next

(* The engine finishes its tasks one at a time, in order, and never takes   *)
(* a finished one back.                                                    *)
THEOREM WorkflowIsStepByStep == Spec => ImplementsStepByStep
<1>1. Init => Steps!Init
  BY DoneInit
<1>2. TypeOK /\ Sequential /\ [Next]_vars => [Steps!Next]_(Done)
  BY DoneStep
<1> QED
  BY <1>1, <1>2, WorkflowTyped, WorkflowSequential, PTL DEF Spec, ImplementsStepByStep, Steps!Spec, Done

-----------------------------------------------------------------------------
(***************************************************************************)
(* The log.  Every step is one logged transition, or two: a success and    *)
(* the unlocking it causes.  The lemmas look at one transition of any      *)
(* statuses st, attempts at and log.                                       *)
(***************************************************************************)
Attempts(at, i, to) == IF to = "running" THEN [at EXCEPT ![i] = @ + 1] ELSE at

LEMMA AppendOwn ==
    ASSUME NEW log \in Seq(Events), NEW i \in Tasks, NEW e \in Events, e.task = i
    PROVE  /\ Append(log, e) \in Seq(Events) /\ Len(log) \in Nat
           /\ Append(log, e)[Len(log) + 1] = e
           /\ \A n \in 1..Len(log) : Append(log, e)[n] = log[n]
           /\ \A k \in Tasks : k # i => Own(k, Append(log, e)) = Own(k, log)
           /\ Own(i, Append(log, e)) = Own(i, log) \cup {Len(log) + 1}
           /\ \A k \in Tasks : Own(k, log) \subseteq 1..Len(log)
<1>1. /\ Append(log, e) \in Seq(Events) /\ Len(log) \in Nat
      /\ Len(Append(log, e)) = Len(log) + 1
      /\ Append(log, e)[Len(log) + 1] = e
      /\ \A n \in 1..Len(log) : Append(log, e)[n] = log[n]
    OBVIOUS
<1>. DEFINE new == Append(log, e)
<1>. HIDE DEF new
<1>. QED  BY <1>1 DEF Own, new

LEMMA AppendChain ==
    ASSUME NEW st \in [Tasks -> JobStatus], NEW at \in [Tasks -> Nat],
           NEW log \in Seq(Events), Explained(st, at, log),
           NEW i \in Tasks, NEW to \in JobStatus
    PROVE  Explained([st EXCEPT ![i] = to], Attempts(at, i, to),
                     Append(log, Event(i, st[i], to)))
<1>. DEFINE e == Event(i, st[i], to)
            new == Append(log, e)
            last == Len(log) + 1
<1>1. e \in Events /\ e.task = i /\ e.from = st[i] /\ e.to = to
    BY DEF Event, Events
<1>. HIDE DEF e
<1>2. /\ Len(log) \in Nat /\ new[last] = e
      /\ \A n \in 1..Len(log) : new[n] = log[n]
      /\ \A k \in Tasks : k # i => Own(k, new) = Own(k, log)
      /\ Own(i, new) = Own(i, log) \cup {last}
      /\ \A k \in Tasks : Own(k, log) \subseteq 1..Len(log)
    BY <1>1, AppendOwn
<1>. HIDE DEF new
<1>3. ASSUME NEW S \in SUBSET (1..Len(log)), NEW s
      PROVE  LeadsTo(S, new, s) <=> LeadsTo(S, log, s)
    BY <1>2 DEF LeadsTo
<1>4. ASSUME NEW k \in Tasks, NEW n \in Own(k, log)
      PROVE  LeadsTo({m \in Own(k, new) : m < n}, new, new[n].from)
  <2>1. n \in 1..Len(log) /\ new[n] = log[n]
    BY <1>2
  <2>2. {m \in Own(k, new) : m < n} = {m \in Own(k, log) : m < n}
    BY <1>2, <2>1
  <2>3. LeadsTo({m \in Own(k, log) : m < n}, log, log[n].from)
    BY DEF Explained
  <2>. QED  BY <1>2, <1>3, <2>1, <2>2, <2>3
<1>5. LeadsTo({m \in Own(i, new) : m < last}, new, new[last].from)
  <2>1. {m \in Own(i, new) : m < last} = Own(i, log)
    BY <1>2
  <2>2. LeadsTo(Own(i, log), log, st[i])
    BY DEF Explained
  <2>. QED  BY <1>1, <1>2, <1>3, <2>1, <2>2
<1>6. LeadsTo(Own(i, new), new, to)
  <2>1. last \in Own(i, new) /\ new[last].to = to /\ \A m \in Own(i, new) : m <= last
    BY <1>1, <1>2
  <2>. QED  BY <2>1 DEF LeadsTo
<1>7. ASSUME NEW k \in Tasks, k # i PROVE LeadsTo(Own(k, new), new, st[k])
    BY <1>2, <1>3, <1>7 DEF Explained
<1>8. ASSUME NEW k \in Tasks, k # i PROVE Starts(k, new) = Starts(k, log)
    BY <1>2, <1>8 DEF Starts
<1>9. Starts(i, new) = IF to = "running" THEN Starts(i, log) \cup {last} ELSE Starts(i, log)
    BY <1>1, <1>2 DEF Starts
<1>10. Attempts(at, i, to)[i] = Cardinality(Starts(i, new))
  <2>. DEFINE T == Starts(i, log)
  <2>1. T \subseteq 1..Len(log) /\ last \notin T
    BY <1>2 DEF Starts
  <2>2. IsFiniteSet(T)
    <3>1. IsFiniteSet(1..Len(log))
      BY <1>2, FS_Interval
    <3>. HIDE DEF T
    <3>. QED  BY <2>1, <3>1, FS_Subset
  <2>3. Cardinality(T \cup {last}) = Cardinality(T) + 1
    <3>. HIDE DEF T, last
    <3>. QED  BY <2>1, <2>2, FS_AddElement
  <2>4. at[i] = Cardinality(T)
    BY DEF Explained
  <2>. QED  BY <1>9, <2>3, <2>4 DEF Attempts
<1>11. ASSUME NEW k \in Tasks, k # i
       PROVE  Attempts(at, i, to)[k] = Cardinality(Starts(k, new))
    BY <1>8, <1>11 DEF Explained, Attempts
<1>12. ASSUME NEW k \in Tasks
       PROVE  LeadsTo(Own(k, new), new, [st EXCEPT ![i] = to][k])
    BY <1>6, <1>7
<1>13. ASSUME NEW k \in Tasks, NEW n \in Own(k, new)
       PROVE  LeadsTo({m \in Own(k, new) : m < n}, new, new[n].from)
    BY <1>2, <1>4, <1>5
<1>. QED  BY <1>10, <1>11, <1>12, <1>13 DEF Explained, new, e

(* No submission of unknown outcome is open: it was reviewed, or its task  *)
(* is still where only a reviewer or a cancellation takes it from.         *)
Unreviewed == {"submission_unknown", "manual_reconciliation", "cancelled"}

ReviewOpen(st, log) ==
    \A i \in Tasks : \A m \in Own(i, log) :
        log[m].to = "submission_unknown" /\ st[i] \notin Unreviewed
          => \E k \in Own(i, log) : k > m /\ log[k].to = "needs_review"

LEMMA UnreviewedStep ==
    ASSUME NEW s \in JobStatus, NEW to \in ALLOWED_TRANSITIONS[s], s \in Unreviewed
    PROVE  to \in Unreviewed \cup {"needs_review"}
    BY DEF ALLOWED_TRANSITIONS, JobStatus, Waits, Final, Unreviewed

LEMMA AppendReview ==
    ASSUME NEW st \in [Tasks -> JobStatus], NEW log \in Seq(Events),
           ReviewOpen(st, log), Reviewed(log),
           NEW i \in Tasks, NEW to \in ALLOWED_TRANSITIONS[st[i]]
    PROVE  /\ ReviewOpen([st EXCEPT ![i] = to], Append(log, Event(i, st[i], to)))
           /\ Reviewed(Append(log, Event(i, st[i], to)))
<1>. DEFINE e == Event(i, st[i], to)
            new == Append(log, e)
            last == Len(log) + 1
<1>1. e \in Events /\ e.task = i /\ e.to = to /\ to \in JobStatus
    BY Table DEF Event, Events
<1>. HIDE DEF e
<1>2. /\ Len(log) \in Nat /\ new[last] = e
      /\ \A n \in 1..Len(log) : new[n] = log[n]
      /\ \A k \in Tasks : k # i => Own(k, new) = Own(k, log)
      /\ Own(i, new) = Own(i, log) \cup {last}
      /\ \A k \in Tasks : Own(k, log) \subseteq 1..Len(log)
    BY <1>1, AppendOwn
<1>. HIDE DEF new
<1>3. ASSUME NEW k \in Tasks, NEW m \in Own(k, log)
      PROVE  m \in 1..Len(log) /\ new[m] = log[m] /\ m < last
    BY <1>2
<1>4. ASSUME NEW k \in Tasks, NEW m \in Own(k, new),
             new[m].to = "submission_unknown", [st EXCEPT ![i] = to][k] \notin Unreviewed
      PROVE  \E r \in Own(k, new) : r > m /\ new[r].to = "needs_review"
  <2>1. CASE k # i
    BY <1>2, <1>3, <1>4, <2>1 DEF ReviewOpen
  <2>2. CASE k = i
    <3>1. to \notin Unreviewed /\ m \in Own(i, log)
      BY <1>1, <1>2, <1>4, <2>2 DEF Unreviewed
    <3>2. CASE st[i] \in Unreviewed
      <4>1. to = "needs_review"
        BY <3>1, <3>2, UnreviewedStep
      <4>. QED  BY <1>1, <1>2, <1>3, <2>2, <3>1, <4>1
    <3>3. CASE st[i] \notin Unreviewed
      <4>1. PICK r \in Own(i, log) : r > m /\ log[r].to = "needs_review"
        BY <1>3, <1>4, <2>2, <3>1, <3>3 DEF ReviewOpen
      <4>. QED  BY <1>2, <1>3, <2>2, <4>1
    <3>. QED  BY <3>2, <3>3
  <2>. QED  BY <2>1, <2>2
<1>5. ASSUME NEW k \in Tasks, NEW m \in Own(k, new), NEW n \in Own(k, new),
             m < n, new[m].to = "submission_unknown", new[n].to = "running"
      PROVE  \E r \in Own(k, new) : r \in m..n /\ new[r].to = "needs_review"
  <2>1. CASE m \in Own(k, log) /\ n \in Own(k, log)
    <3>1. PICK r \in Own(k, log) : r \in m..n /\ log[r].to = "needs_review"
      BY <1>3, <1>5, <2>1 DEF Reviewed
    <3>. QED  BY <1>2, <1>3, <3>1
  <2>2. CASE k = i /\ n = last /\ m \in Own(i, log)
    <3>1. to = "running"
      BY <1>1, <1>2, <1>5, <2>2
    <3>2. st[i] \notin Unreviewed
      BY <3>1, UnreviewedStep DEF Unreviewed
    <3>3. PICK r \in Own(i, log) : r > m /\ log[r].to = "needs_review"
      BY <1>3, <1>5, <2>2, <3>2 DEF ReviewOpen
    <3>4. r \in m..n /\ r \in Own(k, new) /\ new[r].to = "needs_review"
      BY <1>2, <1>3, <2>2, <3>3
    <3>. QED  BY <3>4
  <2>3. m # last
    BY <1>2, <1>3, <1>5
  <2>. QED  BY <1>2, <2>1, <2>2, <2>3
<1>6. ReviewOpen([st EXCEPT ![i] = to], new)
    BY <1>4 DEF ReviewOpen
<1>7. Reviewed(new)
    BY <1>5 DEF Reviewed
<1>. QED  BY <1>6, <1>7 DEF new, e

(* What the log knows of the state. *)
LogInv(st, at, log) == Explained(st, at, log) /\ ReviewOpen(st, log) /\ Reviewed(log)

LEMMA AppendLog ==
    ASSUME NEW st \in [Tasks -> JobStatus], NEW at \in [Tasks -> Nat],
           NEW log \in Seq(Events), LogInv(st, at, log),
           NEW i \in Tasks, NEW to \in ALLOWED_TRANSITIONS[st[i]]
    PROVE  LogInv([st EXCEPT ![i] = to], Attempts(at, i, to),
                  Append(log, Event(i, st[i], to)))
<1>1. to \in JobStatus
    BY Table
<1>. QED  BY <1>1, AppendChain, AppendReview DEF LogInv

(* A success unlocks at most the next task, and logs that too. *)
LEMMA LogSucceed ==
    ASSUME TypeOK, LogInv(status, attempt, events), NEW i \in Tasks, Succeed(i)
    PROVE  LogInv(status', attempt', events')
<1>. DEFINE moved == [status EXCEPT ![i] = "succeeded"]
            log == Logged(i, "succeeded")
<1>1. /\ status \in [Tasks -> JobStatus] /\ attempt \in [Tasks -> Nat]
      /\ events \in Seq(Events) /\ attempt' = attempt
      /\ "succeeded" \in ALLOWED_TRANSITIONS[status[i]]
      /\ status' = [k \in Tasks |-> IF k \in Unlocked(moved) THEN "ready" ELSE moved[k]]
      /\ events' = log \o UnlockEvents(moved)
    BY DEF TypeOK, Succeed
<1>2. LogInv(moved, attempt, log)
  <2>1. Attempts(attempt, i, "succeeded") = attempt
    BY DEF Attempts
  <2>. QED  BY <1>1, <2>1, AppendLog DEF Logged
<1>3. moved \in [Tasks -> JobStatus] /\ log \in Seq(Events)
    BY <1>1, LogGrows, Statuses
<1>. HIDE DEF moved, log
<1>4. CASE Unlocked(moved) = {}
  <2>1. status' = moved
    BY <1>1, <1>3, <1>4
  <2>2. events' = log
    BY <1>1, <1>3, <1>4 DEF UnlockEvents
  <2>. QED  BY <1>1, <1>2, <2>1, <2>2
<1>5. CASE Unlocked(moved) # {}
  <2>. DEFINE k == CHOOSE k \in Unlocked(moved) : TRUE
  <2>1. k \in Tasks /\ moved[k] = "pending" /\ k \in Unlocked(moved)
    BY <1>5 DEF Unlocked
  <2>2. UnlockEvents(moved) = <<Event(k, moved[k], "ready")>>
    BY <1>5, <2>1 DEF UnlockEvents
  <2>. HIDE DEF k
  <2>3. ASSUME NEW j \in Unlocked(moved) PROVE j = k
    <3>1. /\ j \in Nat /\ k \in Nat /\ j > 0 /\ k > 0
          /\ moved[j] = "pending" /\ moved[k] = "pending"
          /\ \A l \in 1..(j - 1) : moved[l] = "succeeded"
          /\ \A l \in 1..(k - 1) : moved[l] = "succeeded"
      BY <2>1, TasksAssumption DEF Unlocked, Tasks
    <3>2. ~(j < k) /\ ~(k < j)
      BY <3>1
    <3>. QED  BY <3>1, <3>2
  <2>4. status' = [moved EXCEPT ![k] = "ready"]
    BY <1>1, <1>3, <2>1, <2>3
  <2>5. Event(k, moved[k], "ready") \in Events
    BY <2>1, Statuses DEF Event, Events
  <2>6. events' = Append(log, Event(k, moved[k], "ready"))
    BY <1>1, <1>3, <2>2, <2>5
  <2>7. "ready" \in ALLOWED_TRANSITIONS[moved[k]]
    BY <2>1 DEF ALLOWED_TRANSITIONS, JobStatus, Waits, Final
  <2>8. Attempts(attempt, k, "ready") = attempt
    BY DEF Attempts
  <2>9. LogInv([moved EXCEPT ![k] = "ready"], Attempts(attempt, k, "ready"),
               Append(log, Event(k, moved[k], "ready")))
    BY <1>1, <1>2, <1>3, <2>1, <2>7, AppendLog
  <2>. QED  BY <1>1, <2>4, <2>6, <2>8, <2>9
<1>. QED  BY <1>4, <1>5

LEMMA LogStep ==
    ASSUME TypeOK, LogInv(status, attempt, events), [Next]_vars
    PROVE  LogInv(status', attempt', events')
<1>1. status \in [Tasks -> JobStatus] /\ attempt \in [Tasks -> Nat] /\ events \in Seq(Events)
    BY DEF TypeOK
<1>2. ASSUME NEW i \in Tasks, NEW g \in Gates, Start(i, g)
      PROVE  LogInv(status', attempt', events')
  <2>1. attempt' = Attempts(attempt, i, "running")
    BY <1>2 DEF Start, Attempts
  <2>2. LogInv([status EXCEPT ![i] = "running"], Attempts(attempt, i, "running"),
               Append(events, Event(i, status[i], "running")))
    BY <1>1, <1>2, AppendLog DEF Start
  <2>. QED  BY <1>2, <2>1, <2>2 DEF Start, Logged
<1>3. ASSUME NEW i \in Tasks, NEW to \in JobStatus, Move(i, to)
      PROVE  LogInv(status', attempt', events')
  <2>1. attempt' = Attempts(attempt, i, to)
    BY <1>3 DEF Move, Attempts
  <2>. QED  BY <1>1, <1>3, <2>1, AppendLog DEF Move, Logged
<1>4. CASE UNCHANGED vars
    BY <1>4 DEF vars
<1>. QED  BY <1>2, <1>3, <1>4, LogSucceed DEF Next

LEMMA LogInit == Init => LogInv(status, attempt, events)
<1>. SUFFICES ASSUME Init PROVE LogInv(status, attempt, events)
    OBVIOUS
<1>1. /\ Len(events) = 1 /\ events[1] = Event(1, "pending", "ready")
      /\ events[1].task = 1 /\ events[1].from = "pending" /\ events[1].to = "ready"
    BY DEF Init, Event
<1>2. \A i \in Tasks : Own(i, events) = IF i = 1 THEN {1} ELSE {}
    BY <1>1 DEF Own
<1>3. \A i \in Tasks : Starts(i, events) = {}
    BY <1>1, <1>2 DEF Starts
<1>4. Explained(status, attempt, events)
  <2>1. ASSUME NEW i \in Tasks PROVE LeadsTo(Own(i, events), events, status[i])
    BY <1>1, <1>2 DEF LeadsTo, Init
  <2>2. ASSUME NEW i \in Tasks, NEW n \in Own(i, events)
        PROVE  LeadsTo({m \in Own(i, events) : m < n}, events, events[n].from)
    <3>1. n = 1 /\ {m \in Own(i, events) : m < n} = {}
      BY <1>2
    <3>. QED  BY <1>1, <3>1 DEF LeadsTo
  <2>. QED  BY <1>3, <2>1, <2>2, FS_EmptySet DEF Explained, Init
<1>5. ReviewOpen(status, events) /\ Reviewed(events)
    BY <1>1, <1>2 DEF ReviewOpen, Reviewed
<1>. QED  BY <1>4, <1>5 DEF LogInv

(* The inductive invariant of the log, which transition() extends by one     *)
(* event of the task and _unlock_ready_tasks by one of the next task.        *)
THEOREM WorkflowLogged == Spec => []LogInv(status, attempt, events)
<1>1. TypeOK /\ LogInv(status, attempt, events) /\ [Next]_vars
        => LogInv(status, attempt, events)'
    BY LogStep
<1>. QED  BY <1>1, LogInit, WorkflowTyped, PTL DEF Spec

(* The log replays to the state: the events of every task chain from        *)
(* pending to its present status, and its attempts are its starts.          *)
THEOREM WorkflowLogExplains == Spec => []LogExplainsState
<1>1. LogInv(status, attempt, events) => LogExplainsState
    BY DEF LogInv, LogExplainsState
<1>. QED  BY <1>1, WorkflowLogged, PTL

(* A task whose submission had an unknown outcome runs again only after a   *)
(* review of it, however long the log.                                      *)
THEOREM WorkflowUnknownReviewed == Spec => []UnknownIsReviewed
<1>1. LogInv(status, attempt, events) => UnknownIsReviewed
    BY DEF LogInv, UnknownIsReviewed
<1>. QED  BY <1>1, WorkflowLogged, PTL
=============================================================================
