------------------------------ MODULE StepByStep ------------------------------
(* What a workflow promises its users: tasks 1..NumTasks finish one at a    *)
(* time, in their order, and a finished task stays finished.                *)
EXTENDS Naturals

CONSTANT NumTasks

VARIABLE done  \* the finished tasks

Init == done = {}

Finish(i) == done = 1..(i - 1) /\ done' = 1..i

Next == \E i \in 1..NumTasks : Finish(i)

Spec == Init /\ [][Next]_done
=============================================================================
