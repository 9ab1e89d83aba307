------------------------- MODULE MCProductionEngine -------------------------
(* Small orders for TLC: which category each candidate belongs to, and how  *)
(* the target is shared between the categories.                             *)
EXTENDS ProductionEngine

(* One category takes the whole target. *)
OneCategory == [c \in Candidates |-> "a"]
WholeTarget == [k \in {"a"} |-> Target]

(* The first two candidates compete for category a, the rest are of b. *)
TwoCategories == [c \in Candidates |-> IF c <= 2 THEN "a" ELSE "b"]
OneEach == [k \in {"a", "b"} |-> 1]

(* Category b has more candidates than its share, category z has none: what *)
(* z leaves open may spill over.                                            *)
ScarceCategories == [c \in Candidates |-> IF c = 1 THEN "a" ELSE "b"]
OneEachOfThree == [k \in {"a", "b", "z"} |-> 1]
=============================================================================
