------------------------------ MODULE PaidOrder ------------------------------
(***************************************************************************)
(* What a production order promises about the models it pays for, free of  *)
(* stages, ledgers and ticks: a model is reserved before it is paid, at    *)
(* most MaxSlots reservations are open, reservations and finished models   *)
(* together never pass the target when a new one is made, a finished model *)
(* stays finished, and an ended candidate is never paid again - it can     *)
(* only be reopened with what was already paid.                            *)
(***************************************************************************)
EXTENDS Naturals, FiniteSets

CONSTANTS Candidates, Target, MaxSlots

VARIABLES
    done,   \* candidates with a finished model
    paid,   \* candidates with an open reservation
    ended   \* candidates that failed after or at submission

order == <<done, paid, ended>>

Init == done = {} /\ paid = {} /\ ended = {}

Reserve(c) ==
    /\ c \notin done \cup paid \cup ended
    /\ Cardinality(paid) < MaxSlots
    /\ Cardinality(done) + Cardinality(paid) < Target
    /\ paid' = paid \cup {c}
    /\ UNCHANGED <<done, ended>>

(* The provider, the budget or a gate refuses: nothing was paid. *)
Refuse(c) ==
    /\ c \notin done \cup paid \cup ended
    /\ ended' = ended \cup {c}
    /\ UNCHANGED <<done, paid>>

Finish(c) ==
    /\ c \in paid /\ Cardinality(done) < Target
    /\ done' = done \cup {c} /\ paid' = paid \ {c}
    /\ UNCHANGED ended

Fail(c) ==
    /\ c \in paid
    /\ ended' = ended \cup {c} /\ paid' = paid \ {c}
    /\ UNCHANGED done

(* A restart takes up the files of ended candidates again. *)
Reopen(S) ==
    /\ S \subseteq ended
    /\ paid' = paid \cup S /\ ended' = ended \ S
    /\ UNCHANGED done

Next ==
    \/ \E c \in Candidates : Reserve(c) \/ Refuse(c) \/ Finish(c) \/ Fail(c)
    \/ \E S \in SUBSET Candidates : Reopen(S)

Spec == Init /\ [][Next]_order
=============================================================================
