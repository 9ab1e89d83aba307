--------------------------- MODULE MCJobDrafting ---------------------------
(* A site of two categories, one the parent of the other, for TLC, and the   *)
(* receipts its scans are given.                                             *)
EXTENDS JobDrafting

ParentOf == [c \in Categories |-> IF c = "/sofas/leather" THEN "/sofas" ELSE NoParent]

EmptyOrOne == {{}, {"/sofas"}}

Receipt(status, categories) == [status |-> status, categories |-> categories]

PagesOrBrowser ==
    {Receipt("READY", {"/sofas"}), Receipt("PARTIAL", {"/sofas"})}

PartialOrChallenge == {Receipt("PARTIAL", Categories), Receipt("HUMAN_REQUIRED", {})}
=============================================================================
