-------------------------- MODULE MCWorkflowEngine --------------------------
(* Instances of WorkflowEngine for TLC; the constants are in the .cfg file. *)
EXTENDS WorkflowEngine
=============================================================================
