-------------------------- MODULE MCProviderLedger --------------------------
(* Instances of ProviderLedger for TLC; the constants are in the .cfg files. *)
EXTENDS ProviderLedger
=============================================================================
