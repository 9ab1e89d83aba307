---------------------------- MODULE MCBrainAgent ----------------------------
(* Messages for TLC: a remote model that tries a profile of two capabilities  *)
(* in few turns, and an operator who looks around in a loop and answers the  *)
(* single question asked after it.                                           *)
EXTENDS BrainAgent

Say(calls, valid) == [calls |-> calls, valid |-> valid]

Inspect(f) == [tool |-> "inspect", field |-> f]
Validate(ok) == [tool |-> "validate_strategy", valid |-> ok]
Profile == [tool |-> "finish_site_profile", plan |-> [f \in Fields |-> "jsonld"]]
Finish(ok) == [tool |-> "finish", valid |-> ok]
Look == [tool |-> "look"]

Models ==
    {Say(<<Validate(TRUE), Inspect("taxonomy"), Inspect("image")>>, FALSE),
     Say(<<Inspect("image"), Profile, Finish(TRUE)>>, FALSE),
     Say(<<Validate(FALSE)>>, FALSE), Say(<<Finish(FALSE)>>, FALSE),
     Say(<<>>, TRUE), Say(<<>>, FALSE)}

Operators == {Say(<<Look>>, TRUE)}
=============================================================================
