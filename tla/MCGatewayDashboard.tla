------------------------- MODULE MCGatewayDashboard -------------------------
(***************************************************************************)
(* Instances of GatewayDashboard for TLC.  Requests share only the Redis   *)
(* key, and what another request does to the key, deleting it, is what its *)
(* expiry does at any time: one request and two viewers are enough for the *)
(* run with every kind of failure.                                         *)
(***************************************************************************)
EXTENDS GatewayDashboard

(* a detector that fails finds nothing, so these are harmless prompts, too *)
MCPrompts == {{"toxic"}, {"pii"}, {"injection"}, {"blocklisted"}}
MCAnswers == {{}, {"toxic", "blocklisted"}}
(* no row, at a hard cutoff, and over a budget without one *)
MCBudgets == {None, [hard_cutoff |-> TRUE, spent |-> 2, monthly |-> 2],
                    [hard_cutoff |-> FALSE, spent |-> 3, monthly |-> 2]}
=============================================================================
