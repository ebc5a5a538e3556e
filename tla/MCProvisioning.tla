---------------------------- MODULE MCProvisioning ----------------------------
(***************************************************************************)
(* Two accounts of one scenario, so that both need the same region policy, *)
(* in an organization that is full after three accounts.                   *)
(***************************************************************************)
EXTENDS Provisioning

MCPairs == {"web/main", "web/peer"}
MCScenarioOf == [p \in MCPairs |-> "web"]

=============================================================================
