---------------------------- MODULE MCAccountCleanup ----------------------------
(* Instances of AccountCleanup for TLC. *)
EXTENDS AccountCleanup

CONSTANTS east, west,                                  \* regions
          exporter, importer, toolkit,                 \* stacks
          vpc, admin, assets, subnet, bucket, agentRole, eni,  \* resources
          network, storage, role, stack                \* types

TwoRegions == {east, west}

(***************************************************************************)
(* All stacks are in east: `exporter', with a VPC, owns a subnet and a     *)
(* bucket; `importer' uses its exports.  A task left a role and, in west,  *)
(* an interface.  The VPC, the role `admin' and the toolkit's assets were  *)
(* there before setup.                                                     *)
(***************************************************************************)
AllStacks == {exporter, importer, toolkit}
InEast == [s \in AllStacks |-> east]
OnlyToolkit == {toolkit}
ImporterOfExporter == [s \in AllStacks |-> IF s = exporter THEN {importer} ELSE {}]
AllResources == {vpc, admin, assets, subnet, bucket, agentRole, eni}
StacksOwn == [s \in AllStacks |-> CASE s = exporter -> {subnet, bucket}
                                    [] s = toolkit -> {assets}
                                    [] OTHER -> {}]
Interfaces == {vpc, subnet, eni}
OnlyExporter == {exporter}
OnlyImporter == {importer}
Roles == {admin, agentRole}
Homes == [x \in AllResources |-> IF x = eni THEN west ELSE east]
AllTypes == {network, storage, role, stack}
ItemTypes ==
  [x \in AllResources \cup AllStacks |->
     CASE x \in {vpc, subnet, eni} -> network
       [] x \in {assets, bucket} -> storage
       [] x \in {admin, agentRole} -> role
       [] x \in AllStacks -> stack]
Defaults == {vpc, admin, assets}

OnlyAgentRole == {agentRole}

(***************************************************************************)
(* Both snapshots complete; both blind to networks, and saying so; no      *)
(* baseline from before setup, and one after it that missed the VPC        *)
(* without saying so.                                                      *)
(***************************************************************************)
Full == [found |-> TRUE, failed |-> {}, listed |-> Defaults]
Deployed == [found |-> TRUE, failed |-> {}, listed |-> Defaults \cup {subnet, bucket}]
Blind == [found |-> TRUE, failed |-> {network}, listed |-> {admin, assets}]
BlindDeployed == [found |-> TRUE, failed |-> {network}, listed |-> {admin, assets, bucket}]
Missing == [found |-> FALSE, failed |-> {}, listed |-> {}]
Partial == [found |-> TRUE, failed |-> {}, listed |-> {admin, assets, subnet, bucket}]
ThreeCaptures == {[init |-> Full, setup |-> Deployed], [init |-> Blind, setup |-> BlindDeployed],
                  [init |-> Missing, setup |-> Partial]}

=============================================================================
