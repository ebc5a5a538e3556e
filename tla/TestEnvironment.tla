---------------------------- MODULE TestEnvironment ----------------------------
(***************************************************************************)
(* The organization behind a test environment, and what                    *)
(* account_management/manager.py and organizations.py do to it: the        *)
(* Organizational Unit with the policy that protects the framework's       *)
(* roles, the member accounts with the tag that names their (scenario,     *)
(* account_tag) pair, the region policy of each scenario, and the end of   *)
(* the environment, of which the operator may select a part.               *)
(***************************************************************************)
EXTENDS Naturals, FiniteSets

CONSTANTS Pairs,         \* (scenario, account_tag)
          ScenarioOf,
          AccountLimit,  \* the organization's quota of accounts
          NoPair,
          NoAccount

Scenarios == {ScenarioOf[p] : p \in Pairs}
Accounts == 1 .. AccountLimit

ASSUME EnvironmentAssumption ==
  /\ AccountLimit \in Nat
  /\ NoPair \notin Pairs
  /\ NoAccount \notin Accounts

VARIABLES ou,        \* the unit is "absent", "open" or "protected" by its policy
          place,     \* account -> where it is, if it has been created
          tag,       \* account -> the pair it is tagged with
          has,       \* account -> what provisioning has given it
          policies,  \* scenarios whose region policy exists
          leaving    \* accounts a running termination has still to handle
organization == <<ou, place, tag, has, policies, leaving>>

Traits == {"fence", "roles", "quota", "baseline"}

OrganizationTypeOK ==
  /\ ou \in {"absent", "open", "protected"}
  /\ place \in [Accounts -> {"unborn", "root", "ou"}]
  /\ tag \in [Accounts -> Pairs \cup {NoPair}]
  /\ has \in [Accounts -> SUBSET Traits]
  /\ policies \subseteq Scenarios
  /\ leaving \subseteq Accounts

OrganizationInit ==
  /\ ou = "absent"
  /\ place = [a \in Accounts |-> "unborn"]
  /\ tag = [a \in Accounts |-> NoPair]
  /\ has = [a \in Accounts |-> {}]
  /\ policies = {}
  /\ leaving = {}

Put(a, where) == place' = [place EXCEPT ![a] = where]
Give(a, traits) == has' = [has EXCEPT ![a] = @ \cup traits]
InUnit == {a \in Accounts : place[a] = "ou"}
Unborn == {a \in Accounts : place[a] = "unborn"}
NextId == CHOOSE a \in Unborn : TRUE

(* The accounts of the unit that carry the pair's tag: ACTIVE ones only. *)
TaggedFor(p) == {a \in InUnit : tag[a] = p}

-----------------------------------------------------------------------------
(* init_organization: the unit is found or created, then its policy is     *)
(* attached; either may fail and stop the command.                         *)
InitOrganization == ou' = "protected"
InitFails == ou' = IF ou = "protected" THEN ou ELSE "open"

-----------------------------------------------------------------------------
(***************************************************************************)
(* terminate_environment, for the accounts that the scenario filters of    *)
(* the command select.                                                     *)
(***************************************************************************)
BeginTermination(chosen) == leaving' = chosen

(* Each loses its policies, leaves the unit, and loses its tag or is       *)
(* closed; any of these calls may fail and the next account's turn comes.  *)
(* A policy that cannot be detached is only logged.  Nothing looks at an   *)
(* account again that has left the unit, whatever became of it.            *)
TerminateAccount(a) ==
  /\ a \in leaving
  /\ leaving' = leaving \ {a}
  /\ \/ \E traits \in {has[a], has[a] \ {"fence"}} :
          has' = [has EXCEPT ![a] = traits] /\ UNCHANGED <<place, tag>>
     \/ /\ Put(a, "root")
        /\ has' = [has EXCEPT ![a] = {}]
        /\ tag' = [tag EXCEPT ![a] = NoPair]
  /\ UNCHANGED <<ou, policies>>

(* The unit's policies are detached, then the unit is deleted if it is     *)
(* empty.                                                                  *)
FinishTermination ==
  /\ leaving = {}
  /\ \/ InUnit = {} /\ ou' = "absent"
     \/ ou' = "open"
     \/ UNCHANGED ou
  /\ UNCHANGED <<place, tag, has, policies, leaving>>

-----------------------------------------------------------------------------
(* No two accounts of the unit carry the tag of one pair: from then on     *)
(* every resolution of the environment raises                              *)
(* DuplicateScenarioAccountError.                                          *)
UniquePair == \A p \in Pairs : Cardinality(TaggedFor(p)) <= 1

(* While the unit holds an account that is neither closed nor moved away,  *)
(* the unit keeps the policy that protects the framework's roles in it     *)
(* ("Detach SCPs and delete the OU if all accounts handled",               *)
(* terminate_environment).                                                 *)
ProtectionKept == InUnit # {} => ou = "protected"

=============================================================================
