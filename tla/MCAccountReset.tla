---------------------------- MODULE MCAccountReset -----------------------------
(* Instances of AccountReset for TLC. *)
EXTENDS AccountReset

CONSTANTS east, west,                           \* regions
          bucket, queue, knowledge, role, cfn,  \* resource types
          leak, base, exec, agentStack, child,  \* items
          s1, s2                                \* stacks

TwoRegions == {east, west}

ItemTypes ==
  [i \in {leak, base, exec, agentStack, child} |->
     CASE i = leak -> bucket
       [] i = child -> queue
       [] i = base -> knowledge
       [] i = exec -> role
       [] i = agentStack -> cfn]

(***************************************************************************)
(* Two regions: `leak' is in east, of a type that was empty at the         *)
(* baseline; `base' is in west and needs the global role `exec'; a new     *)
(* stack in east owns `child', of a type that was empty in east and failed *)
(* in west at the capture.                                                 *)
(***************************************************************************)
AllTypes == {bucket, queue, knowledge, role, cfn}
AllItems == {leak, base, exec, agentStack, child}
FilledTypes == {knowledge, cfn}
OnlyQueue == {queue}
RoleType == {role}
BucketNotInWest == [r \in TwoRegions |-> IF r = west THEN {bucket} ELSE {}]
BucketAndRole == {bucket, role}
Homes == [i \in AllItems |-> IF i = base THEN west ELSE east]
Roles == [i \in AllItems |-> IF i = base THEN {exec} ELSE {}]
Children == [n \in {agentStack} |-> {child}]

(***************************************************************************)
(* Two regions: in west two stacks, s2 captured after an update; in east a *)
(* resource and the stack that AWS removes with it.                        *)
(***************************************************************************)
OwnedItems == {agentStack, leak}
OwnedTypes == {bucket, cfn}
OwnedType == [i \in OwnedItems |-> IF i = leak THEN bucket ELSE cfn]
OwnedHome == [i \in OwnedItems |-> east]
OwnedRoles == [i \in OwnedItems |-> {}]
OwnsNothing == [n \in {agentStack} |-> {}]
OnlyCfn == {cfn}
OnlyAgentStack == {agentStack}
Everywhere == [r \in TwoRegions |-> {}]
TwoStacks == {s1, s2}
BothWest == [s \in TwoStacks |-> west]
EveryRead == {"status", "template", "drift", "detect"}

OneStack == {s1}
StackEast == [s \in OneStack |-> east]

Nothing == {}
OnlyS2 == {s2}
OnlyBase == {base}

=============================================================================
