----------------------------- MODULE AccountAccess -----------------------------
(***************************************************************************)
(* What the run promises each scenario's account: any number of read-only  *)
(* trials at once, or one mutating trial alone.  How a trial gets in, who  *)
(* waits and who wakes whom are left to the implementation.                *)
(***************************************************************************)
CONSTANTS Trials, ScenarioOf, Mutating

VARIABLE holders   \* scenario -> the trials now allowed on its account

Init == holders = [s \in {ScenarioOf[t] : t \in Trials} |-> {}]

Enter(t) ==
  LET inside == holders[ScenarioOf[t]] IN
  /\ t \notin inside
  /\ IF t \in Mutating THEN inside = {} ELSE inside \cap Mutating = {}
  /\ holders' = [holders EXCEPT ![ScenarioOf[t]] = inside \cup {t}]

Leave(t) ==
  /\ t \in holders[ScenarioOf[t]]
  /\ holders' = [holders EXCEPT ![ScenarioOf[t]] = @ \ {t}]

Next == \E t \in Trials : Enter(t) \/ Leave(t)

Spec == Init /\ [][Next]_holders
=============================================================================
