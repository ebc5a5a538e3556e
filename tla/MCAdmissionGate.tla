---------------------------- MODULE MCAdmissionGate ----------------------------
(* Two readers and two writers of one scenario, with one slot between them: a  *)
(* trial that has passed the gate may still have to wait for the slot.         *)
EXTENDS AdmissionGate

CONSTANTS r1, r2, w1, w2, scenarioA

AllTrials == {r1, r2, w1, w2}
OneScenario == [t \in Trials |-> scenarioA]
Writers == {w1, w2}
=============================================================================
