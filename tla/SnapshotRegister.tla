--------------------------- MODULE SnapshotRegister ---------------------------
(***************************************************************************)
(* What the storage of a baseline promises to the processes that share it  *)
(* (resource_management/storage): a register with compare-and-set.  A      *)
(* process that has seen a content replaces only that content; one that    *)
(* has seen none replaces any.  A process may fail before it learns that   *)
(* its content is in place.  Once it has learnt it, the content is firm: a *)
(* crash of the host undoes only what is not.                              *)
(***************************************************************************)
CONSTANTS Processes, Contents, Absent, Unseen

VARIABLES value,   \* the content of the register
          firm,    \* it survives a crash
          seen,    \* process -> the content it last saw, or Unseen
          placing  \* process -> the content it placed and has no answer for, or Unseen

vars == <<value, firm, seen, placing>>

Init ==
  /\ value = Absent /\ firm = TRUE
  /\ seen = [p \in Processes |-> Unseen]
  /\ placing = [p \in Processes |-> Unseen]

Load(p) ==
  /\ value # Absent
  /\ seen' = [seen EXCEPT ![p] = value]
  /\ UNCHANGED <<value, firm, placing>>

Place(p, c) ==
  /\ seen[p] \in {Unseen, value}
  /\ value' = c
  /\ firm' \in BOOLEAN
  /\ placing' = [placing EXCEPT ![p] = c]
  /\ UNCHANGED seen

Learn(p) ==
  /\ placing[p] # Unseen
  /\ placing[p] = value => firm'
  /\ firm => firm'
  /\ seen' = [seen EXCEPT ![p] = placing[p]]
  /\ placing' = [placing EXCEPT ![p] = Unseen]
  /\ UNCHANGED value

Fail(p) ==
  /\ seen' \in {seen, [seen EXCEPT ![p] = Unseen]}
  /\ placing' = [placing EXCEPT ![p] = Unseen]
  /\ UNCHANGED <<value, firm>>

Delete ==
  /\ value' = Absent
  /\ firm' \in BOOLEAN
  /\ UNCHANGED <<seen, placing>>

Crash ==
  /\ seen' = [p \in Processes |-> Unseen]
  /\ placing' = [p \in Processes |-> Unseen]
  /\ firm => value' = value
  /\ value' = Absent \/ value' \in Contents
  /\ firm' = TRUE

Next ==
  \/ \E p \in Processes :
       Load(p) \/ Learn(p) \/ Fail(p) \/ \E c \in Contents : Place(p, c)
  \/ Delete \/ Crash

Spec == Init /\ [][Next]_vars
=============================================================================
