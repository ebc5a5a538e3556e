-------------------------- MODULE AdmissionGateProofs --------------------------
(***************************************************************************)
(* Proofs about AdmissionGate for any finite set of trials, any assignment *)
(* of scenarios and modes, any number of slots and of retries.             *)
(***************************************************************************)
EXTENDS AdmissionGate, FiniteSetTheorems, TLAPS

\* A trial that has been to the gate got the one gate of its scenario.
GatesShared ==
  \A t \in Trials :
    /\ pc[t] \in {"parked", "woken", "admitted", "running"} => gateOf[t] # NoGate
    /\ gateOf[t] # NoGate => gates[ScenarioOf[t]] = gateOf[t]

\* Exclusion gate by gate, which is what the counters of a gate enforce.
ExclusivePerGate ==
  \A t, u \in Trials :
    (t # u /\ gateOf[t] = gateOf[u] /\ Holds(t) /\ Holds(u)) => t \notin Mutating

\* The inductive invariant.  Neither exclusion nor the accounting is inductive alone:
\* a trial is admitted on what the counters say, and a release may clear the writer
\* flag only because no second writer can be inside.
GateInv ==
  TypeOK /\ GatesShared /\ HoldsAccounted /\ ExclusivePerGate /\ SlotsAccounted

LEMMA ReaderHoldersFinite ==
  ASSUME NEW g
  PROVE  IsFiniteSet(ReaderHolders(g))
<1>1. ReaderHolders(g) \subseteq Trials
  BY DEF ReaderHolders
<1>. QED  BY <1>1, FS_Subset, GateAssumption

LEMMA InitGateInv == Init => GateInv
<1> SUFFICES ASSUME Init PROVE GateInv
  OBVIOUS
<1>1. TypeOK
  <2>1. pc \in [Trials -> Phases]
    BY DEF Init, Phases
  <2>2. gates \in [Scenarios -> Gates \cup {NoGate}] /\ gateOf \in [Trials -> Gates \cup {NoGate}]
    BY DEF Init
  <2>3. readers \in [Gates -> Nat] /\ writer \in [Gates -> BOOLEAN]
    BY DEF Init
  <2>4. attempt \in [Trials -> 0..MaxRetries] /\ shutdown \in BOOLEAN
    <3>1. 0 \in 0..MaxRetries
      BY GateAssumption
    <3>. QED  BY <3>1 DEF Init
  <2>5. free \in 0..NConcurrent
    <3>1. free = NConcurrent
      BY DEF Init
    <3>2. NConcurrent \in Nat \ {0}
      BY GateAssumption
    <3>. QED  BY <3>1, <3>2
  <2>. QED  BY <2>1, <2>2, <2>3, <2>4, <2>5 DEF TypeOK
<1>2. GatesShared
  BY GateAssumption DEF Init, GatesShared
<1>3. \A t \in Trials : ~Holds(t)
  BY DEF Init, Holds, Holding
<1>4. \A g \in Gates : ReaderHolders(g) = {}
  BY <1>3 DEF ReaderHolders
<1>5. HoldsAccounted
  BY <1>3, <1>4, FS_EmptySet, GateAssumption DEF Init, HoldsAccounted, Gates
<1>6. ExclusivePerGate
  BY <1>3 DEF ExclusivePerGate
<1>7. SlotsAccounted
  <2>1. Running = {}
    BY DEF Init, Running
  <2>2. free = NConcurrent
    BY DEF Init
  <2>3. NConcurrent \in Nat
    BY GateAssumption
  <2>. QED  BY <2>1, <2>2, <2>3, FS_EmptySet DEF SlotsAccounted
<1>. QED  BY <1>1, <1>2, <1>5, <1>6, <1>7 DEF GateInv

-----------------------------------------------------------------------------
(* The three ways a step can touch the holds. *)

\* A trial that passes the test of its gate is counted, and alone if it mutates.
LEMMA AdmitKeeps ==
  ASSUME GateInv, NEW t \in Trials, NEW g \in Gates, ~Holds(t),
         MayEnter(t, g), Admit(t, g), gateOf' = [gateOf EXCEPT ![t] = g]
  PROVE  HoldsAccounted' /\ ExclusivePerGate'
<1>. USE DEF GateInv
<1>1. /\ Holds(t)' /\ gateOf'[t] = g
      /\ \A u \in Trials \ {t} : (Holds(u)' <=> Holds(u)) /\ gateOf'[u] = gateOf[u]
  BY DEF Admit, Holds, Holding, TypeOK
<1>2. CASE t \in Mutating
  <2>1. readers' = readers /\ writer' = [writer EXCEPT ![g] = TRUE]
    BY <1>2 DEF Admit
  <2>2. readers[g] = 0 /\ ~writer[g]
    BY <1>2 DEF MayEnter
  <2>3. ReaderHolders(g) = {}
    BY <2>2, ReaderHoldersFinite, FS_EmptySet DEF HoldsAccounted
  <2>4. \A u \in Trials : Holds(u) => gateOf[u] # g
    BY <2>2, <2>3 DEF HoldsAccounted, ReaderHolders
  <2>5. \A h \in Gates : ReaderHolders(h)' = ReaderHolders(h)
    BY <1>1, <1>2 DEF ReaderHolders
  <2>6. \A h \in Gates : writer'[h] <=> \E u \in Mutating : Holds(u)' /\ gateOf'[u] = h
    BY <1>1, <1>2, <2>1, GateAssumption DEF HoldsAccounted, TypeOK
  <2>7. ExclusivePerGate'
    BY <1>1, <2>4 DEF ExclusivePerGate
  <2>. QED  BY <2>1, <2>5, <2>6, <2>7 DEF HoldsAccounted
<1>3. CASE t \notin Mutating
  <2>1. writer' = writer /\ readers' = [readers EXCEPT ![g] = @ + 1]
    BY <1>3 DEF Admit
  <2>2. ~writer[g]
    BY DEF MayEnter
  <2>3. t \notin ReaderHolders(g)
    BY DEF ReaderHolders
  <2>4. ReaderHolders(g)' = ReaderHolders(g) \cup {t}
    BY <1>1, <1>3 DEF ReaderHolders
  <2>5. Cardinality(ReaderHolders(g)') = readers[g] + 1
    <3>1. IsFiniteSet(ReaderHolders(g))
      BY ReaderHoldersFinite
    <3>2. Cardinality(ReaderHolders(g) \cup {t}) = Cardinality(ReaderHolders(g)) + 1
      BY <2>3, <3>1, FS_AddElement
    <3>3. readers[g] = Cardinality(ReaderHolders(g))
      BY DEF HoldsAccounted
    <3>. QED  BY <2>4, <3>2, <3>3
  <2>6. \A h \in Gates \ {g} : ReaderHolders(h)' = ReaderHolders(h)
    BY <1>1 DEF ReaderHolders
  <2>7. \A h \in Gates : readers'[h] = Cardinality(ReaderHolders(h)')
    BY <2>1, <2>5, <2>6 DEF HoldsAccounted, TypeOK
  <2>8. \A h \in Gates : writer'[h] <=> \E u \in Mutating : Holds(u)' /\ gateOf'[u] = h
    BY <1>1, <1>3, <2>1, GateAssumption DEF HoldsAccounted
  <2>9. ExclusivePerGate'
    <3>1. \A u \in Mutating : Holds(u) => gateOf[u] # g
      BY <2>2 DEF HoldsAccounted
    <3>. QED  BY <1>1, <1>3, <3>1, GateAssumption DEF ExclusivePerGate
  <2>. QED  BY <2>7, <2>8, <2>9 DEF HoldsAccounted
<1>. QED  BY <1>2, <1>3

\* A holder that releases is no longer counted, and it was the only writer if it was one.
LEMMA ReleaseKeeps ==
  ASSUME GateInv, NEW t \in Trials, NEW end \in Settled, Holds(t),
         Release(t, end), gateOf' = gateOf
  PROVE  HoldsAccounted' /\ ExclusivePerGate' /\ readers' \in [Gates -> Nat]
<1>. USE DEF GateInv
<1>. DEFINE g == gateOf[t]
<1>0. g \in Gates
  BY DEF Holds, Holding, GatesShared, TypeOK
<1>1. ~Holds(t)' /\ \A u \in Trials \ {t} : Holds(u)' <=> Holds(u)
  BY DEF Release, Holds, Holding, Settled, Notified, TypeOK
<1>2. ExclusivePerGate'
  BY <1>1 DEF ExclusivePerGate
<1>3. CASE t \in Mutating
  <2>1. readers' = readers /\ writer' = [writer EXCEPT ![g] = FALSE]
    BY <1>3 DEF Release
  <2>2. \A u \in Trials \ {t} : Holds(u) => gateOf[u] # g
    BY <1>3 DEF ExclusivePerGate
  <2>3. \A h \in Gates : ReaderHolders(h)' = ReaderHolders(h)
    BY <1>1, <1>3 DEF ReaderHolders
  <2>4. \A h \in Gates : writer'[h] <=> \E u \in Mutating : Holds(u)' /\ gateOf'[u] = h
    BY <1>1, <2>1, <2>2, GateAssumption DEF HoldsAccounted, TypeOK
  <2>. QED  BY <1>2, <2>1, <2>3, <2>4 DEF HoldsAccounted, TypeOK
<1>4. CASE t \notin Mutating
  <2>1. writer' = writer /\ readers' = [readers EXCEPT ![g] = @ - 1]
    BY <1>4 DEF Release
  <2>2. t \in ReaderHolders(g)
    BY <1>4 DEF ReaderHolders
  <2>3. ReaderHolders(g)' = ReaderHolders(g) \ {t}
    BY <1>1 DEF ReaderHolders
  <2>4. Cardinality(ReaderHolders(g)') = readers[g] - 1
    <3>1. IsFiniteSet(ReaderHolders(g))
      BY ReaderHoldersFinite
    <3>2. Cardinality(ReaderHolders(g) \ {t}) = Cardinality(ReaderHolders(g)) - 1
      BY <2>2, <3>1, FS_RemoveElement
    <3>3. readers[g] = Cardinality(ReaderHolders(g))
      BY <1>0 DEF HoldsAccounted
    <3>. QED  BY <2>3, <3>2, <3>3
  <2>5. readers[g] - 1 \in Nat
    <3>1. IsFiniteSet(ReaderHolders(g) \ {t})
      BY ReaderHoldersFinite, FS_RemoveElement
    <3>. QED  BY <2>3, <2>4, <3>1, FS_CardinalityType
  <2>6. \A h \in Gates \ {g} : ReaderHolders(h)' = ReaderHolders(h)
    BY <1>1 DEF ReaderHolders
  <2>7. \A h \in Gates : readers'[h] = Cardinality(ReaderHolders(h)')
    BY <2>1, <2>4, <2>6 DEF HoldsAccounted, TypeOK
  <2>8. \A h \in Gates : writer'[h] <=> \E u \in Mutating : Holds(u)' /\ gateOf'[u] = h
    BY <1>1, <1>4, <2>1, GateAssumption DEF HoldsAccounted
  <2>9. readers' \in [Gates -> Nat]
    BY <2>1, <2>5 DEF TypeOK
  <2>. QED  BY <1>2, <2>7, <2>8, <2>9 DEF HoldsAccounted
<1>. QED  BY <1>3, <1>4

\* A step that moves no trial in or out leaves the holds alone.
LEMMA NeutralKeeps ==
  ASSUME GateInv, UNCHANGED <<readers, writer>>,
         \A u \in Trials : /\ Holds(u)' <=> Holds(u)
                           /\ Holds(u) => gateOf'[u] = gateOf[u]
  PROVE  HoldsAccounted' /\ ExclusivePerGate'
<1>. USE DEF GateInv
<1>1. \A h \in Gates : ReaderHolders(h)' = ReaderHolders(h)
  BY DEF ReaderHolders
<1>2. \A h \in Gates : writer'[h] <=> \E u \in Mutating : Holds(u)' /\ gateOf'[u] = h
  BY GateAssumption DEF HoldsAccounted
<1>3. ExclusivePerGate'
  BY DEF ExclusivePerGate
<1>. QED  BY <1>1, <1>2, <1>3 DEF HoldsAccounted

-----------------------------------------------------------------------------
(* The slots of the semaphore. *)

LEMMA RunningFinite == IsFiniteSet(Running)
BY FS_Subset, GateAssumption DEF Running

\* What a step does to the slots depends only on whether the trial starts or stops running.
LEMMA SlotsKeeps ==
  ASSUME GateInv, NEW t \in Trials,
         \/ Running' = Running /\ free' = free
         \/ t \notin Running /\ Running' = Running \cup {t} /\ free > 0 /\ free' = free - 1
         \/ t \in Running /\ Running' = Running \ {t} /\ free' = free + 1
  PROVE  SlotsAccounted' /\ free' \in 0..NConcurrent
<1>. USE DEF GateInv
<1>1. NConcurrent \in Nat /\ free \in 0..NConcurrent
  BY GateAssumption DEF TypeOK
<1>2. free = NConcurrent - Cardinality(Running)
  BY DEF SlotsAccounted
<1>3. Cardinality(Running) \in Nat
  BY RunningFinite, FS_CardinalityType
<1>4. CASE Running' = Running /\ free' = free
  BY <1>1, <1>2, <1>4 DEF SlotsAccounted
<1>5. CASE t \notin Running /\ Running' = Running \cup {t} /\ free > 0 /\ free' = free - 1
  <2>1. Cardinality(Running') = Cardinality(Running) + 1
    BY <1>5, RunningFinite, FS_AddElement
  <2>. QED  BY <1>1, <1>2, <1>3, <1>5, <2>1 DEF SlotsAccounted
<1>6. CASE t \in Running /\ Running' = Running \ {t} /\ free' = free + 1
  <2>1. Cardinality(Running') = Cardinality(Running) - 1 /\ IsFiniteSet(Running')
    BY <1>6, RunningFinite, FS_RemoveElement
  <2>2. Cardinality(Running') \in Nat
    BY <2>1, FS_CardinalityType
  <2>. QED  BY <1>1, <1>2, <1>3, <1>6, <2>1, <2>2 DEF SlotsAccounted
<1>. QED  BY <1>4, <1>5, <1>6

-----------------------------------------------------------------------------
(* One step per action. *)

\* GateInv is inductive: each action of the queue keeps every one of its parts.
LEMMA StepKeepsGateInv == GateInv /\ [Next]_vars => GateInv'
<1> SUFFICES ASSUME GateInv, [Next]_vars PROVE GateInv'
  OBVIOUS
<1>. USE DEF GateInv
<1>0. NConcurrent \in Nat /\ MaxRetries \in Nat
  BY GateAssumption
<1>1. ASSUME NEW t \in Trials, Arrive(t) PROVE GateInv'
  <2>. DEFINE g == GateFor(t)
  <2>1. /\ pc[t] = "submitted"
        /\ gates' = [gates EXCEPT ![ScenarioOf[t]] = g]
        /\ gateOf' = [gateOf EXCEPT ![t] = g]
        /\ UNCHANGED <<free, attempt, shutdown>>
    BY <1>1 DEF Arrive
  <2>2. ScenarioOf[t] \in Scenarios /\ g \in Gates
    BY GateAssumption DEF GateFor, Scenarios, Gates, TypeOK
  <2>3. \A u \in Trials \ {t} : pc'[u] = pc[u]
    BY <1>1 DEF Arrive, Admit, TypeOK
  <2>4. pc' \in [Trials -> Phases] /\ pc'[t] \in {"admitted", "parked"}
    BY <1>1 DEF Arrive, Admit, TypeOK, Phases
  <2>5. GatesShared'
    <3>1. \A u \in Trials : gateOf[u] # NoGate => gates'[ScenarioOf[u]] = gates[ScenarioOf[u]]
      BY <2>1, <2>2, GateAssumption DEF GatesShared, GateFor, TypeOK, Gates, Scenarios
    <3>2. gateOf'[t] = g /\ gates'[ScenarioOf[t]] = g /\ g # NoGate
      BY <2>1, <2>2, GateAssumption DEF TypeOK, Gates
    <3>3. \A u \in Trials \ {t} : gateOf'[u] = gateOf[u]
      BY <2>1 DEF TypeOK
    <3>. QED  BY <2>3, <3>1, <3>2, <3>3 DEF GatesShared
  <2>6. HoldsAccounted' /\ ExclusivePerGate' /\ readers' \in [Gates -> Nat] /\ writer' \in [Gates -> BOOLEAN]
    <3>1. CASE MayEnter(t, g) /\ Admit(t, g)
      <4>1. ~Holds(t)
        BY <2>1 DEF Holds, Holding
      <4>2. HoldsAccounted' /\ ExclusivePerGate'
        BY <2>1, <2>2, <3>1, <4>1, AdmitKeeps
      <4>3. CASE t \in Mutating
        BY <2>2, <3>1, <4>2, <4>3 DEF Admit, TypeOK
      <4>4. CASE t \notin Mutating
        BY <2>2, <3>1, <4>2, <4>4 DEF Admit, TypeOK
      <4>. QED  BY <4>3, <4>4
    <3>2. CASE pc' = [pc EXCEPT ![t] = "parked"] /\ UNCHANGED <<readers, writer>>
      <4>1. \A u \in Trials : /\ Holds(u)' <=> Holds(u)
                              /\ Holds(u) => gateOf'[u] = gateOf[u]
        BY <2>1, <3>2 DEF Holds, Holding, TypeOK
      <4>. QED  BY <3>2, <4>1, NeutralKeeps DEF TypeOK
    <3>3. \/ MayEnter(t, g) /\ Admit(t, g)
          \/ pc' = [pc EXCEPT ![t] = "parked"] /\ UNCHANGED <<readers, writer>>
      BY <1>1 DEF Arrive
    <3>. QED  BY <3>1, <3>2, <3>3
  <2>7. SlotsAccounted' /\ free' \in 0..NConcurrent
    <3>1. Running' = Running
      BY <2>1, <2>3, <2>4 DEF Running
    <3>. QED  BY <2>1, <3>1, SlotsKeeps
  <2>8. TypeOK'
    BY <2>1, <2>2, <2>4, <2>6, <2>7 DEF TypeOK
  <2>. QED  BY <2>5, <2>6, <2>7, <2>8
<1>2. ASSUME NEW t \in Trials, Recheck(t) PROVE GateInv'
  <2>. DEFINE g == gateOf[t]
  <2>1. pc[t] = "woken" /\ UNCHANGED <<gates, gateOf, free, attempt, shutdown>>
    BY <1>2 DEF Recheck
  <2>2. g \in Gates
    BY <2>1 DEF GatesShared, TypeOK
  <2>3. \A u \in Trials \ {t} : pc'[u] = pc[u]
    BY <1>2 DEF Recheck, Admit, TypeOK
  <2>4. pc' \in [Trials -> Phases] /\ pc'[t] \in {"admitted", "parked"}
    BY <1>2 DEF Recheck, Admit, TypeOK, Phases
  <2>5. GatesShared'
    BY <2>1, <2>2, <2>3, GateAssumption DEF GatesShared, Gates
  <2>6. HoldsAccounted' /\ ExclusivePerGate' /\ readers' \in [Gates -> Nat] /\ writer' \in [Gates -> BOOLEAN]
    <3>1. CASE MayEnter(t, g) /\ Admit(t, g)
      <4>1. ~Holds(t) /\ gateOf' = [gateOf EXCEPT ![t] = g]
        BY <2>1 DEF Holds, Holding, TypeOK
      <4>2. HoldsAccounted' /\ ExclusivePerGate'
        BY <2>2, <3>1, <4>1, AdmitKeeps
      <4>3. CASE t \in Mutating
        BY <2>2, <3>1, <4>2, <4>3 DEF Admit, TypeOK
      <4>4. CASE t \notin Mutating
        BY <2>2, <3>1, <4>2, <4>4 DEF Admit, TypeOK
      <4>. QED  BY <4>3, <4>4
    <3>2. CASE pc' = [pc EXCEPT ![t] = "parked"] /\ UNCHANGED <<readers, writer>>
      <4>1. \A u \in Trials : /\ Holds(u)' <=> Holds(u)
                              /\ Holds(u) => gateOf'[u] = gateOf[u]
        BY <2>1, <3>2 DEF Holds, Holding, TypeOK
      <4>. QED  BY <3>2, <4>1, NeutralKeeps DEF TypeOK
    <3>3. \/ MayEnter(t, g) /\ Admit(t, g)
          \/ pc' = [pc EXCEPT ![t] = "parked"] /\ UNCHANGED <<readers, writer>>
      BY <1>2 DEF Recheck
    <3>. QED  BY <3>1, <3>2, <3>3
  <2>7. SlotsAccounted' /\ free' \in 0..NConcurrent
    <3>1. Running' = Running
      BY <2>1, <2>3, <2>4 DEF Running
    <3>. QED  BY <2>1, <3>1, SlotsKeeps
  <2>8. TypeOK'
    BY <2>1, <2>4, <2>6, <2>7 DEF TypeOK
  <2>. QED  BY <2>5, <2>6, <2>7, <2>8
<1>3. ASSUME NEW t \in Trials, TakeSlot(t) PROVE GateInv'
  <2>1. /\ pc[t] = "admitted" /\ free > 0
        /\ pc' = [pc EXCEPT ![t] = "running"]
        /\ free' = free - 1
        /\ UNCHANGED <<gates, gateOf, readers, writer, attempt, shutdown>>
    BY <1>3 DEF TakeSlot, gateVars
  <2>2. HoldsAccounted' /\ ExclusivePerGate'
    <3>1. \A u \in Trials : /\ Holds(u)' <=> Holds(u)
                            /\ Holds(u) => gateOf'[u] = gateOf[u]
      BY <2>1 DEF Holds, Holding, TypeOK
    <3>. QED  BY <2>1, <3>1, NeutralKeeps
  <2>3. GatesShared'
    BY <2>1 DEF GatesShared, TypeOK
  <2>4. SlotsAccounted' /\ free' \in 0..NConcurrent
    <3>1. t \notin Running /\ Running' = Running \cup {t}
      BY <2>1 DEF Running, TypeOK
    <3>. QED  BY <2>1, <3>1, SlotsKeeps
  <2>5. TypeOK'
    BY <2>1, <2>4 DEF TypeOK, Phases
  <2>. QED  BY <2>2, <2>3, <2>4, <2>5
<1>4. ASSUME NEW t \in Trials, Retry(t) PROVE GateInv'
  <2>1. /\ attempt[t] < MaxRetries
        /\ attempt' = [attempt EXCEPT ![t] = @ + 1]
        /\ UNCHANGED <<pc, gates, gateOf, readers, writer, free, shutdown>>
    BY <1>4 DEF Retry, gateVars
  <2>2. attempt' \in [Trials -> 0..MaxRetries]
    BY <1>0, <2>1 DEF TypeOK
  <2>3. HoldsAccounted' /\ ExclusivePerGate'
    BY <2>1, NeutralKeeps DEF Holds
  <2>4. SlotsAccounted' /\ GatesShared' /\ TypeOK'
    BY <2>1, <2>2 DEF SlotsAccounted, Running, GatesShared, TypeOK
  <2>. QED  BY <2>3, <2>4
<1>5. ASSUME NEW t \in Trials, NEW end \in Settled, Holds(t), Release(t, end),
             free' = IF pc[t] = "running" THEN free + 1 ELSE free,
             UNCHANGED <<gates, gateOf, attempt, shutdown>>
      PROVE  GateInv'
  <2>1. HoldsAccounted' /\ ExclusivePerGate' /\ readers' \in [Gates -> Nat]
    BY <1>5, ReleaseKeeps
  <2>2. gateOf[t] \in Gates
    BY <1>5 DEF Holds, Holding, GatesShared, TypeOK
  <2>3. pc' \in [Trials -> Phases] /\ writer' \in [Gates -> BOOLEAN]
    BY <1>5, <2>2 DEF Release, TypeOK, Phases, Settled
  <2>4. GatesShared'
    BY <1>5 DEF Release, Notified, GatesShared, Settled
  <2>5. SlotsAccounted' /\ free' \in 0..NConcurrent
    <3>1. Running' = Running \ {t}
      BY <1>5 DEF Release, Notified, Running, Settled
    <3>2. CASE pc[t] = "running"
      <4>1. t \in Running
        BY <3>2 DEF Running
      <4>. QED  BY <1>5, <3>1, <3>2, <4>1, SlotsKeeps
    <3>3. CASE pc[t] # "running"
      <4>1. Running' = Running
        BY <3>1, <3>3 DEF Running
      <4>. QED  BY <1>5, <3>3, <4>1, SlotsKeeps
    <3>. QED  BY <3>2, <3>3
  <2>6. TypeOK'
    BY <1>5, <2>1, <2>3, <2>5 DEF TypeOK
  <2>. QED  BY <2>1, <2>4, <2>5, <2>6
<1>6. ASSUME NEW t \in Trials, NEW end \in {"done", "raised"}, Finish(t, end) PROVE GateInv'
  BY <1>5, <1>6 DEF Finish, Holds, Holding, Settled
<1>7. ASSUME NEW t \in Trials, CancelHolding(t) PROVE GateInv'
  BY <1>5, <1>7 DEF CancelHolding, Holds, Settled
<1>8. ASSUME NEW t \in Trials, CancelWaiting(t) PROVE GateInv'
  <2>1. /\ pc[t] \in {"submitted", "parked", "woken"}
        /\ pc' = [pc EXCEPT ![t] = "cancelled"]
        /\ UNCHANGED <<gates, gateOf, readers, writer, free, attempt, shutdown>>
    BY <1>8 DEF CancelWaiting, gateVars
  <2>2. HoldsAccounted' /\ ExclusivePerGate'
    <3>1. \A u \in Trials : /\ Holds(u)' <=> Holds(u)
                            /\ Holds(u) => gateOf'[u] = gateOf[u]
      BY <2>1 DEF Holds, Holding, TypeOK
    <3>. QED  BY <2>1, <3>1, NeutralKeeps
  <2>3. SlotsAccounted'
    <3>1. Running' = Running
      BY <2>1 DEF Running, TypeOK
    <3>. QED  BY <2>1, <3>1, SlotsKeeps
  <2>4. GatesShared' /\ TypeOK'
    BY <2>1 DEF GatesShared, TypeOK, Phases
  <2>. QED  BY <2>2, <2>3, <2>4
<1>9. CASE UNCHANGED <<pc, gates, gateOf, readers, writer, free, attempt>> /\ shutdown' \in BOOLEAN
  <2>1. HoldsAccounted' /\ ExclusivePerGate'
    BY <1>9, NeutralKeeps DEF Holds
  <2>2. SlotsAccounted' /\ GatesShared' /\ TypeOK'
    BY <1>9 DEF SlotsAccounted, Running, GatesShared, TypeOK
  <2>. QED  BY <2>1, <2>2
<1>10. CASE Interrupt
  BY <1>9, <1>10 DEF Interrupt, gateVars
<1>11. CASE UNCHANGED vars
  BY <1>9, <1>11 DEF vars, TypeOK
<1>. QED
  BY <1>1, <1>2, <1>3, <1>4, <1>6, <1>7, <1>8, <1>10, <1>11 DEF Next, Step, Over

LEMMA GateInvariant == Spec => []GateInv
BY InitGateInv, StepKeepsGateInv, PTL DEF Spec

-----------------------------------------------------------------------------
(* The theorems. *)

\* The state keeps its types in every instance.
THEOREM GateTypes == Spec => []TypeOK
BY GateInvariant, PTL DEF GateInv

\* No two trials of one scenario hold it together when one of them is mutating:
\* each of them went through its scenario's one gate, and that gate excludes.
THEOREM WritersExclusive == Spec => []ExclusiveWriter
<1>1. GateInv => ExclusiveWriter
  BY DEF GateInv, GatesShared, ExclusivePerGate, ExclusiveWriter, Holds, Holding
<1>. QED  BY <1>1, GateInvariant, PTL

\* The counters of a gate are exactly the trials inside: cancellation leaks no hold.
THEOREM HoldsNeverLeak == Spec => []HoldsAccounted
BY GateInvariant, PTL DEF GateInv

\* The semaphore's count is exactly the trials that run.
THEOREM SlotsNeverLeak == Spec => []SlotsAccounted
BY GateInvariant, PTL DEF GateInv


-----------------------------------------------------------------------------
(* No wakeup is lost. *)

\* Admission only closes a gate further, and a release wakes all who wait at it.
LEMMA StepKeepsNoLostWakeup ==
  GateInv /\ NoLostWakeup /\ [Next]_vars => NoLostWakeup'
<1> SUFFICES ASSUME GateInv, NoLostWakeup, [Next]_vars,
                    NEW u \in Trials, pc'[u] = "parked"
             PROVE  ~MayEnter(u, gateOf[u])'
  BY DEF NoLostWakeup
<1>. USE DEF GateInv
<1>1. ASSUME NEW t \in Trials, NEW g \in Gates, Admit(t, g), MayEnter(t, g),
             pc[u] = "parked", gateOf[u] \in Gates, gateOf'[u] = gateOf[u]
      PROVE  ~MayEnter(u, gateOf[u])'
  <2>1. ~MayEnter(u, gateOf[u])
    BY <1>1 DEF NoLostWakeup
  <2>2. CASE t \in Mutating
    <3>1. readers' = readers /\ writer' = [writer EXCEPT ![g] = TRUE]
      BY <1>1, <2>2 DEF Admit
    <3>. QED  BY <1>1, <2>1, <3>1 DEF MayEnter, TypeOK
  <2>3. CASE t \notin Mutating
    <3>1. writer' = writer /\ readers' = [readers EXCEPT ![g] = @ + 1]
      BY <1>1, <2>3 DEF Admit
    <3>2. \A h \in Gates : readers[h] # 0 => readers'[h] # 0
      BY <3>1 DEF TypeOK
    <3>. QED  BY <1>1, <2>1, <3>1, <3>2 DEF MayEnter
  <2>. QED  BY <2>2, <2>3
<1>2. ASSUME NEW t \in Trials, NEW end \in Settled, Holds(t), Release(t, end),
             gateOf' = gateOf
      PROVE  ~MayEnter(u, gateOf[u])'
  <2>1. pc[u] = "parked" /\ gateOf[u] # gateOf[t]
    BY <1>2 DEF Release, Notified, Settled
  <2>2. gateOf[u] \in Gates /\ gateOf[t] \in Gates
    BY <1>2, <2>1 DEF GatesShared, TypeOK, Holds, Holding
  <2>3. readers'[gateOf[u]] = readers[gateOf[u]] /\ writer'[gateOf[u]] = writer[gateOf[u]]
    BY <1>2, <2>1, <2>2 DEF Release, TypeOK
  <2>. QED  BY <1>2, <2>1, <2>3 DEF NoLostWakeup, MayEnter
<1>3. CASE UNCHANGED <<readers, writer, gateOf>> /\ pc[u] = "parked"
  BY <1>3 DEF NoLostWakeup, MayEnter
<1>4. ASSUME NEW t \in Trials, Arrive(t) PROVE ~MayEnter(u, gateOf[u])'
  <2>. DEFINE g == GateFor(t)
  <2>1. g \in Gates /\ gateOf' = [gateOf EXCEPT ![t] = g]
    BY <1>4, GateAssumption DEF Arrive, GateFor, Gates, Scenarios, TypeOK
  <2>2. CASE MayEnter(t, g) /\ Admit(t, g)
    <3>1. u # t /\ pc[u] = "parked"
      BY <2>2 DEF Admit, TypeOK
    <3>2. gateOf[u] \in Gates /\ gateOf'[u] = gateOf[u]
      BY <2>1, <3>1 DEF GatesShared, TypeOK
    <3>. QED  BY <1>1, <2>1, <2>2, <3>1, <3>2
  <2>3. CASE ~MayEnter(t, g) /\ pc' = [pc EXCEPT ![t] = "parked"] /\ UNCHANGED <<readers, writer>>
    <3>1. CASE u = t
      BY <2>1, <2>3, <3>1 DEF MayEnter, TypeOK
    <3>2. CASE u # t
      BY <2>1, <2>3, <3>2 DEF MayEnter, NoLostWakeup, TypeOK
    <3>. QED  BY <3>1, <3>2
  <2>. QED  BY <1>4, <2>2, <2>3 DEF Arrive
<1>5. ASSUME NEW t \in Trials, Recheck(t) PROVE ~MayEnter(u, gateOf[u])'
  <2>. DEFINE g == gateOf[t]
  <2>1. g \in Gates /\ gateOf' = gateOf
    BY <1>5 DEF Recheck, GatesShared, TypeOK
  <2>2. CASE MayEnter(t, g) /\ Admit(t, g)
    <3>1. pc[u] = "parked"
      BY <2>2 DEF Admit, TypeOK
    <3>2. gateOf[u] \in Gates
      BY <3>1 DEF GatesShared, TypeOK
    <3>. QED  BY <1>1, <2>1, <2>2, <3>1, <3>2
  <2>3. CASE ~MayEnter(t, g) /\ pc' = [pc EXCEPT ![t] = "parked"] /\ UNCHANGED <<readers, writer>>
    BY <2>1, <2>3 DEF MayEnter, NoLostWakeup, TypeOK
  <2>. QED  BY <1>5, <2>2, <2>3 DEF Recheck
<1>6. ASSUME NEW t \in Trials, TakeSlot(t) \/ Retry(t) \/ CancelWaiting(t)
      PROVE  ~MayEnter(u, gateOf[u])'
  BY <1>3, <1>6 DEF TakeSlot, Retry, CancelWaiting, gateVars, TypeOK
<1>7. ASSUME NEW t \in Trials, NEW end \in {"done", "raised"}, Finish(t, end)
      PROVE  ~MayEnter(u, gateOf[u])'
  BY <1>2, <1>7 DEF Finish, Holds, Holding, Settled
<1>8. ASSUME NEW t \in Trials, CancelHolding(t) PROVE ~MayEnter(u, gateOf[u])'
  BY <1>2, <1>8 DEF CancelHolding, Holds, Settled
<1>9. CASE Interrupt \/ UNCHANGED vars
  BY <1>3, <1>9 DEF Interrupt, gateVars, vars
<1>. QED
  BY <1>4, <1>5, <1>6, <1>7, <1>8, <1>9 DEF Next, Step, Over

\* A trial still parked could not enter its gate now, so none waits for a wakeup
\* that has already been sent to others.
THEOREM NoWakeupLost == Spec => []NoLostWakeup
<1>1. Init => NoLostWakeup
  BY DEF Init, NoLostWakeup
<1>. QED  BY <1>1, GateInvariant, StepKeepsNoLostWakeup, PTL DEF Spec

-----------------------------------------------------------------------------
(* The gates implement AccountAccess. *)

HoldersOf(s) == {t \in Trials : Holds(t) /\ ScenarioOf[t] = s}
Holders == [s \in Scenarios |-> HoldersOf(s)]

\* Being admitted is entering the account.
LEMMA AdmitEnters ==
  ASSUME GateInv, GateInv', NEW t \in Trials, ~Holds(t), Holds(t)',
         \A u \in Trials \ {t} : Holds(u)' <=> Holds(u)
  PROVE  Access!Enter(t)
<1>. DEFINE s == ScenarioOf[t]
<1>1. s \in Scenarios
  BY DEF Scenarios
<1>2. HoldersOf(s)' = HoldersOf(s) \cup {t}
  BY DEF HoldersOf
<1>3. \A r \in Scenarios \ {s} : HoldersOf(r)' = HoldersOf(r)
  BY DEF HoldersOf
<1>4. Holders' = [Holders EXCEPT ![s] = HoldersOf(s) \cup {t}]
  BY <1>1, <1>2, <1>3 DEF Holders
<1>5. t \notin HoldersOf(s)
  BY DEF HoldersOf
<1>6. ExclusiveWriter'
  BY DEF GateInv, GatesShared, ExclusivePerGate, ExclusiveWriter, Holds, Holding
<1>7. IF t \in Mutating THEN HoldersOf(s) = {} ELSE HoldersOf(s) \cap Mutating = {}
  BY <1>6 DEF ExclusiveWriter, HoldersOf
<1>. QED  BY <1>1, <1>4, <1>5, <1>7 DEF Access!Enter, Holders, HoldersOf

\* Releasing is leaving it.
LEMMA ReleaseLeaves ==
  ASSUME NEW t \in Trials, Holds(t), ~Holds(t)',
         \A u \in Trials \ {t} : Holds(u)' <=> Holds(u)
  PROVE  Access!Leave(t)
<1>. DEFINE s == ScenarioOf[t]
<1>1. s \in Scenarios
  BY DEF Scenarios
<1>2. HoldersOf(s)' = HoldersOf(s) \ {t}
  BY DEF HoldersOf
<1>3. \A r \in Scenarios \ {s} : HoldersOf(r)' = HoldersOf(r)
  BY DEF HoldersOf
<1>4. Holders' = [Holders EXCEPT ![s] = @ \ {t}]
  BY <1>1, <1>2, <1>3 DEF Holders
<1>5. t \in HoldersOf(s)
  BY DEF HoldersOf
<1>. QED  BY <1>1, <1>4, <1>5 DEF Access!Leave, Holders, HoldersOf

\* Every step is an entry, a departure, or nothing at all to the accounts.
LEMMA StepRefines == GateInv /\ GateInv' /\ [Next]_vars => [Access!Next]_Holders
<1> SUFFICES ASSUME GateInv, GateInv', [Next]_vars PROVE [Access!Next]_Holders
  OBVIOUS
<1>1. ASSUME \A u \in Trials : Holds(u)' <=> Holds(u) PROVE Holders' = Holders
  BY <1>1 DEF Holders, HoldersOf
<1>2. ASSUME NEW t \in Trials, Arrive(t) \/ Recheck(t) PROVE [Access!Next]_Holders
  <2>1. ~Holds(t) /\ \A u \in Trials \ {t} : Holds(u)' <=> Holds(u)
    BY <1>2 DEF Arrive, Recheck, Admit, Holds, Holding, GateInv, TypeOK
  <2>2. CASE Holds(t)'
    BY <2>1, <2>2, AdmitEnters DEF Access!Next
  <2>3. CASE ~Holds(t)'
    BY <1>1, <2>1, <2>3
  <2>. QED  BY <2>2, <2>3
<1>3. ASSUME NEW t \in Trials, NEW end \in Settled, Holds(t), Release(t, end)
      PROVE  [Access!Next]_Holders
  <2>1. ~Holds(t)' /\ \A u \in Trials \ {t} : Holds(u)' <=> Holds(u)
    BY <1>3 DEF Release, Notified, Holds, Holding, Settled, GateInv, TypeOK
  <2>. QED  BY <1>3, <2>1, ReleaseLeaves DEF Access!Next
<1>4. ASSUME NEW t \in Trials, TakeSlot(t) \/ Retry(t) \/ CancelWaiting(t)
      PROVE  [Access!Next]_Holders
  BY <1>1, <1>4 DEF TakeSlot, Retry, CancelWaiting, Holds, Holding, GateInv, TypeOK
<1>5. ASSUME NEW t \in Trials, NEW end \in {"done", "raised"}, Finish(t, end)
      PROVE  [Access!Next]_Holders
  BY <1>3, <1>5 DEF Finish, Holds, Holding, Settled
<1>6. ASSUME NEW t \in Trials, CancelHolding(t) PROVE [Access!Next]_Holders
  BY <1>3, <1>6 DEF CancelHolding, Holds, Settled
<1>7. CASE Interrupt \/ UNCHANGED vars
  BY <1>1, <1>7 DEF Interrupt, vars, Holds
<1>. QED
  BY <1>2, <1>4, <1>5, <1>6, <1>7 DEF Next, Step, Over

\* The gate, the semaphore, the retries and Ctrl+C together give every account the
\* access AccountAccess promises.
THEOREM GateImplementsAccess == Spec => AccessSpec
<1>1. Init => Access!Init
  BY DEF Init, Access!Init, Holds, Holding, Scenarios
<1>. QED
  BY <1>1, GateInvariant, StepRefines, PTL
  DEF Spec, AccessSpec, Access!Spec, Holders, HoldersOf

=============================================================================
