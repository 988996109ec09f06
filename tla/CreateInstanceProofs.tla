------------------------ MODULE CreateInstanceProofs ------------------------
(***************************************************************************)
(* Proofs about CreateInstance, for every number of instances, every cap,  *)
(* any number of creations in flight, and failures wherever the constants  *)
(* allow them.  Creations do not share resources, so what exists for an    *)
(* instance follows from the point its creation has reached (Stages); they *)
(* meet only in the count of rows that admit compares with the cap.        *)
(***************************************************************************)
EXTENDS CreateInstance, FiniteSetTheorems, TLAPS

\* Nothing has been asked for at first.
LEMMA InitIInv == CreationInit => CreationInv
<1> SUFFICES ASSUME CreationInit PROVE CreationInv
  OBVIOUS
<1>1. CreationTypeOK /\ Stages /\ RecordComplete
  BY BoundsAssumption DEF CreationInit, CreationTypeOK, Stages, Stage, RecordComplete, Steps, Finished
<1>2. rows \cup UnderWay = {}
  BY DEF CreationInit, UnderWay, Finished
<1>3. Overrun
  BY <1>2, FS_EmptySet, BoundsAssumption DEF Overrun
<1>4. QED
  BY <1>1, <1>3 DEF CreationInv

\* The types of all variables are preserved by every step.
LEMMA TypePreserved == CreationTypeOK /\ Stages /\ [CreationNext]_creationVars => CreationTypeOK'
<1> SUFFICES ASSUME CreationTypeOK, Stages, [CreationNext]_creationVars PROVE CreationTypeOK'
  OBVIOUS
<1> USE BoundsAssumption DEF CreationTypeOK, Steps, Finished, Reached, GoOn, made, recorded
<1>1. ASSUME NEW i \in Ids, Admit(i) PROVE CreationTypeOK'
  BY <1>1 DEF Admit
<1>2. ASSUME NEW i \in Ids, CreateVolume(i) PROVE CreationTypeOK'
  BY <1>2 DEF CreateVolume, Fails, CallFails
<1>3. ASSUME NEW i \in Ids, MintKey(i) PROVE CreationTypeOK'
  BY <1>3 DEF MintKey, Fails, CallFails
<1>4. ASSUME NEW i \in Ids, CreateContainer(i) PROVE CreationTypeOK'
  BY <1>4 DEF CreateContainer, Fails, CallFails
<1>5. ASSUME NEW i \in Ids, Start(i) PROVE CreationTypeOK'
  <2>1. i \in conts
    BY <1>5 DEF Stages, Stage, Start
  <2>2. QED
    BY <1>5, <2>1 DEF Start, Fails, CallFails
<1>6. ASSUME NEW i \in Ids, InspectNew(i) PROVE CreationTypeOK'
  BY <1>6 DEF InspectNew, Fails, CallFails
<1>7. ASSUME NEW i \in Ids, RecordKey(i) PROVE CreationTypeOK'
  BY <1>7 DEF RecordKey, Stages, Stage
<1>8. ASSUME NEW i \in Ids, UndoKey(i) PROVE CreationTypeOK'
  BY <1>8 DEF UndoKey, Fails, CallFails
<1>9. ASSUME NEW i \in Ids, UndoVolume(i) PROVE CreationTypeOK'
  BY <1>9 DEF UndoVolume, Fails, CallFails
<1>10. CASE ManagerDies
  BY <1>10 DEF ManagerDies
<1>11. CASE UNCHANGED creationVars
  BY <1>11 DEF creationVars
<1> QED
  BY <1>1, <1>2, <1>3, <1>4, <1>5, <1>6, <1>7, <1>8, <1>9, <1>10, <1>11 DEF CreationNext

\* What exists for an instance keeps step with its creation, and an instance on
\* record stays complete: a step touches nothing of any other instance.
LEMMA StagesPreserved ==
  CreationTypeOK /\ Stages /\ RecordComplete /\ [CreationNext]_creationVars => Stages' /\ RecordComplete'
<1> SUFFICES ASSUME CreationTypeOK, Stages, RecordComplete, [CreationNext]_creationVars, NEW j \in Ids
             PROVE  Stage(j)' /\ (j \in rows' => Complete(j)')
  BY TypePreserved DEF Stages, RecordComplete, CreationTypeOK
<1> DEFINE Kept == Stage(j)' /\ (j \in rows' => Complete(j)')
<1>0. Stage(j) /\ (j \in rows => Complete(j)) /\ progress \in [Ids -> Steps] /\ started \subseteq conts
  BY DEF Stages, RecordComplete, CreationTypeOK
<1> USE <1>0 DEF Stage, Complete, Steps, Finished, Reached, GoOn, made, recorded
<1>1. ASSUME NEW i \in Ids, Admit(i) PROVE Kept
  BY <1>1 DEF Admit
<1>2. ASSUME NEW i \in Ids, CreateVolume(i) PROVE Kept
  BY <1>2 DEF CreateVolume, Fails, CallFails
<1>3. ASSUME NEW i \in Ids, MintKey(i) PROVE Kept
  BY <1>3 DEF MintKey, Fails, CallFails
<1>4. ASSUME NEW i \in Ids, CreateContainer(i) PROVE Kept
  BY <1>4 DEF CreateContainer, Fails, CallFails
<1>5. ASSUME NEW i \in Ids, Start(i) PROVE Kept
  BY <1>5 DEF Start, Fails, CallFails
<1>6. ASSUME NEW i \in Ids, InspectNew(i) PROVE Kept
  BY <1>6 DEF InspectNew, Fails, CallFails
<1>7. ASSUME NEW i \in Ids, RecordKey(i) PROVE Kept
  BY <1>7 DEF RecordKey
<1>8. ASSUME NEW i \in Ids, UndoKey(i) PROVE Kept
  BY <1>8 DEF UndoKey, Fails, CallFails
<1>9. ASSUME NEW i \in Ids, UndoVolume(i) PROVE Kept
  BY <1>9 DEF UndoVolume, Fails, CallFails
<1>10. CASE ManagerDies
  BY <1>10 DEF ManagerDies, UnderWay
<1>11. CASE UNCHANGED creationVars
  BY <1>11 DEF creationVars
<1> QED
  BY <1>1, <1>2, <1>3, <1>4, <1>5, <1>6, <1>7, <1>8, <1>9, <1>10, <1>11 DEF CreationNext

\* A set that only shrinks keeps below its bound.
LEMMA Shrinks ==
  ASSUME CreationTypeOK, Overrun, rows' \cup UnderWay' \subseteq rows \cup UnderWay
  PROVE  Overrun'
<1>1. IsFiniteSet(rows \cup UnderWay)
  <2>1. rows \cup UnderWay \in SUBSET Ids
    BY DEF CreationTypeOK, UnderWay
  <2>2. QED
    BY <2>1, FS_Subset, BoundsAssumption
<1>2. /\ IsFiniteSet(rows' \cup UnderWay')
      /\ Cardinality(rows' \cup UnderWay') <= Cardinality(rows \cup UnderWay)
  BY <1>1, FS_Subset
<1>3. Cardinality(rows' \cup UnderWay') \in Nat /\ Cardinality(rows \cup UnderWay) \in Nat
  BY <1>1, <1>2, FS_CardinalityType
<1>4. QED
  BY <1>2, <1>3, BoundsAssumption DEF Overrun

\* Admission adds one creation to fewer than AtOnce others, and only while
\* fewer than MaxInstances are on record.
LEMMA AdmitBounded ==
  ASSUME CreationTypeOK, Overrun, NEW i \in Ids, Admit(i)
  PROVE  Overrun'
<1> DEFINE others == Cardinality(UnderWay)
<1>1. IsFiniteSet(rows) /\ IsFiniteSet(UnderWay)
  <2>1. rows \in SUBSET Ids /\ UnderWay \in SUBSET Ids
    BY DEF CreationTypeOK, UnderWay
  <2>2. QED
    BY <2>1, FS_Subset, BoundsAssumption
<1>2. rows' = rows /\ progress \in [Ids -> Steps]
  BY DEF Admit, recorded, CreationTypeOK
<1>3. CASE Cardinality(rows) >= MaxInstances
  <2>1. UnderWay' = UnderWay
    BY <1>2, <1>3 DEF Admit, Reached, GoOn, UnderWay, Finished
  <2>2. QED
    BY <1>2, <2>1, Shrinks
<1>4. CASE ~(Cardinality(rows) >= MaxInstances)
  <2>1. UnderWay' = UnderWay \cup {i}
    BY <1>2, <1>4 DEF Admit, Reached, GoOn, UnderWay, Finished
  <2>2. IsFiniteSet(UnderWay') /\ Cardinality(UnderWay') <= others + 1
    <3>1. /\ IsFiniteSet(UnderWay \cup {i})
          /\ Cardinality(UnderWay \cup {i}) = IF i \in UnderWay THEN others ELSE others + 1
      BY <1>1, FS_AddElement
    <3>2. others \in Nat
      BY <1>1, FS_CardinalityType
    <3>3. QED
      BY <2>1, <3>1, <3>2
  <2>3. /\ Cardinality(rows') \in Nat /\ Cardinality(UnderWay') \in Nat
        /\ others \in Nat
    BY <1>1, <1>2, <2>2, FS_CardinalityType
  <2>4. /\ IsFiniteSet(rows' \cap UnderWay')
        /\ Cardinality(rows' \cap UnderWay') \in Nat
    <3>1. rows' \cap UnderWay' \in SUBSET UnderWay'
      OBVIOUS
    <3>2. QED
      BY <2>2, <3>1, FS_Subset, FS_CardinalityType
  <2>5. Cardinality(rows' \cup UnderWay') =
          Cardinality(rows') + Cardinality(UnderWay') - Cardinality(rows' \cap UnderWay')
    BY <1>1, <1>2, <2>2, FS_Union
  <2>6. others < AtOnce /\ Cardinality(rows') < MaxInstances
    BY <1>2, <1>4, <2>3, BoundsAssumption DEF Admit
  <2>7. QED
    BY <2>2, <2>3, <2>4, <2>5, <2>6, BoundsAssumption DEF Overrun
<1>5. QED
  BY <1>3, <1>4

\* The cap is overrun by creations in flight only: every other step takes
\* instances out of the count.
LEMMA OverrunPreserved ==
  CreationTypeOK /\ Stages /\ Overrun /\ [CreationNext]_creationVars => Overrun'
<1> SUFFICES ASSUME CreationTypeOK, Stages, Overrun, [CreationNext]_creationVars PROVE Overrun'
  OBVIOUS
<1> DEFINE Shrunk == rows' \cup UnderWay' \subseteq rows \cup UnderWay
<1>0. progress \in [Ids -> Steps]
  BY DEF CreationTypeOK
<1> USE <1>0 DEF UnderWay, Finished, Steps, Reached, GoOn, made, recorded
<1>1. ASSUME NEW i \in Ids, Admit(i) PROVE Overrun'
  BY <1>1, AdmitBounded
<1>2. ASSUME NEW i \in Ids, CreateVolume(i) PROVE Shrunk
  BY <1>2 DEF CreateVolume, Fails
<1>3. ASSUME NEW i \in Ids, MintKey(i) PROVE Shrunk
  BY <1>3 DEF MintKey, Fails
<1>4. ASSUME NEW i \in Ids, CreateContainer(i) PROVE Shrunk
  BY <1>4 DEF CreateContainer, Fails
<1>5. ASSUME NEW i \in Ids, Start(i) PROVE Shrunk
  BY <1>5 DEF Start, Fails
<1>6. ASSUME NEW i \in Ids, InspectNew(i) PROVE Shrunk
  BY <1>6 DEF InspectNew, Fails
<1>7. ASSUME NEW i \in Ids, RecordKey(i) PROVE Shrunk
  BY <1>7 DEF RecordKey
<1>8. ASSUME NEW i \in Ids, UndoKey(i) PROVE Shrunk
  BY <1>8 DEF UndoKey, Fails
<1>9. ASSUME NEW i \in Ids, UndoVolume(i) PROVE Shrunk
  BY <1>9 DEF UndoVolume, Fails
<1>10. ASSUME ManagerDies PROVE Shrunk
  BY <1>10 DEF ManagerDies
<1>11. ASSUME UNCHANGED creationVars PROVE Shrunk
  BY <1>11 DEF creationVars
<1>12. CASE Shrunk
  BY <1>12, Shrinks
<1> QED
  BY <1>1, <1>2, <1>3, <1>4, <1>5, <1>6, <1>7, <1>8, <1>9, <1>10, <1>11, <1>12 DEF CreationNext

\* The inductive invariant: types, what exists at each point, complete records
\* and the bound hold together in every reachable state.
THEOREM Inductive == CreationSpec => []CreationInv
<1>1. CreationInit => CreationInv
  BY InitIInv
<1>2. CreationInv /\ [CreationNext]_creationVars => CreationInv'
  BY TypePreserved, StagesPreserved, OverrunPreserved DEF CreationInv
<1>3. QED
  BY <1>1, <1>2, PTL DEF CreationSpec

\* Every variable keeps its type.
THEOREM TypeCorrect == CreationSpec => []CreationTypeOK
<1>1. CreationInv => CreationTypeOK
  BY DEF CreationInv
<1>2. QED
  BY <1>1, Inductive, PTL

\* The row the route inserts is that of a running instance with its volume and
\* key, and names the key's hash when the creation is over.
THEOREM RowsComplete == CreationSpec => []RecordComplete
<1>1. CreationInv => RecordComplete
  BY DEF CreationInv
<1>2. QED
  BY <1>1, Inductive, PTL

\* The undo list of createInstance is complete: a creation that was undone has
\* left no volume, key, container or row, whatever failed and whoever else was
\* creating.
THEOREM UndoComplete == CreationSpec => []UndoneLeavesNothing
<1>1. CreationInv => UndoneLeavesNothing
  BY DEF CreationInv, Stages, Stage, UndoneLeavesNothing
<1>2. QED
  BY <1>1, Inductive, PTL

\* The cap holds up to the creations that were in flight together, so it holds
\* when creations come one at a time.
THEOREM OverrunBounded == CreationSpec => []Overrun
<1>1. CreationInv => Overrun
  BY DEF CreationInv
<1>2. QED
  BY <1>1, Inductive, PTL

\* With one creation at a time no more than MAX_INSTANCES rows ever exist.
THEOREM CapWhenSerial ==
  ASSUME AtOnce = 1
  PROVE  CreationSpec => [](Cardinality(rows) <= MaxInstances)
<1>1. CreationInv => Cardinality(rows) <= MaxInstances
  <2> SUFFICES ASSUME CreationInv PROVE Cardinality(rows) <= MaxInstances
    OBVIOUS
  <2>1. IsFiniteSet(rows \cup UnderWay)
    <3>1. rows \cup UnderWay \in SUBSET Ids
      BY DEF CreationInv, CreationTypeOK, UnderWay
    <3>2. QED
      BY <3>1, FS_Subset, BoundsAssumption
  <2>2. IsFiniteSet(rows) /\ Cardinality(rows) <= Cardinality(rows \cup UnderWay)
    BY <2>1, FS_Subset
  <2>3. Cardinality(rows) \in Nat /\ Cardinality(rows \cup UnderWay) \in Nat
    BY <2>1, <2>2, FS_CardinalityType
  <2>4. Cardinality(rows \cup UnderWay) < MaxInstances + 1
    BY DEF CreationInv, Overrun
  <2>5. QED
    BY <2>2, <2>3, <2>4, BoundsAssumption
<1>2. QED
  BY <1>1, Inductive, PTL

\* What the comment on the undo list (docker.js:369-371) says of every creation
\* that failed, whatever call it was that did: nothing it made is left behind.
FailedLeavesNothing ==
  \A i \in Ids : progress[i] \in {"undone", "failed"} => i \notin vols \cup keys \cup conts

\* The calls that come within the part of createInstance that is undone.
Guarded == {"volume", "mint", "container"}

\* The comment on the undo list is right about that part: as long as only these
\* calls fail, none of the undo steps does, and the process goes on, a creation
\* that failed leaves nothing behind, however many fail at a time.  (The start and
\* the inspect that follow are calls like any other, and not among them.)
THEOREM FailedLeavesNothingWhenGuarded ==
  ASSUME MayFail \subseteq Guarded
  PROVE  CreationSpec => []FailedLeavesNothing
<1> DEFINE Inv == \A i \in Ids : progress[i] \notin {"failed", "undoRest"}
<1>1. CreationInit => Inv
  BY DEF CreationInit
<1>2. CreationInv /\ Inv /\ [CreationNext]_creationVars => Inv'
  <2> SUFFICES ASSUME CreationInv, Inv, [CreationNext]_creationVars PROVE Inv'
    OBVIOUS
  <2> USE DEF Guarded, Reached, GoOn, Fails, CallFails
  <2>1. progress \in [Ids -> Steps]
    BY DEF CreationInv, CreationTypeOK
  <2>2. ASSUME NEW i \in Ids, Admit(i) PROVE Inv'
    BY <2>1, <2>2 DEF Admit
  <2>3. ASSUME NEW i \in Ids, CreateVolume(i) PROVE Inv'
    BY <2>1, <2>3 DEF CreateVolume
  <2>4. ASSUME NEW i \in Ids, MintKey(i) PROVE Inv'
    BY <2>1, <2>4 DEF MintKey
  <2>5. ASSUME NEW i \in Ids, CreateContainer(i) PROVE Inv'
    BY <2>1, <2>5 DEF CreateContainer
  <2>6. ASSUME NEW i \in Ids, Start(i) PROVE Inv'
    BY <2>1, <2>6 DEF Start
  <2>7. ASSUME NEW i \in Ids, InspectNew(i) PROVE Inv'
    BY <2>1, <2>7 DEF InspectNew
  <2>8. ASSUME NEW i \in Ids, RecordKey(i) PROVE Inv'
    BY <2>1, <2>8 DEF RecordKey
  <2>9. ASSUME NEW i \in Ids, UndoKey(i) PROVE Inv'
    BY <2>1, <2>9 DEF UndoKey
  <2>10. ASSUME NEW i \in Ids, UndoVolume(i) PROVE Inv'
    BY <2>1, <2>10 DEF UndoVolume
  <2>11. CASE ManagerDies
    BY <2>11 DEF ManagerDies
  <2>12. CASE UNCHANGED creationVars
    BY <2>12 DEF creationVars
  <2> QED
    BY <2>2, <2>3, <2>4, <2>5, <2>6, <2>7, <2>8, <2>9, <2>10, <2>11, <2>12 DEF CreationNext
<1>3. CreationInv /\ Inv => FailedLeavesNothing
  BY DEF CreationInv, Stages, Stage, FailedLeavesNothing
<1>4. QED
  BY <1>1, <1>2, <1>3, Inductive, PTL DEF CreationSpec
=============================================================================
