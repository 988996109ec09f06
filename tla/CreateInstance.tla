--------------------------- MODULE CreateInstance ---------------------------
(***************************************************************************)
(* POST /api/instances: creating instances on one host, concurrently       *)
(* (createInstance in server/docker.js, admit in server/placement.js, the  *)
(* route in server/routes/instances.js).                                   *)
(*                                                                         *)
(* Every instance has an id of its own, and what is made for it (workspace *)
(* volume, LiteLLM key, container, row) is named after that id.  The       *)
(* instance is LLM-routed and is started at once (autoStart).  A call      *)
(* whose step is in MayFail may fail, MaxFailures times in all, without    *)
(* effect; "crash" stands for the end of the manager process.              *)
(***************************************************************************)
EXTENDS Naturals, FiniteSets

CONSTANTS Ids,           \* instances that may be asked for
          MaxInstances,  \* MAX_INSTANCES
          AtOnce,        \* creations in flight at once
          MaxFailures,   \* failed calls and crashes in a behaviour
          MayFail        \* steps whose call may fail

ASSUME BoundsAssumption ==
  /\ IsFiniteSet(Ids)
  /\ MaxInstances \in Nat /\ AtOnce \in Nat \ {0} /\ MaxFailures \in Nat

VARIABLES progress,      \* per instance: where its creation is
          vols, keys,    \* instances with a volume, with a valid key
          conts,         \* instances with a container
          started,       \* instances with a running one
          rows, hashed,  \* instances with a row, with a key hash in it
          failures

made == <<vols, keys, conts, started>>
recorded == <<rows, hashed>>
creationVars == <<progress, vols, keys, conts, started, rows, hashed, failures>>

\* A creation that failed was undone in full, or left something behind.
Finished == {"idle", "done", "refused", "undone", "failed"}
Steps == Finished \cup {"volume", "mint", "container", "start", "inspect", "hash",
                         "undoKey", "undoVolume", "undoRest"}

CreationTypeOK ==
  /\ progress \in [Ids -> Steps]
  /\ vols \subseteq Ids /\ keys \subseteq Ids /\ conts \subseteq Ids
  /\ started \subseteq conts
  /\ hashed \subseteq rows /\ rows \subseteq Ids
  /\ failures \in 0 .. MaxFailures

CreationInit ==
  /\ progress = [i \in Ids |-> "idle"]
  /\ vols = {} /\ keys = {} /\ conts = {} /\ started = {}
  /\ rows = {} /\ hashed = {}
  /\ failures = MaxFailures

-----------------------------------------------------------------------------
Reached(i, l) == progress[i] = l
GoOn(i, l) == progress' = [progress EXCEPT ![i] = l]
CallFails(i) == progress[i] \in MayFail /\ failures > 0 /\ failures' = failures - 1
Fails(i, l) == CallFails(i) /\ GoOn(i, l) /\ UNCHANGED <<made, recorded>>

UnderWay == {i \in Ids : progress[i] \notin Finished}

\* admit: the instances on record are counted; the row of this one comes last.
MutOneMore(i) ==
  /\ Reached(i, "idle")
  /\ Cardinality(UnderWay) < AtOnce
  /\ GoOn(i, IF Cardinality(rows) > MaxInstances THEN "refused" ELSE "volume")
  /\ UNCHANGED <<made, recorded, failures>>

Admit(i) ==
  /\ Reached(i, "idle")
  /\ Cardinality(UnderWay) < AtOnce
  /\ GoOn(i, IF Cardinality(rows) >= MaxInstances THEN "refused" ELSE "volume")
  /\ UNCHANGED <<made, recorded, failures>>

CreateVolume(i) ==
  /\ Reached(i, "volume")
  /\ \/ /\ vols' = vols \cup {i} /\ GoOn(i, "mint")
        /\ UNCHANGED <<keys, conts, started, recorded, failures>>
     \/ Fails(i, "undone")

MintKey(i) ==
  /\ Reached(i, "mint")
  /\ \/ /\ keys' = keys \cup {i} /\ GoOn(i, "container")
        /\ UNCHANGED <<vols, conts, started, recorded, failures>>
     \/ Fails(i, "undoVolume")

MutForgetKey(i) ==
  /\ Reached(i, "container")
  /\ \/ /\ conts' = conts \cup {i} /\ GoOn(i, "start")
        /\ UNCHANGED <<vols, keys, started, recorded, failures>>
     \/ Fails(i, "undoVolume")

CreateContainer(i) ==
  /\ Reached(i, "container")
  /\ \/ /\ conts' = conts \cup {i} /\ GoOn(i, "start")
        /\ UNCHANGED <<vols, keys, started, recorded, failures>>
     \/ Fails(i, "undoKey")

\* Past the guarded part: a failure here undoes nothing.
Start(i) ==
  /\ Reached(i, "start")
  /\ \/ /\ started' = started \cup {i} /\ GoOn(i, "inspect")
        /\ UNCHANGED <<vols, keys, conts, recorded, failures>>
     \/ Fails(i, "failed")

\* The last call of createInstance; back in the route the row is inserted.
InspectNew(i) ==
  /\ Reached(i, "inspect")
  /\ \/ /\ rows' = rows \cup {i} /\ GoOn(i, "hash")
        /\ UNCHANGED <<made, hashed, failures>>
     \/ Fails(i, "failed")

\* setLiteLLMKey, after another await; then the ACL, best effort.
MutNoHash(i) ==
  /\ Reached(i, "hash")
  /\ GoOn(i, "done")
  /\ UNCHANGED <<made, recorded, failures>>

RecordKey(i) ==
  /\ Reached(i, "hash")
  /\ hashed' = hashed \cup {i}
  /\ GoOn(i, "done")
  /\ UNCHANGED <<made, rows, failures>>

\* The registered undo steps, last one first; a failing one does not stop the
\* next.  At "undoRest" the key could not be revoked.
UndoKey(i) ==
  /\ Reached(i, "undoKey")
  /\ \/ /\ keys' = keys \ {i} /\ GoOn(i, "undoVolume")
        /\ UNCHANGED <<vols, conts, started, recorded, failures>>
     \/ Fails(i, "undoRest")

UndoVolume(i) ==
  /\ progress[i] \in {"undoVolume", "undoRest"}
  /\ \/ /\ vols' = vols \ {i}
        /\ GoOn(i, IF progress[i] = "undoVolume" THEN "undone" ELSE "failed")
        /\ UNCHANGED <<keys, conts, started, recorded, failures>>
     \/ Fails(i, "failed")

ManagerDies ==
  /\ "crash" \in MayFail /\ failures > 0 /\ UnderWay # {}
  /\ failures' = failures - 1
  /\ progress' = [i \in Ids |-> IF i \in UnderWay THEN "failed" ELSE progress[i]]
  /\ UNCHANGED <<made, recorded>>

CreationNext ==
  \/ \E i \in Ids :
       \/ Admit(i) \/ CreateVolume(i) \/ MintKey(i) \/ CreateContainer(i)
       \/ Start(i) \/ InspectNew(i) \/ RecordKey(i) \/ UndoKey(i) \/ UndoVolume(i)
  \/ ManagerDies

CreationSpec == CreationInit /\ [][CreationNext]_creationVars

-----------------------------------------------------------------------------
\* A creation whose undo went through leaves nothing behind, in whatever step it
\* failed and whatever other creations do: no volume, no key that is on no
\* record and nobody could revoke, no container (the comment on the undo list).
\* An undo that is under way still knows everything there is to undo.
UndoneLeavesNothing ==
  \A i \in Ids :
    /\ progress[i] = "undone" => i \notin vols \cup keys \cup conts \cup rows
    /\ progress[i] \in {"undoKey", "undoVolume", "undoRest"} => i \notin conts \cup rows
    /\ progress[i] = "undoVolume" => i \notin keys

\* An instance on record is complete: running when it was created, and its key
\* is on record as soon as the creation is over, so removal can revoke it.
Complete(i) == i \in vols \cap keys \cap started /\ (progress[i] = "done" => i \in hashed)
RecordComplete == \A i \in rows : Complete(i)

\* The cap can be overrun, as rows are counted before the creations under way
\* have one, but only by those: with one creation at a time it holds.
Overrun == Cardinality(rows \cup UnderWay) < MaxInstances + AtOnce

\* What exists for an instance at each point of its creation: the inductive
\* strengthening of the invariants above.
Stage(i) ==
  /\ progress[i] \in {"idle", "refused", "volume", "undone"} =>
       i \notin vols \cup keys \cup conts \cup rows
  /\ progress[i] = "mint" => i \in vols /\ i \notin keys \cup conts \cup rows
  /\ progress[i] \in {"container", "undoKey", "undoVolume", "undoRest"} => i \notin conts \cup rows
  /\ progress[i] = "undoVolume" => i \notin keys
  /\ progress[i] \in {"container", "start", "inspect", "hash"} => i \in vols \cap keys
  /\ progress[i] = "start" => i \in conts
  /\ progress[i] \in {"inspect", "hash"} => i \in started
  /\ progress[i] = "hash" => i \in rows
  /\ i \in rows => progress[i] \in {"hash", "done", "failed"}
Stages == \A i \in Ids : Stage(i)

CreationInv == CreationTypeOK /\ Stages /\ RecordComplete /\ Overrun
=============================================================================
