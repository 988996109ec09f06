----------------------------- MODULE Lifecycle -----------------------------
(***************************************************************************)
(* What the manager does to the containers of ONE LLM-routed instance:     *)
(* recreate, key rotation, removal, start and stop, as concurrent          *)
(* sequences of Docker and LiteLLM calls (server/docker.js,                *)
(* server/routes/instances.js, server/routes/litellm.js).  Nothing locks   *)
(* an instance, so several operations may be between two calls at once.    *)
(*                                                                         *)
(* One action is the code between two awaited calls together with the      *)
(* effect of the call that ended it.  A call may fail (Fault) as often as  *)
(* MaxFaults allows, if its label is in Fallible; a failed call has no     *)
(* effect.  A crash of the manager ("crash" in Fallible) ends every        *)
(* operation in flight.                                                    *)
(*                                                                         *)
(* Containers are numbered in the order Docker creates them.  A secret (a  *)
(* LiteLLM key, an event token) is named after the operation that issued   *)
(* it, and so is the name under which an operation parks a container.      *)
(***************************************************************************)
EXTENDS Naturals, FiniteSets

CONSTANTS Ops,          \* operations; each runs at most once
          Kinds,        \* which of OpKinds may be asked for
          MaxInFlight,  \* operations in flight at once
          MaxFaults,    \* failed calls and crashes in a behaviour
          Fallible,     \* program points whose call may fail
          Main,         \* the name cm-<slug>-<id>
          K0,           \* the secret the instance had at first
          Master,       \* LITELLM_MASTER_KEY
          NoKey         \* no key, no token

ASSUME NamesDistinct ==
  /\ Main \notin Ops
  /\ {K0, Master, NoKey} \cap Ops = {}
  /\ K0 # Master /\ K0 # NoKey /\ Master # NoKey
ASSUME FaultsAssumption == MaxFaults \in Nat

VARIABLES docker,   \* the instance's containers: id -> [name, up, key, tok]
          top,      \* the last container id Docker gave out
          vol,      \* there is a workspace volume
          row,      \* the instance has a row in the instances table
          hash,     \* whose hash is in the row: litellm_key
          dtok,     \* whose digest is in the row: event_token
          valid,    \* keys LiteLLM accepts
          pc, kind, \* per operation: where it is, and what it is
          old, new, \* the container it resolved, the one it created
          ctx,      \* what it read and decided on the way
          faults,   \* failed calls left
          want      \* the last start or stop that was carried out

dockerVars == <<docker, top, vol>>
dbVars == <<row, hash, dtok>>
secretVars == <<dbVars, valid>>
refVars == <<kind, old, new, ctx>>
vars == <<docker, top, vol, row, hash, dtok, valid, pc, kind, old, new, ctx, faults, want>>

\* "purge" is a removal with its volume.
OpKinds == {"recreate", "rotate", "remove", "purge", "start", "stop"}
Removals == {"remove", "purge"}
ASSUME KindsAssumption == Kinds \subseteq OpKinds

Ended == {"idle", "done", "failed"}
\* Program points of recreate before, and after, the replacement is committed.
Before == {"stop", "rename", "create", "startNew", "commit"}
After == {"retire", "final", "revokeOld"}
Undo == {"undoRemove", "undoName", "undoStart", "revoke"}
Points == Ended \cup Before \cup After \cup Undo \cup
  {"mint", "resolve", "inspect", "prepare", "scope", "issue", "dropKey", "act",
   "readVolume", "stopDel", "delete", "dropVolume"}

Keys == Ops \cup {K0, Master}
Secrets == Keys \cup {NoKey}
Names == Ops \cup {Main}
Container == [name : Names, up : BOOLEAN, key : Secrets, tok : Secrets]
Context == [was : BOOLEAN, name : Names, key : Secrets, tok : Secrets,
            prev : Secrets, had : BOOLEAN]

exist == DOMAIN docker

TypeOK ==
  /\ top \in Nat
  /\ exist \in SUBSET (0 .. top)
  /\ docker \in [exist -> Container]
  /\ vol \in BOOLEAN /\ row \in BOOLEAN /\ hash \in Secrets /\ dtok \in Secrets
  /\ valid \in SUBSET Keys
  /\ pc \in [Ops -> Points]
  /\ kind \in [Ops -> OpKinds]
  /\ old \in [Ops -> 0 .. top]
  /\ new \in [Ops -> 0 .. top]
  /\ ctx \in [Ops -> Context]
  /\ faults \in 0 .. MaxFaults
  /\ want \in BOOLEAN

\* An instance with its own key, with a legacy backend key, or from before
\* per-instance keys; with a token on record, without one, or adopted.
Init ==
  /\ \E up \in BOOLEAN, k \in {K0, Master}, h \in {K0, NoKey}, t, d \in {K0, NoKey} :
       /\ h = K0 => k = K0
       /\ d = K0 => t = K0
       /\ docker = [c \in {0} |-> [name |-> Main, up |-> up, key |-> k, tok |-> t]]
       /\ hash = h /\ dtok = d /\ want = up
  /\ top = 0 /\ vol = TRUE
  /\ row = TRUE
  /\ valid = {K0, Master}
  /\ pc = [o \in Ops |-> "idle"]
  /\ kind \in [Ops -> Kinds]
  /\ old = [o \in Ops |-> 0]
  /\ new = [o \in Ops |-> 0]
  /\ ctx = [o \in Ops |-> [was |-> FALSE, name |-> Main, key |-> NoKey,
                           tok |-> NoKey, prev |-> NoKey, had |-> FALSE]]
  /\ faults = MaxFaults

-----------------------------------------------------------------------------
Goto(o, l) == pc' = [pc EXCEPT ![o] = l]
At(o, l) == pc[o] = l

\* The call at o's program point fails; any other call leaves faults alone.
Fault(o) == pc[o] \in Fallible /\ faults > 0 /\ faults' = faults - 1
NoFault == UNCHANGED faults

\* A call on container c is refused: 404, or a failure.
Refused(o, c) == (c \notin exist /\ NoFault) \/ Fault(o)

\* The exception leaves recreateInstance: the rotate route then revokes the
\* key it handed in, the other routes do nothing more.
Throw(o) == Goto(o, IF kind[o] = "rotate" THEN "revoke" ELSE "failed")

Without(c) == [d \in exist \ {c} |-> docker[d]]
Taken(n, c) == \E d \in exist \ {c} : docker[d].name = n

-----------------------------------------------------------------------------
(* The routes, up to the first call.                                       *)

InFlight == {o \in Ops : pc[o] \notin Ended}

Begin(o) ==
  /\ At(o, "idle")
  /\ Cardinality(InFlight) < MaxInFlight
  /\ kind[o] = "rotate" => hash # NoKey          \* else 409 no_instance_key
  /\ ctx' = [ctx EXCEPT ![o] = [@ EXCEPT !.prev = hash, !.had = row]]
  /\ Goto(o, CASE kind[o] = "rotate" -> "mint"
               [] kind[o] \in Removals -> "dropKey"
               [] OTHER -> "resolve")
  /\ UNCHANGED <<dockerVars, secretVars, kind, old, new, faults, want>>

\* POST litellm/rotate: a fresh key copying the old one's scope, which has to
\* be readable (else 409 key_scope_unknown).
MutRevokeFirst(o) ==
  /\ At(o, "mint")
  /\ ctx[o].prev \in valid
  /\ valid' = (valid \ {ctx[o].prev}) \cup {o}
  /\ Goto(o, "resolve")
  /\ UNCHANGED <<dockerVars, dbVars, refVars, faults, want>>

Mint(o) ==
  /\ At(o, "mint")
  /\ \/ /\ ctx[o].prev \in valid
        /\ valid' = valid \cup {o}
        /\ Goto(o, "resolve") /\ NoFault
     \/ /\ (ctx[o].prev \notin valid /\ NoFault) \/ Fault(o)
        /\ Goto(o, "failed") /\ UNCHANGED valid
  /\ UNCHANGED <<dockerVars, dbVars, refVars, want>>

\* resolveContainer: the newest container with the instance's label.
Resolve(o) ==
  /\ At(o, "resolve")
  /\ \/ /\ \E c \in exist : (\A d \in exist : d <= c) /\ old' = [old EXCEPT ![o] = c]
        /\ Goto(o, CASE kind[o] \in {"start", "stop"} -> "act"
                     [] kind[o] = "remove" -> "stopDel"
                     [] kind[o] = "purge" -> "readVolume"
                     [] OTHER -> "inspect")
        /\ NoFault
     \/ /\ (exist = {} /\ NoFault) \/ Fault(o)
        /\ Throw(o) /\ UNCHANGED old
  /\ UNCHANGED <<dockerVars, secretVars, kind, new, ctx, want>>

\* The start and stop routes; 304 counts as success.
Act(o) ==
  /\ At(o, "act")
  /\ \/ /\ old[o] \in exist
        /\ docker' = [docker EXCEPT ![old[o]].up = (kind[o] = "start")]
        /\ want' = (kind[o] = "start")
        /\ Goto(o, "done") /\ NoFault
     \/ Refused(o, old[o]) /\ Throw(o) /\ UNCHANGED <<docker, want>>
  /\ UNCHANGED <<top, vol, secretVars, refVars>>

-----------------------------------------------------------------------------
(* recreateInstance, until the old container is parked.                    *)

Inspect(o) ==
  /\ At(o, "inspect")
  /\ \/ /\ old[o] \in exist
        /\ LET c == docker[old[o]] IN
             ctx' = [ctx EXCEPT ![o] = [@ EXCEPT !.was = c.up, !.name = c.name,
                                                 !.key = c.key, !.tok = c.tok]]
        /\ Goto(o, "prepare") /\ NoFault
     \/ Refused(o, old[o]) /\ Throw(o) /\ UNCHANGED ctx
  /\ UNCHANGED <<dockerVars, secretVars, kind, old, new, want>>

\* The token goes along if its digest is on record, and else is replaced.
TokenFor(o) == IF ctx[o].tok = dtok /\ dtok # NoKey THEN dtok ELSE o

\* The container's key is its own (on record) or a legacy one (none on record).
Usable(o) == ctx[o].key \notin {NoKey, Master} /\ hash \in {ctx[o].key, NoKey}

\* A newer image may have to be pulled and the host has to admit the instance;
\* then it is decided which key the replacement carries: the one the rotation
\* hands in, else the container's own one, else a new one.
Prepare(o) ==
  LET handed == kind[o] = "rotate"
      own == ~handed /\ Usable(o)
  IN
  /\ At(o, "prepare")
  /\ \/ /\ ctx' = [ctx EXCEPT ![o] = [@ EXCEPT !.key = IF own THEN ctx[o].key ELSE o,
                                                 !.tok = TokenFor(o)]]
        /\ Goto(o, CASE own /\ hash # NoKey -> "scope"
                     [] ~own /\ ~handed -> "issue"
                     [] OTHER -> "stop")
        /\ NoFault
     \/ Fault(o) /\ Throw(o) /\ UNCHANGED ctx
  /\ UNCHANGED <<dockerVars, secretVars, kind, old, new, want>>

\* An own key is narrowed to its backend, which fails if LiteLLM does not know it.
ScopeOwn(o) ==
  /\ At(o, "scope")
  /\ \/ ctx[o].key \in valid /\ Goto(o, "stop") /\ NoFault
     \/ ((ctx[o].key \notin valid /\ NoFault) \/ Fault(o)) /\ Throw(o)
  /\ UNCHANGED <<dockerVars, secretVars, refVars, want>>

Issue(o) ==
  /\ At(o, "issue")
  /\ \/ valid' = valid \cup {o} /\ Goto(o, "stop") /\ NoFault
     \/ Fault(o) /\ Throw(o) /\ UNCHANGED valid
  /\ UNCHANGED <<dockerVars, dbVars, refVars, want>>

StopOld(o) ==
  /\ At(o, "stop")
  /\ \/ ~ctx[o].was /\ Goto(o, "rename") /\ NoFault /\ UNCHANGED docker
     \/ /\ ctx[o].was /\ old[o] \in exist
        /\ docker' = [docker EXCEPT ![old[o]].up = FALSE]
        /\ Goto(o, "rename") /\ NoFault
     \/ ctx[o].was /\ Refused(o, old[o]) /\ Throw(o) /\ UNCHANGED docker
  /\ UNCHANGED <<top, vol, secretVars, refVars, want>>

\* The old way: the old container is destroyed before the new one exists.
MutDestroyFirst(o) ==
  /\ At(o, "rename")
  /\ \/ /\ old[o] \in exist
        /\ docker' = Without(old[o])
        /\ Goto(o, "create") /\ NoFault
     \/ Refused(o, old[o]) /\ Throw(o) /\ UNCHANGED docker
  /\ UNCHANGED <<top, vol, secretVars, refVars, want>>

Rename(o) ==
  /\ At(o, "rename")
  /\ \/ /\ old[o] \in exist
        /\ docker' = [docker EXCEPT ![old[o]].name = o]
        /\ Goto(o, "create") /\ NoFault
     \/ Refused(o, old[o]) /\ Throw(o) /\ UNCHANGED docker
  /\ UNCHANGED <<top, vol, secretVars, refVars, want>>

-----------------------------------------------------------------------------
(* recreateInstance, the guarded part and its undo.                        *)

\* The replacement of o, as created: not running.
Replacement(o) == [name |-> ctx[o].name, up |-> FALSE, key |-> ctx[o].key, tok |-> ctx[o].tok]

Create(o) ==
  /\ At(o, "create")
  /\ \/ /\ ~Taken(ctx[o].name, top + 1)
        /\ top' = top + 1
        /\ docker' = [c \in exist \cup {top'} |->
             IF c = top' THEN Replacement(o) ELSE docker[c]]
        /\ new' = [new EXCEPT ![o] = top'] /\ vol' = TRUE   \* a missing volume is made anew
        /\ Goto(o, IF ctx[o].was THEN "startNew" ELSE "commit") /\ NoFault
     \/ /\ (Taken(ctx[o].name, top + 1) /\ NoFault) \/ Fault(o)   \* 409, or a failure
        /\ Goto(o, "undoName") /\ UNCHANGED <<dockerVars, new>>
  /\ UNCHANGED <<secretVars, kind, old, ctx, want>>

\* A replacement somebody else started meanwhile answers 304, which is an
\* error here: unlike startInstance, recreateInstance does not accept it.
StartNew(o) ==
  LET startable == new[o] \in exist /\ ~docker[new[o]].up IN
  /\ At(o, "startNew")
  /\ \/ /\ startable
        /\ docker' = [docker EXCEPT ![new[o]].up = TRUE]
        /\ Goto(o, "commit") /\ NoFault
     \/ /\ (~startable /\ NoFault) \/ Fault(o)
        /\ Goto(o, "undoRemove") /\ UNCHANGED docker
  /\ UNCHANGED <<top, vol, secretVars, refVars, want>>

\* What the new container carries and the row does not know is recorded.  An
\* UPDATE of a row that is gone changes nothing.
MutForgetHash(o) ==
  /\ At(o, "commit")
  /\ dtok' = IF row /\ ctx[o].tok = o THEN o ELSE dtok
  /\ Goto(o, "retire")
  /\ UNCHANGED <<dockerVars, row, hash, valid, refVars, faults, want>>

Commit(o) ==
  /\ At(o, "commit")
  /\ hash' = IF row /\ ctx[o].key = o THEN o ELSE hash
  /\ dtok' = IF row /\ ctx[o].tok = o THEN o ELSE dtok
  /\ Goto(o, "retire")
  /\ UNCHANGED <<dockerVars, row, valid, refVars, faults, want>>

Retire(o) ==
  /\ At(o, "retire")
  /\ \/ old[o] \in exist /\ docker' = Without(old[o]) /\ Goto(o, "final") /\ NoFault
     \/ Refused(o, old[o]) /\ Throw(o) /\ UNCHANGED docker
  /\ UNCHANGED <<top, vol, secretVars, refVars, want>>

\* The last inspect; back in the recreate route the row is upserted, which
\* inserts it again if it was removed meanwhile.
Final(o) ==
  /\ At(o, "final")
  /\ \/ /\ new[o] \in exist
        /\ row' = (row \/ (kind[o] = "recreate" /\ ctx[o].had))
        /\ Goto(o, IF kind[o] = "rotate" THEN "revokeOld" ELSE "done") /\ NoFault
     \/ Refused(o, new[o]) /\ Throw(o) /\ UNCHANGED row
  /\ UNCHANGED <<dockerVars, hash, dtok, valid, refVars, want>>

\* The rotate route's last step, best effort.
RevokeOld(o) ==
  /\ At(o, "revokeOld")
  /\ (valid' = valid \ {ctx[o].prev} /\ NoFault) \/ (UNCHANGED valid /\ Fault(o))
  /\ Goto(o, "done")
  /\ UNCHANGED <<dockerVars, dbVars, refVars, want>>

\* The undo, each step best effort: remove the replacement if there is one,
\* give the old container its name and its state back, revoke a minted key.
UndoRemove(o) ==
  /\ At(o, "undoRemove")
  /\ (docker' = Without(new[o]) /\ NoFault) \/ (UNCHANGED docker /\ Fault(o))
  /\ Goto(o, "undoName")
  /\ UNCHANGED <<top, vol, secretVars, refVars, want>>

UndoName(o) ==
  LET free == old[o] \in exist /\ ~Taken(ctx[o].name, old[o]) IN
  /\ At(o, "undoName")
  /\ \/ free /\ docker' = [docker EXCEPT ![old[o]].name = ctx[o].name] /\ NoFault
     \/ ((~free /\ NoFault) \/ Fault(o)) /\ UNCHANGED docker
  /\ Goto(o, IF ctx[o].was THEN "undoStart" ELSE "revoke")
  /\ UNCHANGED <<top, vol, secretVars, refVars, want>>

MutLeaveStopped(o) ==
  /\ At(o, "undoStart")
  /\ Goto(o, "revoke")
  /\ UNCHANGED <<dockerVars, secretVars, refVars, faults, want>>

UndoStart(o) ==
  /\ At(o, "undoStart")
  /\ \/ old[o] \in exist /\ docker' = [docker EXCEPT ![old[o]].up = TRUE] /\ NoFault
     \/ Refused(o, old[o]) /\ UNCHANGED docker
  /\ Goto(o, "revoke")
  /\ UNCHANGED <<top, vol, secretVars, refVars, want>>

\* deleteVirtualKey of the key issued for o, best effort.
Revoke(o) ==
  /\ At(o, "revoke")
  /\ (valid' = valid \ {o} /\ NoFault) \/ (UNCHANGED valid /\ Fault(o))
  /\ Goto(o, "failed")
  /\ UNCHANGED <<dockerVars, dbVars, refVars, want>>

-----------------------------------------------------------------------------
(* DELETE /api/instances/:id: the key first (best effort), the container,  *)
(* then every record of the instance.                                      *)

DropKey(o) ==
  /\ At(o, "dropKey")
  /\ (valid' = valid \ {hash} /\ NoFault) \/ (UNCHANGED valid /\ Fault(o))
  /\ Goto(o, "resolve")
  /\ UNCHANGED <<dockerVars, dbVars, refVars, want>>

\* The name of the volume, off the container's mounts: a container that is gone
\* (404) leaves it unknown, and the volume behind.
ReadVolume(o) ==
  /\ At(o, "readVolume")
  /\ \/ ctx' = [ctx EXCEPT ![o].was = old[o] \in exist] /\ Goto(o, "stopDel") /\ NoFault
     \/ Fault(o) /\ Throw(o) /\ UNCHANGED ctx
  /\ UNCHANGED <<dockerVars, secretVars, kind, old, new, want>>

\* 304 and 404 count as stopped.
StopDel(o) ==
  /\ At(o, "stopDel")
  /\ \/ /\ docker' = IF old[o] \in exist THEN [docker EXCEPT ![old[o]].up = FALSE] ELSE docker
        /\ Goto(o, "delete") /\ NoFault
     \/ Fault(o) /\ Throw(o) /\ UNCHANGED docker
  /\ UNCHANGED <<top, vol, secretVars, refVars, want>>

\* Every record of the instance, once removeInstance has returned.
RecordsGo == row' = FALSE /\ hash' = NoKey /\ dtok' = NoKey

Delete(o) ==
  LET more == kind[o] = "purge" /\ ctx[o].was IN
  /\ At(o, "delete")
  /\ \/ /\ old[o] \in exist
        /\ docker' = Without(old[o])
        /\ (more /\ UNCHANGED dbVars) \/ (~more /\ RecordsGo)
        /\ Goto(o, IF more THEN "dropVolume" ELSE "done") /\ NoFault
     \/ Refused(o, old[o]) /\ Throw(o) /\ UNCHANGED <<docker, dbVars>>
  /\ UNCHANGED <<top, vol, valid, refVars, want>>

\* A missing volume will do (404); one that another container mounts is refused
\* (409), and then the records stay.
MutKeepVolume(o) ==
  /\ At(o, "dropVolume")
  /\ RecordsGo /\ Goto(o, "done")
  /\ UNCHANGED <<dockerVars, valid, refVars, faults, want>>

DropVolume(o) ==
  /\ At(o, "dropVolume")
  /\ \/ exist = {} /\ vol' = FALSE /\ RecordsGo /\ Goto(o, "done") /\ NoFault
     \/ ((exist # {} /\ NoFault) \/ Fault(o)) /\ Throw(o) /\ UNCHANGED <<vol, dbVars>>
  /\ UNCHANGED <<docker, top, valid, refVars, want>>

-----------------------------------------------------------------------------
\* The manager dies: what was done stays done, nothing is taken up again.
Crash ==
  /\ "crash" \in Fallible /\ faults > 0
  /\ InFlight # {}
  /\ faults' = faults - 1
  /\ pc' = [o \in Ops |-> IF o \in InFlight THEN "failed" ELSE pc[o]]
  /\ UNCHANGED <<dockerVars, secretVars, refVars, want>>

Recreate(o) ==
  \/ Inspect(o) \/ Prepare(o) \/ ScopeOwn(o) \/ Issue(o) \/ StopOld(o) \/ Rename(o) \/ Create(o) \/ StartNew(o)
  \/ Commit(o) \/ Retire(o) \/ Final(o)
  \/ UndoRemove(o) \/ UndoName(o) \/ UndoStart(o) \/ Revoke(o)

Next ==
  \/ \E o \in Ops :
       \/ Begin(o) \/ Mint(o) \/ Resolve(o) \/ Act(o) \/ RevokeOld(o)
       \/ DropKey(o) \/ ReadVolume(o) \/ StopDel(o) \/ Delete(o) \/ DropVolume(o) \/ Recreate(o)
  \/ Crash

Spec == Init /\ [][Next]_vars

-----------------------------------------------------------------------------
Quiet == InFlight = {}
Newest == CHOOSE c \in exist : \A d \in exist : d <= c
RemoveAsked == \E o \in Ops : kind[o] \in Removals /\ pc[o] # "idle"

\* Create-before-destroy: until somebody asks for its removal, the instance
\* has a container, however recreates and rotations overlap, fail or are cut
\* short (recreateInstance: a failed create "lost the instance").
InstanceKept == RemoveAsked \/ exist # {}

\* One operation at a time, a call failing in recreate's guarded part or
\* before anything was stopped: in the end there is one container, under the
\* instance's name, and it runs iff the user last asked it to.
RestoredOrReplaced ==
  Quiet /\ exist # {} =>
    exist = {Newest} /\ docker[Newest].name = Main /\ docker[Newest].up = want

\* What a recreated container carries is what the database has on record: its
\* callbacks are accepted, and its key can be scoped, rotated and revoked.
SecretsAgree ==
  Quiet /\ exist # {} /\ Newest # 0 =>
    /\ docker[Newest].tok = dtok
    /\ docker[Newest].key = hash \/ (hash = NoKey /\ docker[Newest].key = K0)

\* No instance is left on a deleted key (the comment on the rotate route).
NotOnDeletedKey == Quiet /\ exist # {} => docker[Newest].key \in valid

\* A removal, when no call failed, leaves no container and no key the manager
\* issued for the instance on the way, and one that was to take the volume along
\* leaves no volume (removeInstance, the DELETE route).
RemoveLeavesNothing ==
  Quiet /\ ~row /\ faults = MaxFaults =>
    /\ exist = {} /\ valid \cap Ops = {}
    /\ vol => \E o \in Ops : kind[o] = "remove" /\ pc[o] = "done"
-----------------------------------------------------------------------------
(* One operation at a time, this module implements AtomicInstance.         *)

\* There is a replacement, and it may still be undone.
Pending == {"startNew", "commit", "undoRemove"}

\* Calls that fail before the old container is touched, or in the guarded part.
Undone == {"mint", "inspect", "prepare", "scope", "issue", "stop", "create", "startNew", "dropKey"}

\* An operation's old container is the instance until its replacement is on
\* record, and a removal is one from the moment it revokes the key.
Shown == IF \E o \in Ops : pc[o] \in Pending
  THEN old[CHOOSE o \in Ops : pc[o] \in Pending] ELSE Newest
Doomed == \E o \in Ops :
  kind[o] \in Removals /\ pc[o] \in {"resolve", "readVolume", "stopDel", "delete", "dropVolume"}

\* While an operation has the container stopped, the instance counts as it found it.
Interrupted == {"rename", "create", "startNew", "commit", "undoRemove", "undoName", "undoStart"}
Runs == IF \E o \in Ops : pc[o] \in Interrupted
  THEN ctx[CHOOSE o \in Ops : pc[o] \in Interrupted].was ELSE docker[Shown].up

There == exist # {} /\ ~Doomed
Seen == IF There
  THEN [there |-> TRUE, running |-> Runs, key |-> docker[Shown].key, tok |-> docker[Shown].tok]
  ELSE [there |-> FALSE, running |-> FALSE, key |-> NoKey, tok |-> NoKey]
OnRecord == IF There THEN [key |-> hash, tok |-> dtok] ELSE [key |-> NoKey, tok |-> NoKey]

\* Whatever the manager does between two calls, an instance that nobody removes
\* is one container with one key and one token: a recreate, a rotation or a
\* removal that meets no other operation takes effect at one moment or never.
Atomic == INSTANCE AtomicInstance WITH
  Original <- K0, NoSecret <- NoKey, inst <- Seen, record <- OnRecord, accepted <- valid
AtomicSpec == Atomic!Spec
=============================================================================
