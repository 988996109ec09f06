-------------------------- MODULE LifecycleProofs --------------------------
(* Proofs about Lifecycle: the instance always keeps a container, however  *)
(* operations overlap; and, when they come one at a time, it is replaced   *)
(* or restored as a whole, with secrets that agree, and Lifecycle          *)
(* implements AtomicInstance.                                              *)
EXTENDS Lifecycle, FiniteSetTheorems, TLAPS

\* Why the instance is kept: some container m outlives every removal under way.
\* An operation that is about to retire its old container retires an older one
\* than m, and one that may still undo its replacement did not create m; if its
\* replacement is gone already, a newer one stands in for it.
Survivor(m) ==
  \A o \in Ops :
    /\ pc[o] = "retire" => old[o] < m
    /\ pc[o] \in Pending => new[o] # m /\ (new[o] \in exist \/ new[o] < m)
Created ==
  /\ \A o \in Ops : pc[o] \in Pending => old[o] < new[o]
  /\ \A o, p \in Ops : pc[o] \in Pending /\ pc[p] \in Pending /\ new[o] = new[p] => o = p
Removing == \A o \in Ops : pc[o] \in {"dropKey", "readVolume", "stopDel", "delete"} => kind[o] \in Removals
Kept == Created /\ Removing /\ (RemoveAsked \/ \E m \in exist : Survivor(m))
IInv == TypeOK /\ Kept

\* A step of one operation that touches neither the set of containers nor the
\* references to them keeps Kept, unless it enters the window in which a
\* replacement is pending, or the retirement of the old container.
LEMMA Frame ==
  ASSUME Kept, pc \in [Ops -> Points], UNCHANGED <<kind, new>>, exist' = exist,
         NEW o \in Ops, NEW l \in Points, Goto(o, l), l \notin {"idle", "retire"},
         \A p \in Ops : p # o \/ l \in Pending => old'[p] = old[p],
         l \in Pending => pc[o] \in Pending,
         l \in {"dropKey", "readVolume", "stopDel", "delete"} => kind[o] \in Removals
  PROVE  Kept'
<1> USE DEF Kept, Goto
<1>1. Created' BY DEF Created, Pending
<1>2. Removing' BY DEF Removing
<1>3. RemoveAsked => RemoveAsked' BY DEF RemoveAsked
<1>4. ASSUME NEW m \in exist, Survivor(m) PROVE Survivor(m)'
  BY <1>4 DEF Survivor, Pending
<1> QED BY <1>1, <1>2, <1>3, <1>4

\* Nothing is asked for, or pending, at first.
LEMMA InitIInv == Init => IInv
<1> SUFFICES ASSUME Init PROVE IInv OBVIOUS
<1>1. PICK up \in BOOLEAN, k \in {K0, Master}, h \in {K0, NoKey}, t \in {K0, NoKey},
          d \in {K0, NoKey} :
        /\ docker = [c \in {0} |-> [name |-> Main, up |-> up, key |-> k, tok |-> t]]
        /\ hash = h /\ dtok = d /\ want = up
  BY DEF Init
<1>2. exist = {0} BY <1>1 DEF exist
<1>3. docker \in [exist -> Container]
  BY <1>1, <1>2 DEF Container, Names, Secrets, Keys
<1>4. TypeOK
  <2>1. ctx \in [Ops -> Context] BY DEF Init, Context, Names, Secrets, Keys
  <2>2. pc \in [Ops -> Points] BY DEF Init, Points, Ended
  <2>3. old \in [Ops -> 0 .. top] /\ new \in [Ops -> 0 .. top] BY DEF Init
  <2>4. kind \in [Ops -> OpKinds] BY KindsAssumption DEF Init
  <2>5. valid \in SUBSET Keys BY DEF Init, Keys
  <2>6. hash \in Secrets /\ dtok \in Secrets /\ want \in BOOLEAN BY <1>1 DEF Secrets, Keys
  <2>7. faults \in 0 .. MaxFaults BY FaultsAssumption DEF Init
  <2>8. exist \in SUBSET (0 .. top) /\ top \in Nat /\ vol \in BOOLEAN /\ row \in BOOLEAN BY <1>2 DEF Init
  <2> QED BY <1>3, <2>8, <2>1, <2>2, <2>3, <2>4, <2>5, <2>6, <2>7 DEF TypeOK
<1>5. Kept
  BY <1>2 DEF Kept, Created, Removing, Survivor, Pending, Init
<1> QED BY <1>4, <1>5 DEF IInv

\* What one operation can do in one step.
Step(o) ==
  \/ Begin(o) \/ Mint(o) \/ Resolve(o) \/ Act(o) \/ RevokeOld(o) \/ DropKey(o) \/ ReadVolume(o)
  \/ StopDel(o) \/ Delete(o) \/ DropVolume(o) \/ Recreate(o)

\* A step moves its operation to some program point.
LEMMA PointsType ==
  ASSUME TypeOK, NEW o \in Ops, Step(o)
  PROVE  \E l \in Points : Goto(o, l)
<1> USE DEF Points, Ended, Before, After, Undo, Throw
<1>1. CASE Begin(o) BY <1>1 DEF Begin
<1>2. CASE Mint(o) BY <1>2 DEF Mint
<1>3. CASE Resolve(o) BY <1>3 DEF Resolve
<1>4. CASE Act(o) BY <1>4 DEF Act
<1>5. CASE RevokeOld(o) BY <1>5 DEF RevokeOld
<1>6. CASE DropKey(o) BY <1>6 DEF DropKey
<1>7. CASE StopDel(o) BY <1>7 DEF StopDel
<1>8. CASE Delete(o) BY <1>8 DEF Delete
<1>9. CASE Inspect(o) BY <1>9 DEF Inspect
<1>10. CASE Prepare(o) BY <1>10 DEF Prepare
<1>11. CASE StopOld(o) BY <1>11 DEF StopOld
<1>12. CASE Rename(o) BY <1>12 DEF Rename
<1>13. CASE Create(o) BY <1>13 DEF Create
<1>14. CASE StartNew(o) BY <1>14 DEF StartNew
<1>15. CASE Commit(o) BY <1>15 DEF Commit
<1>16. CASE Retire(o) BY <1>16 DEF Retire
<1>17. CASE Final(o) BY <1>17 DEF Final
<1>18. CASE UndoRemove(o) BY <1>18 DEF UndoRemove
<1>19. CASE UndoName(o) BY <1>19 DEF UndoName
<1>20. CASE UndoStart(o) BY <1>20 DEF UndoStart
<1>21. CASE Revoke(o) BY <1>21 DEF Revoke
<1>22. CASE ReadVolume(o) BY <1>22 DEF ReadVolume
<1>23. CASE DropVolume(o) BY <1>23 DEF DropVolume
<1>24. CASE ScopeOwn(o) BY <1>24 DEF ScopeOwn
<1>25. CASE Issue(o) BY <1>25 DEF Issue
<1> QED BY <1>1, <1>2, <1>3, <1>4, <1>5, <1>6, <1>7, <1>8, <1>9, <1>10, <1>11, <1>12, <1>13, <1>14,
         <1>15, <1>16, <1>17, <1>18, <1>19, <1>20, <1>21, <1>22, <1>23, <1>24,
         <1>25 DEF Step, Recreate

\* A step uses up at most one fault.
LEMMA FaultsType ==
  ASSUME TypeOK, NEW o \in Ops, Step(o)
  PROVE  faults' \in 0 .. MaxFaults
<1> USE DEF TypeOK, NoFault, Fault, Refused, dockerVars, secretVars, dbVars, refVars
<1>1. CASE Begin(o) BY <1>1, FaultsAssumption DEF Begin
<1>2. CASE Mint(o) BY <1>2, FaultsAssumption DEF Mint
<1>3. CASE Resolve(o) BY <1>3, FaultsAssumption DEF Resolve
<1>4. CASE Act(o) BY <1>4, FaultsAssumption DEF Act
<1>5. CASE RevokeOld(o) BY <1>5, FaultsAssumption DEF RevokeOld
<1>6. CASE DropKey(o) BY <1>6, FaultsAssumption DEF DropKey
<1>7. CASE StopDel(o) BY <1>7, FaultsAssumption DEF StopDel
<1>8. CASE Delete(o) BY <1>8, FaultsAssumption DEF Delete
<1>9. CASE Inspect(o) BY <1>9, FaultsAssumption DEF Inspect
<1>10. CASE Prepare(o) BY <1>10, FaultsAssumption DEF Prepare
<1>11. CASE StopOld(o) BY <1>11, FaultsAssumption DEF StopOld
<1>12. CASE Rename(o) BY <1>12, FaultsAssumption DEF Rename
<1>13. CASE Create(o) BY <1>13, FaultsAssumption DEF Create
<1>14. CASE StartNew(o) BY <1>14, FaultsAssumption DEF StartNew
<1>15. CASE Commit(o) BY <1>15, FaultsAssumption DEF Commit
<1>16. CASE Retire(o) BY <1>16, FaultsAssumption DEF Retire
<1>17. CASE Final(o) BY <1>17, FaultsAssumption DEF Final
<1>18. CASE UndoRemove(o) BY <1>18, FaultsAssumption DEF UndoRemove
<1>19. CASE UndoName(o) BY <1>19, FaultsAssumption DEF UndoName
<1>20. CASE UndoStart(o) BY <1>20, FaultsAssumption DEF UndoStart
<1>21. CASE Revoke(o) BY <1>21, FaultsAssumption DEF Revoke
<1>22. CASE ReadVolume(o) BY <1>22, FaultsAssumption DEF ReadVolume
<1>23. CASE DropVolume(o) BY <1>23, FaultsAssumption DEF DropVolume
<1>24. CASE ScopeOwn(o) BY <1>24, FaultsAssumption DEF ScopeOwn
<1>25. CASE Issue(o) BY <1>25, FaultsAssumption DEF Issue
<1> QED BY <1>1, <1>2, <1>3, <1>4, <1>5, <1>6, <1>7, <1>8, <1>9, <1>10, <1>11, <1>12, <1>13, <1>14,
         <1>15, <1>16, <1>17, <1>18, <1>19, <1>20, <1>21, <1>22, <1>23, <1>24,
         <1>25 DEF Step, Recreate

\* The volume, the row, the keys and the user's last wish.
LEMMA SecretsType ==
  ASSUME TypeOK, NEW o \in Ops, Step(o)
  PROVE  vol' \in BOOLEAN /\ row' \in BOOLEAN /\ hash' \in Secrets /\ dtok' \in Secrets
         /\ valid' \in SUBSET Keys /\ want' \in BOOLEAN
<1> USE DEF TypeOK, dockerVars, secretVars, dbVars, refVars, RecordsGo, Secrets, Keys
<1>1. CASE Begin(o) BY <1>1 DEF Begin
<1>2. CASE Mint(o) BY <1>2 DEF Mint
<1>3. CASE Resolve(o) BY <1>3 DEF Resolve
<1>4. CASE Act(o) BY <1>4 DEF Act
<1>5. CASE RevokeOld(o) BY <1>5 DEF RevokeOld
<1>6. CASE DropKey(o) BY <1>6 DEF DropKey
<1>7. CASE StopDel(o) BY <1>7 DEF StopDel
<1>8. CASE Delete(o) BY <1>8 DEF Delete
<1>9. CASE Inspect(o) BY <1>9 DEF Inspect
<1>10. CASE Prepare(o) BY <1>10 DEF Prepare
<1>11. CASE StopOld(o) BY <1>11 DEF StopOld
<1>12. CASE Rename(o) BY <1>12 DEF Rename
<1>13. CASE Create(o) BY <1>13 DEF Create
<1>14. CASE StartNew(o) BY <1>14 DEF StartNew
<1>15. CASE Commit(o) BY <1>15 DEF Commit
<1>16. CASE Retire(o) BY <1>16 DEF Retire
<1>17. CASE Final(o) BY <1>17 DEF Final
<1>18. CASE UndoRemove(o) BY <1>18 DEF UndoRemove
<1>19. CASE UndoName(o) BY <1>19 DEF UndoName
<1>20. CASE UndoStart(o) BY <1>20 DEF UndoStart
<1>21. CASE Revoke(o) BY <1>21 DEF Revoke
<1>22. CASE ReadVolume(o) BY <1>22 DEF ReadVolume
<1>23. CASE DropVolume(o) BY <1>23 DEF DropVolume
<1>24. CASE ScopeOwn(o) BY <1>24 DEF ScopeOwn
<1>25. CASE Issue(o) BY <1>25 DEF Issue
<1> QED BY <1>1, <1>2, <1>3, <1>4, <1>5, <1>6, <1>7, <1>8, <1>9, <1>10, <1>11, <1>12, <1>13, <1>14,
         <1>15, <1>16, <1>17, <1>18, <1>19, <1>20, <1>21, <1>22, <1>23, <1>24,
         <1>25 DEF Step, Recreate

\* What an operation holds on to.
LEMMA RefsType ==
  ASSUME TypeOK, NEW o \in Ops, Step(o)
  PROVE  kind' \in [Ops -> OpKinds] /\ ctx' \in [Ops -> Context]
<1> USE DEF TypeOK, dockerVars, secretVars, dbVars, refVars
<1>1. CASE Begin(o)
  <2>1. [ctx[o] EXCEPT !.prev = hash, !.had = row] \in Context BY DEF Context
  <2> QED BY <1>1, <2>1 DEF Begin
<1>2. CASE Mint(o) BY <1>2 DEF Mint
<1>3. CASE Resolve(o) BY <1>3 DEF Resolve
<1>4. CASE Act(o) BY <1>4 DEF Act
<1>5. CASE RevokeOld(o) BY <1>5 DEF RevokeOld
<1>6. CASE DropKey(o) BY <1>6 DEF DropKey
<1>7. CASE StopDel(o) BY <1>7 DEF StopDel
<1>8. CASE Delete(o) BY <1>8 DEF Delete
<1>9. CASE Inspect(o)
  <2>1. ASSUME NEW c \in Container
        PROVE  [ctx[o] EXCEPT !.was = c.up, !.name = c.name, !.key = c.key, !.tok = c.tok] \in Context
    <3>1. c.up \in BOOLEAN /\ c.name \in Names /\ c.key \in Secrets /\ c.tok \in Secrets
      BY DEF Container
    <3>2. ASSUME NEW x \in Context, NEW u \in BOOLEAN, NEW n \in Names,
                 NEW k \in Secrets, NEW t \in Secrets
          PROVE  [x EXCEPT !.was = u, !.name = n, !.key = k, !.tok = t] \in Context
      <4> HIDE DEF TypeOK
      <4>1. [x EXCEPT !.was = u, !.name = n] \in Context BY DEF Context
      <4>2. ASSUME NEW y \in Context PROVE [y EXCEPT !.key = k, !.tok = t] \in Context BY DEF Context
      <4>3. [[x EXCEPT !.was = u, !.name = n] EXCEPT !.key = k, !.tok = t]
              = [x EXCEPT !.was = u, !.name = n, !.key = k, !.tok = t] OBVIOUS
      <4> QED BY <4>1, <4>2, <4>3
    <3>3. ctx[o] \in Context OBVIOUS
    <3> QED BY <3>1, <3>2, <3>3
  <2>2. CASE old[o] \in exist /\ ctx' # ctx
    <3> DEFINE c == docker[old[o]]
    <3>1. [ctx[o] EXCEPT !.was = c.up, !.name = c.name, !.key = c.key, !.tok = c.tok] \in Context
      BY <2>1, <2>2
    <3> QED BY <1>9, <2>2, <3>1 DEF Inspect
  <2>3. CASE ctx' = ctx BY <1>9, <2>3 DEF Inspect
  <2> QED BY <1>9, <2>2, <2>3 DEF Inspect
<1>10. CASE Prepare(o)
  <2>1. ASSUME NEW k \in Secrets, NEW t \in Secrets
        PROVE  [ctx[o] EXCEPT !.key = k, !.tok = t] \in Context
    BY DEF Context
  <2>2. TokenFor(o) \in Secrets /\ o \in Secrets /\ ctx[o].key \in Secrets
    BY DEF TokenFor, Secrets, Keys, Context
  <2>3. ASSUME NEW k \in {ctx[o].key, o},
               ctx' = [ctx EXCEPT ![o] = [@ EXCEPT !.key = k, !.tok = TokenFor(o)]]
        PROVE  ctx' \in [Ops -> Context]
    BY <2>1, <2>2, <2>3
  <2> DEFINE k == IF kind[o] # "rotate" /\ Usable(o) THEN ctx[o].key ELSE o
  <2>4. \/ ctx' = [ctx EXCEPT ![o] = [@ EXCEPT !.key = k, !.tok = TokenFor(o)]]
        \/ ctx' = ctx
    BY <1>10 DEF Prepare
  <2> QED BY <1>10, <2>3, <2>4 DEF Prepare
<1>11. CASE StopOld(o) BY <1>11 DEF StopOld
<1>12. CASE Rename(o) BY <1>12 DEF Rename
<1>13. CASE Create(o) BY <1>13 DEF Create
<1>14. CASE StartNew(o) BY <1>14 DEF StartNew
<1>15. CASE Commit(o) BY <1>15 DEF Commit
<1>16. CASE Retire(o) BY <1>16 DEF Retire
<1>17. CASE Final(o) BY <1>17 DEF Final
<1>18. CASE UndoRemove(o) BY <1>18 DEF UndoRemove
<1>19. CASE UndoName(o) BY <1>19 DEF UndoName
<1>20. CASE UndoStart(o) BY <1>20 DEF UndoStart
<1>21. CASE Revoke(o) BY <1>21 DEF Revoke
<1>22. CASE ReadVolume(o)
  <2>1. \A b \in BOOLEAN : [ctx[o] EXCEPT !.was = b] \in Context BY DEF Context
  <2>2. (old[o] \in exist) \in BOOLEAN OBVIOUS
  <2> QED BY <1>22, <2>1, <2>2 DEF ReadVolume
<1>23. CASE DropVolume(o) BY <1>23 DEF DropVolume
<1>24. CASE ScopeOwn(o) BY <1>24 DEF ScopeOwn
<1>25. CASE Issue(o) BY <1>25 DEF Issue
<1> QED BY <1>1, <1>2, <1>3, <1>4, <1>5, <1>6, <1>7, <1>8, <1>9, <1>10, <1>11, <1>12, <1>13, <1>14,
         <1>15, <1>16, <1>17, <1>18, <1>19, <1>20, <1>21, <1>22, <1>23, <1>24,
         <1>25 DEF Step, Recreate

\* What a step does to the containers.
DockerStep(o) ==
  \/ docker' = docker
  \/ \E c \in exist, b \in BOOLEAN : docker' = [docker EXCEPT ![c].up = b]
  \/ \E c \in exist, n \in Names : docker' = [docker EXCEPT ![c].name = n]
  \/ \E c \in 0 .. top : docker' = Without(c)
  \/ Create(o)

\* Only Create adds a container, and no step does two of these things.
LEMMA DockerSteps ==
  ASSUME TypeOK, NEW o \in Ops, Step(o)
  PROVE  DockerStep(o)
<1> USE DEF TypeOK, DockerStep, dockerVars, secretVars, dbVars, refVars
<1>0. o \in Names /\ ctx[o].name \in Names BY DEF Names, Context
<1>1. CASE Begin(o) BY <1>1 DEF Begin
<1>2. CASE Mint(o) BY <1>2 DEF Mint
<1>3. CASE Resolve(o) BY <1>3 DEF Resolve
<1>4. CASE Act(o) BY <1>4 DEF Act
<1>5. CASE RevokeOld(o) BY <1>5 DEF RevokeOld
<1>6. CASE DropKey(o) BY <1>6 DEF DropKey
<1>7. CASE StopDel(o) BY <1>7 DEF StopDel
<1>8. CASE Delete(o) BY <1>8 DEF Delete
<1>9. CASE Inspect(o) BY <1>9 DEF Inspect
<1>10. CASE Prepare(o) BY <1>10 DEF Prepare
<1>11. CASE StopOld(o) BY <1>11 DEF StopOld
<1>12. CASE Rename(o) BY <1>12, <1>0 DEF Rename
<1>13. CASE Create(o) BY <1>13 DEF Create
<1>14. CASE StartNew(o) BY <1>14 DEF StartNew
<1>15. CASE Commit(o) BY <1>15 DEF Commit
<1>16. CASE Retire(o) BY <1>16 DEF Retire
<1>17. CASE Final(o) BY <1>17 DEF Final
<1>18. CASE UndoRemove(o) BY <1>18 DEF UndoRemove
<1>19. CASE UndoName(o) BY <1>19, <1>0 DEF UndoName
<1>20. CASE UndoStart(o) BY <1>20 DEF UndoStart
<1>21. CASE Revoke(o) BY <1>21 DEF Revoke
<1>22. CASE ReadVolume(o) BY <1>22 DEF ReadVolume
<1>23. CASE DropVolume(o) BY <1>23 DEF DropVolume
<1>24. CASE ScopeOwn(o) BY <1>24 DEF ScopeOwn
<1>25. CASE Issue(o) BY <1>25 DEF Issue
<1> QED BY <1>1, <1>2, <1>3, <1>4, <1>5, <1>6, <1>7, <1>8, <1>9, <1>10, <1>11, <1>12, <1>13, <1>14,
         <1>15, <1>16, <1>17, <1>18, <1>19, <1>20, <1>21, <1>22, <1>23, <1>24,
         <1>25 DEF Step, Recreate

\* Container ids only grow.
LEMMA TopType ==
  ASSUME TypeOK, NEW o \in Ops, Step(o)
  PROVE  top' \in Nat /\ top <= top' /\ old' \in [Ops -> 0 .. top'] /\ new' \in [Ops -> 0 .. top']
<1> USE DEF TypeOK, dockerVars, secretVars, dbVars, refVars
<1>1. CASE Begin(o) BY <1>1 DEF Begin
<1>2. CASE Mint(o) BY <1>2 DEF Mint
<1>3. CASE Resolve(o) BY <1>3 DEF Resolve
<1>4. CASE Act(o) BY <1>4 DEF Act
<1>5. CASE RevokeOld(o) BY <1>5 DEF RevokeOld
<1>6. CASE DropKey(o) BY <1>6 DEF DropKey
<1>7. CASE StopDel(o) BY <1>7 DEF StopDel
<1>8. CASE Delete(o) BY <1>8 DEF Delete
<1>9. CASE Inspect(o) BY <1>9 DEF Inspect
<1>10. CASE Prepare(o) BY <1>10 DEF Prepare
<1>11. CASE StopOld(o) BY <1>11 DEF StopOld
<1>12. CASE Rename(o) BY <1>12 DEF Rename
<1>13. CASE Create(o) BY <1>13 DEF Create
<1>14. CASE StartNew(o) BY <1>14 DEF StartNew
<1>15. CASE Commit(o) BY <1>15 DEF Commit
<1>16. CASE Retire(o) BY <1>16 DEF Retire
<1>17. CASE Final(o) BY <1>17 DEF Final
<1>18. CASE UndoRemove(o) BY <1>18 DEF UndoRemove
<1>19. CASE UndoName(o) BY <1>19 DEF UndoName
<1>20. CASE UndoStart(o) BY <1>20 DEF UndoStart
<1>21. CASE Revoke(o) BY <1>21 DEF Revoke
<1>22. CASE ReadVolume(o) BY <1>22 DEF ReadVolume
<1>23. CASE DropVolume(o) BY <1>23 DEF DropVolume
<1>24. CASE ScopeOwn(o) BY <1>24 DEF ScopeOwn
<1>25. CASE Issue(o) BY <1>25 DEF Issue
<1> QED BY <1>1, <1>2, <1>3, <1>4, <1>5, <1>6, <1>7, <1>8, <1>9, <1>10, <1>11, <1>12, <1>13, <1>14,
         <1>15, <1>16, <1>17, <1>18, <1>19, <1>20, <1>21, <1>22, <1>23, <1>24,
         <1>25 DEF Step, Recreate

\* The containers stay well formed, whatever a step does to them.
LEMMA DockerType ==
  ASSUME TypeOK, NEW o \in Ops, Step(o)
  PROVE  docker' \in [exist' -> Container] /\ exist' \in SUBSET (0 .. top')
<1>1. top \in Nat /\ top' \in Nat /\ top <= top' /\ exist \in SUBSET (0 .. top) BY TopType DEF TypeOK
<1>2. CASE docker' = docker BY <1>1, <1>2 DEF TypeOK, exist
<1>3. ASSUME NEW c \in exist, NEW b \in BOOLEAN, docker' = [docker EXCEPT ![c].up = b]
      PROVE  docker' \in [exist' -> Container] /\ exist' \in SUBSET (0 .. top')
  <2>1. exist' = exist BY <1>3 DEF exist
  <2>2. docker' \in [exist -> Container] BY <1>3 DEF TypeOK, Container
  <2> QED BY <1>1, <2>1, <2>2
<1>4. ASSUME NEW c \in exist, NEW n \in Names, docker' = [docker EXCEPT ![c].name = n]
      PROVE  docker' \in [exist' -> Container] /\ exist' \in SUBSET (0 .. top')
  <2>1. exist' = exist BY <1>4 DEF exist
  <2>2. docker' \in [exist -> Container] BY <1>4 DEF TypeOK, Container
  <2> QED BY <1>1, <2>1, <2>2
<1>5. ASSUME NEW c \in 0 .. top, docker' = Without(c)
      PROVE  docker' \in [exist' -> Container] /\ exist' \in SUBSET (0 .. top')
  <2>1. exist' = exist \ {c} BY <1>5 DEF exist, Without
  <2>2. docker' \in [exist \ {c} -> Container] BY <1>5 DEF TypeOK, Without
  <2>3. exist \ {c} \in SUBSET (0 .. top') BY <1>1
  <2> QED BY <2>1, <2>2, <2>3
<1>6. CASE Create(o)
  <2>1. Replacement(o) \in Container BY DEF Replacement, Container, Context, TypeOK
  <2>2. CASE docker' = docker BY <1>2, <2>2
  <2>3. CASE docker' # docker
    <3>1. docker' = [c \in exist \cup {top'} |-> IF c = top' THEN Replacement(o) ELSE docker[c]]
      BY <1>6, <2>3 DEF Create, dockerVars
    <3>2. exist' = exist \cup {top'} BY <3>1 DEF exist
    <3> QED BY <1>1, <2>1, <3>1, <3>2 DEF TypeOK
  <2> QED BY <2>2, <2>3
<1> QED BY <1>2, <1>3, <1>4, <1>5, <1>6, DockerSteps DEF DockerStep

\* Every step keeps the types.
LEMMA TypePreserved == TypeOK /\ [Next]_vars => TypeOK'
<1> SUFFICES ASSUME TypeOK, [Next]_vars PROVE TypeOK' OBVIOUS
<1>1. ASSUME NEW o \in Ops, Step(o) PROVE TypeOK'
  <2>1. PICK l \in Points : Goto(o, l) BY <1>1, PointsType
  <2>2. pc' \in [Ops -> Points] BY <2>1 DEF Goto, TypeOK
  <2> QED BY <1>1, <2>2, FaultsType, SecretsType, RefsType, TopType, DockerType DEF TypeOK
<1>2. CASE Crash
  <2>1. exist' = exist BY <1>2 DEF Crash, exist, dockerVars
  <2>2. pc' \in [Ops -> Points] BY <1>2 DEF Crash, Points, Ended, TypeOK
  <2>3. faults' \in 0 .. MaxFaults BY <1>2, FaultsAssumption DEF Crash, TypeOK
  <2> QED BY <1>2, <2>1, <2>2, <2>3 DEF Crash, TypeOK, dockerVars, secretVars, dbVars, refVars
<1>3. CASE UNCHANGED vars
  <2>1. exist' = exist BY <1>3 DEF vars, exist
  <2> QED BY <1>3, <2>1 DEF TypeOK, vars
<1> QED BY <1>1, <1>2, <1>3 DEF Next, Step

\* The steps Frame speaks of.
Framed(o) ==
  /\ UNCHANGED <<kind, new>> /\ exist' = exist
  /\ \E l \in Points :
       /\ Goto(o, l) /\ l \notin {"idle", "retire"}
       /\ \A p \in Ops : p # o \/ l \in Pending => old'[p] = old[p]
       /\ l \in Pending => pc[o] \in Pending
       /\ l \in {"dropKey", "readVolume", "stopDel", "delete"} => kind[o] \in Removals

\* All steps but the five that create or remove a container, or record what
\* the replacement carries, are of
\* that form.
LEMMA FramedSteps ==
  ASSUME TypeOK, Kept, NEW o \in Ops, Step(o)
  PROVE  \/ Framed(o)
         \/ Create(o) \/ Commit(o) \/ Retire(o) \/ UndoRemove(o) \/ Delete(o)
<1> USE DEF Framed, Points, Ended, Before, After, Undo, Pending, Throw, Goto, At, dockerVars, refVars
<1>0. pc \in [Ops -> Points] /\ old \in [Ops -> 0 .. top] /\ Removing BY DEF TypeOK, Kept
<1>1. CASE Begin(o)
  <2>1. exist' = exist /\ UNCHANGED <<kind, old, new>> BY <1>1 DEF Begin, exist
  <2>2. PICK l \in {"mint", "dropKey", "resolve"} :
          Goto(o, l) /\ (l = "dropKey" => kind[o] \in Removals)
    BY <1>1 DEF Begin, Removals
  <2> QED BY <2>1, <2>2
<1>2. CASE Mint(o)
  <2>1. exist' = exist BY <1>2 DEF Mint, exist
  <2> QED BY <1>0, <1>2, <2>1 DEF Mint
<1>3. CASE Resolve(o)
  <2>1. exist' = exist /\ UNCHANGED <<kind, new>> BY <1>3 DEF Resolve, exist
  <2>2. \A p \in Ops : p # o => old'[p] = old[p] BY <1>0, <1>3 DEF Resolve
  <2>3. PICK l \in {"act", "readVolume", "stopDel", "inspect", "revoke", "failed"} :
          Goto(o, l) /\ (l \in {"readVolume", "stopDel"} => kind[o] \in Removals)
    BY <1>3 DEF Resolve, Removals
  <2> QED BY <2>1, <2>2, <2>3
<1>4. CASE Act(o)
  <2>1. exist' = exist BY <1>4 DEF Act, exist
  <2> QED BY <1>0, <1>4, <2>1 DEF Act
<1>5. CASE RevokeOld(o)
  <2>1. exist' = exist BY <1>5 DEF RevokeOld, exist
  <2> QED BY <1>0, <1>5, <2>1 DEF RevokeOld
<1>6. CASE DropKey(o)
  <2>1. exist' = exist BY <1>6 DEF DropKey, exist
  <2> QED BY <1>0, <1>6, <2>1 DEF DropKey
<1>7. CASE StopDel(o)
  <2>1. exist' = exist BY <1>7 DEF StopDel, exist
  <2> QED BY <1>0, <1>7, <2>1 DEF StopDel, Removing
<1>8. CASE Inspect(o)
  <2>1. exist' = exist BY <1>8 DEF Inspect, exist
  <2> QED BY <1>0, <1>8, <2>1 DEF Inspect
<1>9. CASE Prepare(o)
  <2>1. exist' = exist BY <1>9 DEF Prepare, exist
  <2> QED BY <1>0, <1>9, <2>1 DEF Prepare
<1>10. CASE StopOld(o)
  <2>1. exist' = exist BY <1>10 DEF StopOld, exist
  <2> QED BY <1>0, <1>10, <2>1 DEF StopOld
<1>11. CASE Rename(o)
  <2>1. exist' = exist BY <1>11 DEF Rename, exist
  <2> QED BY <1>0, <1>11, <2>1 DEF Rename
<1>12. CASE StartNew(o)
  <2>1. exist' = exist BY <1>12 DEF StartNew, exist
  <2> QED BY <1>0, <1>12, <2>1 DEF StartNew
<1>13. CASE Final(o)
  <2>1. exist' = exist BY <1>13 DEF Final, exist
  <2> QED BY <1>0, <1>13, <2>1 DEF Final
<1>14. CASE UndoName(o)
  <2>1. exist' = exist /\ UNCHANGED <<kind, old, new>> BY <1>14 DEF UndoName, exist
  <2>2. Goto(o, "undoStart") \/ Goto(o, "revoke") BY <1>14 DEF UndoName
  <2> QED BY <2>1, <2>2
<1>15. CASE UndoStart(o)
  <2>1. exist' = exist BY <1>15 DEF UndoStart, exist
  <2> QED BY <1>0, <1>15, <2>1 DEF UndoStart
<1>16. CASE Revoke(o)
  <2>1. exist' = exist BY <1>16 DEF Revoke, exist
  <2> QED BY <1>0, <1>16, <2>1 DEF Revoke
<1>17. CASE ReadVolume(o)
  <2>1. exist' = exist BY <1>17 DEF ReadVolume, exist
  <2> QED BY <1>0, <1>17, <2>1 DEF ReadVolume, Removing
<1>18. CASE DropVolume(o)
  <2>1. exist' = exist BY <1>18 DEF DropVolume, exist
  <2> QED BY <1>0, <1>18, <2>1 DEF DropVolume
<1>19. CASE ScopeOwn(o)
  <2>1. exist' = exist BY <1>19 DEF ScopeOwn, exist
  <2> QED BY <1>0, <1>19, <2>1 DEF ScopeOwn
<1>20. CASE Issue(o)
  <2>1. exist' = exist BY <1>20 DEF Issue, exist
  <2> QED BY <1>0, <1>20, <2>1 DEF Issue
<1> QED BY <1>1, <1>2, <1>3, <1>4, <1>5, <1>6, <1>7, <1>8, <1>9, <1>10, <1>11, <1>12, <1>13, <1>14,
         <1>15, <1>16, <1>17, <1>18, <1>19, <1>20 DEF Step, Recreate

\* A framed step keeps Kept.
LEMMA FramedKept ==
  ASSUME TypeOK, Kept, NEW o \in Ops, Framed(o)
  PROVE  Kept'
<1>1. PICK l \in Points :
        /\ Goto(o, l) /\ l \notin {"idle", "retire"}
        /\ \A p \in Ops : p # o \/ l \in Pending => old'[p] = old[p]
        /\ l \in Pending => pc[o] \in Pending
        /\ l \in {"dropKey", "readVolume", "stopDel", "delete"} => kind[o] \in Removals
  BY DEF Framed
<1>2. UNCHANGED <<kind, new>> /\ exist' = exist BY DEF Framed
<1>3. pc \in [Ops -> Points] BY DEF TypeOK
<1> QED BY <1>1, <1>2, <1>3, Frame

\* The five other steps, when they succeed.
LEMMA CreateKept ==
  ASSUME TypeOK, Kept, NEW o \in Ops, Create(o)
  PROVE  Kept'
<1> USE DEF Goto, At, Pending
<1>1. pc \in [Ops -> Points] /\ old \in [Ops -> 0 .. top] /\ new \in [Ops -> 0 .. top]
      /\ top \in Nat /\ exist \in SUBSET (0 .. top)
  BY DEF TypeOK
<1>2. CASE docker' = docker
  <2>1. exist' = exist /\ UNCHANGED <<kind, old, new>> /\ Goto(o, "undoName")
    BY <1>2, <1>1 DEF Create, exist
  <2>2. "undoName" \in Points BY DEF Points, Undo
  <2>3. \A p \in Ops : old'[p] = old[p] BY <2>1
  <2> HIDE DEF Goto
  <2>4. Framed(o) BY <2>1, <2>2, <2>3 DEF Framed
  <2> QED BY <2>4, FramedKept
<1>3. CASE docker' # docker
  <2>1. /\ top' = top + 1 /\ new' = [new EXCEPT ![o] = top + 1] /\ UNCHANGED <<kind, old>>
        /\ exist' = exist \cup {top + 1}
    BY <1>3 DEF Create, exist, dockerVars
  <2>2. PICK l \in {"startNew", "commit"} : Goto(o, l) BY <1>3 DEF Create, dockerVars
  <2>3. Created' BY <1>1, <2>1, <2>2 DEF Kept, Created
  <2>4. Removing' BY <1>1, <2>1, <2>2 DEF Kept, Removing
  <2>5. RemoveAsked => RemoveAsked' BY <1>1, <2>1, <2>2 DEF RemoveAsked
  <2>6. ASSUME NEW m \in exist, Survivor(m) PROVE m \in exist' /\ Survivor(m)'
    BY <1>1, <2>1, <2>2, <2>6 DEF Survivor
  <2> QED BY <2>3, <2>4, <2>5, <2>6 DEF Kept
<1> QED BY <1>2, <1>3

\* Committing makes the replacement the survivor, unless a newer one is.
LEMMA CommitKept ==
  ASSUME TypeOK, Kept, NEW o \in Ops, Commit(o)
  PROVE  Kept'
<1> USE DEF Goto, At, Pending
<1>1. pc \in [Ops -> Points] /\ old \in [Ops -> 0 .. top] /\ new \in [Ops -> 0 .. top]
      /\ top \in Nat /\ exist \in SUBSET (0 .. top)
  BY DEF TypeOK
<1>2. pc[o] = "commit" /\ pc' = [pc EXCEPT ![o] = "retire"] /\ UNCHANGED <<kind, old, new>> /\ exist' = exist
  BY DEF Commit, dockerVars, refVars, exist
<1>3. old[o] < new[o] BY <1>2 DEF Kept, Created
<1>4. Created' BY <1>1, <1>2 DEF Kept, Created
<1>5. Removing' BY <1>1, <1>2 DEF Kept, Removing
<1>6. RemoveAsked => RemoveAsked' BY <1>1, <1>2 DEF RemoveAsked
<1>7. ASSUME NEW m \in exist, Survivor(m) PROVE \E k \in exist' : Survivor(k)'
  <2>1. m \in 0 .. top BY <1>1
  <2>2. CASE new[o] < m
    <3>1. Survivor(m)' BY <1>1, <1>2, <1>3, <1>7, <2>1, <2>2 DEF Survivor
    <3> QED BY <1>2, <3>1
  <2>3. CASE ~(new[o] < m)
    <3>1. new[o] \in exist /\ m < new[o] BY <1>1, <1>2, <1>7, <2>1, <2>3 DEF Survivor
    <3>2. \A p \in Ops : p # o /\ pc[p] \in Pending => new[p] # new[o]
      BY <1>2 DEF Kept, Created
    <3>3. Survivor(new[o])'
      BY <1>1, <1>2, <1>3, <1>7, <2>1, <3>1, <3>2 DEF Survivor
    <3> QED BY <1>2, <3>1, <3>3
  <2> QED BY <2>2, <2>3
<1> QED BY <1>2, <1>4, <1>5, <1>6, <1>7 DEF Kept

\* Retiring the old container spares the survivor, which is newer.
LEMMA RetireKept ==
  ASSUME TypeOK, Kept, NEW o \in Ops, Retire(o)
  PROVE  Kept'
<1> USE DEF Goto, At, Pending
<1>1. pc \in [Ops -> Points] /\ old \in [Ops -> 0 .. top] /\ new \in [Ops -> 0 .. top]
      /\ top \in Nat /\ exist \in SUBSET (0 .. top)
  BY DEF TypeOK
<1>2. UNCHANGED <<kind, old, new>> BY DEF Retire, dockerVars, refVars
<1>3. CASE docker' = docker
  <2>1. exist' = exist BY <1>3 DEF exist
  <2>2. PICK l \in {"final", "failed", "revoke"} : Goto(o, l) BY DEF Retire, Throw
  <2> QED BY <1>1, <1>2, <2>1, <2>2, FramedKept DEF Framed, Points, Undo, After, Ended
<1>4. CASE docker' # docker
  <2>1. pc[o] = "retire" /\ pc' = [pc EXCEPT ![o] = "final"] /\ exist' = exist \ {old[o]}
    BY <1>4 DEF Retire, exist, Without
  <2>2. Created' BY <1>1, <1>2, <2>1 DEF Kept, Created
  <2>3. Removing' BY <1>1, <1>2, <2>1 DEF Kept, Removing
  <2>4. RemoveAsked => RemoveAsked' BY <1>1, <1>2, <2>1 DEF RemoveAsked
  <2>5. ASSUME NEW m \in exist, Survivor(m) PROVE m \in exist' /\ Survivor(m)'
    <3>1. m \in 0 .. top /\ old[o] < m BY <1>1, <2>1, <2>5 DEF Survivor
    <3> QED BY <1>1, <1>2, <2>1, <2>5, <3>1 DEF Survivor
  <2> QED BY <2>2, <2>3, <2>4, <2>5 DEF Kept
<1> QED BY <1>3, <1>4

\* Undoing a replacement spares the survivor, which is another container.
LEMMA UndoRemoveKept ==
  ASSUME TypeOK, Kept, NEW o \in Ops, UndoRemove(o)
  PROVE  Kept'
<1> USE DEF Goto, At, Pending
<1>1. pc \in [Ops -> Points] /\ old \in [Ops -> 0 .. top] /\ new \in [Ops -> 0 .. top]
      /\ top \in Nat /\ exist \in SUBSET (0 .. top)
  BY DEF TypeOK
<1>2. pc[o] = "undoRemove" /\ pc' = [pc EXCEPT ![o] = "undoName"] /\ UNCHANGED <<kind, old, new>>
  BY DEF UndoRemove, dockerVars, refVars
<1>3. exist' = exist \/ exist' = exist \ {new[o]} BY DEF UndoRemove, exist, Without
<1>4. Created' BY <1>1, <1>2 DEF Kept, Created
<1>5. Removing' BY <1>1, <1>2 DEF Kept, Removing
<1>6. RemoveAsked => RemoveAsked' BY <1>1, <1>2 DEF RemoveAsked
<1>7. ASSUME NEW m \in exist, Survivor(m) PROVE m \in exist' /\ Survivor(m)'
  <2>1. m # new[o] BY <1>2, <1>7 DEF Survivor
  <2>2. \A p \in Ops : p # o /\ pc[p] \in Pending => new[p] # new[o]
    BY <1>2 DEF Kept, Created
  <2> QED BY <1>1, <1>2, <1>3, <1>7, <2>1, <2>2 DEF Survivor
<1> QED BY <1>4, <1>5, <1>6, <1>7 DEF Kept

\* A removal is the one operation that may take the last container.
LEMMA DeleteKept ==
  ASSUME TypeOK, Kept, NEW o \in Ops, Delete(o)
  PROVE  Kept'
<1> USE DEF Goto, At, Pending, Throw
<1>1. pc \in [Ops -> Points] BY DEF TypeOK
<1>2. UNCHANGED <<kind, old, new>> /\ pc[o] = "delete" /\ kind[o] \in Removals
  BY DEF Delete, refVars, Kept, Removing
<1>3. PICK l \in {"done", "dropVolume", "failed", "revoke"} : Goto(o, l) BY DEF Delete
<1>4. Created' BY <1>1, <1>2, <1>3 DEF Kept, Created
<1>5. Removing' BY <1>1, <1>2, <1>3 DEF Kept, Removing
<1>6. RemoveAsked' BY <1>1, <1>2, <1>3 DEF RemoveAsked
<1> QED BY <1>4, <1>5, <1>6 DEF Kept

-----------------------------------------------------------------------------
\* TypeOK /\ Kept is inductive, for any number of operations, in flight
\* together, and any number of failed calls and crashes.
THEOREM Inductive == Spec => []IInv
<1>1. IInv /\ [Next]_vars => IInv'
  <2> SUFFICES ASSUME TypeOK, Kept, [Next]_vars PROVE IInv' BY DEF IInv
  <2>1. TypeOK' BY TypePreserved
  <2>2. ASSUME NEW o \in Ops, Step(o) PROVE Kept'
    BY <2>2, FramedSteps, FramedKept, CreateKept, CommitKept, RetireKept, UndoRemoveKept, DeleteKept
  <2>3. CASE Crash
    <3>1. UNCHANGED <<kind, old, new>> /\ exist' = exist BY <2>3 DEF Crash, dockerVars, refVars, exist
    <3>2. \A o \in Ops : pc'[o] = pc[o] \/ (pc'[o] = "failed" /\ pc[o] # "idle")
      BY <2>3 DEF Crash, InFlight, Ended, TypeOK
    <3>3. Created' BY <3>1, <3>2 DEF Kept, Created, Pending
    <3>4. Removing' BY <3>1, <3>2 DEF Kept, Removing
    <3>5. RemoveAsked => RemoveAsked' BY <3>1, <3>2 DEF RemoveAsked
    <3>6. ASSUME NEW m \in exist, Survivor(m) PROVE Survivor(m)'
      BY <3>1, <3>2, <3>6 DEF Survivor, Pending
    <3> QED BY <2>1, <3>1, <3>3, <3>4, <3>5, <3>6 DEF Kept, IInv
  <2>4. CASE UNCHANGED vars
    <3>1. UNCHANGED <<pc, kind, old, new>> /\ exist' = exist BY <2>4 DEF vars, exist
    <3>2. Created' /\ Removing' BY <3>1 DEF Kept, Created, Removing
    <3>3. RemoveAsked => RemoveAsked' BY <3>1 DEF RemoveAsked
    <3>4. ASSUME NEW m \in exist, Survivor(m) PROVE Survivor(m)' BY <3>1, <3>4 DEF Survivor
    <3> QED BY <2>1, <3>1, <3>2, <3>3, <3>4 DEF Kept, IInv
  <2>5. Next => Crash \/ \E o \in Ops : Step(o) BY DEF Next, Step
  <2> QED BY <2>1, <2>2, <2>3, <2>4, <2>5 DEF IInv
<1> QED BY <1>1, InitIInv, PTL DEF Spec

\* The variables keep their types.
THEOREM TypeCorrect == Spec => []TypeOK
<1>1. IInv => TypeOK BY DEF IInv
<1> QED BY <1>1, Inductive, PTL

\* Create-before-destroy: recreates and rotations, overlapping, failing or cut
\* short by a crash, never leave the instance without a container.
THEOREM NeverLost == Spec => []InstanceKept
<1>1. IInv => InstanceKept BY DEF IInv, Kept, InstanceKept
<1> QED BY <1>1, Inductive, PTL

-----------------------------------------------------------------------------
(* One operation at a time.  Why the properties above hold then: at rest   *)
(* the instance is whole or gone, and every program point of the operation *)
(* in flight has a definite picture of the rest.                           *)

\* The keys the manager issued that LiteLLM still accepts, when no call failed.
Issued(keys) == faults = MaxFaults => valid \cap Ops \subseteq keys

\* What c carries is on record, or from before there were records.
KeyKnown(c) ==
  docker[c].key = hash \/ (hash = NoKey /\ docker[c].key \in {K0} \cup (IF c = 0 THEN {Master} ELSE {}))
TokKnown(c) == docker[c].tok = dtok \/ (dtok = NoKey /\ c = 0)

\* c is the only container, under name n, running or not.
Sole(c, n, up) ==
  /\ exist = {c} /\ docker[c].name = n /\ docker[c].up = up
  /\ KeyKnown(c) /\ TokKnown(c) /\ docker[c].key \in valid /\ row
Gone == exist = {} /\ ~row /\ hash = NoKey /\ dtok = NoKey
Whole == Gone \/ \E c \in exist : Sole(c, Main, want)
Rest == Whole /\ Issued({hash})

\* Before the commit nothing on record is o's; a rotation knows the key on record.
Unrecorded(o) == hash # o /\ (kind[o] = "rotate" => ctx[o].prev = hash /\ hash # NoKey)
\* Only a rotation has a key before it is prepared.
Handed(o) == (IF kind[o] = "rotate" THEN o \in valid ELSE o \notin valid)
             /\ Issued(IF kind[o] = "rotate" THEN {hash, o} ELSE {hash})
Replaces(o) == kind[o] \in {"recreate", "rotate"}
\* What the replacement is to carry, and how the old container was.
Chosen(o) ==
  /\ Replaces(o) /\ Unrecorded(o) /\ Issued({hash, o})
  /\ ctx[o].was = want /\ ctx[o].name = Main
  /\ ctx[o].key \in valid
  /\ ctx[o].key = o \/ ctx[o].key = hash \/ (hash = NoKey /\ ctx[o].key = K0)
  /\ ctx[o].tok = o \/ ctx[o].tok = dtok
  /\ kind[o] = "rotate" => ctx[o].key = o
  /\ kind[o] = "recreate" /\ o \in valid => ctx[o].key = o /\ hash \notin Ops
\* The same, when the key that is meant for it has yet to be issued.
Ordered(o) ==
  /\ kind[o] = "recreate" /\ Unrecorded(o) /\ Issued({hash}) /\ o \notin valid /\ hash \notin Ops
  /\ ctx[o].was = want /\ ctx[o].name = Main
  /\ ctx[o].key = o /\ (ctx[o].tok = o \/ ctx[o].tok = dtok)
\* The old container is parked under o's name, and the replacement is there.
Pair(o, up) ==
  /\ exist = {old[o], new[o]} /\ old[o] < new[o]
  /\ docker[old[o]].name = o /\ ~docker[old[o]].up
  /\ docker[old[o]].key \in valid /\ KeyKnown(old[o]) /\ TokKnown(old[o])
  /\ docker[new[o]].name = Main /\ docker[new[o]].up = up
  /\ docker[new[o]].key = ctx[o].key /\ docker[new[o]].tok = ctx[o].tok
  /\ row
\* The replacement is on record; a rotation has the old key left to revoke.
Recorded(o) ==
  /\ Replaces(o)
  /\ kind[o] = "rotate" => hash = o /\ ctx[o].prev # o
  /\ Issued(IF kind[o] = "rotate" THEN {hash, ctx[o].prev} ELSE {hash})
\* The key of an instance that is being removed is gone.
Leaving(o) == kind[o] \in Removals /\ Issued({})

World(o) ==
  /\ pc[o] = "mint" => kind[o] = "rotate" /\ Rest /\ Unrecorded(o) /\ o \notin valid
  /\ pc[o] = "dropKey" => kind[o] \in Removals /\ Rest
  /\ pc[o] = "resolve" =>
       \/ kind[o] \notin Removals /\ Whole /\ Unrecorded(o) /\ Handed(o)
       \/ Leaving(o) /\ (Gone \/ \E c \in exist : exist = {c} /\ row)
  /\ pc[o] = "act" => kind[o] \in {"start", "stop"} /\ Sole(old[o], Main, want) /\ Issued({hash})
  /\ pc[o] = "inspect" => Replaces(o) /\ Sole(old[o], Main, want) /\ Unrecorded(o) /\ Handed(o)
  /\ pc[o] = "prepare" =>
       /\ Replaces(o) /\ Sole(old[o], Main, want) /\ Unrecorded(o) /\ Handed(o)
       /\ ctx[o].was = want /\ ctx[o].name = Main
       /\ ctx[o].key = docker[old[o]].key /\ ctx[o].tok = docker[old[o]].tok
  /\ pc[o] = "scope" => kind[o] = "recreate" /\ Sole(old[o], Main, want) /\ Chosen(o)
  /\ pc[o] = "issue" => Sole(old[o], Main, want) /\ Ordered(o)
  /\ pc[o] = "stop" => Sole(old[o], Main, want) /\ Chosen(o)
  /\ pc[o] = "rename" => Sole(old[o], Main, FALSE) /\ Chosen(o)
  /\ pc[o] \in {"create", "undoName"} => Sole(old[o], o, FALSE) /\ Chosen(o)
  /\ pc[o] \in {"startNew", "undoRemove"} => want /\ Pair(o, FALSE) /\ Chosen(o)
  /\ pc[o] = "commit" => Pair(o, want) /\ Chosen(o)
  /\ pc[o] = "undoStart" => want /\ Sole(old[o], Main, FALSE) /\ Chosen(o)
  /\ pc[o] = "revoke" => hash # o /\ Whole /\ Issued({hash, o})
  /\ pc[o] = "retire" =>
       /\ exist = {old[o], new[o]} /\ old[o] < new[o] /\ row
       /\ docker[new[o]].name = Main /\ docker[new[o]].up = want
       /\ docker[new[o]].key \in valid /\ KeyKnown(new[o]) /\ TokKnown(new[o])
       /\ Recorded(o)
  /\ pc[o] = "final" => Sole(new[o], Main, want) /\ Recorded(o)
  /\ pc[o] = "revokeOld" => kind[o] = "rotate" /\ Sole(new[o], Main, want) /\ Recorded(o)
  /\ pc[o] \in {"readVolume", "stopDel", "delete"} => Leaving(o) /\ exist = {old[o]} /\ row
  /\ pc[o] = "dropVolume" => Leaving(o) /\ exist = {}

\* What no operation has issued yet is nowhere.
Unissued == \A o \in Ops : pc[o] = "idle" => o \notin valid /\ hash # o
Alone == \A o, p \in InFlight : o = p
SerialInv == Alone /\ Unissued /\ (Quiet => Rest) /\ \A o \in Ops : World(o)

\* What starting, stopping and renaming a container changes, and what it keeps.
LEMMA SetUp ==
  ASSUME TypeOK, NEW c \in exist, NEW b \in BOOLEAN, docker' = [docker EXCEPT ![c].up = b]
  PROVE  /\ exist' = exist
         /\ docker'[c].up = b /\ docker'[c].name = docker[c].name
         /\ docker'[c].key = docker[c].key /\ docker'[c].tok = docker[c].tok
<1>1. docker \in [exist -> Container] BY DEF TypeOK
<1>2. exist' = exist BY DEF exist
<1>3. docker[c] \in Container /\ docker'[c] = [docker[c] EXCEPT !.up = b]
  BY <1>1 DEF exist
<1> QED BY <1>2, <1>3 DEF Container

LEMMA SetName ==
  ASSUME TypeOK, NEW c \in exist, NEW n \in Names, docker' = [docker EXCEPT ![c].name = n]
  PROVE  /\ exist' = exist
         /\ docker'[c].name = n /\ docker'[c].up = docker[c].up
         /\ docker'[c].key = docker[c].key /\ docker'[c].tok = docker[c].tok
<1>1. docker \in [exist -> Container] BY DEF TypeOK
<1>2. exist' = exist BY DEF exist
<1>3. docker[c] \in Container /\ docker'[c] = [docker[c] EXCEPT !.name = n]
  BY <1>1 DEF exist
<1> QED BY <1>2, <1>3 DEF Container

\* Removing a container leaves the others as they are.
LEMMA Drop ==
  ASSUME NEW c, docker' = Without(c)
  PROVE  exist' = exist \ {c} /\ \A d \in exist' : docker'[d] = docker[d]
BY DEF Without, exist

\* The operation in flight goes on to another program point, or ends.
LEMMA Settle ==
  ASSUME TypeOK, SerialInv, NEW o \in Ops, NEW l \in Points \ {"idle"}, Goto(o, l),
         o \in InFlight \/ InFlight = {},
         valid' \subseteq valid \cup {o}, hash' \in {hash, o, NoKey},
         l \in Ended => Rest', World(o)'
  PROVE  SerialInv'
<1>1. \A p \in Ops \ {o} : pc'[p] = pc[p] /\ pc[p] \in Ended
  BY DEF SerialInv, Alone, InFlight, Goto, TypeOK
<1>2. pc'[o] = l BY DEF Goto, TypeOK
<1>3. Alone' BY <1>1 DEF Alone, InFlight
<1>4. Unissued' BY <1>1, <1>2, NamesDistinct DEF Unissued, SerialInv
<1>5. Quiet' => Rest' BY <1>2 DEF Quiet, InFlight
<1>6. ASSUME NEW p \in Ops PROVE World(p)'
  <2>1. CASE p = o BY <2>1
  <2>2. CASE p # o
    <3>1. pc'[p] \in Ended BY <1>1, <2>2
    <3> QED BY <3>1 DEF World, Ended
  <2> QED BY <2>1, <2>2
<1> QED BY <1>3, <1>4, <1>5, <1>6 DEF SerialInv

\* The old container is stopped if it ran; if that fails nothing has changed.
LEMMA StopOldSerial ==
  ASSUME TypeOK, SerialInv, Fallible \subseteq Undone, NEW o \in Ops, StopOld(o)
  PROVE  SerialInv'
<1>1. pc[o] = "stop" BY DEF StopOld, At
<1>2. o \in InFlight BY <1>1 DEF InFlight, Ended
<1>3. Sole(old[o], Main, want) /\ Chosen(o) BY <1>1 DEF SerialInv, World
<1>4. UNCHANGED <<row, hash, dtok, valid, kind, old, new, ctx, want>>
  BY DEF StopOld, dockerVars, secretVars, dbVars, refVars
<1>5. old[o] \in exist /\ ctx[o].was = want BY <1>3 DEF Sole, Chosen
<1>6. want \in BOOLEAN BY DEF TypeOK
<1>7. CASE Goto(o, "rename")
  <2>1. UNCHANGED faults BY <1>1, <1>7 DEF StopOld, NoFault, Throw, Goto, TypeOK
  <2>2. Chosen(o)' BY <1>3, <1>4, <2>1 DEF Chosen, Unrecorded, Replaces, Issued
  <2>3. Sole(old[o], Main, FALSE)'
    <3>1. CASE want
      <4>1. docker' = [docker EXCEPT ![old[o]].up = FALSE] BY <1>7, <1>5, <3>1 DEF StopOld, Throw, Goto, TypeOK
      <4>2. /\ exist' = exist
            /\ docker'[old[o]].up = FALSE /\ docker'[old[o]].name = docker[old[o]].name
            /\ docker'[old[o]].key = docker[old[o]].key /\ docker'[old[o]].tok = docker[old[o]].tok
        BY <4>1, <1>5, SetUp
      <4> QED BY <4>2, <1>3, <1>4, <1>5 DEF Sole, KeyKnown, TokKnown
    <3>2. CASE ~want
      BY <1>3, <1>4, <1>5, <1>6, <3>2 DEF StopOld, Sole, KeyKnown, TokKnown, exist
    <3> QED BY <3>1, <3>2
  <2>4. pc'[o] = "rename" BY <1>7 DEF Goto, TypeOK
  <2>5. World(o)' BY <2>2, <2>3, <2>4 DEF World
  <2> QED BY <1>2, <1>4, <1>7, <2>5, Settle DEF Points, Before, Ended
<1>8. CASE ~Goto(o, "rename")
  <2>1. Throw(o) /\ Fault(o) /\ UNCHANGED docker
    BY <1>8, <1>5 DEF StopOld, Refused
  <2>2. faults' # MaxFaults BY <2>1, FaultsAssumption DEF Fault, TypeOK
  <2>3. Rest' /\ hash' # o
    BY <1>3, <1>4, <1>5, <2>1, <2>2 DEF Rest, Whole, Sole, Issued, KeyKnown, TokKnown, exist, Chosen, Unrecorded
  <2>4. PICK l \in {"revoke", "failed"} : Goto(o, l) BY <2>1 DEF Throw
  <2>5. pc'[o] = l BY <2>4 DEF Goto, TypeOK
  <2>6. World(o)' BY <2>2, <2>3, <2>5 DEF World, Rest, Issued
  <2> QED BY <1>2, <1>4, <2>3, <2>4, <2>6, Settle DEF Points, Undo, Ended
<1> QED BY <1>7, <1>8

\* A failed call spends a fault, and only these may fail.
LEMMA Failing ==
  ASSUME TypeOK, NEW o \in Ops, Fault(o)
  PROVE  pc[o] \in Fallible /\ faults' # MaxFaults
BY FaultsAssumption DEF Fault, TypeOK

\* Whole is about the containers, the row and the valid keys only.
LEMMA WholeKept ==
  ASSUME UNCHANGED <<docker, row, hash, dtok, valid, want>>, Whole
  PROVE  Whole'
BY DEF Whole, Gone, Sole, KeyKnown, TokKnown, exist

\* With room for one operation, one begins when all others have ended.
LEMMA BeginsAlone ==
  ASSUME SerialInv, MaxInFlight = 1, NEW o \in Ops, Begin(o)
  PROVE  InFlight = {}
<1>1. Cardinality(InFlight) < 1 BY DEF Begin
<1>2. ASSUME NEW p \in InFlight PROVE FALSE
  <2>1. InFlight = {p} BY DEF SerialInv, Alone
  <2>2. Cardinality({p}) = 1 BY FS_Singleton
  <2> QED BY <1>1, <2>1, <2>2
<1> QED BY <1>2

\* It finds the instance whole, or gone.
LEMMA BeginSerial ==
  ASSUME TypeOK, SerialInv, MaxInFlight = 1, NEW o \in Ops, Begin(o)
  PROVE  SerialInv'
<1>1. pc[o] = "idle" BY DEF Begin, At
<1>2. InFlight = {} BY BeginsAlone
<1>3. Rest /\ o \notin valid /\ hash # o BY <1>1, <1>2 DEF SerialInv, Quiet, Unissued
<1>4. UNCHANGED <<docker, row, hash, dtok, valid, kind, old, new, faults, want>>
  BY DEF Begin, dockerVars, secretVars, dbVars
<1>5. Rest' BY <1>3, <1>4, WholeKept DEF Rest, Issued
<1>6. kind[o] = "rotate" => hash # NoKey /\ ctx'[o].prev = hash BY DEF Begin, TypeOK, Context
<1>7. PICK l \in {"mint", "dropKey", "resolve"} :
        /\ Goto(o, l)
        /\ kind[o] = "rotate" <=> l = "mint"
        /\ kind[o] \in Removals <=> l = "dropKey"
  BY DEF Begin, Removals
<1>8. pc'[o] = l BY <1>7 DEF Goto, TypeOK
<1>9. Unrecorded(o)' BY <1>3, <1>4, <1>6 DEF Unrecorded
<1>10. World(o)' BY <1>3, <1>4, <1>5, <1>7, <1>8, <1>9 DEF World, Rest, Handed
<1> QED BY <1>2, <1>4, <1>7, <1>10, Settle DEF Points, Before, Ended

\* A rotation issues its key, or ends.
LEMMA MintSerial ==
  ASSUME TypeOK, SerialInv, NEW o \in Ops, Mint(o)
  PROVE  SerialInv'
<1>1. pc[o] = "mint" BY DEF Mint, At
<1>2. o \in InFlight BY <1>1 DEF InFlight, Ended
<1>3. kind[o] = "rotate" /\ Rest /\ Unrecorded(o) /\ o \notin valid BY <1>1 DEF SerialInv, World
<1>4. UNCHANGED <<docker, row, hash, dtok, kind, old, new, ctx, want>>
  BY DEF Mint, dockerVars, dbVars, refVars
<1>5. CASE Goto(o, "resolve") /\ valid' = valid \cup {o} /\ NoFault
  <2>1. Whole' BY <1>3, <1>4, <1>5 DEF Rest, Whole, Gone, Sole, KeyKnown, TokKnown, exist
  <2>2. Handed(o)' BY <1>3, <1>4, <1>5 DEF Handed, Rest, Issued, NoFault
  <2>3. Unrecorded(o)' BY <1>3, <1>4 DEF Unrecorded
  <2>4. pc'[o] = "resolve" BY <1>5 DEF Goto, TypeOK
  <2>5. World(o)' BY <1>3, <1>4, <2>1, <2>2, <2>3, <2>4 DEF World, Removals
  <2> QED BY <1>2, <1>4, <1>5, <2>5, Settle DEF Points, Ended
<1>6. CASE Goto(o, "failed") /\ UNCHANGED valid /\ (NoFault \/ Fault(o))
  <2>1. Rest' BY <1>3, <1>4, <1>6, WholeKept, Failing DEF Rest, Issued, NoFault
  <2>2. pc'[o] = "failed" BY <1>6 DEF Goto, TypeOK
  <2>3. World(o)' BY <2>2 DEF World
  <2> QED BY <1>2, <1>4, <1>6, <2>1, <2>3, Settle DEF Points, Ended
<1> QED BY <1>5, <1>6 DEF Mint

\* A removal revokes the key on record, the only one that is out.
LEMMA DropKeySerial ==
  ASSUME TypeOK, SerialInv, NEW o \in Ops, DropKey(o)
  PROVE  SerialInv'
<1>1. pc[o] = "dropKey" BY DEF DropKey, At
<1>2. o \in InFlight BY <1>1 DEF InFlight, Ended
<1>3. kind[o] \in Removals /\ Rest BY <1>1 DEF SerialInv, World
<1>4. UNCHANGED <<docker, row, hash, dtok, kind, old, new, ctx, want>> /\ Goto(o, "resolve")
  BY DEF DropKey, dockerVars, dbVars, refVars
<1>5. Issued({})' /\ valid' \subseteq valid
  BY <1>3, Failing DEF DropKey, NoFault, Rest, Issued
<1>6. (Gone \/ \E c \in exist : exist = {c} /\ row)'
  BY <1>3, <1>4 DEF Rest, Whole, Sole, Gone, exist
<1>7. pc'[o] = "resolve" BY <1>4 DEF Goto, TypeOK
<1>8. World(o)' BY <1>3, <1>4, <1>5, <1>6, <1>7 DEF World, Leaving
<1> QED BY <1>2, <1>4, <1>5, <1>8, Settle DEF Points, Ended

\* There is one container to find, or the instance is gone.
LEMMA ResolveSerial ==
  ASSUME TypeOK, SerialInv, Fallible \subseteq Undone, NEW o \in Ops, Resolve(o)
  PROVE  SerialInv'
<1>1. pc[o] = "resolve" BY DEF Resolve, At
<1>2. o \in InFlight BY <1>1 DEF InFlight, Ended
<1>3. \/ kind[o] \notin Removals /\ Whole /\ Unrecorded(o) /\ Handed(o)
      \/ Leaving(o) /\ (Gone \/ \E c \in exist : exist = {c} /\ row)
  BY <1>1 DEF SerialInv, World
<1>4. UNCHANGED <<docker, row, hash, dtok, valid, faults, kind, new, ctx, want>>
  BY <1>1, Failing DEF Resolve, dockerVars, secretVars, dbVars, NoFault, Undone
<1>5. CASE exist = {}
  <2>1. Throw(o) /\ UNCHANGED old BY <1>5 DEF Resolve
  <2>2. Gone BY <1>3, <1>5 DEF Whole
  <2>3. kind[o] # "rotate" BY <1>3, <2>2 DEF Gone, Unrecorded, Leaving, Removals
  <2>4. Goto(o, "failed") BY <2>1, <2>3 DEF Throw
  <2>5. Rest' BY <1>3, <1>4, <2>2, <2>3, WholeKept DEF Rest, Whole, Handed, Issued, Leaving
  <2>6. pc'[o] = "failed" BY <2>4 DEF Goto, TypeOK
  <2>7. World(o)' BY <2>6 DEF World
  <2> QED BY <1>2, <1>4, <2>4, <2>5, <2>7, Settle DEF Points, Ended
<1>6. CASE exist # {}
  <2>1. PICK c \in exist : exist = {c} BY <1>3, <1>6 DEF Whole, Gone, Sole
  <2>2. old'[o] = c /\ exist' = exist
    BY <1>1, <1>4, <1>6, <2>1, Failing DEF Resolve, Undone, TypeOK, exist
  <2>3. PICK l \in {"act", "readVolume", "stopDel", "inspect"} :
          /\ Goto(o, l)
          /\ l = "act" <=> kind[o] \in {"start", "stop"}
          /\ l \in {"readVolume", "stopDel"} <=> kind[o] \in Removals
    BY <1>1, <1>6, Failing DEF Resolve, Undone, Removals
  <2>4. pc'[o] = l BY <2>3 DEF Goto, TypeOK
  <2>5. CASE l \in {"readVolume", "stopDel"}
    <3>1. Leaving(o)' /\ row' BY <1>3, <1>4, <1>6, <2>3, <2>5 DEF Leaving, Issued, Gone
    <3>2. World(o)' BY <2>1, <2>2, <2>4, <2>5, <3>1 DEF World
    <3> QED BY <1>2, <1>4, <2>3, <2>5, <3>2, Settle DEF Points, Ended
  <2>6. CASE l \notin {"readVolume", "stopDel"}
    <3>1. Sole(c, Main, want) /\ Unrecorded(o) /\ Handed(o)
      BY <1>3, <1>6, <2>1, <2>3, <2>6 DEF Leaving, Whole, Gone, Sole
    <3>2. Sole(old[o], Main, want)'
      BY <1>4, <2>2, <3>1 DEF Sole, KeyKnown, TokKnown
    <3>3. Unrecorded(o)' /\ Handed(o)' BY <1>4, <3>1 DEF Unrecorded, Handed, Issued
    <3>4. kind[o] \in OpKinds BY DEF TypeOK
    <3>5. CASE l = "act"
      <4>1. Issued({hash})' BY <1>4, <2>3, <3>1, <3>5 DEF Handed, Issued
      <4> QED BY <1>2, <1>4, <2>3, <2>4, <3>2, <3>5, <4>1, Settle DEF World, Points, Ended
    <3>6. CASE l = "inspect"
      <4>1. Replaces(o)' BY <1>4, <2>3, <3>4, <3>6 DEF Replaces, OpKinds, Removals
      <4>2. World(o)' BY <2>4, <3>2, <3>3, <3>6, <4>1 DEF World
      <4> QED BY <1>2, <1>4, <2>3, <3>6, <4>2, Settle DEF Points, Ended
    <3> QED BY <2>6, <3>5, <3>6
  <2> QED BY <2>5, <2>6
<1> QED BY <1>5, <1>6

\* A start or a stop leaves the container as it was last wanted.
LEMMA ActSerial ==
  ASSUME TypeOK, SerialInv, Fallible \subseteq Undone, NEW o \in Ops, Act(o)
  PROVE  SerialInv'
<1>1. pc[o] = "act" BY DEF Act, At
<1>2. o \in InFlight BY <1>1 DEF InFlight, Ended
<1>3. Sole(old[o], Main, want) /\ Issued({hash}) BY <1>1 DEF SerialInv, World
<1>4. UNCHANGED <<row, hash, dtok, valid>> BY DEF Act, dockerVars, secretVars, dbVars
<1>5. old[o] \in exist BY <1>3 DEF Sole
<1>6. /\ docker' = [docker EXCEPT ![old[o]].up = (kind[o] = "start")]
      /\ want' = (kind[o] = "start") /\ Goto(o, "done") /\ NoFault
  BY <1>1, <1>5, Failing DEF Act, Refused, Undone
<1>7. /\ exist' = exist
      /\ docker'[old[o]].up = want' /\ docker'[old[o]].name = docker[old[o]].name
      /\ docker'[old[o]].key = docker[old[o]].key /\ docker'[old[o]].tok = docker[old[o]].tok
  BY <1>5, <1>6, SetUp
<1>8. Rest' BY <1>3, <1>4, <1>5, <1>6, <1>7 DEF Rest, Whole, Sole, KeyKnown, TokKnown, Issued, NoFault
<1>9. pc'[o] = "done" BY <1>6 DEF Goto, TypeOK
<1>10. World(o)' BY <1>9 DEF World
<1> QED BY <1>2, <1>4, <1>6, <1>8, <1>10, Settle DEF Points, Ended

\* Where an operation that touched nothing ends: a rotation revokes its key.
LEMMA ThrowSerial ==
  ASSUME TypeOK, SerialInv, NEW o \in Ops, o \in InFlight, Throw(o),
         UNCHANGED <<docker, row, hash, dtok, valid, want>>,
         hash # o, Whole, faults' # MaxFaults \/ UNCHANGED faults,
         Issued(IF kind[o] = "rotate" THEN {hash, o} ELSE {hash}) \/ faults' # MaxFaults
  PROVE  SerialInv'
<1>1. Whole' BY WholeKept
<1>2. hash' # o OBVIOUS
<1>3. CASE kind[o] = "rotate"
  <2>1. Goto(o, "revoke") BY <1>3 DEF Throw
  <2>2. pc'[o] = "revoke" BY <2>1 DEF Goto, TypeOK
  <2>3. Issued({hash, o})' BY <1>3 DEF Issued
  <2>4. World(o)' BY <1>1, <1>2, <2>2, <2>3 DEF World
  <2> QED BY <2>1, <2>4, Settle DEF Points, Undo, Ended
<1>4. CASE kind[o] # "rotate"
  <2>1. Goto(o, "failed") BY <1>4 DEF Throw
  <2>2. pc'[o] = "failed" BY <2>1 DEF Goto, TypeOK
  <2>3. Rest' BY <1>1, <1>4 DEF Rest, Issued
  <2>4. World(o)' BY <2>2 DEF World
  <2> QED BY <2>1, <2>3, <2>4, Settle DEF Points, Ended
<1> QED BY <1>3, <1>4

\* What is read of the old container is what it is: nobody else acts on it.
LEMMA InspectSerial ==
  ASSUME TypeOK, SerialInv, NEW o \in Ops, Inspect(o)
  PROVE  SerialInv'
<1>1. pc[o] = "inspect" BY DEF Inspect, At
<1>2. o \in InFlight BY <1>1 DEF InFlight, Ended
<1>3. Replaces(o) /\ Sole(old[o], Main, want) /\ Unrecorded(o) /\ Handed(o)
  BY <1>1 DEF SerialInv, World
<1>4. UNCHANGED <<docker, row, hash, dtok, valid, kind, old, new, want>>
  BY DEF Inspect, dockerVars, secretVars, dbVars
<1>5. old[o] \in exist BY <1>3 DEF Sole
<1>6. CASE Goto(o, "prepare")
  <2>1. UNCHANGED faults BY <1>1, <1>6, <1>5 DEF Inspect, NoFault, Throw, Goto, TypeOK
  <2>2. ctx' = [ctx EXCEPT ![o] = [@ EXCEPT !.was = docker[old[o]].up, !.name = docker[old[o]].name,
                                           !.key = docker[old[o]].key, !.tok = docker[old[o]].tok]]
    BY <1>6, <1>5 DEF Inspect, Throw, Goto, TypeOK
  <2>3. ctx[o] \in Context /\ DOMAIN ctx = Ops BY DEF TypeOK
  <2>4. /\ ctx'[o].was = docker[old[o]].up /\ ctx'[o].name = docker[old[o]].name
        /\ ctx'[o].key = docker[old[o]].key /\ ctx'[o].tok = docker[old[o]].tok
        /\ ctx'[o].prev = ctx[o].prev
    BY <2>2, <2>3 DEF Context
  <2>5. Sole(old[o], Main, want)' /\ Replaces(o)' BY <1>3, <1>4 DEF Sole, KeyKnown, TokKnown, exist, Replaces
  <2>6. Unrecorded(o)' /\ Handed(o)' BY <1>3, <1>4, <2>1, <2>4 DEF Unrecorded, Handed, Issued
  <2>7. pc'[o] = "prepare" BY <1>6 DEF Goto, TypeOK
  <2>8. ctx'[o].was = want /\ ctx'[o].name = Main BY <1>3, <2>4 DEF Sole
  <2>9. World(o)' BY <1>4, <2>4, <2>5, <2>6, <2>7, <2>8 DEF World
  <2> QED BY <1>2, <1>4, <1>6, <2>9, Settle DEF Points, Ended
<1>7. CASE ~Goto(o, "prepare")
  <2>1. Throw(o) /\ Fault(o) BY <1>7, <1>5 DEF Inspect, Refused
  <2>2. Whole BY <1>3, <1>5 DEF Whole
  <2> QED BY <1>2, <1>3, <1>4, <2>1, <2>2, Failing, ThrowSerial DEF Unrecorded
<1> QED BY <1>6, <1>7

\* The replacement is to carry a valid key, on record or the operation's own.
LEMMA PrepareSerial ==
  ASSUME TypeOK, SerialInv, NEW o \in Ops, Prepare(o)
  PROVE  SerialInv'
<1>1. pc[o] = "prepare" BY DEF Prepare, At
<1>2. o \in InFlight BY <1>1 DEF InFlight, Ended
<1>3. /\ Replaces(o) /\ Sole(old[o], Main, want) /\ Unrecorded(o) /\ Handed(o)
      /\ ctx[o].was = want /\ ctx[o].name = Main
      /\ ctx[o].key = docker[old[o]].key /\ ctx[o].tok = docker[old[o]].tok
  BY <1>1 DEF SerialInv, World
<1>4. UNCHANGED <<docker, row, hash, dtok, valid, kind, old, new, want>>
  BY DEF Prepare, dockerVars, secretVars, dbVars
<1>5. old[o] \in exist /\ ctx[o].key \in valid BY <1>3 DEF Sole
<1>6. ASSUME NEW k, NoFault,
             ctx' = [ctx EXCEPT ![o] = [@ EXCEPT !.key = k, !.tok = TokenFor(o)]],
             \/ k = o /\ kind[o] = "rotate" /\ Goto(o, "stop")
             \/ k = ctx[o].key /\ kind[o] = "recreate" /\ Usable(o) /\ (Goto(o, "stop") \/ Goto(o, "scope"))
             \/ k = o /\ kind[o] = "recreate" /\ ~Usable(o) /\ Goto(o, "issue")
      PROVE  SerialInv'
  <2>1. ctx[o] \in Context /\ DOMAIN ctx = Ops BY DEF TypeOK
  <2>2. /\ ctx'[o].was = ctx[o].was /\ ctx'[o].name = ctx[o].name
        /\ ctx'[o].key = k /\ ctx'[o].tok = TokenFor(o)
        /\ ctx'[o].prev = ctx[o].prev
    BY <1>6, <2>1 DEF Context
  <2>3. Replaces(o)' /\ Unrecorded(o)' BY <1>3, <1>4, <2>2 DEF Replaces, Unrecorded
  <2>4. Issued({hash, o})' BY <1>3, <1>4, <1>6 DEF Handed, Issued, NoFault
  <2>5. TokenFor(o) = o \/ TokenFor(o) = dtok BY DEF TokenFor
  <2>6. Sole(old[o], Main, want)' BY <1>3, <1>4, <1>6 DEF Sole, KeyKnown, TokKnown, exist
  <2>7. CASE Goto(o, "issue")
    <3>1. k = o /\ kind[o] = "recreate" /\ ~Usable(o) BY <1>6, <2>7 DEF Goto, TypeOK
    <3>2. hash \notin Ops BY <1>3, <3>1, NamesDistinct DEF Usable, Sole, KeyKnown
    <3>3. Issued({hash})' /\ o \notin valid' BY <1>3, <1>4, <1>6, <3>1 DEF Handed, Issued, NoFault
    <3>4. Ordered(o)' BY <1>3, <1>4, <2>2, <2>3, <2>5, <3>1, <3>2, <3>3 DEF Ordered
    <3>5. pc'[o] = "issue" BY <2>7 DEF Goto, TypeOK
    <3>6. World(o)' BY <2>6, <3>4, <3>5 DEF World
    <3> QED BY <1>2, <1>4, <2>7, <3>6, Settle DEF Points, Ended
  <2>8. CASE ~Goto(o, "issue")
    <3>1. PICK l \in {"stop", "scope"} : Goto(o, l) /\ (l = "scope" => kind[o] = "recreate") BY <1>6, <2>8
    <3>2. k \in valid BY <1>3, <1>5, <1>6, <2>8 DEF Handed
    <3>3. k = o \/ k = hash \/ (hash = NoKey /\ k = K0)
      BY <1>3, <1>6, <2>8 DEF Sole, KeyKnown, Usable
    <3>4. kind[o] = "rotate" => k = o BY <1>6
    <3>5. kind[o] = "recreate" => o \notin valid BY <1>3 DEF Handed
    <3>6. Chosen(o)' BY <1>3, <1>4, <2>2, <2>3, <2>4, <2>5, <3>2, <3>3, <3>4, <3>5 DEF Chosen
    <3>7. pc'[o] = l BY <3>1 DEF Goto, TypeOK
    <3>8. World(o)' BY <1>4, <2>6, <3>1, <3>6, <3>7 DEF World
    <3> QED BY <1>2, <1>4, <3>1, <3>8, Settle DEF Points, Before, Ended
  <2> QED BY <2>7, <2>8
<1>7. ASSUME Throw(o), Fault(o) PROVE SerialInv'
  <2>1. Whole BY <1>3, <1>5 DEF Whole
  <2> QED BY <1>2, <1>3, <1>4, <1>7, <2>1, Failing, ThrowSerial DEF Unrecorded
<1>8. ASSUME ~(Throw(o) /\ Fault(o)) PROVE SerialInv'
  <2> DEFINE own == kind[o] # "rotate" /\ Usable(o)
             k == IF own THEN ctx[o].key ELSE o
  <2>1. /\ NoFault /\ ctx' = [ctx EXCEPT ![o] = [@ EXCEPT !.key = k, !.tok = TokenFor(o)]]
        /\ Goto(o, CASE own /\ hash # NoKey -> "scope"
                     [] ~own /\ kind[o] # "rotate" -> "issue"
                     [] OTHER -> "stop")
    BY <1>1, <1>8 DEF Prepare, At
  <2>2. kind[o] \in {"recreate", "rotate"} BY <1>3 DEF Replaces
  <2>3. CASE own
    <3>1. ctx' = [ctx EXCEPT ![o] = [@ EXCEPT !.key = ctx[o].key, !.tok = TokenFor(o)]] BY <2>1, <2>3
    <3> QED BY <1>6, <2>1, <2>2, <2>3, <3>1
  <2>4. CASE ~own
    <3>1. ctx' = [ctx EXCEPT ![o] = [@ EXCEPT !.key = o, !.tok = TokenFor(o)]] BY <2>1, <2>4
    <3> QED BY <1>6, <2>1, <2>2, <2>4, <3>1
  <2> QED BY <2>3, <2>4
<1> QED BY <1>7, <1>8

\* An own key works, so it can be narrowed.
LEMMA ScopeOwnSerial ==
  ASSUME TypeOK, SerialInv, NEW o \in Ops, ScopeOwn(o)
  PROVE  SerialInv'
<1>1. pc[o] = "scope" BY DEF ScopeOwn, At
<1>2. o \in InFlight BY <1>1 DEF InFlight, Ended
<1>3. kind[o] = "recreate" /\ Sole(old[o], Main, want) /\ Chosen(o) BY <1>1 DEF SerialInv, World
<1>4. UNCHANGED <<docker, row, hash, dtok, valid, kind, old, new, ctx, want>>
  BY DEF ScopeOwn, dockerVars, secretVars, dbVars, refVars
<1>5. CASE Goto(o, "stop") /\ NoFault
  <2>1. Chosen(o)' BY <1>3, <1>4, <1>5 DEF Chosen, Unrecorded, Replaces, Issued, NoFault
  <2>2. Sole(old[o], Main, want)' BY <1>3, <1>4 DEF Sole, KeyKnown, TokKnown, exist
  <2>3. pc'[o] = "stop" BY <1>5 DEF Goto, TypeOK
  <2>4. World(o)' BY <2>1, <2>2, <2>3 DEF World
  <2> QED BY <1>2, <1>4, <1>5, <2>4, Settle DEF Points, Before, Ended
<1>6. CASE Throw(o) /\ Fault(o)
  <2>1. Whole /\ hash # o BY <1>3 DEF Whole, Sole, Chosen, Unrecorded
  <2> QED BY <1>2, <1>4, <1>6, <2>1, Failing, ThrowSerial
<1> QED BY <1>3, <1>5, <1>6 DEF ScopeOwn, Chosen

\* Else a key is issued, for the instance and nobody else.
LEMMA IssueSerial ==
  ASSUME TypeOK, SerialInv, NEW o \in Ops, Issue(o)
  PROVE  SerialInv'
<1>1. pc[o] = "issue" BY DEF Issue, At
<1>2. o \in InFlight BY <1>1 DEF InFlight, Ended
<1>3. Sole(old[o], Main, want) /\ Ordered(o) BY <1>1 DEF SerialInv, World
<1>4. UNCHANGED <<docker, row, hash, dtok, kind, old, new, ctx, want>>
  BY DEF Issue, dockerVars, dbVars, refVars
<1>5. CASE valid' = valid \cup {o} /\ Goto(o, "stop") /\ NoFault
  <2>1. Chosen(o)' BY <1>3, <1>4, <1>5 DEF Ordered, Chosen, Unrecorded, Replaces, Issued, NoFault
  <2>2. Sole(old[o], Main, want)' BY <1>3, <1>4, <1>5 DEF Sole, KeyKnown, TokKnown, exist
  <2>3. pc'[o] = "stop" BY <1>5 DEF Goto, TypeOK
  <2>4. World(o)' BY <2>1, <2>2, <2>3 DEF World
  <2> QED BY <1>2, <1>4, <1>5, <2>4, Settle DEF Points, Before, Ended
<1>6. CASE Throw(o) /\ Fault(o) /\ UNCHANGED valid
  <2>1. Whole /\ hash # o BY <1>3 DEF Whole, Sole, Ordered, Unrecorded
  <2> QED BY <1>2, <1>4, <1>6, <2>1, Failing, ThrowSerial
<1> QED BY <1>5, <1>6 DEF Issue

\* The old container is parked under the operation's name.
LEMMA RenameSerial ==
  ASSUME TypeOK, SerialInv, Fallible \subseteq Undone, NEW o \in Ops, Rename(o)
  PROVE  SerialInv'
<1>1. pc[o] = "rename" BY DEF Rename, At
<1>2. o \in InFlight BY <1>1 DEF InFlight, Ended
<1>3. Sole(old[o], Main, FALSE) /\ Chosen(o) BY <1>1 DEF SerialInv, World
<1>4. UNCHANGED <<row, hash, dtok, valid, kind, old, new, ctx, want>>
  BY DEF Rename, dockerVars, secretVars, dbVars, refVars
<1>5. old[o] \in exist BY <1>3 DEF Sole
<1>6. docker' = [docker EXCEPT ![old[o]].name = o] /\ Goto(o, "create") /\ NoFault
  BY <1>1, <1>5, Failing DEF Rename, Refused, Undone
<1>7. /\ exist' = exist
      /\ docker'[old[o]].name = o /\ docker'[old[o]].up = docker[old[o]].up
      /\ docker'[old[o]].key = docker[old[o]].key /\ docker'[old[o]].tok = docker[old[o]].tok
  BY <1>5, <1>6, SetName DEF Names
<1>8. Chosen(o)' BY <1>3, <1>4, <1>6 DEF Chosen, Unrecorded, Replaces, Issued, NoFault
<1>9. Sole(old[o], o, FALSE)' BY <1>3, <1>4, <1>7 DEF Sole, KeyKnown, TokKnown
<1>10. pc'[o] = "create" BY <1>6 DEF Goto, TypeOK
<1>11. World(o)' BY <1>8, <1>9, <1>10 DEF World
<1> QED BY <1>2, <1>4, <1>6, <1>11, Settle DEF Points, Before, Ended

\* The name is free, so the replacement is created unless the call fails.
LEMMA CreateSerial ==
  ASSUME TypeOK, SerialInv, NEW o \in Ops, Create(o)
  PROVE  SerialInv'
<1>1. pc[o] = "create" BY DEF Create, At
<1>2. o \in InFlight BY <1>1 DEF InFlight, Ended
<1>3. Sole(old[o], o, FALSE) /\ Chosen(o) BY <1>1 DEF SerialInv, World
<1>4. UNCHANGED <<row, hash, dtok, valid, kind, old, ctx, want>>
  BY DEF Create, dockerVars, secretVars, dbVars
<1>5. /\ old[o] \in exist /\ old[o] \in 0 .. top /\ top \in Nat /\ exist = {old[o]}
      /\ ctx[o].was = want /\ ctx[o].name = Main /\ want \in BOOLEAN
  BY <1>3 DEF Sole, Chosen, TypeOK
<1>6. ~Taken(ctx[o].name, top + 1)
  BY <1>3, <1>5, NamesDistinct DEF Taken, Sole
<1>7. CASE Goto(o, "undoName") /\ Fault(o) /\ UNCHANGED docker
  <2>1. faults' # MaxFaults BY <1>7, Failing
  <2>2. Chosen(o)' BY <1>3, <1>4, <2>1 DEF Chosen, Unrecorded, Replaces, Issued
  <2>3. Sole(old[o], o, FALSE)' BY <1>3, <1>4, <1>7 DEF Sole, KeyKnown, TokKnown, exist
  <2>4. pc'[o] = "undoName" BY <1>7 DEF Goto, TypeOK
  <2>5. World(o)' BY <2>2, <2>3, <2>4 DEF World
  <2> QED BY <1>2, <1>4, <1>7, <2>5, Settle DEF Points, Undo, Ended
<1>8. CASE /\ top' = top + 1
           /\ docker' = [c \in exist \cup {top'} |-> IF c = top' THEN Replacement(o) ELSE docker[c]]
           /\ new' = [new EXCEPT ![o] = top']
           /\ Goto(o, IF ctx[o].was THEN "startNew" ELSE "commit") /\ NoFault
  <2>1. new'[o] = top + 1 /\ old[o] < new'[o] BY <1>5, <1>8 DEF TypeOK
  <2>2. exist' = {old'[o], new'[o]} BY <1>4, <1>5, <1>8, <2>1 DEF exist
  <2>3. docker'[old[o]] = docker[old[o]] /\ docker'[new'[o]] = Replacement(o)
    BY <1>5, <1>8, <2>1 DEF exist
  <2>4. Chosen(o)' BY <1>3, <1>4, <1>8 DEF Chosen, Unrecorded, Replaces, Issued, NoFault
  <2>5. KeyKnown(old[o])' /\ TokKnown(old[o])' BY <1>3, <1>4, <2>3 DEF Sole, KeyKnown, TokKnown
  <2>6. /\ docker'[new'[o]].name = Main /\ docker'[new'[o]].up = FALSE
        /\ docker'[new'[o]].key = ctx'[o].key /\ docker'[new'[o]].tok = ctx'[o].tok
    BY <1>4, <1>5, <2>3 DEF Replacement
  <2>7. Pair(o, FALSE)' BY <1>3, <1>4, <2>1, <2>2, <2>3, <2>5, <2>6 DEF Pair, Sole
  <2>8. CASE want
    <3>1. pc'[o] = "startNew" BY <1>5, <1>8, <2>8 DEF Goto, TypeOK
    <3>2. World(o)' BY <1>4, <2>4, <2>7, <2>8, <3>1 DEF World
    <3> QED BY <1>2, <1>4, <1>5, <1>8, <2>8, <3>2, Settle DEF Points, Before, Ended
  <2>9. CASE ~want
    <3>1. pc'[o] = "commit" BY <1>5, <1>8, <2>9 DEF Goto, TypeOK
    <3>2. want' = FALSE BY <1>4, <1>5, <2>9
    <3>3. Pair(o, want)' BY <2>7, <3>2 DEF Pair
    <3>4. World(o)' BY <2>4, <3>1, <3>3 DEF World
    <3> QED BY <1>2, <1>4, <1>5, <1>8, <2>9, <3>4, Settle DEF Points, Before, Ended
  <2> QED BY <2>8, <2>9
<1> QED BY <1>6, <1>7, <1>8 DEF Create, dockerVars

\* The facts of Chosen do not depend on the containers.
LEMMA ChosenKept ==
  ASSUME NEW o \in Ops, Chosen(o), UNCHANGED <<hash, dtok, valid, kind, ctx, want>>,
         faults' # MaxFaults \/ UNCHANGED faults
  PROVE  Chosen(o)'
BY DEF Chosen, Unrecorded, Replaces, Issued

\* The replacement is started, or undone.
LEMMA StartNewSerial ==
  ASSUME TypeOK, SerialInv, NEW o \in Ops, StartNew(o)
  PROVE  SerialInv'
<1>1. pc[o] = "startNew" BY DEF StartNew, At
<1>2. o \in InFlight BY <1>1 DEF InFlight, Ended
<1>3. want /\ Pair(o, FALSE) /\ Chosen(o) BY <1>1 DEF SerialInv, World
<1>4. UNCHANGED <<row, hash, dtok, valid, kind, old, new, ctx, want>>
  BY DEF StartNew, dockerVars, secretVars, dbVars, refVars
<1>5. /\ exist = {old[o], new[o]} /\ new[o] \in exist /\ old[o] < new[o] /\ ~docker[new[o]].up
      /\ old[o] \in Nat /\ new[o] \in Nat
  BY <1>3 DEF Pair, TypeOK
<1>6. CASE Goto(o, "commit") /\ NoFault /\ docker' = [docker EXCEPT ![new[o]].up = TRUE]
  <2>1. exist' = exist /\ docker'[old[o]] = docker[old[o]] BY <1>5, <1>6 DEF exist
  <2>2. /\ docker'[new[o]].up = TRUE /\ docker'[new[o]].name = docker[new[o]].name
        /\ docker'[new[o]].key = docker[new[o]].key /\ docker'[new[o]].tok = docker[new[o]].tok
    BY <1>5, <1>6, SetUp
  <2>3. Chosen(o)' BY <1>3, <1>4, <1>6, ChosenKept DEF NoFault
  <2>4. want' = TRUE BY <1>3, <1>4 DEF TypeOK
  <2>5. Pair(o, want)' BY <1>3, <1>4, <2>1, <2>2, <2>4 DEF Pair, KeyKnown, TokKnown
  <2>6. pc'[o] = "commit" BY <1>6 DEF Goto, TypeOK
  <2>7. World(o)' BY <2>3, <2>5, <2>6 DEF World
  <2> QED BY <1>2, <1>4, <1>6, <2>7, Settle DEF Points, Before, Ended
<1>7. CASE Goto(o, "undoRemove") /\ Fault(o) /\ UNCHANGED docker
  <2>1. Chosen(o)' BY <1>3, <1>4, <1>7, ChosenKept, Failing
  <2>2. Pair(o, FALSE)' BY <1>3, <1>4, <1>7 DEF Pair, KeyKnown, TokKnown, exist
  <2>3. pc'[o] = "undoRemove" BY <1>7 DEF Goto, TypeOK
  <2>4. World(o)' BY <1>3, <1>4, <2>1, <2>2, <2>3 DEF World
  <2> QED BY <1>2, <1>4, <1>7, <2>4, Settle DEF Points, Undo, Ended
<1> QED BY <1>5, <1>6, <1>7 DEF StartNew

\* From here on the replacement is the one on record.
LEMMA CommitSerial ==
  ASSUME TypeOK, SerialInv, NEW o \in Ops, Commit(o)
  PROVE  SerialInv'
<1>1. pc[o] = "commit" BY DEF Commit, At
<1>2. o \in InFlight BY <1>1 DEF InFlight, Ended
<1>3. Pair(o, want) /\ Chosen(o) BY <1>1 DEF SerialInv, World
<1>4. /\ UNCHANGED <<docker, row, valid, kind, old, new, ctx, faults, want>>
      /\ Goto(o, "retire") /\ exist' = exist
  BY DEF Commit, dockerVars, refVars, exist
<1>5. row BY <1>3 DEF Pair
<1>6. hash' = (IF ctx[o].key = o THEN o ELSE hash) /\ dtok' = (IF ctx[o].tok = o THEN o ELSE dtok)
  BY <1>5 DEF Commit
<1>7. /\ exist' = {old'[o], new'[o]} /\ old'[o] < new'[o] /\ row'
      /\ docker'[new[o]].name = Main /\ docker'[new[o]].up = want'
      /\ docker'[new[o]].key = ctx[o].key /\ docker'[new[o]].tok = ctx[o].tok
  BY <1>3, <1>4 DEF Pair
<1>8. docker'[new[o]].key \in valid' /\ KeyKnown(new[o])' /\ TokKnown(new[o])'
  BY <1>3, <1>4, <1>6, <1>7 DEF Chosen, KeyKnown, TokKnown
<1>10. kind[o] = "rotate" => ctx[o].prev = hash /\ hash # o
  BY <1>3 DEF Chosen, Unrecorded
<1>11. pc'[o] = "retire" BY <1>4 DEF Goto, TypeOK
<1>12. Recorded(o)' BY <1>3, <1>4, <1>6, <1>10 DEF Recorded, Chosen, Unrecorded, Replaces, Issued
<1>13. World(o)' BY <1>4, <1>7, <1>8, <1>11, <1>12 DEF World
<1> QED BY <1>2, <1>4, <1>6, <1>13, Settle DEF Points, After, Ended

\* The old container goes, and the replacement is all there is.
LEMMA RetireSerial ==
  ASSUME TypeOK, SerialInv, Fallible \subseteq Undone, NEW o \in Ops, Retire(o)
  PROVE  SerialInv'
<1>1. pc[o] = "retire" BY DEF Retire, At
<1>2. o \in InFlight BY <1>1 DEF InFlight, Ended
<1>3. /\ exist = {old[o], new[o]} /\ old[o] < new[o] /\ row
      /\ docker[new[o]].name = Main /\ docker[new[o]].up = want
      /\ docker[new[o]].key \in valid /\ KeyKnown(new[o]) /\ TokKnown(new[o])
      /\ Recorded(o)
  BY <1>1 DEF SerialInv, World
<1>4. UNCHANGED <<row, hash, dtok, valid, kind, old, new, ctx, want>>
  BY DEF Retire, dockerVars, secretVars, dbVars, refVars
<1>5. docker' = Without(old[o]) /\ Goto(o, "final") /\ NoFault
  BY <1>1, <1>3, Failing DEF Retire, Refused, Undone
<1>6. old[o] \in Nat /\ new[o] \in Nat BY DEF TypeOK
<1>7. exist' = {new[o]} /\ docker'[new[o]] = docker[new[o]] BY <1>3, <1>5, <1>6, Drop
<1>8. Sole(new[o], Main, want)' BY <1>3, <1>4, <1>7 DEF Sole, KeyKnown, TokKnown
<1>9. Recorded(o)' BY <1>3, <1>4, <1>5 DEF Recorded, Replaces, Issued, NoFault
<1>10. pc'[o] = "final" BY <1>5 DEF Goto, TypeOK
<1>11. World(o)' BY <1>8, <1>9, <1>10 DEF World
<1> QED BY <1>2, <1>4, <1>5, <1>11, Settle DEF Points, After, Ended

\* A recreate is at rest again; a rotation has the old key left.
LEMMA FinalSerial ==
  ASSUME TypeOK, SerialInv, Fallible \subseteq Undone, NEW o \in Ops, Final(o)
  PROVE  SerialInv'
<1>1. pc[o] = "final" BY DEF Final, At
<1>2. o \in InFlight BY <1>1 DEF InFlight, Ended
<1>3. Sole(new[o], Main, want) /\ Recorded(o) BY <1>1 DEF SerialInv, World
<1>4. UNCHANGED <<docker, hash, dtok, valid, kind, old, new, ctx, want>>
  BY DEF Final, dockerVars, refVars
<1>5. new[o] \in exist /\ row BY <1>3 DEF Sole
<1>6. row' /\ Goto(o, IF kind[o] = "rotate" THEN "revokeOld" ELSE "done") /\ NoFault
  BY <1>1, <1>5, Failing DEF Final, Refused, Undone
<1>7. Sole(new[o], Main, want)' BY <1>3, <1>4, <1>6 DEF Sole, KeyKnown, TokKnown, exist
<1>8. Recorded(o)' BY <1>3, <1>4, <1>6 DEF Recorded, Replaces, Issued, NoFault
<1>9. CASE kind[o] = "rotate"
  <2>1. pc'[o] = "revokeOld" BY <1>6, <1>9 DEF Goto, TypeOK
  <2>2. World(o)' BY <1>4, <1>7, <1>8, <1>9, <2>1 DEF World
  <2> QED BY <1>2, <1>4, <1>6, <1>9, <2>2, Settle DEF Points, After, Ended
<1>10. CASE kind[o] # "rotate"
  <2>1. pc'[o] = "done" BY <1>6, <1>10 DEF Goto, TypeOK
  <2>2. World(o)' BY <2>1 DEF World
  <2>3. Issued({hash})' BY <1>4, <1>8, <1>10 DEF Recorded
  <2>4. Rest' BY <1>4, <1>5, <1>7, <2>3 DEF Rest, Whole, exist
  <2> QED BY <1>2, <1>4, <1>6, <1>10, <2>2, <2>4, Settle DEF Points, Ended
<1> QED BY <1>9, <1>10

\* The key a rotation revokes is not the one the replacement carries.
LEMMA RevokeOldSerial ==
  ASSUME TypeOK, SerialInv, Fallible \subseteq Undone, NEW o \in Ops, RevokeOld(o)
  PROVE  SerialInv'
<1>1. pc[o] = "revokeOld" BY DEF RevokeOld, At
<1>2. o \in InFlight BY <1>1 DEF InFlight, Ended
<1>3. kind[o] = "rotate" /\ Sole(new[o], Main, want) /\ Recorded(o) BY <1>1 DEF SerialInv, World
<1>4. UNCHANGED <<docker, row, hash, dtok, kind, old, new, ctx, want>> /\ Goto(o, "done")
  BY DEF RevokeOld, dockerVars, dbVars, refVars
<1>5. valid' = valid \ {ctx[o].prev} /\ NoFault BY <1>1, Failing DEF RevokeOld, Undone
<1>6. hash = o /\ ctx[o].prev # o BY <1>3 DEF Recorded
<1>7. docker[new[o]].key # ctx[o].prev BY <1>3, <1>6, NamesDistinct DEF Sole, KeyKnown
<1>8. Issued({hash})' BY <1>3, <1>4, <1>5 DEF Recorded, Issued, NoFault
<1>9. Whole' BY <1>3, <1>4, <1>5, <1>7 DEF Whole, Sole, KeyKnown, TokKnown, exist
<1>10. pc'[o] = "done" BY <1>4 DEF Goto, TypeOK
<1>11. World(o)' BY <1>10 DEF World
<1> QED BY <1>2, <1>4, <1>5, <1>8, <1>9, <1>11, Settle DEF Points, Ended, Rest

\* The undo, step by step: the old container is alone again, ...
LEMMA UndoRemoveSerial ==
  ASSUME TypeOK, SerialInv, Fallible \subseteq Undone, NEW o \in Ops, UndoRemove(o)
  PROVE  SerialInv'
<1>1. pc[o] = "undoRemove" BY DEF UndoRemove, At
<1>2. o \in InFlight BY <1>1 DEF InFlight, Ended
<1>3. want /\ Pair(o, FALSE) /\ Chosen(o) BY <1>1 DEF SerialInv, World
<1>4. UNCHANGED <<row, hash, dtok, valid, kind, old, new, ctx, want>> /\ Goto(o, "undoName")
  BY DEF UndoRemove, dockerVars, secretVars, dbVars, refVars
<1>5. docker' = Without(new[o]) /\ NoFault BY <1>1, Failing DEF UndoRemove, Undone
<1>6. exist = {old[o], new[o]} /\ old[o] < new[o] /\ old[o] \in Nat /\ new[o] \in Nat
  BY <1>3 DEF Pair, TypeOK
<1>7. exist' = {old[o]} /\ docker'[old[o]] = docker[old[o]] BY <1>5, <1>6, Drop
<1>8. Chosen(o)' BY <1>3, <1>4, <1>5, ChosenKept DEF NoFault
<1>9. docker[old[o]].up = FALSE
  <2>1. docker[old[o]] \in Container BY <1>6 DEF TypeOK
  <2> QED BY <1>3, <2>1 DEF Pair, Container
<1>10. Sole(old[o], o, FALSE)' BY <1>3, <1>4, <1>7, <1>9 DEF Pair, Sole, KeyKnown, TokKnown
<1>11. pc'[o] = "undoName" BY <1>4 DEF Goto, TypeOK
<1>12. World(o)' BY <1>8, <1>10, <1>11 DEF World
<1> QED BY <1>2, <1>4, <1>12, Settle DEF Points, Undo, Ended

\* ... under its name, which the replacement has given back, ...
LEMMA UndoNameSerial ==
  ASSUME TypeOK, SerialInv, Fallible \subseteq Undone, NEW o \in Ops, UndoName(o)
  PROVE  SerialInv'
<1>1. pc[o] = "undoName" BY DEF UndoName, At
<1>2. o \in InFlight BY <1>1 DEF InFlight, Ended
<1>3. Sole(old[o], o, FALSE) /\ Chosen(o) BY <1>1 DEF SerialInv, World
<1>4. /\ UNCHANGED <<row, hash, dtok, valid, kind, old, new, ctx, want>>
      /\ Goto(o, IF ctx[o].was THEN "undoStart" ELSE "revoke")
  BY DEF UndoName, dockerVars, secretVars, dbVars, refVars
<1>5. /\ exist = {old[o]} /\ old[o] \in exist
      /\ ctx[o].was = want /\ ctx[o].name = Main /\ want \in BOOLEAN
  BY <1>3 DEF Sole, Chosen, TypeOK
<1>6. docker' = [docker EXCEPT ![old[o]].name = Main] /\ NoFault
  BY <1>1, <1>5, Failing DEF UndoName, Taken, Undone
<1>7. /\ exist' = exist
      /\ docker'[old[o]].name = Main /\ docker'[old[o]].up = docker[old[o]].up
      /\ docker'[old[o]].key = docker[old[o]].key /\ docker'[old[o]].tok = docker[old[o]].tok
  BY <1>5, <1>6, SetName DEF Names
<1>8. Chosen(o)' BY <1>3, <1>4, <1>6, ChosenKept DEF NoFault
<1>9. Sole(old[o], Main, FALSE)' BY <1>3, <1>4, <1>7 DEF Sole, KeyKnown, TokKnown
<1>10. CASE want
  <2>1. pc'[o] = "undoStart" BY <1>4, <1>5, <1>10 DEF Goto, TypeOK
  <2>2. World(o)' BY <1>4, <1>8, <1>9, <1>10, <2>1 DEF World
  <2> QED BY <1>2, <1>4, <1>5, <1>10, <2>2, Settle DEF Points, Undo, Ended
<1>11. CASE ~want
  <2>1. pc'[o] = "revoke" BY <1>4, <1>5, <1>11 DEF Goto, TypeOK
  <2>2. want' = FALSE BY <1>4, <1>5, <1>11
  <2>3. Sole(old[o], Main, want)' BY <1>9, <2>2 DEF Sole
  <2>4. Whole' BY <1>4, <1>5, <1>7, <2>3 DEF Whole
  <2>5. (hash # o)' /\ Issued({hash, o})' BY <1>8 DEF Chosen, Unrecorded
  <2>6. World(o)' BY <2>1, <2>4, <2>5 DEF World
  <2> QED BY <1>2, <1>4, <1>5, <1>11, <2>6, Settle DEF Points, Undo, Ended
<1> QED BY <1>10, <1>11

\* ... and running, if it was.
LEMMA UndoStartSerial ==
  ASSUME TypeOK, SerialInv, Fallible \subseteq Undone, NEW o \in Ops, UndoStart(o)
  PROVE  SerialInv'
<1>1. pc[o] = "undoStart" BY DEF UndoStart, At
<1>2. o \in InFlight BY <1>1 DEF InFlight, Ended
<1>3. want /\ Sole(old[o], Main, FALSE) /\ Chosen(o) BY <1>1 DEF SerialInv, World
<1>4. UNCHANGED <<row, hash, dtok, valid, kind, old, new, ctx, want>> /\ Goto(o, "revoke")
  BY DEF UndoStart, dockerVars, secretVars, dbVars, refVars
<1>5. old[o] \in exist BY <1>3 DEF Sole
<1>6. docker' = [docker EXCEPT ![old[o]].up = TRUE] /\ NoFault
  BY <1>1, <1>5, Failing DEF UndoStart, Refused, Undone
<1>7. /\ exist' = exist
      /\ docker'[old[o]].up = TRUE /\ docker'[old[o]].name = docker[old[o]].name
      /\ docker'[old[o]].key = docker[old[o]].key /\ docker'[old[o]].tok = docker[old[o]].tok
  BY <1>5, <1>6, SetUp
<1>8. Chosen(o)' BY <1>3, <1>4, <1>6, ChosenKept DEF NoFault
<1>9. want' = TRUE BY <1>3, <1>4 DEF TypeOK
<1>10. Sole(old[o], Main, want)' BY <1>3, <1>4, <1>7, <1>9 DEF Sole, KeyKnown, TokKnown
<1>11. Whole' BY <1>4, <1>5, <1>7, <1>10 DEF Whole
<1>12. (hash # o)' /\ Issued({hash, o})' BY <1>8 DEF Chosen, Unrecorded
<1>13. pc'[o] = "revoke" BY <1>4 DEF Goto, TypeOK
<1>14. World(o)' BY <1>11, <1>12, <1>13 DEF World
<1> QED BY <1>2, <1>4, <1>14, Settle DEF Points, Undo, Ended

\* The key of an operation that failed is not the instance's.
LEMMA RevokeSerial ==
  ASSUME TypeOK, SerialInv, Fallible \subseteq Undone, NEW o \in Ops, Revoke(o)
  PROVE  SerialInv'
<1>1. pc[o] = "revoke" BY DEF Revoke, At
<1>2. o \in InFlight BY <1>1 DEF InFlight, Ended
<1>3. hash # o /\ Whole /\ Issued({hash, o}) BY <1>1 DEF SerialInv, World
<1>4. UNCHANGED <<docker, row, hash, dtok, want>> /\ Goto(o, "failed")
  BY DEF Revoke, dockerVars, dbVars, refVars
<1>5. valid' = valid \ {o} /\ NoFault BY <1>1, Failing DEF Revoke, Undone
<1>6. \A c \in exist : KeyKnown(c) => docker[c].key # o BY <1>3, NamesDistinct DEF KeyKnown
<1>7. Whole' BY <1>3, <1>4, <1>5, <1>6 DEF Whole, Gone, Sole, KeyKnown, TokKnown, exist
<1>8. Issued({hash})' BY <1>3, <1>4, <1>5 DEF Issued, NoFault
<1>9. pc'[o] = "failed" BY <1>4 DEF Goto, TypeOK
<1>10. World(o)' BY <1>9 DEF World
<1> QED BY <1>2, <1>4, <1>5, <1>7, <1>8, <1>10, Settle DEF Points, Ended, Rest

\* A removal reads the name of the volume off the container it found, ...
LEMMA ReadVolumeSerial ==
  ASSUME TypeOK, SerialInv, Fallible \subseteq Undone, NEW o \in Ops, ReadVolume(o)
  PROVE  SerialInv'
<1>1. pc[o] = "readVolume" BY DEF ReadVolume, At
<1>2. o \in InFlight BY <1>1 DEF InFlight, Ended
<1>3. Leaving(o) /\ exist = {old[o]} /\ row BY <1>1 DEF SerialInv, World
<1>4. UNCHANGED <<docker, row, hash, dtok, valid, kind, old>> /\ exist' = exist
  BY DEF ReadVolume, dockerVars, secretVars, dbVars, exist
<1>5. Goto(o, "stopDel") /\ NoFault
  BY <1>1, Failing DEF ReadVolume, Undone
<1>6. Leaving(o)' BY <1>3, <1>4, <1>5 DEF Leaving, Issued, NoFault
<1>7. pc'[o] = "stopDel" BY <1>5 DEF Goto, TypeOK
<1>8. World(o)' BY <1>3, <1>4, <1>6, <1>7 DEF World
<1> QED BY <1>2, <1>4, <1>5, <1>8, Settle DEF Points, Ended

\* ... stops it, ...
LEMMA StopDelSerial ==
  ASSUME TypeOK, SerialInv, Fallible \subseteq Undone, NEW o \in Ops, StopDel(o)
  PROVE  SerialInv'
<1>1. pc[o] = "stopDel" BY DEF StopDel, At
<1>2. o \in InFlight BY <1>1 DEF InFlight, Ended
<1>3. Leaving(o) /\ exist = {old[o]} /\ row BY <1>1 DEF SerialInv, World
<1>4. UNCHANGED <<row, hash, dtok, valid, kind, old, new>>
  BY DEF StopDel, dockerVars, secretVars, dbVars, refVars
<1>5. exist' = exist /\ Goto(o, "delete") /\ NoFault
  BY <1>1, <1>3, Failing DEF StopDel, Undone, exist
<1>6. Leaving(o)' BY <1>3, <1>4, <1>5 DEF Leaving, Issued, NoFault
<1>7. pc'[o] = "delete" BY <1>5 DEF Goto, TypeOK
<1>8. World(o)' BY <1>3, <1>4, <1>5, <1>6, <1>7 DEF World
<1> QED BY <1>2, <1>4, <1>5, <1>8, Settle DEF Points, Ended

\* ... and takes it away, and with it, unless the volume is next, every record.
LEMMA DeleteSerial ==
  ASSUME TypeOK, SerialInv, Fallible \subseteq Undone, NEW o \in Ops, Delete(o)
  PROVE  SerialInv'
<1>1. pc[o] = "delete" BY DEF Delete, At
<1>2. o \in InFlight BY <1>1 DEF InFlight, Ended
<1>3. Leaving(o) /\ exist = {old[o]} BY <1>1 DEF SerialInv, World
<1>4. docker' = Without(old[o]) /\ NoFault /\ UNCHANGED <<valid, kind, old, want>>
  BY <1>1, <1>3, Failing DEF Delete, Refused, Undone, refVars
<1>5. exist' = {} BY <1>3, <1>4, Drop
<1>6. CASE RecordsGo /\ Goto(o, "done")
  <2>1. Rest' BY <1>3, <1>4, <1>5, <1>6 DEF Rest, Whole, Gone, Leaving, Issued, NoFault, RecordsGo
  <2>2. pc'[o] = "done" BY <1>6 DEF Goto, TypeOK
  <2>3. World(o)' BY <2>2 DEF World
  <2> QED BY <1>2, <1>4, <1>6, <2>1, <2>3, Settle DEF Points, Ended, RecordsGo
<1>7. CASE UNCHANGED dbVars /\ Goto(o, "dropVolume")
  <2>1. Leaving(o)' BY <1>3, <1>4 DEF Leaving, Issued, NoFault
  <2>2. pc'[o] = "dropVolume" BY <1>7 DEF Goto, TypeOK
  <2>3. World(o)' BY <1>5, <2>1, <2>2 DEF World
  <2> QED BY <1>2, <1>4, <1>7, <2>3, Settle DEF Points, Ended, dbVars
<1> QED BY <1>1, <1>3, <1>6, <1>7, Failing DEF Delete, Refused, Undone

\* The volume is free, so it goes, and with it every record.
LEMMA DropVolumeSerial ==
  ASSUME TypeOK, SerialInv, Fallible \subseteq Undone, NEW o \in Ops, DropVolume(o)
  PROVE  SerialInv'
<1>1. pc[o] = "dropVolume" BY DEF DropVolume, At
<1>2. o \in InFlight BY <1>1 DEF InFlight, Ended
<1>3. Leaving(o) /\ exist = {} BY <1>1 DEF SerialInv, World
<1>4. RecordsGo /\ Goto(o, "done") /\ NoFault /\ UNCHANGED <<docker, valid>> /\ exist' = exist
  BY <1>1, <1>3, Failing DEF DropVolume, Undone, exist
<1>5. Rest' BY <1>3, <1>4 DEF Rest, Whole, Gone, Leaving, Issued, NoFault, RecordsGo
<1>6. pc'[o] = "done" BY <1>4 DEF Goto, TypeOK
<1>7. World(o)' BY <1>6 DEF World
<1> QED BY <1>2, <1>4, <1>5, <1>7, Settle DEF Points, Ended, RecordsGo

\* At first the instance is whole, with what it had before.
LEMMA InitSerial == Init => SerialInv
<1> SUFFICES ASSUME Init PROVE SerialInv OBVIOUS
<1>1. PICK up \in BOOLEAN, k \in {K0, Master}, h \in {K0, NoKey}, t \in {K0, NoKey},
          d \in {K0, NoKey} :
        /\ h = K0 => k = K0
        /\ d = K0 => t = K0
        /\ docker = [c \in {0} |-> [name |-> Main, up |-> up, key |-> k, tok |-> t]]
        /\ hash = h /\ dtok = d /\ want = up
  BY DEF Init
<1>2. row /\ valid = {K0, Master} /\ \A o \in Ops : pc[o] = "idle" BY DEF Init
<1>3. exist = {0} BY <1>1 DEF exist
<1>4. docker[0].name = Main /\ docker[0].up = want /\ docker[0].key = k /\ docker[0].tok = t
  BY <1>1
<1>5. Sole(0, Main, want) BY <1>1, <1>2, <1>3, <1>4 DEF Sole, KeyKnown, TokKnown
<1>6. Rest BY <1>2, <1>3, <1>5, NamesDistinct DEF Rest, Whole, Issued
<1>7. InFlight = {} BY <1>2 DEF InFlight, Ended
<1>8. \A o \in Ops : o \notin valid /\ hash # o BY <1>1, <1>2, NamesDistinct
<1>9. \A o \in Ops : World(o) BY <1>2 DEF World
<1> QED BY <1>6, <1>7, <1>8, <1>9 DEF SerialInv, Alone, Unissued

\* Every step of the one operation in flight keeps the picture true.
LEMMA StepSerial ==
  ASSUME TypeOK, SerialInv, MaxInFlight = 1, Fallible \subseteq Undone, [Next]_vars
  PROVE  SerialInv'
<1>1. ASSUME NEW o \in Ops, Step(o) PROVE SerialInv'
  BY <1>1, BeginSerial, MintSerial, ResolveSerial, ActSerial, RevokeOldSerial, DropKeySerial,
     ReadVolumeSerial, StopDelSerial, DeleteSerial, DropVolumeSerial, InspectSerial, PrepareSerial,
     ScopeOwnSerial, IssueSerial, StopOldSerial, RenameSerial,
     CreateSerial, StartNewSerial, CommitSerial, RetireSerial, FinalSerial, UndoRemoveSerial,
     UndoNameSerial, UndoStartSerial, RevokeSerial
  DEF Step, Recreate
<1>2. ~Crash BY DEF Crash, Undone
<1>3. CASE UNCHANGED vars
  <2>1. UNCHANGED <<docker, row, hash, dtok, valid, pc, kind, old, new, ctx, faults, want>>
    BY <1>3 DEF vars
  <2>2. UNCHANGED exist BY <2>1 DEF exist
  <2>3. (Alone /\ Unissued)' /\ Quiet' = Quiet BY <2>1 DEF SerialInv, Alone, Unissued, Quiet, InFlight
  <2>4. Rest' = Rest BY <2>1, <2>2 DEF Rest, Whole, Gone, Sole, KeyKnown, TokKnown, Issued
  <2>5. ASSUME NEW o \in Ops PROVE World(o)'
    <3>1. World(o) BY DEF SerialInv
    <3> QED BY <2>1, <2>2, <3>1 DEF World, Rest, Whole, Gone, Sole, KeyKnown, TokKnown, Issued,
             Unrecorded, Handed, Replaces, Chosen, Ordered, Pair, Recorded, Leaving
  <2> QED BY <2>3, <2>4, <2>5 DEF SerialInv
<1>4. Next => Crash \/ \E o \in Ops : Step(o) BY DEF Next, Step
<1> QED BY <1>1, <1>2, <1>3, <1>4

\* One operation at a time, and calls failing only where recreateInstance undoes
\* its work or has not begun it: SerialInv is inductive.
THEOREM SerialInductive ==
  ASSUME MaxInFlight = 1, Fallible \subseteq Undone
  PROVE  Spec => []SerialInv
<1>1. TypeOK /\ SerialInv /\ [Next]_vars => SerialInv' BY StepSerial
<1> QED BY <1>1, InitSerial, TypeCorrect, PTL DEF Spec

\* At rest the newest container is the only one.
LEMMA RestNewest ==
  ASSUME TypeOK, SerialInv, Quiet, exist # {}
  PROVE  \E c \in exist : Newest = c /\ Sole(c, Main, want)
<1>1. PICK c \in exist : Sole(c, Main, want) BY DEF SerialInv, Rest, Whole, Gone
<1>2. c \in Nat /\ exist = {c} BY <1>1 DEF Sole, TypeOK
<1>3. Newest = c BY <1>2 DEF Newest
<1> QED BY <1>1, <1>3

\* Then recreateInstance is all or nothing: at rest there is one container,
\* under the instance's name, running iff it was last asked to.
THEOREM SerialRestored ==
  ASSUME MaxInFlight = 1, Fallible \subseteq Undone
  PROVE  Spec => []RestoredOrReplaced
<1>1. TypeOK /\ SerialInv => RestoredOrReplaced
  BY RestNewest DEF RestoredOrReplaced, Sole
<1> QED BY <1>1, TypeCorrect, SerialInductive, PTL

\* And the database has on record what a recreated container carries, so that
\* its callbacks are accepted and its key can be scoped, rotated and revoked.
THEOREM SerialSecretsAgree ==
  ASSUME MaxInFlight = 1, Fallible \subseteq Undone
  PROVE  Spec => []SecretsAgree
<1>1. TypeOK /\ SerialInv => SecretsAgree
  BY RestNewest DEF SecretsAgree, Sole, KeyKnown, TokKnown
<1> QED BY <1>1, TypeCorrect, SerialInductive, PTL

\* And no recreate or rotation leaves the instance on a key LiteLLM has deleted.
THEOREM SerialNotOnDeletedKey ==
  ASSUME MaxInFlight = 1, Fallible \subseteq Undone
  PROVE  Spec => []NotOnDeletedKey
<1>1. TypeOK /\ SerialInv => NotOnDeletedKey
  BY RestNewest DEF NotOnDeletedKey, Sole
<1> QED BY <1>1, TypeCorrect, SerialInductive, PTL

\* The volume of an instance that is off the record is left only by a removal
\* that was not to take it along.
Cleared == ~row /\ vol => \E o \in Ops : kind[o] = "remove" /\ pc[o] = "done"

\* Few steps touch the row or the volume.
LEMMA RowAndVolume ==
  ASSUME NEW o \in Ops, Step(o)
  PROVE  UNCHANGED <<row, vol>> \/ Create(o) \/ Final(o) \/ Delete(o) \/ DropVolume(o)
<1> USE DEF dockerVars, dockerVars, secretVars, dbVars
<1>1. CASE Begin(o) \/ Mint(o) \/ Resolve(o) \/ Act(o) \/ RevokeOld(o) \/ DropKey(o) \/ ReadVolume(o) \/ StopDel(o)
  BY <1>1 DEF Begin, Mint, Resolve, Act, RevokeOld, DropKey, ReadVolume, StopDel
<1>2. CASE Inspect(o) \/ Prepare(o) \/ ScopeOwn(o) \/ Issue(o) \/ StopOld(o) \/ Rename(o) \/ StartNew(o)
  BY <1>2 DEF Inspect, Prepare, ScopeOwn, Issue, StopOld, Rename, StartNew
<1>3. CASE Commit(o) \/ Retire(o) \/ UndoRemove(o) \/ UndoName(o) \/ UndoStart(o) \/ Revoke(o)
  BY <1>3 DEF Commit, Retire, UndoRemove, UndoName, UndoStart, Revoke
<1> QED BY <1>1, <1>2, <1>3 DEF Step, Recreate

\* A removal that was to take the volume along has read its name.
Named == \A o \in Ops : kind[o] = "purge" /\ pc[o] \in {"stopDel", "delete"} => ctx[o].was

\* A step leaves the other operations' notes alone, ...
LEMMA KindAndContext ==
  ASSUME TypeOK, NEW o \in Ops, Step(o)
  PROVE  UNCHANGED kind /\ \A p \in Ops \ {o} : ctx'[p] = ctx[p]
<1> USE DEF TypeOK, dockerVars, refVars
<1>1. CASE Begin(o) \/ Mint(o) \/ Resolve(o) \/ Act(o) \/ RevokeOld(o) \/ DropKey(o)
  BY <1>1 DEF Begin, Mint, Resolve, Act, RevokeOld, DropKey
<1>2. CASE ReadVolume(o) \/ StopDel(o) \/ Delete(o) \/ DropVolume(o)
  BY <1>2 DEF ReadVolume, StopDel, Delete, DropVolume
<1>3. CASE Inspect(o) \/ Prepare(o) \/ ScopeOwn(o) \/ Issue(o) \/ StopOld(o) \/ Rename(o)
  BY <1>3 DEF Inspect, Prepare, ScopeOwn, Issue, StopOld, Rename
<1>4. CASE Create(o) \/ StartNew(o) \/ Commit(o) \/ Retire(o) \/ Final(o)
  BY <1>4 DEF Create, StartNew, Commit, Retire, Final
<1>5. CASE UndoRemove(o) \/ UndoName(o) \/ UndoStart(o) \/ Revoke(o)
  BY <1>5 DEF UndoRemove, UndoName, UndoStart, Revoke
<1> QED BY <1>1, <1>2, <1>3, <1>4, <1>5 DEF Step, Recreate

\* ... is one of an operation that has not ended, ...
LEMMA Unended ==
  ASSUME NEW o \in Ops, Step(o)
  PROVE  pc[o] # "done"
BY DEF Step, Recreate, At, Begin, Mint, Resolve, Act, RevokeOld, DropKey, ReadVolume, StopDel, Delete,
       DropVolume, Inspect, Prepare, ScopeOwn, Issue, StopOld, Rename, Create, StartNew, Commit, Retire,
       Final, UndoRemove, UndoName, UndoStart, Revoke

\* ... and comes to the stop before the deletion of a container with its volume
\* by way of the volume's name.
LEMMA NotToDelete ==
  ASSUME TypeOK, NEW o \in Ops, Step(o), ~ReadVolume(o), ~StopDel(o), kind[o] = "purge"
  PROVE  pc'[o] \notin {"stopDel", "delete"}
<1> USE DEF TypeOK, Goto, Throw
<1>1. CASE Begin(o) \/ Mint(o) \/ Resolve(o) \/ Act(o) \/ RevokeOld(o) \/ DropKey(o)
  BY <1>1 DEF Begin, Mint, Resolve, Act, RevokeOld, DropKey
<1>2. CASE Delete(o) \/ DropVolume(o)
  BY <1>2 DEF Delete, DropVolume
<1>3. CASE Inspect(o) \/ Prepare(o) \/ ScopeOwn(o) \/ Issue(o) \/ StopOld(o) \/ Rename(o)
  BY <1>3 DEF Inspect, Prepare, ScopeOwn, Issue, StopOld, Rename
<1>4. CASE Create(o) \/ StartNew(o) \/ Commit(o) \/ Retire(o) \/ Final(o)
  BY <1>4 DEF Create, StartNew, Commit, Retire, Final
<1>5. CASE UndoRemove(o) \/ UndoName(o) \/ UndoStart(o) \/ Revoke(o)
  BY <1>5 DEF UndoRemove, UndoName, UndoStart, Revoke
<1> QED BY <1>1, <1>2, <1>3, <1>4, <1>5 DEF Step, Recreate

LEMMA ClearedStep ==
  ASSUME TypeOK, SerialInv, Cleared, Named, MaxInFlight = 1, Fallible \subseteq Undone, [Next]_vars
  PROVE  Cleared' /\ Named'
<1>1. ASSUME NEW o \in Ops, Step(o) PROVE Cleared' /\ Named'
  <2>w. World(o) BY DEF SerialInv
  <2>1. PICK l \in Points : Goto(o, l) BY <1>1, PointsType
  <2>2. pc'[o] = l /\ \A p \in Ops \ {o} : pc'[p] = pc[p] BY <2>1 DEF Goto, TypeOK
  <2>3. UNCHANGED kind /\ \A p \in Ops \ {o} : ctx'[p] = ctx[p] BY <1>1, KindAndContext
  <2>4. Cleared'
    <3>1. pc[o] # "done" BY <1>1, Unended
    <3>2. CASE UNCHANGED <<row, vol>> BY <2>2, <2>3, <3>1, <3>2 DEF Cleared
    <3>3. CASE Create(o)
      <4>1. row /\ UNCHANGED row BY <2>w, <3>3 DEF Create, At, World, Sole, secretVars, dbVars
      <4> QED BY <4>1 DEF Cleared
    <3>4. CASE Final(o)
      <4>1. row /\ (row' \/ UNCHANGED row) BY <2>w, <3>4 DEF Final, At, World, Sole
      <4> QED BY <4>1 DEF Cleared
    <3>5. CASE Delete(o)
      <4>1. pc[o] = "delete" /\ kind[o] \in Removals BY <2>w, <3>5 DEF Delete, At, World, Leaving
      <4>2. CASE kind[o] = "remove"
        <5>1. exist = {old[o]} BY <2>w, <4>1 DEF World
        <5>2. Goto(o, "done") BY <3>5, <4>1, <4>2, <5>1, Failing DEF Delete, Refused, Undone
        <5> QED BY <2>3, <4>2, <5>2 DEF Cleared, Goto, TypeOK
      <4>3. CASE kind[o] = "purge"
        <5>1. ctx[o].was /\ row BY <2>w, <4>1, <4>3 DEF Named, World
        <5>2. UNCHANGED row BY <3>5, <4>3, <5>1 DEF Delete, dbVars
        <5> QED BY <5>1, <5>2 DEF Cleared
      <4> QED BY <4>1, <4>2, <4>3 DEF Removals
    <3>6. CASE DropVolume(o)
      <4>1. pc[o] = "dropVolume" /\ exist = {} BY <2>w, <3>6 DEF DropVolume, At, World
      <4>2. vol' = FALSE BY <3>6, <4>1, Failing DEF DropVolume, Undone
      <4> QED BY <4>2 DEF Cleared
    <3> QED BY <1>1, <3>2, <3>3, <3>4, <3>5, <3>6, RowAndVolume
  <2>5. Named'
    <3>1. CASE ReadVolume(o)
      <4>1. pc[o] = "readVolume" /\ old[o] \in exist BY <2>w, <3>1 DEF ReadVolume, At, World
      <4>2. ctx' = [ctx EXCEPT ![o].was = TRUE] /\ ctx[o] \in Context /\ DOMAIN ctx = Ops
        BY <3>1, <4>1, Failing DEF ReadVolume, Undone, TypeOK
      <4>3. ctx'[o].was BY <4>2 DEF Context
      <4> QED BY <2>2, <2>3, <4>3 DEF Named
    <3>2. CASE StopDel(o)
      <4>1. pc[o] = "stopDel" /\ UNCHANGED ctx BY <3>2 DEF StopDel, At, refVars
      <4> QED BY <2>2, <2>3, <4>1 DEF Named
    <3>3. CASE ~ReadVolume(o) /\ ~StopDel(o)
      <4>1. kind[o] = "purge" => l \notin {"stopDel", "delete"} BY <1>1, <2>2, <3>3, NotToDelete
      <4> QED BY <2>2, <2>3, <4>1 DEF Named
    <3> QED BY <3>1, <3>2, <3>3
  <2> QED BY <2>4, <2>5
<1>2. ~Crash BY DEF Crash, Undone
<1>3. CASE UNCHANGED vars BY <1>3 DEF vars, Cleared, Named
<1>4. Next => Crash \/ \E o \in Ops : Step(o) BY DEF Next, Step
<1> QED BY <1>1, <1>2, <1>3, <1>4

\* And a removal in a history without a failed call leaves no container, no key
\* that was issued for the instance, and no volume that was to go with it.
THEOREM SerialRemoveLeavesNothing ==
  ASSUME MaxInFlight = 1, Fallible \subseteq Undone
  PROVE  Spec => []RemoveLeavesNothing
<1>1. SerialInv /\ Cleared => RemoveLeavesNothing
  <2> SUFFICES ASSUME SerialInv, Cleared, Quiet, ~row, faults = MaxFaults
               PROVE  /\ exist = {} /\ valid \cap Ops = {}
                      /\ vol => \E o \in Ops : kind[o] = "remove" /\ pc[o] = "done"
    BY DEF RemoveLeavesNothing
  <2>1. Gone /\ Issued({hash}) BY DEF SerialInv, Rest, Whole, Sole
  <2> QED BY <2>1, NamesDistinct DEF Gone, Issued, Cleared
<1>2. Init => Cleared /\ Named BY DEF Init, Cleared, Named
<1>3. TypeOK /\ SerialInv /\ (Cleared /\ Named) /\ [Next]_vars => (Cleared /\ Named)' BY ClearedStep
<1> QED BY <1>1, <1>2, <1>3, TypeCorrect, SerialInductive, PTL DEF Spec

-----------------------------------------------------------------------------
(* One operation at a time, Lifecycle implements AtomicInstance.           *)

\* Which container stands for the instance at the program points of an operation.
OldFaced == {"act", "inspect", "prepare", "scope", "issue", "stop"} \cup Interrupted
NewFaced == {"retire", "final", "revokeOld"}
Faces ==
  /\ \A o \in Ops : pc[o] \in OldFaced => There /\ Shown = old[o]
  /\ \A o \in Ops : pc[o] \in NewFaced => There /\ Shown = new[o]
  /\ \A c : exist = {c} /\ (\A o \in Ops : pc[o] \notin Pending) => Shown = c

\* A removal that has revoked the key.
Going(o, l) ==
  kind[o] \in Removals /\ l \in {"resolve", "readVolume", "stopDel", "delete", "dropVolume"}

\* Of the operations only o is under way, so it is the one a mapping can mean.
LEMMA OnlyOne ==
  ASSUME SerialInv, NEW o \in InFlight
  PROVE  /\ \A p \in Ops : pc[p] \notin Ended => p = o
         /\ Doomed <=> Going(o, pc[o])
         /\ pc[o] \in Pending => (CHOOSE p \in Ops : pc[p] \in Pending) = o
         /\ pc[o] \in Interrupted => (CHOOSE p \in Ops : pc[p] \in Interrupted) = o
<1>1. \A p \in Ops : pc[p] \notin Ended => p = o BY DEF SerialInv, Alone, InFlight
<1>2. \A p \in Ops : pc[p] \in Pending \cup Interrupted \cup {"resolve", "readVolume", "stopDel", "delete", "dropVolume"} => p = o
  BY <1>1 DEF Pending, Interrupted, Ended
<1>3. o \in Ops BY DEF InFlight
<1> QED BY <1>1, <1>2, <1>3 DEF Doomed, Going

LEMMA FacesHold == TypeOK /\ SerialInv => Faces
<1> SUFFICES ASSUME TypeOK, SerialInv PROVE Faces OBVIOUS
<1>1. ASSUME NEW c, exist = {c}, \A o \in Ops : pc[o] \notin Pending PROVE Shown = c
  <2>1. c \in Nat BY <1>1 DEF TypeOK
  <2> QED BY <1>1, <2>1 DEF Shown, Newest
<1>2. ASSUME NEW o \in Ops, pc[o] \in OldFaced PROVE There /\ Shown = old[o]
  <2>1. o \in InFlight BY <1>2 DEF OldFaced, Interrupted, InFlight, Ended
  <2>w. World(o) BY DEF SerialInv
  <2>2. exist # {} /\ (pc[o] \notin Pending => exist = {old[o]})
    <3>1. CASE pc[o] \in Pending
      <4>1. Pair(o, FALSE) \/ Pair(o, want) BY <2>w, <3>1 DEF World, Pending
      <4> QED BY <3>1, <4>1 DEF Pair
    <3>2. CASE pc[o] \notin Pending
      <4>1. \E n, up : Sole(old[o], n, up) BY <1>2, <2>w, <3>2 DEF World, OldFaced, Interrupted, Pending
      <4> QED BY <3>2, <4>1 DEF Sole
    <3> QED BY <3>1, <3>2
  <2>3. There BY <1>2, <2>1, <2>2, OnlyOne DEF There, OldFaced, Interrupted, Going
  <2>4. CASE pc[o] \in Pending BY <2>1, <2>3, <2>4, OnlyOne DEF Shown
  <2>5. CASE pc[o] \notin Pending
    <3>1. \A p \in Ops : pc[p] \notin Pending BY <2>1, <2>5, OnlyOne DEF Pending, Ended
    <3> QED BY <1>1, <2>2, <2>3, <2>5, <3>1
  <2> QED BY <2>4, <2>5
<1>3. ASSUME NEW o \in Ops, pc[o] \in NewFaced PROVE There /\ Shown = new[o]
  <2>1. o \in InFlight BY <1>3 DEF NewFaced, InFlight, Ended
  <2>2. \A p \in Ops : pc[p] \notin Pending BY <1>3, <2>1, OnlyOne DEF NewFaced, Pending, Ended
  <2>3. CASE pc[o] = "retire"
    <3>w. World(o) BY DEF SerialInv
    <3>1. exist = {old[o], new[o]} /\ old[o] < new[o] /\ old[o] \in Nat /\ new[o] \in Nat
      BY <2>3, <3>w DEF World, TypeOK
    <3>2. Newest = new[o] BY <3>1 DEF Newest
    <3> QED BY <2>1, <2>2, <2>3, <3>1, <3>2, OnlyOne DEF There, Shown, Going
  <2>4. CASE pc[o] # "retire"
    <3>1. exist = {new[o]} BY <1>3, <2>4 DEF SerialInv, World, NewFaced, Sole
    <3>2. There BY <1>3, <2>1, <3>1, OnlyOne DEF There, NewFaced, Going
    <3> QED BY <1>1, <2>2, <3>1, <3>2
  <2> QED BY <2>3, <2>4
<1> QED BY <1>1, <1>2, <1>3 DEF Faces

\* What stands for the instance has a key that works, and the instance runs iff
\* the user last asked it to, also while its container is stopped for a while.
Works == There => Runs = want /\ docker[Shown].key \in valid

LEMMA WorksHolds == TypeOK /\ SerialInv => Works
<1> SUFFICES ASSUME TypeOK, SerialInv, There PROVE Runs = want /\ docker[Shown].key \in valid
  BY DEF Works
<1>f. Faces BY FacesHold
<1>1. ASSUME NEW c, Sole(c, Main, want), \A o \in Ops : pc[o] \notin Interrupted
      PROVE  Runs = want /\ docker[Shown].key \in valid
  <2>1. \A o \in Ops : pc[o] \notin Pending BY <1>1 DEF Pending, Interrupted
  <2>2. Shown = c BY <1>1, <1>f, <2>1 DEF Faces, Sole
  <2> QED BY <1>1, <2>2 DEF Runs, Sole
<1>2. CASE Quiet
  <2>1. \A o \in Ops : pc[o] \notin Interrupted BY <1>2 DEF Quiet, InFlight, Interrupted, Ended
  <2>2. Whole BY <1>2 DEF SerialInv, Rest
  <2> QED BY <1>1, <2>1, <2>2 DEF Whole, Gone, There
<1>3. ASSUME NEW o \in InFlight PROVE Runs = want /\ docker[Shown].key \in valid
  <2>1. o \in Ops BY DEF InFlight
  <2>2. pc[o] \in Points \ Ended BY <2>1 DEF InFlight, TypeOK
  <2>3. World(o) BY <2>1 DEF SerialInv
  <2>4. CASE pc[o] \in Interrupted
    <3>1. Chosen(o) BY <2>3, <2>4 DEF World, Interrupted
    <3>2. Runs = want BY <2>1, <2>4, <3>1, OnlyOne DEF Runs, Chosen
    <3>3. docker[old[o]].key \in valid BY <2>3, <2>4 DEF World, Interrupted, Sole, Pair
    <3>4. Shown = old[o] BY <1>f, <2>1, <2>4 DEF Faces, OldFaced
    <3> QED BY <3>2, <3>3, <3>4
  <2>5. CASE pc[o] \notin Interrupted
    <3>1. \A p \in Ops : pc[p] \notin Interrupted BY <2>5, OnlyOne DEF Interrupted, Ended
    <3>2. CASE pc[o] = "retire"
      <4>1. Shown = new[o] BY <1>f, <2>1, <3>2 DEF Faces, NewFaced
      <4> QED BY <2>3, <3>1, <3>2, <4>1 DEF World, Runs
    <3>3. CASE pc[o] # "retire"
      <4>1. ~Doomed BY DEF There
      <4>2. \/ Whole
            \/ Sole(old[o], Main, want)
            \/ Sole(new[o], Main, want)
        <5>1. pc[o] = "resolve" => kind[o] \notin Removals /\ Whole
          BY <2>3, <4>1, OnlyOne DEF World, Leaving, Going
        <5>2. pc[o] \notin {"readVolume", "stopDel", "delete", "dropVolume"}
          BY <2>3, <4>1, OnlyOne DEF World, Leaving, Going
        <5> QED BY <2>2, <2>3, <2>5, <3>3, <5>1, <5>2
                DEF World, Points, Before, After, Undo, Ended, Interrupted, Rest
      <4> QED BY <1>1, <3>1, <4>2 DEF Whole, Gone, There
    <3> QED BY <3>2, <3>3
  <2> QED BY <2>4, <2>5
<1> QED BY <1>2, <1>3 DEF Quiet

\* So the instance that is seen has a definite form.
LEMMA SeenIs ==
  ASSUME Works
  PROVE  /\ Seen = IF There THEN [there |-> TRUE, running |-> want,
                                  key |-> docker[Shown].key, tok |-> docker[Shown].tok]
                   ELSE [there |-> FALSE, running |-> FALSE, key |-> NoKey, tok |-> NoKey]
         /\ There => docker[Shown].key \in valid
BY DEF Works, Seen

LEMMA SeenNext ==
  ASSUME Works'
  PROVE  /\ Seen' = IF There' THEN [there |-> TRUE, running |-> want',
                                    key |-> docker'[Shown'].key, tok |-> docker'[Shown'].tok]
                    ELSE [there |-> FALSE, running |-> FALSE, key |-> NoKey, tok |-> NoKey]
         /\ There' => docker'[Shown'].key \in valid'
BY DEF Works, Seen

\* What a step takes for granted, and where it leads.
Sound == TypeOK /\ SerialInv /\ Faces /\ Works

\* A step that changes nothing that is seen, whatever it does to other keys.
LEMMA Hidden ==
  ASSUME Sound, Sound', There' = There, UNCHANGED want,
         There => /\ docker'[Shown'].key = docker[Shown].key /\ docker'[Shown'].tok = docker[Shown].tok
                  /\ UNCHANGED <<hash, dtok>>
  PROVE  Atomic!Next
<1>1. Works /\ Works' /\ valid' \in SUBSET Secrets BY DEF Sound, TypeOK, Secrets
<1>2. Seen' = Seen
  <2>1. CASE There BY <1>1, <2>1, SeenIs, SeenNext
  <2>2. CASE ~There BY <1>1, <2>2, SeenIs, SeenNext
  <2> QED BY <2>1, <2>2
<1>3. OnRecord' = OnRecord BY DEF OnRecord
<1>4. There' => docker'[Shown'].key \in valid' BY <1>1, SeenNext
<1>5. Seen.there <=> There BY <1>1, SeenIs
<1>6. There => Seen.key = docker[Shown].key BY <1>1, SeenIs
<1>7. Seen.there => Seen.key \in valid' BY <1>4, <1>5, <1>6
<1>8. Atomic!OtherKeys BY <1>1, <1>2, <1>3, <1>7 DEF Atomic!OtherKeys
<1> QED BY <1>8 DEF Atomic!Next

\* The container c stands for the instance before and after, and carries the same.
LEMMA Carried ==
  ASSUME Sound, Sound', NEW c, There, Shown = c, There', Shown' = c,
         docker'[c].key = docker[c].key, docker'[c].tok = docker[c].tok,
         UNCHANGED <<hash, dtok, want>>
  PROVE  Atomic!Next
BY Hidden

\* The one operation moves on: whether it is a removal that has begun, and what
\* stands for the instance when no replacement waits.
LEMMA Moves ==
  ASSUME TypeOK, SerialInv, NEW o \in Ops, o \in InFlight \/ InFlight = {},
         NEW l, Goto(o, l), UNCHANGED kind
  PROVE  /\ pc'[o] = l
         /\ (Doomed <=> Going(o, pc[o])) /\ (Doomed' <=> Going(o, l))
         /\ pc[o] \notin Pending => Shown = Newest
         /\ l \notin Pending => Shown' = Newest' /\ \A p \in Ops : pc'[p] \notin Pending
<1>1. \A p \in Ops \ {o} : pc[p] \in Ended /\ pc'[p] = pc[p]
  BY DEF SerialInv, Alone, InFlight, Goto, TypeOK
<1>2. pc'[o] = l BY DEF Goto, TypeOK
<1>3. \A p \in Ops \ {o} : pc[p] \notin Pending \cup {"resolve", "readVolume", "stopDel", "delete", "dropVolume"}
  BY <1>1 DEF Ended, Pending
<1>4. \A p \in Ops \ {o} : pc'[p] \notin Pending \cup {"resolve", "readVolume", "stopDel", "delete", "dropVolume"}
  BY <1>1, <1>3
<1>5. (Doomed <=> Going(o, pc[o])) /\ (Doomed' <=> Going(o, l))
  BY <1>2, <1>3, <1>4 DEF Doomed, Going
<1>6. pc[o] \notin Pending => \A p \in Ops : pc[p] \notin Pending BY <1>3
<1>7. l \notin Pending => \A p \in Ops : pc'[p] \notin Pending BY <1>2, <1>4
<1> QED BY <1>2, <1>5, <1>6, <1>7 DEF Shown

\* A step that touches no container, and neither begins nor ends a removal.
LEMMA Quietly ==
  ASSUME Sound, Sound', NEW o \in Ops, o \in InFlight \/ InFlight = {}, NEW l, Goto(o, l),
         UNCHANGED <<docker, hash, dtok, want, kind>>,
         pc[o] \notin Pending, l \notin Pending,
         exist = {} \/ (Going(o, pc[o]) <=> Going(o, l))
  PROVE  Atomic!Next
<1>1. exist' = exist BY DEF exist
<1>2. Shown' = Shown
  <2>1. Newest' = Newest BY <1>1 DEF Newest
  <2> QED BY <2>1, Moves DEF Sound
<1>3. There' = There BY <1>1, Moves DEF There, Sound
<1> QED BY <1>2, <1>3, Hidden

\* The steps that are seen by nobody because they touch no container.
LEMMA QuietSteps ==
  ASSUME Sound, Sound', MaxInFlight = 1, Fallible \subseteq Undone, NEW o \in Ops,
         \/ Begin(o) \/ Mint(o) \/ Resolve(o) \/ Inspect(o) \/ Prepare(o) \/ ScopeOwn(o) \/ Issue(o)
         \/ Final(o) \/ RevokeOld(o) \/ Revoke(o)
  PROVE  Atomic!Next
<1>w. TypeOK /\ World(o) BY DEF Sound, SerialInv
<1>1. CASE Begin(o)
  <2>1. InFlight = {} /\ pc[o] = "idle" BY <1>1, BeginsAlone DEF Sound, Begin, At
  <2>2. \E l \in {"mint", "dropKey", "resolve"} : Goto(o, l) /\ ~Going(o, l)
    BY <1>1 DEF Begin, Going
  <2>3. UNCHANGED <<docker, hash, dtok, want, kind>> BY <1>1 DEF Begin, dockerVars, secretVars, dbVars
  <2> QED BY <2>1, <2>2, <2>3, Quietly DEF Pending, Going
<1>2. CASE Mint(o)
  <2>1. pc[o] = "mint" /\ kind[o] = "rotate" BY <1>w, <1>2 DEF Mint, At, World
  <2>2. \E l \in {"resolve", "failed"} : Goto(o, l) /\ ~Going(o, l) BY <1>2, <2>1 DEF Mint, Going, Removals
  <2>3. UNCHANGED <<docker, hash, dtok, want, kind>> BY <1>2 DEF Mint, dockerVars, dbVars, refVars
  <2> QED BY <2>1, <2>2, <2>3, Quietly DEF Pending, Going, InFlight, Ended
<1>3. CASE Resolve(o)
  <2>1. pc[o] = "resolve" BY <1>3 DEF Resolve, At
  <2>2. UNCHANGED <<docker, hash, dtok, want, kind>> BY <1>3 DEF Resolve, dockerVars, secretVars, dbVars
  <2>3. CASE exist = {}
    <3>1. \E l \in {"revoke", "failed"} : Goto(o, l) BY <1>3, <2>3 DEF Resolve, Throw
    <3> QED BY <2>1, <2>2, <2>3, <3>1, Quietly DEF Pending, InFlight, Ended
  <2>4. CASE exist # {}
    <3>1. ~Fault(o) BY <1>w, <2>1, Failing DEF Undone
    <3>2. \E l \in {"act", "readVolume", "stopDel", "inspect"} :
            Goto(o, l) /\ (Going(o, l) <=> kind[o] \in Removals)
      BY <1>3, <2>4, <3>1 DEF Resolve, Going, Removals
    <3>3. Going(o, pc[o]) <=> kind[o] \in Removals BY <2>1 DEF Going
    <3> QED BY <2>1, <2>2, <3>2, <3>3, Quietly DEF Pending, InFlight, Ended
  <2> QED BY <2>3, <2>4
<1>4. CASE Inspect(o)
  <2>1. pc[o] = "inspect" BY <1>4 DEF Inspect, At
  <2>2. \E l \in {"prepare", "revoke", "failed"} : Goto(o, l) BY <1>4 DEF Inspect, Throw
  <2>3. UNCHANGED <<docker, hash, dtok, want, kind>> BY <1>4 DEF Inspect, dockerVars, secretVars, dbVars
  <2> QED BY <2>1, <2>2, <2>3, Quietly DEF Pending, Going, InFlight, Ended
<1>5. CASE Prepare(o)
  <2>1. pc[o] = "prepare" BY <1>5 DEF Prepare, At
  <2>2. \E l \in {"stop", "scope", "issue", "revoke", "failed"} : Goto(o, l) BY <1>5 DEF Prepare, Throw
  <2>3. UNCHANGED <<docker, hash, dtok, want, kind>> BY <1>5 DEF Prepare, dockerVars, secretVars, dbVars
  <2> QED BY <2>1, <2>2, <2>3, Quietly DEF Pending, Going, InFlight, Ended
<1>6. CASE Final(o)
  <2>1. pc[o] = "final" BY <1>6 DEF Final, At
  <2>2. \E l \in {"revokeOld", "done", "revoke", "failed"} : Goto(o, l) BY <1>6 DEF Final, Throw
  <2>3. UNCHANGED <<docker, hash, dtok, want, kind>> BY <1>6 DEF Final, dockerVars, refVars
  <2> QED BY <2>1, <2>2, <2>3, Quietly DEF Pending, Going, InFlight, Ended
<1>7. CASE RevokeOld(o)
  <2>1. pc[o] = "revokeOld" /\ Goto(o, "done") BY <1>7 DEF RevokeOld, At
  <2>2. UNCHANGED <<docker, hash, dtok, want, kind>> BY <1>7 DEF RevokeOld, dockerVars, dbVars, refVars
  <2> QED BY <2>1, <2>2, Quietly DEF Pending, Going, InFlight, Ended
<1>8. CASE Revoke(o)
  <2>1. pc[o] = "revoke" /\ Goto(o, "failed") BY <1>8 DEF Revoke, At
  <2>2. UNCHANGED <<docker, hash, dtok, want, kind>> BY <1>8 DEF Revoke, dockerVars, dbVars, refVars
  <2> QED BY <2>1, <2>2, Quietly DEF Pending, Going, InFlight, Ended
<1>9. CASE ScopeOwn(o) \/ Issue(o)
  <2>1. pc[o] \in {"scope", "issue"} BY <1>9 DEF ScopeOwn, Issue, At
  <2>2. \E l \in {"stop", "revoke", "failed"} : Goto(o, l) BY <1>9 DEF ScopeOwn, Issue, Throw
  <2>3. UNCHANGED <<docker, hash, dtok, want, kind>>
    BY <1>9 DEF ScopeOwn, Issue, dockerVars, secretVars, dbVars, refVars
  <2> QED BY <2>1, <2>2, <2>3, Quietly DEF Pending, Going, InFlight, Ended
<1> QED BY <1>1, <1>2, <1>3, <1>4, <1>5, <1>6, <1>7, <1>8, <1>9

\* The steps that do touch a container but not what is seen of the instance.
LEMMA ContainerSteps ==
  ASSUME Sound, Sound', Fallible \subseteq Undone, NEW o \in Ops,
         \/ StopOld(o) \/ Rename(o) \/ Create(o) \/ StartNew(o) \/ Retire(o)
         \/ UndoRemove(o) \/ UndoName(o) \/ UndoStart(o)
  PROVE  Atomic!Next
<1>s. TypeOK /\ SerialInv /\ Faces /\ Faces' /\ World(o) BY DEF Sound, SerialInv
<1>1. CASE StopOld(o)
  <2>1. pc[o] = "stop" /\ UNCHANGED <<hash, dtok, want, kind, old>>
    BY <1>1 DEF StopOld, At, dockerVars, secretVars, dbVars, refVars
  <2>2. There /\ Shown = old[o] BY <1>s, <2>1 DEF Faces, OldFaced
  <2>3. CASE Goto(o, "rename")
    <3>1. There' /\ Shown' = old'[o] BY <1>s, <2>1, <2>3 DEF Faces, OldFaced, Interrupted, Goto, TypeOK
    <3>2. old[o] \in exist BY <1>s, <2>1 DEF World, Sole
    <3>3. docker' = docker \/ docker' = [docker EXCEPT ![old[o]].up = FALSE] BY <1>1 DEF StopOld
    <3>4. docker'[old[o]].key = docker[old[o]].key /\ docker'[old[o]].tok = docker[old[o]].tok
      BY <1>s, <3>2, <3>3, SetUp
    <3> QED BY <2>1, <2>2, <3>1, <3>4, Carried
  <2>4. CASE ~Goto(o, "rename")
    <3>1. UNCHANGED docker /\ \E l \in {"revoke", "failed"} : Goto(o, l) BY <1>1, <2>4 DEF StopOld, Throw
    <3> QED BY <2>1, <3>1, Quietly DEF Pending, Going, InFlight, Ended
  <2> QED BY <2>3, <2>4
<1>2. CASE Rename(o)
  <2>1. pc[o] = "rename" /\ UNCHANGED <<hash, dtok, want, old>>
    BY <1>2 DEF Rename, At, dockerVars, secretVars, dbVars, refVars
  <2>2. There /\ Shown = old[o] BY <1>s, <2>1 DEF Faces, OldFaced, Interrupted
  <2>3. old[o] \in exist BY <1>s, <2>1 DEF World, Sole
  <2>4. docker' = [docker EXCEPT ![old[o]].name = o] /\ Goto(o, "create")
    BY <1>2, <1>s, <2>1, <2>3, Failing DEF Rename, Refused, Undone
  <2>5. There' /\ Shown' = old'[o] BY <1>s, <2>1, <2>4 DEF Faces, OldFaced, Interrupted, Goto, TypeOK
  <2>6. docker'[old[o]].key = docker[old[o]].key /\ docker'[old[o]].tok = docker[old[o]].tok
    BY <1>s, <2>3, <2>4, SetName DEF Names
  <2> QED BY <2>1, <2>2, <2>5, <2>6, Carried
<1>3. CASE Create(o)
  <2>1. pc[o] = "create" /\ UNCHANGED <<hash, dtok, want, old>>
    BY <1>3 DEF Create, At, dockerVars, secretVars, dbVars
  <2>2. There /\ Shown = old[o] BY <1>s, <2>1 DEF Faces, OldFaced, Interrupted
  <2>3. PICK l \in {"startNew", "commit", "undoName"} : Goto(o, l) BY <1>3 DEF Create
  <2>4. There' /\ Shown' = old'[o] BY <1>s, <2>1, <2>3 DEF Faces, OldFaced, Interrupted, Goto, TypeOK
  <2>5. docker'[old[o]] = docker[old[o]]
    <3>1. old[o] \in exist /\ exist \subseteq 0 .. top /\ top \in Nat
      BY <1>s, <2>1 DEF World, Sole, TypeOK
    <3>2. old[o] # top + 1 BY <3>1
    <3> QED BY <1>3, <3>1, <3>2 DEF Create, dockerVars
  <2> QED BY <2>1, <2>2, <2>4, <2>5, Carried
<1>4. CASE StartNew(o)
  <2>1. pc[o] = "startNew" /\ UNCHANGED <<hash, dtok, want, old>>
    BY <1>4 DEF StartNew, At, dockerVars, secretVars, dbVars, refVars
  <2>2. There /\ Shown = old[o] BY <1>s, <2>1 DEF Faces, OldFaced, Interrupted
  <2>3. PICK l \in {"commit", "undoRemove"} : Goto(o, l) BY <1>4 DEF StartNew
  <2>4. There' /\ Shown' = old'[o] BY <1>s, <2>1, <2>3 DEF Faces, OldFaced, Interrupted, Goto, TypeOK
  <2>5. docker'[old[o]] = docker[old[o]]
    <3>1. old[o] # new[o] /\ old[o] \in exist BY <1>s, <2>1 DEF World, Pair, TypeOK
    <3> QED BY <1>4, <3>1 DEF StartNew, exist
  <2> QED BY <2>1, <2>2, <2>4, <2>5, Carried
<1>5. CASE Retire(o)
  <2>1. pc[o] = "retire" /\ UNCHANGED <<hash, dtok, want, new>>
    BY <1>5 DEF Retire, At, dockerVars, secretVars, dbVars, refVars
  <2>2. There /\ Shown = new[o] BY <1>s, <2>1 DEF Faces, NewFaced
  <2>3. exist = {old[o], new[o]} /\ old[o] # new[o] BY <1>s, <2>1 DEF World, TypeOK
  <2>4. docker' = Without(old[o]) /\ Goto(o, "final")
    BY <1>5, <1>s, <2>1, <2>3, Failing DEF Retire, Refused, Undone
  <2>5. There' /\ Shown' = new'[o] BY <1>s, <2>1, <2>4 DEF Faces, NewFaced, Goto, TypeOK
  <2>6. docker'[new[o]] = docker[new[o]] BY <2>3, <2>4, Drop
  <2> QED BY <2>1, <2>2, <2>5, <2>6, Carried
<1>6. CASE UndoRemove(o)
  <2>1. pc[o] = "undoRemove" /\ UNCHANGED <<hash, dtok, want, old>> /\ Goto(o, "undoName")
    BY <1>6 DEF UndoRemove, At, dockerVars, secretVars, dbVars, refVars
  <2>2. There /\ Shown = old[o] BY <1>s, <2>1 DEF Faces, OldFaced, Interrupted
  <2>3. There' /\ Shown' = old'[o] BY <1>s, <2>1 DEF Faces, OldFaced, Interrupted, Goto, TypeOK
  <2>4. docker'[old[o]] = docker[old[o]]
    <3>1. exist = {old[o], new[o]} /\ old[o] # new[o] BY <1>s, <2>1 DEF World, Pair, TypeOK
    <3>2. docker' = Without(new[o]) \/ docker' = docker BY <1>6 DEF UndoRemove
    <3> QED BY <3>1, <3>2, Drop
  <2> QED BY <2>1, <2>2, <2>3, <2>4, Carried
<1>7. CASE UndoName(o) \/ UndoStart(o)
  <2>1. pc[o] \in {"undoName", "undoStart"} /\ UNCHANGED <<hash, dtok, want, old, kind>>
    BY <1>7 DEF UndoName, UndoStart, At, dockerVars, secretVars, dbVars, refVars
  <2>2. There /\ Shown = old[o] BY <1>s, <2>1 DEF Faces, OldFaced, Interrupted
  <2>3. exist = {old[o]} /\ old[o] \in exist /\ ctx[o].name \in Names
    BY <1>s, <2>1, NamesDistinct DEF World, Sole, Chosen, Names
  <2>4. \/ docker' = docker
        \/ docker' = [docker EXCEPT ![old[o]].name = ctx[o].name]
        \/ docker' = [docker EXCEPT ![old[o]].up = TRUE]
    BY <1>7 DEF UndoName, UndoStart
  <2>5. /\ exist' = exist
        /\ docker'[old[o]].key = docker[old[o]].key /\ docker'[old[o]].tok = docker[old[o]].tok
    BY <1>s, <2>3, <2>4, SetUp, SetName DEF exist
  <2>6. PICK l \in {"undoStart", "revoke"} : Goto(o, l) BY <1>7 DEF UndoName, UndoStart
  <2>7. o \in InFlight /\ l \notin Pending BY <2>1, <2>6 DEF InFlight, Ended, Pending
  <2>8. ~Doomed' /\ \A p \in Ops : pc'[p] \notin Pending BY <1>s, <2>1, <2>6, <2>7, Moves DEF Going
  <2>9. There' /\ Shown' = old[o]
    <3>1. exist' = {old[o]} BY <2>3, <2>5
    <3> QED BY <1>s, <2>8, <3>1 DEF There, Faces
  <2> QED BY <2>1, <2>2, <2>5, <2>9, Carried
<1> QED BY <1>1, <1>2, <1>3, <1>4, <1>5, <1>6, <1>7

\* The moment of a start or a stop.
LEMMA ActSwitches ==
  ASSUME Sound, Sound', Fallible \subseteq Undone, NEW o \in Ops, Act(o)
  PROVE  Atomic!Next
<1>s. TypeOK /\ SerialInv /\ Faces /\ Faces' /\ Works /\ Works' /\ World(o) BY DEF Sound, SerialInv
<1>1. pc[o] = "act" BY DEF Act, At
<1>2. There /\ Shown = old[o] BY <1>s, <1>1 DEF Faces, OldFaced
<1>3. exist = {old[o]} BY <1>s, <1>1 DEF World, Sole
<1>4. /\ docker' = [docker EXCEPT ![old[o]].up = (kind[o] = "start")]
      /\ want' = (kind[o] = "start") /\ Goto(o, "done")
  BY <1>s, <1>1, <1>3, Failing DEF Act, Refused, Undone
<1>5. UNCHANGED <<hash, dtok, valid, kind>> BY DEF Act, dockerVars, secretVars, dbVars, refVars
<1>6. /\ exist' = exist
      /\ docker'[old[o]].key = docker[old[o]].key /\ docker'[old[o]].tok = docker[old[o]].tok
  BY <1>s, <1>3, <1>4, SetUp
<1>7. ~Doomed' /\ \A p \in Ops : pc'[p] \notin Pending
  <2>1. o \in InFlight BY <1>1 DEF InFlight, Ended
  <2> QED BY <1>s, <1>4, <1>5, <2>1, Moves DEF Going, Pending
<1>8. There' /\ Shown' = old[o]
  <2>1. exist' = {old[o]} BY <1>3, <1>6
  <2> QED BY <1>s, <1>7, <2>1 DEF There, Faces
<1>9. Seen.there /\ Seen' = Atomic!There(want', Seen.key, Seen.tok)
  <2>1. Seen = [there |-> TRUE, running |-> want, key |-> docker[old[o]].key, tok |-> docker[old[o]].tok]
    BY <1>s, <1>2, SeenIs
  <2>2. Seen' = [there |-> TRUE, running |-> want', key |-> docker[old[o]].key, tok |-> docker[old[o]].tok]
    BY <1>s, <1>6, <1>8, SeenNext
  <2> QED BY <2>1, <2>2 DEF Atomic!There
<1>10. OnRecord' = OnRecord BY <1>2, <1>5, <1>8 DEF OnRecord
<1>11. Atomic!Switch(want') BY <1>5, <1>9, <1>10 DEF Atomic!Switch
<1>12. want' \in BOOLEAN BY <1>4
<1> QED BY <1>11, <1>12 DEF Atomic!Next

\* The moment of a recreate or a rotation: the replacement stands for the
\* instance, with what it carries on record.
LEMMA CommitReplaces ==
  ASSUME Sound, Sound', NEW o \in Ops, Commit(o)
  PROVE  Atomic!Next
<1>s. TypeOK /\ SerialInv /\ Faces /\ Faces' /\ Works /\ Works' /\ World(o) BY DEF Sound, SerialInv
<1>1. pc[o] = "commit" BY DEF Commit, At
<1>2. Pair(o, want) /\ Chosen(o) BY <1>s, <1>1 DEF World
<1>3. There /\ Shown = old[o] BY <1>s, <1>1 DEF Faces, OldFaced, Interrupted
<1>4. UNCHANGED <<docker, valid, want, new, ctx>> /\ Goto(o, "retire") BY DEF Commit, dockerVars, refVars
<1>5. There' /\ Shown' = new[o] BY <1>s, <1>4 DEF Faces, NewFaced, Goto, TypeOK
<1>6. docker[new[o]].key = ctx[o].key /\ docker[new[o]].tok = ctx[o].tok /\ row BY <1>2 DEF Pair
<1>7. hash' = (IF ctx[o].key = o THEN o ELSE hash) /\ dtok' = (IF ctx[o].tok = o THEN o ELSE dtok)
  BY <1>6 DEF Commit
<1>8. /\ ctx[o].key \in valid
      /\ ctx[o].key = o \/ ctx[o].key = hash \/ (hash = NoKey /\ ctx[o].key = K0)
      /\ ctx[o].tok = o \/ ctx[o].tok = dtok
  BY <1>2 DEF Chosen
<1>9. ctx[o].key \in Secrets /\ ctx[o].tok \in Secrets /\ valid \subseteq Keys
  BY <1>s DEF TypeOK, Context
<1>10. Seen.there /\ Seen' = Atomic!There(Seen.running, ctx[o].key, ctx[o].tok)
  <2>1. Seen = [there |-> TRUE, running |-> want, key |-> docker[old[o]].key, tok |-> docker[old[o]].tok]
    BY <1>s, <1>3, SeenIs
  <2>2. Seen' = [there |-> TRUE, running |-> want, key |-> ctx[o].key, tok |-> ctx[o].tok]
    BY <1>s, <1>4, <1>5, <1>6, SeenNext
  <2> QED BY <2>1, <2>2 DEF Atomic!There
<1>11. hash' = IF ctx[o].key = K0 /\ hash = NoKey THEN NoKey ELSE ctx[o].key
  BY <1>7, <1>8, NamesDistinct
<1>12. dtok' = ctx[o].tok BY <1>7, <1>8
<1>13. OnRecord' = [key |-> IF ctx[o].key = K0 /\ OnRecord.key = NoKey THEN NoKey ELSE ctx[o].key,
                    tok |-> ctx[o].tok]
  BY <1>3, <1>5, <1>11, <1>12 DEF OnRecord
<1>14. Atomic!Replace(ctx[o].key, ctx[o].tok) BY <1>4, <1>8, <1>10, <1>13 DEF Atomic!Replace
<1> QED BY <1>9, <1>14 DEF Atomic!Next

\* The moment of a removal is the revocation of the key; the rest is unseen.
LEMMA RemovalSteps ==
  ASSUME Sound, Sound', Fallible \subseteq Undone, NEW o \in Ops,
         DropKey(o) \/ ReadVolume(o) \/ StopDel(o) \/ Delete(o) \/ DropVolume(o)
  PROVE  Atomic!Next
<1>s. TypeOK /\ SerialInv /\ Works /\ Works' /\ World(o) BY DEF Sound, SerialInv
<1>1. o \in InFlight /\ kind[o] \in Removals /\ UNCHANGED <<kind, want>>
  BY <1>s DEF DropKey, ReadVolume, StopDel, Delete, DropVolume, At, World, Leaving, InFlight, Ended, refVars
<1>2. CASE DropKey(o)
  <2>1. pc[o] = "dropKey" /\ Goto(o, "resolve") /\ UNCHANGED <<docker, hash, dtok>> /\ valid' \subseteq valid
    BY <1>2 DEF DropKey, At, dockerVars, dbVars
  <2>2. ~Doomed /\ Doomed' BY <1>s, <1>1, <2>1, Moves DEF Going
  <2>3. ~There' BY <2>2 DEF There
  <2>4. CASE There
    <3>1. Seen.there BY <1>s, <2>4, SeenIs
    <3>2. Seen' = [there |-> FALSE, running |-> FALSE, key |-> NoKey, tok |-> NoKey]
      BY <1>s, <2>3, SeenNext
    <3>3. OnRecord' = [key |-> NoKey, tok |-> NoKey] BY <2>3 DEF OnRecord
    <3>4. Atomic!Remove BY <1>1, <2>1, <3>1, <3>2, <3>3 DEF Atomic!Remove, Atomic!Gone, Atomic!NoRecord
    <3> QED BY <3>4 DEF Atomic!Next
  <2>5. CASE ~There BY <1>1, <2>3, <2>5, Hidden DEF There
  <2> QED BY <2>4, <2>5
<1>3. CASE StopDel(o)
  <2>1. pc[o] = "stopDel" /\ Goto(o, "delete")
    BY <1>3, <1>s, Failing DEF StopDel, At, Undone
  <2>2. Doomed /\ Doomed' BY <1>s, <1>1, <2>1, Moves DEF Going
  <2> QED BY <1>1, <2>2, Hidden DEF There
<1>4. CASE Delete(o)
  <2>1. pc[o] = "delete" BY <1>4 DEF Delete, At
  <2>2. exist = {old[o]} BY <1>s, <2>1 DEF World
  <2>3. docker' = Without(old[o]) /\ \E l \in {"done", "dropVolume"} : Goto(o, l)
    BY <1>4, <1>s, <2>1, <2>2, Failing DEF Delete, Refused, Undone
  <2>4. exist' = {} BY <2>2, <2>3, Drop
  <2>5. Doomed BY <1>s, <1>1, <2>1, <2>3, Moves DEF Going
  <2> QED BY <1>1, <2>4, <2>5, Hidden DEF There
<1>5. CASE ReadVolume(o)
  <2>1. pc[o] = "readVolume" /\ Goto(o, "stopDel")
    BY <1>5, <1>s, Failing DEF ReadVolume, At, Undone
  <2>2. Doomed /\ Doomed' BY <1>s, <1>1, <2>1, Moves DEF Going
  <2> QED BY <1>1, <2>2, Hidden DEF There
<1>6. CASE DropVolume(o)
  <2>1. pc[o] = "dropVolume" /\ exist' = exist BY <1>6 DEF DropVolume, At, exist
  <2>2. exist = {} BY <1>s, <2>1 DEF World
  <2> QED BY <1>1, <2>1, <2>2, Hidden DEF There
<1> QED BY <1>2, <1>3, <1>4, <1>5, <1>6

\* Every step of one operation at a time is one of AtomicInstance, or unseen.
LEMMA AtomicStep ==
  ASSUME Sound, Sound', MaxInFlight = 1, Fallible \subseteq Undone, [Next]_vars
  PROVE  [Atomic!Next]_(Atomic!vars)
<1>1. ASSUME NEW o \in Ops, Step(o) PROVE Atomic!Next
  BY <1>1, QuietSteps, ContainerSteps, ActSwitches, CommitReplaces, RemovalSteps DEF Step, Recreate
<1>2. ~Crash BY DEF Crash, Undone
<1>3. CASE UNCHANGED vars
  <2>1. UNCHANGED <<docker, hash, dtok, valid, pc, kind, old, ctx, want>> BY <1>3 DEF vars
  <2>2. UNCHANGED exist BY <2>1 DEF exist
  <2>3. UNCHANGED <<There, Shown, Runs>> BY <2>1, <2>2 DEF There, Doomed, Shown, Newest, Runs
  <2> QED BY <2>1, <2>3 DEF Atomic!vars, Seen, OnRecord
<1>4. Next => Crash \/ \E o \in Ops : Step(o) BY DEF Next, Step
<1> QED BY <1>1, <1>2, <1>3, <1>4

\* At first the instance is what it had before, and nothing is under way.
LEMMA AtomicInit == Init => Atomic!Init
<1> SUFFICES ASSUME Init PROVE Atomic!Init OBVIOUS
<1>s. TypeOK /\ SerialInv BY InitIInv, InitSerial DEF IInv
<1>f. Faces /\ Works BY <1>s, FacesHold, WorksHolds
<1>1. PICK k \in {K0, Master}, h \in {K0, NoKey}, t \in {K0, NoKey}, d \in {K0, NoKey} :
        /\ h = K0 => k = K0
        /\ d = K0 => t = K0
        /\ \E up \in BOOLEAN : docker = [c \in {0} |-> [name |-> Main, up |-> up, key |-> k, tok |-> t]]
        /\ hash = h /\ dtok = d
  BY DEF Init
<1>2. \A o \in Ops : pc[o] = "idle" BY DEF Init
<1>3. exist = {0} /\ docker[0].key = k /\ docker[0].tok = t BY <1>1 DEF exist
<1>4. There BY <1>2, <1>3 DEF There, Doomed
<1>5. Shown = 0 BY <1>f, <1>2, <1>3 DEF Faces, Pending
<1>6. Seen = [there |-> TRUE, running |-> want, key |-> k, tok |-> t] /\ k \in valid
  BY <1>f, <1>3, <1>4, <1>5, SeenIs
<1>7. OnRecord = [key |-> h, tok |-> d] BY <1>1, <1>4 DEF OnRecord
<1>8. want \in BOOLEAN /\ valid \in SUBSET Secrets /\ {k, t} \subseteq Secrets
  BY <1>s DEF TypeOK, Secrets, Keys
<1> QED BY <1>1, <1>6, <1>7, <1>8 DEF Atomic!Init, Atomic!There

\* One operation at a time, whatever fails in the guarded part or before it,
\* recreates, rotations, removals, starts and stops take effect at one moment or
\* not at all, and no key is revoked on which the instance runs.
THEOREM SerialAtomic ==
  ASSUME MaxInFlight = 1, Fallible \subseteq Undone
  PROVE  Spec => AtomicSpec
<1>1. TypeOK /\ SerialInv => Sound BY FacesHold, WorksHolds DEF Sound
<1>2. Sound /\ Sound' /\ [Next]_vars => [Atomic!Next]_(Atomic!vars) BY AtomicStep
<1> QED BY <1>1, <1>2, AtomicInit, TypeCorrect, SerialInductive, PTL DEF Spec, AtomicSpec, Atomic!Spec
=============================================================================
