---------------------------- MODULE MCInstances ----------------------------
(***************************************************************************)
(* Instances, for TLC, where each promise is kept in full: how one is      *)
(* created, what is done to it one operation at a time, and the event      *)
(* streams by which the manager learns of it.  As in MCBackground, one of  *)
(* the three moves in a behaviour, and the others rest in an initial state.*)
(***************************************************************************)
EXTENDS Lifecycle, CreateInstance, EventStreams

CONSTANTS o1, o2, o3, i1, i2, i3, i4

VARIABLE focus

mcVars == <<focus, vars, creationVars, streamVars>>

ThreeOps == {o1, o2, o3}
FourIds == {i1, i2, i3, i4}
AnyCall == Steps \cup {"crash"}

\* Operations that have not begun are interchangeable, and so are instances that
\* nobody has asked for yet: they come in one order.
InTurn(waiting, order) ==
  \A m, n \in DOMAIN order : m < n /\ order[m] \in waiting => order[n] \in waiting
OpsInTurn == InTurn({o \in Ops : pc[o] = "idle"}, <<o1, o2, o3>>)
CreationsInTurn == InTurn({i \in Ids : progress[i] = "idle"}, <<i1, i2, i3, i4>>)

\* What a module that does not move starts from.
OneOperationInit == kind = [o \in Ops |-> "start"] /\ hash = K0 /\ dtok = K0 /\ want
OneStreamInit == registered = {} /\ up = {} /\ \A h \in Hosts : addr[h] = CHOOSE a \in Addrs : TRUE

MCInit ==
  /\ focus \in {"operations", "creations", "streams"}
  /\ Init /\ CreationInit /\ StreamInit
  /\ focus # "operations" => OneOperationInit
  /\ focus # "streams" => OneStreamInit

MCNext ==
  \/ focus = "operations" /\ Next /\ UNCHANGED <<focus, creationVars, streamVars>> /\ OpsInTurn'
  \/ focus = "creations" /\ CreationNext /\ UNCHANGED <<focus, vars, streamVars>> /\ CreationsInTurn'
  \/ focus = "streams" /\ StreamNext /\ UNCHANGED <<focus, vars, creationVars>>

\* The timer keeps firing, every attempt ends (readyTimeout bounds it) and a
\* dead stream is noticed (the SSH keep-alive).  Edits, shutdown and the
\* daemons are the environment's and owe nothing, nor does a cut connection.
Fairness ==
  /\ WF_streamVars(focus = "streams" /\ Reconcile)
  /\ \A h \in Hosts, t \in Tries :
       /\ WF_streamVars(focus = "streams" /\ Settle(h, t))
       /\ WF_streamVars(focus = "streams" /\ Dropped(h, t) /\ UNCHANGED cuts)

MCSpec == MCInit /\ [][MCNext]_mcVars /\ Fairness
=============================================================================
