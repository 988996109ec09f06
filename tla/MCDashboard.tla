---------------------------- MODULE MCDashboard ----------------------------
(***************************************************************************)
(* What administrators see and touch, for TLC: browser terminals, devices, *)
(* the dashboard's data, the views of the fleet and their layout, which    *)
(* container is which instance, what it is made of, and what is bound into *)
(* it.  As in MCBackground, one of them moves in a behaviour and the       *)
(* others rest in an initial state.                                        *)
(***************************************************************************)
EXTENDS Terminals, Devices, DashboardFeed, FleetViews, MapLayout, Directory, InstanceSpec, Mounts

VARIABLE focus

vars == <<focus, termVars, deviceVars, feedVars, viewVars, mapVars, dirVars, specVars, mountVars>>

\* Every variable of the modules keeps to its type.
TypeOK == TermTypeOK /\ DeviceTypeOK /\ FeedTypeOK /\ ViewTypeOK
          /\ MapTypeOK /\ DirTypeOK /\ SpecTypeOK /\ MountTypeOK

Init ==
  /\ focus \in {"terminals", "devices", "feed", "views", "maps", "directory", "spec", "mounts"}
  /\ TermInit /\ DeviceInit /\ FeedInit /\ ViewInit /\ MapInit /\ DirInit /\ SpecInit /\ MountInit
  /\ focus # "spec" => cont = NoContainer /\ ~place.remote
  /\ focus # "mounts" => dirs = [configured |-> {}, self |-> FALSE]

Next ==
  \/ focus = "terminals" /\ TermNext
     /\ UNCHANGED <<focus, deviceVars, feedVars, viewVars, mapVars, dirVars, specVars, mountVars>>
  \/ focus = "devices" /\ DeviceNext
     /\ UNCHANGED <<focus, termVars, feedVars, viewVars, mapVars, dirVars, specVars, mountVars>>
  \/ focus = "feed" /\ FeedNext
     /\ UNCHANGED <<focus, termVars, deviceVars, viewVars, mapVars, dirVars, specVars, mountVars>>
  \/ focus = "views" /\ ViewNext
     /\ UNCHANGED <<focus, termVars, deviceVars, feedVars, mapVars, dirVars, specVars, mountVars>>
  \/ focus = "maps" /\ MapNext
     /\ UNCHANGED <<focus, termVars, deviceVars, feedVars, viewVars, dirVars, specVars, mountVars>>
  \/ focus = "directory" /\ DirNext
     /\ UNCHANGED <<focus, termVars, deviceVars, feedVars, viewVars, mapVars, specVars, mountVars>>
  \/ focus = "spec" /\ SpecNext
     /\ UNCHANGED <<focus, termVars, deviceVars, feedVars, viewVars, mapVars, dirVars, mountVars>>
  \/ focus = "mounts" /\ MountNext
     /\ UNCHANGED <<focus, termVars, deviceVars, feedVars, viewVars, mapVars, dirVars, specVars>>

\* Callbacks run, calls return, timers fire, sockets reconnect and requests are
\* answered; an answer to a ping is not owed.
Fairness ==
  /\ \A l \in Links :
       /\ WF_termVars(focus = "terminals" /\ ServerStep(l))
       /\ WF_termVars(focus = "terminals" /\ ClientStep(l))
       /\ WF_termVars(focus = "terminals" /\ Heartbeat(l))
  /\ WF_termVars(focus = "terminals" /\ \E m \in Mounts : RetryFires(m))
  /\ WF_feedVars(focus = "feed" /\ (Connect \/ OnMessage))
  /\ WF_feedVars(focus = "feed" /\ \E f \in Fetches : Refresh(f))
  /\ \A f \in Fetches : WF_feedVars(focus = "feed" /\ (ServeList(f) \/ ReceiveList(f)))
  /\ WF_feedVars(focus = "feed" /\ (Poll \/ ServeGraph \/ GraphArrives))

\* The layout is not computed again where it cannot change.
MapsRight == focus = "maps" => MapsHold

FairSpec == Init /\ [][Next]_vars /\ Fairness
=============================================================================
