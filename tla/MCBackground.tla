---------------------------- MODULE MCBackground ----------------------------
(***************************************************************************)
(* What the manager does by itself, for TLC: the idle stop, the grants,    *)
(* the background jobs, the watchers, the attribution of denials, the      *)
(* registry of the fleet, and the ACL files.  Each module has the rest as  *)
(* its environment, so they need not move together: in a behaviour one of  *)
(* them does, chosen by focus, and the others rest in their initial states.*)
(***************************************************************************)
EXTENDS IdleStop, Grants, Jobs, Watchers, Denials, Fleet, ProxyAcl

VARIABLE focus

vars == <<focus, idleVars, grantVars, jobVars, watchVars, denialVars, fleetVars, aclVars>>

\* Every variable of the modules keeps to its type.
TypeOK == IdleTypeOK /\ GrantTypeOK /\ JobTypeOK /\ WatchTypeOK /\ DenialTypeOK /\ FleetTypeOK
          /\ AclTypeOK

Init ==
  /\ focus \in {"idle", "grants", "jobs", "watchers", "denials", "fleet", "acl"}
  /\ IdleInit /\ GrantInit /\ JobInit /\ WatchInit /\ DenialInit /\ FleetInit /\ AclInit
  /\ focus # "grants" => grant = "none"
  /\ focus # "jobs" => current = 1
  /\ focus # "watchers" => ~sidecar
  /\ focus # "fleet" => points[Local] = CHOOSE d \in Daemons : TRUE

Next ==
  \/ focus = "idle" /\ IdleNext /\ UNCHANGED <<focus, grantVars, jobVars, watchVars, denialVars, fleetVars, aclVars>>
  \/ focus = "grants" /\ GrantNext /\ UNCHANGED <<focus, idleVars, jobVars, watchVars, denialVars, fleetVars, aclVars>>
  \/ focus = "jobs" /\ JobNext /\ UNCHANGED <<focus, idleVars, grantVars, watchVars, denialVars, fleetVars, aclVars>>
  \/ focus = "watchers" /\ WatchNext /\ UNCHANGED <<focus, idleVars, grantVars, jobVars, denialVars, fleetVars, aclVars>>
  \/ focus = "denials" /\ DenialNext /\ UNCHANGED <<focus, idleVars, grantVars, jobVars, watchVars, fleetVars, aclVars>>
  \/ focus = "fleet" /\ FleetNext /\ UNCHANGED <<focus, idleVars, grantVars, jobVars, watchVars, denialVars, aclVars>>
  \/ focus = "acl" /\ AclNext /\ UNCHANGED <<focus, idleVars, grantVars, jobVars, watchVars, denialVars, fleetVars>>

\* A call to Docker returns or times out, so that a tick, a sweep or a task on the
\* ACL files goes on; the timers fire again; and time passes, however many ticks
\* there are.
Fairness ==
  /\ \A t \in Ticks : WF_idleVars(focus = "idle" /\ TickStep(t))
  /\ SF_idleVars(focus = "idle" /\ TimePasses)
  /\ \A s \in Sweeps : WF_grantVars(focus = "grants" /\ (Due(s) \/ Read(s) \/ Sweep(s)))
  /\ WF_grantVars(focus = "grants" /\ HourPasses)
  /\ WF_watchVars(focus = "watchers" /\ FollowStep)
  /\ \A c \in Checks : WF_watchVars(focus = "watchers" /\ CheckStep(c))
  /\ WF_aclVars(focus = "acl" /\ Resync)
  /\ \A t \in Writers : WF_aclVars(focus = "acl" /\ TaskStep(t))

FairSpec == Init /\ [][Next]_vars /\ Fairness
=============================================================================
