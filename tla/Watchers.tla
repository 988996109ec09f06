------------------------------ MODULE Watchers ------------------------------
(***************************************************************************)
(* What tells the administrator that something is wrong with the egress    *)
(* proxy: the watcher that follows the proxy's access log                  *)
(* (server/proxy-log.js) and the health monitor (server/health.js).  Both  *)
(* look at a proxy that comes and goes, through a daemon that may fail.    *)
(*                                                                         *)
(* One restricted instance stands for them all: its ACL is for the address *)
(* it has, or for another, or missing (ProxyAcl shows how that happens).   *)
(***************************************************************************)
EXTENDS Naturals

CONSTANTS Checks,       \* health checks at once: nothing keeps a slow one from the next
          MaxHiccups    \* calls to Docker that fail, and streams that break

ASSUME MaxHiccupsAssumption == MaxHiccups \in Nat

VARIABLES sidecar,  \* the proxy's container runs
          acl,      \* the ACL of the instance: "current", "stale" or "missing"
          follow,   \* follow() is "idle", or awaits "inspect" or "logs"
          stream,   \* the log stream is attached
          retry,    \* retryTimer is set
          check,    \* per check: where it is, and the problems it has found
          report,   \* lastReport.problems, and the keys of activeKeys
          hiccups

watchVars == <<sidecar, acl, follow, stream, retry, check, report, hiccups>>

Problems == {"docker", "acl-missing", "acl-ip", "sidecar"}

WatchTypeOK ==
  /\ sidecar \in BOOLEAN /\ acl \in {"current", "stale", "missing"}
  /\ follow \in {"idle", "inspect", "logs"} /\ stream \in BOOLEAN /\ retry \in BOOLEAN
  /\ check \in [Checks -> [at : {"off", "list", "proxy"}, found : SUBSET Problems]]
  /\ report \in SUBSET Problems /\ hiccups \in Nat

\* startProxyLogWatcher follows at once; the first check is due later.
WatchInit ==
  /\ sidecar \in BOOLEAN /\ acl = "current"
  /\ follow = "inspect" /\ stream = FALSE /\ retry = FALSE
  /\ check = [c \in Checks |-> [at |-> "off", found |-> {}]]
  /\ report = {} /\ hiccups = MaxHiccups

Hiccup == hiccups > 0 /\ hiccups' = hiccups - 1
MutNoRetry == UNCHANGED retry

ScheduleRetry == retry' = TRUE

-----------------------------------------------------------------------------
(* proxy-log.js, follow.                                                   *)

InspectProxy ==
  /\ follow = "inspect"
  /\ \/ sidecar /\ follow' = "logs" /\ UNCHANGED <<retry, hiccups>>
     \/ ~sidecar /\ follow' = "idle" /\ ScheduleRetry /\ UNCHANGED hiccups
     \/ Hiccup /\ follow' = "idle" /\ ScheduleRetry
  /\ UNCHANGED <<sidecar, acl, stream, check, report>>

\* The logs of a container that has stopped meanwhile end at once.
Attach ==
  /\ follow = "logs" /\ follow' = "idle"
  /\ \/ stream' = TRUE /\ UNCHANGED <<retry, hiccups>>
     \/ Hiccup /\ ScheduleRetry /\ UNCHANGED stream
  /\ UNCHANGED <<sidecar, acl, check, report>>

\* The stream's end, or error.
StreamOver ==
  /\ stream /\ stream' = FALSE
  /\ ScheduleRetry
  /\ UNCHANGED <<sidecar, acl, follow, check, report>>

StreamEnds == ~sidecar /\ StreamOver /\ UNCHANGED hiccups
StreamBreaks == Hiccup /\ StreamOver

RetryFollow ==
  /\ retry /\ retry' = FALSE
  /\ follow' = "inspect"
  /\ UNCHANGED <<sidecar, acl, stream, check, report, hiccups>>

-----------------------------------------------------------------------------
(* health.js, runHealthCheck.                                              *)

AclProblems ==
  CASE acl = "missing" -> {"acl-missing"}
    [] acl = "stale" -> {"acl-ip"}
    [] OTHER -> {}

BeginCheck(c) ==
  /\ check[c].at = "off"
  /\ check' = [check EXCEPT ![c].at = "list"]
  /\ UNCHANGED <<sidecar, acl, follow, stream, retry, report, hiccups>>

\* checkRestrictedInstances: the containers of the daemon against the ACL files.
CheckInstances(c) ==
  /\ check[c].at = "list"
  /\ \E found \in {AclProblems, {"docker"}} :
       /\ check' = [check EXCEPT ![c] = [at |-> "proxy", found |-> found]]
       /\ IF found = {"docker"} THEN Hiccup ELSE UNCHANGED hiccups
  /\ UNCHANGED <<sidecar, acl, follow, stream, retry, report>>

\* checkContainerRunning: a proxy that cannot be inspected is a problem too.  What
\* the check found is then the report, whichever check began first.
EndCheck(c) ==
  /\ check[c].at = "proxy"
  /\ check' = [check EXCEPT ![c] = [at |-> "off", found |-> {}]]
  /\ \E asleep \in BOOLEAN :
       /\ ~sidecar => asleep
       /\ IF asleep /\ sidecar THEN Hiccup ELSE UNCHANGED hiccups
       /\ report' = check[c].found \cup (IF asleep THEN {"sidecar"} ELSE {})
  /\ UNCHANGED <<sidecar, acl, follow, stream, retry>>

-----------------------------------------------------------------------------
\* The proxy starts and stops; the ACL becomes what it becomes.
SidecarChanges ==
  /\ sidecar' = ~sidecar
  /\ UNCHANGED <<acl, follow, stream, retry, check, report, hiccups>>

AclChanges ==
  /\ acl' \in {"current", "stale", "missing"} \ {acl}
  /\ UNCHANGED <<sidecar, follow, stream, retry, check, report, hiccups>>

FollowStep == InspectProxy \/ Attach \/ StreamEnds \/ RetryFollow
CheckStep(c) == BeginCheck(c) \/ CheckInstances(c) \/ EndCheck(c)

WatchNext ==
  \/ FollowStep \/ StreamBreaks
  \/ \E c \in Checks : CheckStep(c)
  \/ SidecarChanges \/ AclChanges

WatchersSpec == WatchInit /\ [][WatchNext]_watchVars

-----------------------------------------------------------------------------
(* Properties.                                                             *)

\* What the watchers say ends up as what is so, whatever calls failed, streams
\* broke and slow checks overlapped: once the proxy stays up its log stays
\* followed, and once an ACL stays wrong the report keeps saying so.
\* proxy-log.js, follow; health.js, runHealthCheck.
TroubleShows ==
  /\ <>[]sidecar => <>[]stream
  /\ <>[](acl = "stale") => <>[]("acl-ip" \in report)
=============================================================================
