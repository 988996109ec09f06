------------------------------ MODULE ProxyAcl ------------------------------
(***************************************************************************)
(* The squid ACL files of the instances on the manager's own host          *)
(* (server/proxy.js), and the routes and container events that rewrite     *)
(* them (server/routes/instances.js, server/routes/access-requests.js).    *)
(*                                                                         *)
(* A file is keyed to the address its container had when it was written.   *)
(* Writing one takes several awaited Docker calls, and the tasks that do   *)
(* so (a bare write, the addition of approved hosts, a full resync) run    *)
(* concurrently with each other and with the containers.  A call that      *)
(* fails ends its task there, and nothing tries it again: a resync leaves  *)
(* the files it had yet to write as they were, and removes none.           *)
(*                                                                         *)
(* A policy is the set of hosts it allows, or AllHosts if unrestricted.    *)
(***************************************************************************)
EXTENDS Naturals, FiniteSets

CONSTANTS Clients,    \* instances
          Ips,        \* addresses Docker hands out
          Domains,    \* hosts a policy or a request may name
          Base,       \* the hosts of the restricted policy
          AllHosts,   \* the unrestricted policy
          Nil,        \* no file, no address
          Writers,    \* names of tasks in flight
          Overlap,    \* whether tasks of the manager may overlap
          MaxMoves    \* creations, starts, stops, failing calls, ... in a behaviour

ASSUME Distinct == Nil \notin Ips \cup Clients /\ Base \subseteq Domains
ASSUME EnoughIps == Cardinality(Clients) <= Cardinality(Ips)
ASSUME MovesAssumption == MaxMoves \in Nat

VARIABLES state,      \* per instance: "new", "stopped", "up" or "gone"
          ip,         \* the address of its container while that is up
          policy,     \* the policy label of its container
          approved,   \* the hosts of its approved requests, in the database
          files,      \* its ACL file
          timer,      \* aclResyncTimer is set
          writer,     \* per name: the task in flight
          failed,     \* history: a call failed, and no resync was begun since
          moves

contVars == <<state, ip, policy>>
aclVars == <<state, ip, policy, approved, files, timer, writer, failed, moves>>

Policies == {Base, AllHosts}
Allows(p, extras) == IF p = AllHosts THEN AllHosts ELSE p \cup extras
File == [src : Ips, hosts : (SUBSET Domains) \cup {AllHosts}]

\* Where a task stands, the instance whose file it is about to write, the
\* address it found, and what it read: policies, approved hosts, the running
\* instances (resync only) and those of them it has yet to write.
Writer == [at : {"idle", "list", "extras", "snapshot", "next", "ip", "file"},
         inst : Clients \cup {Nil}, src : Ips \cup {Nil}, pol : [Clients -> Policies],
         extras : [Clients -> SUBSET Domains], todo : SUBSET Clients,
         seen : SUBSET Clients, sync : BOOLEAN]
NoWriter == [at |-> "idle", inst |-> Nil, src |-> Nil, pol |-> [i \in Clients |-> Base],
           extras |-> [i \in Clients |-> {}], todo |-> {}, seen |-> {}, sync |-> FALSE]

AclTypeOK ==
  /\ state \in [Clients -> {"new", "stopped", "up", "gone"}]
  /\ ip \in [Clients -> Ips \cup {Nil}]
  /\ \A i, j \in Clients : ip[i] = ip[j] /\ ip[i] # Nil => i = j
  /\ policy \in [Clients -> Policies]
  /\ approved \in [Clients -> SUBSET Domains]
  /\ files \in [Clients -> File \cup {Nil}]
  /\ timer \in BOOLEAN /\ failed \in BOOLEAN
  /\ writer \in [Writers -> Writer]
  /\ moves \in 0 .. MaxMoves

Up == {i \in Clients : state[i] = "up"}

AclInit ==
  /\ state = [i \in Clients |-> "new"]
  /\ ip = [i \in Clients |-> Nil]
  /\ policy = [i \in Clients |-> Base]
  /\ approved = [i \in Clients |-> {}]
  /\ files = [i \in Clients |-> Nil]
  /\ timer = FALSE /\ failed = FALSE
  /\ writer = [t \in Writers |-> NoWriter]
  /\ moves = 0

-----------------------------------------------------------------------------
(* Tasks.                                                                  *)

Busy == {t \in Writers : writer[t].at # "idle"}

\* A handler starts task n.
Launch(n) ==
  /\ Overlap \/ Busy = {}
  /\ failed' = (failed /\ ~n.sync)
  /\ \E t \in Writers \ Busy : writer' = [writer EXCEPT ![t] = n]

\* writeContainerACL(i, policy p), without extra hosts.
Write(i, p) == [NoWriter EXCEPT !.at = "ip", !.inst = i, !.pol = [j \in Clients |-> p]]
\* addHostsToACL(i, hosts).
Add(i, hosts) == [NoWriter EXCEPT !.at = "list", !.inst = i, !.extras[i] = hosts]
\* syncAllACLs().
Sync == [NoWriter EXCEPT !.at = "extras", !.sync = TRUE]

Step(t, at, next) ==
  /\ writer[t].at = at
  /\ writer' = [writer EXCEPT ![t] = next]
  /\ UNCHANGED <<contVars, approved, timer, failed, moves>>

\* What a task does after a file: a resync goes on, any other one is over.
After(k) == IF k.sync THEN [k EXCEPT !.at = "next"] ELSE NoWriter

\* addHostsToACL: the policy label of the running container, unrestricted if
\* none runs, and the approved hosts on record.
AddList(t) ==
  LET k == writer[t]
      i == k.inst
      p == IF i \in Up THEN policy[i] ELSE AllHosts IN
  /\ Step(t, "list", [k EXCEPT !.at = "ip", !.pol[i] = p, !.extras[i] = @ \cup approved[i]])
  /\ UNCHANGED files

\* syncAllACLs: the approved hosts are read first, the containers after.
MutSyncWithoutExtras(t) ==
  /\ Step(t, "extras", [writer[t] EXCEPT !.at = "snapshot"])
  /\ UNCHANGED files

SyncExtras(t) ==
  /\ Step(t, "extras", [writer[t] EXCEPT !.at = "snapshot", !.extras = approved])
  /\ UNCHANGED files

SyncList(t) ==
  /\ Step(t, "snapshot", [writer[t] EXCEPT !.at = "next", !.todo = Up, !.seen = Up, !.pol = policy])
  /\ UNCHANGED files

SyncNext(t) ==
  /\ \E i \in writer[t].todo :
       Step(t, "next", [writer[t] EXCEPT !.at = "ip", !.inst = i, !.todo = @ \ {i}])
  /\ UNCHANGED files

\* The files of instances that were not listed are removed.
SyncClean(t) ==
  /\ writer[t].todo = {}
  /\ Step(t, "next", NoWriter)
  /\ files' = [i \in Clients |-> IF i \in writer[t].seen THEN files[i] ELSE Nil]

MutNoIpCheck(t) ==
  LET k == writer[t] IN
  /\ Step(t, "ip", [k EXCEPT !.at = "file", !.src = ip[k.inst]])
  /\ UNCHANGED files

\* getContainerIP; without a running container nothing is written.
FindIp(t) ==
  LET k == writer[t] IN
  /\ Step(t, "ip", IF k.inst \in Up THEN [k EXCEPT !.at = "file", !.src = ip[k.inst]] ELSE After(k))
  /\ UNCHANGED files

WriteFile(t) ==
  LET k == writer[t]
      i == k.inst IN
  /\ Step(t, "file", After([k EXCEPT !.src = Nil]))
  /\ files' = [files EXCEPT ![i] = [src |-> k.src, hosts |-> Allows(k.pol[i], k.extras[i])]]

AclMove == moves < MaxMoves /\ moves' = moves + 1

\* A call to Docker fails, of the list or of the address: the task is over.
TaskFails(t) ==
  /\ AclMove /\ writer[t].at \in {"list", "snapshot", "ip"}
  /\ writer' = [writer EXCEPT ![t] = NoWriter] /\ failed' = TRUE
  /\ UNCHANGED <<contVars, approved, files, timer>>

-----------------------------------------------------------------------------
(* Containers, and the routes that change them.  A container that starts   *)
(* takes any free address.  'start' and 'die' events set the timer.        *)

FreeIps == Ips \ {ip[i] : i \in Clients}

ComesUp(i) ==
  /\ state' = [state EXCEPT ![i] = "up"]
  /\ \E a \in FreeIps : ip' = [ip EXCEPT ![i] = a]
  /\ timer' = TRUE

Create(i, p) ==
  /\ AclMove /\ state[i] = "new"
  /\ ComesUp(i)
  /\ policy' = [policy EXCEPT ![i] = p]
  /\ Launch(Write(i, p))
  /\ UNCHANGED <<approved, files>>

\* The start route, or Docker itself (restart policy, docker start).
StartRoute(i) ==
  /\ AclMove /\ state[i] = "stopped"
  /\ ComesUp(i)
  /\ Launch(Write(i, policy[i]))
  /\ UNCHANGED <<policy, approved, files>>

DockerStarts(i) ==
  /\ AclMove /\ state[i] = "stopped"
  /\ ComesUp(i)
  /\ UNCHANGED <<policy, approved, files, writer, failed>>

MutDieIgnored(i) ==
  /\ AclMove /\ state[i] = "up"
  /\ state' = [state EXCEPT ![i] = "stopped"]
  /\ ip' = [ip EXCEPT ![i] = Nil]
  /\ UNCHANGED <<policy, approved, files, timer, writer, failed>>

Dies(i) ==
  /\ AclMove /\ state[i] = "up"
  /\ state' = [state EXCEPT ![i] = "stopped"]
  /\ ip' = [ip EXCEPT ![i] = Nil]
  /\ timer' = TRUE
  /\ UNCHANGED <<policy, approved, files, writer, failed>>

\* recreateInstance: a running instance comes back with a new address.
Replace(i, p) ==
  /\ AclMove /\ state[i] \in {"stopped", "up"}
  /\ policy' = [policy EXCEPT ![i] = p]
  /\ IF state[i] = "up"
       THEN /\ \E a \in FreeIps \cup {ip[i]} : ip' = [ip EXCEPT ![i] = a]
            /\ timer' = TRUE
       ELSE UNCHANGED <<ip, timer>>
  /\ UNCHANGED <<state, approved, files>>

RecreateRoute(i, p) == Replace(i, p) /\ Launch(Write(i, p))
UpdateRoute(i) == Replace(i, policy[i]) /\ Launch(Sync)

\* The approval of a request for hosts: recorded first, then applied.
ApproveHosts(i, h) ==
  /\ state[i] \in {"stopped", "up"} /\ h \notin approved[i]
  /\ approved' = [approved EXCEPT ![i] = @ \cup {h}]
  /\ Launch(Add(i, {h}))
  /\ UNCHANGED <<contVars, files, timer, moves>>

\* The delete route ends with removeContainerACL.
Remove(i) ==
  /\ AclMove /\ state[i] \in {"stopped", "up"}
  /\ state' = [state EXCEPT ![i] = "gone"]
  /\ ip' = [ip EXCEPT ![i] = Nil]
  /\ files' = [files EXCEPT ![i] = Nil]
  /\ timer' = (timer \/ state[i] = "up")
  /\ UNCHANGED <<policy, approved, writer, failed>>

\* The debounced resync of the event stream.
Resync ==
  /\ timer /\ timer' = FALSE
  /\ Launch(Sync)
  /\ UNCHANGED <<contVars, approved, files, moves>>

\* The manager is restarted: its tasks and its timer are gone, and it resyncs.
AclRestart ==
  /\ AclMove
  /\ timer' = FALSE /\ failed' = FALSE
  /\ \E t \in Writers : writer' = [u \in Writers |-> IF u = t THEN Sync ELSE NoWriter]
  /\ UNCHANGED <<contVars, approved, files>>

TaskStep(t) ==
  \/ AddList(t) \/ SyncExtras(t) \/ SyncList(t) \/ SyncNext(t) \/ SyncClean(t)
  \/ FindIp(t) \/ WriteFile(t)

AclNext ==
  \/ \E t \in Writers : TaskStep(t) \/ TaskFails(t)
  \/ \E i \in Clients :
       \/ StartRoute(i) \/ DockerStarts(i) \/ Dies(i) \/ Remove(i) \/ UpdateRoute(i)
       \/ \E p \in Policies : Create(i, p) \/ RecreateRoute(i, p)
       \/ \E h \in Domains : ApproveHosts(i, h)
  \/ Resync
  \/ AclRestart

AclSpec == AclInit /\ [][AclNext]_aclVars

-----------------------------------------------------------------------------
\* Nothing is under way.
AtRest == ~timer /\ Busy = {}
Expected(i) == IF i \in Up
  THEN [src |-> ip[i], hosts |-> Allows(policy[i], approved[i])] ELSE Nil

\* When nothing is under way, and no call failed that no resync has followed, the
\* files are exactly what the running containers are entitled to, at the addresses
\* they have: no approved host is missing, and nobody inherits the access of a
\* container whose address he got.
AclExact == AtRest /\ ~failed => \A i \in Clients : files[i] = Expected(i)

\* Once the containers settle and no request is approved any more, that state
\* is reached and kept, unless the last attempt failed.
Converges == <>[](failed \/ \A i \in Clients : files[i] = Expected(i))

\* An approved host stays reachable (docs/architecture.md on access requests).
ApprovedReachable ==
  AtRest /\ ~failed => \A i \in Up : policy[i] = Base => approved[i] \subseteq files[i].hosts
=============================================================================
