--------------------------- MODULE ProxyAclProofs ---------------------------
(***************************************************************************)
(* Proofs about ProxyAcl, for every set of instances, addresses, hosts and *)
(* task names.  Types hold whatever overlaps.  AclExact is proved for      *)
(* tasks that run one at a time (~Overlap), from ExactInv: unless the      *)
(* resync timer is set, or a call failed that no resync followed, the task *)
(* in flight knows all it needs to put right what is not right yet.  With  *)
(* overlapping tasks AclExact is false, as the run ProxyAcl_lost_host      *)
(* shows.                                                                  *)
(***************************************************************************)
EXTENDS ProxyAcl, TLAPS

\* The tasks the manager starts, and the one it does not have, are tasks.
LEMMA TaskTypes ==
  /\ NoWriter \in Writer /\ Sync \in Writer
  /\ \A i \in Clients, p \in Policies : Write(i, p) \in Writer
  /\ \A i \in Clients, s \in SUBSET Domains : Add(i, s) \in Writer
<1>1. NoWriter \in Writer
  BY DEF NoWriter, Writer, Policies
<1>2. Sync \in Writer
  BY <1>1 DEF NoWriter, Sync, Writer
<1>3. \A i \in Clients, p \in Policies : Write(i, p) \in Writer
  BY <1>1 DEF NoWriter, Write, Writer
<1>4. \A i \in Clients, s \in SUBSET Domains : Add(i, s) \in Writer
  BY <1>1 DEF NoWriter, Add, Writer
<1> QED
  BY <1>1, <1>2, <1>3, <1>4

\* What a launched task is.
Fresh(k) ==
  /\ k \in Writer
  /\ k.at \in {"list", "extras", "ip"}
  /\ k.at # "extras" => k.inst \in Clients

\* The same for the launched ones, which know their instance from the start.
LEMMA FreshTasks ==
  /\ Fresh(Sync)
  /\ \A i \in Clients, p \in Policies : Fresh(Write(i, p))
  /\ \A i \in Clients, s \in SUBSET Domains : Fresh(Add(i, s))
  /\ NoWriter.at = "idle"
BY TaskTypes DEF Fresh, NoWriter, Sync, Write, Add

\* What a policy and extra hosts allow can be written to a file.
LEMMA AllowsType ==
  ASSUME NEW p \in Policies, NEW s \in SUBSET Domains
  PROVE  Allows(p, s) \in (SUBSET Domains) \cup {AllHosts}
BY Distinct DEF Allows, Policies

\* The tasks in flight are well-formed.
TasksOK ==
  /\ writer \in [Writers -> Writer]
  /\ \A t \in Writers :
       /\ writer[t].at \in {"list", "ip", "file"} => writer[t].inst \in Clients
       /\ writer[t].at = "file" => writer[t].src \in Ips

\* Moving one task to a well-formed state keeps them all well-formed.
LEMMA OneTask ==
  ASSUME TasksOK, NEW t \in Writers, NEW k \in Writer,
         writer' = [writer EXCEPT ![t] = k],
         k.at \in {"list", "ip", "file"} => k.inst \in Clients,
         k.at = "file" => k.src \in Ips
  PROVE  TasksOK'
BY DEF TasksOK

\* Launching a task keeps all tasks well-formed.
LEMMA LaunchOne ==
  ASSUME TasksOK, NEW k, Fresh(k), Launch(k)
  PROVE  TasksOK'
BY OneTask DEF TasksOK, Launch, Fresh

\* Containers and their addresses.
Placed ==
  /\ state \in [Clients -> {"new", "stopped", "up", "gone"}]
  /\ ip \in [Clients -> Ips \cup {Nil}]
  /\ \A i, j \in Clients : ip[i] = ip[j] /\ ip[i] # Nil => i = j
  /\ \A i \in Clients : state[i] = "up" <=> ip[i] # Nil

\* A container that starts takes a free address, so no two share one.
LEMMA PlacedStarts ==
  ASSUME Placed, NEW i \in Clients, ComesUp(i)
  PROVE  Placed'
BY Distinct DEF Placed, ComesUp, FreeIps

\* A container that stops gives its address back.
LEMMA PlacedEnds ==
  ASSUME Placed, NEW i \in Clients, NEW s \in {"stopped", "gone"},
         state' = [state EXCEPT ![i] = s], ip' = [ip EXCEPT ![i] = Nil]
  PROVE  Placed'
BY Distinct DEF Placed

\* A replaced container keeps its address or takes a free one.
LEMMA PlacedReplace ==
  ASSUME Placed, NEW i \in Clients, NEW p, Replace(i, p)
  PROVE  Placed'
<1>1. CASE state[i] = "up"
  <2>1. PICK a \in FreeIps \cup {ip[i]} : ip' = [ip EXCEPT ![i] = a]
    BY <1>1 DEF Replace
  <2>2. a \in Ips /\ a # Nil /\ \A j \in Clients \ {i} : ip[j] # a
    BY <2>1, <1>1, Distinct DEF FreeIps, Placed
  <2> QED
    BY <2>1, <2>2, <1>1 DEF Placed, Replace
<1>2. CASE state[i] # "up"
  BY <1>2 DEF Placed, Replace
<1> QED
  BY <1>1, <1>2

\* The rest of the state.
Kept ==
  /\ policy \in [Clients -> Policies]
  /\ approved \in [Clients -> SUBSET Domains]
  /\ files \in [Clients -> File \cup {Nil}]
  /\ timer \in BOOLEAN /\ failed \in BOOLEAN
  /\ moves \in 0 .. MaxMoves

\* The count of moves stays within its bound.
LEMMA Moved ==
  ASSUME AclMove, moves \in 0 .. MaxMoves
  PROVE  moves' \in 0 .. MaxMoves
BY MovesAssumption DEF AclMove

AclTyped == Placed /\ Kept /\ TasksOK

\* Who is up has an address, and a task that writes a file knows whose.
Addressed ==
  /\ \A i \in Clients : state[i] = "up" <=> ip[i] # Nil
  /\ \A t \in Writers :
       /\ writer[t].at \in {"list", "ip", "file"} => writer[t].inst \in Clients
       /\ writer[t].at = "file" => writer[t].src \in Ips

\* The parts above are the type invariant and the addressing.
LEMMA TypedMeans == AclTyped <=> AclTypeOK /\ Addressed
BY DEF AclTyped, Placed, Kept, TasksOK, AclTypeOK, Addressed

\* They hold at the start.
LEMMA TypedInit == AclInit => AclTyped
<1> SUFFICES ASSUME AclInit PROVE AclTyped
  OBVIOUS
<1>1. Placed
  BY Distinct DEF AclInit, Placed
<1>2. Kept
  <2>1. 0 \in 0 .. MaxMoves
    BY MovesAssumption
  <2>2. Base \in Policies /\ {} \in SUBSET Domains /\ Nil \in File \cup {Nil}
    BY DEF Policies
  <2>3. [i \in Clients |-> Base] \in [Clients -> Policies]
    BY <2>2
  <2>4. [i \in Clients |-> {}] \in [Clients -> SUBSET Domains]
    BY <2>2
  <2>5. [i \in Clients |-> Nil] \in [Clients -> File \cup {Nil}]
    BY <2>2
  <2> QED
    BY <2>1, <2>3, <2>4, <2>5 DEF AclInit, Kept
<1>3. TasksOK
  BY TaskTypes, FreshTasks DEF AclInit, TasksOK
<1> QED
  BY <1>1, <1>2, <1>3 DEF AclTyped

\* A step of a task preserves them.
LEMMA TypedTask ==
  ASSUME AclTyped, NEW t \in Writers, TaskStep(t)
  PROVE  AclTyped'
<1> DEFINE k == writer[t]
<1>1. k \in Writer /\ (k.at \in {"list", "ip", "file"} => k.inst \in Clients) /\ (k.at = "file" => k.src \in Ips)
  BY DEF AclTyped, TasksOK
<1>0. Placed /\ Kept /\ TasksOK
  BY DEF AclTyped
<1>f. \A n \in Writer : After(n) \in Writer /\ After(n).at \in {"next", "idle"}
  BY TaskTypes, FreshTasks DEF After, Writer
<1>s. ASSUME NEW at, NEW n \in Writer, Step(t, at, n), files' \in [Clients -> File \cup {Nil}],
             n.at \in {"list", "ip", "file"} => n.inst \in Clients,
             n.at = "file" => n.src \in Ips
      PROVE  AclTyped'
  <2>1. TasksOK'
    BY <1>0, <1>s, OneTask DEF Step
  <2>2. Placed' /\ Kept'
    BY <1>0, <1>s DEF Step, contVars, Placed, Kept
  <2> QED
    BY <2>1, <2>2 DEF AclTyped
<1>a. files \in [Clients -> File \cup {Nil}]
  BY <1>0 DEF Kept
<1>2. CASE AddList(t)
  <2> DEFINE p == IF k.inst \in Up THEN policy[k.inst] ELSE AllHosts
             n == [k EXCEPT !.at = "ip", !.pol[k.inst] = p, !.extras[k.inst] = @ \cup approved[k.inst]]
  <2>1. k.at = "list" /\ Step(t, "list", n) /\ files' = files
    BY <1>2 DEF AddList, Step
  <2>2. p \in Policies /\ approved[k.inst] \in SUBSET Domains
    BY <1>0, <1>1, <2>1 DEF Kept, Policies
  <2>3. n \in Writer /\ n.at = "ip" /\ n.inst \in Clients
    BY <1>1, <2>1, <2>2 DEF Writer
  <2> HIDE DEF n
  <2> QED
    BY <2>1, <2>3, <1>a, <1>s
<1>3. CASE SyncExtras(t)
  <2> DEFINE n == [k EXCEPT !.at = "snapshot", !.extras = approved]
  <2>1. n \in Writer /\ n.at = "snapshot"
    BY <1>0, <1>1 DEF Writer, Kept
  <2>2. Step(t, "extras", n) /\ files' = files
    BY <1>3 DEF SyncExtras
  <2> HIDE DEF n
  <2> QED
    BY <2>1, <2>2, <1>a, <1>s
<1>4. CASE SyncList(t)
  <2> DEFINE n == [k EXCEPT !.at = "next", !.todo = Up, !.seen = Up, !.pol = policy]
  <2>1. n \in Writer /\ n.at = "next"
    BY <1>0, <1>1 DEF Writer, Kept, Up
  <2>2. Step(t, "snapshot", n) /\ files' = files
    BY <1>4 DEF SyncList
  <2> HIDE DEF n
  <2> QED
    BY <2>1, <2>2, <1>a, <1>s
<1>5. CASE SyncNext(t)
  <2>1. PICK i \in k.todo : Step(t, "next", [k EXCEPT !.at = "ip", !.inst = i, !.todo = @ \ {i}])
    BY <1>5 DEF SyncNext
  <2> DEFINE n == [k EXCEPT !.at = "ip", !.inst = i, !.todo = @ \ {i}]
  <2>2. n \in Writer /\ n.at = "ip" /\ n.inst \in Clients
    BY <1>1 DEF Writer
  <2>3. Step(t, "next", n) /\ files' = files
    BY <2>1, <1>5 DEF SyncNext
  <2> HIDE DEF n
  <2> QED
    BY <2>2, <2>3, <1>a, <1>s
<1>6. CASE SyncClean(t)
  <2>1. Step(t, "next", NoWriter) /\ files' \in [Clients -> File \cup {Nil}]
    BY <1>6, <1>a DEF SyncClean
  <2> QED
    BY <2>1, <1>s, TaskTypes, FreshTasks
<1>7. CASE FindIp(t)
  <2> DEFINE n == IF k.inst \in Up THEN [k EXCEPT !.at = "file", !.src = ip[k.inst]] ELSE After(k)
  <2>1. k.at = "ip" /\ Step(t, "ip", n) /\ files' = files
    BY <1>7 DEF FindIp, Step
  <2>2. n \in Writer /\ (n.at \in {"list", "ip", "file"} => n.inst \in Clients) /\ (n.at = "file" => n.src \in Ips)
    <3>1. CASE k.inst \in Up
      <4>1. ip[k.inst] \in Ips
        BY <3>1, <1>0 DEF Up, Placed
      <4> QED
        BY <3>1, <4>1, <1>1, <2>1 DEF Writer
    <3>2. CASE k.inst \notin Up
      BY <3>2, <1>f, <1>1
    <3> QED
      BY <3>1, <3>2
  <2> HIDE DEF n
  <2> QED
    BY <2>1, <2>2, <1>a, <1>s
<1>8. CASE WriteFile(t)
  <2> DEFINE m == [k EXCEPT !.src = Nil]
             f == [src |-> k.src, hosts |-> Allows(k.pol[k.inst], k.extras[k.inst])]
  <2>1. k.at = "file" /\ Step(t, "file", After(m)) /\ files' = [files EXCEPT ![k.inst] = f]
    BY <1>8 DEF WriteFile, Step
  <2>2. m \in Writer
    BY <1>1 DEF Writer
  <2>3. f \in File
    <3>1. k.pol[k.inst] \in Policies /\ k.extras[k.inst] \in SUBSET Domains
      BY <1>1, <2>1 DEF Writer
    <3> QED
      BY <3>1, <1>1, <2>1, AllowsType DEF File
  <2>4. files' \in [Clients -> File \cup {Nil}]
    BY <2>1, <2>3, <1>a, <1>1
  <2>5. After(m) \in Writer /\ After(m).at \in {"next", "idle"}
    BY <2>2, <1>f
  <2> QED
    BY <2>1, <2>4, <2>5, <1>s
<1> QED
  BY <1>2, <1>3, <1>4, <1>5, <1>6, <1>7, <1>8 DEF TaskStep

\* So does a route or a container event.
LEMMA TypedMove ==
  ASSUME AclTyped, NEW i \in Clients,
         \/ StartRoute(i) \/ DockerStarts(i) \/ Dies(i) \/ Remove(i) \/ UpdateRoute(i)
         \/ \E p \in Policies : Create(i, p) \/ RecreateRoute(i, p)
         \/ \E h \in Domains : ApproveHosts(i, h)
  PROVE  AclTyped'
<1>0. Placed /\ Kept /\ TasksOK
  BY DEF AclTyped
<1>1. CASE StartRoute(i)
  <2>1. Placed'
    BY <1>0, <1>1, PlacedStarts DEF StartRoute
  <2>2. Kept'
    BY <1>0, <1>1, Moved DEF StartRoute, ComesUp, Launch, Kept
  <2>3. policy[i] \in Policies /\ Launch(Write(i, policy[i]))
    BY <1>0, <1>1 DEF StartRoute, Kept
  <2>4. TasksOK'
    BY <1>0, <2>3, LaunchOne, FreshTasks
  <2> QED
    BY <2>1, <2>2, <2>4 DEF AclTyped
<1>2. CASE DockerStarts(i)
  <2>1. Placed'
    BY <1>0, <1>2, PlacedStarts DEF DockerStarts
  <2>2. Kept' /\ TasksOK'
    BY <1>0, <1>2, Moved DEF DockerStarts, ComesUp, Kept, TasksOK
  <2> QED
    BY <2>1, <2>2 DEF AclTyped
<1>3. CASE Dies(i)
  <2>1. Placed'
    BY <1>0, <1>3, PlacedEnds DEF Dies
  <2>2. Kept' /\ TasksOK'
    BY <1>0, <1>3, Moved DEF Dies, Kept, TasksOK
  <2> QED
    BY <2>1, <2>2 DEF AclTyped
<1>4. CASE Remove(i)
  <2>1. Placed'
    BY <1>0, <1>4, PlacedEnds DEF Remove
  <2>2. Kept' /\ TasksOK'
    BY <1>0, <1>4, Moved DEF Remove, Kept, TasksOK
  <2> QED
    BY <2>1, <2>2 DEF AclTyped
<1>r. ASSUME NEW p \in Policies, Replace(i, p), NEW n, Launch(n)
      PROVE  Placed' /\ Kept'
  <2>1. Placed'
    BY <1>0, <1>r, PlacedReplace
  <2>2. failed' \in BOOLEAN
    BY <1>0, <1>r DEF Launch, Kept
  <2>3. Kept'
    BY <1>0, <1>r, <2>2, Moved DEF Replace, Kept
  <2> QED
    BY <2>1, <2>3
<1>5. CASE UpdateRoute(i)
  <2>1. policy[i] \in Policies
    BY <1>0 DEF Kept
  <2> QED
    BY <2>1, <1>0, <1>5, <1>r, LaunchOne, FreshTasks DEF UpdateRoute, AclTyped
<1>6. ASSUME NEW p \in Policies, RecreateRoute(i, p)
      PROVE  AclTyped'
  BY <1>0, <1>6, <1>r, LaunchOne, FreshTasks DEF RecreateRoute, AclTyped
<1>7. ASSUME NEW p \in Policies, Create(i, p)
      PROVE  AclTyped'
  <2>1. Placed'
    BY <1>0, <1>7, PlacedStarts DEF Create
  <2>2. Kept'
    BY <1>0, <1>7, Moved DEF Create, ComesUp, Launch, Kept
  <2>4. TasksOK'
    BY <1>0, <1>7, LaunchOne, FreshTasks DEF Create
  <2> QED
    BY <2>1, <2>2, <2>4 DEF AclTyped
<1>8. ASSUME NEW h \in Domains, ApproveHosts(i, h)
      PROVE  AclTyped'
  <2>1. Placed' /\ Kept'
    BY <1>0, <1>8 DEF ApproveHosts, Launch, contVars, Placed, Kept
  <2>2. Launch(Add(i, {h})) /\ {h} \in SUBSET Domains
    BY <1>8 DEF ApproveHosts
  <2> QED
    BY <2>1, <2>2, <1>0, LaunchOne, FreshTasks DEF AclTyped
<1> QED
  BY <1>1, <1>2, <1>3, <1>4, <1>5, <1>6, <1>7, <1>8

\* So does a call that fails.
LEMMA TypedFails == ASSUME AclTyped, NEW t \in Writers, TaskFails(t) PROVE AclTyped'
<1>1. TasksOK'
  BY OneTask, TaskTypes, FreshTasks DEF TaskFails, AclTyped
<1>2. Placed' /\ Kept'
  BY Moved DEF TaskFails, AclTyped, Placed, Kept, contVars
<1> QED
  BY <1>1, <1>2 DEF AclTyped

\* So does the debounced resync.
LEMMA TypedResync == ASSUME AclTyped, Resync PROVE AclTyped'
<1>1. TasksOK'
  BY LaunchOne, FreshTasks DEF Resync, AclTyped
<1>2. Placed' /\ Kept'
  BY DEF Resync, Launch, AclTyped, Placed, Kept, contVars
<1> QED
  BY <1>1, <1>2 DEF AclTyped

\* So does a restart of the manager.
LEMMA TypedRestart == ASSUME AclTyped, AclRestart PROVE AclTyped'
<1>1. TasksOK'
  BY TaskTypes, FreshTasks DEF AclRestart, Fresh, TasksOK
<1>2. Placed' /\ Kept'
  BY Moved DEF AclRestart, AclTyped, Placed, Kept, contVars
<1> QED
  BY <1>1, <1>2 DEF AclTyped

\* So does every step.
LEMMA TypedStep == AclTyped /\ [AclNext]_aclVars => AclTyped'
<1> SUFFICES ASSUME AclTyped, [AclNext]_aclVars PROVE AclTyped'
  OBVIOUS
<1>1. CASE UNCHANGED aclVars
  BY <1>1 DEF aclVars, AclTyped, Placed, Kept, TasksOK
<1>2. CASE AclNext
  BY <1>2, TypedTask, TypedFails, TypedMove, TypedResync, TypedRestart DEF AclNext
<1> QED
  BY <1>1, <1>2

\* They always hold, for every set of instances, addresses and tasks.
THEOREM TypedAlways == AclSpec => []AclTyped
BY TypedInit, TypedStep, PTL DEF AclSpec

\* Type correctness, with no two running containers at one address, whether or not
\* tasks overlap (writeContainerACL, addHostsToACL, syncAllACLs and the container events).
THEOREM TypeCorrect == AclSpec => []AclTypeOK
<1>1. AclTyped => AclTypeOK
  BY TypedMeans
<1> QED
  BY <1>1, TypedAlways, PTL

-----------------------------------------------------------------------------
(* Why AclExact holds when tasks do not overlap: unless the timer is set,  *)
(* which promises a resync, the task in flight knows what it needs to make *)
(* right whatever is not right yet.                                        *)

FilesRight(S) == \A i \in S : files[i] = Expected(i)

\* A task for one instance: all others are settled, and so is this one if down.
Single(k) == ~k.sync /\ FilesRight(Clients \ ({k.inst} \cap Up))
Right(k) == k.pol[k.inst] = policy[k.inst] /\ k.extras[k.inst] = approved[k.inst]

\* A resync has the fleet as it is, and S is settled.
Synced(k, S) ==
  /\ k.sync /\ k.extras = approved
  /\ k.seen = Up /\ k.todo \subseteq Up
  /\ \A i \in Up : k.pol[i] = policy[i]
  /\ FilesRight(S)

Knows(k) ==
  /\ k.at = "list" => Single(k) /\ k.extras[k.inst] \subseteq approved[k.inst]
  /\ k.at = "extras" => k.sync
  /\ k.at = "snapshot" => k.sync /\ k.extras = approved
  /\ k.at = "next" => Synced(k, Up \ k.todo)
  /\ k.at = "ip" =>
       \/ Single(k) /\ (k.inst \in Up => Right(k))
       \/ Synced(k, Up \ (k.todo \cup {k.inst})) /\ k.inst \in Up
  /\ k.at = "file" =>
       /\ k.inst \in Up /\ k.src = ip[k.inst]
       /\ (Single(k) /\ Right(k)) \/ Synced(k, Up \ (k.todo \cup {k.inst}))

\* Nothing promises a resync, and nothing waits for one.
Calm == ~timer /\ ~failed

TaskAlone == \A t, u \in Busy : t = u
ExactInv ==
  /\ TaskAlone
  /\ Calm => (Busy = {} => FilesRight(Clients)) /\ \A t \in Writers : Knows(writer[t])

\* With a single task in flight, what has to be shown is that it is settled or knows what it needs.
LEMMA OneBusy ==
  ASSUME TasksOK, NEW t \in Writers, Busy \subseteq {t}, NEW n \in Writer,
         writer' = [writer EXCEPT ![t] = n],
         Calm' => (n.at = "idle" => FilesRight(Clients)') /\ Knows(n)'
  PROVE  ExactInv'
<1>1. writer'[t] = n /\ \A u \in Writers \ {t} : writer'[u].at = "idle"
  BY DEF TasksOK, Busy
<1>2. Busy' \subseteq {t} /\ (Busy' = {} <=> n.at = "idle")
  BY <1>1 DEF Busy
<1>3. TaskAlone'
  BY <1>2 DEF TaskAlone
<1>4. ASSUME Calm', NEW u \in Writers PROVE Knows(writer[u])'
  BY <1>1, <1>4 DEF Knows
<1> QED
  BY <1>2, <1>3, <1>4 DEF ExactInv

\* Tasks that do not overlap start when nothing is in flight.
LEMMA LaunchAlone ==
  ASSUME ~Overlap, TasksOK, NEW n, Fresh(n), Launch(n), Calm' => Knows(n)'
  PROVE  ExactInv'
<1>1. PICK t \in Writers : writer' = [writer EXCEPT ![t] = n]
  BY DEF Launch
<1>2. Busy = {} /\ n \in Writer /\ n.at # "idle"
  BY DEF Launch, Fresh
<1> QED
  BY <1>1, <1>2, OneBusy

\* What an instance is entitled to depends on its container and its approvals only.
LEMMA SameWorld ==
  ASSUME UNCHANGED <<contVars, approved>>
  PROVE  /\ Up' = Up /\ \A i \in Clients : Expected(i)' = Expected(i)
         /\ files' = files => \A S : FilesRight(S)' <=> FilesRight(S)
BY DEF Up, Expected, contVars, FilesRight

\* Every step of a task keeps its promise: what it read is still true when it writes.
LEMMA ExactTask ==
  ASSUME ~Overlap, AclTyped, ExactInv, NEW t \in Writers, TaskStep(t)
  PROVE  ExactInv'
<1> DEFINE k == writer[t]
<1>0. Placed /\ Kept /\ TasksOK /\ AclTyped'
  BY TypedTask DEF AclTyped
<1>1. writer[t] \in Writer /\ TasksOK'
  BY <1>0 DEF TasksOK, AclTyped
<1>2. UNCHANGED <<contVars, approved, timer, failed, moves>> /\ k.at # "idle"
  BY DEF TaskStep, AddList, SyncExtras, SyncList, SyncNext, SyncClean, FindIp, WriteFile, Step
<1>3. Busy \subseteq {t}
  BY <1>2 DEF ExactInv, TaskAlone, Busy
<1>4. Calm' => Knows(writer[t])
  BY <1>2 DEF ExactInv, Calm
<1>5. Up' = Up /\ \A i \in Clients : Expected(i)' = Expected(i)
  BY <1>2, SameWorld
<1>6. files' = files => \A S : FilesRight(S)' <=> FilesRight(S)
  BY <1>2, SameWorld
<1>7. UNCHANGED <<state, ip, policy, approved, timer>>
  BY <1>2 DEF contVars
<1>8. Up \subseteq Clients
  BY DEF Up
<1>s. ASSUME NEW n, writer' = [writer EXCEPT ![t] = n],
             Calm' => (n.at = "idle" => FilesRight(Clients)') /\ Knows(n)'
      PROVE  ExactInv'
  <2>1. n \in Writer
    BY <1>s, <1>1, <1>0 DEF TasksOK
  <2> QED
    BY <2>1, <1>s, <1>0, <1>3, OneBusy
<1>a. CASE AddList(t)
  <2>1. k.at = "list" /\ files' = files
    BY <1>a DEF AddList, Step
  <2>2. PICK n : n = [k EXCEPT !.at = "ip",
                         !.pol[k.inst] = IF k.inst \in Up THEN policy[k.inst] ELSE AllHosts,
                         !.extras[k.inst] = @ \cup approved[k.inst]]
    OBVIOUS
  <2>3. writer' = [writer EXCEPT ![t] = n]
    BY <1>a, <2>2 DEF AddList, Step
  <2>4. k.inst \in Clients /\ k.pol \in [Clients -> Policies] /\ k.extras \in [Clients -> SUBSET Domains]
    BY <2>1, <1>0, <1>1 DEF TasksOK, Writer
  <2>5. /\ n.at = "ip" /\ n.inst = k.inst /\ n.sync = k.sync
        /\ k.inst \in Up => n.pol[k.inst] = policy[k.inst]
        /\ n.extras[k.inst] = k.extras[k.inst] \cup approved[k.inst]
    BY <2>2, <2>4, <1>1 DEF Writer
  <2>6. ASSUME Calm' PROVE Knows(n)'
    <3>1. Single(k) /\ k.extras[k.inst] \subseteq approved[k.inst]
      BY <2>6, <1>4, <2>1 DEF Knows
    <3>2. Single(n)'
      BY <3>1, <2>5, <1>5, <1>6, <2>1 DEF Single
    <3>3. k.inst \in Up' => Right(n)'
      BY <3>1, <2>5, <1>5, <1>7 DEF Right
    <3> QED
      BY <3>2, <3>3, <2>5 DEF Knows
  <2> QED
    BY <2>3, <2>5, <2>6, <1>s
<1>b. CASE SyncExtras(t)
  <2>1. PICK n : n = [k EXCEPT !.at = "snapshot", !.extras = approved]
    OBVIOUS
  <2>2. writer' = [writer EXCEPT ![t] = n] /\ k.at = "extras"
    BY <1>b, <2>1 DEF SyncExtras, Step
  <2>3. n.at = "snapshot" /\ n.sync = k.sync /\ n.extras = approved
    BY <2>1, <1>1 DEF Writer
  <2>4. Calm' => Knows(n)'
    BY <2>2, <2>3, <1>4, <1>7 DEF Knows
  <2> QED
    BY <2>2, <2>3, <2>4, <1>s
<1>c. CASE SyncList(t)
  <2>1. PICK n : n = [k EXCEPT !.at = "next", !.todo = Up, !.seen = Up, !.pol = policy]
    OBVIOUS
  <2>2. writer' = [writer EXCEPT ![t] = n] /\ k.at = "snapshot"
    BY <1>c, <2>1 DEF SyncList, Step
  <2>3. /\ n.at = "next" /\ n.sync = k.sync /\ n.extras = k.extras
        /\ n.todo = Up /\ n.seen = Up /\ n.pol = policy
    BY <2>1, <1>1 DEF Writer
  <2>4. Calm' => Knows(n)'
    <3>1. FilesRight(Up \ n.todo)'
      BY <2>3, <1>5 DEF FilesRight
    <3> QED
      BY <3>1, <2>2, <2>3, <1>4, <1>5, <1>7 DEF Knows, Synced
  <2> QED
    BY <2>2, <2>3, <2>4, <1>s
<1>d. CASE SyncNext(t)
  <2>1. PICK i \in k.todo : Step(t, "next", [k EXCEPT !.at = "ip", !.inst = i, !.todo = @ \ {i}])
    BY <1>d DEF SyncNext
  <2>2. PICK n : n = [k EXCEPT !.at = "ip", !.inst = i, !.todo = @ \ {i}]
    OBVIOUS
  <2>3. writer' = [writer EXCEPT ![t] = n] /\ k.at = "next" /\ files' = files
    BY <1>d, <2>1, <2>2 DEF SyncNext, Step
  <2>4. /\ n.at = "ip" /\ n.inst = i /\ n.todo = k.todo \ {i} /\ n.sync = k.sync
        /\ n.extras = k.extras /\ n.seen = k.seen /\ n.pol = k.pol
    BY <2>2, <1>1 DEF Writer
  <2>5. ASSUME Calm' PROVE Knows(n)'
    <3>1. Synced(k, Up \ k.todo)
      BY <2>5, <2>3, <1>4 DEF Knows
    <3>2. Up \ (n.todo \cup {n.inst}) = Up \ k.todo
      BY <2>1, <2>4
    <3>3. FilesRight(Up \ (n.todo \cup {n.inst}))'
      BY <3>1, <3>2, <1>5, <1>8, <2>3 DEF Synced, FilesRight
    <3>4. Synced(n, Up \ (n.todo \cup {n.inst}))' /\ n.inst \in Up'
      BY <3>1, <3>3, <2>1, <2>4, <1>5, <1>7 DEF Synced
    <3> QED
      BY <3>4, <2>4 DEF Knows
  <2> QED
    BY <2>3, <2>4, <2>5, <1>s
<1>e. CASE SyncClean(t)
  <2>1. /\ k.todo = {} /\ k.at = "next" /\ writer' = [writer EXCEPT ![t] = NoWriter]
        /\ files' = [i \in Clients |-> IF i \in k.seen THEN files[i] ELSE Nil]
    BY <1>e DEF SyncClean, Step
  <2>2. PICK n : n = NoWriter
    OBVIOUS
  <2>3. ASSUME Calm' PROVE FilesRight(Clients)'
    <3>1. FilesRight(Up) /\ k.seen = Up
      BY <2>3, <2>1, <1>4 DEF Knows, Synced, FilesRight
    <3>2. \A i \in Clients : files'[i] = Expected(i)
      BY <3>1, <2>1 DEF FilesRight, Expected
    <3> QED
      BY <3>2, <1>5 DEF FilesRight
  <2>4. n.at = "idle"
    BY <2>2, FreshTasks
  <2>5. Knows(n)'
    BY <2>4 DEF Knows
  <2> QED
    BY <2>1, <2>2, <2>3, <2>5, <1>s
<1>f. CASE FindIp(t)
  <2>1. k.at = "ip" /\ files' = files
    BY <1>f DEF FindIp, Step
  <2>2. CASE k.inst \in Up
    <3>1. PICK n : n = [k EXCEPT !.at = "file", !.src = ip[k.inst]]
      OBVIOUS
    <3>2. writer' = [writer EXCEPT ![t] = n]
      BY <1>f, <2>2, <3>1 DEF FindIp, Step
    <3>3. /\ n.at = "file" /\ n.inst = k.inst /\ n.todo = k.todo /\ n.sync = k.sync
          /\ n.extras = k.extras /\ n.seen = k.seen /\ n.pol = k.pol /\ n.src = ip[k.inst]
      BY <3>1, <1>1 DEF Writer
    <3>4. ASSUME Calm' PROVE Knows(n)'
      <4>1. (Single(k) /\ Right(k)) \/ Synced(k, Up \ (k.todo \cup {k.inst}))
        BY <3>4, <1>4, <2>1, <2>2 DEF Knows
      <4>2. Single(k) /\ Right(k) => Single(n)' /\ Right(n)'
        BY <3>3, <1>5, <1>6, <1>7, <2>1 DEF Single, Right
      <4>3. Synced(k, Up \ (k.todo \cup {k.inst})) => Synced(n, Up \ (n.todo \cup {n.inst}))'
        BY <3>3, <1>5, <1>6, <1>7, <2>1 DEF Synced
      <4> QED
        BY <4>1, <4>2, <4>3, <3>3, <2>2, <1>5, <1>7 DEF Knows
    <3> QED
      BY <3>2, <3>3, <3>4, <1>s
  <2>3. CASE k.inst \notin Up
    <3>1. PICK n : n = After(k)
      OBVIOUS
    <3>2. writer' = [writer EXCEPT ![t] = n]
      BY <1>f, <2>3, <3>1 DEF FindIp, Step
    <3>3. ASSUME Calm' PROVE n.at = "idle" /\ FilesRight(Clients)'
      <4>1. Single(k)
        BY <3>3, <1>4, <2>1, <2>3 DEF Knows
      <4>2. n = NoWriter
        BY <4>1, <3>1 DEF After, Single
      <4>3. Clients \ ({k.inst} \cap Up) = Clients
        BY <2>3
      <4> QED
        BY <4>1, <4>2, <4>3, FreshTasks, <1>6, <2>1 DEF Single
    <3> QED
      BY <3>2, <3>3, <1>s DEF Knows
  <2> QED
    BY <2>2, <2>3
<1>g. CASE WriteFile(t)
  <2>1. PICK m : m = [k EXCEPT !.src = Nil]
    OBVIOUS
  <2>2. PICK n : n = After(m)
    OBVIOUS
  <2>3. PICK f : f = [src |-> k.src, hosts |-> Allows(k.pol[k.inst], k.extras[k.inst])]
    OBVIOUS
  <2>4. k.at = "file" /\ writer' = [writer EXCEPT ![t] = n] /\ files' = [files EXCEPT ![k.inst] = f]
    BY <1>g, <2>1, <2>2, <2>3 DEF WriteFile, Step
  <2>5. /\ m.inst = k.inst /\ m.todo = k.todo /\ m.sync = k.sync
        /\ m.extras = k.extras /\ m.seen = k.seen /\ m.pol = k.pol
    BY <2>1, <1>1 DEF Writer
  <2>6. k.inst \in Clients /\ files \in [Clients -> File \cup {Nil}]
    BY <2>4, <1>0 DEF TasksOK, Kept
  <2>7. ASSUME Calm' PROVE (n.at = "idle" => FilesRight(Clients)') /\ Knows(n)'
    <3>1. /\ k.inst \in Up /\ k.src = ip[k.inst]
          /\ (Single(k) /\ Right(k)) \/ Synced(k, Up \ (k.todo \cup {k.inst}))
      BY <2>7, <1>4, <2>4 DEF Knows
    <3>2. k.pol[k.inst] = policy[k.inst] /\ k.extras[k.inst] = approved[k.inst]
      BY <3>1 DEF Right, Synced
    <3>a. PICK j : j = k.inst
      OBVIOUS
    <3>3. files'[j] = Expected(j)'
      <4>1. f = Expected(j)
        BY <3>1, <3>2, <3>a, <2>3 DEF Expected
      <4> QED
        BY <4>1, <3>a, <2>4, <2>6, <1>5
    <3>4. ASSUME NEW S \in SUBSET Clients, FilesRight(S \ {k.inst})
          PROVE  \A i \in S : files'[i] = Expected(i)'
      <4>1. \A i \in S \ {k.inst} : files'[i] = files[i]
        BY <2>4, <2>6
      <4> QED
        BY <3>3, <3>4, <3>a, <4>1, <1>5 DEF FilesRight
    <3>5. CASE Single(k) /\ Right(k)
      <4>1. n = NoWriter
        BY <3>5, <2>2, <2>5 DEF After, Single
      <4>2. FilesRight(Clients)'
        <5>1. FilesRight(Clients \ {k.inst})
          BY <3>5 DEF Single, FilesRight
        <5> QED
          BY <5>1, <3>4 DEF FilesRight
      <4> QED
        BY <4>1, <4>2, FreshTasks DEF Knows
    <3>6. CASE Synced(k, Up \ (k.todo \cup {k.inst}))
      <4>1. /\ n.at = "next" /\ n.inst = k.inst /\ n.todo = k.todo /\ n.sync = k.sync
            /\ n.extras = k.extras /\ n.seen = k.seen /\ n.pol = k.pol
        <5>1. k.sync
          BY <3>6 DEF Synced
        <5>2. n = [m EXCEPT !.at = "next"]
          BY <5>1, <2>2, <2>5 DEF After
        <5>3. m \in Writer \/ m = [k EXCEPT !.src = Nil]
          BY <2>1
        <5> QED
          BY <5>2, <2>1, <1>1 DEF Writer
      <4>2. FilesRight((Up \ k.todo) \ {k.inst})
        BY <3>6 DEF Synced, FilesRight
      <4>3. \A i \in Up \ k.todo : files'[i] = Expected(i)'
        BY <4>2, <3>4, <1>8
      <4>4. Synced(n, Up \ n.todo)'
        BY <4>1, <4>3, <3>6, <1>5, <1>7 DEF Synced, FilesRight
      <4> QED
        BY <4>1, <4>4 DEF Knows
    <3> QED
      BY <3>1, <3>5, <3>6
  <2> QED
    BY <2>4, <2>7, <1>s
<1> QED
  BY <1>a, <1>b, <1>c, <1>d, <1>e, <1>f, <1>g DEF TaskStep

\* After a call that fails nothing is known any more.
LEMMA ExactFails ==
  ASSUME ~Overlap, AclTyped, ExactInv, NEW t \in Writers, TaskFails(t)
  PROVE  ExactInv'
<1>1. writer' = [writer EXCEPT ![t] = NoWriter] /\ failed' = TRUE /\ writer[t].at # "idle"
  BY DEF TaskFails
<1>2. Busy \subseteq {t}
  BY <1>1 DEF ExactInv, TaskAlone, Busy
<1> QED
  BY <1>1, <1>2, TaskTypes, OneBusy DEF AclTyped, Calm

\* A route or a container event either sets the timer, or finds no task in flight,
\* or concerns an instance that is down.
LEMMA ExactMove ==
  ASSUME ~Overlap, AclTyped, ExactInv, NEW i \in Clients,
         \/ StartRoute(i) \/ DockerStarts(i) \/ Dies(i) \/ Remove(i) \/ UpdateRoute(i)
         \/ \E p \in Policies : Create(i, p) \/ RecreateRoute(i, p)
         \/ \E h \in Domains : ApproveHosts(i, h)
  PROVE  ExactInv'
<1>0. Placed /\ Kept /\ TasksOK
  BY DEF AclTyped
<1>t. ASSUME timer', UNCHANGED writer
      PROVE  ExactInv'
  BY <1>t DEF ExactInv, TaskAlone, Busy, Calm
<1>l. ASSUME NEW n, Fresh(n), Launch(n), timer'
      PROVE  ExactInv'
  BY <1>0, <1>l, LaunchAlone DEF Calm
<1>1. CASE StartRoute(i)
  <2>1. policy[i] \in Policies /\ Launch(Write(i, policy[i])) /\ timer'
    BY <1>0, <1>1 DEF StartRoute, Kept, ComesUp
  <2> QED
    BY <2>1, <1>l, FreshTasks
<1>2. CASE DockerStarts(i)
  BY <1>2, <1>t DEF DockerStarts, ComesUp
<1>3. CASE Dies(i)
  BY <1>3, <1>t DEF Dies
<1>4. CASE Remove(i)
  <2>1. CASE state[i] = "up"
    BY <2>1, <1>4, <1>t DEF Remove
  <2>2. CASE state[i] # "up"
    <3>1. UNCHANGED <<policy, approved, timer, failed, writer>> /\ (Calm <=> Calm')
      BY <2>2, <1>4, <1>0 DEF Remove, Kept, Calm
    <3>2. state' = [state EXCEPT ![i] = "gone"] /\ ip' = [ip EXCEPT ![i] = Nil] /\ files' = [files EXCEPT ![i] = Nil]
      BY <1>4 DEF Remove
    <3>3. ip' = ip
      BY <3>2, <2>2, <1>0 DEF Placed
    <3>4. Up' = Up /\ i \notin Up /\ Up \subseteq Clients
      BY <3>2, <2>2, <1>0 DEF Up, Placed
    <3>5. \A j \in Clients : Expected(j)' = Expected(j)
      BY <3>1, <3>3, <3>4 DEF Expected
    <3>6. Expected(i) = Nil
      BY <3>4 DEF Expected
    <3>7. \A S : S \subseteq Clients /\ FilesRight(S) => \A j \in S : files'[j] = Expected(j)'
      BY <3>2, <3>5, <3>6, <1>0 DEF FilesRight, Kept
    <3>8. ASSUME NEW k, Calm, Knows(k)
          PROVE  Knows(k)'
      <4>1. Single(k) => Single(k)'
        BY <3>7, <3>4 DEF Single, FilesRight
      <4>2. Right(k) <=> Right(k)'
        BY <3>1 DEF Right
      <4>3. Synced(k, Up \ k.todo) => Synced(k, Up \ k.todo)'
        BY <3>7, <3>4, <3>1 DEF Synced, FilesRight
      <4>4. Synced(k, Up \ (k.todo \cup {k.inst})) => Synced(k, Up \ (k.todo \cup {k.inst}))'
        BY <3>7, <3>4, <3>1 DEF Synced, FilesRight
      <4> QED
        BY <3>8, <4>1, <4>2, <4>3, <4>4, <3>1, <3>3, <3>4 DEF Knows
    <3>9. ASSUME Calm', NEW t \in Writers PROVE Knows(writer[t])'
      <4>1. PICK k : k = writer[t]
        OBVIOUS
      <4>2. Knows(k)'
        BY <4>1, <3>9, <3>8, <3>1 DEF ExactInv
      <4> QED
        BY <4>1, <4>2, <3>1
    <3>10. Calm' /\ Busy' = {} => FilesRight(Clients)'
      BY <3>1, <3>7 DEF ExactInv, FilesRight, Busy
    <3>11. TaskAlone'
      BY <3>1 DEF ExactInv, TaskAlone, Busy
    <3> QED
      BY <3>9, <3>10, <3>11 DEF ExactInv
  <2> QED
    BY <2>1, <2>2
<1>r. ASSUME NEW p \in Policies, Replace(i, p), Busy = {}, Calm', failed' = failed
      PROVE  \A j \in Clients : files'[j] = Expected(j)' /\ i \notin Up'
  <2>1. state[i] # "up" /\ UNCHANGED <<ip, timer, state, approved, files>> /\ policy' = [policy EXCEPT ![i] = p] /\ Calm
    BY <1>r DEF Replace, Calm
  <2>2. Up' = Up /\ i \notin Up
    BY <2>1 DEF Up
  <2>3. \A j \in Clients : Expected(j)' = Expected(j)
    BY <2>1, <2>2, <1>0 DEF Expected, Kept
  <2> QED
    BY <1>r, <2>1, <2>2, <2>3 DEF ExactInv, FilesRight
<1>b. ASSUME NEW n, Launch(n), ~n.sync, failed \in BOOLEAN PROVE Busy = {} /\ failed' = failed
  BY <1>b DEF Launch
<1>5. CASE UpdateRoute(i)
  <2>1. Calm' => Knows(Sync)'
    BY DEF Knows, Sync, NoWriter
  <2> QED
    BY <1>5, <2>1, <1>0, FreshTasks, LaunchAlone DEF UpdateRoute
<1>6. ASSUME NEW p \in Policies, RecreateRoute(i, p)
      PROVE  ExactInv'
  <2>1. PICK n : n = Write(i, p)
    OBVIOUS
  <2>2. Launch(n) /\ Replace(i, p) /\ Fresh(n)
    BY <1>6, <2>1, FreshTasks DEF RecreateRoute
  <2>3. n.at = "ip" /\ n.inst = i /\ ~n.sync
    BY <2>1 DEF Write, NoWriter
  <2>4. Calm' => Single(n)' /\ n.inst \notin Up'
    BY <2>2, <2>3, <1>0, <1>r, <1>b DEF Single, FilesRight, Kept
  <2>5. Calm' => Knows(n)'
    BY <2>3, <2>4 DEF Knows
  <2> QED
    BY <2>2, <2>5, <1>0, LaunchAlone
<1>7. ASSUME NEW p \in Policies, Create(i, p)
      PROVE  ExactInv'
  <2>1. Launch(Write(i, p)) /\ timer'
    BY <1>7 DEF Create, ComesUp
  <2> QED
    BY <2>1, <1>l, FreshTasks
<1>8. ASSUME NEW h \in Domains, ApproveHosts(i, h)
      PROVE  ExactInv'
  <2>1. PICK n : n = Add(i, {h})
    OBVIOUS
  <2>2. Launch(n) /\ Fresh(n)
    BY <1>8, <2>1, FreshTasks DEF ApproveHosts
  <2>3. n.at = "list" /\ n.inst = i /\ ~n.sync /\ n.extras[i] = {h}
    BY <2>1 DEF Add, NoWriter
  <2>4. approved' = [approved EXCEPT ![i] = @ \cup {h}] /\ UNCHANGED <<state, ip, policy, files, timer>>
    BY <1>8 DEF ApproveHosts, contVars
  <2>5. Up' = Up
    BY <2>4 DEF Up
  <2>6. \A j \in Clients \ ({i} \cap Up) : Expected(j)' = Expected(j)
    BY <2>4, <2>5, <1>0 DEF Expected, Kept
  <2>7. ASSUME Calm' PROVE Single(n)'
    <3>1. FilesRight(Clients)
      BY <2>7, <2>3, <2>4, <2>2, <1>0, <1>b DEF ExactInv, Calm, Kept
    <3> QED
      BY <3>1, <2>3, <2>4, <2>5, <2>6 DEF Single, FilesRight
  <2>8. n.extras[i] \subseteq approved'[i]
    BY <2>3, <2>4, <1>0 DEF Kept
  <2>9. Calm' => Knows(n)'
    BY <2>3, <2>7, <2>8 DEF Knows
  <2> QED
    BY <2>2, <2>9, <1>0, LaunchAlone
<1> QED
  BY <1>1, <1>2, <1>3, <1>4, <1>5, <1>6, <1>7, <1>8

\* A resync that starts knows nothing and needs nothing.
LEMMA KnowsSync == Knows(Sync)'
BY DEF Knows, Sync, NoWriter

\* The timer is cleared by the resync it promised.
LEMMA ExactResync ==
  ASSUME ~Overlap, AclTyped, ExactInv, Resync PROVE ExactInv'
BY KnowsSync, FreshTasks, LaunchAlone DEF Resync, AclTyped

\* A restarted manager resyncs.
LEMMA ExactRestart ==
  ASSUME AclTyped, ExactInv, AclRestart PROVE ExactInv'
<1>1. PICK t \in Writers : writer' = [u \in Writers |-> IF u = t THEN Sync ELSE NoWriter]
  BY DEF AclRestart
<1>2. Sync.at = "extras" /\ NoWriter.at = "idle" /\ Sync.sync
  BY DEF Sync, NoWriter
<1>3. Busy' = {t}
  BY <1>1, <1>2 DEF Busy
<1>4. TaskAlone'
  BY <1>3 DEF TaskAlone
<1>5. \A u \in Writers : writer'[u].at = "idle" \/ (writer'[u].at = "extras" /\ writer'[u].sync)
  BY <1>1, <1>2
<1>6. ASSUME NEW u \in Writers PROVE Knows(writer[u])'
  BY <1>5 DEF Knows
<1> QED
  BY <1>3, <1>4, <1>6 DEF ExactInv

\* At the start nothing runs and no file exists.
LEMMA ExactInit == AclInit => ExactInv
<1> SUFFICES ASSUME AclInit PROVE ExactInv
  OBVIOUS
<1>1. \A t \in Writers : writer[t].at = "idle"
  BY FreshTasks DEF AclInit
<1>2. Busy = {} /\ \A t \in Writers : Knows(writer[t])
  BY <1>1 DEF Busy, Knows
<1>3. Up = {}
  BY DEF AclInit, Up
<1>4. FilesRight(Clients)
  BY <1>3 DEF AclInit, FilesRight, Expected
<1> QED
  BY <1>2, <1>4 DEF ExactInv, TaskAlone

\* ExactInv is inductive.
LEMMA ExactStep ==
  ASSUME ~Overlap PROVE AclTyped /\ ExactInv /\ [AclNext]_aclVars => ExactInv'
<1> SUFFICES ASSUME AclTyped, ExactInv, [AclNext]_aclVars PROVE ExactInv'
  OBVIOUS
<1>1. CASE UNCHANGED aclVars
  BY <1>1 DEF aclVars, ExactInv, Calm, TaskAlone, Busy, Knows, Single, Right, Synced, FilesRight, Expected, Up
<1>2. CASE AclNext
  BY <1>2, ExactTask, ExactFails, ExactMove, ExactResync, ExactRestart DEF AclNext
<1> QED
  BY <1>1, <1>2

\* ExactInv always holds while the tasks of the manager do not overlap.
THEOREM ExactAlways ==
  ASSUME ~Overlap PROVE AclSpec => []ExactInv
<1>1. AclInit => AclTyped /\ ExactInv
  BY TypedInit, ExactInit
<1>2. (AclTyped /\ ExactInv) /\ [AclNext]_aclVars => (AclTyped /\ ExactInv)'
  BY TypedStep, ExactStep
<1> QED
  BY <1>1, <1>2, PTL DEF AclSpec

\* While tasks do not overlap, the files of a manager with nothing under way, and no
\* failed call that no resync has followed, are exactly what its running containers
\* are entitled to, at the addresses they have (writeContainerACL, addHostsToACL,
\* syncAllACLs, scheduleAclResync).
THEOREM FilesExact ==
  ASSUME ~Overlap PROVE AclSpec => []AclExact
<1>1. ExactInv => AclExact
  BY DEF ExactInv, AclExact, AtRest, FilesRight, Calm
<1> QED
  BY <1>1, ExactAlways, PTL
=============================================================================
