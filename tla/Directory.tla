----------------------------- MODULE Directory -----------------------------
(***************************************************************************)
(* Which container is which instance.  The manager knows an instance by an *)
(* id; Docker knows containers.  The two are tied by labels on the         *)
(* containers made here, and by the docker_id of a row for containers that *)
(* were adopted, which cannot be labelled any more.  The lists and the     *)
(* lookups of server/docker.js each follow these ties by code of their     *)
(* own; server/routes/instances.js and server/db.js write the rows.        *)
(*                                                                         *)
(* One creation or recreate is under way at a time (Lifecycle has those    *)
(* that overlap); lists are taken, containers adopted and things removed   *)
(* while it is.  Docker ids are numbered as the containers are made: a     *)
(* daemon lists the newest first.                                          *)
(***************************************************************************)
EXTENDS Naturals, FiniteSets

CONSTANTS Ids,     \* ids of instances
          MaxMade, \* containers made in a behaviour
          NoId

ASSUME IdsAssumption == NoId \notin Ids
ASSUME MadeAssumption == MaxMade \in Nat

VARIABLES ctrs,    \* per container that exists: its daemon and its id label
          made,    \* how many containers there have been
          rows,    \* per instance on record: its docker_id, or 0, and its host
          job,     \* the creation or recreate under way
          offered, \* what a dashboard shows as unmanaged
          torn     \* history: instances whose recreate ended with the manager

dirVars == <<ctrs, made, rows, job, offered, torn>>

Daemons == {"here", "away"}  \* the manager's own, which is the default, and another
Made == 1..MaxMade
Idle == [kind |-> "idle"]
NoRows == << >>

DirTypeOK ==
  /\ DOMAIN ctrs \subseteq 1..made /\ made \in 0..MaxMade
  /\ \A c \in DOMAIN ctrs : ctrs[c] \in [on : Daemons, label : Ids \cup {NoId}]
  /\ DOMAIN rows \subseteq Ids
  /\ \A i \in DOMAIN rows : rows[i] \in [tracked : 0..made, on : Daemons]
  /\ job \in {Idle} \cup [kind : {"create"}, id : Ids, new : Made, on : Daemons]
                   \cup [kind : {"recreate"}, id : Ids, old : Made, new : Made, known : BOOLEAN]
  /\ offered \subseteq Made /\ torn \subseteq Ids

DirInit == /\ ctrs = NoRows /\ made = 0 /\ rows = NoRows
           /\ job = Idle /\ offered = {} /\ torn = {}

-----------------------------------------------------------------------------
(* Lists and lookups.                                                      *)

Newest(cs) == IF cs = {} THEN 0 ELSE CHOOSE c \in cs : \A d \in cs : d <= c
On(daemon) == {c \in DOMAIN ctrs : ctrs[c].on = daemon}
IsLabelled(c) == ctrs[c].label # NoId
HostOf(i) == IF i \in DOMAIN rows THEN rows[i].on ELSE "here"
LabelledAs(i) == {c \in On(HostOf(i)) : ctrs[c].label = i}

\* What start, stop, remove, exec and recreate act on.
ResolveContainer(i) ==
  IF LabelledAs(i) # {} THEN Newest(LabelledAs(i))
  ELSE IF i \in DOMAIN rows /\ rows[i].tracked \in On(rows[i].on) THEN rows[i].tracked ELSE 0

\* What the page of one instance, its ACL and its terminal show.
GetContainer(i) ==
  LET tracked == {rows[j].tracked : j \in DOMAIN rows \cap {i}} \cap On(HostOf(i))
      named == LabelledAs(i)
  IN  Newest(IF named = {} THEN tracked ELSE named)

Entry(i, c) == [id |-> i, ctr |-> c]

\* The list of the dashboard, the graph and the reconciliation.
ListManagedContainersByHost == {Entry(ctrs[c].label, c) : c \in {x \in DOMAIN ctrs : IsLabelled(x)}}

\* The list of the scans and the system page: this daemon's, and what is adopted.
ListManagedContainers ==
  LET labelled == {c \in On("here") : IsLabelled(c)}
  IN  {Entry(ctrs[c].label, c) : c \in labelled}
        \cup {Entry(i, rows[i].tracked) : i \in {j \in DOMAIN rows : rows[j].tracked \in On("here") \ labelled}}

DiscoverContainers ==
  {c \in On("here") : ~IsLabelled(c) /\ \A i \in DOMAIN rows : rows[i].tracked # c}

-----------------------------------------------------------------------------
(* Rows.                                                                   *)

MutUpsert(i, docker, given) ==
  [j \in DOMAIN rows \cup {i} |->
    IF j # i THEN rows[j]
    ELSE [tracked |-> IF docker # 0 \/ i \notin DOMAIN rows THEN docker ELSE rows[i].tracked,
          on |-> IF given # "" THEN given ELSE "here"]]
\* upsertInstance: what is not given stays as it is on record.
Upsert(i, docker, given) ==
  [j \in DOMAIN rows \cup {i} |->
    IF j # i THEN rows[j]
    ELSE [tracked |-> IF docker # 0 \/ i \notin DOMAIN rows THEN docker ELSE rows[i].tracked,
          on |-> IF given # "" THEN given
                 ELSE IF i \in DOMAIN rows THEN rows[i].on ELSE "here"]]
WithoutRow(i) == [j \in DOMAIN rows \ {i} |-> rows[j]]

\* syncWithDocker: a row for what is listed; of the rows of hosts that listed
\* something, those without a container and without a docker_id go.
Synced(answered) ==
  LET seen == {c \in DOMAIN ctrs : IsLabelled(c) /\ ctrs[c].on \in answered}
      ids == {ctrs[c].label : c \in seen}
      scope == {ctrs[c].on : c \in seen}
      stays(i) == rows[i].on \notin scope \/ i \in ids \/ rows[i].tracked # 0
      hostOf(i) == ctrs[Newest({c \in seen : ctrs[c].label = i})].on
  IN  [i \in {j \in DOMAIN rows : stays(j)} \cup ids |->
        IF i \in DOMAIN rows THEN rows[i] ELSE [tracked |-> 0, on |-> hostOf(i)]]

-----------------------------------------------------------------------------
(* Operations.                                                             *)

NewContainer(daemon, label) ==
  /\ made < MaxMade /\ made' = made + 1
  /\ ctrs' = [c \in DOMAIN ctrs \cup {made'} |->
               IF c = made' THEN [on |-> daemon, label |-> label] ELSE ctrs[c]]
Gone(c) == ctrs' = [d \in DOMAIN ctrs \ {c} |-> ctrs[d]]
Unused(i) == i \notin DOMAIN rows /\ \A c \in DOMAIN ctrs : ctrs[c].label # i

\* POST instances, in two steps: the container, then the row.
CreateInstance(i, daemon) ==
  /\ job = Idle /\ Unused(i)
  /\ NewContainer(daemon, i)
  /\ job' = [kind |-> "create", id |-> i, new |-> made', on |-> daemon]
  /\ UNCHANGED <<rows, offered, torn>>
RecordInstance ==
  /\ job.kind = "create"
  /\ rows' = Upsert(job.id, 0, job.on) /\ job' = Idle
  /\ UNCHANGED <<ctrs, made, offered, torn>>

\* GET discover: a dashboard keeps the answer until its list changes.
Discover == offered' = DiscoverContainers /\ offered' # offered /\ UNCHANGED <<ctrs, made, rows, job, torn>>

\* POST adopt: a new id for a container of this daemon, whatever it is by now.
Inspected(c) == c \in On("here")
AdoptContainer(c, i) ==
  /\ c \in offered /\ Inspected(c) /\ Unused(i) /\ \A j \in {job} \ {Idle} : j.id # i
  /\ rows' = Upsert(i, c, "")
  /\ UNCHANGED <<ctrs, made, job, offered, torn>>

\* A recreate: the replacement has the labels of the old container, which stays
\* until it is up; the recreate and update routes then put its docker id in the
\* row they had read before, the others do not.
RowKnown(i, route) == route /\ i \in DOMAIN rows
RecreateInstance(i, route) ==
  /\ job = Idle /\ ResolveContainer(i) # 0
  /\ LET old == ResolveContainer(i) IN
     /\ NewContainer(ctrs[old].on, ctrs[old].label)
     /\ job' = [kind |-> "recreate", id |-> i, old |-> old, new |-> made',
                known |-> RowKnown(i, route)]
  /\ UNCHANGED <<rows, offered, torn>>
RecreateDone ==
  /\ job.kind = "recreate" /\ job.new \in DOMAIN ctrs
  /\ Gone(job.old)
  /\ rows' = IF job.known THEN Upsert(job.id, job.new, "") ELSE rows
  /\ job' = Idle /\ UNCHANGED <<made, offered, torn>>
RecreateFails ==
  /\ job.kind = "recreate"
  /\ Gone(job.new) /\ job' = Idle /\ UNCHANGED <<made, rows, offered, torn>>

\* DELETE: refused if there is no container, and then the row stays.
RemoveInstance(i) ==
  /\ job = Idle /\ ResolveContainer(i) # 0
  /\ Gone(ResolveContainer(i)) /\ rows' = WithoutRow(i)
  /\ UNCHANGED <<made, job, offered, torn>>

\* The manager ends, whatever is under way, and starts again; a host may not answer.
Restart(answered) ==
  /\ rows' = Synced(answered) /\ job' = Idle /\ offered' = {}
  /\ torn' = IF job.kind = "recreate" THEN torn \cup {job.id} ELSE torn
  /\ UNCHANGED <<ctrs, made>>

\* Others make a workspace container, or remove any container.
Appears(daemon) == NewContainer(daemon, NoId) /\ UNCHANGED <<rows, job, offered, torn>>
Vanishes(c) ==
  /\ c \in DOMAIN ctrs /\ job = Idle
  /\ Gone(c) /\ UNCHANGED <<made, rows, job, offered, torn>>

DirNext ==
  \/ \E i \in Ids :
       \/ \E d \in Daemons : CreateInstance(i, d)
       \/ \E c \in DOMAIN ctrs : AdoptContainer(c, i)
       \/ \E route \in BOOLEAN : RecreateInstance(i, route)
       \/ RemoveInstance(i)
  \/ RecordInstance \/ RecreateDone \/ RecreateFails \/ Discover
  \/ \E answered \in {{"here"}, Daemons} : Restart(answered)
  \/ \E d \in Daemons : Appears(d)
  \/ \E c \in DOMAIN ctrs : Vanishes(c)

DirSpec == DirInit /\ [][DirNext]_dirVars

-----------------------------------------------------------------------------
(* Properties.                                                             *)

\* While nothing is under way, what an instance is listed with is what its
\* buttons act on and what its page shows, in the list of every host as in that
\* of the scans, wherever it runs and however often it was recreated or the
\* manager restarted; and what is offered for adoption is no instance.  (Two
\* exceptions: an instance of another host that has no row, as when the manager
\* ended during its creation and that host did not answer afterwards, and one
\* whose recreate ended with the manager, which is listed twice.)  docker.js,
\* listManagedContainersByHost, listManagedContainers, resolveContainer,
\* getContainer, discoverContainers.
ActsOnTheShown ==
  job = Idle =>
    /\ \A e \in ListManagedContainersByHost \cup ListManagedContainers :
         e.id \notin torn /\ (e.id \in DOMAIN rows \/ ctrs[e.ctr].on = "here") =>
           ResolveContainer(e.id) = e.ctr /\ GetContainer(e.id) = e.ctr
    /\ \A c \in DiscoverContainers, i \in Ids : ResolveContainer(i) # c
=============================================================================
