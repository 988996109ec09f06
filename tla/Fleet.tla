------------------------------- MODULE Fleet -------------------------------
(***************************************************************************)
(* The registry of hosts and the table of instances against the daemons    *)
(* they describe (server/hosts.js, server/routes/hosts.js, server/db.js,   *)
(* listManagedContainersByHost of server/docker.js, the startup sequence   *)
(* of server/index.js): hosts are registered, edited, disabled, removed    *)
(* and probed, instances come and go with and without the manager, and at  *)
(* every start the manager reconciles its rows with what the hosts answer. *)
(*                                                                         *)
(* An instance is named by its id; its container is on one daemon at a     *)
(* time.  The port opens last, so no request is served during a start; the *)
(* daemons and what runs on them change all the time.                      *)
(***************************************************************************)
EXTENDS Naturals, FiniteSets

CONSTANTS Hosts,     \* host ids
          Local,     \* 'local', which always has a row
          Daemons,   \* Docker engines
          Insts,     \* instance ids
          None,
          MaxChanges \* edits, removals by hand, and outages, in a behaviour

ASSUME LocalAssumption == Local \in Hosts
ASSUME NoneAssumption == None \notin Hosts \cup Daemons
ASSUME MaxChangesAssumption == MaxChanges \in Nat

VARIABLES host,     \* hosts rows: absent, enabled or disabled
          points,   \* the daemon a host's address leads to
          engine,   \* docker_engine_id, as learned by a probe
          down,     \* daemons that do not answer
          on,       \* the daemon that has an instance's container
          row,      \* the host in an instance's row
          tied,     \* the row has a docker_id
          creating, \* the host a creation in flight (one at a time) was placed on
          boot,     \* "serving", or the stage of the startup
          todo,     \* hosts the stage still has to visit
          answer,   \* per polled host, the instances it reported
          changes

fleetVars == <<host, points, engine, down, on, row, tied, creating, boot, todo,
               answer, changes>>
hostVars == <<host, points, engine>>
bootVars == <<boot, todo, answer>>

FleetTypeOK ==
  /\ host \in [Hosts -> {"absent", "enabled", "disabled"}]
  /\ points \in [Hosts -> Daemons] /\ engine \in [Hosts -> Daemons \cup {None}]
  /\ down \in SUBSET Daemons /\ on \in [Insts -> Daemons \cup {None}]
  /\ row \in [Insts -> Hosts \cup {None}] /\ tied \in [Insts -> BOOLEAN]
  /\ creating \in [Insts -> Hosts \cup {None}]
  /\ boot \in {"serving", "ping", "list"} /\ todo \in SUBSET Hosts
  /\ DOMAIN answer \in SUBSET Hosts /\ \A h \in DOMAIN answer : answer[h] \in SUBSET Insts
  /\ changes \in Nat

FleetInit ==
  /\ host = [h \in Hosts |-> IF h = Local THEN "enabled" ELSE "absent"]
  /\ \E d \in Daemons : points = [h \in Hosts |-> d]
  /\ engine = [h \in Hosts |-> None]
  /\ down = {} /\ on = [i \in Insts |-> None]
  /\ row = [i \in Insts |-> None] /\ tied = [i \in Insts |-> FALSE]
  /\ creating = [i \in Insts |-> None]
  /\ boot = "serving" /\ todo = {} /\ answer = << >>
  /\ changes = MaxChanges

Serving == boot = "serving"
Enabled == {h \in Hosts : host[h] = "enabled"}
Change == changes > 0 /\ changes' = changes - 1

\* dockerFor, and the call that follows: a client is rebuilt when the host's
\* signature changed, so it leads where the row says, if the daemon answers.
Reachable(h) == host[h] = "enabled" /\ points[h] \notin down
RowsOn(h) == {i \in Insts : row[i] = h}

-----------------------------------------------------------------------------
(* Hosts.                                                                  *)

\* Another host known to be the same engine.
Twin(h, d) == \E g \in Hosts \ {h} : host[g] # "absent" /\ engine[g] = d

\* pingHost, as one step: the engine goes on record if the daemon answered, info
\* too, and no other host has it.
Pinged(h, d) ==
  engine' \in {engine} \cup
    {[engine EXCEPT ![h] = e] : e \in {d} \ ({None} \cup down \cup {x \in Daemons : Twin(h, x)})}

\* POST /api/hosts ends with a probe of the new host.
RegisterHost(h, d) ==
  /\ Serving /\ host[h] = "absent"
  /\ host' = [host EXCEPT ![h] = "enabled"] /\ points' = [points EXCEPT ![h] = d]
  /\ Pinged(h, d)
  /\ UNCHANGED <<down, on, row, tied, creating, bootVars, changes>>

\* PATCH leaves the recorded engine as it was.
EditHost(h, d, state) ==
  /\ Serving /\ host[h] # "absent" /\ Change
  /\ host' = [host EXCEPT ![h] = state] /\ points' = [points EXCEPT ![h] = d]
  /\ <<host, points>>' # <<host, points>>
  /\ UNCHANGED <<engine, down, on, row, tied, creating, bootVars>>

\* deleteHost refuses the local host, and a host that rows name.  (The address
\* of a host that is absent means nothing.)
DeleteHost(h) ==
  /\ Serving /\ h # Local /\ host[h] # "absent" /\ RowsOn(h) = {}
  /\ host' = [host EXCEPT ![h] = "absent"]
  /\ engine' = [engine EXCEPT ![h] = None]
  /\ points' = [points EXCEPT ![h] = points[Local]]
  /\ UNCHANGED <<down, on, row, tied, creating, bootVars, changes>>

\* POST /api/hosts/:id/ping; a disabled host has no client.
Ping(h) ==
  /\ Serving /\ host[h] = "enabled"
  /\ Pinged(h, points[h])
  /\ UNCHANGED <<host, points, down, on, row, tied, creating, bootVars, changes>>

-----------------------------------------------------------------------------
(* Instances.                                                              *)

\* A creation is placed on an enabled host, and ends with the row, whatever has
\* become of the host meanwhile.
CreateBegins(i, h) ==
  /\ Serving /\ row[i] = None /\ on[i] = None /\ Reachable(h)
  /\ \A j \in Insts : creating[j] = None
  /\ creating' = [creating EXCEPT ![i] = h]
  /\ on' = [on EXCEPT ![i] = points[h]]
  /\ UNCHANGED <<hostVars, down, row, tied, bootVars, changes>>

CreateEnds(i) ==
  /\ Serving /\ creating[i] # None
  /\ row' = [row EXCEPT ![i] = creating[i]]
  /\ creating' = [creating EXCEPT ![i] = None]
  /\ UNCHANGED <<hostVars, down, on, tied, bootVars, changes>>

\* Recreate records the id of the new container in the row.
RecreateInstance(i) ==
  /\ Serving /\ row[i] # None /\ Reachable(row[i]) /\ on[i] = points[row[i]] /\ ~tied[i]
  /\ tied' = [tied EXCEPT ![i] = TRUE]
  /\ UNCHANGED <<hostVars, down, on, row, creating, bootVars, changes>>

RemoveInstance(i) ==
  /\ Serving /\ row[i] # None /\ Reachable(row[i]) /\ on[i] = points[row[i]]
  /\ on' = [on EXCEPT ![i] = None]
  /\ row' = [row EXCEPT ![i] = None] /\ tied' = [tied EXCEPT ![i] = FALSE]
  /\ UNCHANGED <<hostVars, down, creating, bootVars, changes>>

-----------------------------------------------------------------------------
(* The world.                                                              *)

RemovedByHand(i) ==
  /\ on[i] # None /\ creating[i] = None /\ Change
  /\ on' = [on EXCEPT ![i] = None]
  /\ UNCHANGED <<hostVars, down, row, tied, creating, bootVars>>

Outage(d) ==
  /\ IF d \in down THEN down' = down \ {d} /\ UNCHANGED changes
                   ELSE Change /\ down' = down \cup {d}
  /\ UNCHANGED <<hostVars, on, row, tied, creating, bootVars>>

-----------------------------------------------------------------------------
(* The start of the manager.                                               *)

\* A creation in flight leaves its container.
StartUp ==
  /\ Serving /\ Change
  /\ boot' = "ping" /\ todo' = Enabled /\ answer' = << >>
  /\ creating' = [i \in Insts |-> None]
  /\ UNCHANGED <<hostVars, down, on, row, tied>>

\* pingAllHosts.
PingAll(h) ==
  /\ boot = "ping" /\ h \in todo
  /\ Pinged(h, points[h])
  /\ todo' = todo \ {h}
  /\ UNCHANGED <<host, points, down, on, row, tied, creating, boot, answer, changes>>

\* ensureNetwork asks the local daemon; without it the start goes on to serve
\* requests with the rows as they were.
EnsureNetwork ==
  /\ boot = "ping" /\ todo = {}
  /\ IF points[Local] \in down THEN boot' = "serving" /\ UNCHANGED todo
                              ELSE boot' = "list" /\ todo' = Enabled
  /\ UNCHANGED <<hostVars, down, on, row, tied, creating, answer, changes>>

\* listManagedContainersByHost: a host that does not answer is left out.
ListHost(h) ==
  /\ boot = "list" /\ h \in todo
  /\ todo' = todo \ {h}
  /\ answer' = IF Reachable(h)
               THEN [g \in DOMAIN answer \cup {h} |->
                       IF g = h THEN {i \in Insts : on[i] = points[h]} ELSE answer[g]]
               ELSE answer
  /\ UNCHANGED <<hostVars, down, on, row, tied, creating, boot, changes>>

\* syncWithDocker: rows for what was reported and not known (for the first host
\* that reported it, the local one before others); and, for hosts that reported
\* something, no rows for what nobody reported, unless a docker_id ties them to a
\* container.
Reported == UNION {answer[h] : h \in DOMAIN answer}
MutEveryAnswer == DOMAIN answer

Scope == {h \in DOMAIN answer : answer[h] # {}}
Orphans == {i \in Insts : row[i] \in Scope /\ i \notin Reported /\ ~tied[i]}

SyncWithDocker ==
  /\ boot = "list" /\ todo = {}
  /\ \E first \in [Reported -> DOMAIN answer] :
       /\ \A i \in Reported :
            /\ i \in answer[first[i]]
            /\ (Local \in DOMAIN answer /\ i \in answer[Local]) => first[i] = Local
       /\ row' = [i \in Insts |->
                    IF i \in Reported /\ row[i] = None THEN first[i]
                    ELSE IF i \in Orphans THEN None ELSE row[i]]
  /\ boot' = "serving" /\ answer' = << >>
  /\ UNCHANGED <<hostVars, down, on, tied, creating, todo, changes>>

FleetNext ==
  \/ \E h \in Hosts :
       \/ DeleteHost(h) \/ Ping(h) \/ PingAll(h) \/ ListHost(h)
       \/ \E d \in Daemons : RegisterHost(h, d)
       \/ \E d \in Daemons, state \in {"enabled", "disabled"} : EditHost(h, d, state)
  \/ \E i \in Insts :
       \/ CreateEnds(i) \/ RecreateInstance(i) \/ RemoveInstance(i) \/ RemovedByHand(i)
       \/ \E h \in Hosts : CreateBegins(i, h)
  \/ \E d \in Daemons : Outage(d)
  \/ StartUp \/ EnsureNetwork \/ SyncWithDocker

FleetSpec == FleetInit /\ [][FleetNext]_fleetVars

-----------------------------------------------------------------------------
(* Properties.                                                             *)

\* A start forgets an instance only on the evidence of its own host: one that
\* is disabled, does not answer, or answers with nothing keeps all its rows,
\* whatever the other hosts answer ("a host that is merely unreachable must
\* never look like every instance on it was deleted").  Who is still there on
\* the host that was asked keeps his row.  db.js, syncWithDocker.
ReapedOnEvidence ==
  [][\A i \in Insts : (boot = "list" /\ row[i] # None /\ row'[i] = None) =>
       /\ row[i] \in DOMAIN answer /\ host[row[i]] = "enabled"
       /\ \E j \in answer[row[i]] : j # i
       /\ \A h \in DOMAIN answer : i \notin answer[h]]_fleetVars
=============================================================================
