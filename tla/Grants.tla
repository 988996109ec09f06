------------------------------- MODULE Grants -------------------------------
(***************************************************************************)
(* The time-bound grant for one capability of one instance, and what is    *)
(* done on the strength of it (server/grants.js, server/routes/grants.js,  *)
(* server/routes/access-requests.js, the grant rows of server/db.js): the  *)
(* sweep that runs every minute whether or not the last one is over, the   *)
(* routes that renew, drop, create and delete the grant, and access        *)
(* requests that ask for the capability.                                   *)
(*                                                                         *)
(* The clock is an hour of the day; the expiry of the grant is the number  *)
(* of hours left, negative once it has passed.  A recreate is one step     *)
(* here (Lifecycle takes it apart): the container has the capability or    *)
(* not, and runs if it ran before.                                         *)
(***************************************************************************)
EXTENDS Integers

CONSTANTS Sweeps,     \* runs of the sweep that may overlap
          Calls,      \* requests to the routes that may overlap
          Requests,   \* access requests for the capability
          DayLen,     \* hours in a day
          Life        \* the longest validity asked for, in hours

ASSUME DayLenAssumption == DayLen \in Nat \ {0}
ASSUME LifeAssumption == Life \in Nat \ {0}

VARIABLES running,  \* the container runs
          capable,  \* the container has the capability
          grant,    \* the row: "none", or active = 1 or 0
          left,     \* hours until expires_at
          hour,     \* of the day, UTC
          sweep,    \* per run: off, due by its timer, or awaiting the stop for the grant it read
          call,     \* per request to a route: what it awaits
          request,  \* status of an access request
          renewed,  \* history: the grant was renewed since the sweep read it
          resolved  \* history: how often an access request was resolved

grantVars == <<running, capable, grant, left, hour, sweep, call, request, renewed, resolved>>

GrantTypeOK ==
  /\ running \in BOOLEAN /\ capable \in BOOLEAN
  /\ grant \in {"none", "active", "inactive"}
  /\ left \in -DayLen .. Life /\ hour \in 0 .. DayLen - 1
  /\ sweep \in [Sweeps -> {"off", "due", "stopping"}]
  /\ call \in [Calls -> {"off", "starting", "dropping"} \cup Requests]
  /\ request \in [Requests -> {"none", "pending", "approved", "denied"}]
  /\ renewed \in [Sweeps -> BOOLEAN]
  /\ resolved \in [Requests -> 0 .. 2]

GrantInit ==
  /\ running = TRUE /\ hour = 0
  /\ \/ capable = TRUE /\ grant = "active" /\ left = Life   \* createGrantsForInstance
     \/ capable = FALSE /\ grant = "none" /\ left = 0
  /\ sweep = [s \in Sweeps |-> "off"]
  /\ call = [c \in Calls |-> "off"]
  /\ request = [r \in Requests |-> "none"]
  /\ renewed = [s \in Sweeps |-> FALSE]
  /\ resolved = [r \in Requests |-> 0]

Expired == left < 0

\* createGrant and renewGrant: the row is active, with a new expiry.
Grant(hours) ==
  /\ grant' = "active" /\ left' = hours
  /\ renewed' = [s \in Sweeps |-> TRUE]
Deactivate == grant' = (IF grant = "none" THEN "none" ELSE "inactive")

-----------------------------------------------------------------------------
(* checkExpiredGrants.                                                     *)

\* expires_at < datetime('now') compares the texts 'YYYY-MM-DDThh...' and
\* 'YYYY-MM-DD hh...'.  On one date 'T' sorts after the space, so the row is
\* found only once the date is past, whatever its hour.
MutDayEarly == grant = "active" /\ hour + left < DayLen
MutOnTheDot == grant = "active" /\ hour + left = -1

Overdue == grant = "active" /\ hour + left < 0

Due(s) ==
  /\ sweep[s] = "off"
  /\ sweep' = [sweep EXCEPT ![s] = "due"]
  /\ UNCHANGED <<running, capable, grant, left, hour, call, request, renewed, resolved>>

Read(s) ==
  /\ sweep[s] = "due"
  /\ sweep' = [sweep EXCEPT ![s] = IF Overdue THEN "stopping" ELSE "off"]
  /\ renewed' = [renewed EXCEPT ![s] = FALSE]
  /\ UNCHANGED <<running, capable, grant, left, hour, call, request, resolved>>

\* A stop that fails is ignored; the grant is deactivated without a second look.
Sweep(s) ==
  /\ sweep[s] = "stopping"
  /\ running' \in {FALSE, running}
  /\ sweep' = [sweep EXCEPT ![s] = "off"]
  /\ Deactivate
  /\ UNCHANGED <<capable, left, hour, call, request, renewed, resolved>>

-----------------------------------------------------------------------------
(* The grant routes.                                                       *)

CreateManually(hours) ==
  /\ Grant(hours)
  /\ UNCHANGED <<running, capable, hour, sweep, call, request, resolved>>

\* The row first, then the start of the instance, whose failure is ignored.
Renew(c, hours) ==
  /\ call[c] = "off" /\ grant # "none"
  /\ Grant(hours)
  /\ call' = [call EXCEPT ![c] = "starting"]
  /\ UNCHANGED <<running, capable, hour, sweep, request, resolved>>

Started(c) ==
  /\ call[c] = "starting"
  /\ running' \in {TRUE, running}
  /\ call' = [call EXCEPT ![c] = "off"]
  /\ UNCHANGED <<capable, grant, left, hour, sweep, request, renewed, resolved>>

\* recreateWithoutCapability, then the row; a failed recreate leaves both.
Drop(c) ==
  /\ call[c] = "off" /\ grant # "none"
  /\ call' = [call EXCEPT ![c] = "dropping"]
  /\ UNCHANGED <<running, capable, grant, left, hour, sweep, request, renewed, resolved>>

Dropped(c) ==
  /\ call[c] = "dropping"
  /\ call' = [call EXCEPT ![c] = "off"]
  /\ \/ capable' = FALSE /\ Deactivate
     \/ UNCHANGED <<capable, grant>>
  /\ UNCHANGED <<running, left, hour, sweep, request, renewed, resolved>>

DeleteGrant ==
  /\ grant = "active" /\ Deactivate
  /\ UNCHANGED <<running, capable, left, hour, sweep, call, request, renewed, resolved>>

\* POST /recreate with or without the capability leaves the grants alone.
RecreateOnly ==
  /\ capable' \in BOOLEAN
  /\ UNCHANGED <<running, grant, left, hour, sweep, call, request, renewed, resolved>>

-----------------------------------------------------------------------------
(* Access requests for the capability.                                     *)

\* An instance known to have the capability (unrestricted) is told so instead; when
\* Docker cannot be asked, any instance may ask.
RequestAccess(r) ==
  /\ request[r] = "none"
  /\ request' = [request EXCEPT ![r] = "pending"]
  /\ UNCHANGED <<running, capable, grant, left, hour, sweep, call, renewed, resolved>>

\* The status is left for when the request has been applied.
MutResolveLater(r, status) ==
  /\ resolved' = [resolved EXCEPT ![r] = IF @ < 2 THEN @ + 1 ELSE @]
  /\ UNCHANGED request

Resolve(r, status) ==
  /\ request' = [request EXCEPT ![r] = status]
  /\ resolved' = [resolved EXCEPT ![r] = IF @ < 2 THEN @ + 1 ELSE @]

\* The request is resolved before the recreate that applies it.
Approve(c, r) ==
  /\ call[c] = "off" /\ request[r] = "pending"
  /\ Resolve(r, "approved")
  /\ call' = [call EXCEPT ![c] = r]
  /\ UNCHANGED <<running, capable, grant, left, hour, sweep, renewed>>

\* The recreate, the ACL and the grant, of which each may be the first to fail:
\* the request stays approved, and the capability may come without its grant.
Applied(c, hours) ==
  /\ call[c] \in Requests
  /\ call' = [call EXCEPT ![c] = "off"]
  /\ \/ capable' = TRUE /\ Grant(hours)
     \/ capable' = TRUE /\ UNCHANGED <<grant, left, renewed>>
     \/ UNCHANGED <<capable, grant, left, renewed>>
  /\ UNCHANGED <<running, hour, sweep, request, resolved>>

Deny(r) ==
  /\ request[r] = "pending"
  /\ Resolve(r, "denied")
  /\ UNCHANGED <<running, capable, grant, left, hour, sweep, call, renewed>>

-----------------------------------------------------------------------------
(* Users, the idle stop and the clock.                                     *)

StartedOrStopped ==
  /\ running' = ~running
  /\ UNCHANGED <<capable, grant, left, hour, sweep, call, request, renewed, resolved>>

HourPasses ==
  /\ hour' = (hour + 1) % DayLen
  /\ left' = IF grant = "active" /\ left > -DayLen THEN left - 1 ELSE left
  /\ UNCHANGED <<running, capable, grant, sweep, call, request, renewed, resolved>>

GrantNext ==
  \/ \E s \in Sweeps : Due(s) \/ Read(s) \/ Sweep(s)
  \/ \E hours \in 1 .. Life :
       \/ CreateManually(hours)
       \/ \E c \in Calls : Renew(c, hours) \/ Applied(c, hours)
  \/ \E c \in Calls : Started(c) \/ Drop(c) \/ Dropped(c)
  \/ \E r \in Requests :
       \/ RequestAccess(r) \/ Deny(r)
       \/ \E c \in Calls : Approve(c, r)
  \/ DeleteGrant \/ RecreateOnly \/ StartedOrStopped \/ HourPasses

GrantSpec == GrantInit /\ [][GrantNext]_grantVars

-----------------------------------------------------------------------------
(* Properties.                                                             *)

\* A sweep never takes a grant away before its time, unless the grant was
\* renewed while the sweep was stopping the instance: the comparison of the
\* texts errs on the late side only.  grants.js, checkExpiredGrants.
SweptOnlyExpired ==
  [][\A s \in Sweeps : Sweep(s) /\ grant = "active" /\ ~Expired => renewed[s]]_grantVars

\* A grant that has expired does not stay in force for good: a sweep finds it,
\* even if it has to wait for the next date, or someone renews or drops it.
ExpiredIsSwept == (grant = "active" /\ Expired) ~> (grant # "active" \/ ~Expired)

\* An access request is resolved once, so an approval is applied once and a
\* denied request never, however many administrators click at a time.
\* access-requests.js, approve and deny.
ResolvedOnce == \A r \in Requests : resolved[r] < 2

\* "A 60-second timer (checkExpiredGrants) stops any container whose grant has
\* expired" (docs/architecture.md): a sweep that runs takes the expired grant.
EverySweepTakesExpired ==
  [][\A s \in Sweeps : (Read(s) /\ grant = "active" /\ Expired) => sweep'[s] = "stopping"]_grantVars
=============================================================================
