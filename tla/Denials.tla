------------------------------ MODULE Denials ------------------------------
(***************************************************************************)
(* Who is behind an address: server/proxy-log.js attributes each denied    *)
(* request in the proxy's access log to an instance, and server/auth.js    *)
(* accepts a callback without a token by the same lookup.  The lookup is a *)
(* list of containers that is kept for a while, and an address passes from *)
(* one container to the next.  One address is modelled.                    *)
(*                                                                         *)
(* Nothing can come between the steps of handleLine except where it waits  *)
(* for a list.  Times are ages.  The counts of requests are left out, and  *)
(* so is which repeats of a denial are not reported.                       *)
(***************************************************************************)
EXTENDS Naturals

CONSTANTS Users,    \* instances that may have the address
          Lines,    \* lines and callbacks handled at once
          Ttl,      \* how long a list is kept
          Latency,  \* how long the daemon takes for one at most
          Nobody, Unasked

ASSUME TimesAssumption == Ttl \in Nat /\ Latency \in Nat
ASSUME NobodyAssumption == Nobody \notin Users /\ Unasked \notin Users \cup {Nobody}

VARIABLES holder,   \* who has the address
          ago,      \* per instance: how long ago it last had it
          ipCache,  \* who has it by the list that is kept, and its age
          line,     \* per line: what it is about and the list it waits for
          lag       \* history: how long ago the instance named now last had it

denialVars == <<holder, ago, ipCache, line, lag>>

Who == Users \cup {Nobody}
Horizon == Ttl + Latency + 1   \* ages are not told apart from there on
Aged(age) == IF age = Horizon THEN age ELSE age + 1

Quiet == [for |-> "none", try |-> 1, age |-> 0, list |-> Unasked]

DenialTypeOK ==
  /\ holder \in Who /\ ago \in [Users -> 0..Horizon]
  /\ ipCache \in [age : 0..Horizon, who : Who]
  /\ line \in [Lines -> [for : {"none", "denied", "callback"}, try : 1..2,
                         age : 0..Latency, list : Who \cup {Unasked}]]
  /\ lag \in 0..Horizon

DenialInit ==
  /\ holder = Nobody /\ ago = [u \in Users |-> Horizon]
  /\ ipCache = [age |-> Horizon, who |-> Nobody]
  /\ line = [l \in Lines |-> Quiet] /\ lag = 0

-----------------------------------------------------------------------------
(* Lookups.                                                                *)

\* A denial is blamed on whoever a lookup names.
HandleLine(who) == lag' = IF who \in Users THEN ago[who] ELSE lag

\* A callback for an instance is accepted if the lookup names that one.
CallerIsInstance(who) ==
  \E claimed \in Users : lag' = IF who = claimed THEN ago[who] ELSE lag

Conclude(for, who) == IF for = "denied" THEN HandleLine(who) ELSE CallerIsInstance(who)

MutExpired == ipCache.age > Ttl + Latency
\* A list is kept from when it arrived, not from when it was made.
ListExpired == ipCache.age > Ttl

\* A denial is read, or a container calls without the token of the instance it
\* names: the list that is kept will do, or a new one is asked for.
Arrive(l, for) ==
  /\ line[l] = Quiet
  /\ IF ListExpired
     THEN line' = [line EXCEPT ![l] = [Quiet EXCEPT !.for = for]] /\ UNCHANGED lag
     ELSE Conclude(for, ipCache.who) /\ UNCHANGED line
  /\ UNCHANGED <<holder, ago, ipCache>>

\* The daemon makes the list.
Answer(l) ==
  /\ line[l] # Quiet /\ line[l].list = Unasked
  /\ line' = [line EXCEPT ![l].list = holder]
  /\ UNCHANGED <<holder, ago, ipCache, lag>>

\* The list arrives, and is kept in place of whatever is kept by now.
InstanceForIp(l) ==
  /\ line[l] # Quiet /\ line[l].list # Unasked
  /\ ipCache' = [age |-> 0, who |-> line[l].list]
  /\ Conclude(line[l].for, line[l].list)
  /\ line' = [line EXCEPT ![l] = Quiet]
  /\ UNCHANGED <<holder, ago>>

\* It cannot be had.  A denial has only been counted so far, and asks again.
LookupFails(l) ==
  /\ line[l] # Quiet
  /\ LET again == line[l].for = "denied" /\ line[l].try = 1 IN
     IF again /\ ListExpired
     THEN /\ line' = [line EXCEPT ![l] = [Quiet EXCEPT !.for = "denied", !.try = 2]]
          /\ UNCHANGED lag
     ELSE /\ line' = [line EXCEPT ![l] = Quiet]
          /\ Conclude(line[l].for, IF again THEN ipCache.who ELSE Nobody)
  /\ UNCHANGED <<holder, ago, ipCache>>

-----------------------------------------------------------------------------
(* The environment.                                                        *)

\* A container stops and leaves the address, or one starts with it.
AddressMoves(who) ==
  /\ (holder = Nobody) # (who = Nobody)
  /\ holder' = who
  /\ ago' = IF who = Nobody THEN ago ELSE [ago EXCEPT ![who] = 0]
  /\ UNCHANGED <<ipCache, line, lag>>

\* Time passes; the daemon answers in time.
ListsAge ==
  /\ \A l \in Lines : line[l] # Quiet => line[l].age < Latency
  /\ ago' = [u \in Users |-> IF holder = u THEN 0 ELSE Aged(ago[u])]
  /\ ipCache' = [ipCache EXCEPT !.age = Aged(@)]
  /\ line' = [l \in Lines |-> IF line[l] = Quiet THEN Quiet ELSE [line[l] EXCEPT !.age = @ + 1]]
  /\ lag' = 0
  /\ UNCHANGED holder

DenialNext ==
  \/ \E l \in Lines :
       \/ \E for \in {"denied", "callback"} : Arrive(l, for)
       \/ Answer(l) \/ InstanceForIp(l) \/ LookupFails(l)
  \/ ListsAge
  \/ \E who \in Who : AddressMoves(who)

DenialSpec == DenialInit /\ [][DenialNext]_denialVars

-----------------------------------------------------------------------------
(* Properties.                                                             *)

\* An instance that is blamed for a denial, or believed for its address, had
\* that address no longer ago than a list is kept and one may take, however
\* many lists are on the way, and though an older one may replace a newer.
\* proxy-log.js, instanceForIp; auth.js, callerIsInstance.
RecentHolder == lag <= Ttl + Latency
=============================================================================
