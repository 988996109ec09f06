---------------------------- MODULE EventStreams ----------------------------
(***************************************************************************)
(* The Docker event streams the manager keeps, one per managed host        *)
(* (server/routes/instances.js), and the host edits that tear them down    *)
(* (server/routes/hosts.js).                                               *)
(*                                                                         *)
(* The map eventStreams holds, per host, nothing, the CONNECTING sentinel, *)
(* or a stream.  An attempt to open a stream is asynchronous: between its  *)
(* start (in Reconcile) and its end (Opened or OpenFails) every other      *)
(* handler may run, and the attempt later decides from the map alone       *)
(* whether it still counts.  Several attempts of one host can therefore    *)
(* be in flight; Tries names them, and a name is reused once its attempt   *)
(* or its stream is gone.                                                  *)
(*                                                                         *)
(* Time: one Reconcile is one 5 s period of the reconcile timer, and the   *)
(* back-off is counted in such periods.                                    *)
(***************************************************************************)
EXTENDS Naturals

CONSTANTS Hosts,        \* host ids
          Local,        \* the local host, which cannot be deleted
          Addrs,        \* endpoints a host row can carry
          Tries,        \* names of a host's attempts and streams in flight
          None,         \* eventStreams has no entry
          Connecting,   \* the CONNECTING sentinel
          BackoffCap,   \* longest back-off, in timer periods (60 s / 5 s = 12)
          MaxCuts       \* connections lost or refused though the daemon answers

ASSUME SlotAssumption ==
  None \notin Tries /\ Connecting \notin Tries /\ None # Connecting
ASSUME CapAssumption == BackoffCap \in Nat \ {0}
ASSUME CutsAssumption == MaxCuts \in Nat

VARIABLES registered,   \* hosts with a row in the hosts table
          enabled,      \* hosts whose row says enabled
          addr,         \* addr[h]: endpoint in the row of h
          up,           \* endpoints whose daemon answers (the environment)
          cuts,         \* connections that may still be cut though it does
          slot,         \* eventStreams: None, Connecting or the try installed
          phase,        \* phase[h][t]: what became of attempt t of host h
          target,       \* target[h][t]: endpoint attempt t connected to
          backoff,      \* streamBackoff, 0 when there is no entry
          since,        \* timer periods since lastAttempt, BackoffCap if none
          running       \* the reconcile timer is set (until shutdown)

hostVars == <<registered, enabled, addr>>
timerVars == <<backoff, since>>
daemonVars == <<up, cuts>>
streamVars == <<registered, enabled, addr, up, cuts, slot, phase, target, backoff, since, running>>

Phases == {"idle", "opening", "live", "destroyed"}

StreamTypeOK ==
  /\ registered \in SUBSET Hosts
  /\ enabled \in SUBSET Hosts
  /\ addr \in [Hosts -> Addrs]
  /\ up \in SUBSET Addrs /\ cuts \in 0 .. MaxCuts
  /\ slot \in [Hosts -> Tries \cup {None, Connecting}]
  /\ phase \in [Hosts -> [Tries -> Phases]]
  /\ target \in [Hosts -> [Tries -> Addrs]]
  /\ backoff \in [Hosts -> 0 .. BackoffCap]
  /\ since \in [Hosts -> 0 .. BackoffCap]
  /\ running \in BOOLEAN

Capped(n) == IF n > BackoffCap THEN BackoffCap ELSE n
Watchable == registered \cap enabled

StreamInit ==
  /\ registered \in {R \in SUBSET Hosts : {Local} \cap Hosts \subseteq R}
  /\ enabled \in SUBSET registered
  /\ addr \in [Hosts -> Addrs]
  /\ up \in SUBSET Addrs /\ cuts = MaxCuts
  /\ slot = [h \in Hosts |-> None]
  /\ phase = [h \in Hosts |-> [t \in Tries |-> "idle"]]
  /\ target = [h \in Hosts |-> [t \in Tries |-> addr[h]]]
  /\ backoff = [h \in Hosts |-> 0]
  /\ since = [h \in Hosts |-> BackoffCap]
  /\ running = TRUE

-----------------------------------------------------------------------------
(* Tearing a stream down: the map entry goes first, then the stream.       *)

\* The phases of h's tries once stopHostEventStream(h) has destroyed the
\* stream in the map.  An attempt in flight is not cancelled.
Stopped(h) ==
  [t \in Tries |-> IF t = slot[h] THEN "destroyed" ELSE phase[h][t]]

StopHostEventStream(h) ==
  /\ slot' = [slot EXCEPT ![h] = None]
  /\ backoff' = [backoff EXCEPT ![h] = 0]
  /\ phase' = [phase EXCEPT ![h] = Stopped(h)]

-----------------------------------------------------------------------------
(* The one scheduler.                                                      *)

Elapsed(h) == Capped(since[h] + 1)

Due(h) == h \in Watchable /\ slot[h] = None /\ Elapsed(h) >= backoff[h]

\* The first half of startHostEventStream, up to its await: the sentinel is
\* set and the connection is opened to the endpoint the row has now.
\* Hosts no longer watchable lose their stream in the same pass.
Reconcile ==
  LET due == {h \in Hosts : Due(h)}
      gone == {h \in Hosts : slot[h] # None /\ h \notin Watchable}
  IN
  /\ running
  /\ \E pick \in [due -> Tries] :
       /\ \A h \in due : phase[h][pick[h]] = "idle"
       /\ phase' = [h \in Hosts |->
            IF h \in due THEN [phase[h] EXCEPT ![pick[h]] = "opening"]
            ELSE IF h \in gone THEN Stopped(h) ELSE phase[h]]
       /\ target' = [h \in Hosts |->
            IF h \in due THEN [target[h] EXCEPT ![pick[h]] = addr[h]] ELSE target[h]]
  /\ slot' = [h \in Hosts |->
       IF h \in due THEN Connecting ELSE IF h \in gone THEN None ELSE slot[h]]
  /\ since' = [h \in Hosts |-> IF h \in due THEN 0 ELSE Elapsed(h)]
  /\ backoff' = [h \in Hosts |-> IF h \in gone THEN 0 ELSE backoff[h]]
  /\ UNCHANGED <<hostVars, daemonVars, running>>

-----------------------------------------------------------------------------
(* The second half of startHostEventStream, after the await.               *)

\* An attempt counts only if the map still holds the sentinel.
MutNoEntryWins(h) == slot[h] \notin Tries
MutLastWins(h) == TRUE

Expected(h) == slot[h] = Connecting

Opened(h, t) ==
  /\ phase[h][t] = "opening"
  /\ target[h][t] \in up
  /\ IF Expected(h)
       THEN /\ slot' = [slot EXCEPT ![h] = t]
            /\ phase' = [phase EXCEPT ![h][t] = "live"]
            /\ backoff' = [backoff EXCEPT ![h] = 0]
       ELSE /\ phase' = [phase EXCEPT ![h][t] = "destroyed"]   \* surplus
            /\ UNCHANGED <<slot, backoff>>
  /\ UNCHANGED <<hostVars, daemonVars, target, since, running>>

\* The next back-off: doubled, at least one period, at most the cap.
NextBackoff(n) == Capped(IF n = 0 THEN 1 ELSE 2 * n)

\* The daemon does not answer, or this one connection is cut.
Lost(h, t) ==
  /\ target[h][t] \in up => cuts > 0
  /\ cuts' = IF target[h][t] \in up THEN cuts - 1 ELSE cuts

MutFailKeepsSentinel(h, t) ==
  /\ phase[h][t] = "opening" /\ Lost(h, t)
  /\ phase' = [phase EXCEPT ![h][t] = "idle"]
  /\ backoff' = [backoff EXCEPT ![h] = NextBackoff(@)]
  /\ UNCHANGED <<hostVars, up, slot, target, since, running>>

OpenFails(h, t) ==
  /\ phase[h][t] = "opening" /\ Lost(h, t)
  /\ slot' = IF slot[h] = Connecting THEN [slot EXCEPT ![h] = None] ELSE slot
  /\ phase' = [phase EXCEPT ![h][t] = "idle"]
  /\ backoff' = [backoff EXCEPT ![h] = NextBackoff(@)]
  /\ UNCHANGED <<hostVars, up, target, since, running>>

\* 'error' and 'end' of a stream: both can fire for one stream, and can fire
\* after the manager destroyed it.  Only the stream in the map is torn down.
MutDropWhateverIsMapped(h, t) ==
  /\ \/ phase[h][t] = "live" /\ Lost(h, t)
     \/ phase[h][t] = "destroyed" /\ UNCHANGED cuts
  /\ slot' = [slot EXCEPT ![h] = None]
  /\ phase' = [phase EXCEPT ![h][t] = IF slot[h] = t THEN "destroyed" ELSE "idle"]
  /\ UNCHANGED <<hostVars, up, target, backoff, since, running>>

Dropped(h, t) ==
  /\ \/ phase[h][t] = "live" /\ Lost(h, t)
     \/ phase[h][t] = "destroyed" /\ UNCHANGED cuts
  /\ IF slot[h] = t
       THEN /\ slot' = [slot EXCEPT ![h] = None]
            /\ phase' = [phase EXCEPT ![h][t] = "destroyed"]
       ELSE /\ phase' = [phase EXCEPT ![h][t] = "idle"]
            /\ UNCHANGED slot
  /\ UNCHANGED <<hostVars, up, target, backoff, since, running>>

-----------------------------------------------------------------------------
(* Host edits: each is one synchronous handler.                            *)

Register(h, a, on) ==
  /\ running
  /\ h \notin registered
  /\ registered' = registered \cup {h}
  /\ enabled' = IF on THEN enabled \cup {h} ELSE enabled \ {h}
  /\ addr' = [addr EXCEPT ![h] = a]
  /\ UNCHANGED <<daemonVars, slot, phase, target, timerVars, running>>

MutPatchWithoutRestart(h, a, on) ==
  /\ running
  /\ h \in registered
  /\ enabled' = IF on THEN enabled \cup {h} ELSE enabled \ {h}
  /\ addr' = [addr EXCEPT ![h] = a]
  /\ UNCHANGED <<registered, daemonVars, slot, phase, target, timerVars, running>>

\* PATCH /api/hosts/:id, with restartHostEventStream.
Patch(h, a, on) ==
  /\ running
  /\ h \in registered
  /\ enabled' = IF on THEN enabled \cup {h} ELSE enabled \ {h}
  /\ addr' = [addr EXCEPT ![h] = a]
  /\ StopHostEventStream(h)
  /\ since' = [since EXCEPT ![h] = BackoffCap]
  /\ UNCHANGED <<registered, daemonVars, target, running>>

\* DELETE /api/hosts/:id (refused for the local host and, in the code, while
\* instances live on the host: here it may be refused or not at any time).
DeleteHost(h) ==
  /\ running
  /\ h \in registered \ {Local}
  /\ registered' = registered \ {h}
  /\ enabled' = enabled \ {h}
  /\ StopHostEventStream(h)
  /\ UNCHANGED <<addr, daemonVars, target, since, running>>

\* stopEventStream, from the onClose hook.
Shutdown ==
  /\ running
  /\ running' = FALSE
  /\ slot' = [h \in Hosts |-> None]
  /\ phase' = [h \in Hosts |-> Stopped(h)]
  /\ backoff' = [h \in Hosts |-> IF slot[h] = None THEN backoff[h] ELSE 0]
  /\ UNCHANGED <<hostVars, daemonVars, target, since>>

\* The environment: a daemon comes up or goes away.
Flap(a) ==
  /\ up' = IF a \in up THEN up \ {a} ELSE up \cup {a}
  /\ UNCHANGED <<hostVars, cuts, slot, phase, target, timerVars, running>>

-----------------------------------------------------------------------------
Settle(h, t) == Opened(h, t) \/ OpenFails(h, t)

StreamNext ==
  \/ Reconcile
  \/ \E h \in Hosts, t \in Tries : Opened(h, t) \/ OpenFails(h, t) \/ Dropped(h, t)
  \/ \E h \in Hosts, a \in Addrs, on \in BOOLEAN : Register(h, a, on) \/ Patch(h, a, on)
  \/ \E h \in Hosts : DeleteHost(h)
  \/ Shutdown
  \/ \E a \in Addrs : Flap(a)

StreamSpec == StreamInit /\ [][StreamNext]_streamVars

-----------------------------------------------------------------------------
Live(h) == {t \in Tries : phase[h][t] = "live"}

\* Every container event is broadcast once: a host never has two streams
\* whose data handler is attached, whatever attempts overlapped (the comment
\* in startHostEventStream about events "delivered N times").
NoDuplicateDelivery == \A h \in Hosts : \A s, t \in Live(h) : s = t

\* No orphan: a stream that broadcasts is the one in the map, so stopping the
\* host reaches it.
NoOrphanStream == \A h \in Hosts : \A t \in Live(h) : slot[h] = t

\* A disabled or deleted host, and any host after shutdown, is not listened
\* to, even when an attempt that was in flight completes afterwards.
ListensOnlyWhereAllowed ==
  \A h \in Hosts : Live(h) # {} => running /\ h \in Watchable

\* After a PATCH the stream is at the row's current endpoint, as the comments
\* on restartHostEventStream and in the PATCH handler say.
StreamAtCurrentEndpoint ==
  \A h \in Hosts : \A t \in Live(h) : target[h][t] = addr[h]

\* The sentinel never outlives the attempts: while it is in the map one of them
\* is still to end, whichever ended before it.  Else startHostEventStream would
\* return at its first line for good, and the host never be connected again.
SentinelHasAttempt ==
  \A h \in Hosts : slot[h] = Connecting => \E t \in Tries : phase[h][t] = "opening"

\* A host that stays registered, enabled and reachable at its endpoint, and is
\* no longer edited, ends up watched for good, whatever failed before and
\* however attempts overlapped.
Reachable(h) == running /\ h \in Watchable /\ addr[h] \in up
Patched(h) == \E a \in Addrs, on \in BOOLEAN : Patch(h, a, on)
EventuallyWatched ==
  \A h \in Hosts :
    /\ <>[]Reachable(h)
    /\ <>[][~Patched(h)]_streamVars
    => <>[](Live(h) # {})

\* The map and the streams agree, and it has entries only where allowed: the
\* inductive strengthening of the three invariants above.
MapSound ==
  \A h \in Hosts :
    /\ slot[h] \in Tries => phase[h][slot[h]] = "live"
    /\ slot[h] # None => running /\ h \in Watchable

StreamInv == StreamTypeOK /\ NoOrphanStream /\ MapSound

\* This module implements HostWatch: the subscriptions are the live streams.
Watch == INSTANCE HostWatch WITH
  Streams <- Tries, allowed <- Watchable, open <- running,
  subs <- [h \in Hosts |-> Live(h)]
WatchSpec == Watch!Spec
=============================================================================
