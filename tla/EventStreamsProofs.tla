------------------------ MODULE EventStreamsProofs ------------------------
(***************************************************************************)
(* Proofs about EventStreams, for every set of hosts, endpoints and        *)
(* attempts and every back-off cap.  The map eventStreams alone decides    *)
(* whether an attempt counts, so everything rests on StreamInv: a live stream   *)
(* is the one in the map, the map never names a stream that is not live,   *)
(* and it has entries only for watchable hosts of a running manager.       *)
(***************************************************************************)
EXTENDS EventStreams, TLAPS

\* Stopping a host: the slot is cleared and the destroyed stream is the mapped one.
LEMMA StoppedType ==
  ASSUME StreamTypeOK, NEW h \in Hosts
  PROVE  /\ Stopped(h) \in [Tries -> Phases]
         /\ \A t \in Tries : Stopped(h)[t] = "live" => phase[h][t] = "live" /\ t # slot[h]
BY DEF StreamTypeOK, Stopped, Phases

\* A capped count is a back-off.
LEMMA CappedType == \A n \in Nat : Capped(n) \in 0 .. BackoffCap
BY CapAssumption DEF Capped

\* Moving one attempt to another phase keeps the phases typed.
LEMMA PhaseType ==
  ASSUME NEW f \in [Hosts -> [Tries -> Phases]], NEW h \in Hosts, NEW t \in Tries, NEW p \in Phases
  PROVE  [f EXCEPT ![h][t] = p] \in [Hosts -> [Tries -> Phases]]
OBVIOUS

\* A connection that is lost uses up at most one cut.
LEMMA LostType ==
  ASSUME NEW h \in Hosts, NEW t \in Tries, Lost(h, t), cuts \in 0 .. MaxCuts
  PROVE  cuts' \in 0 .. MaxCuts
BY CutsAssumption DEF Lost

\* Nothing is mapped, and nothing live, at first.
LEMMA InitIInv == StreamInit => StreamInv
BY CapAssumption, CutsAssumption, SlotAssumption
   DEF StreamInit, StreamInv, StreamTypeOK, NoOrphanStream, MapSound, Live, Phases

\* The types of all variables are preserved by every step.
LEMMA TypePreserved == StreamTypeOK /\ [StreamNext]_streamVars => StreamTypeOK'
<1> SUFFICES ASSUME StreamTypeOK, [StreamNext]_streamVars PROVE StreamTypeOK'
  OBVIOUS
<1> USE CapAssumption, SlotAssumption
<1>1. CASE Reconcile
  <2> DEFINE due == {h \in Hosts : Due(h)}
  <2> DEFINE gone == {h \in Hosts : slot[h] # None /\ h \notin Watchable}
  <2>1. PICK pick \in [due -> Tries] :
          /\ phase' = [h \in Hosts |->
               IF h \in due THEN [phase[h] EXCEPT ![pick[h]] = "opening"]
               ELSE IF h \in gone THEN Stopped(h) ELSE phase[h]]
          /\ target' = [h \in Hosts |->
               IF h \in due THEN [target[h] EXCEPT ![pick[h]] = addr[h]] ELSE target[h]]
    BY <1>1 DEF Reconcile
  <2>2. phase' \in [Hosts -> [Tries -> Phases]]
    BY <2>1, StoppedType DEF StreamTypeOK, Phases
  <2>3. target' \in [Hosts -> [Tries -> Addrs]]
    BY <2>1 DEF StreamTypeOK
  <2>4. slot' \in [Hosts -> Tries \cup {None, Connecting}]
    BY <1>1 DEF StreamTypeOK, Reconcile
  <2>5. since' \in [Hosts -> 0 .. BackoffCap]
    BY <1>1, CappedType DEF StreamTypeOK, Reconcile, Elapsed
  <2>6. backoff' \in [Hosts -> 0 .. BackoffCap]
    BY <1>1 DEF StreamTypeOK, Reconcile
  <2>7. QED
    BY <1>1, <2>2, <2>3, <2>4, <2>5, <2>6 DEF StreamTypeOK, Reconcile, hostVars, daemonVars
<1>2. ASSUME NEW h \in Hosts, NEW t \in Tries, Opened(h, t) PROVE StreamTypeOK'
  <2>1. slot' \in [Hosts -> Tries \cup {None, Connecting}]
    BY <1>2 DEF StreamTypeOK, Opened
  <2>2. phase' \in [Hosts -> [Tries -> Phases]]
    <3>1. PICK p \in Phases : phase' = [phase EXCEPT ![h][t] = p]
      BY <1>2 DEF Opened, Phases
    <3>2. phase \in [Hosts -> [Tries -> Phases]]
      BY DEF StreamTypeOK
    <3>3. QED
      BY <3>1, <3>2, PhaseType
  <2>3. backoff' \in [Hosts -> 0 .. BackoffCap]
    <3>1. backoff' = backoff \/ backoff' = [backoff EXCEPT ![h] = 0]
      BY <1>2 DEF Opened
    <3>2. backoff \in [Hosts -> 0 .. BackoffCap]
      BY DEF StreamTypeOK
    <3>3. QED
      BY <3>1, <3>2
  <2>4. QED
    BY <1>2, <2>1, <2>2, <2>3 DEF StreamTypeOK, Opened, hostVars, daemonVars
<1>3. ASSUME NEW h \in Hosts, NEW t \in Tries, OpenFails(h, t) PROVE StreamTypeOK'
  <2>1. NextBackoff(backoff[h]) \in 0 .. BackoffCap
    BY CappedType DEF StreamTypeOK, NextBackoff
  <2>2. QED
    BY <1>3, <2>1, LostType DEF StreamTypeOK, OpenFails, hostVars, Phases
<1>4. ASSUME NEW h \in Hosts, NEW t \in Tries, Dropped(h, t) PROVE StreamTypeOK'
  <2>1. slot' \in [Hosts -> Tries \cup {None, Connecting}]
    BY <1>4 DEF StreamTypeOK, Dropped
  <2>2. phase' \in [Hosts -> [Tries -> Phases]]
    <3>1. PICK p \in Phases : phase' = [phase EXCEPT ![h][t] = p]
      BY <1>4 DEF Dropped, Phases
    <3>2. phase \in [Hosts -> [Tries -> Phases]]
      BY DEF StreamTypeOK
    <3>3. QED
      BY <3>1, <3>2, PhaseType
  <2>3. cuts' \in 0 .. MaxCuts
    BY <1>4, LostType DEF StreamTypeOK, Dropped
  <2>4. QED
    BY <1>4, <2>1, <2>2, <2>3 DEF StreamTypeOK, Dropped, hostVars
<1>5. ASSUME NEW h \in Hosts, NEW a \in Addrs, NEW on \in BOOLEAN, Register(h, a, on)
      PROVE StreamTypeOK'
  BY <1>5 DEF StreamTypeOK, Register, timerVars, daemonVars
<1>6. ASSUME NEW h \in Hosts, NEW a \in Addrs, NEW on \in BOOLEAN, Patch(h, a, on)
      PROVE StreamTypeOK'
  BY <1>6, StoppedType DEF StreamTypeOK, Patch, daemonVars, StopHostEventStream
<1>7. ASSUME NEW h \in Hosts, DeleteHost(h) PROVE StreamTypeOK'
  BY <1>7, StoppedType DEF StreamTypeOK, DeleteHost, daemonVars, StopHostEventStream
<1>8. CASE Shutdown
  <2>1. slot' \in [Hosts -> Tries \cup {None, Connecting}]
    BY <1>8 DEF Shutdown
  <2>2. phase' \in [Hosts -> [Tries -> Phases]]
    BY <1>8, StoppedType DEF Shutdown
  <2>3. backoff' \in [Hosts -> 0 .. BackoffCap]
    BY <1>8 DEF StreamTypeOK, Shutdown
  <2>4. QED
    BY <1>8, <2>1, <2>2, <2>3 DEF StreamTypeOK, Shutdown, hostVars, daemonVars
<1>9. ASSUME NEW a \in Addrs, Flap(a) PROVE StreamTypeOK'
  BY <1>9 DEF StreamTypeOK, Flap, hostVars, daemonVars, timerVars
<1>10. CASE UNCHANGED streamVars
  BY <1>10 DEF StreamTypeOK, streamVars
<1> QED
  BY <1>1, <1>2, <1>3, <1>4, <1>5, <1>6, <1>7, <1>8, <1>9, <1>10 DEF StreamNext

\* Every reachable state is well typed: a back-off never exceeds the cap.
THEOREM TypeCorrect == StreamSpec => []StreamTypeOK
<1>1. StreamInit => StreamTypeOK
  BY InitIInv DEF StreamInv
<1> QED
  BY <1>1, TypePreserved, PTL DEF StreamSpec

\* No step leaves a live stream outside the map, or a map entry without its
\* stream or without its host.
LEMMA MapPreserved == StreamInv /\ [StreamNext]_streamVars => (NoOrphanStream /\ MapSound)'
<1> SUFFICES ASSUME StreamTypeOK, NoOrphanStream, MapSound, [StreamNext]_streamVars
             PROVE  NoOrphanStream' /\ MapSound'
  BY DEF StreamInv
<1> USE SlotAssumption DEF NoOrphanStream, MapSound, Live, Watchable
<1>1. CASE Reconcile
  <2> DEFINE due == {h \in Hosts : Due(h)}
  <2> DEFINE gone == {h \in Hosts : slot[h] # None /\ h \notin Watchable}
  <2>1. PICK pick \in [due -> Tries] :
          phase' = [h \in Hosts |->
               IF h \in due THEN [phase[h] EXCEPT ![pick[h]] = "opening"]
               ELSE IF h \in gone THEN Stopped(h) ELSE phase[h]]
    BY <1>1 DEF Reconcile
  <2>2. /\ slot' = [h \in Hosts |-> IF h \in due THEN Connecting
                                   ELSE IF h \in gone THEN None ELSE slot[h]]
        /\ UNCHANGED <<registered, enabled, running>>
        /\ running
    BY <1>1 DEF Reconcile, hostVars, daemonVars
  <2>3. gone = {}
    BY DEF StreamTypeOK
  <2>4. ASSUME NEW h \in Hosts, h \in due
        PROVE  /\ \A t \in Tries : phase'[h][t] # "live"
               /\ slot'[h] = Connecting
               /\ h \in Watchable
    <3>1. \A t \in Tries : phase[h][t] # "live"
      BY <2>4 DEF Due, StreamTypeOK
    <3>2. phase'[h] = [phase[h] EXCEPT ![pick[h]] = "opening"]
      BY <2>1, <2>4
    <3>3. QED
      BY <2>2, <2>4, <3>1, <3>2 DEF Due, StreamTypeOK
  <2>5. ASSUME NEW h \in Hosts, h \notin due
        PROVE  phase'[h] = phase[h] /\ slot'[h] = slot[h]
    BY <2>1, <2>2, <2>3, <2>5
  <2>6. QED
    BY <2>2, <2>4, <2>5
<1>2. ASSUME NEW h \in Hosts, NEW t \in Tries, Opened(h, t)
      PROVE  NoOrphanStream' /\ MapSound'
  <2>1. UNCHANGED <<registered, enabled, running>>
    BY <1>2 DEF Opened, hostVars, daemonVars
  <2>2. CASE Expected(h)
    <3>1. slot' = [slot EXCEPT ![h] = t] /\ phase' = [phase EXCEPT ![h][t] = "live"]
      BY <1>2, <2>2 DEF Opened
    <3>2. slot[h] = Connecting
      BY <2>2 DEF Expected
    <3>3. QED
      BY <2>1, <3>1, <3>2 DEF StreamTypeOK
  <2>3. CASE ~Expected(h)
    <3>1. slot' = slot /\ phase' = [phase EXCEPT ![h][t] = "destroyed"]
      BY <1>2, <2>3 DEF Opened
    <3>2. slot[h] # t
      BY <1>2 DEF Opened
    <3>3. QED
      BY <2>1, <3>1, <3>2 DEF StreamTypeOK
  <2>4. QED
    BY <2>2, <2>3
<1>3. ASSUME NEW h \in Hosts, NEW t \in Tries, OpenFails(h, t)
      PROVE  NoOrphanStream' /\ MapSound'
  BY <1>3 DEF OpenFails, StreamTypeOK, hostVars, daemonVars
<1>4. ASSUME NEW h \in Hosts, NEW t \in Tries, Dropped(h, t)
      PROVE  NoOrphanStream' /\ MapSound'
  <2>1. UNCHANGED <<registered, enabled, running>>
    BY <1>4 DEF Dropped, hostVars, daemonVars
  <2>2. CASE slot[h] = t
    <3>1. slot' = [slot EXCEPT ![h] = None] /\ phase' = [phase EXCEPT ![h][t] = "destroyed"]
      BY <1>4, <2>2 DEF Dropped
    <3>2. QED
      BY <2>1, <2>2, <3>1 DEF StreamTypeOK
  <2>3. CASE slot[h] # t
    <3>1. slot' = slot /\ phase' = [phase EXCEPT ![h][t] = "idle"]
      BY <1>4, <2>3 DEF Dropped
    <3>2. QED
      BY <2>1, <2>3, <3>1 DEF StreamTypeOK
  <2>4. QED
    BY <2>2, <2>3
<1>5. ASSUME NEW h \in Hosts, NEW a \in Addrs, NEW on \in BOOLEAN, Register(h, a, on)
      PROVE  NoOrphanStream' /\ MapSound'
  BY <1>5 DEF Register, StreamTypeOK
<1>6. ASSUME NEW h \in Hosts, NEW a \in Addrs, NEW on \in BOOLEAN, Patch(h, a, on)
      PROVE  NoOrphanStream' /\ MapSound'
  BY <1>6, StoppedType DEF Patch, StopHostEventStream, StreamTypeOK
<1>7. ASSUME NEW h \in Hosts, DeleteHost(h) PROVE NoOrphanStream' /\ MapSound'
  BY <1>7, StoppedType DEF DeleteHost, StopHostEventStream, StreamTypeOK
<1>8. CASE Shutdown
  BY <1>8, StoppedType DEF Shutdown, StreamTypeOK
<1>9. ASSUME NEW a \in Addrs, Flap(a) PROVE NoOrphanStream' /\ MapSound'
  BY <1>9 DEF Flap, hostVars, daemonVars
<1>10. CASE UNCHANGED streamVars
  BY <1>10 DEF streamVars
<1> QED
  BY <1>1, <1>2, <1>3, <1>4, <1>5, <1>6, <1>7, <1>8, <1>9, <1>10 DEF StreamNext

\* The inductive invariant.
THEOREM Inductive == StreamSpec => []StreamInv
<1>1. StreamInv /\ [StreamNext]_streamVars => StreamInv'
  BY TypePreserved, MapPreserved DEF StreamInv
<1> QED
  BY InitIInv, <1>1, PTL DEF StreamSpec

\* No container event is broadcast twice, however many attempts overlap.
THEOREM DeliveredOnce == StreamSpec => []NoDuplicateDelivery
<1>1. StreamInv => NoDuplicateDelivery
  BY DEF StreamInv, NoOrphanStream, NoDuplicateDelivery
<1> QED
  BY <1>1, Inductive, PTL

\* Stopping a host reaches every stream that broadcasts for it.
THEOREM NoOrphan == StreamSpec => []NoOrphanStream
<1>1. StreamInv => NoOrphanStream
  BY DEF StreamInv
<1> QED
  BY <1>1, Inductive, PTL

\* Nothing is listened to on a disabled or deleted host, or after shutdown.
THEOREM ListensWhereAllowed == StreamSpec => []ListensOnlyWhereAllowed
<1>1. StreamInv => ListensOnlyWhereAllowed
  BY SlotAssumption DEF StreamInv, NoOrphanStream, MapSound, ListensOnlyWhereAllowed, Live
<1> QED
  BY <1>1, Inductive, PTL

\* No step leaves the sentinel without an attempt: the first attempt that fails
\* takes it away, the first that succeeds replaces it.
LEMMA SentinelPreserved == StreamTypeOK /\ SentinelHasAttempt /\ [StreamNext]_streamVars => SentinelHasAttempt'
<1> SUFFICES ASSUME StreamTypeOK, SentinelHasAttempt, [StreamNext]_streamVars, NEW h \in Hosts
             PROVE  slot'[h] = Connecting => \E t \in Tries : phase'[h][t] = "opening"
  BY DEF SentinelHasAttempt
<1> USE SlotAssumption
<1>s. ASSUME phase'[h] = phase[h], slot'[h] = slot[h]
      PROVE  slot'[h] = Connecting => \E t \in Tries : phase'[h][t] = "opening"
  BY <1>s DEF SentinelHasAttempt
<1>1. CASE Reconcile
  <2> DEFINE due == {g \in Hosts : Due(g)}
  <2> DEFINE gone == {g \in Hosts : slot[g] # None /\ g \notin Watchable}
  <2>1. PICK pick \in [due -> Tries] :
          phase' = [g \in Hosts |->
               IF g \in due THEN [phase[g] EXCEPT ![pick[g]] = "opening"]
               ELSE IF g \in gone THEN Stopped(g) ELSE phase[g]]
    BY <1>1 DEF Reconcile
  <2>2. slot'[h] = IF h \in due THEN Connecting ELSE IF h \in gone THEN None ELSE slot[h]
    BY <1>1 DEF Reconcile
  <2>3. CASE h \in due
    BY <2>1, <2>3 DEF StreamTypeOK
  <2>4. CASE h \notin due /\ h \notin gone
    BY <1>s, <2>1, <2>2, <2>4
  <2>5. QED
    BY <2>2, <2>3, <2>4
<1>2. ASSUME NEW g \in Hosts, NEW t \in Tries, Opened(g, t) \/ OpenFails(g, t) \/ Dropped(g, t)
      PROVE  slot'[h] = Connecting => \E u \in Tries : phase'[h][u] = "opening"
  <2>1. CASE g = h
    <3>1. CASE slot'[h] # Connecting
      BY <3>1
    <3>2. CASE slot'[h] = Connecting
      <4>1. Dropped(h, t) /\ phase' = [phase EXCEPT ![h][t] = "idle"] /\ slot' = slot
        BY <1>2, <2>1, <3>2 DEF Opened, Expected, OpenFails, Dropped, StreamTypeOK
      <4>2. phase[h][t] # "opening"
        BY <4>1 DEF Dropped
      <4>3. QED
        BY <3>2, <4>1, <4>2 DEF StreamTypeOK, SentinelHasAttempt
    <3>3. QED
      BY <3>1, <3>2
  <2>2. CASE g # h
    <3>1. phase'[h] = phase[h] /\ slot'[h] = slot[h]
      BY <1>2, <2>2 DEF Opened, OpenFails, Dropped, StreamTypeOK
    <3>2. QED
      BY <1>s, <3>1
  <2>3. QED
    BY <2>1, <2>2
<1>3. ASSUME NEW g \in Hosts, StopHostEventStream(g)
      PROVE  slot'[h] = Connecting => \E t \in Tries : phase'[h][t] = "opening"
  BY <1>s, <1>3 DEF StopHostEventStream, StreamTypeOK
<1>4. CASE Shutdown
  BY <1>4 DEF Shutdown
<1>5. CASE UNCHANGED <<slot, phase>>
  BY <1>s, <1>5
<1> QED
  BY <1>1, <1>2, <1>3, <1>4, <1>5 DEF StreamNext, Register, Patch, DeleteHost, Flap, streamVars

\* The sentinel that makes the reconcile skip a host is always one of an attempt
\* still in flight, so a host is tried again whatever became of the others.
THEOREM SentinelOwed == StreamSpec => []SentinelHasAttempt
<1>1. StreamInit => StreamTypeOK /\ SentinelHasAttempt
  BY InitIInv, SlotAssumption DEF StreamInv, StreamInit, SentinelHasAttempt
<1>2. StreamTypeOK /\ SentinelHasAttempt /\ [StreamNext]_streamVars => (StreamTypeOK /\ SentinelHasAttempt)'
  BY TypePreserved, SentinelPreserved
<1> QED
  BY <1>1, <1>2, PTL DEF StreamSpec

-----------------------------------------------------------------------------
(* EventStreams implements HostWatch.                                      *)

\* When every host's live streams are unchanged, so is the abstract state's subs.
LEMMA SubsUnchanged ==
  ASSUME \A g \in Hosts : Live(g)' = Live(g)
  PROVE  [g \in Hosts |-> Live(g)]' = [g \in Hosts |-> Live(g)]
OBVIOUS

\* When only h loses its live streams, subs changes at h alone.
LEMMA SubsCleared ==
  ASSUME NEW h \in Hosts, Live(h)' = {}, \A g \in Hosts \ {h} : Live(g)' = Live(g)
  PROVE  [g \in Hosts |-> Live(g)]' = [[g \in Hosts |-> Live(g)] EXCEPT ![h] = {}]
OBVIOUS

\* No stream of h is live after stopHostEventStream(h); the others are as before.
LEMMA StopClears ==
  ASSUME StreamTypeOK, NoOrphanStream, NEW h \in Hosts, StopHostEventStream(h)
  PROVE  Live(h)' = {} /\ \A g \in Hosts \ {h} : Live(g)' = Live(g)
<1>1. phase' = [phase EXCEPT ![h] = Stopped(h)]
  BY DEF StopHostEventStream
<1>2. \A t \in Tries : phase'[h][t] # "live"
  BY <1>1, StoppedType DEF StreamTypeOK, NoOrphanStream, Live
<1>3. \A g \in Hosts \ {h} : phase'[g] = phase[g]
  BY <1>1 DEF StreamTypeOK
<1> QED
  BY <1>2, <1>3 DEF Live

\* Every step of EventStreams is a step of HostWatch or changes nothing it sees.
LEMMA WatchStep == StreamInv /\ [StreamNext]_streamVars => [Watch!Next]_(Watch!vars)
<1> SUFFICES ASSUME StreamTypeOK, NoOrphanStream, MapSound, [StreamNext]_streamVars
             PROVE  [Watch!Next]_(Watch!vars)
  BY DEF StreamInv
<1> USE SlotAssumption
<1>s. ASSUME UNCHANGED <<registered, enabled, running>>,
             \A g \in Hosts : Live(g)' = Live(g)
      PROVE  UNCHANGED Watch!vars
  BY <1>s, SubsUnchanged DEF Watch!vars, Watchable
<1>1. CASE Reconcile
  <2> DEFINE due == {h \in Hosts : Due(h)}
  <2> DEFINE gone == {h \in Hosts : slot[h] # None /\ h \notin Watchable}
  <2>1. PICK pick \in [due -> Tries] :
          /\ \A h \in due : phase[h][pick[h]] = "idle"
          /\ phase' = [h \in Hosts |->
               IF h \in due THEN [phase[h] EXCEPT ![pick[h]] = "opening"]
               ELSE IF h \in gone THEN Stopped(h) ELSE phase[h]]
    BY <1>1 DEF Reconcile
  <2>2. gone = {}
    BY DEF MapSound, StreamTypeOK
  <2>3. ASSUME NEW h \in Hosts PROVE Live(h)' = Live(h)
    <3>1. CASE h \in due
      <4>1. phase'[h] = [phase[h] EXCEPT ![pick[h]] = "opening"]
        BY <2>1, <3>1
      <4>2. phase[h][pick[h]] = "idle" /\ pick[h] \in Tries
        BY <2>1, <3>1
      <4>3. QED
        BY <4>1, <4>2 DEF Live, StreamTypeOK
    <3>2. CASE h \notin due
      BY <2>1, <2>2, <3>2 DEF Live
    <3>3. QED
      BY <3>1, <3>2
  <2>4. UNCHANGED <<registered, enabled, running>>
    BY <1>1 DEF Reconcile, hostVars, daemonVars
  <2>5. QED
    BY <1>s, <2>3, <2>4
<1>2. ASSUME NEW h \in Hosts, NEW t \in Tries, Opened(h, t)
      PROVE  [Watch!Next]_(Watch!vars)
  <2>1. UNCHANGED <<registered, enabled, running>> /\ phase[h][t] = "opening"
    BY <1>2 DEF Opened, hostVars, daemonVars
  <2>2. CASE Expected(h)
    <3>1. phase' = [phase EXCEPT ![h][t] = "live"]
      BY <1>2, <2>2 DEF Opened
    <3>2. slot[h] = Connecting
      BY <2>2 DEF Expected
    <3>3. Live(h) = {} /\ running /\ h \in Watchable
      BY <3>2 DEF NoOrphanStream, MapSound, Live
    <3>4. \A g \in Hosts \ {h} : Live(g)' = Live(g)
      BY <3>1 DEF Live, StreamTypeOK
    <3>5. Live(h)' = {t}
      <4>1. phase'[h] = [phase[h] EXCEPT ![t] = "live"]
        BY <3>1 DEF StreamTypeOK
      <4>2. \A s \in Tries : phase'[h][s] = "live" <=> s = t
        BY <3>3, <4>1 DEF Live, StreamTypeOK
      <4>3. QED
        BY <4>2 DEF Live
    <3>6. [g \in Hosts |-> Live(g)]' = [[g \in Hosts |-> Live(g)] EXCEPT ![h] = {t}]
      BY <3>4, <3>5
    <3>7. Watch!Subscribe(h, t)
      BY <2>1, <3>3, <3>6 DEF Watch!Subscribe, Watchable
    <3>8. QED
      BY <3>7 DEF Watch!Next
  <2>3. CASE ~Expected(h)
    <3>1. phase' = [phase EXCEPT ![h][t] = "destroyed"]
      BY <1>2, <2>3 DEF Opened
    <3>2. \A g \in Hosts : Live(g)' = Live(g)
      BY <2>1, <3>1 DEF Live, StreamTypeOK
    <3>3. QED
      BY <1>s, <2>1, <3>2
  <2>4. QED
    BY <2>2, <2>3
<1>3. ASSUME NEW h \in Hosts, NEW t \in Tries, OpenFails(h, t)
      PROVE  [Watch!Next]_(Watch!vars)
  <2>1. \A g \in Hosts : Live(g)' = Live(g)
    BY <1>3 DEF OpenFails, Live, StreamTypeOK
  <2>2. QED
    BY <1>3, <1>s, <2>1 DEF OpenFails, hostVars, daemonVars
<1>4. ASSUME NEW h \in Hosts, NEW t \in Tries, Dropped(h, t)
      PROVE  [Watch!Next]_(Watch!vars)
  <2>1. UNCHANGED <<registered, enabled, running>>
    BY <1>4 DEF Dropped, hostVars, daemonVars
  <2>2. CASE slot[h] = t
    <3>1. phase' = [phase EXCEPT ![h][t] = "destroyed"]
      BY <1>4, <2>2 DEF Dropped
    <3>2. Live(h)' = {}
      BY <2>2, <3>1 DEF NoOrphanStream, Live, StreamTypeOK
    <3>3. \A g \in Hosts \ {h} : Live(g)' = Live(g)
      BY <3>1 DEF Live, StreamTypeOK
    <3>4. Watch!Unsubscribe(h)
      BY <2>1, <3>2, <3>3, SubsCleared DEF Watch!Unsubscribe, Watchable
    <3>5. QED
      BY <3>4 DEF Watch!Next
  <2>3. CASE slot[h] # t
    <3>1. phase' = [phase EXCEPT ![h][t] = "idle"]
      BY <1>4, <2>3 DEF Dropped
    <3>2. \A g \in Hosts : Live(g)' = Live(g)
      BY <2>3, <3>1 DEF NoOrphanStream, Live, StreamTypeOK
    <3>3. QED
      BY <1>s, <2>1, <3>2
  <2>4. QED
    BY <2>2, <2>3
<1>5. ASSUME NEW h \in Hosts, NEW a \in Addrs, NEW on \in BOOLEAN, Register(h, a, on)
      PROVE  [Watch!Next]_(Watch!vars)
  <2>1. Live(h) = {}
    BY <1>5 DEF Register, NoOrphanStream, MapSound, Live, Watchable
  <2>2. \A g \in Hosts : Live(g)' = Live(g)
    BY <1>5 DEF Register, Live
  <2>3. Watchable' \in {Watchable \cup {h}, Watchable \ {h}}
    BY <1>5 DEF Register, Watchable
  <2>4. Watch!Edit(h)
    BY <1>5, <2>1, <2>2, <2>3, SubsCleared DEF Register, Watch!Edit
  <2>5. QED
    BY <2>4 DEF Watch!Next
<1>6. ASSUME NEW h \in Hosts, NEW a \in Addrs, NEW on \in BOOLEAN, Patch(h, a, on)
      PROVE  [Watch!Next]_(Watch!vars)
  <2>1. Watchable' \in {Watchable \cup {h}, Watchable \ {h}}
    BY <1>6 DEF Patch, Watchable
  <2>2. [g \in Hosts |-> Live(g)]' = [[g \in Hosts |-> Live(g)] EXCEPT ![h] = {}]
    BY <1>6, StopClears, SubsCleared DEF Patch
  <2>3. Watch!Edit(h)
    BY <1>6, <2>1, <2>2 DEF Patch, Watch!Edit
  <2>4. QED
    BY <2>3 DEF Watch!Next
<1>7. ASSUME NEW h \in Hosts, DeleteHost(h) PROVE [Watch!Next]_(Watch!vars)
  <2>1. Watchable' = Watchable \ {h}
    BY <1>7 DEF DeleteHost, Watchable
  <2>2. [g \in Hosts |-> Live(g)]' = [[g \in Hosts |-> Live(g)] EXCEPT ![h] = {}]
    BY <1>7, StopClears, SubsCleared DEF DeleteHost
  <2>3. Watch!Edit(h)
    BY <1>7, <2>1, <2>2 DEF DeleteHost, Watch!Edit
  <2>4. QED
    BY <2>3 DEF Watch!Next
<1>8. CASE Shutdown
  <2>1. \A h \in Hosts : Live(h)' = {}
    BY <1>8, StoppedType DEF Shutdown, NoOrphanStream, Live
  <2>2. Watch!Close
    BY <1>8, <2>1 DEF Shutdown, Watch!Close, Watchable, hostVars, daemonVars
  <2>3. QED
    BY <2>2 DEF Watch!Next
<1>9. ASSUME NEW a \in Addrs, Flap(a) PROVE [Watch!Next]_(Watch!vars)
  <2>1. \A g \in Hosts : Live(g)' = Live(g)
    BY <1>9 DEF Flap, Live
  <2>2. QED
    BY <1>9, <1>s, <2>1 DEF Flap, hostVars, daemonVars
<1>10. CASE UNCHANGED streamVars
  <2>1. \A g \in Hosts : Live(g)' = Live(g)
    BY <1>10 DEF streamVars, Live
  <2>2. QED
    BY <1>10, <1>s, <2>1 DEF streamVars
<1> QED
  BY <1>1, <1>2, <1>3, <1>4, <1>5, <1>6, <1>7, <1>8, <1>9, <1>10 DEF StreamNext

\* The event streams keep what HostWatch promises.
THEOREM Refinement == StreamSpec => WatchSpec
<1>1. StreamInit => Watch!Init
  BY DEF StreamInit, Watch!Init, Watchable, Live
<1> QED
  BY <1>1, WatchStep, Inductive, PTL DEF StreamSpec, WatchSpec, Watch!Spec
=============================================================================
