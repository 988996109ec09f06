--------------------------- MODULE DashboardProofs ---------------------------
(***************************************************************************)
(* Proofs about what administrators see and touch: the devices, the        *)
(* browser terminals, the dashboard's data and the views of the fleet, each*)
(* on its own, and then all of them with the maps (MapProofs), the         *)
(* directory, the specifications and the mounts (InstanceProofs) in one    *)
(* system, MCDashboard.  They hold for any number of browsers, tabs,       *)
(* links, fetches, hosts and instances.                                    *)
(***************************************************************************)
EXTENDS MCDashboard, InstanceProofs, MapProofs

-----------------------------------------------------------------------------
(* Devices.                                                                *)

LEMMA DeviceTypeInit == DeviceInit => DeviceTypeOK
  BY DEF DeviceInit, DeviceTypeOK, Rights, Answers

LEMMA DeviceTypeStep == DeviceTypeOK /\ [DeviceNext]_deviceVars => DeviceTypeOK'
<1> SUFFICES ASSUME DeviceTypeOK, [DeviceNext]_deviceVars PROVE DeviceTypeOK'
    OBVIOUS
<1> USE DEF DeviceTypeOK, Rights, Answers
<1>1. ASSUME NEW b \in Browsers, Status(b) PROVE DeviceTypeOK'
      BY <1>1 DEF Status, Shown
<1>2. ASSUME NEW b \in Browsers, TurnedAway(b) \/ Open(b) \/ Close(b) \/ Receive(b)
      PROVE  DeviceTypeOK'
      BY <1>2 DEF TurnedAway, Open, Close, Receive
<1>3. ASSUME NEW b \in Browsers, NEW reset \in BOOLEAN, Register(b, reset) PROVE DeviceTypeOK'
      BY <1>3 DEF Register, Right, Shown
<1>4. ASSUME NEW a \in Browsers, NEW b \in Browsers, Approve(a, b) \/ Revoke(a, b)
      PROVE  DeviceTypeOK'
      BY <1>4 DEF Approve, Revoke
<1>5. CASE UNCHANGED deviceVars
      BY <1>5 DEF deviceVars
<1> QED BY <1>1, <1>2, <1>3, <1>4, <1>5 DEF DeviceNext

\* Every variable of the devices keeps to its type.
THEOREM DeviceTypeCorrect == DeviceSpec => []DeviceTypeOK
  BY DeviceTypeInit, DeviceTypeStep, PTL DEF DeviceSpec

\* The first device is an administrator, and an administrator is revoked only by
\* another, who stays: one remains however they revoke each other.
THEOREM AdminRemainsCorrect == DeviceSpec => []AdminRemains
<1>1. DeviceInit => AdminRemains
      BY DEF DeviceInit, AdminRemains
<1>2. DeviceTypeOK /\ AdminRemains /\ [DeviceNext]_deviceVars => AdminRemains'
  <2> SUFFICES ASSUME DeviceTypeOK, AdminRemains, [DeviceNext]_deviceVars PROVE AdminRemains'
      OBVIOUS
  <2> USE DEF DeviceTypeOK
  <2>1. CASE UNCHANGED device
        BY <2>1 DEF AdminRemains
  <2>2. ASSUME NEW b \in Browsers, NEW reset \in BOOLEAN, Register(b, reset) PROVE AdminRemains'
    <3>1. CASE \A c \in Browsers : device[c] = "none"
          BY <2>2, <3>1 DEF Register, Right, AdminRemains
    <3>2. CASE \E c \in Browsers : device[c] # "none"
      <4>1. PICK a \in Browsers : device[a] = "admin"
            BY <3>2 DEF AdminRemains
      <4>2. device'[a] = "admin"
            BY <2>2, <4>1 DEF Register
      <4> QED BY <4>2 DEF AdminRemains
    <3> QED BY <3>1, <3>2
  <2>3. ASSUME NEW a \in Browsers, NEW b \in Browsers, Approve(a, b) \/ Revoke(a, b)
        PROVE  AdminRemains'
    <3>1. device'[a] = "admin"
          BY <2>3 DEF Approve, Revoke, Admin
    <3> QED BY <3>1 DEF AdminRemains
  <2> QED
      BY <2>1, <2>2, <2>3 DEF DeviceNext, deviceVars, Status, TurnedAway, Open, Close, Receive
<1> QED BY <1>1, <1>2, DeviceTypeCorrect, PTL DEF DeviceSpec

-----------------------------------------------------------------------------
(* Terminals: the type invariant, the tab apart from the links.            *)

TabRecords == [stage : {"new", "mounted", "gone"}, ws : Links \cup {NoLink},
               retry : BOOLEAN, delay : 0 .. MaxDelay]
TabOK == tab \in [Mounts -> TabRecords]
LinkOK ==
  /\ client \in [Links -> {"connecting", "open", "closing", "closed"}]
  /\ told \in [Links -> Codes \cup {"nothing"}]
  /\ server \in [Links -> {"lookup", "pty", "prime", "serving", "over"}]
  /\ heard \in [Links -> BOOLEAN]
  /\ bus \in Links \cup {NoLink}
RestOK == inst \in {"running", "stopped", "gone"} /\ faultsLeft \in Nat

LEMMA TermTypeParts == TermTypeOK <=> TabOK /\ LinkOK /\ RestOK
  BY DEF TermTypeOK, TabOK, TabRecords, LinkOK, RestOK

LEMMA TermTypeInit == TermInit => TabOK /\ LinkOK /\ RestOK
<1> SUFFICES ASSUME TermInit PROVE TabOK /\ LinkOK /\ RestOK
    OBVIOUS
<1>1. TabOK
      BY MaxDelayAssumption DEF TermInit, TabOK, TabRecords
<1>2. LinkOK
      BY DEF TermInit, LinkOK, Codes
<1>3. RestOK
      BY MaxFaultsAssumption DEF TermInit, RestOK
<1> QED BY <1>1, <1>2, <1>3

LEMMA DelayType == ASSUME NEW d \in 0 .. MaxDelay PROVE NextDelay(d) \in 0 .. MaxDelay
  BY MaxDelayAssumption DEF NextDelay

\* What onclose makes of the tabs.
LEMMA Closes ==
  ASSUME TabOK, NEW l \in Links, NEW code \in Codes, OnClose(l, code)
  PROVE  /\ TabOK'
         /\ \A m \in Mounts :
              /\ tab'[m].stage = tab[m].stage /\ tab'[m].ws = tab[m].ws
              /\ tab[m].ws # l \/ tab[m].stage # "mounted" => tab'[m].retry = tab[m].retry
  BY DEF TabOK, TabRecords, OnClose, AfterClose, Owner

LEMMA TabStep == TabOK /\ LinkOK /\ [TermNext]_termVars => TabOK'
<1> SUFFICES ASSUME TabOK, LinkOK, [TermNext]_termVars PROVE TabOK'
    OBVIOUS
<1>1. ASSUME UNCHANGED tab PROVE TabOK'
      BY <1>1 DEF TabOK
<1>2. ASSUME NEW m \in Mounts, Mount(m) PROVE TabOK'
      BY <1>2 DEF Mount, Free, TabOK, TabRecords
<1>3. ASSUME NEW m \in Mounts, Unmount(m) PROVE TabOK'
      BY <1>3 DEF Unmount, TabOK, TabRecords
<1>4. ASSUME NEW m \in Mounts, RetryFires(m) PROVE TabOK'
  <2>0. tab[m] \in TabRecords
        BY DEF TabOK
  <2>1. NextDelay(tab[m].delay) \in 0 .. MaxDelay
        BY DelayType DEF TabOK, TabRecords
  <2>2. CASE tab[m].stage = "mounted"
    <3>1. PICK l \in Links :
            tab' = [tab EXCEPT ![m] = [@ EXCEPT !.retry = FALSE, !.ws = l,
                                                !.delay = NextDelay(tab[m].delay)]]
          BY <1>4, <2>2 DEF RetryFires, Free
    <3>2. [tab[m] EXCEPT !.retry = FALSE, !.ws = l, !.delay = NextDelay(tab[m].delay)] \in TabRecords
          BY <2>0, <2>1 DEF TabRecords
    <3> QED BY <3>1, <3>2 DEF TabOK
  <2>3. CASE tab[m].stage # "mounted"
    <3>1. tab' = [tab EXCEPT ![m] = [@ EXCEPT !.retry = FALSE, !.delay = NextDelay(tab[m].delay)]]
          BY <1>4, <2>3 DEF RetryFires
    <3>2. [tab[m] EXCEPT !.retry = FALSE, !.delay = NextDelay(tab[m].delay)] \in TabRecords
          BY <2>0, <2>1 DEF TabRecords
    <3> QED BY <3>1, <3>2 DEF TabOK
  <2> QED BY <2>2, <2>3
<1>5. ASSUME NEW l \in Links, OnData(l) PROVE TabOK'
      BY <1>5, MaxDelayAssumption DEF OnData, Owner, TabOK, TabRecords
<1>6. ASSUME NEW l \in Links, ClientCloses(l) \/ Dropped(l) PROVE TabOK'
      BY <1>6, Closes DEF ClientCloses, Dropped, Codes
<1>7. ASSUME NEW l \in Links, ServerStep(l) \/ OnOpen(l) PROVE UNCHANGED tab
      BY <1>7 DEF ServerStep, Lookup, CreatePTY, Serve, ServerSeesClose, StreamEnds, OnOpen
<1>8. ASSUME NEW l \in Links, IdleTimeout(l) \/ Heartbeat(l) \/ Pong(l) PROVE UNCHANGED tab
      BY <1>8 DEF IdleTimeout, Heartbeat, Pong
<1>9. CASE InstanceChanges \/ UNCHANGED termVars
      BY <1>1, <1>9 DEF InstanceChanges, termVars
<1> QED
      BY <1>1, <1>2, <1>3, <1>4, <1>5, <1>6, <1>7, <1>8, <1>9 DEF TermNext, ClientStep

LEMMA LinkStep == TabOK /\ LinkOK /\ [TermNext]_termVars => LinkOK'
<1> SUFFICES ASSUME TabOK, LinkOK, [TermNext]_termVars PROVE LinkOK'
    OBVIOUS
<1> USE DEF LinkOK, Codes
<1>1. ASSUME NEW l \in Links, ConnectVia(l), bus' = bus PROVE LinkOK'
      BY <1>1 DEF ConnectVia
<1>2. ASSUME NEW m \in Mounts, Mount(m) \/ RetryFires(m) PROVE LinkOK'
  <2>1. (\E l \in Free : ConnectVia(l) /\ bus' = bus) \/ UNCHANGED <<client, server, told, heard, bus>>
        BY <1>2 DEF Mount, RetryFires
  <2> QED BY <1>1, <2>1 DEF Free
<1>3. ASSUME NEW m \in Mounts, Unmount(m) PROVE LinkOK'
      BY <1>3 DEF Unmount
<1>4. ASSUME NEW l \in Links, Lookup(l) \/ CreatePTY(l) \/ Serve(l) PROVE LinkOK'
      BY <1>4 DEF Lookup, CreatePTY, Serve, Reject
<1>5. ASSUME NEW l \in Links,
             ServerSeesClose(l) \/ StreamEnds(l) \/ IdleTimeout(l) \/ Heartbeat(l) \/ Pong(l)
      PROVE  LinkOK'
  <2>1. ASSUME CleanupSession(l), UNCHANGED <<client, heard, bus>> PROVE LinkOK'
        BY <2>1 DEF CleanupSession, ProcessDies, Reject
  <2>2. CASE Pong(l) \/ (Heartbeat(l) /\ heard[l])
        BY <2>2 DEF Pong, Heartbeat
  <2> QED BY <1>5, <2>1, <2>2 DEF ServerSeesClose, StreamEnds, IdleTimeout, Heartbeat
<1>6. ASSUME NEW l \in Links, OnOpen(l) \/ OnData(l) \/ ClientCloses(l) \/ Dropped(l) PROVE LinkOK'
      BY <1>6 DEF OnOpen, OnData, ClientCloses, Dropped, OnClose
<1>7. CASE InstanceChanges \/ UNCHANGED termVars
      BY <1>7 DEF InstanceChanges, termVars
<1> QED BY <1>2, <1>3, <1>4, <1>5, <1>6, <1>7 DEF TermNext, ServerStep, ClientStep

LEMMA RestStep == RestOK /\ [TermNext]_termVars => RestOK'
<1> SUFFICES ASSUME RestOK, [TermNext]_termVars PROVE RestOK'
    OBVIOUS
<1> USE DEF RestOK, Fault
<1>1. ASSUME NEW m \in Mounts, Mount(m) \/ Unmount(m) \/ RetryFires(m) PROVE RestOK'
      BY <1>1 DEF Mount, Unmount, RetryFires
<1>2. ASSUME NEW l \in Links, ServerStep(l) PROVE RestOK'
      BY <1>2 DEF ServerStep, Lookup, CreatePTY, Serve, ServerSeesClose, StreamEnds
<1>3. ASSUME NEW l \in Links, ClientStep(l) \/ OnData(l) \/ Dropped(l) PROVE RestOK'
      BY <1>3 DEF ClientStep, OnOpen, ClientCloses, OnData, Dropped
<1>4. ASSUME NEW l \in Links, IdleTimeout(l) \/ Heartbeat(l) \/ Pong(l) PROVE RestOK'
      BY <1>4 DEF IdleTimeout, Heartbeat, Pong
<1>5. CASE InstanceChanges \/ UNCHANGED termVars
      BY <1>5 DEF InstanceChanges, termVars
<1> QED BY <1>1, <1>2, <1>3, <1>4, <1>5 DEF TermNext

-----------------------------------------------------------------------------
(* One socket per tab.                                                     *)

Live(l) == client[l] \in {"connecting", "open"}

\* A live socket is in the wsRef of the mounted tab, which is not waiting to
\* reconnect; only a mounted tab reconnects, and it has a socket; what input goes
\* to is open.
OneSocket ==
  /\ \A l \in Links : Live(l) =>
       \E m \in Mounts : tab[m].stage = "mounted" /\ tab[m].ws = l /\ ~tab[m].retry
  /\ \A m, n \in Mounts : tab[m].stage = "mounted" /\ tab[n].stage = "mounted" => m = n
  /\ \A m \in Mounts : tab[m].stage = "mounted" => tab[m].ws \in Links
  /\ \A m \in Mounts : tab[m].retry => tab[m].stage = "mounted"
  /\ bus # NoLink => client[bus] = "open"

\* A tab that connects has no other live socket, nor has any other tab.
LEMMA Connects ==
  ASSUME TabOK, LinkOK, OneSocket, NEW m \in Mounts, NEW l \in Links, ConnectVia(l), bus' = bus,
         \/ tab[m].stage = "new" /\ Mounted = {}
         \/ tab[m].retry,
         TabOK', \A n \in Mounts : n # m => tab'[n] = tab[n],
         tab'[m].stage = "mounted", tab'[m].ws = l, tab'[m].retry = FALSE
  PROVE  OneSocket'
<1>1. \A k \in Links : ~Live(k)
      BY DEF OneSocket, Mounted
<1>2. bus = NoLink
      BY <1>1 DEF OneSocket, LinkOK, Live
<1>3. \A k \in Links : Live(k)' => k = l
      BY <1>1 DEF LinkOK, ConnectVia, Live
<1>4. \A n \in Mounts : n # m => tab[n].stage # "mounted"
      BY DEF OneSocket, Mounted
<1> QED BY <1>2, <1>3, <1>4 DEF OneSocket

\* Steps that leave the tabs and the clients' ends alone.
LEMMA ServerSteps == ASSUME OneSocket, UNCHANGED <<tab, client, bus>> PROVE OneSocket'
  BY DEF OneSocket, Live

LEMMA OneSocketStep ==
  TabOK /\ LinkOK /\ OneSocket /\ [TermNext]_termVars => OneSocket'
<1> SUFFICES ASSUME TabOK, LinkOK, OneSocket, [TermNext]_termVars PROVE OneSocket'
    OBVIOUS
<1>0. TabOK'
      BY TabStep
<1>1. ASSUME NEW m \in Mounts, Mount(m) PROVE OneSocket'
  <2>1. PICK l \in Free :
          tab' = [tab EXCEPT ![m] = [@ EXCEPT !.stage = "mounted", !.ws = l]] /\ ConnectVia(l)
        BY <1>1 DEF Mount
  <2>2. tab[m].stage = "new" /\ Mounted = {} /\ ~tab[m].retry /\ l \in Links /\ bus' = bus
        BY <1>1 DEF Mount, OneSocket, Free
  <2>3. tab'[m].stage = "mounted" /\ tab'[m].ws = l /\ tab'[m].retry = FALSE
        BY <2>1, <2>2 DEF TabOK, TabRecords
  <2> QED BY <1>0, <2>1, <2>2, <2>3, Connects DEF TabOK
<1>2. ASSUME NEW m \in Mounts, RetryFires(m) PROVE OneSocket'
  <2>1. PICK l \in Free :
          /\ ConnectVia(l)
          /\ tab' = [tab EXCEPT ![m] = [@ EXCEPT !.retry = FALSE, !.ws = l,
                                                 !.delay = NextDelay(tab[m].delay)]]
        BY <1>2 DEF RetryFires, OneSocket
  <2>2. tab[m].retry /\ tab[m].stage = "mounted" /\ l \in Links /\ bus' = bus
        BY <1>2 DEF RetryFires, OneSocket, Free
  <2>3. tab'[m].stage = "mounted" /\ tab'[m].ws = l /\ tab'[m].retry = FALSE
        BY <2>1, <2>2 DEF TabOK, TabRecords
  <2> QED BY <1>0, <2>1, <2>2, <2>3, Connects DEF TabOK
<1>3. ASSUME NEW m \in Mounts, Unmount(m) PROVE OneSocket'
  <2>1. /\ tab[m].stage = "mounted" /\ tab[m].ws \in Links /\ bus' = NoLink
        /\ tab'[m].stage = "gone" /\ ~tab'[m].retry
        /\ \A n \in Mounts : n # m => tab'[n] = tab[n] /\ tab[n].stage # "mounted"
        BY <1>3 DEF Unmount, OneSocket, TabOK, TabRecords
  <2>2. \A l \in Links : Live(l) => l = tab[m].ws
        BY <2>1 DEF OneSocket
  <2>3. \A l \in Links : ~Live(l)'
        BY <1>3, <2>1, <2>2 DEF Unmount, Live, LinkOK
  <2> QED BY <2>1, <2>3 DEF OneSocket
<1>4. ASSUME NEW l \in Links, OnOpen(l) PROVE OneSocket'
      BY <1>4 DEF OnOpen, OneSocket, Live, LinkOK
<1>5. ASSUME NEW l \in Links, OnData(l) PROVE OneSocket'
  <2>1. \A n \in Mounts : /\ tab'[n].stage = tab[n].stage /\ tab'[n].ws = tab[n].ws
                          /\ tab'[n].retry = tab[n].retry
        BY <1>5 DEF OnData, Owner, TabOK, TabRecords
  <2> QED BY <1>5, <2>1 DEF OnData, OneSocket, Live
<1>6. ASSUME NEW l \in Links, NEW code \in Codes, OnClose(l, code) PROVE OneSocket'
  <2>1. \A m \in Mounts :
          /\ tab'[m].stage = tab[m].stage /\ tab'[m].ws = tab[m].ws
          /\ tab[m].ws # l \/ tab[m].stage # "mounted" => tab'[m].retry = tab[m].retry
        BY <1>6, Closes
  <2>2. bus' = NoLink /\ \A k \in Links : Live(k)' => k # l /\ Live(k)
        BY <1>6 DEF OnClose, Live, LinkOK
  <2> QED BY <2>1, <2>2 DEF OneSocket
<1>7. ASSUME NEW l \in Links, ClientCloses(l) \/ Dropped(l) PROVE OneSocket'
      BY <1>6, <1>7 DEF ClientCloses, Dropped, Codes
<1>8. ASSUME NEW l \in Links, ServerStep(l) PROVE OneSocket'
      BY <1>8, ServerSteps DEF ServerStep, Lookup, CreatePTY, Serve, ServerSeesClose, StreamEnds
<1>9. ASSUME NEW l \in Links, IdleTimeout(l) \/ Heartbeat(l) \/ Pong(l) PROVE OneSocket'
      BY <1>9, ServerSteps DEF IdleTimeout, Heartbeat, Pong
<1>10. CASE InstanceChanges \/ UNCHANGED termVars
      BY <1>10, ServerSteps DEF InstanceChanges, termVars
<1> QED
      BY <1>1, <1>2, <1>3, <1>4, <1>5, <1>7, <1>8, <1>9, <1>10 DEF TermNext, ClientStep

LEMMA TermInvCorrect == TermSpec => [](TabOK /\ LinkOK /\ RestOK /\ OneSocket)
<1>1. TermInit => OneSocket
      BY DEF TermInit, OneSocket, Live
<1>2. TabOK /\ LinkOK /\ RestOK /\ OneSocket /\ [TermNext]_termVars
        => (TabOK /\ LinkOK /\ RestOK /\ OneSocket)'
      BY TabStep, LinkStep, RestStep, OneSocketStep
<1> QED BY <1>1, <1>2, TermTypeInit, PTL DEF TermSpec

\* Every variable of the terminals keeps to its type.
THEOREM TermTypeCorrect == TermSpec => []TermTypeOK
  BY TermInvCorrect, TermTypeParts, PTL

\* No reconnect leaves two sockets open, or one for a tab that is gone: the live
\* socket is the mounted tab's own, and input goes to an open one (TerminalTab).
THEOREM OneSocketPerTabCorrect == TermSpec => []OneSocketPerTab
<1>1. ASSUME OneSocket PROVE OneSocketPerTab
  <2>1. \A l \in Links : client[l] \in {"connecting", "open"} =>
          \E m \in Mounted : tab[m].ws = l /\ ~tab[m].retry
        BY <1>1 DEF OneSocket, Live, Mounted
  <2>2. ASSUME NEW m \in Mounted PROVE Cardinality(Mounted) =< 1
    <3>1. Mounted = {m}
          BY <1>1, <2>2 DEF Mounted, OneSocket
    <3>2. Cardinality({m}) = 1
          BY FS_Singleton
    <3> QED BY <3>1, <3>2
  <2>3. Cardinality(Mounted) =< 1
    <3>1. CASE Mounted = {}
          BY <3>1, FS_EmptySet
    <3> QED BY <2>2, <3>1
  <2>4. bus # NoLink => client[bus] = "open"
        BY <1>1 DEF OneSocket
  <2> QED BY <2>1, <2>3, <2>4 DEF OneSocketPerTab
<1> QED BY <1>1, TermInvCorrect, PTL

-----------------------------------------------------------------------------
(* The dashboard's data.                                                   *)

FlagsTyped == /\ socket \in BOOLEAN /\ unread \in BOOLEAN /\ timer \in BOOLEAN
              /\ active \in BOOLEAN /\ missed \in BOOLEAN
ListTyped == fetch \in [Fetches -> Slots] /\ list \in Versions \cup {NoneYet}
GraphTyped == inflight \in Slots /\ graph \in Versions \cup {NoneYet}

LEMMA FeedTypeParts ==
  FeedTypeOK <=> /\ version \in Versions /\ informed \in Versions \cup {NoneYet} /\ losses \in Nat
                 /\ FlagsTyped /\ ListTyped /\ GraphTyped
  BY DEF FeedTypeOK, FlagsTyped, ListTyped, GraphTyped

LEMMA SlotsTyped ==
  /\ Unasked \in Slots /\ Asked \in Slots /\ (version \in Versions => Answer \in Slots)
  /\ \A s \in Slots : s.version \in Versions
<1>1. 0 \in Versions
      BY MaxVersionAssumption DEF Versions
<1>2. \A at \in {"free", "asked", "answered"}, v \in Versions : [at |-> at, version |-> v] \in Slots
      BY DEF Slots
<1> QED BY <1>1, <1>2 DEF Unasked, Asked, Answer, Slots

LEMMA FeedTypeInit == FeedInit => FeedTypeOK
<1> SUFFICES ASSUME FeedInit PROVE FeedTypeOK
    OBVIOUS
<1>1. version \in Versions /\ informed \in Versions \cup {NoneYet} /\ losses \in Nat
      BY MaxVersionAssumption, MaxLossesAssumption DEF FeedInit, Versions
<1>2. FlagsTyped
      BY DEF FeedInit, FlagsTyped
<1>3. ListTyped /\ GraphTyped
      BY SlotsTyped DEF FeedInit, ListTyped, GraphTyped
<1> QED BY <1>1, <1>2, <1>3, FeedTypeParts

LEMMA FeedTypeStep == FeedTypeOK /\ [FeedNext]_feedVars => FeedTypeOK'
<1> SUFFICES ASSUME FeedTypeOK, [FeedNext]_feedVars PROVE FeedTypeOK'
    OBVIOUS
<1>1. /\ version \in Versions /\ informed \in Versions \cup {NoneYet} /\ losses \in Nat
      /\ FlagsTyped /\ ListTyped /\ GraphTyped
      BY FeedTypeParts
<1>2. version' \in Versions /\ informed' \in Versions \cup {NoneYet}
      BY <1>1, MaxVersionAssumption
         DEF FeedNext, feedVars, Versions, Broadcast, SilentChange, Connect, Disconnect, OnMessage, Refresh, AfterCommand,
             ServeList, ReceiveList, FetchFails, ShowGraph, Poll, ServeGraph, GraphArrives
<1>3. losses' \in Nat
      BY <1>1
         DEF FeedNext, feedVars, Loss, Broadcast, SilentChange, Connect, Disconnect, OnMessage, Refresh, AfterCommand,
             ServeList, ReceiveList, FetchFails, ShowGraph, Poll, ServeGraph, GraphArrives
<1>4. FlagsTyped'
  <2> USE <1>1 DEF FlagsTyped
  <2>1. CASE Broadcast \/ SilentChange \/ Connect \/ Disconnect \/ OnMessage
        BY <2>1 DEF Broadcast, SilentChange, Connect, Disconnect, OnMessage
  <2>2. ASSUME NEW f \in Fetches, Refresh(f) \/ AfterCommand(f) \/ ServeList(f) PROVE FlagsTyped'
        BY <2>2 DEF Refresh, AfterCommand, LoadInstances, ServeList
  <2>3. ASSUME NEW f \in Fetches, ReceiveList(f) \/ FetchFails(f) PROVE FlagsTyped'
        BY <2>3 DEF ReceiveList, FetchFails
  <2>4. CASE ShowGraph \/ Poll \/ ServeGraph \/ GraphArrives \/ UNCHANGED feedVars
        BY <2>4 DEF ShowGraph, Poll, ServeGraph, GraphArrives, feedVars
  <2> QED BY <2>1, <2>2, <2>3, <2>4 DEF FeedNext
<1>5. ListTyped'
  <2> USE <1>1 DEF ListTyped
  <2>1. CASE UNCHANGED <<fetch, list>>
        BY <2>1, SlotsTyped DEF Versions, NoneYet
  <2>2. ASSUME NEW f \in Fetches, NEW s \in Slots, fetch' = [fetch EXCEPT ![f] = s],
               list' = list \/ list' = fetch[f].version
        PROVE  ListTyped'
        BY <2>2, SlotsTyped DEF Versions, NoneYet
  <2>3. ASSUME NEW f \in Fetches,
               Refresh(f) \/ AfterCommand(f) \/ ServeList(f) \/ ReceiveList(f) \/ FetchFails(f)
        PROVE  \E s \in Slots : fetch' = [fetch EXCEPT ![f] = s] /\ (list' = list \/ list' = fetch[f].version)
        BY <1>1, <2>3, SlotsTyped DEF Refresh, AfterCommand, LoadInstances, ServeList, ReceiveList, FetchFails
  <2> QED
      BY <2>1, <2>2, <2>3 DEF FeedNext, feedVars, Broadcast, SilentChange, Connect, Disconnect, OnMessage,
         ShowGraph, Poll, ServeGraph, GraphArrives
<1>6. GraphTyped'
  <2> USE <1>1, SlotsTyped DEF GraphTyped
  <2>1. CASE UNCHANGED <<inflight, graph>>
        BY <2>1
  <2>2. CASE Poll \/ ServeGraph
        BY <2>2 DEF Poll, ServeGraph
  <2>3. CASE GraphArrives
        BY <2>3 DEF GraphArrives
  <2> QED
      BY <2>1, <2>2, <2>3 DEF FeedNext, feedVars, Broadcast, SilentChange, Connect, Disconnect, OnMessage,
         ShowGraph, Refresh, AfterCommand, ServeList, ReceiveList, FetchFails
<1>7. version' \in Versions' /\ Versions' = Versions /\ NoneYet' = NoneYet /\ Slots' = Slots
      BY <1>2 DEF Versions, NoneYet, Slots
<1> QED BY <1>2, <1>3, <1>4, <1>5, <1>6, <1>7 DEF FeedTypeOK, FlagsTyped, ListTyped, GraphTyped

\* Every variable of the dashboard's data keeps to its type.
THEOREM FeedTypeCorrect == FeedSpec => []FeedTypeOK
  BY FeedTypeInit, FeedTypeStep, PTL DEF FeedSpec

\* Nobody is told of the future.
InformedOfThePast == informed <= version

\* Only one fetch changes at a time; the others go on refreshing what they did.
LEMMA OthersRefresh ==
  ASSUME FeedTypeOK, NEW f \in Fetches, NEW s \in Slots, fetch' = [fetch EXCEPT ![f] = s],
         informed' = informed
  PROVE  /\ fetch'[f] = s
         /\ \A g \in Fetches \ {f} : fetch'[g] = fetch[g] /\ (Refreshing(g) => Refreshing(g)')
BY DEF FeedTypeOK, Refreshing, Asked

LEMMA BehindStep ==
  FeedTypeOK /\ InformedOfThePast /\ BehindIsPending /\ [FeedNext]_feedVars
    => (InformedOfThePast /\ BehindIsPending)'
<1> SUFFICES ASSUME FeedTypeOK, InformedOfThePast, BehindIsPending, [FeedNext]_feedVars
             PROVE  InformedOfThePast' /\ BehindIsPending'
    OBVIOUS
<1>t. /\ version \in Nat /\ informed \in Int /\ list \in Int
      /\ \A f \in Fetches : fetch[f].version \in Nat
  <2>1. Versions \subseteq Nat
        BY MaxVersionAssumption DEF Versions
  <2>2. \A f \in Fetches : fetch[f].version \in Nat
        BY <2>1, SlotsTyped DEF FeedTypeOK
  <2>3. version \in Nat /\ informed \in Int /\ list \in Int
        BY <2>1 DEF FeedTypeOK, NoneYet
  <2> QED BY <2>2, <2>3
<1>1. CASE Broadcast
  <2>1. InformedOfThePast'
        BY <1>1, <1>t DEF Broadcast, InformedOfThePast
  <2>2. CASE socket
    <3>1. unread'
          BY <1>1, <2>2 DEF Broadcast
    <3> QED BY <2>1, <3>1 DEF BehindIsPending
  <2>3. CASE ~socket
    <3>1. UNCHANGED <<informed, list, missed, timer, fetch>> /\ (unread => unread')
          BY <1>1, <2>3 DEF Broadcast
    <3> QED BY <2>1, <3>1 DEF BehindIsPending, Refreshing, Asked
  <2> QED BY <2>2, <2>3
<1>2. CASE SilentChange
      BY <1>2, <1>t DEF SilentChange, BehindIsPending, InformedOfThePast, Refreshing, Asked
<1>3. CASE Disconnect
      BY <1>3 DEF Disconnect, BehindIsPending, InformedOfThePast, Refreshing, FeedTypeOK, Asked
<1>4. CASE OnMessage
      BY <1>4 DEF OnMessage, BehindIsPending, InformedOfThePast
<1>5. ASSUME NEW f \in Fetches, Refresh(f) \/ AfterCommand(f)
      PROVE  InformedOfThePast' /\ BehindIsPending'
  <2>1. fetch' = [fetch EXCEPT ![f] = Asked] /\ UNCHANGED <<version, informed>>
        BY <1>5 DEF Refresh, AfterCommand, LoadInstances
  <2>2. Refreshing(f)'
        BY <2>1, OthersRefresh, SlotsTyped DEF Refreshing, Asked
  <2> QED BY <2>1, <2>2 DEF BehindIsPending, InformedOfThePast
<1>6. ASSUME NEW f \in Fetches, ServeList(f)
      PROVE  InformedOfThePast' /\ BehindIsPending'
  <2>1. fetch' = [fetch EXCEPT ![f] = Answer] /\ UNCHANGED <<version, informed>> /\ Answer \in Slots
        BY <1>6, SlotsTyped DEF ServeList, FeedTypeOK
  <2>2. fetch'[f] = Answer
        BY <2>1, OthersRefresh
  <2>3. Refreshing(f)'
        BY <1>t, <2>1, <2>2 DEF Refreshing, Answer, InformedOfThePast
  <2> QED BY <2>1, <2>3 DEF BehindIsPending, InformedOfThePast
<1>7. ASSUME NEW f \in Fetches, ReceiveList(f)
      PROVE  InformedOfThePast' /\ BehindIsPending'
  <2>1. /\ fetch' = [fetch EXCEPT ![f] = Unasked]
        /\ list' = fetch[f].version
        /\ missed' = (missed \/ Overtaken(f))
        /\ UNCHANGED <<version, informed, unread, timer>>
        /\ fetch[f].at = "answered"
        BY <1>7 DEF ReceiveList
  <2>2. \A g \in Fetches \ {f} : Refreshing(g) => Refreshing(g)'
        BY <2>1, OthersRefresh, SlotsTyped
  <2>3. InformedOfThePast'
        BY <2>1 DEF InformedOfThePast
  <2>4. CASE fetch[f].version >= informed
        BY <2>1, <2>3, <2>4 DEF BehindIsPending
  <2>5. CASE missed \/ unread \/ timer
        BY <2>1, <2>3, <2>5 DEF BehindIsPending
  <2>6. CASE list >= informed /\ ~(fetch[f].version >= informed)
    <3>0. fetch[f].version < list
          BY <1>t, <2>6
    <3>1. missed'
          BY <2>1, <3>0 DEF Overtaken
    <3> QED BY <2>3, <3>1 DEF BehindIsPending
  <2>7. ASSUME NEW g \in Fetches, Refreshing(g), ~(fetch[f].version >= informed)
        PROVE  BehindIsPending'
    <3>1. g # f
          BY <2>1, <2>7 DEF Refreshing, Asked
    <3> QED BY <2>2, <2>7, <3>1 DEF BehindIsPending
  <2> QED BY <2>3, <2>4, <2>5, <2>6, <2>7 DEF BehindIsPending
<1>8. ASSUME NEW f \in Fetches, FetchFails(f)
      PROVE  InformedOfThePast' /\ BehindIsPending'
      BY <1>8 DEF FetchFails, BehindIsPending, InformedOfThePast
<1>9. CASE UNCHANGED <<version, informed, list, missed, unread, timer, fetch>>
      BY <1>9 DEF BehindIsPending, InformedOfThePast, Refreshing, Asked
<1> QED BY <1>1, <1>2, <1>3, <1>4, <1>5, <1>6, <1>7, <1>8, <1>9
        DEF FeedNext, feedVars, Connect, ShowGraph, Poll, ServeGraph, GraphArrives

\* A list that does not show what the dashboard was told of has what will show it
\* under way, unless that was lost or an older answer came in last, whatever else
\* changes in silence: the part of catching up that needs no fairness.
THEOREM BehindIsPendingCorrect == FeedSpec => []BehindIsPending
<1>1. FeedInit => InformedOfThePast /\ BehindIsPending
      BY DEF FeedInit, InformedOfThePast, BehindIsPending, NoneYet
<1> QED BY <1>1, FeedTypeInit, FeedTypeStep, BehindStep, PTL DEF FeedSpec

-----------------------------------------------------------------------------
(* The views of the fleet.                                                 *)

\* Instances listed on hosts that were read.
Listing(g) ==
  /\ DOMAIN g.hosts \subseteq Sites
  /\ DOMAIN g.listed \subseteq Boxes /\ IsFiniteSet(DOMAIN g.listed)
  /\ \A b \in DOMAIN g.listed : g.listed[b] \in BoxRecords /\ g.listed[b].on \in DOMAIN g.hosts

\* A graph under way, and one that is made.
OfTheWorld(g) ==
  /\ g = [hosts |-> g.hosts, asking |-> g.asking, listed |-> g.listed]
  /\ Listing(g) /\ g.asking \subseteq DOMAIN g.hosts
Graph(g) ==
  /\ g = [hosts |-> g.hosts, listed |-> g.listed, ill |-> g.ill]
  /\ Listing(g) /\ g.ill \in [Boxes -> Ills]

WorldTyped ==
  /\ DOMAIN site \subseteq Sites /\ \A s \in DOMAIN site : site[s] \in SiteRecords
  /\ DOMAIN box \subseteq Boxes /\ \A b \in DOMAIN box : box[b] \in BoxRecords
  /\ ill \in [Boxes -> Ills]

\* There are ever finitely many instances, though any number of them.
FewBoxes == IsFiniteSet(DOMAIN box)

\* What the last graph was made of is of these hosts and instances.
ViewInv ==
  /\ WorldTyped /\ FewBoxes /\ moves \in Nat
  /\ making = None0 \/ OfTheWorld(making)
  /\ drawn = None0 \/ Graph(drawn)

LEMMA ViewTypeHolds == ViewInv => ViewTypeOK
<1>1. \A g : Graph(g) => DOMAIN g = {"hosts", "listed", "ill"}
      BY DEF Graph
<1>2. \A g : OfTheWorld(g) => DOMAIN g = {"hosts", "asking", "listed"} /\ g.asking \subseteq Sites
      BY DEF OfTheWorld, Listing
<1> QED BY <1>1, <1>2 DEF ViewInv, WorldTyped, ViewTypeOK

LEMMA ViewInvInit == ViewInit => ViewInv
<1>1. ViewInit => FewBoxes
  <2>1. DOMAIN None0 = {}
        BY DEF None0
  <2> QED BY <2>1, FS_EmptySet DEF ViewInit, FewBoxes
<1> QED BY <1>1, MaxMovesAssumption DEF ViewInit, ViewInv, WorldTyped, SiteRecords, Ills, None0

LEMMA WorldStep == WorldTyped /\ [ViewNext]_viewVars => WorldTyped'
<1> SUFFICES ASSUME WorldTyped, [ViewNext]_viewVars PROVE WorldTyped'
    OBVIOUS
<1> USE DEF WorldTyped
<1>1. ASSUME NEW s \in Sites, NEW record \in SiteRecords, SiteChanges(s, record) PROVE WorldTyped'
      BY <1>1 DEF SiteChanges, With
<1>2. ASSUME NEW b \in Boxes, NEW record \in BoxRecords, BoxAppears(b, record) PROVE WorldTyped'
      BY <1>2 DEF BoxAppears, With
<1>3. ASSUME NEW b \in Boxes, BoxGoes(b) PROVE WorldTyped'
      BY <1>3 DEF BoxGoes, Without, Ills
<1>4. ASSUME NEW b \in Boxes, NEW running \in BOOLEAN, NEW event \in {"Notification", "Stop"},
             BoxMoves(b, running, event)
      PROVE  WorldTyped'
  <2>1. [box[b] EXCEPT !.running = running, !.event = event] \in BoxRecords
        BY <1>4 DEF BoxMoves, BoxRecords
  <2>2. box' = [box EXCEPT ![b] = [box[b] EXCEPT !.running = running, !.event = event]]
        BY <1>4 DEF BoxMoves
  <2> QED BY <1>4, <2>1, <2>2 DEF BoxMoves
<1>5. ASSUME NEW b \in Boxes, NEW found \in Ills, Checked(b, found) PROVE WorldTyped'
      BY <1>5 DEF Checked
<1>6. ASSUME NEW s \in Sites, SiteGoes(s) PROVE WorldTyped'
      BY <1>6 DEF SiteGoes, Without
<1>7. CASE ReadHosts \/ DrawGraph \/ (\E s \in Sites : AskHost(s)) \/ UNCHANGED viewVars
      BY <1>7 DEF ReadHosts, DrawGraph, AskHost, viewVars
<1> QED BY <1>1, <1>2, <1>3, <1>4, <1>5, <1>6, <1>7 DEF ViewNext

LEMMA FewBoxesStep == FewBoxes /\ [ViewNext]_viewVars => FewBoxes'
<1> SUFFICES ASSUME FewBoxes, [ViewNext]_viewVars PROVE FewBoxes'
    OBVIOUS
<1>1. ASSUME NEW b \in Boxes, NEW record \in BoxRecords, BoxAppears(b, record) PROVE FewBoxes'
  <2>1. DOMAIN box' = DOMAIN box \cup {b}
        BY <1>1 DEF BoxAppears, With
  <2> QED BY <2>1, FS_AddElement DEF FewBoxes
<1>2. ASSUME NEW b \in Boxes, BoxGoes(b) PROVE FewBoxes'
  <2>1. DOMAIN box' = DOMAIN box \ {b}
        BY <1>2 DEF BoxGoes, Without
  <2> QED BY <2>1, FS_RemoveElement DEF FewBoxes
<1>3. CASE DOMAIN box' = DOMAIN box
      BY <1>3 DEF FewBoxes
<1> QED
    BY <1>1, <1>2, <1>3 DEF ViewNext, SiteChanges, SiteGoes, BoxMoves, Checked, ReadHosts, AskHost, DrawGraph,
           viewVars

LEMMA ViewInvStep == ViewInv /\ [ViewNext]_viewVars => ViewInv'
<1> SUFFICES ASSUME ViewInv, [ViewNext]_viewVars PROVE ViewInv'
    OBVIOUS
<1>1. WorldTyped' /\ FewBoxes'
      BY WorldStep, FewBoxesStep DEF ViewInv
<1>2. ASSUME Move PROVE ViewInv'
      BY <1>1, <1>2 DEF ViewInv, Move
<1>3. CASE ReadHosts
  <2>1. UNCHANGED <<drawn, moves>> /\ making' = [hosts |-> site, asking |-> DOMAIN site, listed |-> None0]
        BY <1>3 DEF ReadHosts
  <2>2. DOMAIN None0 = {} /\ IsFiniteSet({})
        BY FS_EmptySet DEF None0
  <2>3. OfTheWorld(making)'
        BY <2>1, <2>2 DEF ViewInv, WorldTyped, OfTheWorld, Listing
  <2>4. drawn' = None0 \/ Graph(drawn)'
        BY <2>1 DEF ViewInv, Graph, Listing
  <2> QED BY <1>1, <2>1, <2>3, <2>4 DEF ViewInv
<1>4. ASSUME NEW s \in Sites, AskHost(s) PROVE ViewInv'
  <2> DEFINE listed == [b \in DOMAIN making.listed \cup HasNow(s) |->
                          IF b \in HasNow(s) THEN box[b] ELSE making.listed[b]]
  <2>1. /\ UNCHANGED <<drawn, moves>> /\ s \in making.asking
        /\ making' = [hosts |-> making.hosts, asking |-> making.asking \ {s}, listed |-> listed]
        BY <1>4 DEF AskHost
  <2>2. OfTheWorld(making)
        BY <1>4 DEF AskHost, ViewInv
  <2>3. HasNow(s) \subseteq DOMAIN box /\ \A b \in HasNow(s) : box[b].on = s
        BY DEF HasNow
  <2>4. DOMAIN listed \subseteq Boxes /\ \A b \in DOMAIN listed : listed[b] \in BoxRecords
        BY <2>2, <2>3 DEF ViewInv, WorldTyped, OfTheWorld, Listing
  <2>5. \A b \in DOMAIN listed : listed[b].on \in DOMAIN making.hosts
        BY <2>1, <2>2, <2>3 DEF OfTheWorld, Listing
  <2>6. IsFiniteSet(DOMAIN listed)
    <3>1. IsFiniteSet(HasNow(s)) /\ IsFiniteSet(DOMAIN making.listed)
          BY <2>2, <2>3, FS_Subset DEF ViewInv, FewBoxes, OfTheWorld, Listing
    <3> QED BY <3>1, FS_Union
  <2> HIDE DEF listed
  <2>7. OfTheWorld(making)'
        BY <2>1, <2>2, <2>4, <2>5, <2>6 DEF OfTheWorld, Listing
  <2>8. drawn' = None0 \/ Graph(drawn)'
        BY <2>1 DEF ViewInv, Graph, Listing
  <2> QED BY <1>1, <2>1, <2>7, <2>8 DEF ViewInv
<1>5. CASE DrawGraph
  <2> DEFINE listed == [b \in DOMAIN making.listed |-> [making.listed[b] EXCEPT !.event = EventNow(b)]]
  <2>1. UNCHANGED moves /\ making' = None0 /\ drawn' = [hosts |-> making.hosts, ill |-> ill, listed |-> listed]
        BY <1>5 DEF DrawGraph
  <2>2. OfTheWorld(making)
        BY <1>5 DEF DrawGraph, ViewInv
  <2>3. \A b \in Boxes : EventNow(b) \in {"Notification", "Stop"}
        BY DEF EventNow, ViewInv, WorldTyped, BoxRecords
  <2>4. \A b \in DOMAIN listed : listed[b] \in BoxRecords /\ listed[b].on = making.listed[b].on
        BY <2>2, <2>3 DEF OfTheWorld, Listing, BoxRecords
  <2>5. DOMAIN listed = DOMAIN making.listed
        OBVIOUS
  <2> HIDE DEF listed
  <2>6. Graph(drawn)'
        BY <2>1, <2>2, <2>4, <2>5 DEF ViewInv, WorldTyped, OfTheWorld, Graph, Listing
  <2> QED BY <1>1, <2>1, <2>6 DEF ViewInv
<1>6. CASE UNCHANGED viewVars
      BY <1>1, <1>6 DEF viewVars, ViewInv, Graph, OfTheWorld, Listing
<1> QED
    BY <1>2, <1>3, <1>4, <1>5, <1>6 DEF ViewNext, SiteChanges, SiteGoes, BoxAppears, BoxGoes, BoxMoves, Checked

LEMMA ViewInvAlways == ViewSpec => []ViewInv
  BY ViewInvInit, ViewInvStep, PTL DEF ViewSpec

\* Every variable of the views keeps to its type.
THEOREM ViewTypeCorrect == ViewSpec => []ViewTypeOK
  BY ViewInvAlways, ViewTypeHolds, PTL

LEMMA DrawnOnceHolds == ASSUME NEW g, Graph(g) PROVE DrawnOnce(g)
<1> SUFFICES ASSUME NEW b \in DOMAIN g.listed
             PROVE  /\ Cardinality({t \in FleetMap(g) : t.box = b}) = 1
                    /\ Cardinality({t \in NetworkMap(g) : t.box = b}) = 1
                    /\ {t.host : t \in {u \in FleetMap(g) \cup NetworkMap(g) : u.box = b}} = {g.listed[b].on}
                    /\ Node("instance", b) \in Placed(g)
    BY DEF DrawnOnce
<1> DEFINE at == g.listed[b].on
           lane == g.listed[b].backend
           policy == g.listed[b].policy
<1>1. b \in DOMAIN g.listed /\ at \in DOMAIN g.hosts /\ lane \in Lanes /\ policy \in Policies
      BY DEF Graph, Listing, BoxRecords
<1>2. \A x, s, l : /\ Tile(x, s, l).box = x /\ Tile(x, s, l).host = s /\ Tile(x, s, l).lane = l
      BY DEF Tile
<1>3. {t \in FleetMap(g) : t.box = b} = {Tile(b, at, lane)}
      BY <1>1, <1>2 DEF FleetMap, FleetTiles
<1>4. {t \in NetworkMap(g) : t.box = b} = {Tile(b, at, policy)}
      BY <1>1, <1>2 DEF NetworkMap
<1>5. {u \in FleetMap(g) \cup NetworkMap(g) : u.box = b} = {Tile(b, at, lane), Tile(b, at, policy)}
      BY <1>3, <1>4
<1>6. {t.host : t \in {u \in FleetMap(g) \cup NetworkMap(g) : u.box = b}} = {at}
      BY <1>2, <1>5
<1>7. Node("instance", b) \in Placed(g)
      BY <1>1 DEF Placed
<1> QED BY <1>3, <1>4, <1>6, <1>7, FS_Singleton

LEMMA NodeParts == ASSUME NEW type, NEW id PROVE Node(type, id)[1] = type /\ Node(type, id)[2] = id
  BY DEF Node

LEMMA EdgesJoinHolds == ASSUME NEW g, Graph(g), ProxiesDrawn(g) PROVE EdgesJoin(g)
<1> SUFFICES ASSUME NEW e \in Edges(g) PROVE {e.from, e.to} \subseteq Nodes(g)
    BY DEF EdgesJoin
<1>1. /\ \A s \in DOMAIN g.hosts : Node("host", s) \in Nodes(g)
      /\ \A s \in DOMAIN g.hosts : g.hosts[s].accepts => Node("proxy", s) \in Nodes(g)
      /\ \A b \in DOMAIN g.listed : Node("instance", b) \in Nodes(g)
      /\ Internet \in Nodes(g) /\ Node("backend", "claude-max") \in Nodes(g)
      BY DEF Nodes, HostNodes, ProxyNodes, InstanceNodes
<1>2. \A b \in DOMAIN g.listed : g.listed[b].on \in DOMAIN g.hosts
      BY DEF Graph, Listing
<1>3. CASE e \in {Edge(p, Node("host", p[2]), "runs-on", "") : p \in ProxyNodes(g)}
  <2>1. PICK p \in ProxyNodes(g) : e = Edge(p, Node("host", p[2]), "runs-on", "")
        BY <1>3
  <2>2. PICK s \in DOMAIN g.hosts : g.hosts[s].accepts /\ p = Node("proxy", s)
        BY DEF ProxyNodes
  <2>21. p[2] = s
        BY <2>2, NodeParts
  <2>3. e.from = p /\ e.to = Node("host", s)
        BY <2>1, <2>21 DEF Edge
  <2> QED BY <1>1, <2>2, <2>3
<1>4. CASE e \in {Edge(p, Internet, "allowlisted-egress", "enforced") : p \in ProxyNodes(g)}
  <2>1. PICK p \in ProxyNodes(g) : e = Edge(p, Internet, "allowlisted-egress", "enforced")
        BY <1>4
  <2>2. p \in Nodes(g)
        BY DEF Nodes
  <2>3. e.from = p /\ e.to = Internet
        BY <2>1 DEF Edge
  <2> QED BY <1>1, <2>2, <2>3
<1>5. CASE e = Edge(Node("backend", "claude-max"), Internet, "reaches", "")
  <2>1. e.from = Node("backend", "claude-max") /\ e.to = Internet
        BY <1>5 DEF Edge
  <2> QED BY <1>1, <2>1
<1>6. CASE e \in {Edge(Node("instance", b), Node("host", g.listed[b].on), "runs-on", "") : b \in DOMAIN g.listed}
  <2>1. PICK b \in DOMAIN g.listed : e = Edge(Node("instance", b), Node("host", g.listed[b].on), "runs-on", "")
        BY <1>6
  <2>2. e.from = Node("instance", b) /\ e.to = Node("host", g.listed[b].on)
        BY <2>1 DEF Edge
  <2> QED BY <1>1, <1>2, <2>2
<1>7. ASSUME NEW b \in DOMAIN g.listed, e = EgressEdge(g, b), Restricted(g.listed[b].policy)
      PROVE  {e.from, e.to} \subseteq Nodes(g)
  <2>1. e = Edge(Node("instance", b), Node("proxy", g.listed[b].on), "egress-via", Grade(g, b))
        BY <1>7 DEF EgressEdge
  <2>2. e.from = Node("instance", b) /\ e.to = Node("proxy", g.listed[b].on)
        BY <2>1 DEF Edge
  <2>3. g.hosts[g.listed[b].on].accepts
        BY <1>7 DEF ProxiesDrawn
  <2> QED BY <1>1, <1>2, <2>2, <2>3
<1>8. ASSUME NEW b \in DOMAIN g.listed, e = EgressEdge(g, b), ~Restricted(g.listed[b].policy)
      PROVE  {e.from, e.to} \subseteq Nodes(g)
  <2>1. e = Edge(Node("instance", b), Internet, "direct-egress", "open")
        BY <1>8 DEF EgressEdge
  <2>2. e.from = Node("instance", b) /\ e.to = Internet
        BY <2>1 DEF Edge
  <2> QED BY <1>1, <2>2
<1>9. CASE e \in ModelEdges(g)
  <2>1. PICK b \in DOMAIN g.listed :
          /\ e = Edge(Node("instance", b), Node("backend", g.listed[b].backend), "uses-model", "")
          /\ e.to \in Nodes(g)
        BY <1>9 DEF ModelEdges
  <2>2. e.from = Node("instance", b) /\ e.to = Node("backend", g.listed[b].backend)
        BY <2>1 DEF Edge
  <2> QED BY <1>1, <2>1, <2>2
<1> QED BY <1>3, <1>4, <1>5, <1>6, <1>7, <1>8, <1>9 DEF Edges

LEMMA GradesAgreeHolds == ASSUME NEW g, Graph(g) PROVE GradesAgree(g)
<1> SUFFICES ASSUME NEW b \in DOMAIN g.listed
             PROVE  LET unbacked == EgressEdge(g, b).grade = "unenforceable" IN
                      /\ unbacked <=> [host |-> g.listed[b].on, enforced |-> FALSE] \in Gates(g)
                                        /\ Restricted(g.listed[b].policy)
                      /\ unbacked => b \in Problems0(g)
                      /\ EgressEdge(g, b).grade = "broken" => b \in Problems0(g)
    BY DEF GradesAgree
<1> DEFINE at == g.listed[b].on
           policy == g.listed[b].policy
<1>1. b \in Boxes /\ b \in DOMAIN g.listed /\ at \in DOMAIN g.hosts /\ policy \in Policies
      BY DEF Graph, Listing, BoxRecords
<1>2. \A f, t, k, q : Edge(f, t, k, q).from = f /\ Edge(f, t, k, q).grade = q
      BY DEF Edge
<1>3. EgressEdge(g, b).grade = (IF Restricted(policy) THEN Grade(g, b) ELSE "open")
      BY <1>2 DEF EgressEdge
<1>4. EgressEdge(g, b).from[2] = b
      BY <1>2 DEF EgressEdge, Node
<1>5. Grade(g, b) = IF ~Restricted(policy) THEN "open"
                    ELSE IF at \in Remote THEN "unenforceable"
                    ELSE IF g.ill[b] = "acl" THEN "broken" ELSE "enforced"
      BY <1>1 DEF Grade
<1>6. EgressEdge(g, b).grade = "unenforceable" <=> Restricted(policy) /\ at \in Remote
      BY <1>3, <1>5
<1>7. EgressEdge(g, b).grade = "broken" => g.ill[b] = "acl"
      BY <1>3, <1>5
<1>8. EgressEdge(g, b) \in Edges(g)
      BY <1>1 DEF Edges
<1>9. EgressEdge(g, b).grade = "unenforceable" => b \in Problems0(g)
      BY <1>4, <1>8 DEF Problems0
<1>10. EgressEdge(g, b).grade = "broken" => b \in Problems0(g)
      BY <1>1, <1>7 DEF Problems0
<1>11. \A x, s, l : Tile(x, s, l).box = x /\ Tile(x, s, l).host = s /\ Tile(x, s, l).lane = l
      BY DEF Tile
<1>12. Restricted(policy) /\ at \in Remote => [host |-> at, enforced |-> FALSE] \in Gates(g)
  <2> SUFFICES ASSUME Restricted(policy), at \in Remote PROVE [host |-> at, enforced |-> FALSE] \in Gates(g)
      OBVIOUS
  <2>1. PICK t : t = Tile(b, at, policy)
        OBVIOUS
  <2>2. t.box = b /\ t.host = at /\ t.lane = policy
        BY <1>11, <2>1
  <2>3. t \in NetworkMap(g)
        BY <1>1, <2>1, <2>2 DEF NetworkMap
  <2>4. Egress(g.listed[t.box].policy) = "proxied"
        BY <2>2 DEF Egress
  <2>5. [host |-> t.host, enforced |-> t.host \notin Remote] \in Gates(g)
        BY <2>3, <2>4 DEF Gates
  <2>6. [host |-> t.host, enforced |-> t.host \notin Remote] = [host |-> at, enforced |-> FALSE]
        BY <2>2
  <2> QED BY <2>5, <2>6
<1>13. [host |-> at, enforced |-> FALSE] \in Gates(g) => at \in Remote
  <2> SUFFICES ASSUME [host |-> at, enforced |-> FALSE] \in Gates(g) PROVE at \in Remote
      OBVIOUS
  <2>1. PICK t : [host |-> at, enforced |-> FALSE] = [host |-> t.host, enforced |-> t.host \notin Remote]
        BY DEF Gates
  <2>2. [host |-> at, enforced |-> FALSE].host = at /\ [host |-> at, enforced |-> FALSE].enforced = FALSE
        OBVIOUS
  <2> QED BY <2>1, <2>2
<1> QED BY <1>6, <1>9, <1>10, <1>12, <1>13

LEMMA UpToN == ASSUME NEW n \in Nat PROVE IsFiniteSet(1..n) /\ Cardinality(1..n) = n
<1>1. 1 \in Int /\ n \in Int
      OBVIOUS
<1>2. IsFiniteSet(1..n) /\ Cardinality(1..n) = IF 1 > n THEN 0 ELSE n - 1 + 1
      BY ONLY <1>1, FS_Interval
<1> QED BY <1>2

\* Of the places of a sort by a strict total order: each entry has one of its own,
\* and those that wait have the first ones.
LEMMA Sorted ==
  ASSUME NEW n \in Nat, NEW wait \in SUBSET (1..n), NEW prec \in SUBSET ((1..n) \X (1..n)), NEW pos,
         pos = [i \in 1..n |-> pos[i]], \A i \in 1..n : pos[i] = Cardinality({j \in 1..n : <<i, j>> \notin prec}),
         \A i, j \in 1..n : <<i, j>> \in prec <=> \/ i \in wait /\ j \notin wait
                                                  \/ (i \in wait <=> j \in wait) /\ i < j
  PROVE  /\ \A k \in 1..n : \E i \in 1..n : pos[i] = k
         /\ \A i \in 1..n : pos[i] \in Nat /\ (i \in wait <=> pos[i] <= Cardinality(wait))
<1> DEFINE upTo(i) == {j \in 1..n : <<i, j>> \notin prec}
<1>1. IsFiniteSet(1..n) /\ Cardinality(1..n) = n
      BY UpToN
<1>2. ASSUME NEW i \in 1..n PROVE /\ upTo(i) \subseteq 1..n /\ i \in upTo(i)
                                  /\ pos[i] = Cardinality(upTo(i))
      OBVIOUS
<1>3. ASSUME NEW i \in 1..n, NEW j \in 1..n, <<i, j>> \in prec PROVE upTo(i) \subseteq upTo(j) /\ j \notin upTo(i)
  <2>1. ASSUME NEW k \in 1..n, <<j, k>> \in prec PROVE <<i, k>> \in prec
        BY <1>3, <2>1
  <2> QED BY <1>3, <2>1
<1>4. ASSUME NEW i \in 1..n PROVE i \in wait => upTo(i) \subseteq wait
      BY <1>4
<1>5. ASSUME NEW i \in 1..n, i \notin wait PROVE wait \subseteq upTo(i)
      BY <1>5
<1>6. ASSUME NEW i \in 1..n, NEW j \in 1..n PROVE i = j \/ <<i, j>> \in prec \/ <<j, i>> \in prec
  <2>1. i = j \/ i < j \/ j < i
        OBVIOUS
  <2>2. <<i, j>> \in prec <=> (i \in wait /\ j \notin wait) \/ ((i \in wait <=> j \in wait) /\ i < j)
        OBVIOUS
  <2>3. <<j, i>> \in prec <=> (j \in wait /\ i \notin wait) \/ ((j \in wait <=> i \in wait) /\ j < i)
        OBVIOUS
  <2> QED BY <2>1, <2>2, <2>3
<1> HIDE DEF upTo
<1>7. ASSUME NEW i \in 1..n PROVE IsFiniteSet(upTo(i)) /\ pos[i] \in 1..n
  <2>1. upTo(i) \subseteq 1..n /\ i \in upTo(i)
        BY <1>2
  <2>2. IsFiniteSet(upTo(i)) /\ Cardinality(upTo(i)) <= n /\ Cardinality(upTo(i)) \in Nat
        BY <1>1, <2>1, FS_Subset, FS_CardinalityType
  <2>3. Cardinality(upTo(i)) # 0
        BY <2>1, <2>2, FS_EmptySet
  <2> QED BY <1>2, <2>2, <2>3
<1>8. ASSUME NEW i \in 1..n, NEW j \in 1..n, <<i, j>> \in prec PROVE pos[i] # pos[j]
  <2>1. upTo(i) \subseteq upTo(j) /\ j \in upTo(j) /\ j \notin upTo(i)
        BY <1>2, <1>3, <1>8
  <2>2. Cardinality(upTo(i)) # Cardinality(upTo(j))
        BY <1>7, <2>1, FS_Subset
  <2> QED BY <1>2, <2>2
<1>9. pos \in Injection(1..n, 1..n)
  <2>1. pos \in [1..n -> 1..n]
        BY <1>7
  <2>2. \A i, j \in 1..n : pos[i] = pos[j] => i = j
        BY <1>6, <1>8
  <2> QED BY <2>1, <2>2 DEF Injection, IsInjective
<1>10. pos \in Surjection(1..n, 1..n)
       BY <1>1, <1>9, FS_Injection
<1>11. IsFiniteSet(wait) /\ Cardinality(wait) \in Nat
       BY <1>1, FS_Subset, FS_CardinalityType
<1>12. ASSUME NEW i \in 1..n, i \in wait PROVE pos[i] <= Cardinality(wait)
  <2>1. upTo(i) \subseteq wait
        BY <1>4, <1>12
  <2> QED BY <1>2, <1>11, <2>1, FS_Subset
<1>13. ASSUME NEW i \in 1..n, i \notin wait PROVE ~(pos[i] <= Cardinality(wait))
  <2>1. wait \subseteq upTo(i) /\ wait # upTo(i)
        BY <1>2, <1>5, <1>13
  <2>2. Cardinality(wait) <= Cardinality(upTo(i)) /\ Cardinality(upTo(i)) # Cardinality(wait)
        BY <1>7, <2>1, FS_Subset
  <2> QED BY <1>2, <1>7, <1>11, <2>2
<1>14. \A k \in 1..n : \E i \in 1..n : pos[i] = k
       BY <1>10 DEF Surjection
<1>15. ASSUME NEW i \in 1..n PROVE pos[i] \in Nat /\ (i \in wait <=> pos[i] <= Cardinality(wait))
       BY <1>7, <1>12, <1>13
<1> QED BY <1>14, <1>15

\* As many entries of a list wait as instances do, if each instance is in it once.
LEMMA SameMany ==
  ASSUME NEW n \in Nat, NEW S, IsFiniteSet(S), Cardinality(S) = n, NEW o \in [1..n -> S],
         {o[i] : i \in 1..n} = S, NEW T \in SUBSET S
  PROVE  Cardinality({i \in 1..n : o[i] \in T}) = Cardinality(T)
<1>1. IsFiniteSet(1..n) /\ Cardinality(1..n) = n
      BY UpToN
<1>2. o \in Surjection(1..n, S)
      BY DEF Surjection
<1>3. o \in Injection(1..n, S)
      BY <1>1, <1>2, FS_Surjection
<1> DEFINE these == {i \in 1..n : o[i] \in T}
           f == [i \in these |-> o[i]]
<1>4. f \in [these -> T] /\ \A t \in T : \E i \in these : f[i] = t
      BY <1>2 DEF Surjection
<1>5. \A i, j \in these : f[i] = f[j] => i = j
      BY <1>3 DEF Injection, IsInjective
<1>6. IsFiniteSet(these)
      BY <1>1, FS_Subset
<1> HIDE DEF these, f
<1>7. f \in Injection(these, T) /\ f \in Surjection(these, T)
      BY <1>4, <1>5 DEF Injection, IsInjective, Surjection
<1>8. Cardinality(T) = Cardinality(these)
      BY <1>6, <1>7, FS_Surjection
<1> QED BY <1>8 DEF these

LEMMA AttentionOnTopHolds == ASSUME NEW g, Graph(g) PROVE AttentionOnTop(g)
<1> DEFINE n == Cardinality(DOMAIN g.listed)
           top == {b \in DOMAIN g.listed : InstanceState(g, b) = "attention"}
<1> SUFFICES ASSUME NEW o \in Orders(g), NEW k \in DOMAIN ByAttention(g, o)
             PROVE  InstanceState(g, ByAttention(g, o)[k]) = "attention" <=> k =< Cardinality(top)
    BY DEF AttentionOnTop
<1>1. n \in Nat /\ IsFiniteSet(DOMAIN g.listed)
      BY FS_CardinalityType DEF Graph, Listing
<1>2. o \in [1..n -> DOMAIN g.listed] /\ {o[i] : i \in 1..n} = DOMAIN g.listed /\ DOMAIN o = 1..n
      BY DEF Orders
<1>3. ASSUME NEW b \in DOMAIN g.listed PROVE NeedsInput(g.listed[b]) <=> b \in top
      BY <1>3 DEF NeedsInput, EventKind, InstanceState, ShownStatus, Graph, Listing, BoxRecords
<1> DEFINE wait == {i \in 1..n : o[i] \in top}
           prec == {p \in (1..n) \X (1..n) : Precedes(g, o, p[1], p[2])}
           pos == [i \in 1..n |-> Cardinality({j \in 1..n : <<i, j>> \notin prec})]
<1>4. Cardinality(wait) = Cardinality(top)
  <2> HIDE DEF n, top
  <2>1. n = Cardinality(DOMAIN g.listed) /\ top \subseteq DOMAIN g.listed
        BY DEF n, top
  <2> QED BY <1>1, <1>2, <2>1, SameMany
<1>5. ASSUME NEW i \in 1..n, NEW j \in 1..n
      PROVE  Precedes(g, o, i, j) <=> \/ i \in wait /\ j \notin wait
                                      \/ (i \in wait <=> j \in wait) /\ i < j
  <2>1. /\ RankOf(g.listed[o[i]]) = IF i \in wait THEN 0 ELSE 1
        /\ RankOf(g.listed[o[j]]) = IF j \in wait THEN 0 ELSE 1
    <3>1. o[i] \in DOMAIN g.listed /\ o[j] \in DOMAIN g.listed
          BY <1>2
    <3>2. (NeedsInput(g.listed[o[i]]) <=> i \in wait) /\ (NeedsInput(g.listed[o[j]]) <=> j \in wait)
          BY <1>3, <3>1
    <3> QED BY <3>2 DEF RankOf
  <2> HIDE DEF wait
  <2> QED BY <2>1 DEF Precedes
<1>6. ASSUME NEW i \in 1..n PROVE PlaceOf(g, o, i) = pos[i]
  <2>1. {j \in DOMAIN o : ~Precedes(g, o, i, j)} = {j \in 1..n : <<i, j>> \notin prec}
        BY <1>2
  <2> QED BY <2>1 DEF PlaceOf
<1>7. \A i, j \in 1..n : <<i, j>> \in prec <=> \/ i \in wait /\ j \notin wait
                                               \/ (i \in wait <=> j \in wait) /\ i < j
      BY <1>5
<1>8. wait \in SUBSET (1..n) /\ prec \in SUBSET ((1..n) \X (1..n))
      OBVIOUS
<1>9. pos = [i \in 1..n |-> pos[i]] /\ \A i \in 1..n : pos[i] = Cardinality({j \in 1..n : <<i, j>> \notin prec})
      OBVIOUS
<1>10. \A i \in 1..n : i \in wait <=> InstanceState(g, o[i]) = "attention"
      BY <1>2
<1> HIDE DEF n, top, wait, prec, pos
<1>11. /\ \A m \in 1..n : \E i \in 1..n : pos[i] = m
       /\ \A i \in 1..n : pos[i] \in Nat /\ (i \in wait <=> pos[i] <= Cardinality(wait))
       BY <1>1, <1>7, <1>8, <1>9, Sorted
<1>12. k \in 1..n /\ ByAttention(g, o)[k] = o[CHOOSE i \in DOMAIN o : PlaceOf(g, o, i) = k]
       BY <1>2 DEF ByAttention
<1>13. \E i \in DOMAIN o : PlaceOf(g, o, i) = k
       BY <1>2, <1>6, <1>11, <1>12
<1>14. PICK i \in 1..n : pos[i] = k /\ ByAttention(g, o)[k] = o[i]
       BY <1>2, <1>6, <1>12, <1>13
<1> QED BY <1>4, <1>10, <1>11, <1>14

\* For any hosts, instances and changes of both while the graph is made: each
\* instance is drawn once, at its host; the graph, its verdict and the gates of the
\* network map agree on what cannot be enforced; the list has on top what the fleet
\* map marks; and edges join nodes that are there, unless a restricted instance was
\* listed on a host that accepted none (where they may not: NoDanglingEdge).
THEOREM ViewsAgreeCorrect == ViewSpec => []ViewsAgree
<1>1. ViewInv => ViewsAgree
      BY DrawnOnceHolds, EdgesJoinHolds, GradesAgreeHolds, AttentionOnTopHolds DEF ViewInv, ViewsAgree
<1> QED BY <1>1, ViewInvAlways, PTL

-----------------------------------------------------------------------------
(***************************************************************************)
(* All of them together.                                                   *)
(***************************************************************************)

\* A behaviour of the whole is one of each part, in which the other parts' steps
\* are stutters.
LEMMA WholeHasParts ==
  FairSpec => /\ TermSpec /\ DeviceSpec /\ FeedSpec /\ ViewSpec
              /\ MapSpec /\ DirSpec /\ SpecSpec /\ MountSpec
<1>1. Init => /\ TermInit /\ DeviceInit /\ FeedInit /\ ViewInit
              /\ MapInit /\ DirInit /\ SpecInit /\ MountInit
      BY DEF Init
<1>2. [Next]_vars => [TermNext]_termVars
      BY DEF Next, vars
<1>3. [Next]_vars => [DeviceNext]_deviceVars
      BY DEF Next, vars
<1>4. [Next]_vars => [FeedNext]_feedVars
      BY DEF Next, vars
<1>5. [Next]_vars => [ViewNext]_viewVars
      BY DEF Next, vars
<1>6. [Next]_vars => [MapNext]_mapVars
      BY DEF Next, vars
<1>7. [Next]_vars => [DirNext]_dirVars
      BY DEF Next, vars
<1>8. [Next]_vars => [SpecNext]_specVars
      BY DEF Next, vars
<1>9. [Next]_vars => [MountNext]_mountVars
      BY DEF Next, vars
<1> QED BY <1>1, <1>2, <1>3, <1>4, <1>5, <1>6, <1>7, <1>8, <1>9, PTL
        DEF FairSpec, TermSpec, DeviceSpec, FeedSpec, ViewSpec, MapSpec, DirSpec, SpecSpec, MountSpec

\* Type correctness of all that administrators see and touch.
THEOREM DashboardTypeCorrect == FairSpec => []TypeOK
<1>1. TermTypeOK /\ DeviceTypeOK /\ FeedTypeOK /\ ViewTypeOK
        /\ MapTypeOK /\ DirTypeOK /\ SpecTypeOK /\ MountTypeOK => TypeOK
      BY DEF TypeOK
<1> QED BY <1>1, WholeHasParts, TermTypeCorrect, DeviceTypeCorrect, FeedTypeCorrect, ViewTypeCorrect,
           MapTypeCorrect, DirTypeCorrect, SpecTypeCorrect, MountTypeCorrect, PTL

\* Whatever the fleet, the filter and the width, both maps show every instance
\* once, nothing on them touches what it should not, and ribbons end where they
\* lead (fleet-map.js, network-map.js).
THEOREM MapsRightCorrect == FairSpec => []MapsRight
<1>1. MapsHold => MapsRight
      BY DEF MapsRight
<1> QED BY <1>1, WholeHasParts, MapsHoldCorrect, PTL

\* The promises of the parts hold in the system that consists of them.
THEOREM DashboardSafe ==
  FairSpec => /\ [](OneSocketPerTab /\ AdminRemains /\ ViewsAgree)
              /\ [](ActsOnTheShown /\ RecreatedAsCreated /\ KeyWithinBackend /\ MountsItsOwn)
              /\ [](BehindIsPending /\ MapsRight)
  BY WholeHasParts, OneSocketPerTabCorrect, AdminRemainsCorrect, ViewsAgreeCorrect, ActsOnTheShownCorrect,
     RecreatedAsCreatedCorrect, KeyWithinBackendCorrect, MountsItsOwnCorrect,
     BehindIsPendingCorrect, MapsRightCorrect, PTL
=============================================================================
