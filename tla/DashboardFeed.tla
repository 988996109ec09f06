--------------------------- MODULE DashboardFeed ---------------------------
(***************************************************************************)
(* How ONE dashboard learns of the state of the server: the WebSocket of   *)
(* events (broadcast of server/routes/instances.js), on which it refetches *)
(* the list of instances (src/hooks/useInstances.js), and the fleet graph, *)
(* which it polls (src/hooks/useTopology.js).                              *)
(*                                                                         *)
(* The state of the server is a version.  Some changes are broadcast, many *)
(* are not.  A fetch carries the version at the first of the reads that    *)
(* serve it; fetches of the list may overlap, and their answers arrive in  *)
(* any order.                                                              *)
(***************************************************************************)
EXTENDS Integers

CONSTANTS Fetches,    \* fetches of the list at once
          MaxVersion, \* changes of the server in a behaviour
          MaxLosses   \* sockets and fetches that fail

ASSUME MaxVersionAssumption == MaxVersion \in Nat
ASSUME MaxLossesAssumption == MaxLosses \in Nat

VARIABLES version,  \* the state of the server
          informed, \* history: as of the last change broadcast to this dashboard, or NoneYet
          socket,   \* the events socket: connected (in connectedClients) or not
          unread,   \* an event is on its way
          timer,    \* refreshTimer is set
          fetch,    \* per fetch of the list: free, asked for, or the answer under way
          list,     \* the version the list shows, or NoneYet
          active,   \* the graph view is mounted and the page visible
          inflight, \* useTopology's guard, with the answer under way
          graph,    \* the version the graph shows, or NoneYet
          losses,
          missed    \* history: an event or a fetch was lost, or an answer overtaken, since the last
                    \* fetch began

feedVars == <<version, informed, socket, unread, timer, fetch, list, active, inflight, graph, losses, missed>>

Versions == 0 .. MaxVersion
NoneYet == -1
Slots == [at : {"free", "asked", "answered"}, version : Versions]
Unasked == [at |-> "free", version |-> 0]
Asked == [at |-> "asked", version |-> 0]
Answer == [at |-> "answered", version |-> version]

FeedTypeOK ==
  /\ version \in Versions /\ informed \in Versions \cup {NoneYet}
  /\ list \in Versions \cup {NoneYet} /\ graph \in Versions \cup {NoneYet}
  /\ socket \in BOOLEAN /\ unread \in BOOLEAN /\ timer \in BOOLEAN /\ active \in BOOLEAN
  /\ fetch \in [Fetches -> Slots]
  /\ inflight \in Slots /\ losses \in Nat /\ missed \in BOOLEAN

FeedInit ==
  /\ version = 0 /\ informed = NoneYet /\ socket = FALSE /\ unread = FALSE /\ timer = TRUE
  /\ fetch = [f \in Fetches |-> Unasked] /\ list = NoneYet
  /\ active = FALSE /\ inflight = Unasked /\ graph = NoneYet
  /\ losses = MaxLosses /\ missed = FALSE

Loss == losses > 0 /\ losses' = losses - 1

\* A change of the server that is broadcast to the sockets there are: an event of a
\* container on a host that is listened to, a notification of its agent, a grant.
Broadcast ==
  /\ version < MaxVersion
  /\ version' = version + 1
  /\ informed' = IF socket THEN version' ELSE informed
  /\ unread' = (unread \/ socket)
  /\ UNCHANGED <<socket, timer, fetch, list, active, inflight, graph, losses, missed>>

\* One that is not: the routes that edit name, notes and tags, adopt a container
\* or write the row of a new one, and containers whose host's stream is down.
SilentChange ==
  /\ version < MaxVersion
  /\ version' = version + 1
  /\ UNCHANGED <<informed, socket, unread, timer, fetch, list, active, inflight, graph, losses, missed>>

-----------------------------------------------------------------------------
(* The list.                                                               *)

\* onopen resets the delay and fetches nothing.
Connect ==
  /\ ~socket /\ socket' = TRUE
  /\ UNCHANGED <<version, informed, unread, timer, fetch, list, active, inflight, graph, losses, missed>>

\* The socket breaks; what was on its way is lost, and a reconnect is due.
Disconnect ==
  /\ socket /\ Loss
  /\ socket' = FALSE /\ unread' = FALSE
  /\ missed' = (missed \/ unread)
  /\ UNCHANGED <<version, informed, timer, fetch, list, active, inflight, graph>>

MutSkipWhileLoading ==
  /\ unread /\ unread' = FALSE
  /\ timer' = (timer \/ \A f \in Fetches : fetch[f] = Unasked)
  /\ UNCHANGED <<version, informed, socket, fetch, list, active, inflight, graph, losses, missed>>

\* onmessage, scheduleRefresh: one refetch for a burst of events.
OnMessage ==
  /\ unread /\ unread' = FALSE
  /\ timer' = TRUE
  /\ UNCHANGED <<version, informed, socket, fetch, list, active, inflight, graph, losses, missed>>

\* loadInstances: by the timer (or at first), or after a command of the user.
LoadInstances(f) ==
  /\ fetch[f] = Unasked
  /\ fetch' = [fetch EXCEPT ![f] = Asked]
  /\ missed' = FALSE

Refresh(f) ==
  /\ timer /\ timer' = FALSE
  /\ LoadInstances(f)
  /\ UNCHANGED <<version, informed, socket, unread, list, active, inflight, graph, losses>>

AfterCommand(f) ==
  /\ LoadInstances(f)
  /\ UNCHANGED <<version, informed, socket, unread, timer, list, active, inflight, graph, losses>>

ServeList(f) ==
  /\ fetch[f] = Asked
  /\ fetch' = [fetch EXCEPT ![f] = Answer]
  /\ UNCHANGED <<version, informed, socket, unread, timer, list, active, inflight, graph, losses, missed>>

\* setInstances shows whatever arrives.
Overtaken(f) == fetch[f].version < list
ReceiveList(f) ==
  /\ fetch[f].at = "answered"
  /\ list' = fetch[f].version
  /\ missed' = (missed \/ Overtaken(f))
  /\ fetch' = [fetch EXCEPT ![f] = Unasked]
  /\ UNCHANGED <<version, informed, socket, unread, timer, active, inflight, graph, losses>>

\* A fetch that fails shows an error, and the list as it was.
FetchFails(f) ==
  /\ fetch[f] # Unasked /\ Loss
  /\ fetch' = [fetch EXCEPT ![f] = Unasked]
  /\ missed' = TRUE
  /\ UNCHANGED <<version, informed, socket, unread, timer, list, active, inflight, graph>>

-----------------------------------------------------------------------------
(* The graph.                                                              *)

ShowGraph ==
  /\ active' = ~active
  /\ UNCHANGED <<version, informed, socket, unread, timer, fetch, list, inflight, graph, losses, missed>>

MutPollOnce ==
  /\ active /\ inflight = Unasked /\ graph = NoneYet
  /\ inflight' = Asked
  /\ UNCHANGED <<version, informed, socket, unread, timer, fetch, list, active, graph, losses, missed>>

\* A poll, of the first or of the interval, unless one is under way.
Poll ==
  /\ active /\ inflight = Unasked
  /\ inflight' = Asked
  /\ UNCHANGED <<version, informed, socket, unread, timer, fetch, list, active, graph, losses, missed>>

ServeGraph ==
  /\ inflight = Asked
  /\ inflight' = Answer
  /\ UNCHANGED <<version, informed, socket, unread, timer, fetch, list, active, graph, losses, missed>>

\* Shown, or failed; either way the guard is down again.
GraphArrives ==
  /\ inflight.at = "answered"
  /\ inflight' = Unasked
  /\ \/ graph' = inflight.version /\ UNCHANGED losses
     \/ Loss /\ UNCHANGED graph
  /\ UNCHANGED <<version, informed, socket, unread, timer, fetch, list, active, missed>>

FeedNext ==
  \/ Broadcast \/ SilentChange \/ Connect \/ Disconnect \/ OnMessage
  \/ \E f \in Fetches : Refresh(f) \/ AfterCommand(f) \/ ServeList(f) \/ ReceiveList(f) \/ FetchFails(f)
  \/ ShowGraph \/ Poll \/ ServeGraph \/ GraphArrives

FeedSpec == FeedInit /\ [][FeedNext]_feedVars

-----------------------------------------------------------------------------
(* Properties.                                                             *)

\* A list that does not show yet what the dashboard was told of is never left at
\* that: an event, the timer or a fetch that will show it is under way, however
\* events, fetches and their answers overlap and whatever changes in silence,
\* unless the event or the fetch was lost, or an older answer came in last.
\* (useInstances.js; of what it is not told, the list says nothing.)
Refreshing(f) == fetch[f] = Asked \/ (fetch[f].at = "answered" /\ fetch[f].version >= informed)
BehindIsPending ==
  list >= informed \/ missed \/ unread \/ timer \/ \E f \in Fetches : Refreshing(f)

\* The graph, which polls, catches up with every change, silent ones too, as long as
\* its view stays open; the list with what it was told of, except that its hook neither
\* repeats a failed fetch nor orders its answers (useTopology.js, useInstances.js).
CatchesUp ==
  /\ <>[]active => <>[](graph = version)
  /\ []<>(list >= informed \/ missed)
=============================================================================
