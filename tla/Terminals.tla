----------------------------- MODULE Terminals -----------------------------
(***************************************************************************)
(* Browser terminals on ONE instance: the sessions the server keeps        *)
(* (server/routes/terminal.js) and the tab that connects, reconnects and   *)
(* unmounts (src/components/TerminalTab.jsx, Terminal.jsx).                *)
(*                                                                         *)
(* A mount of the tab is a component with refs of its own; the panel has   *)
(* one at a time.  A link is a WebSocket seen from both ends: the client's *)
(* end and the server's handler learn of each other's moves later, or, if  *)
(* the network drops the link, not at all.  A link both ends are done with *)
(* stands for the next one.                                                *)
(***************************************************************************)
EXTENDS Naturals, FiniteSets

CONSTANTS Mounts,     \* mounts of the tab, in a behaviour
          Links,      \* WebSockets at once
          MaxDelay,   \* the longest reconnect delay, in doublings
          MaxFaults,  \* links dropped and calls to Docker that fail
          NoLink

ASSUME NoLinkAssumption == NoLink \notin Links
ASSUME MaxDelayAssumption == MaxDelay \in Nat
ASSUME MaxFaultsAssumption == MaxFaults \in Nat

VARIABLES inst,    \* the container: "running", "stopped" or "gone"
          tab,     \* per mount: its stage, its wsRef, a reconnect timer, the delay
          client,  \* per link, the browser's end: readyState
          told,    \* per link, what the server's close tells the client, if any
          server,  \* per link, where its handler is
          heard,   \* per link, isAlive of the heartbeat
          bus,     \* the link registered in terminalBus for the instance
          faultsLeft

termVars == <<inst, tab, client, told, server, heard, bus, faultsLeft>>

Tracked(l) == server[l] \in {"prime", "serving"}   \* activeSessions
HasOpenTerminal == \E l \in Links : Tracked(l)
Free == {l \in Links : client[l] = "closed" /\ server[l] = "over"}
Mounted == {m \in Mounts : tab[m].stage = "mounted"}
Codes == {"final", "plain"}

TermTypeOK ==
  /\ inst \in {"running", "stopped", "gone"}
  /\ tab \in [Mounts -> [stage : {"new", "mounted", "gone"}, ws : Links \cup {NoLink},
                         retry : BOOLEAN, delay : 0 .. MaxDelay]]
  /\ client \in [Links -> {"connecting", "open", "closing", "closed"}]
  /\ told \in [Links -> Codes \cup {"nothing"}]
  /\ server \in [Links -> {"lookup", "pty", "prime", "serving", "over"}]
  /\ heard \in [Links -> BOOLEAN]
  /\ bus \in Links \cup {NoLink}
  /\ faultsLeft \in Nat

TermInit ==
  /\ inst = "running"
  /\ tab = [m \in Mounts |-> [stage |-> "new", ws |-> NoLink, retry |-> FALSE, delay |-> 0]]
  /\ client = [l \in Links |-> "closed"] /\ told = [l \in Links |-> "nothing"]
  /\ server = [l \in Links |-> "over"] /\ heard = [l \in Links |-> FALSE]
  /\ bus = NoLink /\ faultsLeft = MaxFaults

Fault == faultsLeft > 0 /\ faultsLeft' = faultsLeft - 1
Owner(l) == {m \in Mounts : tab[m].ws = l}

-----------------------------------------------------------------------------
(* The tab.                                                                *)

\* connect: a new socket in wsRef; the upgrade starts a handler.
ConnectVia(l) ==
  /\ client' = [client EXCEPT ![l] = "connecting"]
  /\ server' = [server EXCEPT ![l] = "lookup"]
  /\ told' = [told EXCEPT ![l] = "nothing"]
  /\ heard' = [heard EXCEPT ![l] = TRUE]

Mount(m) ==
  /\ tab[m].stage = "new" /\ Mounted = {}
  /\ \E l \in Free :
       /\ tab' = [tab EXCEPT ![m] = [@ EXCEPT !.stage = "mounted", !.ws = l]]
       /\ ConnectVia(l)
  /\ UNCHANGED <<inst, bus, faultsLeft>>

MutCloseOpenOnly(m) ==
  /\ tab[m].stage = "mounted"
  /\ tab' = [tab EXCEPT ![m] = [@ EXCEPT !.stage = "gone", !.retry = FALSE]]
  /\ bus' = NoLink
  /\ client' = [client EXCEPT ![tab[m].ws] = IF @ = "open" THEN "closing" ELSE @]
  /\ UNCHANGED <<inst, told, server, heard, faultsLeft>>

\* Minimising the panel or closing the tab: closingRef, clearTimeout, close.
Unmount(m) ==
  /\ tab[m].stage = "mounted"
  /\ tab' = [tab EXCEPT ![m] = [@ EXCEPT !.stage = "gone", !.retry = FALSE]]
  /\ bus' = NoLink
  /\ client' = [client EXCEPT ![tab[m].ws] = IF @ = "closed" THEN @ ELSE "closing"]
  /\ UNCHANGED <<inst, told, server, heard, faultsLeft>>

OnOpen(l) ==
  /\ client[l] = "connecting"
  /\ client' = [client EXCEPT ![l] = "open"]
  /\ bus' = l
  /\ UNCHANGED <<inst, tab, told, server, heard, faultsLeft>>

\* The first output of a session resets the delay.
OnData(l) ==
  /\ client[l] = "open" /\ server[l] = "serving"
  /\ \E m \in Owner(l) :
       /\ tab[m].delay > 0
       /\ tab' = [tab EXCEPT ![m].delay = 0]
  /\ UNCHANGED <<inst, client, told, server, heard, bus, faultsLeft>>

\* onclose: 4404 and 4409 are final, anything else is retried, unless the tab
\* was unmounted.
MutRetryFinal(m, code) == [tab[m] EXCEPT !.retry = (@ \/ tab[m].stage = "mounted")]

AfterClose(m, code) == [tab[m] EXCEPT !.retry = (@ \/ (tab[m].stage = "mounted" /\ code # "final"))]
OnClose(l, code) ==
  /\ client' = [client EXCEPT ![l] = "closed"]
  /\ bus' = NoLink
  /\ tab' = [m \in Mounts |-> IF m \in Owner(l) THEN AfterClose(m, code) ELSE tab[m]]

\* The close of the server, or the end of the client's own, reaches the client.
ClientCloses(l) ==
  /\ client[l] # "closed"
  /\ told[l] \in Codes \/ client[l] = "closing"
  /\ OnClose(l, IF told[l] \in Codes THEN told[l] ELSE "plain")
  /\ UNCHANGED <<inst, told, server, heard, faultsLeft>>

\* The link is dropped: the client notices, the server is not told.
Dropped(l) ==
  /\ client[l] \in {"connecting", "open"} /\ Fault
  /\ OnClose(l, "plain")
  /\ UNCHANGED <<inst, told, server, heard>>

MutDelay(d) == d + 1

NextDelay(d) == IF d < MaxDelay THEN d + 1 ELSE d
RetryFires(m) ==
  /\ tab[m].retry
  /\ \/ /\ tab[m].stage = "mounted"
        /\ \E l \in Free :
             /\ ConnectVia(l)
             /\ tab' = [tab EXCEPT ![m] = [@ EXCEPT !.retry = FALSE, !.ws = l,
                          !.delay = NextDelay(tab[m].delay)]]
     \/ /\ tab[m].stage # "mounted"   \* closingRef: connect does nothing
        /\ tab' = [tab EXCEPT ![m] = [@ EXCEPT !.retry = FALSE,
                     !.delay = NextDelay(tab[m].delay)]]
        /\ UNCHANGED <<client, server, told, heard>>
  /\ UNCHANGED <<inst, bus, faultsLeft>>

-----------------------------------------------------------------------------
(* The handler.                                                            *)

Reject(l, code) ==
  /\ server' = [server EXCEPT ![l] = "over"]
  /\ told' = [told EXCEPT ![l] = code]

\* getContainer: unknown and stopped instances are refused with final codes; any
\* other error rejects the handler.
Lookup(l) ==
  /\ server[l] = "lookup"
  /\ \/ inst = "running" /\ server' = [server EXCEPT ![l] = "pty"] /\ UNCHANGED <<told, faultsLeft>>
     \/ inst # "running" /\ Reject(l, "final") /\ UNCHANGED faultsLeft
     \/ Fault /\ Reject(l, "plain")
  /\ UNCHANGED <<inst, tab, client, heard, bus>>

\* createPTY, the timers, activeSessions.set.
CreatePTY(l) ==
  /\ server[l] = "pty"
  /\ \/ inst = "running" /\ server' = [server EXCEPT ![l] = "prime"] /\ UNCHANGED <<told, faultsLeft>>
     \/ inst # "running" /\ Reject(l, "plain") /\ UNCHANGED faultsLeft
     \/ Fault /\ Reject(l, "plain")
  /\ UNCHANGED <<inst, tab, client, heard, bus>>

\* The clipboard is primed, and only now are the close handlers attached: a
\* close the client sent before is not seen by anyone.
Serve(l) ==
  /\ server[l] = "prime"
  /\ server' = [server EXCEPT ![l] = "serving"]
  /\ UNCHANGED <<inst, tab, client, told, heard, bus, faultsLeft>>

\* cleanupSession, from the handler or one of its timers.  During the priming its
\* variables do not exist yet: it throws out of the timer, which ends the process
\* and every connection, and Docker starts the manager again.
ProcessDies ==
  /\ server' = [l \in Links |-> "over"]
  /\ told' = [l \in Links |-> IF server[l] = "over" THEN told[l] ELSE "plain"]
CleanupSession(l) ==
  \/ server[l] = "serving" /\ Reject(l, "plain")
  \/ server[l] = "prime" /\ ProcessDies

\* A close frame is seen if it arrives while the handlers are there.
ServerSeesClose(l) ==
  /\ server[l] = "serving" /\ client[l] = "closing"
  /\ CleanupSession(l)
  /\ UNCHANGED <<inst, tab, client, heard, bus, faultsLeft>>

StreamEnds(l) ==
  /\ server[l] = "serving" /\ inst # "running"
  /\ CleanupSession(l)
  /\ UNCHANGED <<inst, tab, client, heard, bus, faultsLeft>>

\* Half an hour without input.
IdleTimeout(l) ==
  /\ Tracked(l)
  /\ CleanupSession(l)
  /\ UNCHANGED <<inst, tab, client, heard, bus, faultsLeft>>

\* The heartbeat: a client that has not answered the last ping is dead.
MutPingOnly(l) ==
  /\ Tracked(l)
  /\ heard' = [heard EXCEPT ![l] = FALSE]
  /\ UNCHANGED <<server, told, inst, tab, client, bus, faultsLeft>>

Heartbeat(l) ==
  /\ Tracked(l)
  /\ \/ heard[l] /\ heard' = [heard EXCEPT ![l] = FALSE] /\ UNCHANGED <<server, told>>
     \/ ~heard[l] /\ CleanupSession(l) /\ UNCHANGED heard
  /\ UNCHANGED <<inst, tab, client, bus, faultsLeft>>

Pong(l) ==
  /\ Tracked(l) /\ ~heard[l] /\ client[l] = "open"
  /\ heard' = [heard EXCEPT ![l] = TRUE]
  /\ UNCHANGED <<inst, tab, client, told, server, bus, faultsLeft>>

\* The instance is started, stopped or removed, by whomever.
InstanceChanges ==
  /\ inst # "gone"
  /\ inst' \in {"running", "stopped", "gone"} \ {inst}
  /\ UNCHANGED <<tab, client, told, server, heard, bus, faultsLeft>>

ServerStep(l) == Lookup(l) \/ CreatePTY(l) \/ Serve(l) \/ ServerSeesClose(l) \/ StreamEnds(l)
ClientStep(l) == OnOpen(l) \/ ClientCloses(l)

TermNext ==
  \/ \E m \in Mounts : Mount(m) \/ Unmount(m) \/ RetryFires(m)
  \/ \E l \in Links : ServerStep(l) \/ ClientStep(l) \/ OnData(l) \/ Dropped(l)
                      \/ IdleTimeout(l) \/ Heartbeat(l) \/ Pong(l)
  \/ InstanceChanges

TermSpec == TermInit /\ [][TermNext]_termVars

-----------------------------------------------------------------------------
(* Properties.                                                             *)

\* A session whose client is gone does not stay among the active ones, where it
\* would keep its instance from the idle stop: even one whose close came before
\* the handler was there to see it, or never came.  terminal.js, heartbeat.
DeadSessionsGo ==
  \A l \in Links : (Tracked(l) /\ client[l] = "closed") ~> ~Tracked(l)

\* The only live socket is the one in the wsRef of the mounted tab: none beside
\* it, none while a reconnect is due, none opened after the tab unmounted; and
\* input goes to an open socket or nowhere.  TerminalTab.jsx, terminalBus.js.
OneSocketPerTab ==
  /\ \A l \in Links : client[l] \in {"connecting", "open"} =>
       \E m \in Mounted : tab[m].ws = l /\ ~tab[m].retry
  /\ Cardinality(Mounted) =< 1
  /\ bus # NoLink => client[bus] = "open"

\* A tab on an instance that stays stopped or gone comes to rest ("it used to
\* retry ~1/s forever"): the reconnects end.
TabsRest ==
  <>[](inst # "running") => <>[](\A m \in Mounts : ~tab[m].retry)
=============================================================================
