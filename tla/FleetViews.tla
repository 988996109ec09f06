----------------------------- MODULE FleetViews -----------------------------
(***************************************************************************)
(* What an administrator is shown of the fleet: the graph the server makes *)
(* (server/topology.js), the three layouts the browser makes of it         *)
(* (src/lib/graph-layout.js, src/lib/fleet-map.js, src/lib/network-map.js) *)
(* and the list of instances (src/lib/instance-status.js).  Each has rules *)
(* of its own for the same facts.                                          *)
(*                                                                         *)
(* The hosts of a graph are read first, then asked for their containers    *)
(* one after the other; in between, hosts and instances change.  Places on *)
(* the canvas are not modelled: a layout is the set of things drawn, and   *)
(* what holds them.  An instance has one container: not modelled is the    *)
(* moment in which a recreate has two of the same id, and both are drawn.  *)
(***************************************************************************)
EXTENDS Naturals, FiniteSets

CONSTANTS Sites,    \* hosts
          Remote,   \* those that are not of kind local
          Boxes,    \* instances
          MaxMoves  \* changes of the world in a behaviour

ASSUME RemoteAssumption == Remote \subseteq Sites /\ Remote # Sites
ASSUME MaxMovesAssumption == MaxMoves \in Nat

VARIABLES site,  \* per registered host: it accepts instances; it is enabled and answers
          box,   \* per container of the fleet: what its labels, its state and its usage say
          ill,   \* the problem the health report has with an instance, if any
          making, \* the graph under way: the hosts it has read, those it has still to ask,
                  \* and the instances listed so far
          drawn, \* what the last graph was made of, while nothing has changed
          moves

viewVars == <<site, box, ill, making, drawn, moves>>

Policies == {"unrestricted", "claude-only"}
Lanes == {"claude-max", "local-llm"}
Ills == {"none", "acl", "proxy-env"}
SiteRecords == [accepts : BOOLEAN, answers : BOOLEAN]
BoxRecords == [on : Sites, policy : Policies, backend : Lanes, running : BOOLEAN,
               event : {"Notification", "Stop"}]
None0 == << >>  \* no host, no instance

ViewTypeOK ==
  /\ DOMAIN site \subseteq Sites /\ \A s \in DOMAIN site : site[s] \in SiteRecords
  /\ DOMAIN box \subseteq Boxes /\ \A b \in DOMAIN box : box[b] \in BoxRecords
  /\ ill \in [Boxes -> Ills] /\ moves \in Nat
  /\ making = None0 \/ (DOMAIN making = {"hosts", "asking", "listed"} /\ making.asking \subseteq Sites)
  /\ drawn = None0 \/ DOMAIN drawn = {"hosts", "listed", "ill"}

ViewInit ==
  /\ site = [s \in Sites \ Remote |-> [accepts |-> TRUE, answers |-> TRUE]]
  /\ box = None0 /\ ill = [b \in Boxes |-> "none"]
  /\ making = None0 /\ drawn = None0 /\ moves = MaxMoves

With(f, x, v) == [y \in DOMAIN f \cup {x} |-> IF y = x THEN v ELSE f[y]]
Without(f, x) == [y \in DOMAIN f \ {x} |-> f[y]]
Move == moves > 0 /\ moves' = moves - 1 /\ drawn' = None0 /\ UNCHANGED making

-----------------------------------------------------------------------------
(* The world.                                                              *)

\* A host is registered, edited, or stops or begins to answer.
SiteChanges(s, record) ==
  /\ Move
  /\ site' = With(site, s, record) /\ site' # site
  /\ UNCHANGED <<box, ill>>

\* A host is removed, which is refused while instances live there.
SiteGoes(s) ==
  /\ Move /\ s \in DOMAIN site \cap Remote /\ \A b \in DOMAIN box : box[b].on # s
  /\ site' = Without(site, s)
  /\ UNCHANGED <<box, ill>>

\* An instance is made on a host that accepts instances, with an id of its own; it
\* has reported no event, which is shown as a Stop is.
BoxAppears(b, record) ==
  /\ Move /\ b \notin DOMAIN box /\ (making # None0 => b \notin DOMAIN making.listed)
  /\ record.on \in DOMAIN site /\ site[record.on].accepts /\ record.event = "Stop"
  /\ box' = With(box, b, record)
  /\ UNCHANGED <<site, ill>>

BoxGoes(b) ==
  /\ Move /\ b \in DOMAIN box
  /\ box' = Without(box, b) /\ ill' = [ill EXCEPT ![b] = "none"]
  /\ UNCHANGED site

\* It stops, starts, or reports an event.
BoxMoves(b, running, event) ==
  /\ Move /\ b \in DOMAIN box
  /\ box' = [box EXCEPT ![b].running = running, ![b].event = event] /\ box' # box
  /\ UNCHANGED <<site, ill>>

\* The health monitor looks at running restricted instances of the local daemon.
Checked(b, found) ==
  /\ Move /\ b \in DOMAIN box
  /\ box[b].running /\ box[b].policy # "unrestricted" /\ box[b].on \notin Remote
  /\ ill' = [ill EXCEPT ![b] = found] /\ ill' # ill
  /\ UNCHANGED <<site, box>>

-----------------------------------------------------------------------------
(* topology.js, buildTopology; docker.js, listManagedContainersByHost.     *)

ReadHosts ==
  /\ making = None0
  /\ making' = [hosts |-> site, asking |-> DOMAIN site, listed |-> None0]
  /\ UNCHANGED <<site, box, ill, drawn, moves>>

\* A host that is gone, disabled or does not answer by then is skipped.
AnswersNow(s) == s \in DOMAIN site /\ site[s].answers
HasNow(s) == {b \in DOMAIN box : box[b].on = s /\ AnswersNow(s)}

AskHost(s) ==
  /\ making # None0 /\ s \in making.asking
  /\ making' = [hosts |-> making.hosts, asking |-> making.asking \ {s},
               listed |-> [b \in DOMAIN making.listed \cup HasNow(s) |->
                             IF b \in HasNow(s) THEN box[b] ELSE making.listed[b]]]
  /\ UNCHANGED <<site, box, ill, drawn, moves>>

\* The rest is read at the end: the last event of each instance still there, and
\* the health report.
EventNow(b) == IF b \in DOMAIN box THEN box[b].event ELSE "Stop"

DrawGraph ==
  /\ making # None0 /\ making.asking = {} /\ making' = None0
  /\ drawn' = [hosts |-> making.hosts, ill |-> ill,
               listed |-> [b \in DOMAIN making.listed |-> [making.listed[b] EXCEPT !.event = EventNow(b)]]]
  /\ UNCHANGED <<site, box, ill, moves>>

Restricted(policy) == policy # "unrestricted"
Egress(policy) == IF Restricted(policy) THEN "proxied" ELSE "direct"
Node(type, id) == <<type, id>>
Internet == Node("internet", "internet")

HostNodes(g) == {Node("host", s) : s \in DOMAIN g.hosts}
ProxyNodes(g) == {Node("proxy", s) : s \in {t \in DOMAIN g.hosts : g.hosts[t].accepts}}
InstanceNodes(g) == {Node("instance", b) : b \in DOMAIN g.listed}
\* The router is not configured here: its backend has no node, and no edges.
Nodes(g) ==
  HostNodes(g) \cup ProxyNodes(g) \cup InstanceNodes(g)
    \cup {Internet, Node("backend", "claude-max")}

\* How far the restriction of an instance is backed, as far as the hosts of the
\* graph and the health report tell.
Grade(g, b) ==
  LET at == g.listed[b].on IN
    CASE ~Restricted(g.listed[b].policy) -> "open"
      [] Restricted(g.listed[b].policy) /\ at \in DOMAIN g.hosts \cap Remote -> "unenforceable"
      [] Restricted(g.listed[b].policy) /\ at \notin DOMAIN g.hosts \cap Remote /\ g.ill[b] = "acl" -> "broken"
      [] OTHER -> "enforced"

Edge(from, to, kind, grade) == [from |-> from, to |-> to, kind |-> kind, grade |-> grade]

EgressEdge(g, b) ==
  IF Restricted(g.listed[b].policy)
  THEN Edge(Node("instance", b), Node("proxy", g.listed[b].on), "egress-via", Grade(g, b))
  ELSE Edge(Node("instance", b), Internet, "direct-egress", "open")

ModelEdges(g) ==
  {e \in {Edge(Node("instance", b), Node("backend", g.listed[b].backend), "uses-model", "") :
             b \in DOMAIN g.listed} : e.to \in Nodes(g)}

Edges(g) ==
  {Edge(p, Node("host", p[2]), "runs-on", "") : p \in ProxyNodes(g)}
    \cup {Edge(p, Internet, "allowlisted-egress", "enforced") : p \in ProxyNodes(g)}
    \cup {Edge(Node("backend", "claude-max"), Internet, "reaches", "")}
    \cup {Edge(Node("instance", b), Node("host", g.listed[b].on), "runs-on", "") : b \in DOMAIN g.listed}
    \cup {EgressEdge(g, b) : b \in DOMAIN g.listed} \cup ModelEdges(g)

\* The fleet's verdict: what the health report says, and what cannot be enforced.
Problems0(g) ==
  {b \in Boxes : g.ill[b] # "none"} \cup {e.from[2] : e \in {x \in Edges(g) : x.grade = "unenforceable"}}

-----------------------------------------------------------------------------
(* The layouts.  A tile is an instance in the band of a host, in a lane.   *)

Tile(b, s, lane) == [box |-> b, host |-> s, lane |-> lane]
ShownStatus(g, b) == IF g.listed[b].running THEN "ok" ELSE "stopped"

\* fleet-map.js: a band per host, a lane per backend.
MutForgetStopped(g, b) ==
  IF g.listed[b].event = "Notification" THEN "attention" ELSE "running"

InstanceState(g, b) ==
  CASE ShownStatus(g, b) # "ok" -> "stopped"
    [] ShownStatus(g, b) = "ok" /\ g.listed[b].event = "Notification" -> "attention"
    [] OTHER -> "running"
FleetTiles(g) ==
  {Tile(b, s, lane) : b \in DOMAIN g.listed, s \in DOMAIN g.hosts, lane \in Lanes}
FleetMap(g) == {t \in FleetTiles(g) : g.listed[t.box].on = t.host /\ g.listed[t.box].backend = t.lane}

\* network-map.js: a band per host with instances, a lane per policy, and a gate
\* per host with lanes of proxied instances.
NetworkMap(g) ==
  {t \in {Tile(b, s, p) : b \in DOMAIN g.listed, s \in DOMAIN g.hosts, p \in Policies} :
     g.listed[t.box].on = t.host /\ g.listed[t.box].policy = t.lane}
Gates(g) ==
  {[host |-> t.host, enforced |-> t.host \notin Remote] :
     t \in {u \in NetworkMap(g) : Egress(g.listed[u.box].policy) = "proxied"}}

\* graph-layout.js: boxes of hosts, of the instances around each, and of its proxy.
Placed(g) ==
  HostNodes(g) \cup ProxyNodes(g) \cup {Internet, Node("backend", "claude-max")}
    \cup {Node("instance", b) : b \in {c \in DOMAIN g.listed : g.listed[c].on \in DOMAIN g.hosts}}

-----------------------------------------------------------------------------
(* instance-status.js: the list.                                           *)

EventKind(event) == IF event = "Notification" THEN "waiting" ELSE "idle"
NeedsInput(i) == i.running /\ EventKind(i.event) = "waiting"

\* A sort: waiting instances first; the order is the same otherwise.
RankOf(i) == IF NeedsInput(i) THEN 0 ELSE 1
Precedes(g, list, i, j) ==
  LET rank(k) == RankOf(g.listed[list[k]]) IN rank(i) < rank(j) \/ (rank(i) = rank(j) /\ i < j)
PlaceOf(g, list, i) == Cardinality({j \in DOMAIN list : ~Precedes(g, list, i, j)})
ByAttention(g, list) == [n \in DOMAIN list |-> list[CHOOSE i \in DOMAIN list : PlaceOf(g, list, i) = n]]

-----------------------------------------------------------------------------
ViewNext ==
  \/ \E s \in Sites : SiteGoes(s) \/ AskHost(s) \/ \E record \in SiteRecords : SiteChanges(s, record)
  \/ \E b \in Boxes :
       \/ BoxGoes(b)
       \/ \E record \in BoxRecords : BoxAppears(b, record)
       \/ \E running \in BOOLEAN, event \in {"Notification", "Stop"} : BoxMoves(b, running, event)
       \/ \E found \in Ills : Checked(b, found)
  \/ ReadHosts \/ DrawGraph

ViewSpec == ViewInit /\ [][ViewNext]_viewVars

-----------------------------------------------------------------------------
(* Properties.                                                             *)

Orders(g) == {o \in [1 .. Cardinality(DOMAIN g.listed) -> DOMAIN g.listed] :
                {o[n] : n \in DOMAIN o} = DOMAIN g.listed}

\* An instance is drawn once on each map and in the graph, at its own host.
DrawnOnce(g) ==
  \A b \in DOMAIN g.listed :
    /\ Cardinality({t \in FleetMap(g) : t.box = b}) = 1
    /\ Cardinality({t \in NetworkMap(g) : t.box = b}) = 1
    /\ {t.host : t \in {u \in FleetMap(g) \cup NetworkMap(g) : u.box = b}} = {g.listed[b].on}
    /\ Node("instance", b) \in Placed(g)

\* An edge joins nodes that are there.
EdgesJoin(g) == \A e \in Edges(g) : {e.from, e.to} \subseteq Nodes(g)

\* The proxy of every restricted instance is drawn: its host accepted instances
\* when the graph read it.
ProxiesDrawn(g) ==
  \A b \in DOMAIN g.listed : Restricted(g.listed[b].policy) => g.hosts[g.listed[b].on].accepts

\* Where the graph finds a policy unenforceable, the verdict lists the instance and
\* the network map draws its gate as not enforced, and only there.
GradesAgree(g) ==
  \A b \in DOMAIN g.listed :
    LET unbacked == EgressEdge(g, b).grade = "unenforceable" IN
      /\ unbacked <=> [host |-> g.listed[b].on, enforced |-> FALSE] \in Gates(g)
                        /\ Restricted(g.listed[b].policy)
      /\ unbacked => b \in Problems0(g)
      /\ EgressEdge(g, b).grade = "broken" => b \in Problems0(g)

\* What the fleet map marks for attention the list puts on top.
AttentionOnTop(g) ==
  \A o \in Orders(g) :
    LET list == ByAttention(g, o) IN
      \A n \in DOMAIN list :
        InstanceState(g, list[n]) = "attention" <=>
          n =< Cardinality({b \in DOMAIN g.listed : InstanceState(g, b) = "attention"})

\* The views say the same of an instance, though each decides for itself, whatever
\* happens to the fleet while the graph is made; and while the proxies of all
\* restricted instances are drawn, no edge points at a node that does not exist.
\* topology.js, buildTopology; fleet-map.js; network-map.js; graph-layout.js;
\* instance-status.js.
ViewsAgree ==
  drawn # None0 => /\ DrawnOnce(drawn) /\ GradesAgree(drawn) /\ AttentionOnTop(drawn)
                   /\ ProxiesDrawn(drawn) => EdgesJoin(drawn)

\* No edge may point at a node that does not exist, whatever an administrator does
\* to a host (tests/14-topology.test.js:5-7, topology.js:4-6).  Refuted: buildTopology
\* leaves out the proxy of a host that accepts no instances any more, and still draws
\* the egress of a restricted instance on it to that proxy.
NoDanglingEdge == drawn # None0 => EdgesJoin(drawn)
=============================================================================
