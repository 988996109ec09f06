----------------------------- MODULE MapLayout -----------------------------
(***************************************************************************)
(* Where the two maps of the fleet put things: src/lib/fleet-map.js and    *)
(* src/lib/network-map.js are pure functions of the topology, the filters  *)
(* and the width, so they are operators here, of how many instances of     *)
(* each kind there are on each machine and what the proxies refused.  The  *)
(* steps are the refetches, which may find another fleet.                  *)
(*                                                                         *)
(* Lengths are in hundredths of a pixel, and halves are rounded down.      *)
(* Wording, colours, and which tile of a group is whose are left out.      *)
(***************************************************************************)
EXTENDS Integers, Sequences, FiniteSets
Seqs == INSTANCE SequencesExt

CONSTANTS Width,      \* of the drawing
          GroupSizes, \* how many instances of a kind there may be on a machine
          Refusals,   \* and how many refused requests
          MaxParts    \* how many kinds and counts of refusals are not zero

ASSUME SizesAssumption == Width \in Int /\ GroupSizes \subseteq Nat /\ Refusals \subseteq Nat
ASSUME MaxPartsAssumption == MaxParts \in Nat

VARIABLES count,    \* per machine and kind: how many instances
          refused,  \* per machine: how many requests its proxy has refused
          chosen    \* the filter by host of the fleet map; empty: no filter

mapVars == <<count, refused, chosen>>

Machines == <<"local", "ws">>
\* The kinds of instances: backend, model, policy.
Kinds == << <<"claude-max", "default", "unrestricted">>,
            <<"ghcopilot", "gpt-6.1-sol", "claude-full-dev">>,
            <<"ghcopilot", "sonnet-5.5", "unrestricted">>,
            <<"github-copilot", "gpt-6.1-sol", "claude-full-dev">>,
            <<"local-llm", "qwen3-30b-a3b", "claude-only">> >>
Hosts2 == {"local", "ws"}
Parts(c, r) == Cardinality({p \in Hosts2 \X DOMAIN Kinds : c[p[1]][p[2]] > 0}) + Cardinality({h \in Hosts2 : r[h] > 0})

MapTypeOK ==
  /\ count \in [Hosts2 -> [DOMAIN Kinds -> GroupSizes \cup {0}]]
  /\ refused \in [Hosts2 -> Refusals \cup {0}] /\ chosen \subseteq Hosts2
  /\ Parts(count, refused) <= MaxParts

MapInit ==
  /\ count = [h \in Hosts2 |-> [k \in DOMAIN Kinds |-> 0]] /\ refused = [h \in Hosts2 |-> 0]
  /\ chosen = {}

-----------------------------------------------------------------------------
(* What both maps share.                                                   *)

Larger(a, b) == IF a > b THEN a ELSE b
Smaller(a, b) == IF a < b THEN a ELSE b
Sum(S, of(_)) == Seqs!SumFunction([x \in S |-> of(x)])
Total(seq, of(_)) == Sum(DOMAIN seq, LAMBDA i : of(seq[i]))

W == Larger(110000, Width)
TILE == 1600
GAP == 500
PITCH == TILE + GAP
GROUP_GAP == 1400
CHAR == 570
LABEL_H == 1300
LANE_HEAD == 3000
LANE_PAD == 1200
HOST_GAP == 2600
FieldX == 26200

MutCols(g, width) == Smaller(g.n, (width + PITCH) \div PITCH)
\* How many tiles of a group stand side by side.
Cols(g, width) == Smaller(g.n, Larger(1, (width + GAP) \div PITCH))

\* A group: its label, and under it rows of tiles.
Block(g, x, y, width) ==
  LET cols == Cols(g, width)
      rows == (g.n + cols - 1) \div cols
  IN [x |-> x, y |-> y, w |-> Larger(cols * PITCH - GAP, g.text * CHAR),
      h |-> LABEL_H + rows * PITCH - GAP, n |-> g.n, cols |-> cols]

\* A group that is not empty comes to the right of those there are, or into a
\* new row if it is too wide for this one.
Put(at, g, width) ==
  LET wraps == at.x > 0 /\ at.x + Block(g, 0, 0, width).w > width
      b == IF wraps THEN Block(g, 0, at.y + at.rowH + GROUP_GAP, width) ELSE Block(g, at.x, at.y, width)
  IN IF g.n = 0 THEN at
     ELSE [x |-> b.x + b.w + GROUP_GAP, y |-> b.y, blocks |-> Append(at.blocks, b),
           rowH |-> Larger(IF wraps THEN 0 ELSE at.rowH, b.h)]

\* One lane, from its upper left corner.
LayoutLane(groups, width) ==
  LET laid[k \in 0..Len(groups)] ==
        IF k = 0 THEN [x |-> 0, y |-> 0, blocks |-> << >>, rowH |-> 0]
        ELSE Put(laid[k - 1], groups[k], width)
  IN laid[Len(groups)]

\* The upper left corners of a group's tiles.
Tiles(b) ==
  {<<b.x + (i % b.cols) * PITCH, b.y + LABEL_H + (i \div b.cols) * PITCH>> : i \in 0..(b.n - 1)}

\* The lanes of a machine that are not empty, as they are laid out, one below
\* the other.
AddLane(at, h, id, groups, laid) ==
  LET height == LANE_HEAD + laid.y + laid.rowH + LANE_PAD
  IN IF laid.blocks = << >> THEN at
     ELSE [y |-> at.y + height + 800,
           lanes |-> Append(at.lanes, [host |-> h, id |-> id, y |-> at.y, h |-> height, blocks |-> laid.blocks,
                                       count |-> Total(groups, LAMBDA g : g.n), anchorY |-> at.y + height \div 2])]

HostLanes(at, h, ids, groupsOf, width) ==
  LET laid[k \in 0..Len(ids)] ==
        IF k = 0 THEN [y |-> at.y, lanes |-> at.lanes]
        ELSE AddLane(laid[k - 1], h, ids[k], groupsOf[h][ids[k]], LayoutLane(groupsOf[h][ids[k]], width))
  IN laid[Len(ids)]

\* The machines that are drawn, with their lanes, one below the other.
AddBand(at, h, laid) ==
  LET bandH == Larger(15000, laid.y - at.y)
  IN [y |-> at.y + bandH + HOST_GAP, lanes |-> laid.lanes,
      hosts |-> Append(at.hosts, [id |-> h, y |-> at.y, h |-> bandH])]

Bands(drawn, ids, groupsOf, width) ==
  LET laid[k \in 0..Len(Machines)] ==
        IF k = 0 THEN [y |-> 1800, lanes |-> << >>, hosts |-> << >>]
        ELSE IF Machines[k] \notin drawn THEN laid[k - 1]
        ELSE AddBand(laid[k - 1], Machines[k], HostLanes(laid[k - 1], Machines[k], ids, groupsOf, width))
  IN laid[Len(Machines)]

Thick(n) == Larger(300, Smaller(4600, 300 + n * 115))

\* The lanes S as ribbons: how thick, from where, and for how many instances.
Ribbons(L, S) == [i \in S |-> [t |-> Thick(L[i].count), y |-> L[i].anchorY, n |-> L[i].count]]
InT(ribbons) == Total(ribbons, LAMBDA r : r.t)
InN(ribbons) == Total(ribbons, LAMBDA r : r.n)

\* Where ribbons that arrive at an edge end: stacked in the order of where they
\* come from, from off on.
Before(ribbons, j, k) ==
  ribbons[j].y < ribbons[k].y \/ (ribbons[j].y = ribbons[k].y /\ j < k)
Stacked(ribbons, off) ==
  [k \in DOMAIN ribbons |->
     off + Sum({j \in DOMAIN ribbons : Before(ribbons, j, k)}, LAMBDA j : ribbons[j].t) + ribbons[k].t \div 2]

\* Where the stack begins when ribbons this thick are in the middle of a box.
Middle(box, t) == box.y + (box.h - t) \div 2

\* The middle of ribbons, weighted by how thick they are.
Centre(ribbons) == Total(ribbons, LAMBDA r : r.y * r.t) \div Larger(1, InT(ribbons))

\* Boxes of these heights, one below the other, in the middle of the picture.
Piled(h, gap, height) ==
  LET total == Sum(DOMAIN h, LAMBDA i : h[i]) + gap * Larger(0, Cardinality(DOMAIN h) - 1)
      top == Larger(1600, (height - total) \div 2)
  IN [i \in DOMAIN h |-> [y |-> top + Sum({j \in DOMAIN h : j < i}, LAMBDA j : h[j] + gap), h |-> h[i]]]

-----------------------------------------------------------------------------
(* fleet-map.js.                                                           *)

LANES == <<"claude-max", "anthropic-api", "ghcopilot", "github-copilot", "local-llm",
           "foundry", "foundry-latest">>
Direct == {"claude-max", "github-copilot"}
PROVIDERS == <<"max", "anthropic", "github", "gpu", "azure">>
ProviderOf(lane) ==
  CASE lane = "claude-max" -> "max"
    [] lane = "anthropic-api" -> "anthropic"
    [] lane \in {"ghcopilot", "github-copilot"} -> "github"
    [] lane = "local-llm" -> "gpu"
    [] OTHER -> "azure"

\* The models in their order, with the length of what is written over a group.
ModelOrder == << <<"default", 7>>, <<"gpt-6.1-sol", 11>>, <<"qwen3-30b-a3b", 13>>, <<"sonnet-5.5", 10>> >>

HowMany(h, S) == Sum(S, LAMBDA k : count[h][k])
All(h) == HowMany(h, DOMAIN Kinds)

\* The filter by host; with one, the machines it excludes are not drawn either.
Passes(h) == chosen = {} \/ h \in chosen

FleetGroups ==
  [h \in Hosts2 |-> [lane \in Seqs!ToSet(LANES) |->
     [m \in DOMAIN ModelOrder |->
        [text |-> ModelOrder[m][2],
         n |-> HowMany(h, {k \in DOMAIN Kinds : Kinds[k][1] = lane /\ Kinds[k][2] = ModelOrder[m][1]})]]]]

FieldWidth(x, margin) == x - margin - FieldX
FleetBands == Bands({h \in Hosts2 : Passes(h)}, LANES, FleetGroups, FieldWidth((W * 7) \div 10, 15000))

RouterH(inT, providers) == Larger(Larger(12000, inT + 6000), 9600 + 2200 * providers)

\* The lanes that go through the router, those that end at a provider, and the
\* providers that have such lanes.
ViaRouter(L) == {i \in DOMAIN L : L[i].id \notin Direct}
To(L, p) == {i \in DOMAIN L : ProviderOf(L[i].id) = PROVIDERS[p]}
Used(L) == {p \in DOMAIN PROVIDERS : To(L, p) # {}}
Split(L) == {p \in DOMAIN PROVIDERS : To(L, p) \cap ViaRouter(L) # {}}

Router(L, height) ==
  LET into == Ribbons(L, ViaRouter(L))
      h == RouterH(InT(into), Cardinality(Split(L)))
      centre == IF ViaRouter(L) = {} THEN height \div 2 ELSE Centre(into)
  IN [y |-> Larger(1600, Smaller(height - h - 1600, centre - h \div 2)), h |-> h]

\* What a provider gets: the direct lanes, and one ribbon (0) from the router.
IntoProvider(L, p, router) ==
  LET routed == Ribbons(L, To(L, p) \cap ViaRouter(L))
  IN [i \in (To(L, p) \ ViaRouter(L)) \cup {k \in {0} : p \in Split(L)} |->
        IF i = 0 THEN [t |-> InT(routed), y |-> router.y + router.h \div 2, n |-> InN(routed)]
        ELSE Ribbons(L, {i})[i]]

\* The picture around the bands: boxes, the ribbons that enter each of them from
\* the left, and where these end.  (The ribbons that leave the router are stacked
\* as they arrive at the providers.)
LayoutFleetMap(laid) ==
  LET L == laid.lanes
      height == Larger(laid.y + 1000, 52000)
      router == Router(L, height)
      toRouter == Ribbons(L, ViaRouter(L))
      first == Middle(router, InT(toRouter))
      inT(p) == InT(Ribbons(L, To(L, p)))
      providers == Piled([p \in Used(L) |-> Larger(6400, inT(p) + 3400)], 2200, height)
      into == [p \in Used(L) |-> IntoProvider(L, p, router)]
      ends == [p \in Used(L) |-> Stacked(into[p], Middle(providers[p], inT(p)))]
      fromRouter == [p \in Split(L) |-> [t |-> into[p][0].t, y |-> ends[p][0], n |-> into[p][0].n]]
  IN [laid |-> laid, height |-> height, router |-> router, providers |-> providers,
      toRouter |-> toRouter, routerEnds |-> Stacked(toRouter, first),
      fromRouter |-> fromRouter, routerStarts |-> Stacked(fromRouter, first),
      into |-> into, ends |-> ends]

-----------------------------------------------------------------------------
(* network-map.js.                                                         *)

POLICY_LANES == <<"unrestricted", "claude-full-dev", "claude-github", "claude-only">>
DESTINATIONS == <<"anthropic", "github", "registries", "onepassword", "other", "anywhere", "blocked">>

\* The groups of destinations that the allowlists in policies/ name.
PolicyReach(policy) ==
  CASE policy = "unrestricted" -> {"anywhere"}
    [] policy = "claude-only" -> {"anthropic", "onepassword"}
    [] policy = "claude-github" -> {"anthropic", "onepassword", "github"}
    [] policy = "claude-full-dev" -> {"anthropic", "onepassword", "github", "registries"}

BackendLabels == << <<"claude-max", 10>>, <<"ghcopilot", 14>>, <<"github-copilot", 11>>, <<"local-llm", 9>> >>

NetworkGroups ==
  [h \in Hosts2 |-> [policy \in Seqs!ToSet(POLICY_LANES) |->
     [b \in DOMAIN BackendLabels |->
        [text |-> BackendLabels[b][2],
         n |-> HowMany(h, {k \in DOMAIN Kinds : Kinds[k][3] = policy /\ Kinds[k][1] = BackendLabels[b][1]})]]]]

\* A machine without instances is not drawn.
NetworkBands ==
  Bands({h \in Hosts2 : All(h) > 0}, POLICY_LANES, NetworkGroups,
        FieldWidth((W * 6) \div 10, 12000))

\* A gate is as near its lanes as its machine's band lets it.
GateY(host, h, centre) == Larger(host.y, Smaller(host.y + host.h - h, centre - h \div 2))

\* How thick the ribbon of refusals is: four more for each doubling, rounded
\* down, from 3 to 30, which is reached with the seventh.
RefusedThick(n) == Larger(300, 200 + 400 * Cardinality({k \in 1..7 : 2 ^ k <= n + 1}))

DEST_GAP == 1800

\* What is listed in a destination: three hosts at most.
ListedIn(dest) == IF dest \in {"anywhere", "blocked"} THEN 1 ELSE 3

\* The allowlisted lanes of a machine, the machines that have some, and the gate
\* of such a machine.
Gated(laid, b) ==
  {i \in DOMAIN laid.lanes : laid.lanes[i].host = laid.hosts[b].id /\ laid.lanes[i].id # "unrestricted"}
WithGate(laid) == {b \in DOMAIN laid.hosts : Gated(laid, b) # {}}
Gate(laid, b) ==
  LET into == Ribbons(laid.lanes, Gated(laid, b))
      h == Larger(11000 + Cardinality(Gated(laid, b)) * 2100, InT(into) + 7000)
  IN [y |-> GateY(laid.hosts[b], h, Centre(into)), h |-> h]

\* The lanes from which a destination can be reached, and the destinations that
\* are drawn.
Reaching(L, d) == {i \in DOMAIN L : DESTINATIONS[d] \in PolicyReach(L[i].id)}
Drawn(L) ==
  {d \in DOMAIN DESTINATIONS :
     IF DESTINATIONS[d] = "blocked" THEN \E h \in Hosts2 : refused[h] > 0 ELSE Reaching(L, d) # {}}

\* What gets to a destination: from the gates what their lanes may, or what was
\* refused there; the open lanes go past them.
IntoDestination(laid, d) ==
  LET L == laid.lanes
      gates(n(_), thick(_)) ==
        [b \in {c \in WithGate(laid) : n(c) > 0} |->
           [t |-> thick(n(b)), y |-> Gate(laid, b).y + Gate(laid, b).h \div 2, n |-> n(b)]]
  IN CASE DESTINATIONS[d] = "blocked" -> gates(LAMBDA b : refused[laid.hosts[b].id], RefusedThick)
       [] DESTINATIONS[d] = "anywhere" -> Ribbons(L, {i \in DOMAIN L : L[i].id = "unrestricted"})
       [] OTHER -> gates(LAMBDA b : InN(Ribbons(L, Gated(laid, b) \cap Reaching(L, d))), Thick)

\* What leaves a gate: to every destination what it lets through, or refuses, there.
Outflow(into, ends, b) ==
  [d \in {e \in DOMAIN into : DESTINATIONS[e] # "anywhere" /\ b \in DOMAIN into[e]} |->
     [t |-> into[d][b].t, y |-> ends[d][b], n |-> into[d][b].n]]

\* The picture around the bands.
LayoutNetworkMap(laid) ==
  LET L == laid.lanes
      height == Larger(laid.y + 1000, 56000)
      gate == [b \in WithGate(laid) |-> Gate(laid, b)]
      toGate == [b \in WithGate(laid) |-> Ribbons(L, Gated(laid, b))]
      into == [d \in Drawn(L) |-> IntoDestination(laid, d)]
      boxes == Piled([d \in Drawn(L) |-> Larger(Larger(7800, InT(into[d]) + 3000),
                                                 4400 + ListedIn(DESTINATIONS[d]) * 1400)], DEST_GAP, height)
      ends == [d \in Drawn(L) |-> Stacked(into[d], Middle(boxes[d], InT(into[d])))]
      out == [b \in WithGate(laid) |-> Outflow(into, ends, b)]
  IN [laid |-> laid, height |-> height, gate |-> gate, dests |-> boxes,
      toGate |-> toGate, gateEnds |-> [b \in WithGate(laid) |-> Stacked(toGate[b], Middle(gate[b], InT(toGate[b])))],
      out |-> out, starts |-> [b \in WithGate(laid) |-> Stacked(out[b], Middle(gate[b], InT(out[b])))],
      into |-> into, ends |-> ends,
      count |-> [d \in Drawn(L) |-> InN(Ribbons(L, Reaching(L, d)))]]

-----------------------------------------------------------------------------
(* Refetches and filters.                                                  *)

\* More or fewer instances of a kind, or more or fewer that pass the filters by
\* text, policy, backend and state.
Refetch(h, k, n) ==
  /\ count' = [count EXCEPT ![h][k] = n] /\ Parts(count', refused) <= MaxParts
  /\ UNCHANGED <<refused, chosen>>

RefetchDenials(h, n) ==
  /\ refused' = [refused EXCEPT ![h] = n] /\ Parts(count, refused') <= MaxParts
  /\ UNCHANGED <<count, chosen>>

Choose(hosts) == chosen' = hosts /\ UNCHANGED <<count, refused>>

MapNext ==
  \/ \E h \in Hosts2, k \in DOMAIN Kinds, n \in GroupSizes \cup {0} : Refetch(h, k, n)
  \/ \E h \in Hosts2, n \in Refusals \cup {0} : RefetchDenials(h, n)
  \/ \E hosts \in SUBSET Hosts2 : Choose(hosts)

MapSpec == MapInit /\ [][MapNext]_mapVars

-----------------------------------------------------------------------------
(* Properties.                                                             *)

Apart(a, b) == a.x + a.w <= b.x \/ b.x + b.w <= a.x \/ a.y + a.h <= b.y \/ b.y + b.h <= a.y

\* There is a tile for each instance of a group, within the group's block and
\* the field.
TilesFit(b, width) ==
  /\ Cardinality(Tiles(b)) = b.n
  /\ \A c \in Tiles(b) : c[1] + TILE <= Smaller(b.x + b.w, width) /\ c[2] + TILE <= b.y + b.h

\* The groups of a lane do not touch, and the last one ends within the lane.
LaneFits(lane, width) ==
  LET B == lane.blocks IN
  /\ \A b \in DOMAIN B : TilesFit(B[b], width) /\ LANE_HEAD + B[b].y + B[b].h <= lane.h
  /\ \A b, c \in DOMAIN B : b # c => Apart(B[b], B[c])

\* Bands and lanes do not touch either, and a lane is within its machine's band.
TilesApart(laid, width) ==
  LET L == laid.lanes  H == laid.hosts IN
  /\ \A i, j \in DOMAIN H : i < j => H[i].y + H[i].h < H[j].y
  /\ \A i, j \in DOMAIN L : i < j => L[i].y + L[i].h < L[j].y
  /\ \A i \in DOMAIN L :
       /\ \E b \in DOMAIN H : H[b].id = L[i].host /\ H[b].y <= L[i].y /\ L[i].y + L[i].h <= H[b].y + H[b].h
       /\ LaneFits(L[i], width)

\* Every instance is counted, and has a tile, once.
Counted(L, instances) ==
  /\ \A i \in DOMAIN L : L[i].count = Total(L[i].blocks, LAMBDA b : b.n)
  /\ Total(L, LAMBDA l : l.count) = instances

\* A stack of ribbons ends within the edge of a box.
Meet(ribbons, ends, box) ==
  \A k \in DOMAIN ribbons :
    box.y <= ends[k] - ribbons[k].t \div 2 /\ ends[k] + ribbons[k].t \div 2 <= box.y + box.h
Within(box, height) == 0 <= box.y /\ box.y + box.h <= height

\* The fleet map shows every instance that passes the filter once, apart from
\* the others, and leads each along ribbons that end within the router and the
\* providers, which stay on the canvas.  fleet-map.js, layoutFleetMap.
FleetMapHolds(m) ==
  LET shown == Sum({h \in Hosts2 : Passes(h)}, All)
  IN /\ TilesApart(m.laid, FieldWidth((W * 7) \div 10, 15000)) /\ Counted(m.laid.lanes, shown)
     /\ Within(m.router, m.height) /\ \A p \in DOMAIN m.providers : Within(m.providers[p], m.height)
     /\ Meet(m.toRouter, m.routerEnds, m.router) /\ Meet(m.fromRouter, m.routerStarts, m.router)
     /\ \A p \in DOMAIN m.providers : Meet(m.into[p], m.ends[p], m.providers[p])
     /\ Total(m.into, InN) = shown

\* The destinations, one below the other, are no higher than the canvas.
RoomFor(dests, height) ==
  Sum(DOMAIN dests, LAMBDA d : dests[d].h) + DEST_GAP * Larger(0, Cardinality(DOMAIN dests) - 1) + 1600 <= height

\* The network map shows every instance once, apart from the others; a gate
\* begins in the band of its machine, ends before the next, and stays on the
\* canvas, as the destinations do while there is room for all of them; ribbons end
\* within gates and destinations, those that leave a gate begin within it while it
\* is as high as they are thick, and what is written on a destination is what
\* flows into it.  network-map.js, layoutNetworkMap.
NetworkMapHolds(m) ==
  LET H == m.laid.hosts
  IN /\ TilesApart(m.laid, FieldWidth((W * 6) \div 10, 12000)) /\ Counted(m.laid.lanes, Sum(Hosts2, All))
     /\ \A b \in DOMAIN m.gate :
          /\ H[b].y <= m.gate[b].y /\ m.gate[b].y + m.gate[b].h < H[b].y + H[b].h + HOST_GAP
          /\ Within(m.gate[b], m.height)
          /\ Meet(m.toGate[b], m.gateEnds[b], m.gate[b])
          /\ InT(m.out[b]) <= m.gate[b].h => Meet(m.out[b], m.starts[b], m.gate[b])
     /\ \A d \in DOMAIN m.dests :
          /\ RoomFor(m.dests, m.height) => Within(m.dests[d], m.height)
          /\ Meet(m.into[d], m.ends[d], m.dests[d])
          /\ DESTINATIONS[d] = "blocked" \/ InN(m.into[d]) = m.count[d]

MapsHold == FleetMapHolds(LayoutFleetMap(FleetBands)) /\ NetworkMapHolds(LayoutNetworkMap(NetworkBands))

\* Where the ribbons of the map m begin and end is on its canvas.
RibbonsLieOn(m) ==
  LET on(ys) == \A k \in DOMAIN ys : 0 <= ys[k] /\ ys[k] <= m.height
  IN /\ on([i \in DOMAIN m.laid.lanes |-> m.laid.lanes[i].anchorY])
     /\ \A b \in DOMAIN m.gate : on(m.gateEnds[b]) /\ on(m.starts[b])
     /\ \A d \in DOMAIN m.dests : on(m.ends[d])

\* Every ribbon of the network map begins and ends on the canvas
\* (tests/19-network-map.test.js:62-64).  Refuted: layoutNetworkMap makes the canvas
\* as high as the bands need and no less than 560, the destinations may need more,
\* and are piled up from the top, over its lower edge.
RibbonsOnCanvas == RibbonsLieOn(LayoutNetworkMap(NetworkBands))
=============================================================================
