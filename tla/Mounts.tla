------------------------------- MODULE Mounts -------------------------------
(***************************************************************************)
(* What is bound into an instance: the mounts of server/docker.js's        *)
(* createInstance and recreateInstance, which copy the mounts of a         *)
(* container that is there already, and the directories that               *)
(* server/host-fs.js prepares.  A mount template, once learned, is kept.   *)
(*                                                                         *)
(* The daemon that runs a container resolves its binds.  So a source names *)
(* the host it is a path of; "local" is the manager's own.                 *)
(***************************************************************************)
EXTENDS Naturals, FiniteSets

CONSTANTS Ctrs,     \* containers
          Alike,    \* those of one name; each of the others has a name of its own
          Makers,    \* creations at once
          Far,       \* a remote host
          Roots,     \* data roots it may be registered with
          MaxEvents, \* of the environment in a behaviour
          Nothing

ASSUME FarAssumption == Far # "local"
ASSUME MaxEventsAssumption == MaxEvents \in Nat

VARIABLES dirs,     \* the directories that are configured, and the manager's own mount
          root,      \* data_root of the remote host, or Nothing
          ctr,      \* the containers there are
          template,  \* the mount template, or Nothing
          maker,     \* per creation: what it has so far
          prepared,  \* sources on the remote host that exist and belong to Claude
          events

mountVars == <<dirs, root, ctr, template, maker, prepared, events>>

Sites2 == {"local", Far}
Configurable == {"/shared", "/project-memory", "/home/claude/.claude", "/workspace/.claude"}
Socket == "/var/run/docker.sock"
\* host, directory, and whose it is: of an instance, of a name, of the fleet, or
\* of others.
Bind(dest, host, dir, whose) == [dest |-> dest, src |-> <<host, dir, whose>>]
SocketBind(host) == Bind(Socket, host, Socket, "daemon")

\* What containers that others made may have bound.
Foreign == {{Bind("/workspace", "local", "theirs", "others"), Bind("/extra", "local", "theirs", "others"), SocketBind("local")},
            {Bind("/workspace/.claude", "local", "theirs", "others"), Bind("/home/claude/.claude", "local", "theirs", "others")},
            {SocketBind("local")}}
Setups == {[configured |-> d, self |-> s] : d \in {{}, Configurable, {"/workspace/.claude"}}, s \in BOOLEAN}

Absent == [by |-> "nobody", host |-> "local", based |-> FALSE, binds |-> {}]
GoneCtr == [Absent EXCEPT !.by = "gone"]  \* no other container gets its id
Off == [at |-> "off", c |-> Nothing, host |-> "local", root |-> Nothing, socket |-> FALSE, from |-> {}, learned |-> {}]

MountTypeOK ==
  /\ dirs \in Setups /\ root \in Roots \cup {Nothing} /\ events \in 0..MaxEvents
  /\ \A c \in Ctrs : /\ ctr[c].by \in {"nobody", "gone", "others", "adopted", "manager"}
                      /\ ctr[c].host \in Sites2 /\ ctr[c].based \in BOOLEAN
  /\ \A m \in Makers : /\ maker[m].at \in {"off", "learn", "inspect", "make"}
                       /\ maker[m].from \subseteq Ctrs /\ maker[m].host \in Sites2
  /\ template # Nothing => template # {}
  /\ \A p \in prepared : p[1] = Far

MountInit ==
  /\ dirs \in Setups /\ root = Nothing /\ events = 0
  /\ ctr = [c \in Ctrs |-> Absent] /\ template = Nothing
  /\ maker = [m \in Makers |-> Off] /\ prepared = {}

-----------------------------------------------------------------------------
(* Creation.                                                               *)

IsLocal(host) == host = "local"

\* admit: no socket on the manager's own host.
MayHaveSocket(host, socket) == socket => ~IsLocal(host)

\* createInstance checks that a remote host has a data root, and keeps its row.
BeginMounts(m, c, host, socket) ==
  /\ maker[m] = Off /\ ctr[c] = Absent /\ \A o \in Makers : maker[o].c # c
  /\ IsLocal(host) \/ root # Nothing
  /\ MayHaveSocket(host, socket)
  /\ maker' = [maker EXCEPT ![m] = [Off EXCEPT !.at = "learn", !.c = c, !.host = host, !.root = root, !.socket = socket]]
  /\ UNCHANGED <<dirs, root, ctr, template, prepared, events>>

\* Learned binds are paths of this host.
Learns(m) == IsLocal(maker[m].host)

\* learnMountTemplate: the template that is kept will do, or the containers of
\* the local daemon are listed.
ListCandidates(m) ==
  /\ maker[m].at = "learn"
  /\ maker' = [maker EXCEPT ![m] =
       IF ~Learns(m) THEN [@ EXCEPT !.at = "make"]
       ELSE IF template # Nothing THEN [@ EXCEPT !.at = "make", !.learned = template]
       ELSE [@ EXCEPT !.at = "inspect", !.from = {c \in Ctrs : ctr[c].by \notin {"nobody", "gone"} /\ IsLocal(ctr[c].host)}]]
  /\ UNCHANGED <<dirs, root, ctr, template, prepared, events>>

MutSharedBinds(c) == {b \in ctr[c].binds : b.dest \notin {"/workspace", "/data"}}
\* What a new instance may take over from a container.
SharedBinds(c) == {b \in ctr[c].binds : b.dest \notin {"/workspace", Socket, "/data"}}

Rank(c) == CASE ctr[c].by = "manager" -> 1 [] ctr[c].by = "adopted" -> 2 [] OTHER -> 3

\* They are inspected in their order, the manager's first; the first that has
\* such binds is the template from now on.  A container may be gone by then.
InspectCandidates(m) ==
  /\ maker[m].at = "inspect"
  /\ LET useful == {c \in maker[m].from : SharedBinds(c) # {}} IN
     IF useful = {}
     THEN maker' = [maker EXCEPT ![m].at = "make", ![m].from = {}] /\ UNCHANGED template
     ELSE \E c \in useful :
            /\ \A d \in useful : Rank(c) <= Rank(d)
            /\ template' = SharedBinds(c)
            /\ maker' = [maker EXCEPT ![m].at = "make", ![m].from = {}, ![m].learned = SharedBinds(c)]
  /\ UNCHANGED <<dirs, root, ctr, prepared, events>>

\* What createInstance makes of the name it is given, which need not be the only
\* one; without a name it is the id.
Slug(c) == IF c \in Alike THEN "alike" ELSE c

\* hostPaths, as binds: the directories of the fleet, and one for the slug.
HasMemoryBase(host) == ~IsLocal(host) \/ "/workspace/.claude" \in dirs.configured
MemoryBind(c, host, dir) == Bind("/workspace/.claude", host, dir, Slug(c))
ExplicitBinds(c, host, dir) ==
  {Bind(d, host, dir, "fleet") :
     d \in IF IsLocal(host) THEN dirs.configured \ {"/workspace/.claude"} ELSE {"/shared", "/home/claude/.claude"}}
  \cup IF HasMemoryBase(host) THEN {MemoryBind(c, host, dir)} ELSE {}

Dests(binds) == {b.dest : b \in binds}

\* The learned binds that nothing explicit takes the place of.
Kept(learned, explicit) == {b \in learned : b.dest \notin Dests(explicit) \cup {"/workspace"}}

\* resolveHostPath: the manager's own mount, where nothing else has that place.
SelfResolved(host, binds) ==
  IF IsLocal(host) /\ dirs.self /\ "/home/claude/.claude" \notin Dests(binds)
  THEN {Bind("/home/claude/.claude", "local", "self", "fleet")} ELSE {}

NewBinds(c, host, dir, learned, socket) ==
  LET explicit == ExplicitBinds(c, host, dir)
      chosenBinds == {Bind("/workspace", host, "volume", c)} \cup Kept(learned, explicit) \cup explicit
  IN chosenBinds \cup SelfResolved(host, chosenBinds) \cup (IF socket THEN {SocketBind(host)} ELSE {})

\* A helper container makes a directory on the remote host.
RunOnHost(src) == prepared' = prepared \cup {src}

\* On its own host the manager makes it, and goes on if it cannot.
EnsureInstanceMemoryDir(c, host, dir) ==
  IF IsLocal(host) THEN UNCHANGED prepared ELSE RunOnHost(MemoryBind(c, host, dir).src)

\* The directory is prepared, and the instance made.
MakeContainer(m) ==
  /\ maker[m].at = "make"
  /\ LET c == maker[m].c  host == maker[m].host
         dir == IF IsLocal(host) THEN "configured" ELSE maker[m].root
     IN /\ ctr' = [ctr EXCEPT ![c] =
              [by |-> "manager", host |-> host,
               based |-> HasMemoryBase(host),
               binds |-> NewBinds(c, host, dir, maker[m].learned, maker[m].socket)]]
        /\ EnsureInstanceMemoryDir(c, host, dir)
  /\ maker' = [maker EXCEPT ![m] = Off]
  /\ UNCHANGED <<dirs, root, template, events>>

\* The helper fails, or the daemon: there is no instance.
MakeFails(m) ==
  /\ maker[m].at # "off"
  /\ maker' = [maker EXCEPT ![m] = Off]
  /\ UNCHANGED <<dirs, root, ctr, template, prepared, events>>

-----------------------------------------------------------------------------
(* The other operations.                                                   *)

\* recreateInstance keeps the binds, and takes or gives the socket.
Rebind(c, socket) ==
  /\ ctr[c].by \in {"manager", "adopted"} /\ MayHaveSocket(ctr[c].host, socket)
  /\ ctr' = [ctr EXCEPT ![c].binds = {b \in @ : b.dest # Socket} \cup (IF socket THEN {SocketBind(ctr[c].host)} ELSE {})]
  /\ ctr' # ctr
  /\ UNCHANGED <<dirs, root, template, maker, prepared, events>>

\* adoptContainer forgets the template.
AdoptMounts(c) ==
  /\ ctr[c].by = "others"
  /\ ctr' = [ctr EXCEPT ![c].by = "adopted"] /\ template' = Nothing
  /\ UNCHANGED <<dirs, root, maker, prepared, events>>

\* POST /api/hosts/:id/bootstrap.
Bootstrap ==
  /\ root # Nothing
  /\ RunOnHost(<<Far, root, "fleet">>) /\ prepared' # prepared
  /\ UNCHANGED <<dirs, root, ctr, template, maker, events>>

Event == events < MaxEvents /\ events' = events + 1

\* A container of others appears on the local daemon, or a container goes.
ContAppears(c, binds) ==
  /\ Event /\ ctr[c] = Absent /\ \A o \in Makers : maker[o].c # c
  /\ ctr' = [ctr EXCEPT ![c] = [Absent EXCEPT !.by = "others", !.binds = binds]]
  /\ UNCHANGED <<dirs, root, template, maker, prepared>>

ContGoes(c) ==
  /\ Event /\ ctr[c].by \notin {"nobody", "gone"}
  /\ ctr' = [ctr EXCEPT ![c] = GoneCtr]
  /\ UNCHANGED <<dirs, root, template, maker, prepared>>

\* PATCH /api/hosts/:id, of the data root.
MoveRoot(r) ==
  /\ Event /\ root' = r /\ root' # root
  /\ UNCHANGED <<dirs, ctr, template, maker, prepared>>

\* The manager is started again, with other settings.
Reconfigured(s) ==
  /\ Event /\ dirs' = s
  /\ template' = Nothing /\ maker' = [m \in Makers |-> Off]
  /\ UNCHANGED <<root, ctr, prepared>>

MountNext ==
  \/ \E m \in Makers :
       \/ \E c \in Ctrs, host \in Sites2, socket \in BOOLEAN : BeginMounts(m, c, host, socket)
       \/ ListCandidates(m) \/ InspectCandidates(m) \/ MakeContainer(m) \/ MakeFails(m)
  \/ \E c \in Ctrs :
       \/ \E socket \in BOOLEAN : Rebind(c, socket)
       \/ \E binds \in Foreign : ContAppears(c, binds)
       \/ AdoptMounts(c) \/ ContGoes(c)
  \/ Bootstrap \/ \E r \in Roots : MoveRoot(r)
  \/ \E s \in Setups : Reconfigured(s)

MountSpec == MountInit /\ [][MountNext]_mountVars

-----------------------------------------------------------------------------
(* Properties.                                                             *)

\* Whatever containers there were to learn from: an instance has nothing bound
\* twice to a place, never the socket of the manager's own daemon, only paths of
\* its own host, the workspace that is its own, and, where there is a base for
\* them, the memory directory of its name, which a remote daemon did not have to
\* make up.  docker.js, createInstance and recreateInstance.
MountsItsOwn ==
  \A c \in {d \in Ctrs : ctr[d].by = "manager"} :
    LET B == ctr[c].binds IN
    /\ Cardinality(Dests(B)) = Cardinality(B)
    /\ Socket \in Dests(B) => ctr[c].host = Far
    /\ \A b \in B : b.src[1] = ctr[c].host
    /\ \A b \in B : b.dest = "/workspace" => b.src[3] = c
    /\ ctr[c].based => \A b \in B : b.dest = "/workspace/.claude" =>
         b.src[3] = Slug(c) /\ (ctr[c].host = Far => b.src \in prepared)

\* docs/operations.md:511, "Per-instance project memory ... isolated": no two
\* instances have one memory directory.  The directory is named by the slug of a
\* name that another instance may have too.  docker.js:334-336 and 436.
MemoryIsolated ==
  \A c, d \in {e \in Ctrs : ctr[e].by = "manager"} :
    c # d => \A b \in ctr[c].binds \cap ctr[d].binds : b.dest # "/workspace/.claude"
=============================================================================
