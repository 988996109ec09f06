--------------------------- MODULE InstanceProofs ---------------------------
(***************************************************************************)
(* Proofs about ONE instance: what is bound into it, which container it    *)
(* is, and what the container is made of, for any number of containers,    *)
(* creations and instances, and however long a behaviour is.               *)
(***************************************************************************)
EXTENDS InstanceSpec, Mounts, Directory, FiniteSetTheorems, WellFoundedInduction, TLAPS

-----------------------------------------------------------------------------
(* What is bound into an instance (Mounts).                                *)

\* A set of binds that has no place twice, of one host.
OneEach(binds) == IsFiniteSet(binds) /\ \A a, b \in binds : a.dest = b.dest => a = b
PathsOf(binds, host) == \A b \in binds : b.src[1] = host

CtrRecord(k) == k = [by |-> k.by, host |-> k.host, based |-> k.based, binds |-> k.binds]
MakerRecord(k) == k = [at |-> k.at, c |-> k.c, host |-> k.host, root |-> k.root, socket |-> k.socket,
                       from |-> k.from, learned |-> k.learned]

\* What may be taken over from a container.
Learnable(binds) ==
  OneEach(binds) /\ PathsOf(binds, "local") /\ \A b \in binds : b.dest \notin {"/workspace", Socket, "/data"}

CtrsTyped ==
  /\ ctr = [c \in Ctrs |-> ctr[c]]
  /\ \A c \in Ctrs : /\ CtrRecord(ctr[c]) /\ ctr[c].host \in Sites2 /\ ctr[c].based \in BOOLEAN
                     /\ ctr[c].by \in {"nobody", "gone", "others", "adopted", "manager"}
                     /\ ctr[c].by \in {"others", "adopted"} => ctr[c].host = "local"
                     /\ OneEach(ctr[c].binds) /\ PathsOf(ctr[c].binds, ctr[c].host)

MakersTyped ==
  /\ maker = [m \in Makers |-> maker[m]]
  /\ \A m \in Makers : /\ MakerRecord(maker[m]) /\ maker[m].host \in Sites2
                       /\ maker[m].socket \in BOOLEAN
                       /\ maker[m].at \in {"off", "learn", "inspect", "make"}
                       /\ maker[m].from \subseteq Ctrs /\ Learnable(maker[m].learned)
                       /\ maker[m].at = "off" => maker[m] = Off

\* A creation has a container to make that is not there yet, and that no other
\* creation makes; the containers it looks at are there, or were, and are local.
MakersApart ==
  \A m \in Makers : maker[m].at # "off" =>
    /\ maker[m].c \in Ctrs /\ ctr[maker[m].c] = Absent
    /\ \A n \in Makers : n # m /\ maker[n].at # "off" => maker[n].c # maker[m].c
    /\ \A c \in maker[m].from : ctr[c].by # "nobody" /\ ctr[c].host = "local"
    /\ maker[m].socket => maker[m].host = Far
    /\ maker[m].host = Far => maker[m].learned = {} /\ maker[m].at # "inspect"

\* The binds that are the instance's own.
OwnBinds(c) ==
  /\ \A b \in ctr[c].binds : b.dest = Socket => ctr[c].host = Far
  /\ \A b \in ctr[c].binds : b.dest = "/workspace" => b.src[3] = c
  /\ ctr[c].based => \A b \in ctr[c].binds : b.dest = "/workspace/.claude" =>
                       b.src[3] = Slug(c) /\ (ctr[c].host = Far => b.src \in prepared)

RestTyped ==
  /\ dirs \in Setups /\ root \in Roots \cup {Nothing} /\ events \in 0..MaxEvents
  /\ template # Nothing => template # {} /\ Learnable(template)
  /\ \A p \in prepared : p[1] = Far

MountInv ==
  /\ CtrsTyped /\ MakersTyped /\ RestTyped /\ MakersApart
  /\ \A c \in Ctrs : ctr[c].by = "manager" => OwnBinds(c)

LEMMA NothingBound == OneEach({}) /\ Learnable({})
  BY FS_EmptySet DEF OneEach, Learnable, PathsOf

\* A part of what has no place twice has none twice either.
LEMMA PartOf ==
  ASSUME NEW whole, OneEach(whole), NEW part \in SUBSET whole
  PROVE  OneEach(part)
  BY FS_Subset DEF OneEach

LEMMA Joined ==
  ASSUME NEW S, NEW T, OneEach(S), OneEach(T),
         \A a \in S, b \in T : a.dest # b.dest
  PROVE  OneEach(S \cup T)
  BY FS_Union DEF OneEach

LEMMA OneBind == ASSUME NEW b PROVE OneEach({b})
  BY FS_Singleton DEF OneEach

\* As many places as binds.
LEMMA CountOfPlaces ==
  ASSUME NEW binds, OneEach(binds)
  PROVE  Cardinality(Dests(binds)) = Cardinality(binds)
<1> DEFINE f == [b \in binds |-> b.dest]
<1>1. f \in Bijection(binds, Dests(binds))
  <2>1. f \in [binds -> Dests(binds)]
        BY DEF Dests
  <2>2. \A a, b \in binds : f[a] = f[b] => a = b
        BY DEF OneEach
  <2>3. \A d \in Dests(binds) : \E b \in binds : f[b] = d
        BY DEF Dests
  <2> HIDE DEF f
  <2> QED BY <2>1, <2>2, <2>3 DEF Bijection, Injection, IsInjective, Surjection
<1> HIDE DEF f
<1>2. ExistsBijection(binds, Dests(binds))
      BY <1>1 DEF ExistsBijection
<1> QED BY <1>2, FS_Bijection DEF OneEach

LEMMA MountInvImplies == MountInv => MountsItsOwn /\ MountTypeOK
<1> SUFFICES ASSUME MountInv PROVE MountsItsOwn /\ MountTypeOK
    OBVIOUS
<1>1. MountTypeOK
      BY DEF MountInv, MountTypeOK, CtrsTyped, MakersTyped, RestTyped
<1>2. ASSUME NEW c \in Ctrs, ctr[c].by = "manager"
      PROVE  /\ Cardinality(Dests(ctr[c].binds)) = Cardinality(ctr[c].binds)
             /\ Socket \in Dests(ctr[c].binds) => ctr[c].host = Far
             /\ \A b \in ctr[c].binds : b.src[1] = ctr[c].host
             /\ \A b \in ctr[c].binds : b.dest = "/workspace" => b.src[3] = c
  <2>1. Cardinality(Dests(ctr[c].binds)) = Cardinality(ctr[c].binds)
        BY CountOfPlaces DEF MountInv, CtrsTyped
  <2>2. OwnBinds(c)
        BY <1>2 DEF MountInv
  <2> QED BY <2>1, <2>2 DEF OwnBinds, Dests, MountInv, CtrsTyped, PathsOf
<1>3. \A c \in Ctrs : ctr[c].by = "manager" => OwnBinds(c)
      BY DEF MountInv
<1> QED BY <1>1, <1>2, <1>3 DEF MountsItsOwn, OwnBinds

LEMMA MountInvInit == MountInit => MountInv
<1> SUFFICES ASSUME MountInit PROVE MountInv
    OBVIOUS
<1>1. CtrsTyped
      BY NothingBound DEF MountInit, CtrsTyped, CtrRecord, Absent, Sites2, PathsOf
<1>2. MakersTyped
      BY NothingBound DEF MountInit, MakersTyped, MakerRecord, Off, Sites2
<1>3. RestTyped
      BY MaxEventsAssumption DEF MountInit, RestTyped
<1>4. MakersApart
      BY DEF MountInit, MakersApart, Off
<1>5. \A c \in Ctrs : ctr[c].by # "manager"
      BY DEF MountInit, Absent
<1> QED BY <1>1, <1>2, <1>3, <1>4, <1>5 DEF MountInv

\* What others have bound.
LEMMA ForeignBinds ==
  ASSUME NEW binds \in Foreign PROVE OneEach(binds) /\ PathsOf(binds, "local")
<1>1. \A a, b : OneEach({a}) /\ (a.dest # b.dest => OneEach({a, b}))
  <2> TAKE a, b
  <2>1. OneEach({a}) /\ OneEach({b})
        BY OneBind
  <2>2. ASSUME a.dest # b.dest PROVE OneEach({a} \cup {b})
        BY <2>1, <2>2, Joined
  <2>3. {a, b} = {a} \cup {b}
        OBVIOUS
  <2> QED BY <2>1, <2>2, <2>3
<1>2. CASE binds = {SocketBind("local")}
  <2> DEFINE a == SocketBind("local")
  <2>1. binds = {a}
        BY <1>2
  <2>2. a.src[1] = "local"
        BY DEF Bind, SocketBind, Socket
  <2> HIDE DEF a
  <2>3. OneEach({a})
        BY <1>1
  <2> QED BY <2>1, <2>2, <2>3 DEF PathsOf
<1>3. CASE binds = {Bind("/workspace/.claude", "local", "theirs", "others"),
                    Bind("/home/claude/.claude", "local", "theirs", "others")}
  <2> DEFINE a == Bind("/workspace/.claude", "local", "theirs", "others")
             b == Bind("/home/claude/.claude", "local", "theirs", "others")
  <2>1. binds = {a, b}
        BY <1>3
  <2>2. a.dest # b.dest /\ a.src[1] = "local" /\ b.src[1] = "local"
        BY DEF Bind
  <2> HIDE DEF a, b
  <2>3. OneEach({a, b})
        BY <1>1, <2>2
  <2> QED BY <2>1, <2>2, <2>3 DEF PathsOf
<1>4. CASE binds = {Bind("/workspace", "local", "theirs", "others"),
                    Bind("/extra", "local", "theirs", "others"), SocketBind("local")}
  <2> DEFINE a == Bind("/workspace", "local", "theirs", "others")
             b == Bind("/extra", "local", "theirs", "others")
             c == SocketBind("local")
  <2>1. a.dest = "/workspace" /\ b.dest = "/extra" /\ c.dest = "/var/run/docker.sock"
        BY DEF Bind, SocketBind, Socket
  <2>2. a.src[1] = "local" /\ b.src[1] = "local" /\ c.src[1] = "local"
        BY DEF Bind, SocketBind, Socket
  <2>3. binds = {a, b} \cup {c}
        BY <1>4
  <2> HIDE DEF a, b, c
  <2>4. OneEach({a, b}) /\ OneEach({c})
        BY <1>1, <2>1
  <2>5. OneEach({a, b} \cup {c})
        BY <2>1, <2>4, Joined
  <2> QED BY <2>2, <2>3, <2>5 DEF PathsOf
<1> QED BY <1>2, <1>3, <1>4 DEF Foreign

-----------------------------------------------------------------------------
(* Steps of a creation.                                                    *)

\* What a step does that leaves the containers, or the creations, as they are.
LEMMA SameCtrs ==
  ASSUME CtrsTyped, UNCHANGED ctr PROVE CtrsTyped'
  BY DEF CtrsTyped, CtrRecord

LEMMA SameMakers ==
  ASSUME MakersTyped, UNCHANGED maker PROVE MakersTyped'
  BY DEF MakersTyped, MakerRecord

LEMMA SameRest ==
  ASSUME RestTyped, UNCHANGED <<dirs, root, template, prepared, events>> PROVE RestTyped'
  BY DEF RestTyped

\* The binds of a container stay its own when more is prepared.
LEMMA SameOwn ==
  ASSUME \A c \in Ctrs : ctr[c].by = "manager" => OwnBinds(c),
         UNCHANGED ctr, prepared \subseteq prepared'
  PROVE  \A c \in Ctrs : ctr'[c].by = "manager" => OwnBinds(c)'
  BY DEF OwnBinds

LEMMA BeginMountsKeeps ==
  ASSUME MountInv, NEW m \in Makers, NEW c \in Ctrs, NEW host \in Sites2, NEW socket \in BOOLEAN,
         BeginMounts(m, c, host, socket)
  PROVE  MountInv'
<1> DEFINE new == [Off EXCEPT !.at = "learn", !.c = c, !.host = host, !.root = root, !.socket = socket]
<1>1. /\ maker' = [maker EXCEPT ![m] = new]
      /\ ctr[c] = Absent /\ \A o \in Makers : maker[o].c # c
      /\ socket => host # "local"
      /\ UNCHANGED <<dirs, root, ctr, template, prepared, events>>
      BY DEF BeginMounts, MayHaveSocket, IsLocal
<1>2. /\ MakerRecord(new) /\ new.at = "learn" /\ new.c = c /\ new.host = host /\ new.socket = socket
      /\ new.from = {} /\ new.learned = {}
  <2>1. PICK off : off = Off
        OBVIOUS
  <2>2. MakerRecord(off) /\ off.from = {} /\ off.learned = {}
        BY <2>1 DEF Off, MakerRecord
  <2>3. PICK k : k = [off EXCEPT !.at = "learn", !.c = c, !.host = host]
        OBVIOUS
  <2>4. MakerRecord(k) /\ k.at = "learn" /\ k.c = c /\ k.host = host /\ k.from = {} /\ k.learned = {}
        BY <2>2, <2>3 DEF MakerRecord
  <2>5. new = [k EXCEPT !.root = root, !.socket = socket]
        BY Zenon, <2>1, <2>3
  <2> HIDE DEF new
  <2> QED BY <2>4, <2>5 DEF MakerRecord
<1> HIDE DEF new
<1>3. MakersTyped'
      BY <1>1, <1>2, NothingBound DEF MountInv, MakersTyped, MakerRecord
<1>4. MakersApart'
      BY <1>1, <1>2 DEF MountInv, MakersTyped, MakersApart, Sites2
<1> QED BY <1>1, <1>3, <1>4, SameCtrs, SameRest, SameOwn DEF MountInv

\* A creation goes on: what it looks at, or has learned, changes.
LEMMA MakerMoves ==
  ASSUME MountInv, NEW m \in Makers, maker[m].at # "off", NEW new,
         maker' = [maker EXCEPT ![m] = new], UNCHANGED ctr,
         MakerRecord(new), new.at \in {"inspect", "make"},
         new.c = maker[m].c, new.host = maker[m].host, new.socket = maker[m].socket,
         new.from \subseteq Ctrs, \A c \in new.from : ctr[c].by # "nobody" /\ ctr[c].host = "local",
         Learnable(new.learned),
         new.host = Far => new.learned = {} /\ new.at # "inspect"
  PROVE  MakersTyped' /\ MakersApart'
<1>1. MakersTyped'
      BY DEF MountInv, MakersTyped, MakerRecord
<1>2. MakersApart'
      BY DEF MountInv, MakersTyped, MakersApart
<1> QED BY <1>1, <1>2

LEMMA ListCandidatesKeeps ==
  ASSUME MountInv, NEW m \in Makers, ListCandidates(m) PROVE MountInv'
<1> DEFINE k == maker[m]
           there == {c \in Ctrs : ctr[c].by \notin {"nobody", "gone"} /\ ctr[c].host = "local"}
<1>1. /\ k.at = "learn" /\ UNCHANGED <<dirs, root, ctr, template, prepared, events>>
      /\ MakerRecord(k) /\ k.host \in Sites2 /\ Learnable(k.learned) /\ k.from \subseteq Ctrs
      /\ k.host = Far => k.learned = {}
      /\ \A c \in k.from : ctr[c].by # "nobody" /\ ctr[c].host = "local"
      BY DEF ListCandidates, MountInv, MakersTyped, MakersApart
<1>2. PICK new : /\ maker' = [maker EXCEPT ![m] = new]
                 /\ \/ k.host # "local" /\ new = [k EXCEPT !.at = "make"]
                    \/ k.host = "local" /\ template # Nothing /\ new = [k EXCEPT !.at = "make", !.learned = template]
                    \/ k.host = "local" /\ new = [k EXCEPT !.at = "inspect", !.from = there]
      BY DEF ListCandidates, Learns, IsLocal
<1>3. /\ MakerRecord(new) /\ new.at \in {"inspect", "make"}
      /\ new.c = k.c /\ new.host = k.host /\ new.socket = k.socket
      /\ new.from \in {k.from, there}
      /\ new.learned \in {k.learned, template}
      /\ new.learned = k.learned \/ (k.host = "local" /\ template # Nothing)
      /\ new.at = "inspect" => k.host = "local"
      BY <1>1, <1>2 DEF MakerRecord
<1>4. new.from \subseteq Ctrs /\ \A c \in new.from : ctr[c].by # "nobody" /\ ctr[c].host = "local"
      BY <1>1, <1>3
<1>5. Learnable(new.learned)
      BY <1>1, <1>3 DEF MountInv, RestTyped
<1>6. new.host = Far => new.learned = {} /\ new.at # "inspect"
      BY <1>1, <1>3, FarAssumption
<1>7. MakersTyped' /\ MakersApart'
      BY <1>1, <1>2, <1>3, <1>4, <1>5, <1>6, MakerMoves
<1> QED BY <1>1, <1>7, SameCtrs, SameRest, SameOwn DEF MountInv

LEMMA SharedLearnable ==
  ASSUME MountInv, NEW c \in Ctrs, ctr[c].host = "local"
  PROVE  Learnable(SharedBinds(c))
<1>1. OneEach(ctr[c].binds) /\ PathsOf(ctr[c].binds, "local")
      BY DEF MountInv, CtrsTyped
<1>2. SharedBinds(c) \subseteq ctr[c].binds
      BY DEF SharedBinds
<1>3. OneEach(SharedBinds(c))
      BY <1>1, <1>2, PartOf
<1> QED BY <1>1, <1>3 DEF Learnable, SharedBinds, PathsOf

LEMMA InspectCandidatesKeeps ==
  ASSUME MountInv, NEW m \in Makers, InspectCandidates(m) PROVE MountInv'
<1> DEFINE k == maker[m]
<1>1. /\ k.at = "inspect" /\ UNCHANGED <<dirs, root, ctr, prepared, events>>
      /\ MakerRecord(k) /\ k.host \in Sites2 /\ k.host # Far /\ k.from \subseteq Ctrs
      /\ Learnable(k.learned)
      /\ \A c \in k.from : ctr[c].by # "nobody" /\ ctr[c].host = "local"
      BY DEF InspectCandidates, MountInv, MakersTyped, MakersApart
<1>2. PICK new : /\ maker' = [maker EXCEPT ![m] = new]
                 /\ \/ new = [k EXCEPT !.at = "make", !.from = {}] /\ UNCHANGED template
                    \/ \E c \in k.from :
                         /\ SharedBinds(c) # {} /\ template' = SharedBinds(c)
                         /\ new = [k EXCEPT !.at = "make", !.from = {}, !.learned = SharedBinds(c)]
  <2>1. /\ maker = [n \in Makers |-> maker[n]]
        /\ k = [at |-> k.at, c |-> k.c, host |-> k.host, root |-> k.root, socket |-> k.socket,
                from |-> k.from, learned |-> k.learned]
        BY DEF MountInv, MakersTyped, MakerRecord
  <2>2. CASE maker' = [maker EXCEPT ![m].at = "make", ![m].from = {}] /\ UNCHANGED template
    <3>1. maker' = [maker EXCEPT ![m] = [k EXCEPT !.at = "make", !.from = {}]]
          BY <2>1, <2>2
    <3> QED BY <2>2, <3>1
  <2>3. ASSUME NEW c \in k.from, SharedBinds(c) # {}, template' = SharedBinds(c),
               maker' = [maker EXCEPT ![m].at = "make", ![m].from = {}, ![m].learned = SharedBinds(c)]
        PROVE  \E new : /\ maker' = [maker EXCEPT ![m] = new]
                        /\ \E d \in k.from :
                             /\ SharedBinds(d) # {} /\ template' = SharedBinds(d)
                             /\ new = [k EXCEPT !.at = "make", !.from = {}, !.learned = SharedBinds(d)]
    <3>1. maker' = [maker EXCEPT ![m] = [k EXCEPT !.at = "make", !.from = {}, !.learned = SharedBinds(c)]]
          BY <2>1, <2>3
    <3> QED BY <2>3, <3>1
  <2> HIDE DEF k
  <2> QED BY <2>2, <2>3 DEF InspectCandidates, k
<1>3. /\ MakerRecord(new) /\ new.at = "make" /\ new.from = {}
      /\ new.c = k.c /\ new.host = k.host /\ new.socket = k.socket
      /\ \/ new.learned = k.learned /\ UNCHANGED template
         \/ \E c \in k.from : SharedBinds(c) # {} /\ template' = SharedBinds(c) /\ new.learned = SharedBinds(c)
      BY <1>1, <1>2 DEF MakerRecord
<1>4. \A c \in k.from : Learnable(SharedBinds(c))
      BY <1>1, SharedLearnable
<1>5. Learnable(new.learned)
      BY <1>1, <1>3, <1>4
<1>6. MakersTyped' /\ MakersApart'
      BY <1>1, <1>2, <1>3, <1>5, MakerMoves
<1>7. RestTyped'
      BY <1>1, <1>3, <1>4 DEF MountInv, RestTyped
<1> QED BY <1>1, <1>6, <1>7, SameCtrs, SameOwn DEF MountInv

\* A creation that ends, well or not, leaves the others apart.
LEMMA MakerEnds ==
  ASSUME MakersTyped, NEW m \in Makers, maker' = [maker EXCEPT ![m] = Off] PROVE MakersTyped'
  BY NothingBound DEF MakersTyped, MakerRecord, Off, Sites2

LEMMA MakeFailsKeeps ==
  ASSUME MountInv, NEW m \in Makers, MakeFails(m) PROVE MountInv'
<1>1. maker' = [maker EXCEPT ![m] = Off] /\ UNCHANGED <<dirs, root, ctr, template, prepared, events>>
      BY DEF MakeFails
<1>2. MakersTyped'
      BY <1>1, MakerEnds DEF MountInv
<1>3. MakersApart'
      BY <1>1 DEF MountInv, MakersTyped, MakersApart, Off
<1> QED BY <1>1, <1>2, <1>3, SameCtrs, SameRest, SameOwn DEF MountInv

-----------------------------------------------------------------------------
(* The container that is made.                                             *)

LEMMA ExplicitOnce ==
  ASSUME dirs \in Setups, NEW c, NEW host, NEW dir
  PROVE  LET E == ExplicitBinds(c, host, dir) IN
         /\ OneEach(E) /\ PathsOf(E, host)
         /\ Dests(E) \subseteq Configurable
         /\ \A b \in E : b.dest = "/workspace/.claude" => b = MemoryBind(c, host, dir)
<1> DEFINE E == ExplicitBinds(c, host, dir)
           D == IF IsLocal(host) THEN dirs.configured \ {"/workspace/.claude"} ELSE {"/shared", "/home/claude/.claude"}
           F == {Bind(d, host, dir, "fleet") : d \in D}
           M == IF HasMemoryBase(host) THEN {MemoryBind(c, host, dir)} ELSE {}
<1>1. dirs.configured \subseteq Configurable
      BY DEF Setups, Configurable
<1>2. IsFiniteSet(D) /\ D \subseteq Configurable \ {"/workspace/.claude"}
  <2>1. D \subseteq Configurable \ {"/workspace/.claude"}
        BY <1>1 DEF Configurable
  <2>2. IsFiniteSet({"/shared"} \cup {"/project-memory"} \cup {"/home/claude/.claude"} \cup {"/workspace/.claude"})
        BY FS_Singleton, FS_Union
  <2>3. D \subseteq {"/shared"} \cup {"/project-memory"} \cup {"/home/claude/.claude"} \cup {"/workspace/.claude"}
        BY <2>1 DEF Configurable
  <2> QED BY <2>1, <2>2, <2>3, FS_Subset
<1>3. \A d \in D : Bind(d, host, dir, "fleet").dest = d /\ Bind(d, host, dir, "fleet").src[1] = host
      BY DEF Bind
<1> HIDE DEF D
<1>4. IsFiniteSet(F)
  <2> DEFINE f == [d \in D |-> Bind(d, host, dir, "fleet")]
  <2>1. f \in Surjection(D, F)
        BY DEF Surjection
  <2> HIDE DEF f
  <2> QED BY <1>2, <2>1, FS_Surjection
<1>5. OneEach(F) /\ PathsOf(F, host) /\ \A b \in F : b.dest \in D
      BY <1>3, <1>4 DEF OneEach, PathsOf
<1>6. OneEach(M) /\ \A b \in M : b = MemoryBind(c, host, dir)
      BY NothingBound, OneBind
<1>7. MemoryBind(c, host, dir).dest = "/workspace/.claude" /\ MemoryBind(c, host, dir).src[1] = host
      BY DEF MemoryBind, Bind
<1>8. E = F \cup M
      BY DEF ExplicitBinds, D
<1> HIDE DEF E, F, M
<1>9. OneEach(F \cup M)
      BY <1>2, <1>5, <1>6, <1>7, Joined
<1>10. "/workspace/.claude" \in Configurable
      BY DEF Configurable
<1> QED BY <1>2, <1>5, <1>6, <1>7, <1>8, <1>9, <1>10 DEF PathsOf, Dests, E

LEMMA NewBindsOwn ==
  ASSUME dirs \in Setups, NEW c, NEW host \in Sites2, NEW dir, NEW learned, NEW socket \in BOOLEAN,
         Learnable(learned), host # "local" => learned = {}, socket => host # "local"
  PROVE  LET B == NewBinds(c, host, dir, learned, socket) IN
         /\ OneEach(B) /\ PathsOf(B, host)
         /\ \A b \in B : b.dest = Socket => host # "local"
         /\ \A b \in B : b.dest = "/workspace" => b.src[3] = c
         /\ HasMemoryBase(host) =>
              \A b \in B : b.dest = "/workspace/.claude" => b = MemoryBind(c, host, dir)
<1> DEFINE B == NewBinds(c, host, dir, learned, socket)
           E == ExplicitBinds(c, host, dir)
           K == Kept(learned, E)
           V == Bind("/workspace", host, "volume", c)
           chosenBinds == {V} \cup K \cup E
           R == SelfResolved(host, chosenBinds)
           S == IF socket THEN {SocketBind(host)} ELSE {}
<1>1. B = chosenBinds \cup R \cup S
      BY DEF NewBinds
<1>2. /\ OneEach(E) /\ PathsOf(E, host) /\ Dests(E) \subseteq Configurable
      /\ \A b \in E : b.dest = "/workspace/.claude" => b = MemoryBind(c, host, dir)
      BY ExplicitOnce
<1>3. V.dest = "/workspace" /\ V.src[1] = host /\ V.src[3] = c
      BY DEF Bind
<1>4. /\ K \subseteq learned
      /\ \A b \in K : b.dest \notin Dests(E) /\ b.dest # "/workspace" /\ b.dest # Socket
      BY DEF Kept, Learnable
<1>5. OneEach(K) /\ PathsOf(K, host)
      BY <1>4, PartOf DEF Learnable, PathsOf
<1>6. /\ OneEach(R) /\ PathsOf(R, host)
      /\ \A b \in R : b.dest = "/home/claude/.claude" /\ b.dest \notin Dests(chosenBinds)
  <2> DEFINE r == Bind("/home/claude/.claude", "local", "self", "fleet")
  <2>1. r.dest = "/home/claude/.claude" /\ r.src[1] = "local"
        BY DEF Bind
  <2>2. R = {} \/ (host = "local" /\ R = {r} /\ "/home/claude/.claude" \notin Dests(chosenBinds))
        BY DEF SelfResolved, IsLocal
  <2> HIDE DEF r, R
  <2> QED BY <2>1, <2>2, NothingBound, OneBind DEF PathsOf
<1>7. /\ OneEach(S) /\ PathsOf(S, host)
      /\ \A b \in S : b.dest = Socket /\ host # "local"
  <2> DEFINE s == SocketBind(host)
  <2>1. s.dest = Socket /\ s.src[1] = host
        BY DEF SocketBind, Bind
  <2>2. S = {} \/ (host # "local" /\ S = {s})
        OBVIOUS
  <2> HIDE DEF s, S
  <2> QED BY <2>1, <2>2, NothingBound, OneBind DEF PathsOf
<1>8. "/workspace" \notin Configurable /\ Socket \notin Configurable /\ Socket # "/workspace"
      /\ Socket # "/home/claude/.claude" /\ "/workspace" # "/workspace/.claude" /\ Socket # "/workspace/.claude"
      /\ "/workspace" # "/home/claude/.claude"
      BY DEF Configurable, Socket
<1>13. HasMemoryBase(host) => MemoryBind(c, host, dir) \in E /\ "/workspace/.claude" \in Dests(E)
  <2>1. MemoryBind(c, host, dir).dest = "/workspace/.claude"
        BY DEF MemoryBind, Bind
  <2>2. HasMemoryBase(host) => MemoryBind(c, host, dir) \in E
        BY DEF ExplicitBinds
  <2> HIDE DEF E
  <2> QED BY <2>1, <2>2 DEF Dests
<1> HIDE DEF B, E, K, V, R, S
<1>9. OneEach({V} \cup K)
  <2>1. OneEach({V})
        BY OneBind
  <2> QED BY <1>3, <1>4, <1>5, <2>1, Joined
<1>10. OneEach(({V} \cup K) \cup E)
      BY <1>2, <1>3, <1>4, <1>8, <1>9, Joined DEF Dests
<1>11. OneEach(chosenBinds \cup R)
      BY <1>6, <1>10, Joined DEF Dests
<1>14. \A b \in chosenBinds \cup R : b.dest # Socket
      BY <1>2, <1>3, <1>4, <1>6, <1>8 DEF Dests
<1>12. OneEach((chosenBinds \cup R) \cup S)
      BY <1>7, <1>11, <1>14, Joined
<1>15. \A b \in B : b.dest = "/workspace/.claude" => b \in E \/ b \in K
      BY <1>1, <1>3, <1>6, <1>7, <1>8
<1>16. HasMemoryBase(host) => \A b \in B : b.dest = "/workspace/.claude" => b = MemoryBind(c, host, dir)
      BY <1>2, <1>4, <1>13, <1>15
<1>17. PathsOf(B, host)
      BY <1>1, <1>2, <1>3, <1>5, <1>6, <1>7 DEF PathsOf
<1>18. \A b \in B : b.dest = "/workspace" => b = V
      BY <1>1, <1>2, <1>4, <1>6, <1>7, <1>8 DEF Dests
<1> QED BY <1>1, <1>3, <1>7, <1>12, <1>14, <1>16, <1>17, <1>18 DEF B

\* A container changes, or is there.
LEMMA CtrChanges ==
  ASSUME MountInv, NEW c \in Ctrs, NEW k, ctr' = [ctr EXCEPT ![c] = k],
         CtrRecord(k), k.host \in Sites2, k.based \in BOOLEAN,
         k.by \in {"nobody", "gone", "others", "adopted", "manager"},
         k.by \in {"others", "adopted"} => k.host = "local",
         OneEach(k.binds), PathsOf(k.binds, k.host)
  PROVE  CtrsTyped'
  BY DEF MountInv, CtrsTyped, CtrRecord

LEMMA CtrApart ==
  ASSUME MountInv, NEW c \in Ctrs, NEW k, ctr' = [ctr EXCEPT ![c] = k], UNCHANGED maker,
         k.by # "nobody", k.host \in {"local", ctr[c].host},
         \A m \in Makers : maker[m].at # "off" => maker[m].c # c
  PROVE  MakersApart'
<1> SUFFICES ASSUME NEW m \in Makers, maker[m].at # "off"
             PROVE  /\ maker[m].c \in Ctrs /\ ctr'[maker[m].c] = Absent
                    /\ \A n \in Makers : n # m /\ maker[n].at # "off" => maker[n].c # maker[m].c
                    /\ \A d \in maker[m].from : ctr'[d].by # "nobody" /\ ctr'[d].host = "local"
                    /\ maker[m].socket => maker[m].host = Far
                    /\ maker[m].host = Far => maker[m].learned = {} /\ maker[m].at # "inspect"
    BY DEF MakersApart
<1>1. /\ maker[m].c \in Ctrs /\ ctr[maker[m].c] = Absent /\ maker[m].c # c
      /\ \A n \in Makers : n # m /\ maker[n].at # "off" => maker[n].c # maker[m].c
      /\ \A d \in maker[m].from : d \in Ctrs /\ ctr[d].by # "nobody" /\ ctr[d].host = "local"
      /\ maker[m].socket => maker[m].host = Far
      /\ maker[m].host = Far => maker[m].learned = {} /\ maker[m].at # "inspect"
      BY DEF MountInv, MakersApart, MakersTyped
<1>2. /\ ctr'[c] = k /\ \A d \in Ctrs : d # c => ctr'[d] = ctr[d]
      BY DEF MountInv, CtrsTyped
<1> QED BY <1>1, <1>2

\* A container that is there is none that a creation is to make.
LEMMA ThereIsMade ==
  ASSUME MountInv, NEW c \in Ctrs, ctr[c].by # "nobody", NEW m \in Makers, maker[m].at # "off"
  PROVE  maker[m].c # c
  BY DEF MountInv, MakersApart, Absent

\* A container that is not an instance of the manager, or has its binds as it had.
LEMMA OthersOwn ==
  ASSUME MountInv, NEW c \in Ctrs, NEW k, ctr' = [ctr EXCEPT ![c] = k], k.by # "manager",
         UNCHANGED prepared
  PROVE  \A d \in Ctrs : ctr'[d].by = "manager" => OwnBinds(d)'
  BY DEF MountInv, CtrsTyped, OwnBinds

LEMMA MakeContainerKeeps ==
  ASSUME MountInv, NEW m \in Makers, MakeContainer(m) PROVE MountInv'
<1> DEFINE host == maker[m].host
           c == maker[m].c
           dir == IF IsLocal(host) THEN "configured" ELSE maker[m].root
           binds == NewBinds(c, host, dir, maker[m].learned, maker[m].socket)
           based == HasMemoryBase(host)
           memory == MemoryBind(c, host, dir)
           new == [by |-> "manager", host |-> host, based |-> based, binds |-> binds]
<1>1. /\ maker[m].at = "make" /\ maker' = [maker EXCEPT ![m] = Off]
      /\ ctr' = [ctr EXCEPT ![c] = new]
      /\ EnsureInstanceMemoryDir(c, host, dir)
      /\ UNCHANGED <<dirs, root, template, events>>
      BY DEF MakeContainer
<1>2. /\ c \in Ctrs /\ ctr[c] = Absent /\ host \in Sites2 /\ maker[m].socket \in BOOLEAN
      /\ Learnable(maker[m].learned) /\ dirs \in Setups
      /\ maker[m].socket => host = Far
      /\ host = Far => maker[m].learned = {}
      BY <1>1 DEF MountInv, MakersTyped, MakersApart, RestTyped
<1>3. /\ OneEach(binds) /\ PathsOf(binds, host)
      /\ \A b \in binds : b.dest = Socket => host # "local"
      /\ \A b \in binds : b.dest = "/workspace" => b.src[3] = c
      /\ based => \A b \in binds : b.dest = "/workspace/.claude" => b = memory
  <2> HIDE DEF host, c, dir, memory
  <2>1. (host # "local" => maker[m].learned = {}) /\ (maker[m].socket => host # "local")
        BY <1>2, FarAssumption DEF Sites2
  <2> QED BY <1>2, <2>1, NewBindsOwn DEF memory
<1>4. memory.src = <<host, dir, Slug(c)>>
      BY DEF MemoryBind, Bind
<1>5. /\ prepared \subseteq prepared' /\ \A p \in prepared' : p[1] = Far
      /\ host = Far => memory.src \in prepared'
      BY <1>1, <1>2, <1>4, FarAssumption
      DEF EnsureInstanceMemoryDir, RunOnHost, IsLocal, MountInv, RestTyped, Sites2
<1>6. based \in BOOLEAN
      BY DEF HasMemoryBase
<1>7. CtrRecord(new) /\ new.by = "manager" /\ new.host = host /\ new.based = based /\ new.binds = binds
      BY DEF CtrRecord
<1>8. \A d \in Ctrs : ctr'[d] = IF d = c THEN new ELSE ctr[d]
      BY <1>1, <1>2 DEF MountInv, CtrsTyped
<1> HIDE DEF host, c, dir, binds, based, memory, new
<1>9. CtrsTyped'
      BY <1>1, <1>2, <1>3, <1>6, <1>7, CtrChanges
<1>10. MakersTyped'
      BY <1>1, MakerEnds DEF MountInv
<1>11. MakersApart'
  <2>1. \A n \in Makers : maker'[n].at # "off" => n # m /\ maker'[n] = maker[n]
        BY <1>1 DEF MountInv, MakersTyped, Off
  <2>2. \A n \in Makers : maker[n].at # "off" /\ n # m => maker[n].c # c
        BY <1>1 DEF MountInv, MakersApart, c
  <2>3. \A n \in Makers : maker[n].at # "off" => \A d \in maker[n].from : d # c /\ d \in Ctrs
        BY <1>2 DEF MountInv, MakersApart, MakersTyped, Absent
  <2> QED BY <1>8, <2>1, <2>2, <2>3 DEF MountInv, MakersApart
<1>12. RestTyped'
      BY <1>1, <1>5 DEF MountInv, RestTyped
<1>13. \A d \in Ctrs : ctr'[d].by = "manager" => OwnBinds(d)'
  <2>1. ASSUME NEW d \in Ctrs, d # c, ctr'[d].by = "manager" PROVE OwnBinds(d)'
        BY <1>5, <1>8, <2>1 DEF MountInv, OwnBinds
  <2>2. ASSUME NEW d \in Ctrs, d = c PROVE OwnBinds(d)'
    <3>1. memory.src[3] = Slug(d) /\ \A b \in binds : b.dest = "/workspace" => b.src[3] = d
          BY <1>3, <1>4, <2>2
    <3>2. host # "local" => host = Far
          BY <1>2 DEF Sites2
    <3>3. ctr'[d] = new
          BY <1>8, <2>2
    <3> QED BY <1>3, <1>5, <1>7, <3>1, <3>2, <3>3 DEF OwnBinds
  <2> QED BY <2>1, <2>2
<1> QED BY <1>9, <1>10, <1>11, <1>12, <1>13 DEF MountInv

-----------------------------------------------------------------------------
(* The other operations.                                                   *)

LEMMA RebindKeeps ==
  ASSUME MountInv, NEW c \in Ctrs, NEW socket \in BOOLEAN, Rebind(c, socket) PROVE MountInv'
<1> DEFINE k == ctr[c]
           kept == {b \in k.binds : b.dest # Socket}
           given == IF socket THEN {SocketBind(k.host)} ELSE {}
           binds == kept \cup given
           new == [k EXCEPT !.binds = binds]
<1>1. /\ k.by \in {"manager", "adopted"} /\ (socket => k.host # "local")
      /\ ctr' = [ctr EXCEPT ![c].binds = binds]
      /\ UNCHANGED <<dirs, root, template, maker, prepared, events>>
      BY DEF Rebind, MayHaveSocket, IsLocal
<1>2. /\ CtrRecord(k) /\ k.host \in Sites2 /\ k.based \in BOOLEAN
      /\ k.by \in {"others", "adopted"} => k.host = "local"
      /\ OneEach(k.binds) /\ PathsOf(k.binds, k.host)
      /\ ctr = [d \in Ctrs |-> ctr[d]]
      BY DEF MountInv, CtrsTyped
<1>3. ctr' = [ctr EXCEPT ![c] = new]
      BY <1>1, <1>2
<1>4. CtrRecord(new) /\ new.by = k.by /\ new.host = k.host /\ new.based = k.based /\ new.binds = binds
      BY <1>2 DEF CtrRecord
<1>5. \A b \in given : b = SocketBind(k.host) /\ k.host # "local"
      BY <1>1
<1>6. SocketBind(k.host).dest = Socket /\ SocketBind(k.host).src[1] = k.host
      BY DEF SocketBind, Bind
<1>7. OneEach(given)
      BY NothingBound, OneBind
<1>8. OneEach(kept)
      BY <1>2, PartOf
<1>14. kept \subseteq k.binds /\ \A b \in kept : b.dest # Socket
      OBVIOUS
<1>15. binds = kept \cup given
      OBVIOUS
<1> HIDE DEF kept, given, binds, new, k
<1>9. OneEach(binds)
      BY <1>5, <1>6, <1>7, <1>8, <1>14, <1>15, Joined
<1>10. PathsOf(binds, k.host)
      BY <1>2, <1>5, <1>6, <1>14, <1>15 DEF PathsOf
<1>11. CtrsTyped'
      BY <1>1, <1>2, <1>3, <1>4, <1>9, <1>10, CtrChanges
<1>12. MakersApart'
  <2>1. \A m \in Makers : maker[m].at # "off" => maker[m].c # c
        BY <1>1, ThereIsMade DEF k
  <2> QED BY <1>1, <1>3, <1>4, <2>1, CtrApart DEF k
<1>13. ASSUME NEW d \in Ctrs, ctr'[d].by = "manager" PROVE OwnBinds(d)'
  <2>1. \A e \in Ctrs : ctr'[e] = IF e = c THEN new ELSE ctr[e]
        BY <1>2, <1>3
  <2>2. CASE d # c
        BY <1>1, <1>13, <2>1, <2>2 DEF MountInv, OwnBinds
  <2>3. CASE d = c
    <3>1. OwnBinds(d) /\ ctr[d] = k /\ ctr'[d] = new
          BY <1>4, <1>13, <2>1, <2>3 DEF MountInv, k
    <3>2. \A b \in binds : b.dest = Socket => k.host = Far
          BY <1>2, <1>5, <1>14, <1>15 DEF Sites2
    <3>3. "/workspace/.claude" # Socket /\ "/workspace" # Socket
          BY DEF Socket
    <3>4. \A b \in binds : b.dest \in {"/workspace/.claude", "/workspace"} => b \in k.binds
          BY <1>5, <1>6, <1>14, <1>15, <3>3
    <3> QED BY <1>1, <1>4, <3>1, <3>2, <3>4 DEF OwnBinds
  <2> QED BY <2>2, <2>3
<1>16. MakersTyped' /\ RestTyped'
      BY <1>1, SameMakers, SameRest DEF MountInv
<1> QED BY <1>11, <1>12, <1>13, <1>16 DEF MountInv

LEMMA AdoptMountsKeeps ==
  ASSUME MountInv, NEW c \in Ctrs, AdoptMounts(c) PROVE MountInv'
<1> DEFINE k == ctr[c]
           new == [k EXCEPT !.by = "adopted"]
<1>1. /\ k.by = "others" /\ ctr' = [ctr EXCEPT ![c].by = "adopted"] /\ template' = Nothing
      /\ UNCHANGED <<dirs, root, maker, prepared, events>>
      BY DEF AdoptMounts
<1>2. /\ CtrRecord(k) /\ k.host = "local" /\ k.based \in BOOLEAN
      /\ OneEach(k.binds) /\ PathsOf(k.binds, k.host)
      /\ ctr = [d \in Ctrs |-> ctr[d]]
      BY <1>1 DEF MountInv, CtrsTyped
<1>3. ctr' = [ctr EXCEPT ![c] = new]
      BY <1>1, <1>2
<1>4. CtrRecord(new) /\ new.by = "adopted" /\ new.host = k.host /\ new.based = k.based /\ new.binds = k.binds
      BY <1>2 DEF CtrRecord
<1> HIDE DEF new
<1>5. CtrsTyped'
      BY <1>2, <1>3, <1>4, CtrChanges DEF Sites2
<1>6. MakersApart'
  <2>1. \A m \in Makers : maker[m].at # "off" => maker[m].c # c
        BY <1>1, ThereIsMade
  <2> QED BY <1>1, <1>3, <1>4, <2>1, CtrApart
<1>7. \A d \in Ctrs : ctr'[d].by = "manager" => OwnBinds(d)'
      BY <1>1, <1>3, <1>4, OthersOwn
<1>8. MakersTyped' /\ RestTyped'
      BY <1>1, SameMakers DEF MountInv, RestTyped
<1> QED BY <1>5, <1>6, <1>7, <1>8 DEF MountInv

LEMMA ContAppearsKeeps ==
  ASSUME MountInv, NEW c \in Ctrs, NEW binds \in Foreign, ContAppears(c, binds) PROVE MountInv'
<1> DEFINE new == [Absent EXCEPT !.by = "others", !.binds = binds]
<1>1. /\ ctr[c] = Absent /\ \A o \in Makers : maker[o].c # c
      /\ ctr' = [ctr EXCEPT ![c] = new]
      /\ events < MaxEvents /\ events' = events + 1
      /\ UNCHANGED <<dirs, root, template, maker, prepared>>
      BY DEF ContAppears, Event
<1>2. CtrRecord(new) /\ new.by = "others" /\ new.host = "local" /\ new.based = FALSE /\ new.binds = binds
  <2>1. PICK a : a = Absent
        OBVIOUS
  <2>2. CtrRecord(a) /\ a.host = "local" /\ a.based = FALSE
        BY <2>1 DEF CtrRecord, Absent
  <2>3. new = [a EXCEPT !.by = "others", !.binds = binds]
        BY <2>1
  <2> HIDE DEF new
  <2> QED BY <2>2, <2>3 DEF CtrRecord
<1>3. OneEach(binds) /\ PathsOf(binds, "local")
      BY ForeignBinds
<1> HIDE DEF new
<1>4. CtrsTyped'
      BY <1>1, <1>2, <1>3, CtrChanges DEF Sites2
<1>5. MakersApart'
      BY <1>1, <1>2, CtrApart
<1>6. \A d \in Ctrs : ctr'[d].by = "manager" => OwnBinds(d)'
      BY <1>1, <1>2, OthersOwn
<1>7. MakersTyped' /\ RestTyped'
      BY <1>1, SameMakers, MaxEventsAssumption DEF MountInv, RestTyped
<1> QED BY <1>4, <1>5, <1>6, <1>7 DEF MountInv

LEMMA ContGoesKeeps ==
  ASSUME MountInv, NEW c \in Ctrs, ContGoes(c) PROVE MountInv'
<1>1. /\ ctr[c].by # "nobody" /\ ctr' = [ctr EXCEPT ![c] = GoneCtr]
      /\ events < MaxEvents /\ events' = events + 1
      /\ UNCHANGED <<dirs, root, template, maker, prepared>>
      BY DEF ContGoes, Event
<1>2. /\ CtrRecord(GoneCtr) /\ GoneCtr.by = "gone" /\ GoneCtr.host = "local"
      /\ GoneCtr.based = FALSE /\ GoneCtr.binds = {}
  <2>1. PICK a : a = Absent
        OBVIOUS
  <2>2. CtrRecord(a) /\ a.host = "local" /\ a.based = FALSE /\ a.binds = {}
        BY <2>1 DEF CtrRecord, Absent
  <2>3. PICK gone : gone = [a EXCEPT !.by = "gone"]
        OBVIOUS
  <2>4. CtrRecord(gone) /\ gone.by = "gone" /\ gone.host = "local" /\ gone.based = FALSE /\ gone.binds = {}
        BY <2>2, <2>3 DEF CtrRecord
  <2>5. GoneCtr = gone
        BY <2>1, <2>3 DEF GoneCtr
  <2> QED BY <2>4, <2>5
<1>3. OneEach({}) /\ PathsOf({}, "local")
      BY NothingBound DEF PathsOf
<1>4. CtrsTyped'
      BY <1>1, <1>2, <1>3, CtrChanges DEF Sites2
<1>5. MakersApart'
  <2>1. \A m \in Makers : maker[m].at # "off" => maker[m].c # c
        BY <1>1, ThereIsMade
  <2> QED BY <1>1, <1>2, <2>1, CtrApart
<1>6. \A d \in Ctrs : ctr'[d].by = "manager" => OwnBinds(d)'
      BY <1>1, <1>2, OthersOwn
<1>7. MakersTyped' /\ RestTyped'
      BY <1>1, SameMakers, MaxEventsAssumption DEF MountInv, RestTyped
<1> QED BY <1>4, <1>5, <1>6, <1>7 DEF MountInv

LEMMA BootstrapKeeps == ASSUME MountInv, Bootstrap PROVE MountInv'
<1>1. /\ prepared' = prepared \cup {<<Far, root, "fleet">>}
      /\ UNCHANGED <<dirs, root, ctr, template, maker, events>>
      BY DEF Bootstrap, RunOnHost
<1>2. CtrsTyped' /\ MakersTyped' /\ MakersApart'
      BY <1>1, SameCtrs, SameMakers DEF MountInv, MakersApart
<1>3. RestTyped'
      BY <1>1 DEF MountInv, RestTyped
<1>4. \A c \in Ctrs : ctr'[c].by = "manager" => OwnBinds(c)'
      BY <1>1, SameOwn DEF MountInv
<1> QED BY <1>2, <1>3, <1>4 DEF MountInv

LEMMA SurroundingsKeep ==
  ASSUME MountInv, (\E r \in Roots : MoveRoot(r)) \/ UNCHANGED mountVars PROVE MountInv'
<1>1. /\ root' \in Roots \cup {Nothing} /\ events' \in 0..MaxEvents
      /\ UNCHANGED <<dirs, ctr, template, maker, prepared>>
      BY MaxEventsAssumption DEF MoveRoot, Event, mountVars, MountInv, RestTyped
<1>2. CtrsTyped' /\ MakersTyped' /\ MakersApart'
      BY <1>1, SameCtrs, SameMakers DEF MountInv, MakersApart
<1>3. RestTyped'
      BY <1>1 DEF MountInv, RestTyped
<1>4. \A c \in Ctrs : ctr'[c].by = "manager" => OwnBinds(c)'
      BY <1>1, SameOwn DEF MountInv
<1> QED BY <1>2, <1>3, <1>4 DEF MountInv

LEMMA ReconfiguredKeeps == ASSUME MountInv, NEW s \in Setups, Reconfigured(s) PROVE MountInv'
<1>1. /\ dirs' = s /\ template' = Nothing /\ maker' = [m \in Makers |-> Off]
      /\ events' \in 0..MaxEvents /\ UNCHANGED <<root, ctr, prepared>>
      BY MaxEventsAssumption DEF Reconfigured, Event, MountInv, RestTyped
<1>2. CtrsTyped'
      BY <1>1, SameCtrs DEF MountInv
<1>3. MakersTyped' /\ MakersApart'
      BY <1>1, NothingBound DEF MakersTyped, MakersApart, MakerRecord, Off, Sites2
<1>4. RestTyped'
      BY <1>1 DEF MountInv, RestTyped
<1>5. \A c \in Ctrs : ctr'[c].by = "manager" => OwnBinds(c)'
      BY <1>1, SameOwn DEF MountInv
<1> QED BY <1>2, <1>3, <1>4, <1>5 DEF MountInv

LEMMA MountInvStep == MountInv /\ [MountNext]_mountVars => MountInv'
<1> SUFFICES ASSUME MountInv, [MountNext]_mountVars PROVE MountInv'
    OBVIOUS
<1>1. ASSUME NEW m \in Makers,
             (\E c \in Ctrs, host \in Sites2, socket \in BOOLEAN : BeginMounts(m, c, host, socket))
               \/ ListCandidates(m) \/ InspectCandidates(m) \/ MakeContainer(m) \/ MakeFails(m)
      PROVE  MountInv'
      BY <1>1, BeginMountsKeeps, ListCandidatesKeeps, InspectCandidatesKeeps, MakeContainerKeeps, MakeFailsKeeps
<1>2. ASSUME NEW c \in Ctrs,
             (\E socket \in BOOLEAN : Rebind(c, socket)) \/ (\E binds \in Foreign : ContAppears(c, binds))
               \/ AdoptMounts(c) \/ ContGoes(c)
      PROVE  MountInv'
      BY <1>2, RebindKeeps, ContAppearsKeeps, AdoptMountsKeeps, ContGoesKeeps
<1>3. CASE Bootstrap \/ (\E s \in Setups : Reconfigured(s))
      BY <1>3, BootstrapKeeps, ReconfiguredKeeps
<1>4. CASE (\E r \in Roots : MoveRoot(r)) \/ UNCHANGED mountVars
      BY <1>4, SurroundingsKeep
<1> QED BY <1>1, <1>2, <1>3, <1>4 DEF MountNext

LEMMA MountInvAlways == MountSpec => []MountInv
  BY MountInvInit, MountInvStep, PTL DEF MountSpec

\* Every variable of the mounts keeps to its type.
THEOREM MountTypeCorrect == MountSpec => []MountTypeOK
  BY MountInvAlways, MountInvImplies, PTL

\* Whatever the containers a template was learned from had bound, however many
\* creations overlap, and however directories, hosts and containers change in
\* between: an instance has no place bound twice, no socket of the manager's own
\* daemon, only paths of its own host, a workspace of its own, and the memory
\* directory of its name, which a remote host had been made to have
\* (createInstance, recreateInstance).
THEOREM MountsItsOwnCorrect == MountSpec => []MountsItsOwn
  BY MountInvAlways, MountInvImplies, PTL
-----------------------------------------------------------------------------
(* The key of an instance (InstanceSpec).                                  *)

Record(c) == c = [backend |-> c.backend, policy |-> c.policy, socket |-> c.socket,
                  model |-> c.model, netAdmin |-> c.netAdmin, env |-> c.env]

KeyTyped ==
  /\ served \subseteq Models /\ hash \in Keys \cup {"none"} /\ scope \in [Keys -> SUBSET Models]
  /\ cont # NoContainer => Record(cont) /\ cont.backend \in Backends
  /\ ours => cont # NoContainer

IsKey(e) == e[1] = "API_KEY"

\* What the key in a container has to do with the row: it is the one on record,
\* or none is on record, or it is no key of an instance.  Only routed instances
\* have keys on record.  One made here has the key on record, unless none is, and
\* has not the master key.
KeyOnRecord ==
  /\ cont # NoContainer =>
       /\ \A e \in cont.env : IsKey(e) => e[2] = hash \/ hash = "none" \/ e[2] \notin Keys
       /\ <<"API_KEY", "none">> \notin cont.env
  /\ cont.backend \notin Routed => hash = "none"
  /\ ours =>
       /\ <<"API_KEY", "master">> \notin cont.env
       /\ cont.backend \in Routed /\ hash # "none" => <<"API_KEY", hash>> \in cont.env

KeyScoped ==
  ours /\ <<"API_KEY", hash>> \in cont.env =>
    scope[hash] # {} /\ scope[hash] \subseteq RoutesForBackend(cont.backend, Models)

KeyInv == KeyTyped /\ KeyOnRecord /\ KeyScoped

LEMMA KeyInvImplies == KeyInv => KeyWithinBackend
  BY DEF KeyInv, KeyOnRecord, KeyScoped, KeyWithinBackend, IsKey

LEMMA KeyInvInit == SpecInit => KeyInv
<1> SUFFICES ASSUME SpecInit PROVE KeyInv
    OBVIOUS
<1>1. hash \in Keys \cup {"none"} /\ served \subseteq Models /\ ~ours
      BY DEF SpecInit, Keys
<1>2. scope \in [Keys -> SUBSET Models]
      BY DEF SpecInit, Models, Routed
<1>3. CASE cont = NoContainer
  <2>1. hash = "none" /\ cont.backend \notin Routed
        BY <1>3 DEF SpecInit, NoContainer, LegacyContainers, Routed
  <2> QED BY <1>1, <1>2, <1>3, <2>1 DEF KeyInv, KeyTyped, KeyOnRecord, KeyScoped
<1>4. CASE cont \in LegacyContainers
  <2> PICK backend \in {"local-llm", "claude-max"}, policy \in {"unrestricted", "claude-only"},
           socket \in BOOLEAN, key \in {"master", "shared", "k1"} :
        cont = [backend |-> backend, policy |-> policy, socket |-> socket, model |-> NoModel,
                netAdmin |-> IsRestricted(policy),
                env |-> Set("BACKEND", backend) \cup Set("API_KEY", key) \cup Set("BASE_URL", 1)
                          \cup Set("API_BASE", 1) \cup Set("IMAGE_ENV", 2)
                          \cup If(IsRestricted(policy), Set("PROXY", 2))]
      BY <1>4 DEF LegacyContainers
  <2>1. Record(cont) /\ cont.backend \in Backends
        BY DEF Record, Backends, Routed
  <2>2. \A e \in cont.env : IsKey(e) => e[2] \in {"master", "shared", "k1"}
        BY DEF IsKey, Set, If
  <2>3. hash \in {"none", "k1"} /\ (cont.backend \notin Routed => hash = "none")
        BY <2>1 DEF SpecInit, NoContainer, Backends, Routed
  <2>4. <<"API_KEY", "none">> \notin cont.env
        BY <2>2 DEF IsKey
  <2> QED BY <1>1, <1>2, <2>1, <2>2, <2>3, <2>4 DEF KeyInv, KeyTyped, KeyOnRecord, KeyScoped, Keys
<1> QED BY <1>3, <1>4 DEF SpecInit

\* A replacement has the key it is given, if it is routed, and otherwise only
\* one that was there before and was not the master key.
LEMMA ReplacementKeys ==
  ASSUME Record(cont), cont.backend \in Backends,
         NEW socket, NEW policy, NEW key
  PROVE  LET new == Recreated(socket, policy, key) IN
         /\ Record(new) /\ new.backend = cont.backend /\ new # NoContainer
         /\ cont.backend \in Routed =>
              /\ <<"API_KEY", key>> \in new.env
              /\ \A e \in new.env : IsKey(e) => e[2] = key
         /\ cont.backend \notin Routed =>
              \A e \in new.env : IsKey(e) => e \in cont.env /\ e # <<"API_KEY", "master">>
<1> DEFINE new == Recreated(socket, policy, key)
<1> DEFINE added ==
      Set("MANAGER_URL", ManagerUrl) \cup Set("NETWORK_POLICY", policy) \cup SecretEnv \cup TzEnv
        \cup If(IsRestricted(policy), Set("PROXY", setup.proxy)) \cup ModelEnv(Pinned)
<1> DEFINE keys == If(cont.backend \in Routed, Set("API_KEY", key) \cup Set("BASE_URL", LitellmUrl))
<1> DEFINE all ==
      CarriedOver(Pinned)
        \cup Set("MANAGER_URL", ManagerUrl) \cup Set("NETWORK_POLICY", policy) \cup SecretEnv \cup TzEnv
        \cup If(cont.backend \in Routed, Set("API_KEY", key) \cup Set("BASE_URL", LitellmUrl))
        \cup If(IsRestricted(policy), Set("PROXY", setup.proxy))
        \cup ModelEnv(Pinned)
<1>5. Record(new) /\ new.backend = cont.backend /\ new.env = all
  <2> DEFINE model == IF Pinned # NoModel THEN Pinned ELSE cont.model
  <2>1. new = [cont EXCEPT !.socket = socket, !.policy = policy, !.netAdmin = IsRestricted(policy),
                           !.model = model, !.env = all]
        BY Zenon DEF Recreated, new, model, all
  <2> HIDE DEF model, new, all
  <2>2. new.backend = cont.backend /\ new.env = all
        BY <2>1 DEF Record
  <2> DEFINE b == cont.backend p == cont.policy s == cont.socket
             m == cont.model n == cont.netAdmin e == cont.env
  <2>3. cont = [backend |-> b, policy |-> p, socket |-> s, model |-> m, netAdmin |-> n, env |-> e]
        BY DEF Record
  <2> HIDE DEF b, p, s, m, n, e
  <2>4. new = [backend |-> new.backend, policy |-> new.policy, socket |-> new.socket,
               model |-> new.model, netAdmin |-> new.netAdmin, env |-> new.env]
        BY <2>1, <2>3
  <2> QED BY <2>2, <2>4 DEF Record
<1>1. new.env = CarriedOver(Pinned) \cup keys \cup added
      BY <1>5
<1>2. \A e \in added : ~IsKey(e)
      BY DEF IsKey, Set, If, SecretEnv, TzEnv, ModelEnv
<1>3. \A e \in keys : IsKey(e) => e = <<"API_KEY", key>> /\ cont.backend \in Routed
      BY DEF IsKey, Set, If
<1>4. \A e \in CarriedOver(Pinned) :
        IsKey(e) => e \in cont.env /\ e # <<"API_KEY", "master">> /\ cont.backend \notin Routed
      BY DEF CarriedOver, IsKey, Stripped, If, Set
<1>6. new # NoContainer
      BY <1>5 DEF Backends, Routed, NoContainer
<1>7. cont.backend \in Routed => <<"API_KEY", key>> \in new.env
      BY <1>1 DEF If, Set
<1> HIDE DEF added, keys, new
<1> QED BY <1>1, <1>2, <1>3, <1>4, <1>5, <1>6, <1>7 DEF new

LEMMA ServedRoutes ==
  ASSUME KeyTyped, NEW backend
  PROVE  RoutesForBackend(backend, served) \subseteq RoutesForBackend(backend, Models)
  BY DEF KeyTyped, RoutesForBackend

\* There are keys enough for a fresh one.
LEMMA Fresh ==
  ASSUME KeyTyped, KeyOnRecord, cont # NoContainer
  PROVE  FreshKey \in Keys /\ FreshKey # hash /\ FreshKey # EnvKey
<1>1. EnvKey \notin Keys \/ hash = "none" \/ EnvKey = hash
  <2>1. CASE Values(cont.env, "API_KEY") = {}
        BY <2>1 DEF EnvKey, Keys
  <2>2. CASE Values(cont.env, "API_KEY") # {}
    <3>1. EnvKey \in Values(cont.env, "API_KEY")
          BY <2>2 DEF EnvKey
    <3>2. PICK e \in cont.env : IsKey(e) /\ e[2] = EnvKey
          BY <3>1 DEF Values, IsKey
    <3> QED BY <3>2 DEF KeyOnRecord
  <2> QED BY <2>1, <2>2
<1>2. \E k \in Keys : k # hash /\ k # EnvKey
      BY <1>1 DEF Keys, KeyTyped
<1> QED BY <1>2 DEF FreshKey

\* A container that is created has a key only if it is routed, and the one given.
LEMMA CreatedKeys ==
  ASSUME NEW backend \in Backends, NEW policy, NEW socket, NEW model, NEW key
  PROVE  LET new == CreatedContainer(backend, policy, socket, model, key) IN
         /\ Record(new) /\ new.backend = backend /\ new # NoContainer
         /\ backend \in Routed => <<"API_KEY", key>> \in new.env
         /\ \A e \in new.env : IsKey(e) => e[2] = key /\ backend \in Routed
<1> DEFINE new == CreatedContainer(backend, policy, socket, model, key)
<1> DEFINE keys == If(backend \in Routed, Set("API_KEY", key))
<1>1. Record(new) /\ new.backend = backend /\ new.env = CreatedEnv(backend, policy, model) \cup keys
      BY DEF CreatedContainer, Record
<1>2. \A e \in CreatedEnv(backend, policy, model) : ~IsKey(e)
      BY DEF CreatedEnv, IsKey, Set, If, SecretEnv, TzEnv, ModelEnv
<1>3. \A e \in keys : IsKey(e) => e[2] = key /\ backend \in Routed
      BY DEF IsKey, Set, If
<1>4. backend \in Routed => <<"API_KEY", key>> \in keys
      BY DEF If, Set
<1>5. new # NoContainer
      BY <1>1 DEF Backends, Routed, NoContainer
<1> HIDE DEF new, keys
<1> QED BY <1>1, <1>2, <1>3, <1>4, <1>5 DEF new

LEMMA CreateKeeps ==
  ASSUME KeyInv, NEW backend \in Backends, NEW policy, NEW socket, NEW asked,
         Create(backend, policy, socket, asked)
  PROVE  KeyInv'
<1> DEFINE model == Resolved(backend, asked)
<1>1. /\ cont' = CreatedContainer(backend, policy, socket, model, "k1")
      /\ ours' /\ served' = served
      /\ IF backend \in Routed THEN hash' = "k1" /\ scope' = Minted("k1", backend)
         ELSE UNCHANGED <<hash, scope>>
      BY DEF Create
<1> HIDE DEF model
<1>2. /\ Record(cont') /\ cont'.backend = backend /\ cont' # NoContainer
      /\ backend \in Routed => <<"API_KEY", "k1">> \in cont'.env
      /\ \A e \in cont'.env : IsKey(e) => e[2] = "k1" /\ backend \in Routed
      BY <1>1, CreatedKeys
<1>3. CASE backend \in Routed
  <2>1. RoutesForBackend(backend, served) # {}
        BY <1>3 DEF Create, Selectable, Routed
  <2>2. RoutesForBackend(backend, served) \subseteq RoutesForBackend(backend, Models)
        BY ServedRoutes DEF KeyInv
  <2>3. scope' \in [Keys -> SUBSET Models] /\ scope'["k1"] = RoutesForBackend(backend, served)
        BY <1>1, <1>3 DEF Minted, KeyInv, KeyTyped, RoutesForBackend, Keys
  <2>4. <<"API_KEY", "none">> \notin cont'.env /\ <<"API_KEY", "master">> \notin cont'.env
        BY <1>2 DEF IsKey
  <2> QED BY <1>1, <1>2, <1>3, <2>1, <2>2, <2>3, <2>4 DEF KeyInv, KeyTyped, KeyOnRecord, KeyScoped, Keys
<1>4. CASE backend \notin Routed
  <2>1. \A k : <<"API_KEY", k>> \notin cont'.env
        BY <1>2, <1>4 DEF IsKey
  <2>2. hash' = hash /\ scope' = scope /\ hash = "none"
        BY <1>1, <1>4 DEF Create, NoContainer, KeyInv, KeyOnRecord, Routed
  <2> QED BY <1>1, <1>2, <1>4, <2>1, <2>2 DEF KeyInv, KeyTyped, KeyOnRecord, KeyScoped, IsKey
<1> QED BY <1>3, <1>4

\* What a recreate leaves at the router: the key the replacement gets is known
\* there with some models of its backend, unless the database does not know it.
LEMMA ScopedAfter ==
  ASSUME KeyInv, cont # NoContainer, KeyAvailable
  PROVE  /\ ScopeAfter \in [Keys -> SUBSET Models]
         /\ cont.backend \in Routed /\ ~LegacyKey =>
              LET key == IF OwnKey THEN hash ELSE FreshKey IN
              /\ key \in Keys /\ ScopeAfter[key] # {}
              /\ ScopeAfter[key] \subseteq RoutesForBackend(cont.backend, Models)
         /\ cont.backend \notin Routed => ScopeAfter = scope
         /\ LegacyKey => ScopeAfter = scope
<1> DEFINE allowed == RoutesForBackend(cont.backend, served)
<1>1. allowed \subseteq RoutesForBackend(cont.backend, Models) /\ allowed \subseteq Models
      BY ServedRoutes DEF KeyInv, KeyTyped, RoutesForBackend
<1>2. FreshKey \in Keys
      BY Fresh DEF KeyInv
<1>3. CASE cont.backend \notin Routed \/ LegacyKey
      BY <1>3 DEF ScopeAfter, KeyInv, KeyTyped
<1>4. CASE cont.backend \in Routed /\ ~LegacyKey /\ OwnKey
  <2>1. hash \in Keys
        BY <1>4 DEF OwnKey, KeyInv, KeyTyped
  <2>2. Narrowed(scope[hash], allowed) # {} /\ Narrowed(scope[hash], allowed) \subseteq allowed
        BY <1>4 DEF KeyAvailable, Narrowed
  <2>3. ScopeAfter = [scope EXCEPT ![hash] = Narrowed(scope[hash], allowed)]
        BY <1>4 DEF ScopeAfter
  <2> HIDE DEF allowed
  <2> QED BY <1>1, <1>4, <2>1, <2>2, <2>3 DEF KeyInv, KeyTyped
<1>5. CASE cont.backend \in Routed /\ ~LegacyKey /\ ~OwnKey
  <2>1. allowed # {}
        BY <1>5 DEF KeyAvailable
  <2>2. ScopeAfter = [scope EXCEPT ![FreshKey] = allowed]
        BY <1>5 DEF ScopeAfter, Minted
  <2> HIDE DEF allowed
  <2> QED BY <1>1, <1>2, <1>5, <2>1, <2>2 DEF KeyInv, KeyTyped
<1> QED BY <1>3, <1>4, <1>5

LEMMA RecreateKeeps ==
  ASSUME KeyInv, cont # NoContainer,
         NEW socket \in BOOLEAN, NEW policy \in NetworkPolicies, Recreate(socket, policy)
  PROVE  KeyInv'
<1>1. scope' = ScopeAfter /\ KeyAvailable /\ served' = served
      BY DEF Recreate
<1>2. Record(cont) /\ cont.backend \in Backends
      BY DEF KeyInv, KeyTyped
<1>3. CASE cont.backend \in Routed /\ ~LegacyKey /\ UNCHANGED <<cont, hash, asNow, ours>>
  <2>1. CASE OwnKey
        BY <1>1, <1>3, <2>1, ScopedAfter DEF KeyInv, KeyTyped, KeyOnRecord, KeyScoped
  <2>2. CASE ~OwnKey
    <3>1. scope' = [scope EXCEPT ![FreshKey] = RoutesForBackend(cont.backend, served)]
          BY <1>1, <1>3, <2>2 DEF ScopeAfter, Minted
    <3>2. FreshKey # hash
          BY Fresh DEF KeyInv
    <3>3. ours /\ <<"API_KEY", hash>> \in cont.env => scope'[hash] = scope[hash]
      <4>1. ours /\ <<"API_KEY", hash>> \in cont.env => hash \in Keys
            BY DEF KeyInv, KeyTyped, KeyOnRecord
      <4> QED BY <3>1, <3>2, <4>1 DEF KeyInv, KeyTyped
    <3> QED BY <1>1, <1>3, <3>3, ScopedAfter DEF KeyInv, KeyTyped, KeyOnRecord, KeyScoped
  <2> QED BY <2>1, <2>2
<1>4. CASE /\ cont' = Recreated(socket, policy, KeptKey) /\ ours'
           /\ hash' = IF cont.backend \in Routed /\ ~OwnKey /\ ~LegacyKey THEN FreshKey ELSE hash
  <2>1. /\ Record(cont') /\ cont'.backend = cont.backend /\ cont' # NoContainer
        /\ cont.backend \in Routed =>
             <<"API_KEY", KeptKey>> \in cont'.env /\ \A e \in cont'.env : IsKey(e) => e[2] = KeptKey
        /\ cont.backend \notin Routed =>
             \A e \in cont'.env : IsKey(e) => e \in cont.env /\ e # <<"API_KEY", "master">>
        BY <1>2, <1>4, ReplacementKeys
  <2>2. CASE cont.backend \notin Routed
    <3>1. hash' = hash /\ hash = "none" /\ scope' = scope
          BY <1>1, <1>4, <2>2, ScopedAfter DEF KeyInv, KeyOnRecord
    <3> QED BY <1>1, <1>4, <2>1, <2>2, <3>1 DEF KeyInv, KeyTyped, KeyOnRecord, KeyScoped, IsKey
  <2>3. CASE LegacyKey
    <3>1. hash' = "none" /\ scope' = scope /\ cont.backend \in Routed
          BY <1>1, <1>4, <2>3, ScopedAfter DEF LegacyKey
    <3>2. KeptKey # "none" /\ KeptKey # "master"
          BY <2>3 DEF KeptKey, LegacyKey
    <3> QED BY <1>1, <1>4, <2>1, <3>1, <3>2 DEF KeyInv, KeyTyped, KeyOnRecord, KeyScoped, IsKey
  <2>4. CASE cont.backend \in Routed /\ ~LegacyKey
    <3>1. KeptKey = hash' /\ hash' = IF OwnKey THEN hash ELSE FreshKey
          BY <1>4, <2>4 DEF KeptKey, OwnKey
    <3> QED BY <1>1, <1>4, <2>1, <2>4, <3>1, ScopedAfter
            DEF KeyInv, KeyTyped, KeyOnRecord, KeyScoped, IsKey, Keys
  <2> QED BY <2>2, <2>3, <2>4
<1> QED BY <1>3, <1>4 DEF Recreate

LEMMA RotateKeeps ==
  ASSUME KeyInv, cont # NoContainer, Rotate
  PROVE  KeyInv'
<1>1. /\ cont' = Recreated(cont.socket, cont.policy, FreshKey)
      /\ hash' = FreshKey /\ scope' = [scope EXCEPT ![FreshKey] = scope[hash]]
      /\ served' = served /\ ours' = ours
      /\ hash # "none" /\ scope[hash] # {} /\ cont.backend \in Routed
      BY DEF Rotate
<1>2. Record(cont) /\ cont.backend \in Backends
      BY DEF KeyInv, KeyTyped
<1>3. FreshKey \in Keys
      BY Fresh DEF KeyInv
<1>4. /\ Record(cont') /\ cont'.backend = cont.backend /\ cont' # NoContainer
      /\ <<"API_KEY", FreshKey>> \in cont'.env
      /\ \A e \in cont'.env : IsKey(e) => e[2] = FreshKey
      BY <1>1, <1>2, ReplacementKeys
<1>5. <<"API_KEY", "none">> \notin cont'.env /\ <<"API_KEY", "master">> \notin cont'.env
      BY <1>3, <1>4 DEF IsKey, Keys
<1>6. scope' \in [Keys -> SUBSET Models] /\ scope'[FreshKey] = scope[hash]
      BY <1>1, <1>3 DEF KeyInv, KeyTyped
<1>7. ours => scope[hash] \subseteq RoutesForBackend(cont.backend, Models)
      BY <1>1 DEF KeyInv, KeyOnRecord, KeyScoped
<1> QED BY <1>1, <1>3, <1>4, <1>5, <1>6, <1>7 DEF KeyInv, KeyTyped, KeyOnRecord, KeyScoped

LEMMA KeyInvStep == KeyInv /\ [SpecNext]_specVars => KeyInv'
<1> SUFFICES ASSUME KeyInv, [SpecNext]_specVars PROVE KeyInv'
    OBVIOUS
<1>1. CASE \E m \in Models : RoutesChange(m)
      BY <1>1 DEF RoutesChange, Edit, KeyInv, KeyTyped, KeyOnRecord, KeyScoped
<1>2. CASE Reconfigure \/ EditHost
      BY <1>2 DEF Reconfigure, EditHost, Edit, KeyInv, KeyTyped, KeyOnRecord, KeyScoped
<1>3. CASE UNCHANGED specVars
      BY <1>3 DEF specVars, KeyInv, KeyTyped, KeyOnRecord, KeyScoped
<1>4. CASE \E backend \in Backends, policy \in NetworkPolicies, socket \in BOOLEAN,
              model \in Models \cup CliModels \cup {NoModel} : Create(backend, policy, socket, model)
      BY <1>4, CreateKeeps
<1>5. CASE cont # NoContainer /\ \E socket \in BOOLEAN, policy \in NetworkPolicies : Recreate(socket, policy)
      BY <1>5, RecreateKeeps
<1>6. CASE cont # NoContainer /\ Rotate
      BY <1>6, RotateKeeps
<1> QED BY <1>1, <1>2, <1>3, <1>4, <1>5, <1>6 DEF SpecNext

\* However the routes, the settings and the host change, and whatever container
\* was there first, an instance made here has no master key, and the key of its
\* own that is on record reaches models of its backend only, and some.
THEOREM KeyWithinBackendCorrect == SpecSpec => []KeyWithinBackend
  BY KeyInvInit, KeyInvStep, KeyInvImplies, PTL DEF SpecSpec

-----------------------------------------------------------------------------
(* What an instance is made of (InstanceSpec).                             *)

SettingsTyped ==
  /\ setup \in Settings
  /\ place \in [remote : BOOLEAN, accepts : BOOLEAN, callback : 0..2, root : BOOLEAN]
  /\ served \subseteq Models /\ edits \in Nat /\ asNow \in BOOLEAN /\ ours \in BOOLEAN

ContTyped(k) ==
  /\ Record(k) /\ k.backend \in Backends /\ k.policy \in NetworkPolicies
  /\ k.socket \in BOOLEAN /\ k.netAdmin \in BOOLEAN

ModelsOf(backend) ==
  IF backend \in Routed THEN Models \cup {NoModel}
  ELSE IF backend = "github-copilot" THEN CliModels \cup {NoModel} ELSE {NoModel}

\* No variable twice, a model of the backend, and the variables of a model where
\* they belong.
WellMade(k) ==
  /\ \A e \in k.env : e[1] \in Names
  /\ \A e, f \in k.env : e[1] = f[1] => e = f
  /\ k.model \in ModelsOf(k.backend)
  /\ Values(k.env, "COPILOT_MODEL") =
       IF k.backend = "github-copilot" /\ k.model # NoModel THEN {k.model} ELSE {}
  /\ k.backend \notin Routed => Values(k.env, "MODEL") = {}

\* As a create would make it now.
AsCreated(k) ==
  LET created == CreatedEnv(k.backend, k.policy, k.model) IN
  /\ k.netAdmin = IsRestricted(k.policy)
  /\ \A name \in Names \ (LeftAlone \cup {"API_KEY", "BACKEND", "BASE_URL"}) :
       Values(k.env, name) = Values(created, name)
  /\ k.backend \in Routed => Values(k.env, "BASE_URL") = Values(created, "BASE_URL")

MadeInv == /\ SettingsTyped
           /\ cont # NoContainer => ContTyped(cont) /\ WellMade(cont) /\ (asNow => AsCreated(cont))
           /\ asNow => cont # NoContainer

LEMMA MadeInvImplies == MadeInv /\ KeyInv => RecreatedAsCreated /\ SpecTypeOK
<1> SUFFICES ASSUME MadeInv, KeyInv PROVE RecreatedAsCreated /\ SpecTypeOK
    OBVIOUS
<1>1. RecreatedAsCreated
      BY DEF MadeInv, WellMade, AsCreated, RecreatedAsCreated
<1>2. cont # NoContainer => cont.model \in Models \cup CliModels \cup {NoModel}
      BY DEF MadeInv, WellMade, ModelsOf
<1> QED BY <1>1, <1>2 DEF MadeInv, WellMade, ContTyped, SettingsTyped, SpecTypeOK, KeyInv, KeyTyped

\* The values of a variable in the parts of an environment.
LEMMA ValuesOf ==
  ASSUME NEW env, NEW name, NEW v
  PROVE  v \in Values(env, name) <=> \E e \in env : e[1] = name /\ e[2] = v
  BY DEF Values

LEMMA MadeInvInit == SpecInit => MadeInv
<1> SUFFICES ASSUME SpecInit PROVE MadeInv
    OBVIOUS
<1>1. SettingsTyped /\ ~asNow
  <2>1. setup \in Settings
        BY DEF SpecInit, Settings
  <2>2. place \in [remote : BOOLEAN, accepts : BOOLEAN, callback : 0..2, root : BOOLEAN]
    <3>1. PICK r \in BOOLEAN : place = [remote |-> r, accepts |-> TRUE, callback |-> 1, root |-> TRUE]
          BY DEF SpecInit
    <3> QED BY <3>1
  <2> QED BY <2>1, <2>2, EditsAssumption DEF SpecInit, SettingsTyped
<1>2. CASE cont \in LegacyContainers
  <2> PICK backend \in {"local-llm", "claude-max"}, policy \in {"unrestricted", "claude-only"},
           socket \in BOOLEAN, key \in {"master", "shared", "k1"} :
        cont = [backend |-> backend, policy |-> policy, socket |-> socket, model |-> NoModel,
                netAdmin |-> IsRestricted(policy),
                env |-> Set("BACKEND", backend) \cup Set("API_KEY", key) \cup Set("BASE_URL", 1)
                          \cup Set("API_BASE", 1) \cup Set("IMAGE_ENV", 2)
                          \cup If(IsRestricted(policy), Set("PROXY", 2))]
      BY <1>2 DEF LegacyContainers
  <2>1. ContTyped(cont)
        BY DEF ContTyped, Record, Backends, Routed, NetworkPolicies, IsRestricted
  <2>2. \A e \in cont.env : e[1] \in {"BACKEND", "API_KEY", "BASE_URL", "PROXY", "API_BASE", "IMAGE_ENV"}
        BY DEF Set, If
  <2>3. \A e, f \in cont.env : e[1] = f[1] => e = f
        BY DEF Set, If
  <2>4. WellMade(cont)
        BY <2>2, <2>3 DEF WellMade, Names, ModelsOf, Values
  <2> QED BY <1>1, <2>1, <2>4 DEF MadeInv
<1> QED BY <1>1, <1>2 DEF SpecInit, MadeInv

LEMMA CliModelCreated ==
  ASSUME NEW backend, NEW policy, NEW model
  PROVE  Values(CreatedEnv(backend, policy, model), "COPILOT_MODEL") =
           IF backend = "github-copilot" /\ model # NoModel THEN {model} ELSE {}
<1> DEFINE E == CreatedEnv(backend, policy, model)
<1>1. ASSUME backend = "github-copilot", model # NoModel
      PROVE  \A v : v \in Values(E, "COPILOT_MODEL") <=> v = model
  <2>1. \A e \in E : e[1] = "COPILOT_MODEL" => e[2] = model
        BY <1>1 DEF CreatedEnv, Set, If, SecretEnv, TzEnv, ModelEnv
  <2>2. <<"COPILOT_MODEL", model>> \in E
        BY <1>1 DEF CreatedEnv, Set, If
  <2> HIDE DEF E
  <2> QED BY <2>1, <2>2, ValuesOf
<1>2. ASSUME ~(backend = "github-copilot" /\ model # NoModel)
      PROVE  \A e \in E : e[1] # "COPILOT_MODEL"
      BY <1>2 DEF CreatedEnv, Set, If, SecretEnv, TzEnv, ModelEnv
<1> HIDE DEF E
<1>3. CASE backend = "github-copilot" /\ model # NoModel
      BY <1>1, <1>3 DEF E
<1>4. CASE ~(backend = "github-copilot" /\ model # NoModel)
      BY <1>2, <1>4 DEF Values, E
<1> QED BY <1>3, <1>4

\* What createInstance makes.
LEMMA CreatedWell ==
  ASSUME NEW backend \in Backends, NEW policy \in NetworkPolicies, NEW socket \in BOOLEAN,
         NEW model \in ModelsOf(backend), NEW key
  PROVE  LET k == CreatedContainer(backend, policy, socket, model, key) IN
         ContTyped(k) /\ WellMade(k) /\ AsCreated(k) /\ k # NoContainer
<1> DEFINE k == CreatedContainer(backend, policy, socket, model, key)
           E == CreatedEnv(backend, policy, model)
           K == If(backend \in Routed, Set("API_KEY", key))
<1>1. /\ k.backend = backend /\ k.policy = policy /\ k.socket = socket /\ k.model = model
      /\ k.netAdmin = IsRestricted(policy) /\ k.env = E \cup K /\ Record(k)
      BY DEF CreatedContainer, Record
<1>2. \A e \in E : e[1] \in Names \ {"API_KEY"}
      BY DEF CreatedEnv, Names, Set, If, SecretEnv, TzEnv, ModelEnv
<1>3. \A e, f \in E : e[1] = f[1] => e = f
      BY DEF CreatedEnv, Set, If, SecretEnv, TzEnv, ModelEnv
<1>4. \A e, f \in K : e[1] = "API_KEY" /\ e = f
      BY DEF Set, If
<1>5. "API_KEY" \in Names
      BY DEF Names
<1>6. Values(E, "COPILOT_MODEL") =
        IF backend = "github-copilot" /\ model # NoModel THEN {model} ELSE {}
      BY CliModelCreated
<1>7. backend \notin Routed => Values(E, "MODEL") = {}
      BY DEF CreatedEnv, Values, Set, If, SecretEnv, TzEnv, ModelEnv
<1>8. IsRestricted(policy) \in BOOLEAN
      BY DEF IsRestricted
<1>9. k # NoContainer
      BY <1>1 DEF Backends, Routed, NoContainer
<1> HIDE DEF k, E, K
<1>10. \A name : name # "API_KEY" => Values(E \cup K, name) = Values(E, name)
      BY <1>4 DEF Values
<1>11. WellMade(k)
      BY <1>1, <1>2, <1>3, <1>4, <1>5, <1>6, <1>7, <1>10 DEF WellMade
<1>12. AsCreated(k)
      BY <1>1, <1>10 DEF AsCreated, E
<1> QED BY <1>1, <1>8, <1>9, <1>11, <1>12 DEF ContTyped, k

LEMMA SameValues ==
  ASSUME NEW S, NEW T, NEW name, \A e : e[1] = name => (e \in S <=> e \in T)
  PROVE  Values(S, name) = Values(T, name)
<1>1. \A v : v \in Values(S, name) <=> v \in Values(T, name)
      BY ValuesOf
<1>2. Values(S, name) \subseteq Values(T, name) /\ Values(T, name) \subseteq Values(S, name)
      BY <1>1
<1> QED BY <1>2

\* What recreateInstance makes of what was there.
LEMMA ReplacedWell ==
  ASSUME ContTyped(cont), WellMade(cont),
         NEW socket \in BOOLEAN, NEW policy \in NetworkPolicies, NEW key
  PROVE  LET k == Recreated(socket, policy, key) IN
         ContTyped(k) /\ WellMade(k) /\ AsCreated(k) /\ k # NoContainer
<1> DEFINE k == Recreated(socket, policy, key)
           backend == cont.backend
           model == IF Pinned # NoModel THEN Pinned ELSE cont.model
           C == CarriedOver(Pinned)
           N == Set("MANAGER_URL", ManagerUrl) \cup Set("NETWORK_POLICY", policy) \cup SecretEnv \cup TzEnv
                  \cup If(backend \in Routed, Set("API_KEY", key) \cup Set("BASE_URL", LitellmUrl))
                  \cup If(IsRestricted(policy), Set("PROXY", setup.proxy)) \cup ModelEnv(Pinned)
           D == CreatedEnv(backend, policy, model)
<1>1. /\ Record(k) /\ k.backend = backend /\ k.policy = policy /\ k.socket = socket /\ k.model = model
      /\ k.netAdmin = IsRestricted(policy) /\ k.env = C \cup N
  <2> DEFINE all == C \cup Set("MANAGER_URL", ManagerUrl) \cup Set("NETWORK_POLICY", policy) \cup SecretEnv \cup TzEnv
                      \cup If(backend \in Routed, Set("API_KEY", key) \cup Set("BASE_URL", LitellmUrl))
                      \cup If(IsRestricted(policy), Set("PROXY", setup.proxy))
                      \cup ModelEnv(Pinned)
             restricted == IsRestricted(policy)
  <2>1. k = [cont EXCEPT !.socket = socket, !.policy = policy, !.netAdmin = restricted,
                         !.model = model, !.env = all]
        BY Zenon DEF Recreated
  <2>2. all = C \cup N
        OBVIOUS
  <2> HIDE DEF model, k, all, C, N, backend, restricted
  <2>3. PICK half : half = [cont EXCEPT !.socket = socket, !.policy = policy, !.netAdmin = restricted]
        OBVIOUS
  <2>4. /\ Record(half) /\ half.backend = cont.backend /\ half.policy = policy /\ half.socket = socket
        /\ half.netAdmin = restricted
        BY <2>3 DEF ContTyped, Record
  <2>5. k = [half EXCEPT !.model = model, !.env = all]
        BY Zenon, <2>1, <2>3
  <2>6. /\ Record(k) /\ k.backend = half.backend /\ k.policy = half.policy /\ k.socket = half.socket
        /\ k.netAdmin = half.netAdmin /\ k.model = model /\ k.env = all
        BY <2>4, <2>5 DEF Record
  <2> QED BY <2>2, <2>4, <2>6 DEF backend, restricted
<1>2. Pinned # NoModel <=> backend \in Routed
      BY NoModelAssumption DEF Pinned, DefaultModel, Models, Routed, WellMade, ModelsOf
<1>3. model \in ModelsOf(backend) /\ (backend \notin Routed => model = cont.model)
      BY <1>2 DEF Pinned, DefaultModel, Models, Routed, WellMade, ModelsOf
<1>4. \A e \in N : e[1] \in Stripped(Pinned) /\ e[1] \in Names
      BY <1>2 DEF Stripped, Names, Set, If, SecretEnv, TzEnv, ModelEnv
<1>5. \A e, f \in N : e[1] = f[1] => e = f
      BY DEF Set, If, SecretEnv, TzEnv, ModelEnv
<1>6. /\ \A e \in C : e \in cont.env /\ e[1] \notin Stripped(Pinned)
      /\ \A e \in cont.env : e[1] \notin Stripped(Pinned) /\ e[1] # "API_KEY" => e \in C
      BY DEF CarriedOver, Set
<1>7. {"MANAGER_URL", "NETWORK_POLICY", "SECRET", "TZ", "PROXY"} \subseteq Stripped(Pinned)
      /\ "COPILOT_MODEL" \notin Stripped(Pinned)
      /\ (backend \in Routed => "BASE_URL" \in Stripped(Pinned) /\ "MODEL" \in Stripped(Pinned))
      BY <1>2 DEF Stripped, If
<1>8. \A e : e[1] \in {"MANAGER_URL", "NETWORK_POLICY", "SECRET", "TZ", "PROXY"} => (e \in N <=> e \in D)
      BY DEF CreatedEnv, Set, If, SecretEnv, TzEnv, ModelEnv
<1>9. \A e : backend \in Routed /\ e[1] \in {"BASE_URL", "MODEL"} => (e \in N <=> e \in D)
      BY <1>2 DEF CreatedEnv, Set, If, SecretEnv, TzEnv, ModelEnv
<1>10. \A e : backend \notin Routed /\ e[1] = "MODEL" => e \notin N /\ e \notin D
      BY <1>2 DEF CreatedEnv, Set, If, SecretEnv, TzEnv, ModelEnv
<1>11. \A e \in N : e[1] # "COPILOT_MODEL"
      BY DEF Set, If, SecretEnv, TzEnv, ModelEnv
<1>12. Values(D, "COPILOT_MODEL") =
         IF backend = "github-copilot" /\ model # NoModel THEN {model} ELSE {}
      BY CliModelCreated
<1>13. k # NoContainer
      BY <1>1 DEF ContTyped, Backends, Routed, NoContainer
<1>14. IsRestricted(policy) \in BOOLEAN
      BY DEF IsRestricted
<1>15. /\ \A e \in cont.env : e[1] \in Names
       /\ \A e, f \in cont.env : e[1] = f[1] => e = f
       /\ Values(cont.env, "COPILOT_MODEL") =
            IF backend = "github-copilot" /\ cont.model # NoModel THEN {cont.model} ELSE {}
       /\ backend \notin Routed => Values(cont.env, "MODEL") = {}
      BY DEF WellMade
<1> HIDE DEF k, backend, model, C, N, D
<1>16. Values(C \cup N, "COPILOT_MODEL") = Values(cont.env, "COPILOT_MODEL")
  <2>1. \A e : e[1] = "COPILOT_MODEL" => (e \in C \cup N <=> e \in cont.env)
        BY <1>6, <1>7, <1>11
  <2> QED BY <2>1, SameValues
<1>17. Values(cont.env, "COPILOT_MODEL") =
         IF backend = "github-copilot" /\ model # NoModel THEN {model} ELSE {}
      BY <1>3, <1>15 DEF Routed
<1>18. backend \notin Routed => \A e \in C \cup N : e[1] # "MODEL"
  <2>1. ASSUME backend \notin Routed, NEW e \in C \cup N, e[1] = "MODEL" PROVE FALSE
    <3>1. e \in cont.env
          BY <1>6, <1>10, <2>1
    <3>2. e[2] \in Values(cont.env, "MODEL")
          BY <2>1, <3>1, ValuesOf
    <3> QED BY <1>15, <2>1, <3>2
  <2> QED BY <2>1
<1>19. WellMade(k)
  <2>1. \A e \in C \cup N : e[1] \in Names
        BY <1>4, <1>6, <1>15
  <2>2. \A e, f \in C \cup N : e[1] = f[1] => e = f
        BY <1>4, <1>5, <1>6, <1>15
  <2>3. backend \notin Routed => Values(C \cup N, "MODEL") = {}
        BY <1>18, ValuesOf
  <2> QED BY <1>1, <1>3, <1>16, <1>17, <2>1, <2>2, <2>3 DEF WellMade
<1>20. ASSUME NEW name \in Names \ (LeftAlone \cup {"API_KEY", "BACKEND", "BASE_URL"})
       PROVE  Values(C \cup N, name) = Values(D, name)
  <2>1. CASE name \in {"MANAGER_URL", "NETWORK_POLICY", "SECRET", "TZ", "PROXY"}
    <3>1. \A e : e[1] = name => (e \in C \cup N <=> e \in D)
          BY <1>6, <1>7, <1>8, <2>1
    <3> QED BY <3>1, SameValues
  <2>2. CASE name = "COPILOT_MODEL"
        BY <1>12, <1>16, <1>17, <2>2
  <2>3. CASE name = "MODEL"
    <3>1. \A e : e[1] = name => (e \in C \cup N <=> e \in D)
          BY <1>6, <1>7, <1>9, <1>10, <1>18, <2>3
    <3> QED BY <3>1, SameValues
  <2> QED BY <1>20, <2>1, <2>2, <2>3 DEF Names, LeftAlone
<1>21. backend \in Routed => Values(C \cup N, "BASE_URL") = Values(D, "BASE_URL")
  <2>1. ASSUME backend \in Routed PROVE \A e : e[1] = "BASE_URL" => (e \in C \cup N <=> e \in D)
        BY <1>6, <1>7, <1>9, <2>1
  <2> QED BY <2>1, SameValues
<1>22. AsCreated(k)
      BY <1>1, <1>20, <1>21 DEF AsCreated, D
<1>23. ContTyped(k)
      BY <1>1, <1>14 DEF ContTyped, backend
<1> QED BY <1>13, <1>19, <1>22, <1>23 DEF k

\* A container that is well made now is so in the next state, if nothing changes
\* around it.
LEMMA MadeAnew ==
  ASSUME SettingsTyped', UNCHANGED <<setup, place>>, NEW k, cont' = k,
         ContTyped(k), WellMade(k), AsCreated(k), k # NoContainer
  PROVE  MadeInv'
<1>1. ContTyped(cont)'
      BY DEF ContTyped, Record
<1>2. WellMade(cont)'
      BY DEF WellMade
<1>3. AsCreated(cont)'
  <2>1. CreatedEnv(cont.backend, cont.policy, cont.model)' = CreatedEnv(k.backend, k.policy, k.model)
        BY DEF CreatedEnv, ManagerUrl, LitellmUrl, SecretEnv, TzEnv
  <2> QED BY <2>1 DEF AsCreated
<1> QED BY <1>1, <1>2, <1>3 DEF MadeInv

LEMMA CreateMakes ==
  ASSUME MadeInv, NEW backend \in Backends, NEW policy \in NetworkPolicies, NEW socket \in BOOLEAN,
         NEW asked, Create(backend, policy, socket, asked)
  PROVE  MadeInv'
<1> DEFINE model == Resolved(backend, asked)
           new == CreatedContainer(backend, policy, socket, model, "k1")
<1>1. /\ cont' = new /\ asNow' /\ asNow' \in BOOLEAN /\ ours' \in BOOLEAN
      /\ UNCHANGED <<setup, served, place, edits>> /\ Selectable(backend, asked)
      BY DEF Create
<1>2. model \in ModelsOf(backend)
      BY <1>1 DEF Selectable, Resolved, ModelsOf, RoutesForBackend, DefaultModel, Models, Routed, Backends,
                  MadeInv, SettingsTyped
<1> HIDE DEF model
<1>3. ContTyped(new) /\ WellMade(new) /\ AsCreated(new) /\ new # NoContainer
      BY <1>2, CreatedWell
<1> HIDE DEF new
<1>4. SettingsTyped'
      BY <1>1 DEF MadeInv, SettingsTyped
<1>5. PICK k : k = new
      OBVIOUS
<1> QED BY <1>1, <1>3, <1>4, <1>5, MadeAnew

LEMMA MadeSame ==
  ASSUME MadeInv, UNCHANGED <<setup, served, place, cont, asNow, ours, edits>> PROVE MadeInv'
<1>1. SettingsTyped'
      BY DEF MadeInv, SettingsTyped
<1>2. ContTyped(cont) => ContTyped(cont)'
      BY DEF ContTyped, Record
<1>3. WellMade(cont) => WellMade(cont)'
      BY DEF WellMade
<1>4. CASE ~asNow
      BY <1>1, <1>2, <1>3, <1>4 DEF MadeInv
<1>5. CASE asNow
  <2>1. PICK k : k = cont
        OBVIOUS
  <2>2. ContTyped(k) /\ WellMade(k) /\ AsCreated(k) /\ k # NoContainer
        BY <1>5, <2>1 DEF MadeInv
  <2> QED BY <1>1, <2>1, <2>2, MadeAnew
<1> QED BY <1>1, <1>4, <1>5 DEF MadeInv, SettingsTyped

LEMMA RecreateMakes ==
  ASSUME MadeInv, cont # NoContainer,
         NEW socket \in BOOLEAN, NEW policy \in NetworkPolicies, Recreate(socket, policy)
  PROVE  MadeInv'
<1>1. UNCHANGED <<setup, served, place, edits>>
      BY DEF Recreate
<1>2. CASE UNCHANGED <<cont, asNow, ours>>
      BY <1>1, <1>2, MadeSame
<1>3. CASE cont' = Recreated(socket, policy, KeptKey) /\ asNow' = TRUE /\ ours' = TRUE
  <2>1. PICK k : k = Recreated(socket, policy, KeptKey)
        OBVIOUS
  <2>2. ContTyped(k) /\ WellMade(k) /\ AsCreated(k) /\ k # NoContainer
        BY <2>1, ReplacedWell DEF MadeInv
  <2>3. SettingsTyped'
        BY <1>1, <1>3 DEF MadeInv, SettingsTyped
  <2> QED BY <1>1, <1>3, <2>1, <2>2, <2>3, MadeAnew
<1> QED BY <1>2, <1>3 DEF Recreate

LEMMA RotateMakes ==
  ASSUME MadeInv, cont # NoContainer, Rotate PROVE MadeInv'
<1>1. /\ UNCHANGED <<setup, served, place, ours, edits>> /\ asNow' = TRUE
      /\ cont' = Recreated(cont.socket, cont.policy, FreshKey)
      BY DEF Rotate
<1>2. PICK k : k = Recreated(cont.socket, cont.policy, FreshKey)
      OBVIOUS
<1>3. ContTyped(k) /\ WellMade(k) /\ AsCreated(k) /\ k # NoContainer
      BY <1>2, ReplacedWell DEF MadeInv, ContTyped
<1>4. SettingsTyped'
      BY <1>1 DEF MadeInv, SettingsTyped
<1> QED BY <1>1, <1>2, <1>3, <1>4, MadeAnew

\* What changes around the instance: what it is made of is not as now any more.
LEMMA EditMakes ==
  ASSUME MadeInv, Edit, SettingsTyped' PROVE MadeInv'
  BY DEF MadeInv, Edit, ContTyped, WellMade, Record

LEMMA SettingsChange ==
  ASSUME MadeInv, Reconfigure \/ EditHost \/ \E m \in Models : RoutesChange(m) PROVE SettingsTyped'
<1>1. edits' \in Nat /\ asNow' \in BOOLEAN /\ ours' \in BOOLEAN
  <2>1. Edit
        BY DEF Reconfigure, EditHost, RoutesChange
  <2>2. edits \in Nat /\ ours \in BOOLEAN
        BY DEF MadeInv, SettingsTyped
  <2>3. edits > 0 /\ edits' = edits - 1 /\ asNow' = FALSE /\ ours' = ours
        BY <2>1 DEF Edit
  <2>4. edits' \in Nat
        BY <2>2, <2>3
  <2>5. asNow' \in BOOLEAN /\ ours' \in BOOLEAN
        BY <2>2, <2>3
  <2> QED BY <2>4, <2>5
<1>2. setup \in Settings
      BY DEF MadeInv, SettingsTyped
<1>3. place \in [remote : BOOLEAN, accepts : BOOLEAN, callback : 0..2, root : BOOLEAN]
      BY DEF MadeInv, SettingsTyped
<1>4. served \subseteq Models
      BY DEF MadeInv, SettingsTyped
<1>5. CASE Reconfigure
  <2>1. setup' \in Settings
    <3> USE DEF Settings
    <3>1. CASE setup' = [setup EXCEPT !.proxy = 3 - @]
          BY <1>2, <3>1
    <3>2. CASE setup' = [setup EXCEPT !.tz = 1 - @]
          BY <1>2, <3>2
    <3>3. CASE setup' = [setup EXCEPT !.secret = 1 - @]
          BY <1>2, <3>3
    <3>4. CASE setup' = [setup EXCEPT !.router = 1 - @]
          BY <1>2, <3>4
    <3>5. CASE setup' = [setup EXCEPT !.lan = 2 - @]
          BY <1>2, <3>5
    <3>6. CASE setup' = [setup EXCEPT !.ref = 3 - @]
          BY <1>2, <3>6
    <3>7. CASE setup' = [setup EXCEPT !.image = 3 - @]
          BY <1>2, <3>7
    <3> QED BY <1>5, <3>1, <3>2, <3>3, <3>4, <3>5, <3>6, <3>7 DEF Reconfigure
  <2> QED BY <1>1, <1>3, <1>4, <1>5, <2>1 DEF Reconfigure, SettingsTyped
<1>6. CASE EditHost
  <2>1. place' \in [remote : BOOLEAN, accepts : BOOLEAN, callback : 0..2, root : BOOLEAN]
    <3>1. CASE place' = [place EXCEPT !.accepts = ~@]
          BY <1>3, <3>1
    <3>2. CASE place' = [place EXCEPT !.root = ~@]
          BY <1>3, <3>2
    <3>3. ASSUME NEW url \in 0..2, place' = [place EXCEPT !.callback = url]
          PROVE  place' \in [remote : BOOLEAN, accepts : BOOLEAN, callback : 0..2, root : BOOLEAN]
          BY <1>3, <3>3
    <3> QED BY <1>6, <3>1, <3>2, <3>3 DEF EditHost
  <2> QED BY <1>1, <1>2, <1>4, <1>6, <2>1 DEF EditHost, SettingsTyped
<1>7. ASSUME NEW m \in Models, RoutesChange(m) PROVE SettingsTyped'
      BY <1>1, <1>2, <1>3, <1>4, <1>7 DEF RoutesChange, SettingsTyped
<1> QED BY <1>5, <1>6, <1>7

LEMMA MadeInvStep == MadeInv /\ [SpecNext]_specVars => MadeInv'
<1> SUFFICES ASSUME MadeInv, [SpecNext]_specVars PROVE MadeInv'
    OBVIOUS
<1>1. CASE Reconfigure \/ EditHost \/ \E m \in Models : RoutesChange(m)
  <2>1. Edit
        BY <1>1 DEF Reconfigure, EditHost, RoutesChange
  <2> QED BY <1>1, <2>1, EditMakes, SettingsChange
<1>2. CASE UNCHANGED specVars
      BY <1>2, MadeSame DEF specVars
<1>3. CASE \E backend \in Backends, policy \in NetworkPolicies, socket \in BOOLEAN,
              model \in Models \cup CliModels \cup {NoModel} : Create(backend, policy, socket, model)
      BY <1>3, CreateMakes
<1>4. CASE cont # NoContainer /\ \E socket \in BOOLEAN, policy \in NetworkPolicies : Recreate(socket, policy)
      BY <1>4, RecreateMakes
<1>5. CASE cont # NoContainer /\ Rotate
      BY <1>5, RotateMakes
<1> QED BY <1>1, <1>2, <1>3, <1>4, <1>5 DEF SpecNext

LEMMA SpecInvAlways == SpecSpec => [](MadeInv /\ KeyInv)
  BY MadeInvInit, MadeInvStep, KeyInvInit, KeyInvStep, PTL DEF SpecSpec

\* The settings, the host, the keys and the container keep to their types.
THEOREM SpecTypeCorrect == SpecSpec => []SpecTypeOK
  BY SpecInvAlways, MadeInvImplies, PTL

\* However often an instance is recreated, and whatever an older manager or an
\* older setting left in its container: the replacement has what a create would
\* give it now, but for the three kinds of variable a recreation leaves alone,
\* and no variable twice (createInstance, recreateInstance).
THEOREM RecreatedAsCreatedCorrect == SpecSpec => []RecreatedAsCreated
  BY SpecInvAlways, MadeInvImplies, PTL

-----------------------------------------------------------------------------
(* Which container is which instance (Directory).                          *)

\* The newest of some containers is one of them.
LEMMA NewestIsOne ==
  ASSUME NEW n \in Nat, NEW cs \in SUBSET (1..n), cs # {}
  PROVE  Newest(cs) \in cs
<1> DEFINE T == {n - c : c \in cs}
           R == OpToRel(<, Nat)
<1>1. T \subseteq Nat /\ T # {}
  <2>1. \A c \in cs : n - c \in Nat
        OBVIOUS
  <2>2. PICK c : c \in cs
        OBVIOUS
  <2>3. n - c \in T
        BY <2>2
  <2>4. \A y \in T : \E d \in cs : y = n - d
        OBVIOUS
  <2> HIDE DEF T
  <2> QED BY <2>1, <2>3, <2>4
<1>2. IsWellFoundedOn(R, Nat)
      BY NatLessThanWellFounded
<1>3. \A x, y \in Nat : <<y, x>> \in R <=> y < x
      BY DEF OpToRel
<1> HIDE DEF T, R
<1>4. PICK x \in T : \A y \in T : <<y, x>> \notin R
      BY <1>1, <1>2, WFMin
<1>5. \A y \in T : x <= y
  <2> TAKE y \in T
  <2>1. x \in Nat /\ y \in Nat
        BY <1>1
  <2>2. ~(y < x)
        BY <1>3, <1>4, <2>1
  <2> QED BY <2>1, <2>2
<1>6. PICK c \in cs : x = n - c
      BY <1>4 DEF T
<1>7. \A d \in cs : d <= c
  <2> TAKE d \in cs
  <2>1. n - d \in T
        BY DEF T
  <2>2. x <= n - d
        BY <1>5, <2>1
  <2> QED BY <1>6, <2>2
<1> QED BY <1>7 DEF Newest

LEMMA NewestOfOne == ASSUME NEW c \in Nat PROVE Newest({c}) = c
  BY DEF Newest

DirTyped ==
  /\ made \in 0..MaxMade /\ DOMAIN ctrs \subseteq 1..made
  /\ \A c \in DOMAIN ctrs : ctrs[c].on \in Daemons /\ ctrs[c].label \in Ids \cup {NoId}
  /\ \A c \in DOMAIN ctrs : ctrs[c] = [on |-> ctrs[c].on, label |-> ctrs[c].label]
  /\ DOMAIN rows \subseteq Ids
  /\ \A i \in DOMAIN rows : /\ rows[i] = [tracked |-> rows[i].tracked, on |-> rows[i].on]
                            /\ rows[i].tracked \in 0..made /\ rows[i].on \in Daemons
  /\ torn \subseteq Ids

\* What is offered had no label when it was listed, and gets none.
OfferedOK == offered \subseteq 1..made /\ \A c \in offered \cap DOMAIN ctrs : ctrs[c].label = NoId

Creating ==
  /\ job \in [kind : {"create"}, id : Ids, new : Made, on : Daemons]
  /\ job.new \in DOMAIN ctrs /\ ctrs[job.new] = [on |-> job.on, label |-> job.id]
  /\ job.id \notin DOMAIN rows

\* The replacement has the labels of the old container, which is the instance's by
\* its label, or by the row, and then nothing is labelled with its id.
Recreating ==
  /\ job \in [kind : {"recreate"}, id : Ids, old : Made, new : Made, known : BOOLEAN]
  /\ job.old \in DOMAIN ctrs /\ job.new \in DOMAIN ctrs /\ job.old # job.new
  /\ ctrs[job.old] = ctrs[job.new]
  /\ job.known => job.id \in DOMAIN rows
  /\ \/ ctrs[job.old].label = job.id
     \/ /\ ctrs[job.old].label = NoId
        /\ \A c \in DOMAIN ctrs : ctrs[c].label # job.id
        /\ job.id \in DOMAIN rows /\ rows[job.id].on = ctrs[job.old].on

JobOK == job = Idle \/ Creating \/ Recreating

\* Containers with one label are of one daemon; there are two only while a
\* recreate runs, and after one that ended with the manager.
Twins == IF job.kind = "recreate" THEN {job.old, job.new} ELSE {}
LabelsOK ==
  \A c, d \in DOMAIN ctrs : ctrs[c].label # NoId /\ ctrs[c].label = ctrs[d].label =>
    /\ ctrs[c].on = ctrs[d].on
    /\ c = d \/ (c \in Twins /\ d \in Twins) \/ ctrs[c].label \in torn

\* A row has the host of its container, labelled or tracked; a tracked one that is
\* not labelled is the only one the instance has.
RowsOK ==
  \A i \in DOMAIN rows :
    /\ \A c \in DOMAIN ctrs : ctrs[c].label = i => ctrs[c].on = rows[i].on
    /\ rows[i].tracked \in DOMAIN ctrs =>
         /\ ctrs[rows[i].tracked].on = rows[i].on
         /\ \/ ctrs[rows[i].tracked].label = i
            \/ ctrs[rows[i].tracked].label = NoId /\ \A c \in DOMAIN ctrs : ctrs[c].label # i

DirInv == DirTyped /\ OfferedOK /\ JobOK /\ LabelsOK /\ RowsOK

LEMMA JobKinds ==
  /\ job = Idle => job.kind = "idle"
  /\ Creating => job.kind = "create"
  /\ Recreating => job.kind = "recreate"
  BY DEF Idle, Creating, Recreating

LEMMA DirTypeHolds == DirInv => DirTypeOK
<1> SUFFICES ASSUME DirInv PROVE DirTypeOK
    OBVIOUS
<1>1. job \in {Idle} \cup [kind : {"create"}, id : Ids, new : Made, on : Daemons]
                \cup [kind : {"recreate"}, id : Ids, old : Made, new : Made, known : BOOLEAN]
      BY DEF DirInv, JobOK, Creating, Recreating
<1>2. offered \subseteq Made
      BY MadeAssumption DEF DirInv, DirTyped, OfferedOK, Made
<1>3. \A c \in DOMAIN ctrs : ctrs[c] \in [on : Daemons, label : Ids \cup {NoId}]
      BY DEF DirInv, DirTyped
<1>4. \A i \in DOMAIN rows : rows[i] \in [tracked : 0..made, on : Daemons]
      BY DEF DirInv, DirTyped
<1> QED BY <1>1, <1>2, <1>3, <1>4 DEF DirInv, DirTyped, DirTypeOK

LEMMA DirInvInit == DirInit => DirInv
  BY MadeAssumption, JobKinds DEF DirInit, NoRows, DirInv, DirTyped, OfferedOK, JobOK, LabelsOK, RowsOK

\* The containers labelled as an instance, when no recreate runs.
LEMMA OneLabelled ==
  ASSUME DirInv, job = Idle, NEW c \in DOMAIN ctrs, ctrs[c].label # NoId, ctrs[c].label \notin torn,
         ctrs[c].label \in DOMAIN rows \/ ctrs[c].on = "here"
  PROVE  LabelledAs(ctrs[c].label) = {c}
<1> DEFINE i == ctrs[c].label
<1>1. HostOf(i) = ctrs[c].on
      BY DEF DirInv, RowsOK, HostOf
<1>2. \A d \in DOMAIN ctrs : ctrs[d].label = i => d = c
      BY JobKinds DEF DirInv, LabelsOK, Twins
<1> QED BY <1>1, <1>2 DEF LabelledAs, On

\* The container a row tracks, if it has no label, is the instance's.
LEMMA OneTracked ==
  ASSUME DirInv, NEW i \in DOMAIN rows, rows[i].tracked \in DOMAIN ctrs,
         ctrs[rows[i].tracked].label = NoId
  PROVE  /\ rows[i].tracked \in On(rows[i].on) /\ HostOf(i) = rows[i].on
         /\ LabelledAs(i) = {} /\ rows[i].tracked \in Nat
<1>1. ctrs[rows[i].tracked].on = rows[i].on /\ \A c \in DOMAIN ctrs : ctrs[c].label # i
      BY IdsAssumption DEF DirInv, RowsOK, DirTyped
<1>2. rows[i].tracked \in Nat
      BY DEF DirInv, DirTyped
<1> QED BY <1>1, <1>2 DEF HostOf, LabelledAs, On

LEMMA DirInvImplies == DirInv => ActsOnTheShown
<1> SUFFICES ASSUME DirInv, job = Idle
             PROVE  /\ \A e \in ListManagedContainersByHost \cup ListManagedContainers :
                         e.id \notin torn /\ (e.id \in DOMAIN rows \/ ctrs[e.ctr].on = "here") =>
                           ResolveContainer(e.id) = e.ctr /\ GetContainer(e.id) = e.ctr
                    /\ \A c \in DiscoverContainers, i \in Ids : ResolveContainer(i) # c
    BY DEF ActsOnTheShown
<1>1. ASSUME NEW c \in DOMAIN ctrs, IsLabelled(c), ctrs[c].label \notin torn,
             ctrs[c].label \in DOMAIN rows \/ ctrs[c].on = "here"
      PROVE  ResolveContainer(ctrs[c].label) = c /\ GetContainer(ctrs[c].label) = c
  <2>1. LabelledAs(ctrs[c].label) = {c}
        BY <1>1, OneLabelled DEF IsLabelled
  <2>2. Newest({c}) = c
        BY NewestOfOne DEF DirInv, DirTyped
  <2> QED BY <2>1, <2>2 DEF ResolveContainer, GetContainer
<1>2. ASSUME NEW i \in DOMAIN rows, rows[i].tracked \in DOMAIN ctrs, ctrs[rows[i].tracked].label = NoId
      PROVE  ResolveContainer(i) = rows[i].tracked /\ GetContainer(i) = rows[i].tracked
  <2> DEFINE t == rows[i].tracked
  <2>1. t \in On(rows[i].on) /\ HostOf(i) = rows[i].on /\ LabelledAs(i) = {} /\ t \in Nat
        BY <1>2, OneTracked
  <2>2. {rows[j].tracked : j \in DOMAIN rows \cap {i}} \cap On(HostOf(i)) = {t}
        BY <2>1
  <2>3. Newest({t}) = t
        BY <2>1, NewestOfOne
  <2> HIDE DEF t
  <2>4. GetContainer(i) = t
        BY <2>1, <2>2, <2>3 DEF GetContainer
  <2>5. ResolveContainer(i) = t
        BY <2>1 DEF ResolveContainer, t
  <2> QED BY <2>4, <2>5 DEF t
<1>3. ASSUME NEW e \in ListManagedContainersByHost \cup ListManagedContainers, e.id \notin torn,
             e.id \in DOMAIN rows \/ ctrs[e.ctr].on = "here"
      PROVE  ResolveContainer(e.id) = e.ctr /\ GetContainer(e.id) = e.ctr
  <2>1. CASE \E c \in DOMAIN ctrs : IsLabelled(c) /\ e = Entry(ctrs[c].label, c)
        BY <1>1, <1>3, <2>1 DEF Entry
  <2>2. CASE \E i \in DOMAIN rows : /\ e = Entry(i, rows[i].tracked) /\ rows[i].tracked \in DOMAIN ctrs
                                    /\ ~IsLabelled(rows[i].tracked)
        BY <1>2, <2>2 DEF Entry, IsLabelled
  <2> QED BY <1>3, <2>1, <2>2 DEF ListManagedContainersByHost, ListManagedContainers, On
<1>4. ASSUME NEW c \in DiscoverContainers, NEW i \in Ids PROVE ResolveContainer(i) # c
  <2>1. c \in DOMAIN ctrs /\ ctrs[c].label = NoId /\ \A j \in DOMAIN rows : rows[j].tracked # c
        BY <1>4 DEF DiscoverContainers, IsLabelled, On
  <2>2. c # 0
        BY <2>1 DEF DirInv, DirTyped
  <2>3. ASSUME LabelledAs(i) # {} PROVE Newest(LabelledAs(i)) \in LabelledAs(i)
    <3>1. LabelledAs(i) \subseteq 1..made /\ made \in Nat
          BY DEF LabelledAs, On, DirInv, DirTyped
    <3> QED BY <2>3, <3>1, NewestIsOne
  <2>4. \A d \in LabelledAs(i) : d # c
        BY <2>1, IdsAssumption DEF LabelledAs
  <2> QED BY <2>1, <2>2, <2>3, <2>4 DEF ResolveContainer
<1> QED BY <1>3, <1>4

\* A container is made, the newest there has been.
LEMMA Grown ==
  ASSUME DirTyped, NEW daemon \in Daemons, NEW label \in Ids \cup {NoId}, NewContainer(daemon, label),
         NEW n, n = made'
  PROVE  /\ n = made + 1 /\ n \in Made /\ made' \in 0..MaxMade
         /\ DOMAIN ctrs' = DOMAIN ctrs \cup {n} /\ n \notin DOMAIN ctrs
         /\ ctrs'[n] = [on |-> daemon, label |-> label]
         /\ ctrs'[n].on = daemon /\ ctrs'[n].label = label
         /\ \A c \in DOMAIN ctrs : ctrs'[c] = ctrs[c]
         /\ UNCHANGED <<rows, torn>> => DirTyped'
<1>1. /\ made < MaxMade /\ made' = made + 1
      /\ ctrs' = [c \in DOMAIN ctrs \cup {n} |->
                    IF c = n THEN [on |-> daemon, label |-> label] ELSE ctrs[c]]
      BY DEF NewContainer
<1>2. n \in Made /\ made' \in 0..MaxMade /\ n \notin DOMAIN ctrs /\ 1..made \subseteq 1..made'
      BY <1>1, MadeAssumption DEF DirTyped, Made
<1>3. DOMAIN ctrs' = DOMAIN ctrs \cup {n} /\ ctrs'[n] = [on |-> daemon, label |-> label]
      BY <1>1
<1>4. \A c \in DOMAIN ctrs : ctrs'[c] = ctrs[c]
      BY <1>1, <1>2
<1>5. \A c \in DOMAIN ctrs' : ctrs'[c].on \in Daemons /\ ctrs'[c].label \in Ids \cup {NoId}
                              /\ ctrs'[c] = [on |-> ctrs'[c].on, label |-> ctrs'[c].label]
      BY <1>3, <1>4 DEF DirTyped
<1>6. UNCHANGED <<rows, torn>> => DirTyped'
      BY <1>1, <1>2, <1>3, <1>5 DEF DirTyped
<1> QED BY <1>1, <1>2, <1>3, <1>4, <1>6

\* A container goes.
LEMMA Shrunk ==
  ASSUME DirTyped, NEW gone, ctrs' = [d \in DOMAIN ctrs \ {gone} |-> ctrs[d]]
  PROVE  /\ DOMAIN ctrs' = DOMAIN ctrs \ {gone}
         /\ \A c \in DOMAIN ctrs' : c \in DOMAIN ctrs /\ ctrs'[c] = ctrs[c]
         /\ UNCHANGED <<made, rows, torn>> => DirTyped'
  BY DEF DirTyped

LEMMA CreateInstanceStep ==
  ASSUME DirInv, NEW i \in Ids, NEW daemon \in Daemons, CreateInstance(i, daemon) PROVE DirInv'
<1>1. PICK n : n = made'
      OBVIOUS
<1>2. /\ job = Idle /\ Unused(i) /\ NewContainer(daemon, i)
      /\ job' = [kind |-> "create", id |-> i, new |-> n, on |-> daemon]
      /\ UNCHANGED <<rows, offered, torn>>
      BY <1>1 DEF CreateInstance
<1>3. /\ n = made + 1 /\ n \in Made /\ made' \in 0..MaxMade
      /\ DOMAIN ctrs' = DOMAIN ctrs \cup {n} /\ n \notin DOMAIN ctrs
      /\ ctrs'[n] = [on |-> daemon, label |-> i]
      /\ ctrs'[n].on = daemon /\ ctrs'[n].label = i
      /\ \A c \in DOMAIN ctrs : ctrs'[c] = ctrs[c]
      /\ DirTyped'
      BY <1>1, <1>2, Grown DEF DirInv
<1>4. OfferedOK'
      BY <1>2, <1>3 DEF DirInv, DirTyped, OfferedOK
<1>5. Creating'
      BY <1>2, <1>3 DEF Creating, Unused
<1>6. Twins = {}
      BY <1>2, JobKinds DEF Twins
<1>7. LabelsOK'
      BY <1>2, <1>3, <1>6 DEF DirInv, LabelsOK, Unused
<1>8. RowsOK'
      BY <1>2, <1>3 DEF DirInv, DirTyped, RowsOK, Unused
<1> QED BY <1>3, <1>4, <1>5, <1>7, <1>8 DEF DirInv, JobOK

LEMMA AppearsStep ==
  ASSUME DirInv, NEW daemon \in Daemons, Appears(daemon) PROVE DirInv'
<1>1. PICK n : n = made'
      OBVIOUS
<1>2. NewContainer(daemon, NoId) /\ UNCHANGED <<rows, job, offered, torn>>
      BY DEF Appears
<1>3. PICK label \in Ids \cup {NoId} : label = NoId
      OBVIOUS
<1>4. NewContainer(daemon, label)
      BY <1>2, <1>3
<1>5. DirTyped /\ UNCHANGED <<rows, torn>>
      BY <1>2 DEF DirInv
<1>6. /\ n = made + 1 /\ n \in Made /\ made' \in 0..MaxMade
      /\ DOMAIN ctrs' = DOMAIN ctrs \cup {n} /\ n \notin DOMAIN ctrs
      /\ ctrs'[n] = [on |-> daemon, label |-> label]
      /\ ctrs'[n].on = daemon /\ ctrs'[n].label = label
      /\ \A c \in DOMAIN ctrs : ctrs'[c] = ctrs[c]
      /\ DirTyped'
      BY <1>1, <1>4, <1>5, Grown
<1>7. OfferedOK'
      BY <1>2, <1>6, <1>3 DEF DirInv, DirTyped, OfferedOK
<1>8. JobOK'
  <2>1. CASE job = Idle
        BY <1>2, <2>1 DEF JobOK
  <2>2. CASE Creating
        BY <1>2, <1>6, <1>3, <2>2 DEF JobOK, Creating
  <2>3. CASE Recreating
    <3>1. job.id # NoId
          BY <2>3, IdsAssumption DEF Recreating
    <3> QED BY <1>2, <1>6, <1>3, <2>3, <3>1 DEF JobOK, Recreating
  <2> QED BY <2>1, <2>2, <2>3 DEF DirInv, JobOK
<1>9. Twins' = Twins
      BY <1>2 DEF Twins
<1>10. LabelsOK'
      BY <1>2, <1>6, <1>9, <1>3 DEF DirInv, LabelsOK
<1>11. RowsOK'
      BY <1>2, <1>6, <1>3, IdsAssumption DEF DirInv, DirTyped, RowsOK
<1> QED BY <1>6, <1>7, <1>8, <1>10, <1>11 DEF DirInv

LEMMA DiscoverStep == ASSUME DirInv, Discover PROVE DirInv'
<1>1. offered' = DiscoverContainers /\ UNCHANGED <<ctrs, made, rows, job, torn>>
      BY DEF Discover
<1>2. OfferedOK'
      BY <1>1 DEF DirInv, DirTyped, OfferedOK, DiscoverContainers, On, IsLabelled
<1>3. DirTyped' /\ JobOK' /\ LabelsOK' /\ RowsOK'
      BY <1>1 DEF DirInv, DirTyped, JobOK, Creating, Recreating, LabelsOK, Twins, RowsOK
<1> QED BY <1>2, <1>3 DEF DirInv

LEMMA AdoptStep ==
  ASSUME DirInv, NEW c \in DOMAIN ctrs, NEW i \in Ids, AdoptContainer(c, i) PROVE DirInv'
<1>1. /\ c \in offered /\ ctrs[c].on = "here" /\ Unused(i) /\ (job # Idle => job.id # i)
      /\ rows' = [j \in DOMAIN rows \cup {i} |-> IF j # i THEN rows[j] ELSE [tracked |-> c, on |-> "here"]]
      /\ UNCHANGED <<ctrs, made, job, offered, torn>>
  <2>1. c # 0
        BY DEF DirInv, DirTyped
  <2>2. Unused(i)
        BY DEF AdoptContainer
  <2>3. i \notin DOMAIN rows
        BY <2>2 DEF Unused
  <2> QED BY <2>1, <2>2, <2>3 DEF AdoptContainer, Inspected, On, Upsert
<1>2. ctrs[c].label = NoId /\ c \in 0..made
      BY <1>1 DEF DirInv, OfferedOK, DirTyped
<1>3. /\ DOMAIN rows' = DOMAIN rows \cup {i} /\ i \notin DOMAIN rows
      /\ rows'[i].tracked = c /\ rows'[i].on = "here" /\ rows'[i] = [tracked |-> c, on |-> "here"]
      /\ \A j \in DOMAIN rows : rows'[j] = rows[j]
      BY <1>1 DEF Unused
<1>4. DirTyped'
      BY <1>1, <1>2, <1>3 DEF DirInv, DirTyped, Daemons
<1>5. OfferedOK' /\ LabelsOK'
      BY <1>1 DEF DirInv, OfferedOK, LabelsOK, Twins
<1>6. JobOK'
  <2>1. CASE job = Idle
        BY <1>1, <2>1 DEF JobOK
  <2>2. CASE Creating
        BY <1>1, <1>3, <2>2, JobKinds DEF JobOK, Creating, Idle
  <2>3. CASE Recreating
        BY <1>1, <1>3, <2>3 DEF JobOK, Recreating
  <2> QED BY <2>1, <2>2, <2>3 DEF DirInv, JobOK
<1>7. RowsOK'
      BY <1>1, <1>2, <1>3 DEF DirInv, RowsOK, Unused
<1> QED BY <1>4, <1>5, <1>6, <1>7 DEF DirInv

LEMMA RecordStep == ASSUME DirInv, RecordInstance PROVE DirInv'
<1>1. /\ job.kind = "create" /\ rows' = Upsert(job.id, 0, job.on) /\ job' = Idle
      /\ UNCHANGED <<ctrs, made, offered, torn>>
      BY DEF RecordInstance
<1>2. Creating
      BY <1>1, JobKinds DEF DirInv, JobOK
<1>3. PICK i \in Ids, daemon \in Daemons, n \in Made :
        /\ job = [kind |-> "create", id |-> i, new |-> n, on |-> daemon]
        /\ i = job.id /\ daemon = job.on /\ n = job.new
      BY <1>2 DEF Creating
<1>4. n \in DOMAIN ctrs /\ ctrs[n].on = daemon /\ ctrs[n].label = i /\ i \notin DOMAIN rows
      BY <1>2, <1>3 DEF Creating
<1>5. /\ DOMAIN rows' = DOMAIN rows \cup {i}
      /\ rows'[i].tracked = 0 /\ rows'[i].on = daemon /\ rows'[i] = [tracked |-> 0, on |-> daemon]
      /\ \A j \in DOMAIN rows : rows'[j] = rows[j]
  <2>1. daemon # ""
        BY DEF Daemons
  <2>2. rows' = [j \in DOMAIN rows \cup {i} |-> IF j # i THEN rows[j] ELSE [tracked |-> 0, on |-> daemon]]
        BY <1>1, <1>3, <1>4, <2>1 DEF Upsert
  <2> QED BY <1>4, <2>2
<1>6. DirTyped'
      BY <1>1, <1>5 DEF DirInv, DirTyped
<1>7. OfferedOK' /\ JobOK'
      BY <1>1 DEF DirInv, OfferedOK, JobOK
<1>8. Twins = {}
      BY <1>1 DEF Twins
<1>9. LabelsOK'
      BY <1>1, <1>8 DEF DirInv, LabelsOK
<1>10. i # NoId
      BY IdsAssumption
<1>11. \A c \in DOMAIN ctrs : ctrs[c].label = i => ctrs[c].on = daemon
      BY <1>4, <1>10 DEF DirInv, LabelsOK
<1>12. RowsOK'
      BY <1>1, <1>5, <1>11 DEF DirInv, DirTyped, RowsOK
<1> QED BY <1>6, <1>7, <1>9, <1>12 DEF DirInv

\* What an operation on an instance acts on.
LEMMA Resolved0 ==
  ASSUME DirInv, NEW i \in Ids, ResolveContainer(i) # 0
  PROVE  LET c == ResolveContainer(i) IN
         /\ c \in DOMAIN ctrs
         /\ \/ ctrs[c].label = i
            \/ /\ ctrs[c].label = NoId /\ \A d \in DOMAIN ctrs : ctrs[d].label # i
               /\ i \in DOMAIN rows /\ rows[i].on = ctrs[c].on
<1>1. CASE LabelledAs(i) # {}
  <2>1. LabelledAs(i) \subseteq 1..made /\ made \in Nat
        BY DEF LabelledAs, On, DirInv, DirTyped
  <2>2. Newest(LabelledAs(i)) \in LabelledAs(i)
        BY <1>1, <2>1, NewestIsOne
  <2> QED BY <1>1, <2>2 DEF ResolveContainer, LabelledAs, On
<1>2. CASE LabelledAs(i) = {}
  <2>1. i \in DOMAIN rows /\ rows[i].tracked \in On(rows[i].on) /\ ResolveContainer(i) = rows[i].tracked
        BY <1>2 DEF ResolveContainer
  <2>2. rows[i].tracked \in DOMAIN ctrs /\ ctrs[rows[i].tracked].on = rows[i].on
        BY <2>1 DEF On
  <2>3. ctrs[rows[i].tracked].label # i
        BY <1>2, <2>1, <2>2 DEF LabelledAs, HostOf, On
  <2> QED BY <2>1, <2>2, <2>3 DEF DirInv, RowsOK
<1> QED BY <1>1, <1>2

LEMMA RecreateBegins ==
  ASSUME DirInv, NEW i \in Ids, NEW route \in BOOLEAN, RecreateInstance(i, route),
         NEW n, n = made', NEW old, old = ResolveContainer(i), old # 0,
         NEW daemon \in Daemons, NEW label \in Ids \cup {NoId},
         old \in DOMAIN ctrs, daemon = ctrs[old].on, label = ctrs[old].label
  PROVE  DirInv'
<1>1. /\ job = Idle /\ NewContainer(daemon, label)
      /\ job' = [kind |-> "recreate", id |-> i, old |-> old, new |-> n, known |-> RowKnown(i, route)]
      /\ UNCHANGED <<rows, offered, torn>>
      BY DEF RecreateInstance
<1>2. \/ ctrs[old].label = i
      \/ /\ ctrs[old].label = NoId /\ \A d \in DOMAIN ctrs : ctrs[d].label # i
         /\ i \in DOMAIN rows /\ rows[i].on = ctrs[old].on
      BY Resolved0
<1>3. DirTyped /\ UNCHANGED <<rows, torn>>
      BY <1>1 DEF DirInv
<1>4. /\ n = made + 1 /\ n \in Made /\ made' \in 0..MaxMade
      /\ DOMAIN ctrs' = DOMAIN ctrs \cup {n} /\ n \notin DOMAIN ctrs
      /\ ctrs'[n] = [on |-> daemon, label |-> label]
      /\ ctrs'[n].on = daemon /\ ctrs'[n].label = label
      /\ \A c \in DOMAIN ctrs : ctrs'[c] = ctrs[c]
      /\ DirTyped'
      BY <1>1, <1>3, Grown
<1>5. OfferedOK'
      BY <1>1, <1>4 DEF DirInv, DirTyped, OfferedOK
<1>6. /\ job'.kind = "recreate" /\ job'.id = i /\ job'.old = old /\ job'.new = n
       /\ job'.known = RowKnown(i, route)
      BY <1>1
<1>7. Recreating'
  <2>1. old \in Made /\ old # n
        BY <1>2, <1>4, MadeAssumption DEF DirInv, DirTyped, Made
  <2>2. RowKnown(i, route) \in BOOLEAN /\ (RowKnown(i, route) => i \in DOMAIN rows)
        BY DEF RowKnown
  <2>3. job' \in [kind : {"recreate"}, id : Ids, old : Made, new : Made, known : BOOLEAN]
        BY <1>1, <1>4, <2>1, <2>2
  <2>4. ctrs'[old] = ctrs'[n]
        BY <1>2, <1>4 DEF DirInv, DirTyped
  <2>5. \/ ctrs'[old].label = i
        \/ /\ ctrs'[old].label = NoId /\ \A d \in DOMAIN ctrs' : ctrs'[d].label # i
           /\ i \in DOMAIN rows' /\ rows'[i].on = ctrs'[old].on
        BY <1>1, <1>2, <1>4, IdsAssumption
  <2> QED BY <1>1, <1>2, <1>4, <1>6, <2>1, <2>2, <2>3, <2>4, <2>5 DEF Recreating
<1>8. Twins = {} /\ Twins' = {old, n}
      BY <1>1, <1>6, JobKinds DEF Twins
<1>9. LabelsOK'
  <2> SUFFICES ASSUME NEW c \in DOMAIN ctrs', NEW d \in DOMAIN ctrs',
                      ctrs'[c].label # NoId, ctrs'[c].label = ctrs'[d].label
               PROVE  /\ ctrs'[c].on = ctrs'[d].on
                      /\ c = d \/ (c \in Twins' /\ d \in Twins') \/ ctrs'[c].label \in torn'
      BY DEF LabelsOK
  <2>1. CASE c # n /\ d # n
        BY <1>1, <1>4, <1>8, <2>1 DEF DirInv, LabelsOK
  <2>2. CASE c = n /\ d # n
        BY <1>1, <1>2, <1>4, <1>8, <2>2 DEF DirInv, LabelsOK
  <2>3. CASE c # n /\ d = n
        BY <1>1, <1>2, <1>4, <1>8, <2>3 DEF DirInv, LabelsOK
  <2>4. CASE c = n /\ d = n
        BY <2>4
  <2> QED BY <2>1, <2>2, <2>3, <2>4
<1>10. RowsOK'
  <2> SUFFICES ASSUME NEW j \in DOMAIN rows
               PROVE  /\ \A c \in DOMAIN ctrs' : ctrs'[c].label = j => ctrs'[c].on = rows[j].on
                      /\ rows[j].tracked \in DOMAIN ctrs' =>
                           /\ ctrs'[rows[j].tracked].on = rows[j].on
                           /\ \/ ctrs'[rows[j].tracked].label = j
                              \/ /\ ctrs'[rows[j].tracked].label = NoId
                                 /\ \A c \in DOMAIN ctrs' : ctrs'[c].label # j
      BY <1>1 DEF RowsOK
  <2>1. /\ \A c \in DOMAIN ctrs : ctrs[c].label = j => ctrs[c].on = rows[j].on
        /\ rows[j].tracked \in DOMAIN ctrs =>
             /\ ctrs[rows[j].tracked].on = rows[j].on
             /\ \/ ctrs[rows[j].tracked].label = j
                \/ ctrs[rows[j].tracked].label = NoId /\ \A c \in DOMAIN ctrs : ctrs[c].label # j
        BY DEF DirInv, RowsOK
  <2>2. \A c \in DOMAIN ctrs' : \E d \in DOMAIN ctrs : ctrs'[c].label = ctrs[d].label /\ ctrs'[c].on = ctrs[d].on
        BY <1>2, <1>4
  <2>3. rows[j].tracked # n
        BY <1>4 DEF DirInv, DirTyped
  <2> QED BY <1>4, <2>1, <2>2, <2>3
<1> QED BY <1>4, <1>5, <1>7, <1>9, <1>10 DEF DirInv, JobOK

LEMMA RecreateStep ==
  ASSUME DirInv, NEW i \in Ids, NEW route \in BOOLEAN, RecreateInstance(i, route) PROVE DirInv'
<1>1. PICK n : n = made'
      OBVIOUS
<1>2. PICK old : old = ResolveContainer(i)
      OBVIOUS
<1>3. old # 0
      BY <1>2 DEF RecreateInstance
<1>4. old \in DOMAIN ctrs
      BY <1>2, <1>3, Resolved0
<1>5. ctrs[old].on \in Daemons /\ ctrs[old].label \in Ids \cup {NoId}
      BY <1>4 DEF DirInv, DirTyped
<1> QED BY <1>1, <1>2, <1>3, <1>4, <1>5, RecreateBegins

\* What goes, of a recreate that ends, and what is left.
LEMMA OneTwinGoes ==
  ASSUME DirInv, Recreating, NEW gone \in {job.old, job.new},
         ctrs' = [d \in DOMAIN ctrs \ {gone} |-> ctrs[d]], UNCHANGED <<made, offered, torn>>
  PROVE  /\ OfferedOK' /\ (job' = Idle => LabelsOK' /\ JobOK')
         /\ \A c \in DOMAIN ctrs' : c \in DOMAIN ctrs /\ ctrs'[c] = ctrs[c]
         /\ UNCHANGED rows => DirTyped' /\ RowsOK'
<1>1. /\ DOMAIN ctrs' = DOMAIN ctrs \ {gone}
      /\ \A c \in DOMAIN ctrs' : c \in DOMAIN ctrs /\ ctrs'[c] = ctrs[c]
      /\ UNCHANGED rows => DirTyped'
      BY Shrunk DEF DirInv
<1>2. Twins = {job.old, job.new}
      BY JobKinds DEF Twins
<1>3. OfferedOK'
      BY <1>1 DEF DirInv, OfferedOK
<1>4. job' = Idle => LabelsOK'
      BY <1>1, <1>2 DEF DirInv, LabelsOK
<1>5. UNCHANGED rows => RowsOK'
      BY <1>1 DEF DirInv, RowsOK
<1> QED BY <1>1, <1>3, <1>4, <1>5 DEF JobOK

LEMMA RecreateFailsStep == ASSUME DirInv, RecreateFails PROVE DirInv'
<1>1. /\ job.kind = "recreate" /\ job' = Idle /\ UNCHANGED <<made, rows, offered, torn>>
      /\ ctrs' = [d \in DOMAIN ctrs \ {job.new} |-> ctrs[d]]
      BY DEF RecreateFails, Gone
<1>2. Recreating
      BY <1>1, JobKinds DEF DirInv, JobOK
<1>3. PICK gone \in {job.old, job.new} : gone = job.new
      OBVIOUS
<1> QED BY <1>1, <1>2, <1>3, OneTwinGoes DEF DirInv

LEMMA RecreateDoneStep == ASSUME DirInv, RecreateDone PROVE DirInv'
<1>1. /\ job.kind = "recreate" /\ job' = Idle /\ UNCHANGED <<made, offered, torn>>
      /\ ctrs' = [d \in DOMAIN ctrs \ {job.old} |-> ctrs[d]]
      /\ rows' = IF job.known THEN Upsert(job.id, job.new, "") ELSE rows
      BY DEF RecreateDone, Gone
<1>2. Recreating
      BY <1>1, JobKinds DEF DirInv, JobOK
<1>3. PICK gone \in {job.old, job.new} : gone = job.old
      OBVIOUS
<1>4. /\ OfferedOK' /\ LabelsOK' /\ JobOK'
      /\ \A c \in DOMAIN ctrs' : c \in DOMAIN ctrs /\ ctrs'[c] = ctrs[c]
      /\ UNCHANGED rows => DirTyped' /\ RowsOK'
      BY <1>1, <1>2, <1>3, OneTwinGoes
<1>5. CASE ~job.known
      BY <1>1, <1>4, <1>5 DEF DirInv
<1>6. CASE job.known
  <2>1. PICK i \in Ids, old \in Made, new \in Made : i = job.id /\ old = job.old /\ new = job.new
        BY <1>2 DEF Recreating
  <2>2. /\ i \in DOMAIN rows /\ old \in DOMAIN ctrs /\ new \in DOMAIN ctrs /\ old # new
        /\ ctrs[old] = ctrs[new]
        /\ \/ ctrs[new].label = i
           \/ /\ ctrs[new].label = NoId /\ \A c \in DOMAIN ctrs : ctrs[c].label # i
              /\ rows[i].on = ctrs[new].on
        BY <1>2, <1>6, <2>1 DEF Recreating
  <2>3. new # 0 /\ new \in 0..made
        BY <2>2 DEF DirInv, DirTyped
  <2>4. /\ DOMAIN rows' = DOMAIN rows
        /\ rows'[i] = [tracked |-> new, on |-> rows[i].on]
        /\ rows'[i].tracked = new /\ rows'[i].on = rows[i].on
        /\ \A j \in DOMAIN rows : j # i => rows'[j] = rows[j]
    <3>1. rows' = [j \in DOMAIN rows \cup {i} |->
                     IF j # i THEN rows[j] ELSE [tracked |-> new, on |-> rows[i].on]]
          BY <1>1, <1>6, <2>1, <2>2, <2>3 DEF Upsert
    <3> QED BY <2>2, <3>1
  <2>5. DOMAIN ctrs' = DOMAIN ctrs \ {old}
        BY <1>1, <2>1
  <2>6. DirTyped'
    <3>1. /\ made' \in 0..MaxMade /\ torn' \subseteq Ids /\ made' = made
          /\ DOMAIN ctrs' \subseteq 1..made' /\ DOMAIN rows' \subseteq Ids
          BY <1>1, <2>4, <2>5 DEF DirInv, DirTyped
    <3>2. \A c \in DOMAIN ctrs' : /\ ctrs'[c].on \in Daemons /\ ctrs'[c].label \in Ids \cup {NoId}
                                  /\ ctrs'[c] = [on |-> ctrs'[c].on, label |-> ctrs'[c].label]
          BY <1>4 DEF DirInv, DirTyped
    <3>3. \A j \in DOMAIN rows : /\ rows[j] = [tracked |-> rows[j].tracked, on |-> rows[j].on]
                                 /\ rows[j].tracked \in 0..made /\ rows[j].on \in Daemons
          BY DEF DirInv, DirTyped
    <3>4. /\ rows'[i] = [tracked |-> rows'[i].tracked, on |-> rows'[i].on]
          /\ rows'[i].tracked \in 0..made' /\ rows'[i].on \in Daemons
          BY <2>2, <2>3, <2>4, <3>1, <3>3
    <3>5. \A j \in DOMAIN rows' : /\ rows'[j] = [tracked |-> rows'[j].tracked, on |-> rows'[j].on]
                                  /\ rows'[j].tracked \in 0..made' /\ rows'[j].on \in Daemons
          BY <2>4, <3>1, <3>3, <3>4
    <3> QED BY <3>1, <3>2, <3>5 DEF DirTyped
  <2>7. ctrs[new].on = rows[i].on
        BY <2>2 DEF DirInv, RowsOK
  <2>8. RowsOK'
    <3> SUFFICES ASSUME NEW j \in DOMAIN rows'
                 PROVE  /\ \A c \in DOMAIN ctrs' : ctrs'[c].label = j => ctrs'[c].on = rows'[j].on
                        /\ rows'[j].tracked \in DOMAIN ctrs' =>
                             /\ ctrs'[rows'[j].tracked].on = rows'[j].on
                             /\ \/ ctrs'[rows'[j].tracked].label = j
                                \/ /\ ctrs'[rows'[j].tracked].label = NoId
                                   /\ \A c \in DOMAIN ctrs' : ctrs'[c].label # j
        BY DEF RowsOK
    <3>1. CASE j # i
          BY <1>4, <2>4, <3>1 DEF DirInv, RowsOK
    <3>2. CASE j = i
          BY <1>4, <2>2, <2>4, <2>5, <2>7, <3>2 DEF DirInv, RowsOK
    <3> QED BY <3>1, <3>2
  <2> QED BY <1>4, <2>6, <2>8 DEF DirInv
<1> QED BY <1>5, <1>6

LEMMA RemoveStep ==
  ASSUME DirInv, NEW i \in Ids, RemoveInstance(i) PROVE DirInv'
<1>1. PICK gone : gone = ResolveContainer(i)
      OBVIOUS
<1>2. /\ job = Idle /\ UNCHANGED <<made, job, offered, torn>>
      /\ ctrs' = [d \in DOMAIN ctrs \ {gone} |-> ctrs[d]]
      /\ rows' = [j \in DOMAIN rows \ {i} |-> rows[j]]
      BY <1>1 DEF RemoveInstance, Gone, WithoutRow
<1>3. /\ \A c \in DOMAIN ctrs' : c \in DOMAIN ctrs /\ ctrs'[c] = ctrs[c]
      /\ \A j \in DOMAIN rows' : j \in DOMAIN rows /\ rows'[j] = rows[j]
      BY <1>2
<1>4. DirTyped'
      BY <1>2, <1>3 DEF DirInv, DirTyped
<1>5. OfferedOK' /\ JobOK'
      BY <1>2, <1>3 DEF DirInv, OfferedOK, JobOK
<1>6. LabelsOK'
      BY <1>2, <1>3 DEF DirInv, LabelsOK, Twins
<1>7. RowsOK'
      BY <1>3 DEF DirInv, RowsOK
<1> QED BY <1>4, <1>5, <1>6, <1>7 DEF DirInv

LEMMA VanishesStep ==
  ASSUME DirInv, NEW gone \in DOMAIN ctrs, Vanishes(gone) PROVE DirInv'
<1>1. /\ job = Idle /\ UNCHANGED <<made, rows, job, offered, torn>>
      /\ ctrs' = [d \in DOMAIN ctrs \ {gone} |-> ctrs[d]]
      BY DEF Vanishes, Gone
<1>2. \A c \in DOMAIN ctrs' : c \in DOMAIN ctrs /\ ctrs'[c] = ctrs[c]
      BY <1>1
<1>3. DirTyped'
      BY <1>1, <1>2 DEF DirInv, DirTyped
<1>4. OfferedOK' /\ JobOK'
      BY <1>1, <1>2 DEF DirInv, OfferedOK, JobOK
<1>5. LabelsOK'
      BY <1>1, <1>2 DEF DirInv, LabelsOK, Twins
<1>6. RowsOK'
      BY <1>1, <1>2 DEF DirInv, RowsOK
<1> QED BY <1>3, <1>4, <1>5, <1>6 DEF DirInv

\* After a start of the manager: the rows that stay are as they were; a new one is of
\* a host on which its container was listed, and so of the host of every one.
LEMMA RowsAfterStart ==
  ASSUME DirInv, NEW answered, rows' = Synced(answered), NEW i \in DOMAIN rows'
  PROVE  \/ i \in DOMAIN rows /\ rows'[i] = rows[i]
         \/ \E c \in DOMAIN ctrs : /\ ctrs[c].label = i /\ i # NoId
                                   /\ rows'[i] = [tracked |-> 0, on |-> ctrs[c].on]
<1> DEFINE seen == {c \in DOMAIN ctrs : IsLabelled(c) /\ ctrs[c].on \in answered}
           ids == {ctrs[c].label : c \in seen}
           hosts == {ctrs[c].on : c \in seen}
           stays(j) == rows[j].on \notin hosts \/ j \in ids \/ rows[j].tracked # 0
           mine == {c \in seen : ctrs[c].label = i}
           kept == {j \in DOMAIN rows : stays(j)}
<1>1. rows' = [j \in kept \cup ids |->
                IF j \in DOMAIN rows THEN rows[j]
                ELSE [tracked |-> 0, on |-> ctrs[Newest({c \in seen : ctrs[c].label = j})].on]]
      BY DEF Synced
<1>2. kept \subseteq DOMAIN rows
      OBVIOUS
<1>3. \A j \in ids : \E c \in seen : ctrs[c].label = j
      OBVIOUS
<1>4. mine \subseteq DOMAIN ctrs /\ \A c \in mine : ctrs[c].label = i /\ i # NoId
      BY DEF IsLabelled
<1>5. (\E c \in seen : ctrs[c].label = i) => mine # {}
      OBVIOUS
<1>6. made \in Nat /\ DOMAIN ctrs \subseteq 1..made
      BY DEF DirInv, DirTyped
<1>7. CASE i \in DOMAIN rows
      BY <1>1, <1>7
<1>8. CASE i \notin DOMAIN rows
  <2>1. i \in ids /\ rows'[i] = [tracked |-> 0, on |-> ctrs[Newest(mine)].on]
        BY <1>1, <1>2, <1>8
  <2>2. mine # {}
        BY <1>3, <1>5, <2>1
  <2>3. Newest(mine) \in mine
    <3> HIDE DEF mine
    <3> QED BY <1>4, <1>6, <2>2, NewestIsOne
  <2> HIDE DEF mine
  <2> QED BY <1>4, <2>1, <2>3
<1> QED BY <1>7, <1>8

LEMMA RestartStep ==
  ASSUME DirInv, NEW answered, Restart(answered) PROVE DirInv'
<1>1. /\ rows' = Synced(answered) /\ job' = Idle /\ offered' = {}
      /\ torn' = IF job.kind = "recreate" THEN torn \cup {job.id} ELSE torn
      /\ UNCHANGED <<ctrs, made>>
      BY DEF Restart
<1>2. \A i \in DOMAIN rows' :
        \/ i \in DOMAIN rows /\ rows'[i] = rows[i]
        \/ \E c \in DOMAIN ctrs : /\ ctrs[c].label = i /\ i # NoId
                                  /\ rows'[i] = [tracked |-> 0, on |-> ctrs[c].on]
      BY <1>1, RowsAfterStart
<1>3. job.kind = "recreate" => Recreating
      BY JobKinds DEF DirInv, JobOK
<1>4. DirTyped'
  <2>1. torn' \subseteq Ids
        BY <1>1, <1>3 DEF DirInv, DirTyped, Recreating
  <2>2. \A i \in DOMAIN rows' : /\ i \in Ids
                                /\ rows'[i] = [tracked |-> rows'[i].tracked, on |-> rows'[i].on]
                                /\ rows'[i].tracked \in 0..made /\ rows'[i].on \in Daemons
    <3> TAKE i \in DOMAIN rows'
    <3>1. CASE i \in DOMAIN rows /\ rows'[i] = rows[i]
          BY <3>1 DEF DirInv, DirTyped
    <3>2. CASE \E c \in DOMAIN ctrs : /\ ctrs[c].label = i /\ i # NoId
                                      /\ rows'[i] = [tracked |-> 0, on |-> ctrs[c].on]
          BY <3>2 DEF DirInv, DirTyped
    <3> QED BY <1>2, <3>1, <3>2
  <2> QED BY <1>1, <2>1, <2>2 DEF DirInv, DirTyped
<1>5. OfferedOK' /\ JobOK'
      BY <1>1 DEF OfferedOK, JobOK
<1>6. LabelsOK'
  <2>1. \A c, d \in Twins : c = d \/ ctrs[c].label \in torn' \cup {NoId}
        BY <1>1, <1>3 DEF Twins, Recreating
  <2>2. torn \subseteq torn'
        BY <1>1
  <2> QED BY <1>1, <2>1, <2>2 DEF DirInv, LabelsOK
<1>7. RowsOK'
  <2> SUFFICES ASSUME NEW i \in DOMAIN rows'
               PROVE  /\ \A c \in DOMAIN ctrs : ctrs[c].label = i => ctrs[c].on = rows'[i].on
                      /\ rows'[i].tracked \in DOMAIN ctrs =>
                           /\ ctrs[rows'[i].tracked].on = rows'[i].on
                           /\ \/ ctrs[rows'[i].tracked].label = i
                              \/ /\ ctrs[rows'[i].tracked].label = NoId
                                 /\ \A c \in DOMAIN ctrs : ctrs[c].label # i
      BY <1>1 DEF RowsOK
  <2>1. CASE i \in DOMAIN rows /\ rows'[i] = rows[i]
        BY <2>1 DEF DirInv, RowsOK
  <2>2. CASE \E c \in DOMAIN ctrs : /\ ctrs[c].label = i /\ i # NoId
                                    /\ rows'[i] = [tracked |-> 0, on |-> ctrs[c].on]
    <3>1. PICK c \in DOMAIN ctrs : /\ ctrs[c].label = i /\ i # NoId
                                   /\ rows'[i] = [tracked |-> 0, on |-> ctrs[c].on]
          BY <2>2
    <3>2. rows'[i].tracked = 0 /\ rows'[i].on = ctrs[c].on /\ 0 \notin DOMAIN ctrs
          BY <3>1 DEF DirInv, DirTyped
    <3>3. \A d \in DOMAIN ctrs : ctrs[d].label = i => ctrs[d].on = ctrs[c].on
          BY <3>1 DEF DirInv, LabelsOK
    <3> QED BY <3>2, <3>3
  <2> QED BY <1>2, <2>1, <2>2
<1> QED BY <1>4, <1>5, <1>6, <1>7 DEF DirInv

LEMMA DirInvStep == DirInv /\ [DirNext]_dirVars => DirInv'
<1> SUFFICES ASSUME DirInv, [DirNext]_dirVars PROVE DirInv'
    OBVIOUS
<1>1. ASSUME NEW i \in Ids, NEW d \in Daemons, CreateInstance(i, d) PROVE DirInv'
      BY <1>1, CreateInstanceStep
<1>2. ASSUME NEW i \in Ids, NEW c \in DOMAIN ctrs, AdoptContainer(c, i) PROVE DirInv'
      BY <1>2, AdoptStep
<1>3. ASSUME NEW i \in Ids, NEW route \in BOOLEAN, RecreateInstance(i, route) PROVE DirInv'
      BY <1>3, RecreateStep
<1>4. ASSUME NEW i \in Ids, RemoveInstance(i) PROVE DirInv'
      BY <1>4, RemoveStep
<1>5. CASE RecordInstance
      BY <1>5, RecordStep
<1>6. CASE RecreateDone
      BY <1>6, RecreateDoneStep
<1>7. CASE RecreateFails
      BY <1>7, RecreateFailsStep
<1>8. CASE Discover
      BY <1>8, DiscoverStep
<1>9. ASSUME NEW answered, Restart(answered) PROVE DirInv'
      BY <1>9, RestartStep
<1>10. ASSUME NEW d \in Daemons, Appears(d) PROVE DirInv'
      BY <1>10, AppearsStep
<1>11. ASSUME NEW c \in DOMAIN ctrs, Vanishes(c) PROVE DirInv'
      BY <1>11, VanishesStep
<1>12. CASE UNCHANGED dirVars
      BY <1>12 DEF dirVars, DirInv, DirTyped, OfferedOK, JobOK, Creating, Recreating, LabelsOK, Twins, RowsOK
<1> QED BY <1>1, <1>2, <1>3, <1>4, <1>5, <1>6, <1>7, <1>8, <1>9, <1>10, <1>11, <1>12 DEF DirNext

LEMMA DirInvAlways == DirSpec => []DirInv
  BY DirInvInit, DirInvStep, PTL DEF DirSpec

\* The containers, rows and operations of the directory keep their types.
THEOREM DirTypeCorrect == DirSpec => []DirTypeOK
  BY DirInvAlways, DirTypeHolds, PTL

\* For every set of ids and every number of containers made: what an instance is
\* listed with is what its buttons act on and what its page shows, and nothing
\* offered for adoption is an instance's, whatever was created, adopted, recreated
\* or removed and however often the manager restarted.
THEOREM ActsOnTheShownCorrect == DirSpec => []ActsOnTheShown
  BY DirInvAlways, DirInvImplies, PTL
=============================================================================
