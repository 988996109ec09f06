---------------------------- MODULE InstanceSpec ----------------------------
(***************************************************************************)
(* What one instance's container is made of: its policy, its environment,  *)
(* its model and the scope of its LiteLLM key, as createInstance and       *)
(* recreateInstance of server/docker.js put them together with             *)
(* server/llm-routing.js and server/placement.js.  The two build the same  *)
(* thing by different code: one from parts, the other by editing what an   *)
(* older manager, or an older setting, left behind.                        *)
(*                                                                         *)
(* The order of the calls, and what a call that fails in the middle leaves *)
(* behind, is in CreateInstance and Lifecycle; here an operation is one    *)
(* step.  What changes between operations are the manager's settings (with *)
(* a restart), the routes LiteLLM serves, and the row of the host.  A      *)
(* setting, or an address, is a generation number; 0 is one not set.       *)
(***************************************************************************)
EXTENDS Naturals

CONSTANTS MaxEdits, \* changes around the instance in a behaviour
          NoModel

ASSUME EditsAssumption == MaxEdits \in Nat

VARIABLES setup,   \* the manager's settings
          served,  \* the routes LiteLLM serves
          place,   \* the host of the instance
          cont,    \* the container, or NoContainer
          hash,    \* the key whose digest the row has
          scope,   \* the models of each key; none means every model
          asNow,   \* history: nothing has changed since the container was made
          ours,    \* history: createInstance or recreateInstance chose its key
          edits

specVars == <<setup, served, place, cont, hash, scope, asNow, ours, edits>>

Routed == {"local-llm", "ghcopilot"}
Backends == Routed \cup {"claude-max", "github-copilot"}
NetworkPolicies == {"unrestricted", "claude-only", "claude-github"}
Models == Routed \X {1, 2}
CliModels == {<<"copilot", 1>>}
Keys == {"k1", "k2"}
ASSUME NoModelAssumption == NoModel \notin Models \cup CliModels
NoContainer == [backend |-> "none"]
Names == {"MANAGER_URL", "NETWORK_POLICY", "SECRET", "TZ", "PROXY", "BACKEND", "COPILOT_MODEL",
          "API_KEY", "BASE_URL", "MODEL", "API_BASE", "TOKEN_REF", "IMAGE_ENV"}

Settings == [proxy : 1..2, tz : 0..1, secret : 0..1, router : 0..1, lan : {0, 2},
             ref : 1..2, image : 1..2]

SpecTypeOK ==
  /\ setup \in Settings
  /\ place \in [remote : BOOLEAN, accepts : BOOLEAN, callback : 0..2, root : BOOLEAN]
  /\ served \subseteq Models /\ edits \in Nat /\ asNow \in BOOLEAN /\ ours \in BOOLEAN
  /\ hash \in Keys \cup {"none"} /\ scope \in [Keys -> SUBSET Models]
  /\ cont # NoContainer =>
       /\ cont.backend \in Backends /\ cont.policy \in NetworkPolicies
       /\ cont.socket \in BOOLEAN /\ cont.netAdmin \in BOOLEAN
       /\ cont.model \in Models \cup CliModels \cup {NoModel}
       /\ \A e \in cont.env : e[1] \in Names

-----------------------------------------------------------------------------
(* Parts that creation and recreation share.                               *)

RoutesForBackend(backend, routes) == {m \in routes : m[1] = backend}
DefaultModel(backend) == <<backend, 1>>
IsRestricted(policy) == policy # "unrestricted"

\* Refusals of placement.js and docker.js, before anything is touched.
FitsPolicy(backend, policy) ==
  backend = "github-copilot" => policy \in {"unrestricted", "claude-github"}
RouterConfigured(backend) == backend \in Routed => setup.router # 0
Admissible(socket, policy) ==
  /\ place.accepts
  /\ socket => place.remote
  /\ place.remote => ~IsRestricted(policy)

ManagerUrl == IF place.remote THEN place.callback ELSE 1
LitellmUrl == IF place.remote THEN setup.lan ELSE setup.router

\* hostPaths: the directories of the instance are the host's, which must have a root.
HasPaths == place.remote => place.root

Set(name, value) == {<<name, value>>}
If(condition, env) == IF condition THEN env ELSE {}
SecretEnv == If(setup.secret # 0, Set("SECRET", setup.secret))
TzEnv == If(setup.tz # 0, Set("TZ", setup.tz))
ModelEnv(model) == If(model # NoModel, Set("MODEL", model))
Values(env, name) == {e[2] : e \in {x \in env : x[1] = name}}

-----------------------------------------------------------------------------
(* createInstance.                                                         *)

\* resolveModel: a model may be asked for, and must be a route of its backend.
Resolved(backend, model) ==
  IF backend \in Routed /\ model = NoModel THEN DefaultModel(backend) ELSE model
Selectable(backend, model) ==
  CASE backend = "github-copilot" -> model \in CliModels \cup {NoModel}
    [] backend = "claude-max" -> model = NoModel
    [] OTHER -> Resolved(backend, model) \in RoutesForBackend(backend, served)

\* What an inspect shows of it: the ENV of the image is part of it (IMAGE_ENV).
CreatedEnv(backend, policy, model) ==
  Set("MANAGER_URL", ManagerUrl) \cup Set("NETWORK_POLICY", policy) \cup SecretEnv \cup TzEnv
    \cup If(IsRestricted(policy), Set("PROXY", setup.proxy))
    \cup If(setup.router # 0, Set("API_BASE", setup.router))
    \cup Set("BACKEND", backend) \cup Set("IMAGE_ENV", setup.image)
    \cup If(backend = "github-copilot", Set("TOKEN_REF", setup.ref))
    \cup If(backend = "github-copilot" /\ model # NoModel, Set("COPILOT_MODEL", model))
    \cup If(backend \in Routed, Set("BASE_URL", LitellmUrl) \cup ModelEnv(model))

CreatedContainer(backend, policy, socket, model, key) ==
  [backend |-> backend, policy |-> policy, socket |-> socket, model |-> model,
   netAdmin |-> IsRestricted(policy),
   env |-> CreatedEnv(backend, policy, model) \cup If(backend \in Routed, Set("API_KEY", key))]

\* mintInstanceKey: for the routes its backend has at this moment, if any.
Minted(key, backend) == [scope EXCEPT ![key] = RoutesForBackend(backend, served)]

Create(backend, policy, socket, asked) ==
  LET model == Resolved(backend, asked) IN
  /\ cont = NoContainer
  /\ FitsPolicy(backend, policy) /\ RouterConfigured(backend)
  /\ Selectable(backend, asked) /\ Admissible(socket, policy)
  /\ backend \in Routed => LitellmUrl # 0
  /\ HasPaths /\ ManagerUrl # 0
  /\ cont' = CreatedContainer(backend, policy, socket, model, "k1")
  /\ IF backend \in Routed THEN hash' = "k1" /\ scope' = Minted("k1", backend)
     ELSE UNCHANGED <<hash, scope>>
  /\ asNow' = TRUE /\ ours' = TRUE
  /\ UNCHANGED <<setup, served, place, edits>>

-----------------------------------------------------------------------------
(* recreateInstance.                                                       *)

EnvKey == IF Values(cont.env, "API_KEY") = {} THEN "none"
          ELSE CHOOSE k \in Values(cont.env, "API_KEY") : TRUE
FreshKey == CHOOSE k \in Keys : k # hash /\ k # EnvKey

\* The key of the replacement: the instance's own, a legacy one the database
\* does not know, or none of these, and then one is minted.
OwnKey == cont.backend \in Routed /\ EnvKey # "none" /\ EnvKey = hash
LegacyKey == cont.backend \in Routed /\ EnvKey \notin {"none", "master"} /\ hash = "none"
KeptKey == IF OwnKey \/ LegacyKey THEN EnvKey ELSE FreshKey

MutKeepScope(have, allowed) == have
\* scopeKeyToBackend: a key that reaches everything is cut down to its backend.
Narrowed(have, allowed) == IF have = {} THEN allowed ELSE have \cap allowed

\* What the router knows of the keys afterwards, and whether it refuses.
ScopeAfter ==
  LET allowed == RoutesForBackend(cont.backend, served) IN
  IF cont.backend \notin Routed \/ LegacyKey THEN scope
  ELSE IF OwnKey THEN [scope EXCEPT ![hash] = Narrowed(scope[hash], allowed)]
  ELSE Minted(FreshKey, cont.backend)
KeyAvailable ==
  cont.backend \in Routed /\ ~LegacyKey =>
    LET allowed == RoutesForBackend(cont.backend, served) IN
    allowed # {} /\ (OwnKey => Narrowed(scope[hash], allowed) # {})

MutStripped(pinned) ==
  {"MANAGER_URL", "NETWORK_POLICY", "SECRET", "TZ"}
    \cup If(cont.backend \in Routed, {"API_KEY", "BASE_URL"}) \cup If(pinned # NoModel, {"MODEL"})
\* The variables of the old container that are not carried over as they are.
Stripped(pinned) ==
  {"MANAGER_URL", "NETWORK_POLICY", "SECRET", "TZ", "PROXY"}
    \cup If(cont.backend \in Routed, {"API_KEY", "BASE_URL"}) \cup If(pinned # NoModel, {"MODEL"})
CarriedOver(pinned) ==
  {e \in cont.env : e[1] \notin Stripped(pinned)} \ Set("API_KEY", "master")

\* The model of a routed instance: its own, else its backend's default, served
\* or not.
Pinned ==
  IF cont.backend \notin Routed THEN NoModel
  ELSE IF cont.model # NoModel THEN cont.model ELSE DefaultModel(cont.backend)

Recreated(socket, policy, key) ==
  [cont EXCEPT !.socket = socket, !.policy = policy, !.netAdmin = IsRestricted(policy),
     !.model = IF Pinned # NoModel THEN Pinned ELSE @,
     !.env = CarriedOver(Pinned)
       \cup Set("MANAGER_URL", ManagerUrl) \cup Set("NETWORK_POLICY", policy) \cup SecretEnv \cup TzEnv
       \cup If(cont.backend \in Routed, Set("API_KEY", key) \cup Set("BASE_URL", LitellmUrl))
       \cup If(IsRestricted(policy), Set("PROXY", setup.proxy))
       \cup ModelEnv(Pinned)]

MayRecreate(socket, policy) ==
  /\ cont # NoContainer
  /\ Admissible(socket, policy) /\ FitsPolicy(cont.backend, policy)
  /\ ManagerUrl # 0 /\ RouterConfigured(cont.backend)

\* From the recreate and update routes, an approval, or a grant that is dropped.
\* One that fails late leaves the container as it was but its own key narrower,
\* or a key just minted behind that no container and no row has: so it ends when
\* the host cannot reach LiteLLM, or refuses to stop or rename the container.
Recreate(socket, policy) ==
  /\ MayRecreate(socket, policy) /\ KeyAvailable
  /\ scope' = ScopeAfter
  /\ \/ /\ cont.backend \in Routed => LitellmUrl # 0
        /\ cont' = Recreated(socket, policy, KeptKey)
        /\ hash' = IF cont.backend \in Routed /\ ~OwnKey /\ ~LegacyKey THEN FreshKey ELSE hash
        /\ asNow' = TRUE /\ ours' = TRUE
     \/ cont.backend \in Routed /\ ~LegacyKey /\ UNCHANGED <<cont, hash, asNow, ours>>
  /\ UNCHANGED <<setup, served, place, edits>>

\* The rotate route: a fresh key with the scope of the one on record.
Rotate ==
  /\ MayRecreate(cont.socket, cont.policy)
  /\ setup.router # 0 /\ LitellmUrl # 0
  /\ hash # "none" /\ scope[hash] # {} /\ cont.backend \in Routed
  /\ cont' = Recreated(cont.socket, cont.policy, FreshKey)
  /\ hash' = FreshKey /\ scope' = [scope EXCEPT ![FreshKey] = scope[hash]]
  /\ asNow' = TRUE
  /\ UNCHANGED <<setup, served, place, ours, edits>>

-----------------------------------------------------------------------------
(* What changes around the instance.                                       *)

Edit == edits > 0 /\ edits' = edits - 1 /\ asNow' = FALSE /\ UNCHANGED <<cont, hash, scope, ours>>
Reconfigure ==
  /\ Edit /\ UNCHANGED <<served, place>>
  /\ \/ setup' = [setup EXCEPT !.proxy = 3 - @]
     \/ setup' = [setup EXCEPT !.tz = 1 - @]
     \/ setup' = [setup EXCEPT !.secret = 1 - @]
     \/ setup' = [setup EXCEPT !.router = 1 - @]
     \/ setup' = [setup EXCEPT !.lan = 2 - @]
     \/ setup' = [setup EXCEPT !.ref = 3 - @]
     \/ setup' = [setup EXCEPT !.image = 3 - @]
RoutesChange(m) ==
  /\ Edit /\ UNCHANGED <<setup, place>>
  /\ served' = (served \ {m}) \cup ({m} \ served)
EditHost ==
  /\ Edit /\ UNCHANGED <<setup, served>>
  /\ \/ place' = [place EXCEPT !.accepts = ~@]
     \/ place' = [place EXCEPT !.root = ~@]
     \/ \E url \in 0..2 \ {place.callback} : place' = [place EXCEPT !.callback = url]

\* A container of an older manager: no NETWORK_POLICY or MANAGER_URL, no model,
\* an old proxy and image, and the master key, a shared key, or a key of its
\* own that reaches more than its backend.
LegacyContainers ==
  {[backend |-> backend, policy |-> policy, socket |-> socket, model |-> NoModel,
    netAdmin |-> IsRestricted(policy),
    env |-> Set("BACKEND", backend) \cup Set("API_KEY", key) \cup Set("BASE_URL", 1)
              \cup Set("API_BASE", 1) \cup Set("IMAGE_ENV", 2)
              \cup If(IsRestricted(policy), Set("PROXY", 2))] :
   backend \in {"local-llm", "claude-max"}, policy \in {"unrestricted", "claude-only"},
   socket \in BOOLEAN, key \in {"master", "shared", "k1"}}

SpecInit ==
  /\ setup = [proxy |-> 1, tz |-> 1, secret |-> 1, router |-> 1, lan |-> 2,
              ref |-> 1, image |-> 1]
  /\ served = Models
  /\ place \in [remote : BOOLEAN, accepts : {TRUE}, callback : {1}, root : {TRUE}]
  /\ scope \in [Keys -> {{}, {<<"local-llm", 1>>, <<"ghcopilot", 1>>}, {<<"ghcopilot", 1>>}}]
  /\ scope["k2"] = {}
  /\ \/ cont = NoContainer /\ hash = "none" /\ scope["k1"] = {}
     \/ /\ cont \in LegacyContainers
        /\ hash \in IF cont.backend = "local-llm" THEN {"none", "k1"} ELSE {"none"}
  /\ asNow = FALSE /\ ours = FALSE /\ edits = MaxEdits

SpecNext ==
  \/ \E backend \in Backends, policy \in NetworkPolicies, socket \in BOOLEAN,
        model \in Models \cup CliModels \cup {NoModel} : Create(backend, policy, socket, model)
  \/ cont # NoContainer /\ \E socket \in BOOLEAN, policy \in NetworkPolicies : Recreate(socket, policy)
  \/ cont # NoContainer /\ Rotate
  \/ Reconfigure \/ EditHost \/ \E m \in Models : RoutesChange(m)

SpecSpec == SpecInit /\ [][SpecNext]_specVars

-----------------------------------------------------------------------------
(* Properties.                                                             *)

\* The variables a recreation leaves as they are, though a creation takes them
\* from the settings or the image of the day: LITELLM_API_BASE, the reference to
\* the Copilot token, and what the old image set.
LeftAlone == {"API_BASE", "TOKEN_REF", "IMAGE_ENV"}

\* As long as nothing around it changes, a container is the same whether it was
\* made by a create or is the replacement of whatever was there before, but for
\* LITELLM_API_BASE, CM_COPILOT_TOKEN_REF and the ENV of the image, which are of
\* the day it was first made: same callback address, policy, secrets, time zone,
\* proxy, model and, if it is routed, address of the router, and NET_ADMIN under
\* a policy that needs it; nothing else of the old one shows through, and no
\* variable is there twice.  (The backend's name never changes; the key is
\* KeyWithinBackend's.)  docker.js, createInstance and recreateInstance.
RecreatedAsCreated ==
  asNow /\ cont # NoContainer =>
    LET created == CreatedEnv(cont.backend, cont.policy, cont.model) IN
    /\ cont.netAdmin = IsRestricted(cont.policy)
    /\ \A name \in Names \ (LeftAlone \cup {"API_KEY", "BACKEND", "BASE_URL"}) :
         Values(cont.env, name) = Values(created, name)
    /\ cont.backend \in Routed => Values(cont.env, "BASE_URL") = Values(created, "BASE_URL")
    /\ \A e, f \in cont.env : e[1] = f[1] => e = f

\* An instance created or recreated by this manager does not hold the master
\* key, and a key of its own that is on record reaches some models, all of its
\* backend, whatever the key it had before did and however the routes changed.
\* (A key the row does not know is kept as it is; a rotation copies the scope it
\* finds.)  llm-routing.js, mintInstanceKey and scopeKeyToBackend.
KeyWithinBackend ==
  ours =>
    /\ <<"API_KEY", "master">> \notin cont.env
    /\ <<"API_KEY", hash>> \in cont.env =>
         scope[hash] # {} /\ scope[hash] \subseteq RoutesForBackend(cont.backend, Models)
=============================================================================
