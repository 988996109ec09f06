-------------------------- MODULE BackgroundProofs --------------------------
(***************************************************************************)
(* Proofs about what the manager does by itself: the idle stop, the        *)
(* grants, the background jobs, the watchers, the registry of hosts and    *)
(* the attribution of denials, each on its own, and then all of them,      *)
(* with the ACL files of ProxyAclProofs, in one system, MCBackground,      *)
(* where each still keeps its promises.  They hold for any number of       *)
(* firings of the timer, overlapping sweeps, routes, requests and checks,  *)
(* for any window, day and version, and for any hosts, engines, instances  *)
(* and lines of the proxies' logs.                                         *)
(***************************************************************************)
EXTENDS MCBackground, ProxyAclProofs, FiniteSetTheorems, TLAPS

-----------------------------------------------------------------------------
(***************************************************************************)
(* The idle stop.                                                          *)
(***************************************************************************)

FlagsOK ==
  /\ up \in BOOLEAN /\ terminal \in BOOLEAN /\ lastStop \in BOOLEAN /\ asked \in BOOLEAN
  /\ askedIdle \in BOOLEAN /\ idle \in BOOLEAN /\ watched \in BOOLEAN
AgesOK ==
  /\ sinceStart \in 0 .. IdleWindow /\ sinceEvent \in 0 .. IdleWindow
  /\ sinceAsk \in 0 .. SaveTimeout
  /\ failures \in Nat /\ prompts \in 0 .. 2
TickOK == tick \in [Ticks -> [at : Places, quiet : BOOLEAN, answered : BOOLEAN]]

\* No two ticks are in progress (tickInProgress).
OneTick == \A t, u \in Ticks : tick[t].at # "off" /\ tick[u].at # "off" => t = u

Asking == {t \in Ticks : tick[t].at \in {"pane", "type", "enter"}}
Typing == {t \in Ticks : tick[t].at \in {"enter", "stop"}}

\* A request is typed only while none is pending, by a tick that found the
\* instance idle; from then on it is on its way to the record or to a stop, or on record.
Requested ==
  /\ Asking # {} => ~asked
  /\ prompts < 2
  /\ prompts = 1 => asked \/ Typing # {}

\* A pending request goes back to a tick that found the instance idle; a tick
\* that still looks knows what it read, and a start since then shows in the age.
FoundIdle ==
  /\ asked => askedIdle
  /\ Asking # {} => idle
  /\ \A t \in Ticks :
       /\ tick[t].at \in {"list", "inspect"} /\ tick[t].quiet /\ sinceStart = IdleWindow => idle
       /\ tick[t].at = "stop" => (idle \/ (asked /\ askedIdle))

Watching ==
  /\ watched => terminal
  /\ watched => \A t \in Ticks : tick[t].at \in {"off", "list", "inspect"}

IdleInv == TickOK /\ OneTick /\ Requested /\ FoundIdle /\ Watching

-----------------------------------------------------------------------------
(* The type invariant.                                                     *)

LEMMA IdleTypeParts == IdleTypeOK <=> FlagsOK /\ AgesOK /\ TickOK
  BY DEF IdleTypeOK, FlagsOK, AgesOK, TickOK

LEMMA OlderType ==
  ASSUME NEW cap \in Nat, NEW age \in 0 .. cap PROVE Older(age, cap) \in 0 .. cap
  BY DEF Older

LEMMA IdleTypeInit == IdleInit => FlagsOK /\ AgesOK /\ TickOK
<1> SUFFICES ASSUME IdleInit PROVE FlagsOK /\ AgesOK /\ TickOK
    OBVIOUS
<1>1. FlagsOK BY DEF IdleInit, FlagsOK
<1>2. AgesOK
      BY IdleWindowAssumption, SaveTimeoutAssumption, MaxFailuresAssumption DEF IdleInit, AgesOK
<1>3. TickOK BY DEF IdleInit, TickOK, Resting, Places
<1> QED BY <1>1, <1>2, <1>3

LEMMA FlagsStep == FlagsOK /\ [IdleNext]_idleVars => FlagsOK'
<1> SUFFICES ASSUME FlagsOK, [IdleNext]_idleVars PROVE FlagsOK'
    OBVIOUS
<1>1. ASSUME NEW t \in Ticks, TickStep(t) \/ InspectFails(t) PROVE FlagsOK'
  <2>1. CASE ReadUsage(t)
        BY <2>1 DEF FlagsOK, ReadUsage, world
  <2>2. CASE ~ReadUsage(t)
        BY <1>1, <2>2 DEF FlagsOK, world, history, TickStep, List, Decide, LookAtPane,
           AskToSave, Record, StopIdle, StopReturns, InspectFails, Forget
  <2> QED BY <2>1, <2>2
<1>2. ASSUME NEW stop \in BOOLEAN, HookEvent(stop) PROVE FlagsOK'
      BY <1>2 DEF FlagsOK, HookEvent, history
<1>3. CASE OpenTerminal \/ CloseTerminal \/ StartedByOthers \/ StoppedByOthers \/ TimePasses
      BY <1>3 DEF FlagsOK, OpenTerminal, CloseTerminal, StartedByOthers, StoppedByOthers,
         TimePasses, history
<1>4. CASE UNCHANGED idleVars
      BY <1>4 DEF FlagsOK, idleVars, world, history
<1> QED BY <1>1, <1>2, <1>3, <1>4 DEF IdleNext

LEMMA AgesStep == AgesOK /\ [IdleNext]_idleVars => AgesOK'
<1> USE IdleWindowAssumption, SaveTimeoutAssumption
<1> SUFFICES ASSUME AgesOK, IdleNext, idleVars' # idleVars PROVE AgesOK'
    BY DEF AgesOK, idleVars, world, history
<1>1. CASE TimePasses
      BY <1>1, OlderType DEF AgesOK, TimePasses, history
<1>2. CASE ~TimePasses
      BY <1>2 DEF AgesOK, IdleNext, world, history, TickStep, ReadUsage, List, Decide,
         LookAtPane, AskToSave, Record, StopIdle, StopReturns, InspectFails, Forget, Fails,
         HookEvent, OpenTerminal, CloseTerminal, StartedByOthers, StoppedByOthers
<1> QED BY <1>1, <1>2

LEMMA TickStepType == TickOK /\ [IdleNext]_idleVars => TickOK'
<1> SUFFICES ASSUME TickOK, [IdleNext]_idleVars PROVE TickOK'
    OBVIOUS
<1>1. ASSUME NEW t \in Ticks, TickStep(t) \/ InspectFails(t) PROVE TickOK'
  <2>1. CASE ReadUsage(t)
        BY <2>1 DEF TickOK, Places, ReadUsage
  <2>2. CASE List(t)
        BY <2>2 DEF TickOK, Places, Resting, Move, List
  <2>3. ASSUME NEW place \in Places, Move(t, place) PROVE TickOK'
        BY <2>3 DEF TickOK, Resting, Move
  <2>4. CASE LookAtPane(t) \/ AskToSave(t) \/ Record(t) \/ StopIdle(t) \/ StopReturns(t)
            \/ InspectFails(t) \/ Decide(t)
        BY <2>3, <2>4 DEF Places, Decide, LookAtPane, AskToSave, Record, StopIdle,
           StopReturns, InspectFails
  <2> QED BY <1>1, <2>1, <2>2, <2>3, <2>4 DEF TickStep
<1>2. CASE UNCHANGED tick
      BY <1>2 DEF TickOK
<1>3. ASSUME NEW stop \in BOOLEAN, HookEvent(stop) PROVE UNCHANGED tick
      BY <1>3 DEF HookEvent
<1>4. CASE OpenTerminal \/ CloseTerminal \/ StartedByOthers \/ StoppedByOthers \/ TimePasses
      BY <1>2, <1>4 DEF OpenTerminal, CloseTerminal, StartedByOthers, StoppedByOthers, TimePasses
<1>5. CASE UNCHANGED idleVars
      BY <1>2, <1>5 DEF idleVars
<1> QED BY <1>1, <1>2, <1>3, <1>4, <1>5 DEF IdleNext

\* Every variable of the idle stop keeps to its type: the ages stop at the
\* window and at the timeout.
THEOREM IdleTypeCorrect == IdleSpec => []IdleTypeOK
<1>1. IdleTypeOK /\ [IdleNext]_idleVars => IdleTypeOK'
  <2>1. FlagsOK' /\ AgesOK' /\ TickOK' => IdleTypeOK'
        BY DEF IdleTypeOK, FlagsOK, AgesOK, TickOK
  <2> QED BY <2>1, IdleTypeParts, FlagsStep, AgesStep, TickStepType
<1> QED BY <1>1, IdleTypeInit, IdleTypeParts, PTL DEF IdleSpec

-----------------------------------------------------------------------------
(* The strengthening.                                                      *)

\* A step of a tick finds the others off, and leaves them so.
LEMMA OthersOff ==
  ASSUME TickOK, OneTick, NEW t \in Ticks, TickStep(t) \/ InspectFails(t)
  PROVE  OneTick' /\ \A u \in Ticks : u # t => tick'[u] = tick[u] /\ tick[u].at = "off"
<1>1. tick[t].at # "off" \/ InProgress = {}
      BY DEF TickStep, ReadUsage, MayTick, List, Decide, LookAtPane, AskToSave, Record,
         StopIdle, StopReturns, InspectFails
<1>2. \A u \in Ticks : u # t => tick[u].at = "off"
      BY <1>1 DEF OneTick, InProgress
<1>3. \A u \in Ticks : u # t => tick'[u] = tick[u]
      BY DEF TickOK, Move, TickStep, ReadUsage, List, Decide, LookAtPane, AskToSave, Record,
         StopIdle, StopReturns, InspectFails
<1> QED BY <1>2, <1>3 DEF OneTick

LEMMA IdleInvInit == IdleInit => IdleInv
<1> SUFFICES ASSUME IdleInit PROVE IdleInv
    OBVIOUS
<1>1. \A t \in Ticks : tick[t].at = "off"
      BY DEF IdleInit, Resting
<1> QED BY <1>1, IdleTypeInit DEF IdleInit, IdleInv, OneTick, Requested, FoundIdle, Watching, Asking, Typing

\* The step of one tick: the others are off, so that At speaks of it alone.
LEMMA IdleInvTick ==
  ASSUME IdleInv, FlagsOK, AgesOK, NEW t \in Ticks, TickStep(t) \/ InspectFails(t), TickOK'
  PROVE  IdleInv'
<1> USE DEF IdleInv
<1>0. \A u \in Ticks : u # t => tick'[u] = tick[u] /\ tick[u].at = "off"
      BY OthersOff
<1>1. OneTick'
      BY OthersOff
<1>2. Asking \in {{}, {t}} /\ (t \in Asking <=> tick[t].at \in {"pane", "type", "enter"})
      BY <1>0 DEF Asking
<1>3. (t \in Asking <=> Asking # {}) /\ (t \in Asking' <=> Asking' # {})
      BY <1>0 DEF Asking
<1>4. (t \in Typing <=> Typing # {}) /\ (t \in Typing' <=> Typing' # {})
      BY <1>0 DEF Typing
<1>5. Requested'
  <2>1. CASE ReadUsage(t)
        BY <2>1, <1>3, <1>4 DEF Requested, ReadUsage, TickOK, Asking, Typing
  <2>2. CASE List(t)
        BY <2>2, <1>3, <1>4 DEF Requested, List, Move, Resting, Forget, TickOK, Asking, Typing
  <2>3. CASE Decide(t)
    <3>1. tick[t].at = "inspect" /\ tick'[t].at \in {"off", "stop", "pane"}
          BY <2>3 DEF Decide, Move, Resting, TickOK
    <3>2. tick'[t].at = "pane" => ~asked /\ ~asked'
          BY <2>3 DEF Decide, Move, Resting, TickOK
    <3>3. prompts' \in {0, prompts}
          BY <2>3 DEF Decide, Forget
    <3>4. prompts = 1 => asked
          BY <3>1, <1>4 DEF Requested, Typing
    <3>5. prompts' = 1 => asked'
          BY <2>3, <3>4 DEF Decide, Forget
    <3>6. Asking' # {} => ~asked'
          BY <3>1, <3>2, <1>3 DEF Asking
    <3> QED BY <3>3, <3>5, <3>6 DEF Requested
  <2>4. CASE LookAtPane(t)
    <3>1. tick[t].at = "pane" /\ tick'[t].at \in {"type", "stop"}
          BY <2>4 DEF LookAtPane, Move, Resting, TickOK
    <3>2. UNCHANGED <<asked, prompts>>
          BY <2>4 DEF LookAtPane, history
    <3> QED BY <3>1, <3>2, <1>3, <1>4 DEF Requested, Asking, Typing
  <2>5. CASE AskToSave(t)
    <3>1. tick[t].at = "type" /\ ~asked /\ prompts = 0
          BY <2>5, <1>3, <1>4 DEF AskToSave, Requested, AgesOK, Asking, Typing
    <3>2. tick'[t].at = "enter" \/ (tick'[t].at \in {"off", "stop"} /\ prompts' = prompts)
          BY <2>5 DEF AskToSave, Move, Resting, TickOK
    <3>3. prompts' < 2 /\ ~asked'
          BY <2>5, <3>1 DEF AskToSave
    <3> QED BY <3>1, <3>2, <3>3, <1>4 DEF Requested, Typing
  <2>6. CASE Record(t)
        BY <2>6, <1>3, <1>4 DEF Requested, Record, Move, Resting, TickOK, Asking, Typing
  <2>7. CASE StopIdle(t)
        BY <2>7, <1>3, <1>4 DEF Requested, StopIdle, Move, Resting, Forget, TickOK, Asking, Typing
  <2>8. CASE StopReturns(t)
        BY <2>8, <1>3, <1>4 DEF Requested, StopReturns, Move, Resting, TickOK, Asking, Typing, history
  <2>9. CASE InspectFails(t)
        BY <2>9, <1>3, <1>4 DEF Requested, InspectFails, Move, Resting, TickOK, Asking, Typing, history
  <2> QED BY <2>1, <2>2, <2>3, <2>4, <2>5, <2>6, <2>7, <2>8, <2>9 DEF TickStep
<1>6. FoundIdle'
  <2>1. CASE ReadUsage(t)
        BY <2>1, <1>0, <1>3 DEF FoundIdle, ReadUsage, TickOK, Asking, world
  <2>2. CASE List(t)
        BY <2>2, <1>0, <1>3 DEF FoundIdle, List, Move, Resting, Forget, TickOK, Asking, world
  <2>3. CASE Decide(t)
        BY <2>3, <1>0, <1>3 DEF FoundIdle, Decide, Lapsed, Move, Resting, Forget, TickOK, Asking, world
  <2>4. CASE LookAtPane(t)
        BY <2>4, <1>0, <1>3 DEF FoundIdle, LookAtPane, Move, Resting, TickOK, Asking, world, history
  <2>5. CASE AskToSave(t)
        BY <2>5, <1>0, <1>3 DEF FoundIdle, AskToSave, Move, Resting, TickOK, Asking, world
  <2>6. CASE Record(t)
        BY <2>6, <1>0, <1>3 DEF FoundIdle, Record, Move, Resting, TickOK, Asking, world
  <2>7. CASE StopIdle(t)
        BY <2>7, <1>0, <1>3 DEF FoundIdle, StopIdle, Move, Resting, Forget, TickOK, Asking, world
  <2>8. CASE StopReturns(t)
        BY <2>8, <1>0, <1>3 DEF FoundIdle, StopReturns, Move, Resting, TickOK, Asking, history
  <2>9. CASE InspectFails(t)
        BY <2>9, <1>0, <1>3 DEF FoundIdle, InspectFails, Move, Resting, TickOK, Asking, world, history
  <2> QED BY <2>1, <2>2, <2>3, <2>4, <2>5, <2>6, <2>7, <2>8, <2>9 DEF TickStep
<1>7. Watching'
  <2>1. CASE ReadUsage(t)
        BY <2>1, <1>0 DEF Watching, ReadUsage, TickOK, world
  <2>2. CASE List(t)
        BY <2>2, <1>0 DEF Watching, List, Move, Resting, TickOK, world
  <2>3. CASE Decide(t)
        BY <2>3, <1>0 DEF Watching, Decide, Spared, Move, Resting, TickOK, world
  <2>4. CASE LookAtPane(t) \/ AskToSave(t) \/ Record(t) \/ StopIdle(t)
        BY <2>4, <1>0 DEF Watching, LookAtPane, AskToSave, Record, StopIdle, TickOK, world, history
  <2>5. CASE StopReturns(t) \/ InspectFails(t)
        BY <2>5, <1>0 DEF Watching, StopReturns, InspectFails, Move, Resting, TickOK, world, history
  <2> QED BY <2>1, <2>2, <2>3, <2>4, <2>5 DEF TickStep
<1> QED BY <1>1, <1>5, <1>6, <1>7

LEMMA IdleInvStep == IdleInv /\ FlagsOK /\ AgesOK /\ [IdleNext]_idleVars => IdleInv'
<1> SUFFICES ASSUME IdleInv, FlagsOK, AgesOK, [IdleNext]_idleVars PROVE IdleInv'
    OBVIOUS
<1> USE DEF IdleInv
<1>1. ASSUME UNCHANGED tick PROVE OneTick' /\ Asking' = Asking /\ Typing' = Typing /\ TickOK'
      BY <1>1 DEF OneTick, Asking, Typing, TickOK
<1>2. ASSUME NEW t \in Ticks, TickStep(t) \/ InspectFails(t) PROVE IdleInv'
      BY <1>2, IdleInvTick, TickStepType
<1>3. ASSUME NEW stop \in BOOLEAN, HookEvent(stop) PROVE IdleInv'
      BY <1>1, <1>3 DEF HookEvent, Requested, FoundIdle, Watching, history
<1>4. CASE OpenTerminal \/ CloseTerminal \/ StoppedByOthers
      BY <1>1, <1>4 DEF OpenTerminal, CloseTerminal, StoppedByOthers, Requested, FoundIdle,
         Watching, history
<1>5. CASE StartedByOthers
      BY <1>1, <1>5, IdleWindowAssumption DEF StartedByOthers, Requested, FoundIdle, Watching, history
<1>6. CASE TimePasses
      BY <1>1, <1>6 DEF TimePasses, InProgress, Requested, FoundIdle, Watching, history
<1>7. CASE UNCHANGED idleVars
      BY <1>1, <1>7 DEF idleVars, world, history, Requested, FoundIdle, Watching
<1> QED BY <1>2, <1>3, <1>4, <1>5, <1>6, <1>7 DEF IdleNext

LEMMA IdleInvCorrect == IdleSpec => [](IdleInv /\ FlagsOK /\ AgesOK)
<1>1. IdleInit => IdleInv /\ FlagsOK /\ AgesOK
      BY IdleInvInit, IdleTypeInit
<1>2. IdleInv /\ FlagsOK /\ AgesOK /\ [IdleNext]_idleVars => (IdleInv /\ FlagsOK /\ AgesOK)'
      BY IdleInvStep, FlagsStep, AgesStep
<1> QED BY <1>1, <1>2, PTL DEF IdleSpec

-----------------------------------------------------------------------------
(* The safety properties.                                                  *)

\* However many firings of the timer fall into one slow tick, Claude is asked
\* once (startIdleStop, tickInProgress).
THEOREM AsksOnceCorrect == IdleSpec => []AsksOnce
<1>1. IdleInv => AsksOnce
      BY DEF IdleInv, Requested, AsksOnce
<1> QED BY <1>1, IdleInvCorrect, PTL

\* What the idle stop stops had been idle for the window when it was looked at,
\* or when the request was typed whose answer the stop follows (decide).
THEOREM StopsOnlyIdleCorrect == IdleSpec => []StopsOnlyIdle
<1>1. IdleInv => StopsOnlyIdle
      BY DEF IdleInv, FoundIdle, StopsOnlyIdle
<1> QED BY <1>1, IdleInvCorrect, PTL

\* A terminal that has been open since the tick began keeps the tick from typing
\* into the instance and from stopping it (decide).
THEOREM OpenTerminalSparesCorrect == IdleSpec => []OpenTerminalSpares
<1>1. IdleInv => OpenTerminalSpares
      BY DEF IdleInv, Watching, OpenTerminalSpares
<1> QED BY <1>1, IdleInvCorrect, PTL

-----------------------------------------------------------------------------
(***************************************************************************)
(* The capability grants.                                                  *)
(***************************************************************************)

\* The type invariant in parts.
RowOK ==
  /\ running \in BOOLEAN /\ capable \in BOOLEAN
  /\ grant \in {"none", "active", "inactive"}
  /\ left \in -DayLen .. Life /\ hour \in 0 .. DayLen - 1
SweepOK ==
  /\ sweep \in [Sweeps -> {"off", "due", "stopping"}]
  /\ renewed \in [Sweeps -> BOOLEAN]
RequestOK ==
  /\ call \in [Calls -> {"off", "starting", "dropping"} \cup Requests]
  /\ request \in [Requests -> {"none", "pending", "approved", "denied"}]
  /\ resolved \in [Requests -> 0 .. 2]

\* A request has been resolved once, or is still open.
OpenOrOnce ==
  \A r \in Requests :
    /\ resolved[r] < 2
    /\ request[r] \in {"none", "pending"} => resolved[r] = 0

\* What a sweep is about to take away has expired, or was renewed meanwhile.
SweepKnows ==
  \A s \in Sweeps : sweep[s] = "stopping" /\ grant = "active" => Expired \/ renewed[s]

GrantInv == RowOK /\ SweepOK /\ RequestOK /\ OpenOrOnce /\ SweepKnows

LEMMA GrantTypeParts == RowOK /\ SweepOK /\ RequestOK => GrantTypeOK
  BY DEF RowOK, SweepOK, RequestOK, GrantTypeOK

LEMMA GrantInvInit == GrantInit => GrantInv
<1> SUFFICES ASSUME GrantInit PROVE GrantInv
    OBVIOUS
<1>1. RowOK
  <2>1. left \in -DayLen .. Life /\ hour \in 0 .. DayLen - 1
        BY DayLenAssumption, LifeAssumption DEF GrantInit
  <2> QED BY <2>1 DEF GrantInit, RowOK
<1>2. SweepOK
      BY DEF GrantInit, SweepOK
<1>3. RequestOK /\ OpenOrOnce
      BY DEF GrantInit, RequestOK, OpenOrOnce
<1>4. SweepKnows
      BY DEF GrantInit, SweepKnows
<1> QED BY <1>1, <1>2, <1>3, <1>4 DEF GrantInv

-----------------------------------------------------------------------------
(* The steps, by what they change.                                         *)

\* The sweep.
LEMMA SweepStep ==
  ASSUME GrantInv, NEW s \in Sweeps, Due(s) \/ Read(s) \/ Sweep(s) PROVE GrantInv'
<1> USE DEF GrantInv
<1>1. RowOK'
      BY DEF RowOK, Due, Read, Sweep, Deactivate
<1>2. SweepOK'
      BY DEF SweepOK, Due, Read, Sweep
<1>3. RequestOK' /\ OpenOrOnce'
      BY DEF RequestOK, OpenOrOnce, Due, Read, Sweep
<1>4. SweepKnows'
  <2>1. CASE Due(s)
        BY <2>1 DEF Due, SweepKnows, SweepOK, Expired
  <2>2. CASE Read(s)
        BY <2>2, DayLenAssumption DEF Read, SweepKnows, SweepOK, RowOK, Overdue, Expired
  <2>3. CASE Sweep(s)
        BY <2>3 DEF Sweep, Deactivate, SweepKnows, SweepOK, Expired
  <2> QED BY <2>1, <2>2, <2>3
<1> QED BY <1>1, <1>2, <1>3, <1>4

\* A grant with a new expiry is renewed for every sweep.
LEMMA GrantStep ==
  ASSUME GrantInv, NEW hours \in 1 .. Life, Grant(hours), UNCHANGED sweep
  PROVE  SweepOK' /\ SweepKnows' /\ grant' = "active" /\ left' \in -DayLen .. Life
<1> USE DEF GrantInv
<1>1. SweepOK'
      BY DEF Grant, SweepOK
<1>2. SweepKnows'
      BY DEF Grant, SweepKnows
<1> QED BY <1>1, <1>2, DayLenAssumption, LifeAssumption DEF Grant

\* The grant routes.
LEMMA RouteStep ==
  ASSUME GrantInv,
         \/ \E hours \in 1 .. Life : CreateManually(hours) \/ \E c \in Calls : Renew(c, hours)
         \/ \E c \in Calls : Started(c) \/ Drop(c) \/ Dropped(c)
         \/ DeleteGrant \/ RecreateOnly
  PROVE  GrantInv'
<1> USE DEF GrantInv
<1>1. RequestOK' /\ OpenOrOnce'
      BY DEF RequestOK, OpenOrOnce, CreateManually, Renew, Started, Drop, Dropped, DeleteGrant,
         RecreateOnly
<1>2. ASSUME NEW hours \in 1 .. Life, CreateManually(hours) PROVE GrantInv'
      BY <1>1, <1>2, GrantStep DEF CreateManually, RowOK
<1>3. ASSUME NEW hours \in 1 .. Life, NEW c \in Calls, Renew(c, hours) PROVE GrantInv'
      BY <1>1, <1>3, GrantStep DEF Renew, RowOK
<1>4. CASE (\E c \in Calls : Started(c) \/ Drop(c) \/ Dropped(c)) \/ DeleteGrant \/ RecreateOnly
  <2>1. RowOK'
        BY <1>4 DEF Started, Drop, Dropped, DeleteGrant, RecreateOnly, RowOK, Deactivate
  <2>2. SweepOK' /\ SweepKnows'
        BY <1>4 DEF Started, Drop, Dropped, DeleteGrant, RecreateOnly, Deactivate, SweepOK,
           SweepKnows, Expired
  <2> QED BY <1>1, <2>1, <2>2
<1> QED BY <1>2, <1>3, <1>4

\* Access requests.
LEMMA RequestStep ==
  ASSUME GrantInv, NEW r \in Requests,
         RequestAccess(r) \/ Deny(r) \/ \E c \in Calls : Approve(c, r)
  PROVE  GrantInv'
<1> USE DEF GrantInv
<1>1. RequestOK' /\ OpenOrOnce'
      BY DEF RequestOK, OpenOrOnce, RequestAccess, Approve, Deny, Resolve
<1>2. RowOK' /\ SweepOK' /\ SweepKnows'
      BY DEF RequestAccess, Approve, Deny, RowOK, SweepOK, SweepKnows, Expired
<1> QED BY <1>1, <1>2

LEMMA AppliedStep ==
  ASSUME GrantInv, NEW c \in Calls, NEW hours \in 1 .. Life, Applied(c, hours) PROVE GrantInv'
<1> USE DEF GrantInv
<1>1. RequestOK' /\ OpenOrOnce'
      BY DEF RequestOK, OpenOrOnce, Applied
<1>2. CASE Grant(hours)
      BY <1>1, <1>2, GrantStep DEF Applied, RowOK
<1>3. CASE UNCHANGED <<grant, left, renewed>>
      BY <1>1, <1>3 DEF Applied, RowOK, SweepOK, SweepKnows, Expired
<1> QED BY <1>2, <1>3 DEF Applied

\* Users and the clock.
LEMMA ClockStep == ASSUME GrantInv, StartedOrStopped \/ HourPasses PROVE GrantInv'
<1> USE DEF GrantInv
<1>1. RequestOK' /\ OpenOrOnce' /\ SweepOK'
      BY DEF StartedOrStopped, HourPasses, RequestOK, OpenOrOnce, SweepOK
<1>2. CASE StartedOrStopped
      BY <1>1, <1>2 DEF StartedOrStopped, RowOK, SweepKnows, Expired
<1>3. CASE HourPasses
  <2>1. hour' \in 0 .. DayLen - 1
        BY <1>3, DayLenAssumption DEF HourPasses, RowOK
  <2>2. left' \in -DayLen .. Life /\ left' =< left
        BY <1>3, DayLenAssumption, LifeAssumption DEF HourPasses, RowOK
  <2>3. SweepKnows'
        BY <1>3, <2>2 DEF HourPasses, SweepKnows, Expired, RowOK
  <2> QED BY <1>1, <1>3, <2>1, <2>2, <2>3 DEF HourPasses, RowOK
<1> QED BY <1>2, <1>3

LEMMA GrantInvStep == GrantInv /\ [GrantNext]_grantVars => GrantInv'
<1> SUFFICES ASSUME GrantInv, [GrantNext]_grantVars PROVE GrantInv'
    OBVIOUS
<1>1. CASE UNCHANGED grantVars
      BY <1>1 DEF grantVars, GrantInv, RowOK, SweepOK, RequestOK, OpenOrOnce, SweepKnows, Expired
<1>2. ASSUME NEW s \in Sweeps, Due(s) \/ Read(s) \/ Sweep(s) PROVE GrantInv'
      BY <1>2, SweepStep
<1>3. ASSUME NEW c \in Calls, NEW hours \in 1 .. Life, Applied(c, hours) PROVE GrantInv'
      BY <1>3, AppliedStep
<1>4. ASSUME NEW r \in Requests, RequestAccess(r) \/ Deny(r) \/ \E c \in Calls : Approve(c, r)
      PROVE  GrantInv'
      BY <1>4, RequestStep
<1>5. CASE \/ \E hours \in 1 .. Life : CreateManually(hours) \/ \E c \in Calls : Renew(c, hours)
           \/ \E c \in Calls : Started(c) \/ Drop(c) \/ Dropped(c)
           \/ DeleteGrant \/ RecreateOnly
      BY <1>5, RouteStep
<1>6. CASE StartedOrStopped \/ HourPasses
      BY <1>6, ClockStep
<1> QED BY <1>1, <1>2, <1>3, <1>4, <1>5, <1>6 DEF GrantNext

LEMMA GrantInvCorrect == GrantSpec => []GrantInv
  BY GrantInvInit, GrantInvStep, PTL DEF GrantSpec

-----------------------------------------------------------------------------
(* The theorems.                                                           *)

\* Every variable of the grants keeps to its type.
THEOREM GrantTypeCorrect == GrantSpec => []GrantTypeOK
<1>1. GrantInv => GrantTypeOK
      BY GrantTypeParts DEF GrantInv
<1> QED BY <1>1, GrantInvCorrect, PTL

\* However many administrators approve and deny it at a time, an access request
\* is resolved once (the status is checked and written in one turn).
THEOREM ResolvedOnceCorrect == GrantSpec => []ResolvedOnce
<1>1. GrantInv => ResolvedOnce
      BY DEF GrantInv, OpenOrOnce, ResolvedOnce
<1> QED BY <1>1, GrantInvCorrect, PTL

\* The comparison of timestamps as texts never takes a grant before its time,
\* whatever the hour and the length of the day (checkExpiredGrants).
THEOREM SweptOnlyExpiredCorrect == GrantSpec => SweptOnlyExpired
<1>1. GrantInv /\ [GrantNext]_grantVars =>
        [\A s \in Sweeps : Sweep(s) /\ grant = "active" /\ ~Expired => renewed[s]]_grantVars
      BY DEF GrantInv, SweepKnows, Sweep
<1> QED BY <1>1, GrantInvCorrect, PTL DEF GrantSpec, SweptOnlyExpired

-----------------------------------------------------------------------------
(***************************************************************************)
(* The background jobs.                                                    *)
(***************************************************************************)

Waiting == {"off", "fetch", "enter"}
JobPlaces == {"off", "fetch", "enter", "target", "build", "detect", "remote", "list", "trivy",
              "probe", "clean"}
TaskRecords == [kind : Kinds, held : 0 .. NewestNpm + MaxCritical + 1, at : JobPlaces]

\* The type invariant in two parts: what the flags guard, and the rest.
TaskOK == task \in [Tasks -> TaskRecords] /\ flag \in [Kinds -> BOOLEAN]
DataOK ==
  /\ npm \in 0 .. NewestNpm /\ installed \in 0 .. NewestNpm
  /\ current \in 0 .. NewestNpm /\ stored \in 0 .. NewestNpm
  /\ critical \in 0 .. MaxCritical /\ scan \in 0 .. MaxCritical
  /\ scanError \in BOOLEAN /\ alerted \in BOOLEAN /\ probes \in SUBSET Tasks /\ troubles \in Nat

\* A task holds a version while it builds, and a count while it scans.
HeldOK ==
  \A t \in Tasks :
    /\ task[t].at \in {"build", "detect"} => task[t].held \in 0 .. NewestNpm
    /\ task[t].at = "trivy" => task[t].held \in 0 .. MaxCritical

\* A task past the guard is the only one of its kind, and its flag is up; a
\* flag that is up has such a task.
Working(t) == task[t].at \notin Waiting
OneEach ==
  /\ \A t, u \in Tasks : Working(t) /\ Working(u) /\ task[t].kind = task[u].kind => t = u
  /\ \A t \in Tasks : Working(t) => flag[task[t].kind]
  /\ \A k \in Kinds : flag[k] => \E t \in Tasks : Working(t) /\ task[t].kind = k

\* The stages of each kind, which tell what a finished task puts down.
KindOK ==
  \A t \in Tasks :
    /\ task[t].at \in {"target", "build", "detect", "remote"} => task[t].kind = "image"
    /\ task[t].at \in {"list", "trivy"} => task[t].kind = "scan"
    /\ task[t].at \in {"probe", "clean"} => task[t].kind = "smoke"

Typed == TaskOK /\ DataOK /\ HeldOK

LEMMA JobTypeParts == JobTypeOK <=> TaskOK /\ DataOK
  BY DEF JobTypeOK, TaskOK, DataOK, TaskRecords, JobPlaces

-----------------------------------------------------------------------------
(* The type invariant.                                                     *)

LEMMA JobTypeInit == JobInit => Typed
<1> SUFFICES ASSUME JobInit PROVE Typed
    OBVIOUS
<1> USE NewestAssumption, MaxCriticalAssumption, MaxTroublesAssumption
<1>1. TaskOK
      BY DEF JobInit, TaskOK, TaskRecords, JobPlaces, Free, Kinds
<1>2. DataOK
  <2>1. /\ npm \in 0 .. NewestNpm /\ installed \in 0 .. NewestNpm
        /\ current \in 0 .. NewestNpm /\ stored \in 0 .. NewestNpm
        BY DEF JobInit, Null
  <2>2. critical \in 0 .. MaxCritical /\ scan \in 0 .. MaxCritical /\ troubles \in Nat
        BY DEF JobInit
  <2>3. scanError \in BOOLEAN /\ alerted \in BOOLEAN /\ probes \in SUBSET Tasks
        BY DEF JobInit
  <2> QED BY <2>1, <2>2, <2>3 DEF DataOK
<1>3. HeldOK
      BY DEF JobInit, HeldOK, Free
<1> QED BY <1>1, <1>2, <1>3 DEF Typed

\* What a step of one task leaves of the others.
LEMMA OthersStay ==
  ASSUME TaskOK, NEW t \in Tasks, AskForImage(t) \/ ImageStep(t) \/ OtherStep(t) \/ StartScan(t)
           \/ StartSmoke(t)
  PROVE  \A u \in Tasks : u # t => task'[u] = task[u]
  BY DEF TaskOK, AskForImage, ImageStep, OtherStep, StartScan, StartSmoke, Fetched, StartBuild,
     Target, Build, Detect, BuiltEverywhere, ListTargets, Trivy, Probe, CleanUp, Go, GoWith, End,
     Enter

\* The task that moves: its record, and the flags.
LEMMA Goes ==
  ASSUME TaskOK, NEW t \in Tasks, NEW place \in JobPlaces, Go(t, place)
  PROVE  /\ task' \in [Tasks -> TaskRecords]
         /\ task'[t].at = place /\ task'[t].kind = task[t].kind /\ task'[t].held = task[t].held
  BY DEF TaskOK, TaskRecords, Go

LEMMA GoesWith ==
  ASSUME TaskOK, NEW t \in Tasks, NEW place \in JobPlaces,
         NEW value \in 0 .. NewestNpm + MaxCritical + 1, GoWith(t, place, value)
  PROVE  /\ task' \in [Tasks -> TaskRecords]
         /\ task'[t].at = place /\ task'[t].kind = task[t].kind /\ task'[t].held = value
  BY DEF TaskOK, TaskRecords, GoWith

LEMMA FreeType == Free \in TaskRecords
  BY NewestAssumption, MaxCriticalAssumption DEF Free, TaskRecords, JobPlaces, Kinds

LEMMA Ends ==
  ASSUME TaskOK, NEW t \in Tasks, End(t)
  PROVE  /\ TaskOK' /\ task'[t].at = "off" /\ task'[t] = Free
         /\ flag' = [flag EXCEPT ![task[t].kind] = FALSE] /\ task[t].kind \in Kinds
  BY FreeType DEF TaskOK, TaskRecords, End, Free

LEMMA Enters ==
  ASSUME TaskOK, NEW t \in Tasks, NEW kind \in Kinds, NEW place \in JobPlaces, Enter(t, kind, place)
  PROVE  /\ TaskOK'
         /\ \/ task'[t].at = "off" /\ flag' = flag
            \/ /\ task'[t].at = place /\ task'[t].kind = kind /\ task'[t].held = 0
               /\ ~flag[kind] /\ flag' = [flag EXCEPT ![kind] = TRUE]
<1>1. [kind |-> kind, at |-> place, held |-> 0] \in TaskRecords
      BY NewestAssumption, MaxCriticalAssumption DEF TaskRecords
<1>2. CASE Admits(kind)
  <2>1. /\ ~flag[kind] /\ flag' = [flag EXCEPT ![kind] = TRUE]
        /\ task' = [task EXCEPT ![t] = [kind |-> kind, at |-> place, held |-> 0]]
        BY <1>2 DEF Enter, Admits
  <2>2. TaskOK'
        BY <1>1, <2>1 DEF TaskOK
  <2> QED BY <2>1, <2>2 DEF TaskOK
<1>3. CASE ~Admits(kind)
      BY <1>3, FreeType DEF Enter, TaskOK, Free
<1> QED BY <1>2, <1>3

LEMMA DataStep == Typed /\ [JobNext]_jobVars => DataOK'
<1> SUFFICES ASSUME Typed, [JobNext]_jobVars PROVE DataOK'
    OBVIOUS
<1> USE NewestAssumption, MaxCriticalAssumption
<1> USE DEF Typed, DataOK, imageVars, scanVars, Trouble, Null
<1>1. CASE UNCHANGED jobVars
      BY <1>1 DEF jobVars
<1>2. CASE Publish
      BY <1>2 DEF Publish
<1>3. CASE WorkspaceChanges
      BY <1>3 DEF WorkspaceChanges
<1>4. CASE Restart
      BY <1>4 DEF Restart
<1>5. ASSUME NEW t \in Tasks,
             AskForImage(t) \/ Fetched(t) \/ StartBuild(t) \/ Target(t) \/ BuiltEverywhere(t)
               \/ StartScan(t) \/ ListTargets(t) \/ StartSmoke(t)
      PROVE  DataOK'
      BY <1>5 DEF AskForImage, Fetched, StartBuild, Target, BuiltEverywhere, StartScan,
         ListTargets, StartSmoke
<1>6. ASSUME NEW t \in Tasks, Build(t) PROVE DataOK'
      BY <1>6 DEF Build
<1>7. ASSUME NEW t \in Tasks, Detect(t) PROVE DataOK'
  <2>1. current' \in 0 .. NewestNpm
        BY <1>7 DEF Detect, Known, HeldOK
  <2>2. stored' \in 0 .. NewestNpm /\ troubles' \in Nat
        BY <1>7, <2>1 DEF Detect
  <2> QED BY <1>7, <2>1, <2>2 DEF Detect
<1>8. ASSUME NEW t \in Tasks, Trivy(t) PROVE DataOK'
  <2>1. scan' \in 0 .. MaxCritical /\ scanError' \in BOOLEAN /\ alerted' \in BOOLEAN
        BY <1>8 DEF Trivy, RowAfter, Raises, HeldOK
  <2> QED BY <1>8, <2>1 DEF Trivy
<1>9. ASSUME NEW t \in Tasks, Probe(t) \/ CleanUp(t) PROVE DataOK'
      BY <1>9 DEF Probe, CleanUp
<1> QED BY <1>1, <1>2, <1>3, <1>4, <1>5, <1>6, <1>7, <1>8, <1>9 DEF JobNext, ImageStep, OtherStep

-----------------------------------------------------------------------------
(* The flags.                                                              *)

\* What a step of a task does to it and to the flags.
Advances(t) ==
  /\ flag' = flag /\ (Working(t) <=> Working(t)')
  /\ Working(t) => task'[t].kind = task[t].kind
Starts(t) ==
  /\ ~Working(t) /\ Working(t)' /\ ~flag[task'[t].kind]
  /\ flag' = [flag EXCEPT ![task'[t].kind] = TRUE]
Finishes(t) ==
  /\ Working(t) /\ ~Working(t)' /\ flag' = [flag EXCEPT ![task[t].kind] = FALSE]
GoesOver(t) ==
  /\ Working(t) /\ Working(t)' /\ task[t].kind = "image" /\ task'[t].kind = "smoke"
  /\ ~flag["smoke"] /\ flag' = [flag EXCEPT !["image"] = FALSE, !["smoke"] = TRUE]

KindOf(t) ==
  /\ task[t].at \in {"target", "build", "detect", "remote"} => task[t].kind = "image"
  /\ task[t].at \in {"list", "trivy"} => task[t].kind = "scan"
  /\ task[t].at \in {"probe", "clean"} => task[t].kind = "smoke"
HeldBy(t) ==
  /\ task[t].at \in {"build", "detect"} => task[t].held \in 0 .. NewestNpm
  /\ task[t].at = "trivy" => task[t].held \in 0 .. MaxCritical

Shape(t) ==
  /\ TaskOK' /\ KindOf(t)' /\ HeldBy(t)'
  /\ Advances(t) \/ Starts(t) \/ Finishes(t) \/ GoesOver(t)

LEMMA StepShape ==
  ASSUME Typed, KindOK, NEW t \in Tasks,
         AskForImage(t) \/ ImageStep(t) \/ OtherStep(t) \/ StartScan(t) \/ StartSmoke(t)
  PROVE  Shape(t)
<1> USE NewestAssumption, MaxCriticalAssumption
<1> USE DEF Typed, Shape, Working, Waiting, KindOf, HeldBy
<1>0. /\ task \in [Tasks -> TaskRecords] /\ flag \in [Kinds -> BOOLEAN] /\ KindOf(t) /\ HeldBy(t)
      /\ task[t] \in TaskRecords /\ Null \in 0 .. NewestNpm + MaxCritical + 1
      BY DEF TaskOK, KindOK, HeldOK, Null
<1>1. CASE AskForImage(t)
      BY <1>0, <1>1, GoesWith DEF AskForImage, JobPlaces, TaskRecords, TaskOK, Advances
<1>2. CASE Fetched(t)
      BY <1>0, <1>2, Goes, FreeType DEF Fetched, JobPlaces, TaskRecords, TaskOK, Advances, Free
<1>3. CASE StartBuild(t)
      BY <1>0, <1>3, Enters DEF StartBuild, JobPlaces, Kinds, Advances, Starts, Free
<1>4. CASE Target(t)
      BY <1>0, <1>4, GoesWith DEF Target, JobPlaces, TaskOK, TaskRecords, DataOK, Advances, Null
<1>5. CASE Build(t)
      BY <1>0, <1>5, Goes, Ends DEF Build, JobPlaces, TaskOK, TaskRecords, Advances, Finishes, Free
<1>6. CASE Detect(t)
      BY <1>0, <1>6, Goes DEF Detect, JobPlaces, TaskOK, TaskRecords, Advances
<1>7. CASE BuiltEverywhere(t)
  <2>1. CASE flag["smoke"]
        BY <1>0, <1>7, <2>1, Ends DEF BuiltEverywhere, Finishes, Free
  <2>2. CASE ~flag["smoke"]
    <3>1. /\ task' = [task EXCEPT ![t] = [kind |-> "smoke", at |-> "probe", held |-> 0]]
          /\ flag' = [flag EXCEPT !["image"] = FALSE, !["smoke"] = TRUE] /\ task[t].at = "remote"
          BY <1>7, <2>2 DEF BuiltEverywhere
    <3>2. [kind |-> "smoke", at |-> "probe", held |-> 0] \in TaskRecords
          BY DEF TaskRecords, JobPlaces, Kinds
    <3>3. TaskOK'
          BY <1>0, <3>1, <3>2 DEF TaskOK
    <3>4. task'[t].at = "probe" /\ task'[t].kind = "smoke"
          BY <1>0, <3>1
    <3> QED BY <1>0, <2>2, <3>1, <3>3, <3>4 DEF GoesOver
  <2> QED BY <2>1, <2>2
<1>8. CASE StartScan(t)
      BY <1>0, <1>8, Enters DEF StartScan, JobPlaces, Kinds, Advances, Starts, Free
<1>9. CASE ListTargets(t)
      BY <1>0, <1>9, GoesWith, Ends DEF ListTargets, JobPlaces, TaskOK, TaskRecords, DataOK, Advances,
         Finishes, Free
<1>10. CASE Trivy(t)
      BY <1>0, <1>10, Ends DEF Trivy, Finishes, Free
<1>11. CASE StartSmoke(t)
      BY <1>0, <1>11, Enters DEF StartSmoke, JobPlaces, Kinds, Advances, Starts, Free
<1>12. CASE Probe(t)
      BY <1>0, <1>12, Goes DEF Probe, JobPlaces, TaskOK, TaskRecords, Advances
<1>13. CASE CleanUp(t)
      BY <1>0, <1>13, Ends DEF CleanUp, Finishes, Free
<1> QED
      BY <1>1, <1>2, <1>3, <1>4, <1>5, <1>6, <1>7, <1>8, <1>9, <1>10, <1>11, <1>12, <1>13
      DEF ImageStep, OtherStep

\* Such a step keeps one task to a kind, and the flag of each kind.
LEMMA ShapeKeepsOneEach ==
  ASSUME TaskOK, OneEach, NEW t \in Tasks, Shape(t), \A u \in Tasks : u # t => task'[u] = task[u]
  PROVE  OneEach'
<1>1. /\ flag \in [Kinds -> BOOLEAN]
      /\ \A u \in Tasks : task[u].kind \in Kinds /\ task'[u].kind \in Kinds
      BY DEF TaskOK, TaskRecords, Shape
<1>2. \A u \in Tasks : u # t => (Working(u) <=> Working(u)')
      BY DEF Working
<1>3. CASE Advances(t)
      BY <1>1, <1>2, <1>3 DEF Advances, OneEach
<1>4. CASE Starts(t)
      BY <1>1, <1>2, <1>4 DEF Starts, OneEach
<1>5. CASE Finishes(t)
      BY <1>1, <1>2, <1>5 DEF Finishes, OneEach
<1>6. CASE GoesOver(t)
      BY <1>1, <1>2, <1>6 DEF GoesOver, OneEach, Kinds
<1> QED BY <1>3, <1>4, <1>5, <1>6 DEF Shape

LEMMA JobInvInit == JobInit => KindOK /\ OneEach
  BY DEF JobInit, KindOK, OneEach, Working, Waiting, Free, Kinds

LEMMA JobStep ==
  Typed /\ KindOK /\ OneEach /\ [JobNext]_jobVars => TaskOK' /\ HeldOK' /\ KindOK' /\ OneEach'
<1> SUFFICES ASSUME Typed, KindOK, OneEach, [JobNext]_jobVars
             PROVE  TaskOK' /\ HeldOK' /\ KindOK' /\ OneEach'
    OBVIOUS
<1> USE DEF Typed
<1>1. CASE UNCHANGED <<task, flag>>
      BY <1>1 DEF TaskOK, HeldOK, KindOK, OneEach, Working
<1>2. CASE Restart
      BY <1>2, FreeType DEF Restart, TaskOK, HeldOK, KindOK, OneEach, Working, Waiting, Free, Kinds
<1>3. ASSUME NEW t \in Tasks,
             AskForImage(t) \/ ImageStep(t) \/ OtherStep(t) \/ StartScan(t) \/ StartSmoke(t)
      PROVE  TaskOK' /\ HeldOK' /\ KindOK' /\ OneEach'
  <2>1. Shape(t) /\ \A u \in Tasks : u # t => task'[u] = task[u]
        BY <1>3, StepShape, OthersStay
  <2>2. OneEach'
        BY <2>1, ShapeKeepsOneEach
  <2>3. HeldOK' /\ KindOK'
        BY <2>1 DEF HeldOK, KindOK, Shape, KindOf, HeldBy
  <2> QED BY <2>1, <2>2, <2>3 DEF Shape
<1> QED
      BY <1>1, <1>2, <1>3 DEF JobNext, jobVars, Publish, WorkspaceChanges

LEMMA JobInvCorrect == JobSpec => [](Typed /\ KindOK /\ OneEach)
<1>1. JobInit => Typed /\ KindOK /\ OneEach
      BY JobTypeInit, JobInvInit
<1>2. Typed /\ KindOK /\ OneEach /\ [JobNext]_jobVars => (Typed /\ KindOK /\ OneEach)'
  <2>1. TaskOK' /\ DataOK' /\ HeldOK' => Typed'
        BY DEF Typed
  <2> QED BY <2>1, DataStep, JobStep
<1> QED BY <1>1, <1>2, PTL DEF JobSpec

-----------------------------------------------------------------------------
(* The theorems.                                                           *)

\* Every variable of the jobs keeps to its type.
THEOREM JobTypeCorrect == JobSpec => []JobTypeOK
<1>1. Typed => JobTypeOK
      BY JobTypeParts DEF Typed
<1> QED BY <1>1, JobInvCorrect, PTL

\* At most one rebuild, one scan and one smoke test is under way, and the flag of
\* a kind is up exactly while one is, through failures and crashes.
THEOREM OneJobCorrect == JobSpec => []OneJob
<1>1. ASSUME Typed, OneEach, NEW kind \in Kinds
      PROVE  Cardinality(Running(kind)) =< 1 /\ (flag[kind] <=> Running(kind) # {})
  <2>1. Running(kind) = {t \in Tasks : task[t].kind = kind /\ Working(t)}
        BY DEF Running, Working, Waiting
  <2>2. flag[kind] <=> Running(kind) # {}
        BY <1>1, <2>1 DEF OneEach
  <2>3. CASE Running(kind) = {}
        BY <2>2, <2>3, FS_EmptySet
  <2>4. CASE Running(kind) # {}
    <3>1. PICK t : t \in Running(kind)
          BY <2>4
    <3>2. Running(kind) = {t}
          BY <1>1, <2>1, <3>1 DEF OneEach
    <3> QED BY <2>2, <3>2, FS_Singleton
  <2> QED BY <2>3, <2>4
<1>2. Typed /\ OneEach => OneJob
      BY <1>1 DEF OneJob
<1> QED BY <1>2, JobInvCorrect, PTL

-----------------------------------------------------------------------------
(***************************************************************************)
(* The watchers.                                                           *)
(***************************************************************************)

FollowOK ==
  /\ sidecar \in BOOLEAN /\ acl \in {"current", "stale", "missing"}
  /\ follow \in {"idle", "inspect", "logs"} /\ stream \in BOOLEAN /\ retry \in BOOLEAN
CheckOK ==
  /\ check \in [Checks -> [at : {"off", "list", "proxy"}, found : SUBSET Problems]]
  /\ report \in SUBSET Problems /\ hiccups \in Nat

\* The watcher never gives up on the log: it follows it, is about to, or has a
\* retry set.
StillFollows == stream \/ retry \/ follow # "idle"

LEMMA WatchTypeParts == WatchTypeOK <=> FollowOK /\ CheckOK
  BY DEF WatchTypeOK, FollowOK, CheckOK

LEMMA WatchInvInit == WatchInit => FollowOK /\ CheckOK /\ StillFollows
<1> SUFFICES ASSUME WatchInit PROVE FollowOK /\ CheckOK /\ StillFollows
    OBVIOUS
<1>1. CheckOK
      BY MaxHiccupsAssumption DEF WatchInit, CheckOK, Problems
<1> QED BY <1>1 DEF WatchInit, FollowOK, StillFollows

\* The log is followed whatever the proxy does, and looking at the ACLs and the
\* proxy does not touch it.
LEMMA FollowKept ==
  FollowOK /\ StillFollows /\ [WatchNext]_watchVars => FollowOK' /\ StillFollows'
<1> SUFFICES ASSUME FollowOK, StillFollows, [WatchNext]_watchVars PROVE FollowOK' /\ StillFollows'
    OBVIOUS
<1> USE DEF FollowOK, StillFollows, ScheduleRetry
<1>1. CASE InspectProxy
      BY <1>1 DEF InspectProxy
<1>2. CASE Attach
      BY <1>2 DEF Attach
<1>3. CASE StreamEnds \/ StreamBreaks
      BY <1>3 DEF StreamEnds, StreamBreaks, StreamOver
<1>4. CASE RetryFollow
      BY <1>4 DEF RetryFollow
<1>5. ASSUME NEW c \in Checks, CheckStep(c)
      PROVE  FollowOK' /\ StillFollows'
      BY <1>5 DEF CheckStep, BeginCheck, CheckInstances, EndCheck
<1>6. CASE SidecarChanges \/ AclChanges
      BY <1>6 DEF SidecarChanges, AclChanges
<1>7. CASE UNCHANGED watchVars
      BY <1>7 DEF watchVars
<1> QED BY <1>1, <1>2, <1>3, <1>4, <1>5, <1>6, <1>7 DEF WatchNext, FollowStep

\* The checks report known problems.
LEMMA ChecksKept == FollowOK /\ CheckOK /\ [WatchNext]_watchVars => CheckOK'
<1> SUFFICES ASSUME FollowOK, CheckOK, [WatchNext]_watchVars PROVE CheckOK'
    OBVIOUS
<1> USE DEF CheckOK
<1>0. AclProblems \in SUBSET Problems /\ {"docker"} \in SUBSET Problems
      /\ {"sidecar"} \in SUBSET Problems
      BY DEF AclProblems, Problems, FollowOK
<1>1. hiccups' = hiccups \/ (hiccups > 0 /\ hiccups' = hiccups - 1)
      BY DEF WatchNext, FollowStep, InspectProxy, Attach, StreamEnds, StreamBreaks, RetryFollow,
         CheckStep, BeginCheck, CheckInstances, EndCheck, SidecarChanges, AclChanges, Hiccup, watchVars
<1>2. hiccups' \in Nat
      BY <1>1
<1>3. ASSUME NEW c \in Checks, BeginCheck(c)
      PROVE  CheckOK'
      BY <1>2, <1>3 DEF BeginCheck
<1>4. ASSUME NEW c \in Checks, CheckInstances(c)
      PROVE  CheckOK'
      BY <1>0, <1>2, <1>4 DEF CheckInstances
<1>5. ASSUME NEW c \in Checks, EndCheck(c)
      PROVE  CheckOK'
  <2>1. check[c].found \in SUBSET Problems
        OBVIOUS
  <2>2. report' \in SUBSET Problems
        BY <2>1, <1>0, <1>5 DEF EndCheck
  <2>3. check' = [check EXCEPT ![c] = [at |-> "off", found |-> {}]]
        BY <1>5 DEF EndCheck
  <2> QED BY <2>2, <2>3, <1>2
<1>6. CASE UNCHANGED <<check, report>>
      BY <1>2, <1>6
<1> QED BY <1>3, <1>4, <1>5, <1>6 DEF WatchNext, FollowStep, InspectProxy, Attach, StreamEnds,
        StreamBreaks, StreamOver, RetryFollow, CheckStep, SidecarChanges, AclChanges, watchVars

LEMMA WatchInvCorrect == WatchersSpec => [](FollowOK /\ CheckOK /\ StillFollows)
  BY WatchInvInit, FollowKept, ChecksKept, PTL DEF WatchersSpec

\* Every variable of the watchers keeps to its type.
THEOREM WatchTypeCorrect == WatchersSpec => []WatchTypeOK
  BY WatchInvCorrect, WatchTypeParts, PTL

\* However the proxy comes and goes and whatever call fails, the watcher of its
\* log never goes to sleep for good: the part of TroubleShows that is no question
\* of fairness (proxy-log.js, follow and scheduleRetry).
THEOREM NeverGivesUp == WatchersSpec => []StillFollows
  BY WatchInvCorrect, PTL

-----------------------------------------------------------------------------
(***************************************************************************)
(* The registry of hosts, and the reconciliation at startup.               *)
(***************************************************************************)

\* The type invariant in parts.
HostOK ==
  /\ host \in [Hosts -> {"absent", "enabled", "disabled"}]
  /\ points \in [Hosts -> Daemons] /\ engine \in [Hosts -> Daemons \cup {None}]
  /\ down \in SUBSET Daemons /\ changes \in Nat
InstOK ==
  /\ on \in [Insts -> Daemons \cup {None}]
  /\ row \in [Insts -> Hosts \cup {None}] /\ tied \in [Insts -> BOOLEAN]
  /\ creating \in [Insts -> Hosts \cup {None}]
BootOK ==
  /\ boot \in {"serving", "ping", "list"} /\ todo \in SUBSET Hosts
  /\ DOMAIN answer \in SUBSET Hosts /\ \A h \in DOMAIN answer : answer[h] \in SUBSET Insts

\* A start asks enabled hosts only, and none is edited while it does.
AskedEnabled == ~Serving => \A h \in todo \cup DOMAIN answer : host[h] = "enabled"

LEMMA FleetTypeParts == FleetTypeOK <=> HostOK /\ InstOK /\ BootOK
  BY DEF FleetTypeOK, HostOK, InstOK, BootOK

LEMMA FleetTypeInit == FleetInit => HostOK /\ InstOK /\ BootOK
<1> SUFFICES ASSUME FleetInit PROVE HostOK /\ InstOK /\ BootOK
    OBVIOUS
<1>1. HostOK
      BY MaxChangesAssumption DEF FleetInit, HostOK
<1>2. InstOK
      BY DEF FleetInit, InstOK
<1>3. BootOK
      BY DEF FleetInit, BootOK
<1> QED BY <1>1, <1>2, <1>3

LEMMA PingedType == ASSUME HostOK, NEW h \in Hosts, NEW d \in Daemons, Pinged(h, d)
                    PROVE  engine' \in [Hosts -> Daemons \cup {None}]
  BY DEF HostOK, Pinged

LEMMA HostStep == HostOK /\ [FleetNext]_fleetVars => HostOK'
<1> SUFFICES ASSUME HostOK, [FleetNext]_fleetVars PROVE HostOK'
    OBVIOUS
<1>1. CASE UNCHANGED <<hostVars, down>> /\ changes' \in Nat
      BY <1>1 DEF HostOK, hostVars
<1>2. ASSUME NEW h \in Hosts, DeleteHost(h) \/ Ping(h) \/ PingAll(h) \/ ListHost(h) PROVE HostOK'
  <2>1. CASE DeleteHost(h)
        BY <2>1, LocalAssumption DEF DeleteHost, HostOK
  <2>2. CASE Ping(h) \/ PingAll(h)
        BY <2>2, PingedType DEF Ping, PingAll, HostOK
  <2>3. CASE ListHost(h)
        BY <2>3 DEF ListHost, HostOK, hostVars
  <2> QED BY <1>2, <2>1, <2>2, <2>3
<1>3. ASSUME NEW h \in Hosts, NEW d \in Daemons, RegisterHost(h, d) PROVE HostOK'
      BY <1>3, PingedType DEF RegisterHost, HostOK
<1>4. ASSUME NEW h \in Hosts, NEW d \in Daemons, NEW as \in {"enabled", "disabled"},
             EditHost(h, d, as)
      PROVE  HostOK'
  <2>1. changes' \in Nat
        BY <1>4 DEF EditHost, HostOK, Change
  <2>2. /\ host' \in [Hosts -> {"absent", "enabled", "disabled"}]
        /\ points' \in [Hosts -> Daemons]
        BY <1>4 DEF EditHost, HostOK
  <2>3. UNCHANGED <<engine, down>>
        BY <1>4 DEF EditHost
  <2> QED BY <2>1, <2>2, <2>3 DEF HostOK
<1>5. ASSUME NEW d \in Daemons, Outage(d) PROVE HostOK'
      BY <1>5 DEF Outage, HostOK, Change, hostVars
<1>6. ASSUME NEW i \in Insts, CreateEnds(i) \/ RecreateInstance(i) \/ RemoveInstance(i) PROVE HostOK'
      BY <1>6 DEF CreateEnds, RecreateInstance, RemoveInstance, HostOK, hostVars
<1>7. ASSUME NEW i \in Insts, RemovedByHand(i) PROVE HostOK'
      BY <1>7 DEF RemovedByHand, Change, HostOK, hostVars
<1>8. ASSUME NEW i \in Insts, NEW h \in Hosts, CreateBegins(i, h) PROVE HostOK'
      BY <1>8 DEF CreateBegins, HostOK, hostVars
<1>9. CASE StartUp \/ EnsureNetwork \/ SyncWithDocker \/ UNCHANGED fleetVars
      BY <1>9 DEF StartUp, EnsureNetwork, SyncWithDocker, fleetVars, hostVars, Change, HostOK
<1> QED BY <1>2, <1>3, <1>4, <1>5, <1>6, <1>7, <1>8, <1>9 DEF FleetNext

LEMMA InstStep == HostOK /\ InstOK /\ BootOK /\ [FleetNext]_fleetVars => InstOK'
<1> SUFFICES ASSUME HostOK, InstOK, BootOK, [FleetNext]_fleetVars PROVE InstOK'
    OBVIOUS
<1>1. ASSUME UNCHANGED <<on, row, tied, creating>> PROVE InstOK'
      BY <1>1 DEF InstOK
<1>2. ASSUME NEW h \in Hosts, DeleteHost(h) \/ Ping(h) \/ PingAll(h) \/ ListHost(h) PROVE InstOK'
      BY <1>1, <1>2 DEF DeleteHost, Ping, PingAll, ListHost
<1>3. ASSUME NEW h \in Hosts, NEW d \in Daemons, RegisterHost(h, d) PROVE InstOK'
      BY <1>1, <1>3 DEF RegisterHost
<1>4. ASSUME NEW h \in Hosts, NEW d \in Daemons, NEW as \in {"enabled", "disabled"},
             EditHost(h, d, as)
      PROVE  InstOK'
      BY <1>1, <1>4 DEF EditHost
<1>5. ASSUME NEW d \in Daemons, Outage(d) PROVE InstOK'
      BY <1>1, <1>5 DEF Outage
<1>6. ASSUME NEW i \in Insts, CreateEnds(i) \/ RecreateInstance(i) \/ RemoveInstance(i) PROVE InstOK'
      BY <1>6 DEF CreateEnds, RecreateInstance, RemoveInstance, InstOK
<1>7. ASSUME NEW i \in Insts, RemovedByHand(i) PROVE InstOK'
      BY <1>7 DEF RemovedByHand, InstOK
<1>8. ASSUME NEW i \in Insts, NEW h \in Hosts, CreateBegins(i, h) PROVE InstOK'
      BY <1>8 DEF CreateBegins, InstOK, HostOK
<1>9. CASE StartUp
      BY <1>9 DEF StartUp, InstOK
<1>10. CASE EnsureNetwork \/ UNCHANGED fleetVars
      BY <1>1, <1>10 DEF EnsureNetwork, fleetVars
<1>11. CASE SyncWithDocker
  <2>1. PICK first \in [Reported -> DOMAIN answer] :
          row' = [i \in Insts |-> IF i \in Reported /\ row[i] = None THEN first[i]
                                  ELSE IF i \in Orphans THEN None ELSE row[i]]
        BY <1>11 DEF SyncWithDocker
  <2>2. row' \in [Insts -> Hosts \cup {None}]
        BY <2>1 DEF InstOK, BootOK
  <2> QED BY <1>11, <2>2 DEF SyncWithDocker, InstOK
<1> QED
      BY <1>2, <1>3, <1>4, <1>5, <1>6, <1>7, <1>8, <1>9, <1>10, <1>11 DEF FleetNext

LEMMA BootStep ==
  HostOK /\ BootOK /\ AskedEnabled /\ [FleetNext]_fleetVars => BootOK' /\ AskedEnabled'
<1> SUFFICES ASSUME HostOK, BootOK, AskedEnabled, [FleetNext]_fleetVars
             PROVE  BootOK' /\ AskedEnabled'
    OBVIOUS
<1> USE DEF AskedEnabled, Serving
<1>1. ASSUME UNCHANGED bootVars, Serving \/ UNCHANGED host PROVE BootOK' /\ AskedEnabled'
      BY <1>1 DEF BootOK, bootVars
<1>2. ASSUME NEW h \in Hosts, DeleteHost(h) \/ Ping(h) PROVE UNCHANGED bootVars /\ Serving
      BY <1>2 DEF DeleteHost, Ping
<1>3. ASSUME NEW h \in Hosts, NEW d \in Daemons, RegisterHost(h, d) PROVE UNCHANGED bootVars /\ Serving
      BY <1>3 DEF RegisterHost
<1>4. ASSUME NEW h \in Hosts, NEW d \in Daemons, NEW as \in {"enabled", "disabled"},
             EditHost(h, d, as)
      PROVE  UNCHANGED bootVars /\ Serving
      BY <1>4 DEF EditHost
<1>5. ASSUME NEW d \in Daemons, Outage(d) PROVE UNCHANGED <<bootVars, host>>
      BY <1>5 DEF Outage, hostVars
<1>6. ASSUME NEW i \in Insts,
             CreateEnds(i) \/ RecreateInstance(i) \/ RemoveInstance(i) \/ RemovedByHand(i)
      PROVE  UNCHANGED <<bootVars, host>>
      BY <1>6 DEF CreateEnds, RecreateInstance, RemoveInstance, RemovedByHand, hostVars
<1>7. ASSUME NEW i \in Insts, NEW h \in Hosts, CreateBegins(i, h) PROVE UNCHANGED <<bootVars, host>>
      BY <1>7 DEF CreateBegins, hostVars
<1>8. ASSUME NEW h \in Hosts, PingAll(h) PROVE BootOK' /\ AskedEnabled'
      BY <1>8 DEF PingAll, BootOK
<1>9. ASSUME NEW h \in Hosts, ListHost(h) PROVE BootOK' /\ AskedEnabled'
  <2>1. \/ answer' = answer
        \/ /\ DOMAIN answer' = DOMAIN answer \cup {h} /\ host[h] = "enabled"
           /\ \A g \in DOMAIN answer' : answer'[g] \in SUBSET Insts
        BY <1>9 DEF ListHost, BootOK, Reachable
  <2> QED BY <1>9, <2>1 DEF ListHost, BootOK, hostVars
<1>10. CASE StartUp \/ EnsureNetwork
      BY <1>10 DEF StartUp, EnsureNetwork, BootOK, Enabled, hostVars, HostOK
<1>11. CASE SyncWithDocker
      BY <1>11 DEF SyncWithDocker, BootOK, hostVars
<1>12. CASE UNCHANGED fleetVars
      BY <1>1, <1>12 DEF fleetVars, bootVars
<1> QED
      BY <1>1, <1>2, <1>3, <1>4, <1>5, <1>6, <1>7, <1>8, <1>9, <1>10, <1>11, <1>12 DEF FleetNext

LEMMA FleetInvCorrect == FleetSpec => [](HostOK /\ InstOK /\ BootOK /\ AskedEnabled)
<1>1. FleetInit => HostOK /\ InstOK /\ BootOK /\ AskedEnabled
      BY FleetTypeInit DEF FleetInit, AskedEnabled, Serving
<1>2. HostOK /\ InstOK /\ BootOK /\ AskedEnabled /\ [FleetNext]_fleetVars
        => (HostOK /\ InstOK /\ BootOK /\ AskedEnabled)'
      BY HostStep, InstStep, BootStep
<1> QED BY <1>1, <1>2, PTL DEF FleetSpec

-----------------------------------------------------------------------------
\* Every variable of the registry keeps to its type.
THEOREM FleetTypeCorrect == FleetSpec => []FleetTypeOK
  BY FleetInvCorrect, FleetTypeParts, PTL

\* While a start lists containers only the reconciliation itself takes a row away,
\* and it takes one only if its host is enabled, answered, reported some other
\* instance, and nobody reported this one (syncWithDocker).
THEOREM ReapedOnEvidenceCorrect == FleetSpec => ReapedOnEvidence
<1>1. ASSUME HostOK, InstOK, BootOK, AskedEnabled, [FleetNext]_fleetVars, NEW i \in Insts,
             boot = "list", row[i] # None, row'[i] = None
      PROVE  /\ row[i] \in DOMAIN answer /\ host[row[i]] = "enabled"
             /\ \E j \in answer[row[i]] : j # i
             /\ \A h \in DOMAIN answer : i \notin answer[h]
  <2>1. SyncWithDocker
    <3>1. ~UNCHANGED row
          BY <1>1
    <3>2. ~Serving
          BY <1>1 DEF Serving
    <3> QED
          BY <1>1, <3>1, <3>2 DEF FleetNext, fleetVars, DeleteHost, Ping, PingAll, ListHost, RegisterHost,
             EditHost, CreateEnds, RecreateInstance, RemoveInstance, RemovedByHand, CreateBegins,
             Outage, StartUp, EnsureNetwork
  <2>2. i \in Orphans
    <3>1. PICK first \in [Reported -> DOMAIN answer] :
            row' = [k \in Insts |-> IF k \in Reported /\ row[k] = None THEN first[k]
                                    ELSE IF k \in Orphans THEN None ELSE row[k]]
          BY <2>1 DEF SyncWithDocker
    <3> QED BY <1>1, <3>1
  <2>3. row[i] \in DOMAIN answer /\ answer[row[i]] # {} /\ \A h \in DOMAIN answer : i \notin answer[h]
        BY <2>2 DEF Orphans, Scope, Reported
  <2>4. \E j \in answer[row[i]] : j # i
        BY <2>3
  <2> QED BY <1>1, <2>3, <2>4 DEF AskedEnabled, Serving
<1>2. HostOK /\ InstOK /\ BootOK /\ AskedEnabled /\ [FleetNext]_fleetVars =>
        [\A i \in Insts : (boot = "list" /\ row[i] # None /\ row'[i] = None) =>
           /\ row[i] \in DOMAIN answer /\ host[row[i]] = "enabled"
           /\ \E j \in answer[row[i]] : j # i
           /\ \A h \in DOMAIN answer : i \notin answer[h]]_fleetVars
      BY <1>1
<1> QED BY <1>2, FleetInvCorrect, PTL DEF FleetSpec, ReapedOnEvidence

-----------------------------------------------------------------------------
(***************************************************************************)
(* The attribution of denials.                                             *)
(***************************************************************************)

\* No list is older than it can be, and its age bounds how long ago whoever it
\* names had the address.
NamedInTime ==
  /\ holder \in Users => ago[holder] = 0
  /\ ipCache.who \in Users => ago[ipCache.who] <= ipCache.age + Latency
  /\ \A l \in Lines : line[l].list \in Users => ago[line[l].list] <= line[l].age

DenialInv == DenialTypeOK /\ NamedInTime /\ RecentHolder

LEMMA ConcludeRecent ==
  ASSUME DenialTypeOK, RecentHolder, NEW for, NEW who,
         who \in Users => ago[who] <= Ttl + Latency, Conclude(for, who)
  PROVE  lag' \in 0..Horizon /\ RecentHolder'
<1>1. \/ lag' = lag
      \/ who \in Users /\ lag' = ago[who]
      BY DEF Conclude, HandleLine, CallerIsInstance
<1> QED BY <1>1, TimesAssumption DEF DenialTypeOK, RecentHolder, Horizon

LEMMA DenialInvInit == DenialInit => DenialInv
  BY TimesAssumption, NobodyAssumption
     DEF DenialInit, DenialInv, DenialTypeOK, NamedInTime, RecentHolder, Quiet, Who, Horizon

LEMMA ArriveKeeps ==
  ASSUME DenialInv, NEW l \in Lines, NEW for \in {"denied", "callback"}, Arrive(l, for)
  PROVE  DenialInv'
<1> USE TimesAssumption, NobodyAssumption DEF DenialInv
<1>1. CASE ListExpired
      BY <1>1 DEF Arrive, DenialTypeOK, NamedInTime, RecentHolder, Quiet, Who
<1>2. CASE ~ListExpired
  <2>1. lag' \in 0..Horizon /\ RecentHolder'
    <3>1. ipCache.who \in Users => ago[ipCache.who] <= Ttl + Latency
          BY <1>2 DEF ListExpired, NamedInTime, DenialTypeOK, Horizon
    <3> QED BY <1>2, <3>1, ConcludeRecent DEF Arrive
  <2> QED BY <1>2, <2>1 DEF Arrive, DenialTypeOK, NamedInTime
<1> QED BY <1>1, <1>2

LEMMA AnswerKeeps ==
  ASSUME DenialInv, NEW l \in Lines, Answer(l)
  PROVE  DenialInv'
  BY TimesAssumption, NobodyAssumption
     DEF DenialInv, Answer, DenialTypeOK, NamedInTime, RecentHolder, Who, Horizon

LEMMA InstanceForIpKeeps ==
  ASSUME DenialInv, NEW l \in Lines, InstanceForIp(l)
  PROVE  DenialInv'
<1> USE TimesAssumption, NobodyAssumption DEF DenialInv
<1>1. line[l].list \in Users => ago[line[l].list] <= Latency
      BY DEF NamedInTime, DenialTypeOK, Horizon
<1>2. lag' \in 0..Horizon /\ RecentHolder'
      BY <1>1, ConcludeRecent DEF InstanceForIp, DenialTypeOK, Horizon
<1>3. line[l].list \in Who
      BY DEF InstanceForIp, DenialTypeOK
<1>4. ipCache' = [age |-> 0, who |-> line[l].list] /\ line' = [line EXCEPT ![l] = Quiet]
      BY DEF InstanceForIp
<1>5. DenialTypeOK'
      BY <1>2, <1>3, <1>4 DEF InstanceForIp, DenialTypeOK, Quiet, Horizon
<1>6. NamedInTime'
      BY <1>1, <1>4 DEF InstanceForIp, DenialTypeOK, NamedInTime, Quiet, Who
<1> QED BY <1>2, <1>5, <1>6

LEMMA LookupFailsKeeps ==
  ASSUME DenialInv, NEW l \in Lines, LookupFails(l)
  PROVE  DenialInv'
<1> USE TimesAssumption, NobodyAssumption DEF DenialInv
<1> DEFINE again == line[l].for = "denied" /\ line[l].try = 1
<1>1. CASE again /\ ListExpired
  <2> DEFINE second == [for |-> "denied", try |-> 2, age |-> 0, list |-> Unasked]
  <2>1. line' = [line EXCEPT ![l] = second]
        BY <1>1 DEF LookupFails, Quiet
  <2>2. UNCHANGED <<holder, ago, ipCache, lag>>
        BY <1>1 DEF LookupFails
  <2> QED BY <2>1, <2>2 DEF DenialTypeOK, NamedInTime, RecentHolder, Who
<1>2. CASE ~(again /\ ListExpired)
  <2>1. lag' \in 0..Horizon /\ RecentHolder'
    <3>1. again => (ipCache.who \in Users => ago[ipCache.who] <= Ttl + Latency)
          BY <1>2 DEF ListExpired, NamedInTime, DenialTypeOK, Horizon
    <3>2. Conclude(line[l].for, IF again THEN ipCache.who ELSE Nobody)
          BY <1>2 DEF LookupFails
    <3> QED BY <3>1, <3>2, ConcludeRecent
  <2> QED BY <1>2, <2>1 DEF LookupFails, DenialTypeOK, NamedInTime, Quiet, Who
<1> QED BY <1>1, <1>2

LEMMA AddressMovesKeeps ==
  ASSUME DenialInv, NEW who \in Who, AddressMoves(who)
  PROVE  DenialInv'
  BY TimesAssumption, NobodyAssumption
     DEF DenialInv, AddressMoves, DenialTypeOK, NamedInTime, RecentHolder, Who, Horizon

LEMMA ListsAgeKeeps ==
  ASSUME DenialInv, ListsAge
  PROVE  DenialInv'
<1> USE TimesAssumption, NobodyAssumption DEF DenialInv, Horizon
<1>1. \A age \in 0..Horizon : Aged(age) \in 0..Horizon
      BY DEF Aged
<1>2. ago' \in [Users -> 0..Horizon]
      BY <1>1 DEF ListsAge, DenialTypeOK
<1>3. ipCache' = [age |-> Aged(ipCache.age), who |-> ipCache.who]
      BY DEF ListsAge, DenialTypeOK
<1>4. ago' \in [Users -> 0..Horizon] /\ ipCache' \in [age : 0..Horizon, who : Who] /\ ipCache'.who = ipCache.who
      BY <1>1, <1>2, <1>3 DEF DenialTypeOK
<1>5. \A u \in Users : ago'[u] = 0 \/ ago'[u] <= ago[u] + 1
      BY DEF ListsAge, DenialTypeOK, Aged
<1>6. \A l \in Lines : line'[l].list \in Users => line'[l].list = line[l].list /\ line'[l].age = line[l].age + 1
      BY DEF ListsAge, DenialTypeOK, Quiet
<1>7. line' \in [Lines -> [for : {"none", "denied", "callback"}, try : 1..2,
                         age : 0..Latency, list : Who \cup {Unasked}]]
      BY DEF ListsAge, DenialTypeOK, Quiet
<1>8. ipCache'.age = Horizon \/ ipCache'.age = ipCache.age + 1
      BY DEF ListsAge, DenialTypeOK, Aged
<1>9. NamedInTime'
  <2>1. holder' \in Users => ago'[holder'] = 0
        BY DEF ListsAge
  <2>2. ipCache'.who \in Users => ago'[ipCache'.who] <= ipCache'.age + Latency
        BY <1>4, <1>5, <1>8 DEF NamedInTime, DenialTypeOK
  <2>3. ASSUME NEW l \in Lines, line'[l].list \in Users
        PROVE  ago'[line'[l].list] <= line'[l].age
        BY <1>4, <1>5, <1>6, <1>7, <2>3 DEF NamedInTime, DenialTypeOK
  <2> QED BY <2>1, <2>2, <2>3 DEF NamedInTime
<1> QED BY <1>4, <1>7, <1>9 DEF ListsAge, DenialTypeOK, RecentHolder

LEMMA DenialInvStep == DenialInv /\ [DenialNext]_denialVars => DenialInv'
<1> SUFFICES ASSUME DenialInv, [DenialNext]_denialVars PROVE DenialInv'
    OBVIOUS
<1>1. CASE UNCHANGED denialVars
      BY <1>1 DEF denialVars, DenialInv, DenialTypeOK, NamedInTime, RecentHolder
<1> QED BY <1>1, ArriveKeeps, AnswerKeeps, InstanceForIpKeeps, LookupFailsKeeps,
           AddressMovesKeeps, ListsAgeKeeps DEF DenialNext

LEMMA DenialInvCorrect == DenialSpec => []DenialInv
  BY DenialInvInit, DenialInvStep, PTL DEF DenialSpec

\* Every variable of the attribution keeps to its type.
THEOREM DenialTypeCorrect == DenialSpec => []DenialTypeOK
<1>1. DenialInv => DenialTypeOK
      BY DEF DenialInv
<1> QED BY <1>1, DenialInvCorrect, PTL

\* Whoever is blamed for a denial, or believed for its address, had the address
\* within the time a list is kept and one may take, for any number of instances
\* and lines, and any such times.
THEOREM RecentHolderCorrect == DenialSpec => []RecentHolder
<1>1. DenialInv => RecentHolder
      BY DEF DenialInv
<1> QED BY <1>1, DenialInvCorrect, PTL

-----------------------------------------------------------------------------
(***************************************************************************)
(* All of them together.                                                   *)
(***************************************************************************)

\* A behaviour of the whole is one of each part, in which the other parts' steps
\* are stutters.
LEMMA WholeHasParts ==
  FairSpec => /\ IdleSpec /\ GrantSpec /\ JobSpec
              /\ WatchersSpec /\ DenialSpec /\ FleetSpec /\ AclSpec
<1>1. Init => IdleInit /\ GrantInit /\ JobInit /\ WatchInit /\ DenialInit /\ FleetInit
              /\ AclInit
      BY DEF Init
<1>2. [Next]_vars => [IdleNext]_idleVars
      BY DEF Next, vars
<1>3. [Next]_vars => [GrantNext]_grantVars
      BY DEF Next, vars
<1>4. [Next]_vars => [JobNext]_jobVars
      BY DEF Next, vars
<1>5. [Next]_vars => [WatchNext]_watchVars
      BY DEF Next, vars
<1>6. [Next]_vars => [DenialNext]_denialVars
      BY DEF Next, vars
<1>7. [Next]_vars => [FleetNext]_fleetVars
      BY DEF Next, vars
<1>8. [Next]_vars => [AclNext]_aclVars
      BY DEF Next, vars
<1> QED BY <1>1, <1>2, <1>3, <1>4, <1>5, <1>6, <1>7, <1>8, PTL
        DEF FairSpec, IdleSpec, GrantSpec, JobSpec, WatchersSpec, DenialSpec, FleetSpec, AclSpec

\* Type correctness of everything the manager does by itself.
THEOREM BackgroundTypeCorrect == FairSpec => []TypeOK
<1>1. IdleTypeOK /\ GrantTypeOK /\ JobTypeOK /\ WatchTypeOK /\ DenialTypeOK /\ FleetTypeOK
      /\ AclTypeOK => TypeOK
      BY DEF TypeOK
<1> QED BY <1>1, WholeHasParts, IdleTypeCorrect, GrantTypeCorrect, JobTypeCorrect,
           WatchTypeCorrect, DenialTypeCorrect, FleetTypeCorrect, TypeCorrect, PTL

\* The promises of the parts hold in the system that consists of them; that of the
\* ACL files, if the tasks that write them do not overlap.
THEOREM BackgroundSafe ==
  FairSpec => /\ [](AsksOnce /\ StopsOnlyIdle /\ OpenTerminalSpares)
              /\ [](ResolvedOnce /\ OneJob /\ RecentHolder /\ StillFollows)
              /\ SweptOnlyExpired /\ ReapedOnEvidence
              /\ (~Overlap => []AclExact)
<1>1. ~Overlap => (AclSpec => []AclExact)
      BY FilesExact
<1> QED BY <1>1, WholeHasParts, AsksOnceCorrect, StopsOnlyIdleCorrect, OpenTerminalSparesCorrect,
           ResolvedOnceCorrect, OneJobCorrect, RecentHolderCorrect, NeverGivesUp,
           SweptOnlyExpiredCorrect, ReapedOnEvidenceCorrect, PTL
=============================================================================
