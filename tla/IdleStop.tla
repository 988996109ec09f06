------------------------------ MODULE IdleStop ------------------------------
(***************************************************************************)
(* The idle stop of ONE local instance (server/idle-stop.js): a timer      *)
(* looks at the instance, asks Claude to save its memory when the instance *)
(* has been idle for a window, and stops it once Claude has answered or    *)
(* the save timed out.  Around it, at any moment between two awaits of a   *)
(* tick: hook events, terminals, starts and stops by anyone else.          *)
(*                                                                         *)
(* Times are kept as ages, in units that are long against a tick, and age  *)
(* up to the point where they stop to matter (the window, the timeout): no *)
(* unit passes while a tick runs, and what happens during it has age 0.    *)
(***************************************************************************)
EXTENDS Naturals

CONSTANTS Ticks,        \* firings of the timer that could be in progress at once
          IdleWindow,   \* IDLE_STOP_DAYS
          SaveTimeout,  \* IDLE_SAVE_TIMEOUT_MINUTES
          MaxFailures   \* calls to Docker that fail in a behaviour

ASSUME IdleWindowAssumption == IdleWindow \in Nat \ {0}
ASSUME SaveTimeoutAssumption == SaveTimeout \in Nat \ {0}
ASSUME MaxFailuresAssumption == MaxFailures \in Nat

VARIABLES up,         \* the container runs
          sinceStart, \* age of State.StartedAt
          terminal,   \* hasOpenTerminal(id)
          lastStop,   \* usage.last_event = 'Stop'
          sinceEvent, \* age of usage.updated_at
          asked,      \* pending has the instance
          sinceAsk,   \* age of pending's askedAt
          tick,       \* per firing: where it is, and what it has read
          failures,   \* failing calls left
          prompts,    \* history: requests typed since the last end of a pending stop
          askedIdle,  \* history: the instance was idle when the pending tick began
          idle,       \* history: the instance was idle when the running tick began
          watched     \* history: a terminal has been open ever since it began

world == <<up, sinceStart, terminal, lastStop, sinceEvent>>
history == <<prompts, askedIdle, idle, watched>>
idleVars == <<world, asked, sinceAsk, tick, failures, history>>

Older(age, cap) == IF age < cap THEN age + 1 ELSE cap
Resting == [at |-> "off", quiet |-> FALSE, answered |-> FALSE]
InProgress == {t \in Ticks : tick[t].at # "off"}
Places == {"off", "list", "inspect", "pane", "type", "enter", "stop", "stopping"}

IdleTypeOK ==
  /\ up \in BOOLEAN /\ terminal \in BOOLEAN /\ lastStop \in BOOLEAN /\ asked \in BOOLEAN
  /\ sinceStart \in 0 .. IdleWindow /\ sinceEvent \in 0 .. IdleWindow
  /\ sinceAsk \in 0 .. SaveTimeout
  /\ tick \in [Ticks -> [at : Places, quiet : BOOLEAN, answered : BOOLEAN]]
  /\ failures \in Nat /\ prompts \in 0 .. 2
  /\ askedIdle \in BOOLEAN /\ idle \in BOOLEAN /\ watched \in BOOLEAN

IdleInit ==
  /\ up = TRUE /\ sinceStart = 0 /\ terminal = FALSE
  /\ lastStop = FALSE /\ sinceEvent = IdleWindow
  /\ asked = FALSE /\ sinceAsk = 0
  /\ tick = [t \in Ticks |-> Resting]
  /\ failures = MaxFailures
  /\ prompts = 0 /\ askedIdle = FALSE /\ idle = FALSE /\ watched = FALSE

Fails == failures > 0 /\ failures' = failures - 1
Move(t, place) == tick' = [tick EXCEPT ![t] = [Resting EXCEPT !.at = place]]
Forget == asked' = FALSE /\ sinceAsk' = 0 /\ prompts' = 0 /\ askedIdle' = FALSE

-----------------------------------------------------------------------------
(* One tick.                                                               *)

\* tick, runIdleCheck: the usage rows are read before the first await.  A
\* usage row answers the request if its event is a Stop no older than it.
MutOverlap == TRUE
MayTick == InProgress = {}
ReadUsage(t) ==
  /\ tick[t].at = "off"
  /\ MayTick
  /\ tick' = [tick EXCEPT ![t] =
       [at |-> "list", quiet |-> sinceEvent = IdleWindow,
        answered |-> asked /\ lastStop /\ sinceEvent =< sinceAsk]]
  /\ idle' = (sinceEvent = IdleWindow /\ sinceStart = IdleWindow)
  /\ watched' = terminal
  /\ UNCHANGED <<world, asked, sinceAsk, failures, prompts, askedIdle>>

\* listContainers has only running containers; the tick ends by forgetting
\* the requests to those it did not list.  A failing list ends the tick.
List(t) ==
  /\ tick[t].at = "list"
  /\ \/ /\ up
        /\ tick' = [tick EXCEPT ![t].at = "inspect"]
        /\ UNCHANGED <<asked, sinceAsk, failures, prompts, askedIdle>>
     \/ /\ ~up
        /\ Move(t, "off") /\ Forget
        /\ UNCHANGED failures
     \/ /\ Fails
        /\ Move(t, "off")
        /\ UNCHANGED <<asked, sinceAsk, prompts, askedIdle>>
  /\ UNCHANGED <<world, idle, watched>>

\* decide, for an instance no request is pending for: is it worth a look at
\* the pane?
MutOldStart(t) == tick[t].quiet
MutSpareUnasked == terminal /\ ~asked
MutAnswerOnly(t) == tick[t].answered

Lapsed(t) == tick[t].quiet /\ sinceStart = IdleWindow
Spared == terminal
Settled(t) == tick[t].answered \/ sinceAsk = SaveTimeout

\* The inspect of one container and decide, up to the look at the pane.
Decide(t) ==
  /\ tick[t].at = "inspect"
  /\ \/ /\ Spared
        /\ Move(t, "off")
        /\ IF asked THEN Forget ELSE UNCHANGED <<asked, sinceAsk, prompts, askedIdle>>
     \/ /\ ~Spared /\ asked
        /\ Move(t, IF Settled(t) THEN "stop" ELSE "off")
        /\ UNCHANGED <<asked, sinceAsk, prompts, askedIdle>>
     \/ /\ ~Spared /\ ~asked
        /\ Move(t, IF Lapsed(t) THEN "pane" ELSE "off")
        /\ UNCHANGED <<asked, sinceAsk, prompts, askedIdle>>
  /\ UNCHANGED <<world, failures, idle, watched>>

InspectFails(t) ==
  /\ tick[t].at = "inspect" /\ Fails
  /\ Move(t, "off")
  /\ UNCHANGED <<world, asked, sinceAsk, history>>

\* claudeInPane; what decide made of the terminal is not looked at again.
LookAtPane(t) ==
  /\ tick[t].at = "pane"
  /\ \E claude \in BOOLEAN : Move(t, IF claude THEN "type" ELSE "stop")
  /\ UNCHANGED <<world, asked, sinceAsk, failures, history>>

\* askToSave: a pane that is busy, shows a dialog or keeps its draft is left
\* alone; the request is typed; or a call fails, and the stop goes ahead.
AskToSave(t) ==
  /\ tick[t].at = "type"
  /\ \/ Move(t, "off") /\ UNCHANGED <<failures, prompts>>
     \/ up /\ Move(t, "enter") /\ prompts' = (IF prompts < 2 THEN prompts + 1 ELSE 2)
        /\ UNCHANGED failures
     \/ up /\ Fails /\ Move(t, "stop") /\ UNCHANGED prompts
     \/ ~up /\ Move(t, "stop") /\ UNCHANGED <<failures, prompts>>
  /\ UNCHANGED <<world, asked, sinceAsk, askedIdle, idle, watched>>

\* Enter is sent, and the request is on record as of the beginning of the tick;
\* or that call fails, with the request typed, and the stop goes ahead.
Record(t) ==
  /\ tick[t].at = "enter"
  /\ \/ up /\ Move(t, "off") /\ asked' = TRUE /\ sinceAsk' = 0 /\ askedIdle' = idle
        /\ UNCHANGED failures
     \/ up /\ Fails /\ Move(t, "stop") /\ UNCHANGED <<asked, sinceAsk, askedIdle>>
     \/ ~up /\ Move(t, "stop") /\ UNCHANGED <<asked, sinceAsk, askedIdle, failures>>
  /\ UNCHANGED <<world, prompts, idle, watched>>

\* stop: the request is forgotten, then the container is stopped.
StopIdle(t) ==
  /\ tick[t].at = "stop"
  /\ Move(t, "stopping") /\ Forget
  /\ UNCHANGED <<world, failures, idle, watched>>

StopReturns(t) ==
  /\ tick[t].at = "stopping"
  /\ Move(t, "off")
  /\ \/ up' = FALSE /\ UNCHANGED failures
     \/ Fails /\ UNCHANGED up
  /\ UNCHANGED <<sinceStart, terminal, lastStop, sinceEvent, asked, sinceAsk, history>>

TickStep(t) ==
  \/ ReadUsage(t) \/ List(t) \/ Decide(t) \/ LookAtPane(t)
  \/ AskToSave(t) \/ Record(t) \/ StopIdle(t) \/ StopReturns(t)

-----------------------------------------------------------------------------
(* Everything else.                                                        *)

\* The event route stores the last hook event of a session.
HookEvent(stop) ==
  /\ up
  /\ lastStop' = stop /\ sinceEvent' = 0
  /\ UNCHANGED <<up, sinceStart, terminal, asked, sinceAsk, tick, failures, history>>

OpenTerminal ==
  /\ up /\ ~terminal
  /\ terminal' = TRUE
  /\ UNCHANGED <<up, sinceStart, lastStop, sinceEvent, asked, sinceAsk, tick, failures, history>>

CloseTerminal ==
  /\ terminal
  /\ terminal' = FALSE /\ watched' = FALSE
  /\ UNCHANGED <<up, sinceStart, lastStop, sinceEvent, asked, sinceAsk, tick, failures,
                 prompts, askedIdle, idle>>

\* The routes, the grant sweep and Docker's restart policy start and stop it too.
StartedByOthers ==
  /\ ~up
  /\ up' = TRUE /\ sinceStart' = 0
  /\ UNCHANGED <<terminal, lastStop, sinceEvent, asked, sinceAsk, tick, failures, history>>

StoppedByOthers ==
  /\ up
  /\ up' = FALSE
  /\ UNCHANGED <<sinceStart, terminal, lastStop, sinceEvent, asked, sinceAsk, tick, failures,
                 history>>

TimePasses ==
  /\ InProgress = {}
  /\ sinceStart' = Older(sinceStart, IdleWindow)
  /\ sinceEvent' = Older(sinceEvent, IdleWindow)
  /\ sinceAsk' = IF asked THEN Older(sinceAsk, SaveTimeout) ELSE 0
  /\ <<sinceStart, sinceEvent, sinceAsk>>' # <<sinceStart, sinceEvent, sinceAsk>>
  /\ UNCHANGED <<up, terminal, lastStop, asked, tick, failures, history>>

IdleNext ==
  \/ \E t \in Ticks : TickStep(t) \/ InspectFails(t)
  \/ \E stop \in BOOLEAN : HookEvent(stop)
  \/ OpenTerminal \/ CloseTerminal \/ StartedByOthers \/ StoppedByOthers
  \/ TimePasses

IdleSpec == IdleInit /\ [][IdleNext]_idleVars

-----------------------------------------------------------------------------
(* Properties.                                                             *)

\* Whatever stops the instance, it had been idle for the window: when the tick
\* that stops it began, or when the one began that typed the request this stop
\* follows.  (It need not be idle any more: no event and no start after the
\* request calls the stop off, only a terminal or a tick that finds the
\* container stopped.)  idle-stop.js, decide and runIdleCheck.
StopsOnlyIdle ==
  \A t \in Ticks : tick[t].at = "stop" => (idle \/ (asked /\ askedIdle))

\* A second request is never typed while the answer to one is awaited: slow
\* ticks do not overlap ("a slow tick must not overlap the next one").
AsksOnce == prompts < 2

\* A tick does not stop, and does not type into, an instance at which a
\* terminal has been open since the tick began.
OpenTerminalSpares ==
  watched => \A t \in Ticks : tick[t].at \in {"off", "list", "inspect"}

\* The save request is no way to keep an instance up: the pending stop ends,
\* by the stop, an opened terminal or a stop by others.
PendingEnds == asked ~> ~asked
=============================================================================
