-------------------------------- MODULE Jobs --------------------------------
(***************************************************************************)
(* The background jobs of the manager: rebuilding the workspace image      *)
(* (server/workspace-image.js), scanning the workspaces                    *)
(* (server/security-scan.js) and testing the connectivity of a restricted  *)
(* instance (server/connectivity-check.js).  Timers, the end of a rebuild  *)
(* and administrators (server/routes/workspace-image.js,                   *)
(* server/routes/security-scan.js, server/routes/connectivity-check.js)    *)
(* ask for them whenever they like; a flag per kind admits one at a time.  *)
(*                                                                         *)
(* Versions of Claude Code are numbers.  One instance stands for the       *)
(* targets of a scan, and the number of its critical findings for counts.  *)
(***************************************************************************)
EXTENDS Naturals, FiniteSets

CONSTANTS Tasks,       \* requests being served at once
          NewestNpm,   \* versions npm publishes in a behaviour
          MaxCritical, \* most critical findings in the workspace
          MaxTroubles  \* failing calls and crashes

ASSUME NewestAssumption == NewestNpm \in Nat \ {0}
ASSUME MaxCriticalAssumption == MaxCritical \in Nat
ASSUME MaxTroublesAssumption == MaxTroubles \in Nat

VARIABLES task,      \* per request: its kind, where it is, what it holds
          flag,      \* per kind: state.building, state.scanning, state.running
          npm,       \* the newest version in the registry
          installed, \* the version in claude-workspace:latest
          current,   \* state.currentVersion, with 0 for null
          stored,    \* the same in the meta table
          critical,  \* findings a scan of the workspace would count
          scan,      \* the instance_scans row: "none" or its count
          scanError, \* its error column is set
          alerted,   \* the last scan raised an alert
          probes,    \* ephemeral conncheck containers (each with an ACL) around
          troubles

jobVars == <<task, flag, npm, installed, current, stored, critical, scan, scanError, alerted,
             probes, troubles>>
imageVars == <<npm, installed, current, stored>>
scanVars == <<critical, scan, scanError, alerted>>

Kinds == {"image", "scan", "smoke"}
Null == 0
Free == [kind |-> "image", at |-> "off", held |-> 0]

JobTypeOK ==
  /\ task \in [Tasks -> [kind : Kinds, held : 0 .. NewestNpm + MaxCritical + 1,
       at : {"off", "fetch", "enter", "target", "build", "detect", "remote", "list", "trivy",
             "probe", "clean"}]]
  /\ flag \in [Kinds -> BOOLEAN]
  /\ {npm, installed, current, stored} \subseteq 0 .. NewestNpm
  /\ {critical, scan} \subseteq 0 .. MaxCritical
  /\ scanError \in BOOLEAN /\ alerted \in BOOLEAN /\ probes \in SUBSET Tasks /\ troubles \in Nat

JobInit ==
  /\ task = [t \in Tasks |-> Free]
  /\ flag = [k \in Kinds |-> FALSE]
  /\ npm = 1 /\ installed = 1 /\ current \in {Null, 1} /\ stored = current
  /\ critical = 0 /\ scan = 0 /\ scanError = FALSE /\ alerted = FALSE
  /\ probes = {} /\ troubles = MaxTroubles

Trouble == troubles > 0 /\ troubles' = troubles - 1
Go(t, place) == task' = [task EXCEPT ![t].at = place]
GoWith(t, place, value) == task' = [task EXCEPT ![t].at = place, ![t].held = value]
End(t) ==
  /\ task' = [task EXCEPT ![t] = Free]
  /\ flag' = [flag EXCEPT ![task[t].kind] = FALSE]

\* The guard and the flag of each kind, checked and set in one turn.
MutAdmitAll(kind) == TRUE

Admits(kind) == ~flag[kind]
Enter(t, kind, place) ==
  IF Admits(kind)
  THEN /\ task' = [task EXCEPT ![t] = [kind |-> kind, at |-> place, held |-> 0]]
       /\ flag' = [flag EXCEPT ![kind] = TRUE]
  ELSE /\ task' = [task EXCEPT ![t] = Free]
       /\ UNCHANGED flag

-----------------------------------------------------------------------------
(* The workspace image.                                                    *)

\* The daily check and the rebuild route both ask npm before they build; the
\* route has looked at the flag before that, the build looks again.
AskForImage(t) ==
  /\ task[t].at = "off"
  /\ GoWith(t, "fetch", 0)
  /\ UNCHANGED <<flag, imageVars, scanVars, probes, troubles>>

\* checkAndMaybeRebuild goes on if the version is new; a manual one in any case.
Fetched(t) ==
  /\ task[t].at = "fetch"
  /\ \/ task' = [task EXCEPT ![t] = IF npm # current THEN [@ EXCEPT !.at = "enter"] ELSE Free]
        /\ UNCHANGED troubles
     \/ Go(t, "enter") /\ UNCHANGED troubles
     \/ Trouble /\ task' = [task EXCEPT ![t] = Free]
  /\ UNCHANGED <<flag, imageVars, scanVars, probes>>

StartBuild(t) ==
  /\ task[t].at = "enter"
  /\ Enter(t, "image", "target")
  /\ UNCHANGED <<imageVars, scanVars, probes, troubles>>

\* The target is what npm has now; not knowing it is no obstacle.
Target(t) ==
  /\ task[t].at = "target"
  /\ \/ GoWith(t, "build", npm) /\ UNCHANGED troubles
     \/ Trouble /\ GoWith(t, "build", Null)
  /\ UNCHANGED <<flag, imageVars, scanVars, probes>>

\* The image installs what npm has by then.
Build(t) ==
  /\ task[t].at = "build"
  /\ \/ installed' = npm /\ Go(t, "detect") /\ UNCHANGED <<flag, troubles>>
     \/ Trouble /\ End(t) /\ UNCHANGED installed
  /\ UNCHANGED <<npm, current, stored, scanVars, probes>>

\* The version is what the image reports, or else the target.
Known(t, found) == IF found # Null THEN found ELSE task[t].held
Detect(t) ==
  /\ task[t].at = "detect"
  /\ \E found \in {installed, Null} :
       /\ found = Null => Trouble
       /\ found # Null => UNCHANGED troubles
       /\ current' = Known(t, found)
       /\ stored' = IF current' # Null THEN current' ELSE stored
  /\ Go(t, "remote")
  /\ UNCHANGED <<flag, npm, installed, scanVars, probes>>

\* Remote hosts fail one by one and never the rebuild; its end asks for a smoke
\* test, which another test under way turns down.
BuiltEverywhere(t) ==
  /\ task[t].at = "remote"
  /\ \/ ~flag["smoke"]
        /\ task' = [task EXCEPT ![t] = [kind |-> "smoke", at |-> "probe", held |-> 0]]
        /\ flag' = [flag EXCEPT !["image"] = FALSE, !["smoke"] = TRUE]
     \/ flag["smoke"] /\ End(t)
  /\ UNCHANGED <<imageVars, scanVars, probes, troubles>>

\* npm publishes.
Publish ==
  /\ npm < NewestNpm
  /\ npm' = npm + 1
  /\ UNCHANGED <<task, flag, installed, current, stored, scanVars, probes, troubles>>

-----------------------------------------------------------------------------
(* The security scan.                                                      *)

StartScan(t) ==
  /\ task[t].at = "off" /\ Admits("scan")
  /\ Enter(t, "scan", "list")
  /\ UNCHANGED <<imageVars, scanVars, probes, troubles>>

\* scanAll: Docker lists the targets, and the Trivy image has to be there.
\* Either failing ends the scan, through the finally.
ListTargets(t) ==
  /\ task[t].at = "list"
  /\ \/ GoWith(t, "trivy", scan) /\ UNCHANGED <<flag, troubles>>
     \/ Trouble /\ End(t)
  /\ UNCHANGED <<imageVars, scanVars, probes>>

\* scanInstance: the row takes the new counts, or keeps those it had and gets an
\* error.  More critical findings than the row had raise an alert.
RowAfter(worked, prev) == IF worked THEN critical ELSE prev
Raises(worked, prev) == worked /\ critical > prev

Trivy(t) ==
  /\ task[t].at = "trivy"
  /\ \E worked \in BOOLEAN :
       /\ IF worked THEN UNCHANGED troubles ELSE Trouble
       /\ scan' = RowAfter(worked, task[t].held) /\ scanError' = ~worked
       /\ alerted' = Raises(worked, task[t].held)
  /\ End(t)
  /\ UNCHANGED <<imageVars, critical, probes>>

\* The workspace gets better or worse.
WorkspaceChanges ==
  /\ critical' \in (0 .. MaxCritical) \ {critical}
  /\ UNCHANGED <<task, flag, imageVars, scan, scanError, alerted, probes, troubles>>

-----------------------------------------------------------------------------
(* The connectivity smoke test.                                            *)

StartSmoke(t) ==
  /\ task[t].at = "off" /\ Admits("smoke")
  /\ Enter(t, "smoke", "probe")
  /\ UNCHANGED <<imageVars, scanVars, probes, troubles>>

\* runSmokeTest: the probe container and its ACL, then the verdict or an error;
\* both are removed in the finally, as is the flag.
Probe(t) ==
  /\ task[t].at = "probe"
  /\ probes' = probes \cup {t}
  /\ Go(t, "clean")
  /\ UNCHANGED <<flag, imageVars, scanVars, troubles>>

CleanUp(t) ==
  /\ task[t].at = "clean"
  /\ \/ probes' = probes \ {t} /\ UNCHANGED troubles
     \/ Trouble /\ UNCHANGED probes
  /\ End(t)
  /\ UNCHANGED <<imageVars, scanVars>>

-----------------------------------------------------------------------------
\* A crash ends every job; what the manager knows of the image comes back from
\* the database, or from the image itself if that can be asked.
Restart ==
  /\ Trouble
  /\ task' = [t \in Tasks |-> Free]
  /\ flag' = [k \in Kinds |-> FALSE]
  /\ current' \in (IF stored # Null THEN {stored} ELSE {installed, Null})
  /\ stored' = current'
  /\ UNCHANGED <<npm, installed, scanVars, probes>>

ImageStep(t) ==
  Fetched(t) \/ StartBuild(t) \/ Target(t) \/ Build(t) \/ Detect(t) \/ BuiltEverywhere(t)
OtherStep(t) == ListTargets(t) \/ Trivy(t) \/ Probe(t) \/ CleanUp(t)

JobNext ==
  \/ \E t \in Tasks :
       \/ AskForImage(t) \/ ImageStep(t) \/ OtherStep(t)
       \/ StartScan(t) \/ StartSmoke(t)
  \/ Publish \/ WorkspaceChanges \/ Restart

JobSpec == JobInit /\ [][JobNext]_jobVars

-----------------------------------------------------------------------------
(* Properties.                                                             *)

\* One rebuild, one scan and one smoke test at a time, whoever asks and however
\* the requests overlap, and the flag of a kind is up exactly while one runs: it
\* is neither left behind by a failure nor taken down under another.
Running(kind) == {t \in Tasks : task[t].kind = kind /\ task[t].at \notin {"off", "fetch", "enter"}}
OneJob ==
  \A kind \in Kinds :
    /\ Cardinality(Running(kind)) =< 1
    /\ flag[kind] <=> Running(kind) # {}
=============================================================================
