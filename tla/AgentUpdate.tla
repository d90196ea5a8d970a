----------------------------- MODULE AgentUpdate -----------------------------
(***************************************************************************)
(* The self-update of one agent: the commands operators queue (manage.py:  *)
(* agent_update_command, agents_update_outdated; agent_release.py), the    *)
(* attempt (agent updater.py), the restart that follows it and what the    *)
(* heartbeat tells central of it (agent runner.py: run_forever; deps.py:   *)
(* touch_heartbeat).                                                       *)
(*                                                                         *)
(* A version is its base, a number; 0 is a base that cannot be parsed or   *)
(* was never reported.                                                     *)
(***************************************************************************)
EXTENDS Integers

CONSTANTS
    None,
    Versions,       \* bases, numbers above 0
    MaxCommands     \* bound: update_agent commands ever queued

\* What the constants must satisfy.
UpdateAssumption ==
    Versions \subseteq Nat \ {0} /\ Versions # {} /\ MaxCommands \in Nat

VARIABLES
    target,     \* bundled_agent_version
    source,     \* the version the configured pip source installs now
    queued, pending,    \* commands: ever queued, not pulled yet
    reported, result,   \* agents.version and agents.last_update_result
    disk,       \* __base_version__ in the installed package
    running,    \* the version the process loaded, None when it is down
    toDo,       \* update commands of the batch still to handle
    phase,      \* where perform_self_update is
    marker,     \* .pn-update-result.json
    unsent,     \* pending_update_result
    untold      \* history: an install changed the disk and no marker says so

centralVars == <<target, queued, pending, reported, result>>
agentVars   == <<running, toDo, phase, unsent>>
diskVars    == <<disk, marker, untold>>
vars == <<centralVars, agentVars, diskVars, source>>

Results == [ok : BOOLEAN, old : Versions, new : Versions]

TypeOK ==
    /\ target \in Versions /\ source \in Versions /\ disk \in Versions
    /\ queued \in 0..MaxCommands /\ pending \in 0..MaxCommands
    /\ reported \in Versions \cup {0}
    /\ result \in Results \cup {None} /\ marker \in Results \cup {None}
    /\ unsent \in Results \cup {None}
    /\ running \in Versions \cup {None} /\ toDo \in 0..MaxCommands
    /\ phase \in {"idle", "checked", "installed"}
    /\ untold \in BOOLEAN

Init ==
    /\ target \in Versions /\ source \in Versions /\ disk \in Versions
    /\ queued = 0 /\ pending = 0
    /\ reported = 0 /\ result = None
    /\ running = None /\ toDo = 0 /\ phase = "idle"
    /\ marker = None /\ unsent = None /\ untold = FALSE

-----------------------------------------------------------------------------
(* Central *)

\* needs_update: an unknown version is not an outdated one.
NeedsUpdate == reported # 0 /\ reported < target

QueueUpdate ==
    /\ queued < MaxCommands
    /\ queued' = queued + 1 /\ pending' = pending + 1
    /\ UNCHANGED <<target, reported, result, agentVars, diskVars, source>>

UpdateCommand == QueueUpdate

UpdateOutdated == NeedsUpdate /\ pending = 0 /\ QueueUpdate

\* Central is upgraded, or the pip source is pointed or moved elsewhere.
Release(v) ==
    /\ target # v
    /\ target' = v
    /\ UNCHANGED <<queued, pending, reported, result, agentVars, diskVars, source>>

MoveSource(v) ==
    /\ source # v
    /\ source' = v
    /\ UNCHANGED <<centralVars, agentVars, diskVars>>

-----------------------------------------------------------------------------
(* The agent's loop *)

\* The marker is read once, here.
Start ==
    /\ running = None
    /\ running' = disk
    /\ unsent' = marker
    /\ UNCHANGED <<centralVars, toDo, phase, diskVars, source>>

Free == running # None /\ toDo = 0 /\ phase = "idle"

\* A heartbeat central records; acked says whether its reply came back.
Heartbeat(acked) ==
    /\ Free
    /\ reported' = running
    /\ result' = IF unsent # None THEN unsent ELSE result
    /\ unsent' = IF acked THEN None ELSE unsent
    /\ UNCHANGED <<target, queued, pending, running, toDo, phase, diskVars, source>>

PullCommands ==
    /\ Free
    /\ pending > 0
    /\ toDo' = pending /\ pending' = 0
    /\ UNCHANGED <<target, queued, reported, result, running, phase, unsent,
                   diskVars, source>>

Exit ==
    /\ running' = None /\ toDo' = 0 /\ phase' = "idle" /\ unsent' = None

\* _write_result: atomic, and only logged when it cannot write.
Record(r) == \/ marker' = r /\ untold' = FALSE
             \/ UNCHANGED <<marker, untold>>

\* Mutant: a failure carries the version the disk could not be read for
FailedUnread == [ok |-> FALSE, old |-> running, new |-> 0]

Failed == [ok |-> FALSE, old |-> running, new |-> running]

\* preflight refuses: recorded, and the agent goes on.
PreflightFails ==
    /\ toDo > 0 /\ phase = "idle"
    /\ Record(Failed)
    /\ toDo' = toDo - 1
    /\ UNCHANGED <<centralVars, running, phase, unsent, disk, source>>

Preflight ==
    /\ toDo > 0 /\ phase = "idle"
    /\ phase' = "checked"
    /\ UNCHANGED <<centralVars, running, toDo, unsent, diskVars, source>>

PipFails ==
    /\ phase = "checked"
    /\ Record(Failed)
    /\ toDo' = toDo - 1 /\ phase' = "idle"
    /\ UNCHANGED <<centralVars, running, unsent, disk, source>>

PipInstalls ==
    /\ phase = "checked"
    /\ disk' = source
    /\ untold' = TRUE
    /\ phase' = "installed"
    /\ UNCHANGED <<centralVars, running, toDo, unsent, marker, source>>

\* The version is read back off the disk: a base that did not move is a
\* no-op and no success.  The process exits either way, and the rest of the
\* batch with it.
Confirm ==
    /\ phase = "installed"
    /\ Record([ok |-> disk # running, old |-> running, new |-> disk])
    /\ Exit
    /\ UNCHANGED <<centralVars, disk, source>>

\* The host or the service manager stops the process.
Crash ==
    /\ running # None
    /\ Exit
    /\ UNCHANGED <<centralVars, diskVars, source>>

Next ==
    \/ UpdateCommand \/ UpdateOutdated
    \/ \E v \in Versions : Release(v) \/ MoveSource(v)
    \/ Start \/ Crash
    \/ \E acked \in BOOLEAN : Heartbeat(acked)
    \/ PullCommands \/ PreflightFails \/ Preflight
    \/ PipFails \/ PipInstalls \/ Confirm

Spec == Init /\ [][Next]_vars

-----------------------------------------------------------------------------
(* Properties *)

\* When central shows the last attempt as done and the agent has no news for
\* it, the agent runs what that attempt installed and central knows it, unless
\* an install went untold: cut short, or its marker not written
\* (perform_self_update, run_forever, touch_heartbeat).
OkIsRunning ==
    /\ result # None /\ result.ok => result.old # result.new
    /\ running # None /\ unsent = None /\ ~untold =>
          (result # None /\ result.ok /\ marker = result =>
              running = result.new /\ reported = result.new)
=============================================================================
