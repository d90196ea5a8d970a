------------------------------ MODULE MCDevices ------------------------------
(***************************************************************************)
(* What a device keeps of what central decided, checked together: the      *)
(* version an agent runs, the definitions it applies, the record a PC      *)
(* enrolls as and the queues on a PC.  The four specifications share no    *)
(* variable; each behaviour follows the one named by focus and the others  *)
(* rest.                                                                   *)
(*                                                                         *)
(* A budget bounds what operators, users and faults do.  It appears in no  *)
(* guard of the specifications, and it makes every behaviour one in which  *)
(* the disturbances end: what the liveness properties ask for.             *)
(***************************************************************************)
EXTENDS Integers, FiniteSets

CONSTANTS
    None, Global,
    Versions, MaxCommands,
    Keys, Clients, Specs, Known, MaxKeys,
    PCs, ComputerNames, EnrollKeys, Stale, Retry, MaxMachines, MaxSerial, MaxTime,
    Printers, Labels, Addresses, OwnQueue, QueryBudget,
    MaxUpdate, MaxFeed, MaxMachine, MaxQueue        \* the budgets

VARIABLES
    target, source, queued, pending, reported, result, disk, running, toDo,
    phase, marker, unsent, untold,
    rows, served, centralKey, agentKey, active, version, reply, cache,
    machines, liveKeys, name, config, file, refused, request, raced, serial, now,
    platform, central, awake, queues, chosen, step, wanted, todo, outcome,
    focus, spent

Update == INSTANCE AgentUpdate
Feeds  == INSTANCE DefinitionFeed
Seats  == INSTANCE MachineEnrollment WITH Keys <- EnrollKeys, Names <- ComputerNames
Spool  == INSTANCE QueueProvisioning

updateVars == <<target, source, queued, pending, reported, result, disk,
                running, toDo, phase, marker, unsent, untold>>
feedVars   == <<rows, served, centralKey, agentKey, active, version, reply, cache>>
seatVars   == <<machines, liveKeys, name, config, file, refused, request, raced, serial, now>>
spoolVars  == <<platform, central, awake, queues, chosen, step, wanted, todo, outcome>>
vars == <<updateVars, feedVars, seatVars, spoolVars, focus, spent>>

Parts == {"update", "feed", "seats", "spool"}

\* The start of a part that rests does not matter: the first one will do.  One
\* PC starts under the first name: a name is no more than the name it is.
Init ==
    /\ focus \in Parts /\ spent = 0
    /\ Update!Init /\ Feeds!Init /\ Seats!Init /\ Spool!Init
    /\ disk = 1 /\ source = 2 /\ target = 2
    /\ served = Clients
    /\ config = CHOOSE f \in [PCs -> EnrollKeys] : TRUE
    /\ name[CHOOSE p \in PCs : TRUE] = CHOOSE n \in ComputerNames : TRUE
    /\ focus # "seats" => name = CHOOSE f \in [PCs -> ComputerNames] : TRUE
    /\ focus # "spool" => platform = "windows"
    /\ chosen = None

Spend(limit) == spent < limit /\ spent' = spent + 1

UpdateStep ==
    \/ /\ \/ Update!Start \/ Update!PullCommands \/ Update!Preflight
          \/ Update!PreflightFails \/ Update!PipFails \/ Update!PipInstalls
          \/ Update!Confirm \/ \E b \in BOOLEAN : Update!Heartbeat(b)
          \/ Update!UpdateCommand \/ Update!UpdateOutdated
       /\ UNCHANGED spent
    \/ /\ Spend(MaxUpdate)
       /\ \/ Update!Crash
          \/ \E v \in Versions : Update!Release(v) \/ Update!MoveSource(v)

FeedStep ==
    \/ /\ Feeds!InstallKey \/ Feeds!Start \/ Feeds!FetchFeed \/ Feeds!ApplyFeed
       /\ UNCHANGED spent
    \/ /\ Spend(MaxFeed)
       /\ \/ \E k \in Keys, s \in Feeds!Scopes, r \in Feeds!Rows :
                Feeds!SaveDefinition(k, s, r)
          \/ \E k \in Keys, s \in Feeds!Scopes : Feeds!DeleteDefinition(k, s)
          \/ \E cs \in SUBSET Clients : Feeds!Reassign(cs)
          \/ Feeds!RotateKey \/ Feeds!Stop

\* An assignment begins, ends, or changes in one respect.
Changes(p) ==
    LET old == central[p]
        first == [printer |-> p, label |-> CHOOSE x \in Labels : TRUE,
                  address |-> CHOOSE x \in Addresses : TRUE,
                  tier |-> "driverless", package |-> "good", default |-> TRUE]
    IN  IF old = None THEN {[first EXCEPT !.tier = x] : x \in {"driverless", "vendor"}}
        ELSE {None} \cup {[old EXCEPT !.label = x] : x \in Labels}
                    \cup {[old EXCEPT !.address = x] : x \in Addresses}
                    \cup {[old EXCEPT !.tier = x] : x \in Spool!Tiers}
                    \cup {[old EXCEPT !.package = x] : x \in Spool!Packages}

SeatFault ==
    \/ \E k \in liveKeys : Seats!RevokeKey(k)
    \/ \E i \in Seats!Rows : Seats!SetMachineActive(i, ~ machines[i].active)
    \/ \E p \in PCs :
          \/ Seats!CommitEnroll(p, FALSE) \/ Seats!EnrollLost(p)
          \/ file[p] # Seats!Blank /\ Seats!Reimage(p)
          \/ Seats!LoseFile(p)
          \/ \E k \in EnrollKeys \ {config[p]} : Seats!Reinstall(p, k)
          \/ \E n \in ComputerNames \ {name[p]} : Seats!Rename(p, n)

\* The request ends, and the PC has the answer if it is still the one that asked.
EndEnroll(p) ==
    /\ request[p] # None
    /\ Seats!CommitEnroll(p, file[p].uid = request[p].uid)

SeatWork ==
    \E p \in PCs : \/ Seats!BeginEnroll(p) \/ EndEnroll(p)
                   \/ Seats!EnrollRefused(p)

SeatStep ==
    \/ (SeatWork \/ Seats!Tick \/ \E p \in PCs : Seats!CheckIn(p)) /\ UNCHANGED spent
    \/ SeatFault /\ Spend(MaxMachine)

SpoolFault ==
    \/ Spool!Crash
    \/ \E s \in todo : Spool!CutShort(s) \/ Spool!BuildErrs(s)
    \/ \E p \in Printers : Spool!Sleep(p) \/ \E s \in Changes(p) : Spool!Reassign(p, s)
    \/ \E n \in Spool!Names : Spool!UserDeletes(n)
    \/ Spool!UserChooses(OwnQueue)

SpoolStep ==
    \/ Spool!PollNext /\ UNCHANGED spent
    \/ SpoolFault /\ Spend(MaxQueue)

Next ==
    /\ UNCHANGED focus
    /\ \/ /\ focus = "update" /\ UpdateStep
          /\ UNCHANGED <<feedVars, seatVars, spoolVars>>
       \/ /\ focus = "feed" /\ FeedStep
          /\ UNCHANGED <<updateVars, seatVars, spoolVars>>
       \/ /\ focus = "seats" /\ SeatStep
          /\ UNCHANGED <<updateVars, feedVars, spoolVars>>
       \/ /\ focus = "spool" /\ SpoolStep
          /\ UNCHANGED <<updateVars, feedVars, seatVars>>

\* The service manager restarts an agent and its loop polls, an operator who
\* rotates a key installs it, and a client keeps trying while its machine runs.
FeedWork == /\ focus = "feed" /\ UNCHANGED <<updateVars, seatVars, spoolVars, focus, spent>>
SeatRest == /\ focus = "seats" /\ UNCHANGED <<updateVars, feedVars, spoolVars, focus, spent>>
Fairness ==
    /\ WF_vars(FeedWork /\ Feeds!Start) /\ WF_vars(FeedWork /\ Feeds!InstallKey)
    /\ WF_vars(FeedWork /\ Feeds!FetchFeed) /\ WF_vars(FeedWork /\ Feeds!ApplyFeed)
    /\ \A p \in PCs : /\ WF_vars(SeatRest /\ Seats!BeginEnroll(p))
                      /\ WF_vars(SeatRest /\ EndEnroll(p))
    /\ WF_vars(/\ focus = "spool" /\ Spool!PollNext
               /\ UNCHANGED <<updateVars, feedVars, seatVars, focus, spent>>)

MCSpec == Init /\ [][Next]_vars /\ Fairness

ASSUME DevicesAssumption ==
       /\ Update!UpdateAssumption /\ Feeds!FeedAssumption /\ Seats!StaleAssumption

-----------------------------------------------------------------------------
TypesOK == Update!TypeOK /\ Feeds!TypeOK /\ Seats!TypeOK /\ Spool!TypeOK

\* What central and a device hold of each other agrees: an update reported ok
\* is running (updater.py), a version of the definitions names one content and
\* a key in it one scope (device_definitions.py), and an identity of a PC one
\* record (enroll).
RecordsAgree ==
    /\ focus = "update" => Update!OkIsRunning
    /\ focus = "feed" => Feeds!VersionNamesContent /\ Feeds!OneScopePerKey
    /\ focus = "seats" => Seats!OneRecordPerIdentity

\* A PC that is in use keeps its key, whoever enrolls under its name, but for a
\* record that changed between the read and the commit of an enrollment (enroll).
LiveKeepsKey == Seats!LiveKeepsKey

\* Once the disturbances end an agent applies the definitions central has for
\* it, and a PC whose key was fixed enrolls (DefinitionSync, ensure_enrolled).
Recovers == /\ focus = "feed" => Feeds!Converges
            /\ focus = "seats" => Seats!KeyFixRecovers

\* Once the disturbances end a PC has no managed queue but those it was assigned,
\* and these as central has them, but for what is out of its reach and what it
\* takes for right without looking (reconcile, provision_queues).
QueuesConverge == Spool!QueuesConverge
=============================================================================
