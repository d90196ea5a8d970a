---------------------------- MODULE DeviceProofs ----------------------------
(***************************************************************************)
(* What a device keeps of what central decided, for any versions, keys,    *)
(* clients, workstations, names and printers, of the modules as MCDevices  *)
(* instantiates them:                                                      *)
(*   - AgentUpdate: an update reported ok is running;                      *)
(*   - DefinitionFeed: a version names one content, a key one scope;       *)
(*   - MachineEnrollment: an identity is one record, and a PC in use keeps *)
(*     its key, but for a record two enrollments held at once;             *)
(*   - QueueProvisioning: types alone, as what it promises is liveness.    *)
(***************************************************************************)
EXTENDS MCDevices, FiniteSetTheorems, TLAPS

-----------------------------------------------------------------------------
(* Updates: what the marker, the disk and the process say of each other.   *)

\* A command is in hand, and an attempt under way, of a process that runs.
CommandsHeld ==
    /\ pending <= queued
    /\ toDo > 0 => running # None
    /\ phase # "idle" => toDo > 0

\* What the process loaded is on the disk until pip replaces it, which no
\* marker says yet.
LoadedFromDisk ==
    /\ running # None /\ phase # "installed" => running = disk
    /\ phase = "installed" => untold

\* A marker that says ok tells two versions apart, and what is on the disk if
\* no install went untold; a process with no news of it has reported itself.
MarkerTrue ==
    /\ \A r \in {marker, unsent, result} : r # None /\ r.ok => r.old # r.new
    /\ marker # None /\ marker.ok /\ ~untold => disk = marker.new
    /\ running # None /\ unsent = None /\ marker # None /\ marker.ok => reported = running

UpdateInv == CommandsHeld /\ LoadedFromDisk /\ MarkerTrue

LEMMA UpdateStepKept ==
    ASSUME Update!TypeOK, UpdateInv, [Update!Next]_Update!vars
    PROVE  Update!TypeOK' /\ UpdateInv'
<1> USE DevicesAssumption DEF Update!UpdateAssumption, Update!TypeOK, UpdateInv, CommandsHeld,
        LoadedFromDisk, MarkerTrue
<1>1. CASE UNCHANGED Update!vars
    BY <1>1 DEF Update!vars, Update!centralVars, Update!agentVars, Update!diskVars
<1>2. CASE Update!UpdateCommand \/ Update!UpdateOutdated
    BY <1>2 DEF Update!UpdateCommand, Update!UpdateOutdated, Update!QueueUpdate,
        Update!agentVars, Update!diskVars
<1>3. ASSUME NEW v \in Versions, Update!Release(v) \/ Update!MoveSource(v)
      PROVE  Update!TypeOK' /\ UpdateInv'
    BY <1>3 DEF Update!Release, Update!MoveSource, Update!centralVars, Update!agentVars,
        Update!diskVars
<1>4. CASE Update!Start
    BY <1>4 DEF Update!Start, Update!centralVars, Update!diskVars
<1>5. CASE Update!Crash
    BY <1>5 DEF Update!Crash, Update!Exit, Update!centralVars, Update!diskVars
<1>6. ASSUME NEW acked \in BOOLEAN, Update!Heartbeat(acked)
      PROVE  Update!TypeOK' /\ UpdateInv'
    BY <1>6 DEF Update!Heartbeat, Update!Free, Update!diskVars
<1>7. CASE Update!PullCommands
    BY <1>7 DEF Update!PullCommands, Update!Free, Update!diskVars
<1>8. CASE Update!PreflightFails \/ Update!PipFails
    <2>1. running \in Versions
        BY <1>8 DEF Update!PreflightFails, Update!PipFails
    <2>2. Update!Failed \in Update!Results /\ Update!Failed.ok = FALSE
        BY <2>1 DEF Update!Failed, Update!Results
    <2>3. toDo > 0 /\ toDo' = toDo - 1 /\ phase' = "idle" /\ phase # "installed"
        BY <1>8 DEF Update!PreflightFails, Update!PipFails
    <2>4. \/ marker' = Update!Failed /\ untold' = FALSE
          \/ UNCHANGED <<marker, untold>>
        BY <1>8 DEF Update!PreflightFails, Update!PipFails, Update!Record
    <2>5. UNCHANGED <<target, source, queued, pending, reported, result, disk, running, unsent>>
        BY <1>8 DEF Update!PreflightFails, Update!PipFails, Update!centralVars
    <2>0. untold' \in BOOLEAN
        BY <2>4, Zenon
    <2>6. Update!TypeOK'
        BY <2>0, <2>1, <2>2, <2>3, <2>4, <2>5
    <2>7. CommandsHeld' /\ LoadedFromDisk'
        BY <2>1, <2>3, <2>4, <2>5
    <2>8. MarkerTrue'
        BY <2>2, <2>4, <2>5
    <2> QED
        BY <2>6, <2>7, <2>8
<1>9. CASE Update!Preflight
    BY <1>9 DEF Update!Preflight, Update!centralVars, Update!diskVars
<1>10. CASE Update!PipInstalls
    BY <1>10 DEF Update!PipInstalls, Update!centralVars
<1>11. CASE Update!Confirm
    <2> DEFINE r == [ok |-> disk # running, old |-> running, new |-> disk]
    <2>1. running \in Versions
        BY <1>11 DEF Update!Confirm
    <2>2. r \in Update!Results
        BY <2>1 DEF Update!Results
    <2>3. r.new = disk /\ (r.ok => r.old # r.new)
        OBVIOUS
    <2>4. (marker' = r /\ untold' = FALSE) \/ UNCHANGED <<marker, untold>>
        BY <1>11 DEF Update!Confirm, Update!Record
    <2>5. /\ running' = None /\ toDo' = 0 /\ phase' = "idle" /\ unsent' = None
          /\ UNCHANGED <<target, source, queued, pending, reported, result, disk>>
        BY <1>11 DEF Update!Confirm, Update!Exit, Update!centralVars
    <2> HIDE DEF r
    <2>0. untold' \in BOOLEAN
        BY <2>4, Zenon
    <2>6. Update!TypeOK'
        BY <2>0, <2>2, <2>4, <2>5
    <2>7. CommandsHeld' /\ LoadedFromDisk'
        BY <2>5
    <2>8. MarkerTrue'
        BY <2>3, <2>4, <2>5
    <2> QED
        BY <2>6, <2>7, <2>8
<1> QED
    BY <1>1, <1>2, <1>3, <1>4, <1>5, <1>6, <1>7, <1>8, <1>9, <1>10, <1>11 DEF Update!Next

\* The inductive invariant of updates.
THEOREM UpdateInvariant == Update!Spec => [](Update!TypeOK /\ UpdateInv)
<1>1. Update!Init => Update!TypeOK /\ UpdateInv
    <2> SUFFICES ASSUME Update!Init PROVE Update!TypeOK /\ UpdateInv
        OBVIOUS
    <2>0. untold \in BOOLEAN
        BY Zenon DEF Update!Init
    <2>1. Update!TypeOK
        BY <2>0, DevicesAssumption DEF Update!UpdateAssumption, Update!Init, Update!TypeOK
    <2>2. CommandsHeld /\ LoadedFromDisk
        BY DEF Update!Init, CommandsHeld, LoadedFromDisk
    <2>3. MarkerTrue
        BY DEF Update!Init, MarkerTrue
    <2> QED
        BY <2>1, <2>2, <2>3 DEF UpdateInv
<1>2. Update!TypeOK /\ UpdateInv /\ [Update!Next]_Update!vars => (Update!TypeOK /\ UpdateInv)'
    BY UpdateStepKept
<1> QED
    BY <1>1, <1>2, PTL DEF Update!Spec

\* When central shows an attempt as done and the agent has no news for it, the
\* agent runs what was installed (perform_self_update, run_forever).
THEOREM UpdatesTrue == Update!Spec => []Update!OkIsRunning
<1>1. Update!TypeOK /\ UpdateInv => Update!OkIsRunning
    BY DEF UpdateInv, LoadedFromDisk, MarkerTrue, Update!OkIsRunning
<1> QED
    BY <1>1, UpdateInvariant, PTL

-----------------------------------------------------------------------------
(* The feed: a key has one scope wherever a feed is.                       *)

OneScope(feed) == \A d, e \in feed : d.key = e.key => d = e

\* Every feed on its way, in the cache or applied came from central, which
\* narrows.
FeedsNarrow ==
    /\ reply # None => OneScope(reply.feed)
    /\ cache # None => OneScope(cache.feed)
    /\ active # None => OneScope(active)

FeedInv == FeedsNarrow /\ Feeds!VersionNamesContent

\* What central serves is a feed, and narrow.
LEMMA FeedServed ==
    ASSUME Feeds!TypeOK
    PROVE  Feeds!Feed \in Feeds!Feeds /\ OneScope(Feeds!Feed)
<1> DEFINE pairs == {x \in Keys \X Feeds!Scopes : Feeds!ServedScope(x[1]) = {x[2]}}
           item(x) == [key |-> x[1], scope |-> x[2], spec |-> rows[x].spec]
<1>1. Feeds!Feed = {item(x) : x \in pairs}
    BY DEF Feeds!Feed
<1>2. ASSUME NEW x \in pairs
      PROVE  rows[x] \in Feeds!Rows
    <2>1. x \in Keys \X Feeds!Scopes /\ Feeds!ServedScope(x[1]) = {x[2]}
        OBVIOUS
    <2>2. x[1] \in Keys /\ x[2] \in Feeds!Scopes /\ x = <<x[1], x[2]>>
        BY <2>1
    <2>3. Feeds!Live(x[1], x[2])
        BY <2>1, <2>2 DEF Feeds!ServedScope, Feeds!Narrow
    <2>4. rows[x] # None
        BY <2>2, <2>3 DEF Feeds!Live
    <2> QED
        BY <2>1, <2>4 DEF Feeds!TypeOK
<1>3. ASSUME NEW x \in pairs
      PROVE  item(x) \in [key : Keys, scope : Feeds!Scopes, spec : Specs]
    <2>1. rows[x].spec \in Specs
        BY <1>2 DEF Feeds!Rows
    <2> QED
        BY <2>1
<1>4. ASSUME NEW x \in pairs, NEW y \in pairs, item(x).key = item(y).key
      PROVE  item(x) = item(y)
    <2>1. x[1] = y[1] /\ {x[2]} = {y[2]}
        BY <1>4
    <2>2. x = <<x[1], x[2]>> /\ y = <<y[1], y[2]>>
        OBVIOUS
    <2>3. x = y
        BY <2>1, <2>2
    <2> QED
        BY <2>3
<1> HIDE DEF pairs, item
<1> QED
    BY <1>1, <1>3, <1>4 DEF Feeds!Feeds, OneScope

LEMMA ValidKept ==
    ASSUME NEW feed \in Feeds!Feeds, OneScope(feed)
    PROVE  Feeds!Valid(feed) \in Feeds!Feeds /\ OneScope(Feeds!Valid(feed))
BY DEF Feeds!Valid, Feeds!Feeds, OneScope

LEMMA FeedStepKept ==
    ASSUME Feeds!TypeOK, FeedInv, [Feeds!Next]_feedVars
    PROVE  Feeds!TypeOK' /\ FeedInv'
<1> USE DevicesAssumption DEF Feeds!FeedAssumption
<1>0. /\ rows \in [Keys \X Feeds!Scopes -> Feeds!Rows \cup {None}]
      /\ served \subseteq Clients /\ centralKey \in 1..MaxKeys /\ agentKey \in 1..MaxKeys
      /\ active \in Feeds!Feeds \cup {None} /\ version \in Feeds!Feeds \cup {None}
      /\ reply \in Feeds!Signed \cup {None} /\ cache \in Feeds!Signed \cup {None}
    BY DEF Feeds!TypeOK
<1>1. ASSUME UNCHANGED <<active, version, reply, cache>>
      PROVE  /\ active' \in Feeds!Feeds \cup {None} /\ version' \in Feeds!Feeds \cup {None}
             /\ reply' \in Feeds!Signed \cup {None} /\ cache' \in Feeds!Signed \cup {None}
             /\ FeedInv'
    BY <1>0, <1>1 DEF FeedInv, FeedsNarrow, Feeds!VersionNamesContent
<1>2. CASE UNCHANGED feedVars
    BY <1>0, <1>1, <1>2 DEF feedVars, Feeds!TypeOK
<1>3. ASSUME NEW k \in Keys, NEW s \in Feeds!Scopes, NEW r \in Feeds!Rows \cup {None},
             rows' = [rows EXCEPT ![<<k, s>>] = r],
             UNCHANGED <<served, centralKey, agentKey, active, version, reply, cache>>
      PROVE  Feeds!TypeOK' /\ FeedInv'
    <2>1. rows' \in [Keys \X Feeds!Scopes -> Feeds!Rows \cup {None}]
        BY <1>0, <1>3
    <2> QED
        BY <1>0, <1>1, <1>3, <2>1 DEF Feeds!TypeOK
<1>4. ASSUME NEW cs \in SUBSET Clients, Feeds!Reassign(cs)
      PROVE  Feeds!TypeOK' /\ FeedInv'
    BY <1>0, <1>1, <1>4 DEF Feeds!Reassign, Feeds!TypeOK
<1>5. CASE Feeds!RotateKey
    BY <1>0, <1>1, <1>5 DEF Feeds!RotateKey, Feeds!TypeOK
<1>6. CASE Feeds!InstallKey \/ Feeds!Stop
    <2>1. /\ active' = None /\ version' = None /\ reply' = None /\ agentKey' \in {agentKey, centralKey}
          /\ UNCHANGED <<rows, served, centralKey, cache>>
        BY <1>6 DEF Feeds!InstallKey, Feeds!Stop
    <2> QED
        BY <1>0, <2>1 DEF Feeds!TypeOK, FeedInv, FeedsNarrow, Feeds!VersionNamesContent
<1>7. CASE Feeds!Start
    <2>1. UNCHANGED <<rows, served, centralKey, agentKey, reply, cache>>
        BY <1>7 DEF Feeds!Start
    <2>2. CASE Feeds!Verifies(cache)
        <3>1. cache \in Feeds!Signed /\ active' = Feeds!Valid(cache.feed) /\ version' = cache.feed
            BY <1>0, <1>7, <2>2 DEF Feeds!Start, Feeds!Verifies
        <3>2. cache.feed \in Feeds!Feeds /\ OneScope(cache.feed)
            BY <3>1 DEF Feeds!Signed, FeedInv, FeedsNarrow
        <3>3. version' # None /\ active' \in Feeds!Feeds /\ OneScope(active')
            BY <3>1, <3>2, ValidKept
        <3> QED
            BY <1>0, <2>1, <3>1, <3>2, <3>3 DEF Feeds!TypeOK, FeedInv, FeedsNarrow,
                Feeds!VersionNamesContent, Feeds!Valid
    <2>3. CASE ~Feeds!Verifies(cache)
        <3>1. active' = {} /\ version' = None
            BY <1>7, <2>3 DEF Feeds!Start
        <3>2. active' \in Feeds!Feeds /\ OneScope(active')
            BY <3>1 DEF Feeds!Feeds, OneScope
        <3> QED
            BY <1>0, <2>1, <3>1, <3>2 DEF Feeds!TypeOK, FeedInv, FeedsNarrow,
                Feeds!VersionNamesContent
    <2> QED
        BY <2>2, <2>3
<1>8. CASE Feeds!FetchFeed
    <2>1. /\ reply' = [feed |-> Feeds!Feed, key |-> centralKey]
          /\ UNCHANGED <<rows, served, centralKey, agentKey, active, version, cache>>
        BY <1>8 DEF Feeds!FetchFeed
    <2>2. reply' \in Feeds!Signed /\ OneScope(reply'.feed)
        BY <1>0, <2>1, FeedServed DEF Feeds!Signed
    <2> QED
        BY <1>0, <2>1, <2>2 DEF Feeds!TypeOK, FeedInv, FeedsNarrow, Feeds!VersionNamesContent
<1>9. CASE Feeds!ApplyFeed
    <2>1. /\ reply \in Feeds!Signed /\ active' = Feeds!Valid(reply.feed)
          /\ version' = reply.feed /\ cache' \in {reply, cache} /\ reply' = None
          /\ UNCHANGED <<rows, served, centralKey, agentKey>>
        BY <1>0, <1>9 DEF Feeds!ApplyFeed, Feeds!Verifies
    <2>2. reply.feed \in Feeds!Feeds /\ OneScope(reply.feed)
        BY <2>1 DEF Feeds!Signed, FeedInv, FeedsNarrow
    <2>3. version' # None /\ active' \in Feeds!Feeds /\ OneScope(active')
        BY <2>1, <2>2, ValidKept
    <2> QED
        BY <1>0, <2>1, <2>2, <2>3 DEF Feeds!TypeOK, FeedInv, FeedsNarrow,
            Feeds!VersionNamesContent, Feeds!Valid
<1> QED
    BY <1>2, <1>3, <1>4, <1>5, <1>6, <1>7, <1>8, <1>9 DEF Feeds!Next, Feeds!SaveDefinition,
       Feeds!DeleteDefinition

\* The inductive invariant of the feed.
THEOREM FeedInvariant == Feeds!Spec => [](Feeds!TypeOK /\ FeedInv)
<1>1. Feeds!Init => Feeds!TypeOK /\ FeedInv
    BY DevicesAssumption DEF Feeds!FeedAssumption, Feeds!Init, Feeds!TypeOK, FeedInv,
        FeedsNarrow, Feeds!VersionNamesContent
<1>2. Feeds!TypeOK /\ FeedInv /\ [Feeds!Next]_feedVars => (Feeds!TypeOK /\ FeedInv)'
    BY FeedStepKept
<1> QED
    BY <1>1, <1>2, PTL DEF Feeds!Spec, Feeds!vars, feedVars

\* What an agent applies is what its version names, and no key of it has two
\* scopes (device_definition_feed, DefinitionSync).
THEOREM FeedsTrue == Feeds!Spec => [](Feeds!VersionNamesContent /\ Feeds!OneScopePerKey)
<1>1. FeedInv => Feeds!VersionNamesContent /\ Feeds!OneScopePerKey
    BY DEF FeedInv, FeedsNarrow, OneScope, Feeds!OneScopePerKey
<1> QED
    BY <1>1, FeedInvariant, PTL

-----------------------------------------------------------------------------
(* Enrollment: identities, keys and rows.                                  *)

\* Rows are numbered as they come.
RowsDense == \E n \in 0..MaxMachines : Seats!Rows = 1..n

\* Identities and keys are minted one after the other, and once.
SerialsMinted ==
    /\ \A i \in Seats!Rows : machines[i].uid <= serial /\ machines[i].key <= serial
    /\ \A p \in PCs :
          /\ file[p].uid # None => file[p].uid <= serial
          /\ file[p].creds # None => file[p].uid # None /\ file[p].creds.key <= serial

\* An identity is one row's and one PC's.
IdentitiesApart ==
    /\ \A i, j \in Seats!Rows : machines[i].uid = machines[j].uid => i = j
    /\ \A p, q \in PCs : file[p].uid # None /\ file[p].uid = file[q].uid => p = q

\* A key that opens a row was made for the row's identity, but for a row that
\* changed under an enrollment.
KeysMatch ==
    \A p \in PCs :
       file[p].creds # None /\ file[p].creds.id \notin raced =>
          LET i == file[p].creds.id
          IN  machines[i] # None /\ machines[i].key = file[p].creds.key
                 => machines[i].uid = file[p].uid

\* A request in hand is of a PC with no credentials and of an identity that is
\* nobody else's, and no row has it unless the row was read as the PC's own; any
\* other row it holds had gone quiet when it was read.
RequestsOpen ==
    \A p \in PCs : request[p] # None =>
       /\ file[p].creds = None /\ request[p].uid <= serial /\ request[p].at <= now
       /\ request[p].row # None =>
             /\ request[p].row \in Seats!Rows /\ request[p].read # None
             /\ \/ request[p].read.uid = request[p].uid
                \/ request[p].read.seen + Stale <= request[p].at
       /\ (request[p].row = None \/ request[p].read.uid # request[p].uid) =>
             \A j \in Seats!Rows : machines[j].uid # request[p].uid
       /\ \A q \in PCs : q # p => /\ file[q].uid # request[p].uid
                                  /\ request[q] # None => request[q].uid # request[p].uid

SeatInv == RowsDense /\ SerialsMinted /\ IdentitiesApart /\ KeysMatch /\ RequestsOpen

LEMMA SeatFacts ==
    ASSUME Seats!TypeOK
    PROVE  /\ MaxMachines \in Nat /\ MaxSerial \in Nat /\ MaxTime \in Nat /\ Stale \in Nat
           /\ None \notin Seats!Row /\ None \notin Seats!Creds /\ None \notin Seats!Serials
           /\ None \notin Seats!Ids /\ None \notin Seats!Redemption
           /\ Seats!Ids = 1..MaxMachines /\ Seats!Serials = 1..MaxSerial
           /\ serial \in 0..MaxSerial /\ now \in 0..MaxTime
           /\ name \in [PCs -> ComputerNames] /\ config \in [PCs -> EnrollKeys]
           /\ \A i \in Seats!Rows : i \in Seats!Ids /\ machines[i] \in Seats!Row
           /\ \A p \in PCs : /\ file[p].uid \in Seats!Serials \cup {None}
                             /\ file[p].creds \in Seats!Creds \cup {None}
                             /\ request[p] \in Seats!Redemption \cup {None}
BY DevicesAssumption DEF Seats!StaleAssumption, Seats!TypeOK, Seats!Rows, Seats!Ids, Seats!Serials

\* The columns of a row and of credentials are what they are.
LEMMA SeatColumns ==
    /\ \A q \in Seats!Row : /\ q.uid \in Seats!Serials /\ q.key \in Seats!Serials
                            /\ q.name \in ComputerNames /\ q.seen \in 0..MaxTime
                            /\ q.active \in BOOLEAN
    /\ \A c \in Seats!Creds : c.id \in Seats!Ids /\ c.key \in Seats!Serials
    /\ \A r \in Seats!Redemption : /\ r.uid \in Seats!Serials /\ r.name \in ComputerNames
                                   /\ r.row \in Seats!Ids \cup {None} /\ r.at \in 0..MaxTime
                                   /\ r.read \in Seats!Row \cup {None}
BY DEF Seats!Row, Seats!Creds, Seats!Redemption

\* The row an identity enrolls as is its own, or one that has gone quiet, or
\* none, and with none that is its own no row carries it.
LEMMA RowChosen ==
    ASSUME NEW uid, NEW n, NEW i \in Seats!RowFor(uid, n)
    PROVE  \/ i \in Seats!Rows /\ machines[i].uid = uid
           \/ /\ \A j \in Seats!Rows : machines[j].uid # uid
              /\ i = None \/ (i \in Seats!Rows /\ machines[i].seen + Stale <= now)
BY DEF Seats!RowFor, Seats!Adoptable

\* The next row to be filled keeps the rows numbered as they come.
LEMMA NextRow ==
    ASSUME Seats!TypeOK, RowsDense, NEW i \in Seats!Ids, i = Seats!Cardinality(Seats!Rows) + 1
    PROVE  i \notin Seats!Rows /\ \E k \in 0..MaxMachines : Seats!Rows \cup {i} = 1..k
<1> USE SeatFacts
<1>1. PICK m \in 0..MaxMachines : Seats!Rows = 1..m
    BY DEF RowsDense
<1>2. Seats!Cardinality(Seats!Rows) = m
    <2>1. Seats!Cardinality(Seats!Rows) = Cardinality(Seats!Rows)
        BY DEF Seats!Cardinality, Cardinality, Seats!IsFiniteSet, IsFiniteSet
    <2>2. Cardinality(1..m) = m
        BY FS_Interval
    <2> QED
        BY <1>1, <2>1, <2>2
<1>3. m + 1 \in 0..MaxMachines /\ i = m + 1 /\ Seats!Rows \cup {i} = 1..(m + 1)
    BY <1>1, <1>2
<1> QED
    BY <1>1, <1>3

\* What a request takes with it.
LEMMA BeginKept ==
    ASSUME Seats!TypeOK, SeatInv, NEW p \in PCs, Seats!BeginEnroll(p)
    PROVE  Seats!TypeOK' /\ SeatInv' /\ machines' = machines
<1> USE SeatFacts, SeatColumns
<1> DEFINE minted == file[p].uid = None
           uid == IF minted THEN serial + 1 ELSE file[p].uid
           f == [uid |-> uid, creds |-> None]
<1>1. /\ file[p].creds = None /\ request[p] = None /\ uid <= MaxSerial
      /\ serial' = IF minted THEN uid ELSE serial
      /\ file' = [file EXCEPT ![p] = f]
      /\ refused' = [refused EXCEPT ![p] = None]
      /\ UNCHANGED <<machines, liveKeys, name, config, raced, now>>
      /\ \E i \in Seats!RowFor(uid, name[p]) :
            request' = [request EXCEPT ![p] =
               [uid |-> uid, name |-> name[p], row |-> i,
                read |-> IF i = None THEN None ELSE machines[i], at |-> now]]
    BY DEF Seats!BeginEnroll
<1>2. /\ uid \in Seats!Serials /\ serial' \in 0..MaxSerial /\ uid <= serial' /\ serial <= serial'
      /\ \/ file[p].uid = None /\ uid = serial + 1
         \/ file[p].uid # None /\ uid = file[p].uid
    BY <1>1 DEF SeatInv, SerialsMinted
<1> HIDE DEF minted, uid
<1>3. PICK i \in Seats!RowFor(uid, name[p]) :
         request' = [request EXCEPT ![p] =
            [uid |-> uid, name |-> name[p], row |-> i,
             read |-> IF i = None THEN None ELSE machines[i], at |-> now]]
    BY <1>1
<1>4. \/ i \in Seats!Rows /\ machines[i].uid = uid
      \/ /\ \A j \in Seats!Rows : machines[j].uid # uid
         /\ i = None \/ (i \in Seats!Rows /\ machines[i].seen + Stale <= now)
    BY RowChosen
<1> DEFINE r == [uid |-> uid, name |-> name[p], row |-> i,
                 read |-> IF i = None THEN None ELSE machines[i], at |-> now]
<1>5. i \in Seats!Ids \cup {None} /\ (i # None => i \in Seats!Rows /\ machines[i] \in Seats!Row)
    BY <1>4
<1>6. /\ r \in Seats!Redemption /\ r # None /\ r.uid = uid /\ r.row = i /\ r.at = now
      /\ i # None => r.read = machines[i] /\ r.read # None
    BY <1>2, <1>5 DEF Seats!Redemption
<1>7. /\ f \in [uid : Seats!Serials \cup {None}, creds : Seats!Creds \cup {None}]
      /\ f.uid = uid /\ f.creds = None /\ uid # None
    BY <1>2
<1>8. request' = [request EXCEPT ![p] = r]
    BY <1>3
<1> HIDE DEF r, f
<1>9. /\ \A o \in PCs : file'[o] = IF o = p THEN f ELSE file[o]
      /\ \A o \in PCs : request'[o] = IF o = p THEN r ELSE request[o]
    BY <1>1, <1>8 DEF Seats!TypeOK
<1>10. Seats!TypeOK'
    <2>1. /\ file' \in [PCs -> [uid : Seats!Serials \cup {None}, creds : Seats!Creds \cup {None}]]
          /\ request' \in [PCs -> Seats!Redemption \cup {None}]
          /\ refused' \in [PCs -> [key : EnrollKeys, at : 0..MaxTime] \cup {None}]
        BY <1>1, <1>6, <1>7, <1>8 DEF Seats!TypeOK
    <2> QED
        BY <1>1, <1>2, <2>1 DEF Seats!TypeOK
<1>11. Seats!Rows' = Seats!Rows
    BY <1>1 DEF Seats!Rows
<1>12. /\ \A o \in PCs : o # p => file[o].uid # uid /\ (request[o] # None => request[o].uid # uid)
       /\ \A j \in Seats!Rows : machines[j].uid = uid => uid = file[p].uid
    <2>1. CASE file[p].uid = None /\ uid = serial + 1
        <3>1. \A q \in Seats!Serials : q <= serial => q # serial + 1
            OBVIOUS
        <3>2. /\ \A j \in Seats!Rows : machines[j].uid # uid
              /\ \A o \in PCs : file[o].uid # uid /\ (request[o] # None => request[o].uid # uid)
            BY <1>2, <1>7, <2>1, <3>1 DEF SeatInv, SerialsMinted, RequestsOpen
        <3> QED
            BY <3>2
    <2>2. CASE file[p].uid # None /\ uid = file[p].uid
        BY <2>2 DEF SeatInv, IdentitiesApart, RequestsOpen
    <2> QED
        BY <1>2, <2>1, <2>2
<1>13. SerialsMinted'
    <2>1. ASSUME NEW o \in PCs
          PROVE  /\ file'[o].uid # None => file'[o].uid <= serial'
                 /\ file'[o].creds # None => file'[o].uid # None /\ file'[o].creds.key <= serial'
        <3>1. CASE o = p
            BY <1>2, <1>7, <1>9, <3>1
        <3>2. CASE o # p
            <4>1. file'[o] = file[o]
                BY <1>9, <3>2
            <4>2. /\ file[o].uid # None => file[o].uid <= serial
                  /\ file[o].creds # None => file[o].uid # None /\ file[o].creds.key <= serial
                BY DEF SeatInv, SerialsMinted
            <4> QED
                BY <1>2, <4>1, <4>2
        <3> QED
            BY <3>1, <3>2
    <2>2. \A j \in Seats!Rows' : machines'[j].uid <= serial' /\ machines'[j].key <= serial'
        BY <1>1, <1>2, <1>11 DEF SeatInv, SerialsMinted
    <2> QED
        BY <2>1, <2>2 DEF SerialsMinted
<1>14. IdentitiesApart' /\ RowsDense' /\ KeysMatch'
    <2>1. IdentitiesApart'
        BY <1>1, <1>7, <1>9, <1>11, <1>12 DEF SeatInv, IdentitiesApart
    <2>2. KeysMatch'
        BY <1>1, <1>7, <1>9 DEF SeatInv, KeysMatch
    <2> QED
        BY <1>11, <2>1, <2>2 DEF SeatInv, RowsDense
<1>15. RequestsOpen'
    <2> SUFFICES ASSUME NEW o \in PCs, request'[o] # None
                 PROVE  /\ file'[o].creds = None /\ request'[o].uid <= serial'
                        /\ request'[o].at <= now'
                        /\ request'[o].row # None =>
                              /\ request'[o].row \in Seats!Rows' /\ request'[o].read # None
                              /\ \/ request'[o].read.uid = request'[o].uid
                                 \/ request'[o].read.seen + Stale <= request'[o].at
                        /\ (request'[o].row = None \/ request'[o].read.uid # request'[o].uid) =>
                              \A j \in Seats!Rows' : machines'[j].uid # request'[o].uid
                        /\ \A q \in PCs : q # o =>
                              /\ file'[q].uid # request'[o].uid
                              /\ request'[q] # None => request'[q].uid # request'[o].uid
        BY DEF RequestsOpen
    <2>1. CASE o = p
        <3>1. request'[o] = r /\ file'[o] = f
            BY <1>9, <2>1
        <3>2. \A q \in PCs : q # o => file'[q] = file[q] /\ request'[q] = request[q]
            BY <1>9, <2>1
        <3>3. r.row # None =>
                 r.row \in Seats!Rows /\ r.read # None /\ (r.read.uid = uid \/ r.read.seen + Stale <= r.at)
            BY <1>4, <1>6
        <3>4. (r.row = None \/ r.read.uid # uid) => \A j \in Seats!Rows : machines[j].uid # uid
            BY <1>4, <1>6
        <3> QED
            BY <1>1, <1>2, <1>6, <1>7, <1>11, <1>12, <2>1, <3>1, <3>2, <3>3, <3>4
    <2>2. CASE o # p
        <3>1. request'[o] = request[o] /\ file'[o] = file[o] /\ request[o].uid # uid
            BY <1>9, <1>12, <2>2
        <3>2. request[o].uid <= serial'
            BY <1>2, <3>1 DEF SeatInv, RequestsOpen
        <3>3. \A q \in PCs : q # o => /\ file'[q].uid # request[o].uid
                                      /\ request'[q] # None => request'[q].uid # request[o].uid
            BY <1>6, <1>7, <1>9, <2>2, <3>1 DEF SeatInv, RequestsOpen
        <3> QED
            BY <1>1, <1>11, <3>1, <3>2, <3>3 DEF SeatInv, RequestsOpen
    <2> QED
        BY <2>1, <2>2
<1> QED
    BY <1>1, <1>10, <1>13, <1>14, <1>15 DEF SeatInv

\* What a commit writes: the row the request holds or the next one, under the
\* identity of the request unless the row was read as its own.
LEMMA CommitWrites ==
    ASSUME Seats!TypeOK, SeatInv, NEW p \in PCs, NEW answered \in BOOLEAN,
           Seats!CommitEnroll(p, answered)
    PROVE  /\ request[p] # None /\ file[p].creds = None
           /\ serial' = serial + 1 /\ serial' \in Seats!Serials
           /\ answered => file[p].uid = request[p].uid
           /\ request' = [request EXCEPT ![p] = None]
           /\ UNCHANGED <<liveKeys, name, config, refused, now>>
           /\ \E i \in Seats!Ids, q \in Seats!Row :
                 /\ machines' = [machines EXCEPT ![i] = q]
                 /\ file' = IF answered
                            THEN [file EXCEPT ![p] = [uid |-> request[p].uid,
                                                      creds |-> [id |-> i, key |-> serial']]]
                            ELSE file
                 /\ q.key = serial'
                 /\ IF request[p].row = None
                    THEN i \notin Seats!Rows /\ q.uid = request[p].uid
                    ELSE /\ i = request[p].row /\ i \in Seats!Rows
                         /\ q.uid = IF request[p].read.uid = request[p].uid
                                    THEN machines[i].uid ELSE request[p].uid
                 /\ \E k \in 0..MaxMachines : Seats!Rows \cup {i} = 1..k
                 /\ raced \subseteq raced' /\ raced' \subseteq raced \cup {i}
                 /\ i \in Seats!Rows /\ i \notin raced' =>
                       /\ machines[i].uid = request[p].read.uid
                       /\ machines[i].seen = request[p].read.seen
<1> USE SeatFacts, SeatColumns
<1> DEFINE r == request[p]
           key == serial + 1
           q == Seats!Enrolled(r, key)
<1>1. /\ r # None /\ serial < MaxSerial /\ (answered => file[p].uid = r.uid)
      /\ serial' = serial + 1 /\ request' = [request EXCEPT ![p] = None]
      /\ UNCHANGED <<liveKeys, name, config, refused, now>>
      /\ \E i \in Seats!Ids :
            /\ i = IF r.row = None THEN Seats!Cardinality(Seats!Rows) + 1 ELSE r.row
            /\ machines' = [machines EXCEPT ![i] = q]
            /\ file' = IF answered
                       THEN [file EXCEPT ![p] = [uid |-> r.uid, creds |-> [id |-> i, key |-> key]]]
                       ELSE file
            /\ raced' = IF Seats!Overtaken(r) THEN raced \cup {i} ELSE raced
    BY DEF Seats!CommitEnroll
<1>2. /\ r \in Seats!Redemption /\ key \in Seats!Serials /\ file[p].creds = None
      /\ r.row # None => r.row \in Seats!Rows /\ r.read # None
    BY <1>1 DEF SeatInv, RequestsOpen
<1>3. PICK i \in Seats!Ids :
            /\ i = IF r.row = None THEN Seats!Cardinality(Seats!Rows) + 1 ELSE r.row
            /\ machines' = [machines EXCEPT ![i] = q]
            /\ file' = IF answered
                       THEN [file EXCEPT ![p] = [uid |-> r.uid, creds |-> [id |-> i, key |-> key]]]
                       ELSE file
            /\ raced' = IF Seats!Overtaken(r) THEN raced \cup {i} ELSE raced
    BY <1>1
<1>4. /\ q \in Seats!Row /\ q.key = key
      /\ r.row = None => q.uid = r.uid
      /\ r.row # None => q.uid = IF r.read.uid = r.uid THEN machines[r.row].uid ELSE r.uid
    <2>1. CASE r.row = None
        BY <1>2, <2>1 DEF Seats!Enrolled, Seats!Row
    <2>2. CASE r.row # None
        <3>1. machines[r.row] \in Seats!Row /\ r.read \in Seats!Row
            BY <1>2, <2>2
        <3> DEFINE old == machines[r.row]
                   read == r.read
        <3>2. q = [uid    |-> IF r.uid = read.uid THEN old.uid ELSE r.uid,
                   name   |-> IF r.name = read.name THEN old.name ELSE r.name,
                   key    |-> key,
                   seen   |-> IF r.at = read.seen THEN old.seen ELSE r.at,
                   active |-> IF TRUE = read.active THEN old.active ELSE TRUE]
            BY <2>2 DEF Seats!Enrolled, Seats!Column
        <3> HIDE DEF q
        <3>3. /\ (IF r.uid = read.uid THEN old.uid ELSE r.uid) \in Seats!Serials
              /\ (IF r.name = read.name THEN old.name ELSE r.name) \in ComputerNames
              /\ (IF r.at = read.seen THEN old.seen ELSE r.at) \in 0..MaxTime
              /\ (IF TRUE = read.active THEN old.active ELSE TRUE) \in BOOLEAN
            BY <1>2, <3>1
        <3>4. q \in Seats!Row
            BY <1>2, <3>2, <3>3 DEF Seats!Row
        <3>5. q.key = key /\ q.uid = IF r.uid = read.uid THEN old.uid ELSE r.uid
            BY <3>2
        <3> QED
            BY <2>2, <3>4, <3>5
    <2> QED
        BY <2>1, <2>2
<1>5. CASE r.row = None
    <2>1. i \notin Seats!Rows /\ \E k \in 0..MaxMachines : Seats!Rows \cup {i} = 1..k
        BY <1>3, <1>5, NextRow DEF SeatInv
    <2>2. ~ Seats!Overtaken(r)
        BY <1>5 DEF Seats!Overtaken
    <2> HIDE DEF q, r, key
    <2>3. raced' = raced
        BY <1>3, <2>2
    <2>4. q.uid = r.uid
        BY <1>4, <1>5
    <2> QED
        BY <1>1, <1>2, <1>3, <1>4, <1>5, <2>1, <2>3, <2>4 DEF r, key
<1>6. CASE r.row # None
    <2>1. /\ i = r.row /\ i \in Seats!Rows
          /\ \E k \in 0..MaxMachines : Seats!Rows \cup {i} = 1..k
        <3>1. i = r.row /\ i \in Seats!Rows
            BY <1>2, <1>3, <1>6
        <3> QED
            BY <3>1 DEF SeatInv, RowsDense
    <2>2. i \notin raced' => machines[i].uid = r.read.uid /\ machines[i].seen = r.read.seen
        BY <1>3, <1>6, <2>1 DEF Seats!Overtaken
    <2> HIDE DEF q, r, key
    <2>3. raced \subseteq raced' /\ raced' \subseteq raced \cup {i}
        BY <1>3
    <2>4. /\ machines' = [machines EXCEPT ![i] = q] /\ q \in Seats!Row /\ q.key = serial'
          /\ q.uid = IF r.read.uid = r.uid THEN machines[i].uid ELSE r.uid
        BY <1>1, <1>3, <1>4, <1>6, <2>1 DEF key
    <2> QED
        BY <1>1, <1>2, <1>3, <1>4, <1>6, <2>1, <2>2, <2>3, <2>4 DEF r, key
<1> QED
    BY <1>5, <1>6

\* What a commit leaves.
LEMMA CommitKept ==
    ASSUME Seats!TypeOK, SeatInv, NEW p \in PCs, NEW answered \in BOOLEAN,
           Seats!CommitEnroll(p, answered)
    PROVE  Seats!TypeOK' /\ SeatInv'
<1> USE SeatFacts, SeatColumns
<1>1. /\ request[p] # None /\ file[p].creds = None
      /\ serial' = serial + 1 /\ serial' \in Seats!Serials
      /\ answered => file[p].uid = request[p].uid
      /\ request' = [request EXCEPT ![p] = None]
      /\ UNCHANGED <<liveKeys, name, config, refused, now>>
    BY CommitWrites
<1>2. PICK i \in Seats!Ids, q \in Seats!Row :
         /\ machines' = [machines EXCEPT ![i] = q]
         /\ file' = IF answered
                    THEN [file EXCEPT ![p] = [uid |-> request[p].uid,
                                              creds |-> [id |-> i, key |-> serial']]]
                    ELSE file
         /\ q.key = serial'
         /\ IF request[p].row = None
            THEN i \notin Seats!Rows /\ q.uid = request[p].uid
            ELSE /\ i = request[p].row /\ i \in Seats!Rows
                 /\ q.uid = IF request[p].read.uid = request[p].uid
                            THEN machines[i].uid ELSE request[p].uid
         /\ \E k \in 0..MaxMachines : Seats!Rows \cup {i} = 1..k
         /\ raced \subseteq raced' /\ raced' \subseteq raced \cup {i}
         /\ i \in Seats!Rows /\ i \notin raced' =>
               /\ machines[i].uid = request[p].read.uid
               /\ machines[i].seen = request[p].read.seen
    BY CommitWrites
<1> DEFINE uid == request[p].uid
           c == [id |-> i, key |-> serial']
           f == [uid |-> uid, creds |-> c]
<1>3. /\ f \in [uid : Seats!Serials \cup {None}, creds : Seats!Creds \cup {None}]
      /\ f.uid = uid /\ f.creds = c /\ c # None /\ c.id = i /\ c.key = serial'
      /\ uid \in Seats!Serials /\ uid <= serial /\ q # None
    BY <1>1 DEF Seats!Creds, SeatInv, RequestsOpen
<1>4. file' = IF answered THEN [file EXCEPT ![p] = f] ELSE file
    BY <1>2
<1> HIDE DEF uid, c, f
<1>5. /\ \A j \in Seats!Ids : machines'[j] = IF j = i THEN q ELSE machines[j]
      /\ \A o \in PCs : file'[o] = IF o = p /\ answered THEN f ELSE file[o]
      /\ \A o \in PCs : request'[o] = IF o = p THEN None ELSE request[o]
    BY <1>1, <1>2, <1>4 DEF Seats!TypeOK
<1>6. Seats!TypeOK'
    <2>1. machines' \in [Seats!Ids -> Seats!Row \cup {None}]
        BY <1>2 DEF Seats!TypeOK
    <2>2. file' \in [PCs -> [uid : Seats!Serials \cup {None}, creds : Seats!Creds \cup {None}]]
        BY <1>3, <1>4 DEF Seats!TypeOK
    <2>3. request' \in [PCs -> Seats!Redemption \cup {None}] /\ raced' \subseteq Seats!Ids
        BY <1>1, <1>2 DEF Seats!TypeOK
    <2> QED
        BY <1>1, <2>1, <2>2, <2>3 DEF Seats!TypeOK
<1>7. Seats!Rows' = Seats!Rows \cup {i}
    BY <1>3, <1>5 DEF Seats!Rows
<1>8. RowsDense'
    BY <1>2, <1>7 DEF RowsDense
<1>9. /\ q.uid = uid \/ (i \in Seats!Rows /\ q.uid = machines[i].uid)
      /\ \A j \in Seats!Rows : j # i => machines[j].uid # q.uid
    <2>1. CASE request[p].row = None \/ request[p].read.uid # request[p].uid
        <3>1. q.uid = uid
            BY <1>2, <2>1 DEF uid
        <3>2. \A j \in Seats!Rows : machines[j].uid # uid
            BY <1>1, <2>1 DEF SeatInv, RequestsOpen, uid
        <3> QED
            BY <3>1, <3>2
    <2>2. CASE request[p].row # None /\ request[p].read.uid = request[p].uid
        <3>1. i \in Seats!Rows /\ q.uid = machines[i].uid
            BY <1>2, <2>2
        <3> QED
            BY <3>1 DEF SeatInv, IdentitiesApart
    <2> QED
        BY <2>1, <2>2
<1>10. q.uid \in Seats!Serials /\ q.uid <= serial
    BY <1>3, <1>9 DEF SeatInv, SerialsMinted
<1>11. SerialsMinted'
    <2>1. ASSUME NEW j \in Seats!Rows'
          PROVE  machines'[j].uid <= serial' /\ machines'[j].key <= serial'
        <3>1. CASE j = i
            BY <1>1, <1>2, <1>5, <1>10, <3>1
        <3>2. CASE j # i
            <4>1. /\ machines'[j] = machines[j] /\ machines[j] \in Seats!Row
                  /\ machines[j].uid <= serial /\ machines[j].key <= serial
                BY <1>5, <1>7, <2>1, <3>2 DEF SeatInv, SerialsMinted
            <4> QED
                BY <1>1, <4>1
        <3> QED
            BY <3>1, <3>2
    <2>2. ASSUME NEW o \in PCs
          PROVE  /\ file'[o].uid # None => file'[o].uid <= serial'
                 /\ file'[o].creds # None => file'[o].uid # None /\ file'[o].creds.key <= serial'
        <3>1. CASE o = p /\ answered
            BY <1>1, <1>3, <1>5, <3>1
        <3>2. CASE ~ (o = p /\ answered)
            <4>1. file'[o] = file[o]
                BY <1>5, <3>2
            <4>2. /\ file[o].uid # None => file[o].uid <= serial
                  /\ file[o].creds # None => file[o].uid # None /\ file[o].creds.key <= serial
                BY DEF SeatInv, SerialsMinted
            <4> QED
                BY <1>1, <4>1, <4>2
        <3> QED
            BY <3>1, <3>2
    <2> QED
        BY <2>1, <2>2 DEF SerialsMinted
<1>12. \A o \in PCs : file'[o].uid = file[o].uid
    BY <1>1, <1>3, <1>5 DEF uid
<1>13. IdentitiesApart'
    <2>1. \A j, k \in Seats!Rows' : machines'[j].uid = machines'[k].uid => j = k
        <3>1. \A j \in Seats!Rows' : j \in Seats!Ids /\ (j # i => j \in Seats!Rows)
            BY <1>7
        <3>2. \A j \in Seats!Rows' : machines'[j].uid = q.uid <=> j = i
            BY <1>5, <1>9, <3>1
        <3> QED
            BY <1>5, <3>1, <3>2 DEF SeatInv, IdentitiesApart
    <2>2. \A a, b \in PCs : file'[a].uid # None /\ file'[a].uid = file'[b].uid => a = b
        BY <1>12 DEF SeatInv, IdentitiesApart
    <2> QED
        BY <2>1, <2>2 DEF IdentitiesApart
<1>14. KeysMatch'
    <2> SUFFICES ASSUME NEW o \in PCs, file'[o].creds # None, file'[o].creds.id \notin raced',
                        machines'[file'[o].creds.id] # None,
                        machines'[file'[o].creds.id].key = file'[o].creds.key
                 PROVE  machines'[file'[o].creds.id].uid = file'[o].uid
        BY DEF KeysMatch
    <2>1. CASE o = p /\ answered
        <3>1. file'[o].creds.id = i /\ file'[o].uid = uid /\ machines'[i] = q
            BY <1>3, <1>5, <2>1
        <3>2. q.uid = uid
            <4>1. CASE request[p].row = None \/ request[p].read.uid # request[p].uid
                BY <1>2, <4>1 DEF uid
            <4>2. CASE request[p].row # None /\ request[p].read.uid = request[p].uid
                <5>1. i \in Seats!Rows /\ i \notin raced' /\ q.uid = machines[i].uid
                    BY <1>2, <3>1, <4>2
                <5> QED
                    BY <1>2, <4>2, <5>1 DEF uid
            <4> QED
                BY <4>1, <4>2
        <3> QED
            BY <3>1, <3>2
    <2>2. CASE ~ (o = p /\ answered)
        <3>1. file'[o] = file[o] /\ file[o].creds \in Seats!Creds /\ file[o].creds.key <= serial
            BY <1>5, <2>2 DEF SeatInv, SerialsMinted
        <3>2. file[o].creds.id # i
            BY <1>1, <1>2, <1>5, <3>1
        <3>3. file[o].creds.id \in Seats!Ids /\ file[o].creds.id \notin raced
            BY <1>2, <3>1
        <3>4. machines'[file[o].creds.id] = machines[file[o].creds.id]
            BY <1>5, <3>2, <3>3
        <3>5. machines[file[o].creds.id].uid = file[o].uid
            BY <3>1, <3>3, <3>4 DEF SeatInv, KeysMatch
        <3> QED
            BY <3>1, <3>4, <3>5
    <2> QED
        BY <2>1, <2>2
<1>15. RequestsOpen'
    <2> SUFFICES ASSUME NEW o \in PCs, request'[o] # None
                 PROVE  /\ file'[o].creds = None /\ request'[o].uid <= serial'
                        /\ request'[o].at <= now'
                        /\ request'[o].row # None =>
                              /\ request'[o].row \in Seats!Rows' /\ request'[o].read # None
                              /\ \/ request'[o].read.uid = request'[o].uid
                                 \/ request'[o].read.seen + Stale <= request'[o].at
                        /\ (request'[o].row = None \/ request'[o].read.uid # request'[o].uid) =>
                              \A j \in Seats!Rows' : machines'[j].uid # request'[o].uid
                        /\ \A b \in PCs : b # o =>
                              /\ file'[b].uid # request'[o].uid
                              /\ request'[b] # None => request'[b].uid # request'[o].uid
        BY DEF RequestsOpen
    <2>1. o # p /\ request'[o] = request[o] /\ file'[o] = file[o] /\ request[o] # None
        BY <1>5
    <2>2. /\ request[o].uid <= serial /\ request[o].uid \in Seats!Serials /\ request[o].uid # uid
          /\ file[o].creds = None /\ request[o].at <= now
          /\ request[o].row # None =>
                /\ request[o].row \in Seats!Rows /\ request[o].read # None
                /\ \/ request[o].read.uid = request[o].uid
                   \/ request[o].read.seen + Stale <= request[o].at
          /\ (request[o].row = None \/ request[o].read.uid # request[o].uid) =>
                \A j \in Seats!Rows : machines[j].uid # request[o].uid
          /\ \A b \in PCs : b # o => /\ file[b].uid # request[o].uid
                                     /\ request[b] # None => request[b].uid # request[o].uid
        BY <1>1, <2>1 DEF SeatInv, RequestsOpen, uid
    <2>3. request[o].uid <= serial'
        BY <1>1, <2>2
    <2>4. (request[o].row = None \/ request[o].read.uid # request[o].uid) =>
             \A j \in Seats!Rows' : machines'[j].uid # request[o].uid
        <3> SUFFICES ASSUME request[o].row = None \/ request[o].read.uid # request[o].uid,
                            NEW j \in Seats!Rows'
                     PROVE  machines'[j].uid # request[o].uid
            OBVIOUS
        <3>1. CASE j = i
            BY <1>5, <1>9, <2>2, <3>1
        <3>2. CASE j # i
            BY <1>5, <1>7, <2>2, <3>2
        <3> QED
            BY <3>1, <3>2
    <2>5. \A b \in PCs : b # o => /\ file'[b].uid # request[o].uid
                                  /\ request'[b] # None => request'[b].uid # request[o].uid
        BY <1>5, <1>12, <2>2
    <2> QED
        BY <1>1, <1>7, <2>1, <2>2, <2>3, <2>4, <2>5
<1> QED
    BY <1>6, <1>8, <1>11, <1>13, <1>14, <1>15 DEF SeatInv

\* Steps that leave the files and what identifies the rows as they are.
LEMMA RowsKept ==
    ASSUME Seats!TypeOK, SeatInv, machines' \in [Seats!Ids -> Seats!Row \cup {None}],
           UNCHANGED <<file, serial, request, raced>>, now' \in 0..MaxTime, now <= now',
           Seats!Rows' = Seats!Rows,
           \A j \in Seats!Rows : machines'[j].uid = machines[j].uid /\ machines'[j].key = machines[j].key
    PROVE  SeatInv'
<1> USE SeatFacts, SeatColumns
<1>1. RowsDense' /\ SerialsMinted' /\ IdentitiesApart'
    <2>1. RowsDense'
        BY DEF SeatInv, RowsDense
    <2>2. SerialsMinted'
        BY DEF SeatInv, SerialsMinted
    <2>3. IdentitiesApart'
        BY DEF SeatInv, IdentitiesApart
    <2> QED
        BY <2>1, <2>2, <2>3
<1>2. ASSUME NEW o \in PCs, file[o].creds # None, file[o].creds.id \notin raced,
             machines'[file[o].creds.id] # None,
             machines'[file[o].creds.id].key = file[o].creds.key
      PROVE  machines'[file[o].creds.id].uid = file[o].uid
    <2>1. file[o].creds.id \in Seats!Ids
        BY <1>2
    <2>2. file[o].creds.id \in Seats!Rows
        BY <1>2, <2>1 DEF Seats!Rows
    <2>3. machines[file[o].creds.id] # None
        BY <2>2 DEF Seats!Rows
    <2> QED
        BY <1>2, <2>2, <2>3 DEF SeatInv, KeysMatch
<1>3. RequestsOpen'
    <2>1. ASSUME NEW o \in PCs, request[o] # None PROVE request[o].at <= now'
        <3>1. request[o].at \in Nat /\ now \in Nat /\ now' \in Nat /\ request[o].at <= now
            BY <2>1 DEF SeatInv, RequestsOpen
        <3> QED
            BY <3>1
    <2>2. ASSUME NEW o \in PCs, request[o] # None,
                 request[o].row = None \/ request[o].read.uid # request[o].uid,
                 NEW j \in Seats!Rows'
          PROVE  machines'[j].uid # request[o].uid
        <3>1. j \in Seats!Rows /\ machines'[j].uid = machines[j].uid
            BY <2>2
        <3>2. \A k \in Seats!Rows : machines[k].uid # request[o].uid
            BY <2>2 DEF SeatInv, RequestsOpen
        <3> QED
            BY <3>1, <3>2
    <2>3. request' = request /\ file' = file /\ serial' = serial /\ Seats!Rows' = Seats!Rows
        OBVIOUS
    <2>4. \A o \in PCs : request[o] # None =>
             /\ file[o].creds = None /\ request[o].uid <= serial
             /\ request[o].row # None =>
                   /\ request[o].row \in Seats!Rows /\ request[o].read # None
                   /\ \/ request[o].read.uid = request[o].uid
                      \/ request[o].read.seen + Stale <= request[o].at
             /\ \A q \in PCs : q # o => /\ file[q].uid # request[o].uid
                                        /\ request[q] # None => request[q].uid # request[o].uid
        BY DEF SeatInv, RequestsOpen
    <2> HIDE SeatFacts, SeatColumns
    <2> QED
        BY <2>1, <2>2, <2>3, <2>4 DEF RequestsOpen
<1> QED
    BY <1>1, <1>2, <1>3 DEF SeatInv, KeysMatch

\* Steps that leave the rows as they are and blank one file.
LEMMA FileBlanked ==
    ASSUME Seats!TypeOK, SeatInv, NEW p \in PCs, file' = [file EXCEPT ![p] = Seats!Blank],
           UNCHANGED <<machines, serial, request, raced, now>>
    PROVE  /\ file' \in [PCs -> [uid : Seats!Serials \cup {None}, creds : Seats!Creds \cup {None}]]
           /\ SeatInv'
<1> USE SeatFacts
<1>1. /\ Seats!Blank \in [uid : Seats!Serials \cup {None}, creds : Seats!Creds \cup {None}]
      /\ Seats!Blank.uid = None /\ Seats!Blank.creds = None
    BY DEF Seats!Blank
<1>2. file' \in [PCs -> [uid : Seats!Serials \cup {None}, creds : Seats!Creds \cup {None}]]
    BY <1>1 DEF Seats!TypeOK
<1>3. \A o \in PCs : file'[o] = IF o = p THEN Seats!Blank ELSE file[o]
    BY DEF Seats!TypeOK
<1>4. Seats!Rows' = Seats!Rows
    BY DEF Seats!Rows
<1>5. RequestsOpen'
    <2>1. request' = request /\ machines' = machines /\ serial' = serial /\ now' = now
        OBVIOUS
    <2>2. \A o, q \in PCs : request[o] # None /\ q # o => file'[q].uid # request[o].uid
        <3>1. \A o \in PCs : request[o] # None => request[o].uid # None
            BY SeatColumns
        <3> QED
            BY <1>1, <1>3, <3>1 DEF SeatInv, RequestsOpen
    <2>3. \A o \in PCs : request[o] # None => file'[o].creds = None
        BY <1>1, <1>3 DEF SeatInv, RequestsOpen
    <2> QED
        BY <1>4, <2>1, <2>2, <2>3 DEF SeatInv, RequestsOpen
<1> QED
    BY <1>1, <1>2, <1>3, <1>4, <1>5 DEF SeatInv, RowsDense, SerialsMinted, IdentitiesApart, KeysMatch

LEMMA RefusalKept ==
    ASSUME Seats!TypeOK, SeatInv, NEW p \in PCs, Seats!EnrollRefused(p)
    PROVE  Seats!TypeOK' /\ SeatInv'
<1> USE SeatFacts
<1>1. /\ file[p].creds = None /\ request[p] = None
      /\ refused' = [refused EXCEPT ![p] = [key |-> config[p], at |-> now]]
      /\ UNCHANGED <<machines, liveKeys, name, config, request, raced, now>>
    BY DEF Seats!EnrollRefused
<1>2. refused' \in [PCs -> [key : EnrollKeys, at : 0..MaxTime] \cup {None}]
    BY <1>1 DEF Seats!TypeOK
<1>3. Seats!Rows' = Seats!Rows
    BY <1>1 DEF Seats!Rows
<1>4. CASE file[p].uid = None
    <2> DEFINE f == [file[p] EXCEPT !.uid = serial + 1]
    <2>1. file[p] \in [uid : Seats!Serials \cup {None}, creds : Seats!Creds \cup {None}]
        BY DEF Seats!TypeOK
    <2>2. /\ serial < MaxSerial /\ serial' = serial + 1
          /\ file' = [file EXCEPT ![p].uid = serial + 1]
        BY <1>4 DEF Seats!EnrollRefused
    <2>3. file'[p] = f
        BY <2>2 DEF Seats!TypeOK
    <2>4. \A o \in PCs : o # p => file'[o] = file[o]
        BY <2>2 DEF Seats!TypeOK
    <2>5. serial + 1 \in Seats!Serials /\ serial' \in 0..MaxSerial
        BY <2>2
    <2>6. /\ f \in [uid : Seats!Serials \cup {None}, creds : Seats!Creds \cup {None}]
          /\ f.uid = serial + 1 /\ f.creds = None
        BY <1>1, <2>1, <2>5
    <2> HIDE DEF f
    <2>7. file' = [o \in PCs |-> file'[o]]
        BY <2>2 DEF Seats!TypeOK
    <2>8. file' \in [PCs -> [uid : Seats!Serials \cup {None}, creds : Seats!Creds \cup {None}]]
        <3>1. \A o \in PCs : file'[o] \in [uid : Seats!Serials \cup {None},
                                           creds : Seats!Creds \cup {None}]
            BY <2>3, <2>4, <2>6 DEF Seats!TypeOK
        <3> QED
            BY <2>7, <3>1
    <2>9. Seats!TypeOK'
        BY <1>1, <1>2, <2>5, <2>8 DEF Seats!TypeOK
    <2>10. SerialsMinted'
        <3>1. \A i \in Seats!Rows' : machines'[i].uid <= serial' /\ machines'[i].key <= serial'
            BY <1>1, <1>3, <2>2, SeatColumns DEF SeatInv, SerialsMinted
        <3>2. ASSUME NEW o \in PCs
              PROVE  /\ file'[o].uid # None => file'[o].uid <= serial'
                     /\ file'[o].creds # None => file'[o].uid # None /\ file'[o].creds.key <= serial'
            <4>1. CASE o = p
                BY <2>2, <2>3, <2>6, <4>1
            <4>2. CASE o # p
                BY <2>2, <2>4, <4>2, SeatColumns DEF SeatInv, SerialsMinted
            <4> QED
                BY <4>1, <4>2
        <3> QED
            BY <3>1, <3>2 DEF SerialsMinted
    <2>11. IdentitiesApart'
        <3>1. \A o \in PCs : file[o].uid # serial + 1
            <4>1. serial \in Nat /\ \A q \in Seats!Serials : q <= serial => q # serial + 1
                OBVIOUS
            <4>2. \A o \in PCs : file[o].uid = None \/ file[o].uid <= serial
                BY DEF SeatInv, SerialsMinted
            <4> QED
                BY <2>5, <4>1, <4>2
        <3> QED
            BY <1>1, <1>3, <2>3, <2>4, <2>6, <3>1 DEF SeatInv, IdentitiesApart
    <2>12. RowsDense' /\ KeysMatch'
        BY <1>1, <1>3, <2>3, <2>4, <2>6 DEF SeatInv, RowsDense, KeysMatch
    <2>13. RequestsOpen'
        <3>1. /\ serial \in Nat /\ \A q \in Seats!Serials : q <= serial => q # serial + 1
              /\ \A q \in Seats!Serials : q <= serial => q <= serial'
            BY <2>2
        <3>2. \A o \in PCs : request[o] # None =>
                 request[o].uid # serial + 1 /\ request[o].uid <= serial'
            BY <3>1, SeatColumns DEF SeatInv, RequestsOpen
        <3> QED
            BY <1>1, <1>3, <2>3, <2>4, <2>6, <3>2 DEF SeatInv, RequestsOpen
    <2> QED
        BY <2>9, <2>10, <2>11, <2>12, <2>13 DEF SeatInv
<1>5. CASE file[p].uid # None
    <2>1. UNCHANGED <<serial, file>>
        BY <1>5 DEF Seats!EnrollRefused
    <2> QED
        BY <1>1, <1>2, <1>3, <2>1, RowsKept DEF Seats!TypeOK
<1> QED
    BY <1>4, <1>5

LEMMA CheckInKept ==
    ASSUME Seats!TypeOK, SeatInv, NEW p \in PCs, Seats!CheckIn(p)
    PROVE  /\ Seats!TypeOK' /\ SeatInv'
           /\ \A j \in Seats!Rows : machines'[j].uid = machines[j].uid
                                    /\ machines'[j].key = machines[j].key
<1> USE SeatFacts
<1> DEFINE i == file[p].creds.id
           q == [machines[i] EXCEPT !.seen = now, !.name = name[p]]
<1>1. /\ file[p].creds # None /\ machines[i] # None
      /\ UNCHANGED <<liveKeys, name, config, file, refused, request, raced, serial, now>>
      /\ machines' = [machines EXCEPT ![i].seen = now, ![i].name = name[p]]
    BY DEF Seats!CheckIn, Seats!Authentic
<1>2. i \in Seats!Ids
    BY <1>1, SeatColumns
<1>3. i \in Seats!Rows /\ machines[i] \in Seats!Row
    BY <1>1, <1>2 DEF Seats!Rows
<1>4. /\ q \in Seats!Row /\ q.uid = machines[i].uid /\ q.key = machines[i].key
    BY <1>3 DEF Seats!Row
<1>5. machines'[i] = q
    BY <1>1, <1>2 DEF Seats!TypeOK
<1>6. \A j \in Seats!Ids : j # i => machines'[j] = machines[j]
    BY <1>1, <1>2 DEF Seats!TypeOK
<1>7. machines' = [j \in Seats!Ids |-> machines'[j]]
    BY <1>1, <1>2 DEF Seats!TypeOK
<1> HIDE DEF i, q
<1>8. machines' \in [Seats!Ids -> Seats!Row \cup {None}]
    <2>1. \A j \in Seats!Ids : machines'[j] \in Seats!Row \cup {None}
        BY <1>4, <1>5, <1>6 DEF Seats!TypeOK
    <2> QED
        BY <1>7, <2>1
<1>9. Seats!Rows' = Seats!Rows
    BY <1>2, <1>3, <1>4, <1>5, <1>6 DEF Seats!Rows
<1>10. \A j \in Seats!Rows : machines'[j].uid = machines[j].uid
                             /\ machines'[j].key = machines[j].key
    BY <1>4, <1>5, <1>6
<1>11. now' \in 0..MaxTime /\ now <= now'
    BY <1>1
<1>12. SeatInv'
    BY <1>1, <1>8, <1>9, <1>10, <1>11, RowsKept
<1>13. Seats!TypeOK'
    BY <1>1, <1>8 DEF Seats!TypeOK
<1> QED
    BY <1>10, <1>12, <1>13

LEMMA ActiveKept ==
    ASSUME Seats!TypeOK, SeatInv, NEW i \in Seats!Ids, NEW b \in BOOLEAN,
           Seats!SetMachineActive(i, b)
    PROVE  /\ Seats!TypeOK' /\ SeatInv'
           /\ \A j \in Seats!Rows : machines'[j].uid = machines[j].uid
                                    /\ machines'[j].key = machines[j].key
<1> USE SeatFacts
<1> DEFINE q == [machines[i] EXCEPT !.active = b]
<1>1. /\ i \in Seats!Rows /\ machines[i] \in Seats!Row
      /\ UNCHANGED <<liveKeys, name, config, file, refused, request, raced, serial, now>>
      /\ machines' = [machines EXCEPT ![i].active = b]
    BY DEF Seats!SetMachineActive
<1>2. machines' = [machines EXCEPT ![i] = q]
    BY <1>1 DEF Seats!TypeOK
<1>3. q \in Seats!Row /\ q.uid = machines[i].uid /\ q.key = machines[i].key
    BY <1>1 DEF Seats!Row
<1> HIDE DEF q
<1>4. \A j \in Seats!Ids : machines'[j] = IF j = i THEN q ELSE machines[j]
    BY <1>2 DEF Seats!TypeOK
<1>5. machines' \in [Seats!Ids -> Seats!Row \cup {None}]
    BY <1>2, <1>3 DEF Seats!TypeOK
<1>6. Seats!Rows' = Seats!Rows
    BY <1>1, <1>3, <1>4 DEF Seats!Rows
<1>7. \A j \in Seats!Rows : machines'[j].uid = machines[j].uid
                            /\ machines'[j].key = machines[j].key
    BY <1>3, <1>4
<1> QED
    BY <1>1, <1>5, <1>6, <1>7, RowsKept DEF Seats!TypeOK

LEMMA SeatStepKept ==
    ASSUME Seats!TypeOK, SeatInv, [Seats!Next]_seatVars
    PROVE  Seats!TypeOK' /\ SeatInv'
<1> USE SeatFacts
<1>1. ASSUME machines' = machines, UNCHANGED <<file, serial, request, raced>>,
             now' \in 0..MaxTime, now <= now'
      PROVE  SeatInv'
    <2>1. Seats!Rows' = Seats!Rows
        BY <1>1 DEF Seats!Rows
    <2> QED
        BY <1>1, <2>1, RowsKept DEF Seats!TypeOK
<1>2. CASE UNCHANGED seatVars
    BY <1>1, <1>2 DEF seatVars, Seats!TypeOK
<1>3. ASSUME NEW p \in PCs, Seats!Reimage(p) \/ Seats!LoseFile(p)
      PROVE  Seats!TypeOK' /\ SeatInv'
    <2>1. /\ file' = [file EXCEPT ![p] = Seats!Blank]
          /\ refused' = refused \/ refused' = [refused EXCEPT ![p] = None]
          /\ UNCHANGED <<machines, liveKeys, name, config, request, raced, serial, now>>
        BY <1>3 DEF Seats!Reimage, Seats!LoseFile
    <2>2. refused' \in [PCs -> [key : EnrollKeys, at : 0..MaxTime] \cup {None}]
        BY <2>1 DEF Seats!TypeOK
    <2> QED
        BY <2>1, <2>2, FileBlanked DEF Seats!TypeOK
<1>4. ASSUME NEW p \in PCs, NEW k \in EnrollKeys, Seats!Reinstall(p, k)
      PROVE  Seats!TypeOK' /\ SeatInv'
    BY <1>1, <1>4 DEF Seats!Reinstall, Seats!TypeOK
<1>5. ASSUME NEW p \in PCs, NEW n \in ComputerNames, Seats!Rename(p, n)
      PROVE  Seats!TypeOK' /\ SeatInv'
    BY <1>1, <1>5 DEF Seats!Rename, Seats!TypeOK
<1>6. ASSUME NEW k \in EnrollKeys, Seats!RevokeKey(k)
      PROVE  Seats!TypeOK' /\ SeatInv'
    BY <1>1, <1>6 DEF Seats!RevokeKey, Seats!TypeOK
<1>7. CASE Seats!Tick
    BY <1>1, <1>7 DEF Seats!Tick, Seats!TypeOK
<1>8. ASSUME NEW p \in PCs, Seats!EnrollLost(p)
      PROVE  Seats!TypeOK' /\ SeatInv'
    <2>1. /\ request' = [request EXCEPT ![p] = None]
          /\ UNCHANGED <<machines, liveKeys, name, config, file, refused, raced, serial, now>>
        BY <1>8 DEF Seats!EnrollLost
    <2>2. request' \in [PCs -> Seats!Redemption \cup {None}]
        BY <2>1 DEF Seats!TypeOK
    <2>3. \A o \in PCs : request'[o] = IF o = p THEN None ELSE request[o]
        BY <2>1 DEF Seats!TypeOK
    <2>4. Seats!Rows' = Seats!Rows
        BY <2>1 DEF Seats!Rows
    <2>5. RequestsOpen'
        BY <2>1, <2>3, <2>4 DEF SeatInv, RequestsOpen
    <2>6. RowsDense' /\ SerialsMinted' /\ IdentitiesApart' /\ KeysMatch'
        BY <2>1, <2>4 DEF SeatInv, RowsDense, SerialsMinted, IdentitiesApart, KeysMatch
    <2> QED
        BY <2>1, <2>2, <2>5, <2>6 DEF Seats!TypeOK, SeatInv
<1> QED
    BY <1>2, <1>3, <1>4, <1>5, <1>6, <1>7, <1>8, BeginKept, CommitKept, RefusalKept, CheckInKept, ActiveKept
    DEF Seats!Next

\* The inductive invariant of enrollment.
THEOREM SeatInvariant == Seats!Spec => [](Seats!TypeOK /\ SeatInv)
<1>1. Seats!Init => Seats!TypeOK /\ SeatInv
    <2> SUFFICES ASSUME Seats!Init PROVE Seats!TypeOK /\ SeatInv
        OBVIOUS
    <2>1. MaxMachines \in Nat /\ MaxSerial \in Nat /\ MaxTime \in Nat
        BY DevicesAssumption DEF Seats!StaleAssumption
    <2>2. /\ Seats!Blank \in [uid : Seats!Serials \cup {None}, creds : Seats!Creds \cup {None}]
          /\ Seats!Blank.uid = None /\ Seats!Blank.creds = None
        BY DEF Seats!Blank
    <2>3. Seats!TypeOK
        BY <2>1, <2>2 DEF Seats!Init, Seats!TypeOK
    <2>4. Seats!Rows = {} /\ 1..0 = {} /\ 0 \in 0..MaxMachines
        BY <2>1 DEF Seats!Init, Seats!Rows
    <2> QED
        BY <2>2, <2>3, <2>4 DEF Seats!Init, SeatInv, RowsDense, SerialsMinted, IdentitiesApart,
            KeysMatch, RequestsOpen
<1>2. Seats!TypeOK /\ SeatInv /\ [Seats!Next]_seatVars => (Seats!TypeOK /\ SeatInv)'
    BY SeatStepKept
<1> QED
    BY <1>1, <1>2, PTL DEF Seats!Spec, Seats!vars, seatVars

\* No two records carry one identity, and a PC that is let in is let in to its
\* own, but for a record that changed under an enrollment (redeem_enroll_key).
THEOREM OneRecordEach == Seats!Spec => []Seats!OneRecordPerIdentity
<1>1. Seats!TypeOK /\ SeatInv => Seats!OneRecordPerIdentity
    BY DEF SeatInv, IdentitiesApart, KeysMatch, Seats!OneRecordPerIdentity, Seats!Authentic
<1> QED
    BY <1>1, SeatInvariant, PTL

\* What an enrollment does to the record of another PC that is in use: nothing,
\* unless the row changed between the read and the commit.
LEMMA OthersKept ==
    ASSUME Seats!TypeOK, SeatInv, NEW p \in PCs, Seats!Authentic(p),
           now < machines[file[p].creds.id].seen + Stale, file[p].creds.id \notin raced',
           NEW o \in PCs, NEW answered \in BOOLEAN, Seats!CommitEnroll(o, answered)
    PROVE  machines'[file[p].creds.id] = machines[file[p].creds.id]
<1> USE SeatFacts, SeatColumns
<1> DEFINE i == file[p].creds.id
<1>1. PICK j \in Seats!Ids, q \in Seats!Row :
         /\ machines' = [machines EXCEPT ![j] = q]
         /\ IF request[o].row = None
            THEN j \notin Seats!Rows
            ELSE j = request[o].row /\ j \in Seats!Rows
         /\ raced \subseteq raced'
         /\ j \in Seats!Rows /\ j \notin raced' =>
               /\ machines[j].uid = request[o].read.uid
               /\ machines[j].seen = request[o].read.seen
    BY CommitWrites
<1>2. request[o] # None /\ file[o].creds = None /\ o # p
    BY CommitWrites DEF Seats!Authentic
<1>3. /\ file[p].creds \in Seats!Creds /\ i \in Seats!Ids /\ machines[i] # None /\ i \notin raced
      /\ machines[i].uid = file[p].uid
    BY <1>1 DEF Seats!Authentic, SeatInv, KeysMatch
<1>4. i \in Seats!Rows
    BY <1>3 DEF Seats!Rows
<1>5. j # i
    <2> SUFFICES ASSUME j = i PROVE FALSE
        OBVIOUS
    <2>1. /\ request[o].row # None /\ request[o].read # None
          /\ machines[i].uid = request[o].read.uid /\ machines[i].seen = request[o].read.seen
        BY <1>1, <1>2, <1>4 DEF SeatInv, RequestsOpen
    <2>2. file[p].uid # request[o].uid /\ request[o].at <= now
        BY <1>2 DEF SeatInv, RequestsOpen
    <2>3. request[o].read.seen + Stale <= request[o].at
        BY <1>2, <1>3, <2>1, <2>2 DEF SeatInv, RequestsOpen
    <2>4. machines[i].seen \in Nat /\ now \in Nat /\ Stale \in Nat /\ request[o].at \in Nat
        BY <1>2, <1>4
    <2>5. now < machines[i].seen + Stale
        OBVIOUS
    <2> HIDE DEF i
    <2> QED
        BY <2>1, <2>2, <2>3, <2>4, <2>5
<1> QED
    BY <1>1, <1>3, <1>5 DEF Seats!TypeOK

\* A PC that has checked in within the staleness window keeps its record and
\* its key, whoever enrolls and under what name, but for a record that changed
\* between the read and the commit of an enrollment (adopt_by_name).
THEOREM KeysKeptLive == Seats!Spec => LiveKeepsKey
<1> DEFINE Kept ==
        \A p \in PCs :
          (Seats!Authentic(p) /\ now < machines[file[p].creds.id].seen + Stale
             /\ file'[p] = file[p] /\ file[p].creds.id \notin raced')
            => LET i == file[p].creds.id
               IN  machines'[i].key = machines[i].key /\ machines'[i].uid = machines[i].uid
<1>1. Seats!TypeOK /\ SeatInv /\ [Seats!Next]_seatVars => [Kept]_seatVars
    <2> SUFFICES ASSUME Seats!TypeOK, SeatInv, [Seats!Next]_seatVars, NEW p \in PCs,
                        Seats!Authentic(p), now < machines[file[p].creds.id].seen + Stale,
                        file'[p] = file[p], file[p].creds.id \notin raced'
                 PROVE  /\ machines'[file[p].creds.id].key = machines[file[p].creds.id].key
                        /\ machines'[file[p].creds.id].uid = machines[file[p].creds.id].uid
        OBVIOUS
    <2> DEFINE i == file[p].creds.id
    <2>1. i \in Seats!Rows
        BY SeatFacts, SeatColumns DEF Seats!Authentic, Seats!Rows
    <2>2. ASSUME NEW o \in PCs, NEW answered \in BOOLEAN, Seats!CommitEnroll(o, answered)
          PROVE  machines'[i] = machines[i]
        BY <2>2, OthersKept
    <2>3. ASSUME \/ \E o \in PCs : Seats!CheckIn(o)
                 \/ \E j \in Seats!Ids, b \in BOOLEAN : Seats!SetMachineActive(j, b)
          PROVE  machines'[i].key = machines[i].key /\ machines'[i].uid = machines[i].uid
        BY <2>1, <2>3, CheckInKept, ActiveKept
    <2>4. ASSUME \/ UNCHANGED seatVars \/ Seats!Tick
                 \/ \E o \in PCs : \/ Seats!BeginEnroll(o) \/ Seats!EnrollLost(o)
                                   \/ Seats!EnrollRefused(o) \/ Seats!Reimage(o) \/ Seats!LoseFile(o)
                                   \/ \E k \in EnrollKeys : Seats!Reinstall(o, k)
                                   \/ \E n \in ComputerNames : Seats!Rename(o, n)
                 \/ \E k \in EnrollKeys : Seats!RevokeKey(k)
          PROVE  machines' = machines
        BY <2>4 DEF seatVars, Seats!BeginEnroll, Seats!EnrollLost, Seats!Tick, Seats!EnrollRefused, Seats!Reimage, Seats!LoseFile,
            Seats!Reinstall, Seats!Rename, Seats!RevokeKey
    <2> HIDE DEF i
    <2>5. machines'[i].key = machines[i].key /\ machines'[i].uid = machines[i].uid
        BY <2>2, <2>3, <2>4 DEF Seats!Next
    <2> QED
        BY <2>5 DEF i
<1> QED
    BY <1>1, SeatInvariant, PTL DEF Seats!Spec, LiveKeepsKey, Seats!LiveKeepsKey, Seats!vars, seatVars

-----------------------------------------------------------------------------
(* Queues: what a poll reports and builds is of the kinds it may be.       *)

LEMMA SpecNamed ==
    ASSUME Spool!TypeOK, NEW s \in todo
    PROVE  /\ Spool!Remains(s) \subseteq Spool!Queue \cup {None}
           /\ s \in Spool!Assignment /\ Spool!NameOf(s) \in Spool!Names
           /\ [address |-> s.address, tier |-> s.tier] \in Spool!Queue
           /\ [address |-> s.address, tier |-> "unusable"] \in Spool!Queue
BY DEF Spool!TypeOK, Spool!Assignment, Spool!NameOf, Spool!Names, Spool!Queue, Spool!Tiers,
    Spool!Remains

LEMMA SpoolStepKept ==
    ASSUME Spool!TypeOK, [Spool!Next]_Spool!vars
    PROVE  Spool!TypeOK'
<1>1. CASE UNCHANGED Spool!vars
    BY <1>1 DEF Spool!vars, Spool!TypeOK
<1>2. ASSUME NEW p \in Printers, NEW s \in Spool!Assignment \cup {None}, Spool!Reassign(p, s)
      PROVE  Spool!TypeOK'
    <2>1. \A q \in Spool!Assignment : [q EXCEPT !.default = FALSE] \in Spool!Assignment
        BY DEF Spool!Assignment
    <2>2. central' \in [Printers -> Spool!Assignment \cup {None}]
        BY <1>2, <2>1 DEF Spool!Reassign, Spool!TypeOK
    <2> QED
        BY <1>2, <2>2 DEF Spool!Reassign, Spool!TypeOK
<1>3. ASSUME \/ \E p \in Printers : Spool!Sleep(p)
             \/ \E n \in Spool!Names : Spool!UserDeletes(n)
             \/ \E q \in Spool!Names \cup {OwnQueue, None} : Spool!UserChooses(q)
      PROVE  Spool!TypeOK'
    BY <1>3 DEF Spool!Sleep, Spool!UserDeletes, Spool!UserChooses, Spool!TypeOK
<1>4. CASE Spool!Poll
    <2> DEFINE sent == {central[p] : p \in {q \in Printers : central[q] # None}}
    <2>1. sent \subseteq Spool!Assignment
        BY DEF Spool!TypeOK
    <2>2. wanted' = sent /\ todo' = {s \in sent : Spool!Ready(s)}
        BY <1>4 DEF Spool!Poll
    <2> HIDE DEF sent
    <2>3. wanted' \subseteq Spool!Assignment /\ todo' \subseteq wanted'
        BY <2>1, <2>2
    <2>4. outcome' \in [Spool!Names -> {"skipped", None}]
        BY <1>4 DEF Spool!Poll
    <2> QED
        BY <1>4, <2>3, <2>4 DEF Spool!Poll, Spool!TypeOK
<1>5. CASE Spool!EnsureDone \/ Spool!RemoveDone
    BY <1>5 DEF Spool!EnsureDone, Spool!RemoveDone, Spool!TypeOK
<1>6. ASSUME NEW s \in todo,
             \/ Spool!PackageGone(s) \/ Spool!LeaveAlone(s) \/ Spool!Build(s)
             \/ Spool!BuildRefused(s) \/ Spool!BuildFails(s) \/ Spool!Defer(s)
             \/ Spool!BuildErrs(s)
      PROVE  Spool!TypeOK'
    <2>1. queues' \in [Spool!Names -> Spool!Queue \cup {None}]
        BY <1>6, SpecNamed DEF Spool!PackageGone, Spool!LeaveAlone, Spool!Build,
            Spool!BuildRefused, Spool!BuildFails, Spool!Defer, Spool!BuildErrs, Spool!TypeOK
    <2> QED
        BY <1>6, <2>1, SpecNamed DEF Spool!PackageGone, Spool!LeaveAlone, Spool!Build,
            Spool!BuildRefused, Spool!BuildFails, Spool!Defer, Spool!BuildErrs,
            Spool!Reported, Spool!Provisioned, Spool!TypeOK
<1>7. ASSUME NEW n \in Spool!Names, Spool!RemoveQueue(n)
      PROVE  Spool!TypeOK'
    BY <1>7 DEF Spool!RemoveQueue, Spool!TypeOK
<1>8. ASSUME NEW b \in BOOLEAN, Spool!SetDefault(b)
      PROVE  Spool!TypeOK'
    <2> DEFINE good == {n \in {Spool!NameOf(s) : s \in {w \in wanted : w.default}} :
                            /\ outcome[n] \in Spool!Provisioned
                            /\ queues[n] # None}
    <2>1. good \subseteq Spool!Names
        BY DEF Spool!TypeOK, Spool!Assignment, Spool!NameOf, Spool!Names
    <2>2. chosen' = IF b /\ good # {} THEN CHOOSE n \in good : TRUE ELSE chosen
        BY <1>8 DEF Spool!SetDefault
    <2> HIDE DEF good
    <2>3. chosen' \in Spool!Names \cup {OwnQueue, None}
        BY <2>1, <2>2 DEF Spool!TypeOK
    <2> QED
        BY <1>8, <2>3 DEF Spool!SetDefault, Spool!NoOutcome, Spool!TypeOK
<1>9. CASE Spool!Crash
    BY <1>9 DEF Spool!Crash, Spool!NoOutcome, Spool!TypeOK
<1>10. ASSUME NEW s \in todo, Spool!CutShort(s)
       PROVE  Spool!TypeOK'
    BY <1>10, SpecNamed DEF Spool!CutShort, Spool!NoOutcome, Spool!TypeOK
<1> QED
    BY <1>1, <1>2, <1>3, <1>4, <1>5, <1>6, <1>7, <1>8, <1>9, <1>10
    DEF Spool!Next, Spool!PollNext

\* Whatever moves between the steps of a poll, what it has yet to converge is
\* part of what it was sent, and every queue and outcome is of a known kind.
THEOREM SpoolTypes == Spool!Spec => []Spool!TypeOK
<1>1. Spool!Init => Spool!TypeOK
    BY DEF Spool!Init, Spool!TypeOK, Spool!NoOutcome
<1> QED
    BY <1>1, SpoolStepKept, PTL DEF Spool!Spec

-----------------------------------------------------------------------------
(* The properties of MCDevices.                                            *)

\* The types of all four parts.
THEOREM DeviceTypes ==
    Update!Spec /\ Feeds!Spec /\ Seats!Spec /\ Spool!Spec => []TypesOK
<1>1. Update!TypeOK /\ Feeds!TypeOK /\ Seats!TypeOK /\ Spool!TypeOK => TypesOK
    BY DEF TypesOK
<1> QED
    BY <1>1, UpdateInvariant, FeedInvariant, SeatInvariant, SpoolTypes, PTL

\* What central and a device hold of each other agrees, whichever part moves:
\* updates, definitions and records.
THEOREM RecordsKeptTrue ==
    Update!Spec /\ Feeds!Spec /\ Seats!Spec => []RecordsAgree
<1>1. /\ Update!OkIsRunning /\ Feeds!VersionNamesContent /\ Feeds!OneScopePerKey
      /\ Seats!OneRecordPerIdentity
      => RecordsAgree
    BY DEF RecordsAgree
<1> QED
    BY <1>1, UpdatesTrue, FeedsTrue, OneRecordEach, PTL
=============================================================================
