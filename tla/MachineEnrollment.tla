------------------------- MODULE MachineEnrollment -------------------------
(***************************************************************************)
(* Workstations that enroll with their customer's key and then answer for  *)
(* themselves.  A machine's row carries its printers, so which row a PC    *)
(* enrolls as matters: by the identity in its state file, else, once the   *)
(* old record has gone quiet, by its computer name.                        *)
(*                                                                         *)
(* One customer: every lookup is scoped to the client of the enroll key.   *)
(***************************************************************************)
EXTENDS Naturals, FiniteSets

CONSTANTS
    PCs,          \* workstations
    Names,        \* computer names
    Keys,         \* enroll keys ever minted
    Stale,        \* adopt_stale_after_min
    Retry,        \* REFUSAL_RETRY_SECONDS
    MaxMachines,  \* bound: rows
    MaxSerial,    \* bound: identities and API keys minted
    MaxTime,      \* bound: the clock
    None

Ids == 1..MaxMachines
Serials == 1..MaxSerial

VARIABLES
    machines,  \* id -> row, or None
    liveKeys,  \* enroll keys that exist and are not revoked
    name,      \* PC -> its computer name
    config,    \* PC -> the enroll key its installer wrote
    file,      \* PC -> its state file: identity and credentials
    refused,   \* PC -> the refusal it noted, or None
    request,   \* PC -> its enrollment in a transaction that is open, or None
    raced,     \* rows an enrollment wrote after they had changed under it: a history
    serial,    \* identities and API keys minted so far
    now

vars == <<machines, liveKeys, name, config, file, refused, request, raced, serial, now>>

Row   == [uid : Serials, name : Names, key : Serials, seen : 0..MaxTime, active : BOOLEAN]
Creds == [id : Ids, key : Serials]
Redemption == [uid : Serials, name : Names, row : Ids \cup {None}, read : Row \cup {None},
               at : 0..MaxTime]
Blank == [uid |-> None, creds |-> None]

\* What the constants must satisfy.
StaleAssumption ==
    /\ Stale \in Nat /\ Retry \in Nat
    /\ MaxMachines \in Nat /\ MaxSerial \in Nat /\ MaxTime \in Nat
    /\ None \notin Row \cup Creds \cup Serials \cup Ids \cup Redemption

TypeOK ==
    /\ machines \in [Ids -> Row \cup {None}]
    /\ liveKeys \subseteq Keys
    /\ name \in [PCs -> Names] /\ config \in [PCs -> Keys]
    /\ file \in [PCs -> [uid : Serials \cup {None}, creds : Creds \cup {None}]]
    /\ refused \in [PCs -> [key : Keys, at : 0..MaxTime] \cup {None}]
    /\ request \in [PCs -> Redemption \cup {None}] /\ raced \subseteq Ids
    /\ serial \in 0..MaxSerial /\ now \in 0..MaxTime

Init ==
    /\ machines = [i \in Ids |-> None]
    /\ liveKeys = Keys
    /\ name \in [PCs -> Names] /\ config \in [PCs -> Keys]
    /\ file = [p \in PCs |-> Blank]
    /\ refused = [p \in PCs |-> None]
    /\ request = [p \in PCs |-> None] /\ raced = {}
    /\ serial = 0 /\ now = 0

Rows == {i \in Ids : machines[i] # None}

-----------------------------------------------------------------------------
(* Enrollment.                                                              *)

\* Mutant: a row of that name is adopted however lately it was seen
AdoptableAtOnce(n) ==
    {i \in Rows : /\ machines[i].name = n
                  /\ \A j \in Rows : machines[j].name = n => j = i}

\* adopt_by_name: exactly one row of that name, retired or not, and gone quiet.
Adoptable(n) ==
    {i \in Rows : /\ machines[i].name = n
                  /\ \A j \in Rows : machines[j].name = n => j = i
                  /\ machines[i].seen + Stale <= now}

\* The row an identity enrolls as: its own, an adopted one, or none yet.
RowFor(uid, n) ==
    LET own == {i \in Rows : machines[i].uid = uid}
        chosen == IF own # {} THEN own ELSE Adoptable(n)
    IN  IF chosen # {} THEN chosen ELSE {None}

\* A start with the key that was refused a short while ago goes no further.
Blocked(p) ==
    /\ refused[p] # None
    /\ refused[p].key = config[p]
    /\ now < refused[p].at + Retry

\* The identity is written before the request.  Central picks the row and reads
\* it, and no lock keeps it as it was read.  One PC has one request at a time.
BeginEnroll(p) ==
    /\ file[p].creds = None /\ request[p] = None
    /\ ~ Blocked(p) /\ config[p] \in liveKeys
    /\ LET minted == file[p].uid = None
           uid == IF minted THEN serial + 1 ELSE file[p].uid
       IN  /\ uid <= MaxSerial
           /\ serial' = IF minted THEN uid ELSE serial
           /\ file' = [file EXCEPT ![p] = [uid |-> uid, creds |-> None]]
           /\ \E i \in RowFor(uid, name[p]) :
                request' = [request EXCEPT ![p] =
                   [uid |-> uid, name |-> name[p], row |-> i,
                    read |-> IF i = None THEN None ELSE machines[i], at |-> now]]
    /\ refused' = [refused EXCEPT ![p] = None]
    /\ UNCHANGED <<machines, liveKeys, name, config, raced, now>>

\* An update carries the columns whose value is not the one that was read.
Column(stored, read, set) == IF set = read THEN stored ELSE set

\* The row as the commit leaves it.
Enrolled(r, key) ==
    IF r.row = None
    THEN [uid |-> r.uid, name |-> r.name, key |-> key, seen |-> r.at, active |-> TRUE]
    ELSE LET old == machines[r.row]
         IN  [uid    |-> Column(old.uid, r.read.uid, r.uid),
              name   |-> Column(old.name, r.read.name, r.name),
              key    |-> key,
              seen   |-> Column(old.seen, r.read.seen, r.at),
              active |-> Column(old.active, r.read.active, TRUE)]

\* The row was enrolled again or heard from since the request read it.
Overtaken(r) ==
    /\ r.row # None
    /\ LET old == machines[r.row]
       IN  old.uid # r.read.uid \/ old.key # r.read.key \/ old.seen # r.read.seen

\* The row is written by its number, whatever became of it.  The answer may be
\* lost, or find the PC wiped, and then the key it carried is lost too.
CommitEnroll(p, answered) ==
    /\ request[p] # None /\ serial < MaxSerial
    /\ answered => file[p].uid = request[p].uid
    /\ LET r == request[p]
           key == serial + 1
       IN  \E i \in Ids :
             /\ i = IF r.row = None THEN Cardinality(Rows) + 1 ELSE r.row
             /\ machines' = [machines EXCEPT ![i] = Enrolled(r, key)]
             /\ file' = IF answered
                        THEN [file EXCEPT ![p] = [uid |-> r.uid,
                                                  creds |-> [id |-> i, key |-> key]]]
                        ELSE file
             /\ raced' = IF Overtaken(r) THEN raced \cup {i} ELSE raced
    /\ serial' = serial + 1
    /\ request' = [request EXCEPT ![p] = None]
    /\ UNCHANGED <<liveKeys, name, config, refused, now>>

\* Central goes down with the transaction open: nothing of it is kept.
EnrollLost(p) ==
    /\ request[p] # None
    /\ request' = [request EXCEPT ![p] = None]
    /\ UNCHANGED <<machines, liveKeys, name, config, file, refused, raced, serial, now>>

\* The process notes the refusal and exits; the service manager starts it again.
EnrollRefused(p) ==
    /\ file[p].creds = None /\ request[p] = None
    /\ ~ Blocked(p) /\ config[p] \notin liveKeys
    /\ IF file[p].uid = None
       THEN /\ serial < MaxSerial /\ serial' = serial + 1
            /\ file' = [file EXCEPT ![p].uid = serial + 1]
       ELSE UNCHANGED <<serial, file>>
    /\ refused' = [refused EXCEPT ![p] = [key |-> config[p], at |-> now]]
    /\ UNCHANGED <<machines, liveKeys, name, config, request, raced, now>>

Authentic(p) ==
    /\ file[p].creds # None
    /\ LET row == machines[file[p].creds.id]
       IN  row # None /\ row.active /\ row.key = file[p].creds.key

\* A poll that is refused changes nothing: the next one uses the same credentials.
CheckIn(p) ==
    /\ Authentic(p)
    /\ machines' = [machines EXCEPT ![file[p].creds.id].seen = now,
                                    ![file[p].creds.id].name = name[p]]
    /\ UNCHANGED <<liveKeys, name, config, file, refused, serial, request, raced, now>>

-----------------------------------------------------------------------------
(* Operators and the world.                                                 *)

RevokeKey(k) ==
    /\ liveKeys' = liveKeys \ {k}
    /\ UNCHANGED <<machines, name, config, file, refused, serial, request, raced, now>>

SetMachineActive(i, b) ==
    /\ i \in Rows
    /\ machines' = [machines EXCEPT ![i].active = b]
    /\ UNCHANGED <<liveKeys, name, config, file, refused, serial, request, raced, now>>

\* An installer run over the old one replaces its configuration alone.
Reinstall(p, k) ==
    /\ k \in liveKeys
    /\ config' = [config EXCEPT ![p] = k]
    /\ UNCHANGED <<machines, liveKeys, name, file, refused, serial, request, raced, now>>

Rename(p, n) ==
    /\ name' = [name EXCEPT ![p] = n]
    /\ UNCHANGED <<machines, liveKeys, config, file, refused, serial, request, raced, now>>

\* The disk is wiped: identity, credentials and the noted refusal go.
Reimage(p) ==
    /\ file' = [file EXCEPT ![p] = Blank]
    /\ refused' = [refused EXCEPT ![p] = None]
    /\ UNCHANGED <<machines, liveKeys, name, config, serial, request, raced, now>>

\* The state file is truncated or edited by hand: the client reads it as empty.
LoseFile(p) ==
    /\ Authentic(p)
    /\ file' = [file EXCEPT ![p] = Blank]
    /\ UNCHANGED <<machines, liveKeys, name, config, refused, serial, request, raced, now>>

Tick ==
    /\ now < MaxTime
    /\ now' = now + 1
    /\ UNCHANGED <<machines, liveKeys, name, config, file, refused, request, raced, serial>>

Next ==
    \/ \E p \in PCs :
          \/ BeginEnroll(p) \/ EnrollLost(p)
          \/ \E answered \in BOOLEAN : CommitEnroll(p, answered)
          \/ EnrollRefused(p) \/ CheckIn(p) \/ Reimage(p) \/ LoseFile(p)
          \/ \E k \in Keys : Reinstall(p, k)
          \/ \E n \in Names : Rename(p, n)
    \/ \E k \in Keys : RevokeKey(k)
    \/ \E i \in Ids, b \in BOOLEAN : SetMachineActive(i, b)
    \/ Tick

Spec == Init /\ [][Next]_vars

-----------------------------------------------------------------------------
\* A PC that has checked in within the staleness window never loses its record
\* or its key to the enrollment of another PC, whatever the two are called: but
\* for a record two enrollments held at once, or one held while it was heard from.
LiveKeepsKey ==
    [][\A p \in PCs :
          (Authentic(p) /\ now < machines[file[p].creds.id].seen + Stale
             /\ file'[p] = file[p] /\ file[p].creds.id \notin raced')
            => LET i == file[p].creds.id
               IN  machines'[i].key = machines[i].key /\ machines'[i].uid = machines[i].uid]_vars

\* Two records never carry one identity, whoever enrolls at once, and a PC comes
\* back to its own printers, but for a record two enrollments held at once.
OneRecordPerIdentity ==
    /\ \A i, j \in Rows : machines[i].uid = machines[j].uid => i = j
    /\ \A p \in PCs : (Authentic(p) /\ file[p].creds.id \notin raced)
                        => machines[file[p].creds.id].uid = file[p].uid

\* A PC whose installed key is good is not kept out by an earlier refusal.
KeyFixRecovers ==
    \A p \in PCs :
        (file[p].creds = None /\ config[p] \in liveKeys)
            ~> (file[p].creds # None \/ config[p] \notin liveKeys)
=============================================================================
