--------------------------- MODULE DirectorySync ---------------------------
(***************************************************************************)
(* A client's staff directory (Entra ID, Google Workspace, Active          *)
(* Directory) applied to the people printers are assigned to.              *)
(*                                                                         *)
(* A run fetches a snapshot over the network and then applies it to the    *)
(* database: the directory, the operators and the other run move between   *)
(* the two.  The worker runs the due connections one after the other in    *)
(* one job; an operator may run a connection at any moment.                *)
(*                                                                         *)
(* A synced row is known by its directory id.  The manual rows, known here *)
(* by their address, stand for every row a sync does not own.              *)
(***************************************************************************)
EXTENDS FiniteSets

CONSTANTS
    Clients,      \* customers, each with one connection
    Ids,          \* immutable directory ids
    Addresses,    \* e-mail addresses
    Runners,      \* who may have a run under way
    Worker,       \* the runner that is the worker's job
    None

\* What the constants must satisfy.
WorkerAssumption == Worker \in Runners

Entry == [address : Addresses, active : BOOLEAN]

VARIABLES
    directory,  \* client -> id -> the directory's entry, or None
    team,       \* client -> ids in the directory's one group
    connected,  \* clients whose connection exists and is enabled
    synced,     \* client -> id -> the row a sync made, or None
    manual,     \* client -> address -> active flag of a row of another kind, or None
    members,    \* client -> ids in the synced group's row
    fetched,    \* runner -> the snapshot it holds, or None
    due,        \* connections the worker's cycle has yet to run
    stranded    \* connections a cycle never reached, because another's run failed

vars == <<directory, team, connected, synced, manual, members, fetched, due,
          stranded>>

Present(c) == {d \in Ids : directory[c][d] # None}
Known(c)   == {d \in Ids : synced[c][d] # None}
Foreign(c) == {e \in Addresses : manual[c][e] # None}

Snapshots == [client : Clients, users : UNION {[D -> Entry] : D \in SUBSET Ids},
              complete : BOOLEAN, grouped : BOOLEAN, team : SUBSET Ids,
              truth : [Ids -> Entry \cup {None}]]

TypeOK ==
    /\ directory \in [Clients -> [Ids -> Entry \cup {None}]]
    /\ team \in [Clients -> SUBSET Ids]
    /\ connected \subseteq Clients /\ due \subseteq Clients /\ stranded \subseteq Clients
    /\ synced \in [Clients -> [Ids -> Entry \cup {None}]]
    /\ manual \in [Clients -> [Addresses -> BOOLEAN \cup {None}]]
    /\ members \in [Clients -> SUBSET Ids]
    /\ \A r \in Runners : fetched[r] # None => fetched[r] \in Snapshots

\* An address belongs to one entry of a directory at a time.
Unique(entries) ==
    \A d, o \in Ids : (entries[d] # None /\ entries[o] # None
                         /\ entries[d].address = entries[o].address) => d = o

\* Whatever the directories hold when they are first connected.
Init ==
    /\ directory \in [Clients -> {f \in [Ids -> Entry \cup {None}] : Unique(f)}]
    /\ team = [c \in Clients |-> {}]
    /\ connected = Clients
    /\ synced = [c \in Clients |-> [d \in Ids |-> None]]
    /\ manual = [c \in Clients |-> [e \in Addresses |-> None]]
    /\ members = [c \in Clients |-> {}]
    /\ fetched = [r \in Runners |-> None]
    /\ due = {} /\ stranded = {}

-----------------------------------------------------------------------------
(* The customer's directory: an entry comes, changes or goes.               *)

ChangeEntry(c, d, e) ==
    /\ Unique([directory[c] EXCEPT ![d] = e])
    /\ directory' = [directory EXCEPT ![c][d] = e]
    /\ team' = [team EXCEPT ![c] = IF e = None THEN @ \ {d} ELSE @]
    /\ UNCHANGED <<connected, synced, manual, members, fetched, due, stranded>>

ChangeTeam(c, S) ==
    /\ S \subseteq Present(c)
    /\ team' = [team EXCEPT ![c] = S]
    /\ UNCHANGED <<directory, connected, synced, manual, members, fetched, due,
                   stranded>>

-----------------------------------------------------------------------------
(* Operators.                                                               *)

\* people_create: one row per address, whoever made it.
AddPerson(c, e) ==
    /\ e \notin Foreign(c) /\ \A d \in Known(c) : synced[c][d].address # e
    /\ manual' = [manual EXCEPT ![c][e] = TRUE]
    /\ UNCHANGED <<directory, team, connected, synced, members, fetched, due,
                   stranded>>

\* people_set_active reaches synced rows too: the next run undoes it.
SetActive(c, d) ==
    /\ d \in Known(c)
    /\ synced' = [synced EXCEPT ![c][d].active = ~ @]
    /\ UNCHANGED <<directory, team, connected, manual, members, fetched, due,
                   stranded>>

EditMembers(c, S) ==
    /\ S \subseteq Known(c)
    /\ members' = [members EXCEPT ![c] = S]
    /\ UNCHANGED <<directory, team, connected, synced, manual, fetched, due, stranded>>

SaveConnection(c) ==
    /\ connected' = connected \cup {c}
    /\ UNCHANGED <<directory, team, synced, manual, members, fetched, due, stranded>>

\* The people it synced stay as they are.
DeleteConnection(c) ==
    /\ connected' = connected \ {c}
    /\ UNCHANGED <<directory, team, synced, manual, members, fetched, due, stranded>>

-----------------------------------------------------------------------------
(* A run: fetch, then apply.                                                *)

\* The worker lists the connections whose interval has passed.
StartCycle(cs) ==
    /\ due = {} /\ fetched[Worker] = None
    /\ cs # {} /\ cs \subseteq connected
    /\ due' = cs
    /\ UNCHANGED <<directory, team, connected, synced, manual, members, fetched,
                   stranded>>

MayRun(r, c) == fetched[r] = None /\ (IF r = Worker THEN c \in due ELSE c \in connected)

\* Paging that stops early leaves people out and says so; the paging of one
\* group's members stops early and does not.  A group is only listed when the
\* listing reached it.
Fetch(r, c, S, reached, some) ==
    /\ MayRun(r, c)
    /\ S \subseteq Present(c) /\ some \subseteq team[c]
    /\ fetched' = [fetched EXCEPT ![r] =
          [client |-> c, users |-> [d \in S |-> directory[c][d]],
           complete |-> S = Present(c) /\ reached, grouped |-> reached,
           team |-> some, truth |-> directory[c]]]
    /\ UNCHANGED <<directory, team, connected, synced, manual, members, due, stranded>>

\* A provider that cannot be reached is noted on its connection and passed over.
FetchFails(r, c) ==
    /\ MayRun(r, c)
    /\ due' = IF r = Worker THEN due \ {c} ELSE due
    /\ UNCHANGED <<directory, team, connected, synced, manual, members, fetched,
                   stranded>>

\* Mutant: whoever is absent has left, complete or not
AppliedWhole(s) ==
    [d \in Ids |->
        LET row == synced[s.client][d]
        IN  IF d \in DOMAIN s.users
            THEN IF row = None /\ s.users[d].address \in Foreign(s.client)
                 THEN None ELSE s.users[d]
            ELSE IF row # None THEN [row EXCEPT !.active = FALSE]
            ELSE row]

\* The rows after the snapshot s: matched by id; a new person whose address
\* another kind of row holds is passed over; absence counts only when complete.
Applied(s) ==
    [d \in Ids |->
        LET row == synced[s.client][d]
        IN  IF d \in DOMAIN s.users
            THEN IF row = None /\ s.users[d].address \in Foreign(s.client)
                 THEN None ELSE s.users[d]
            ELSE IF s.complete /\ row # None THEN [row EXCEPT !.active = FALSE]
            ELSE row]

\* Two rows of one client would hold one address: the database refuses.
Clash(s) ==
    \E d \in Ids : /\ Applied(s)[d] # None
                   /\ \/ Applied(s)[d].address \in Foreign(s.client)
                      \/ \E o \in Ids \ {d} : /\ Applied(s)[o] # None
                                              /\ Applied(s)[o].address = Applied(s)[d].address

\* One row takes an address another gives up: the order of the updates decides.
HandsOver(s) ==
    \E d, o \in Known(s.client) :
        d # o /\ Applied(s)[d].address = synced[s.client][o].address

Apply(r) ==
    /\ fetched[r] # None
    /\ LET s == fetched[r] c == s.client
           after == {d \in Ids : Applied(s)[d] # None}
       IN  /\ ~ Clash(s) /\ c \in connected
           /\ synced' = [synced EXCEPT ![c] = Applied(s)]
           /\ members' = [members EXCEPT ![c] =
                 IF s.grouped THEN s.team \cap after ELSE IF s.complete THEN {} ELSE @]
           /\ due' = IF r = Worker THEN due \ {c} ELSE due
    /\ fetched' = [fetched EXCEPT ![r] = None]
    /\ UNCHANGED <<directory, team, connected, manual, stranded>>

\* The flush raises (or finds the connection deleted): nothing of this run is
\* kept, and the worker's job ends with the rest of its connections not run.
ApplyRaises(r) ==
    /\ fetched[r] # None
    /\ LET s == fetched[r] c == s.client
       IN  /\ Clash(s) \/ HandsOver(s) \/ c \notin connected
           /\ due' = IF r = Worker THEN {} ELSE due
           /\ stranded' = IF r = Worker THEN stranded \cup (due \ {c}) ELSE stranded
    /\ fetched' = [fetched EXCEPT ![r] = None]
    /\ UNCHANGED <<directory, team, connected, synced, manual, members>>

Next ==
    \/ \E c \in Clients, d \in Ids :
          SetActive(c, d) \/ \E e \in Entry \cup {None} : ChangeEntry(c, d, e)
    \/ \E c \in Clients, S \in SUBSET Ids : ChangeTeam(c, S) \/ EditMembers(c, S)
    \/ \E c \in Clients, e \in Addresses : AddPerson(c, e)
    \/ \E c \in Clients : SaveConnection(c) \/ DeleteConnection(c)
    \/ \E cs \in SUBSET Clients : StartCycle(cs)
    \/ \E r \in Runners, c \in Clients :
          \/ FetchFails(r, c)
          \/ \E S, some \in SUBSET Ids, reached \in BOOLEAN : Fetch(r, c, S, reached, some)
    \/ \E r \in Runners : Apply(r) \/ ApplyRaises(r)

Spec == Init /\ [][Next]_vars

-----------------------------------------------------------------------------
\* Nobody the directory held, active, when a run fetched is deactivated by
\* that run - not even when the listing was cut short.
NobodyDroppedUnseen ==
    [][\A r \in Runners, d \in Ids :
          fetched[r] # None /\ fetched'[r] = None =>
            LET s == fetched[r]
                before == synced[s.client][d]
                after  == synced'[s.client][d]
            IN  (before # None /\ before.active /\ s.truth[d] # None /\ s.truth[d].active)
                   => after.active]_vars

\* A customer's directory that cannot be applied never keeps another
\* customer's from being run.
NeverAborts == stranded = {}
=============================================================================
