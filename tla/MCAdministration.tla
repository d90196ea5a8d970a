-------------------------- MODULE MCAdministration --------------------------
(***************************************************************************)
(* What the operators and the customers' directories decide, checked       *)
(* together: accounts and sessions, the people printers are assigned to,   *)
(* who gets which printer, the commands and keys of the agents, and which  *)
(* device is which customer's.  The specifications share no variable; each *)
(* behaviour follows the one named by focus and the others rest.  The      *)
(* accounts are looked at twice: "sessions" leaves out the attempts that   *)
(* fail, "throttle" what is done to an account.  So are the requests: in   *)
(* "presses" no agent answers, and there is room for one more.  So is the  *)
(* fleet: "fleet" moves devices between two sites that are set up,         *)
(* "places" sets sites up and takes them down around one device.           *)
(*                                                                         *)
(* A budget bounds what operators, users and faults do.  It appears in no  *)
(* guard of the specifications.                                            *)
(***************************************************************************)
EXTENDS Integers, Sequences, FiniteSets, TLC

CONSTANTS
    Parts,                                  \* the parts looked at
    None, Gone, Worker,
    Users, Sources, Browsers, Handlers, DefaultRole, LinkLocal, AutoProvision,
    UserThreshold, SourceThreshold, Window, MaxEpoch, MaxTime,
    Clients, DirectoryIds, Addresses, Runners,
    People, Groups, Machines, Printers, ClientOf,
    RemotePrinters, RemoteAgents, Reach,
    Operators, MaxOpen, MinInterval, RequestTtl, MaxRequests,
    Sites, Codes, Installs, Networks, SiteOf, MaxTtl, MaxAgents,
    Agents, Devices, Hosts, Entries, Lan, SeatOf,
    MaxAccount, MaxDirectory, MaxAssign, MaxRemote, MaxEnroll, MaxFleet, MaxPlaces  \* the budgets

VARIABLES
    now, users, failures, cookies, signIns, edits,
    directory, team, connected, synced, manual, members, fetched, due, stranded,
    assigned, memberOf, activeRows, defaultWins,
    time, settings, printers, requests, commands, posts, batches, answers, carried,
    clock, sites, tokens, agents, owner, minted, configs, replies, redeemed,
    client, clients, bypass, registered, subnet, row, device, page, heard,
    focus, spent

\* One machine and the last printer are another customer's.
First == CHOOSE c \in Clients : TRUE
Other == CHOOSE c \in Clients : c # First
Lobby == CHOOSE m \in Machines : TRUE
TwoTenants == [x \in People \cup Groups \cup Machines \cup Printers |->
                  IF x \in People \cup Groups \cup {Lobby} THEN First
                  ELSE IF x \in Machines THEN Other
                  ELSE IF \A p \in Printers : p <= x THEN Other ELSE First]

\* Any of the agents may be named for a printer; all the subnets are the home
\* site's.
AnyAgent == [p \in RemotePrinters |-> RemoteAgents]
Chief == CHOOSE a \in Agents : TRUE
Home  == CHOOSE s \in Sites : TRUE
Away  == CHOOSE s \in Sites : s # Home
AllHome == [n \in Networks |-> Home]

\* The two sites have the same network behind them; the agents sit at one.
OneNetwork == [s \in Sites |-> 10]
AllSeated  == [a \in Agents |-> Home]

Accounts  == INSTANCE OperatorAccounts
Directory == INSTANCE DirectorySync WITH Ids <- DirectoryIds
Assigning == INSTANCE PrinterAssignments
Remote    == INSTANCE RemoteRequests WITH
    Agents <- RemoteAgents, Printers <- RemotePrinters,
    Ttl <- RequestTtl, MaxTime <- MaxTime - 1, now <- time
Enroll    == INSTANCE AgentEnrollment WITH
    Subnets <- Networks, now <- clock
Fleet     == INSTANCE FleetRegistry WITH
    Home <- SeatOf, agents <- registered, Rows <- Entries

ASSUME AdministrationAssumption ==
       /\ Accounts!AccountsAssumption /\ Directory!WorkerAssumption
       /\ Assigning!OwnersAssumption /\ Remote!RemoteAssumption
       /\ Enroll!EnrollmentAssumption /\ Fleet!FleetAssumption

accountVars   == <<now, users, failures, cookies, signIns, edits>>
directoryVars == <<directory, team, connected, synced, manual, members, fetched,
                   due, stranded>>
assignVars    == <<assigned, memberOf, activeRows, defaultWins>>
remoteVars    == <<time, settings, printers, requests, commands, posts, batches,
                   answers, carried>>
enrollVars    == <<clock, sites, tokens, agents, owner, minted, configs, replies,
                   redeemed>>
fleetVars     == <<client, clients, bypass, registered, subnet, row, device, page, heard>>
vars == <<accountVars, directoryVars, assignVars, remoteVars, enrollVars, fleetVars, focus, spent>>

\* The fleet of "fleet": one agent, and a site of each customer.
TwoSites ==
    /\ client = [s \in Sites |-> IF s = Home THEN First ELSE Other]
    /\ clients = Clients /\ bypass = {} /\ registered = {Chief}
    /\ subnet = [s \in Sites |-> [Fleet!NoHands(s = Home) EXCEPT !.agent = Chief]]
    /\ row = [i \in Entries |-> None] /\ page = {} /\ heard = [i \in Entries |-> {}]
    /\ device \in [Devices -> Sites \X Hosts]
    /\ \A d, e \in Devices : d # e => device[d] # device[e]

Guest == CHOOSE d \in Devices : TRUE

Init ==
    /\ focus \in Parts /\ spent = 0
    /\ Accounts!Init /\ Directory!Init /\ Assigning!Init /\ Remote!Init /\ Enroll!Init
    /\ IF focus = "fleet" THEN TwoSites /\ device[Guest] = <<Away, 1>>
       ELSE Fleet!Init /\ \A d \in Devices : device[d][1] = Away
    /\ focus # "places" => \A d, e \in Devices : d # e => device[d] # device[e]
    /\ users[CHOOSE u \in Users : TRUE] # None
    /\ Directory!Present(Other) = {}
    /\ directory[First] = CHOOSE f \in [DirectoryIds -> Directory!Entry] :
          Directory!Unique(f) /\ \A d \in DirectoryIds : f[d].active
    /\ settings.enabled /\ settings.writes

Spend(limit) == spent < limit /\ spent' = spent + 1

SessionStep ==
    \/ /\ UNCHANGED spent
       /\ \/ \E b \in Browsers, u \in Users, s \in Sources :
                Accounts!TryPassword(b, u, s, TRUE)
          \/ \E b \in Browsers : signIns[b] # None /\ Accounts!EndSignIn(b)
          \/ \E u \in Users : Accounts!SingleSignOn(u)
          \/ \E h \in Handlers : Accounts!CommitEdit(h)
    \/ /\ Spend(MaxAccount)
       /\ \/ \E u \in Users : \/ Accounts!SsoProvision(u)
                              \/ \E a \in BOOLEAN : \/ Accounts!ScimCreate(u, a)
                                                    \/ Accounts!ScimUpdate(u, a)
          \/ \E c \in cookies, u \in Users :
                \/ \E role \in Accounts!Roles, p \in BOOLEAN :
                      Accounts!CreateUser(c, u, role, p)
                \/ \E h \in Handlers, change \in Accounts!Changes :
                      Accounts!Begin(h, c, change, u)

ThrottleStep ==
    /\ UNCHANGED spent
    /\ \/ Accounts!Tick \/ Accounts!Prune
       \/ \E b \in Browsers : \/ Accounts!EndSignIn(b)
                              \/ \E u \in Users, s \in Sources, r \in BOOLEAN :
                                    Accounts!TryPassword(b, u, s, r)
       \/ \E c \in cookies, u \in Users : Accounts!Unlock(c, u)

\* A fetch is whole, or one thing is short: a listing or a group's members lack
\* one entry, or the groups were not reached.
Short(S) == {S} \cup {S \ {x} : x \in S}

FetchFirst(r) ==
    LET whole == Directory!Present(First)
    IN  \/ \E S \in Short(whole) : Directory!Fetch(r, First, S, TRUE, team[First])
        \/ \E some \in Short(team[First]) \ {team[First]} :
               Directory!Fetch(r, First, whole, TRUE, some)
        \/ Directory!Fetch(r, First, whole, FALSE, {})

\* The other customer is there to be run after the first, and nothing more.
DirectoryStep ==
    \/ /\ UNCHANGED spent
       /\ \/ \E cs \in SUBSET Clients : Directory!StartCycle(cs)
          \/ \E r \in Runners :
                \/ Directory!Apply(r) \/ Directory!ApplyRaises(r)
                \/ \E c \in Clients : Directory!FetchFails(r, c)
          \/ Directory!Fetch(Worker, Other, {}, TRUE, {})
          \/ FetchFirst(Worker)
    \/ /\ Spend(MaxDirectory)
       /\ \/ \E r \in Runners \ {Worker} : FetchFirst(r)
          \/ \E d \in DirectoryIds, e \in Directory!Entry \cup {None} :
                directory[First][d] # e /\ Directory!ChangeEntry(First, d, e)
          \/ \E S \in {{}, DirectoryIds} :
                \/ team[First] # S /\ Directory!ChangeTeam(First, S)
                \/ members[First] # S /\ Directory!EditMembers(First, S)
          \/ \E e \in Addresses : Directory!AddPerson(First, e)
          \/ \E d \in DirectoryIds : Directory!SetActive(First, d)
          \/ Directory!SaveConnection(First) /\ First \notin connected
          \/ Directory!DeleteConnection(First) /\ First \in connected

AssignStep == Assigning!Next /\ Spend(MaxAssign)

Disturbance ==
    \/ \E p \in RemotePrinters, b \in BOOLEAN : Remote!PinReadOnly(p, b)
    \/ \E e \in BOOLEAN, w \in BOOLEAN : Remote!SaveSettings(e, w)
    \/ \E a \in RemoteAgents : \/ Remote!QueueCommand(a) \/ Remote!LosePull(a)
                               \/ Remote!DropBatch(a) \/ Remote!LoseResult(a)

Press == \/ Remote!Tick
         \/ \E o \in Operators :
               \/ Remote!QueueRequest(o)
               \/ \E p \in RemotePrinters, k \in Remote!Kinds : Remote!CheckRequest(o, p, k)

RemoteStep ==
    \/ /\ \/ Press /\ (requests' # requests => Len(requests) < MaxRequests - 1)
          \/ \E a \in RemoteAgents :
                \/ Remote!PullCommands(a) \/ Remote!PostResult(a)
                \/ \E c \in batches[a] :
                      Remote!CarryOut(a, c) \/ Remote!HandleOther(a, c)
       /\ UNCHANGED spent
    \/ Disturbance /\ Spend(MaxRemote)

EnrollStep ==
    \/ (Enroll!Tick \/ \E i \in Installs : Enroll!Persist(i)) /\ UNCHANGED spent
    \/ /\ Spend(MaxEnroll)
       /\ \/ \E c \in Codes, s \in Sites, m \in {0, MaxTtl + 1} :
                Enroll!MintClaimCode(c, s, m)
          \/ \E s \in Sites, i \in Installs : Enroll!CreateAgent(s, i)
          \/ \E a \in Enroll!Ids : Enroll!RotateKey(a) \/ Enroll!DeleteAgent(a)
          \/ \E s \in Sites : Enroll!DeleteSite(s)
          \/ \E n \in Networks, a \in Enroll!Ids : Enroll!AssignSubnet(n, a)
          \/ \E i \in Installs, c \in Codes, b \in BOOLEAN : Enroll!Register(i, c, b)
          \/ \E i \in Installs : Enroll!CrashBeforePersist(i)

Lowest == CHOOSE i \in Entries : \A j \in Entries : i <= j

FleetStep ==
    \/ /\ UNCHANGED spent
       /\ \/ \E d \in Devices : \E e \in {d, None} :
                \/ \E named \in BOOLEAN : Fleet!Discover(Chief, d, e, named)
                \/ \E i \in Fleet!Stored : Fleet!Push(Chief, i, d, e)
          \/ Fleet!OpenApprovals
    \/ /\ Spend(MaxFleet)
       /\ \/ \E d \in Devices, s \in Sites, h \in Hosts : Fleet!Move(d, s, h)
          \/ \E s \in Sites, ip \in Fleet!Ips, e \in {Guest, None} :
                \/ \E c \in Clients : Fleet!CreatePrinter(Lowest, c, s, ip, e)
                \/ Fleet!UpdatePrinter(Lowest, s, ip, e, TRUE)
          \/ \E i \in Entries : Fleet!DeletePrinter(i) \/ \E st \in Fleet!States : Fleet!Decide(i, st)
          \/ \E st \in Fleet!States : Fleet!ApprovalBulk(st)

PlacesStep ==
    \/ UNCHANGED spent /\ \E a \in Agents : Fleet!Discover(a, Guest, Guest, TRUE)
    \/ /\ Spend(MaxPlaces)
       /\ \/ Fleet!PlaceStep
          \/ Fleet!DeletePrinter(Lowest) \/ Fleet!Decide(Lowest, "ignored")
          \/ \E s \in Sites, c \in Clients :
                Fleet!CreatePrinter(Lowest, c, s, Fleet!IpOf(Guest), None)

-----------------------------------------------------------------------------
\* What rests while a part moves.
Rest(moving) == /\ UNCHANGED focus
                /\ moving \notin {"sessions", "throttle"} => UNCHANGED accountVars
                /\ moving # "directory" => UNCHANGED directoryVars
                /\ moving # "assign" => UNCHANGED assignVars
                /\ moving \notin {"remote", "presses"} => UNCHANGED remoteVars
                /\ moving # "enroll" => UNCHANGED enrollVars
                /\ moving \notin {"fleet", "places"} => UNCHANGED fleetVars

Next ==
    /\ Rest(focus)
    /\ \/ focus = "sessions" /\ SessionStep
       \/ focus = "throttle" /\ ThrottleStep
       \/ focus = "directory" /\ DirectoryStep
       \/ focus = "assign" /\ AssignStep
       \/ focus = "remote" /\ RemoteStep
       \/ focus = "presses" /\ Press /\ UNCHANGED spent
       \/ focus = "enroll" /\ EnrollStep
       \/ focus = "fleet" /\ FleetStep
       \/ focus = "places" /\ PlacesStep

MCSpec == Init /\ [][Next]_vars

\* No specification tells the members of these sets apart.
Symmetry == Permutations(Operators) \cup Permutations(Installs)

-----------------------------------------------------------------------------
\* Each property is looked at where its part moves.
Of(parts, property) == focus \in parts => property

TypesOK ==
    /\ Of({"sessions", "throttle"}, Accounts!TypeOK)
    /\ Of({"directory"}, Directory!TypeOK) /\ Of({"assign"}, Assigning!TypeOK)
    /\ Of({"remote", "presses"}, Remote!TypeOK) /\ Of({"enroll"}, Enroll!TypeOK)
    /\ Of({"fleet", "places"}, Fleet!TypeOK)

\* A session is worth what the account is now, guesses are bounded, and
\* somebody can administer.
SessionsBound ==
    /\ Of({"sessions"}, Accounts!RotationForced /\ Accounts!AdminRemains)
    /\ Of({"throttle"}, Accounts!BudgetKept)

\* An agent writes to a printer once, by proof and within its rate; an
\* installation has one identity.
AgentsBound ==
    /\ Of({"remote"}, Remote!AtMostOnce /\ Remote!WritesProven)
    /\ Of({"presses"}, Remote!OpenBounded)
    /\ Of({"enroll"}, Enroll!OneIdentity)

\* A customer's printers, people and their histories stay that customer's.
CustomersApart ==
    /\ Of({"assign"}, Assigning!OwnTenantOnly /\ Assigning!DefaultFollowsRank)
    /\ Of({"fleet", "places"}, Fleet!TenancyAgrees /\ Fleet!HistoriesApart)

\* What was decided is not undone by what merely happens next.
DecisionsStand ==
    /\ Directory!NobodyDroppedUnseen
    /\ Remote!AnswersSettle /\ Enroll!AdoptsOrphansOnly
    /\ Fleet!DecisionsKept

\* See RecordedAtItsSite there.
RecordedAtItsSite == Fleet!RecordedAtItsSite
=============================================================================
