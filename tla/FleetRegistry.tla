---------------------------- MODULE FleetRegistry ----------------------------
(***************************************************************************)
(* Which printer is whose (central/services.py, api/ingest.py,             *)
(* api/management.py, dashboard/manage.py and the approvals of             *)
(* dashboard/routes.py): customers, their sites and subnets, the printers  *)
(* found there and the devices behind them.                                *)
(*                                                                         *)
(* An agent sweeps the subnets it collects and reports what answers; it    *)
(* polls its targets by address.  Devices change address, and one may take *)
(* the address of another; a device may or may not give its serial.  One   *)
(* agent may collect for several customers, whose networks may overlap     *)
(* (Lan).  The lease of a subnet with a standby is CollectorLease; here it *)
(* is the holder.                                                          *)
(***************************************************************************)
EXTENDS Naturals, FiniteSets

CONSTANTS Clients, Sites, Agents,
          Devices,   \* a device is named by its serial
          Hosts,     \* addresses of a network
          Rows,      \* ids of printer rows
          Lan,       \* Sites -> the network behind it
          Home,      \* Agents -> its own site
          None

VARIABLES client,  \* Sites -> its client, or None: no such site
          clients, \* clients rows
          bypass,  \* sites whose missing subnet is excused (setup_bypasses)
          agents,  \* agents rows
          subnet,  \* Sites -> its subnet row, or None
          row,     \* Rows -> a printers row, or None
          device,  \* Devices -> where it is plugged in
          page,    \* the pending printers an operator's page shows
          heard    \* history: the serials heard in the readings of a row

vars == <<client, clients, bypass, agents, subnet, row, device, page, heard>>
placeVars == <<client, clients, bypass, agents, subnet>>

Ips == {<<Lan[s], h>> : s \in Sites, h \in Hosts}
States == {"pending", "approved", "ignored"}
SubnetRows == [agent : Agents \cup {None}, standby : Agents \cup {None},
               holder : Agents \cup {None}, trusted : BOOLEAN]
PrinterRows == [client : Clients, site : Sites, ip : Ips,
                serial : Devices \cup {None}, state : States]

\* What the constants must satisfy.
FleetAssumption == Home \in [Agents -> Sites] /\ None \notin Clients \cup PrinterRows

Init ==
    /\ client = [s \in Sites |-> None] /\ clients = {} /\ bypass = {}
    /\ agents = {}
    /\ subnet = [s \in Sites |-> None]
    /\ row = [i \in Rows |-> None]
    /\ device \in [Devices -> Sites \X Hosts]
    /\ \A d, e \in Devices : d # e => device[d] # device[e]
    /\ page = {}
    /\ heard = [i \in Rows |-> {}]

Stored == {i \in Rows : row[i] # None}
At(s, ip) == {i \in Stored : row[i].site = s /\ row[i].ip = ip}
IpOf(d) == <<Lan[device[d][1]], device[d][2]>>
Subnets == {s \in Sites : subnet[s] # None}

\* sites_served_by_agent
Served(a) == {Home[a]} \cup {s \in Subnets : a \in {subnet[s].agent, subnet[s].holder}}

\* get_agent_config and may_collect: the subnets a is sent out to sweep
Sweeps(a) == {s \in Subnets : IF subnet[s].standby = None THEN subnet[s].agent = a
                              ELSE subnet[s].holder = a}

\* may_collect of the subnet a row is in
MayCollect(a, i) ==
    LET s == row[i].site IN
    s \in Subnets /\ subnet[s].standby # None /\ row[i].ip[1] = Lan[s]
        => subnet[s].holder = a

\* get_targets
Targets(a) == {i \in Stored : /\ row[i].site \in Served(a)
                              /\ row[i].state = "approved" /\ MayCollect(a, i)}

Contradicts(i, serial) == serial # None /\ row[i].serial # None /\ row[i].serial # serial

\* find_printer_in_sites: the rows it may return; serial first, then address
Found(sites, ip, serial) ==
    LET here     == {i \in Stored : row[i].site \in sites}
        bySerial == {i \in here : serial # None /\ row[i].serial = serial}
        byIp     == {i \in here : row[i].ip = ip}
    IN  IF bySerial # {} THEN bySerial
        ELSE {i \in byIp : ~Contradicts(i, serial)}

-----------------------------------------------------------------------------
(* Customers, sites, agents and subnets *)

CreateClient(c) ==
    /\ c \notin clients /\ clients' = clients \cup {c}
    /\ UNCHANGED <<client, bypass, agents, subnet, row, device, page, heard>>

CreateSite(c, s) ==
    /\ c \in clients /\ client[s] = None
    /\ client' = [client EXCEPT ![s] = c]
    /\ UNCHANGED <<clients, bypass, agents, subnet, row, device, page, heard>>

NoHands(trusted) == [agent |-> None, standby |-> None, holder |-> None, trusted |-> trusted]

\* onboard_submit: all of it in one transaction; the subnet or a bypass
Onboard(c, s, skip, trusted) ==
    /\ client[s] = None
    /\ clients' = clients \cup {c}
    /\ client' = [client EXCEPT ![s] = c]
    /\ bypass' = IF skip THEN bypass \cup {s} ELSE bypass
    /\ subnet' = IF skip THEN subnet ELSE [subnet EXCEPT ![s] = NoHands(trusted)]
    /\ UNCHANGED <<agents, row, device, page, heard>>

SetBypass(s) ==
    /\ client[s] # None /\ bypass' = bypass \cup {s}
    /\ UNCHANGED <<client, clients, agents, subnet, row, device, page, heard>>

ClearBypass(s) ==
    /\ s \in bypass /\ bypass' = bypass \ {s}
    /\ UNCHANGED <<client, clients, agents, subnet, row, device, page, heard>>

\* what goes with a set of sites: agents, subnets and bypasses
Remove(gone) ==
    LET left == {a \in agents : Home[a] \notin gone}
        kept(a) == IF a \in left THEN a ELSE None
    IN  /\ client' = [s \in Sites |-> IF s \in gone THEN None ELSE client[s]]
        /\ bypass' = bypass \ gone
        /\ agents' = left
        /\ subnet' = [s \in Sites |->
              IF s \in gone \/ s \notin Subnets THEN None
              ELSE [subnet[s] EXCEPT !.agent = kept(@), !.standby = kept(@),
                                     !.holder = kept(@)]]

\* _printer_delete_blockers: printers in every discovery state
Blockers(field, x) == {i \in Stored : row[i][field] = x}

DeleteClient(c) ==
    /\ c \in clients /\ Blockers("client", c) = {}
    /\ clients' = clients \ {c}
    /\ Remove({s \in Sites : client[s] = c})
    /\ UNCHANGED <<row, device, page, heard>>

DeleteSite(s) ==
    /\ client[s] # None /\ Blockers("site", s) = {}
    /\ Remove({s})
    /\ UNCHANGED <<clients, row, device, page, heard>>

\* a claim code is redeemed: the agent adopts its site's subnets without one
Register(a) ==
    /\ a \notin agents /\ client[Home[a]] # None
    /\ agents' = agents \cup {a}
    /\ subnet' = [s \in Sites |-> IF s = Home[a] /\ s \in Subnets
                                  THEN [subnet[s] EXCEPT !.agent = IF @ = None THEN a ELSE @]
                                  ELSE subnet[s]]
    /\ UNCHANGED <<client, clients, bypass, row, device, page, heard>>

\* subnet_add, for the agent's own site or another's
AddSubnet(a, s, trusted) ==
    /\ a \in agents /\ client[s] # None /\ subnet[s] = None
    /\ subnet' = [subnet EXCEPT ![s] = [NoHands(trusted) EXCEPT !.agent = a]]
    /\ UNCHANGED <<client, clients, bypass, agents, row, device, page, heard>>

DeleteSubnet(s) ==
    /\ subnet[s] # None /\ subnet' = [subnet EXCEPT ![s] = None]
    /\ UNCHANGED <<client, clients, bypass, agents, row, device, page, heard>>

\* subnet_update and _apply_standby: seeded when the first standby is named
UpdateSubnet(s, a, standby, trusted) ==
    LET old == subnet[s] IN
    /\ old # None /\ a \in agents
    /\ standby \in agents \cup {None}
    /\ standby # None => old.agent # None /\ standby # old.agent
    /\ subnet' = [subnet EXCEPT ![s] =
          [agent |-> a, standby |-> standby, trusted |-> trusted,
           holder |-> IF standby = None THEN None
                      ELSE IF old.standby = None THEN old.agent ELSE old.holder]]
    /\ UNCHANGED <<client, clients, bypass, agents, row, device, page, heard>>

\* the lease of a subnet moves to another agent eligible for it
TakeOver(s, a) ==
    /\ s \in Subnets /\ subnet[s].standby # None
    /\ a \in {subnet[s].agent, subnet[s].standby} \ {None, subnet[s].holder}
    /\ subnet' = [subnet EXCEPT ![s].holder = a]
    /\ UNCHANGED <<client, clients, bypass, agents, row, device, page, heard>>

-----------------------------------------------------------------------------
(* Discovery and readings *)

Move(d, s, h) ==
    /\ \A e \in Devices : device[e] # <<s, h>>
    /\ device' = [device EXCEPT ![d] = <<s, h>>]
    /\ UNCHANGED <<placeVars, row, page, heard>>

Follows(i, ip) == At(row[i].site, ip) = {}

\* record_discovered, of a row that is known: the serial is filled in, the
\* address followed
Refreshed(i, ip, serial) ==
    [row EXCEPT ![i].serial = IF @ = None THEN serial ELSE @,
                ![i].ip = IF Follows(i, ip) THEN ip ELSE @]

\* find_subnet_for_agent_cidr: the first of a's subnets with that CIDR
SubnetsNamed(a, cidr) == {s \in Subnets : subnet[s].agent = a /\ Lan[s] = cidr}

Trusts(s) == IF s = None THEN FALSE ELSE subnet[s].trusted

\* record_discovered, of a row that is not: its site is that of the subnet a
\* is assigned, or a's own
NewAt(i, a, s, ip, serial) ==
    LET home == IF s = None THEN Home[a] ELSE s IN
    /\ row[i] = None /\ client[home] # None /\ At(home, ip) = {}
    /\ row' = [row EXCEPT ![i] =
          [client |-> client[home], site |-> home, ip |-> ip, serial |-> serial,
           state |-> IF Trusts(s) THEN "approved" ELSE "pending"]]

\* post_discovered: a swept the subnet of d's site; named: its report gives
\* the CIDR, which a legacy agent's does not
Discover(a, d, serial, named) ==
    LET ip == IpOf(d)  cidr == Lan[device[d][1]]
        subs  == IF named THEN SubnetsNamed(a, cidr) ELSE {}
        known == Found(Served(a), ip, serial)
    IN  /\ a \in agents /\ device[d][1] \in Sweeps(a)
        /\ serial \in {d, None}
        /\ IF known # {}
           THEN \E i \in known : row' = Refreshed(i, ip, serial)
           ELSE \E i \in Rows, s \in IF subs = {} THEN {None} ELSE subs :
                   NewAt(i, a, s, ip, serial)
        /\ UNCHANGED <<placeVars, device, page, heard>>

\* post_readings and apply_reading: d answered at the address of a target
Push(a, target, d, serial) ==
    LET known == Found(Served(a), row[target].ip, serial) IN
    /\ a \in agents /\ target \in Targets(a)
    /\ device[d][1] \in Served(a) /\ IpOf(d) = row[target].ip
    /\ serial \in {d, None}
    /\ \E i \in known :
          /\ row[i].state = "approved" /\ MayCollect(a, i)
          /\ row' = [row EXCEPT ![i].serial = IF serial = None THEN @ ELSE serial]
          /\ heard' = [heard EXCEPT ![i] = @ \cup ({serial} \ {None})]
    /\ UNCHANGED <<placeVars, device, page>>

-----------------------------------------------------------------------------
(* The operators *)

\* Mutant: the site is taken from the form unchecked
SiteBelongsAlways(s, c) == TRUE
SiteBelongs(s, c) == client[s] = c

\* printer_create and the API's create_printer
CreatePrinter(i, c, s, ip, serial) ==
    /\ row[i] = None /\ c \in clients /\ client[s] # None /\ SiteBelongs(s, c)
    /\ At(s, ip) = {}
    /\ row' = [row EXCEPT ![i] = [client |-> c, site |-> s, ip |-> ip,
                                  serial |-> serial, state |-> "approved"]]
    /\ UNCHANGED <<placeVars, device, page, heard>>

\* the form is saved as it was filled in, the serial too
UpdatePrinter(i, s, ip, serial, approve) ==
    /\ i \in Stored /\ client[s] # None /\ SiteBelongs(s, row[i].client)
    /\ At(s, ip) \subseteq {i}
    /\ row' = [row EXCEPT ![i].site = s, ![i].ip = ip, ![i].serial = serial,
                          ![i].state = IF approve THEN "approved" ELSE @]
    /\ heard' = IF serial = row[i].serial THEN heard ELSE [heard EXCEPT ![i] = {}]
    /\ UNCHANGED <<placeVars, device, page>>

\* approve or ignore one printer, from its page, the queue or the API
Decide(i, state) ==
    /\ i \in Stored /\ state \in {"approved", "ignored"}
    /\ row' = [row EXCEPT ![i].state = state]
    /\ UNCHANGED <<placeVars, device, page, heard>>

DeletePrinter(i) ==
    /\ i \in Stored
    /\ row' = [row EXCEPT ![i] = None]
    /\ heard' = [heard EXCEPT ![i] = {}]
    /\ UNCHANGED <<placeVars, device, page>>

\* the approvals queue is rendered, and may be submitted any time later
OpenApprovals ==
    /\ page' = {i \in Stored : row[i].state = "pending"}
    /\ UNCHANGED <<placeVars, row, device, heard>>

StillPending(i) == row[i].state = "pending"

ApprovalBulk(state) ==
    /\ state \in {"approved", "ignored"} /\ page # {}
    /\ row' = [i \in Rows |-> IF i \in page \cap Stored /\ StillPending(i)
                              THEN [row[i] EXCEPT !.state = state] ELSE row[i]]
    /\ UNCHANGED <<placeVars, device, page, heard>>

-----------------------------------------------------------------------------
PlaceStep ==
    \/ \E c \in Clients : CreateClient(c) \/ DeleteClient(c)
    \/ \E c \in Clients, s \in Sites : CreateSite(c, s)
    \/ \E c \in Clients, s \in Sites, skip, t \in BOOLEAN : Onboard(c, s, skip, t)
    \/ \E s \in Sites : SetBypass(s) \/ ClearBypass(s) \/ DeleteSite(s) \/ DeleteSubnet(s)
    \/ \E a \in Agents : Register(a)
    \/ \E a \in Agents, s \in Sites, t \in BOOLEAN : AddSubnet(a, s, t)
    \/ \E s \in Sites, a \in Agents, b \in Agents \cup {None}, t \in BOOLEAN :
          UpdateSubnet(s, a, b, t)
    \/ \E s \in Sites, a \in Agents : TakeOver(s, a)

DeviceStep ==
    \/ \E d \in Devices, s \in Sites, h \in Hosts : Move(d, s, h)
    \/ \E a \in Agents, d \in Devices, e \in Devices \cup {None}, named \in BOOLEAN :
          Discover(a, d, e, named)
    \/ \E a \in Agents, i \in Stored, d \in Devices, e \in Devices \cup {None} :
          Push(a, i, d, e)

OperatorStep ==
    \/ \E i \in Rows, s \in Sites, ip \in Ips, e \in Devices \cup {None} :
          \/ \E c \in Clients : CreatePrinter(i, c, s, ip, e)
          \/ \E b \in BOOLEAN : UpdatePrinter(i, s, ip, e, b)
    \/ \E i \in Rows : DeletePrinter(i) \/ \E st \in States : Decide(i, st)
    \/ OpenApprovals \/ \E st \in States : ApprovalBulk(st)

Next == PlaceStep \/ DeviceStep \/ OperatorStep
Spec == Init /\ [][Next]_vars

-----------------------------------------------------------------------------
TypeOK ==
    /\ client \in [Sites -> Clients \cup {None}] /\ clients \subseteq Clients
    /\ bypass \subseteq Sites /\ agents \subseteq Agents
    /\ subnet \in [Sites -> SubnetRows \cup {None}]
    /\ row \in [Rows -> PrinterRows \cup {None}]
    /\ device \in [Devices -> Sites \X Hosts]
    /\ page \subseteq Rows
    /\ heard \in [Rows -> SUBSET Devices]

(* A printer's client and its site's client are two columns that the ingest  *)
(* path and the invoices each rely on: they agree, the site exists, and no   *)
(* site has two rows for one address, whatever is moved, deleted or found.   *)
TenancyAgrees ==
    \A i \in Stored :
        /\ client[row[i].site] = row[i].client
        /\ row[i].client \in clients
        /\ Cardinality(At(row[i].site, row[i].ip)) = 1

(* A row is one device's: once a device has given its serial with a reading, *)
(* no other that gives its own is ever credited to the row, though addresses *)
(* are swapped, recycled and followed (find_printer_in_sites).               *)
HistoriesApart == \A i \in Rows : Cardinality(heard[i]) <= 1

(* Nothing enters the fleet by itself, but what a trusted subnet of its site *)
(* let in; no decision made by a person is undone by discovery; and a page   *)
(* rendered earlier does not flip, in bulk, what was decided since.          *)
DecisionsKept ==
    [][\A i \in {j \in Rows : row[j] # row'[j] /\ row'[j] # None} :
          /\ row[i] = None /\ row'[i].state = "approved" /\ DeviceStep
                => row'[i].site \in Subnets /\ subnet[row'[i].site].trusted
          /\ row[i] # None => row'[i].state = row[i].state \/ ~DeviceStep
          /\ row[i] # None => row[i].state = "pending"
                \/ ~(\E st \in States : ApprovalBulk(st))]_vars

(* A device found in the sweep of a subnet is recorded at that subnet's site *)
(* ("Lets one agent serve multiple clients whose internal RFC 1918 CIDRs     *)
(* overlap", says Subnet.bind_interface).                                    *)
RecordedAtItsSite ==
    [][\A a \in Agents, d \in Devices, e \in Devices \cup {None}, i \in Rows :
          Discover(a, d, e, TRUE) /\ row[i] = None /\ row'[i] # None
              => row'[i].site = device[d][1]]_vars
=============================================================================
