------------------------- MODULE QueueProvisioning -------------------------
(***************************************************************************)
(* One workstation turning its assignments into print queues.  A poll      *)
(* takes a snapshot, converges one queue after the other, removes the      *)
(* managed queues it does not want and sets the user's default; central,   *)
(* the printers, the user and a crash move between its steps.  The two     *)
(* backends (the Windows spooler and CUPS) differ in what they compare     *)
(* before they leave a queue alone and in what a failed repair costs.  A   *)
(* Windows that has no -IppURL builds no driverless queue at all.  The     *)
(* user's own queues carry no managed name: no poll reaches them.          *)
(***************************************************************************)
EXTENDS Naturals, FiniteSets

CONSTANTS
    Printers,    \* printers that may be assigned
    Labels,      \* display names; a queue is named after label and printer
    Addresses,   \* where a printer may answer
    OwnQueue,    \* stands for the queues the user added
    QueryBudget, \* unanswered queries that use up _QUERY_BUDGET, its seconds counted in them
    None

Tiers == {"driverless", "vendor", "unusable"}
Platforms == {"windows", "windows2019", "macos"}
\* A package that is broken can be fetched and cannot be staged.
Packages == {"good", "broken", "none"}
Names == Printers \X Labels
Assignment == [printer : Printers, label : Labels, address : Addresses,
          tier : Tiers, package : Packages, default : BOOLEAN]

VARIABLES
    platform,   \* which backend this machine has
    central,    \* printer -> what central would send for it, or None when unassigned
    awake,      \* printers that answer an IPP query
    queues,     \* managed queue -> [address, tier] it was built for, or None
    chosen,     \* the user's default: a queue's name or None
    step,       \* where the client is in its poll
    wanted,     \* the specs of this poll
    todo,       \* those it has yet to converge
    outcome     \* queue -> what this poll reports of it, or None

vars == <<platform, central, awake, queues, chosen, step, wanted, todo, outcome>>

Queue == [address : Addresses, tier : Tiers]
\* Outcomes a default may be pointed at: a queue left for the next poll is one.
Provisioned == {"created", "unchanged", "updated", "deferred"}

TypeOK ==
    /\ platform \in Platforms
    /\ central \in [Printers -> Assignment \cup {None}]
    /\ awake \subseteq Printers
    /\ queues \in [Names -> Queue \cup {None}]
    /\ chosen \in Names \cup {OwnQueue, None}
    /\ step \in {"idle", "ensure", "remove", "default"}
    /\ wanted \subseteq Assignment /\ todo \subseteq wanted
    /\ outcome \in [Names -> Provisioned \cup {"error", "unanswered", "skipped", None}]

NoOutcome == [n \in Names |-> None]

Init ==
    /\ platform \in Platforms
    /\ central = [p \in Printers |-> None]
    /\ awake = Printers
    /\ queues = [n \in Names |-> None]
    /\ chosen \in {OwnQueue, None}
    /\ step = "idle" /\ wanted = {} /\ todo = {} /\ outcome = NoOutcome

NameOf(s) == <<s.printer, s.label>>

-----------------------------------------------------------------------------
(* Central, the printers and the user.                                      *)

\* An assignment is made, changed or withdrawn: its label, address, tier and
\* driver package are whatever central holds now; one printer is the default.
Reassign(p, s) ==
    /\ s # central[p]
    /\ s # None => s.printer = p
    /\ central' = [q \in Printers |->
          IF q = p THEN s
          ELSE IF s # None /\ s.default /\ central[q] # None
               THEN [central[q] EXCEPT !.default = FALSE] ELSE central[q]]
    /\ UNCHANGED <<platform, awake, queues, chosen, step, wanted, todo, outcome>>

Sleep(p) ==
    /\ awake' = IF p \in awake THEN awake \ {p} ELSE awake \cup {p}
    /\ UNCHANGED <<platform, central, queues, chosen, step, wanted, todo, outcome>>

UserChooses(q) ==
    /\ chosen' = q
    /\ UNCHANGED <<platform, central, awake, queues, step, wanted, todo, outcome>>

UserDeletes(n) ==
    /\ queues[n] # None
    /\ queues' = [queues EXCEPT ![n] = None]
    /\ UNCHANGED <<platform, central, awake, chosen, step, wanted, todo, outcome>>

-----------------------------------------------------------------------------
(* A poll.                                                                  *)

\* build_specs and the fetch of the driver packages: what cannot be built, or
\* whose package cannot be had, is reported as skipped and is not converged.
Ready(s) == s.tier = "driverless" \/ (s.tier = "vendor" /\ s.package # "none")

Poll ==
    /\ step = "idle"
    /\ LET sent == {central[p] : p \in {q \in Printers : central[q] # None}}
       IN  /\ wanted' = sent
           /\ todo' = {s \in sent : Ready(s)}
           /\ outcome' = [n \in Names |->
                 IF \E s \in sent : NameOf(s) = n /\ ~ Ready(s) THEN "skipped" ELSE None]
    /\ step' = "ensure"
    /\ UNCHANGED <<platform, central, awake, queues, chosen>>

\* The package behind a spec went between the answer and the download.
PackageGone(s) ==
    /\ step = "ensure" /\ s \in todo /\ s.tier = "vendor"
    /\ central[s.printer] # None => central[s.printer].package = "none"
    /\ todo' = todo \ {s}
    /\ outcome' = [outcome EXCEPT ![NameOf(s)] = "skipped"]
    /\ UNCHANGED <<platform, central, awake, queues, chosen, step, wanted>>

\* CUPS compares the address alone.  Windows compares the driver and, for a
\* vendor queue, the port; where a driverless queue points it does not ask.
Converged(s) ==
    LET q == queues[NameOf(s)]
    IN  /\ q # None
        /\ IF platform = "macos" THEN q.address = s.address
           ELSE q.tier = s.tier /\ (s.tier = "vendor" => q.address = s.address)

\* No -IppURL on this Windows, or a driver that cannot be staged; CUPS stages
\* the driver before it looks at the queue, Windows only when it is not there.
Unbuildable(s) ==
    \/ s.tier = "driverless" /\ platform = "windows2019"
    \/ s.tier = "vendor" /\ s.package = "broken" /\ (platform = "macos" \/ ~ Converged(s))

\* A poll on macOS asks no more once enough printers have not answered it.
Exhausted ==
    /\ platform = "macos"
    /\ Cardinality({n \in Names : outcome[n] = "unanswered"}) >= QueryBudget

\* One spec is done with: what is reported of its queue.
Reported(s, what) ==
    /\ step = "ensure" /\ s \in todo
    /\ todo' = todo \ {s}
    /\ outcome' = [outcome EXCEPT ![NameOf(s)] = what]
    /\ UNCHANGED <<platform, central, awake, chosen, step, wanted>>

LeaveAlone(s) ==
    /\ Converged(s) /\ ~ Unbuildable(s)
    /\ Reported(s, "unchanged")
    /\ UNCHANGED queues

\* Building a driverless queue asks the printer; a vendor queue asks nobody.  A
\* Windows that has the driver from elsewhere needs nothing of the package.
Build(s) ==
    /\ ~ Converged(s)
    /\ IF s.tier = "driverless"
       THEN s.printer \in awake /\ ~ Exhausted /\ platform # "windows2019"
       ELSE Unbuildable(s) => platform # "macos"
    /\ Reported(s, IF queues[NameOf(s)] = None THEN "created" ELSE "updated")
    /\ queues' = [queues EXCEPT ![NameOf(s)] = [address |-> s.address, tier |-> s.tier]]

\* The reason is reported, before anything of the queue was touched.
BuildRefused(s) ==
    /\ Unbuildable(s)
    /\ Reported(s, "error")
    /\ UNCHANGED queues

\* The printer does not answer.  Windows cannot repair a driverless queue in
\* place: the old one is gone before the new one is refused.  CUPS puts the old
\* address back.
BuildFails(s) ==
    /\ ~ Converged(s) /\ ~ Unbuildable(s) /\ ~ Exhausted
    /\ s.tier = "driverless" /\ s.printer \notin awake
    /\ Reported(s, "unanswered")
    /\ queues' = IF platform = "macos" THEN queues
                 ELSE [queues EXCEPT ![NameOf(s)] = None]

\* Out of its budget, the poll leaves the queue to the next one, answer or not.
Defer(s) ==
    /\ ~ Converged(s) /\ s.tier = "driverless" /\ Exhausted
    /\ Reported(s, "deferred")
    /\ UNCHANGED queues

\* What a repair that is cut short or goes wrong leaves of the queue: CUPS moves
\* the address before it asks the printer, and may fail to put it back.
Remains(s) ==
    LET old == queues[NameOf(s)]
    IN  IF platform = "macos" THEN {old, None, [address |-> s.address, tier |-> "unusable"]}
        ELSE IF s.tier = "driverless" THEN {None} ELSE {old}

\* The spooler or CUPS refuses a step of the repair or of its undoing.
BuildErrs(s) ==
    /\ ~ Converged(s) /\ ~ Unbuildable(s)
    /\ s.tier = "driverless" => ~ Exhausted
    /\ Reported(s, "error")
    /\ \E q \in Remains(s) : queues' = [queues EXCEPT ![NameOf(s)] = q]

\* The machine stops inside a repair: a queue CUPS has moved to the right
\* address is never looked at again.
CutShort(s) ==
    /\ step = "ensure" /\ s \in todo /\ ~ Converged(s) /\ ~ Unbuildable(s)
    /\ \E q \in Remains(s) : queues' = [queues EXCEPT ![NameOf(s)] = q]
    /\ step' = "idle" /\ wanted' = {} /\ todo' = {} /\ outcome' = NoOutcome
    /\ UNCHANGED <<platform, central, awake, chosen>>

EnsureDone ==
    /\ step = "ensure" /\ todo = {}
    /\ step' = "remove"
    /\ UNCHANGED <<platform, central, awake, queues, chosen, wanted, todo, outcome>>

\* Mutant: what was left alone is not on the list of what to keep
KeptChanged == {n \in Names : outcome[n] \in {"created", "updated", "error", "unanswered"}}

\* Only what was handed to the backend is wanted: a skipped printer was not.
Kept == {n \in Names : outcome[n] \in Provisioned \cup {"error", "unanswered"}}

Managed == {n \in Names : queues[n] # None}

RemoveQueue(n) ==
    /\ step = "remove" /\ n \in Managed \ Kept
    /\ queues' = [queues EXCEPT ![n] = None]
    /\ UNCHANGED <<platform, central, awake, chosen, step, wanted, todo, outcome>>

RemoveDone ==
    /\ step = "remove" /\ Managed \subseteq Kept
    /\ step' = "default"
    /\ UNCHANGED <<platform, central, awake, queues, chosen, wanted, todo, outcome>>

\* The default is only pointed at a queue this poll provisioned, and only while
\* somebody is signed in; the check-in follows whatever came of it.
SetDefault(signedIn) ==
    /\ step = "default"
    /\ chosen' = LET ds == {NameOf(s) : s \in {w \in wanted : w.default}}
                     good == {n \in ds : outcome[n] \in Provisioned /\ queues[n] # None}
                 IN  IF signedIn /\ good # {} THEN CHOOSE n \in good : TRUE ELSE chosen
    /\ step' = "idle" /\ wanted' = {} /\ todo' = {} /\ outcome' = NoOutcome
    /\ UNCHANGED <<platform, central, awake, queues>>

\* The machine or the service stops; the queues stay as they are.
Crash ==
    /\ step # "idle"
    /\ step' = "idle" /\ wanted' = {} /\ todo' = {} /\ outcome' = NoOutcome
    /\ UNCHANGED <<platform, central, awake, queues, chosen>>

PollNext ==
    \/ Poll \/ EnsureDone \/ RemoveDone
    \/ \E s \in todo : \/ PackageGone(s) \/ LeaveAlone(s) \/ Build(s)
                       \/ BuildRefused(s) \/ BuildFails(s) \/ Defer(s)
    \/ \E n \in Names : RemoveQueue(n)
    \/ \E b \in BOOLEAN : SetDefault(b)

Next ==
    \/ PollNext \/ Crash
    \/ \E s \in todo : CutShort(s) \/ BuildErrs(s)
    \/ \E p \in Printers : Sleep(p) \/ \E s \in Assignment \cup {None} : Reassign(p, s)
    \/ \E n \in Names : UserDeletes(n)
    \/ \E q \in Names \cup {OwnQueue, None} : UserChooses(q)

Spec == Init /\ [][Next]_vars

-----------------------------------------------------------------------------
Usable == {p \in Printers : central[p] # None /\ Ready(central[p])}

\* The queues the machine should have under what central says now.
Due == {NameOf(central[p]) : p \in Usable}

\* A printer asleep is asked in every poll on macOS, until its queue is built.
Asked == {p \in Usable : /\ central[p].tier = "driverless"
                         /\ p \notin awake /\ ~ Converged(central[p])}

\* What no poll will build while all stays as it is: the printer or enough others
\* sleep, the driver cannot be staged, or this Windows has no -IppURL.
OutOfReach(p) ==
    IF central[p].tier = "driverless"
    THEN \/ p \notin awake \/ platform = "windows2019"
         \/ platform = "macos" /\ Cardinality(Asked) >= QueryBudget
    ELSE central[p].package = "broken"

\* What every poll takes for right: a driverless queue on Windows wherever it
\* points, and a queue of CUPS on the right address whatever it was built from.
TakenForRight(p) ==
    LET q == queues[NameOf(central[p])]
    IN  /\ q # None
        /\ \/ platform = "windows" /\ q.tier = "driverless" /\ central[p].tier = "driverless"
           \/ platform = "macos" /\ q.address = central[p].address

\* When central, the printers and the user are left alone, the machine ends up
\* with no managed queue it should not have, and with every queue it should have
\* on the address and the driver central holds: but for what is out of its reach
\* and what it takes for right without looking.
QueuesConverge ==
    <>[](/\ Managed \subseteq Due
         /\ \A p \in Usable :
               \/ queues[NameOf(central[p])]
                     = [address |-> central[p].address, tier |-> central[p].tier]
               \/ TakenForRight(p) \/ OutOfReach(p))
=============================================================================
