------------------------- MODULE PrinterAssignments -------------------------
(***************************************************************************)
(* Who gets which printer: assignments to a person, to a group or to a     *)
(* machine, and how they resolve to the queues of one machine for the      *)
(* person signed in.  Tenancy spans three tables, so no constraint of the  *)
(* schema states it: assign_printer, sync_group_members and the resolver   *)
(* each keep their part.                                                   *)
(***************************************************************************)
EXTENDS Integers, FiniteSets

CONSTANTS
    Clients,                                \* customers
    People, Groups, Machines, Printers,     \* rows; printers are their ids
    ClientOf,                               \* row -> the customer it belongs to
    None

Targets == People \cup Groups \cup Machines

\* What the constants must satisfy.
OwnersAssumption == /\ Printers \subseteq Nat
                    /\ ClientOf \in [Targets \cup Printers -> Clients]
                    /\ None \notin Targets \cup BOOLEAN

VARIABLES
    assigned,    \* target -> printer -> the assignment's default flag, or None
    memberOf,    \* group -> its people
    activeRows,  \* people and machines that are active
    defaultWins  \* machines whose default beats the person's own

vars == <<assigned, memberOf, activeRows, defaultWins>>

TypeOK ==
    /\ assigned \in [Targets -> [Printers -> BOOLEAN \cup {None}]]
    /\ memberOf \in [Groups -> SUBSET People]
    /\ activeRows \subseteq People \cup Machines
    /\ defaultWins \subseteq Machines

Init ==
    /\ assigned = [t \in Targets |-> [p \in Printers |-> None]]
    /\ memberOf = [g \in Groups |-> {}]
    /\ activeRows = People \cup Machines
    /\ defaultWins = {}

-----------------------------------------------------------------------------
(* Operators.  A printer of another customer is refused, whoever asks;      *)
(* assigning a pair again only moves its flag.                              *)

Assign(p, t, flag) ==
    /\ ClientOf[p] = ClientOf[t]
    /\ assigned' = [assigned EXCEPT ![t][p] = flag]
    /\ UNCHANGED <<memberOf, activeRows, defaultWins>>

Unassign(p, t) ==
    /\ assigned[t][p] # None
    /\ assigned' = [assigned EXCEPT ![t][p] = None]
    /\ UNCHANGED <<memberOf, activeRows, defaultWins>>

\* The printer's row goes and its assignments with it.
DeletePrinter(p) ==
    /\ \E t \in Targets : assigned[t][p] # None
    /\ assigned' = [t \in Targets |-> [assigned[t] EXCEPT ![p] = None]]
    /\ UNCHANGED <<memberOf, activeRows, defaultWins>>

\* Used by the dashboard and by the directory sync alike.
SyncGroupMembers(g, us) ==
    /\ \A u \in us : ClientOf[u] = ClientOf[g]
    /\ memberOf' = [memberOf EXCEPT ![g] = us]
    /\ UNCHANGED <<assigned, activeRows, defaultWins>>

SetActive(x, b) ==
    /\ activeRows' = IF b THEN activeRows \cup {x} ELSE activeRows \ {x}
    /\ UNCHANGED <<assigned, memberOf, defaultWins>>

SetDefaultWins(m, b) ==
    /\ defaultWins' = IF b THEN defaultWins \cup {m} ELSE defaultWins \ {m}
    /\ UNCHANGED <<assigned, memberOf, activeRows>>

Next ==
    \/ \E p \in Printers, t \in Targets, b \in BOOLEAN : Assign(p, t, b)
    \/ \E p \in Printers, t \in Targets : Unassign(p, t)
    \/ \E p \in Printers : DeletePrinter(p)
    \/ \E g \in Groups, us \in SUBSET People : SyncGroupMembers(g, us)
    \/ \E x \in People \cup Machines, b \in BOOLEAN : SetActive(x, b)
    \/ \E m \in Machines, b \in BOOLEAN : SetDefaultWins(m, b)

Spec == Init /\ [][Next]_vars

-----------------------------------------------------------------------------
(* The resolver.  A result is a set of printers and the one default among   *)
(* them, or None.                                                           *)

Held(t)    == {p \in Printers : assigned[t][p] # None}
Flagged(t) == {p \in Printers : assigned[t][p] = TRUE}

Lowest(ps) == CHOOSE p \in ps : \A q \in ps : p <= q

Resolved(ps, default) == [printers |-> ps, default |-> default]

\* The machine a person's printers are resolved with, or None.
Counted(u, m) ==
    IF m # None /\ m \in activeRows /\ ClientOf[m] = ClientOf[u] THEN m ELSE None

\* Groups first, then the machine, then the person, each taking a printer over
\* from a layer that does not outrank it: the layers as a sequence of
\* [printers, flagged, rank], written over one another by rank.
Layers(u, m) ==
    LET mine == {g \in Groups : u \in memberOf[g]}
        seat == Counted(u, m)
        wins == seat # None /\ seat \in defaultWins
    IN  {[held |-> UNION {Held(g) : g \in mine},
          flagged |-> UNION {Flagged(g) : g \in mine}, rank |-> 2],
         [held |-> IF seat = None THEN {} ELSE Held(seat),
          flagged |-> IF seat = None THEN {} ELSE Flagged(seat),
          rank |-> IF wins THEN 0 ELSE 1],
         [held |-> Held(u), flagged |-> Flagged(u), rank |-> IF wins THEN 1 ELSE 0]}

EffectivePrinters(u, m) ==
    LET layers == Layers(u, m)
        Rank(p) == Lowest({l.rank : l \in {k \in layers : p \in k.held}})
        union == UNION {l.held : l \in layers}
        candidates == {p \in union : \E l \in layers : l.rank = Rank(p) /\ p \in l.flagged}
        best == {p \in candidates : \A q \in candidates : Rank(p) <= Rank(q)}
    IN  IF u \notin activeRows THEN Resolved({}, None)
        ELSE Resolved(union, IF candidates = {} THEN None ELSE Lowest(best))

PrintersForMachine(m) ==
    IF m \notin activeRows THEN Resolved({}, None)
    ELSE Resolved(Held(m), IF Flagged(m) = {} THEN None ELSE Lowest(Flagged(m)))

\* What a machine is told to provision when the name u is signed in: a name is
\* looked up among its own customer's people, and nobody known is at the keyboard
\* when it is not there.  A retired machine is refused before it is told anything.
MachineAssignments(m, u) ==
    IF u # None /\ ClientOf[u] = ClientOf[m] THEN EffectivePrinters(u, m)
    ELSE PrintersForMachine(m)

-----------------------------------------------------------------------------
\* A machine is only told printers of its own customer, and a default among
\* them, whoever signs in to it and whatever was assigned, joined or retired
\* before (machine_assignments, effective_printers_for, sync_group_members).
OwnTenantOnly ==
    \A m \in Machines, u \in People \cup {None} :
        LET told == MachineAssignments(m, u)
        IN  /\ \A p \in told.printers : ClientOf[p] = ClientOf[m]
            /\ told.default # None => told.default \in told.printers

\* The default a seat ends up with, against the rule the operators are told: a
\* kiosk's own flag beats everything; otherwise the person's flag comes first,
\* then the machine's, then a group's; a flag on a printer that a more specific
\* assignment hands out without one does not count.
DefaultFollowsRank ==
    \A m \in Machines \cap activeRows, u \in People \cap activeRows :
        ClientOf[m] = ClientOf[u] =>
            LET default == EffectivePrinters(u, m).default
                kiosk == m \in defaultWins
                groups == {g \in Groups : u \in memberOf[g]}
                own == IF kiosk THEN Flagged(u) \ Held(m) ELSE Flagged(u)
                seat == IF kiosk THEN Flagged(m) ELSE Flagged(m) \ Held(u)
                inherited == (UNION {Flagged(g) : g \in groups}) \ (Held(u) \cup Held(m))
                First(a, b) == IF a # {} THEN Lowest(a) ELSE IF b # {} THEN Lowest(b)
                               ELSE IF inherited # {} THEN Lowest(inherited) ELSE None
            IN  default = IF kiosk THEN First(seat, own) ELSE First(own, seat)
=============================================================================
