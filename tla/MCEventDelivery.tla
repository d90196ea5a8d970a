-------------------------- MODULE MCEventDelivery --------------------------
(***************************************************************************)
(* EventDelivery with a budget for what operators and destinations do and  *)
(* for lost sweeps; the worker and the clock are free.  The budget bounds  *)
(* the state space and appears in no guard of the specification.           *)
(***************************************************************************)
EXTENDS EventDelivery

CONSTANT MaxChanges     \* bound: edits, changes of health and lost sweeps

VARIABLE changes

\* Subscriptions start alike, global and interested in everything; changes
\* make them differ.
MCInit ==
    /\ Init
    /\ \A s \in Subscriptions : subs[s].scope = Global /\ subs[s].types = Types
    /\ \E h \in {"up", "down"} : health = [s \in Subscriptions |-> h]
    /\ changes = 0

\* One type is emitted; a narrowed filter wants everything else.
Emitted == CHOOSE t \in Types : TRUE

EmitMC == \E f \in Facts, c \in Scopes : Emit(f, c, Emitted)

ChangeMC ==
    \/ \E s \in Subscriptions :
          \/ DeleteSubscription(s) \/ ChangeHealth(s) \/ ToggleSubscription(s)
          \/ \E scope \in Scopes, types \in {Types, Types \ {Emitted}} :
                UpdateSubscription(s, scope, types)
    \/ ToggleBus
    \/ RollBack

EventsMC ==
    \/ (Tick \/ EmitMC \/ SweepNext) /\ UNCHANGED changes
    \/ ChangeMC /\ changes < MaxChanges /\ changes' = changes + 1

MCSpec == MCInit /\ [][EventsMC]_<<vars, changes>>

Symmetry == Permutations(Facts)

=============================================================================
