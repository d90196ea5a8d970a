-------------------------- MODULE MCAlertLifecycle --------------------------
(***************************************************************************)
(* AlertLifecycle with a budget for what agents and operators do and for   *)
(* failed passes; the worker's passes and the clock are free.  The budget  *)
(* bounds the state space and appears in no guard of the specification.    *)
(***************************************************************************)
EXTENDS AlertLifecycle

CONSTANTS
    RuleSets,       \* the sets of enabled rules to start with
    MaxChanges      \* bound: readings, heartbeats, edits and failed passes

VARIABLE changes

MCInit == Init /\ rules \in RuleSets /\ changes = 0

Free == Tick \/ EvaluateAlerts \/ CommitPass

\* One reading changes the cartridge's level or the errors; two rules are
\* edited.
Bounded ==
    \/ Heartbeat
    \/ \E l \in Levels : ApplyReading(l, Unresolved)
    \/ \E codes \in SUBSET Codes : ApplyReading(level, codes)
    \/ PassFails
    \/ \E i \in DOMAIN alerts : Acknowledge(i) \/ Resolve(i)
    \/ \E o \in Operators : CheckIssue(o) \/ FileIssue(o)
    \/ \E kind \in {"supply", "error"} : ToggleRule(kind)

AlertsMC ==
    \/ Free /\ UNCHANGED changes
    \/ Bounded /\ changes < MaxChanges /\ changes' = changes + 1

StaleMC == StaleNext /\ changes < MaxChanges /\ changes' = changes + 1

MCFairness == WF_vars(EvaluateAlerts) /\ SF_vars(CommitPass)

MCSpec == MCInit /\ [][AlertsMC]_<<vars, changes>> /\ MCFairness

MCStaleSpec == MCInit /\ [][AlertsMC \/ StaleMC]_<<vars, changes>> /\ MCFairness

=============================================================================
