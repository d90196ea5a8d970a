--------------------------- MODULE DefinitionFeed ---------------------------
(***************************************************************************)
(* Device definitions on their way to an agent: the rows operators edit    *)
(* (central/dashboard/definitions.py), the feed central serves             *)
(* (services.device_definition_feed, ingest.py: get_device_definitions)    *)
(* and the agent's copy of it (agent runner.py: DefinitionSync, agent      *)
(* providers/definitions.py: set_active, DefinitionStore).                 *)
(*                                                                         *)
(* A feed's version is a digest of its content, so here a version is the   *)
(* feed itself.  A spec is a model value; the agent's validator knows the  *)
(* specs in Known, for an agent may be older than central.  A signature    *)
(* is the key it was made with.                                            *)
(***************************************************************************)
EXTENDS Integers, FiniteSets

CONSTANTS
    Keys, Clients, Global, Specs, Known,
    None,
    MaxKeys         \* bound: API keys ever given to the agent

VARIABLES
    rows,       \* device_definitions, by key and scope, or None
    served,     \* clients_served_by_agent
    centralKey, \* agents.api_key_hash
    agentKey,   \* the key in the agent's file
    active,     \* _ACTIVE, None while the process is down
    version,    \* DefinitionSync._version
    reply,      \* the response in the agent's hands
    cache       \* the cache file: a feed and its signature

vars == <<rows, served, centralKey, agentKey, active, version, reply, cache>>

Scopes == Clients \cup {Global}
Rows   == [spec : Specs, enabled : BOOLEAN]
Feeds  == SUBSET [key : Keys, scope : Scopes, spec : Specs]
Signed == [feed : Feeds, key : 1..MaxKeys]

\* What the constants must satisfy.
FeedAssumption ==
    /\ Known \subseteq Specs /\ Global \notin Clients
    /\ MaxKeys \in Nat \ {0}
    /\ None \notin Rows \cup Signed /\ \A feed \in Feeds : feed # None

TypeOK ==
    /\ rows \in [Keys \X Scopes -> Rows \cup {None}]
    /\ served \subseteq Clients
    /\ centralKey \in 1..MaxKeys /\ agentKey \in 1..MaxKeys
    /\ active \in Feeds \cup {None}
    /\ version \in Feeds \cup {None}
    /\ reply \in Signed \cup {None}
    /\ cache \in Signed \cup {None}

Init ==
    /\ rows = [k \in Keys \X Scopes |-> None]
    /\ served \in SUBSET Clients
    /\ centralKey = 1 /\ agentKey = 1
    /\ active = None /\ version = None /\ reply = None /\ cache = None

-----------------------------------------------------------------------------
(* Central *)

\* device_definition_feed: the enabled rows in scope; the scoped row of a
\* key wins over the global one, and a key two clients scope is dropped.
Live(k, s) == rows[k, s] # None /\ rows[k, s].enabled

Narrow(k) == {s \in served : Live(k, s)}

ServedScope(k) ==
    IF Narrow(k) # {} THEN Narrow(k)
    ELSE IF Live(k, Global) THEN {Global} ELSE {}

\* Mutant: every definition in scope is served, the narrowed ones too
FeedUnnarrowed ==
    {[key |-> ks[1], scope |-> ks[2], spec |-> rows[ks[1], ks[2]].spec] :
        ks \in {x \in Keys \X (served \cup {Global}) : Live(x[1], x[2])}}

Feed == {[key |-> ks[1], scope |-> ks[2], spec |-> rows[ks].spec] :
            ks \in {x \in Keys \X Scopes : ServedScope(x[1]) = {x[2]}}}

SaveDefinition(k, s, row) ==
    /\ rows[k, s] # row
    /\ rows' = [rows EXCEPT ![<<k, s>>] = row]
    /\ UNCHANGED <<served, centralKey, agentKey, active, version, reply, cache>>

DeleteDefinition(k, s) ==
    /\ rows[k, s] # None
    /\ rows' = [rows EXCEPT ![<<k, s>>] = None]
    /\ UNCHANGED <<served, centralKey, agentKey, active, version, reply, cache>>

\* Subnets are given to the agent and taken from it.
Reassign(clients) ==
    /\ served # clients
    /\ served' = clients
    /\ UNCHANGED <<rows, centralKey, agentKey, active, version, reply, cache>>

RotateKey ==
    /\ centralKey < MaxKeys
    /\ centralKey' = centralKey + 1
    /\ UNCHANGED <<rows, served, agentKey, active, version, reply, cache>>

-----------------------------------------------------------------------------
(* The agent *)

\* set_active drops what does not validate and installs the rest.
Valid(feed) == {d \in feed : d.spec \in Known}

Verifies(signed) == signed # None /\ signed.key = agentKey

\* load_cache: the version is the cache's, and without one the agent asks
\* for everything.
Start ==
    /\ active = None
    /\ active'  = IF Verifies(cache) THEN Valid(cache.feed) ELSE {}
    /\ version' = IF Verifies(cache) THEN cache.feed ELSE None
    /\ UNCHANGED <<rows, served, centralKey, agentKey, reply, cache>>

Stop ==
    /\ active # None
    /\ active' = None /\ version' = None /\ reply' = None
    /\ UNCHANGED <<rows, served, centralKey, agentKey, cache>>

\* The operator puts the current key in the agent's file and restarts it.
InstallKey ==
    /\ agentKey # centralKey
    /\ agentKey' = centralKey
    /\ active' = None /\ version' = None /\ reply' = None
    /\ UNCHANGED <<rows, served, centralKey, cache>>

\* get_device_definitions: refused for a wrong key, and nothing travels when
\* the version still holds.
FetchFeed ==
    /\ active # None /\ reply = None
    /\ agentKey = centralKey
    /\ version # Feed
    /\ reply' = [feed |-> Feed, key |-> centralKey]
    /\ UNCHANGED <<rows, served, centralKey, agentKey, active, version, cache>>

\* Mutant: an empty feed leaves the definitions of the last one active
ApplyFeedUnlessEmpty ==
    /\ Verifies(reply)
    /\ active' = IF reply.feed = {} THEN active ELSE Valid(reply.feed)
    /\ version' = reply.feed
    /\ cache' \in {reply, cache}
    /\ reply' = None
    /\ UNCHANGED <<rows, served, centralKey, agentKey>>

\* The rest of refresh: the active set, the version, then the cache, which
\* may fail to be written.
ApplyFeed ==
    /\ Verifies(reply)
    /\ active' = Valid(reply.feed)
    /\ version' = reply.feed
    /\ cache' \in {reply, cache}
    /\ reply' = None
    /\ UNCHANGED <<rows, served, centralKey, agentKey>>

Next ==
    \/ \E k \in Keys, s \in Scopes, r \in Rows : SaveDefinition(k, s, r)
    \/ \E k \in Keys, s \in Scopes : DeleteDefinition(k, s)
    \/ \E cs \in SUBSET Clients : Reassign(cs)
    \/ RotateKey \/ InstallKey \/ Start \/ Stop
    \/ FetchFeed \/ ApplyFeed

\* The service manager restarts the agent and its loop polls; an operator
\* who rotates a key installs it.
Fairness == WF_vars(Start) /\ WF_vars(InstallKey)
            /\ WF_vars(FetchFeed) /\ WF_vars(ApplyFeed)

Spec == Init /\ [][Next]_vars /\ Fairness

-----------------------------------------------------------------------------
(* Properties *)

\* What the agent applies is what it holds of some feed central served it
\* under the agent's present key, and the version it names says which one,
\* so that "unchanged" is never said to an agent that holds something else
\* (DefinitionSync, DefinitionStore.load).
VersionNamesContent ==
    active # None =>
       active = IF version = None THEN {} ELSE Valid(version)

\* No key is read by two scopes at once, and no tenant's definition is in a
\* feed beside the global one it narrows (device_definition_feed).
OneScopePerKey ==
    active # None => \A d, e \in active : d.key = e.key => d = e

\* Once operators stop, the agent comes to apply the feed and nothing else:
\* a withdrawn definition stops being applied even when the feed is empty
\* (DefinitionSync.refresh).
Converges == <>[](active # None => active = Valid(Feed))
=============================================================================
