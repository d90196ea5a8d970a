-------------------------- MODULE AgentEnrollment --------------------------
(***************************************************************************)
(* How an agent comes by its identity: the claim code an operator mints    *)
(* for a site (manage.py: onboard_submit, agent_claim_code; services.py:   *)
(* mint_claim_token), its redemption (api/enrollment.py: register_agent,   *)
(* services.redeem_claim_token), the installs that carry it (agent         *)
(* config.py: load_config, enrollment.py) and what operators do to agents  *)
(* meanwhile: keys, the pre-minted path, deletions.                        *)
(*                                                                         *)
(* An install is a machine with a configuration file; several installs may *)
(* carry one code, as when they boot from one image.  A key is known by    *)
(* the number it was minted with.                                          *)
(***************************************************************************)
EXTENDS Integers, FiniteSets

CONSTANTS
    Sites, Codes, Installs, Subnets,
    SiteOf,         \* subnet -> its site
    None,
    MaxTtl,         \* CLAIM_CODE_MAX_TTL_MINUTES
    MaxAgents,      \* bound: agent ids, and keys, ever minted
    MaxTime         \* bound: the clock stops here

\* What the constants must satisfy.
EnrollmentAssumption ==
    /\ SiteOf \in [Subnets -> Sites]
    /\ MaxTtl \in Nat \ {0} /\ MaxAgents \in Nat \ {0} /\ MaxTime \in Nat

VARIABLES
    now,
    sites,      \* the sites that exist
    tokens,     \* code -> its row of agent_claim_tokens, or None
    agents,     \* agent id -> its row, or None
    owner,      \* subnet -> its agent, or None
    minted,     \* how many agent ids, and keys, were minted
    configs,    \* install -> the credentials in its file, or None
    replies,    \* install -> the response it has read and not yet written
    redeemed    \* history: code -> the agents created by redeeming it

vars == <<now, sites, tokens, agents, owner, minted, configs, replies, redeemed>>

Ids == 1..MaxAgents

TokenRows   == [site : Sites, expires : 1..(MaxTime + MaxTtl), used : BOOLEAN]
AgentRows   == [site : Sites, key : Ids]
Credentials == [agent : Ids, key : Ids]

TypeOK ==
    /\ now \in 0..MaxTime /\ sites \subseteq Sites
    /\ tokens \in [Codes -> TokenRows \cup {None}]
    /\ agents \in [Ids -> AgentRows \cup {None}]
    /\ owner \in [Subnets -> Ids \cup {None}]
    /\ minted \in 0..MaxAgents
    /\ configs \in [Installs -> Credentials \cup {None}]
    /\ replies \in [Installs -> Credentials \cup {None}]
    /\ redeemed \in [Codes -> SUBSET Ids]

Init ==
    /\ now = 0 /\ sites = Sites
    /\ tokens = [c \in Codes |-> None]
    /\ agents = [a \in Ids |-> None]
    /\ owner = [n \in Subnets |-> None]
    /\ minted = 0
    /\ configs = [i \in Installs |-> None]
    /\ replies = [i \in Installs |-> None]
    /\ redeemed = [c \in Codes |-> {}]

-----------------------------------------------------------------------------
(* Operators *)

\* Mutant: the minutes of the form are taken as they are
TtlUnclamped(minutes) == minutes

\* ttl_minutes is clamped to 1..CLAIM_CODE_MAX_TTL_MINUTES.
Ttl(minutes) == IF minutes < 1 THEN 1
                ELSE IF minutes > MaxTtl THEN MaxTtl ELSE minutes

MintClaimCode(c, site, minutes) ==
    /\ tokens[c] = None /\ redeemed[c] = {} /\ site \in sites
    /\ tokens' = [tokens EXCEPT ![c] =
          [site |-> site, expires |-> now + Ttl(minutes), used |-> FALSE]]
    /\ UNCHANGED <<now, sites, agents, owner, minted, configs, replies, redeemed>>

\* agent_create: the key is shown once and pasted into an install.
CreateAgent(site, i) ==
    /\ minted < MaxAgents /\ site \in sites /\ configs[i] = None
    /\ minted' = minted + 1
    /\ agents' = [agents EXCEPT ![minted'] = [site |-> site, key |-> minted']]
    /\ configs' = [configs EXCEPT ![i] = [agent |-> minted', key |-> minted']]
    /\ UNCHANGED <<now, sites, tokens, owner, replies, redeemed>>

RotateKey(a) ==
    /\ agents[a] # None /\ minted < MaxAgents
    /\ minted' = minted + 1
    /\ agents' = [agents EXCEPT ![a].key = minted']
    /\ UNCHANGED <<now, sites, tokens, owner, configs, replies, redeemed>>

Disown(gone) == [n \in Subnets |-> IF owner[n] \in gone THEN None ELSE owner[n]]

DeleteAgent(a) ==
    /\ agents[a] # None
    /\ agents' = [agents EXCEPT ![a] = None]
    /\ owner' = Disown({a})
    /\ UNCHANGED <<now, sites, tokens, minted, configs, replies, redeemed>>

\* delete_site: agents and claim tokens go with the site.
DeleteSite(site) ==
    /\ site \in sites
    /\ sites' = sites \ {site}
    /\ LET gone == {a \in Ids : agents[a] # None /\ agents[a].site = site} IN
          /\ agents' = [a \in Ids |-> IF a \in gone THEN None ELSE agents[a]]
          /\ owner' = Disown(gone)
    /\ tokens' = [c \in Codes |->
                     IF tokens[c] # None /\ tokens[c].site = site
                     THEN None ELSE tokens[c]]
    /\ UNCHANGED <<now, minted, configs, replies, redeemed>>

\* subnet_add and subnet_update give a subnet to an agent.
AssignSubnet(n, a) ==
    /\ SiteOf[n] \in sites /\ agents[a] # None /\ owner[n] # a
    /\ owner' = [owner EXCEPT ![n] = a]
    /\ UNCHANGED <<now, sites, tokens, agents, minted, configs, replies, redeemed>>

-----------------------------------------------------------------------------
(* Redemption *)

\* The conditional UPDATE that flips used_at.
Redeemable(c) == /\ tokens[c] # None
                 /\ ~tokens[c].used
                 /\ tokens[c].expires > now

\* The subnets of the site nobody owns are the new agent's.
Adopt(site, a) ==
    [n \in Subnets |-> IF SiteOf[n] = site /\ site \in sites /\ owner[n] = None
                       THEN a ELSE owner[n]]

\* register_agent, called by an install without credentials; its response
\* arrives or is lost.
Register(i, c, arrives) ==
    /\ configs[i] = None /\ replies[i] = None
    /\ Redeemable(c) /\ minted < MaxAgents
    /\ LET site == tokens[c].site IN
          /\ minted' = minted + 1
          /\ agents' = [agents EXCEPT ![minted'] =
                           [site |-> site, key |-> minted']]
          /\ owner' = Adopt(site, minted')
          /\ redeemed' = [redeemed EXCEPT ![c] = @ \cup {minted'}]
    /\ tokens' = [tokens EXCEPT ![c].used = TRUE]
    /\ replies' = IF arrives
                  THEN [replies EXCEPT ![i] = [agent |-> minted', key |-> minted']]
                  ELSE replies
    /\ UNCHANGED <<now, sites, configs>>

\* persist_credentials, atomic.
Persist(i) ==
    /\ replies[i] # None
    /\ configs' = [configs EXCEPT ![i] = replies[i]]
    /\ replies' = [replies EXCEPT ![i] = None]
    /\ UNCHANGED <<now, sites, tokens, agents, owner, minted, redeemed>>

\* The process dies between the response and the file.
CrashBeforePersist(i) ==
    /\ replies[i] # None
    /\ replies' = [replies EXCEPT ![i] = None]
    /\ UNCHANGED <<now, sites, tokens, agents, owner, minted, configs, redeemed>>

Tick ==
    /\ now < MaxTime
    /\ now' = now + 1
    /\ UNCHANGED <<sites, tokens, agents, owner, minted, configs, replies, redeemed>>

Next ==
    \/ Tick
    \/ \E c \in Codes, s \in Sites, m \in 0..MaxTtl + 1 : MintClaimCode(c, s, m)
    \/ \E s \in Sites, i \in Installs : CreateAgent(s, i)
    \/ \E a \in Ids : RotateKey(a) \/ DeleteAgent(a)
    \/ \E s \in Sites : DeleteSite(s)
    \/ \E n \in Subnets, a \in Ids : AssignSubnet(n, a)
    \/ \E i \in Installs, c \in Codes, b \in BOOLEAN : Register(i, c, b)
    \/ \E i \in Installs : Persist(i) \/ CrashBeforePersist(i)

Spec == Init /\ [][Next]_vars

-----------------------------------------------------------------------------
(* Properties *)

\* authenticated_agent.
Authenticates(i) ==
    /\ configs[i] # None
    /\ agents[configs[i].agent] # None
    /\ agents[configs[i].agent].key = configs[i].key

\* One code makes one agent and one agent is one install: however many
\* installs carry the code, and whatever is lost, no two of them act under
\* one identity (redeem_claim_token, persist_credentials).
OneIdentity ==
    /\ \A c \in Codes : Cardinality(redeemed[c]) <= 1
    /\ \A i, j \in Installs :
          Authenticates(i) /\ Authenticates(j) /\ i # j =>
             configs[i].agent # configs[j].agent

\* Enrolling takes no subnet away from an agent: only an operator moves an
\* owned one (redeem_claim_token adopts orphans only).
AdoptsOrphansOnly ==
    [][minted' # minted =>
          \A n \in Subnets : owner[n] # None => owner'[n] = owner[n]]_vars
=============================================================================
