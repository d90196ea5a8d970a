-------------------------- MODULE OperatorAccounts --------------------------
(***************************************************************************)
(* Console accounts: sign-in under the throttle (dashboard/routes.py:      *)
(* login; ratelimit.py), single sign-on (auth_oidc.py), the signed cookies *)
(* that are the sessions (deps.py: session_user; middleware.py), what an   *)
(* admin and the owner do to an account (manage.py, routes.py) and what    *)
(* the identity provider does to it over SCIM (api/scim.py).               *)
(*                                                                         *)
(* An account is known by its name: which row an address or a userName     *)
(* matches is left open, and so are renames.  A cookie is a value nobody   *)
(* can take back, so the cookies ever made may be presented at any time.   *)
(* A request that changes an account reads it, hashes or checks, and       *)
(* commits what it computed: Handlers is how many of those overlap.        *)
(***************************************************************************)
EXTENDS Integers, FiniteSets

Sums == INSTANCE FiniteSetsExt

CONSTANTS
    Users, Sources, Browsers, Handlers,
    None, Gone,
    DefaultRole,    \* scim.default_role and oidc.default_role
    LinkLocal,      \* oidc.link_local_accounts
    AutoProvision,  \* oidc.auto_provision
    UserThreshold, SourceThreshold, Window,     \* auth.lockout_*
    MaxEpoch,       \* bound: session epochs
    MaxTime         \* bound: the clock stops here

Roles == {"admin", "tech"}      \* client_readonly is a tech here

VARIABLES
    now,
    users,      \* the table users, None before and Gone after
    failures,   \* login_attempts: (name or source) and time -> rows
    cookies,    \* every session cookie ever made
    signIns,    \* browser -> the sign-in being checked
    edits       \* handler -> the change of an account it will commit

vars == <<now, users, failures, cookies, signIns, edits>>

Rows == [role : Roles, provider : {"local", "oidc", "scim"}, active : BOOLEAN,
         password : BOOLEAN, forced : BOOLEAN, epoch : 0..MaxEpoch]

\* What the constants must satisfy.
AccountsAssumption ==
    /\ DefaultRole \in Roles /\ LinkLocal \in BOOLEAN /\ AutoProvision \in BOOLEAN
    /\ UserThreshold \in Nat \ {0} /\ SourceThreshold \in Nat \ {0}
    /\ Window \in Nat \ {0} /\ MaxEpoch \in Nat /\ MaxTime \in Nat
    /\ IsFiniteSet(Browsers)
    /\ Users \cap Sources = {} /\ None # Gone /\ {None, Gone} \cap Rows = {}

Cookies == [user : Users, epoch : 0..MaxEpoch, forced : BOOLEAN]

SignIns == [user : Users, source : Sources, cookie : Cookies \cup {None}]

Changes == {"demote", "promote", "reset", "delete", "change", "logout"}

Edits == [change : Changes, user : Users, epoch : 0..MaxEpoch]

TypeOK ==
    /\ now \in 0..MaxTime
    /\ users \in [Users -> Rows \cup {None, Gone}]
    /\ failures \in [(Users \cup Sources) \X (0..MaxTime) -> Nat]
    /\ cookies \subseteq Cookies
    /\ signIns \in [Browsers -> SignIns \cup {None}]
    /\ edits \in [Handlers -> Edits \cup {None}]

\* seed_init: one admin, whose generated password has to be changed.
Init ==
    /\ now = 0
    /\ \E first \in Users :
          users = [u \in Users |->
              IF u = first
              THEN [role |-> "admin", provider |-> "local", active |-> TRUE,
                    password |-> TRUE, forced |-> TRUE, epoch |-> 0]
              ELSE None]
    /\ failures = [k \in (Users \cup Sources) \X (0..MaxTime) |-> 0]
    /\ cookies = {}
    /\ signIns = [b \in Browsers |-> None]
    /\ edits = [h \in Handlers |-> None]

Exists(u) == users[u] \notin {None, Gone}

Admins == {u \in Users : Exists(u) /\ users[u].role = "admin"}

ActiveAdmins == {u \in Admins : users[u].active}

-----------------------------------------------------------------------------
(* The throttle *)

\* _counts: the failures that are not older than the window.
Count(k) == Sums!MapThenSumSet(LAMBDA t : failures[<<k, t>>],
                               {t \in 0..now : now - t <= Window})

Throttled(u, s) == Count(u) >= UserThreshold \/ Count(s) >= SourceThreshold

\* record_failure: one row in each scope, and both buckets pruned.
WithFailure(u, s) ==
    [k \in DOMAIN failures |->
        IF k[1] \in {u, s}
        THEN IF k[2] = now THEN failures[k] + 1
             ELSE IF k[2] < now - 2 * Window THEN 0 ELSE failures[k]
        ELSE failures[k]]

\* clear.
Without(keys) == [k \in DOMAIN failures |-> IF k[1] \in keys THEN 0 ELSE failures[k]]

\* prune_login_attempts, the worker's.
Prune ==
    /\ failures' = [k \in DOMAIN failures |->
                       IF k[2] < now - 2 * Window THEN 0 ELSE failures[k]]
    /\ failures' # failures
    /\ UNCHANGED <<now, users, cookies, signIns, edits>>

-----------------------------------------------------------------------------
(* Signing in *)

\* The flags a browser may send along: a sign-in writes into the session it
\* has, whoever's that was, and only ever sets this one.
LeftOver == {FALSE} \cup {c.forced : c \in cookies}

CookieFor(u, left) ==
    [user |-> u, epoch |-> users[u].epoch, forced |-> users[u].forced \/ left]

\* login up to the verdict on the password, right or not.
TryPassword(b, u, s, right) ==
    /\ signIns[b] = None
    /\ ~Throttled(u, s)
    /\ right => Exists(u) /\ users[u].password
    /\ \E left \in LeftOver :
          signIns' = [signIns EXCEPT ![b] =
             [user |-> u, source |-> s,
              cookie |-> IF right /\ users[u].active THEN CookieFor(u, left) ELSE None]]
    /\ UNCHANGED <<now, users, failures, cookies, edits>>

\* The rest of login: a cookie and two cleared buckets, or a failure counted.
EndSignIn(b) ==
    /\ signIns[b] # None
    /\ LET attempt == signIns[b] IN
       IF attempt.cookie # None
       THEN /\ cookies' = cookies \cup {attempt.cookie}
            /\ failures' = Without({attempt.user, attempt.source})
       ELSE /\ failures' = WithFailure(attempt.user, attempt.source)
            /\ UNCHANGED cookies
    /\ signIns' = [signIns EXCEPT ![b] = None]
    /\ UNCHANGED <<now, users, edits>>

\* sso_callback with an address the provider vouches for: _match_or_provision.
SsoAccepts(u) == /\ Exists(u) /\ users[u].active
                 /\ users[u].provider \in {"oidc", "scim"} \/ LinkLocal

SingleSignOn(u) ==
    /\ SsoAccepts(u)
    /\ \E left \in LeftOver : cookies' = cookies \cup {CookieFor(u, left)}
    /\ UNCHANGED <<now, users, failures, signIns, edits>>

NewRow(role, provider, active, password) ==
    [role |-> role, provider |-> provider, active |-> active,
     password |-> password, forced |-> FALSE, epoch |-> 0]

SsoProvision(u) ==
    /\ users[u] = None /\ AutoProvision
    /\ users' = [users EXCEPT ![u] = NewRow(DefaultRole, "oidc", TRUE, FALSE)]
    /\ \E left \in LeftOver :
          cookies' = cookies \cup {[user |-> u, epoch |-> 0, forced |-> left]}
    /\ UNCHANGED <<now, failures, signIns, edits>>

-----------------------------------------------------------------------------
(* SCIM: accounts of other providers are refused *)

Managed(u) == Exists(u) /\ users[u].provider \in {"scim", "oidc"}

LastActiveAdmin(u) == u \in ActiveAdmins /\ Cardinality(ActiveAdmins) <= 1

SetActive(u, active) ==
    /\ users' = [users EXCEPT ![u].active = active]
    /\ UNCHANGED <<now, failures, cookies, signIns, edits>>

\* create_user: an account that exists is made active again.
ScimCreate(u, active) ==
    \/ /\ users[u] = None
       /\ users' = [users EXCEPT ![u] = NewRow(DefaultRole, "scim", active, FALSE)]
       /\ UNCHANGED <<now, failures, cookies, signIns, edits>>
    \/ Managed(u) /\ ~users[u].active /\ SetActive(u, TRUE)

\* replace_user, patch_user and delete_user.
ScimUpdate(u, active) ==
    /\ Managed(u) /\ users[u].active # active
    /\ ~active => ~LastActiveAdmin(u)
    /\ SetActive(u, active)

-----------------------------------------------------------------------------
(* Requests of signed-in users *)

\* session_user.
Current(c) == /\ Exists(c.user)
              /\ users[c.user].active
              /\ c.epoch = users[c.user].epoch

\* The console for an admin: a forced cookie reaches /account alone.
Administers(c) == Current(c) /\ ~c.forced /\ users[c.user].role = "admin"

\* user_create.
CreateUser(c, u, role, password) ==
    /\ Administers(c)
    /\ users[u] = None
    /\ users' = [users EXCEPT ![u] =
          NewRow(role, IF password THEN "local" ELSE "oidc", TRUE, password)]
    /\ UNCHANGED <<now, failures, cookies, signIns, edits>>

\* user_unlock.
Unlock(c, u) ==
    /\ Administers(c) /\ Exists(u)
    /\ Count(u) > 0
    /\ failures' = Without({u})
    /\ UNCHANGED <<now, users, cookies, signIns, edits>>

\* What each change asks of the actor's cookie and of the account, when read.
Allowed(c, change, u) ==
    CASE change = "promote" -> Administers(c) /\ users[u].role # "admin"
      [] change = "demote"  -> /\ Administers(c) /\ u \in Admins
                               /\ Cardinality(Admins) > 1
      [] change = "reset"   -> Administers(c)
      [] change = "delete"  -> /\ Administers(c) /\ u # c.user
                               /\ u \in Admins => Cardinality(Admins) > 1
      [] change = "change"  -> /\ Current(c) /\ u = c.user
                               /\ users[u].provider = "local"
                               /\ users[u].password
      [] change = "logout"  -> Current(c) /\ u = c.user

Begin(h, c, change, u) ==
    /\ edits[h] = None
    /\ Exists(u)
    /\ Allowed(c, change, u)
    /\ users[u].epoch < MaxEpoch
    /\ edits' = [edits EXCEPT ![h] =
                    [change |-> change, user |-> u, epoch |-> users[u].epoch]]
    /\ UNCHANGED <<now, users, failures, cookies, signIns>>

\* Mutant: a reset leaves the sessions of the account as they are
EditedQuietly(row, edit) ==
    LET next == edit.epoch + 1 IN
    CASE edit.change = "promote" -> [row EXCEPT !.role = "admin"]
      [] edit.change = "demote"  -> [row EXCEPT !.role = "tech"]
      [] edit.change = "reset"   -> [row EXCEPT !.password = TRUE, !.provider = "local",
                                                !.forced = TRUE]
      [] edit.change = "delete"  -> Gone
      [] edit.change = "change"  -> [row EXCEPT !.forced = FALSE, !.epoch = next]
      [] edit.change = "logout"  -> [row EXCEPT !.epoch = next]

\* The columns a change writes, the epoch from the value that was read.
Edited(row, edit) ==
    LET next == edit.epoch + 1 IN
    CASE edit.change = "promote" -> [row EXCEPT !.role = "admin"]
      [] edit.change = "demote"  -> [row EXCEPT !.role = "tech"]
      [] edit.change = "reset"   -> [row EXCEPT !.password = TRUE, !.provider = "local",
                                                !.forced = TRUE, !.epoch = next]
      [] edit.change = "delete"  -> Gone
      [] edit.change = "change"  -> [row EXCEPT !.forced = FALSE, !.epoch = next]
      [] edit.change = "logout"  -> [row EXCEPT !.epoch = next]

\* A row deleted meanwhile fails the request.  Who changes a password has the
\* cookie made anew, the flag removed.
CommitEdit(h) ==
    /\ edits[h] # None
    /\ LET u == edits[h].user IN
       IF Exists(u)
       THEN /\ users' = [users EXCEPT ![u] = Edited(users[u], edits[h])]
            /\ cookies' = IF edits[h].change = "change"
                          THEN cookies \cup {[user |-> u, epoch |-> edits[h].epoch + 1,
                                              forced |-> FALSE]}
                          ELSE cookies
       ELSE UNCHANGED <<users, cookies>>
    /\ edits' = [edits EXCEPT ![h] = None]
    /\ UNCHANGED <<now, failures, signIns>>

Tick ==
    /\ now < MaxTime
    /\ now' = now + 1
    /\ UNCHANGED <<users, failures, cookies, signIns, edits>>

Next ==
    \/ Tick \/ Prune
    \/ \E b \in Browsers : \/ EndSignIn(b)
                           \/ \E u \in Users, s \in Sources, r \in BOOLEAN :
                                 TryPassword(b, u, s, r)
    \/ \E u \in Users : \/ SingleSignOn(u) \/ SsoProvision(u)
                        \/ \E a \in BOOLEAN : ScimCreate(u, a) \/ ScimUpdate(u, a)
    \/ \E c \in cookies, u \in Users :
          \/ Unlock(c, u)
          \/ \E role \in Roles, p \in BOOLEAN : CreateUser(c, u, role, p)
          \/ \E h \in Handlers, change \in Changes : Begin(h, c, change, u)
    \/ \E h \in Handlers : CommitEdit(h)

Spec == Init /\ [][Next]_vars

-----------------------------------------------------------------------------
(* Properties *)

\* The password a reset made, or the first one, opens nothing but the form
\* that replaces it: while its account waits for that, every session of it
\* that works, from whichever sign-in and however long ago it was read, is a
\* forced one (ForcePasswordChangeMiddleware reads the cookie and not the row).
\* The converse is not so: the flag stays in a browser that signs in again.
RotationForced ==
    \A c \in cookies : Current(c) /\ users[c.user].forced => c.forced

\* However many sign-ins run at once, a name or a source has no more failures
\* in a window than its budget and one for each sign-in that was let in
\* before the last of them was counted (check, record_failure).
BudgetKept ==
    /\ \A u \in Users : Count(u) < UserThreshold + Cardinality(Browsers)
    /\ \A s \in Sources : Count(s) < SourceThreshold + Cardinality(Browsers)

\* The console is never left without an admin account (user_update,
\* user_delete, _is_last_active_admin).
AdminRemains == Admins # {}

\* "Last-admin guard: refuse to demote the only remaining admin (lockout)"
\* (manage.py: user_update): some admin can always sign in.
AdminCanSignIn == ActiveAdmins # {}
=============================================================================
