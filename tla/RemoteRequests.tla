--------------------------- MODULE RemoteRequests ---------------------------
(***************************************************************************)
(* Remote hands and the command queue that carries it: an operator's       *)
(* request (central/dashboard/remote.py) under the policy of               *)
(* central/remote.py, the pull that marks commands sent (ingest.py:        *)
(* get_commands), the agent that carries them out and reports (agent       *)
(* runner.py: handle_commands, handle_remote; agent remote.py) and         *)
(* central's record of the answer (services.apply_remote_result).          *)
(*                                                                         *)
(* An operator's POST reads, then commits, and another POST or an answer   *)
(* may commit in between.  Addresses, paths, ports and values are          *)
(* validated on both sides before anything else; a POST that fails a       *)
(* validation or the policy rolls back, the expiry of stale rows with it,  *)
(* so only the POSTs that pass are steps here.                             *)
(***************************************************************************)
EXTENDS Integers, Sequences, FiniteSets

CONSTANTS
    Printers, Agents, Operators,
    Reach,          \* printer -> the agents agent_for_printer may name
    None,
    MaxOpen,        \* remote.max_open_per_printer, 0 for no limit
    MinInterval,    \* remote.min_interval_seconds
    Ttl,            \* REQUEST_TTL_SECONDS
    MaxRequests,    \* bound: rows of remote_requests
    MaxTime         \* bound: the clock stops here

\* What the constants must satisfy.
RemoteAssumption ==
    /\ Reach \in [Printers -> SUBSET Agents] /\ IsFiniteSet(Operators)
    /\ None \notin BOOLEAN
    /\ MaxOpen \in Nat /\ MinInterval \in Nat /\ Ttl \in Nat
    /\ MaxRequests \in Nat \ {0} /\ MaxTime \in Nat

VARIABLES
    now,
    settings,   \* remote.enabled and remote.allow_writes
    printers,   \* the remote columns of each printer
    requests,   \* the table remote_requests, by id
    commands,   \* the table commands, by id
    posts,      \* operator -> the POST it has checked and not committed
    batches,    \* agent -> ids of pulled commands still to handle
    answers,    \* agent -> the result it is about to report
    carried     \* history: how often each request was carried out

vars == <<now, settings, printers, requests, commands, posts, batches,
          answers, carried>>

Kinds        == {"fetch", "probe", "write"}
Capabilities == {"unknown", "read_only", "writable"}
Open         == {"pending", "sent"}
Answered     == {"succeeded", "failed"}

PrinterRows  == [capability : Capabilities, pinned : BOOLEAN]

\* verdict: what the recorded answer said of writability, None for nothing.
RequestRows  == [printer : Printers, agent : Agents, kind : Kinds,
                 status : Open \cup Answered \cup {"expired"},
                 created : 0..MaxTime, verdict : BOOLEAN \cup {None}]

\* request is the remote request a command carries, None for the commands
\* that carry none: rescan, poll_now, poll_printer, update_agent.
CommandRows  == [agent : Agents, request : (1..MaxRequests) \cup {None},
                 status : {"pending", "sent"}]

Posts        == [printer : Printers, kind : Kinds,
                 stale : SUBSET (1..MaxRequests)]
Answers      == [request : 1..MaxRequests, ok : BOOLEAN,
                 verdict : BOOLEAN \cup {None}]

TypeOK ==
    /\ now \in 0..MaxTime
    /\ settings \in [enabled : BOOLEAN, writes : BOOLEAN]
    /\ printers \in [Printers -> PrinterRows]
    /\ requests \in Seq(RequestRows) /\ Len(requests) <= MaxRequests
    /\ commands \in Seq(CommandRows)
    /\ posts \in [Operators -> Posts \cup {None}]
    /\ batches \in [Agents -> SUBSET (1..Len(commands))]
    /\ answers \in [Agents -> Answers \cup {None}]
    /\ carried \in [1..MaxRequests -> Nat]

Init ==
    /\ now = 0
    /\ settings \in [enabled : BOOLEAN, writes : BOOLEAN]
    /\ printers = [p \in Printers |-> [capability |-> "unknown", pinned |-> FALSE]]
    /\ requests = <<>> /\ commands = <<>>
    /\ posts = [o \in Operators |-> None]
    /\ batches = [a \in Agents |-> {}]
    /\ answers = [a \in Agents |-> None]
    /\ carried = [r \in 1..MaxRequests |-> 0]

-----------------------------------------------------------------------------
(* The policy *)

Of(p) == {r \in DOMAIN requests : requests[r].printer = p}

OpenRequests(p) == {r \in Of(p) : requests[r].status \in Open}

Overdue(r) == now - requests[r].created > Ttl

\* The rows expire_stale marks, in the transaction of the POST.
Stale(p) == {r \in OpenRequests(p) : Overdue(r)}

\* The stale rows count: they are marked in the session, and the query that
\* counts does not see what is not flushed.
WithinRate(p) ==
    /\ MaxOpen # 0 => Cardinality(OpenRequests(p)) < MaxOpen
    /\ \A r \in Of(p) : now - requests[r].created >= MinInterval

WritesAllowed(p) ==
    /\ settings.writes
    /\ ~printers[p].pinned
    /\ printers[p].capability = "writable"

-----------------------------------------------------------------------------
(* Operators *)

\* remote_fetch, remote_probe, remote_write up to _queue.
CheckRequest(o, p, kind) ==
    /\ posts[o] = None
    /\ settings.enabled
    /\ kind = "write" => WritesAllowed(p)
    /\ WithinRate(p)
    /\ posts' = [posts EXCEPT ![o] =
                    [printer |-> p, kind |-> kind, stale |-> Stale(p)]]
    /\ UNCHANGED <<now, settings, printers, requests, commands, batches,
                   answers, carried>>

\* The commit: the request and the command that carries it together, and the
\* rows read as stale are written expired whatever they have become.
QueueRequest(o) ==
    /\ posts[o] # None
    /\ Len(requests) < MaxRequests
    /\ \E a \in Reach[posts[o].printer] :
          LET post == posts[o]
              row  == [printer |-> post.printer, agent |-> a,
                       kind |-> post.kind, status |-> "pending",
                       created |-> now, verdict |-> None]
              expired == [r \in DOMAIN requests |->
                             IF r \in post.stale
                             THEN [requests[r] EXCEPT !.status = "expired"]
                             ELSE requests[r]]
          IN  /\ requests' = Append(expired, row)
              /\ commands' = Append(commands,
                    [agent |-> a, request |-> Len(requests) + 1,
                     status |-> "pending"])
    /\ posts' = [posts EXCEPT ![o] = None]
    /\ UNCHANGED <<now, settings, printers, batches, answers, carried>>

PinReadOnly(p, disabled) ==
    /\ printers[p].pinned # disabled
    /\ printers' = [printers EXCEPT ![p].pinned = disabled]
    /\ UNCHANGED <<now, settings, requests, commands, posts, batches,
                   answers, carried>>

SaveSettings(enabled, writes) ==
    /\ settings' = [enabled |-> enabled, writes |-> writes]
    /\ settings' # settings
    /\ UNCHANGED <<now, printers, requests, commands, posts, batches,
                   answers, carried>>

\* agent_rescan, agent_poll_now, printer_poll_now, agent_update_command.
QueueCommand(a) ==
    /\ commands' = Append(commands,
                      [agent |-> a, request |-> None, status |-> "pending"])
    /\ UNCHANGED <<now, settings, printers, requests, posts, batches,
                   answers, carried>>

-----------------------------------------------------------------------------
(* The agent, and central's handlers for it *)

Idle(a) == batches[a] = {} /\ answers[a] = None

Pending(a) == {c \in DOMAIN commands :
                  commands[c].agent = a /\ commands[c].status = "pending"}

MarkSent(pulled) ==
    commands' = [c \in DOMAIN commands |->
                    IF c \in pulled THEN [commands[c] EXCEPT !.status = "sent"]
                                    ELSE commands[c]]

\* Mutant: a command is marked when it is answered, not when it is pulled
PullUnmarked(a) ==
    /\ Idle(a)
    /\ Pending(a) # {}
    /\ batches' = [batches EXCEPT ![a] = Pending(a)]
    /\ UNCHANGED <<now, settings, printers, requests, commands, posts, answers, carried>>

\* GET /commands, answered.  The rows come in no stated order.
PullCommands(a) ==
    /\ Idle(a)
    /\ Pending(a) # {}
    /\ MarkSent(Pending(a))
    /\ batches' = [batches EXCEPT ![a] = Pending(a)]
    /\ UNCHANGED <<now, settings, printers, requests, posts, answers, carried>>

\* GET /commands, committed, its response lost.
LosePull(a) ==
    /\ Idle(a)
    /\ Pending(a) # {}
    /\ MarkSent(Pending(a))
    /\ UNCHANGED <<now, settings, printers, requests, posts, batches,
                   answers, carried>>

\* What fetch_page, probe_writable and perform_write may come back with:
\* a fetch has no verdict; a probe that reads nothing fails without one; a
\* refused write is a verdict, and so is an accepted one.  A refusal by the
\* agent or an exception fails without a verdict (result_for_exception).
Outcomes(kind) ==
    CASE kind = "fetch" -> [ok : BOOLEAN, verdict : {None}]
      [] kind = "probe" -> [ok : {TRUE}, verdict : BOOLEAN]
                              \cup [ok : {FALSE}, verdict : {None}]
      [] kind = "write" -> {[ok |-> TRUE, verdict |-> TRUE],
                            [ok |-> FALSE, verdict |-> FALSE],
                            [ok |-> FALSE, verdict |-> None]}

CarryOut(a, c) ==
    /\ answers[a] = None
    /\ c \in batches[a] /\ commands[c].request # None
    /\ LET r == commands[c].request IN
       \E result \in Outcomes(requests[r].kind) :
          /\ answers' = [answers EXCEPT ![a] =
                [request |-> r, ok |-> result.ok, verdict |-> result.verdict]]
          /\ carried' = [carried EXCEPT ![r] = @ + 1]
    /\ batches' = [batches EXCEPT ![a] = @ \ {c}]
    /\ UNCHANGED <<now, settings, printers, requests, commands, posts>>

\* A rescan, a poll or an update that comes back.
HandleOther(a, c) ==
    /\ answers[a] = None
    /\ c \in batches[a] /\ commands[c].request = None
    /\ batches' = [batches EXCEPT ![a] = @ \ {c}]
    /\ UNCHANGED <<now, settings, printers, requests, commands, posts,
                   answers, carried>>

\* An exception out of a poll or a sweep, the exit after an update, or a
\* crash: what is left of the batch is gone, and so is an unreported result.
DropBatch(a) ==
    /\ ~Idle(a)
    /\ batches' = [batches EXCEPT ![a] = {}]
    /\ answers' = [answers EXCEPT ![a] = None]
    /\ UNCHANGED <<now, settings, printers, requests, commands, posts, carried>>

\* apply_remote_result.
ApplyResult(r, answer) ==
    /\ requests' = [requests EXCEPT
            ![r].status  = IF answer.ok THEN "succeeded" ELSE "failed",
            ![r].verdict = answer.verdict]
    /\ printers' = IF answer.verdict = None THEN printers
                   ELSE [printers EXCEPT ![requests[r].printer].capability =
                            IF answer.verdict THEN "writable" ELSE "read_only"]

\* POST /remote-results: the first answer wins, and an expired request is
\* answered already.
PostResult(a) ==
    /\ answers[a] # None
    /\ LET r == answers[a].request IN
       IF requests[r].status \in Open
       THEN ApplyResult(r, answers[a])
       ELSE UNCHANGED <<requests, printers>>
    /\ answers' = [answers EXCEPT ![a] = None]
    /\ UNCHANGED <<now, settings, commands, posts, batches, carried>>

\* The post never reaches central: nobody retries it.
LoseResult(a) ==
    /\ answers[a] # None
    /\ answers' = [answers EXCEPT ![a] = None]
    /\ UNCHANGED <<now, settings, printers, requests, commands, posts,
                   batches, carried>>

Tick ==
    /\ now < MaxTime
    /\ now' = now + 1
    /\ UNCHANGED <<settings, printers, requests, commands, posts, batches,
                   answers, carried>>

OperatorNext ==
    \/ \E o \in Operators, p \in Printers, k \in Kinds : CheckRequest(o, p, k)
    \/ \E o \in Operators : QueueRequest(o)
    \/ \E p \in Printers, b \in BOOLEAN : PinReadOnly(p, b)
    \/ \E e \in BOOLEAN, w \in BOOLEAN : SaveSettings(e, w)
    \/ \E a \in Agents : QueueCommand(a)

AgentNext ==
    \E a \in Agents :
       \/ PullCommands(a) \/ LosePull(a) \/ DropBatch(a)
       \/ PostResult(a) \/ LoseResult(a)
       \/ \E c \in batches[a] : CarryOut(a, c) \/ HandleOther(a, c)

Next == Tick \/ OperatorNext \/ AgentNext

Spec == Init /\ [][Next]_vars

-----------------------------------------------------------------------------
(* Properties *)

\* No request is carried out twice, whatever is lost on the way: a restart
\* of a printer is not repeated (get_commands, handle_remote).
AtMostOnce == \A r \in 1..MaxRequests : carried[r] <= 1

\* A write was queued only on a printer some earlier request had proved
\* writable, and the proof was recorded (writes_allowed, apply_remote_result).
WritesProven ==
    \A w \in DOMAIN requests :
       requests[w].kind = "write" =>
          \E r \in 1..(w - 1) : /\ requests[r].printer = requests[w].printer
                                /\ requests[r].verdict = TRUE

\* However many operators press at once, a printer never has more requests
\* open, the stale ones included, than the cap and one for each operator but
\* the first, who was checked against it (check_rate_limit reads before the
\* commit).
OpenBounded ==
    MaxOpen # 0 =>
    \A p \in Printers :
       Cardinality(OpenRequests(p)) <= MaxOpen + Cardinality(Operators) - 1

\* A settled request stays as it is; only a POST that read the row while it
\* was open may still write expired over an answer (post_remote_result,
\* expire_stale).
AnswersSettle ==
    [][\A r \in DOMAIN requests :
          requests[r].status \notin Open =>
             \/ requests'[r] = requests[r]
             \/ \E o \in Operators :
                   /\ posts[o] # None /\ r \in posts[o].stale
                   /\ requests'[r] = [requests[r] EXCEPT !.status = "expired"]]_vars
=============================================================================
