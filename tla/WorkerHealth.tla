---------------------------- MODULE WorkerHealth ----------------------------
(***************************************************************************)
(* The worker's cycle and what the deployment says of it (worker/run.py,   *)
(* db.try_leader_lock, schema_check.wait_for_schema, central/health.py).   *)
(*                                                                         *)
(* A worker waits for the schema, then runs a cycle now and then: the jobs *)
(* in their order, each stamped as it ends, under an advisory lock that    *)
(* another worker's cycle skips on.  The lock belongs to a connection of   *)
(* its own, which may drop while the cycle goes on.  A marker tells a      *)
(* worker that waits from one that is wedged.                              *)
(***************************************************************************)
EXTENDS Naturals

CONSTANTS Workers,
          Jobs,         \* number of jobs in the cycle
          StaleAfter,   \* stale_after_seconds
          Budget,       \* longest wait for the schema
          Grace,        \* WORKER_STARTING_GRACE_SECONDS
          MaxFailures,  \* WORKER_MAX_CONSECUTIVE_FAILURES
          MaxTime,      \* bound of the clock
          None

\* What the constants must satisfy.
HealthAssumption == /\ {Jobs, MaxFailures} \subseteq Nat \ {0}
                    /\ {StaleAfter, Budget, Grace, MaxTime} \subseteq Nat

VARIABLES now,
          migrated,  \* alembic_version is at head
          proc,      \* Workers -> where its process is
          lock,      \* the worker whose session holds the advisory lock
          run,       \* 1..Jobs -> its worker_job_runs row, or None
          marker,    \* the __starting__ row: when the wait began, or None
          marked     \* history: when a worker last wrote the marker

vars == <<now, migrated, proc, lock, run, marker, marked>>

JobIds == 1..Jobs
Processes == [at : {"off", "ready"}] \cup [at : {"waiting"}, until : Nat]
                \cup [at : {"running"}, job : JobIds]
RunRows == [success : Nat \cup {None}, failures : Nat]

Off == [at |-> "off"]
Ready == [at |-> "ready"]
Init ==
    /\ now = 0 /\ migrated \in BOOLEAN
    /\ proc = [w \in Workers |-> Off] /\ lock = None
    /\ run = [j \in JobIds |-> None] /\ marker = None /\ marked = None

-----------------------------------------------------------------------------
(* The worker's process *)

\* main: mark_worker_starting, then wait_for_schema
Start(w) ==
    /\ proc[w].at = "off"
    /\ proc' = [proc EXCEPT ![w] = [at |-> "waiting", until |-> now + Budget]]
    /\ marker' = now /\ marked' = now
    /\ UNCHANGED <<now, migrated, lock, run>>

\* the schema is complete, or is not and nobody migrates, or time is up
EndWait(w) ==
    /\ proc[w].at = "waiting" /\ (migrated \/ now >= proc[w].until)
    /\ proc' = [proc EXCEPT ![w] = Ready]
    /\ marker' = None
    /\ UNCHANGED <<now, migrated, lock, run, marked>>

\* run_cycle: another worker's cycle is skipped on, which changes nothing
BeginCycle(w) ==
    /\ proc[w].at = "ready" /\ lock = None
    /\ lock' = w /\ proc' = [proc EXCEPT ![w] = [at |-> "running", job |-> 1]]
    /\ UNCHANGED <<now, migrated, run, marker, marked>>

\* _stamp
Stamped(row, ok) ==
    [success |-> IF ok THEN now ELSE IF row = None THEN None ELSE row.success,
     failures |-> IF ok THEN 0 ELSE IF row = None THEN 1 ELSE row.failures + 1]

\* _run_jobs: one job fails and the rest still run
FinishJob(w, ok) ==
    LET j == proc[w].job IN
    /\ proc[w].at = "running"
    /\ run' = [run EXCEPT ![j] = Stamped(@, ok)]
    /\ IF j < Jobs
       THEN proc' = [proc EXCEPT ![w].job = j + 1] /\ UNCHANGED lock
       ELSE /\ proc' = [proc EXCEPT ![w] = Ready]
            /\ lock' = IF lock = w THEN None ELSE lock
    /\ UNCHANGED <<now, migrated, marker, marked>>

\* the process dies, and its session with it
Crash(w) ==
    /\ proc[w].at # "off"
    /\ proc' = [proc EXCEPT ![w] = Off]
    /\ lock' = IF lock = w THEN None ELSE lock
    /\ UNCHANGED <<now, migrated, run, marker, marked>>

\* "released ... implicitly if the connection drops"
DropConnection ==
    /\ lock # None /\ lock' = None
    /\ UNCHANGED <<now, migrated, proc, run, marker, marked>>

Migrate ==
    /\ migrated' = ~migrated
    /\ UNCHANGED <<now, proc, lock, run, marker, marked>>

Tick ==
    /\ now < MaxTime /\ now' = now + 1
    /\ UNCHANGED <<migrated, proc, lock, run, marker, marked>>

Next ==
    \/ Tick \/ Migrate \/ DropConnection
    \/ \E w \in Workers : \/ Start(w) \/ EndWait(w) \/ BeginCycle(w) \/ Crash(w)
                          \/ \E ok \in BOOLEAN : FinishJob(w, ok)

Spec == Init /\ [][Next]_vars

-----------------------------------------------------------------------------
(* worker_health *)

Believed == marker # None /\ now <= marker + Budget + Grace

Known == {j \in JobIds : run[j] # None}
Overdue(j) == run[j].success = None \/ now > run[j].success + StaleAfter
Failing(j) == run[j].failures >= MaxFailures

Health ==
    IF Believed THEN "starting"
    ELSE IF Known = {} THEN "never_ran"
    ELSE IF \E j \in Known : Overdue(j) \/ Failing(j) THEN "stale"
    ELSE "ok"

-----------------------------------------------------------------------------
TypeOK ==
    /\ now \in 0..MaxTime /\ migrated \in BOOLEAN
    /\ proc \in [Workers -> Processes] /\ lock \in Workers \cup {None}
    /\ run \in [JobIds -> RunRows \cup {None}]
    /\ {marker, marked} \subseteq Nat \cup {None}

\* no job has succeeded for the time given
DeadFor(time) ==
    /\ Known # {}
    /\ \A j \in Known : run[j].success = None \/ now > run[j].success + time

(* A worker that is dead, wedged or failing is reported: once no job has     *)
(* succeeded for the threshold, and the last worker to start has used up its *)
(* budget, the deployment does not read as healthy (worker_health).          *)
SickIsSeen ==
    DeadFor(StaleAfter) /\ (marked = None \/ now > marked + Budget + Grace)
        => Health = "stale"

(* "so a worker that dies mid-wait goes back to being judged on its stamps   *)
(* rather than sheltering behind the word forever" (worker_health).          *)
DeadIsSeen == DeadFor(StaleAfter + Budget + Grace) => Health = "stale"
=============================================================================
