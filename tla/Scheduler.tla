------------------------------- MODULE Scheduler -------------------------------
(***************************************************************************)
(* internal/platform/scheduler: jobs on a fleet of instances, each run     *)
(* under a Postgres session-scoped advisory lock, beside the request       *)
(* handlers that share the instance's connection pool.                     *)
(*                                                                         *)
(* A running job holds the connection its lock lives on and takes another  *)
(* for its work.  A transaction of the cashback domain posts to the ledger *)
(* before it commits; the postgres ledger takes its own connection from    *)
(* the same pool for that, the blnk ledger takes none.                     *)
(***************************************************************************)
EXTENDS Integers, FiniteSets, Functions

CONSTANTS
    Instances,
    Jobs,           \* registered job names
    Handlers,       \* requests served at once, per instance
    MaxPool,        \* bound: the largest pool_max_conns
    LedgerOnPool,   \* LEDGER_DRIVER is postgres
    NoInstance,
    MaxFaults       \* bound: lock sessions that die under their job

ASSUME SchedulerAssumption ==
    /\ Jobs \cap Handlers = {} /\ IsFiniteSet(Jobs) /\ IsFiniteSet(Handlers)
    /\ MaxPool \in Nat /\ MaxFaults \in Nat
    /\ LedgerOnPool \in BOOLEAN
    /\ NoInstance \notin Instances

VARIABLES
    size,       \* MaxConns of every instance's pool
    pc,         \* where each job loop and handler of an instance is
    conns,      \* how many connections it has out of the pool
    holder,     \* the instance whose session holds a job's lock
    faults

vars == <<size, pc, conns, holder, faults>>

Actors == Jobs \cup Handlers

TypeOK ==
    /\ size \in 1 .. MaxPool
    /\ pc \in [Instances -> [Actors -> {"wait", "run", "tx", "acquire", "post", "release"}]]
    /\ conns \in [Instances -> [Actors -> 0 .. 3]]
    /\ holder \in [Jobs -> Instances \cup {NoInstance}]
    /\ faults \in 0 .. MaxFaults

------------------------------------------------------------------------------
(* Two connections per job (its lock and its work) and two for the rest. *)
CheckCapacity(s) == Cardinality(Jobs) > 0 => s >= 2 * Cardinality(Jobs) + 2

(* A deployment whose pool fails the check does not start. *)
Init ==
    /\ size \in {s \in 1 .. MaxPool : CheckCapacity(s)}
    /\ pc = [i \in Instances |-> [a \in Actors |-> "wait"]]
    /\ conns = [i \in Instances |-> [a \in Actors |-> 0]]
    /\ holder = [j \in Jobs |-> NoInstance]
    /\ faults = 0

Free(i) == SumFunction(conns[i]) < size

Goto(i, a, l, n) ==
    /\ pc' = [pc EXCEPT ![i][a] = l]
    /\ conns' = [conns EXCEPT ![i][a] = n]
    /\ UNCHANGED size

LedgerConns == IF LedgerOnPool THEN 1 ELSE 0

(* Mutant: whether the lock was taken is not looked at. *)
TryLock_Unread(i, j) ==
    /\ pc[i][j] = "wait"
    /\ Free(i)
    /\ holder' = [holder EXCEPT ![j] = i]
    /\ Goto(i, j, "run", 1)
    /\ UNCHANGED faults

(* A tick: without a free connection in time, or with the lock held        *)
(* elsewhere, it is skipped.                                               *)
TryLock(i, j) ==
    /\ pc[i][j] = "wait"
    /\ Free(i)
    /\ holder[j] = NoInstance
    /\ holder' = [holder EXCEPT ![j] = i]
    /\ Goto(i, j, "run", 1)
    /\ UNCHANGED faults

(* A transaction begins: a running job's, or a request's. *)
BeginTx(i, a) ==
    /\ pc[i][a] = IF a \in Jobs THEN "run" ELSE "wait"
    /\ Free(i)
    /\ Goto(i, a, "tx", conns[i][a] + 1)
    /\ UNCHANGED <<holder, faults>>

(* Inside it the ledger is asked to post ... *)
Post(i, a) ==
    /\ pc[i][a] = "tx"
    /\ Goto(i, a, "acquire", conns[i][a])
    /\ UNCHANGED <<holder, faults>>

(* ... on a connection of its own, for which pgxpool.Acquire waits. *)
AcquireForLedger(i, a) ==
    /\ pc[i][a] = "acquire"
    /\ LedgerOnPool => Free(i)
    /\ Goto(i, a, "post", conns[i][a] + LedgerConns)
    /\ UNCHANGED <<holder, faults>>

Posted(i, a) ==
    /\ pc[i][a] = "post"
    /\ Goto(i, a, "tx", conns[i][a] - LedgerConns)
    /\ UNCHANGED <<holder, faults>>

(* Commit or rollback; a job goes on to its next item or is done. *)
EndTx(i, a) ==
    /\ pc[i][a] = "tx"
    /\ IF a \in Jobs
       THEN \E l \in {"run", "release"} : Goto(i, a, l, conns[i][a] - 1)
       ELSE Goto(i, a, "wait", conns[i][a] - 1)
    /\ UNCHANGED <<holder, faults>>

(* The run's Timeout ends it where it waits for a connection.  A handler   *)
(* has no deadline.                                                        *)
TimesOut(i, j) ==
    /\ pc[i][j] \in {"run", "acquire"}
    /\ Goto(i, j, "release", 1)
    /\ UNCHANGED <<holder, faults>>

(* Mutant: a session that could not unlock goes back to the pool. *)
Release_Pooled(i, j) ==
    /\ pc[i][j] = "release"
    /\ \/ holder' = [holder EXCEPT ![j] = IF @ = i THEN NoInstance ELSE @]
       \/ UNCHANGED holder
    /\ Goto(i, j, "wait", 0)
    /\ UNCHANGED faults

(* Unlocked, or the connection is closed and Postgres frees its lock. *)
Release(i, j) ==
    /\ pc[i][j] = "release"
    /\ holder' = [holder EXCEPT ![j] = IF @ = i THEN NoInstance ELSE @]
    /\ Goto(i, j, "wait", 0)
    /\ UNCHANGED faults

(* The session of a held lock dies; the run it guards goes on. *)
SessionDies(i, j) ==
    /\ pc[i][j] # "wait" /\ holder[j] = i
    /\ faults < MaxFaults
    /\ faults' = faults + 1
    /\ holder' = [holder EXCEPT ![j] = NoInstance]
    /\ UNCHANGED <<size, pc, conns>>

Step(i, a) ==
    \/ BeginTx(i, a) \/ AcquireForLedger(i, a) \/ Posted(i, a) \/ EndTx(i, a)

Next == \E i \in Instances :
    \/ \E j \in Jobs : TryLock(i, j) \/ TimesOut(i, j) \/ Release(i, j) \/ SessionDies(i, j)
    \/ \E a \in Actors : Step(i, a) \/ Post(i, a)

Spec == Init /\ [][Next]_vars

(* A waiter for a connection is served (pgxpool queues them), a request's  *)
(* transaction ends, a run that does not end by itself is timed out, and   *)
(* every job loop keeps ticking.  New requests are nobody's duty.          *)
FairSpec ==
    /\ Spec
    /\ \A i \in Instances, h \in Handlers :
         WF_vars(AcquireForLedger(i, h) \/ Posted(i, h)) /\ SF_vars(EndTx(i, h))
    /\ \A i \in Instances, j \in Jobs :
         WF_vars(EndTx(i, j) \/ Posted(i, j) \/ Release(i, j)) /\ SF_vars(TimesOut(i, j))
    /\ \A j \in Jobs : SF_vars(\E i \in Instances : TryLock(i, j))

------------------------------------------------------------------------------
(* Properties.                                                             *)

Running(i, j) == pc[i][j] # "wait"

(* A lock is never left behind in the pool: whoever holds it is running    *)
(* the job, so a finished or timed-out run frees it for the fleet.         *)
LockFollowsRun == \A j \in Jobs : holder[j] # NoInstance => Running(holder[j], j)

(* "Two application instances never run the same job at once", but for     *)
(* runs that outlive the session their lock lived on: each job that runs   *)
(* twice costs a session.  Nor does a lock outlive its run.                *)
OneInstanceRuns ==
    /\ Cardinality({j \in Jobs : \E i, k \in Instances :
                       i # k /\ Running(i, j) /\ Running(k, j)}) <= faults
    /\ LockFollowsRun

(* Somebody waiting for a connection while holding others. *)
Waiting(i, a) == pc[i][a] = "run" \/ (LedgerOnPool /\ pc[i][a] = "acquire")

(* "Refuses to start ... rather than deadlocking its request handlers      *)
(* against its jobs under load": the pool is never taken up by callers     *)
(* that all wait for one more connection.                                  *)
PoolNotWedged ==
    \A i \in Instances : ~Free(i) => \E a \in Actors : conns[i][a] > 0 /\ ~Waiting(i, a)

(* Nothing stands still: the pool never wedges, and every job is run again *)
(* and again by some instance, although runs time out, sessions die and    *)
(* requests compete for the connections.                                   *)
JobsKeepRunning ==
    /\ []PoolNotWedged
    /\ \A j \in Jobs : []<>(\E i \in Instances : pc[i][j] = "run")
==============================================================================
