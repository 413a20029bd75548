------------------------------- MODULE JobLock -------------------------------
(***************************************************************************)
(* What the scheduled_job_locks table promises the periodic jobs of the N  *)
(* backend replicas (db/jobLock.ts, migration 009): a worker that claims a *)
(* job holds a lease on it, nothing releases the lease when the work ends, *)
(* and another claim succeeds only after the lease has expired.            *)
(*                                                                         *)
(* A worker is whatever runs a job body: a replica, or one of several      *)
(* executions inside a replica.  The module is the abstract specification  *)
(* that RemotePoll and AlertCheck are shown to implement.                  *)
(***************************************************************************)
EXTENDS Integers

CONSTANTS
    Workers,    \* executions that may claim a job
    Jobs,       \* job names, the primary key of scheduled_job_locks
    Lease,      \* Lease[j]: the leaseMs that callers pass for job j
    MaxRun,     \* MaxRun[j]: no execution of j lasts longer than this
    MaxTime     \* bound of the model: the clock stops here

ASSUME LeaseAssumption == Lease \in [Jobs -> Nat]
ASSUME MaxRunAssumption == MaxRun \in [Jobs -> Nat]
ASSUME MaxTimeAssumption == MaxTime \in Nat

VARIABLES
    now,          \* the database's now()
    lockedUntil,  \* scheduled_job_locks.locked_until; Never when no row exists
    held          \* held[w][j]: when w claimed the execution of j it is in

vars == <<now, lockedUntil, held>>

Never == -1
NotRunning == -1

Init ==
    /\ now = 0
    /\ lockedUntil = [j \in Jobs |-> Never]
    /\ held = [w \in Workers |-> [j \in Jobs |-> NotRunning]]

Running(w, j) == held[w][j] # NotRunning

\* Fault: <= for < in the WHERE clause.
Expired_NotStrict(j) == lockedUntil[j] <= now

\* The WHERE clause of the upsert; a job without a row is always free.
Expired(j) == lockedUntil[j] < now

\* Fault: a lease longer than the caller asked for.
Claim_LongLease(w, j) ==
    /\ ~Running(w, j)
    /\ Expired(j)
    /\ lockedUntil' = [lockedUntil EXCEPT ![j] = now + 2 * Lease[j]]
    /\ held' = [held EXCEPT ![w][j] = now]
    /\ UNCHANGED now

\* tryClaimJob returned true: one atomic INSERT .. ON CONFLICT DO UPDATE.  A
\* refused claim changes nothing and is a stuttering step.
Claim(w, j) ==
    /\ ~Running(w, j)
    /\ Expired(j)
    /\ lockedUntil' = [lockedUntil EXCEPT ![j] = now + Lease[j]]
    /\ held' = [held EXCEPT ![w][j] = now]
    /\ UNCHANGED now

\* The job body returned or threw.  The lock row keeps its locked_until.
Finish(w, j) ==
    /\ Running(w, j)
    /\ held' = [held EXCEPT ![w][j] = NotRunning]
    /\ UNCHANGED <<now, lockedUntil>>

\* The process of the workers W dies; the lock rows are in the database.
Crash(W) ==
    /\ held' = [w \in Workers |->
                  IF w \in W THEN [j \in Jobs |-> NotRunning] ELSE held[w]]
    /\ UNCHANGED <<now, lockedUntil>>

\* Time passes, never beyond the longest run of an execution under way.
Tick ==
    /\ now < MaxTime
    /\ \A w \in Workers, j \in Jobs :
          Running(w, j) => now < held[w][j] + MaxRun[j]
    /\ now' = now + 1
    /\ UNCHANGED <<lockedUntil, held>>

Next ==
    \/ Tick
    \/ \E w \in Workers, j \in Jobs : Claim(w, j) \/ Finish(w, j)
    \/ \E W \in SUBSET Workers : Crash(W)

Spec == Init /\ [][Next]_vars

-----------------------------------------------------------------------------

TypeOK ==
    /\ now \in Nat
    /\ lockedUntil \in [Jobs -> Int]
    /\ held \in [Workers -> [Jobs -> Int]]

\* Migration 009's promise: a job runs at most once at a time, whatever the
\* number of replicas.
AtMostOnce ==
    \A j \in Jobs : \A v, w \in Workers :
        Running(v, j) /\ Running(w, j) => v = w

\* What makes AtMostOnce inductive: an execution under way is the one that
\* wrote the lock row, and it is not older than its longest run.
HolderWroteLock ==
    \A w \in Workers, j \in Jobs :
        Running(w, j) =>
            /\ held[w][j] \in Nat
            /\ lockedUntil[j] = held[w][j] + Lease[j]
            /\ now <= held[w][j] + MaxRun[j]

IInv == TypeOK /\ AtMostOnce /\ HolderWroteLock

\* The condition on the callers under which the table keeps the promise.
RunsFitLease == \A j \in Jobs : MaxRun[j] <= Lease[j]
=============================================================================
