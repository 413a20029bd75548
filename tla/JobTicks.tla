------------------------------ MODULE JobTicks ------------------------------
(***************************************************************************)
(* The timers of index.ts that try to claim a periodic job on every tick.  *)
(* A replica's start() tries each prune once and waits for its body before *)
(* it starts that prune's setInterval, one prune after the other, then     *)
(* starts the remaining timers; a tick whose claim is refused is skipped,  *)
(* not retried.  A worker of JobLock is one execution inside a replica:    *)
(* the timer callbacks do not wait for each other.  The database answers a *)
(* claim at once.                                                          *)
(***************************************************************************)
EXTENDS JobLock

CONSTANTS
    Replicas,   \* backend processes
    Slots,      \* executions of a job that may overlap inside one replica
    Interval,   \* Interval[j]: the period of the job's setInterval
    BootJobs,   \* jobs also tried during start(): the four prunes
    Nobody      \* no replica

ASSUME WorkersAssumption == Workers = Replicas \X Slots
ASSUME IntervalAssumption == Interval \in [Jobs -> Nat \ {0}]
ASSUME BootJobsAssumption == BootJobs \subseteq Jobs
ASSUME NobodyAssumption == Nobody \notin Replicas

VARIABLES
    due,        \* due[r][j]: when the timer of j in r fires next, or Off or Booting
    claimant,   \* claimant[j]: the replica of the last claim, until it exits
    atBoot      \* jobs whose last claim was one of start()

tickVars == <<now, lockedUntil, held, due, claimant, atBoot>>

Off == -1       \* no timer
Booting == -2   \* start() waits for the body of the prune

Up(r, j) == due[r][j] \notin {Off, Booting}

TickInit ==
    /\ Init
    /\ due = [r \in Replicas |-> [j \in Jobs |-> Off]]
    /\ claimant = [j \in Jobs |-> Nobody]
    /\ atBoot = {}

Claimed(r, j) ==
    /\ \E i \in Slots : Claim(<<r, i>>, j)
    /\ claimant' = [claimant EXCEPT ![j] = r]

Refused(j) ==
    /\ ~Expired(j)
    /\ UNCHANGED <<vars, claimant, atBoot>>

Arm(r, j) == due' = [due EXCEPT ![r][j] = now + Interval[j]]

\* start() tries a prune: its timer waits for the body, or starts at once if
\* another replica holds the lease.
BootPrune(r, j) ==
    /\ j \in BootJobs /\ due[r][j] = Off
    /\ \A k \in Jobs : due[r][k] # Booting
    /\ \/ Claimed(r, j) /\ atBoot' = atBoot \cup {j}
          /\ due' = [due EXCEPT ![r][j] = Booting]
       \/ Refused(j) /\ Arm(r, j)

\* The timers that start() only starts, after the prunes.
StartTimer(r, j) ==
    /\ j \notin BootJobs /\ due[r][j] = Off
    /\ \A k \in BootJobs : Up(r, k)
    /\ Arm(r, j)
    /\ UNCHANGED <<vars, claimant, atBoot>>

Fire(r, j) ==
    /\ due[r][j] = now
    /\ Arm(r, j)
    /\ (Claimed(r, j) /\ atBoot' = atBoot \ {j}) \/ Refused(j)

\* The body returned; nothing unlocks the job.  start() goes on to setInterval.
JobDone(r, i, j) ==
    /\ Finish(<<r, i>>, j)
    /\ IF due[r][j] = Booting THEN Arm(r, j) ELSE UNCHANGED due
    /\ UNCHANGED <<claimant, atBoot>>

\* The process exits and its timers with it; also because a prune of start()
\* throws.
Exit(r) ==
    /\ \E j \in Jobs : due[r][j] # Off
    /\ Crash({r} \X Slots)
    /\ due' = [due EXCEPT ![r] = [j \in Jobs |-> Off]]
    /\ claimant' = [j \in Jobs |-> IF claimant[j] = r THEN Nobody
                                                      ELSE claimant[j]]
    /\ UNCHANGED atBoot

\* Timers fire on time: the clock waits for a timer that is due.
Pass ==
    /\ \A r \in Replicas, j \in Jobs : Up(r, j) => now < due[r][j]
    /\ Tick
    /\ UNCHANGED <<due, claimant, atBoot>>

TickNext ==
    \/ Pass
    \/ \E r \in Replicas : Exit(r)
    \/ \E r \in Replicas, j \in Jobs : BootPrune(r, j) \/ StartTimer(r, j) \/ Fire(r, j)
    \/ \E r \in Replicas, i \in Slots, j \in Jobs : JobDone(r, i, j)

TickSpec == TickInit /\ [][TickNext]_tickVars

-----------------------------------------------------------------------------

ClaimedAt(j) == lockedUntil[j] - Lease[j]

\* A replica's own claim never silences its later ticks: as long as the
\* replica of the last claim stays up, the job is claimed again within one
\* interval - of the claim, or of the end of the body if start() claimed it
\* (index.ts:220-223 says what goes wrong otherwise).
NotSelfSuppressed ==
    \A j \in Jobs :
        claimant[j] # Nobody =>
            now <= ClaimedAt(j) + Interval[j] + (IF j \in atBoot THEN MaxRun[j] ELSE 0)
=============================================================================
