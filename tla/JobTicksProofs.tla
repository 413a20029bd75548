--------------------------- MODULE JobTicksProofs ---------------------------
(***************************************************************************)
(* The timers implement the lease table, so that no job runs twice at a    *)
(* time; and a job whose lease is below its period is never silenced by    *)
(* its own last claim, for any number of replicas, slots and jobs.         *)
(***************************************************************************)
EXTENDS JobTicks, JobLockProofs

\* The lease of every job runs out before its timer fires again (index.ts:220-223).
LeasesFitIntervals == \A j \in Jobs : Lease[j] < Interval[j]

TickTypeOK ==
    /\ due \in [Replicas -> [Jobs -> Int]]
    /\ claimant \in [Jobs -> Replicas \cup {Nobody}]

\* How much later than one interval after its claim a job may be due.
Slack(j) == IF j \in atBoot THEN MaxRun[j] ELSE 0

\* The last claimant's timer fires in time for the claim, or its start() is still
\* in the body it claimed the job for.
ClaimantIsDue(j) ==
    LET c == claimant[j] IN
    \/ /\ Up(c, j)
       /\ ClaimedAt(j) + Interval[j] <= due[c][j]
       /\ due[c][j] <= ClaimedAt(j) + Interval[j] + Slack(j)
    \/ /\ due[c][j] = Booting /\ j \in atBoot
       /\ ClaimedAt(j) \in 0..now /\ now <= ClaimedAt(j) + MaxRun[j]
       /\ \E i \in Slots : held[<<c, i>>][j] = ClaimedAt(j)

\* No timer is overdue, nor is a job.
OnTime ==
    /\ now \in Nat
    /\ \A r \in Replicas, j \in Jobs : Up(r, j) => now <= due[r][j]
    /\ \A j \in Jobs : claimant[j] # Nobody => ClaimantIsDue(j)

\* Every step of the timers is a step of the lease table, or leaves it alone.
LEMMA TickStep == [TickNext]_tickVars => [Next]_vars
<1> SUFFICES ASSUME [TickNext]_tickVars PROVE [Next]_vars
  OBVIOUS
<1>1. CASE UNCHANGED tickVars
  BY <1>1 DEF tickVars, vars
<1>2. CASE Pass
  BY <1>2 DEF Pass, Next
<1>3. ASSUME NEW r \in Replicas, Exit(r) PROVE [Next]_vars
  <2>1. {r} \X Slots \in SUBSET Workers
    BY WorkersAssumption
  <2>2. QED
    BY <1>3, <2>1 DEF Exit, Next
<1>4. ASSUME NEW r \in Replicas, NEW j \in Jobs, Claimed(r, j) \/ UNCHANGED vars
      PROVE  [Next]_vars
  <2>1. \A i \in Slots : <<r, i>> \in Workers
    BY WorkersAssumption
  <2>2. QED
    BY <1>4, <2>1 DEF Claimed, Next
<1>5. ASSUME NEW r \in Replicas, NEW j \in Jobs,
             BootPrune(r, j) \/ StartTimer(r, j) \/ Fire(r, j)
      PROVE  [Next]_vars
  BY <1>4, <1>5 DEF BootPrune, StartTimer, Fire, Refused
<1>6. ASSUME NEW r \in Replicas, NEW i \in Slots, NEW j \in Jobs, JobDone(r, i, j)
      PROVE  [Next]_vars
  <2>1. <<r, i>> \in Workers
    BY WorkersAssumption
  <2>2. QED
    BY <1>6, <2>1 DEF JobDone, Next
<1>7. QED
  BY <1>1, <1>2, <1>3, <1>5, <1>6 DEF TickNext

\* Every behaviour of the timers is one of the lease table.
THEOREM TicksImplementJobLock == TickSpec => Spec
<1>1. TickInit => Init
  BY DEF TickInit
<1>2. QED
  BY <1>1, TickStep, PTL DEF TickSpec, Spec

\* No job runs twice at a time, however the timers of the replicas fall together
\* and whichever replicas exit, as long as no run outlives its lease.
THEOREM TicksAtMostOnce ==
  ASSUME RunsFitLease PROVE TickSpec => []AtMostOnce
<1>1. Spec => []AtMostOnce
  BY LeaseExcludes
<1>2. QED
  BY <1>1, TicksImplementJobLock, PTL

\* A claim starts the period of the claimant's timer, or the body it waits for;
\* the end of that body starts the period; no other step moves either.
LEMMA OnTimeInductive ==
  ASSUME LeasesFitIntervals, TypeOK, TickTypeOK, OnTime, [TickNext]_tickVars
  PROVE  TickTypeOK' /\ OnTime'
<1>0. /\ now \in Nat /\ Off = -1 /\ Booting = -2
      /\ \A j \in Jobs : /\ Interval[j] \in Nat \ {0} /\ Lease[j] \in Nat /\ MaxRun[j] \in Nat
                         /\ lockedUntil[j] \in Int /\ Lease[j] < Interval[j]
                         /\ claimant[j] \in Replicas \cup {Nobody}
      /\ \A r \in Replicas, j \in Jobs : due[r][j] \in Int
  BY IntervalAssumption, LeaseAssumption, MaxRunAssumption
  DEF TypeOK, TickTypeOK, LeasesFitIntervals, Off, Booting
<1>1. CASE UNCHANGED tickVars
  BY <1>1 DEF tickVars, TickTypeOK, OnTime, Up, ClaimedAt, ClaimantIsDue, Slack
<1>2. CASE Pass
  <2>1. /\ now' = now + 1 /\ UNCHANGED <<lockedUntil, held, due, claimant, atBoot>>
        /\ \A r \in Replicas, j \in Jobs : Up(r, j) => now < due[r][j]
        /\ \A w \in Workers, j \in Jobs : Running(w, j) => now < held[w][j] + MaxRun[j]
    BY <1>2 DEF Pass, Tick
  <2>2. ASSUME NEW j \in Jobs, claimant[j] # Nobody PROVE ClaimantIsDue(j)'
    <3>1. CASE Up(claimant[j], j)
      BY <1>0, <2>1, <2>2, <3>1 DEF OnTime, ClaimantIsDue, Up, ClaimedAt, Slack
    <3>2. CASE ~Up(claimant[j], j)
      <4>1. /\ due[claimant[j]][j] = Booting /\ j \in atBoot
            /\ claimant[j] \in Replicas
        BY <1>0, <2>2, <3>2 DEF OnTime, ClaimantIsDue
      <4>2. PICK i \in Slots : held[<<claimant[j], i>>][j] = ClaimedAt(j)
        BY <2>2, <3>2 DEF OnTime, ClaimantIsDue
      <4>3. <<claimant[j], i>> \in Workers
        BY <4>1, WorkersAssumption
      <4>4. now < ClaimedAt(j) + MaxRun[j] \/ ClaimedAt(j) = NotRunning
        BY <2>1, <4>2, <4>3 DEF Running
      <4>5. ClaimedAt(j) \in Int /\ ClaimedAt(j) # NotRunning
        BY <1>0, <2>2, <3>2 DEF OnTime, ClaimantIsDue, ClaimedAt, NotRunning
      <4>6. ClaimedAt(j) \in 0..now
        BY <2>2, <3>2 DEF OnTime, ClaimantIsDue
      <4>7. /\ ClaimedAt(j)' = ClaimedAt(j) /\ ClaimedAt(j) \in 0..(now + 1)
            /\ now + 1 <= ClaimedAt(j) + MaxRun[j]
        BY <1>0, <2>1, <4>4, <4>5, <4>6 DEF ClaimedAt
      <4>8. QED
        BY <2>1, <4>1, <4>2, <4>7 DEF ClaimantIsDue
    <3>3. QED
      BY <3>1, <3>2
  <2>3. \A r \in Replicas, j \in Jobs : Up(r, j)' => now' <= due'[r][j]
    BY <1>0, <2>1 DEF Up
  <2>4. QED
    BY <1>0, <2>1, <2>2, <2>3 DEF TickTypeOK, OnTime
<1>3. ASSUME NEW r \in Replicas, Exit(r) PROVE TickTypeOK' /\ OnTime'
  <2>1. /\ UNCHANGED <<now, lockedUntil, atBoot>>
        /\ held' = [w \in Workers |-> IF w \in {r} \X Slots THEN [j \in Jobs |-> NotRunning]
                                                             ELSE held[w]]
        /\ due' = [due EXCEPT ![r] = [j \in Jobs |-> Off]]
        /\ claimant' = [j \in Jobs |-> IF claimant[j] = r THEN Nobody
                                                          ELSE claimant[j]]
    BY <1>3 DEF Exit, Crash
  <2>2. /\ \A q \in Replicas, j \in Jobs :
              due'[q][j] = IF q = r THEN Off ELSE due[q][j]
        /\ \A j \in Jobs : claimant'[j] = IF claimant[j] = r THEN Nobody
                                                             ELSE claimant[j]
    BY <2>1 DEF TickTypeOK
  <2>3. TickTypeOK'
    BY <1>0, <2>1 DEF TickTypeOK
  <2>4. ASSUME NEW j \in Jobs, claimant'[j] # Nobody PROVE ClaimantIsDue(j)'
    <3>1. /\ claimant'[j] = claimant[j] /\ claimant[j] # r /\ claimant[j] # Nobody
          /\ claimant[j] \in Replicas /\ due'[claimant[j]][j] = due[claimant[j]][j]
      BY <1>0, <2>2, <2>4
    <3>2. \A i \in Slots : held'[<<claimant[j], i>>] = held[<<claimant[j], i>>]
      BY <2>1, <3>1, WorkersAssumption
    <3>3. ClaimantIsDue(j)
      BY <3>1 DEF OnTime
    <3>4. QED
      BY <2>1, <3>1, <3>2, <3>3 DEF ClaimantIsDue, Up, ClaimedAt, Slack
  <2>5. OnTime'
    BY <1>0, <2>1, <2>2, <2>4 DEF OnTime, Up
  <2>6. QED
    BY <2>3, <2>5
<1>4. ASSUME NEW r \in Replicas, NEW j \in Jobs, Claimed(r, j),
             \/ due' = [due EXCEPT ![r][j] = Booting] /\ atBoot' = atBoot \cup {j}
             \/ Arm(r, j) /\ atBoot' = atBoot \ {j}
      PROVE  TickTypeOK' /\ OnTime'
  <2>0. PICK i \in Slots : Claim(<<r, i>>, j)
    BY <1>4 DEF Claimed
  <2>1. /\ <<r, i>> \in Workers
        /\ now' = now /\ claimant' = [claimant EXCEPT ![j] = r]
        /\ held' = [held EXCEPT ![<<r, i>>][j] = now]
        /\ lockedUntil' = [lockedUntil EXCEPT ![j] = now + Lease[j]]
    BY <1>4, <2>0, WorkersAssumption DEF Claimed, Claim
  <2>2. /\ due' \in [Replicas -> [Jobs -> Int]]
        /\ \A q \in Replicas, k \in Jobs :
              ~(q = r /\ k = j) => due'[q][k] = due[q][k]
        /\ \/ due'[r][j] = Booting /\ atBoot' = atBoot \cup {j}
           \/ due'[r][j] = now + Interval[j] /\ atBoot' = atBoot \ {j}
    BY <1>0, <1>4 DEF Arm, TickTypeOK
  <2>3. \A q \in Replicas, k \in Jobs : Up(q, k)' => now' <= due'[q][k]
    BY <1>0, <2>1, <2>2 DEF OnTime, Up
  <2>4. /\ claimant' \in [Jobs -> Replicas \cup {Nobody}]
        /\ \A k \in Jobs : /\ claimant'[k] = IF k = j THEN r ELSE claimant[k]
                           /\ lockedUntil'[k] = IF k = j THEN now + Lease[j]
                                                         ELSE lockedUntil[k]
    BY <2>1 DEF TypeOK, TickTypeOK
  <2>5. /\ held'[<<r, i>>][j] = now
        /\ \A w \in Workers, k \in Jobs : k # j => held'[w][k] = held[w][k]
    BY <2>1 DEF TypeOK
  <2>6. ASSUME NEW k \in Jobs, claimant'[k] # Nobody PROVE ClaimantIsDue(k)'
    <3>1. CASE k = j
      <4>1. ClaimedAt(k)' = now /\ claimant'[k] = r /\ now' = now
        BY <1>0, <2>1, <2>4, <3>1 DEF ClaimedAt
      <4>2. CASE due'[r][j] = Booting /\ atBoot' = atBoot \cup {j}
        BY <1>0, <2>5, <3>1, <4>1, <4>2 DEF ClaimantIsDue
      <4>3. CASE due'[r][j] = now + Interval[j] /\ atBoot' = atBoot \ {j}
        <5>1. now + Interval[j] \notin {Off, Booting} /\ Slack(k)' = 0
          BY <1>0, <3>1, <4>3 DEF Slack
        <5>2. QED
          BY <1>0, <3>1, <4>1, <4>3, <5>1 DEF ClaimantIsDue, Up
      <4>4. QED
        BY <2>2, <4>2, <4>3
    <3>2. CASE k # j
      <4>1. /\ claimant'[k] = claimant[k] /\ claimant[k] \in Replicas
            /\ lockedUntil'[k] = lockedUntil[k] /\ now' = now
            /\ due'[claimant[k]][k] = due[claimant[k]][k]
            /\ (k \in atBoot') = (k \in atBoot)
        BY <1>0, <2>1, <2>2, <2>4, <2>6, <3>2
      <4>2. \A n \in Slots : held'[<<claimant[k], n>>][k] = held[<<claimant[k], n>>][k]
        BY <2>5, <3>2, <4>1, WorkersAssumption
      <4>3. ClaimantIsDue(k)
        BY <2>6, <4>1 DEF OnTime
      <4>4. QED
        BY <4>1, <4>2, <4>3 DEF ClaimantIsDue, Up, ClaimedAt, Slack
    <3>3. QED
      BY <3>1, <3>2
  <2>7. QED
    BY <1>0, <2>1, <2>2, <2>3, <2>4, <2>6 DEF TickTypeOK, OnTime
<1>5. ASSUME NEW r \in Replicas, NEW j \in Jobs, Arm(r, j),
             UNCHANGED <<now, lockedUntil, claimant, atBoot>>, claimant[j] # r,
             \A w \in Workers, k \in Jobs : k # j => held'[w][k] = held[w][k],
             \A q \in Replicas, i \in Slots : q # r => held'[<<q, i>>] = held[<<q, i>>]
      PROVE  TickTypeOK' /\ OnTime'
  <2>1. /\ due' \in [Replicas -> [Jobs -> Int]]
        /\ \A q \in Replicas, k \in Jobs :
              due'[q][k] = IF q = r /\ k = j THEN now + Interval[j] ELSE due[q][k]
    BY <1>0, <1>5 DEF Arm, TickTypeOK
  <2>2. ASSUME NEW k \in Jobs, claimant'[k] # Nobody PROVE ClaimantIsDue(k)'
    <3>1. /\ claimant'[k] = claimant[k] /\ claimant[k] \in Replicas
          /\ due'[claimant[k]][k] = due[claimant[k]][k]
      BY <1>0, <1>5, <2>1, <2>2
    <3>2. \A i \in Slots : held'[<<claimant[k], i>>][k] = held[<<claimant[k], i>>][k]
      BY <1>5, <3>1, WorkersAssumption
    <3>3. ClaimantIsDue(k)
      BY <1>5, <2>2 DEF OnTime
    <3>4. QED
      BY <1>5, <3>1, <3>2, <3>3 DEF ClaimantIsDue, Up, ClaimedAt, Slack
  <2>3. QED
    BY <1>0, <1>5, <2>1, <2>2 DEF TickTypeOK, OnTime, Up
<1>6. ASSUME NEW r \in Replicas, NEW j \in Jobs,
             BootPrune(r, j) \/ StartTimer(r, j) \/ Fire(r, j)
      PROVE  TickTypeOK' /\ OnTime'
  <2>1. CASE Claimed(r, j) /\ ~UNCHANGED <<vars, claimant, atBoot>> /\ ~StartTimer(r, j)
    BY <1>4, <1>6, <2>1 DEF BootPrune, Fire, Refused
  <2>2. CASE UNCHANGED <<vars, claimant, atBoot>> /\ Arm(r, j)
    <3>1. SUFFICES claimant[j] # r
      BY <1>5, <2>2 DEF vars
    <3>2. CASE due[r][j] = Off
      BY <1>0, <3>2, NobodyAssumption DEF OnTime, ClaimantIsDue, Up
    <3>3. CASE Fire(r, j)
      <4>1. SUFFICES ASSUME claimant[j] = r PROVE FALSE
        OBVIOUS
      <4>2. due[r][j] = now
        BY <3>3 DEF Fire
      <4>3. lockedUntil[j] - Lease[j] + Interval[j] <= now
        BY <1>0, <4>1, <4>2, NobodyAssumption DEF OnTime, ClaimantIsDue, ClaimedAt
      <4>4. Expired(j)
        BY <1>0, <4>3 DEF Expired
      <4>5. PICK i \in Slots : Claim(<<r, i>>, j)
        BY <3>3, <4>4 DEF Fire, Refused, Claimed
      <4>6. lockedUntil'[j] = now + Lease[j]
        BY <4>5 DEF Claim, TypeOK
      <4>7. QED
        BY <1>0, <2>2, <4>4, <4>6 DEF vars, Expired
    <3>4. QED
      BY <1>6, <3>2, <3>3 DEF BootPrune, StartTimer
  <2>3. QED
    BY <1>4, <1>6, <2>1, <2>2 DEF BootPrune, StartTimer, Fire, Refused
<1>7. ASSUME NEW r \in Replicas, NEW i \in Slots, NEW j \in Jobs, JobDone(r, i, j)
      PROVE  TickTypeOK' /\ OnTime'
  <2>1. /\ <<r, i>> \in Workers
        /\ held' = [held EXCEPT ![<<r, i>>][j] = NotRunning]
        /\ UNCHANGED <<now, lockedUntil, claimant, atBoot>>
    BY <1>7, WorkersAssumption DEF JobDone, Finish
  <2>2. /\ \A w \in Workers, k \in Jobs : k # j => held'[w][k] = held[w][k]
        /\ \A q \in Replicas, n \in Slots : q # r => held'[<<q, n>>] = held[<<q, n>>]
    BY <2>1, WorkersAssumption DEF TypeOK
  <2>3. CASE due[r][j] = Booting /\ Arm(r, j) /\ claimant[j] # r
    BY <1>5, <2>1, <2>2, <2>3
  <2>4. CASE due[r][j] = Booting /\ Arm(r, j) /\ claimant[j] = r
    <3>1. /\ due' \in [Replicas -> [Jobs -> Int]]
          /\ \A q \in Replicas, k \in Jobs :
                due'[q][k] = IF q = r /\ k = j THEN now + Interval[j] ELSE due[q][k]
      BY <1>0, <2>4 DEF Arm, TickTypeOK
    <3>2. /\ j \in atBoot /\ ClaimedAt(j) <= now /\ now <= ClaimedAt(j) + MaxRun[j]
          /\ ClaimedAt(j) \in Int
      BY <1>0, <2>4, NobodyAssumption DEF OnTime, ClaimantIsDue, Up, ClaimedAt
    <3>3. ASSUME NEW k \in Jobs, claimant'[k] # Nobody PROVE ClaimantIsDue(k)'
      <4>1. CASE k = j
        <5>1. /\ Slack(k)' = MaxRun[k] /\ ClaimedAt(k)' = ClaimedAt(k)
              /\ claimant'[k] = r /\ due'[r][k] = now + Interval[k]
          BY <2>1, <2>4, <3>1, <3>2, <4>1 DEF Slack, ClaimedAt
        <5>2. now + Interval[k] \notin {Off, Booting}
          BY <1>0
        <5>3. QED
          BY <1>0, <3>2, <4>1, <5>1, <5>2 DEF ClaimantIsDue, Up
      <4>2. CASE k # j
        <5>1. /\ claimant'[k] = claimant[k] /\ claimant[k] \in Replicas
              /\ due'[claimant[k]][k] = due[claimant[k]][k]
          BY <1>0, <2>1, <3>1, <3>3, <4>2
        <5>2. \A n \in Slots : held'[<<claimant[k], n>>][k] = held[<<claimant[k], n>>][k]
          BY <2>2, <4>2, <5>1, WorkersAssumption
        <5>3. ClaimantIsDue(k)
          BY <2>1, <3>3 DEF OnTime
        <5>4. QED
          BY <2>1, <5>1, <5>2, <5>3 DEF ClaimantIsDue, Up, ClaimedAt, Slack
      <4>3. QED
        BY <4>1, <4>2
    <3>4. QED
      BY <1>0, <2>1, <3>1, <3>3 DEF TickTypeOK, OnTime, Up
  <2>5. CASE due[r][j] # Booting /\ UNCHANGED due
    <3>1. ASSUME NEW k \in Jobs, claimant'[k] # Nobody PROVE ClaimantIsDue(k)'
      <4>1. ClaimantIsDue(k) /\ claimant[k] \in Replicas
        BY <1>0, <2>1, <3>1 DEF OnTime
      <4>2. due[claimant[k]][k] = Booting =>
              \A n \in Slots : held'[<<claimant[k], n>>][k] = held[<<claimant[k], n>>][k]
        BY <2>2, <2>5, <4>1, WorkersAssumption
      <4>3. QED
        BY <2>1, <2>5, <4>1, <4>2 DEF ClaimantIsDue, Up, ClaimedAt, Slack
    <3>2. QED
      BY <1>0, <2>1, <2>5, <3>1 DEF TickTypeOK, OnTime, Up
  <2>6. QED
    BY <1>7, <2>3, <2>4, <2>5 DEF JobDone
<1>8. QED
  BY <1>1, <1>2, <1>3, <1>6, <1>7 DEF TickNext

\* The replica that claimed a job last claims it again, or another one does, within
\* one interval of the claim or of the end of the body start() waited for, as long
\* as it stays up: for any number of replicas and jobs.
THEOREM NeverSelfSuppressed ==
  ASSUME LeasesFitIntervals PROVE TickSpec => []NotSelfSuppressed
<1>1. TickInit => TickTypeOK /\ OnTime
  BY DEF TickInit, Init, TickTypeOK, OnTime, Up, Off
<1>2. TypeOK /\ TickTypeOK /\ OnTime /\ [TickNext]_tickVars
        => TickTypeOK' /\ OnTime'
  BY OnTimeInductive
<1>3. TypeOK /\ TickTypeOK /\ OnTime => NotSelfSuppressed
  <2> SUFFICES ASSUME TypeOK, TickTypeOK, OnTime, NEW j \in Jobs, claimant[j] # Nobody
               PROVE  now <= ClaimedAt(j) + Interval[j] + Slack(j)
    BY DEF NotSelfSuppressed, Slack
  <2>1. /\ claimant[j] \in Replicas /\ due[claimant[j]][j] \in Int /\ now \in Nat
        /\ Interval[j] \in Nat /\ MaxRun[j] \in Nat /\ ClaimedAt(j) \in Int
        /\ Slack(j) \in Nat
    BY IntervalAssumption, LeaseAssumption, MaxRunAssumption
    DEF TypeOK, TickTypeOK, ClaimedAt, Slack
  <2>2. CASE Up(claimant[j], j)
    BY <2>1, <2>2 DEF OnTime, ClaimantIsDue, Up
  <2>3. CASE ~Up(claimant[j], j)
    <3>1. now <= ClaimedAt(j) + MaxRun[j] /\ Slack(j) = MaxRun[j]
      BY <2>3 DEF OnTime, ClaimantIsDue, Slack
    <3>2. QED
      BY <2>1, <3>1
  <2>4. QED
    BY <2>2, <2>3
<1>4. TickSpec => []TypeOK
  BY TicksImplementJobLock, TypeCorrect, PTL
<1>5. QED
  BY <1>1, <1>2, <1>3, <1>4, PTL DEF TickSpec
=============================================================================
