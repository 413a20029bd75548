---------------------------- MODULE JobLockProofs ----------------------------
(***************************************************************************)
(* For any number of replicas and jobs, the lease table alone keeps every  *)
(* job to one execution at a time, provided that no execution outlives the *)
(* lease it was claimed with.                                              *)
(***************************************************************************)
EXTENDS JobLock, TLAPS

\* The three variables keep their types.
LEMMA TypeInductive == TypeOK /\ [Next]_vars => TypeOK'
<1> SUFFICES ASSUME TypeOK, [Next]_vars PROVE TypeOK'
  OBVIOUS
<1>1. CASE Tick
  BY <1>1 DEF TypeOK, Tick
<1>2. ASSUME NEW w \in Workers, NEW j \in Jobs, Claim(w, j) PROVE TypeOK'
  <2>1. now + Lease[j] \in Int /\ now \in Int
    BY LeaseAssumption DEF TypeOK
  <2>2. lockedUntil' \in [Jobs -> Int]
    BY <1>2, <2>1 DEF TypeOK, Claim
  <2>3. held' \in [Workers -> [Jobs -> Int]]
    BY <1>2, <2>1 DEF TypeOK, Claim
  <2>4. QED
    BY <1>2, <2>2, <2>3 DEF TypeOK, Claim
<1>3. ASSUME NEW w \in Workers, NEW j \in Jobs, Finish(w, j) PROVE TypeOK'
  BY <1>3 DEF TypeOK, Finish, NotRunning
<1>4. ASSUME NEW W \in SUBSET Workers, Crash(W) PROVE TypeOK'
  BY <1>4 DEF TypeOK, Crash, NotRunning
<1>5. CASE UNCHANGED vars
  BY <1>5 DEF TypeOK, vars
<1>6. QED
  BY <1>1, <1>2, <1>3, <1>4, <1>5 DEF Next

\* The type invariant of the lease table holds in every reachable state.
THEOREM TypeCorrect == Spec => []TypeOK
<1>1. Init => TypeOK
  BY DEF Init, TypeOK, Never, NotRunning
<1>2. QED
  BY <1>1, TypeInductive, PTL DEF Spec

\* When runs fit their leases, no step lets a second execution of a job begin,
\* and every execution still owns the lock row it wrote.
LEMMA IInvInductive ==
  ASSUME RunsFitLease, IInv, [Next]_vars PROVE IInv'
<1>1. TypeOK'
  BY TypeInductive DEF IInv
<1>2. CASE Tick
  <2>1. AtMostOnce'
    BY <1>2 DEF IInv, AtMostOnce, Tick, Running
  <2>2. HolderWroteLock'
    BY <1>2, MaxRunAssumption
    DEF IInv, TypeOK, HolderWroteLock, Tick, Running, NotRunning
  <2>3. QED
    BY <1>1, <2>1, <2>2 DEF IInv
<1>3. ASSUME NEW w \in Workers, NEW j \in Jobs, Claim(w, j) PROVE IInv'
  <2>1. \A v \in Workers : ~Running(v, j)
    \* An execution under way has lockedUntil >= now, which refuses the claim.
    <3>1. Lease[j] \in Nat /\ MaxRun[j] \in Nat /\ MaxRun[j] <= Lease[j]
      BY LeaseAssumption, MaxRunAssumption DEF RunsFitLease
    <3>2. now \in Nat /\ lockedUntil[j] < now
      BY <1>3 DEF IInv, TypeOK, Claim, Expired
    <3>3. ASSUME NEW v \in Workers, Running(v, j) PROVE FALSE
      <4>1. /\ held[v][j] \in Nat
            /\ lockedUntil[j] = held[v][j] + Lease[j]
            /\ now <= held[v][j] + MaxRun[j]
        BY <3>3 DEF IInv, HolderWroteLock
      <4>2. QED
        BY <3>1, <3>2, <4>1
    <3>4. QED
      BY <3>3
  <2>2. AtMostOnce'
    BY <1>3, <2>1 DEF IInv, TypeOK, AtMostOnce, Claim, Running
  <2>3. HolderWroteLock'
    <3>1. ASSUME NEW v \in Workers, NEW i \in Jobs, Running(v, i)'
          PROVE /\ held'[v][i] \in Nat
                /\ lockedUntil'[i] = held'[v][i] + Lease[i]
                /\ now' <= held'[v][i] + MaxRun[i]
      <4>1. CASE i = j
        <5>1. v = w
          BY <1>3, <2>1, <3>1, <4>1 DEF IInv, TypeOK, Claim, Running
        <5>2. /\ held'[v][i] = now
              /\ lockedUntil'[i] = now + Lease[i]
              /\ now' = now
          BY <1>3, <4>1, <5>1 DEF IInv, TypeOK, Claim
        <5>3. MaxRun[i] \in Nat /\ now \in Nat
          BY MaxRunAssumption DEF IInv, TypeOK
        <5>4. QED
          BY <5>2, <5>3
      <4>2. CASE i # j
        BY <1>3, <3>1, <4>2 DEF IInv, TypeOK, HolderWroteLock, Claim, Running
      <4>3. QED
        BY <4>1, <4>2
    <3>2. QED
      BY <3>1 DEF HolderWroteLock
  <2>4. QED
    BY <1>1, <2>2, <2>3 DEF IInv
<1>4. ASSUME NEW w \in Workers, NEW j \in Jobs, Finish(w, j) PROVE IInv'
  <2>1. AtMostOnce'
    BY <1>4 DEF IInv, TypeOK, AtMostOnce, Finish, Running, NotRunning
  <2>2. HolderWroteLock'
    BY <1>4 DEF IInv, TypeOK, HolderWroteLock, Finish, Running, NotRunning
  <2>3. QED
    BY <1>1, <2>1, <2>2 DEF IInv
<1>5. ASSUME NEW W \in SUBSET Workers, Crash(W) PROVE IInv'
  <2>1. AtMostOnce'
    BY <1>5 DEF IInv, AtMostOnce, Crash, Running, NotRunning
  <2>2. HolderWroteLock'
    BY <1>5 DEF IInv, HolderWroteLock, Crash, Running, NotRunning
  <2>3. QED
    BY <1>1, <2>1, <2>2 DEF IInv
<1>6. CASE UNCHANGED vars
  BY <1>6 DEF IInv, TypeOK, AtMostOnce, HolderWroteLock, Running, vars
<1>7. QED
  BY <1>2, <1>3, <1>4, <1>5, <1>6 DEF Next

\* Initially nothing runs.
LEMMA IInvInitial == Init => IInv
BY DEF Init, IInv, TypeOK, AtMostOnce, HolderWroteLock, Running, Never,
       NotRunning

\* Migration 009's "at most once at a time across N backend replicas": proved
\* for every number of replicas, jobs and crashes, from the hypothesis that no
\* execution outlives the lease its caller asked for.
THEOREM LeaseExcludes == ASSUME RunsFitLease PROVE Spec => []AtMostOnce
<1>1. IInv /\ [Next]_vars => IInv'
  BY IInvInductive
<1>2. IInv => AtMostOnce
  BY DEF IInv
<1>3. QED
  BY IInvInitial, <1>1, <1>2, PTL DEF Spec
=============================================================================
