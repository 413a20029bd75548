-------------------------- MODULE AlertCheckProofs --------------------------
(***************************************************************************)
(* Four results about AlertCheck, for any number of replicas and           *)
(* conditions.  No incident can go silent: whether leases exclude          *)
(* overlapping checks or not, and wherever a check dies, an unhealthy row  *)
(* carries the time of an alert.  The checks implement the lease table, so *)
(* that no two overlap when none outlives its lease; and then no webhook   *)
(* is posted twice, and whoever reads the webhooks agrees with             *)
(* alert_state.                                                            *)
(***************************************************************************)
EXTENDS AlertCheck, TLAPS

\* The record of an execution that has not begun is well typed.
LEMMA NoCheckType == NoCheck \in Checks
BY DEF NoCheck, Checks, NoRow, Rows, Health, Never

\* A row that Write builds is well typed.
LEMMA NewRowType ==
  ASSUME NEW k \in Checks, NEW c \in Conditions PROVE NewRow(k, c) \in Rows
BY DEF NewRow, Checks, Rows, Health

\* Replacing the execution of one replica by a well-typed one.
LEMMA CheckType ==
  ASSUME TypeOK, NEW r \in Replicas, NEW k \in Checks, k.found \subseteq k.over,
         check' = [check EXCEPT ![r] = k]
  PROVE  /\ check' \in [Replicas -> Checks]
         /\ \A q \in Replicas : check'[q].found \subseteq check'[q].over
BY DEF TypeOK

\* Every variable, and every record of an execution, keeps its type.
LEMMA TypeInductive == TypeOK /\ [Next]_vars => TypeOK'
<1> SUFFICES ASSUME TypeOK, [Next]_vars PROVE TypeOK'
  OBVIOUS
<1>0. NoCheck.found \subseteq NoCheck.over
  BY DEF NoCheck
<1>1. CASE Tick
  BY <1>1 DEF TypeOK, Tick
<1>2. ASSUME NEW c \in Conditions, Flip(c) PROVE TypeOK'
  BY <1>2 DEF TypeOK, Flip
<1>3. ASSUME NEW c \in Conditions, ToggleMonitored(c) PROVE TypeOK'
  BY <1>3 DEF TypeOK, ToggleMonitored
<1>4. ASSUME NEW r \in Replicas, Crash(r) PROVE TypeOK'
  <2>1. /\ check' \in [Replicas -> Checks]
        /\ \A q \in Replicas : check'[q].found \subseteq check'[q].over
    BY <1>4, <1>0, NoCheckType, CheckType DEF Crash
  <2>2. QED
    BY <1>4, <2>1 DEF TypeOK, Crash
<1>5. ASSUME NEW r \in Replicas, Begin(r) PROVE TypeOK'
  <2> DEFINE k == [NoCheck EXCEPT !.pc = "evaluate", !.since = now]
  <2>1. k \in Checks /\ k.found \subseteq k.over
    BY NoCheckType DEF TypeOK, Checks, NoCheck
  <2>2. check' = [check EXCEPT ![r] = k]
    BY <1>5 DEF Begin
  <2> HIDE DEF k
  <2>3. /\ check' \in [Replicas -> Checks]
        /\ \A q \in Replicas : check'[q].found \subseteq check'[q].over
    BY <2>1, <2>2, CheckType
  <2>4. lockedUntil' \in Int
    BY <1>5, LeaseAssumption DEF TypeOK, Begin
  <2>5. QED
    BY <1>5, <2>3, <2>4 DEF TypeOK, Begin
<1>6. ASSUME NEW r \in Replicas, Evaluate(r) PROVE TypeOK'
  <2> DEFINE k == IF monitored = {} THEN NoCheck
                  ELSE [check[r] EXCEPT !.pc = "read", !.over = monitored,
                                        !.found = monitored \cap unhealthy,
                                        !.at = now]
  <2>1. k \in Checks /\ k.found \subseteq k.over
    BY <1>0, NoCheckType DEF TypeOK, Checks
  <2>2. check' = [check EXCEPT ![r] = k]
    BY <1>6 DEF Evaluate
  <2> HIDE DEF k
  <2>3. /\ check' \in [Replicas -> Checks]
        /\ \A q \in Replicas : check'[q].found \subseteq check'[q].over
    BY <2>1, <2>2, CheckType
  <2>4. QED
    BY <1>6, <2>3 DEF TypeOK, Evaluate
<1>7. ASSUME NEW r \in Replicas, ReadPrior(r) PROVE TypeOK'
  <2> DEFINE toPost == {c \in check[r].over :
                          ShouldNotify(check[r], row[c], check[r].at, c)}
             k == [check[r] EXCEPT
                     !.pc = IF toPost = {} THEN "write" ELSE "post",
                     !.prior = row, !.toPost = toPost]
  <2>1. check[r] \in Checks /\ check[r].found \subseteq check[r].over
    BY DEF TypeOK
  <2>2. toPost \subseteq Conditions
    BY <2>1 DEF Checks
  <2>3. check' = [check EXCEPT ![r] = k]
    BY <1>7 DEF ReadPrior
  <2> HIDE DEF toPost
  <2>4. k \in Checks /\ k.found \subseteq k.over
    BY <2>1, <2>2 DEF TypeOK, Checks
  <2> HIDE DEF k
  <2>5. /\ check' \in [Replicas -> Checks]
        /\ \A q \in Replicas : check'[q].found \subseteq check'[q].over
    BY <2>3, <2>4, CheckType
  <2>6. QED
    BY <1>7, <2>5 DEF TypeOK, ReadPrior
<1>8. ASSUME NEW r \in Replicas, NEW c \in Conditions, Post(r, c)
      PROVE TypeOK'
  <2> DEFINE k == [check[r] EXCEPT !.toPost = @ \ {c},
                     !.pc = IF check[r].toPost = {c} THEN "write" ELSE "post"]
  <2>1. k \in Checks /\ k.found \subseteq k.over
    BY DEF TypeOK, Checks
  <2>2. check' = [check EXCEPT ![r] = k]
    BY <1>8 DEF Post
  <2> HIDE DEF k
  <2>3. /\ check' \in [Replicas -> Checks]
        /\ \A q \in Replicas : check'[q].found \subseteq check'[q].over
    BY <2>1, <2>2, CheckType
  <2>4. inbox' \in [Conditions -> Kinds] /\ mishap' \in BOOLEAN
    BY <1>8 DEF TypeOK, Post, Kind, Kinds
  <2>5. QED
    BY <1>8, <2>3, <2>4 DEF TypeOK, Post
<1>9. ASSUME NEW r \in Replicas, Write(r) PROVE TypeOK'
  <2>1. /\ check' \in [Replicas -> Checks]
        /\ \A q \in Replicas : check'[q].found \subseteq check'[q].over
    BY <1>9, <1>0, NoCheckType, CheckType DEF Write
  <2>2. row' \in [Conditions -> Rows]
    BY <1>9, NewRowType DEF TypeOK, Write
  <2>3. QED
    BY <1>9, <2>1, <2>2 DEF TypeOK, Write
<1>10. CASE UNCHANGED vars
  BY <1>10 DEF TypeOK, vars
<1>11. QED
  BY <1>1, <1>2, <1>3, <1>4, <1>5, <1>6, <1>7, <1>8, <1>9, <1>10 DEF Next

\* Initially every variable has its type.
LEMMA TypeInitial == Init => TypeOK
<1>1. NoRow \in Rows /\ NoCheck.found \subseteq NoCheck.over
  BY DEF NoRow, Rows, Health, Never, NoCheck
<1> SUFFICES ASSUME Init PROVE TypeOK
  OBVIOUS
<1>2. /\ row \in [Conditions -> Rows]
      /\ check \in [Replicas -> Checks]
      /\ \A r \in Replicas : check[r].found \subseteq check[r].over
  BY <1>1, NoCheckType DEF Init
<1>3. now \in Nat /\ lockedUntil \in Int
  BY DEF Init, Never
<1>4. unhealthy \subseteq Conditions /\ monitored \subseteq Conditions
  BY DEF Init
<1>5. inbox \in [Conditions -> Kinds] /\ mishap \in BOOLEAN
  BY DEF Init, Kinds
<1>6. QED
  BY <1>2, <1>3, <1>4, <1>5 DEF TypeOK

\* The type invariant of the alert check, for every number of replicas.
THEOREM TypeCorrect == Spec => []TypeOK
BY TypeInitial, TypeInductive, PTL DEF Spec

-----------------------------------------------------------------------------

\* A check that holds prior rows read them while UnhealthyHasAlertTime held.
PriorHasAlertTime ==
    \A r \in Replicas, c \in Conditions :
        /\ check[r].pc \in {"post", "write"}
        /\ check[r].prior[c].health = "unhealthy"
        => check[r].prior[c].lastAlert # Never

IInv == TypeOK /\ UnhealthyHasAlertTime /\ PriorHasAlertTime

\* What a check writes for an unhealthy condition: the time of its own alert,
\* or the time carried over from an unhealthy prior row.
LEMMA WrittenAlertTime ==
  ASSUME NEW k \in Checks, NEW c \in Conditions,
         k.prior[c].health = "unhealthy" => k.prior[c].lastAlert # Never,
         NewRow(k, c).health = "unhealthy"
  PROVE  NewRow(k, c).lastAlert # Never
<1>1. c \in k.found
  BY DEF NewRow
<1>2. CASE AlertDue(k.prior[c], k.at)
  BY <1>1, <1>2 DEF NewRow, ShouldNotify, Checks, Never
<1>3. CASE ~AlertDue(k.prior[c], k.at)
  BY <1>1, <1>3 DEF NewRow, ShouldNotify, AlertDue
<1>4. QED
  BY <1>2, <1>3

\* No step of any check, and no crash or overlap, leaves a silent incident.
LEMMA IInvInductive == IInv /\ [Next]_vars => IInv'
<1> SUFFICES ASSUME IInv, [Next]_vars PROVE IInv'
  OBVIOUS
<1>0. TypeOK /\ TypeOK' /\ UnhealthyHasAlertTime /\ PriorHasAlertTime
  BY TypeInductive DEF IInv
<1>1. CASE Tick
  BY <1>0, <1>1 DEF Tick, IInv, UnhealthyHasAlertTime, PriorHasAlertTime
<1>2. ASSUME NEW c \in Conditions, Flip(c) \/ ToggleMonitored(c) PROVE IInv'
  BY <1>0, <1>2
  DEF Flip, ToggleMonitored, IInv, UnhealthyHasAlertTime, PriorHasAlertTime
<1>3. ASSUME NEW r \in Replicas, Crash(r) PROVE IInv'
  BY <1>0, <1>3
  DEF TypeOK, Crash, NoCheck, IInv, UnhealthyHasAlertTime, PriorHasAlertTime
<1>4. ASSUME NEW r \in Replicas, Begin(r) PROVE IInv'
  BY <1>0, <1>4
  DEF TypeOK, Begin, NoCheck, IInv, UnhealthyHasAlertTime, PriorHasAlertTime
<1>5. ASSUME NEW r \in Replicas, Evaluate(r) PROVE IInv'
  <2>1. check'[r].pc \in {"idle", "read"}
    BY <1>0, <1>5 DEF TypeOK, Checks, Evaluate, NoCheck
  <2>2. \A q \in Replicas : q # r => check'[q] = check[q]
    BY <1>0, <1>5 DEF TypeOK, Evaluate
  <2>3. row' = row
    BY <1>5 DEF Evaluate
  <2>4. QED
    BY <1>0, <2>1, <2>2, <2>3
    DEF IInv, UnhealthyHasAlertTime, PriorHasAlertTime
<1>6. ASSUME NEW r \in Replicas, ReadPrior(r) PROVE IInv'
  <2>1. check'[r].prior = row
    BY <1>0, <1>6 DEF TypeOK, Checks, ReadPrior
  <2>2. \A q \in Replicas : q # r => check'[q] = check[q]
    BY <1>0, <1>6 DEF TypeOK, ReadPrior
  <2>3. row' = row
    BY <1>6 DEF ReadPrior
  <2>4. QED
    BY <1>0, <2>1, <2>2, <2>3
    DEF IInv, UnhealthyHasAlertTime, PriorHasAlertTime
<1>7. ASSUME NEW r \in Replicas, NEW c \in Conditions, Post(r, c) PROVE IInv'
  <2>0. check[r] \in Checks
    BY <1>0 DEF TypeOK
  <2>1. check[r].pc = "post" /\ check'[r].prior = check[r].prior
    <3> DEFINE k == [check[r] EXCEPT !.toPost = @ \ {c},
                       !.pc = IF check[r].toPost = {c} THEN "write" ELSE "post"]
    <3>1. k.prior = check[r].prior
      BY <2>0 DEF Checks
    <3>2. check[r].pc = "post" /\ check' = [check EXCEPT ![r] = k]
      BY <1>7 DEF Post
    <3> HIDE DEF k
    <3>3. QED
      BY <1>0, <3>1, <3>2 DEF TypeOK
  <2>2. \A q \in Replicas : q # r => check'[q] = check[q]
    BY <1>0, <1>7 DEF TypeOK, Post
  <2>3. row' = row
    BY <1>7 DEF Post
  <2>4. QED
    BY <1>0, <2>1, <2>2, <2>3
    DEF IInv, UnhealthyHasAlertTime, PriorHasAlertTime
<1>8. ASSUME NEW r \in Replicas, Write(r) PROVE IInv'
  <2>1. UnhealthyHasAlertTime'
    <3> SUFFICES ASSUME NEW c \in Conditions, row'[c].health = "unhealthy"
                 PROVE  row'[c].lastAlert # Never
      BY DEF UnhealthyHasAlertTime
    <3>1. check[r] \in Checks /\ check[r].pc = "write"
      BY <1>0, <1>8 DEF TypeOK, Write
    <3>2. CASE c \in check[r].over
      <4>1. row'[c] = NewRow(check[r], c)
        BY <1>8, <3>2 DEF Write
      <4>2. check[r].prior[c].health = "unhealthy"
              => check[r].prior[c].lastAlert # Never
        BY <1>0, <3>1 DEF PriorHasAlertTime
      <4>3. QED
        BY <3>1, <4>1, <4>2, WrittenAlertTime
    <3>3. CASE c \notin check[r].over
      BY <1>0, <1>8, <3>3 DEF Write, UnhealthyHasAlertTime
    <3>4. QED
      BY <3>2, <3>3
  <2>2. PriorHasAlertTime'
    BY <1>0, <1>8 DEF TypeOK, Write, NoCheck, PriorHasAlertTime
  <2>3. QED
    BY <1>0, <2>1, <2>2 DEF IInv
<1>9. CASE UNCHANGED vars
  BY <1>0, <1>9 DEF vars, IInv, UnhealthyHasAlertTime, PriorHasAlertTime
<1>10. QED
  BY <1>1, <1>2, <1>3, <1>4, <1>5, <1>6, <1>7, <1>8, <1>9 DEF Next

\* Initially there is no row and no check.
LEMMA IInvInitial == Init => IInv
BY TypeInitial
DEF Init, IInv, UnhealthyHasAlertTime, PriorHasAlertTime, NoRow, NoCheck

\* An unhealthy row always has a last_alert_at, so the cooldown branch can
\* always renew the alert: proved without any assumption on leases.
THEOREM NeverSilent == Spec => []UnhealthyHasAlertTime
<1>1. IInv => UnhealthyHasAlertTime
  BY DEF IInv
<1>2. QED
  BY IInvInitial, IInvInductive, <1>1, PTL DEF Spec

-----------------------------------------------------------------------------
(* The checks implement the lease table of JobLock.                        *)

Job == "alert_check"

HeldSince(r) == IF Running(r) THEN check[r].since ELSE -1

Held == [r \in Replicas |-> [j \in {Job} |-> HeldSince(r)]]

Locked == [j \in {Job} |-> lockedUntil]

\* What a step of the check of r means for the executions of the lease table.
LEMMA HeldStep ==
  ASSUME TypeOK, NEW r \in Replicas, NEW k, check' = [check EXCEPT ![r] = k],
         NEW t, t = IF k.pc = "idle" THEN -1 ELSE k.since
  PROVE  Held' = [Held EXCEPT ![r][Job] = t]
<1>1. \A q \in Replicas : check'[q] = IF q = r THEN k ELSE check[q]
  BY DEF TypeOK
<1> DEFINE next == [q \in Replicas |-> [j \in {Job} |->
                      IF q = r THEN t ELSE HeldSince(q)]]
<1>2. ASSUME NEW q \in Replicas PROVE HeldSince(q)' = next[q][Job]
  BY <1>1, <1>2 DEF HeldSince, Running
<1>3. Held' = next
  BY <1>2 DEF Held
<1>4. [Held EXCEPT ![r][Job] = t] = next
  BY DEF Held
<1>5. QED
  BY <1>3, <1>4

\* A step inside an execution leaves all executions as they are.
LEMMA HeldKept ==
  ASSUME TypeOK, NEW r \in Replicas, NEW k, check' = [check EXCEPT ![r] = k],
         Running(r), k.pc # "idle", k.since = check[r].since
  PROVE  Held' = Held
<1>1. \A q \in Replicas : check'[q] = IF q = r THEN k ELSE check[q]
  BY DEF TypeOK
<1>2. \A q \in Replicas : HeldSince(q)' = HeldSince(q)
  BY <1>1 DEF HeldSince, Running
<1>3. QED
  BY <1>2 DEF Held

\* An execution that ends is a Finish of the lease table.
LEMMA HeldFinish ==
  ASSUME TypeOK, NEW r \in Replicas, check' = [check EXCEPT ![r] = NoCheck],
         Running(r), UNCHANGED <<now, lockedUntil>>
  PROVE  Table!Next
<1>0. NoCheck.pc = "idle"
  BY DEF NoCheck
<1>1. Held' = [Held EXCEPT ![r][Job] = -1]
  BY <1>0, HeldStep
<1>2. Held[r][Job] \in Nat
  BY DEF Held, HeldSince, TypeOK, Checks
<1>3. Table!Finish(r, Job)
  BY <1>1, <1>2
  DEF Table!Finish, Table!Running, Table!NotRunning, Held, HeldSince, Job
<1>4. QED
  BY <1>3 DEF Table!Next, Job

\* The initial states are those of the lease table.
LEMMA TableInitial == Init => Table!Init
BY DEF Init, Table!Init, Table!Never, Table!NotRunning, Never, Running, NoCheck

\* Begin claims, Write and a check of nothing finish, all else is no step.
LEMMA TableStep == TypeOK /\ [Next]_vars => [Table!Next]_(Table!vars)
<1> SUFFICES ASSUME TypeOK, [Next]_vars PROVE Table!Next \/ UNCHANGED Table!vars
  OBVIOUS
<1>0. \A r \in Replicas : check[r] \in Checks
  BY DEF TypeOK
<1> DEFINE Same == UNCHANGED <<now, lockedUntil>> /\ Held' = Held
<1>a. Same => UNCHANGED Table!vars
  BY DEF Table!vars, Held, HeldSince, Job
<1>1. CASE Tick
  <2>1. \A r \in Replicas : Running(r) => now < check[r].since + MaxCheck
    BY <1>1 DEF Tick
  <2>2. check' = check /\ lockedUntil' = lockedUntil
    BY <1>1 DEF Tick
  <2>3. Table!Tick
    BY <1>1, <2>1, <2>2
    DEF Tick, Table!Tick, Table!Running, Table!NotRunning, Running
  <2>4. QED
    BY <2>3 DEF Table!Next
<1>2. ASSUME NEW c \in Conditions, Flip(c) \/ ToggleMonitored(c) PROVE Same
  BY <1>2 DEF Flip, ToggleMonitored, Held, HeldSince, Running
<1>3. ASSUME NEW r \in Replicas, Crash(r) PROVE Same \/ Table!Next
  <2>1. CASE Running(r)
    BY <1>3, <2>1, HeldFinish DEF Crash
  <2>2. CASE ~Running(r)
    <3>1. \A q \in Replicas : HeldSince(q)' = HeldSince(q)
      BY <1>3, <2>2 DEF TypeOK, Crash, HeldSince, Running, NoCheck
    <3>2. QED
      BY <1>3, <3>1 DEF Crash, Held
  <2>3. QED
    BY <2>1, <2>2
<1>4. ASSUME NEW r \in Replicas, Begin(r) PROVE Table!Next
  <2>1. Held' = [Held EXCEPT ![r][Job] = now]
    <3> DEFINE k == [NoCheck EXCEPT !.pc = "evaluate", !.since = now]
    <3>1. k.pc = "evaluate" /\ k.since = now
      BY DEF NoCheck
    <3>2. check' = [check EXCEPT ![r] = k]
      BY <1>4 DEF Begin
    <3> HIDE DEF k
    <3>3. QED
      BY <3>1, <3>2, HeldStep
  <2>2. Held[r][Job] = -1
    BY <1>4 DEF Begin, Held, HeldSince
  <2>3. Locked' = [Locked EXCEPT ![Job] = now + Lease]
    BY <1>4 DEF Begin, Locked
  <2>4. Table!Claim(r, Job)
    BY <1>4, <2>1, <2>2, <2>3
    DEF Begin, Table!Claim, Table!Running, Table!NotRunning, Table!Expired,
        Held, HeldSince, Locked, Job
  <2>5. QED
    BY <2>4 DEF Table!Next, Job
<1>5. ASSUME NEW r \in Replicas, Evaluate(r) PROVE Same \/ Table!Next
  <2>1. CASE monitored = {}
    BY <1>5, <2>1, HeldFinish DEF Evaluate, Running
  <2>2. CASE monitored # {}
    <3> DEFINE k == [check[r] EXCEPT !.pc = "read", !.over = monitored,
                                     !.found = monitored \cap unhealthy,
                                     !.at = now]
    <3>1. k.pc = "read" /\ k.since = check[r].since
      BY <1>0 DEF Checks
    <3>2. check' = [check EXCEPT ![r] = k] /\ Running(r)
      BY <1>5, <2>2 DEF Evaluate, Running
    <3> HIDE DEF k
    <3>3. QED
      BY <1>5, <3>1, <3>2, HeldKept DEF Evaluate
  <2>3. QED
    BY <2>1, <2>2
<1>6. ASSUME NEW r \in Replicas, ReadPrior(r) PROVE Same
  <2> DEFINE toPost == {c \in check[r].over :
                          ShouldNotify(check[r], row[c], check[r].at, c)}
             k == [check[r] EXCEPT
                     !.pc = IF toPost = {} THEN "write" ELSE "post",
                     !.prior = row, !.toPost = toPost]
  <2>1. check' = [check EXCEPT ![r] = k] /\ Running(r)
    BY <1>6 DEF ReadPrior, Running
  <2> HIDE DEF toPost
  <2>2. k.pc # "idle" /\ k.since = check[r].since
    BY <1>0 DEF Checks
  <2> HIDE DEF k
  <2>3. QED
    BY <1>6, <2>1, <2>2, HeldKept DEF ReadPrior
<1>7. ASSUME NEW r \in Replicas, NEW c \in Conditions, Post(r, c) PROVE Same
  <2> DEFINE k == [check[r] EXCEPT !.toPost = @ \ {c},
                     !.pc = IF check[r].toPost = {c} THEN "write" ELSE "post"]
  <2>1. k.pc # "idle" /\ k.since = check[r].since
    BY <1>0 DEF Checks
  <2>2. check' = [check EXCEPT ![r] = k] /\ Running(r)
    BY <1>7 DEF Post, Running
  <2> HIDE DEF k
  <2>3. QED
    BY <1>7, <2>1, <2>2, HeldKept DEF Post
<1>8. ASSUME NEW r \in Replicas, Write(r) PROVE Table!Next
  BY <1>8, HeldFinish DEF Write, Running
<1>9. CASE UNCHANGED vars
  BY <1>9, <1>a DEF vars, Held, HeldSince, Running
<1>10. QED
  BY <1>a, <1>1, <1>2, <1>3, <1>4, <1>5, <1>6, <1>7, <1>8, <1>9 DEF Next

\* Every behaviour of the alert checks, crashes included, is a behaviour of
\* the lease table.
THEOREM ChecksImplementJobLock == Spec => ImplementsJobLock
<1>1. TypeOK /\ [Next]_vars => [Table!Next]_(Table!vars)
  BY TableStep
<1>2. QED
  BY TableInitial, <1>1, TypeCorrect, PTL
  DEF Spec, ImplementsJobLock, Table!Spec

-----------------------------------------------------------------------------
(* Exclusion, from the theorem about the lease table.                      *)

TableProofs == INSTANCE JobLockProofs WITH
    Workers <- Replicas,
    Jobs <- {Job},
    Lease <- [j \in {Job} |-> Lease],
    MaxRun <- [j \in {Job} |-> MaxCheck],
    lockedUntil <- Locked,
    held <- Held

\* Two executions of checkAndNotify never overlap.
OneCheck == \A q, r \in Replicas : Running(q) /\ Running(r) => q = r

\* As long as no check outlives ALERT_CHECK_LEASE_MS, its webhooks included,
\* two replicas never check at the same time.
THEOREM ChecksExclude == ASSUME MaxCheck <= Lease PROVE Spec => []OneCheck
<1>1. TableProofs!RunsFitLease
  BY DEF TableProofs!RunsFitLease
<1>2. /\ [j \in {Job} |-> Lease] \in [{Job} -> Nat]
      /\ [j \in {Job} |-> MaxCheck] \in [{Job} -> Nat]
  BY LeaseAssumption, MaxCheckAssumption
<1>3. TableProofs!Spec => []TableProofs!AtMostOnce
  BY <1>1, <1>2, MaxTimeAssumption, TableProofs!LeaseExcludes
<1>4. ASSUME TypeOK, TableProofs!AtMostOnce PROVE OneCheck
  <2>1. ASSUME NEW r \in Replicas, Running(r) PROVE TableProofs!Running(r, Job)
    <3>1. Held[r][Job] = check[r].since /\ check[r].since \in Nat
      BY <1>4, <2>1 DEF Held, HeldSince, TypeOK, Checks
    <3>2. QED
      BY <3>1 DEF TableProofs!Running, TableProofs!NotRunning
  <2>2. QED
    BY <1>4, <2>1 DEF TableProofs!AtMostOnce, OneCheck
<1>5. TypeOK /\ [Next]_vars => [TableProofs!Next]_(TableProofs!vars)
  BY TableStep
  DEF Table!Next, Table!vars, Table!Tick, Table!Claim, Table!Finish,
      Table!Crash, Table!Running, Table!NotRunning, Table!Expired,
      TableProofs!Next, TableProofs!vars, TableProofs!Tick, TableProofs!Claim,
      TableProofs!Finish, TableProofs!Crash, TableProofs!Running,
      TableProofs!NotRunning, TableProofs!Expired, Held, HeldSince, Locked, Job
<1>6. Init => TableProofs!Init
  BY TableInitial
  DEF Table!Init, Table!Never, Table!NotRunning, TableProofs!Init,
      TableProofs!Never, TableProofs!NotRunning, Held, HeldSince, Locked, Job
<1>7. QED
  BY <1>3, <1>4, <1>5, <1>6, TypeCorrect, PTL DEF Spec, TableProofs!Spec

-----------------------------------------------------------------------------
(* No webhook twice.                                                       *)

\* What a check read is still in the table, and what it has to post is due.
PriorIsRow ==
    \A r \in Replicas :
        /\ check[r].pc \in {"post", "write"} => check[r].prior = row
        /\ check[r].pc = "write" => check[r].toPost = {}
        /\ check[r].pc = "post" =>
              \A c \in check[r].toPost :
                  /\ c \in check[r].over
                  /\ ShouldNotify(check[r], row[c], check[r].at, c)

\* Only Write changes the table, and no other check is under way then.
LEMMA PriorInductive ==
  ASSUME TypeOK, OneCheck, PriorIsRow, [Next]_vars PROVE PriorIsRow'
<1>0. \A r \in Replicas : check[r] \in Checks
  BY DEF TypeOK
<1>1. ASSUME UNCHANGED <<check, row>> PROVE PriorIsRow'
  BY <1>1 DEF PriorIsRow
<1>2. ASSUME NEW r \in Replicas, NEW k, check' = [check EXCEPT ![r] = k],
             k.pc \notin {"post", "write"}, row' = row
      PROVE  PriorIsRow'
  <2>1. \A q \in Replicas : check'[q] = IF q = r THEN k ELSE check[q]
    BY <1>2 DEF TypeOK
  <2>2. QED
    BY <1>2, <2>1 DEF PriorIsRow
<1>3. NoCheck.pc = "idle"
  BY DEF NoCheck
<1>4. ASSUME NEW r \in Replicas, Crash(r) PROVE PriorIsRow'
  BY <1>2, <1>3, <1>4 DEF Crash
<1>5. ASSUME NEW r \in Replicas, Begin(r) PROVE PriorIsRow'
  <2> DEFINE k == [NoCheck EXCEPT !.pc = "evaluate", !.since = now]
  <2>1. k.pc = "evaluate" /\ check' = [check EXCEPT ![r] = k] /\ row' = row
    BY <1>5 DEF Begin, NoCheck
  <2> HIDE DEF k
  <2>2. QED
    BY <1>2, <2>1
<1>6. ASSUME NEW r \in Replicas, Evaluate(r) PROVE PriorIsRow'
  <2> DEFINE k == IF monitored = {} THEN NoCheck
                  ELSE [check[r] EXCEPT !.pc = "read", !.over = monitored,
                                        !.found = monitored \cap unhealthy,
                                        !.at = now]
  <2>1. k.pc \in {"idle", "read"}
    BY <1>0, <1>3 DEF Checks
  <2>2. check' = [check EXCEPT ![r] = k] /\ row' = row
    BY <1>6 DEF Evaluate
  <2> HIDE DEF k
  <2>3. QED
    BY <1>2, <2>1, <2>2
<1>7. ASSUME NEW r \in Replicas, ReadPrior(r) PROVE PriorIsRow'
  <2> DEFINE toPost == {c \in check[r].over :
                          ShouldNotify(check[r], row[c], check[r].at, c)}
             k == [check[r] EXCEPT
                     !.pc = IF toPost = {} THEN "write" ELSE "post",
                     !.prior = row, !.toPost = toPost]
  <2>1. \A c \in toPost :
          /\ c \in check[r].over
          /\ ShouldNotify(check[r], row[c], check[r].at, c)
    OBVIOUS
  <2>2. check' = [check EXCEPT ![r] = k] /\ row' = row
    BY <1>7 DEF ReadPrior
  <2> HIDE DEF toPost
  <2>3. /\ k.prior = row /\ k.toPost = toPost
        /\ k.over = check[r].over /\ k.at = check[r].at
        /\ k.found = check[r].found
        /\ k.pc = "write" => toPost = {}
    BY <1>0 DEF Checks
  <2> HIDE DEF k
  <2>4. \A c : ShouldNotify(k, row[c], k.at, c)
                 <=> ShouldNotify(check[r], row[c], check[r].at, c)
    BY <2>3 DEF ShouldNotify
  <2>5. \A q \in Replicas : check'[q] = IF q = r THEN k ELSE check[q]
    BY <2>2 DEF TypeOK
  <2>6. QED
    BY <2>1, <2>2, <2>3, <2>4, <2>5 DEF PriorIsRow
<1>8. ASSUME NEW r \in Replicas, NEW c \in Conditions, Post(r, c)
      PROVE  PriorIsRow'
  <2> DEFINE k == [check[r] EXCEPT !.toPost = @ \ {c},
                     !.pc = IF check[r].toPost = {c} THEN "write" ELSE "post"]
  <2>1. check[r].pc = "post" /\ check' = [check EXCEPT ![r] = k] /\ row' = row
    BY <1>8 DEF Post
  <2>2. /\ k.prior = check[r].prior /\ k.toPost = check[r].toPost \ {c}
        /\ k.over = check[r].over /\ k.at = check[r].at
        /\ k.found = check[r].found
        /\ k.pc = "write" => k.toPost = {}
    BY <1>0 DEF Checks
  <2> HIDE DEF k
  <2>3. \A d : ShouldNotify(k, row[d], k.at, d)
                 <=> ShouldNotify(check[r], row[d], check[r].at, d)
    BY <2>2 DEF ShouldNotify
  <2>4. \A q \in Replicas : check'[q] = IF q = r THEN k ELSE check[q]
    BY <2>1 DEF TypeOK
  <2>5. QED
    BY <2>1, <2>2, <2>3, <2>4 DEF PriorIsRow
<1>9. ASSUME NEW r \in Replicas, Write(r) PROVE PriorIsRow'
  <2>1. \A q \in Replicas : q # r => check[q].pc = "idle"
    BY <1>9 DEF OneCheck, Running, Write
  <2>2. \A q \in Replicas : check'[q] = IF q = r THEN NoCheck ELSE check[q]
    BY <1>9 DEF TypeOK, Write
  <2>3. QED
    BY <1>3, <2>1, <2>2 DEF PriorIsRow
<1>10. QED
  BY <1>1, <1>4, <1>5, <1>6, <1>7, <1>8, <1>9
  DEF Next, vars, Tick, Flip, ToggleMonitored

\* No transition is announced twice and no reminder comes early: each webhook
\* is due by the table at the moment of its POST, if no check outlives its lease.
THEOREM PostedOnce == ASSUME MaxCheck <= Lease PROVE Spec => PostsOnce
<1>1. Init => PriorIsRow
  <2>1. NoCheck.pc = "idle"
    BY DEF NoCheck
  <2>2. Init => \A r \in Replicas : check[r].pc = "idle"
    BY <2>1 DEF Init
  <2>3. QED
    BY <2>2 DEF PriorIsRow
<1>2. TypeOK /\ OneCheck /\ PriorIsRow /\ [Next]_vars => PriorIsRow'
  BY PriorInductive
<1>3. PriorIsRow =>
        \A r \in Replicas, c \in Conditions :
            Post(r, c) => ShouldNotify(check[r], row[c], check[r].at, c)
  BY DEF PriorIsRow, Post
<1>4. Spec => []OneCheck
  BY ChecksExclude
<1>5. QED
  BY <1>1, <1>2, <1>3, <1>4, TypeCorrect, PTL DEF Spec, PostsOnce

-----------------------------------------------------------------------------
(* The receiver's picture.                                                 *)

\* No check has posted a webhook for c that the table does not yet know of.
Settled(c) == \A r \in Replicas : c \notin Unwritten(check[r])

\* The last webhook says what the table says, or what it is about to say.
ReceiverKnows ==
    ~mishap =>
        \A c \in Conditions :
            /\ Settled(c) => (row[c].health = "unhealthy" <=> inbox[c] = "alert")
            /\ \A r \in Replicas :
                  c \in Unwritten(check[r]) => inbox[c] = Kind(check[r], c)

\* A step that posts and writes nothing and forgets nothing unwritten.
LEMMA ReceiverKept ==
  ASSUME TypeOK, ReceiverKnows, NEW r \in Replicas, NEW k,
         check' = [check EXCEPT ![r] = k], UNCHANGED <<row, inbox>>,
         mishap' \/ Unwritten(check[r]) = {}, mishap => mishap',
         Unwritten(k) = {}
  PROVE  ReceiverKnows'
<1>1. \A q \in Replicas : check'[q] = IF q = r THEN k ELSE check[q]
  BY DEF TypeOK
<1>2. ASSUME ~mishap', NEW q \in Replicas
      PROVE  /\ Unwritten(check[q])' = Unwritten(check[q])
             /\ q # r => \A c : Kind(check[q], c)' = Kind(check[q], c)
  BY <1>1, <1>2 DEF Unwritten, Kind
<1>3. ASSUME ~mishap', NEW c \in Conditions PROVE Settled(c)' <=> Settled(c)
  BY <1>2, <1>3 DEF Settled
<1>4. ASSUME ~mishap', NEW c \in Conditions, NEW q \in Replicas,
             c \in Unwritten(check[q])'
      PROVE  inbox'[c] = Kind(check[q], c)'
  <2>1. c \in Unwritten(check[q]) /\ q # r
    BY <1>2, <1>4
  <2>2. inbox[c] = Kind(check[q], c)
    BY <1>4, <2>1 DEF ReceiverKnows
  <2>3. QED
    BY <1>2, <1>4, <2>1, <2>2
<1>5. QED
  BY <1>3, <1>4 DEF ReceiverKnows

\* A webhook that arrives says what the check that posted it will write.
LEMMA ReceiverPosted ==
  ASSUME TypeOK, OneCheck, PriorIsRow, ReceiverKnows,
         NEW r \in Replicas, NEW c \in Conditions, Post(r, c)
  PROVE  ReceiverKnows'
<1> DEFINE k == [check[r] EXCEPT !.toPost = @ \ {c},
                   !.pc = IF check[r].toPost = {c} THEN "write" ELSE "post"]
<1>1. check[r] \in Checks
  BY DEF TypeOK
<1>2. /\ check[r].pc = "post" /\ c \in check[r].toPost
      /\ check' = [check EXCEPT ![r] = k] /\ row' = row
      /\ ~mishap' => inbox' = [inbox EXCEPT ![c] = Kind(check[r], c)] /\ ~mishap
  BY DEF Post, TypeOK
<1>3. /\ k.prior = check[r].prior /\ k.toPost = check[r].toPost \ {c}
      /\ k.over = check[r].over /\ k.at = check[r].at
      /\ k.found = check[r].found /\ k.pc \in {"post", "write"}
  BY <1>1 DEF Checks
<1> HIDE DEF k
<1>4. \A d : /\ Kind(k, d) = Kind(check[r], d)
             /\ ShouldNotify(k, k.prior[d], k.at, d)
                  <=> ShouldNotify(check[r], check[r].prior[d], check[r].at, d)
  BY <1>3 DEF Kind, ShouldNotify
<1>5. \A q \in Replicas : check'[q] = IF q = r THEN k ELSE check[q]
  BY <1>2 DEF TypeOK
<1>6. \A d : d # c => (d \in Unwritten(k) <=> d \in Unwritten(check[r]))
  BY <1>2, <1>3, <1>4 DEF Unwritten
<1>7. c \in Unwritten(k)
  <2>1. /\ c \in check[r].over
        /\ ShouldNotify(check[r], check[r].prior[c], check[r].at, c)
    BY <1>2 DEF PriorIsRow
  <2>2. QED
    BY <1>3, <1>4, <2>1 DEF Unwritten
<1>8. \A q \in Replicas : q # r => Unwritten(check[q]) = {}
  BY <1>2 DEF OneCheck, Running, Unwritten
<1>9. ASSUME ~mishap', NEW d \in Conditions, d # c
      PROVE  /\ Settled(d)' <=> Settled(d)
             /\ inbox'[d] = inbox[d]
             /\ \A q \in Replicas :
                   d \in Unwritten(check[q])' =>
                       inbox'[d] = Kind(check[q], d)'
  <2>1. \A q \in Replicas : d \in Unwritten(check[q])' <=> d \in Unwritten(check[q])
    BY <1>5, <1>6, <1>9 DEF Unwritten
  <2>2. \A q \in Replicas : Kind(check[q], d)' = Kind(check[q], d)
    BY <1>4, <1>5 DEF Kind
  <2>3. inbox'[d] = inbox[d]
    BY <1>2, <1>9 DEF TypeOK
  <2>4. \A q \in Replicas :
            d \in Unwritten(check[q]) => inbox[d] = Kind(check[q], d)
    BY <1>2, <1>9 DEF ReceiverKnows
  <2>5. QED
    BY <2>1, <2>2, <2>3, <2>4 DEF Settled
<1>10. ASSUME ~mishap'
       PROVE  /\ ~Settled(c)'
              /\ \A q \in Replicas :
                    c \in Unwritten(check[q])' => inbox'[c] = Kind(check[q], c)'
  <2>1. inbox'[c] = Kind(k, c)
    BY <1>2, <1>4, <1>10 DEF TypeOK
  <2>2. Unwritten(check[r])' = Unwritten(k) /\ Kind(check[r], c)' = Kind(k, c)
    BY <1>5 DEF Unwritten, Kind
  <2>3. \A q \in Replicas : q # r => Unwritten(check[q])' = {}
    BY <1>5, <1>8 DEF Unwritten
  <2>4. QED
    BY <1>7, <2>1, <2>2, <2>3 DEF Settled
<1>11. QED
  BY <1>2, <1>9, <1>10 DEF ReceiverKnows

\* The upsert writes what has been posted, and what needed no webhook.
LEMMA ReceiverWritten ==
  ASSUME TypeOK, OneCheck, PriorIsRow, ReceiverKnows,
         NEW r \in Replicas, Write(r)
  PROVE  ReceiverKnows'
<1> DEFINE k == check[r]
<1>1. /\ k.pc = "write" /\ k.prior = row /\ k.toPost = {}
      /\ inbox' = inbox /\ mishap' = mishap
  BY DEF Write, PriorIsRow
<1>2. \A q \in Replicas : Unwritten(check[q])' = {}
  <2>1. \A q \in Replicas : q # r => check[q].pc = "idle"
    BY DEF OneCheck, Running, Write
  <2>2. \A q \in Replicas : check'[q] = IF q = r THEN NoCheck ELSE check[q]
    BY DEF TypeOK, Write
  <2>3. NoCheck.pc = "idle"
    BY DEF NoCheck
  <2>4. QED
    BY <2>1, <2>2, <2>3 DEF Unwritten
<1>3. \A q \in Replicas : q # r => Unwritten(check[q]) = {}
  BY DEF OneCheck, Running, Write, Unwritten
<1>4. ASSUME NEW c \in Conditions, ~mishap
      PROVE  row'[c].health = "unhealthy" <=> inbox[c] = "alert"
  <2>1. row'[c] = IF c \in k.over THEN NewRow(k, c) ELSE row[c]
    BY DEF Write
  <2>2. NewRow(k, c).health = IF c \in k.found THEN "unhealthy" ELSE "healthy"
    BY DEF NewRow
  <2>3. k.found \subseteq k.over
    BY DEF TypeOK
  <2>4. CASE c \in Unwritten(k)
    <3>1. inbox[c] = Kind(k, c) /\ c \in k.over
      BY <1>4, <2>4 DEF ReceiverKnows, Unwritten
    <3>2. QED
      BY <2>1, <2>2, <3>1 DEF Kind
  <2>5. CASE c \notin Unwritten(k)
    <3>1. row[c].health = "unhealthy" <=> inbox[c] = "alert"
      BY <1>3, <1>4, <2>5 DEF ReceiverKnows, Settled
    <3>2. c \in k.over => ~ShouldNotify(k, row[c], k.at, c)
      BY <1>1, <2>5 DEF Unwritten
    <3>3. c \in k.over => (row[c].health = "unhealthy" <=> c \in k.found)
      BY <3>2 DEF ShouldNotify, AlertDue, RecoveryDue
    <3>4. QED
      BY <2>1, <2>2, <3>1, <3>3
  <2>6. QED
    BY <2>4, <2>5
<1>5. QED
  BY <1>1, <1>2, <1>4 DEF ReceiverKnows

\* Every step keeps the receiver's picture right, or is a mishap.
LEMMA ReceiverInductive ==
  ASSUME TypeOK, OneCheck, PriorIsRow, ReceiverKnows, [Next]_vars
  PROVE  ReceiverKnows'
<1>0. \A r \in Replicas : check[r] \in Checks
  BY DEF TypeOK
<1>1. ASSUME UNCHANGED <<check, row, inbox, mishap>> PROVE ReceiverKnows'
  BY <1>1 DEF ReceiverKnows, Settled, Unwritten, Kind, ShouldNotify
<1>2. \A k : k.pc \notin {"post", "write"} => Unwritten(k) = {}
  BY DEF Unwritten
<1>3. NoCheck.pc = "idle"
  BY DEF NoCheck
<1>4. ASSUME NEW r \in Replicas, Crash(r) PROVE ReceiverKnows'
  BY <1>2, <1>3, <1>4, ReceiverKept DEF Crash
<1>5. ASSUME NEW r \in Replicas, Begin(r) PROVE ReceiverKnows'
  <2> DEFINE k == [NoCheck EXCEPT !.pc = "evaluate", !.since = now]
  <2>1. k.pc = "evaluate" /\ check' = [check EXCEPT ![r] = k]
    BY <1>5 DEF Begin, NoCheck
  <2> HIDE DEF k
  <2>2. Unwritten(k) = {} /\ Unwritten(check[r]) = {}
    BY <1>2, <1>5, <2>1 DEF Begin, Running
  <2>3. QED
    BY <1>5, <2>1, <2>2, ReceiverKept DEF Begin
<1>6. ASSUME NEW r \in Replicas, Evaluate(r) PROVE ReceiverKnows'
  <2> DEFINE k == IF monitored = {} THEN NoCheck
                  ELSE [check[r] EXCEPT !.pc = "read", !.over = monitored,
                                        !.found = monitored \cap unhealthy,
                                        !.at = now]
  <2>1. k.pc \in {"idle", "read"}
    BY <1>0, <1>3 DEF Checks
  <2>2. check' = [check EXCEPT ![r] = k]
    BY <1>6 DEF Evaluate
  <2> HIDE DEF k
  <2>3. Unwritten(k) = {} /\ Unwritten(check[r]) = {}
    BY <1>2, <1>6, <2>1 DEF Evaluate
  <2>4. QED
    BY <1>6, <2>2, <2>3, ReceiverKept DEF Evaluate
<1>7. ASSUME NEW r \in Replicas, ReadPrior(r) PROVE ReceiverKnows'
  <2> DEFINE toPost == {c \in check[r].over :
                          ShouldNotify(check[r], row[c], check[r].at, c)}
             k == [check[r] EXCEPT
                     !.pc = IF toPost = {} THEN "write" ELSE "post",
                     !.prior = row, !.toPost = toPost]
  <2>1. check' = [check EXCEPT ![r] = k]
    BY <1>7 DEF ReadPrior
  <2>2. /\ k.prior = row /\ k.toPost = toPost
        /\ k.over = check[r].over /\ k.at = check[r].at
        /\ k.found = check[r].found
    BY <1>0 DEF Checks
  <2> HIDE DEF k
  <2>3. Unwritten(k) = {}
    BY <2>2 DEF Unwritten, ShouldNotify
  <2>4. Unwritten(check[r]) = {}
    BY <1>2, <1>7 DEF ReadPrior
  <2>5. QED
    BY <1>7, <2>1, <2>3, <2>4, ReceiverKept DEF ReadPrior
<1>8. ASSUME NEW r \in Replicas, NEW c \in Conditions, Post(r, c)
      PROVE  ReceiverKnows'
  BY <1>8, ReceiverPosted
<1>9. ASSUME NEW r \in Replicas, Write(r) PROVE ReceiverKnows'
  BY <1>9, ReceiverWritten
<1>10. QED
  BY <1>1, <1>4, <1>5, <1>6, <1>7, <1>8, <1>9
  DEF Next, vars, Tick, Flip, ToggleMonitored

\* Between checks the receiver of the webhooks and alert_state agree on every
\* condition, unless a webhook was lost or a check died after it had posted.
THEOREM ReceiverInSync == ASSUME MaxCheck <= Lease PROVE Spec => []AnnouncedInSync
<1>1. Init => PriorIsRow /\ ReceiverKnows
  <2>1. NoCheck.pc = "idle" /\ NoRow.health = "none"
    BY DEF NoCheck, NoRow
  <2>2. Init => \A r \in Replicas : check[r].pc = "idle"
    BY <2>1 DEF Init
  <2>3. Init => \A c \in Conditions :
                    row[c].health = "none" /\ inbox[c] = "none"
    BY <2>1 DEF Init
  <2>4. QED
    BY <2>2, <2>3 DEF PriorIsRow, ReceiverKnows, Unwritten
<1>2. TypeOK /\ OneCheck /\ PriorIsRow /\ [Next]_vars => PriorIsRow'
  BY PriorInductive
<1>3. TypeOK /\ OneCheck /\ PriorIsRow /\ ReceiverKnows /\ [Next]_vars
        => ReceiverKnows'
  BY ReceiverInductive
<1>4. ReceiverKnows => AnnouncedInSync
  BY DEF ReceiverKnows, AnnouncedInSync, Settled, Unwritten, Idle, Running
<1>5. Spec => []OneCheck
  BY ChecksExclude
<1>6. QED
  BY <1>1, <1>2, <1>3, <1>4, <1>5, TypeCorrect, PTL DEF Spec
=============================================================================
