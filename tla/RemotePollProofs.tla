-------------------------- MODULE RemotePollProofs --------------------------
(***************************************************************************)
(* Three results about RemotePoll, for any number of replicas, sources and *)
(* calls, with crashes and deletions.  Its refinement of the lease table   *)
(* JobLock, and from it the mutual exclusion of the pollers of a source,   *)
(* as long as no poll outlives the lease it was claimed with.  That the    *)
(* watermark never passes a call that was not ingested (NothingMissed).    *)
(* That a stored version is never replaced by an older one                 *)
(* (OlderNeverStored).                                                     *)
(***************************************************************************)
EXTENDS RemotePoll, FiniteSetTheorems, TLAPS

\* The idle poll is well typed.
LEMMA NoPollType == NoPoll \in Polls
BY PagesAssumption, MaxTimeAssumption
DEF NoPoll, Polls, Phases, Times, Statuses, Success, Failure

\* A poll that goes on to recordPollResult is well typed.
LEMMA FinishedType ==
  ASSUME NEW p \in Polls, NEW status \in Statuses
  PROVE  Finished(p, status) \in Polls
BY DEF Finished, Polls, Phases

\* So is one that has stored a page: the page number stays within MaxPages.
LEMMA AfterPageType == ASSUME NEW p \in Polls PROVE AfterPage(p) \in Polls
<1>1. CASE p.last
  BY <1>1, FinishedType DEF AfterPage, Statuses, Success
<1>2. CASE ~p.last /\ p.page = MaxPages
  BY <1>2, FinishedType DEF AfterPage, Statuses, Failure
<1>3. CASE ~p.last /\ p.page # MaxPages
  <2>1. p.page + 1 \in 1..MaxPages
    BY <1>3, PagesAssumption DEF Polls
  <2>2. QED
    BY <1>3, <2>1 DEF AfterPage, Polls, Phases
<1>4. QED
  BY <1>1, <1>2, <1>3

\* The upsert keeps call_records well typed.
LEMMA UpsertedType ==
  ASSUME NEW table \in [Calls -> Versions], NEW batch \in SUBSET (Calls \X Times)
  PROVE  Upserted(table, batch) \in [Calls -> Versions]
<1>1. ASSUME NEW c \in Calls, \E x \in batch : x[1] = c
      PROVE  (CHOOSE x \in batch : x[1] = c)[2] \in Versions
  BY <1>1 DEF Versions
<1>2. QED
  BY <1>1 DEF Upserted

\* A step that replaces one poll by a well-typed one.
LEMMA StepType ==
  ASSUME TypeOK, NEW r \in Replicas, NEW s \in Sources, NEW p \in Polls,
         Step(r, s, p)
  PROVE  poll' \in [Replicas -> [Sources -> Polls]]
BY DEF TypeOK, Step

\* Every variable keeps its type.
LEMMA TypeInductive == TypeOK /\ [Next]_vars => TypeOK'
<1> SUFFICES ASSUME TypeOK, [Next]_vars PROVE TypeOK'
  OBVIOUS
<1>0. \A r \in Replicas, s \in Sources : poll[r][s] \in Polls
  BY DEF TypeOK
<1>1. CASE Tick
  BY <1>1, MaxTimeAssumption DEF TypeOK, Tick, Times
<1>2. ASSUME NEW c \in Calls, RemoteWrite(c) PROVE TypeOK'
  BY <1>2 DEF TypeOK, RemoteWrite, Versions
<1>3. ASSUME NEW s \in Sources, DeleteSource(s) PROVE TypeOK'
  <2>1. /\ exists' \in [Sources -> BOOLEAN]
        /\ rejects' \subseteq Calls \X Times
        /\ watermark' \in [Sources -> Times \cup {Unset}]
    BY <1>3 DEF TypeOK, DeleteSource
  <2>2. pollStatus' \in [Sources -> Statuses]
    BY <1>3 DEF TypeOK, DeleteSource, Statuses
  <2>3. QED
    BY <1>3, <2>1, <2>2 DEF TypeOK, DeleteSource
<1>4. ASSUME NEW r \in Replicas, Crash(r) PROVE TypeOK'
  BY <1>4, NoPollType DEF TypeOK, Crash
<1> DEFINE Moved == poll' \in [Replicas -> [Sources -> Polls]]
<1>5. ASSUME NEW r \in Replicas, NEW s \in Sources, Request(r, s) PROVE TypeOK'
  <2>1. [NoPoll EXCEPT !.pc = "claim"] \in Polls
    BY NoPollType DEF Polls, Phases
  <2>2. QED
    BY <1>5, <2>1, StepType DEF TypeOK, Request
<1>6. ASSUME NEW r \in Replicas, NEW s \in Sources, ClaimGranted(r, s)
      PROVE TypeOK'
  <2>0. now \in Times
    BY DEF TypeOK
  <2>1. [poll[r][s] EXCEPT !.pc = "load", !.start = now] \in Polls
    BY <1>0, <2>0 DEF Polls, Phases
  <2>2. now + Lease \in Int
    BY LeaseAssumption DEF TypeOK, Times
  <2>3. Moved
    BY <1>6, <2>1, StepType DEF ClaimGranted
  <2>4. lockedUntil' \in [Sources -> Int]
    BY <1>6, <2>2 DEF TypeOK, ClaimGranted
  <2>5. QED
    BY <1>6, <2>3, <2>4 DEF TypeOK, ClaimGranted
<1>7. ASSUME NEW r \in Replicas, NEW s \in Sources, ClaimRefused(r, s)
      PROVE TypeOK'
  <2>1. [poll[r][s] EXCEPT !.pc = "done", !.status = "skipped_locked"] \in Polls
    BY <1>0 DEF Polls, Phases, Statuses
  <2>2. Moved
    BY <1>7, <2>1, StepType DEF ClaimRefused
  <2>3. QED
    BY <1>7, <2>2 DEF TypeOK, ClaimRefused
<1>8. ASSUME NEW r \in Replicas, NEW s \in Sources, Load(r, s) PROVE TypeOK'
  <2> DEFINE start == IF watermark[s] = Unset THEN BackfillFrom ELSE watermark[s]
             next == IF ~exists[s] THEN Finished(poll[r][s], "fetch_error")
                     ELSE [poll[r][s] EXCEPT !.pc = "fetch", !.from = start]
  <2>1. start \in Times
    BY MaxTimeAssumption DEF TypeOK, BackfillFrom, Unset, Times
  <2>2. Finished(poll[r][s], "fetch_error") \in Polls
    BY <1>0, FinishedType DEF Statuses, Failure
  <2> HIDE DEF start
  <2>3. next \in Polls
    BY <1>0, <2>1, <2>2 DEF Polls, Phases
  <2>4. Step(r, s, next)
    BY <1>8 DEF Load, start
  <2> HIDE DEF next
  <2>5. Moved
    BY <2>3, <2>4, StepType
  <2>6. QED
    BY <1>8, <2>5 DEF TypeOK, Load
<1>9. ASSUME NEW r \in Replicas, NEW s \in Sources, Fetch(r, s) PROVE TypeOK'
  <2> DEFINE p == poll[r][s]
             W == Window(s, p.from, p.start)
             served == {c \in W : OnPage(W, c, p.page)}
             batch == {<<c, remote[c]>> : c \in served}
             last == IsLastPage(W, p.page)
             next == [p EXCEPT !.pc = IF served \cap BadCalls = {} THEN "store"
                                                                 ELSE "reject",
                               !.batch = batch, !.last = last]
  <2>1. p \in Polls
    BY <1>0
  <2>2. \A c \in W : c \in Calls /\ remote[c] \in Times
    BY <2>1 DEF TypeOK, Window, Polls, Times, Versions, Absent
  <2>3. batch \subseteq Calls \X Times
    BY <2>2
  <2>4. last \in BOOLEAN
    BY DEF IsLastPage
  <2>5. Step(r, s, next)
    BY <1>9 DEF Fetch
  <2> HIDE DEF batch, last, served
  <2>6. next \in Polls
    BY <2>1, <2>3, <2>4 DEF Polls, Phases
  <2> HIDE DEF next
  <2>7. Moved
    BY <2>5, <2>6, StepType
  <2>8. QED
    BY <1>9, <2>7 DEF TypeOK, Fetch
<1>10. ASSUME NEW r \in Replicas, NEW s \in Sources, BodyFails(r, s)
       PROVE TypeOK'
  <2>1. \A status \in Failure : Finished(poll[r][s], status) \in Polls
    BY <1>0, FinishedType DEF Statuses
  <2>2. Moved
    BY <1>10, <2>1, StepType DEF BodyFails
  <2>3. QED
    BY <1>10, <2>2 DEF TypeOK, BodyFails
<1>11. ASSUME NEW r \in Replicas, NEW s \in Sources, LogRejects(r, s)
       PROVE TypeOK'
  <2>1. Finished(poll[r][s], "fetch_error") \in Polls
    BY <1>0, FinishedType DEF Statuses, Failure
  <2>2. poll[r][s].batch \subseteq Calls \X Times
    BY <1>0 DEF Polls
  <2>3. [poll[r][s] EXCEPT !.pc = "store", !.bad = TRUE,
           !.batch = poll[r][s].batch \ BadPairs(poll[r][s].batch)] \in Polls
    BY <1>0, <2>2 DEF Polls, Phases
  <2>4. Moved
    BY <1>11, <2>1, <2>3, StepType DEF LogRejects
  <2>5. rejects' \subseteq Calls \X Times
    BY <1>11, <2>2 DEF TypeOK, LogRejects, BadPairs
  <2>6. QED
    BY <1>11, <2>4, <2>5 DEF TypeOK, LogRejects
<1>12. ASSUME NEW r \in Replicas, NEW s \in Sources, Store(r, s) PROVE TypeOK'
  <2>1. Moved
    BY <1>0, <1>12, AfterPageType, StepType DEF Store
  <2>2. poll[r][s].batch \in SUBSET (Calls \X Times)
    BY <1>0 DEF Polls
  <2>3. cdr' \in [Calls -> Versions]
    BY <1>12, <2>2, UpsertedType DEF TypeOK, Store
  <2>4. QED
    BY <1>12, <2>1, <2>3 DEF TypeOK, Store
<1>13. ASSUME NEW r \in Replicas, NEW s \in Sources, ClaimFails(r, s)
       PROVE TypeOK'
  <2>1. [poll[r][s] EXCEPT !.pc = "done"] \in Polls
    BY <1>0 DEF Polls, Phases
  <2>2. Moved
    BY <1>13, <2>1, StepType DEF ClaimFails
  <2>3. QED
    BY <1>13, <2>2 DEF TypeOK, ClaimFails
<1>14. ASSUME NEW r \in Replicas, NEW s \in Sources, Record(r, s) PROVE TypeOK'
  <2>1. [poll[r][s] EXCEPT !.pc = "done"] \in Polls
    BY <1>0 DEF Polls, Phases
  <2>2. Moved
    BY <1>14, <2>1, StepType DEF Record
  <2>3. poll[r][s].status \in Statuses /\ poll[r][s].start \in Times
    BY <1>0 DEF Polls
  <2>4. /\ pollStatus' \in [Sources -> Statuses]
        /\ watermark' \in [Sources -> Times \cup {Unset}]
    BY <1>14, <2>3 DEF TypeOK, Record
  <2>5. QED
    BY <1>14, <2>2, <2>4 DEF TypeOK, Record
<1>15. ASSUME NEW r \in Replicas, NEW s \in Sources, Reply(r, s) PROVE TypeOK'
  BY <1>15, NoPollType, StepType DEF TypeOK, Reply
<1>16. ASSUME NEW r \in Replicas, NEW s \in Sources, RecordFails(r, s)
       PROVE TypeOK'
  <2>1. [poll[r][s] EXCEPT !.pc = "done"] \in Polls
    BY <1>0 DEF Polls, Phases
  <2>2. Finished(poll[r][s], "fetch_error") \in Polls
    BY <1>0, FinishedType DEF Statuses, Failure
  <2>3. Moved
    BY <1>16, <2>1, <2>2, StepType DEF RecordFails
  <2>4. QED
    BY <1>16, <2>3 DEF TypeOK, RecordFails
<1>17. CASE UNCHANGED vars
  BY <1>17 DEF TypeOK, vars
<1>18. QED
  BY <1>1, <1>2, <1>3, <1>4, <1>5, <1>6, <1>7, <1>8, <1>9, <1>10, <1>11,
     <1>12, <1>13, <1>14, <1>15, <1>16, <1>17 DEF Next, Progress

\* Initially every variable has its type.
LEMMA TypeInitial == Init => TypeOK
<1> SUFFICES ASSUME Init PROVE TypeOK
  OBVIOUS
<1>1. now \in Times /\ lockedUntil \in [Sources -> Int]
  BY MaxTimeAssumption DEF Init, Times, Unset
<1>2. /\ remote \in [Calls -> Versions] /\ cdr \in [Calls -> Versions]
      /\ rejects \subseteq Calls \X Times
  BY DEF Init, Versions
<1>3. /\ exists \in [Sources -> BOOLEAN]
      /\ watermark \in [Sources -> Times \cup {Unset}]
      /\ pollStatus \in [Sources -> Statuses]
  BY DEF Init, Statuses
<1>4. poll \in [Replicas -> [Sources -> Polls]]
  BY NoPollType DEF Init
<1>5. QED
  BY <1>1, <1>2, <1>3, <1>4 DEF TypeOK

\* The type invariant of the pollers, for every value of the constants.
THEOREM TypeCorrect == Spec => []TypeOK
BY TypeInitial, TypeInductive, PTL DEF Spec

-----------------------------------------------------------------------------
(* The pollers implement the lease table of JobLock.                       *)

\* What a step of one poll means for the executions of the lease table.
LEMMA HeldStep ==
  ASSUME TypeOK, NEW r \in Replicas, NEW s \in Sources, NEW p, Step(r, s, p)
  PROVE  Held' = [Held EXCEPT ![r][s] = HeldSince(p)]
<1>1. \A q \in Replicas, t \in Sources :
        poll'[q][t] = IF q = r /\ t = s THEN p ELSE poll[q][t]
  BY DEF TypeOK, Step
<1> DEFINE next == [q \in Replicas |-> [t \in Sources |->
                      IF q = r /\ t = s THEN HeldSince(p)
                                        ELSE HeldSince(poll[q][t])]]
<1>2. ASSUME NEW q \in Replicas, NEW t \in Sources
      PROVE  HeldSince(poll'[q][t]) = next[q][t]
  BY <1>1, <1>2
<1>3. Held' = next
  BY <1>2 DEF Held
<1>4. [Held EXCEPT ![r][s] = HeldSince(p)] = next
  BY DEF Held
<1>5. QED
  BY <1>3, <1>4

\* A step that neither begins nor ends an execution leaves them all as they are.
LEMMA HeldKept ==
  ASSUME TypeOK, NEW r \in Replicas, NEW s \in Sources, NEW p, Step(r, s, p),
         HeldSince(p) = HeldSince(poll[r][s])
  PROVE  Held' = Held
<1>1. \A q \in Replicas, t \in Sources :
        HeldSince(poll'[q][t]) = HeldSince(poll[q][t])
  BY DEF TypeOK, Step
<1>2. QED
  BY <1>1 DEF Held

\* The initial states are those of the lease table.
LEMMA TableInitial == Init => Table!Init
BY DEF Init, Table!Init, Table!Never, Table!NotRunning, Unset, Held, HeldSince,
       NoPoll, Body

\* Claims, results and crashes are steps of the lease table, all others are none.
LEMMA TableStep == TypeOK /\ [Next]_vars => [Table!Next]_(Table!vars)
<1> SUFFICES ASSUME TypeOK, [Next]_vars PROVE Table!Next \/ UNCHANGED Table!vars
  OBVIOUS
<1>0. \A r \in Replicas, s \in Sources : poll[r][s] \in Polls
  BY DEF TypeOK
<1> DEFINE Same == UNCHANGED <<now, lockedUntil>> /\ Held' = Held
<1>a. Same => UNCHANGED Table!vars
  BY DEF Table!vars
<1>1. CASE Tick
  <2>1. ASSUME NEW r \in Replicas, NEW s \in Sources, Table!Running(r, s)
        PROVE  now < Held[r][s] + [t \in Sources |-> MaxPoll][s]
    BY <1>1, <2>1
    DEF Tick, Table!Running, Table!NotRunning, Held, HeldSince, Polling
  <2>2. Table!Tick
    BY <1>1, <2>1 DEF Tick, Table!Tick, Held
  <2>3. QED
    BY <2>2 DEF Table!Next
<1>2. ASSUME NEW c \in Calls, RemoteWrite(c) PROVE Same
  BY <1>2 DEF RemoteWrite, Held
<1>3. ASSUME NEW s \in Sources, DeleteSource(s) PROVE Same
  BY <1>3 DEF DeleteSource, Held
<1>4. ASSUME NEW r \in Replicas, Crash(r) PROVE Table!Next
  <2>1. Held' = [q \in Replicas |-> IF q \in {r} THEN [s \in Sources |-> -1]
                                               ELSE Held[q]]
    BY <1>4 DEF TypeOK, Crash, Held, HeldSince, NoPoll, Body
  <2>2. Table!Crash({r})
    BY <1>4, <2>1 DEF Crash, Table!Crash, Table!NotRunning
  <2>3. QED
    BY <2>2 DEF Table!Next
<1>5. ASSUME NEW r \in Replicas, NEW s \in Sources, Request(r, s) PROVE Same
  BY <1>5, HeldKept DEF Request, At, NoPoll, HeldSince, Body
<1>6. ASSUME NEW r \in Replicas, NEW s \in Sources, ClaimGranted(r, s)
      PROVE  Table!Next
  <2> DEFINE p == [poll[r][s] EXCEPT !.pc = "load", !.start = now]
  <2>1. HeldSince(p) = now
    BY <1>0 DEF HeldSince, Body, Polls
  <2>2. Held' = [Held EXCEPT ![r][s] = now]
    <3>1. Step(r, s, p)
      BY <1>6 DEF ClaimGranted
    <3> HIDE DEF p
    <3>2. QED
      BY <2>1, <3>1, HeldStep
  <2>3. Held[r][s] = -1
    BY <1>6 DEF ClaimGranted, At, Held, HeldSince, Body
  <2>4. lockedUntil' = [lockedUntil EXCEPT ![s] =
                          now + [t \in Sources |-> Lease][s]]
    BY <1>6 DEF ClaimGranted
  <2>5. Table!Claim(r, s)
    BY <1>6, <2>2, <2>3, <2>4
    DEF ClaimGranted, Table!Claim, Table!Running, Table!NotRunning, Table!Expired
  <2>6. QED
    BY <2>5 DEF Table!Next
<1>7. ASSUME NEW r \in Replicas, NEW s \in Sources, ClaimRefused(r, s) PROVE Same
  BY <1>0, <1>7, HeldKept DEF ClaimRefused, At, HeldSince, Body, Polls
<1>b. ASSUME NEW r \in Replicas, NEW s \in Sources, poll[r][s].pc \in Body,
             NEW status
      PROVE  HeldSince(Finished(poll[r][s], status)) = HeldSince(poll[r][s])
  BY <1>0, <1>b DEF HeldSince, Finished, Body, Polls
<1>8. ASSUME NEW r \in Replicas, NEW s \in Sources, Load(r, s) PROVE Same
  <2> DEFINE p(t) == [poll[r][s] EXCEPT !.pc = "fetch", !.from = t]
  <2>1. \A t : HeldSince(p(t)) = HeldSince(poll[r][s])
    BY <1>0, <1>8 DEF Load, At, HeldSince, Body, Polls
  <2>2. HeldSince(Finished(poll[r][s], "fetch_error")) = HeldSince(poll[r][s])
    BY <1>8, <1>b DEF Load, At, Body
  <2>3. CASE ~exists[s]
    <3>1. Step(r, s, Finished(poll[r][s], "fetch_error"))
      BY <1>8, <2>3 DEF Load
    <3>2. QED
      BY <1>8, <2>2, <3>1, HeldKept DEF Load
  <2>4. CASE exists[s]
    <3>1. PICK t : Step(r, s, p(t))
      BY <1>8, <2>4 DEF Load
    <3> HIDE DEF p
    <3>2. QED
      BY <1>8, <2>1, <3>1, HeldKept DEF Load
  <2>5. QED
    BY <2>3, <2>4
<1>9. ASSUME NEW r \in Replicas, NEW s \in Sources, Fetch(r, s) PROVE Same
  <2> DEFINE W == Window(s, poll[r][s].from, poll[r][s].start)
             served == {c \in W : OnPage(W, c, poll[r][s].page)}
             pc == IF served \cap BadCalls = {} THEN "store" ELSE "reject"
             batch == {<<c, remote[c]>> : c \in served}
             last == IsLastPage(W, poll[r][s].page)
  <2>1. Step(r, s, [poll[r][s] EXCEPT !.pc = pc, !.batch = batch, !.last = last])
    BY <1>9 DEF Fetch
  <2>2. pc \in {"store", "reject"}
    OBVIOUS
  <2> HIDE DEF pc, batch, last
  <2>3. HeldSince([poll[r][s] EXCEPT !.pc = pc, !.batch = batch, !.last = last])
          = HeldSince(poll[r][s])
    BY <1>0, <1>9, <2>2 DEF Fetch, At, HeldSince, Body, Polls
  <2>4. QED
    BY <1>9, <2>1, <2>3, HeldKept DEF Fetch
<1>10. ASSUME NEW r \in Replicas, NEW s \in Sources, BodyFails(r, s) PROVE Same
  <2>1. PICK status : Step(r, s, Finished(poll[r][s], status))
    BY <1>10 DEF BodyFails
  <2>2. QED
    BY <1>10, <1>b, <2>1, HeldKept DEF BodyFails, Body
<1>11. ASSUME NEW r \in Replicas, NEW s \in Sources, LogRejects(r, s) PROVE Same
  <2> DEFINE p(b) == [poll[r][s] EXCEPT !.pc = "store", !.bad = TRUE, !.batch = b]
  <2>1. \A b : HeldSince(p(b)) = HeldSince(poll[r][s])
    BY <1>0, <1>11 DEF LogRejects, At, HeldSince, Body, Polls
  <2>2. HeldSince(Finished(poll[r][s], "fetch_error")) = HeldSince(poll[r][s])
    BY <1>11, <1>b DEF LogRejects, At, Body
  <2>3. CASE ~exists[s]
    <3>1. Step(r, s, Finished(poll[r][s], "fetch_error"))
      BY <1>11, <2>3 DEF LogRejects
    <3>2. QED
      BY <1>11, <2>2, <3>1, HeldKept DEF LogRejects
  <2>4. CASE exists[s]
    <3>1. PICK b : Step(r, s, p(b))
      BY <1>11, <2>4 DEF LogRejects
    <3> HIDE DEF p
    <3>2. QED
      BY <1>11, <2>1, <3>1, HeldKept DEF LogRejects
  <2>5. QED
    BY <2>3, <2>4
<1>12. ASSUME NEW r \in Replicas, NEW s \in Sources, Store(r, s) PROVE Same
  <2>1. HeldSince(AfterPage(poll[r][s])) = HeldSince(poll[r][s])
    BY <1>0, <1>12 DEF Store, At, AfterPage, Finished, HeldSince, Body, Polls
  <2>2. QED
    BY <1>12, <2>1, HeldKept DEF Store
<1>13. ASSUME NEW r \in Replicas, NEW s \in Sources, ClaimFails(r, s) PROVE Same
  BY <1>0, <1>13, HeldKept DEF ClaimFails, At, HeldSince, Body, Polls
<1>c. ASSUME NEW r \in Replicas, NEW s \in Sources, At(r, s, "record"),
             Step(r, s, [poll[r][s] EXCEPT !.pc = "done"]),
             UNCHANGED <<now, lockedUntil>>
      PROVE  Table!Next
  <2> DEFINE p == [poll[r][s] EXCEPT !.pc = "done"]
  <2>1. HeldSince(p) = -1
    BY <1>0 DEF HeldSince, Body, Polls
  <2>2. Held' = [Held EXCEPT ![r][s] = -1]
    <3>1. Step(r, s, p)
      BY <1>c
    <3> HIDE DEF p
    <3>2. QED
      BY <2>1, <3>1, HeldStep
  <2>3. poll[r][s].start # -1 /\ Held[r][s] = poll[r][s].start
    BY <1>0, <1>c DEF At, Held, HeldSince, Body, Polls, Times
  <2>4. Table!Finish(r, s)
    BY <1>c, <2>2, <2>3 DEF Table!Finish, Table!Running, Table!NotRunning
  <2>5. QED
    BY <2>4 DEF Table!Next
<1>14. ASSUME NEW r \in Replicas, NEW s \in Sources, Record(r, s)
       PROVE  Table!Next
  BY <1>c, <1>14 DEF Record
<1>15. ASSUME NEW r \in Replicas, NEW s \in Sources, Reply(r, s) PROVE Same
  BY <1>15, HeldKept DEF Reply, At, NoPoll, HeldSince, Body
<1>16. ASSUME NEW r \in Replicas, NEW s \in Sources, RecordFails(r, s)
       PROVE  Same \/ Table!Next
  <2>1. CASE poll[r][s].status \in Success
    <3>1. Step(r, s, Finished(poll[r][s], "fetch_error"))
      BY <1>16, <2>1 DEF RecordFails
    <3>2. QED
      BY <1>16, <1>b, <3>1, HeldKept DEF RecordFails, At, Body
  <2>2. CASE poll[r][s].status \notin Success
    BY <1>16, <1>c, <2>2 DEF RecordFails
  <2>3. QED
    BY <2>1, <2>2
<1>17. CASE UNCHANGED vars
  BY <1>17, <1>a DEF vars, Held
<1>18. QED
  BY <1>a, <1>1, <1>2, <1>3, <1>4, <1>5, <1>6, <1>7, <1>8, <1>9, <1>10, <1>11,
     <1>12, <1>13, <1>14, <1>15, <1>16, <1>17 DEF Next, Progress

\* Every behaviour of the pollers is a behaviour of the lease table.
THEOREM PollersImplementJobLock == Spec => ImplementsJobLock
<1>1. TypeOK /\ [Next]_vars => [Table!Next]_(Table!vars)
  BY TableStep
<1>2. QED
  BY TableInitial, <1>1, TypeCorrect, PTL
  DEF Spec, ImplementsJobLock, Table!Spec

-----------------------------------------------------------------------------
(* Mutual exclusion of the pollers, from the theorem about the lease table. *)

TableProofs == INSTANCE JobLockProofs WITH
    Workers <- Replicas,
    Jobs <- Sources,
    Lease <- [s \in Sources |-> Lease],
    MaxRun <- [s \in Sources |-> MaxPoll],
    held <- Held

\* As long as no poll outlives the lease, no two replicas poll one source at a
\* time (migration 009), for every number of replicas, sources and calls.
THEOREM PollersExclude ==
  ASSUME MaxPoll <= Lease PROVE Spec => []AtMostOnePoller
<1>1. TableProofs!RunsFitLease
  BY DEF TableProofs!RunsFitLease
<1>2. TableProofs!Spec => []TableProofs!AtMostOnce
  BY <1>1, LeaseAssumption, MaxPollAssumption, MaxTimeAssumption,
     TableProofs!LeaseExcludes
<1>3. ASSUME TypeOK, TableProofs!AtMostOnce PROVE AtMostOnePoller
  <2>1. ASSUME NEW r \in Replicas, NEW s \in Sources, Polling(r, s)
        PROVE  TableProofs!Running(r, s)
    <3>1. poll[r][s] \in Polls
      BY <1>3 DEF TypeOK
    <3>2. poll[r][s].start \in Nat
      BY <3>1, MaxTimeAssumption DEF Polls, Times
    <3>3. Held[r][s] = poll[r][s].start
      BY <2>1 DEF Held, HeldSince, Polling
    <3>4. QED
      BY <3>2, <3>3 DEF TableProofs!Running, TableProofs!NotRunning
  <2>2. QED
    BY <1>3, <2>1 DEF TableProofs!AtMostOnce, AtMostOnePoller
<1>4. TypeOK /\ [Next]_vars => [TableProofs!Next]_(TableProofs!vars)
  BY TableStep
  DEF Table!Next, Table!vars, Table!Tick, Table!Claim, Table!Finish,
      Table!Crash, Table!Running, Table!NotRunning, Table!Expired,
      TableProofs!Next, TableProofs!vars, TableProofs!Tick, TableProofs!Claim,
      TableProofs!Finish, TableProofs!Crash, TableProofs!Running,
      TableProofs!NotRunning, TableProofs!Expired
<1>5. Init => TableProofs!Init
  BY TableInitial
  DEF Table!Init, Table!Never, Table!NotRunning,
      TableProofs!Init, TableProofs!Never, TableProofs!NotRunning
<1>6. QED
  BY <1>2, <1>3, <1>4, <1>5, TypeCorrect, PTL DEF Spec, TableProofs!Spec

\* The remotes never rewrite a call; or every window fits one page and no poll
\* outlives its lease.  In between lies MCRemotePollPaging, where a call that
\* moves from a page not yet read to one already read is lost.
PagesHold ==
    \/ Mutable = {}
    \/ MaxPoll <= Lease /\ Cardinality(Calls) <= PageSize

\* Window and Rank of the listing when `times` are the order_times.
ListedIn(times, s, from, to) ==
    {c \in Calls : Origin[c] = s /\ from <= times[c] /\ times[c] < to}

RankIn(times, W, c) ==
    Cardinality({d \in W : \/ times[d] < times[c]
                           \/ times[d] = times[c] /\ d <= c})

\* Every version of a call of s with an order_time in [from, to) is ingested.
Covered(s, from, to) == \A c \in ListedIn(remote, s, from, to) : Ingested(c)

WindowOf(r, s) == ListedIn(remote, s, poll[r][s].from, poll[r][s].start)

\* The calls of the window on pages 1..n.
UpToPage(r, s, n) ==
    {c \in WindowOf(r, s) : RankIn(remote, WindowOf(r, s), c) <= n * PageSize}

\* What has been ingested at each point of a poll of s in r, and what the
\* watermark cannot have overtaken meanwhile.
FreshPoll(r, s) ==
    poll[r][s].pc \in {"claim", "load"} => poll[r][s].page = 1 /\ poll[r][s].from = 0

PollTimes(r, s) ==
    Polling(r, s) =>
        /\ poll[r][s].start <= now /\ poll[r][s].from <= now
        /\ Mutable # {} => /\ watermark[s] <= poll[r][s].start
                           /\ poll[r][s].from <= poll[r][s].start

EarlierCovered(r, s) ==
    poll[r][s].pc \in {"fetch", "reject", "store"} =>
        Covered(s, BackfillFrom, poll[r][s].from)

PagesCovered(r, s) ==
    At(r, s, "fetch") =>
        \A c \in UpToPage(r, s, poll[r][s].page - 1) : Ingested(c)

BatchCovers(r, s) ==
    poll[r][s].pc \in {"reject", "store"} =>
        /\ \A c \in UpToPage(r, s, poll[r][s].page) :
              Ingested(c) \/ <<c, remote[c]>> \in poll[r][s].batch
        /\ poll[r][s].last => Cardinality(WindowOf(r, s)) <= poll[r][s].page * PageSize

\* A record of the batch is the version served, unless it was rewritten since
\* the poll began.
BatchServed(r, s) ==
    poll[r][s].pc \in {"reject", "store"} =>
        \A x \in poll[r][s].batch :
            /\ Origin[x[1]] = s
            /\ \/ x[2] = remote[x[1]]
               \/ Mutable # {} /\ poll[r][s].start <= remote[x[1]]
            /\ At(r, s, "store") => x[1] \notin BadCalls

ResultCovered(r, s) ==
    At(r, s, "record") /\ poll[r][s].status \in Success =>
        Covered(s, BackfillFrom, poll[r][s].start)

PollsSane ==
    /\ \A s \in Sources : watermark[s] <= now
    /\ \A r \in Replicas, s \in Sources :
          FreshPoll(r, s) /\ PollTimes(r, s) /\ BatchServed(r, s)

PollCovers(r, s) ==
    /\ EarlierCovered(r, s) /\ PagesCovered(r, s)
    /\ BatchCovers(r, s) /\ ResultCovered(r, s)

GapInv ==
    \A s \in Sources : exists[s] =>
        /\ Covered(s, BackfillFrom, watermark[s])
        /\ \A r \in Replicas : PollCovers(r, s)

\* A call of a window has a rank between 1 and the size of the window.
LEMMA RankBounds ==
  ASSUME NEW times, NEW W, IsFiniteSet(W), NEW c \in W, c \in Nat, times[c] \in Int
  PROVE  /\ RankIn(times, W, c) \in Nat \ {0}
         /\ RankIn(times, W, c) <= Cardinality(W)
         /\ Cardinality(W) \in Nat
<1> DEFINE upTo == {d \in W : \/ times[d] < times[c]
                              \/ times[d] = times[c] /\ d <= c}
<1>1. upTo \subseteq W /\ c \in upTo
  OBVIOUS
<1>2. /\ IsFiniteSet(upTo) /\ Cardinality(upTo) <= Cardinality(W)
      /\ Cardinality(upTo) \in Nat /\ Cardinality(W) \in Nat
  BY <1>1, FS_Subset, FS_CardinalityType
<1>3. Cardinality(upTo) # 0
  BY <1>1, <1>2, FS_EmptySet
<1>4. RankIn(times, W, c) = Cardinality(upTo)
  BY DEF RankIn
<1> HIDE DEF upTo
<1>5. QED
  BY <1>2, <1>3, <1>4

\* The windows of this proof are those of the model.
LEMMA ListedIsWindow ==
  /\ \A s, from, to : ListedIn(remote, s, from, to) = Window(s, from, to)
  /\ \A W, c : RankIn(remote, W, c) = Rank(W, c)
BY DEF ListedIn, Window, RankIn, Rank

\* A step of one poll leaves every other poll alone.
LEMMA OnlyMoved ==
  ASSUME TypeOK, NEW r \in Replicas, NEW s \in Sources, NEW p, Step(r, s, p)
  PROVE  \A q \in Replicas, t \in Sources :
           poll'[q][t] = IF q = r /\ t = s THEN p ELSE poll[q][t]
BY DEF TypeOK, Step

\* A poll that does not move keeps what it has covered, if no ingested call of
\* its source is lost.
LEMMA PollKept ==
  ASSUME NEW q, NEW t,
         PollCovers(q, t), poll'[q][t] = poll[q][t], remote' = remote,
         Polling(q, t) => \A c \in Calls : Origin[c] = t /\ Ingested(c) => Ingested(c)'
  PROVE  PollCovers(q, t)'
<1>3. \A a, b : Polling(q, t) /\ Covered(t, a, b)
                  => \A c \in ListedIn(remote, t, a, b) : Ingested(c)'
  BY DEF Covered, ListedIn
<1>4. EarlierCovered(q, t)' /\ ResultCovered(q, t)'
  BY <1>3 DEF PollCovers, EarlierCovered, ResultCovered, Covered, Polling, Body, At
<1>5. WindowOf(q, t)' = WindowOf(q, t)
  BY DEF WindowOf
<1>6. \A n : UpToPage(q, t, n)' = UpToPage(q, t, n)
  BY <1>5 DEF UpToPage
<1>7. \A n : UpToPage(q, t, n) \subseteq {c \in Calls : Origin[c] = t}
  BY DEF UpToPage, WindowOf, ListedIn
<1>8. PagesCovered(q, t)'
  <2>1. SUFFICES ASSUME At(q, t, "fetch"),
                        NEW c \in UpToPage(q, t, poll[q][t].page - 1)
                 PROVE  Ingested(c)'
    BY <1>6 DEF PagesCovered, At, UpToPage, WindowOf
  <2>2. QED
    BY <1>7, <2>1 DEF PollCovers, PagesCovered, At, Polling, Body
<1>9. BatchCovers(q, t)'
  <2>1. SUFFICES ASSUME poll[q][t].pc \in {"reject", "store"}
                 PROVE  /\ \A c \in UpToPage(q, t, poll[q][t].page) :
                             Ingested(c)' \/ <<c, remote[c]>> \in poll[q][t].batch
                        /\ poll[q][t].last =>
                             Cardinality(WindowOf(q, t)) <= poll[q][t].page * PageSize
    BY DEF BatchCovers, UpToPage, WindowOf
  <2>2. QED
    BY <1>7, <2>1 DEF PollCovers, BatchCovers, Polling, Body
<1>10. QED
  BY <1>4, <1>8, <1>9 DEF PollCovers

\* A step of one poll that changes no row keeps what all of them have covered
\* if the poll itself goes on right.
LEMMA StepCovers ==
  ASSUME TypeOK, GapInv, NEW r \in Replicas, NEW s \in Sources, NEW p,
         Step(r, s, p), UNCHANGED <<remote, cdr, rejects, exists, watermark>>,
         exists[s] => PollCovers(r, s)'
  PROVE  GapInv'
<1>1. SUFFICES ASSUME NEW t \in Sources, exists[t]
               PROVE  /\ Covered(t, BackfillFrom, watermark[t])'
                      /\ \A q \in Replicas : PollCovers(q, t)'
  BY DEF GapInv
<1>2. Covered(t, BackfillFrom, watermark[t])' <=> Covered(t, BackfillFrom, watermark[t])
  BY DEF Covered, Ingested
<1>3. ASSUME NEW q \in Replicas, q # r \/ t # s PROVE PollCovers(q, t)'
  <2>1. poll'[q][t] = poll[q][t]
    BY <1>3, OnlyMoved
  <2>2. \A c \in Calls : Ingested(c)' <=> Ingested(c)
    BY DEF Ingested
  <2>3. QED
    BY <1>1, <2>1, <2>2, PollKept DEF GapInv
<1>4. QED
  BY <1>1, <1>2, <1>3 DEF GapInv

\* A poll outside the steps that fetch and store has nothing to cover.
LEMMA NothingToCover ==
  ASSUME NEW r, NEW s,
         poll'[r][s].pc \notin {"fetch", "reject", "store"},
         poll'[r][s].pc = "record" => poll'[r][s].status \notin Success
  PROVE  PollCovers(r, s)'
BY DEF PollCovers, EarlierCovered, PagesCovered, BatchCovers, ResultCovered, At

\* A version the remote writes now belongs to no window and is below no watermark.
LEMMA WriteKeepsGap ==
  ASSUME TypeOK, TypeOK', PollsSane, GapInv, IsFiniteSet(Calls), PagesHold,
         NEW d \in Calls, RemoteWrite(d)
  PROVE  GapInv'
<1>1. /\ remote' = [remote EXCEPT ![d] = now]
      /\ remote[d] = Absent \/ Mutable # {}
      /\ UNCHANGED <<now, cdr, rejects, exists, watermark, poll>>
  BY DEF RemoteWrite
<1>2. now \in Nat /\ \A c \in Calls : c \in Nat /\ remote[c] \in Int /\ remote'[c] \in Int
  BY CallsAssumption, MaxTimeAssumption DEF TypeOK, Times, Versions, Absent
<1>3. \A c \in Calls : c # d => remote'[c] = remote[c] /\ (Ingested(c)' <=> Ingested(c))
  BY <1>1 DEF TypeOK, Ingested
<1>4. remote'[d] = now
  BY <1>1 DEF TypeOK
<1>5. SUFFICES ASSUME NEW s \in Sources, exists[s]
               PROVE  /\ Covered(s, BackfillFrom, watermark[s])'
                      /\ \A r \in Replicas : PollCovers(r, s)'
  BY <1>1 DEF GapInv
<1>6. ASSUME NEW a, NEW b \in Int, b <= now
      PROVE  /\ ListedIn(remote', s, a, b) \subseteq ListedIn(remote, s, a, b) \ {d}
             /\ Covered(s, a, b) => \A c \in ListedIn(remote', s, a, b) : Ingested(c)'
  <2>1. ListedIn(remote', s, a, b) \subseteq ListedIn(remote, s, a, b) \ {d}
    BY <1>2, <1>3, <1>4, <1>6 DEF ListedIn
  <2>2. QED
    BY <1>3, <2>1 DEF Covered, ListedIn
<1>7. Covered(s, BackfillFrom, watermark[s])'
  <2>1. watermark[s] \in Int /\ watermark[s] <= now
    BY MaxTimeAssumption DEF PollsSane, TypeOK, Times, Unset
  <2>2. QED
    BY <1>1, <1>5, <1>6, <2>1 DEF GapInv, Covered
<1>8. ASSUME NEW r \in Replicas PROVE PollCovers(r, s)'
  <2> DEFINE p == poll[r][s]
  <2>0. p \in Polls /\ PollCovers(r, s)
    BY <1>5 DEF TypeOK, GapInv
  <2>1. p.start \in Nat /\ p.from \in Nat /\ p.page \in Nat \ {0}
    BY <2>0, MaxTimeAssumption DEF Polls, Times
  <2>3. Polling(r, s) => p.start <= now /\ p.from <= now
    BY DEF PollsSane, PollTimes
  <2>a. \A b \in Int : b <= now /\ Covered(s, BackfillFrom, b)
           => \A c \in ListedIn(remote', s, BackfillFrom, b) : Ingested(c)'
    BY <1>6
  <2>b. EarlierCovered(r, s)'
    <3>1. p.pc \in {"fetch", "reject", "store"} =>
            \A c \in ListedIn(remote', s, BackfillFrom, p.from) : Ingested(c)'
      BY <2>0, <2>1, <2>3, <2>a DEF PollCovers, EarlierCovered, Polling, Body
    <3>2. QED
      BY <1>1, <3>1 DEF EarlierCovered, Covered
  <2>c. ResultCovered(r, s)'
    <3>1. At(r, s, "record") /\ p.status \in Success =>
            \A c \in ListedIn(remote', s, BackfillFrom, p.start) : Ingested(c)'
      BY <2>0, <2>1, <2>3, <2>a DEF PollCovers, ResultCovered, Polling, Body, At
    <3>2. QED
      BY <1>1, <3>1 DEF ResultCovered, Covered, At
  <2> DEFINE W == WindowOf(r, s)
             V == ListedIn(remote', s, p.from, p.start)
             Upto(n) == {c \in V : RankIn(remote', V, c) <= n * PageSize}
  <2>5. WindowOf(r, s)' = V
    BY <1>1 DEF WindowOf
  <2>6. Polling(r, s) => V \subseteq W \ {d}
    BY <1>6, <2>1, <2>3 DEF WindowOf
  <2>7. W \subseteq Calls /\ V \subseteq Calls
    BY DEF WindowOf, ListedIn
  <2>8. /\ IsFiniteSet(W) /\ IsFiniteSet(V)
        /\ Cardinality(W) \in Nat /\ Cardinality(V) \in Nat
        /\ Cardinality(V) <= Cardinality(Calls) /\ Cardinality(Calls) \in Nat
        /\ Cardinality(W) <= Cardinality(Calls)
    BY <2>7, FS_Subset, FS_CardinalityType
  <2>9. Polling(r, s) => Cardinality(V) <= Cardinality(W)
    BY <2>6, <2>8, FS_Subset
  <2>10. ASSUME Polling(r, s), Mutable = {} PROVE V = W
    <3>1. d \notin W
      BY <1>1, <2>1, <2>10 DEF WindowOf, ListedIn, Absent
    <3>2. W \subseteq V
      BY <1>3, <3>1 DEF WindowOf, ListedIn
    <3>3. QED
      BY <2>6, <2>10, <3>2
  <2>11. ASSUME Polling(r, s), NEW n \in Nat, NEW c \in V,
                RankIn(remote', V, c) <= n * PageSize
         PROVE  c \in W /\ c # d /\ RankIn(remote, W, c) <= n * PageSize
    <3>1. c \in W /\ c # d /\ c \in Calls
      BY <2>6, <2>7, <2>11
    <3>2. CASE Mutable = {}
      <4>1. V = W
        BY <2>10, <2>11, <3>2
      <4>2. d \notin W
        BY <2>6, <2>11, <4>1
      <4>3. \A e \in W : remote'[e] = remote[e]
        BY <1>3, <2>7, <4>2
      <4>4. RankIn(remote', W, c) = RankIn(remote, W, c)
        BY <3>1, <4>3 DEF RankIn
      <4>5. QED
        BY <2>11, <3>1, <4>1, <4>4
    <3>3. CASE Mutable # {}
      <4>1. Cardinality(Calls) <= PageSize /\ PageSize \in Nat
        BY <3>3, PagesAssumption DEF PagesHold
      <4>2. /\ RankIn(remote', V, c) \in Nat \ {0}
            /\ RankIn(remote, W, c) <= Cardinality(W) /\ RankIn(remote, W, c) \in Nat
        BY <1>2, <2>8, <2>11, <3>1, RankBounds
      <4>3. n # 0
        BY <2>11, <4>1, <4>2
      <4>4. PageSize <= n * PageSize
        BY <4>1, <4>3
      <4>5. n * PageSize \in Nat
        BY <4>1
      <4>6. QED
        BY <2>8, <3>1, <4>1, <4>2, <4>4, <4>5
    <3>4. QED
      BY <3>2, <3>3
  <2>12. \A n \in Nat : Polling(r, s) =>
            \A c \in Upto(n) : c \in UpToPage(r, s, n) /\ c # d /\ c \in Calls
    BY <2>7, <2>11 DEF UpToPage
  <2>d. /\ UpToPage(r, s, p.page)' = Upto(p.page)
        /\ UpToPage(r, s, p.page - 1)' = Upto(p.page - 1)
    BY <1>1, <2>5 DEF UpToPage
  <2> HIDE DEF Upto
  <2>13. p.page - 1 \in Nat
    BY <2>1
  <2>14. PagesCovered(r, s)'
    <3>1. SUFFICES ASSUME At(r, s, "fetch"), NEW c \in Upto(p.page - 1)
                   PROVE  Ingested(c)'
      BY <1>1, <2>d DEF PagesCovered, At
    <3>2. c \in UpToPage(r, s, p.page - 1) /\ c # d /\ c \in Calls
      BY <2>12, <2>13, <3>1 DEF At, Polling, Body
    <3>3. QED
      BY <1>3, <2>0, <3>1, <3>2 DEF PollCovers, PagesCovered
  <2>15. BatchCovers(r, s)'
    <3>1. SUFFICES ASSUME p.pc \in {"reject", "store"}
                   PROVE  /\ \A c \in Upto(p.page) :
                                Ingested(c)' \/ <<c, remote'[c]>> \in p.batch
                          /\ p.last => Cardinality(V) <= p.page * PageSize
      BY <1>1, <2>5, <2>d DEF BatchCovers
    <3>2. Polling(r, s)
      BY <3>1 DEF Polling, Body
    <3>3. ASSUME NEW c \in Upto(p.page)
          PROVE  Ingested(c)' \/ <<c, remote'[c]>> \in p.batch
      <4>1. c \in UpToPage(r, s, p.page) /\ c # d /\ c \in Calls
        BY <2>1, <2>12, <3>2, <3>3
      <4>2. QED
        BY <1>3, <2>0, <3>1, <4>1 DEF PollCovers, BatchCovers
    <3>4. p.page * PageSize \in Nat
      BY <2>1, PagesAssumption
    <3>5. p.last => Cardinality(V) <= p.page * PageSize
      BY <2>0, <2>8, <2>9, <3>1, <3>2, <3>4 DEF PollCovers, BatchCovers
    <3>6. QED
      BY <3>3, <3>5
  <2>16. QED
    BY <2>b, <2>c, <2>14, <2>15 DEF PollCovers
<1>9. QED
  BY <1>7, <1>8

\* A step of one poll that changes no row keeps all polls sane if that one is.
LEMMA SaneStep ==
  ASSUME TypeOK, PollsSane, NEW r \in Replicas, NEW s \in Sources, NEW p,
         Step(r, s, p), UNCHANGED <<now, remote, watermark>>,
         FreshPoll(r, s)' /\ PollTimes(r, s)' /\ BatchServed(r, s)'
  PROVE  PollsSane'
<1>1. ASSUME NEW q \in Replicas, NEW t \in Sources, q # r \/ t # s
      PROVE  FreshPoll(q, t)' /\ PollTimes(q, t)' /\ BatchServed(q, t)'
  <2>1. poll'[q][t] = poll[q][t]
    BY <1>1, OnlyMoved
  <2>2. FreshPoll(q, t) /\ PollTimes(q, t) /\ BatchServed(q, t)
    BY DEF PollsSane
  <2>3. QED
    BY <2>1, <2>2 DEF FreshPoll, PollTimes, BatchServed, Polling, At
<1>2. QED
  BY <1>1 DEF PollsSane

\* A poll that is in no step of its body has no times and no batch.
LEMMA IdleSane ==
  ASSUME NEW r, NEW s, poll'[r][s].pc \notin Body,
         poll'[r][s].pc = "claim" => poll'[r][s].page = 1 /\ poll'[r][s].from = 0
  PROVE  FreshPoll(r, s)' /\ PollTimes(r, s)' /\ BatchServed(r, s)'
BY DEF FreshPoll, PollTimes, BatchServed, Polling, Body, At

\* One that goes on in its body, neither reading nor writing a page, keeps its times.
LEMMA BodySane ==
  ASSUME NEW r, NEW s, PollTimes(r, s), Polling(r, s), UNCHANGED <<now, watermark>>,
         poll'[r][s].pc \in {"fetch", "record"},
         poll'[r][s].start = poll[r][s].start, poll'[r][s].from = poll[r][s].from
  PROVE  FreshPoll(r, s)' /\ PollTimes(r, s)' /\ BatchServed(r, s)'
BY DEF FreshPoll, PollTimes, BatchServed, Polling

\* The times of the polls, and what their batches hold, stay right.
LEMMA SaneInductive ==
  ASSUME TypeOK, TypeOK', PollsSane, Mutable # {} => AtMostOnePoller, [Next]_vars
  PROVE  PollsSane'
<1>0. /\ now \in Nat /\ now' \in Nat
      /\ \A r \in Replicas, s \in Sources : poll[r][s] \in Polls
      /\ \A s \in Sources : watermark[s] \in Int
      /\ \A c \in Calls : remote[c] \in Int
  BY MaxTimeAssumption DEF TypeOK, Times, Unset, Versions, Absent
<1>a. \A r \in Replicas, s \in Sources :
         poll[r][s].start \in Nat /\ poll[r][s].from \in Nat
  BY <1>0, MaxTimeAssumption DEF Polls, Times
<1>b. ASSUME UNCHANGED <<remote, watermark, poll>>, now <= now' PROVE PollsSane'
  <2>1. \A s \in Sources : watermark'[s] <= now'
    BY <1>0, <1>b DEF PollsSane
  <2>2. ASSUME NEW r \in Replicas, NEW s \in Sources
        PROVE  FreshPoll(r, s)' /\ PollTimes(r, s)' /\ BatchServed(r, s)'
    <3>1. FreshPoll(r, s) /\ PollTimes(r, s) /\ BatchServed(r, s)
      BY DEF PollsSane
    <3>2. PollTimes(r, s)'
      BY <1>0, <1>a, <1>b, <3>1 DEF PollTimes, Polling
    <3>3. QED
      BY <1>b, <3>1, <3>2 DEF FreshPoll, BatchServed, At
  <2>3. QED
    BY <2>1, <2>2 DEF PollsSane
<1>1. CASE Tick
  BY <1>0, <1>1, <1>b DEF Tick
<1>2. ASSUME NEW d \in Calls, RemoteWrite(d) PROVE PollsSane'
  <2>1. ASSUME NEW r \in Replicas, NEW s \in Sources PROVE BatchServed(r, s)'
    <3>1. SUFFICES ASSUME poll[r][s].pc \in {"reject", "store"},
                          NEW x \in poll[r][s].batch
                   PROVE  /\ Origin[x[1]] = s
                          /\ \/ x[2] = remote'[x[1]]
                             \/ Mutable # {} /\ poll[r][s].start <= remote'[x[1]]
                          /\ At(r, s, "store") => x[1] \notin BadCalls
      BY <1>2 DEF RemoteWrite, BatchServed, At
    <3>2. x[1] \in Calls /\ x[2] \in Nat
      BY <1>0, <3>1, MaxTimeAssumption DEF Polls, Times
    <3>3. /\ Origin[x[1]] = s
          /\ \/ x[2] = remote[x[1]]
             \/ Mutable # {} /\ poll[r][s].start <= remote[x[1]]
          /\ At(r, s, "store") => x[1] \notin BadCalls
      BY <3>1 DEF PollsSane, BatchServed
    <3>4. poll[r][s].start <= now
      BY <3>1 DEF PollsSane, PollTimes, Polling, Body
    <3>5. remote'[d] = now /\ \A c \in Calls : c # d => remote'[c] = remote[c]
      BY <1>2 DEF TypeOK, RemoteWrite
    <3>6. CASE x[1] # d
      BY <3>2, <3>3, <3>5, <3>6
    <3>7. CASE x[1] = d
      BY <1>2, <3>2, <3>3, <3>4, <3>5, <3>7 DEF RemoteWrite, Absent
    <3>8. QED
      BY <3>6, <3>7
  <2>2. QED
    BY <1>2, <2>1 DEF PollsSane, RemoteWrite, FreshPoll, PollTimes, Polling
<1>3. ASSUME NEW d \in Sources, DeleteSource(d) PROVE PollsSane'
  <2>1. \A s \in Sources : watermark'[s] = IF s = d THEN -1 ELSE watermark[s]
    BY <1>3 DEF TypeOK, DeleteSource, Unset
  <2>2. ASSUME NEW r \in Replicas, NEW s \in Sources PROVE PollTimes(r, s)'
    BY <1>0, <1>a, <1>3, <2>1 DEF PollsSane, DeleteSource, PollTimes, Polling
  <2>3. QED
    BY <1>0, <1>3, <2>1, <2>2 DEF PollsSane, DeleteSource, FreshPoll, BatchServed, At
<1>4. ASSUME NEW d \in Replicas, Crash(d) PROVE PollsSane'
  <2>1. ASSUME NEW r \in Replicas, NEW s \in Sources
        PROVE  FreshPoll(r, s)' /\ PollTimes(r, s)' /\ BatchServed(r, s)'
    <3>1. CASE r = d
      <4>1. poll'[r][s] = NoPoll
        BY <1>4, <3>1 DEF TypeOK, Crash
      <4>2. QED
        BY <4>1, IdleSane DEF NoPoll, Body
    <3>2. CASE r # d
      <4>1. poll'[r][s] = poll[r][s]
        BY <1>4, <3>2 DEF TypeOK, Crash
      <4>2. QED
        BY <1>4, <4>1
        DEF PollsSane, Crash, FreshPoll, PollTimes, BatchServed, Polling, At
    <3>3. QED
      BY <3>1, <3>2
  <2>2. QED
    BY <1>4, <2>1 DEF PollsSane, Crash
<1> DEFINE Sane(r, s) == FreshPoll(r, s) /\ PollTimes(r, s) /\ BatchServed(r, s)
<1>c. \A r \in Replicas, s \in Sources : Sane(r, s)
  BY DEF PollsSane
<1>5. ASSUME NEW r \in Replicas, NEW s \in Sources, Request(r, s) PROVE PollsSane'
  <2>1. poll'[r][s] = [NoPoll EXCEPT !.pc = "claim"]
    BY <1>5 DEF TypeOK, Request, Step
  <2>2. Sane(r, s)'
    BY <2>1, IdleSane DEF NoPoll, Body
  <2>3. QED
    BY <1>5, <2>2, SaneStep DEF Request
<1>6. ASSUME NEW r \in Replicas, NEW s \in Sources, ClaimGranted(r, s)
      PROVE  PollsSane'
  <2>1. poll'[r][s] = [poll[r][s] EXCEPT !.pc = "load", !.start = now]
    BY <1>6 DEF TypeOK, ClaimGranted, Step
  <2>2. poll[r][s].page = 1 /\ poll[r][s].from = 0
    BY <1>6, <1>c DEF ClaimGranted, FreshPoll, At
  <2>3. /\ poll'[r][s].pc = "load" /\ poll'[r][s].start = now
        /\ poll'[r][s].page = 1 /\ poll'[r][s].from = 0
    BY <1>0, <2>1, <2>2 DEF Polls
  <2>4. watermark'[s] <= now' /\ now' = now
    BY <1>6 DEF ClaimGranted, PollsSane
  <2>5. Sane(r, s)'
    BY <1>0, <2>3, <2>4 DEF FreshPoll, PollTimes, BatchServed
  <2>6. QED
    BY <1>6, <2>5, SaneStep DEF ClaimGranted
<1>7. ASSUME NEW r \in Replicas, NEW s \in Sources,
             ClaimRefused(r, s) \/ ClaimFails(r, s) \/ Reply(r, s)
      PROVE  PollsSane'
  <2>a. \/ poll'[r][s] = NoPoll
        \/ poll'[r][s] = [poll[r][s] EXCEPT !.pc = "done"]
        \/ poll'[r][s] = [poll[r][s] EXCEPT !.pc = "done", !.status = "skipped_locked"]
    BY <1>7 DEF TypeOK, ClaimRefused, ClaimFails, Reply, Step
  <2>1. poll'[r][s].pc \in {"done", "idle"}
    <3>1. NoPoll.pc = "idle"
      BY DEF NoPoll
    <3>2. /\ [poll[r][s] EXCEPT !.pc = "done"].pc = "done"
          /\ [poll[r][s] EXCEPT !.pc = "done", !.status = "skipped_locked"].pc = "done"
      BY <1>0 DEF Polls
    <3>3. QED
      BY <2>a, <3>1, <3>2
  <2>2. Sane(r, s)'
    BY <2>1, IdleSane DEF Body
  <2>3. QED
    BY <1>7, <2>2, SaneStep DEF ClaimRefused, ClaimFails, Reply
<1>d. ASSUME NEW r \in Replicas, NEW s \in Sources, Polling(r, s),
             NEW status, Step(r, s, Finished(poll[r][s], status)),
             UNCHANGED <<now, remote, watermark>>
      PROVE  PollsSane'
  <2>1. poll'[r][s] = Finished(poll[r][s], status)
    BY <1>d DEF TypeOK, Step
  <2>2. /\ poll'[r][s].pc = "record" /\ poll'[r][s].start = poll[r][s].start
        /\ poll'[r][s].from = poll[r][s].from
    BY <1>0, <2>1 DEF Finished, Polls
  <2>3. Sane(r, s)'
    BY <1>c, <1>d, <2>2, BodySane
  <2>4. QED
    BY <1>d, <2>3, SaneStep
<1>8. ASSUME NEW r \in Replicas, NEW s \in Sources, Load(r, s) PROVE PollsSane'
  <2> DEFINE from == IF watermark[s] = Unset THEN BackfillFrom ELSE watermark[s]
  <2>1. Polling(r, s)
    BY <1>8 DEF Load, At, Polling, Body
  <2>2. CASE ~exists[s]
    <3>1. Step(r, s, Finished(poll[r][s], "fetch_error"))
      BY <1>8, <2>2 DEF Load
    <3>2. QED
      BY <1>8, <1>d, <2>1, <3>1 DEF Load
  <2>3. CASE exists[s]
    <3>1. from \in Nat /\ from <= now /\ (Mutable # {} => from <= poll[r][s].start)
      <4>1. watermark[s] <= now /\ PollTimes(r, s)
        BY DEF PollsSane
      <4>2. watermark[s] = -1 \/ watermark[s] \in Nat
        BY MaxTimeAssumption DEF TypeOK, Times, Unset
      <4>3. QED
        BY <1>0, <1>a, <2>1, <4>1, <4>2 DEF PollTimes, BackfillFrom, Unset
    <3>2. poll'[r][s] = [poll[r][s] EXCEPT !.pc = "fetch", !.from = from]
      BY <1>8, <2>3 DEF TypeOK, Load, Step
    <3> HIDE DEF from
    <3>3. /\ poll'[r][s].pc = "fetch" /\ poll'[r][s].from = from
          /\ poll'[r][s].start = poll[r][s].start
      BY <1>0, <3>2 DEF Polls
    <3>4. Sane(r, s)'
      BY <1>8, <1>c, <2>1, <3>1, <3>3
      DEF Load, FreshPoll, PollTimes, BatchServed, Polling
    <3>5. QED
      BY <1>8, <3>4, SaneStep DEF Load
  <2>4. QED
    BY <2>2, <2>3
<1>9. ASSUME NEW r \in Replicas, NEW s \in Sources, Fetch(r, s) PROVE PollsSane'
  <2> DEFINE W == Window(s, poll[r][s].from, poll[r][s].start)
             served == {c \in W : OnPage(W, c, poll[r][s].page)}
             pc == IF served \cap BadCalls = {} THEN "store" ELSE "reject"
             batch == {<<c, remote[c]>> : c \in served}
             last == IsLastPage(W, poll[r][s].page)
  <2>1. poll'[r][s] = [poll[r][s] EXCEPT !.pc = pc, !.batch = batch, !.last = last]
    BY <1>9 DEF TypeOK, Fetch, Step
  <2>2. \A x \in batch : /\ Origin[x[1]] = s /\ x[2] = remote[x[1]]
                         /\ pc = "store" => x[1] \notin BadCalls
    <3>1. \A c \in served : Origin[c] = s /\ (pc = "store" => c \notin BadCalls)
      BY DEF Window
    <3> HIDE DEF served, pc
    <3>2. QED
      BY <3>1
  <2>3. pc \in {"store", "reject"}
    OBVIOUS
  <2> HIDE DEF pc, batch, last
  <2>4. /\ poll'[r][s].pc = pc /\ poll'[r][s].batch = batch
        /\ poll'[r][s].start = poll[r][s].start /\ poll'[r][s].from = poll[r][s].from
    BY <1>0, <2>1 DEF Polls
  <2>5. FreshPoll(r, s)' /\ PollTimes(r, s)'
    BY <1>9, <1>c, <2>3, <2>4 DEF Fetch, At, FreshPoll, PollTimes, Polling, Body
  <2>6. BatchServed(r, s)'
    BY <1>9, <2>2, <2>4 DEF Fetch, BatchServed, At
  <2>7. QED
    BY <1>9, <2>5, <2>6, SaneStep DEF Fetch
<1>10. ASSUME NEW r \in Replicas, NEW s \in Sources, BodyFails(r, s)
       PROVE  PollsSane'
  BY <1>10, <1>d DEF BodyFails, Polling, Body
<1>11. ASSUME NEW r \in Replicas, NEW s \in Sources, LogRejects(r, s)
       PROVE  PollsSane'
  <2>1. Polling(r, s)
    BY <1>11 DEF LogRejects, At, Polling, Body
  <2>2. CASE ~exists[s]
    <3>1. Step(r, s, Finished(poll[r][s], "fetch_error"))
      BY <1>11, <2>2 DEF LogRejects
    <3>2. QED
      BY <1>11, <1>d, <2>1, <3>1 DEF LogRejects
  <2>3. CASE exists[s]
    <3> DEFINE batch == poll[r][s].batch \ BadPairs(poll[r][s].batch)
    <3>1. poll'[r][s] = [poll[r][s] EXCEPT !.pc = "store", !.bad = TRUE, !.batch = batch]
      BY <1>11, <2>3 DEF TypeOK, LogRejects, Step
    <3>2. /\ batch \subseteq poll[r][s].batch
          /\ \A x \in batch : x[1] \notin BadCalls
      BY DEF BadPairs
    <3> HIDE DEF batch
    <3>3. /\ poll'[r][s].pc = "store" /\ poll'[r][s].batch = batch
          /\ poll'[r][s].start = poll[r][s].start /\ poll'[r][s].from = poll[r][s].from
      BY <1>0, <3>1 DEF Polls
    <3>4. FreshPoll(r, s)' /\ PollTimes(r, s)'
      BY <1>11, <1>c, <2>1, <3>3 DEF LogRejects, FreshPoll, PollTimes, Polling
    <3>5. BatchServed(r, s)'
      BY <1>11, <1>c, <3>2, <3>3 DEF LogRejects, BatchServed, At
    <3>6. QED
      BY <1>11, <3>4, <3>5, SaneStep DEF LogRejects
  <2>4. QED
    BY <2>2, <2>3
<1>12. ASSUME NEW r \in Replicas, NEW s \in Sources, Store(r, s) PROVE PollsSane'
  <2>1. poll'[r][s] = AfterPage(poll[r][s])
    BY <1>12 DEF TypeOK, Store, Step
  <2>2. /\ poll'[r][s].pc \in {"fetch", "record"}
        /\ poll'[r][s].start = poll[r][s].start /\ poll'[r][s].from = poll[r][s].from
    BY <1>0, <2>1 DEF AfterPage, Finished, Polls
  <2>3. Sane(r, s)'
    BY <1>12, <1>c, <2>2, BodySane DEF Store, At, Polling, Body
  <2>4. QED
    BY <1>12, <2>3, SaneStep DEF Store
<1>13. ASSUME NEW r \in Replicas, NEW s \in Sources, Record(r, s) PROVE PollsSane'
  <2>1. /\ poll'[r][s].pc = "done"
        /\ \A q \in Replicas, t \in Sources : q # r \/ t # s => poll'[q][t] = poll[q][t]
    <3>1. poll' = [poll EXCEPT ![r][s] = [poll[r][s] EXCEPT !.pc = "done"]]
      BY <1>13 DEF Record, Step
    <3>2. [poll[r][s] EXCEPT !.pc = "done"].pc = "done"
      BY <1>0 DEF Polls
    <3>3. QED
      BY <3>1, <3>2 DEF TypeOK
  <2>2. Polling(r, s)
    BY <1>13 DEF Record, At, Polling, Body
  <2>3. \A t \in Sources : \/ watermark'[t] = watermark[t]
                           \/ t = s /\ watermark'[t] = poll[r][s].start
    BY <1>13 DEF TypeOK, Record
  <2>4. \A t \in Sources : watermark'[t] <= now' /\ now' = now
    BY <1>13, <1>c, <2>2, <2>3 DEF Record, PollsSane, PollTimes
  <2>5. ASSUME NEW q \in Replicas, NEW t \in Sources PROVE Sane(q, t)'
    <3>1. CASE q = r /\ t = s
      BY <2>1, <3>1, IdleSane DEF Body
    <3>2. CASE q # r \/ t # s
      <4>1. poll'[q][t] = poll[q][t] /\ Sane(q, t)
        BY <1>c, <2>1, <3>2
      <4>2. Mutable # {} /\ Polling(q, t) => watermark'[t] = watermark[t]
        BY <2>2, <2>3, <3>2 DEF AtMostOnePoller
      <4>3. PollTimes(q, t)'
        BY <2>4, <4>1, <4>2 DEF PollTimes, Polling
      <4>4. QED
        BY <1>13, <4>1, <4>3 DEF Record, FreshPoll, BatchServed, At
    <3>3. QED
      BY <3>1, <3>2
  <2>6. QED
    BY <2>4, <2>5 DEF PollsSane
<1>14. ASSUME NEW r \in Replicas, NEW s \in Sources, RecordFails(r, s)
       PROVE  PollsSane'
  <2>1. CASE poll[r][s].status \in Success
    <3>1. Step(r, s, Finished(poll[r][s], "fetch_error"))
      BY <1>14, <2>1 DEF RecordFails
    <3>2. QED
      BY <1>14, <1>d, <3>1 DEF RecordFails, At, Polling, Body
  <2>2. CASE poll[r][s].status \notin Success
    <3>1. poll'[r][s] = [poll[r][s] EXCEPT !.pc = "done"]
      BY <1>14, <2>2 DEF TypeOK, RecordFails, Step
    <3>2. Sane(r, s)'
      BY <1>0, <3>1, IdleSane DEF Polls, Body
    <3>3. QED
      BY <1>14, <3>2, SaneStep DEF RecordFails
  <2>3. QED
    BY <2>1, <2>2
<1>15. CASE UNCHANGED vars
  BY <1>0, <1>15, <1>b DEF vars
<1>16. QED
  BY <1>1, <1>2, <1>3, <1>4, <1>5, <1>6, <1>7, <1>8, <1>9, <1>10, <1>11, <1>12,
     <1>13, <1>14, <1>15 DEF Next, Progress

\* Every version is still ingested after the page of a poll has been stored: a
\* version the upsert may put back is one that poll does not answer for.
LEMMA StoreIngests ==
  ASSUME TypeOK, PollsSane, NEW r \in Replicas, NEW s \in Sources, Store(r, s),
         NEW c \in Calls,
         \/ Ingested(c) /\ (Mutable # {} /\ Origin[c] = s =>
                                remote[c] < poll[r][s].start)
         \/ <<c, remote[c]>> \in poll[r][s].batch /\ remote[c] < poll[r][s].start
  PROVE  Ingested(c)'
<1> DEFINE b == poll[r][s].batch
<1>1. /\ cdr' = Upserted(cdr, b) /\ remote' = remote /\ rejects' = rejects
      /\ poll[r][s].pc = "store"
  BY DEF Store, At
<1>2. /\ poll[r][s] \in Polls /\ remote[c] \in Int
      /\ poll[r][s].start \in Int
  BY MaxTimeAssumption DEF TypeOK, Versions, Absent, Times, Polls
<1>3. \A x \in b : /\ Origin[x[1]] = s /\ x[1] \notin BadCalls
                   /\ \/ x[2] = remote[x[1]]
                      \/ Mutable # {} /\ poll[r][s].start <= remote[x[1]]
  BY <1>1 DEF PollsSane, BatchServed, At
<1> HIDE DEF b
<1>4. cdr'[c] = IF \E x \in b : x[1] = c THEN (CHOOSE x \in b : x[1] = c)[2] ELSE cdr[c]
  BY <1>1 DEF Upserted
<1>5. CASE \E x \in b : x[1] = c
  <2>1. PICK x \in b : x[1] = c /\ cdr'[c] = x[2]
    BY <1>4, <1>5
  <2>2. Origin[c] = s /\ c \notin BadCalls
    BY <1>3, <2>1
  <2>3. x[2] = remote[c]
    BY <1>2, <1>3, <2>1, <2>2 DEF b
  <2>4. QED
    BY <1>1, <2>1, <2>2, <2>3 DEF Ingested
<1>6. CASE ~\E x \in b : x[1] = c
  <2>1. Ingested(c)
    BY <1>6 DEF b
  <2>2. QED
    BY <1>1, <1>4, <1>6, <2>1 DEF Ingested
<1>7. QED
  BY <1>5, <1>6

\* The end of a page: what it covered is covered for the next page, or for the
\* result.
LEMMA StoreKeepsGap ==
  ASSUME TypeOK, PollsSane, GapInv, IsFiniteSet(Calls),
         Mutable # {} => AtMostOnePoller,
         NEW r \in Replicas, NEW s \in Sources, Store(r, s)
  PROVE  GapInv'
<1> DEFINE p == poll[r][s]
           W == WindowOf(r, s)
<1>0. /\ p \in Polls /\ p.pc = "store" /\ Polling(r, s)
      /\ UNCHANGED <<remote, exists, watermark>>
  BY DEF TypeOK, Store, At, Polling, Body
<1>1. /\ p.start \in Nat /\ p.from \in Nat /\ p.page \in Nat \ {0}
      /\ p.page * PageSize \in Nat
      /\ \A c \in Calls : c \in Nat /\ remote[c] \in Int
      /\ \A t \in Sources : watermark[t] \in Int
  BY <1>0, CallsAssumption, MaxTimeAssumption, PagesAssumption
  DEF Polls, TypeOK, Times, Versions, Absent, Unset
<1>2. \A q \in Replicas, t \in Sources :
        poll'[q][t] = IF q = r /\ t = s THEN AfterPage(p) ELSE poll[q][t]
  BY OnlyMoved DEF Store
<1>3. SUFFICES ASSUME NEW t \in Sources, exists[t]
               PROVE  /\ Covered(t, BackfillFrom, watermark[t])'
                      /\ \A q \in Replicas : PollCovers(q, t)'
  BY <1>0 DEF GapInv
<1>4. ASSUME NEW c \in Calls, Ingested(c),
             Mutable # {} /\ Origin[c] = s => remote[c] < p.start
      PROVE  Ingested(c)'
  BY <1>4, StoreIngests
<1>5. ASSUME NEW a, NEW b \in Int, Covered(t, a, b),
             Mutable # {} /\ t = s => b <= p.start
      PROVE  \A c \in ListedIn(remote, t, a, b) : Ingested(c)'
  <2>1. SUFFICES ASSUME NEW c \in ListedIn(remote, t, a, b) PROVE Ingested(c)'
    OBVIOUS
  <2>2. c \in Calls /\ Origin[c] = t /\ remote[c] < b /\ Ingested(c)
    BY <1>5 DEF ListedIn, Covered
  <2>3. Mutable # {} /\ t = s => remote[c] < p.start
    BY <1>1, <1>5, <2>2
  <2>4. QED
    BY <1>4, <2>2, <2>3
<1>6. Covered(t, BackfillFrom, watermark[t])'
  <2>1. Mutable # {} /\ t = s => watermark[t] <= p.start
    BY <1>0 DEF PollsSane, PollTimes
  <2>2. \A c \in ListedIn(remote, t, BackfillFrom, watermark[t]) : Ingested(c)'
    BY <1>1, <1>3, <1>5, <2>1 DEF GapInv
  <2>3. QED
    BY <1>0, <2>2 DEF Covered
<1>7. ASSUME NEW q \in Replicas, q # r \/ t # s PROVE PollCovers(q, t)'
  <2>1. poll'[q][t] = poll[q][t]
    BY <1>2, <1>7
  <2>2. Polling(q, t) /\ Mutable # {} => t # s
    BY <1>0, <1>7 DEF AtMostOnePoller
  <2>3. Polling(q, t) => \A c \in Calls : Origin[c] = t /\ Ingested(c) => Ingested(c)'
    BY <1>4, <2>2
  <2>4. PollCovers(q, t) /\ remote' = remote
    BY <1>0, <1>3 DEF GapInv
  <2>5. QED
    BY <2>1, <2>3, <2>4, PollKept
<1>8. ASSUME t = s PROVE PollCovers(r, s)'
  <2>1. PollCovers(r, s)
    BY <1>3, <1>8 DEF GapInv
  <2>2. Mutable # {} => p.from <= p.start
    BY <1>0 DEF PollsSane, PollTimes
  <2>3. \A c \in ListedIn(remote, s, BackfillFrom, p.from) : Ingested(c)'
    <3>1. Covered(s, BackfillFrom, p.from)
      BY <1>0, <2>1 DEF PollCovers, EarlierCovered
    <3>2. QED
      BY <1>1, <1>5, <1>8, <2>2, <3>1
  <2>4. \A c \in UpToPage(r, s, p.page) : Ingested(c)'
    <3>1. SUFFICES ASSUME NEW c \in UpToPage(r, s, p.page) PROVE Ingested(c)'
      OBVIOUS
    <3>2. c \in Calls /\ remote[c] < p.start
      BY <3>1 DEF UpToPage, WindowOf, ListedIn
    <3>3. Ingested(c) \/ <<c, remote[c]>> \in p.batch
      BY <1>0, <2>1 DEF PollCovers, BatchCovers
    <3>4. QED
      BY <3>2, <3>3, StoreIngests
  <2>5. CASE p.last
    <3>1. /\ poll'[r][s].pc = "record" /\ poll'[r][s].start = p.start
      BY <1>0, <1>2, <1>8, <2>5 DEF AfterPage, Finished, Polls
    <3>2. W \subseteq Calls /\ IsFiniteSet(W)
      BY FS_Subset DEF WindowOf, ListedIn
    <3>3. Cardinality(W) <= p.page * PageSize
      BY <1>0, <2>1, <2>5 DEF PollCovers, BatchCovers
    <3>4. W \subseteq UpToPage(r, s, p.page)
      <4>1. SUFFICES ASSUME NEW c \in W PROVE RankIn(remote, W, c) <= p.page * PageSize
        BY DEF UpToPage
      <4>2. RankIn(remote, W, c) \in Nat /\ RankIn(remote, W, c) <= Cardinality(W)
            /\ Cardinality(W) \in Nat
        BY <1>1, <3>2, RankBounds
      <4>3. QED
        BY <1>1, <3>3, <4>2
    <3>5. \A c \in ListedIn(remote, s, BackfillFrom, p.start) :
             c \in ListedIn(remote, s, BackfillFrom, p.from) \/ c \in W
      BY <1>1 DEF ListedIn, WindowOf
    <3>6. \A c \in ListedIn(remote, s, BackfillFrom, p.start) : Ingested(c)'
      BY <2>3, <2>4, <3>4, <3>5
    <3>7. ResultCovered(r, s)'
      BY <1>0, <3>1, <3>6 DEF ResultCovered, Covered
    <3>8. QED
      BY <3>1, <3>7 DEF PollCovers, EarlierCovered, PagesCovered, BatchCovers, At
  <2>6. CASE ~p.last /\ p.page = MaxPages
    <3>1. poll'[r][s].pc = "record" /\ poll'[r][s].status = "fetch_error"
      BY <1>0, <1>2, <1>8, <2>6 DEF AfterPage, Finished, Polls
    <3>2. QED
      BY <3>1, NothingToCover DEF Success
  <2>7. CASE ~p.last /\ p.page # MaxPages
    <3>1. /\ poll'[r][s].pc = "fetch" /\ poll'[r][s].page - 1 = p.page
          /\ poll'[r][s].start = p.start /\ poll'[r][s].from = p.from
      <4>1. poll'[r][s] = [p EXCEPT !.pc = "fetch", !.page = p.page + 1, !.batch = {}]
        BY <1>2, <1>8, <2>7 DEF AfterPage
      <4>2. (p.page + 1) - 1 = p.page
        BY <1>1
      <4>3. QED
        BY <1>0, <4>1, <4>2 DEF Polls
    <3>2. EarlierCovered(r, s)'
      BY <1>0, <2>3, <3>1 DEF EarlierCovered, Covered
    <3>3. UpToPage(r, s, poll[r][s].page - 1)' = UpToPage(r, s, p.page)
      BY <1>0, <3>1 DEF UpToPage, WindowOf
    <3>4. PagesCovered(r, s)'
      BY <2>4, <3>3 DEF PagesCovered
    <3>5. QED
      BY <3>1, <3>2, <3>4 DEF PollCovers, BatchCovers, ResultCovered, At
  <2>8. QED
    BY <2>5, <2>6, <2>7
<1>9. QED
  BY <1>6, <1>7, <1>8

\* A page is what the window has between the pages before it and those after.
LEMMA FetchCovers ==
  ASSUME TypeOK, GapInv, IsFiniteSet(Calls), NEW r \in Replicas, NEW s \in Sources,
         Fetch(r, s), exists[s]
  PROVE  PollCovers(r, s)'
<1> DEFINE p == poll[r][s]
           W == Window(s, p.from, p.start)
           served == {c \in W : OnPage(W, c, p.page)}
           pc == IF served \cap BadCalls = {} THEN "store" ELSE "reject"
           batch == {<<c, remote[c]>> : c \in served}
           last == IsLastPage(W, p.page)
<1>0. /\ p \in Polls /\ p.pc = "fetch" /\ UNCHANGED <<remote, cdr, rejects>>
      /\ PollCovers(r, s)
  BY DEF TypeOK, Fetch, At, GapInv
<1>1. poll'[r][s] = [p EXCEPT !.pc = pc, !.batch = batch, !.last = last]
  BY DEF TypeOK, Fetch, Step
<1>2. pc \in {"store", "reject"}
  OBVIOUS
<1>3. WindowOf(r, s) = W /\ \A c : RankIn(remote, W, c) = Rank(W, c)
  BY ListedIsWindow DEF WindowOf
<1>4. p.page \in Nat /\ IsFiniteSet(W) /\ \A c \in W : Rank(W, c) \in Int
  <2>1. W \subseteq Calls /\ IsFiniteSet(W)
    BY FS_Subset DEF Window
  <2>2. \A c \in Calls : c \in Nat /\ remote[c] \in Int
    BY CallsAssumption, MaxTimeAssumption DEF TypeOK, Versions, Times, Absent
  <2>3. QED
    BY <1>0, <1>3, <2>1, <2>2, RankBounds DEF Polls
<1>5. ASSUME NEW c \in W, Rank(W, c) <= p.page * PageSize
      PROVE  Ingested(c) \/ <<c, remote[c]>> \in batch
  <2>1. CASE Rank(W, c) <= (p.page - 1) * PageSize
    <3>1. c \in UpToPage(r, s, p.page - 1)
      BY <1>3, <2>1 DEF UpToPage
    <3>2. QED
      BY <1>0, <3>1 DEF PollCovers, PagesCovered, At
  <2>2. CASE ~(Rank(W, c) <= (p.page - 1) * PageSize)
    <3>1. (p.page - 1) * PageSize \in Int
      BY <1>4, PagesAssumption
    <3>2. c \in served
      BY <1>4, <1>5, <2>2, <3>1 DEF OnPage
    <3>3. QED
      BY <3>2
  <2>3. QED
    BY <2>1, <2>2
<1>6. last => Cardinality(W) <= p.page * PageSize
  BY DEF IsLastPage
<1> HIDE DEF pc, batch, last, served
<1>7. /\ poll'[r][s].pc = pc /\ poll'[r][s].batch = batch /\ poll'[r][s].last = last
      /\ poll'[r][s].start = p.start /\ poll'[r][s].from = p.from
      /\ poll'[r][s].page = p.page
  BY <1>0, <1>1 DEF Polls
<1>8. WindowOf(r, s)' = W
  BY <1>0, <1>3, <1>7 DEF WindowOf
<1>9. EarlierCovered(r, s)'
  BY <1>0, <1>7 DEF PollCovers, EarlierCovered, Covered, Ingested
<1>10. BatchCovers(r, s)'
  <2>1. UpToPage(r, s, poll[r][s].page)' =
          {c \in W : RankIn(remote, W, c) <= p.page * PageSize}
    BY <1>0, <1>7, <1>8 DEF UpToPage
  <2>2. \A c \in UpToPage(r, s, poll[r][s].page)' :
           Ingested(c)' \/ <<c, remote'[c]>> \in batch
    BY <1>0, <1>3, <1>5, <2>1 DEF Ingested
  <2>3. QED
    BY <1>6, <1>7, <1>8, <2>2 DEF BatchCovers
<1>11. QED
  BY <1>2, <1>7, <1>9, <1>10 DEF PollCovers, PagesCovered, ResultCovered, At

\* Every step keeps what the polls and the watermarks have covered.
LEMMA GapInductive ==
  ASSUME TypeOK, TypeOK', PollsSane, GapInv, IsFiniteSet(Calls), PagesHold,
         Mutable # {} => AtMostOnePoller, [Next]_vars
  PROVE  GapInv'
<1>0. /\ \A r \in Replicas, s \in Sources : poll[r][s] \in Polls
      /\ \A c \in Calls : c \in Nat /\ remote[c] \in Int
  BY CallsAssumption, MaxTimeAssumption DEF TypeOK, Versions, Absent, Times
<1>a. ASSUME UNCHANGED <<remote, cdr, rejects, exists, watermark, poll>>
      PROVE  GapInv'
  <2>1. \A s \in Sources, r \in Replicas : PollCovers(r, s) => PollCovers(r, s)'
    BY <1>a, PollKept DEF Ingested
  <2>2. \A s \in Sources : Covered(s, BackfillFrom, watermark[s])
                             => Covered(s, BackfillFrom, watermark[s])'
    BY <1>a DEF Covered, Ingested
  <2>3. QED
    BY <1>a, <2>1, <2>2 DEF GapInv
<1>b. ASSUME NEW r \in Replicas, NEW s \in Sources, NEW p, Step(r, s, p),
             UNCHANGED <<remote, cdr, rejects, exists, watermark>>,
             p.pc \notin {"fetch", "reject", "store"},
             p.pc = "record" => p.status \notin Success
      PROVE  GapInv'
  <2>1. poll'[r][s] = p
    BY <1>b, OnlyMoved
  <2>2. PollCovers(r, s)'
    BY <1>b, <2>1, NothingToCover
  <2>3. QED
    BY <1>b, <2>2, StepCovers
<1>c. ASSUME NEW r \in Replicas, NEW s \in Sources, NEW status \in Failure,
             Step(r, s, Finished(poll[r][s], status)),
             UNCHANGED <<remote, cdr, rejects, exists, watermark>>
      PROVE  GapInv'
  <2> DEFINE p == Finished(poll[r][s], status)
  <2>1. p.pc = "record" /\ p.status = status
    BY <1>0 DEF Finished, Polls
  <2>2. Step(r, s, p) /\ status \notin Success
    BY <1>c DEF Failure, Success
  <2> HIDE DEF p
  <2>3. QED
    BY <1>b, <1>c, <2>1, <2>2
<1>d. ASSUME NEW r \in Replicas, NEW s \in Sources,
             Step(r, s, [poll[r][s] EXCEPT !.pc = "done"]),
             UNCHANGED <<remote, cdr, rejects, exists, watermark>>
      PROVE  GapInv'
  <2> DEFINE p == [poll[r][s] EXCEPT !.pc = "done"]
  <2>1. p.pc = "done" /\ Step(r, s, p)
    BY <1>0, <1>d DEF Polls
  <2> HIDE DEF p
  <2>2. QED
    BY <1>b, <1>d, <2>1
<1>1. CASE Tick
  BY <1>1, <1>a DEF Tick
<1>2. ASSUME NEW d \in Calls, RemoteWrite(d) PROVE GapInv'
  BY <1>2, WriteKeepsGap
<1>3. ASSUME NEW d \in Sources, DeleteSource(d) PROVE GapInv'
  <2>1. SUFFICES ASSUME NEW s \in Sources, exists'[s]
                 PROVE  /\ Covered(s, BackfillFrom, watermark[s])'
                        /\ \A r \in Replicas : PollCovers(r, s)'
    BY DEF GapInv
  <2>2. /\ s # d /\ exists[s] /\ watermark'[s] = watermark[s]
        /\ UNCHANGED <<remote, cdr, poll>>
    BY <1>3, <2>1 DEF TypeOK, DeleteSource
  <2>3. \A c \in Calls : Origin[c] = s /\ Ingested(c) => Ingested(c)'
    BY <1>3, <2>2 DEF DeleteSource, Ingested
  <2>4. Covered(s, BackfillFrom, watermark[s])'
    BY <2>2, <2>3 DEF GapInv, Covered, ListedIn
  <2>5. \A r \in Replicas : PollCovers(r, s)'
    BY <2>2, <2>3, PollKept DEF GapInv
  <2>6. QED
    BY <2>4, <2>5
<1>4. ASSUME NEW d \in Replicas, Crash(d) PROVE GapInv'
  <2>1. ASSUME NEW s \in Sources, NEW r \in Replicas, PollCovers(r, s)
        PROVE  PollCovers(r, s)'
    <3>1. CASE r = d
      <4>1. poll'[r][s] = NoPoll
        BY <1>4, <3>1 DEF TypeOK, Crash
      <4>2. QED
        BY <4>1, NothingToCover DEF NoPoll
    <3>2. CASE r # d
      <4>1. poll'[r][s] = poll[r][s]
        BY <1>4, <3>2 DEF TypeOK, Crash
      <4>2. QED
        BY <1>4, <2>1, <4>1, PollKept DEF Crash, Ingested
    <3>3. QED
      BY <3>1, <3>2
  <2>2. \A s \in Sources : Covered(s, BackfillFrom, watermark[s])
                             => Covered(s, BackfillFrom, watermark[s])'
    BY <1>4 DEF Crash, Covered, Ingested
  <2>3. QED
    BY <1>4, <2>1, <2>2 DEF Crash, GapInv
<1>5. ASSUME NEW r \in Replicas, NEW s \in Sources, Request(r, s) PROVE GapInv'
  <2> DEFINE p == [NoPoll EXCEPT !.pc = "claim"]
  <2>1. p.pc = "claim" /\ Step(r, s, p)
    BY <1>5 DEF Request, NoPoll
  <2> HIDE DEF p
  <2>2. QED
    BY <1>5, <1>b, <2>1 DEF Request
<1>6. ASSUME NEW r \in Replicas, NEW s \in Sources, ClaimGranted(r, s)
      PROVE  GapInv'
  <2> DEFINE p == [poll[r][s] EXCEPT !.pc = "load", !.start = now]
  <2>1. p.pc = "load" /\ Step(r, s, p)
    BY <1>0, <1>6 DEF ClaimGranted, Polls
  <2> HIDE DEF p
  <2>2. QED
    BY <1>6, <1>b, <2>1 DEF ClaimGranted
<1>7. ASSUME NEW r \in Replicas, NEW s \in Sources, ClaimRefused(r, s)
      PROVE  GapInv'
  <2> DEFINE p == [poll[r][s] EXCEPT !.pc = "done", !.status = "skipped_locked"]
  <2>1. p.pc = "done" /\ Step(r, s, p)
    BY <1>0, <1>7 DEF ClaimRefused, Polls
  <2> HIDE DEF p
  <2>2. QED
    BY <1>7, <1>b, <2>1 DEF ClaimRefused
<1>8. ASSUME NEW r \in Replicas, NEW s \in Sources, Load(r, s) PROVE GapInv'
  <2> DEFINE from == IF watermark[s] = Unset THEN BackfillFrom ELSE watermark[s]
             p == [poll[r][s] EXCEPT !.pc = "fetch", !.from = from]
  <2>1. CASE ~exists[s]
    <3>1. Step(r, s, Finished(poll[r][s], "fetch_error"))
      BY <1>8, <2>1 DEF Load
    <3>2. QED
      BY <1>8, <1>c, <3>1 DEF Load, Failure
  <2>2. CASE exists[s]
    <3>1. Step(r, s, p) /\ poll'[r][s] = p
      BY <1>8, <2>2, OnlyMoved DEF Load
    <3>2. /\ p.pc = "fetch" /\ p.from = from /\ p.page = 1
          /\ p.start = poll[r][s].start
      BY <1>0, <1>8 DEF Polls, Load, At, PollsSane, FreshPoll
    <3>3. Covered(s, BackfillFrom, from)
      <4>1. CASE watermark[s] = Unset
        BY <1>0, <4>1 DEF Covered, ListedIn, BackfillFrom
      <4>2. CASE watermark[s] # Unset
        BY <2>2, <4>2 DEF GapInv
      <4>3. QED
        BY <4>1, <4>2
    <3> HIDE DEF from, p
    <3>4. EarlierCovered(r, s)'
      BY <1>8, <3>1, <3>2, <3>3 DEF Load, EarlierCovered, Covered, Ingested
    <3>5. PagesCovered(r, s)'
      <4>1. SUFFICES ASSUME NEW c \in UpToPage(r, s, poll[r][s].page - 1)' PROVE FALSE
        BY DEF PagesCovered
      <4> DEFINE V == WindowOf(r, s)'
      <4>2. c \in V /\ RankIn(remote', V, c) <= (poll'[r][s].page - 1) * PageSize
        BY <4>1 DEF UpToPage
      <4>3. V \subseteq Calls /\ IsFiniteSet(V) /\ remote' = remote
        BY <1>8, FS_Subset DEF Load, WindowOf, ListedIn
      <4>4. (poll'[r][s].page - 1) * PageSize = 0
        BY <3>1, <3>2, PagesAssumption
      <4> HIDE DEF V
      <4>5. RankIn(remote, V, c) \in Nat \ {0}
        BY <1>0, <4>2, <4>3, RankBounds
      <4>6. QED
        BY <4>2, <4>3, <4>4, <4>5
    <3>6. PollCovers(r, s)'
      BY <3>1, <3>2, <3>4, <3>5 DEF PollCovers, BatchCovers, ResultCovered, At
    <3>7. QED
      BY <1>8, <3>1, <3>6, StepCovers DEF Load
  <2>3. QED
    BY <2>1, <2>2
<1>9. ASSUME NEW r \in Replicas, NEW s \in Sources, Fetch(r, s) PROVE GapInv'
  <2>1. PICK p : Step(r, s, p)
    BY <1>9 DEF Fetch
  <2>2. QED
    BY <1>9, <2>1, FetchCovers, StepCovers DEF Fetch
<1>10. ASSUME NEW r \in Replicas, NEW s \in Sources, BodyFails(r, s)
       PROVE  GapInv'
  BY <1>10, <1>c DEF BodyFails
<1>11. ASSUME NEW r \in Replicas, NEW s \in Sources, LogRejects(r, s)
       PROVE  GapInv'
  <2>1. CASE ~exists[s]
    <3>1. /\ Step(r, s, Finished(poll[r][s], "fetch_error"))
          /\ UNCHANGED <<remote, cdr, rejects, exists, watermark>>
      BY <1>11, <2>1 DEF LogRejects
    <3>2. QED
      BY <1>c, <3>1 DEF Failure
  <2>2. CASE exists[s]
    <3> DEFINE b == poll[r][s].batch
               rest == b \ BadPairs(b)
               p == [poll[r][s] EXCEPT !.pc = "store", !.bad = TRUE, !.batch = rest]
    <3>1. /\ Step(r, s, p) /\ poll[r][s].pc = "reject"
          /\ rejects' = rejects \cup BadPairs(b)
          /\ UNCHANGED <<remote, cdr, exists, watermark>>
      BY <1>11, <2>2 DEF LogRejects, At
    <3>2. \A q \in Replicas, t \in Sources :
            poll'[q][t] = IF q = r /\ t = s THEN p ELSE poll[q][t]
      BY <3>1, OnlyMoved
    <3>3. /\ p.pc = "store" /\ p.batch = rest /\ p.last = poll[r][s].last
          /\ p.page = poll[r][s].page
          /\ p.start = poll[r][s].start /\ p.from = poll[r][s].from
      BY <1>0 DEF Polls
    <3> HIDE DEF p
    <3>4. \A c \in Calls : Ingested(c) => Ingested(c)'
      BY <3>1 DEF Ingested
    <3>5. ASSUME NEW t \in Sources, exists[t]
          PROVE  Covered(t, BackfillFrom, watermark[t])'
      BY <3>1, <3>4, <3>5 DEF GapInv, Covered, ListedIn
    <3>6. ASSUME NEW q \in Replicas, NEW t \in Sources, exists[t], q # r \/ t # s
          PROVE  PollCovers(q, t)'
      BY <3>1, <3>2, <3>4, <3>6, PollKept DEF GapInv
    <3>7. PollCovers(r, s)
      BY <2>2 DEF GapInv
    <3>8. EarlierCovered(r, s)'
      BY <3>1, <3>2, <3>3, <3>4, <3>7 DEF PollCovers, EarlierCovered, Covered, ListedIn
    <3>9. BatchCovers(r, s)'
      <4>1. /\ UpToPage(r, s, poll[r][s].page)' = UpToPage(r, s, poll[r][s].page)
            /\ WindowOf(r, s)' = WindowOf(r, s)
        BY <3>1, <3>2, <3>3 DEF UpToPage, WindowOf
      <4>2. ASSUME NEW c \in UpToPage(r, s, poll[r][s].page)
            PROVE  Ingested(c)' \/ <<c, remote[c]>> \in rest
        <5>1. c \in Calls
          BY <4>2 DEF UpToPage, WindowOf, ListedIn
        <5>2. Ingested(c) \/ <<c, remote[c]>> \in b
          BY <3>1, <3>7, <4>2 DEF PollCovers, BatchCovers
        <5>3. c \in BadCalls /\ <<c, remote[c]>> \in b => <<c, remote[c]>> \in rejects'
          BY <3>1 DEF BadPairs
        <5>4. c \notin BadCalls /\ <<c, remote[c]>> \in b => <<c, remote[c]>> \in rest
          BY DEF BadPairs
        <5>5. QED
          BY <3>1, <3>4, <5>1, <5>2, <5>3, <5>4 DEF Ingested
      <4>3. poll[r][s].last => Cardinality(WindowOf(r, s)) <= poll[r][s].page * PageSize
        BY <3>1, <3>7 DEF PollCovers, BatchCovers
      <4> HIDE DEF rest
      <4>4. QED
        BY <3>1, <3>2, <3>3, <4>1, <4>2, <4>3 DEF BatchCovers
    <3>10. PollCovers(r, s)'
      BY <3>2, <3>3, <3>8, <3>9 DEF PollCovers, PagesCovered, ResultCovered, At
    <3>11. QED
      BY <3>1, <3>5, <3>6, <3>10 DEF GapInv
  <2>3. QED
    BY <2>1, <2>2
<1>12. ASSUME NEW r \in Replicas, NEW s \in Sources, Store(r, s) PROVE GapInv'
  BY <1>12, StoreKeepsGap
<1>13. ASSUME NEW r \in Replicas, NEW s \in Sources, Record(r, s) PROVE GapInv'
  <2> DEFINE p == [poll[r][s] EXCEPT !.pc = "done"]
  <2>1. Step(r, s, p) /\ UNCHANGED <<remote, cdr, rejects, exists>>
    BY <1>13 DEF Record
  <2>2. \A q \in Replicas, t \in Sources :
          poll'[q][t] = IF q = r /\ t = s THEN p ELSE poll[q][t]
    BY <2>1, OnlyMoved
  <2>3. p.pc = "done"
    BY <1>0 DEF Polls
  <2> HIDE DEF p
  <2>4. ASSUME NEW t \in Sources, exists[t]
        PROVE  Covered(t, BackfillFrom, watermark[t])'
    <3>1. \/ watermark'[t] = watermark[t]
          \/ /\ t = s /\ watermark'[t] = poll[r][s].start
             /\ At(r, s, "record") /\ poll[r][s].status \in Success
      BY <1>13 DEF TypeOK, Record
    <3>2. Covered(t, BackfillFrom, watermark[t]) /\ PollCovers(r, t)
      BY <2>4 DEF GapInv
    <3>3. Covered(t, BackfillFrom, watermark'[t])
      BY <3>1, <3>2 DEF PollCovers, ResultCovered
    <3>4. QED
      BY <2>1, <3>3 DEF Covered, Ingested
  <2>5. ASSUME NEW q \in Replicas, NEW t \in Sources, exists[t] PROVE PollCovers(q, t)'
    <3>1. CASE q = r /\ t = s
      BY <2>2, <2>3, <3>1, NothingToCover
    <3>2. CASE q # r \/ t # s
      <4>1. poll'[q][t] = poll[q][t] /\ PollCovers(q, t)
        BY <2>2, <2>5, <3>2 DEF GapInv
      <4>2. QED
        BY <2>1, <4>1, PollKept DEF Ingested
    <3>3. QED
      BY <3>1, <3>2
  <2>6. QED
    BY <2>1, <2>4, <2>5 DEF GapInv
<1>14. ASSUME NEW r \in Replicas, NEW s \in Sources, RecordFails(r, s)
       PROVE  GapInv'
  <2>1. UNCHANGED <<remote, cdr, rejects, exists, watermark>>
    BY <1>14 DEF RecordFails
  <2>2. CASE poll[r][s].status \in Success
    <3>1. Step(r, s, Finished(poll[r][s], "fetch_error"))
      BY <1>14, <2>2 DEF RecordFails
    <3>2. QED
      BY <1>c, <2>1, <3>1 DEF Failure
  <2>3. CASE poll[r][s].status \notin Success
    BY <1>14, <1>d, <2>1, <2>3 DEF RecordFails
  <2>4. QED
    BY <2>2, <2>3
<1>15. ASSUME NEW r \in Replicas, NEW s \in Sources, ClaimFails(r, s) PROVE GapInv'
  BY <1>15, <1>d DEF ClaimFails
<1>16. ASSUME NEW r \in Replicas, NEW s \in Sources, Reply(r, s) PROVE GapInv'
  <2>1. NoPoll.pc = "idle" /\ Step(r, s, NoPoll)
    BY <1>16 DEF Reply, NoPoll
  <2>2. QED
    BY <1>16, <1>b, <2>1 DEF Reply
<1>17. CASE UNCHANGED vars
  BY <1>17, <1>a DEF vars
<1>18. QED
  BY <1>1, <1>2, <1>3, <1>4, <1>5, <1>6, <1>7, <1>8, <1>9, <1>10, <1>11, <1>12,
     <1>13, <1>14, <1>15, <1>16, <1>17 DEF Next, Progress

\* At the start nothing is below a watermark and no poll has begun.
LEMMA GapInitial == Init => PollsSane /\ GapInv
<1> SUFFICES ASSUME Init PROVE PollsSane /\ GapInv
  OBVIOUS
<1>1. \A r \in Replicas, s \in Sources : poll[r][s].pc = "idle"
  BY DEF Init, NoPoll
<1>2. \A s \in Sources : watermark[s] = -1 /\ now = 0
  BY DEF Init, Unset
<1>3. \A c \in Calls : remote[c] = -1
  BY DEF Init, Absent
<1>4. PollsSane
  BY <1>1, <1>2 DEF PollsSane, FreshPoll, PollTimes, BatchServed, Polling, Body
<1>5. GapInv
  BY <1>1, <1>2, <1>3
  DEF GapInv, PollCovers, EarlierCovered, PagesCovered, BatchCovers, ResultCovered,
      At, Covered, ListedIn, BackfillFrom
<1>6. QED
  BY <1>4, <1>5

\* The times and batches of the polls stay sane where the proofs below need it.
LEMMA PollsStaySane ==
  ASSUME Mutable = {} \/ MaxPoll <= Lease PROVE Spec => []PollsSane
<1>1. ASSUME TypeOK, TypeOK', PollsSane, Mutable # {} => AtMostOnePoller, [Next]_vars
      PROVE  PollsSane'
  BY <1>1, SaneInductive
<1>2. CASE Mutable = {}
  <2>1. TypeOK /\ TypeOK' /\ PollsSane /\ [Next]_vars => PollsSane'
    BY <1>1, <1>2
  <2>2. QED
    BY <2>1, GapInitial, TypeCorrect, PTL DEF Spec
<1>3. CASE MaxPoll <= Lease
  BY <1>1, <1>3, GapInitial, TypeCorrect, PollersExclude, PTL DEF Spec
<1>4. QED
  BY <1>2, <1>3

\* No version of a call below a source's watermark is missing, whatever fails,
\* crashes or is deleted, for every number of replicas, sources, calls and pages:
\* if the remotes rewrite no call, or if every window fits one page and no poll
\* outlives its lease.
THEOREM NothingMissed ==
  ASSUME IsFiniteSet(Calls), PagesHold PROVE Spec => []NoGap
<1>1. ASSUME TypeOK, TypeOK', PollsSane, GapInv, Mutable # {} => AtMostOnePoller,
             [Next]_vars
      PROVE  GapInv'
  BY <1>1, GapInductive
<1>2. TypeOK /\ GapInv => NoGap
  BY OriginAssumption DEF GapInv, Covered, ListedIn, NoGap, TypeOK
<1>3. CASE Mutable = {}
  <2>1. TypeOK /\ TypeOK' /\ PollsSane /\ GapInv /\ [Next]_vars => GapInv'
    BY <1>1, <1>3
  <2>2. Spec => []PollsSane
    BY <1>3, PollsStaySane
  <2>3. QED
    BY <1>2, <2>1, <2>2, GapInitial, TypeCorrect, PTL DEF Spec
<1>4. CASE MaxPoll <= Lease
  BY <1>1, <1>2, <1>4, GapInitial, TypeCorrect, PollsStaySane, PollersExclude, PTL
  DEF Spec
<1>5. QED
  BY <1>3, <1>4 DEF PagesHold

-----------------------------------------------------------------------------
(* Stored versions only get newer.                                         *)

\* call_records is behind the remotes, and a page about to be stored is between.
Newer ==
    /\ \A c \in Calls : cdr[c] <= remote[c]
    /\ \A r \in Replicas, s \in Sources :
          poll[r][s].pc \in {"reject", "store"} =>
              \A x \in poll[r][s].batch : cdr[x[1]] <= x[2] /\ x[2] <= remote[x[1]]

\* A store takes each call of the page forward, and no page of another poll behind.
LEMMA StoreNewer ==
  ASSUME TypeOK, PollsSane, Newer, Mutable # {} => AtMostOnePoller,
         NEW r \in Replicas, NEW s \in Sources, Store(r, s)
  PROVE  Newer' /\ \A c \in Calls : cdr[c] <= cdr'[c]
<1> DEFINE b == poll[r][s].batch
<1>0. /\ cdr' = Upserted(cdr, b) /\ remote' = remote
      /\ poll[r][s].pc = "store" /\ Polling(r, s)
      /\ \A q \in Replicas, t \in Sources :
           poll[q][t] \in Polls
      /\ \A c \in Calls : cdr[c] \in Int /\ remote[c] \in Int
  BY DEF Store, At, Polling, Body, TypeOK, Versions, Times, Absent
<1>1. \A q \in Replicas, t \in Sources :
        poll'[q][t] = IF q = r /\ t = s THEN AfterPage(poll[r][s]) ELSE poll[q][t]
  BY OnlyMoved DEF Store
<1>2. \A x \in b : /\ Origin[x[1]] = s /\ x[1] \in Calls /\ x[2] \in Int
                   /\ cdr[x[1]] <= x[2] /\ x[2] <= remote[x[1]]
  BY <1>0, MaxTimeAssumption DEF PollsSane, BatchServed, Newer, Polls, Times
<1> HIDE DEF b
<1>3. \A c \in Calls : \/ cdr'[c] = cdr[c]
                       \/ \E x \in b : x[1] = c /\ cdr'[c] = x[2]
  BY <1>0 DEF Upserted
<1>4. ASSUME NEW c \in Calls
      PROVE  /\ cdr[c] <= cdr'[c] /\ cdr'[c] <= remote[c]
             /\ Origin[c] # s => cdr'[c] = cdr[c]
  <2>1. CASE cdr'[c] = cdr[c]
    BY <1>0, <2>1 DEF Newer
  <2>2. ASSUME NEW x \in b, x[1] = c, cdr'[c] = x[2]
        PROVE  cdr[c] <= cdr'[c] /\ cdr'[c] <= remote[c] /\ Origin[c] = s
    BY <1>2, <2>2
  <2>3. QED
    BY <1>3, <2>1, <2>2
<1>5. ASSUME NEW q \in Replicas, NEW t \in Sources,
             poll'[q][t].pc \in {"reject", "store"}, NEW x \in poll'[q][t].batch
      PROVE  cdr'[x[1]] <= x[2] /\ x[2] <= remote'[x[1]]
  <2>1. AfterPage(poll[r][s]).pc \in {"fetch", "record"}
    BY <1>0 DEF AfterPage, Finished, Polls
  <2>2. (q # r \/ t # s) /\ poll'[q][t] = poll[q][t]
    BY <1>1, <1>5, <2>1
  <2>3. /\ x[1] \in Calls /\ x[2] \in Int /\ Origin[x[1]] = t
        /\ cdr[x[1]] <= x[2] /\ x[2] <= remote[x[1]]
        /\ x[2] = remote[x[1]] \/ Mutable # {}
    BY <1>0, <1>5, <2>2, MaxTimeAssumption
    DEF PollsSane, BatchServed, Newer, Polls, Times
  <2>4. CASE Mutable = {}
    BY <1>0, <1>4, <2>3, <2>4
  <2>5. CASE Mutable # {}
    <3>1. t # s
      BY <1>0, <1>5, <2>2, <2>5 DEF AtMostOnePoller, Polling, Body
    <3>2. QED
      BY <1>0, <1>4, <2>3, <3>1
  <2>6. QED
    BY <2>4, <2>5
<1>6. QED
  BY <1>0, <1>4, <1>5 DEF Newer

\* No other step touches call_records; a fetch takes versions as they are served.
LEMMA NewerInductive ==
  ASSUME TypeOK, PollsSane, Newer, Mutable # {} => AtMostOnePoller, [Next]_vars
  PROVE  Newer' /\ \A c \in Calls : cdr[c] <= cdr'[c]
<1>0. /\ \A r \in Replicas, s \in Sources : poll[r][s] \in Polls
      /\ \A c \in Calls : cdr[c] \in Int /\ remote[c] \in Int
      /\ now \in Int
  BY MaxTimeAssumption DEF TypeOK, Versions, Times, Absent
<1>a. ASSUME UNCHANGED <<remote, cdr>>,
             \A r \in Replicas, s \in Sources :
                poll'[r][s].pc \in {"reject", "store"} =>
                   \/ poll'[r][s] = poll[r][s]
                   \/ /\ poll[r][s].pc \in {"reject", "store"}
                      /\ poll'[r][s].batch \subseteq poll[r][s].batch
                   \/ \A x \in poll'[r][s].batch :
                         x[1] \in Calls /\ x[2] = remote[x[1]]
      PROVE  Newer' /\ \A c \in Calls : cdr[c] <= cdr'[c]
  BY <1>0, <1>a DEF Newer
<1>b. ASSUME NEW r \in Replicas, NEW s \in Sources, NEW p, Step(r, s, p),
             UNCHANGED <<remote, cdr>>, p.pc \notin {"reject", "store"}
      PROVE  Newer' /\ \A c \in Calls : cdr[c] <= cdr'[c]
  <2>1. \A q \in Replicas, t \in Sources :
          poll'[q][t] = IF q = r /\ t = s THEN p ELSE poll[q][t]
    BY <1>b, OnlyMoved
  <2>2. QED
    BY <1>a, <1>b, <2>1
<1>1. CASE Tick \/ UNCHANGED vars \/ \E s \in Sources : DeleteSource(s)
  BY <1>1, <1>a DEF Tick, vars, DeleteSource
<1>2. ASSUME NEW d \in Calls, RemoteWrite(d)
      PROVE  Newer' /\ \A c \in Calls : cdr[c] <= cdr'[c]
  <2>1. /\ \A c \in Calls : remote[c] <= remote'[c]
        /\ \A c \in Calls : remote'[c] \in Int
        /\ UNCHANGED <<cdr, poll>>
    BY <1>0, <1>2 DEF TypeOK, RemoteWrite
  <2>2. ASSUME NEW r \in Replicas, NEW s \in Sources, NEW x \in poll[r][s].batch
        PROVE  x[1] \in Calls /\ x[2] \in Int
    BY <1>0, <2>2, MaxTimeAssumption DEF Polls, Times
  <2>3. QED
    BY <1>0, <2>1, <2>2 DEF Newer
<1>3. ASSUME NEW d \in Replicas, Crash(d)
      PROVE  Newer' /\ \A c \in Calls : cdr[c] <= cdr'[c]
  <2>1. \A r \in Replicas, s \in Sources :
           poll'[r][s] = IF r = d THEN NoPoll ELSE poll[r][s]
    BY <1>3 DEF TypeOK, Crash
  <2>2. NoPoll.pc = "idle"
    BY DEF NoPoll
  <2>3. QED
    BY <1>3, <1>a, <2>1, <2>2 DEF Crash
<1>4. ASSUME NEW r \in Replicas, NEW s \in Sources,
             \/ Request(r, s) \/ ClaimGranted(r, s) \/ ClaimRefused(r, s)
             \/ ClaimFails(r, s) \/ Record(r, s) \/ Reply(r, s)
      PROVE  Newer' /\ \A c \in Calls : cdr[c] <= cdr'[c]
  <2>1. /\ [NoPoll EXCEPT !.pc = "claim"].pc = "claim" /\ NoPoll.pc = "idle"
        /\ [poll[r][s] EXCEPT !.pc = "load", !.start = now].pc = "load"
        /\ [poll[r][s] EXCEPT !.pc = "done", !.status = "skipped_locked"].pc = "done"
        /\ [poll[r][s] EXCEPT !.pc = "done"].pc = "done"
    BY <1>0 DEF NoPoll, Polls
  <2>2. UNCHANGED <<remote, cdr>>
    BY <1>4 DEF Request, ClaimGranted, ClaimRefused, ClaimFails, Record, Reply
  <2>3. PICK p : Step(r, s, p) /\ p.pc \in {"claim", "load", "done", "idle"}
    BY <1>4, <2>1
    DEF Step, Request, ClaimGranted, ClaimRefused, ClaimFails, Record, Reply
  <2>4. QED
    BY <1>b, <2>2, <2>3
<1>5. ASSUME NEW r \in Replicas, NEW s \in Sources,
             Load(r, s) \/ BodyFails(r, s) \/ RecordFails(r, s)
      PROVE  Newer' /\ \A c \in Calls : cdr[c] <= cdr'[c]
  <2>1. /\ \A status : Finished(poll[r][s], status).pc = "record"
        /\ \A from : [poll[r][s] EXCEPT !.pc = "fetch", !.from = from].pc = "fetch"
        /\ [poll[r][s] EXCEPT !.pc = "done"].pc = "done"
    BY <1>0 DEF Finished, Polls
  <2>2. UNCHANGED <<remote, cdr>>
    BY <1>5 DEF Load, BodyFails, RecordFails
  <2>3. CASE Load(r, s)
    <3>1. PICK p : Step(r, s, p) /\ p.pc \in {"record", "fetch"}
      BY <2>1, <2>3 DEF Load
    <3>2. QED
      BY <1>b, <2>2, <3>1
  <2>4. CASE BodyFails(r, s)
    <3>1. PICK status : Step(r, s, Finished(poll[r][s], status))
      BY <2>4 DEF BodyFails
    <3>2. QED
      BY <1>b, <2>1, <2>2, <3>1
  <2>5. CASE RecordFails(r, s)
    <3>1. PICK p : Step(r, s, p) /\ p.pc \in {"record", "done"}
      BY <2>1, <2>5 DEF RecordFails
    <3>2. QED
      BY <1>b, <2>2, <3>1
  <2>6. QED
    BY <1>5, <2>3, <2>4, <2>5
<1>6. ASSUME NEW r \in Replicas, NEW s \in Sources, Fetch(r, s)
      PROVE  Newer' /\ \A c \in Calls : cdr[c] <= cdr'[c]
  <2> DEFINE W == Window(s, poll[r][s].from, poll[r][s].start)
             served == {c \in W : OnPage(W, c, poll[r][s].page)}
             pc == IF served \cap BadCalls = {} THEN "store" ELSE "reject"
             batch == {<<c, remote[c]>> : c \in served}
             last == IsLastPage(W, poll[r][s].page)
             p == [poll[r][s] EXCEPT !.pc = pc, !.batch = batch, !.last = last]
  <2>1. Step(r, s, p) /\ UNCHANGED <<remote, cdr>>
    BY <1>6 DEF Fetch
  <2>2. \A x \in batch : x[1] \in Calls /\ x[2] = remote[x[1]]
    <3>1. \A c \in served : c \in Calls
      BY DEF Window
    <3> HIDE DEF served
    <3>2. QED
      BY <3>1
  <2> HIDE DEF pc, batch, last
  <2>3. p.batch = batch
    BY <1>0 DEF Polls
  <2> HIDE DEF p
  <2>4. \A q \in Replicas, t \in Sources :
          poll'[q][t] = IF q = r /\ t = s THEN p ELSE poll[q][t]
    BY <2>1, OnlyMoved
  <2>5. QED
    BY <1>a, <2>1, <2>2, <2>3, <2>4
<1>7. ASSUME NEW r \in Replicas, NEW s \in Sources, LogRejects(r, s)
      PROVE  Newer' /\ \A c \in Calls : cdr[c] <= cdr'[c]
  <2> DEFINE rest == poll[r][s].batch \ BadPairs(poll[r][s].batch)
             p == [poll[r][s] EXCEPT !.pc = "store", !.bad = TRUE, !.batch = rest]
             failed == Finished(poll[r][s], "fetch_error")
  <2>1. poll[r][s].pc = "reject" /\ UNCHANGED <<remote, cdr>>
    BY <1>7 DEF LogRejects, At
  <2>2. Step(r, s, p) \/ Step(r, s, failed)
    BY <1>7 DEF LogRejects
  <2>3. p.batch \subseteq poll[r][s].batch /\ failed.pc = "record"
    BY <1>0 DEF Polls, Finished
  <2> HIDE DEF p, failed
  <2>4. CASE Step(r, s, p)
    <3>1. \A q \in Replicas, t \in Sources :
            poll'[q][t] = IF q = r /\ t = s THEN p ELSE poll[q][t]
      BY <2>4, OnlyMoved
    <3>2. QED
      BY <1>a, <2>1, <2>3, <3>1
  <2>5. CASE Step(r, s, failed)
    BY <1>b, <2>1, <2>3, <2>5
  <2>6. QED
    BY <2>2, <2>4, <2>5
<1>8. ASSUME NEW r \in Replicas, NEW s \in Sources, Store(r, s)
      PROVE  Newer' /\ \A c \in Calls : cdr[c] <= cdr'[c]
  BY <1>8, StoreNewer
<1>9. QED
  BY <1>1, <1>2, <1>3, <1>4, <1>5, <1>6, <1>7, <1>8 DEF Next, Progress

\* A stored version is never replaced by an older one, although the upsert does
\* not compare: if remotes rewrite nothing, or if no poll outlives its lease.
THEOREM OlderNeverStored ==
  ASSUME Mutable = {} \/ MaxPoll <= Lease PROVE Spec => NoStaleOverwrite
<1>1. ASSUME TypeOK, PollsSane, Newer, Mutable # {} => AtMostOnePoller, [Next]_vars
      PROVE  Newer' /\ \A c \in Calls : cdr[c] <= cdr'[c]
  BY <1>1, NewerInductive
<1>2. Init => Newer
  BY DEF Init, Newer, Absent, NoPoll
<1>3. Spec => []PollsSane
  BY PollsStaySane
<1>4. CASE Mutable = {}
  <2>1. TypeOK /\ PollsSane /\ Newer /\ [Next]_vars
          => Newer' /\ [\A c \in Calls : cdr[c] <= cdr'[c]]_cdr
    BY <1>1, <1>4
  <2>2. QED
    BY <1>2, <1>3, <2>1, TypeCorrect, PTL DEF Spec, NoStaleOverwrite
<1>5. CASE MaxPoll <= Lease
  <2>1. TypeOK /\ PollsSane /\ AtMostOnePoller /\ Newer /\ [Next]_vars
          => Newer' /\ [\A c \in Calls : cdr[c] <= cdr'[c]]_cdr
    BY <1>1
  <2>2. Spec => []AtMostOnePoller
    BY <1>5, PollersExclude
  <2>3. QED
    BY <1>2, <1>3, <2>1, <2>2, TypeCorrect, PTL DEF Spec, NoStaleOverwrite
<1>6. QED
  BY <1>4, <1>5
====
