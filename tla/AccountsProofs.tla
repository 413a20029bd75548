--------------------------- MODULE AccountsProofs ---------------------------
(***************************************************************************)
(* Proofs about the models around users: logging in, enrolment, import and *)
(* being let in, for any number of overlapping requests, recovery codes,   *)
(* imports and users and any threshold.  The last section is about         *)
(* Accounts, which composes the four.                                      *)
(***************************************************************************)
EXTENDS Accounts, FiniteSetTheorems, TLAPS

-----------------------------------------------------------------------------
(* Logging in.                                                             *)

\* A recovery code is unused or redeemed.
CodesApart == redeemed \cap unused = {} /\ ~twice

\* Everything a login has led to was verified against the password in force or
\* was under way at the change; while a change is about to commit, what it does
\* not delete is late as well.
Fresh(l) == l.pw = user.pw \/ l.late
AllFresh ==
    /\ \A l \in pending \cup sessions : Fresh(l)
    /\ \A s \in Slots : req[s].pc \in Verified => Fresh(req[s].login)
    /\ change.pc = "commit" =>
        user.pw <= MaxChanges /\ \A l \in sessions \ change.doomed : l.late

\* Requests that are past checkLockout and may still be counted.
Among(steps) == {s \in Slots : req[s].pc \in steps}
Uncounted == {"verify", "code", "claim", "count"}

\* Failures are told apart from the counter; while the account is not locked,
\* every one from the Threshold-th on has a request about to lock it, or one
\* that failed to; and whoever may still be counted entered before the lock.
CountedFirst == guesses <= lockout.count
LockIsDue == ~Locked =>
    guesses <= Threshold - 1 + Cardinality(Among({"lock"})) + aborts
RoomForAll ==
    guesses + Cardinality(Among(Uncounted)) <= Threshold - 1 + Cardinality(Slots) + aborts

IInv == TypeOK /\ CodesApart /\ AllFresh
LockInv == TypeOK /\ CountedFirst /\ LockIsDue /\ RoomForAll

-----------------------------------------------------------------------------
(* Logging in: types.                                                      *)

\* What the steps make of a request is one.
LEMMA RequestMade ==
    ASSUME LoginAssumption
    PROVE  /\ Idle \in Request
           /\ \A l \in Login : Late(l) \in Login
           /\ \A r \in Request, pc \in Steps : [r EXCEPT !.pc = pc] \in Request
           /\ \A r \in Request, pc \in Steps, code \in Answers :
                [r EXCEPT !.pc = pc, !.code = code] \in Request
           /\ \A r \in Request, l \in Login : [r EXCEPT !.login = l] \in Request
           /\ \A r \in Request, pc \in Steps, ok \in BOOLEAN, l \in Login :
                [r EXCEPT !.pc = pc, !.ok = ok, !.login = l] \in Request
           /\ \A pc \in Steps, ok \in BOOLEAN : [Idle EXCEPT !.pc = pc, !.ok = ok] \in Request
           /\ \A pc \in Steps, code \in Answers, l \in Login :
                [Idle EXCEPT !.pc = pc, !.code = code, !.login = l] \in Request
<1>1. NoLogin \in Login /\ "wrong" \in Answers /\ "idle" \in Steps
  BY DEF LoginAssumption, NoLogin, Login, Answers, Steps
<1>2. Idle \in Request
  BY <1>1 DEF Idle, Request
<1>3. \A l \in Login : Late(l) \in Login
  BY DEF Login, Late
<1>4. QED
  BY <1>2, <1>3 DEF Request

\* The first state has the types.
LEMMA TypeInit == ASSUME LoginAssumption PROVE Init => TypeOK
<1> SUFFICES ASSUME Init PROVE TypeOK
  OBVIOUS
<1>1. NoLogin \in Login /\ "wrong" \in Answers /\ "idle" \in Steps
  BY DEF LoginAssumption, NoLogin, Login, Answers, Steps
<1>2. Idle \in Request
  BY <1>1 DEF Idle, Request
<1>3. req \in [Slots -> Request] /\ lockout \in [count : Nat, until : Nat]
  BY <1>2 DEF Init, NoLockout
<1>4. user \in [pw : 1..MaxChanges + 1, mfa : BOOLEAN]
  BY DEF LoginAssumption, Init
<1>5. change \in [pc : {"idle", "commit"}, doomed : SUBSET Login]
  BY DEF Init
<1>6. now \in 1..MaxTime /\ guesses \in 0..MaxGuesses /\ aborts \in 0..MaxAborts
  BY DEF LoginAssumption, Init
<1>7. QED
  BY <1>3, <1>4, <1>5, <1>6 DEF Init, TypeOK

\* The invariant of the password change bounds the versions it creates.
LEMMA TypeStep ==
    ASSUME LoginAssumption PROVE TypeOK /\ AllFresh /\ [Next]_vars => TypeOK'
<1> SUFFICES ASSUME TypeOK, AllFresh, [Next]_vars PROVE TypeOK'
  OBVIOUS
<1> USE DEF LoginAssumption, TypeOK, At, Goto, Done, history
<1>0. Idle \in Request
  BY RequestMade
<1>1. CASE UNCHANGED vars
  BY <1>1 DEF vars
<1>2. ASSUME NEW s \in Slots, NEW ok \in BOOLEAN, Submit(s, ok) PROVE TypeOK'
  <2>1. [Idle EXCEPT !.pc = "verify", !.ok = ok] \in Request
    BY <1>2, RequestMade DEF Submit, Steps, Answers, Login
  <2>2. req' \in [Slots -> Request]
    BY <1>2, <2>1 DEF Submit
  <2>3. QED
    BY <1>2, <2>2 DEF Submit
<1>3. ASSUME NEW s \in Slots, NEW l \in pending, NEW code \in Answers, Redeem(s, l, code)
      PROVE  TypeOK'
  <2>1. [Idle EXCEPT !.pc = "check", !.code = code, !.login = l] \in Request
    BY <1>3, RequestMade DEF Redeem, Steps, Answers, Login
  <2>2. req' \in [Slots -> Request]
    BY <1>3, <2>1 DEF Redeem
  <2>3. QED
    BY <1>3, <2>2 DEF Redeem
<1>4. ASSUME NEW s \in Slots, CheckLockout(s) PROVE TypeOK'
  <2>1. [req[s] EXCEPT !.pc = "code"] \in Request
    BY RequestMade DEF Steps
  <2>2. req' \in [Slots -> Request]
    BY <1>4, <1>0, <2>1 DEF CheckLockout
  <2>3. QED
    BY <1>4, <2>2 DEF CheckLockout
<1>5. ASSUME NEW s \in Slots, VerifyPassword(s) PROVE TypeOK'
  <2> DEFINE verified == [req[s] EXCEPT !.pc = IF user.mfa THEN "offer" ELSE "clear",
                                 !.ok = FALSE,
                                 !.login = [pw |-> user.pw, late |-> FALSE]]
  <2>1. verified \in Request /\ [Idle EXCEPT !.pc = "count"] \in Request
    <3>1. (IF user.mfa THEN "offer" ELSE "clear") \in Steps /\ "count" \in Steps
      BY DEF Steps
    <3>2. [pw |-> user.pw, late |-> FALSE] \in Login /\ "wrong" \in Answers
      BY DEF Login, Answers
    <3>3. QED
      BY <3>1, <3>2, RequestMade
  <2>2. req' \in [Slots -> Request]
    BY <1>5, <2>1 DEF VerifyPassword, Fails
  <2>3. QED
    BY <1>5, <2>2 DEF VerifyPassword
<1>6. ASSUME NEW s \in Slots, OfferMfa(s) PROVE TypeOK'
  <2>1. req' \in [Slots -> Request]
    BY <1>6, <1>0 DEF OfferMfa
  <2>2. req[s].login \in Login
    BY DEF Request
  <2>3. QED
    BY <1>6, <2>1, <2>2 DEF OfferMfa
<1>7. ASSUME NEW s \in Slots, VerifyTotp(s) PROVE TypeOK'
  <2>1. /\ [req[s] EXCEPT !.pc = "consume"] \in Request
        /\ [req[s] EXCEPT !.pc = "claim"] \in Request
        /\ [Idle EXCEPT !.pc = "count"] \in Request
    BY RequestMade DEF Steps
  <2>2. req' \in [Slots -> Request]
    BY <1>7, <2>1 DEF VerifyTotp, Fails
  <2>3. QED
    BY <1>7, <2>2 DEF VerifyTotp
<1>8. ASSUME NEW s \in Slots, ClaimCode(s) PROVE TypeOK'
  <2>1. /\ [req[s] EXCEPT !.pc = "consume", !.code = "totp"] \in Request
        /\ [Idle EXCEPT !.pc = "count"] \in Request
    BY RequestMade DEF Steps, Answers
  <2>2. req' \in [Slots -> Request]
    BY <1>8, <2>1 DEF ClaimCode, Accept, Fails
  <2>3. redeemed' \subseteq Codes /\ twice' \in BOOLEAN
    BY <1>8 DEF ClaimCode, Accept
  <2>4. QED
    BY <1>8, <2>2, <2>3 DEF ClaimCode
<1>9. ASSUME NEW s \in Slots, ConsumePending(s) PROVE TypeOK'
  <2>1. [req[s] EXCEPT !.pc = "clear", !.code = "wrong"] \in Request
    BY RequestMade DEF Steps, Answers
  <2>2. req' \in [Slots -> Request]
    BY <1>9, <2>1 DEF ConsumePending
  <2>3. QED
    BY <1>9, <2>2 DEF ConsumePending
<1>10. ASSUME NEW s \in Slots, CountFailure(s) PROVE TypeOK'
  <2>1. [req[s] EXCEPT !.pc = "lock"] \in Request
    BY RequestMade DEF Steps
  <2>2. req' \in [Slots -> Request]
    BY <1>10, <1>0, <2>1 DEF CountFailure
  <2>3. lockout' \in [count : Nat, until : Nat] /\ guesses' \in 0..MaxGuesses
    BY <1>10 DEF CountFailure
  <2>4. QED
    BY <1>10, <2>2, <2>3 DEF CountFailure
<1>11. ASSUME NEW s \in Slots, Lock(s) PROVE TypeOK'
  <2>1. req' \in [Slots -> Request]
    BY <1>11, <1>0 DEF Lock
  <2>2. lockout' \in [count : Nat, until : Nat]
    BY <1>11 DEF Lock
  <2>3. QED
    BY <1>11, <2>1, <2>2 DEF Lock
<1>12. ASSUME NEW s \in Slots, ClearLockout(s) PROVE TypeOK'
  <2>1. [req[s] EXCEPT !.pc = "session"] \in Request
    BY RequestMade DEF Steps
  <2>2. req' \in [Slots -> Request]
    BY <1>12, <2>1 DEF ClearLockout
  <2>3. QED
    BY <1>12, <2>2 DEF ClearLockout, NoLockout
<1>13. ASSUME NEW s \in Slots, CreateSession(s) PROVE TypeOK'
  <2>1. req' \in [Slots -> Request]
    BY <1>13, <1>0 DEF CreateSession
  <2>2. req[s].login \in Login /\ Late(req[s].login) \in Login
    <3>1. req[s] \in Request
      OBVIOUS
    <3>2. req[s].login \in Login
      BY <3>1 DEF Request
    <3>3. QED
      BY <3>2, RequestMade
  <2>3. QED
    BY <1>13, <2>1, <2>2 DEF CreateSession
<1>14. ASSUME NEW s \in Slots, Abort(s) PROVE TypeOK'
  <2>1. req' \in [Slots -> Request]
    BY <1>14, <1>0 DEF Abort
  <2>2. aborts' \in 0..MaxAborts
    BY <1>14 DEF Abort
  <2>3. QED
    BY <1>14, <2>1, <2>2 DEF Abort
<1>15. CASE DeleteSessions
  BY <1>15 DEF DeleteSessions
<1>16. CASE CommitChange
  <2>1. \A l \in Login : Late(l) \in Login
    BY RequestMade
  <2>2. \A s \in Slots : [req[s] EXCEPT !.login = Late(req[s].login)] \in Request
    <3> TAKE s \in Slots
    <3>1. req[s] \in Request /\ Late(req[s].login) \in Login
      BY <2>1 DEF Request
    <3>2. \A l \in Login : [req[s] EXCEPT !.login = l] \in Request
      BY <3>1, RequestMade
    <3>3. QED
      BY <3>1, <3>2
  <2>3. req' \in [Slots -> Request]
    <3>1. req' = [s \in Slots |-> IF req[s].pc \in Verified
                                THEN [req[s] EXCEPT !.login = Late(req[s].login)] ELSE req[s]]
      BY <1>16 DEF CommitChange
    <3>2. QED
      BY <3>1, <2>2
  <2>4. user' \in [pw : 1..MaxChanges + 1, mfa : BOOLEAN]
    BY <1>16 DEF CommitChange, AllFresh
  <2>5. QED
    BY <1>16, <2>1, <2>3, <2>4 DEF CommitChange
<1>17. CASE ResetMfa
  BY <1>17 DEF ResetMfa
<1>18. ASSUME NEW l \in sessions, Logout(l) PROVE TypeOK'
  <2>1. change' \in [pc : {"idle", "commit"}, doomed : SUBSET Login]
    BY <1>18 DEF Logout
  <2>2. QED
    BY <1>18, <2>1 DEF Logout
<1>19. ASSUME NEW l \in pending, ExpirePending(l) PROVE TypeOK'
  BY <1>19 DEF ExpirePending
<1>20. CASE Tick
  <2>1. now' \in 1..MaxTime /\ guesses' \in 0..MaxGuesses
    BY <1>20 DEF Tick
  <2>2. QED
    BY <1>20, <2>1 DEF Tick
<1>21. QED
  BY <1>1, <1>2, <1>3, <1>4, <1>5, <1>6, <1>7, <1>8, <1>9, <1>10, <1>11, <1>12, <1>13,
     <1>14, <1>15, <1>16, <1>17, <1>18, <1>19, <1>20
  DEF Next, Serve

-----------------------------------------------------------------------------
(* Logging in: recovery codes and password changes.                        *)

\* No step makes a redeemed recovery code usable again, or redeems one twice.
LEMMA CodesStep == TypeOK /\ CodesApart /\ [Next]_vars => CodesApart'
<1> SUFFICES ASSUME TypeOK, CodesApart, [Next]_vars PROVE CodesApart'
  OBVIOUS
<1> USE DEF CodesApart, history
<1>1. CASE UNCHANGED vars
  BY <1>1 DEF vars
<1>2. ASSUME NEW s \in Slots, NEW ok \in BOOLEAN, Submit(s, ok) PROVE CodesApart'
  BY <1>2 DEF Submit
<1>3. ASSUME NEW s \in Slots, NEW l \in pending, NEW code \in Answers, Redeem(s, l, code)
      PROVE  CodesApart'
  BY <1>3 DEF Redeem
<1>4. ASSUME NEW s \in Slots, CheckLockout(s) PROVE CodesApart'
  BY <1>4 DEF CheckLockout
<1>5. ASSUME NEW s \in Slots, VerifyPassword(s) PROVE CodesApart'
  BY <1>5 DEF VerifyPassword
<1>6. ASSUME NEW s \in Slots, OfferMfa(s) PROVE CodesApart'
  BY <1>6 DEF OfferMfa
<1>7. ASSUME NEW s \in Slots, VerifyTotp(s) PROVE CodesApart'
  BY <1>7 DEF VerifyTotp
<1>8. ASSUME NEW s \in Slots, ClaimCode(s) PROVE CodesApart'
  BY <1>8 DEF ClaimCode, Accept
<1>9. ASSUME NEW s \in Slots, ConsumePending(s) PROVE CodesApart'
  BY <1>9 DEF ConsumePending
<1>10. ASSUME NEW s \in Slots, CountFailure(s) PROVE CodesApart'
  BY <1>10 DEF CountFailure
<1>11. ASSUME NEW s \in Slots, Lock(s) PROVE CodesApart'
  BY <1>11 DEF Lock
<1>12. ASSUME NEW s \in Slots, ClearLockout(s) PROVE CodesApart'
  BY <1>12 DEF ClearLockout
<1>13. ASSUME NEW s \in Slots, CreateSession(s) PROVE CodesApart'
  BY <1>13 DEF CreateSession
<1>14. ASSUME NEW s \in Slots, Abort(s) PROVE CodesApart'
  BY <1>14 DEF Abort
<1>15. CASE DeleteSessions
  BY <1>15 DEF DeleteSessions
<1>16. CASE CommitChange
  BY <1>16 DEF CommitChange
<1>17. CASE ResetMfa
  BY <1>17 DEF ResetMfa
<1>18. ASSUME NEW l \in sessions, Logout(l) PROVE CodesApart'
  BY <1>18 DEF Logout
<1>19. ASSUME NEW l \in pending, ExpirePending(l) PROVE CodesApart'
  BY <1>19 DEF ExpirePending
<1>20. CASE Tick
  BY <1>20 DEF Tick
<1>21. QED
  BY <1>1, <1>2, <1>3, <1>4, <1>5, <1>6, <1>7, <1>8, <1>9, <1>10, <1>11, <1>12, <1>13,
     <1>14, <1>15, <1>16, <1>17, <1>18, <1>19, <1>20
  DEF Next, Serve

\* A login marked late is late and keeps its password.
LEMMA LateIsLate == \A l \in Login : Late(l).late /\ Late(l).pw = l.pw
BY DEF Login, Late

\* What a login leads to stays verified against the password in force, or late.
LEMMA FreshStep ==
    ASSUME LoginAssumption PROVE TypeOK /\ AllFresh /\ [Next]_vars => AllFresh'
<1> SUFFICES ASSUME TypeOK, AllFresh, [Next]_vars PROVE AllFresh'
  OBVIOUS
<1> USE DEF TypeOK, AllFresh, Fresh, Verified, At, Goto, Done, Idle, history
<1>1. CASE UNCHANGED vars
  BY <1>1 DEF vars, Request
<1>2. ASSUME NEW s \in Slots, NEW ok \in BOOLEAN, Submit(s, ok) PROVE AllFresh'
  BY <1>2 DEF Submit, Request
<1>3. ASSUME NEW s \in Slots, NEW l \in pending, NEW code \in Answers, Redeem(s, l, code)
      PROVE  AllFresh'
  BY <1>3 DEF Redeem, Request
<1>4. ASSUME NEW s \in Slots, CheckLockout(s) PROVE AllFresh'
  BY <1>4 DEF CheckLockout, Request
<1>5. ASSUME NEW s \in Slots, VerifyPassword(s) PROVE AllFresh'
  BY <1>5 DEF VerifyPassword, Fails, Request
<1>6. ASSUME NEW s \in Slots, OfferMfa(s) PROVE AllFresh'
  BY <1>6 DEF OfferMfa, Request
<1>7. ASSUME NEW s \in Slots, VerifyTotp(s) PROVE AllFresh'
  BY <1>7 DEF VerifyTotp, Fails, Request
<1>8. ASSUME NEW s \in Slots, ClaimCode(s) PROVE AllFresh'
  BY <1>8 DEF ClaimCode, Fails, Accept, Request
<1>9. ASSUME NEW s \in Slots, ConsumePending(s) PROVE AllFresh'
  BY <1>9 DEF ConsumePending, Request
<1>10. ASSUME NEW s \in Slots, CountFailure(s) PROVE AllFresh'
  BY <1>10 DEF CountFailure, Request
<1>11. ASSUME NEW s \in Slots, Lock(s) PROVE AllFresh'
  BY <1>11 DEF Lock, Request
<1>12. ASSUME NEW s \in Slots, ClearLockout(s) PROVE AllFresh'
  BY <1>12 DEF ClearLockout, Request
<1>13. ASSUME NEW s \in Slots, CreateSession(s) PROVE AllFresh'
  <2>1. req[s].login \in Login /\ req[s] \in Request
    BY DEF Request
  <2>2. Late(req[s].login).late
    BY <2>1, LateIsLate
  <2>3. QED
    BY <1>13, <2>2 DEF CreateSession
<1>14. ASSUME NEW s \in Slots, Abort(s) PROVE AllFresh'
  BY <1>14 DEF Abort, Request
<1>15. CASE DeleteSessions
  BY <1>15 DEF DeleteSessions, Request
<1>16. CASE CommitChange
  <2>1. \A l \in pending' : l.late
    BY <1>16, LateIsLate DEF CommitChange
  <2>2. \A s \in Slots : req'[s].pc \in Verified => req'[s].login.late
    <3> TAKE s \in Slots
    <3>1. req[s] \in Request /\ req[s].login \in Login
      BY DEF Request
    <3>2. CASE req[s].pc \in Verified
      <4>1. req'[s] = [req[s] EXCEPT !.login = Late(req[s].login)]
        BY <1>16, <3>2 DEF CommitChange
      <4>2. QED
        BY <4>1, <3>1, LateIsLate DEF Request
    <3>3. CASE req[s].pc \notin Verified
      <4>1. req'[s] = req[s]
        BY <1>16, <3>3 DEF CommitChange
      <4>2. QED
        BY <4>1, <3>3
    <3>4. QED
      BY <3>2, <3>3
  <2>3. change'.pc = "idle" /\ sessions' = sessions \ change.doomed
    BY <1>16 DEF CommitChange
  <2>4. \A l \in sessions' : l.late
    BY <1>16, <2>3 DEF CommitChange
  <2>5. QED
    BY <2>1, <2>2, <2>3, <2>4
<1>17. CASE ResetMfa
  BY <1>17 DEF ResetMfa, Request
<1>18. ASSUME NEW l \in sessions, Logout(l) PROVE AllFresh'
  BY <1>18 DEF Logout, Request
<1>19. ASSUME NEW l \in pending, ExpirePending(l) PROVE AllFresh'
  BY <1>19 DEF ExpirePending, Request
<1>20. CASE Tick
  BY <1>20 DEF Tick, Request
<1>21. QED
  BY <1>1, <1>2, <1>3, <1>4, <1>5, <1>6, <1>7, <1>8, <1>9, <1>10, <1>11, <1>12, <1>13,
     <1>14, <1>15, <1>16, <1>17, <1>18, <1>19, <1>20
  DEF Next, Serve

-----------------------------------------------------------------------------
(* Logging in: the lockout.                                                *)

\* Disjoint sets of requests are no more than the slots.
LEMMA Room ==
    ASSUME LoginAssumption, NEW X \in SUBSET Slots, NEW Y \in SUBSET Slots, X \cap Y = {}
    PROVE  /\ Cardinality(X) \in Nat /\ Cardinality(Y) \in Nat /\ Cardinality(Slots) \in Nat
           /\ Cardinality(X) + Cardinality(Y) <= Cardinality(Slots)
<1>1. IsFiniteSet(X) /\ IsFiniteSet(Y) /\ IsFiniteSet(Slots)
  BY FS_Subset DEF LoginAssumption
<1>2. Cardinality(X \cup Y) = Cardinality(X) + Cardinality(Y) - Cardinality(X \cap Y)
  BY <1>1, FS_Union
<1>3. Cardinality(X \cap Y) = 0
  BY FS_EmptySet
<1>4. Cardinality(X \cup Y) <= Cardinality(Slots)
  BY <1>1, FS_Subset
<1>5. /\ Cardinality(X) \in Nat /\ Cardinality(Y) \in Nat /\ Cardinality(Slots) \in Nat
  BY <1>1, FS_CardinalityType
<1>6. QED
  BY <1>2, <1>3, <1>4, <1>5

\* A step of one request changes the size of a set of requests by that one.
LEMMA MovesIn ==
    ASSUME LoginAssumption, NEW s \in Slots, NEW P,
           \A t \in Slots \ {s} : req'[t].pc = req[t].pc
    PROVE  Cardinality(Among(P)') = Cardinality(Among(P))
             + (IF req'[s].pc \in P THEN 1 ELSE 0) - (IF req[s].pc \in P THEN 1 ELSE 0)
<1>1. IsFiniteSet(Among(P)) /\ Cardinality(Among(P)) \in Nat
  BY FS_Subset, FS_CardinalityType DEF LoginAssumption, Among
<1>2. CASE req'[s].pc \in P /\ req[s].pc \notin P
  <2>1. Among(P)' = Among(P) \cup {s} /\ s \notin Among(P)
    BY <1>2 DEF Among
  <2>2. Cardinality(Among(P) \cup {s}) = Cardinality(Among(P)) + 1
    BY <1>1, <2>1, FS_AddElement
  <2>3. QED
    BY <1>1, <1>2, <2>1, <2>2
<1>3. CASE req'[s].pc \notin P /\ req[s].pc \in P
  <2>1. Among(P)' = Among(P) \ {s} /\ s \in Among(P)
    BY <1>3 DEF Among
  <2>2. Cardinality(Among(P) \ {s}) = Cardinality(Among(P)) - 1
    BY <1>1, <2>1, FS_RemoveElement
  <2>3. QED
    BY <1>1, <1>3, <2>1, <2>2
<1>4. CASE req'[s].pc \in P <=> req[s].pc \in P
  <2>1. Among(P)' = Among(P)
    BY <1>4 DEF Among
  <2>2. QED
    BY <1>1, <1>4, <2>1
<1>5. QED
  BY <1>2, <1>3, <1>4

\* What a step of one request does to how many are about to lock or uncounted.
LEMMA Moves ==
    ASSUME LoginAssumption, NEW s \in Slots,
           \A t \in Slots \ {s} : req'[t].pc = req[t].pc
    PROVE  /\ Cardinality(Among({"lock"})') = Cardinality(Among({"lock"}))
                + (IF req'[s].pc = "lock" THEN 1 ELSE 0) - (IF req[s].pc = "lock" THEN 1 ELSE 0)
           /\ Cardinality(Among(Uncounted)') = Cardinality(Among(Uncounted))
                + (IF req'[s].pc \in Uncounted THEN 1 ELSE 0)
                - (IF req[s].pc \in Uncounted THEN 1 ELSE 0)
<1>1. req'[s].pc \in {"lock"} <=> req'[s].pc = "lock"
  OBVIOUS
<1>2. req[s].pc \in {"lock"} <=> req[s].pc = "lock"
  OBVIOUS
<1>3. QED
  BY <1>1, <1>2, MovesIn

\* A step that moves no request leaves both sets alone.
LEMMA Still ==
    ASSUME \A t \in Slots : req'[t].pc = req[t].pc
    PROVE  Among({"lock"})' = Among({"lock"}) /\ Among(Uncounted)' = Among(Uncounted)
BY DEF Among, Uncounted

\* Every counted failure from the Threshold-th on either starts to lock or was
\* counted after the lock had begun, by a request that was in before.
LEMMA LockStep ==
    ASSUME LoginAssumption PROVE LockInv /\ TypeOK' /\ [Next]_vars => LockInv'
<1> SUFFICES ASSUME LockInv, TypeOK', [Next]_vars PROVE LockInv'
  OBVIOUS
<1> USE DEF LoginAssumption, LockInv, TypeOK, CountedFirst, LockIsDue, RoomForAll, Locked,
            At, Goto, Done, Uncounted, history
<1>r. /\ Cardinality(Slots) \in Nat
      /\ Cardinality(Among({"lock"})) \in Nat /\ Cardinality(Among({"lock"})') \in Nat
      /\ Cardinality(Among(Uncounted)) \in Nat /\ Cardinality(Among(Uncounted)') \in Nat
      /\ Cardinality(Among({"lock"})) + Cardinality(Among(Uncounted)) <= Cardinality(Slots)
      /\ Cardinality(Among({"lock"})') + Cardinality(Among(Uncounted)') <= Cardinality(Slots)
  <2>1. /\ Among({"lock"}) \in SUBSET Slots /\ Among(Uncounted) \in SUBSET Slots
        /\ Among({"lock"}) \cap Among(Uncounted) = {}
    BY DEF Among
  <2>2. /\ Among({"lock"})' \in SUBSET Slots /\ Among(Uncounted)' \in SUBSET Slots
        /\ Among({"lock"})' \cap Among(Uncounted)' = {}
    BY DEF Among
  <2>3. QED
    BY <2>1, <2>2, Room
<1>1. CASE UNCHANGED vars
  <2>1. \A t \in Slots : req'[t].pc = req[t].pc
    BY <1>1 DEF vars
  <2>2. QED
    BY <1>1, <2>1, Still, <1>r DEF vars
<1>2. ASSUME NEW s \in Slots, NEW ok \in BOOLEAN, Submit(s, ok) PROVE LockInv'
  <2>1. /\ req[s].pc = "idle" /\ req'[s].pc = "verify"
        /\ \A t \in Slots \ {s} : req'[t].pc = req[t].pc
    BY <1>2 DEF Submit, Idle, Request
  <2>2. QED
    BY <1>2, <2>1, Moves, <1>r DEF Submit
<1>3. ASSUME NEW s \in Slots, NEW l \in pending, NEW code \in Answers, Redeem(s, l, code)
      PROVE  LockInv'
  <2>1. /\ req[s].pc = "idle" /\ req'[s].pc = "check"
        /\ \A t \in Slots \ {s} : req'[t].pc = req[t].pc
    BY <1>3 DEF Redeem, Idle, Request
  <2>2. QED
    BY <1>3, <2>1, Moves, <1>r DEF Redeem
<1>4. ASSUME NEW s \in Slots, CheckLockout(s) PROVE LockInv'
  <2>1. /\ req[s].pc = "check" /\ req'[s].pc = (IF Locked THEN "idle" ELSE "code")
        /\ \A t \in Slots \ {s} : req'[t].pc = req[t].pc
    BY <1>4 DEF CheckLockout, Idle, Request
  <2>2. now' = now /\ lockout' = lockout /\ guesses' = guesses /\ aborts' = aborts
    BY <1>4 DEF CheckLockout
  <2>3. QED
    BY <2>1, <2>2, Moves, <1>r
<1>5. ASSUME NEW s \in Slots, VerifyPassword(s) PROVE LockInv'
  <2>1. /\ req[s].pc = "verify" /\ req'[s].pc \in {"offer", "clear", "count"}
        /\ \A t \in Slots \ {s} : req'[t].pc = req[t].pc
    BY <1>5 DEF VerifyPassword, Idle, Request, Fails
  <2>2. QED
    BY <1>5, <2>1, Moves, <1>r DEF VerifyPassword, Fails
<1>6. ASSUME NEW s \in Slots, OfferMfa(s) PROVE LockInv'
  <2>1. /\ req[s].pc = "offer" /\ req'[s].pc = "idle"
        /\ \A t \in Slots \ {s} : req'[t].pc = req[t].pc
    BY <1>6 DEF OfferMfa, Idle, Request
  <2>2. QED
    BY <1>6, <2>1, Moves, <1>r DEF OfferMfa
<1>7. ASSUME NEW s \in Slots, VerifyTotp(s) PROVE LockInv'
  <2>1. /\ req[s].pc = "code" /\ req'[s].pc \in {"count", "consume", "claim"}
        /\ \A t \in Slots \ {s} : req'[t].pc = req[t].pc
    BY <1>7 DEF VerifyTotp, Idle, Request, Fails
  <2>2. QED
    BY <1>7, <2>1, Moves, <1>r DEF VerifyTotp, Fails
<1>8. ASSUME NEW s \in Slots, ClaimCode(s) PROVE LockInv'
  <2>1. /\ req[s].pc = "claim" /\ req'[s].pc \in {"consume", "count"}
        /\ \A t \in Slots \ {s} : req'[t].pc = req[t].pc
    BY <1>8 DEF ClaimCode, Idle, Request, Accept, Fails
  <2>2. QED
    BY <1>8, <2>1, Moves, <1>r DEF ClaimCode, Accept, Fails
<1>9. ASSUME NEW s \in Slots, ConsumePending(s) PROVE LockInv'
  <2>1. /\ req[s].pc = "consume" /\ req'[s].pc = "clear"
        /\ \A t \in Slots \ {s} : req'[t].pc = req[t].pc
    BY <1>9 DEF ConsumePending, Idle, Request
  <2>2. QED
    BY <1>9, <2>1, Moves, <1>r DEF ConsumePending
<1>10. ASSUME NEW s \in Slots, CountFailure(s) PROVE LockInv'
  <2>1. /\ req[s].pc = "count" /\ req'[s].pc = (IF lockout.count + 1 >= Threshold THEN "lock" ELSE "idle")
        /\ \A t \in Slots \ {s} : req'[t].pc = req[t].pc
    BY <1>10 DEF CountFailure, Idle, Request
  <2>2. /\ now' = now /\ guesses' = guesses + 1 /\ aborts' = aborts
        /\ lockout'.count = lockout.count + 1 /\ lockout'.until = lockout.until
    BY <1>10 DEF CountFailure
  <2>3. QED
    BY <2>1, <2>2, Moves, <1>r
<1>11. ASSUME NEW s \in Slots, Lock(s) PROVE LockInv'
  <2>1. /\ req[s].pc = "lock" /\ req'[s].pc = "idle"
        /\ \A t \in Slots \ {s} : req'[t].pc = req[t].pc
    BY <1>11 DEF Lock, Idle, Request, NoLockout
  <2>2. /\ now' = now /\ guesses' = guesses /\ aborts' = aborts /\ lockout'.count = lockout.count
        /\ (lockout.count = 0 /\ lockout'.until = 0) \/ lockout'.until = now + Duration
    BY <1>11 DEF Lock, NoLockout
  <2>3. QED
    BY <2>1, <2>2, Moves, <1>r
<1>12. ASSUME NEW s \in Slots, ClearLockout(s) PROVE LockInv'
  <2>1. /\ req[s].pc = "clear" /\ req'[s].pc = "session"
        /\ \A t \in Slots \ {s} : req'[t].pc = req[t].pc
    BY <1>12 DEF ClearLockout, Idle, Request, NoLockout
  <2>2. /\ now' = now /\ guesses' = 0 /\ aborts' = aborts
        /\ lockout'.count = 0 /\ lockout'.until = 0
    BY <1>12 DEF ClearLockout, NoLockout
  <2>3. QED
    BY <2>1, <2>2, Moves, <1>r
<1>13. ASSUME NEW s \in Slots, CreateSession(s) PROVE LockInv'
  <2>1. /\ req[s].pc = "session" /\ req'[s].pc = "idle"
        /\ \A t \in Slots \ {s} : req'[t].pc = req[t].pc
    BY <1>13 DEF CreateSession, Idle, Request
  <2>2. QED
    BY <1>13, <2>1, Moves, <1>r DEF CreateSession
<1>14. ASSUME NEW s \in Slots, Abort(s) PROVE LockInv'
  <2>1. /\ req'[s].pc = "idle"
        /\ \A t \in Slots \ {s} : req'[t].pc = req[t].pc
    BY <1>14 DEF Abort, Idle, Request
  <2>2. QED
    BY <1>14, <2>1, Moves, <1>r DEF Abort
<1>15. CASE DeleteSessions
  <2>1. \A t \in Slots : req'[t].pc = req[t].pc
    BY <1>15 DEF DeleteSessions
  <2>2. QED
    BY <1>15, <2>1, Still, <1>r DEF DeleteSessions
<1>16. CASE CommitChange
  <2>1. \A t \in Slots : req'[t].pc = req[t].pc
    BY <1>16 DEF CommitChange, Request
  <2>2. QED
    BY <1>16, <2>1, Still, <1>r DEF CommitChange, Request
<1>17. CASE ResetMfa
  <2>1. \A t \in Slots : req'[t].pc = req[t].pc
    BY <1>17 DEF ResetMfa
  <2>2. QED
    BY <1>17, <2>1, Still, <1>r DEF ResetMfa
<1>18. ASSUME NEW l \in sessions, Logout(l) PROVE LockInv'
  <2>1. \A t \in Slots : req'[t].pc = req[t].pc
    BY <1>18 DEF Logout
  <2>2. QED
    BY <1>18, <2>1, Still, <1>r DEF Logout
<1>19. ASSUME NEW l \in pending, ExpirePending(l) PROVE LockInv'
  <2>1. \A t \in Slots : req'[t].pc = req[t].pc
    BY <1>19 DEF ExpirePending
  <2>2. QED
    BY <1>19, <2>1, Still, <1>r DEF ExpirePending
<1>20. CASE Tick
  <2>1. \A t \in Slots : req'[t].pc = req[t].pc
    BY <1>20 DEF Tick
  <2>2. /\ now' = now + 1 /\ lockout' = lockout /\ aborts' = aborts
        /\ guesses' = 0 \/ (guesses' = guesses /\ lockout.until # now + 1)
    BY <1>20 DEF Tick
  <2>3. /\ Among({"lock"})' = Among({"lock"}) /\ Among(Uncounted)' = Among(Uncounted)
    BY <2>1, Still
  <2>4. CASE guesses' = 0
    BY <2>2, <2>4, <1>r
  <2>5. CASE guesses' = guesses /\ lockout.until # now + 1
    <3>1. ~Locked' => ~Locked
      BY <2>2, <2>5
    <3>2. QED
      BY <2>2, <2>3, <2>5, <3>1
  <2>6. QED
    BY <2>2, <2>4, <2>5
<1>21. QED
  BY <1>1, <1>2, <1>3, <1>4, <1>5, <1>6, <1>7, <1>8, <1>9, <1>10, <1>11, <1>12, <1>13,
     <1>14, <1>15, <1>16, <1>17, <1>18, <1>19, <1>20
  DEF Next, Serve

-----------------------------------------------------------------------------
(* Logging in: theorems.                                                   *)

\* The inductive invariant of logins holds in every reachable state.
LEMMA LoginInductive == ASSUME LoginAssumption PROVE Spec => [](IInv /\ LockInv)
<1>1. Init => IInv /\ LockInv
  <2> SUFFICES ASSUME Init PROVE IInv /\ LockInv
    OBVIOUS
  <2>1. TypeOK
    BY TypeInit
  <2>2. CodesApart /\ AllFresh
    BY DEF Init, CodesApart, AllFresh, Idle, Verified
  <2>3. Among({"lock"}) = {} /\ Among(Uncounted) = {}
    BY DEF Init, Idle, Among, Uncounted
  <2>4. Cardinality({}) = 0 /\ Cardinality(Slots) \in Nat
    BY FS_EmptySet, FS_CardinalityType DEF LoginAssumption
  <2>5. CountedFirst /\ LockIsDue /\ RoomForAll
    <3>1. guesses = 0 /\ lockout.count = 0 /\ aborts = 0
      BY DEF Init, NoLockout
    <3>2. Cardinality(Among({"lock"})) = 0 /\ Cardinality(Among(Uncounted)) = 0
      BY <2>3, <2>4
    <3>3. Threshold \in Nat \ {0}
      BY DEF LoginAssumption
    <3>4. QED
      BY <2>4, <3>1, <3>2, <3>3 DEF CountedFirst, LockIsDue, RoomForAll
  <2>6. QED
    BY <2>1, <2>2, <2>5 DEF IInv, LockInv
<1>2. IInv /\ LockInv /\ [Next]_vars => IInv' /\ LockInv'
  BY TypeStep, CodesStep, FreshStep, LockStep DEF IInv, LockInv
<1>3. QED
  BY <1>1, <1>2, PTL DEF Spec

\* Every variable keeps its type.
THEOREM LoginTypeCorrect == ASSUME LoginAssumption PROVE Spec => []TypeOK
<1>1. IInv => TypeOK
  BY DEF IInv
<1>2. QED
  BY <1>1, LoginInductive, PTL

\* However many requests present a recovery code at once, one is let in.
THEOREM CodesLogInOnce == ASSUME LoginAssumption PROVE Spec => []CodeUsedOnce
<1>1. IInv => CodeUsedOnce
  BY DEF IInv, CodesApart, CodeUsedOnce
<1>2. QED
  BY <1>1, LoginInductive, PTL

\* A password change leaves no session of the old password but those of logins
\* that were under way: each is fresh or late from verifyPassword on.
THEOREM OldPasswordsOut ==
    ASSUME LoginAssumption PROVE Spec => []OldPasswordSessionsAreLate
<1>1. IInv => OldPasswordSessionsAreLate
  BY DEF IInv, AllFresh, Fresh, OldPasswordSessionsAreLate
<1>2. QED
  BY <1>1, LoginInductive, PTL

\* For every threshold and number of parallel requests: the attempts told apart
\* before the lock bites exceed the threshold by at most one for each other
\* request and each lock that failed to be written.
THEOREM GuessesAreBounded == ASSUME LoginAssumption PROVE Spec => []GuessesBounded
<1>1. LockInv => GuessesBounded
  <2> SUFFICES ASSUME LockInv PROVE GuessesBounded
    OBVIOUS
  <2> DEFINE counting == {s \in Slots : At(s, "count")}
  <2>1. counting \subseteq Among(Uncounted) /\ Among(Uncounted) \subseteq Slots
    BY DEF At, Among, Uncounted
  <2>2. IsFiniteSet(Among(Uncounted)) /\ Cardinality(Slots) \in Nat
    BY <2>1, FS_Subset, FS_CardinalityType DEF LoginAssumption
  <2>3. IsFiniteSet(counting) /\ Cardinality(counting) <= Cardinality(Among(Uncounted))
    BY <2>1, <2>2, FS_Subset
  <2>4. Cardinality(counting) \in Nat /\ Cardinality(Among(Uncounted)) \in Nat
    BY <2>2, <2>3, FS_CardinalityType
  <2>5. guesses + Cardinality(counting) <= Threshold - 1 + Cardinality(Slots) + aborts
    BY <2>2, <2>3, <2>4 DEF LockInv, RoomForAll, TypeOK, LoginAssumption
  <2>6. QED
    BY <2>2, <2>5 DEF GuessesBounded, LockInv, TypeOK, LoginAssumption
<1>2. QED
  BY <1>1, LoginInductive, PTL

-----------------------------------------------------------------------------
(* Enrolling a second factor.                                              *)

\* A confirmation under way that no race has hit still holds the secret of the
\* row, which it has verified; one that has enabled MFA leaves it enabled.
ConfirmHoldsSecret ==
    ~torn => \A s \in Requests : op[s].kind = "confirm" =>
        /\ op[s].pc \in {"enable", "codes"}
        /\ op[s].secret = row.secret /\ row.secret \in proven
        /\ op[s].pc = "codes" => row.enabled

EnrolmentInv == EnrolmentTypeOK /\ RequiredIsProven /\ ConfirmHoldsSecret

\* Every variable has its type at first ...
LEMMA EnrolmentTypeInit == EnrolmentInit => EnrolmentTypeOK
<1> SUFFICES ASSUME EnrolmentInit PROVE EnrolmentTypeOK
  OBVIOUS
<1>1. op \in [Requests -> [kind : Kinds, pc : OpSteps, secret : Secrets \cup {Null}]]
  BY DEF EnrolmentInit, NoOp, Kinds, OpSteps
<1>2. \A s \in Requests : op[s].kind # "confirm"
  BY DEF EnrolmentInit, NoOp
<1>3. row \in [enabled : BOOLEAN, secret : Secrets \cup {Null}]
  BY DEF EnrolmentInit
<1>4. issued \in 0..MaxSecret /\ cuts \in 0..MaxCuts
  BY EnrolmentAssumption DEF EnrolmentInit
<1>5. QED
  BY <1>1, <1>2, <1>3, <1>4 DEF EnrolmentInit, EnrolmentTypeOK, Null

\* ... and every step keeps it.
LEMMA EnrolmentTypeStep == EnrolmentTypeOK /\ [EnrolmentNext]_enrolmentVars => EnrolmentTypeOK'
<1> SUFFICES ASSUME EnrolmentTypeOK, [EnrolmentNext]_enrolmentVars PROVE EnrolmentTypeOK'
  OBVIOUS
<1> USE EnrolmentAssumption DEF EnrolmentTypeOK, NoOp, Kinds, OpSteps, Secrets, Null, Doing,
                                Proceed, Finish, Start
<1>1. CASE UNCHANGED enrolmentVars
  BY <1>1 DEF enrolmentVars
<1>2. ASSUME NEW s \in Requests, Begin(s) PROVE EnrolmentTypeOK'
  BY <1>2 DEF Begin
<1>3. ASSUME NEW s \in Requests, StoreSecret(s) PROVE EnrolmentTypeOK'
  BY <1>3 DEF StoreSecret, TornByStore, Confirming
<1>4. ASSUME NEW s \in Requests, Scan(s) PROVE EnrolmentTypeOK'
  BY <1>4 DEF Scan
<1>5. ASSUME NEW s \in Requests, ReadSecret(s) PROVE EnrolmentTypeOK'
  <2>1. row.secret \in Secrets /\ scanned = row.secret
    BY <1>5 DEF ReadSecret
  <2>2. op' \in [Requests -> [kind : Kinds, pc : OpSteps, secret : Secrets \cup {Null}]]
    BY <1>5, <2>1 DEF ReadSecret
  <2>3. \A r \in Requests : op'[r].kind = "confirm" => op'[r].secret \in Secrets
    BY <1>5, <2>1 DEF ReadSecret
  <2>4. QED
    BY <1>5, <2>1, <2>2, <2>3 DEF ReadSecret
<1>6. ASSUME NEW s \in Requests, Enable(s) PROVE EnrolmentTypeOK'
  BY <1>6 DEF Enable
<1>7. ASSUME NEW s \in Requests, InsertCodes(s) PROVE EnrolmentTypeOK'
  <2>1. op[s].secret \in Secrets
    BY <1>7 DEF InsertCodes
  <2>2. codes' \subseteq Secrets
    BY <1>7, <2>1 DEF InsertCodes
  <2>3. op' \in [Requests -> [kind : Kinds, pc : OpSteps, secret : Secrets \cup {Null}]]
    BY <1>7 DEF InsertCodes
  <2>4. \A r \in Requests : op'[r].kind = "confirm" => op'[r].secret \in Secrets
    BY <1>7 DEF InsertCodes
  <2>5. QED
    BY <1>7, <2>2, <2>3, <2>4 DEF InsertCodes
<1>8. ASSUME NEW s \in Requests, VerifyToDisable(s) PROVE EnrolmentTypeOK'
  <2>1. codes' \subseteq Secrets
    BY <1>8 DEF VerifyToDisable
  <2>2. op' \in [Requests -> [kind : Kinds, pc : OpSteps, secret : Secrets \cup {Null}]]
    BY <1>8 DEF VerifyToDisable
  <2>3. \A r \in Requests : op'[r].kind = "confirm" => op'[r].secret \in Secrets
    BY <1>8 DEF VerifyToDisable
  <2>4. QED
    BY <1>8, <2>1, <2>2, <2>3 DEF VerifyToDisable
<1>9. ASSUME NEW s \in Requests, Reset(s) PROVE EnrolmentTypeOK'
  BY <1>9 DEF Reset
<1>10. ASSUME NEW s \in Requests, ClearRow(s) PROVE EnrolmentTypeOK'
  BY <1>10 DEF ClearRow, TornByClear, Confirming
<1>11. ASSUME NEW s \in Requests, DeleteCodes(s) PROVE EnrolmentTypeOK'
  BY <1>11 DEF DeleteCodes
<1>12. ASSUME NEW s \in Requests, CutShort(s) PROVE EnrolmentTypeOK'
  BY <1>12 DEF CutShort, TornByAbort
<1>13. QED
  BY <1>1, <1>2, <1>3, <1>4, <1>5, <1>6, <1>7, <1>8, <1>9, <1>10, <1>11,
     <1>12 DEF EnrolmentNext

\* Every variable keeps its type.
THEOREM EnrolmentTypeCorrect == EnrolmentSpec => []EnrolmentTypeOK
<1>1. QED
  BY EnrolmentTypeInit, EnrolmentTypeStep, PTL DEF EnrolmentSpec

\* Both conjuncts of the invariant beyond the types hold together: a
\* confirmation holds the row's secret until it has written.
LEMMA EnrolmentInductive == EnrolmentSpec => []EnrolmentInv
<1>1. EnrolmentInit => EnrolmentInv
  <2> SUFFICES ASSUME EnrolmentInit PROVE EnrolmentInv
    OBVIOUS
  <2>1. EnrolmentTypeOK
    BY EnrolmentTypeInit
  <2>2. QED
    BY <2>1 DEF EnrolmentInit, EnrolmentInv, RequiredIsProven, ConfirmHoldsSecret, NoOp
<1>2. EnrolmentInv /\ [EnrolmentNext]_enrolmentVars => EnrolmentInv'
  <2> SUFFICES ASSUME EnrolmentInv, [EnrolmentNext]_enrolmentVars PROVE EnrolmentInv'
    OBVIOUS
  <2>1. EnrolmentTypeOK'
    BY EnrolmentTypeStep DEF EnrolmentInv
  <2>2. RequiredIsProven' /\ ConfirmHoldsSecret'
    <3> USE DEF EnrolmentInv, EnrolmentTypeOK, RequiredIsProven, ConfirmHoldsSecret, NoOp, Doing, Proceed,
                Finish, Start
    <3>1. CASE UNCHANGED enrolmentVars
      BY <3>1 DEF enrolmentVars
    <3>2. ASSUME NEW s \in Requests, Begin(s)
          PROVE RequiredIsProven' /\ ConfirmHoldsSecret'
      BY <3>2 DEF Begin
    <3>3. ASSUME NEW s \in Requests, StoreSecret(s)
          PROVE RequiredIsProven' /\ ConfirmHoldsSecret'
      BY <3>3 DEF StoreSecret, TornByStore, Confirming
    <3>4. ASSUME NEW s \in Requests, Scan(s)
          PROVE RequiredIsProven' /\ ConfirmHoldsSecret'
      BY <3>4 DEF Scan
    <3>5. ASSUME NEW s \in Requests, ReadSecret(s)
          PROVE RequiredIsProven' /\ ConfirmHoldsSecret'
      BY <3>5 DEF ReadSecret
    <3>6. ASSUME NEW s \in Requests, Enable(s)
          PROVE RequiredIsProven' /\ ConfirmHoldsSecret'
      BY <3>6 DEF Enable
    <3>7. ASSUME NEW s \in Requests, InsertCodes(s)
          PROVE RequiredIsProven' /\ ConfirmHoldsSecret'
      BY <3>7 DEF InsertCodes
    <3>8. ASSUME NEW s \in Requests, VerifyToDisable(s)
          PROVE RequiredIsProven' /\ ConfirmHoldsSecret'
      BY <3>8 DEF VerifyToDisable
    <3>9. ASSUME NEW s \in Requests, Reset(s)
          PROVE RequiredIsProven' /\ ConfirmHoldsSecret'
      BY <3>9 DEF Reset
    <3>10. ASSUME NEW s \in Requests, ClearRow(s)
           PROVE RequiredIsProven' /\ ConfirmHoldsSecret'
      BY <3>10 DEF ClearRow, TornByClear, Confirming
    <3>11. ASSUME NEW s \in Requests, DeleteCodes(s)
           PROVE RequiredIsProven' /\ ConfirmHoldsSecret'
      BY <3>11 DEF DeleteCodes
    <3>12. ASSUME NEW s \in Requests, CutShort(s)
           PROVE RequiredIsProven' /\ ConfirmHoldsSecret'
      BY <3>12 DEF CutShort, TornByAbort
    <3>13. QED
      BY <3>1, <3>2, <3>3, <3>4, <3>5, <3>6, <3>7, <3>8, <3>9, <3>10, <3>11,
         <3>12 DEF EnrolmentNext
  <2>3. QED
    BY <2>1, <2>2 DEF EnrolmentInv
<1>3. QED
  BY <1>1, <1>2, PTL DEF EnrolmentSpec

\* Whatever begins, confirmations, disables and resets overlap, MFA is required
\* only with a secret a code was verified for, unless one of the three races
\* named in Enrolment hit.
THEOREM RequiredOnceProven == EnrolmentSpec => []RequiredIsProven
<1>1. EnrolmentInv => RequiredIsProven
  BY DEF EnrolmentInv
<1>2. QED
  BY <1>1, EnrolmentInductive, PTL

\* Under the same exceptions the recovery codes that work are those of the
\* enrolment in force: a confirmation inserts them while MFA is still enabled
\* with its secret, and who clears the row deletes them.
THEOREM CodesBelong == EnrolmentSpec => []CodesOfThisEnrolment
<1>1. EnrolmentInit => CodesOfThisEnrolment
  BY DEF EnrolmentInit, CodesOfThisEnrolment
<1>2. EnrolmentInv /\ CodesOfThisEnrolment /\ [EnrolmentNext]_enrolmentVars => CodesOfThisEnrolment'
  <2> SUFFICES ASSUME EnrolmentInv, CodesOfThisEnrolment, [EnrolmentNext]_enrolmentVars
               PROVE CodesOfThisEnrolment'
    OBVIOUS
  <2> USE DEF EnrolmentInv, EnrolmentTypeOK, ConfirmHoldsSecret, CodesOfThisEnrolment, NoOp, Doing,
              Proceed, Finish, Start
  <2>1. CASE UNCHANGED enrolmentVars
    BY <2>1 DEF enrolmentVars
  <2>2. ASSUME NEW s \in Requests, Begin(s) PROVE CodesOfThisEnrolment'
    BY <2>2 DEF Begin
  <2>3. ASSUME NEW s \in Requests, StoreSecret(s) PROVE CodesOfThisEnrolment'
    BY <2>3 DEF StoreSecret, TornByStore
  <2>4. ASSUME NEW s \in Requests, Scan(s) PROVE CodesOfThisEnrolment'
    BY <2>4 DEF Scan
  <2>5. ASSUME NEW s \in Requests, ReadSecret(s) PROVE CodesOfThisEnrolment'
    BY <2>5 DEF ReadSecret
  <2>6. ASSUME NEW s \in Requests, Enable(s) PROVE CodesOfThisEnrolment'
    BY <2>6 DEF Enable
  <2>7. ASSUME NEW s \in Requests, InsertCodes(s) PROVE CodesOfThisEnrolment'
    BY <2>7 DEF InsertCodes
  <2>8. ASSUME NEW s \in Requests, VerifyToDisable(s) PROVE CodesOfThisEnrolment'
    BY <2>8 DEF VerifyToDisable
  <2>9. ASSUME NEW s \in Requests, Reset(s) PROVE CodesOfThisEnrolment'
    BY <2>9 DEF Reset
  <2>10. ASSUME NEW s \in Requests, ClearRow(s) PROVE CodesOfThisEnrolment'
    BY <2>10 DEF ClearRow
  <2>11. ASSUME NEW s \in Requests, DeleteCodes(s) PROVE CodesOfThisEnrolment'
    BY <2>11 DEF DeleteCodes
  <2>12. ASSUME NEW s \in Requests, CutShort(s) PROVE CodesOfThisEnrolment'
    BY <2>12 DEF CutShort, TornByAbort
  <2>13. QED
    BY <2>1, <2>2, <2>3, <2>4, <2>5, <2>6, <2>7, <2>8, <2>9, <2>10, <2>11,
       <2>12 DEF EnrolmentNext
<1>3. QED
  BY <1>1, <1>2, EnrolmentInductive, PTL DEF EnrolmentSpec

-----------------------------------------------------------------------------
(* Importing a configuration.                                              *)

Names == UNION {KeyNames[u] : u \in Users}
Keys == Users \X Names

ImportRecords ==
    [pc : I!Steps, byUsername : [Users -> I!Makers \cup {I!None}],
     users : SUBSET Users, keys : SUBSET Keys, missing : SUBSET Keys,
     made : SUBSET (Users \X (Names \cup {I!Password}))]

ImportTypes ==
    /\ account \in [Users -> I!Makers \cup {I!None}]
    /\ key \in [Users -> SUBSET (Names \X Imports)]
    /\ \A u \in Users : key[u] \subseteq KeyNames[u] \X Imports
    /\ import \in [Imports -> ImportRecords]
    /\ deleted \subseteq Users /\ errors \in 0..MaxErrors

\* There is a key of that name, or its owner has been deleted.
HasKey(k) == k[1] \in deleted \/ \E made \in key[k[1]] : made[1] = k[2]

\* What an import that is under way knows of the user u ...
ImportOfUser(i, u) ==
    LET m == import[i]
    IN /\ m.byUsername[u] # I!None => u \in deleted \/ account[u] = m.byUsername[u]
       /\ account[u] = i => <<u, I!Password>> \in m.made
       /\ <<u, I!Password>> \in m.made => u \in deleted \/ account[u] = i
       /\ u \in ExportedBy[i] => u \in m.users \/ m.byUsername[u] # I!None
       /\ \A n \in KeyNames[u] :
             <<u, n>> \in m.made => u \in deleted \/ <<n, i>> \in key[u]

\* ... and of the whole bundle.
ImportOf(i) ==
    LET m == import[i]
    IN /\ m.users \subseteq ExportedBy[i]
       /\ m.keys \cup m.missing \subseteq I!Bundle(i).keys
       /\ m.pc = "new" => \A u \in Users : account[u] # i
       /\ m.pc # "create" => m.users = {} /\ m.keys = {} /\ m.missing = {}
       /\ m.pc = "create" =>
             /\ \A u \in Users : ImportOfUser(i, u)
             /\ \A k \in I!Bundle(i).keys : k \in m.keys \cup m.missing \/ HasKey(k)

ImportInv == ImportTypes /\ I!ImportDelivers /\ \A i \in Imports : ImportOf(i)

\* The names the model gives are apart.
LEMMA ImportNames ==
  ASSUME I!ImportAssumption
  PROVE  /\ I!None \notin Imports /\ I!Elsewhere \notin Imports
         /\ I!None # I!Elsewhere
         /\ I!None \notin I!Makers
         /\ Imports \subseteq I!Makers /\ I!Elsewhere \in I!Makers
         /\ \A i \in Imports : ExportedBy[i] \subseteq Users
         /\ \A u \in Users : I!Password \notin KeyNames[u]
         /\ MaxErrors \in Nat
BY DEF I!ImportAssumption, I!None, I!Elsewhere, I!Makers

\* A bundle holds the keys of its users.
LEMMA BundleIs ==
  ASSUME I!ImportAssumption, NEW i \in Imports
  PROVE  /\ I!Bundle(i).users = ExportedBy[i]
         /\ I!Bundle(i).keys \subseteq Keys
         /\ \A k \in I!Bundle(i).keys :
               /\ k = <<k[1], k[2]>> /\ k[1] \in ExportedBy[i] /\ k[1] \in Users
               /\ k[2] \in KeyNames[k[1]] /\ k[2] \in Names
<1>1. I!Bundle(i) = [users |-> ExportedBy[i],
                     keys |-> {k \in I!BundleKeys(i) : k[2] \in KeyNames[k[1]]}]
  BY DEF I!Bundle
<1>2. \A k \in I!BundleKeys(i) :
         k = <<k[1], k[2]>> /\ k[1] \in ExportedBy[i] /\ k[1] \in Users /\ k[2] \in Names
  BY ImportNames DEF I!BundleKeys, Names
<1>3. \A k \in I!Bundle(i).keys : k \in I!BundleKeys(i) /\ k[2] \in KeyNames[k[1]]
  BY <1>1
<1>4. QED
  BY <1>1, <1>2, <1>3 DEF Keys

\* An import that holds nothing is well typed.
LEMMA NothingType ==
  /\ I!Nothing \in ImportRecords
  /\ \A pc \in I!Steps :
        /\ [I!Nothing EXCEPT !.pc = pc] \in ImportRecords
        /\ [I!Nothing EXCEPT !.pc = pc].pc = pc
        /\ [I!Nothing EXCEPT !.pc = pc].users = {}
        /\ [I!Nothing EXCEPT !.pc = pc].keys = {}
        /\ [I!Nothing EXCEPT !.pc = pc].missing = {}
<1>1. [u \in Users |-> I!None] \in [Users -> I!Makers \cup {I!None}]
  OBVIOUS
<1>2. /\ I!Nothing \in ImportRecords
      /\ I!Nothing.users = {} /\ I!Nothing.keys = {} /\ I!Nothing.missing = {}
  BY <1>1 DEF I!Nothing, ImportRecords, I!Steps
<1>3. QED
  BY <1>2 DEF ImportRecords

\* At first there is nothing.
LEMMA ImportInitial == I!ImportAssumption /\ I!Init => ImportInv
<1> SUFFICES ASSUME I!ImportAssumption, I!Init PROVE ImportInv
  OBVIOUS
<1>1. /\ \A i \in Imports : import[i] = I!Nothing
      /\ \A u \in Users : account[u] = I!None /\ key[u] = {}
      /\ revealed = {} /\ deleted = {} /\ errors = 0
      /\ I!Nothing.pc = "new" /\ I!Nothing.users = {} /\ I!Nothing.keys = {}
      /\ I!Nothing.missing = {}
  BY DEF I!Init, I!Nothing
<1>2. ImportTypes
  BY <1>1, NothingType, ImportNames DEF I!Init, ImportTypes
<1>3. I!ImportDelivers
  BY <1>1, ImportNames
  DEF I!ImportDelivers, I!RevealedWorks, I!AnsweredIsComplete, I!LostOnlyByFailure
<1>4. \A i \in Imports : ImportOf(i)
  BY <1>1, ImportNames DEF ImportOf
<1>5. QED
  BY <1>2, <1>3, <1>4 DEF ImportInv

\* A step of one import that touches no account, no key and no answer.
LEMMA OwnStep ==
  ASSUME ImportInv, NEW i \in Imports, NEW p \in ImportRecords,
         import' = [import EXCEPT ![i] = p],
         UNCHANGED <<account, key, revealed, deleted>>, errors' \in 0..MaxErrors,
         ImportOf(i)', p.pc \in {"create", "failed"}
  PROVE  ImportInv'
<1>1. /\ import \in [Imports -> ImportRecords] /\ import'[i] = p
      /\ \A j \in Imports \ {i} : import'[j] = import[j]
  BY DEF ImportInv, ImportTypes
<1>2. ImportTypes'
  BY <1>1 DEF ImportInv, ImportTypes
<1>3. I!ImportDelivers'
  <2>1. I!RevealedWorks'
    BY DEF ImportInv, I!ImportDelivers, I!RevealedWorks
  <2>2. I!AnsweredIsComplete'
    <3>1. I!AnsweredIsComplete
      BY DEF ImportInv, I!ImportDelivers
    <3>2. \A j \in Imports : import'[j].pc = "done" => import[j].pc = "done"
      BY <1>1
    <3>3. QED
      BY <3>1, <3>2 DEF I!AnsweredIsComplete, I!Bundle, I!BundleKeys
  <2>3. I!LostOnlyByFailure'
    BY <1>1 DEF ImportInv, I!ImportDelivers, I!LostOnlyByFailure
  <2>4. QED
    BY <2>1, <2>2, <2>3 DEF I!ImportDelivers
<1>4. ASSUME NEW j \in Imports \ {i} PROVE ImportOf(j)'
  BY <1>1 DEF ImportInv, ImportOf, ImportOfUser, HasKey
<1>5. QED
  BY <1>2, <1>3, <1>4 DEF ImportInv

\* An import that fails keeps nothing in memory.
LEMMA FailStep ==
  ASSUME ImportInv, NEW i \in Imports, I!Fail(i),
         UNCHANGED <<account, key, revealed, deleted>>, errors' \in 0..MaxErrors
  PROVE  ImportInv'
<1> DEFINE p == [I!Nothing EXCEPT !.pc = "failed"]
<1>1. /\ p \in ImportRecords /\ p.pc = "failed"
      /\ p.users = {} /\ p.keys = {} /\ p.missing = {}
  BY NothingType DEF I!Steps
<1>2. import' = [import EXCEPT ![i] = p]
  BY DEF I!Fail
<1> HIDE DEF p
<1>3. ImportOf(i)'
  BY <1>1, <1>2 DEF ImportOf, ImportInv, ImportTypes
<1>4. QED
  BY <1>1, <1>2, <1>3, OwnStep

\* Reading the users.
LEMMA ReadStep ==
  ASSUME I!ImportAssumption, ImportInv, NEW i \in Imports, I!ReadUsers(i)
  PROVE  ImportInv'
<1> DEFINE p == [I!Nothing EXCEPT !.pc = "create", !.byUsername = account,
                   !.users = I!Bundle(i).users, !.keys = I!Bundle(i).keys]
<1>1. /\ I!Nothing \in ImportRecords /\ I!Nothing.made = {} /\ I!Nothing.missing = {}
      /\ account \in [Users -> I!Makers \cup {I!None}]
      /\ errors \in 0..MaxErrors
  BY NothingType DEF I!Nothing, ImportInv, ImportTypes
<1>2. I!Bundle(i).users = ExportedBy[i] /\ ExportedBy[i] \subseteq Users
  BY BundleIs, ImportNames
<1>3. I!Bundle(i).keys \in SUBSET Keys
  BY BundleIs
<1>4. /\ p \in ImportRecords /\ p.pc = "create" /\ p.byUsername = account
      /\ p.users = ExportedBy[i] /\ p.keys = I!Bundle(i).keys
      /\ p.missing = {} /\ p.made = {}
  BY <1>1, <1>2, <1>3 DEF ImportRecords, I!Steps
<1>5. /\ import' = [import EXCEPT ![i] = p] /\ import[i].pc = "new"
      /\ UNCHANGED <<account, key, revealed, deleted, errors>>
  BY DEF I!ReadUsers
<1> HIDE DEF p
<1>6. import'[i] = p /\ \A u \in Users : account[u] # i
  BY <1>5 DEF ImportInv, ImportTypes, ImportOf
<1>7. \A u \in Users : ImportOfUser(i, u)'
  BY <1>4, <1>5, <1>6 DEF ImportOfUser
<1>8. ImportOf(i)'
  BY <1>4, <1>5, <1>6, <1>7 DEF ImportOf, I!Bundle, I!BundleKeys
<1>9. QED
  BY <1>1, <1>4, <1>5, <1>8, OwnStep

\* A user the import has found, and a key it has looked for.
LEMMA LookStep ==
  ASSUME I!ImportAssumption, ImportInv, NEW i \in Imports,
         \/ \E u \in Users : I!SkipUser(i, u)
         \/ \E k \in I!Bundle(i).keys : I!ListKeys(i, k)
  PROVE  ImportInv'
<1>1. import[i] \in ImportRecords /\ ImportOf(i) /\ errors \in 0..MaxErrors
  BY DEF ImportInv, ImportTypes
<1>2. ASSUME NEW u \in Users, I!SkipUser(i, u) PROVE ImportInv'
  <2> DEFINE rest == import[i].users \ {u}
             p == [import[i] EXCEPT !.users = rest]
  <2>1. /\ import' = [import EXCEPT ![i] = p]
        /\ UNCHANGED <<account, key, revealed, deleted, errors>>
        /\ import[i].byUsername[u] # I!None /\ import[i].pc = "create"
    BY <1>1, <1>2 DEF I!SkipUser, I!Known, ImportOf
  <2>2. rest \in SUBSET Users /\ rest \subseteq import[i].users
        /\ \A v \in import[i].users : v = u \/ v \in rest
    BY <1>1 DEF ImportRecords
  <2> HIDE DEF rest
  <2>3. /\ p \in ImportRecords /\ p.pc = "create" /\ p.users = rest
        /\ p.byUsername = import[i].byUsername /\ p.keys = import[i].keys
        /\ p.missing = import[i].missing /\ p.made = import[i].made
    BY <1>1, <2>1, <2>2 DEF ImportRecords
  <2> HIDE DEF p
  <2>4. import'[i] = p
    BY <2>1 DEF ImportInv, ImportTypes
  <2>5. \A v \in Users : ImportOfUser(i, v)'
    BY <1>1, <2>1, <2>2, <2>3, <2>4 DEF ImportOf, ImportOfUser
  <2>6. ImportOf(i)'
    BY <1>1, <2>1, <2>2, <2>3, <2>4, <2>5
    DEF ImportOf, HasKey, I!Bundle, I!BundleKeys
  <2>7. QED
    BY <1>1, <2>1, <2>3, <2>6, OwnStep
<1>3. ASSUME NEW k \in I!Bundle(i).keys, I!ListKeys(i, k) PROVE ImportInv'
  <2> DEFINE rest == import[i].keys \ {k}
             missing == {k} \ {<<k[1], made[1]>> : made \in I!KeysOf(i, k[1])}
             p == [import[i] EXCEPT !.keys = rest, !.missing = missing]
  <2>1. /\ import' = [import EXCEPT ![i] = p]
        /\ UNCHANGED <<account, key, revealed, deleted, errors>>
        /\ import[i].missing = {} /\ k \in import[i].keys
        /\ import[i].pc = "create"
    BY <1>1, <1>3 DEF I!ListKeys, ImportOf
  <2>2. /\ k = <<k[1], k[2]>> /\ k \in Keys
        /\ I!KeysOf(i, k[1]) \subseteq key[k[1]]
    BY BundleIs DEF I!KeysOf
  <2>3. missing = {k} \/ (missing = {} /\ \E made \in key[k[1]] : made[1] = k[2])
    BY <2>2
  <2>4. missing \in SUBSET Keys /\ missing \subseteq I!Bundle(i).keys
    BY <2>2
  <2>5. /\ rest \in SUBSET Keys /\ rest \subseteq import[i].keys
        /\ \A h \in import[i].keys : h = k \/ h \in rest
    BY <1>1 DEF ImportRecords
  <2> HIDE DEF rest, missing
  <2>6. /\ p \in ImportRecords /\ p.pc = "create" /\ p.users = import[i].users
        /\ p.byUsername = import[i].byUsername /\ p.keys = rest
        /\ p.missing = missing /\ p.made = import[i].made
    BY <1>1, <2>1, <2>4, <2>5 DEF ImportRecords
  <2> HIDE DEF p
  <2>7. import'[i] = p
    BY <2>1 DEF ImportInv, ImportTypes
  <2>8. \A v \in Users : ImportOfUser(i, v)'
    BY <1>1, <2>1, <2>6, <2>7 DEF ImportOf, ImportOfUser
  <2>9. \A h \in I!Bundle(i).keys : h \in rest \cup missing \/ HasKey(h)
    BY <1>1, <2>1, <2>3, <2>5 DEF ImportOf, HasKey
  <2>10. ImportOf(i)'
    BY <1>1, <2>1, <2>4, <2>5, <2>6, <2>7, <2>8, <2>9
    DEF ImportOf, HasKey, I!Bundle, I!BundleKeys
  <2>11. QED
    BY <1>1, <2>1, <2>6, <2>10, OwnStep
<1>4. QED
  BY <1>2, <1>3

\* An account of that name comes into being, where there was none.
LEMMA NewAccount ==
  ASSUME I!ImportAssumption, ImportInv, NEW u \in Users, account[u] = I!None,
         NEW x \in I!Makers, account' = [account EXCEPT ![u] = x],
         UNCHANGED <<key, revealed, deleted, errors>>
  PROVE  /\ account' \in [Users -> I!Makers \cup {I!None}]
         /\ \A v \in Users : account'[v] = IF v = u THEN x ELSE account[v]
         /\ I!RevealedWorks'
         /\ \A j \in Imports, v \in Users :
               import'[j] = import[j] /\ j # x /\ import[j].pc = "create"
                  => ImportOfUser(j, v)'
<1>1. /\ account' \in [Users -> I!Makers \cup {I!None}]
      /\ \A v \in Users : account'[v] = IF v = u THEN x ELSE account[v]
  BY DEF ImportInv, ImportTypes
<1>2. \A j \in Imports : j # I!None
  BY ImportNames
<1>3. I!RevealedWorks'
  BY <1>1, <1>2 DEF ImportInv, I!ImportDelivers, I!RevealedWorks
<1>4. ASSUME NEW j \in Imports, NEW v \in Users, import'[j] = import[j], j # x,
             import[j].pc = "create"
      PROVE  ImportOfUser(j, v)'
  <2>1. ImportOfUser(j, v)
    BY <1>4 DEF ImportInv, ImportOf
  <2>2. QED
    BY <1>1, <1>2, <1>4, <2>1 DEF ImportOfUser
<1>5. QED
  BY <1>1, <1>3, <1>4

\* Creating a user.
LEMMA CreateUserStep ==
  ASSUME I!ImportAssumption, ImportInv, NEW i \in Imports, NEW u \in Users,
         I!CreateUser(i, u)
  PROVE  ImportInv'
<1>1. /\ import[i] \in ImportRecords /\ ImportOf(i) /\ errors \in 0..MaxErrors
      /\ import \in [Imports -> ImportRecords] /\ u \in import[i].users
      /\ import[i].byUsername[u] = I!None
      /\ UNCHANGED <<key, revealed, deleted, errors>>
  BY DEF ImportInv, ImportTypes, I!CreateUser, I!Known
<1>2. CASE account[u] # I!None
  BY <1>1, <1>2, FailStep DEF I!CreateUser
<1>3. CASE account[u] = I!None
  <2> DEFINE rest == import[i].users \ {u}
             known == [import[i].byUsername EXCEPT ![u] = i]
             made == import[i].made \cup {<<u, I!Password>>}
             p == [import[i] EXCEPT !.users = rest, !.byUsername = known,
                                    !.made = made]
  <2>1. account' = [account EXCEPT ![u] = i]
    BY <1>3 DEF I!CreateUser
  <2>2. import' = [import EXCEPT ![i] = p]
    BY <1>1, <1>3 DEF I!CreateUser, ImportRecords
  <2>3. /\ import[i].pc = "create"
        /\ rest \in SUBSET Users /\ rest \subseteq import[i].users
        /\ \A v \in import[i].users : v = u \/ v \in rest
        /\ made \in SUBSET (Users \X (Names \cup {I!Password}))
    BY <1>1 DEF ImportRecords, ImportOf
  <2>4. i \in I!Makers /\ i # I!None
    BY ImportNames
  <2>5. /\ known \in [Users -> I!Makers \cup {I!None}]
        /\ \A v \in Users : known[v] = IF v = u THEN i ELSE import[i].byUsername[v]
    BY <1>1, <2>4 DEF ImportRecords
  <2>6. \A v \in Users, n \in Names \cup {I!Password} :
           <<v, n>> \in made <=> <<v, n>> \in import[i].made \/ (v = u /\ n = I!Password)
    OBVIOUS
  <2>7. \A v \in Users : KeyNames[v] \subseteq Names /\ I!Password \notin KeyNames[v]
    BY ImportNames DEF Names
  <2> HIDE DEF rest, known, made
  <2>8. /\ p \in ImportRecords /\ p.pc = "create" /\ p.users = rest
        /\ p.byUsername = known /\ p.keys = import[i].keys
        /\ p.missing = import[i].missing /\ p.made = made
    BY <1>1, <2>3, <2>5 DEF ImportRecords
  <2> HIDE DEF p
  <2>9. import'[i] = p /\ \A j \in Imports \ {i} : import'[j] = import[j]
    BY <1>1, <2>2
  <2>10. /\ account' \in [Users -> I!Makers \cup {I!None}]
         /\ \A v \in Users : account'[v] = IF v = u THEN i ELSE account[v]
         /\ I!RevealedWorks'
         /\ \A j \in Imports \ {i}, v \in Users :
               import[j].pc = "create" => ImportOfUser(j, v)'
    BY <1>1, <1>3, <2>1, <2>4, <2>9, NewAccount
  <2>11. \A v \in Users : ImportOfUser(i, v)'
    <3>1. ASSUME NEW v \in Users, v # u PROVE ImportOfUser(i, v)'
      <4>1. ImportOfUser(i, v)
        BY <1>1, <2>3 DEF ImportOf
      <4>2. QED
        BY <1>1, <2>3, <2>5, <2>6, <2>7, <2>8, <2>9, <2>10, <3>1, <4>1 DEF ImportOfUser
    <3>2. ImportOfUser(i, u)'
      <4>1. ImportOfUser(i, u)
        BY <1>1, <2>3 DEF ImportOf
      <4>2. QED
        BY <1>1, <2>3, <2>4, <2>5, <2>6, <2>7, <2>8, <2>9, <2>10, <4>1 DEF ImportOfUser
    <3>3. QED
      BY <3>1, <3>2
  <2>12. \A j \in Imports : ImportOf(j)'
    <3>1. ASSUME NEW j \in Imports \ {i} PROVE ImportOf(j)'
      BY <1>1, <2>9, <2>10 DEF ImportInv, ImportOf, HasKey, I!Bundle, I!BundleKeys
    <3>2. ImportOf(i)'
      BY <1>1, <2>3, <2>8, <2>9, <2>11 DEF ImportOf, HasKey, I!Bundle, I!BundleKeys
    <3>3. QED
      BY <3>1, <3>2
  <2>13. I!AnsweredIsComplete'
    <3>1. /\ I!AnsweredIsComplete
          /\ \A j \in Imports : import'[j].pc = "done" => import[j].pc = "done"
      BY <2>8, <2>9 DEF ImportInv, I!ImportDelivers
    <3>2. \A v \in Users : account[v] # I!None => account'[v] # I!None
      BY <2>4, <2>10
    <3>3. \A j \in Imports : I!Bundle(j).users \subseteq Users
      BY BundleIs, ImportNames
    <3>4. QED
      BY <1>1, <3>1, <3>2, <3>3 DEF I!AnsweredIsComplete, I!Bundle, I!BundleKeys
  <2>14. I!LostOnlyByFailure'
    BY <1>1, <2>8, <2>9, <2>10 DEF ImportInv, I!ImportDelivers, I!LostOnlyByFailure
  <2>15. ImportTypes'
    BY <1>1, <2>2, <2>8, <2>10 DEF ImportInv, ImportTypes
  <2>16. QED
    BY <2>10, <2>12, <2>13, <2>14, <2>15 DEF ImportInv, I!ImportDelivers
<1>4. QED
  BY <1>2, <1>3

\* An administrator adds a user.
LEMMA AddUserStep ==
  ASSUME I!ImportAssumption, ImportInv, NEW u \in Users, I!AddUser(u)
  PROVE  ImportInv'
<1>1. /\ account[u] = I!None /\ account' = [account EXCEPT ![u] = I!Elsewhere]
      /\ UNCHANGED <<key, import, revealed, deleted, errors>>
  BY DEF I!AddUser
<1>2. I!Elsewhere \in I!Makers /\ I!Elsewhere \notin Imports /\ I!Elsewhere # I!None
  BY ImportNames
<1>3. /\ account' \in [Users -> I!Makers \cup {I!None}]
      /\ \A v \in Users : account'[v] = IF v = u THEN I!Elsewhere ELSE account[v]
      /\ I!RevealedWorks'
      /\ \A j \in Imports, v \in Users :
            import[j].pc = "create" => ImportOfUser(j, v)'
  BY <1>1, <1>2, NewAccount
<1>4. \A j \in Imports : ImportOf(j)'
  BY <1>1, <1>2, <1>3 DEF ImportInv, ImportOf, HasKey, I!Bundle, I!BundleKeys
<1>5. I!AnsweredIsComplete'
  <2>1. I!AnsweredIsComplete
    BY DEF ImportInv, I!ImportDelivers
  <2>2. \A v \in Users : account[v] # I!None => account'[v] # I!None
    BY <1>2, <1>3
  <2>3. \A j \in Imports : I!Bundle(j).users \subseteq Users
    BY BundleIs, ImportNames
  <2>4. QED
    BY <1>1, <2>1, <2>2, <2>3 DEF I!AnsweredIsComplete, I!Bundle, I!BundleKeys
<1>6. I!LostOnlyByFailure'
  BY <1>1, <1>2, <1>3 DEF ImportInv, I!ImportDelivers, I!LostOnlyByFailure
<1>7. ImportTypes'
  BY <1>1, <1>3 DEF ImportInv, ImportTypes
<1>8. QED
  BY <1>3, <1>4, <1>5, <1>6, <1>7 DEF ImportInv, I!ImportDelivers

\* An administrator deletes a user, and the keys go along.
LEMMA DropUserStep ==
  ASSUME I!ImportAssumption, ImportInv, NEW u \in Users, I!DeleteUser(u)
  PROVE  ImportInv'
<1>1. /\ account' = [account EXCEPT ![u] = I!None]
      /\ key' = [key EXCEPT ![u] = {}]
      /\ deleted' = deleted \cup {u}
      /\ UNCHANGED <<import, revealed, errors>>
      /\ key \in [Users -> SUBSET (Names \X Imports)]
      /\ account \in [Users -> I!Makers \cup {I!None}]
  BY DEF I!DeleteUser, ImportInv, ImportTypes
<1>2. /\ \A v \in Users : account'[v] = IF v = u THEN I!None ELSE account[v]
      /\ \A v \in Users : key'[v] = IF v = u THEN {} ELSE key[v]
  BY <1>1
<1>3. \A j \in Imports : j # I!None /\ I!Bundle(j).users \subseteq Users
  BY ImportNames, BundleIs
<1>4. \A j \in Imports : \A k \in I!Bundle(j).keys : k[1] \in Users
  BY BundleIs
<1>5. ImportTypes'
  BY <1>1, <1>2 DEF ImportInv, ImportTypes
<1>6. \A j \in Imports : ImportOf(j)'
  <2>1. ASSUME NEW j \in Imports, NEW v \in Users, ImportOfUser(j, v)
        PROVE  ImportOfUser(j, v)'
    BY <1>1, <1>2, <1>3, <2>1 DEF ImportOfUser
  <2>2. ASSUME NEW k, k[1] \in Users, HasKey(k)
        PROVE  HasKey(k)'
    BY <1>1, <1>2, <2>2 DEF HasKey
  <2>3. \A j \in Imports : I!Bundle(j)' = I!Bundle(j)
    BY DEF I!Bundle, I!BundleKeys
  <2>4. QED
    BY <1>1, <1>2, <1>3, <1>4, <2>1, <2>2, <2>3 DEF ImportInv, ImportOf
<1>7. I!RevealedWorks'
  BY <1>1, <1>2 DEF ImportInv, I!ImportDelivers, I!RevealedWorks
<1>8. I!AnsweredIsComplete'
  <2>1. I!AnsweredIsComplete
    BY DEF ImportInv, I!ImportDelivers
  <2>2. QED
    BY <1>1, <1>2, <1>3, <1>4, <2>1 DEF I!AnsweredIsComplete, I!Bundle, I!BundleKeys
<1>9. I!LostOnlyByFailure'
  BY <1>1, <1>2, <1>3 DEF ImportInv, I!ImportDelivers, I!LostOnlyByFailure
<1>10. QED
  BY <1>5, <1>6, <1>7, <1>8, <1>9 DEF ImportInv, I!ImportDelivers

\* Creating a key.
LEMMA CreateKeyStep ==
  ASSUME I!ImportAssumption, ImportInv, NEW i \in Imports,
         NEW k \in I!Bundle(i).keys, I!CreateKey(i, k)
  PROVE  ImportInv'
<1>1. /\ import[i] \in ImportRecords /\ ImportOf(i) /\ errors \in 0..MaxErrors
      /\ import \in [Imports -> ImportRecords]
      /\ key \in [Users -> SUBSET (Names \X Imports)]
      /\ import[i].missing = {k} /\ import[i].pc = "create"
      /\ UNCHANGED <<account, revealed, deleted, errors>>
  BY DEF ImportInv, ImportTypes, I!CreateKey, ImportOf
<1>2. CASE account[k[1]] # import[i].byUsername[k[1]]
  BY <1>1, <1>2, FailStep DEF I!CreateKey
<1>3. CASE account[k[1]] = import[i].byUsername[k[1]]
  <2> DEFINE u == k[1]
             n == k[2]
             keys == key[u] \cup {<<n, i>>}
             made == import[i].made \cup {k}
             p == [import[i] EXCEPT !.missing = {}, !.made = made]
  <2>1. /\ key' = [key EXCEPT ![u] = keys]
        /\ import' = [import EXCEPT ![i] = p]
    BY <1>1, <1>3 DEF I!CreateKey, ImportRecords
  <2>2. k = <<u, n>> /\ u \in Users /\ n \in KeyNames[u] /\ n \in Names
    BY BundleIs
  <2>3. made \in SUBSET (Users \X (Names \cup {I!Password}))
    BY <1>1, <2>2 DEF ImportRecords
  <2>4. \A v \in Users, m \in Names \cup {I!Password} :
           <<v, m>> \in made <=> <<v, m>> \in import[i].made \/ (v = u /\ m = n)
    BY <2>2
  <2>5. \A v \in Users : KeyNames[v] \subseteq Names /\ I!Password \notin KeyNames[v]
    BY ImportNames DEF Names
  <2>6. /\ key[u] \subseteq keys /\ <<n, i>> \in keys
        /\ keys \in SUBSET (Names \X Imports)
        /\ keys \subseteq key[u] \cup (KeyNames[u] \X Imports)
    BY <1>1, <2>2
  <2> HIDE DEF u, n, keys, made
  <2>7. /\ p \in ImportRecords /\ p.pc = "create" /\ p.users = import[i].users
        /\ p.byUsername = import[i].byUsername /\ p.keys = import[i].keys
        /\ p.missing = {} /\ p.made = made
    BY <1>1, <2>3 DEF ImportRecords
  <2> HIDE DEF p
  <2>8. import'[i] = p /\ \A j \in Imports \ {i} : import'[j] = import[j]
    BY <1>1, <2>1
  <2>9. /\ key' \in [Users -> SUBSET (Names \X Imports)]
        /\ key'[u] = keys
        /\ \A v \in Users : v # u => key'[v] = key[v]
        /\ \A v \in Users : key[v] \subseteq key'[v]
    BY <1>1, <2>1, <2>2, <2>6
  <2>10. ImportTypes'
    BY <1>1, <2>1, <2>2, <2>6, <2>7, <2>9 DEF ImportInv, ImportTypes
  <2>11. \A v \in Users : ImportOfUser(i, v)'
    <3>1. ASSUME NEW v \in Users PROVE ImportOfUser(i, v)'
      <4>1. ImportOfUser(i, v)
        BY <1>1 DEF ImportOf
      <4>2. <<v, I!Password>> \in made <=> <<v, I!Password>> \in import[i].made
        BY <2>2, <2>4, <2>5
      <4>3. ASSUME NEW m \in KeyNames[v], <<v, m>> \in made
            PROVE  v \in deleted \/ <<m, i>> \in key'[v]
        BY <2>2, <2>4, <2>5, <2>6, <2>9, <4>1, <4>3 DEF ImportOfUser
      <4>4. QED
        BY <1>1, <2>7, <2>8, <4>1, <4>2, <4>3 DEF ImportOfUser
    <3>2. QED
      BY <3>1
  <2>12. ASSUME NEW h, h[1] \in Users, HasKey(h)
         PROVE  HasKey(h)'
    BY <1>1, <2>9, <2>12 DEF HasKey
  <2>13. HasKey(k)'
    <3>1. <<n, i>> \in key'[u] /\ <<n, i>>[1] = n
      BY <2>6, <2>9
    <3>2. QED
      BY <3>1 DEF HasKey, u, n
  <2>14. \A j \in Imports : I!Bundle(j)' = I!Bundle(j)
    BY DEF I!Bundle, I!BundleKeys
  <2>15. \A j \in Imports : \A h \in I!Bundle(j).keys : h[1] \in Users
    BY BundleIs
  <2>16. ImportOf(i)'
    <3>1. \A h \in I!Bundle(i).keys : h \in import[i].keys \/ HasKey(h)'
      BY <1>1, <2>12, <2>13, <2>15 DEF ImportOf
    <3>2. QED
      BY <1>1, <2>7, <2>8, <2>11, <2>14, <3>1 DEF ImportOf
  <2>17. ASSUME NEW j \in Imports \ {i} PROVE ImportOf(j)'
    <3>1. ImportOf(j)
      BY DEF ImportInv
    <3>2. \A v \in Users : ImportOfUser(j, v) => ImportOfUser(j, v)'
      BY <1>1, <2>8, <2>9 DEF ImportOfUser
    <3>3. QED
      BY <1>1, <2>8, <2>12, <2>14, <2>15, <3>1, <3>2 DEF ImportOf
  <2>18. I!RevealedWorks'
    BY <1>1, <2>9 DEF ImportInv, I!ImportDelivers, I!RevealedWorks
  <2>19. I!AnsweredIsComplete'
    <3>1. /\ I!AnsweredIsComplete
          /\ \A j \in Imports : import'[j].pc = "done" => import[j].pc = "done"
      BY <2>7, <2>8 DEF ImportInv, I!ImportDelivers
    <3>2. QED
      BY <1>1, <2>9, <2>14, <2>15, <3>1 DEF I!AnsweredIsComplete
  <2>20. I!LostOnlyByFailure'
    BY <1>1, <2>7, <2>8 DEF ImportInv, I!ImportDelivers, I!LostOnlyByFailure
  <2>21. QED
    BY <2>10, <2>16, <2>17, <2>18, <2>19, <2>20 DEF ImportInv, I!ImportDelivers
<1>4. QED
  BY <1>2, <1>3

\* The answer.
LEMMA AnswerStep ==
  ASSUME I!ImportAssumption, ImportInv, NEW i \in Imports, I!Answer(i)
  PROVE  ImportInv'
<1> DEFINE p == [I!Nothing EXCEPT !.pc = "done"]
<1>1. /\ import[i].pc = "create" /\ import[i].users = {} /\ import[i].keys = {}
      /\ import[i].missing = {} /\ ImportOf(i)
      /\ revealed' = revealed \cup {<<m, i>> : m \in import[i].made}
      /\ UNCHANGED <<account, key, deleted, errors>>
      /\ import \in [Imports -> ImportRecords]
  BY DEF I!Answer, ImportInv, ImportTypes
<1>2. /\ p \in ImportRecords /\ p.pc = "done"
      /\ p.users = {} /\ p.keys = {} /\ p.missing = {}
  BY NothingType DEF I!Steps
<1>3. import' = [import EXCEPT ![i] = p]
  BY DEF I!Answer
<1> HIDE DEF p
<1>4. import'[i] = p /\ \A j \in Imports \ {i} : import'[j] = import[j]
  BY <1>1, <1>3
<1>5. ImportTypes'
  BY <1>1, <1>2, <1>3 DEF ImportInv, ImportTypes
<1>6. \A j \in Imports : ImportOf(j)'
  <2>1. ImportOf(i)'
    BY <1>2, <1>4 DEF ImportOf
  <2>2. ASSUME NEW j \in Imports \ {i} PROVE ImportOf(j)'
    BY <1>1, <1>4 DEF ImportInv, ImportOf, ImportOfUser, HasKey, I!Bundle, I!BundleKeys
  <2>3. QED
    BY <2>1, <2>2
<1>7. \A j \in Imports : \A m :
         <<m, j>> \in revealed' <=> <<m, j>> \in revealed \/ (j = i /\ m \in import[i].made)
  BY <1>1
<1>8. \A v \in Users : ImportOfUser(i, v)
  BY <1>1 DEF ImportOf
<1>9. I!RevealedWorks'
  <2>1. I!RevealedWorks
    BY DEF ImportInv, I!ImportDelivers
  <2>2. ASSUME NEW v \in Users \ deleted, NEW j \in Imports,
               <<<<v, I!Password>>, j>> \in revealed'
        PROVE  account[v] = j
    BY <1>7, <1>8, <2>1, <2>2 DEF I!RevealedWorks, ImportOfUser
  <2>3. ASSUME NEW v \in Users \ deleted, NEW j \in Imports, NEW n \in KeyNames[v],
               <<<<v, n>>, j>> \in revealed'
        PROVE  <<n, j>> \in key[v]
    BY <1>7, <1>8, <2>1, <2>3 DEF I!RevealedWorks, ImportOfUser
  <2>4. QED
    BY <1>1, <2>2, <2>3 DEF I!RevealedWorks
<1>10. I!AnsweredIsComplete'
  <2>1. I!AnsweredIsComplete
    BY DEF ImportInv, I!ImportDelivers
  <2>2. \A v \in I!Bundle(i).users \ deleted : account[v] # I!None
    BY <1>1, <1>8, BundleIs, ImportNames DEF ImportOfUser
  <2>3. \A k \in I!Bundle(i).keys : HasKey(k)
    BY <1>1 DEF ImportOf
  <2>4. \A j \in Imports : I!Bundle(j)' = I!Bundle(j)
    BY DEF I!Bundle, I!BundleKeys
  <2>5. QED
    BY <1>1, <1>4, <2>1, <2>2, <2>3, <2>4 DEF I!AnsweredIsComplete, HasKey
<1>11. I!LostOnlyByFailure'
  <2>1. I!LostOnlyByFailure
    BY DEF ImportInv, I!ImportDelivers
  <2>2. ASSUME NEW v \in Users, account[v] = i
        PROVE  <<<<v, I!Password>>, i>> \in revealed'
    BY <1>7, <1>8, <2>2 DEF ImportOfUser
  <2>3. QED
    BY <1>1, <1>4, <1>7, <2>1, <2>2 DEF I!LostOnlyByFailure
<1>12. QED
  BY <1>5, <1>6, <1>9, <1>10, <1>11 DEF ImportInv, I!ImportDelivers

\* Every step of the imports and of the administrators keeps what they promise.
LEMMA ImportInductive ==
  ASSUME I!ImportAssumption, ImportInv, [I!Next]_(I!vars)
  PROVE  ImportInv'
<1>1. CASE UNCHANGED I!vars
  BY <1>1 DEF I!vars, ImportInv, ImportTypes, I!ImportDelivers, I!RevealedWorks,
     I!AnsweredIsComplete, I!LostOnlyByFailure, ImportOf, ImportOfUser, HasKey,
     I!Bundle, I!BundleKeys
<1>2. ASSUME NEW i \in Imports, I!Abort(i) PROVE ImportInv'
  <2>1. errors' \in 0..MaxErrors
    BY <1>2, ImportNames DEF I!Abort, ImportInv, ImportTypes
  <2>2. QED
    BY <1>2, <2>1, FailStep DEF I!Abort
<1>3. ASSUME NEW i \in Imports, NEW u \in Users, I!SkipUser(i, u) \/ I!CreateUser(i, u)
      PROVE  ImportInv'
  BY <1>3, LookStep, CreateUserStep
<1>4. ASSUME NEW i \in Imports, NEW k \in I!Bundle(i).keys,
             I!ListKeys(i, k) \/ I!CreateKey(i, k)
      PROVE  ImportInv'
  BY <1>4, LookStep, CreateKeyStep
<1>5. QED
  BY <1>1, <1>2, <1>3, <1>4, ReadStep, AnswerStep, DropUserStep, AddUserStep DEF I!Next

-----------------------------------------------------------------------------
(* Being let in.                                                           *)

Carried == 0..MaxCredentials + 1

AccessRequests ==
    [pc : {"idle", "session", "key", "ingest key", "act"}, gate : A!GateNames,
     cookie : Carried, key : Carried, user : Users \cup {A!Operator},
     good : SUBSET (A!Credentials \cup {A!Shared})]

AccessTypes ==
    /\ role \in [Users -> {"admin", "viewer", "free", "deleted"}]
    /\ credential \in [A!Credentials ->
                          [kind : {"none", "session", "key"}, owner : Users]]
    /\ caller \in [Slots -> AccessRequests]
    /\ granted \in 0..MaxCredentials /\ withdrawn \subseteq 1..granted
    /\ crossed \in BOOLEAN /\ open \in BOOLEAN

\* What was withdrawn is gone; what is live has been granted.
WithdrawnIsGone ==
    \A c \in A!Credentials :
        /\ c \in withdrawn => credential[c].kind = "none"
        /\ credential[c].kind # "none" => c <= granted

\* A credential that a request carries was good when the request began, unless
\* it has been withdrawn by now.
Counted(q, c) == c = A!None \/ c \in withdrawn \/ c \in q.good

\* Where a request is looked up next, and what it carried that counted when it
\* began.
AccessOf(s) ==
    LET q == caller[s]
    IN /\ q.pc = "session" => q.gate # "apiKey"
       /\ q.pc = "key" => q.gate \in {"auth", "admin"}
       /\ q.pc = "ingest key" => q.gate = "apiKey"
       /\ q.pc \in {"session", "key", "ingest key"} =>
             Counted(q, q.cookie) /\ Counted(q, q.key)
       /\ q.pc = "act" =>
             /\ A!Unguarded(s) \/ q.good # {}
             /\ q.gate \in {"auth", "admin"} => q.user \in Users

AccessInv ==
    AccessTypes /\ WithdrawnIsGone /\ AccountRemains /\ \A s \in Slots : AccessOf(s)

\* The gates of the routes.
LEMMA GateNamesAre == A!GateNames = {"auth", "admin", "adminKey", "apiKey"}
BY DEF A!GateNames, A!Gates

\* At first there is one account, nothing granted and no request.
LEMMA AccessInitial == A!AccessAssumption /\ A!Init => AccessInv
<1> SUFFICES ASSUME A!AccessAssumption, A!Init PROVE AccessInv
  OBVIOUS
<1>1. \A s \in Slots : caller[s] = A!Idle
  BY DEF A!Init
<1>2. A!Idle \in AccessRequests
  BY GateNamesAre DEF A!Idle, AccessRequests, Carried, A!None, A!AccessAssumption
<1>3. AccessTypes
  <2>1. A!NoRow \in [kind : {"none", "session", "key"}, owner : Users]
    BY DEF A!NoRow, A!AccessAssumption
  <2>2. credential \in [A!Credentials ->
                           [kind : {"none", "session", "key"}, owner : Users]]
    BY <2>1 DEF A!Init
  <2>3. role \in [Users -> {"admin", "viewer", "free", "deleted"}]
    BY DEF A!Init
  <2>4. caller \in [Slots -> AccessRequests]
    BY <1>2 DEF A!Init
  <2>5. granted \in 0..MaxCredentials /\ withdrawn \subseteq 1..granted
    BY DEF A!Init, A!AccessAssumption
  <2>6. QED
    BY <2>2, <2>3, <2>4, <2>5 DEF AccessTypes, A!Init
<1>4. WithdrawnIsGone
  BY DEF A!Init, WithdrawnIsGone, A!NoRow
<1>5. AccountRemains
  BY DEF A!Init, A!AccessAssumption, AccountRemains, A!AccountRemains, A!Exists
<1>6. \A s \in Slots : AccessOf(s)
  <2>1. A!Idle.pc = "idle"
    BY DEF A!Idle
  <2>2. QED
    BY <1>1, <2>1 DEF AccessOf
<1>7. QED
  BY <1>3, <1>4, <1>5, <1>6 DEF AccessInv

\* A step that moves only the requests, each to one that is right.
LEMMA CallerStep ==
  ASSUME AccessInv, UNCHANGED <<role, credential, open, granted, withdrawn, crossed>>,
         caller' \in [Slots -> AccessRequests],
         \A s \in Slots : caller'[s] # caller[s] => AccessOf(s)'
  PROVE  AccessInv'
<1>1. AccessTypes'
  BY DEF AccessInv, AccessTypes
<1>2. WithdrawnIsGone' /\ AccountRemains'
  BY DEF AccessInv, WithdrawnIsGone, AccountRemains, A!AccountRemains, A!Exists
<1>3. \A s \in Slots : AccessOf(s)'
  BY DEF AccessInv, AccessOf, A!Unguarded, Counted
<1>4. QED
  BY <1>1, <1>2, <1>3 DEF AccessInv

\* A request that is over is right.
LEMMA IdleRight ==
  ASSUME A!AccessAssumption, NEW s \in Slots, caller'[s] = A!Idle
  PROVE  A!Idle \in AccessRequests /\ AccessOf(s)'
BY GateNamesAre
DEF A!Idle, AccessRequests, Carried, A!None, A!AccessAssumption, AccessOf

\* Credentials that are withdrawn at the moment they are dropped keep the rest.
LEMMA DropKeeps ==
  ASSUME AccessTypes, WithdrawnIsGone, NEW cs \in SUBSET A!Credentials,
         A!AccessAssumption,
         \A c \in cs : credential[c].kind # "none",
         A!Drop(cs), A!Withdraw(cs), granted' = granted
  PROVE  /\ credential' \in [A!Credentials ->
                               [kind : {"none", "session", "key"}, owner : Users]]
         /\ withdrawn' \subseteq 1..granted' /\ withdrawn \subseteq withdrawn'
         /\ WithdrawnIsGone'
<1>1. /\ A!NoRow.kind = "none" 
      /\ A!NoRow \in [kind : {"none", "session", "key"}, owner : Users]
  BY DEF A!NoRow, A!AccessAssumption
<1>2. /\ credential' = [c \in A!Credentials |->
                          IF c \in cs THEN A!NoRow ELSE credential[c]]
      /\ withdrawn' = withdrawn \cup cs
  BY DEF A!Drop, A!Withdraw
<1>3. \A c \in cs : c \in 1..granted
  BY DEF WithdrawnIsGone, AccessTypes, A!Credentials, A!AccessAssumption
<1>4. \A c \in A!Credentials :
         credential'[c] = IF c \in cs THEN A!NoRow ELSE credential[c]
  BY <1>2
<1>5. QED
  BY <1>1, <1>2, <1>3, <1>4 DEF AccessTypes, WithdrawnIsGone

\* Whatever a handler does to the rows, the other requests stay right.
LEMMA RowsStep ==
  ASSUME A!AccessAssumption, AccessInv,
         role' \in [Users -> {"admin", "viewer", "free", "deleted"}],
         credential' \in [A!Credentials ->
                             [kind : {"none", "session", "key"}, owner : Users]],
         granted' \in 0..MaxCredentials, withdrawn' \subseteq 1..granted',
         withdrawn \subseteq withdrawn', crossed' \in BOOLEAN,
         WithdrawnIsGone', AccountRemains', open' = open,
         \/ caller' = caller
         \/ \E s \in Slots : caller' = [caller EXCEPT ![s] = A!Idle]
  PROVE  AccessInv'
<1>1. A!Idle.pc = "idle" /\ A!Idle \in AccessRequests
  BY GateNamesAre
  DEF A!Idle, AccessRequests, Carried, A!None, A!AccessAssumption
<1>2. caller \in [Slots -> AccessRequests]
  BY DEF AccessInv, AccessTypes
<1>3. /\ caller' \in [Slots -> AccessRequests]
      /\ \A s \in Slots : caller'[s] \in {caller[s], A!Idle}
  BY <1>1, <1>2
<1>4. AccessTypes'
  BY <1>3 DEF AccessInv, AccessTypes
<1>5. \A s \in Slots : AccessOf(s)'
  <2>1. ASSUME NEW s \in Slots, AccessOf(s), caller'[s] = caller[s]
        PROVE  AccessOf(s)'
    BY <2>1 DEF AccessOf, A!Unguarded, Counted
  <2>2. ASSUME NEW s \in Slots, caller'[s] = A!Idle
        PROVE  AccessOf(s)'
    BY <1>1, <2>2 DEF AccessOf
  <2>3. QED
    BY <1>3, <2>1, <2>2 DEF AccessInv
<1>6. QED
  BY <1>4, <1>5 DEF AccessInv

\* A request that is admitted by what it carried, or where nothing is asked for,
\* acts as a user where it must.
LEMMA AdmitStep ==
  ASSUME AccessInv, NEW s \in Slots, NEW c, A!AccessAssumption,
         c \in caller[s].good \/ A!Unguarded(s),
         NEW u \in Users \cup {A!Operator}, A!Admit(s, u, c),
         caller[s].gate \in {"auth", "admin"} => u \in Users,
         UNCHANGED <<role, credential, open, granted, withdrawn, crossed>>
  PROVE  AccessInv'
<1> DEFINE good == caller[s].good \cap {c}
           q == [caller[s] EXCEPT !.pc = "act", !.user = u, !.good = good,
                                  !.cookie = A!None, !.key = A!None]
<1>1. caller \in [Slots -> AccessRequests] /\ A!None \in Carried
  BY DEF AccessInv, AccessTypes, A!None, Carried, A!AccessAssumption
<1>2. caller' = [caller EXCEPT ![s] = q]
  BY <1>1 DEF A!Admit, AccessRequests
<1>3. good \subseteq caller[s].good /\ (c \in good \/ A!Unguarded(s))
  OBVIOUS
<1> HIDE DEF good
<1>4. /\ q \in AccessRequests /\ q.pc = "act" /\ q.good = good /\ q.user = u
      /\ q.gate = caller[s].gate
  BY <1>1, <1>3 DEF AccessRequests
<1> HIDE DEF q
<1>5. /\ caller' \in [Slots -> AccessRequests] /\ caller'[s] = q
      /\ \A t \in Slots \ {s} : caller'[t] = caller[t]
  BY <1>1, <1>2, <1>4
<1>6. AccessOf(s)'
  BY <1>3, <1>4, <1>5 DEF AccessOf, A!Unguarded
<1>7. QED
  BY <1>5, <1>6, CallerStep

\* Every step of the server, the clients and the administrators keeps it.
LEMMA AccessInductive ==
  ASSUME A!AccessAssumption, AccessInv, [A!Next]_(A!vars)
  PROVE  AccessInv'
<1>0. /\ AccessTypes /\ WithdrawnIsGone
      /\ caller \in [Slots -> AccessRequests]
      /\ A!Idle \in AccessRequests
      /\ \A s \in Slots : AccessOf(s)
      /\ MaxCredentials \in Nat /\ granted \in 0..MaxCredentials
      /\ A!Credentials = 1..MaxCredentials /\ A!Shared = MaxCredentials + 1
      /\ A!None = 0
  <2>1. A!Idle \in AccessRequests
    BY GateNamesAre
    DEF A!Idle, AccessRequests, Carried, A!None, A!AccessAssumption
  <2>2. AccessTypes /\ WithdrawnIsGone /\ \A s \in Slots : AccessOf(s)
    BY DEF AccessInv
  <2>3. caller \in [Slots -> AccessRequests] /\ granted \in 0..MaxCredentials
    BY <2>2 DEF AccessTypes
  <2>4. QED
    BY <2>1, <2>2, <2>3
    DEF A!AccessAssumption, A!Credentials, A!Shared, A!None
<1>1. CASE UNCHANGED A!vars
  BY <1>1, CallerStep DEF AccessInv, AccessTypes, A!vars
<1>2. ASSUME NEW s \in Slots, NEW gate \in A!GateNames, NEW cookie \in A!Held("session"),
             NEW k \in A!Held("key") \cup {A!Shared}, A!Start(s, gate, cookie, k)
      PROVE  AccessInv'
  <2> DEFINE pc == IF gate = "apiKey" THEN "ingest key" ELSE "session"
             good == {cookie, k} \ (withdrawn \cup {A!None})
             q == [A!Idle EXCEPT !.gate = gate, !.cookie = cookie, !.key = k,
                                 !.pc = pc, !.good = good]
  <2>1. cookie \in Carried /\ k \in Carried
    BY <1>0 DEF A!Held, A!Live, AccessTypes, Carried
  <2>2. good \in SUBSET (A!Credentials \cup {A!Shared})
    BY <1>0, <2>1 DEF Carried
  <2>a. pc \in {"ingest key", "session"} /\ (pc = "session" <=> gate # "apiKey")
    OBVIOUS
  <2>b. \A c \in {cookie, k} : c # A!None /\ c \notin withdrawn => c \in good
    OBVIOUS
  <2> HIDE DEF pc, good
  <2>3. /\ q \in AccessRequests
        /\ q.gate = gate /\ q.cookie = cookie /\ q.key = k /\ q.pc = pc /\ q.good = good
    BY <1>0, <2>1, <2>2, <2>a DEF AccessRequests
  <2>4. caller' = [caller EXCEPT ![s] = q]
    BY <1>2 DEF A!Start, pc, good
  <2> HIDE DEF q
  <2>5. caller' \in [Slots -> AccessRequests] /\ caller'[s] = q
        /\ \A t \in Slots \ {s} : caller'[t] = caller[t]
    BY <1>0, <2>3, <2>4
  <2>6. UNCHANGED <<role, credential, open, granted, withdrawn, crossed>>
    BY <1>2 DEF A!Start, A!rows
  <2>7. AccessOf(s)'
    BY <2>3, <2>5, <2>6, <2>a, <2>b DEF AccessOf, Counted
  <2>8. QED
    BY <2>5, <2>6, <2>7, CallerStep
<1>3. ASSUME NEW s \in Slots, NEW c \in caller[s].good \cap A!Credentials,
             A!AdmitOwner(s, c), A!rows' = A!rows
      PROVE  AccessInv'
  <2>1. credential[c].owner \in Users
    BY <1>0, <1>3 DEF AccessTypes
  <2>2. UNCHANGED <<role, credential, open, granted, withdrawn, crossed>>
    BY <1>3 DEF A!rows
  <2>3. CASE A!Done(s)
    BY <1>0, <2>2, <2>3, RowsStep DEF A!Done, AccessInv, AccessTypes, WithdrawnIsGone,
       AccountRemains, A!AccountRemains, A!Exists
  <2>4. CASE A!Admit(s, credential[c].owner, c)
    BY <1>3, <2>1, <2>2, <2>4, AdmitStep
  <2>5. QED
    BY <1>3, <2>3, <2>4 DEF A!AdmitOwner
<1>4. ASSUME NEW s \in Slots, A!Done(s), A!rows' = A!rows
      PROVE  AccessInv'
  <2>1. UNCHANGED <<role, credential, open, granted, withdrawn, crossed>>
    BY <1>4 DEF A!rows
  <2>2. QED
    BY <1>0, <1>4, <2>1, RowsStep DEF A!Done, AccessInv, AccessTypes, WithdrawnIsGone,
       AccountRemains, A!AccountRemains, A!Exists
<1>5. ASSUME NEW s \in Slots, A!LookupSession(s) PROVE AccessInv'
  <2> DEFINE c == caller[s].cookie
  <2>1. /\ caller[s].pc = "session" /\ A!rows' = A!rows
        /\ UNCHANGED <<role, credential, open, granted, withdrawn, crossed>>
    BY <1>5 DEF A!LookupSession, A!At, A!rows
  <2>2. A!Live(c, "session") => c \in caller[s].good \cap A!Credentials
    <3>1. Counted(caller[s], c)
      BY <1>0, <2>1 DEF AccessOf
    <3>2. A!Live(c, "session") => c \in A!Credentials /\ c \notin withdrawn
      BY <1>0 DEF A!Live, WithdrawnIsGone
    <3>3. \A d \in A!Credentials : d # A!None
      BY <1>0
    <3>4. QED
      BY <3>1, <3>2, <3>3 DEF Counted
  <2>3. caller[s].key = A!Shared => A!Shared \in caller[s].good
    <3>1. A!Shared \notin withdrawn /\ A!Shared # A!None
      BY <1>0 DEF AccessTypes
    <3>2. QED
      BY <1>0, <2>1, <3>1 DEF AccessOf, Counted
  <2>4. CASE A!AdmitOwner(s, c) /\ A!Live(c, "session")
    BY <1>3, <2>1, <2>2, <2>4
  <2>5. CASE A!Done(s)
    BY <1>4, <2>1, <2>5
  <2>6. CASE /\ caller[s].gate = "adminKey" /\ caller[s].key = A!Shared
             /\ A!Admit(s, A!Operator, A!Shared)
    BY <2>1, <2>3, <2>6, AdmitStep
  <2>7. CASE /\ caller[s].gate # "adminKey"
             /\ caller' = [caller EXCEPT ![s].pc = "key"]
    <3>1. /\ caller' \in [Slots -> AccessRequests]
          /\ caller'[s] = [caller[s] EXCEPT !.pc = "key"]
          /\ \A t \in Slots \ {s} : caller'[t] = caller[t]
      BY <1>0, <2>7 DEF AccessRequests
    <3>2. /\ caller'[s].pc = "key" /\ caller'[s].gate = caller[s].gate
          /\ caller'[s].cookie = caller[s].cookie /\ caller'[s].key = caller[s].key
          /\ caller'[s].good = caller[s].good
      BY <1>0, <3>1 DEF AccessRequests
    <3>3. caller[s].gate \in {"auth", "admin"}
      BY <1>0, <2>1, <2>7, GateNamesAre DEF AccessOf, AccessRequests
    <3>4. AccessOf(s)'
      BY <1>0, <2>1, <3>2, <3>3 DEF AccessOf, Counted
    <3>5. QED
      BY <2>1, <3>1, <3>4, CallerStep
  <2>8. QED
    BY <1>5, <2>4, <2>5, <2>6, <2>7 DEF A!LookupSession
<1>6. ASSUME NEW s \in Slots, A!LookupKey(s) PROVE AccessInv'
  <2> DEFINE c == caller[s].key
  <2>1. /\ caller[s].pc \in {"key", "ingest key"} /\ A!rows' = A!rows
        /\ UNCHANGED <<role, credential, open, granted, withdrawn, crossed>>
    BY <1>6 DEF A!LookupKey, A!At, A!rows
  <2>2. A!Live(c, "key") => c \in caller[s].good \cap A!Credentials
    <3>1. Counted(caller[s], c)
      BY <1>0, <2>1 DEF AccessOf
    <3>2. A!Live(c, "key") => c \in A!Credentials /\ c \notin withdrawn
      BY <1>0 DEF A!Live, WithdrawnIsGone
    <3>3. \A d \in A!Credentials : d # A!None
      BY <1>0
    <3>4. QED
      BY <3>1, <3>2, <3>3 DEF Counted
  <2>3. CASE /\ caller[s].pc = "ingest key" /\ caller[s].key = A!Shared
             /\ A!Admit(s, A!Operator, A!Shared)
    <3>1. A!Shared \in caller[s].good /\ caller[s].gate = "apiKey"
      <4>1. A!Shared \notin withdrawn /\ A!Shared # A!None
        BY <1>0 DEF AccessTypes
      <4>2. QED
        BY <1>0, <2>1, <2>3, <4>1 DEF AccessOf, Counted
    <3>2. QED
      BY <2>1, <2>3, <3>1, AdmitStep
  <2>4. CASE A!AdmitOwner(s, c) /\ A!Live(c, "key")
    BY <1>3, <2>1, <2>2, <2>4
  <2>5. CASE A!Done(s)
    BY <1>4, <2>1, <2>5
  <2>6. CASE caller[s].pc = "ingest key" /\ open /\ A!Admit(s, A!Operator, A!None)
    <3>1. A!Unguarded(s)
      BY <1>0, <2>6 DEF AccessOf, A!Unguarded
    <3>2. caller[s].gate \notin {"auth", "admin"}
      BY <3>1 DEF A!Unguarded
    <3>3. QED
      BY <2>1, <2>6, <3>1, <3>2, AdmitStep
  <2>7. QED
    BY <1>6, <2>3, <2>4, <2>5, <2>6 DEF A!LookupKey, A!At
<1>7. ASSUME NEW s \in Slots, A!LookupThrows(s) PROVE AccessInv'
  <2>1. /\ caller' = [t \in Slots |-> A!Idle]
        /\ UNCHANGED <<role, credential, open, granted, withdrawn, crossed>>
    BY <1>7 DEF A!LookupThrows, A!rows
  <2>2. /\ caller' \in [Slots -> AccessRequests]
        /\ \A t \in Slots : caller'[t] = A!Idle
    BY <1>0, <2>1
  <2>3. \A t \in Slots : AccessOf(t)'
    BY <2>2, IdleRight
  <2>4. QED
    BY <2>1, <2>2, <2>3, CallerStep
<1>a. \A u : A!Exists(u) <=> role[u] \in {"admin", "viewer"}
  BY DEF A!Exists
<1>8. ASSUME NEW s \in Slots, A!Use(s) PROVE AccessInv'
  BY <1>4, <1>8 DEF A!Use, A!Acts
<1>9. ASSUME NEW s \in Slots, NEW u \in Users, NEW r \in {"admin", "viewer"},
             A!CreateUser(s, u, r) \/ A!SetRole(s, u, r)
      PROVE  AccessInv'
  <2>1. /\ A!Done(s) /\ UNCHANGED <<credential, open, granted, withdrawn, crossed>>
        /\ role' = role \/ role' = [role EXCEPT ![u] = r]
    BY <1>9 DEF A!CreateUser, A!SetRole, A!Acts
  <2>2. /\ role' \in [Users -> {"admin", "viewer", "free", "deleted"}]
        /\ \A v \in Users : A!Exists(v) => role'[v] \in {"admin", "viewer"}
    BY <1>0, <1>a, <2>1 DEF AccessTypes
  <2>3. AccountRemains'
    BY <1>a, <2>1, <2>2 DEF AccessInv, AccountRemains, A!AccountRemains, A!Exists
  <2>4. WithdrawnIsGone'
    BY <1>0, <2>1 DEF WithdrawnIsGone
  <2>5. QED
    BY <1>0, <2>1, <2>2, <2>3, <2>4, RowsStep DEF A!Done, AccessTypes
<1>10. ASSUME NEW s \in Slots, NEW u \in Users, A!DeleteUser(s, u) PROVE AccessInv'
  <2>1. CASE caller[s].user = u \/ ~A!Exists(u)
    BY <1>4, <1>10, <2>1 DEF A!DeleteUser, A!Acts
  <2>2. CASE caller[s].user # u /\ A!Exists(u)
    <3>1. /\ A!Done(s) /\ A!Cascade(u) /\ granted' = granted /\ open' = open
          /\ crossed' = (crossed \/ ~A!Exists(caller[s].user))
          /\ caller[s].user \in Users
      BY <1>0, <1>10, <2>2
      DEF A!DeleteUser, A!Acts, A!At, A!Gates, AccessOf
    <3>2. /\ role' = [role EXCEPT ![u] = "deleted"]
          /\ A!Drop(A!Of(u, {"session", "key"}))
          /\ A!Withdraw(A!Of(u, {"session", "key"}))
      BY <3>1 DEF A!Cascade
    <3>3. /\ A!Of(u, {"session", "key"}) \in SUBSET A!Credentials
          /\ \A c \in A!Of(u, {"session", "key"}) : credential[c].kind # "none"
      BY DEF A!Of
    <3>4. /\ credential' \in [A!Credentials ->
                                 [kind : {"none", "session", "key"}, owner : Users]]
          /\ withdrawn' \subseteq 1..granted' /\ withdrawn \subseteq withdrawn'
          /\ WithdrawnIsGone'
      BY <1>0, <3>1, <3>2, <3>3, DropKeeps
    <3>5. /\ role' \in [Users -> {"admin", "viewer", "free", "deleted"}]
          /\ \A v \in Users \ {u} : role'[v] = role[v]
      BY <1>0, <3>2 DEF AccessTypes
    <3>6. AccountRemains'
      BY <1>a, <2>2, <3>1, <3>5 DEF AccountRemains, A!AccountRemains, A!Exists
    <3>7. crossed' \in BOOLEAN
      BY <3>1
    <3>8. QED
      BY <1>0, <3>1, <3>4, <3>5, <3>6, <3>7, RowsStep DEF A!Done, AccessTypes
  <2>3. QED
    BY <2>1, <2>2
<1>11. ASSUME NEW cs \in SUBSET A!Credentials,
              \A c \in cs : credential[c].kind # "none",
              A!Drop(cs), A!Withdraw(cs), UNCHANGED <<role, open, granted, crossed>>,
              \/ caller' = caller
              \/ \E s \in Slots : A!Done(s)
       PROVE  AccessInv'
  <2>1. /\ credential' \in [A!Credentials ->
                               [kind : {"none", "session", "key"}, owner : Users]]
        /\ withdrawn' \subseteq 1..granted' /\ withdrawn \subseteq withdrawn'
        /\ WithdrawnIsGone'
    BY <1>0, <1>11, DropKeeps
  <2>2. AccountRemains'
    BY <1>11 DEF AccessInv, AccountRemains, A!AccountRemains, A!Exists
  <2>3. QED
    BY <1>0, <1>11, <2>1, <2>2, RowsStep DEF A!Done, AccessTypes
<1>12. ASSUME NEW s \in Slots, NEW u \in Users, A!SetPassword(s, u) PROVE AccessInv'
  <2>1. /\ A!Of(u, {"session"}) \in SUBSET A!Credentials
        /\ \A c \in A!Of(u, {"session"}) : credential[c].kind # "none"
    BY DEF A!Of
  <2>2. QED
    BY <1>11, <1>12, <2>1 DEF A!SetPassword, A!Acts
<1>13. ASSUME NEW s \in Slots, NEW c \in A!Credentials, A!DeleteKey(s, c)
       PROVE  AccessInv'
  <2> DEFINE cs == {c} \cap A!Of(caller[s].user, {"key"})
  <2>1. /\ cs \in SUBSET A!Credentials
        /\ \A d \in cs : credential[d].kind # "none"
    BY DEF A!Of
  <2>2. QED
    BY <1>11, <1>13, <2>1 DEF A!DeleteKey, A!Acts
<1>14. ASSUME NEW c \in A!Credentials, A!EndSession(c) PROVE AccessInv'
  <2>1. {c} \in SUBSET A!Credentials /\ credential[c].kind # "none"
    BY <1>14 DEF A!EndSession, A!Live
  <2>2. QED
    BY <1>11, <1>14, <2>1 DEF A!EndSession
<1>15. ASSUME NEW u \in Users, NEW kind \in {"session", "key"}, A!Issue(u, kind),
              UNCHANGED <<role, open, withdrawn, crossed>>,
              \/ caller' = caller
              \/ \E s \in Slots : A!Done(s)
       PROVE  AccessInv'
  <2>1. /\ granted' = granted + 1 /\ granted + 1 \in A!Credentials
        /\ granted' \in 0..MaxCredentials /\ withdrawn' \subseteq 1..granted'
    BY <1>0, <1>15 DEF A!Issue, AccessTypes
  <2>2. /\ credential' = [credential EXCEPT ![granted + 1] =
                             [kind |-> kind, owner |-> u]]
    BY <1>15 DEF A!Issue
  <2>3. /\ credential' \in [A!Credentials ->
                               [kind : {"none", "session", "key"}, owner : Users]]
        /\ \A c \in A!Credentials \ {granted + 1} : credential'[c] = credential[c]
    BY <1>0, <2>1, <2>2 DEF AccessTypes
  <2>4. granted + 1 \notin withdrawn
    BY <1>0 DEF AccessTypes
  <2>5. WithdrawnIsGone'
    BY <1>0, <1>15, <2>1, <2>3, <2>4 DEF WithdrawnIsGone
  <2>6. AccountRemains'
    BY <1>15 DEF AccessInv, AccountRemains, A!AccountRemains, A!Exists
  <2>7. QED
    BY <1>0, <1>15, <2>1, <2>3, <2>5, <2>6, RowsStep DEF A!Done, AccessTypes
<1>16. ASSUME NEW s \in Slots, A!CreateKey(s) PROVE AccessInv'
  <2>1. CASE A!Exists(caller[s].user)
    <3>1. caller[s].user \in Users
      BY <1>0, <1>16 DEF A!CreateKey, A!Acts, A!At, A!Gates, AccessOf
    <3>2. QED
      BY <1>15, <1>16, <2>1, <3>1 DEF A!CreateKey, A!Acts
  <2>2. CASE ~A!Exists(caller[s].user)
    BY <1>4, <1>16, <2>2 DEF A!CreateKey, A!Acts, A!rows
  <2>3. QED
    BY <2>1, <2>2
<1>17. ASSUME NEW u \in Users, A!CreateSession(u) PROVE AccessInv'
  BY <1>15, <1>17 DEF A!CreateSession
<1>18. QED
  BY <1>1, <1>2, <1>5, <1>6, <1>7, <1>8, <1>9, <1>10, <1>12, <1>13, <1>14, <1>16, <1>17
  DEF A!Next, A!Serve

-----------------------------------------------------------------------------
(* The four side by side.                                                  *)

\* Each part of a composed behaviour is a behaviour of its own model: a step of
\* the others leaves its variables alone.
THEOREM PartsAreAlone == AccountsSpec => Spec /\ EnrolmentSpec /\ I!Spec /\ A!Spec
<1>1. AccountsInit => Init /\ EnrolmentInit /\ I!Init /\ A!Init
  BY DEF AccountsInit
<1>2. [AccountsNext]_accountsVars => [Next]_vars
  BY DEF AccountsNext, accountsVars, LoginStep, EnrolmentStep, ImportStep, AccessStep
<1>3. [AccountsNext]_accountsVars => [EnrolmentNext]_enrolmentVars
  BY DEF AccountsNext, accountsVars, LoginStep, EnrolmentStep, ImportStep, AccessStep
<1>4. [AccountsNext]_accountsVars => [I!Next]_(I!vars)
  BY DEF AccountsNext, accountsVars, importVars, I!vars,
         LoginStep, EnrolmentStep, ImportStep, AccessStep
<1>5. [AccountsNext]_accountsVars => [A!Next]_(A!vars)
  BY DEF AccountsNext, accountsVars, accessVars, A!vars,
         LoginStep, EnrolmentStep, ImportStep, AccessStep
<1>6. QED
  BY <1>1, <1>2, <1>3, <1>4, <1>5, PTL
  DEF AccountsSpec, Spec, EnrolmentSpec, I!Spec, A!Spec

\* What the imports rest on, always.
LEMMA ImportInvariant == AccountsSpec => []ImportInv
<1>1. I!Init => ImportInv
  BY AccountsAssumption, ImportInitial
<1>2. ImportInv /\ [I!Next]_(I!vars) => ImportInv'
  BY AccountsAssumption, ImportInductive
<1>3. QED
  BY <1>1, <1>2, PartsAreAlone, PTL DEF I!Spec

\* What being let in rests on, always.
LEMMA AccessInvariant == AccountsSpec => []AccessInv
<1>1. A!Init => AccessInv
  BY AccountsAssumption, AccessInitial
<1>2. AccessInv /\ [A!Next]_(A!vars) => AccessInv'
  BY AccountsAssumption, AccessInductive
<1>3. QED
  BY <1>1, <1>2, PartsAreAlone, PTL DEF A!Spec

\* An import that has answered left every account and key it promised, and what
\* it revealed works, however imports, aborts, retries and deletions overlap.
THEOREM ImportsDeliver == AccountsSpec => []ImportDelivers
<1>1. ImportInv => ImportDelivers
  BY DEF ImportInv, ImportDelivers
<1>2. QED
  BY <1>1, ImportInvariant, PTL

\* Whatever accounts administrators delete, one remains - of whatever role: nothing
\* keeps the last admin from being demoted - unless two of them deleted each other
\* while both were already let in.
THEOREM AnAccountRemains == AccountsSpec => []AccountRemains
<1>1. AccessInv => AccountRemains
  BY DEF AccessInv
<1>2. QED
  BY <1>1, AccessInvariant, PTL

\* A request that acts was let in by a credential that was good when the request
\* began, whatever was withdrawn between its look-ups, or came to the route that
\* asks for none.  Nothing is said of a role that is taken away meanwhile.
THEOREM RevokedAreRefused == AccountsSpec => []RevokedMeansOut
<1>1. AccessInv => RevokedMeansOut
  BY DEF AccessInv, AccessOf, RevokedMeansOut, A!RevokedMeansOut, A!At
<1>2. QED
  BY <1>1, AccessInvariant, PTL

\* Every variable of the four models keeps its type.
THEOREM TypesCorrect == AccountsSpec => []TypesOK
<1>1. ImportInv => I!TypeOK
  <2> SUFFICES ASSUME ImportTypes PROVE I!TypeOK
    BY DEF ImportInv
  <2>1. \A i \in Imports : import[i].pc \in I!Steps
    BY DEF ImportTypes, ImportRecords
  <2>2. QED
    BY <2>1 DEF ImportTypes, I!TypeOK
<1>2. AccessInv => A!TypeOK
  <2> SUFFICES ASSUME AccessTypes PROVE A!TypeOK
    BY DEF AccessInv
  <2>1. \A s \in Slots : /\ caller[s].gate \in A!GateNames
                         /\ caller[s].user \in Users \cup {A!Operator}
                         /\ caller[s].good \subseteq A!Credentials \cup {A!Shared}
    BY DEF AccessTypes, AccessRequests
  <2>2. QED
    BY <2>1 DEF AccessTypes, A!TypeOK
<1>3. Spec => []TypeOK
  BY AccountsAssumption, LoginTypeCorrect
<1>4. TypeOK /\ EnrolmentTypeOK /\ I!TypeOK /\ A!TypeOK => TypesOK
  BY DEF TypesOK
<1>5. QED
  BY <1>1, <1>2, <1>3, <1>4, PartsAreAlone, EnrolmentTypeCorrect, ImportInvariant,
     AccessInvariant, PTL
=============================================================================
