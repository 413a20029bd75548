------------------------------- MODULE Login -------------------------------
(***************************************************************************)
(* Logging in to one account (routes/auth.ts, services/authService.ts,     *)
(* verifyMfaCode of services/mfaService.ts): the password step, the second *)
(* step that redeems a pending login with a TOTP or a recovery code, the   *)
(* lockout both count towards, and the password change that must end the   *)
(* sessions opened with the old password.                                  *)
(*                                                                         *)
(* A slot is one HTTP request at a time; each query it awaits is one step, *)
(* and a query that throws ends the request (Abort).  A password is its    *)
(* version.  Rows that differ in nothing but their random token are one.   *)
(***************************************************************************)
EXTENDS Integers, FiniteSets

CONSTANTS
    Slots,       \* requests under way at the same time
    Codes,       \* recovery codes of the account
    Threshold,   \* loginLockout.threshold
    Duration,    \* loginLockout.durationMinutes
    MaxTime, MaxAborts, MaxChanges, MaxGuesses, MaxRows  \* bounds of the model

LoginAssumption ==
    /\ IsFiniteSet(Slots)
    /\ Threshold \in Nat \ {0} /\ Duration \in Nat \ {0}
    /\ MaxTime \in Nat \ {0} /\ MaxAborts \in Nat /\ MaxChanges \in Nat
    /\ MaxGuesses \in Nat /\ MaxRows \in Nat

VARIABLES
    now,
    user,      \* users row: password version, mfa_enabled
    lockout,   \* login_lockouts row: failed_count, locked_until (0: null)
    pending,   \* mfa_pending_logins
    sessions,
    unused,    \* recovery codes whose used_at is null
    req,       \* req[s]: the request in slot s
    change,    \* the password change's transaction
    guesses,   \* history: failures counted since a success or a lock ended
    redeemed,  \* history: recovery codes accepted so far, most recent use
    twice,     \* history: a recovery code was accepted a second time
    aborts     \* locks that failed to be written

vars == <<now, user, lockout, pending, sessions, unused, req, change, guesses,
          redeemed, twice, aborts>>

\* "late": the password was changed while this login was under way.
Login == [pw : 1..MaxChanges + 1, late : BOOLEAN]
Answers == {"totp", "wrong"} \cup Codes
Steps == {"idle", "verify", "offer", "check", "code",
          "claim", "consume", "count", "lock", "clear", "session"}
Request == [pc : Steps, login : Login, ok : BOOLEAN, code : Answers]

NoLogin == [pw |-> 1, late |-> FALSE]
Idle == [pc |-> "idle", login |-> NoLogin, ok |-> FALSE, code |-> "wrong"]

Locked == lockout.until > now
NoLockout == [count |-> 0, until |-> 0]

Init ==
    /\ now = 1
    /\ user = [pw |-> 1, mfa |-> TRUE]
    /\ lockout = NoLockout
    /\ pending = {} /\ sessions = {}
    /\ unused = Codes
    /\ req = [s \in Slots |-> Idle]
    /\ change = [pc |-> "idle", doomed |-> {}]
    /\ guesses = 0 /\ redeemed = {} /\ twice = FALSE /\ aborts = 0

At(s, pc) == req[s].pc = pc
Goto(s, pc) == req' = [req EXCEPT ![s].pc = pc]
Done(s) == req' = [req EXCEPT ![s] = Idle]
history == <<guesses, redeemed, twice, aborts>>

-----------------------------------------------------------------------------
(* POST /auth/login.                                                       *)

\* A request with the current password, or with a wrong one: checkLockout is
\* the first thing it awaits.
Submit(s, ok) ==
    /\ At(s, "idle") /\ ~Locked
    /\ req' = [req EXCEPT ![s] = [Idle EXCEPT !.pc = "verify", !.ok = ok]]
    /\ UNCHANGED <<now, user, lockout, pending, sessions, unused, change, history>>

Fails(s) == req' = [req EXCEPT ![s] = [Idle EXCEPT !.pc = "count"]]

\* Fault: an account with MFA has its failures cleared by the password alone.
VerifyPassword_Clears(s) ==
    /\ At(s, "verify")
    /\ IF req[s].ok
       THEN /\ req' = [req EXCEPT ![s].pc = IF user.mfa THEN "offer" ELSE "clear",
                                  ![s].ok = FALSE,
                                  ![s].login = [pw |-> user.pw, late |-> FALSE]]
            /\ lockout' = NoLockout
       ELSE Fails(s) /\ UNCHANGED lockout
    /\ UNCHANGED <<now, user, pending, sessions, unused, change, history>>

\* verifyPassword reads the row as committed and decides on mfa_enabled there.
VerifyPassword(s) ==
    /\ At(s, "verify")
    /\ IF req[s].ok
       THEN req' = [req EXCEPT ![s].pc = IF user.mfa THEN "offer" ELSE "clear",
                               ![s].ok = FALSE,
                               ![s].login = [pw |-> user.pw, late |-> FALSE]]
       ELSE Fails(s)
    /\ UNCHANGED <<now, user, lockout, pending, sessions, unused, change, history>>

\* createMfaPendingLogin; the answer carries the token.
OfferMfa(s) ==
    /\ At(s, "offer")
    /\ pending' = pending \cup {req[s].login}
    /\ Cardinality(pending') <= MaxRows
    /\ Done(s)
    /\ UNCHANGED <<now, user, lockout, sessions, unused, change, history>>

-----------------------------------------------------------------------------
(* POST /auth/login/mfa.                                                   *)

\* getMfaPendingLoginUserId: a token that has not expired; it stays valid.
Redeem(s, l, code) ==
    /\ At(s, "idle")
    /\ req' = [req EXCEPT ![s] = [Idle EXCEPT !.pc = "check", !.code = code,
                                  !.login = l]]
    /\ UNCHANGED <<now, user, lockout, pending, sessions, unused, change, history>>

\* checkLockout, once the pending login is known.
CheckLockout(s) ==
    /\ At(s, "check")
    /\ IF Locked THEN Done(s) ELSE Goto(s, "code")
    /\ UNCHANGED <<now, user, lockout, pending, sessions, unused, change, history>>

\* verifyMfaCode: the row, then TOTP; anything else may be a recovery code.
VerifyTotp(s) ==
    /\ At(s, "code")
    /\ IF ~user.mfa THEN Fails(s)
       ELSE Goto(s, IF req[s].code = "totp" THEN "consume" ELSE "claim")
    /\ UNCHANGED <<now, user, lockout, pending, sessions, unused, change, history>>

Accept(s) ==
    /\ req' = [req EXCEPT ![s].pc = "consume", ![s].code = "totp"]
    /\ redeemed' = redeemed \cup {req[s].code}
    /\ twice' = (twice \/ req[s].code \in redeemed)

\* Fault: the code is looked up here and marked as used by nobody.
ClaimCode_SelectOnly(s) ==
    /\ At(s, "claim")
    /\ IF req[s].code \in unused THEN Accept(s)
       ELSE Fails(s) /\ UNCHANGED <<redeemed, twice>>
    /\ UNCHANGED <<now, user, lockout, pending, sessions, unused, change, guesses, aborts>>

\* UPDATE ... WHERE used_at IS NULL RETURNING: finding and using are one step.
ClaimCode(s) ==
    /\ At(s, "claim")
    /\ unused' = unused \ {req[s].code}
    /\ IF req[s].code \in unused THEN Accept(s)
       ELSE Fails(s) /\ UNCHANGED <<redeemed, twice>>
    /\ UNCHANGED <<now, user, lockout, pending, sessions, change, guesses, aborts>>

\* deleteMfaPendingLogin: no error when another request deleted it already.
ConsumePending(s) ==
    /\ At(s, "consume")
    /\ pending' = pending \ {req[s].login}
    /\ req' = [req EXCEPT ![s].pc = "clear", ![s].code = "wrong"]
    /\ UNCHANGED <<now, user, lockout, sessions, unused, change, history>>

-----------------------------------------------------------------------------
(* What both steps end with.                                               *)

\* Fault: the account is locked one failure later than configured.
CountFailure_OffByOne(s) ==
    /\ At(s, "count")
    /\ guesses < MaxGuesses /\ guesses' = guesses + 1
    /\ lockout' = [lockout EXCEPT !.count = @ + 1]
    /\ IF lockout.count + 1 > Threshold THEN Goto(s, "lock") ELSE Done(s)
    /\ UNCHANGED <<now, user, pending, sessions, unused, change, redeemed,
                   twice, aborts>>

\* recordFailedLogin: the upsert that counts; a lock that ended leaves its
\* count behind.
CountFailure(s) ==
    /\ At(s, "count")
    /\ guesses < MaxGuesses /\ guesses' = guesses + 1
    /\ lockout' = [lockout EXCEPT !.count = @ + 1]
    /\ IF lockout.count + 1 >= Threshold THEN Goto(s, "lock") ELSE Done(s)
    /\ UNCHANGED <<now, user, pending, sessions, unused, change, redeemed,
                   twice, aborts>>

\* ... and, as a statement of its own, the lock, if the row is still there.
Lock(s) ==
    /\ At(s, "lock")
    /\ lockout' = IF lockout = NoLockout THEN lockout
                  ELSE [lockout EXCEPT !.until = now + Duration]
    /\ Done(s)
    /\ UNCHANGED <<now, user, pending, sessions, unused, change, history>>

\* recordSuccessfulLogin.
ClearLockout(s) ==
    /\ At(s, "clear")
    /\ lockout' = NoLockout /\ guesses' = 0
    /\ Goto(s, "session")
    /\ UNCHANGED <<now, user, pending, sessions, unused, change, redeemed,
                   twice, aborts>>

\* One that is inserted after the DELETE of a password change is late, too.
Late(l) == [l EXCEPT !.late = TRUE]

CreateSession(s) ==
    /\ At(s, "session")
    /\ LET l == req[s].login
       IN  sessions' = sessions \cup {IF change.pc = "commit" THEN Late(l) ELSE l}
    /\ Cardinality(sessions') <= MaxRows
    /\ Done(s)
    /\ UNCHANGED <<now, user, lockout, pending, unused, change, history>>

\* A query throws, or the replica dies: the request is over.  What
\* is counted of these is a failure that its lock did not follow.
Abort(s) ==
    /\ ~At(s, "idle")
    /\ IF At(s, "lock")
       THEN aborts < MaxAborts /\ aborts' = aborts + 1
       ELSE UNCHANGED aborts
    /\ Done(s)
    /\ UNCHANGED <<now, user, lockout, pending, sessions, unused, change,
                   guesses, redeemed, twice>>

-----------------------------------------------------------------------------
(* The account changes under the requests.                                 *)

\* Fault: the transaction leaves the sessions alone.
DeleteSessions_None ==
    /\ change.pc = "idle" /\ user.pw <= MaxChanges
    /\ change' = [pc |-> "commit", doomed |-> {}]
    /\ UNCHANGED <<now, user, lockout, pending, sessions, unused, req, history>>

\* updateUser's transaction up to its DELETE, which sees the sessions that are
\* committed by now.
DeleteSessions ==
    /\ change.pc = "idle" /\ user.pw <= MaxChanges
    /\ change' = [pc |-> "commit", doomed |-> sessions]
    /\ UNCHANGED <<now, user, lockout, pending, sessions, unused, req, history>>

Verified == {"offer", "check", "code", "claim", "consume", "clear", "session"}

\* COMMIT: the new password and the deletions become visible together; who is
\* past verifyPassword or holds a pending token goes on.
CommitChange ==
    /\ change.pc = "commit"
    /\ change' = [pc |-> "idle", doomed |-> {}]
    /\ user' = [user EXCEPT !.pw = @ + 1]
    /\ sessions' = sessions \ change.doomed
    /\ pending' = {Late(l) : l \in pending}
    /\ req' = [s \in Slots |-> IF req[s].pc \in Verified
                               THEN [req[s] EXCEPT !.login = Late(req[s].login)]
                               ELSE req[s]]
    /\ UNCHANGED <<now, lockout, unused, history>>

\* adminResetMfa, as one step: Enrolment takes it apart.
ResetMfa ==
    /\ user.mfa
    /\ user' = [user EXCEPT !.mfa = FALSE] /\ unused' = {}
    /\ UNCHANGED <<now, lockout, pending, sessions, req, change, history>>

Logout(l) ==
    /\ sessions' = sessions \ {l}
    /\ change' = [change EXCEPT !.doomed = @ \ {l}]
    /\ UNCHANGED <<now, user, lockout, pending, unused, req, history>>

\* A pending login is 5 minutes old: no query finds it any more, and the
\* prune deletes it.
ExpirePending(l) ==
    /\ pending' = pending \ {l}
    /\ UNCHANGED <<now, user, lockout, sessions, unused, req, change, history>>

Tick ==
    /\ now < MaxTime
    /\ now' = now + 1
    /\ guesses' = IF lockout.until = now + 1 THEN 0 ELSE guesses
    /\ UNCHANGED <<user, lockout, pending, sessions, unused, req, change,
                   redeemed, twice, aborts>>

Serve(s) ==
    \/ CheckLockout(s) \/ VerifyPassword(s) \/ OfferMfa(s)
    \/ VerifyTotp(s) \/ ClaimCode(s) \/ ConsumePending(s)
    \/ CountFailure(s) \/ Lock(s) \/ ClearLockout(s) \/ CreateSession(s)

Next ==
    \/ \E s \in Slots :
        \/ \E ok \in BOOLEAN : Submit(s, ok)
        \/ \E l \in pending, code \in Answers : Redeem(s, l, code)
        \/ Serve(s) \/ Abort(s)
    \/ DeleteSessions \/ CommitChange
    \/ ResetMfa
    \/ \E l \in sessions : Logout(l)
    \/ \E l \in pending : ExpirePending(l)
    \/ Tick

Spec == Init /\ [][Next]_vars

-----------------------------------------------------------------------------
(* Properties.                                                             *)

TypeOK ==
    /\ now \in 1..MaxTime
    /\ user \in [pw : 1..MaxChanges + 1, mfa : BOOLEAN]
    /\ lockout \in [count : Nat, until : Nat]
    /\ pending \subseteq Login
    /\ sessions \subseteq Login
    /\ unused \subseteq Codes
    /\ req \in [Slots -> Request]
    /\ change \in [pc : {"idle", "commit"}, doomed : SUBSET Login]
    /\ redeemed \subseteq Codes /\ twice \in BOOLEAN
    /\ guesses \in 0..MaxGuesses /\ aborts \in 0..MaxAborts

\* However requests overlap around the slow bcrypt, no more than Threshold
\* wrong passwords and codes are told apart before the account is locked, one
\* more for each other request that was past checkLockout by then, and one more
\* for each lock that failed to be written.
GuessesBounded ==
    guesses + Cardinality({s \in Slots : At(s, "count")})
        <= Threshold + Cardinality(Slots) - 1 + aborts

\* "A password change invalidates every existing session": what is left under
\* an old password comes from a login that was under way at the commit (or
\* held a pending token, which the change does not touch).
OldPasswordSessionsAreLate == \A l \in sessions : l.pw # user.pw => l.late

\* "one-time - claimed atomically": two requests with the same recovery code
\* are never both let in.
CodeUsedOnce == ~twice
=============================================================================
