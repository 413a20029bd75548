------------------------------- MODULE SignIn -------------------------------
(***************************************************************************)
(* Who is on screen: the login screen, logout, and the dialogs of the menu *)
(* that switch the second factor on and off (LoginScreen, SecuritySection, *)
(* MfaSetupModal, MfaDisableModal of App.tsx).  A request outlives the     *)
(* dialog that sent it, the login and the account it was sent under, and   *)
(* the page.                                                               *)
(*                                                                         *)
(* The server checks a change of the factor in one step and writes it in   *)
(* another; Enrolment takes the two further apart, and Login a login,      *)
(* which is one step here.  Recovery codes are not typed in.               *)
(***************************************************************************)
EXTENDS Integers, Sequences

CONSTANTS
    Accounts,
    MaxSessions, MaxSetups, MaxRequests  \* bounds of the model

VARIABLES
    mfa,       \* mfa[a]: the account's mfa_enabled and secret
    owner,     \* owner[s]: whose session s is
    live,      \* sessions the server knows
    setups,    \* secrets generated so far; they are numbered
    phone,     \* phone[a]: secrets in the authenticator of the account's owner
    cookie,    \* the session the browser's cookie names, or None
    screen,    \* authUser, or NoOne
    pending,   \* pendingToken: of which account, or Nobody
    modal,     \* the open dialog, what it shows
    requests,  \* under way; whether what sent it is still on screen, whether the
               \* page still waits for the answer
    revived,   \* history: a dialog already gone set authUser
    missed,    \* history: the screen was not told that the factor changed
    torn       \* history: accounts whose secret or factor was written over between
               \* a check and its write

signInVars ==
    <<mfa, owner, live, setups, phone, cookie, screen, pending, modal, requests, revived, missed,
      torn>>

None == 0
Nobody == "nobody"
NoOne == [name |-> Nobody, mfaEnabled |-> FALSE]
NoModal == [kind |-> "none", secret |-> None, codes |-> FALSE]
Modals == [kind : {"none", "setup", "disable"}, secret : 0..MaxSetups, codes : BOOLEAN]
Sessions == 1..MaxSessions

SignInAssumption ==
    /\ Nobody \notin Accounts
    /\ MaxSessions \in Nat /\ MaxSetups \in Nat /\ MaxRequests \in Nat

CallRecords ==
    [kind : {"login", "code", "logout", "setup", "confirm", "disable"},
     account : Accounts \cup {Nobody},
     session : Sessions \cup {None},
     secret : 0..MaxSetups,
     here : BOOLEAN, heard : BOOLEAN,
     result : {"none", "checked", "ok", "mfa", "unauthorized", "error"}]

Init ==
    /\ mfa = [a \in Accounts |-> [enabled |-> FALSE, secret |-> None]]
    /\ owner = <<>> /\ live = {} /\ setups = 0
    /\ phone = [a \in Accounts |-> {}]
    /\ cookie = None /\ screen = NoOne /\ pending = Nobody /\ modal = NoModal
    /\ requests = <<>> /\ revived = FALSE /\ missed = FALSE /\ torn = {}

serverVars == <<mfa, owner, live, setups, torn>>

-----------------------------------------------------------------------------
(* The screen sends.                                                       *)

Shown == screen # NoOne
Me == IF cookie = None THEN Nobody ELSE owner[cookie]
Waiting(kinds) == \E i \in DOMAIN requests : requests[i].here /\ requests[i].kind \in kinds

Send(kind, account, secret) ==
    /\ Len(requests) < MaxRequests
    /\ requests' = Append(requests, [kind |-> kind, account |-> account, session |-> cookie,
                                     secret |-> secret, here |-> TRUE, heard |-> TRUE,
                                     result |-> "none"])
    /\ UNCHANGED <<serverVars, phone, cookie, screen, revived, missed>>

\* A code off the phone, or a mistyped one.
Codes(account) == (IF account = Nobody THEN {} ELSE phone[account]) \cup {None}

LoginForm == ~Shown /\ pending = Nobody /\ ~Waiting({"login", "code"})
CodeForm == ~Shown /\ pending # Nobody /\ ~Waiting({"login", "code"})
SetupForm == modal.kind = "setup" /\ modal.secret # None /\ ~modal.codes /\ ~Waiting({"confirm"})
DisableForm == modal.kind = "disable" /\ ~Waiting({"disable"})

Submit(account) ==
    /\ LoginForm
    /\ Send("login", account, None)
    /\ UNCHANGED <<pending, modal>>

SubmitMfa ==
    /\ CodeForm
    /\ \E code \in Codes(pending) : Send("code", pending, code)
    /\ UNCHANGED <<pending, modal>>

\* Also while the code is being verified.
Back ==
    /\ ~Shown /\ pending # Nobody
    /\ pending' = Nobody
    /\ UNCHANGED <<serverVars, phone, cookie, screen, modal, requests, revived, missed>>

\* The button does not wait for the answer to the click before.
HandleLogout ==
    /\ Shown
    /\ Send("logout", screen.name, None)
    /\ UNCHANGED <<pending, modal>>

OpenSetup ==
    /\ Shown /\ ~screen.mfaEnabled /\ modal = NoModal
    /\ modal' = [NoModal EXCEPT !.kind = "setup"]
    /\ Send("setup", screen.name, None)
    /\ UNCHANGED pending

OpenDisable ==
    /\ Shown /\ screen.mfaEnabled /\ modal = NoModal
    /\ modal' = [NoModal EXCEPT !.kind = "disable"]
    /\ UNCHANGED <<serverVars, phone, cookie, screen, pending, requests, revived, missed>>

Confirm ==
    /\ SetupForm
    /\ \E code \in Codes(Me) : Send("confirm", screen.name, code)
    /\ UNCHANGED <<pending, modal>>

SubmitDisable ==
    /\ DisableForm
    /\ \E code \in Codes(Me) : Send("disable", screen.name, code)
    /\ UNCHANGED <<pending, modal>>

Gone(sent) == [i \in DOMAIN sent |-> [sent[i] EXCEPT !.here = FALSE]]

\* "x" or a click beside the dialog, at any time.
CloseModal ==
    /\ modal # NoModal
    /\ modal' = NoModal
    /\ requests' = Gone(requests)
    /\ missed' = (missed \/ modal.codes)
    /\ UNCHANGED <<serverVars, phone, cookie, screen, pending, revived>>

\* "I've saved these": only now is the screen told.
CodesSaved ==
    /\ modal.codes
    /\ modal' = NoModal
    /\ screen' = [screen EXCEPT !.mfaEnabled = TRUE]
    /\ UNCHANGED <<serverVars, phone, cookie, pending, requests, revived, missed>>

\* The page is loaded again, when what it had under way is lost; me() says who
\* this is.  What the old page sent the server may still be at.
Reload ==
    /\ \A i \in DOMAIN requests : ~requests[i].heard
    /\ pending' = Nobody /\ modal' = NoModal
    /\ screen' = IF cookie \in live
                 THEN [name |-> Me, mfaEnabled |-> mfa[Me].enabled] ELSE NoOne
    /\ revived' = FALSE /\ missed' = FALSE
    /\ UNCHANGED <<serverVars, phone, cookie, requests>>

-----------------------------------------------------------------------------
(* The server.                                                             *)

Verifies(a, code) == mfa[a].secret # None /\ code = mfa[a].secret

Rest(i) == SubSeq(requests, 1, i - 1) \o SubSeq(requests, i + 1, Len(requests))

\* An answer nobody waits for goes nowhere.
Answer(i, result, secret) ==
    requests' = IF requests[i].heard
                THEN [requests EXCEPT ![i].result = result, ![i].secret = secret]
                ELSE Rest(i)
Result(i, result) == Answer(i, result, requests[i].secret)
Step(i, result) == requests' = [requests EXCEPT ![i].result = result]
Screen == <<phone, cookie, screen, pending, modal, revived, missed>>

NewSession(account) ==
    /\ Len(owner) < MaxSessions
    /\ owner' = Append(owner, account)
    /\ live' = live \cup {Len(owner) + 1}
    /\ UNCHANGED <<mfa, setups, torn>>

ServeLogin(i) ==
    LET r == requests[i] IN
    /\ r.kind \in {"login", "code"} /\ r.result = "none"
    /\ \/ (IF r.kind = "login" THEN ~mfa[r.account].enabled
           ELSE mfa[r.account].enabled /\ Verifies(r.account, r.secret))
          /\ NewSession(r.account)
          /\ requests' = [requests EXCEPT ![i].result = "ok", ![i].session = Len(owner) + 1]
       \/ r.kind = "login" /\ mfa[r.account].enabled
          /\ Result(i, "mfa") /\ UNCHANGED serverVars
       \/ Result(i, "unauthorized") /\ UNCHANGED serverVars  \* or a wrong password
    /\ UNCHANGED Screen

ServeLogout(i) ==
    /\ requests[i].kind = "logout" /\ requests[i].result = "none"
    /\ live' = live \ {requests[i].session}
    /\ Result(i, "ok")
    /\ UNCHANGED <<mfa, owner, setups, torn, Screen>>

MfaKinds == {"setup", "confirm", "disable"}
Account(i) == owner[requests[i].session]

\* What is checked first: setup refuses an account that has the factor, confirm
\* verifies a code for the secret read, disable also that the factor is on.
CheckMfa(i) ==
    LET r == requests[i]
        a == Account(i)
    IN
    /\ r.kind \in MfaKinds /\ r.result = "none"
    /\ UNCHANGED <<serverVars, Screen>>
    /\ \/ r.session \notin live /\ Result(i, "unauthorized")
       \/ /\ r.session \in live
          /\ CASE r.kind = "setup" /\ mfa[a].enabled -> Result(i, "error")
               [] r.kind = "confirm" /\ mfa[a].secret = None -> Result(i, "error")
               [] r.kind = "disable" /\ ~mfa[a].enabled -> Result(i, "unauthorized")
               [] r.kind = "setup" /\ ~mfa[a].enabled -> Step(i, "checked")
               [] OTHER -> IF Verifies(a, r.secret) THEN Step(i, "checked")
                           ELSE Result(i, "unauthorized")

\* A confirmation of the account has been checked and not written.
Confirming(a) ==
    \E i \in DOMAIN requests :
        requests[i].kind = "confirm" /\ requests[i].result = "checked" /\ Account(i) = a

\* The UPDATE, whatever the row holds by now.  It tears the enrolment if it
\* replaces or clears the secret a confirmation has verified.
WriteSetup(i) ==
    LET a == Account(i) IN
    /\ requests[i].kind = "setup" /\ requests[i].result = "checked" /\ setups < MaxSetups
    /\ setups' = setups + 1
    /\ mfa' = [mfa EXCEPT ![a].secret = setups + 1]
    /\ Answer(i, "ok", setups + 1)
    /\ torn' = IF mfa[a].enabled \/ Confirming(a) THEN torn \cup {a} ELSE torn
    /\ UNCHANGED <<owner, live, Screen>>

WriteConfirm(i) ==
    /\ requests[i].kind = "confirm" /\ requests[i].result = "checked"
    /\ mfa' = [mfa EXCEPT ![Account(i)].enabled = TRUE]
    /\ missed' = (missed \/ ~requests[i].heard)
    /\ Result(i, "ok")
    /\ UNCHANGED <<owner, live, setups, torn, phone, cookie, screen, pending, modal, revived>>

WriteDisable(i) ==
    LET a == Account(i) IN
    /\ requests[i].kind = "disable" /\ requests[i].result = "checked"
    /\ mfa' = [mfa EXCEPT ![a] = [enabled |-> FALSE, secret |-> None]]
    /\ torn' = IF Confirming(a) THEN torn \cup {a} ELSE torn \ {a}
    /\ missed' = (missed \/ ~requests[i].heard)
    /\ Result(i, "ok")
    /\ UNCHANGED <<owner, live, setups, phone, cookie, screen, pending, modal, revived>>

Expire(s) ==
    /\ s \in live
    /\ live' = live \ {s}
    /\ UNCHANGED <<mfa, owner, setups, torn, requests, Screen>>

-----------------------------------------------------------------------------
(* The screen gets an answer.                                              *)

\* setAuthUser(new), with the requests that remain under way: the login screen
\* or the menu and its dialogs go when the other one comes.
SetAuthUser(new, rest) ==
    /\ screen' = new
    /\ IF (new = NoOne) = ~Shown
       THEN requests' = rest /\ UNCHANGED <<pending, modal>>
       ELSE requests' = Gone(rest) /\ pending' = Nobody /\ modal' = NoModal

LoggedIn(i) ==
    LET r == requests[i] IN
    /\ r.kind \in {"login", "code"} /\ r.result = "ok" /\ r.heard
    /\ cookie' = r.session
    /\ SetAuthUser([name |-> r.account, mfaEnabled |-> r.kind = "code"], Rest(i))
    /\ revived' = FALSE
    /\ UNCHANGED <<serverVars, phone, missed>>

MfaRequired(i) ==
    LET r == requests[i] IN
    /\ r.result = "mfa" /\ r.heard
    /\ pending' = IF r.here THEN r.account ELSE pending
    /\ requests' = Rest(i)
    /\ UNCHANGED <<serverVars, phone, cookie, screen, modal, revived, missed>>

\* finally: whether it was answered or not.
LoggedOut(i) ==
    /\ requests[i].kind = "logout" /\ requests[i].heard
    /\ cookie' \in IF requests[i].result = "ok" THEN {None, cookie} ELSE {cookie}
    /\ SetAuthUser(NoOne, Rest(i))
    /\ revived' = FALSE
    /\ UNCHANGED <<serverVars, phone, missed>>

SetupAnswers(i) ==
    LET r == requests[i] IN
    /\ r.kind = "setup" /\ r.result = "ok" /\ r.heard
    /\ requests' = Rest(i)
    /\ IF r.here
       THEN /\ modal' = [modal EXCEPT !.secret = r.secret]
            /\ phone' = [phone EXCEPT ![owner[r.session]] = @ \cup {r.secret}]
       ELSE UNCHANGED <<modal, phone>>
    /\ UNCHANGED <<serverVars, cookie, screen, pending, revived, missed>>

ConfirmAnswers(i) ==
    LET r == requests[i] IN
    /\ r.kind = "confirm" /\ r.result = "ok" /\ r.heard
    /\ requests' = Rest(i)
    /\ modal' = IF r.here THEN [modal EXCEPT !.codes = TRUE] ELSE modal
    /\ missed' = (missed \/ ~r.here)
    /\ UNCHANGED <<serverVars, phone, cookie, screen, pending, revived>>

\* Fault: onEnabled is called with the answer, like onDisabled.
ConfirmAnswers_TellsApp(i) ==
    LET r == requests[i] IN
    /\ r.kind = "confirm" /\ r.result = "ok" /\ r.heard
    /\ SetAuthUser([name |-> r.account, mfaEnabled |-> TRUE], Rest(i))
    /\ UNCHANGED <<serverVars, phone, cookie, revived, missed>>

\* onDisabled closes the dialog and sets the account it was opened for, even
\* when the dialog is gone.
DisableAnswers(i) ==
    LET r == requests[i] IN
    /\ r.kind = "disable" /\ r.result = "ok" /\ r.heard
    /\ screen' = [name |-> r.account, mfaEnabled |-> FALSE]
    /\ revived' = (revived \/ ~r.here \/ screen.name # r.account)
    /\ requests' = IF Shown THEN Rest(i) ELSE Gone(Rest(i))
    /\ pending' = IF Shown THEN pending ELSE Nobody
    /\ modal' = IF r.here THEN NoModal ELSE modal
    /\ missed' = (missed \/ ~r.here)
    /\ UNCHANGED <<serverVars, phone, cookie>>

\* An error is a message; any 401 shows the login screen - the one for a
\* mistyped code, too, while the session lives on.
Fails(i) ==
    LET r == requests[i] IN
    /\ r.kind # "logout" /\ r.result \in {"unauthorized", "error"} /\ r.heard
    /\ IF r.result = "unauthorized"
       THEN SetAuthUser(NoOne, Rest(i)) /\ revived' = FALSE
       ELSE requests' = Rest(i) /\ UNCHANGED <<screen, pending, modal, revived>>
    /\ UNCHANGED <<serverVars, phone, cookie, missed>>

Unheard(r) == [r EXCEPT !.here = FALSE, !.heard = FALSE]

\* The connection is lost, which is an error; a change of the factor may yet be
\* served.
Lost(i) ==
    LET r == requests[i] IN
    /\ r.kind # "logout" /\ r.heard
    /\ \/ requests' = Rest(i)
       \/ /\ r.kind \in MfaKinds /\ r.result \in {"none", "checked"}
          /\ requests' = [requests EXCEPT ![i] = Unheard(@)]
    /\ missed' = (missed \/ (r.kind \in {"confirm", "disable"} /\ r.result = "ok"))
    /\ UNCHANGED <<serverVars, phone, cookie, screen, pending, modal, revived>>

Next ==
    \/ \E a \in Accounts : Submit(a)
    \/ SubmitMfa \/ Back \/ HandleLogout \/ OpenSetup \/ OpenDisable \/ Confirm
    \/ SubmitDisable \/ CloseModal \/ CodesSaved \/ Reload
    \/ \E s \in Sessions : Expire(s)
    \/ \E i \in DOMAIN requests :
        \/ ServeLogin(i) \/ ServeLogout(i) \/ CheckMfa(i)
        \/ WriteSetup(i) \/ WriteConfirm(i) \/ WriteDisable(i)
        \/ LoggedIn(i) \/ MfaRequired(i) \/ LoggedOut(i) \/ SetupAnswers(i)
        \/ ConfirmAnswers(i) \/ DisableAnswers(i) \/ Fails(i) \/ Lost(i)

Spec == Init /\ [][Next]_signInVars

-----------------------------------------------------------------------------
(* Properties.                                                             *)

TypeOK ==
    /\ mfa \in [Accounts -> [enabled : BOOLEAN, secret : 0..MaxSetups]]
    /\ owner \in Seq(Accounts) /\ live \subseteq DOMAIN owner
    /\ setups \in 0..MaxSetups /\ phone \in [Accounts -> SUBSET (1..MaxSetups)]
    /\ cookie \in DOMAIN owner \cup {None}
    /\ screen \in [name : Accounts, mfaEnabled : BOOLEAN] \cup {NoOne}
    /\ pending \in Accounts \cup {Nobody} /\ modal \in Modals
    /\ requests \in Seq(CallRecords) /\ Len(requests) <= MaxRequests
    /\ revived \in BOOLEAN /\ missed \in BOOLEAN /\ torn \subseteq Accounts

\* The account on screen is the one the browser's cookie acts for, whatever
\* logins, logouts and dialogs are answered late - unless a dialog that was gone
\* already put its account back on screen.
ScreenIsCookie == Shown /\ ~revived => Me = screen.name

\* When nothing is under way, the menu offers "Enable" or "Disable" as the server
\* has it, unless the screen never got the news.
FactorIsAsShown ==
    Shown /\ requests = <<>> /\ modal = NoModal /\ ~revived /\ ~missed =>
        screen.mfaEnabled = mfa[screen.name].enabled

\* A second factor is never required that its owner was not shown, unless the
\* dialog was opened or the factor disabled elsewhere while it was confirmed.
SecretIsHeld ==
    \A a \in Accounts \ torn : mfa[a].enabled => mfa[a].secret \in phone[a]

SignInHolds == ScreenIsCookie /\ FactorIsAsShown /\ SecretIsHeld
=============================================================================
