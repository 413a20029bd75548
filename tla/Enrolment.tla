----------------------------- MODULE Enrolment -----------------------------
(***************************************************************************)
(* MFA enrolment of one account (services/mfaService.ts, the /auth/mfa     *)
(* routes, the admin reset): begin, confirm, disable and reset are         *)
(* requests of several tabs, replicas and admins, each a few statements    *)
(* without a transaction.                                                  *)
(*                                                                         *)
(* A secret has the name of the slot and round that generated it; the ten  *)
(* recovery codes of a confirmation are one code, named after the secret   *)
(* they were shown for.                                                    *)
(***************************************************************************)
EXTENDS Integers

CONSTANTS
    Requests,      \* requests under way at the same time
    MaxSecret,  \* bound of the model: secrets generated
    MaxCuts   \* bound of the model: requests cut short

ASSUME EnrolmentAssumption == MaxSecret \in Nat /\ MaxCuts \in Nat

VARIABLES
    row,      \* users row: mfa_enabled, mfa_secret_encrypted (0: null)
    codes,    \* unused mfa_recovery_codes, by the secret they were shown for
    op,       \* op[s]: the request in slot s
    issued,   \* secrets generated so far
    scanned,  \* the secret the user's authenticator holds
    proven,   \* history: secrets a code was verified for
    cuts,
    torn      \* history: one of the races named at Torn*

enrolmentVars == <<row, codes, op, issued, scanned, proven, cuts, torn>>

Secrets == 1..MaxSecret
Null == 0
Kinds == {"none", "begin", "confirm", "disable", "reset"}
OpSteps == {"idle", "store", "show", "enable", "codes", "verify", "clear", "delete"}

NoOp == [kind |-> "none", pc |-> "idle", secret |-> Null]

EnrolmentInit ==
    /\ row = [enabled |-> FALSE, secret |-> Null]
    /\ codes = {}
    /\ op = [s \in Requests |-> NoOp]
    /\ issued = 0 /\ scanned = Null /\ proven = {} /\ cuts = 0
    /\ torn = FALSE

Doing(s, kind, pc) == op[s].kind = kind /\ op[s].pc = pc
Proceed(s, pc) == op' = [op EXCEPT ![s].pc = pc]
Finish(s) == op' = [op EXCEPT ![s] = NoOp]
Start(s, kind, pc, secret) ==
    op' = [op EXCEPT ![s] = [kind |-> kind, pc |-> pc, secret |-> secret]]

Confirming(pcs) == \E s \in Requests : op[s].kind = "confirm" /\ op[s].pc \in pcs

\* The races the code is open to: a secret is replaced after a confirmation
\* has read it, or after one has enabled it ...
TornByStore == row.enabled \/ Confirming({"enable"})
\* ... the row is cleared inside a confirmation ...
TornByClear == Confirming({"enable", "codes"})
\* ... or a disable or reset dies before it has deleted the codes.
TornByAbort(s) == op[s].pc = "delete"

-----------------------------------------------------------------------------
\* beginEnrollment: refused while MFA is enabled.
Begin(s) ==
    /\ Doing(s, "none", "idle") /\ ~row.enabled
    /\ issued < MaxSecret
    /\ issued' = issued + 1
    /\ Start(s, "begin", "store", issued + 1)
    /\ UNCHANGED <<row, codes, scanned, proven, cuts, torn>>

\* The secret replaces whatever the row holds.
StoreSecret(s) ==
    /\ Doing(s, "begin", "store")
    /\ row' = [row EXCEPT !.secret = op[s].secret]
    /\ torn' = (torn \/ TornByStore)
    /\ Proceed(s, "show")
    /\ UNCHANGED <<codes, issued, scanned, proven, cuts>>

\* The answer arrives and the user scans the QR code, or never does.
Scan(s) ==
    /\ Doing(s, "begin", "show")
    /\ scanned' \in {scanned, op[s].secret}
    /\ Finish(s)
    /\ UNCHANGED <<row, codes, issued, proven, cuts, torn>>

-----------------------------------------------------------------------------
\* Fault: no check that an enrolment is under way.
ReadSecret_NotPending(s) ==
    /\ Doing(s, "none", "idle")
    /\ scanned = row.secret
    /\ proven' = proven \cup {scanned}
    /\ Start(s, "confirm", "enable", row.secret)
    /\ UNCHANGED <<row, codes, issued, scanned, cuts, torn>>

\* Fault: the code is not compared with the secret of the row.
ReadSecret_Unproven(s) ==
    /\ Doing(s, "none", "idle")
    /\ row.secret # Null
    /\ proven' = proven \cup ({row.secret} \cap {scanned})
    /\ Start(s, "confirm", "enable", row.secret)
    /\ UNCHANGED <<row, codes, issued, scanned, cuts, torn>>

\* confirmEnrollment reads the secret and verifies a code of the authenticator.
ReadSecret(s) ==
    /\ Doing(s, "none", "idle")
    /\ row.secret # Null /\ scanned = row.secret
    /\ proven' = proven \cup {scanned}
    /\ Start(s, "confirm", "enable", row.secret)
    /\ UNCHANGED <<row, codes, issued, scanned, cuts, torn>>

\* mfa_enabled, whatever secret the row holds by now.
Enable(s) ==
    /\ Doing(s, "confirm", "enable")
    /\ row' = [row EXCEPT !.enabled = TRUE]
    /\ Proceed(s, "codes")
    /\ UNCHANGED <<codes, issued, scanned, proven, cuts, torn>>

InsertCodes(s) ==
    /\ Doing(s, "confirm", "codes")
    /\ codes' = codes \cup {op[s].secret}
    /\ Finish(s)
    /\ UNCHANGED <<row, issued, scanned, proven, cuts, torn>>

-----------------------------------------------------------------------------
\* disableMfa: the password, then verifyMfaCode with a TOTP of the enabled
\* secret or with a recovery code, which is used up.
VerifyToDisable(s) ==
    /\ Doing(s, "none", "idle") /\ row.enabled
    /\ row.secret # Null
    /\ \/ scanned = row.secret /\ UNCHANGED codes
       \/ \E c \in codes : codes' \in {codes, codes \ {c}}  \* one of ten
    /\ Start(s, "disable", "clear", Null)
    /\ UNCHANGED <<row, issued, scanned, proven, cuts, torn>>

\* adminResetMfa asks for nothing.
Reset(s) ==
    /\ Doing(s, "none", "idle")
    /\ Start(s, "reset", "clear", Null)
    /\ UNCHANGED <<row, codes, issued, scanned, proven, cuts, torn>>

ClearRow(s) ==
    /\ op[s].pc = "clear"
    /\ row' = [enabled |-> FALSE, secret |-> Null]
    /\ torn' = (torn \/ TornByClear)
    /\ Proceed(s, "delete")
    /\ UNCHANGED <<codes, issued, scanned, proven, cuts>>

\* Fault: the recovery codes outlive the enrolment.
DeleteCodes_Kept(s) ==
    /\ op[s].pc = "delete"
    /\ Finish(s)
    /\ UNCHANGED <<row, codes, issued, scanned, proven, cuts, torn>>

DeleteCodes(s) ==
    /\ op[s].pc = "delete"
    /\ codes' = {}
    /\ Finish(s)
    /\ UNCHANGED <<row, issued, scanned, proven, cuts, torn>>

\* A statement throws or the replica dies; what was written stays.
CutShort(s) ==
    /\ op[s].pc # "idle" /\ cuts < MaxCuts
    /\ cuts' = cuts + 1
    /\ torn' = (torn \/ TornByAbort(s))
    /\ Finish(s)
    /\ UNCHANGED <<row, codes, issued, scanned, proven>>

EnrolmentNext ==
    \E s \in Requests :
        \/ Begin(s) \/ StoreSecret(s) \/ Scan(s)
        \/ ReadSecret(s) \/ Enable(s) \/ InsertCodes(s)
        \/ VerifyToDisable(s) \/ Reset(s) \/ ClearRow(s) \/ DeleteCodes(s)
        \/ CutShort(s)

EnrolmentSpec == EnrolmentInit /\ [][EnrolmentNext]_enrolmentVars

-----------------------------------------------------------------------------
(* Properties.                                                             *)

EnrolmentTypeOK ==
    /\ row \in [enabled : BOOLEAN, secret : Secrets \cup {Null}]
    /\ codes \subseteq Secrets
    /\ op \in [Requests -> [kind : Kinds, pc : OpSteps, secret : Secrets \cup {Null}]]
    /\ \A s \in Requests : op[s].kind = "confirm" => op[s].secret \in Secrets
    /\ issued \in 0..MaxSecret
    /\ scanned \in Secrets \cup {Null}
    /\ proven \subseteq Secrets
    /\ cuts \in 0..MaxCuts
    /\ torn \in BOOLEAN

\* "an abandoned enrollment never silently starts requiring a second factor"
\* (mfaService.ts:23-24): MFA is only ever required with a secret somebody produced a
\* code for, unless requests raced on the row - a dialog opened again while an
\* earlier secret is being confirmed does make the code break that promise.
RequiredIsProven == row.enabled /\ ~torn => row.secret \in proven

\* The recovery codes that work are those shown for the enrolment in force:
\* disabling or resetting MFA leaves none that a later enrolment would revive.
CodesOfThisEnrolment ==
    (\A s \in Requests : op[s].pc # "delete") /\ ~torn =>
        codes = {} \/ (row.enabled /\ codes = {row.secret})
=============================================================================
