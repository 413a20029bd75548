------------------------------ MODULE Accounts ------------------------------
(***************************************************************************)
(* The four models around users, side by side: logging in (Login),         *)
(* enrolling a second factor (Enrolment), importing a configuration        *)
(* (ConfigImport) and being let in (Access).  Each has its own variables;  *)
(* a behaviour is one of `part` alone, so their states add up instead of   *)
(* multiplying.                                                            *)
(***************************************************************************)
EXTENDS Enrolment, Login

CONSTANTS
    Imports, ExportedBy, KeyNames, MaxErrors,                 \* ConfigImport
    FirstAdmin, MaxCredentials,                               \* Access
    Users                                                     \* both

VARIABLES
    part,
    account, key, import, revealed, deleted, errors,          \* ConfigImport
    role, credential, open, caller, granted, withdrawn, crossed     \* Access

importVars == <<account, key, import, revealed, deleted, errors>>
accessVars == <<role, credential, open, caller, granted, withdrawn, crossed>>
accountsVars == <<part, enrolmentVars, vars, importVars, accessVars>>

I == INSTANCE ConfigImport WITH user <- account

A == INSTANCE Access WITH req <- caller, issued <- granted

ASSUME AccountsAssumption ==
    LoginAssumption /\ I!ImportAssumption /\ A!AccessAssumption

AccountsInit == /\ part \in {"login", "enrolment", "import", "access"}
                /\ Init /\ EnrolmentInit /\ I!Init /\ A!Init
                /\ open => part = "access"   \* once is enough

LoginStep == /\ part = "login" /\ Next
             /\ UNCHANGED <<part, enrolmentVars, importVars, accessVars>>
EnrolmentStep == /\ part = "enrolment" /\ EnrolmentNext
                 /\ UNCHANGED <<part, vars, importVars, accessVars>>
ImportStep == /\ part = "import" /\ I!Next
              /\ UNCHANGED <<part, enrolmentVars, vars, accessVars>>
AccessStep == /\ part = "access" /\ A!Next
              /\ UNCHANGED <<part, enrolmentVars, vars, importVars>>

AccountsNext == LoginStep \/ EnrolmentStep \/ ImportStep \/ AccessStep

AccountsSpec == AccountsInit /\ [][AccountsNext]_accountsVars

\* Every variable of the four models has its type.
TypesOK == TypeOK /\ EnrolmentTypeOK /\ I!TypeOK /\ A!TypeOK

\* ConfigImport: an answered import holds every account and key it promised, and
\* the passwords and keys it reveals work, unless something failed or deleted them.
ImportDelivers == I!ImportDelivers

\* Access: an account, of whatever role, remains whatever administrators delete,
\* except when two of them delete each other at the same time.
AccountRemains == A!AccountRemains

\* Access: a request that begins after all its credentials were withdrawn is
\* refused, unless its route asks for none.
RevokedMeansOut == A!RevokedMeansOut
=============================================================================
