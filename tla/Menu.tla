-------------------------------- MODULE Menu --------------------------------
(***************************************************************************)
(* The dashboard's menu and who is signed in: the models of the sign-in    *)
(* and its dialogs, and of the sections that list API keys, users and      *)
(* remote sources.  The three sections are open one at a time and take     *)
(* turns with one set of variables.                                        *)
(***************************************************************************)
EXTENDS Integers, Sequences

CONSTANTS
    Accounts, MaxSessions, MaxSetups, MaxRequests,                     \* SignIn
    KeyPending, KeyWrites,                                            \* KeyList
    People, Self, Groups, ReadsAs, FirstPeople, OtherRows, Unlimited, UserPending, UserWrites,
                                                                    \* UserForms
    Sources, FirstSources, SourcePending, SourceWrites            \* SourceForms

VARIABLES
    mfa, owner, live, setups, phone, cookie, screen, awaiting, modal, requests,
    revived, missed, torn,                                            \* SignIn
    held, list, reads, listing, calls, told, order, form, past       \* Section

signInVars == <<mfa, owner, live, setups, phone, cookie, screen, awaiting, modal, requests,
                revived, missed, torn>>
sectionVars == <<held, list, reads, listing, calls, told, order, form, past>>

-----------------------------------------------------------------------------
I == INSTANCE SignIn WITH pending <- awaiting

K == INSTANCE KeyList WITH UnreadRows <- {}, MaxPending <- KeyPending, MaxWrites <- KeyWrites,
       loading <- listing

V == INSTANCE UserForms WITH UnreadRows <- <<>>, MaxPending <- UserPending,
       MaxWrites <- UserWrites, loading <- listing, Users <- People, First <- FirstPeople,
       Null <- Unlimited

W == INSTANCE SourceForms WITH UnreadRows <- <<>>, MaxPending <- SourcePending,
       MaxWrites <- SourceWrites, loading <- listing, First <- FirstSources

ASSUME MenuAssumption ==
    I!SignInAssumption /\ K!SectionAssumption /\ V!UsersAssumption /\ W!SourcesAssumption
=============================================================================
