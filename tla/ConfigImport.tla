---------------------------- MODULE ConfigImport ----------------------------
(***************************************************************************)
(* Importing a configuration bundle (services/configExportService.ts,      *)
(* POST /admin/config-import) while other admins import it too, delete     *)
(* users and revoke keys.  An import is a sequence of queries without a    *)
(* transaction; the passwords and keys it generates exist in its answer    *)
(* and nowhere else.                                                       *)
(*                                                                         *)
(* An account, its id and its password have the name of the import that    *)
(* made them, and so has the value of a key.                               *)
(***************************************************************************)
EXTENDS Integers

CONSTANTS
    Imports,    \* requests to POST /admin/config-import
    Users,      \* usernames
    ExportedBy, \* ExportedBy[i]: usernames that existed where i's bundle is from
    KeyNames,   \* KeyNames[u]: the API keys u had there
    MaxErrors   \* bound of the model: queries that throw, all together

VARIABLES
    user,      \* user[u]: the account of that name, or None
    key,       \* key[u]: pairs of a name and the import that made the key
    import,    \* import[i]: where it is, byUsername, what it has created
    revealed,  \* history: passwords and keys that reached an admin
    deleted,   \* history: users an admin has deleted
    errors

vars == <<user, key, import, revealed, deleted, errors>>

None == "none"
Elsewhere == "elsewhere"   \* made by other means than an import
Makers == Imports \cup {Elsewhere}
Steps == {"new", "create", "done", "failed"}
Password == "password"

ImportAssumption ==
    /\ {None, Elsewhere} \cap Imports = {}
    /\ ExportedBy \in [Imports -> SUBSET Users]
    /\ \A u \in Users : Password \notin KeyNames[u]
    /\ MaxErrors \in Nat

\* exportConfig: every user, and for each of them every key.
BundleKeys(i) == {<<u, n>> : u \in ExportedBy[i], n \in UNION {KeyNames[u] : u \in Users}}
Bundle(i) == [users |-> ExportedBy[i],
              keys  |-> {k \in BundleKeys(i) : k[2] \in KeyNames[k[1]]}]

Nothing == [pc |-> "new", byUsername |-> [u \in Users |-> None], users |-> {},
            keys |-> {}, missing |-> {}, made |-> {}]

Init ==
    /\ user = [u \in Users |-> None]
    /\ key = [u \in Users |-> {}]
    /\ import = [i \in Imports |-> Nothing]
    /\ revealed = {} /\ deleted = {} /\ errors = 0

Known(i) == {u \in Users : import[i].byUsername[u] # None}

\* listUsers, once for the whole import.
ReadUsers(i) ==
    /\ import[i].pc = "new"
    /\ import' = [import EXCEPT
         ![i] = [Nothing EXCEPT !.pc = "create", !.byUsername = user,
                                !.users = Bundle(i).users, !.keys = Bundle(i).keys]]
    /\ UNCHANGED <<user, key, revealed, deleted, errors>>

Fail(i) == import' = [import EXCEPT ![i] = [Nothing EXCEPT !.pc = "failed"]]

SkipUser(i, u) ==
    /\ u \in import[i].users \cap Known(i)
    /\ import' = [import EXCEPT ![i].users = @ \ {u}]
    /\ UNCHANGED <<user, key, revealed, deleted, errors>>

\* Fault: the insert is ON CONFLICT DO NOTHING.
CreateUser_Swallow(i, u) ==
    /\ u \in import[i].users \ Known(i)
    /\ user' = [user EXCEPT ![u] = IF @ = None THEN i ELSE @]
    /\ import' = [import EXCEPT ![i].users = @ \ {u},
                                ![i].byUsername[u] = user'[u],
                                ![i].made = @ \cup {<<u, Password>>}]
    /\ UNCHANGED <<key, revealed, deleted, errors>>

\* createUser: a username taken since listUsers fails the whole import.
CreateUser(i, u) ==
    /\ u \in import[i].users \ Known(i)
    /\ IF user[u] = None
       THEN /\ user' = [user EXCEPT ![u] = i]
            /\ import' = [import EXCEPT ![i].users = @ \ {u},
                                        ![i].byUsername[u] = i,
                                        ![i].made = @ \cup {<<u, Password>>}]
       ELSE Fail(i) /\ UNCHANGED user
    /\ UNCHANGED <<key, revealed, deleted, errors>>

\* The keys of the account that byUsername knows, if it is still there.
KeysOf(i, u) == IF user[u] = import[i].byUsername[u] THEN key[u] ELSE {}

\* listApiKeys: a name the owner already has a key of is skipped.
ListKeys(i, k) ==
    /\ import[i].users = {} /\ import[i].missing = {} /\ k \in import[i].keys
    /\ import' = [import EXCEPT ![i].keys = @ \ {k},
         ![i].missing = {k} \ {<<k[1], made[1]>> : made \in KeysOf(i, k[1])}]
    /\ UNCHANGED <<user, key, revealed, deleted, errors>>

\* createApiKey: names are not unique, but the owner's id must exist.
CreateKey(i, k) ==
    /\ import[i].missing = {k}
    /\ IF user[k[1]] = import[i].byUsername[k[1]]
       THEN /\ key' = [key EXCEPT ![k[1]] = @ \cup {<<k[2], i>>}]
            /\ import' = [import EXCEPT ![i].missing = {}, ![i].made = @ \cup {k}]
       ELSE Fail(i) /\ UNCHANGED key
    /\ UNCHANGED <<user, revealed, deleted, errors>>

\* The answer shows what was created, once.
Answer(i) ==
    /\ import[i].pc = "create"
    /\ import[i].users = {} /\ import[i].keys = {} /\ import[i].missing = {}
    /\ revealed' = revealed \cup {<<m, i>> : m \in import[i].made}
    /\ import' = [import EXCEPT ![i] = [Nothing EXCEPT !.pc = "done"]]
    /\ UNCHANGED <<user, key, deleted, errors>>

\* A query throws, the replica dies or the answer is lost.
Abort(i) ==
    /\ import[i].pc = "create" /\ errors < MaxErrors
    /\ errors' = errors + 1
    /\ Fail(i)
    /\ UNCHANGED <<user, key, revealed, deleted>>

\* DELETE /admin/users/:id takes the keys along.
DeleteUser(u) ==
    /\ user[u] # None /\ u \notin deleted
    /\ user' = [user EXCEPT ![u] = None]
    /\ key' = [key EXCEPT ![u] = {}]
    /\ deleted' = deleted \cup {u}
    /\ UNCHANGED <<import, revealed, errors>>

\* POST /admin/users.
AddUser(u) ==
    /\ user[u] = None /\ u \notin deleted
    /\ user' = [user EXCEPT ![u] = Elsewhere]
    /\ UNCHANGED <<key, import, revealed, deleted, errors>>

Next ==
    \/ \E i \in Imports :
        \/ ReadUsers(i) \/ Answer(i) \/ Abort(i)
        \/ \E u \in Users : SkipUser(i, u) \/ CreateUser(i, u)
        \/ \E k \in Bundle(i).keys : ListKeys(i, k) \/ CreateKey(i, k)
    \/ \E u \in Users : DeleteUser(u) \/ AddUser(u)

Spec == Init /\ [][Next]_vars

-----------------------------------------------------------------------------
(* Properties.                                                             *)

TypeOK ==
    /\ user \in [Users -> Makers \cup {None}]
    /\ \A u \in Users : key[u] \subseteq KeyNames[u] \X Imports
    /\ \A i \in Imports : import[i].pc \in Steps
    /\ deleted \subseteq Users /\ errors \in 0..MaxErrors

\* A password or key shown to the admin is one that works.
RevealedWorks ==
    \A u \in Users \ deleted, i \in Imports :
        /\ <<<<u, Password>>, i>> \in revealed => user[u] = i
        /\ \A n \in KeyNames[u] :
            <<<<u, n>>, i>> \in revealed => <<n, i>> \in key[u]

\* An import that answers has left every user of the bundle and all their keys,
\* made by it, by an earlier import that failed, or by somebody else.
AnsweredIsComplete ==
    \A i \in Imports : import[i].pc = "done" =>
        /\ \A u \in Bundle(i).users \ deleted : user[u] # None
        /\ \A k \in Bundle(i).keys :
            k[1] \in deleted \/ \E made \in key[k[1]] : made[1] = k[2]

\* An account whose password nobody was shown comes from an import that is
\* under way or has failed.
LostOnlyByFailure ==
    \A u \in Users, i \in Imports :
        user[u] = i /\ <<<<u, Password>>, i>> \notin revealed =>
            import[i].pc \in {"create", "failed"}

\* What an admin can rely on after an import, however imports, deletions and
\* errors overlap ("revealed once in the response").
ImportDelivers == RevealedWorks /\ AnsweredIsComplete /\ LostOnlyByFailure
=============================================================================
