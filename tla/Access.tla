------------------------------- MODULE Access -------------------------------
(***************************************************************************)
(* Who a request acts as (middleware/auth.ts), and the accounts and        *)
(* credentials such requests change while others are under way: user       *)
(* management (routes/admin.ts), API keys and logout (routes/auth.ts).     *)
(*                                                                         *)
(* A slot is one request of one replica.  It starts with what it carries,  *)
(* a cookie and an X-API-Key, is looked up query by query, and then acts   *)
(* with the user it was given, whatever became of that user meanwhile.     *)
(* Logging in is one step here: module Login takes it apart.               *)
(***************************************************************************)
EXTENDS Integers

CONSTANTS
    Slots,
    Users,           \* ids of users rows; an id is never used again
    FirstAdmin,      \* the one seedAdmin has made
    MaxCredentials   \* bound of the model: sessions and API keys ever issued

AccessAssumption == FirstAdmin \in Users /\ MaxCredentials \in Nat

VARIABLES
    role,        \* role[u]: "admin", "viewer", or no row: "free", "deleted"
    credential,  \* credential[c]: a row of sessions or api_keys, or None
    open,        \* no INGEST_API_KEY is configured, and POST /calls/ingest is open
    req,         \* req[s]: the request in slot s
    issued,      \* credentials issued so far
    withdrawn,   \* history: credentials that must not work any more
    crossed      \* history: a user was deleted by one deleted meanwhile

vars == <<role, credential, open, req, issued, withdrawn, crossed>>

Credentials == 1..MaxCredentials
None == 0
Shared == MaxCredentials + 1    \* a key of ADMIN_API_KEY or INGEST_API_KEY
Operator == "operator"          \* whoever holds it: no user at all
Gates == [createKey |-> "auth", deleteKey |-> "auth",
          deleteUser |-> "admin", setRole |-> "admin", setPassword |-> "admin",
          createUser |-> "admin", backup |-> "adminKey", ingest |-> "apiKey"]
GateNames == {Gates[op] : op \in DOMAIN Gates}
Exists(u) == role[u] \in {"admin", "viewer"}
Live(c, kind) == c \in Credentials /\ credential[c].kind = kind

NoRow == [kind |-> "none", owner |-> FirstAdmin]
Idle == [pc |-> "idle", gate |-> "adminKey", cookie |-> None, key |-> None,
         user |-> Operator, good |-> {}]

Init ==
    /\ role = [u \in Users |-> IF u = FirstAdmin THEN "admin" ELSE "free"]
    /\ credential = [c \in Credentials |-> NoRow]
    /\ open \in BOOLEAN
    /\ req = [s \in Slots |-> Idle]
    /\ issued = 0 /\ withdrawn = {} /\ crossed = FALSE

At(s, pc) == req[s].pc = pc
Done(s) == req' = [req EXCEPT ![s] = Idle]
rows == <<role, credential, open, issued, withdrawn, crossed>>

Issue(u, kind) ==
    /\ issued < MaxCredentials
    /\ issued' = issued + 1
    /\ credential' = [credential EXCEPT ![issued + 1] = [kind |-> kind, owner |-> u]]

Of(u, kinds) == {c \in Credentials : credential[c].kind \in kinds /\ credential[c].owner = u}
Drop(cs) == credential' = [c \in Credentials |-> IF c \in cs THEN NoRow ELSE credential[c]]
Withdraw(cs) == withdrawn' = withdrawn \cup cs

-----------------------------------------------------------------------------
(* Authentication.                                                         *)

\* A request for a route behind that gate; which route matters only once it acts.
\* "good" notes, for the properties, what the request carries that still counts.
Start(s, gate, cookie, key) ==
    /\ At(s, "idle")
    /\ req' = [req EXCEPT ![s] = [Idle EXCEPT !.gate = gate, !.cookie = cookie, !.key = key,
         !.pc = IF gate = "apiKey" THEN "ingest key" ELSE "session",
         !.good = {cookie, key} \ (withdrawn \cup {None})]]
    /\ UNCHANGED rows

Admit(s, u, c) ==
    req' = [req EXCEPT ![s].pc = "act", ![s].user = u, ![s].good = @ \cap {c},
                       ![s].cookie = None, ![s].key = None]

\* The role travels with the user row that the JOIN returns.
AdmitOwner(s, c) ==
    LET u == credential[c].owner
    IN IF req[s].gate = "admin" /\ role[u] # "admin" THEN Done(s)
       ELSE Admit(s, u, c)

\* requireAuth and requireAdminKey: the cookie first.
LookupSession(s) ==
    /\ At(s, "session")
    /\ LET c == req[s].cookie
           admin == Live(c, "session") /\ role[credential[c].owner] = "admin"
       IN IF req[s].gate = "adminKey"
          THEN IF admin THEN AdmitOwner(s, c)
               ELSE IF req[s].key = Shared THEN Admit(s, Operator, Shared)
               ELSE Done(s)
          ELSE IF Live(c, "session") THEN AdmitOwner(s, c)
               ELSE req' = [req EXCEPT ![s].pc = "key"]
    /\ UNCHANGED rows

\* getUserByApiKey, for requireAuth after the cookie and for requireApiKey
\* after the shared keys, if there are any.
LookupKey(s) ==
    /\ \/ At(s, "key") \/ At(s, "ingest key")
    /\ IF At(s, "ingest key") /\ open THEN Admit(s, Operator, None)
       ELSE IF At(s, "ingest key") /\ req[s].key = Shared THEN Admit(s, Operator, Shared)
       ELSE IF Live(req[s].key, "key") THEN AdmitOwner(s, req[s].key)
       ELSE Done(s)
    /\ UNCHANGED rows

\* The middlewares are async and catch nothing: a query that throws is an
\* unhandled rejection, which ends the process and every request in it.
LookupThrows(s) ==
    /\ \/ At(s, "session") \/ At(s, "key") \/ At(s, "ingest key")
    /\ req' = [t \in Slots |-> Idle]
    /\ UNCHANGED rows

-----------------------------------------------------------------------------
(* The handlers.                                                           *)

Acts(s, op) == At(s, "act") /\ req[s].gate = Gates[op] /\ Done(s)

\* POST /calls/ingest, POST /admin/backups: nothing that is kept here.
Use(s) ==
    /\ \/ Acts(s, "ingest") \/ Acts(s, "backup")
    /\ UNCHANGED rows

\* POST /admin/users.
CreateUser(s, u, r) ==
    /\ Acts(s, "createUser") /\ role[u] = "free"
    /\ role' = [role EXCEPT ![u] = r]
    /\ UNCHANGED <<credential, open, issued, withdrawn, crossed>>

Cascade(u) ==
    /\ role' = [role EXCEPT ![u] = "deleted"]
    /\ Drop(Of(u, {"session", "key"})) /\ Withdraw(Of(u, {"session", "key"}))

\* Fault: an admin may delete the account they are logged in as.
DeleteUser_Self(s, u) ==
    /\ Acts(s, "deleteUser")
    /\ IF ~Exists(u)
       THEN UNCHANGED rows
       ELSE /\ Cascade(u)
            /\ crossed' = (crossed \/ ~Exists(req[s].user))
            /\ UNCHANGED <<open, issued>>

\* DELETE /admin/users/:id; the sessions and keys go with the row.
DeleteUser(s, u) ==
    /\ Acts(s, "deleteUser")
    /\ IF req[s].user = u \/ ~Exists(u)
       THEN UNCHANGED rows
       ELSE /\ Cascade(u)
            /\ crossed' = (crossed \/ ~Exists(req[s].user))
            /\ UNCHANGED <<open, issued>>

\* PATCH /admin/users/:id with a role; an admin may demote anybody.
SetRole(s, u, r) ==
    /\ Acts(s, "setRole")
    /\ role' = IF Exists(u) THEN [role EXCEPT ![u] = r] ELSE role
    /\ UNCHANGED <<credential, open, issued, withdrawn, crossed>>

\* Fault: the sessions opened with the old password stay.
SetPassword_KeepsSessions(s, u) ==
    /\ Acts(s, "setPassword")
    /\ Withdraw(Of(u, {"session"}))
    /\ UNCHANGED <<role, credential, open, issued, crossed>>

\* PATCH with a password: updateUser deletes the sessions, the keys stay.
SetPassword(s, u) ==
    /\ Acts(s, "setPassword")
    /\ Drop(Of(u, {"session"})) /\ Withdraw(Of(u, {"session"}))
    /\ UNCHANGED <<role, open, issued, crossed>>

\* POST /auth/api-keys: refused by the foreign key once the user is gone.
CreateKey(s) ==
    /\ Acts(s, "createKey")
    /\ IF Exists(req[s].user) THEN Issue(req[s].user, "key")
       ELSE UNCHANGED <<credential, issued>>
    /\ UNCHANGED <<role, open, withdrawn, crossed>>

\* DELETE /auth/api-keys/:id: only a key of the caller's own.
DeleteKey(s, c) ==
    /\ Acts(s, "deleteKey")
    /\ Drop({c} \cap Of(req[s].user, {"key"}))
    /\ Withdraw({c} \cap Of(req[s].user, {"key"}))
    /\ UNCHANGED <<role, open, issued, crossed>>

-----------------------------------------------------------------------------
(* Without a user.                                                         *)

\* POST /auth/login.
CreateSession(u) ==
    /\ Exists(u) /\ Issue(u, "session")
    /\ UNCHANGED <<role, open, req, withdrawn, crossed>>

\* POST /auth/logout, or the session's seven days are over.
EndSession(c) ==
    /\ Live(c, "session")
    /\ Drop({c}) /\ Withdraw({c})
    /\ UNCHANGED <<role, open, req, issued, crossed>>

\* What a client may still hold: of no credential, an ended one or a live one.
Held(kind) == {None} \cup withdrawn \cup {c \in Credentials : Live(c, kind)}
Serve(s) ==
    \/ LookupSession(s) \/ LookupKey(s) \/ LookupThrows(s)
    \/ Use(s) \/ CreateKey(s)
    \/ \E c \in Credentials : DeleteKey(s, c)
    \/ \E u \in Users :
        \/ DeleteUser(s, u) \/ SetPassword(s, u)
        \/ \E r \in {"admin", "viewer"} : CreateUser(s, u, r) \/ SetRole(s, u, r)

Next ==
    \/ \E s \in Slots :
        \/ \E gate \in GateNames, cookie \in Held("session"), key \in Held("key") \cup {Shared} :
            Start(s, gate, cookie, key)
        \/ Serve(s)
    \/ \E u \in Users : CreateSession(u)
    \/ \E c \in Credentials : EndSession(c)

Spec == Init /\ [][Next]_vars

-----------------------------------------------------------------------------
(* Properties.                                                             *)

TypeOK ==
    /\ role \in [Users -> {"admin", "viewer", "free", "deleted"}]
    /\ credential \in [Credentials -> [kind : {"none", "session", "key"}, owner : Users]]
    /\ \A s \in Slots :
        /\ req[s].gate \in GateNames /\ req[s].user \in Users \cup {Operator}
        /\ req[s].good \subseteq Credentials \cup {Shared}
    /\ issued \in 0..MaxCredentials /\ withdrawn \subseteq 1..issued
    /\ crossed \in BOOLEAN /\ open \in BOOLEAN

\* The system never ends up without an account, of whatever role ("Cannot delete
\* your own account while logged in as it"), except when two admins delete each
\* other: the one who was deleted first was already authenticated.
AccountRemains == crossed \/ \E u \in Users : Exists(u)

\* A session that was logged out, expired or met a password change, a key that
\* was revoked and anything of a deleted user admits no request that starts
\* afterwards: what a request is admitted by was still good when it started, except
\* where nothing is asked for.  A role that was taken away is another matter: an
\* admin's request goes on once it is admitted.
Unguarded(s) == open /\ req[s].gate = "apiKey"
RevokedMeansOut == \A s \in Slots : At(s, "act") => Unguarded(s) \/ req[s].good # {}
=============================================================================
