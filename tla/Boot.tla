-------------------------------- MODULE Boot --------------------------------
(***************************************************************************)
(* Booting the replicas of the backend on one database (start() of         *)
(* index.ts, db/migrate.ts, db/seed.ts, db/seedAdmin.ts): nothing          *)
(* coordinates them but the transaction the migrations run in and the      *)
(* unique keys of schema_migrations and users.  A step that fails exits    *)
(* the process and compose starts it again.                                *)
(***************************************************************************)
EXTENDS Integers

CONSTANTS
    Replicas,
    Migrations,  \* Migrations[p]: the .sql files in the image of replica p
    MaxCrashes   \* bound of the model: crashes and errors, all together

VARIABLES
    pc,        \* pc[p]: where start() is in replica p
    pending,   \* pending[p]: the migrations it found missing
    version,   \* rows of schema_migrations
    ran,       \* ran[m]: commits that executed m's statements
    examples,  \* call_records holds rows
    admin,     \* the replica whose password the first admin has, or Nobody
    shown,     \* replicas that printed the password they generated
    lost,      \* history: a replica died between creating and printing
    crashes

vars == <<pc, pending, version, ran, examples, admin, shown, lost, crashes>>

Steps == {"connect", "migrate", "apply", "count calls", "seed", "count users",
          "create", "print", "prune", "up", "exited"}
Files == UNION {Migrations[p] : p \in Replicas}
Nobody == "nobody"

BootAssumption == MaxCrashes \in Nat /\ Nobody \notin Replicas

Init ==
    /\ pc = [p \in Replicas |-> "connect"]
    /\ pending = [p \in Replicas |-> {}]
    /\ version = {}
    /\ ran = [m \in Files |-> 0]
    /\ examples = FALSE
    /\ admin = Nobody /\ shown = {} /\ lost = FALSE
    /\ crashes = 0

Goto(p, step) == pc' = [pc EXCEPT ![p] = step]

\* testConnection.
Connect(p) ==
    /\ pc[p] = "connect"
    /\ Goto(p, "migrate")
    /\ UNCHANGED <<pending, version, ran, examples, admin, shown, lost, crashes>>

\* runMigrations: BEGIN, and the versions that are committed by now.
ReadVersions(p) ==
    /\ pc[p] = "migrate"
    /\ pending' = [pending EXCEPT ![p] = Migrations[p] \ version]
    /\ Goto(p, IF pending'[p] = {} THEN "count calls" ELSE "apply")
    /\ UNCHANGED <<version, ran, examples, admin, shown, lost, crashes>>

Executed(ms) == [m \in Files |-> IF m \in ms THEN ran[m] + 1 ELSE ran[m]]

\* Fault: each statement commits by itself, and a version is recorded after
\* its migration has run.
ApplyMigrations_Each(p) ==
    /\ pc[p] = "apply"
    /\ \E m \in pending[p] : ran' = Executed({m})
    /\ version' \in {version, version \cup pending[p]}
    /\ Goto(p, IF version' = version THEN "exited" ELSE "count calls")
    /\ UNCHANGED <<pending, examples, admin, shown, lost, crashes>>

\* Every pending file and its version, and COMMIT: a replica that inserts a
\* version somebody else has committed meanwhile is refused, and one that
\* meets an uncommitted version waits for it to be one or the other.
ApplyMigrations(p) ==
    /\ pc[p] = "apply"
    /\ IF pending[p] \cap version = {}
       THEN /\ version' = version \cup pending[p]
            /\ ran' = Executed(pending[p])
            /\ Goto(p, "count calls")
       ELSE Goto(p, "exited") /\ UNCHANGED <<version, ran>>
    /\ UNCHANGED <<pending, examples, admin, shown, lost, crashes>>

\* seedExamples.
CountCalls(p) ==
    /\ pc[p] = "count calls"
    /\ Goto(p, IF examples THEN "count users" ELSE "seed")
    /\ UNCHANGED <<pending, version, ran, examples, admin, shown, lost, crashes>>

\* One transaction of upserts: a second replica writes the same five again.
SeedExamples(p) ==
    /\ pc[p] = "seed"
    /\ examples' = TRUE
    /\ Goto(p, "count users")
    /\ UNCHANGED <<pending, version, ran, admin, shown, lost, crashes>>

\* seedAdmin.
CountUsers(p) ==
    /\ pc[p] = "count users"
    /\ Goto(p, IF admin = Nobody THEN "create" ELSE "prune")
    /\ UNCHANGED <<pending, version, ran, examples, admin, shown, lost, crashes>>

\* Fault: an upsert, so that two replicas both believe in their password.
CreateAdmin_Upsert(p) ==
    /\ pc[p] = "create"
    /\ admin' = p /\ Goto(p, "print")
    /\ UNCHANGED <<pending, version, ran, examples, shown, lost, crashes>>

\* The username is unique: the slower of two replicas fails.
CreateAdmin(p) ==
    /\ pc[p] = "create"
    /\ IF admin = Nobody
       THEN admin' = p /\ Goto(p, "print")
       ELSE Goto(p, "exited") /\ UNCHANGED admin
    /\ UNCHANGED <<pending, version, ran, examples, shown, lost, crashes>>

PrintPassword(p) ==
    /\ pc[p] = "print"
    /\ shown' = shown \cup {p}
    /\ Goto(p, "prune")
    /\ UNCHANGED <<pending, version, ran, examples, admin, lost, crashes>>

\* The four boot-time prunes, and the server listens.
Listen(p) ==
    /\ pc[p] = "prune"
    /\ Goto(p, "up")
    /\ UNCHANGED <<pending, version, ran, examples, admin, shown, lost, crashes>>

\* A query fails and start() exits, or the process dies, up or booting.
Crash(p) ==
    /\ pc[p] # "exited" /\ crashes < MaxCrashes
    /\ crashes' = crashes + 1
    /\ lost' = (lost \/ pc[p] = "print")
    /\ Goto(p, "exited")
    /\ UNCHANGED <<pending, version, ran, examples, admin, shown>>

\* Fault: the container is not restarted.
Restart_Never(p) == FALSE /\ UNCHANGED vars

\* restart: unless-stopped.
Restart(p) ==
    /\ pc[p] = "exited"
    /\ Goto(p, "connect")
    /\ pending' = [pending EXCEPT ![p] = {}]
    /\ UNCHANGED <<version, ran, examples, admin, shown, lost, crashes>>

Start(p) ==
    \/ Connect(p) \/ ReadVersions(p) \/ ApplyMigrations(p)
    \/ CountCalls(p) \/ SeedExamples(p)
    \/ CountUsers(p) \/ CreateAdmin(p) \/ PrintPassword(p) \/ Listen(p)
    \/ Restart(p)

Next == \E p \in Replicas : Start(p) \/ Crash(p)

\* The process runs on and compose restarts it.
Fairness == \A p \in Replicas : WF_vars(Start(p))

Spec == Init /\ [][Next]_vars /\ Fairness

-----------------------------------------------------------------------------
(* Properties.                                                             *)

TypeOK ==
    /\ pc \in [Replicas -> Steps]
    /\ pending \in [Replicas -> SUBSET Files]
    /\ version \subseteq Files
    /\ ran \in [Files -> Nat]
    /\ examples \in BOOLEAN
    /\ admin \in Replicas \cup {Nobody} /\ shown \subseteq Replicas
    /\ lost \in BOOLEAN /\ crashes \in 0..MaxCrashes

\* However many replicas boot at once, crash and boot again, with old images
\* or new ones: no migration runs twice, one is recorded exactly when it has
\* run, and a replica serves only once its own have.
MigratedOnce ==
    /\ \A m \in Files : ran[m] = IF m \in version THEN 1 ELSE 0
    /\ \A p \in Replicas : pc[p] = "up" => Migrations[p] \subseteq version

\* A replica that serves has an admin to log in with; the one password in the
\* logs is that admin's, and it is in the logs unless a replica died in between
\* ("save it now, it will not be shown again").
AdminCanLogIn ==
    /\ (\E p \in Replicas : pc[p] = "up") => admin # Nobody
    /\ shown \subseteq {admin}
    /\ admin # Nobody => admin \in shown \/ lost \/ pc[admin] = "print"

\* Losing a race at boot costs a restart, never the replica.
EveryReplicaServes == \A p \in Replicas : []<>(pc[p] = "up")
=============================================================================
