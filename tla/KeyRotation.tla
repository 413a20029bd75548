---------------------------- MODULE KeyRotation ----------------------------
(***************************************************************************)
(* Rotating the key that seals stored secrets (db/rotateEncryptionKeys.ts, *)
(* services/cryptoService.ts, the credential half of remoteSourceService)  *)
(* along SECRETS_ROTATION.md, beside replicas that restart one at a time   *)
(* and go on saving credentials.                                           *)
(*                                                                         *)
(* A row is a sealed secret: a remote source's auth_config or a user's     *)
(* mfa_secret_encrypted; they are rotated alike.  A secret is its version. *)
(*                                                                         *)
(* The script sends all its UPDATEs at once.  When it fails, those the     *)
(* database has received are still carried out, at any later time, but     *)
(* before a container that is restarted is back.                           *)
(***************************************************************************)
EXTENDS Integers

CONSTANTS
    Rows,
    Replicas,
    MaxSaves,  \* bound of the model: versions of a secret
    MaxLate    \* bound of the model: failed runs with UPDATEs still under way

ASSUME SavesAssumption == MaxSaves \in Nat /\ MaxLate \in Nat

VARIABLES
    row,       \* row[r]: the key it is sealed with, the secret
    saved,     \* saved[r]: history, the secret saved last
    raced,     \* history: rows saved between a rotation's read and its write
    late,      \* UPDATEs of runs that have failed, still to be carried out
    dotenv,    \* the .env file: "old", "both" (old as _PREVIOUS) or "new"
    env,       \* env[p]: what replica p was started with
    rotation,  \* the script: where it runs and with which environment, what it
               \* read, rows left to write
    rotated    \* the run the operator waited for has reported success

vars == <<row, saved, raced, late, dotenv, env, rotation, rotated>>

Keys == {"old", "new"}
Envs == {"old", "both", "new"}
Sealed == [key : Keys, secret : 0..MaxSaves]
Updates == [run : 1..MaxLate, row : Rows, sealed : Sealed]

\* remoteSourceEncryptionKey, mfaEncryptionKey: the key that seals.
Primary(e) == IF e = "old" THEN "old" ELSE "new"

\* decryptSecretWithFallback: the primary key, then _PREVIOUS if there is one.
Opens(e) == IF e = "both" THEN {"new", "old"} ELSE {Primary(e)}

Idle == [pc |-> "idle", host |-> {}, env |-> "old", batch |-> [r \in {} |-> 0],
         left |-> {}, counts |-> FALSE]

Init ==
    /\ row = [r \in Rows |-> [key |-> "old", secret |-> 0]]
    /\ saved = [r \in Rows |-> 0]
    /\ raced = {} /\ late = {}
    /\ dotenv = "old"
    /\ env = [p \in Replicas |-> "old"]
    /\ rotation = Idle
    /\ rotated = FALSE

-----------------------------------------------------------------------------
(* The backend.                                                            *)

\* createRemoteSource, updateRemoteSource, beginEnrollment: a new secret,
\* sealed with the primary key of the replica that serves the request.
Save(p, r) ==
    /\ saved[r] < MaxSaves
    /\ saved' = [saved EXCEPT ![r] = @ + 1]
    /\ row' = [row EXCEPT ![r] = [key |-> Primary(env[p]), secret |-> saved[r] + 1]]
    /\ raced' = IF r \in rotation.left \cup {u.row : u \in late}
                THEN raced \cup {r} ELSE raced \ {r}
    /\ UNCHANGED <<late, dotenv, env, rotation, rotated>>

\* A script in its container has been ended by then.
Restart(p) ==
    /\ env[p] # dotenv /\ p \notin rotation.host /\ late = {}
    /\ env' = [env EXCEPT ![p] = dotenv]
    /\ UNCHANGED <<row, saved, raced, late, dotenv, rotation, rotated>>

-----------------------------------------------------------------------------
(* npm run rotate-encryption-keys, in the container of replica p.          *)

AllOn(e) == \A p \in Replicas : env[p] = e

\* Both tables are read as they are committed; "safe to run any time".
ReadRows(p) ==
    /\ rotation.pc = "idle"
    /\ rotation' = [pc |-> "write", host |-> {p}, env |-> env[p], batch |-> row,
                    left |-> Rows, counts |-> AllOn("both")]
    /\ UNCHANGED <<row, saved, raced, late, dotenv, env, rotated>>

Readable(r) == rotation.batch[r].key \in Opens(rotation.env)

\* toAuth, buildAuthConfig: the secret that was read, under the primary key.
Resealed(r) == [key |-> Primary(rotation.env), secret |-> rotation.batch[r].secret]

\* UPDATE: rows are written concurrently, whatever they hold by now.
WriteRow(r) ==
    /\ rotation.pc = "write" /\ r \in rotation.left /\ Readable(r)
    /\ row' = [row EXCEPT ![r] = Resealed(r)]
    /\ rotation' = [rotation EXCEPT !.left = @ \ {r}]
    /\ UNCHANGED <<saved, raced, late, dotenv, env, rotated>>

\* Fault: a failed run is retried with the rows it read the first time.
RotationFails_Retries ==
    /\ rotation.pc = "write"
    /\ rotation' = [rotation EXCEPT !.left = Rows]
    /\ UNCHANGED <<row, saved, raced, late, dotenv, env, rotated>>

\* An UPDATE fails, a secret neither key opens, or the container is stopped: the
\* script exits and the operator runs it again.  Any of the UPDATEs it had left may
\* have reached the database.
RotationFails ==
    /\ rotation.pc = "write"
    /\ rotation' = Idle
    /\ \E sent \in SUBSET {r \in rotation.left : Readable(r)} : \E n \in 1..MaxLate :
        /\ sent # {} => \A u \in late : u.run # n
        /\ late' = late \cup {[run |-> n, row |-> r, sealed |-> Resealed(r)] : r \in sent}
    /\ raced' = raced \cap ({r \in Rows : row[r].secret # saved[r]} \cup {u.row : u \in late'})
    /\ UNCHANGED <<row, saved, dotenv, env, rotated>>

\* One of them is carried out.
LateWrite(u) ==
    /\ row' = [row EXCEPT ![u.row] = u.sealed]
    /\ late' = late \ {u}
    /\ UNCHANGED <<saved, raced, dotenv, env, rotation, rotated>>

\* Fault: the script reports success as soon as it has sent the updates.
RotationEnds_Early ==
    /\ rotation.pc = "write"
    /\ rotation' = Idle
    /\ rotated' = (rotated \/ rotation.counts)
    /\ UNCHANGED <<row, saved, raced, late, dotenv, env>>

\* Promise.all: every update has succeeded.
RotationEnds ==
    /\ rotation.pc = "write" /\ rotation.left = {}
    /\ rotation' = Idle
    /\ rotated' = (rotated \/ rotation.counts)
    /\ UNCHANGED <<row, saved, raced, late, dotenv, env>>

-----------------------------------------------------------------------------
(* The operator.                                                           *)

\* Steps 1 to 3 of the procedure begin.
OpenWindow ==
    /\ dotenv = "old" /\ AllOn("old") /\ rotation.pc = "idle"
    /\ dotenv' = "both"
    /\ UNCHANGED <<row, saved, raced, late, env, rotation, rotated>>

\* Step 6, after a rotation started with every replica restarted (3, 4).
CloseWindow ==
    /\ dotenv = "both" /\ AllOn("both") /\ rotated
    /\ dotenv' = "new"
    /\ UNCHANGED <<row, saved, raced, late, env, rotation, rotated>>

Next ==
    \/ \E p \in Replicas :
        \/ \E r \in Rows : Save(p, r)
        \/ Restart(p)
        \/ ReadRows(p)
    \/ \E r \in Rows : WriteRow(r)
    \/ \E u \in late : LateWrite(u)
    \/ RotationFails \/ RotationEnds
    \/ OpenWindow \/ CloseWindow

Spec == Init /\ [][Next]_vars

-----------------------------------------------------------------------------
(* Properties.                                                             *)

TypeOK ==
    /\ row \in [Rows -> Sealed]
    /\ saved \in [Rows -> 0..MaxSaves]
    /\ raced \subseteq Rows
    /\ late \subseteq Updates
    /\ dotenv \in Envs
    /\ env \in [Replicas -> Envs]
    /\ rotation.left \subseteq Rows
    /\ rotated \in BOOLEAN

\* Every replica that has been restarted can open every stored secret: inside
\* the window thanks to the fallback, after it because the rotation left no row
\* behind - whatever was saved meanwhile, and however often the script failed.
\* (A replica not yet restarted cannot open what its restarted neighbours seal.)
EverySecretOpens ==
    \A p \in Replicas, r \in Rows :
        env[p] # "old" \/ dotenv = "old" => row[r].key \in Opens(env[p])

\* A rotation changes how a secret is sealed and nothing else, except for a row
\* that was saved between its SELECT and its UPDATE, be that the late UPDATE of a run
\* that failed: that one goes back to the older secret.
OnlyResealed == \A r \in Rows \ raced : row[r].secret = saved[r]

\* What an operator may rely on in the procedure of SECRETS_ROTATION.md.
RotationKeepsSecrets == EverySecretOpens /\ OnlyResealed

\* "Safe to run any time" (rotateEncryptionKeys.ts:15): no rotation takes back a
\* secret that was saved.  It does when a row is saved between its SELECT and
\* its UPDATE.
SafeAnyTime == \A r \in Rows : row[r].secret = saved[r]
=============================================================================
