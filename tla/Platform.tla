------------------------------ MODULE Platform ------------------------------
(***************************************************************************)
(* The models of what runs around the calls in the backend, over one set   *)
(* of constants: key rotation (KeyRotation), boot, custom scripts, token   *)
(* cache, backups, the audit log's export, and the read API (Reads).  They *)
(* share no state but the names of the replicas.                           *)
(***************************************************************************)
EXTENDS KeyRotation, Reads

CONSTANTS
    Migrations, MaxCrashes,                                 \* Boot
    MaxBytes, MaxOutput,                                    \* ScriptRun
    Margin, Lifetimes, MaxFetch, MaxClock, MaxUpdates,      \* TokenCache
    Dumpers, Scheduled, Retention, MaxTime, MaxKills,       \* Backups
    PageSize, MaxEntries, MaxErrors                         \* AuditExport

VARIABLES
    pc, pending, version, ran, examples, admin, shown, lost, crashes,    \* Boot
    child, stubborn, heir, written, read, kept, garbled, timer, grace, flags,
    promise,                                                       \* ScriptRun
    clock, source, cache, poll,                                   \* TokenCache
    now, file, dumper, marker, taken, clash, kills,                  \* Backups
    log, inserts, last, export, start, added, errors             \* AuditExport

bootVars == <<pc, pending, version, ran, examples, admin, shown, lost, crashes>>
scriptVars == <<child, stubborn, heir, written, read, kept, garbled, timer, grace, flags, promise>>
tokenVars == <<clock, source, cache, poll>>
backupVars == <<now, file, dumper, marker, taken, clash, kills>>
auditVars == <<log, inserts, last, export, start, added, errors>>

B == INSTANCE Boot

S == INSTANCE ScriptRun

T == INSTANCE TokenCache WITH MaxTime <- MaxClock, now <- clock, stored <- source

U == INSTANCE Backups

E == INSTANCE AuditExport

ASSUME PlatformAssumption ==
    /\ ReadsAssumption /\ B!BootAssumption /\ S!OutputAssumption
    /\ T!TokenAssumption /\ U!BackupsAssumption /\ E!AuditAssumption

-----------------------------------------------------------------------------
(* Properties.                                                             *)

\* Boot: however many replicas boot at once, crash and boot again, migrations run
\* once each, and the admin exists and its password was printed or its printer died.
BootedOnce == B!MigratedOnce /\ B!AdminCanLogIn

\* ScriptRun: records are only taken from a script that ended by itself, with
\* exit code 0, and from every chunk of its output.
OutputIsComplete == S!OutputIsComplete

\* TokenCache: a poll never sets out with a token about to expire, and a replaced
\* credential's token is out of use once the longest one of it has expired.
HeaderIsGood == T!HeaderIsGood

\* Backups: once a dump has been taken there is one to restore from, whatever
\* fails or is killed afterwards, and "ok" means that dump or a newer one is there.
DumpSurvives == U!DumpSurvives

\* AuditExport: what an export lacks of the log it began with are its oldest
\* entries, no more of them than were written while it ran.
ExportIsNewest == E!ExportIsNewest
=============================================================================
