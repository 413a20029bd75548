# CallOwl in TLA+

A model of CallOwl (an Open CDR platform: N backend replicas over one PostgreSQL
database, an nginx frontend container with a dashboard, and remote CDR platforms
polled over HTTP), checked with TLC and partly proved with TLAPS. Paths are
relative to the repository; `B` stands for `src/backend/src`, `App.tsx` for
`src/frontend/src/App.tsx`.

## 1. The system

| Component | State | Operations | Modelled by |
|---|---|---|---|
| Job leases (`B/db/jobLock.ts`, migration 009) | `scheduled_job_locks`: one `locked_until` per job name | `tryClaimJob`; nothing unlocks | `JobLock` |
| Timers of a replica (`B/index.ts`) | timers, executions under way | boot attempts, ticks, exit | `JobTicks` |
| Remote polling (`remotePollService.ts`, `remoteSourceService.ts`, migration 008) | per replica: `inFlightPolls`; database: `remote_sources`, `remote_source_rejects` | poll (tick or on demand), delete | `RemotePoll` |
| Call record store (`ingestService.ts`, `cdrService.ts`) | `call_records` | upsert of a batch, listing, lookup | `RemotePoll`, `Reads` |
| Alerting (`alertService.ts`, migration 012) | `alert_state`, webhooks sent | `checkAndNotify` | `AlertCheck` |
| TLS replacement (`B/db/tlsCert.ts`, `POST /admin/tls`, `src/frontend/cert-watcher.sh`, `docker-entrypoint.sh`) | files of a shared volume, nginx, requests waiting | upload, wait, swap, test, rollback, restart | `TlsReload` |
| Accounts, sessions, lockout, MFA (`authService.ts`, `mfaService.ts`, `routes/auth.ts`, `middleware/auth.ts`) | `users`, `sessions`, `login_lockouts`, `mfa_*`, `api_keys` | login in two steps, lockout, password change, enrolment; users, roles, keys | `Login`, `Enrolment`, `Access` |
| Config export and import (`configExportService.ts`) | an import under way, `users`, `api_keys` | import | `ConfigImport` |
| Key rotation (`B/db/rotateEncryptionKeys.ts`, `cryptoService.ts`) | encrypted columns, each process's keys | re-encrypt every row, restart, save | `KeyRotation` |
| Boot (`migrate.ts`, `seed.ts`, `seedAdmin.ts`, `start()`) | `schema_migrations`, `users`, `call_records` | migrate, seed, listen, restart | `Boot` |
| Custom scripts (`remoteScriptRunner.ts`) | a child process, its pipe, timers, flags | run, time out, kill, settle | `ScriptRun` |
| OAuth tokens (`remoteAuthService.ts`) | the process's token map | get a token, keep it | `TokenCache` |
| Backups (`src/scripts/backup.sh`, `B/db/backup.ts`) | dumps, the status marker | dump, prune, mark | `Backups` |
| Statistics, filters, scoping (`statisticsService.ts`, `middleware/auth.ts`) | none of their own | one query or a series of them | `Reads` |
| Audit log (`middleware/audit.ts`, `auditService.ts`, export in `App.tsx`) | `audit_log`, an export under way | insert, list, prune, export | `AuditExport` |
| Dashboard (`App.tsx`, `api.ts`) | React state, requests under way, `localStorage` | see below | `Dashboard`, `Drawer`, `Columns`, `Timeline`, `SignIn`, `KeyList`, `UserForms`, `SourceForms` |
| Schemas, OpenAPI, configuration, status page, demo data, deployment | - | validation, formatting | not modelled (section 5) |

How they interact. The replicas share nothing but the database. Every periodic
job goes through `tryClaimJob`, one atomic upsert that succeeds when the row is
absent or its lease has expired. Polling writes `last_poll_status`, which
alerting reads; it takes its headers from the token map and, for a custom source,
its records from a script. Most other operations are a series of queries without
a transaction, so requests of several replicas meet between any two of them. The
TLS flow and the backups are the exception: containers communicate through files
of a volume, without any lock. The dashboard sends requests it neither cancels
nor numbers, and shows what is answered last.

What is hard to test here: lease expiry against work that is still going on;
crashes between two writes; a remote whose listing shifts while it is read; a
webhook that is lost; a request whose user changes while it runs; replicas that
boot, rotate or save at the same time; answers that arrive when the screen has
moved on. PROJECT.json lists 40 such hazards at their lines, each with the
properties that cover it.

## 2. Modules

    JobLock  <-- EXTENDS --- JobTicks   <-- MCJobTicks
       ^  ^
       |  +--- INSTANCE ---- RemotePoll <-- MCRemotePoll (4 configurations)
       +------ INSTANCE ---- AlertCheck <-- MCAlertCheck (2)
                             TlsReload  <-- MCTlsReload (2)
    Accounts   <-- MCAccounts:  Login, Enrolment, ConfigImport, Access
    System     <-- MCPlatform:  Platform, Menu, Dashboard, Drawer, Columns, Timeline
      Platform:                 KeyRotation, Reads, Boot, ScriptRun, TokenCache,
                                Backups, AuditExport
      Menu:                     SignIn, KeyList, UserForms, SourceForms
                                (the last three EXTEND Section)
    proofs: JobLockProofs (also for JobTicksProofs, which EXTENDS it, and as an instance
            in RemotePollProofs and AlertCheckProofs), TlsReloadProofs, AccountsProofs,
            PlatformProofs (Platform and Menu) <-- EXTENDS --- SystemProofs (System)

`Accounts`, `Platform`, `Menu` and `System` put models that share no state next to each
other, over CONSTANTS of their own, so that the proofs are about any number of requests,
users, replicas, records or entries; `MCAccounts` and `MCPlatform` give those constants
their values and define nothing else.
In both runs the variable `part` chooses one model in the initial state, so their
states add up instead of multiplying. Every property of theirs is one of the
modules', unchanged.

Operators named `X_Something` are faulty variants of `X`, marked "Fault"; no
specification uses them. They record which mistake each property catches.

### Jobs, polling, alerting, certificates

**JobLock** is the abstract specification: a clock, `lockedUntil[j]`, and
`held[w][j]`, the time at which worker `w` claimed the execution of `j` it is
in. `Claim` is the successful upsert, `Finish` the end of a job's body (which
leaves the lease alone), `Crash` the death of a process. A refused claim is a
stuttering step. Time does not pass beyond an execution's longest run `MaxRun`:
this is how "the job takes at most so long" enters, and the promise of migration
009 holds exactly when `MaxRun <= Lease`.

**JobTicks** adds the timers of `start()`: `BootPrune` (each prune is tried during boot,
one after the other; if the claim succeeds `start()` waits for the body, and `JobDone` is
what starts that prune's timer), `StartTimer` for the alert check, which is only
started, after the prunes; `Fire` every `Interval[j]`, a refused tick is skipped; `Exit`,
which is also what a prune that throws during boot comes to. So the first tick of a
prune comes one interval after the end of its body, not of its claim, and
`NotSelfSuppressed` allows for that. The poll tick is not here: polling has its own
module.

**RemotePoll** is one poll from call to resolved promise, one action per `await`:

| Action | Code |
|---|---|
| `Request` | `pollRemoteSource`, no entry in `inFlightPolls`; callers that find one join it |
| `ClaimGranted`, `ClaimRefused`, `ClaimFails` | `tryClaimJob`: true, false, throws |
| `Load` | `getRemoteSourceForPolling` and the choice of the window's start |
| `Fetch` | `fetchPage` and the validation of its records |
| `LogRejects` | `logRemoteSourceReject` for the bad records of the page |
| `Store` | `ingestRecords` (one transaction), then next page, end, or too many pages |
| `BodyFails` | any throw in the `try` block |
| `Record`, `RecordFails` | `recordPollResult` succeeds or throws |
| `Reply` | `.finally`, which removes the map entry |
| `RemoteWrite`, `DeleteSource`, `Crash`, `Tick` | the environment |

A version of a call is its `order_time`, which the remote sets to the time of
the update; a window is `[from, to)` ordered by `(order_time, id)`, as this
platform's own `GET /calls` serves it (the API is the same on both sides).
Simplifications: all rejects of a page are logged in one step; a page and its
total are computed together; the claim and the start of the poll have the same
time; a database answer that is lost after a commit appears only as a crash;
the prune of rejects (90 days) and the `enabled` flag are out; a `custom` source's
page is what its script printed, and the script's own run is `ScriptRun`. That a
remote filters and orders by the time at which it changed a record is an assumption
about a system that is not in this repository: it is what this platform's own
`order_time` column is, and a remote that orders by something else can hide a change
from any cursor.

**AlertCheck** is `checkAndNotify`: `Begin` (the lease), `Evaluate`, `ReadPrior`
(the SELECT and the decisions), one `Post` per webhook in any order, `Write`
(the multi-row upsert). `Flip` and `ToggleMonitored` change what
`evaluateConditions` finds. `Crash` is the death of the process or a query that
throws: both end the check with nothing written. `inbox` is the last webhook
received for a condition; `mishap` is a history variable: a webhook was lost, or
a check died after a POST. No webhook URL at all is the case where every POST is
lost.

**TlsReload** has one action per file operation: `Upload` (clear the status),
`Stage` twice, `ReadStatus` or `Timeout` on the backend; `Begin`, `Backup` twice,
`Swap` twice, `Reload`, `Restore` twice, `Report`, `Clean` in the watcher;
`Crash`, `Entrypoint`, `StartNginx` for the container. A file holds the name of
the upload it comes from, so a mismatched pair is two different names, which
nginx refuses. `stageCertForReload` has no `await`, so one process stages one
upload at a time; two processes may interleave their file writes. A single
write is one step (a half-written file is not modelled) and a reload takes
effect at once (it takes far less than the 2 s until the next iteration).
History variables: `applied`, `alone`, and `torn` - a crash inside a swap, or an
nginx that starts while the watcher is already swapping. From a torn volume the
code does not recover by itself, and two properties say "unless torn".

### Accounts

**Login** is `POST /auth/login`, `POST /auth/login/mfa` and the password change, one
step per query: `Submit`, `VerifyPassword` (the slow bcrypt), `OfferMfa` (the
pending login), `Redeem`, `CheckLockout`, `VerifyTotp`, `ClaimCode` (one UPDATE that
finds and marks a recovery code), `ConsumePending`, `CountFailure` and `Lock` (two
queries of `recordFailedLogin`), `ClearLockout`, `CreateSession`; `CommitChange` and
`DeleteSessions` of a password change. `Abort` is a query that throws. History
variables count wrong guesses told apart and note which logins had verified a
password that a change then replaced (`late`).

**Enrolment** is the second factor's life on the `users` row and in
`mfa_recovery_codes`: `Begin`, `StoreSecret`, `Scan` (the user), `ReadSecret`,
`Enable`, `InsertCodes`, `VerifyToDisable`, `Reset`, `ClearRow`, `DeleteCodes`,
`CutShort`. The statements of a request are separate, so the code does not survive
every interleaving: `torn` names the three races after which nothing is promised (a
secret stored over one that is being confirmed or is in force, a row cleared under
a confirmation, a request cut short before it deleted the codes). Both properties
are about everything else. The first race does break what mfaService.ts:23-24 says: a
second enrolment begun while the first is being confirmed is enabled unproven.

**Access** is `middleware/auth.ts` query by query (`Start`, `LookupSession`,
`LookupKey`, `LookupThrows`; with no ingest key configured, `open`, the ingest route asks
for nothing) followed by the handler of one of the routes that change
accounts (`CreateUser`, `DeleteUser` with its cascade, `SetRole`, `SetPassword`,
`CreateKey`, `DeleteKey`, logout), which acts with the user it was given, whatever
became of that user meanwhile. `crossed`: two admins deleted each other; the check
against deleting oneself does not prevent that.

**ConfigImport** is `importConfig`: `ReadUsers`, `CreateUser` or `SkipUser`, `ListKeys`
and `CreateKey` one by one, then `Answer`, the only time passwords and keys are seen.
`Abort` is a query that throws; other imports and deletions go on.

### Operations

**KeyRotation** follows SECRETS_ROTATION.md: `OpenWindow` (the new key, with the old
one as fallback, in `.env`), `Restart` of one replica at a time, the script
(`ReadRows`, one `WriteRow` per row in any order since the updates are parallel,
`RotationFails`, `RotationEnds`), `CloseWindow`; `Save` of a credential by any replica
at any time. When the script fails - a row that neither key opens, an UPDATE that is
rejected - the UPDATEs of the other rows have been sent: `RotationFails` leaves any
set of them in `late`, and `LateWrite` carries each out at any later moment, over what
has been saved meanwhile or beside the next run. One assumption: the script runs in a
replica's container (`host`) and ends with it, and statements already sent are through
before a restarted container is back. `raced` are the rows saved between a SELECT
and the UPDATE that follows from it, late or not, which the code does take back to the
older secret; `SafeAnyTime`, the script's own "Safe to run any time", makes no such
exception and is refuted by a run.

**Boot** is `start()` of replicas with an older and a newer image: `Connect`,
`ReadVersions`, `ApplyMigrations` (one transaction), `CountCalls`, `SeedExamples`,
`CountUsers`, `CreateAdmin`, `PrintPassword`, `Listen`. A failed step or a crash exits
the process; `Restart` is compose's `restart: unless-stopped`.

**ScriptRun** is `runCustomScript` and the process it starts: `Spawn`, `Write`, `Fork`
(a descendant that inherits the pipe), `Exit`, `HeirEnds`; the parent's `Data` (with
its output cap), `Timeout`, `GraceEnds`, `Close`. A chunk is decoded by itself, so that a
character that began in the chunk before is lost (`garbled`): it is left open which
boundaries cut one. **TokenCache** is `getAuthHeader`
in a poll: `ReadSource`, `UseCached` or `RequestToken` then `TokenArrives` or
`TokenFails`, `PollEnds`, beside `UpdateCredential` and `Restart`. **Backups** is the
dumps directory: `StartDump`, `DumpSucceeds`, `DumpFails`, `Kill`, and for the scheduled
one `Prune` and `WriteStatus`. Two dumps that start in the same second write the same
file (`clash`).

### Reading

**Reads** has operators for the queries of `cdrService.ts` and `statisticsService.ts`
over a set of calls (`Scoped`, `Matches`, `List`, `Get`, `Throughput`, `ByOutcome`,
`Trend`, `ByQueue`, `TopTalkers`, `Agents`, ...), `Ingest`, and the summary, whose four
queries see different stores when a call is ingested between them (`mixed`).
**AuditExport** inserts entries whose statements commit in any order, prunes them, and
walks the pages of the export as `AuditLogModal` does: the export's own requests are
entries too. Entries pushed across a page boundary can be read twice, and the
oldest can be missed; the property says that nothing else is.

### Dashboard

An action is an event handler together with the effects of the render it causes;
requests are kept in the order they were sent and may be answered in any.

**Dashboard** is the list: `EditFilter`, `Narrow`, `ApplyFilters`, `ClearFilters`,
`TurnPage`, `IngestDone`, `AutoRefresh`, `LogIn`, `LogOut`, `Expire`; `Succeeds` and
`Fails` end a load. `newest = "overtaken"`: an earlier load answered after the last
one; the code shows it. The pager's buttons go by the last answer's pages but step from
the page asked for, clamped to them (`Prev`, `NextPage`). **Drawer** is the open call and the trail "Back" follows
(`SelectRecord`, `Lookup`, `DrillToCall`, `DrillBack`, `CloseDrawer`); `strayed` is a
drill-down answered after the drawer went elsewhere. **Columns** is the table's widths,
order and visibility in tabs of several releases over one `localStorage`; each of the
three keys is written in a `try` of its own, so any of them may be left as it was.
**Timeline**
is `deriveTimelineRows` as an operator, applied to a set of records; a row is kept at
its participant's position, events are picked by their position in the record, and the
sort of the holds is "the k-th is the one with k - 1 before it". Columns drops a column a
release does not have with `Kept`, `Array.filter` by positions.

**SignIn** is the login screen, logout and the second-factor dialogs. The server's side of
a dialog is two steps, `CheckMfa` (the flag is read, or a code is verified for the secret
read) and `WriteSetup`, `WriteConfirm` or `WriteDisable` (the UPDATE, whatever the row
holds by then), and requests of several dialogs, and of pages that have been loaded
again, may be between the two. `Lost` drops an answer, but what was sent may still be
served, to nobody (`heard` is false). `torn`: accounts whose secret was replaced or
cleared while it was being confirmed - opening the dialog again during a confirmation
is enough - after which a secret may be required that nobody was shown. `revived`: the
answer of a dialog that is gone put its account back on screen. `missed`: a change
of the factor whose answer the screen never used (closing the set-up after the
codes are shown is one way).

**Section** is what the menu's lists share: a list read on opening and after every
acknowledged change (`Refresh`, `ReadRows`, `ReadAnswers`), calls with a server's side
(`Writes`, `Refuses`) and an answer, `Remount`. The server's rows carry a version, so
"the list is current" is that it is not older than the last write the section was
told of, unless reads overtook each other (`order`). **KeyList** adds the value of a
new key, shown once (`hidden`: the answer of a revocation sent before hid it).
**UserForms** adds the edit form, filled from a row and sent back whole; `spilt` says
that an edit changed something nobody typed, with two excuses: another admin had
changed that field since the list was read, or the scope does not survive the form's
text field, which joins the groups with ", " and splits, trims and filters them again
(`ParseScope`): a scope of no groups is shown blank and sent as "no limit", and a group
`Sales, EMEA`, which the API accepts (admin.ts:251), comes back as two. `ReadsAs` gives, for
each name, the names read back from a field that holds it. **SourceForms** adds credentials, the
liability tick of a script, enabling and polling.

## 3. Runs

| Run | Checks | Instance |
|---|---|---|
| `job_ticks` | `AtMostOnce`, `NotSelfSuppressed` | 2 replicas, a prune (period 4, at boot, up to 1 long) and the alert check (period 2), leases 1, clock to 7 |
| `remote_poll` | `TypeOK`, `AtMostOnePoller`, `NoGap`, `EveryPollEnds`, `ImplementsJobLock` | 2 replicas, 1 source, 2 calls on 2 pages, one malformed, clock to 3 |
| `remote_poll_updates` | `NoGap`, `NoStaleOverwrite` | 2 replicas, 2 calls rewritten at any time, one page, clock to 4 |
| `alert_check` | `TypeOK`, `UnhealthyHasAlertTime`, `AnnouncedInSync`, `PostsOnce`, `ImplementsJobLock` | 2 replicas, 2 conditions, cooldown 1, clock to 4 |
| `tls_reload` | `TypeOK`, `DiskIsServed`, `RestartServes`, `AloneAnswerTrue`, `EveryUploadAnswered` | 3 uploads (one refused by nginx), 2 backends, 1 crash |
| `accounts` | `TypesOK`, and the properties of the next table | 2 requests at a time |
| `platform` | `TypesOK`, and the properties of the next table | see below |

| Property | Module | Says |
|---|---|---|
| `GuessesBounded` | Login | wrong passwords and codes before a lock: the threshold, plus the other requests in flight, plus locks that failed to be written |
| `OldPasswordSessionsAreLate` | Login | a session of an old password comes from a login that was under way at the change |
| `CodeUsedOnce` | Login | no recovery code lets two requests in |
| `RequiredIsProven` | Enrolment | a required second factor is one somebody produced a code for, unless `torn` |
| `CodesOfThisEnrolment` | Enrolment | recovery codes that work belong to the enrolment in force, unless `torn` |
| `ImportDelivers` | ConfigImport | what an import reveals works, what it answers is complete, what is lost comes from a failure |
| `AccountRemains`, `RevokedMeansOut` | Access | an account, of whatever role, remains unless `crossed`; what a request is admitted by was good when it began, unless the ingest route is open (roles are not part of it: whoever was admitted as an admin acts as one) |
| `RotationKeepsSecrets` | KeyRotation | restarted replicas open every secret, at any moment of the procedure and whatever a failed run had sent; a secret is never changed unless `raced` |
| `BootedOnce` | Boot | migrations run once and before serving; the printed password is the admin's |
| `EveryReplicaServes` | Boot | losing a race costs a restart only (liveness) |
| `OutputIsComplete` | ScriptRun | records are taken only from a script that ended well, and from every chunk it wrote; one chunk is read as it was written |
| `EveryRunSettles` | ScriptRun | a run settles, unless something the script started holds the pipe for ever (liveness) |
| `HeaderIsGood` | TokenCache | no poll starts with a token about to expire; a replaced credential's tokens go out of use |
| `DumpSurvives` | Backups | once there is a dump there is one, and "ok" is true, unless `clash` |
| `ExportIsNewest` | AuditExport | an export lacks only the oldest entries, no more than were written meanwhile |
| `ScopeNeverWidens` | Reads | a filter never shows more than the caller's scope, and list and lookup agree |
| `StatisticsAddUp` | Reads | windows, buckets, outcomes, rankings, averages and the parts of a summary count the same calls |
| `ScreenIsTrue` | dashboard modules | a settled screen shows what was asked, for the account of the cookie; see section 2 for each module and its exception |

Five more runs are expected to end in a violation; each confirms a disagreement
between the code and what the repository says of it:

| Run | Says | Does |
|---|---|---|
| `remote_poll_overlap` | "run at most once at a time across N backend replicas" (migration 009) | the lease is 10 min, a poll may take 500 pages x 30 s |
| `remote_poll_paging` | "guarantees no gap" (remotePollService.ts:175) | a record updated mid-poll shifts the pages; its neighbour is skipped and the watermark passes it |
| `alert_check_lost` | "a transition always notifies" (migration 012) | a failed webhook is logged, the row is written as if it had been sent |
| `tls_reload_stale` | the cleared status tells "a fresh result apart from a leftover one" (tlsCert.ts:94) | an upload staged while the watcher finishes another takes that one's result |
| `key_rotation_any_time` | "Safe to run any time" (rotateEncryptionKeys.ts:15) | a secret saved between the SELECT and the UPDATE is replaced by the older one |

Why the bounds are enough. Mutual exclusion and refusal need two replicas; a
third adds no new kind of step. Two calls on two pages are the least with a page
boundary; the malformed call shares its window with a good one. The clock must
let a poll succeed, its lease expire, and another poll start from the watermark:
that is 3 with leases of 1, and a rewrite between two polls needs 4. In `job_ticks` a
replica boots, waits for its prune, and reaches the first tick after it, at 5 or 6,
and 7 is past the latest. Two alert
conditions let a check crash between two webhooks; clock 4 covers incident,
cooldown and recovery. Three uploads are the least in which two cross while a
third was applied before. Polls and checks fit their lease in the passing runs
(`MaxPoll`, `MaxCheck` <= `Lease`), because beyond it the promises fail, as
`remote_poll_overlap` shows. `NoGap` is checked with rewrites only when a window
fits one page, and with two pages only without rewrites: both together is the
finding of `remote_poll_paging`. Symmetry (replicas) is used in
`remote_poll_updates` only, which checks no liveness. `tls_reload` stops when
every upload has been answered, so it does not check deadlock; the others do.

**accounts.** Threshold 2 and a lock of 1 in a clock to 2 let the account lock, unlock
and count again; 4 counted failures are what `GuessesBounded` admits with one failed
lock, and one more request about to be counted would break it. One password change, one failure of each kind; three secrets, so that a second
enrolment can overtake the first and a third can follow; two accounts, two
credentials and two imports, one of part of the other's bundle. The two requests
are symmetric, and no liveness is checked in this run.

**platform.** Two rows and two replicas, one save per row and one failed run at a time
with UPDATEs under way: a save may come before, between or after them, and the next run
may meet them. An image with two
migrations beside one with three, two crashes. A script of up to 4 chunks against
a cap of 2. Tokens of lifetime 1 (inside the margin) and 4, two credential updates,
clock to 9. A retention of 1 in a clock to 4, one kill. Four audit entries, one per
page. Two calls in four contents each, which differ in every field the statistics
look at, six users' scopes, twelve requests. For the dashboard: two filters of two
pages, two logins, three loads at a time; three calls whose legs form a circle;
two tabs, two releases, two edits; records with up to two holds and resumes in any
order, or with two legs; an account with a session, two secrets and two requests at a time,
so that a second set-up meets a confirmation; a list of keys with two requests pending and four writes, one of
users and one of sources (one request pending, a poll besides) with three and two. One
of the two names of groups does not survive the edit form, and a user has it.

One account in one session is too few for a late login to put somebody else on screen.
Two of each, with the two secrets, make 4,012,337 states of `SignIn` alone, in which
`SignInHolds` holds, too; that is more than fits beside the other parts, and
`ScreensAreTrue` is proved for any number of accounts, sessions and secrets.

`key_rotation_any_time` has one row and one replica, and needs no more.

Bounds are named in the modules: `MaxTime` for a clock, `MaxCrashes`, `MaxKills`,
`MaxErrors`, `MaxCuts`, `MaxAborts` for failures, `MaxGuesses`, `MaxChanges`,
`MaxSaves`, `MaxLate`, `MaxSecret`, `MaxCredentials`, `MaxEntries`, `MaxSessions`, `MaxWrites` for
what can be made, `MaxLoads`, `MaxPending`, `MaxRequests` for what is under way. A
clock unit of the polling runs stands for one lease length. Where such bounds end
every behaviour, deadlock is not checked (`accounts`, `platform`, `tls_reload`, which
stops when every upload has been answered).

Fairness. `remote_poll` assumes weak fairness of the next step of each poll:
every `await` ends, because requests carry an `AbortSignal.timeout` and queries
return or throw. It does not assume that a poll succeeds, or that anybody asks
for one. `tls_reload` assumes weak fairness of each upload's handler only, which
is a loop with a deadline; nothing is assumed of the frontend. `Boot` assumes that a
replica goes on with its start and that compose restarts what exited; the crashes
are finitely many. `ScriptRun` assumes that timers fire and that data and `close` are
delivered, and nothing of the script or of what it starts, which may run for ever.
Hence `EveryRunSettles` is `<>[]~heir => (promise = "pending" ~> Settled)`: the code waits for
`close`, so a run does hang while a descendant holds the pipe, timeout or not.

## 4. Proofs

All theorems hold for every value of the constants that satisfies the
`ASSUME`s of the modules (leases and times are naturals, pages are not empty,
model values differ from data). A theorem with a further hypothesis names it below.
Where an invariant is inductive only together with others, those are named too.

**Jobs and polling.**

- `JobLockProofs!LeaseExcludes`: if `MaxRun[j] <= Lease[j]` for every job,
  `AtMostOnce` always holds. `AtMostOnce` alone is not inductive: a claim is
  granted by looking at the lock row, not at the workers. The invariant `IInv`
  adds `HolderWroteLock` - an execution under way is the one that wrote the row
  (`lockedUntil[j] = held[w][j] + Lease[j]`) and is not older than its longest
  run - so an expired row means that nobody is running.
- `RemotePollProofs!PollersImplementJobLock`: `Spec => ImplementsJobLock`. The
  state function `Held` maps a poll between claim and result to its start time;
  each action is shown to be a step of the lease table or to leave its variables
  alone, under the type invariant.
- `RemotePollProofs!PollersExclude`: if `MaxPoll <= Lease`, one poller at a time:
  the refinement composed with `LeaseExcludes` (through
  `INSTANCE JobLockProofs`), not a second invariant proof.
- `JobTicksProofs!TicksImplementJobLock`: timers, boots and exits of replicas are steps
  of the lease table or leave it alone; with `LeaseExcludes` that gives
  `TicksAtMostOnce`. `NeverSelfSuppressed` (if every lease is shorter than its job's
  interval) needs `OnTime`: no timer is overdue, and the replica which claimed last
  either still waits in `start()` for the body, which ends within `MaxRun`, or has a timer
  that fires one interval after the claim, or after the end of that body, when the
  lease has expired.
- `RemotePollProofs!NothingMissed`: `NoGap`, for any replicas, sources, calls, page
  sizes and limits, failures, crashes and deletions included. Hypotheses: the calls are
  finitely many, and `PagesHold`: no call is ever rewritten (`Mutable = {}`), or
  every window fits one page and no poll outlives its lease. (Without it the property
  is false, which is what `remote_poll_paging` shows.) The watermark moves long after the
  pages were read, so `GapInv` follows each poll: everything below where it began is
  ingested (`EarlierCovered`), the calls on the pages it has stored are
  (`PagesCovered`), or about to be, with the page in hand (`BatchCovers`, `BatchServed`),
  and a result that would advance the watermark speaks for everything up to the
  poll's start (`ResultCovered`). That pages partition a window is a fact about ranks and
  cardinalities (`RankBounds`), not about sorting.
- `RemotePollProofs!OlderNeverStored`: the action property `NoStaleOverwrite`, if
  nothing is rewritten or no poll outlives its lease. The invariant `Newer`: what is
  stored is behind the remote, and a page about to be stored lies between the two. A
  store of another poll could break it; by `PollersExclude` there is none.

**Alerting.**

- `AlertCheckProofs!NeverSilent`: an unhealthy row has an alert time. The
  invariant adds that the rows a check has read have it too; no assumption on
  leases is needed, so it holds even when checks overlap.
- `AlertCheckProofs!ChecksImplementJobLock`: the alert check's refinement of the
  lease table, and from it `ChecksExclude`: if `MaxCheck <= Lease`, no two checks
  overlap (`OneCheck`).
- `AlertCheckProofs!PostedOnce`: under the same assumption, `PostsOnce`. The read
  of the rows and the POST are different steps, so the invariant is `PriorIsRow`:
  what a check read is still in the table, and what it has left to post is due.
  Only `Write` changes the table, and `OneCheck` says no other check is then open.
- `AlertCheckProofs!ReceiverInSync`: under the same assumption, `AnnouncedInSync`.
  Its invariant `ReceiverKnows` extends the property into a running check: the
  last webhook says what the table says, or, once the check has posted for a
  condition, what it is about to write.
**Certificates.**

- `TlsReloadProofs!VolumeIsServed` and `RestartsServe`: for any uploads, replicas and
  pairs nginx refuses. While the watcher swaps, the volume holds no pair worth
  having; what is invariant (`DiskInv`) is the pair the iteration set out from,
  wherever it is by then (`Previous`: the copies, what a rollback has half put back,
  or the volume), and that nginx has it loaded. Uploads overwrite the staged files at
  any moment; `StagedInv` bounds what the watcher can find there. The exception is
  `torn`: a crash inside a swap, or a rollback while nginx loads.
- `TlsReloadProofs!AloneIsToldTheTruth`: an upload that was staged with nothing else
  under way and met no crash is answered with what became of it. `AloneOf` says, for
  each place of the watcher and of nginx, which status and which files can still
  speak of that upload.

**Accounts** (module `AccountsProofs`). `PartsAreAlone` shows that a behaviour of the composition
is one of each model, so that what is proved of a model holds in it.

- `CodesLogInOnce`, by `CodesApart`: a code that let a request in is no
  longer among the unused ones.
- `OldPasswordsOut`, by `AllFresh`: pending logins, sessions and verified
  requests are of the password in force or marked late, and while a change is about to
  commit every session that it does not delete is marked late.
- `GuessesAreBounded`: counting requests is not inductive by itself. The
  invariant relates three numbers: no more guesses than the
  lockout row counts (`CountedFirst`), at most the threshold's while nothing is locked,
  but for requests about to write the lock (`LockIsDue`), and room in the bound for
  every request that may still be counted (`RoomForAll`). The cardinalities are
  taken one request at a time.
- `RequiredOnceProven`, `CodesBelong`: a request between its two
  statements holds the row's own secret, unless `torn`; `ConfirmHoldsSecret` says it.
- `ImportsDeliver`: `ImportInv` adds, for an import between two of its
  statements (`ImportOf`), that every user of its bundle is still to come or found,
  that each key is still to come, there, or missing by a deletion, and that whatever
  it made it remembers (`made`), and is there unless it has been deleted since.
- `AnAccountRemains`: of a deletion, the account of whoever deletes
  remains, for nobody deletes the own one; unless that account is gone already,
  which is `crossed`. Of its role nothing is promised: `SetRole` may demote the last admin.
- `RevokedAreRefused`: `AccessOf` says of a request at every lookup that
  each credential it carries is withdrawn, or is among those that were good when
  it began; `WithdrawnIsGone` that a withdrawn one is never found again. So whoever
  gets to `act` was let in by one that was good, or by an open ingest route.

**Platform** (module `PlatformProofs`).

- `SecretsKept`: `Phases` ties the `.env` file and the keys of the replicas and the
  script to the step of the procedure; `OldIsHosted` says that the script, and every late
  UPDATE that would seal with the old key, belongs to a replica that still has it;
  `NewKeyOnly` that the rows a counting run is through with, and all rows once it has
  succeeded, have the new key and that nothing is left, late UPDATEs included, that would
  seal with the old one; `ReadIsSaved` that what the script read, and what a late UPDATE
  will write, is what was saved last, unless `raced`.
- `ScopeHolds`: for every set of users, filters and stores, from lemmas about `Scoped`
  (`ScopedFields`, `GroupsNarrow`, `PlatformsNarrow`).
- `BootsOnce`: for any replicas and images. `BootOf` relates a replica's plan to the
  table: while it applies migrations, what it has not planned is already there, so a
  replica that lost a race fails on the version's key instead of running one twice;
  past them all of its own are there. An admin who exists was printed, or is about to
  be by the replica that created it, or its printer died.
- `OutputsAreComplete`: for any sizes and caps. `ScriptInv` adds that until the output is
  found too large everything that was read has been kept, and is within the cap, and
  that only a second chunk can damage a character.
- `HeadersAreGood`: for any margin, lifetimes and clock. A token fetched with a
  credential that has since been replaced was asked for at most `MaxFetch` before the
  replacement and lives at most `LongestLife`; `TokenInv` keeps that bound for the token
  in the cache and for the one a poll holds or is fetching (`Overdue`).
- `DumpsSurvive`: for any dumpers and retention, and any moments at which they are
  killed. `DumpOf`: the scheduled dumper, when it prunes, has a complete dump of its
  own that is too young to be deleted; `OwnNames`: no two are writing the same file,
  unless `clash`; `MarkerIsPast`: the marker is about no newer dump than the one to be
  marked next.
- `ExportsAreNewest`: for any page size, entries that commit late or out of order, and
  prunings between pages. Entries are only added above or pruned below, so an entry
  that stays never sinks in rank (`RankStays`); hence what the pages so far have
  missed is below what they reach (`MissedIsBelow`). At the end the pages hold as many
  entries as were counted, and counting (`FS_Union`, `FS_Subset`) bounds those that
  are missing by the ones added. The oldest missed entry needs a largest element of
  a bounded set of naturals, which well-foundedness gives without induction (`Largest`).

- `StatisticsHold`: `StatisticsAddUp` for any finite store, any filters, buckets and
  windows. Three things make it more than a calculation. The totals are folds over sets,
  whose value no installed prover gets from their definition: `SumExists` shows that a
  function with the fold's equation exists on the subsets of a finite set, and
  `SumStep`, `SumOneMore`, `SumCounts`, `SumIsBounded` what it returns, each by the least
  number of elements for which it would fail (`Least`) instead of induction; so that
  counts by key sum to the number of calls (`CountsSumUp`) and an average lies between
  the least and the greatest value (`AverageLies`). `WindowsAddUp`, `OutcomesAddUp`,
  `BreakdownsAddUp`, `TalkersCount`, `TrendLies`, `PlaceLies` apply that to one query
  each. And a summary's four queries are four steps: `ReadsInv` adds `SummaryIsOfStore` -
  what each query so far has counted is what the store still shows, unless a call was
  ingested in between (`mixed`) - before its parts can be compared (`SummaryAddsUp`).

**Dashboard.** Each part has an inductive invariant, its initial states and its steps.

- The list (`ListInv` to `ListSettles`): the load begun last asks what the screen says for
  the account it shows, so that when it is the last to answer, the table does. What is
  true once everything has settled needs what is true of the last of several loads.
- The drawer (`DrawerInv`, `DrawerTrail`): every record on the trail links to the next, the
  last one to the open one, and a drill under way set out from a record that the trail
  leads to, unless `strayed`.
- The columns (`ColumnInv`, `ColumnsFollow`): widths, orders and hidden columns in
  `localStorage` are those of some release, in any tab; `KeptIs`, `KeptKeeps` and `Joined`
  show that dropping what a release lacks and appending what the store lacks gives
  each of its columns one place, `Swapped` that moving one keeps that.
- The timeline (`TimelineInv`, `TimelineTiles`): `Sorting` shows that the order by time and
  position is a permutation, by counting who comes before; `Carved` that the stretches
  between the toggles tile the window and that each moment is on hold iff the last
  toggle before it was a hold; `RowsFit`, `Target` and `TailDone` add the kinds of
  participants and the wrap-up. For any record the schema allows.
- The menu's lists: `SectionInv` is about any section - a list, reads, calls with their
  answers and the version each is about - and its lemmas are used three times:
  `KeyInv` adds the value shown once (`KeysAreHeld`), `UserInv` that whatever a form or a
  request would write without anybody having typed it is what the text field made of what
  the row held when "Edit" was pressed (`UsersAreHeld`; that reading a field twice gives
  what reading it once gives is `UsersAssumption`), `SourceInv` that the credential, the tick and the type
  of a form were given for the source they go to (`SourcesAreHeld`).
- The sign-in (`SignInInv`, `SignInIsTrue`): the account on screen is the cookie's unless
  `revived`, and a confirmation that has been checked and not written is for a secret on
  its owner's phone, unless `torn` (`SignInSound`, with `Backed` and `Vouched` of each
  request, which hold of those nobody waits for any more, too), a screen waits for one answer at most (`SignInDialogs`), and,
  unless news was `missed` or is on its way to a dialog that is gone, it knows of the
  second factor (`SignInNews`). The three lean on each other: a dialog that could ask
  twice would make an old answer news.

**The system** (module `SystemProofs`). `SystemInv` is the conjunction of the invariants of all
parts; `SystemMoves` shows that a step of `PlatformSpec` is one of the part that runs by
its own specification and none of the others, whence `SystemKept`. From it
`ScreensAreTrue` (`ScreenIsTrue`), `PlatformTypesCorrect` (`TypesOK`) and `BackendIsSafe`: the
eight properties of `Platform`'s parts, proved above of their own specifications, hold
in every behaviour of the composition that the `platform` run explores.

`TypeCorrect` (or `...TypeCorrect`, `TypesCorrect`) is proved for `JobLock`, `RemotePoll`,
`AlertCheck`, `TlsReload`, the four models of `Accounts` and `KeyRotation`; with
`PlatformTypesCorrect` every model's types are.

Only model-checked: liveness (`EveryPollEnds`, `EveryUploadAnswered`,
`EveryReplicaServes`, `EveryRunSettles`), for liveness under fairness and `ENABLED` are out
of the prover's reach. Every invariant and action property that a run expects to hold
is a theorem.

What the proofs assume of the data is in the modules' named ASSUMEs, and TLC evaluates
those on the values of the runs. The longer ones: `ReadsAssumption` (times and durations are integers,
a duration may be absent, a call is in one of the schema's four states, a window has
two ends), `TimelineAssumption` (times are integers, an event's is always there; nothing
about their order, nothing about the sign of a duration), `ReleasesAssumption` (there is
a release, and each names its columns once and gives each a default width),
`UsersAssumption` (no set of groups is the mark for "no limit", and a name read from a
text field reads as itself).

## 5. What is left

Not modelled, and why:

- demo data (`seedDemo.ts`), the OpenAPI document, record schemas, configuration: data
  and validation rules; whether a record is valid is a parameter of `RemotePoll`;
- restore, PITR, the off-site mirror: calls of `pg_restore`, `pgbackrest` and `mc`, whose
  behaviour is not in this repository;
- the status page, metrics, log lines: written and never read back;
- how alert conditions compute their health, the list of the worst MOS;
- the advanced filter's grammar (`advancedFilter.ts`): parsing into one more condition of
  the queries;
- of the dashboard: charts, styles, layout and formatting; the menu's widgets for
  backups and certificates (one request each); the pagers of audit log and rejects
  on screen; the ingest dialog up to `IngestDone`;
- containers, deployment script and CI.

Seen while modelling, and left as exceptions of the properties or as notes:

- a mistyped second-factor code in a dialog is answered 401, and `api.ts` takes any 401
  for the end of the session: the login screen appears although the session lives;
- a dialog's answer after logout puts the account back on screen (`revived`);
- saving a user whose scope is no group at all lifts the limit, and one with a group
  whose name has a comma or blanks at its ends changes it (`Excused`);
- the last admin may demote himself (`AnAccountRemains` speaks of accounts only);
- two UPDATEs of a failed rotation may land at any later time (`late`);
- closing the set-up of a second factor once the codes are shown leaves "Enable" in
  the menu (`missed`);
- a revocation under way hides the value of a key created meanwhile (`hidden`);
- the tick that accepts a script's liability survives a change of its text;
- a list that could not be read is shown as an empty one;
- a second enrolment begun while the first is being confirmed is enabled with a secret
  nobody produced a code for, against mfaService.ts:23-24 (`torn`);
- a character of a script's output that lies across two chunks is replaced
  (remoteScriptRunner.ts:133, `garbled`), although :65-67 sees to it that "an accented caller
  name" can be printed;
- a script's "wall-clock timeout" (remoteScriptRunner.ts:45-46) does not end a run while a
  process the script left behind holds the pipe (`heir`), so the poll may outlive the
  lease that "covers" it (remotePollService.ts:221);
- after a poll the lease stays taken for up to 10 minutes, and every poll of the source is
  refused with "Another instance is already polling this source"
  (remotePollService.ts:245), intervals from 1 minute (admin.ts:416) notwithstanding.

Next: the remaining widgets and pagers; `enabled` and the watermark a script reports
in `RemotePoll`; the status page.
