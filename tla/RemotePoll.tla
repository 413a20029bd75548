----------------------------- MODULE RemotePoll -----------------------------
(***************************************************************************)
(* Polling a remote CDR API (services/remotePollService.ts, with the rows  *)
(* of services/remoteSourceService.ts, the upsert of ingestService.ts and  *)
(* the lease of db/jobLock.ts).                                            *)
(*                                                                         *)
(* Each replica keeps a map of polls in flight, one per source.  A poll    *)
(* claims the source's lease, reads the source's watermark, then fetches   *)
(* the window [watermark, start of the poll) page by page; the records of  *)
(* a page are validated, the rejected ones logged and the others upserted  *)
(* by call id before the next page is asked for.  Only a poll that read    *)
(* every page moves the watermark, to its own start.                       *)
(*                                                                         *)
(* A version of a call is identified with its order_time, which the remote *)
(* sets to the time of the update.  Sources of type 'custom' (a script     *)
(* instead of pages), the enabled flag (it only keeps the tick from asking)*)
(* and the prune of rejects after REMOTE_SOURCE_REJECTS_RETENTION_DAYS are *)
(* not part of this module.                                                *)
(***************************************************************************)
EXTENDS Integers, FiniteSets

CONSTANTS
    Replicas,   \* backend processes sharing one database
    Sources,    \* ids of remote sources
    Calls,      \* call ids, naturals: the listing's tie-break orders them
    Origin,     \* Origin[c]: the source whose remote serves call c
    BadCalls,   \* calls whose record does not satisfy callRecordSchema
    Mutable,    \* calls the remote may write again after the first time
    PageSize,   \* PAGE_SIZE
    MaxPages,   \* MAX_PAGES_PER_CYCLE
    Lease,      \* REMOTE_SOURCE_POLL_LEASE_MS
    MaxPoll,    \* the longest a poll may take, from its claim to its result
    MaxTime     \* bound of the model: the clock stops here

ASSUME CallsAssumption == Calls \subseteq Nat
ASSUME OriginAssumption == Origin \in [Calls -> Sources]
ASSUME PagesAssumption == PageSize \in Nat \ {0} /\ MaxPages \in Nat \ {0}
ASSUME LeaseAssumption == Lease \in Nat
ASSUME MaxPollAssumption == MaxPoll \in Nat
ASSUME MaxTimeAssumption == MaxTime \in Nat

VARIABLES
    now,          \* one clock for the database, the replicas and the remotes
    lockedUntil,  \* locked_until of job "remote_source_poll:<id>"
    remote,       \* remote[c]: order_time of the version the remote serves
    cdr,          \* cdr[c]: order_time of the version in call_records
    rejects,      \* remote_source_rejects, as pairs <<call, version>>
    exists,       \* exists[s]: the remote_sources row of s is there
    watermark,    \* remote_sources.watermark
    pollStatus,   \* remote_sources.last_poll_status
    poll          \* poll[r][s]: the entry of s in the inFlightPolls of r

vars == <<now, lockedUntil, remote, cdr, rejects, exists, watermark,
          pollStatus, poll>>

Absent == -1        \* no version of the call yet
Unset == -1         \* a NULL watermark, a lock row that was never written
BackfillFrom == 0   \* backfill_from of every source

Times == 0..MaxTime
Versions == Times \cup {Absent}
Success == {"ok", "validation_rejects"}
Failure == {"auth_error", "fetch_error"}
Statuses == Success \cup Failure \cup {"never", "skipped_locked"}
Phases == {"idle", "claim", "load", "fetch", "reject", "store", "record", "done"}

\* A poll in flight: where its async function is suspended, endTime (start),
\* startTime (from), the page it is at, whether that is the last page, the
\* records of the page not yet stored, rejectedCount > 0, and its status.
Polls ==
    [pc: Phases, start: Times, from: Times, page: 1..MaxPages, last: BOOLEAN,
     batch: SUBSET (Calls \X Times), bad: BOOLEAN, status: Statuses]

NoPoll ==
    [pc |-> "idle", start |-> 0, from |-> 0, page |-> 1, last |-> FALSE,
     batch |-> {}, bad |-> FALSE, status |-> "never"]

\* The job body of pollRemoteSourceImpl is under way.
Body == {"load", "fetch", "reject", "store", "record"}
Polling(r, s) == poll[r][s].pc \in Body

At(r, s, phase) == poll[r][s].pc = phase

Init ==
    /\ now = 0
    /\ lockedUntil = [s \in Sources |-> Unset]
    /\ remote = [c \in Calls |-> Absent]
    /\ cdr = [c \in Calls |-> Absent]
    /\ rejects = {}
    /\ exists = [s \in Sources |-> TRUE]
    /\ watermark = [s \in Sources |-> Unset]
    /\ pollStatus = [s \in Sources |-> "never"]
    /\ poll = [r \in Replicas |-> [s \in Sources |-> NoPoll]]

-----------------------------------------------------------------------------
(* The environment: time, the remotes, the admin's delete and crashes.     *)

\* Time passes, never beyond the longest poll of one that is under way.
Tick ==
    /\ now < MaxTime
    /\ \A r \in Replicas, s \in Sources :
          Polling(r, s) => now < poll[r][s].start + MaxPoll
    /\ now' = now + 1
    /\ UNCHANGED <<lockedUntil, remote, cdr, rejects, exists, watermark,
                   pollStatus, poll>>

\* The remote stores a call for the first time, or a new version of it.  Its
\* order_time - lastUpdateTime, else endTime, else startTime - is taken to be the
\* time of that write; what is stored with an earlier one is beyond this model.
RemoteWrite(c) ==
    /\ remote[c] = Absent \/ c \in Mutable
    /\ remote[c] < now
    /\ remote' = [remote EXCEPT ![c] = now]
    /\ UNCHANGED <<now, lockedUntil, cdr, rejects, exists, watermark,
                   pollStatus, poll>>

\* deleteRemoteSource: the rejects go with the row (ON DELETE CASCADE), the
\* lock row and a poll in flight stay.
DeleteSource(s) ==
    /\ exists[s]
    /\ exists' = [exists EXCEPT ![s] = FALSE]
    /\ rejects' = {x \in rejects : Origin[x[1]] # s}
    /\ watermark' = [watermark EXCEPT ![s] = Unset]
    /\ pollStatus' = [pollStatus EXCEPT ![s] = "never"]
    /\ UNCHANGED <<now, lockedUntil, remote, cdr, poll>>

\* A replica dies and starts again with an empty inFlightPolls.
Crash(r) ==
    /\ poll' = [poll EXCEPT ![r] = [s \in Sources |-> NoPoll]]
    /\ UNCHANGED <<now, lockedUntil, remote, cdr, rejects, exists, watermark,
                   pollStatus>>

-----------------------------------------------------------------------------
(* One poll, from the call of pollRemoteSource to its resolved promise.    *)

\* p is the new state of the poll of s in r; nothing else changes.
Step(r, s, p) == poll' = [poll EXCEPT ![r][s] = p]

\* The body goes on to recordPollResult with this status.
Finished(p, status) ==
    [p EXCEPT !.pc = "record", !.status = status, !.batch = {}]

\* pollRemoteSource, called by the background tick or by the on-demand route.
\* The tick works through a list it read earlier: the source may be gone.  A
\* caller that finds an entry in inFlightPolls awaits that one: no step.
Request(r, s) ==
    /\ At(r, s, "idle")
    /\ Step(r, s, [NoPoll EXCEPT !.pc = "claim"])
    /\ UNCHANGED <<now, lockedUntil, remote, cdr, rejects, exists, watermark,
                   pollStatus>>

\* Fault: a lease is free again from its very last instant.
ClaimGranted_NotStrict(r, s) ==
    /\ At(r, s, "claim")
    /\ lockedUntil[s] <= now
    /\ lockedUntil' = [lockedUntil EXCEPT ![s] = now + Lease]
    /\ Step(r, s, [poll[r][s] EXCEPT !.pc = "load", !.start = now])
    /\ UNCHANGED <<now, remote, cdr, rejects, exists, watermark, pollStatus>>

\* tryClaimJob grants the lease and pollRemoteSourceImpl begins: its endTime
\* is the time of its start.
ClaimGranted(r, s) ==
    /\ At(r, s, "claim")
    /\ lockedUntil[s] < now
    /\ lockedUntil' = [lockedUntil EXCEPT ![s] = now + Lease]
    /\ Step(r, s, [poll[r][s] EXCEPT !.pc = "load", !.start = now])
    /\ UNCHANGED <<now, remote, cdr, rejects, exists, watermark, pollStatus>>

\* Fault: the upsert has no WHERE clause, a refused claim extends the lease.
ClaimRefused_Extends(r, s) ==
    /\ At(r, s, "claim")
    /\ lockedUntil[s] >= now
    /\ lockedUntil' = [lockedUntil EXCEPT ![s] = now + Lease]
    /\ Step(r, s, [poll[r][s] EXCEPT !.pc = "done", !.status = "skipped_locked"])
    /\ UNCHANGED <<now, remote, cdr, rejects, exists, watermark, pollStatus>>

\* tryClaimJob finds an unexpired lease: nothing is polled.
ClaimRefused(r, s) ==
    /\ At(r, s, "claim")
    /\ lockedUntil[s] >= now
    /\ Step(r, s, [poll[r][s] EXCEPT !.pc = "done", !.status = "skipped_locked"])
    /\ UNCHANGED <<now, lockedUntil, remote, cdr, rejects, exists, watermark,
                   pollStatus>>

\* tryClaimJob throws: so does pollRemoteSource, nothing is polled or recorded.
ClaimFails(r, s) ==
    /\ At(r, s, "claim")
    /\ Step(r, s, [poll[r][s] EXCEPT !.pc = "done"])
    /\ UNCHANGED <<now, lockedUntil, remote, cdr, rejects, exists, watermark,
                   pollStatus>>

\* Fault: no fallback to backfill_from before the first success.
Load_NoBackfill(r, s) ==
    /\ At(r, s, "load")
    /\ Step(r, s,
         IF ~exists[s] THEN Finished(poll[r][s], "fetch_error")
         ELSE [poll[r][s] EXCEPT !.pc = "fetch", !.from = watermark[s]])
    /\ UNCHANGED <<now, lockedUntil, remote, cdr, rejects, exists, watermark,
                   pollStatus>>

\* getRemoteSourceForPolling: the window starts at the watermark, at
\* backfill_from before the first success; a deleted source is an error.
Load(r, s) ==
    /\ At(r, s, "load")
    /\ Step(r, s,
         IF ~exists[s] THEN Finished(poll[r][s], "fetch_error")
         ELSE [poll[r][s] EXCEPT
                 !.pc = "fetch",
                 !.from = IF watermark[s] = Unset THEN BackfillFrom
                                                  ELSE watermark[s]])
    /\ UNCHANGED <<now, lockedUntil, remote, cdr, rejects, exists, watermark,
                   pollStatus>>

\* The remote's listing of a window: order_time in [from, to), ordered by
\* (order_time, id), as this platform's own GET /calls serves it.
Window(s, from, to) ==
    {c \in Calls : Origin[c] = s /\ from <= remote[c] /\ remote[c] < to}

Rank(W, c) ==
    Cardinality({d \in W : \/ remote[d] < remote[c]
                           \/ remote[d] = remote[c] /\ d <= c})

OnPage(W, c, page) ==
    (page - 1) * PageSize < Rank(W, c) /\ Rank(W, c) <= page * PageSize

IsLastPage(W, page) == Cardinality(W) <= page * PageSize

\* fetchPage: the page as the remote computes it now.  Validation of its
\* records follows at once; a bad record waits on the insert of its reject.
Fetch(r, s) ==
    LET p == poll[r][s]
        W == Window(s, p.from, p.start)
        served == {c \in W : OnPage(W, c, p.page)}
    IN  /\ At(r, s, "fetch")
        /\ Step(r, s,
             [p EXCEPT !.pc = IF served \cap BadCalls = {} THEN "store"
                                                          ELSE "reject",
                       !.batch = {<<c, remote[c]>> : c \in served},
                       !.last = IsLastPage(W, p.page)])
        /\ UNCHANGED <<now, lockedUntil, remote, cdr, rejects, exists,
                       watermark, pollStatus>>

\* Something in the try block throws: a credential cannot be decrypted or is
\* refused (401, 403), a request fails or times out, a query fails; the upsert
\* of a page is rolled back as a whole.
BodyFails(r, s) ==
    /\ poll[r][s].pc \in {"load", "fetch", "reject", "store"}
    /\ At(r, s, "store") => poll[r][s].batch # {}
    /\ \E status \in Failure :
          /\ status = "auth_error" => poll[r][s].pc \in {"load", "fetch"}
          /\ Step(r, s, Finished(poll[r][s], status))
    /\ UNCHANGED <<now, lockedUntil, remote, cdr, rejects, exists, watermark,
                   pollStatus>>

BadPairs(batch) == {x \in batch : x[1] \in BadCalls}

\* logRemoteSourceReject for each bad record of the page; the foreign key
\* makes it throw when the source has been deleted meanwhile.
LogRejects(r, s) ==
    LET p == poll[r][s]
    IN  /\ At(r, s, "reject")
        /\ IF exists[s]
           THEN /\ rejects' = rejects \cup BadPairs(p.batch)
                /\ Step(r, s, [p EXCEPT !.pc = "store", !.bad = TRUE,
                                        !.batch = p.batch \ BadPairs(p.batch)])
           ELSE /\ Step(r, s, Finished(p, "fetch_error"))
                /\ UNCHANGED rejects
        /\ UNCHANGED <<now, lockedUntil, remote, cdr, exists, watermark,
                       pollStatus>>

\* Fault: the loop asks for the same page again.
AfterPage_SamePage(p) ==
    IF p.last THEN Finished(p, IF p.bad THEN "validation_rejects" ELSE "ok")
    ELSE [p EXCEPT !.pc = "fetch", !.batch = {}]

\* What follows a stored page: the next page, the end of the cycle, or the
\* error of a window with more than MaxPages pages.
AfterPage(p) ==
    IF p.last THEN Finished(p, IF p.bad THEN "validation_rejects" ELSE "ok")
    ELSE IF p.page = MaxPages THEN Finished(p, "fetch_error")
    ELSE [p EXCEPT !.pc = "fetch", !.page = p.page + 1, !.batch = {}]

\* The upsert overwrites whatever version of the call is stored.
Upserted(table, batch) ==
    [c \in Calls |-> IF \E x \in batch : x[1] = c
                     THEN (CHOOSE x \in batch : x[1] = c)[2]
                     ELSE table[c]]

\* ingestRecords: the accepted records of the page in one transaction.
Store(r, s) ==
    /\ At(r, s, "store")
    /\ cdr' = Upserted(cdr, poll[r][s].batch)
    /\ Step(r, s, AfterPage(poll[r][s]))
    /\ UNCHANGED <<now, lockedUntil, remote, rejects, exists, watermark,
                   pollStatus>>

\* Fault: the watermark is the time the poll ended, not the time it started.
Record_EndTime(r, s) ==
    LET p == poll[r][s]
    IN  /\ At(r, s, "record")
        /\ IF exists[s]
           THEN /\ pollStatus' = [pollStatus EXCEPT ![s] = p.status]
                /\ watermark' = IF p.status \in Success
                                THEN [watermark EXCEPT ![s] = now]
                                ELSE watermark
           ELSE UNCHANGED <<pollStatus, watermark>>
        /\ Step(r, s, [p EXCEPT !.pc = "done"])
        /\ UNCHANGED <<now, lockedUntil, remote, cdr, rejects, exists>>

\* Fault: a failed cycle moves the watermark too.
Record_AnyStatus(r, s) ==
    LET p == poll[r][s]
    IN  /\ At(r, s, "record")
        /\ IF exists[s]
           THEN /\ pollStatus' = [pollStatus EXCEPT ![s] = p.status]
                /\ watermark' = [watermark EXCEPT ![s] = p.start]
           ELSE UNCHANGED <<pollStatus, watermark>>
        /\ Step(r, s, [p EXCEPT !.pc = "done"])
        /\ UNCHANGED <<now, lockedUntil, remote, cdr, rejects, exists>>

\* recordPollResult: an UPDATE of no row when the source is gone.  The
\* watermark is written after a success only.
Record(r, s) ==
    LET p == poll[r][s]
    IN  /\ At(r, s, "record")
        /\ IF exists[s]
           THEN /\ pollStatus' = [pollStatus EXCEPT ![s] = p.status]
                /\ watermark' = IF p.status \in Success
                                THEN [watermark EXCEPT ![s] = p.start]
                                ELSE watermark
           ELSE UNCHANGED <<pollStatus, watermark>>
        /\ Step(r, s, [p EXCEPT !.pc = "done"])
        /\ UNCHANGED <<now, lockedUntil, remote, cdr, rejects, exists>>

\* recordPollResult throws.  After a success that is one more failure to
\* record; after a failure pollRemoteSource throws and nothing is recorded.
RecordFails(r, s) ==
    LET p == poll[r][s]
    IN  /\ At(r, s, "record")
        /\ Step(r, s, IF p.status \in Success THEN Finished(p, "fetch_error")
                      ELSE [p EXCEPT !.pc = "done"])
        /\ UNCHANGED <<now, lockedUntil, remote, cdr, rejects, exists,
                       watermark, pollStatus>>

\* The promise settles: finally() deletes the map entry and the callers get
\* the summary, or the error.
Reply(r, s) ==
    /\ At(r, s, "done")
    /\ Step(r, s, NoPoll)
    /\ UNCHANGED <<now, lockedUntil, remote, cdr, rejects, exists, watermark,
                   pollStatus>>

\* The steps of a poll under way.  Each ends: a request times out, a query
\* returns or throws.
Progress(r, s) ==
    \/ ClaimGranted(r, s) \/ ClaimRefused(r, s) \/ ClaimFails(r, s)
    \/ Load(r, s) \/ Fetch(r, s) \/ LogRejects(r, s) \/ Store(r, s)
    \/ BodyFails(r, s) \/ Record(r, s) \/ RecordFails(r, s) \/ Reply(r, s)

Next ==
    \/ Tick
    \/ \E c \in Calls : RemoteWrite(c)
    \/ \E s \in Sources : DeleteSource(s)
    \/ \E r \in Replicas : Crash(r)
    \/ \E r \in Replicas, s \in Sources : Request(r, s) \/ Progress(r, s)

Fairness == \A r \in Replicas, s \in Sources : WF_vars(Progress(r, s))

Spec == Init /\ [][Next]_vars

FairSpec == Spec /\ Fairness

-----------------------------------------------------------------------------
(* Properties.                                                             *)

TypeOK ==
    /\ now \in Times
    /\ lockedUntil \in [Sources -> Int]
    /\ remote \in [Calls -> Versions]
    /\ cdr \in [Calls -> Versions]
    /\ rejects \subseteq Calls \X Times
    /\ exists \in [Sources -> BOOLEAN]
    /\ watermark \in [Sources -> Times \cup {Unset}]
    /\ pollStatus \in [Sources -> Statuses]
    /\ poll \in [Replicas -> [Sources -> Polls]]

\* Migration 009: polling a source "runs at most once at a time across N
\* backend replicas".
AtMostOnePoller ==
    \A s \in Sources : \A q, r \in Replicas :
        Polling(q, s) /\ Polling(r, s) => q = r

\* No gap: every version the remote serves with an order_time below the
\* watermark is in call_records, or among the rejects when it is malformed;
\* a later poll would never ask for it again.
Ingested(c) == IF c \in BadCalls THEN <<c, remote[c]>> \in rejects
                                 ELSE cdr[c] = remote[c]

NoGap ==
    \A c \in Calls :
        LET s == Origin[c]
        IN  exists[s] /\ BackfillFrom <= remote[c] /\ remote[c] < watermark[s]
                => Ingested(c)

\* A stored version is never replaced by an older one, although the upsert
\* compares nothing: within a lease, pages are stored in the order fetched.
NoStaleOverwrite == [][\A c \in Calls : cdr[c] <= cdr'[c]]_cdr

\* Every caller of pollRemoteSource gets an answer, whatever fails, unless its
\* replica dies: no poll stays in inFlightPolls for ever, joining every later
\* caller to it.
EveryPollEnds ==
    \A r \in Replicas, s \in Sources :
        ~At(r, s, "idle") ~> At(r, s, "idle")

\* Polling is one of the jobs of the lease table: an execution of the job of s
\* is a poll of s between its claim and its recorded result.
HeldSince(p) == IF p.pc \in Body THEN p.start ELSE -1

Held == [r \in Replicas |-> [s \in Sources |-> HeldSince(poll[r][s])]]

Table == INSTANCE JobLock WITH
    Workers <- Replicas,
    Jobs <- Sources,
    Lease <- [s \in Sources |-> Lease],
    MaxRun <- [s \in Sources |-> MaxPoll],
    held <- Held

\* Every step of the pollers is a step, or no step, of the lease table.
ImplementsJobLock == Table!Spec
=============================================================================
