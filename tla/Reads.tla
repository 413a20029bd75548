------------------------------- MODULE Reads -------------------------------
(***************************************************************************)
(* The read API over call_records: access scoping (middleware/auth.ts),    *)
(* GET /calls and GET /calls/:id (services/cdrService.ts), the statistics  *)
(* (services/statisticsService.ts), and a summary whose queries see what   *)
(* is ingested between them.                                               *)
(*                                                                         *)
(* A list parameter that is absent is NoFilter; null columns are Null.     *)
(* Times and durations are small integers, a bucket is Bucket of them.     *)
(***************************************************************************)
EXTENDS Integers, FiniteSets, FiniteSetsExt

CONSTANTS
    Versions,  \* the contents a call record may have
    Users,     \* pairs of allowed_groups and allowed_source_platform_ids
    Requests,  \* the filters of a request
    Bucket,    \* ticks in the hour or day of a trend
    NoFilter, Null

\* Groups and platforms are sets that are never confused with NoFilter; a call has
\* a start, one of the four states of the schema and times that are known or Null.
ReadsAssumption ==
    /\ \A f \in Requests :
        {"from", "to", "groups", "platforms", "media", "excluded"} \subseteq DOMAIN f
    /\ \A u \in Users, f \in Requests :
        /\ u.groups # NoFilter /\ f.groups # NoFilter => f.groups \cap u.groups # NoFilter
        /\ u.platforms # NoFilter /\ f.platforms # NoFilter =>
            f.platforms \cap u.platforms # NoFilter
    /\ \A f \in Requests : f.from \in Int /\ f.to \in Int
    /\ \A c \in Versions :
        /\ c.time \in Int /\ c.state \in {"ongoing", "ended", "missed", "abandoned"}
        /\ \A field \in {"duration", "queueTime", "ivrTime"} : c[field] \in Int \cup {Null}

VARIABLES
    store,     \* call_records: one version of each call
    summary,   \* a GET /statistics/summary: user, filters and what it has read
    mixed      \* history: the store changed between its queries

readsVars == <<store, summary, mixed>>

-----------------------------------------------------------------------------
(* Scoping and filters.                                                    *)

\* Fault: an intersection that is empty counts as no filter.
ScopeList_EmptyIsNoFilter(allowed, requested) ==
    IF allowed = NoFilter THEN requested
    ELSE IF requested = NoFilter \/ requested = {} THEN allowed
    ELSE IF requested \cap allowed = {} THEN NoFilter ELSE requested \cap allowed

ScopeList(allowed, requested) ==
    IF allowed = NoFilter THEN requested
    ELSE IF requested = NoFilter \/ requested = {} THEN allowed
    ELSE requested \cap allowed

\* scopeFilters, filtersFrom.
Scoped(user, f) ==
    [f EXCEPT !.groups = ScopeList(user.groups, @),
              !.platforms = ScopeList(user.platforms, @)]

\* "groups && $n", "source_platform_id = ANY($n)": an empty list matches nothing.
InGroups(c, groups) == groups = NoFilter \/ c.groups \cap groups # {}
OnPlatform(c, platforms) == platforms = NoFilter \/ c.platform \in platforms

\* Fault: the window includes its end.
InWindow_Closed(c, f) == c.time >= f.from /\ c.time <= f.to

InWindow(c, f) == c.time >= f.from /\ c.time < f.to

\* insightsWhere, and the same conditions in listCallRecords.
Matches(c, f) ==
    /\ InWindow(c, f)
    /\ InGroups(c, f.groups)
    /\ OnPlatform(c, f.platforms)
    /\ f.media = NoFilter \/ f.media = {} \/ c.media \in f.media
    /\ f.excluded = NoFilter \/ c.groups \cap f.excluded = {}

Select(calls, f) == {c \in calls : Matches(c, f)}

\* listCallRecords: the filters of the table on top, and advanced numeric
\* conditions, which a null never satisfies.
List(calls, f) ==
    {c \in Select(calls, f) :
        /\ f.queue = NoFilter \/ c.queue = f.queue
        /\ f.worstMos = NoFilter \/ (c.mos # Null /\ c.mos < f.worstMos)}

\* getCallRecord: no window, the caller's whole scope.
Get(calls, user, id) ==
    {c \in calls : c.id = id /\ InGroups(c, user.groups)
                             /\ OnPlatform(c, user.platforms)}

-----------------------------------------------------------------------------
(* Statistics.                                                             *)

BucketOf(c) == c.time \div Bucket
Throughput(calls) == [b \in {BucketOf(c) : c \in calls} |->
                        Cardinality({c \in calls : BucketOf(c) = b})]

Answered(calls) == {c \in calls : c.state = "ended"}
Unanswered(calls) == {c \in calls : c.state \in {"missed", "abandoned"}}
ByOutcome(calls) ==
    [b \in DOMAIN Throughput(calls) |->
        LET here == {c \in calls : BucketOf(c) = b}
        IN [answered |-> Cardinality(Answered(here)),
            unanswered |-> Cardinality(Unanswered(here))]]

ByPlatform(calls) == [p \in {c.platform : c \in calls} |->
                        Cardinality({c \in calls : c.platform = p})]

\* AVG over the rows that have a value, rounded to a fraction of a second.
Known(field, calls) == {c \in calls : c[field] # Null}
Average(field, calls, fraction) ==
    LET known == Known(field, calls)
        n == Cardinality(known)
        sum == fraction * MapThenSumSet(LAMBDA c : c[field], known)
    IN IF n = 0 THEN 0 ELSE (2 * sum + n) \div (2 * n)

\* getHandleTimeTrend, getQueueWaitTrend, getIvrTimeTrend.
Trend(field, calls) ==
    [b \in {BucketOf(c) : c \in Known(field, calls)} |->
        Average(field, {c \in calls : BucketOf(c) = b}, 1)]

\* getQueueWaitBreakdown, getIvrTimeByIvr.
ByPlace(field, place, calls) ==
    LET known == Known(field, calls) \cap Known(place, calls)
    IN [x \in {c[place] : c \in known} |->
          Average(field, {c \in known : c[place] = x}, 1)]
ByQueue(calls) == ByPlace("queueTime", "queue", calls)
ByIvr(calls) == ByPlace("ivrTime", "ivr", calls)

\* SELECT DISTINCT over the participants: a row for each call and each name
\* (and kind) under which an identity takes part in it.
PersonRows(calls) == UNION {{[call |-> c.id, duration |-> c.duration, who |-> p]
                              : p \in {q \in c.people : q.talks}} : c \in calls}
RowsOf(calls, id) == {r \in PersonRows(calls) : r.who.id = id}
Internal(calls, id) == \E r \in RowsOf(calls, id) : r.who.internal

\* getTopTalkers: callCount of everybody in the tab.
TopTalkers(calls, scope) ==
    [id \in {r.who.id : r \in {q \in PersonRows(calls) :
                scope = Internal(calls, q.who.id)}} |-> Cardinality(RowsOf(calls, id))]

\* getAgentHandleTime: HAVING COUNT(*) >= 2.
AgentRows(calls, id) == {r \in RowsOf(calls, id) : r.who.internal /\ r.duration # Null}
Agents(calls) == {id \in {r.who.id : r \in PersonRows(calls)} :
                    Cardinality(AgentRows(calls, id)) >= 2}

\* getStatisticsSummary, query by query.
ByMedia(calls) == [m \in {c.media : c \in calls} |->
                     Cardinality({c \in calls : c.media = m})]
Voice(calls) ==
    LET voice == {c \in calls : c.media = "voice"}
        left == {c \in voice : c.state = "abandoned"}
    IN [matured |-> Cardinality(Answered(voice)),
        unmatured |-> Cardinality(Unanswered(voice)),
        abandonedQueue |-> Cardinality({c \in left : c.queue # Null}),
        abandonedIvr |-> Cardinality({c \in left : c.ivr # Null /\ c.queue = Null})]

Averages(calls) ==
    [field \in {"ivrTime", "queueTime", "duration"} |-> Average(field, calls, 100)]

\* UNION ALL: a call counts for its queue, its IVR and each of its groups.
ComponentsOf(c) ==
    ({<<"acd", c.queue>>, <<"ivr", c.ivr>>} \ {<<"acd", Null>>, <<"ivr", Null>>})
        \cup {<<"group", g>> : g \in c.groups}
Components(calls) ==
    [x \in UNION {ComponentsOf(c) : c \in calls} |->
        Cardinality({c \in calls : x \in ComponentsOf(c)})]

-----------------------------------------------------------------------------
NoSummary == [pc |-> "idle", filters |-> Null, media |-> Null, voice |-> Null,
              averages |-> Null, components |-> Null]
Answering == summary.pc \in {"voice", "averages", "components"}

ReadsInit == store = {} /\ summary = NoSummary /\ mixed = FALSE

\* An upsert that commits; bound of the model: at most one during a summary.
Ingest(c) ==
    /\ c \notin store /\ ~mixed
    /\ store' = {d \in store : d.id # c.id} \cup {c}
    /\ mixed' = Answering
    /\ summary' = IF Answering THEN summary ELSE NoSummary

\* GET /statistics/summary: scoped, then one query after the other.
SummaryByMedia(user, f) ==
    /\ ~Answering
    /\ summary' = [NoSummary EXCEPT !.pc = "voice", !.filters = Scoped(user, f),
                                    !.media = ByMedia(Select(store, Scoped(user, f)))]
    /\ mixed' = FALSE
    /\ UNCHANGED store

SummaryVoice ==
    /\ summary.pc = "voice"
    /\ summary' = [summary EXCEPT !.pc = "averages",
                                  !.voice = Voice(Select(store, summary.filters))]
    /\ UNCHANGED <<store, mixed>>

SummaryAverages ==
    /\ summary.pc = "averages"
    /\ summary' = [summary EXCEPT !.pc = "components",
                                  !.averages = Averages(Select(store, summary.filters))]
    /\ UNCHANGED <<store, mixed>>

SummaryComponents ==
    /\ summary.pc = "components"
    /\ summary' = [summary EXCEPT !.pc = "answered",
                                  !.components = Components(Select(store, summary.filters))]
    /\ UNCHANGED <<store, mixed>>

\* The summary takes its window from the request, and nothing else.
Windows == {f \in Requests : f.groups = NoFilter /\ f.platforms = NoFilter /\ f.media = NoFilter
                             /\ f.excluded = NoFilter /\ f.queue = NoFilter /\ f.worstMos = NoFilter}

ReadsNext ==
    \/ \E c \in Versions : Ingest(c)
    \/ \E u \in Users, f \in Windows : SummaryByMedia(u, f)
    \/ SummaryVoice \/ SummaryAverages \/ SummaryComponents

ReadsSpec == ReadsInit /\ [][ReadsNext]_readsVars

-----------------------------------------------------------------------------
(* Properties.                                                             *)

ReadsTypeOK ==
    /\ store \subseteq Versions
    /\ \A c, d \in store : c.id = d.id => c = d
    /\ (summary.pc \in {"idle", "answered"} \/ Answering) /\ mixed \in BOOLEAN

Visible(c, user) == InGroups(c, user.groups) /\ OnPlatform(c, user.platforms)

\* "never able to widen past their own scope by asking for more": whatever a
\* user asks for, no list and no statistic counts a call GET /calls/:id would
\* not show them; asking for no group in particular gives all they may see.
ScopeNeverWidens ==
    \A c \in store, user \in Users, f \in Requests :
        /\ c \in Select(store, Scoped(user, f)) =>
            Visible(c, user) /\ Matches(c, [f EXCEPT !.groups = NoFilter, !.platforms = NoFilter])
        /\ f.groups = NoFilter /\ f.platforms = NoFilter /\ c \in Select(store, f) =>
            (c \in Select(store, Scoped(user, f)) <=> c \in Get(store, user, c.id))

Total(counts) == MapThenSumSet(LAMBDA x : counts[x], DOMAIN counts)
SplitAt(f, t) == <<[f EXCEPT !.to = t], [f EXCEPT !.from = t]>>

\* Consecutive windows count every call once.
WindowsAdd ==
    \A f \in Requests : \A t \in f.from..f.to :
        Cardinality(Select(store, f)) =
            Cardinality(Select(store, SplitAt(f, t)[1]))
              + Cardinality(Select(store, SplitAt(f, t)[2]))

\* The buckets, the platforms and the list show the same calls; ongoing calls
\* are the only ones without an outcome.
BreakdownsAdd ==
    \A f \in Requests :
        LET calls == Select(store, f) IN
        /\ Total(Throughput(calls)) = Cardinality(calls)
        /\ Total(ByPlatform(calls)) = Cardinality(calls)
        /\ List(store, f) \subseteq calls
        /\ \A b \in DOMAIN Throughput(calls) :
             LET o == ByOutcome(calls)[b] IN
             Throughput(calls)[b] - o.answered - o.unanswered =
                Cardinality({c \in calls : BucketOf(c) = b /\ c.state = "ongoing"})

OneNameEach(calls) ==
    \A c \in calls : \A p, q \in c.people : p.talks /\ q.talks /\ p.id = q.id => p = q

\* A talker's calls are counted once each, and an agent is ranked by at least
\* two calls, as long as no call lists an identity under two names.
TalkersCountCalls ==
    \A f \in Requests :
        LET calls == Select(store, f) IN
        OneNameEach(calls) =>
            /\ \A scope \in BOOLEAN : \A id \in DOMAIN TopTalkers(calls, scope) :
                 TopTalkers(calls, scope)[id] =
                   Cardinality({c \in calls : \E p \in c.people : p.talks /\ p.id = id})
            /\ \A id \in Agents(calls) :
                 Cardinality({c \in calls : \E p \in c.people : p.id = id}) >= 2

\* The figures of a summary fit each other, unless a record was ingested between
\* its four queries: voice calls in the media counts, abandoned ones among the
\* unanswered and in the queues and IVRs, an average only where something counts.
CountOf(kind) ==
    LET xs == {x \in DOMAIN summary.components : x[1] = kind}
    IN MapThenSumSet(LAMBDA x : summary.components[x], xs)
SummaryFits ==
    summary.pc = "answered" /\ ~mixed =>
        LET v == summary.voice
            voice == IF "voice" \in DOMAIN summary.media THEN summary.media["voice"] ELSE 0
        IN /\ v.matured + v.unmatured <= voice
           /\ v.abandonedQueue + v.abandonedIvr <= v.unmatured
           /\ v.abandonedQueue <= CountOf("acd") /\ v.abandonedIvr <= CountOf("ivr")
           /\ \A x \in DOMAIN summary.components :
                summary.components[x] <= Total(summary.media)
           /\ summary.averages["queueTime"] > 0 => Total(summary.media) > 0

\* An average lies between the values it averages, and a trend has a bucket
\* wherever the throughput counts a call that has a value.
Between(field, calls, average) ==
    \E c, d \in Known(field, calls) : c[field] <= average /\ average <= d[field]
AveragesFit ==
    \A f \in Requests :
        LET calls == Select(store, f) IN
        /\ \A field \in {"duration", "queueTime", "ivrTime"} :
            \A b \in DOMAIN Trend(field, calls) :
                /\ b \in DOMAIN Throughput(calls)
                /\ Between(field, {c \in calls : BucketOf(c) = b}, Trend(field, calls)[b])
        /\ \A q \in DOMAIN ByQueue(calls) :
             Between("queueTime", {c \in calls : c.queue = q}, ByQueue(calls)[q])
        /\ \A i \in DOMAIN ByIvr(calls) :
             Between("ivrTime", {c \in calls : c.ivr = i}, ByIvr(calls)[i])

\* What the figures of the dashboard promise each other: windows, buckets,
\* rankings and averages count the same calls, in every store (asked once for
\* each), and so do the parts of a summary.
StatisticsAddUp ==
    /\ store # {} /\ summary.pc = "idle" =>
        WindowsAdd /\ BreakdownsAdd /\ TalkersCountCalls /\ AveragesFit
    /\ SummaryFits
=============================================================================
