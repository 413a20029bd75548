----------------------------- MODULE MCPlatform -----------------------------
(***************************************************************************)
(* Values for the constants of System.                                     *)
(***************************************************************************)
EXTENDS System, Sequences, TLC

-----------------------------------------------------------------------------
(* An old image next to a new one with one migration more.                 *)

MCMigrations == [p \in Replicas |-> IF p = "p" THEN {1, 2} ELSE {1, 2, 3}]

-----------------------------------------------------------------------------
(* Two calls in four versions each: plain; of two groups and abandoned;    *)
(* missed in the IVR, with an agent under two names; ongoing and of no     *)
(* group.                                                                  *)

Talker(id, name, internal, talks) ==
    [id |-> id, name |-> name, internal |-> internal, talks |-> talks]
Ann == Talker("ann", "Ann", TRUE, TRUE)
Plain(id) ==
    [id |-> id, time |-> id, groups |-> {"g"}, platform |-> "x", media |-> "voice",
     state |-> "ended", duration |-> 3, queue |-> "q", queueTime |-> 1, ivr |-> Null, ivrTime |-> Null,
     mos |-> 2, people |-> {Ann, Talker("555", "", FALSE, TRUE)}]
Abandoned(id) ==
    [Plain(id) EXCEPT !.time = 2, !.groups = {"g", "h"}, !.platform = Null, !.queueTime = 4,
                      !.state = "abandoned", !.duration = Null, !.mos = Null]
MissedInIvr(id) ==
    [Plain(id) EXCEPT !.time = 3, !.groups = {"h"}, !.state = "missed", !.queue = Null,
                      !.queueTime = Null, !.duration = 2, !.ivr = "i", !.ivrTime = 2,
                      !.people = {Ann, Talker("ann", "Anna", TRUE, TRUE)}]
Ongoing(id) ==
    [Plain(id) EXCEPT !.time = 3, !.groups = {}, !.state = "ongoing", !.media = "chat",
                      !.duration = Null, !.queue = Null, !.queueTime = Null,
                      !.people = {Ann, Talker("menu", "", FALSE, FALSE)}]
MCVersions == UNION {{Plain(id), Abandoned(id), MissedInIvr(id), Ongoing(id)} : id \in 1..2}

MCUsers == [groups : {NoFilter, {"g"}, {}}, platforms : {NoFilter, {"x"}}]

\* A request with no filter but its window, and some filters of each kind.
Bare == [from |-> 0, to |-> 4, groups |-> NoFilter, platforms |-> NoFilter,
         media |-> NoFilter, excluded |-> NoFilter, queue |-> NoFilter, worstMos |-> NoFilter]
MCRequests ==
    {Bare, [Bare EXCEPT !.to = 3], [Bare EXCEPT !.media = {"voice"}, !.from = 2],
     [Bare EXCEPT !.excluded = {"h"}], [Bare EXCEPT !.queue = "q"], [Bare EXCEPT !.worstMos = 3]}
    \cup {[Bare EXCEPT !.groups = groups, !.platforms = platforms] :
            groups \in {{"g"}, {"h"}, {}}, platforms \in {NoFilter, {"x"}}}

-----------------------------------------------------------------------------
(* The dashboard: two filters and their last presets; three calls whose    *)
(* legs lead in a circle; two releases, one with a column more and another *)
(* default width.                                                          *)

MCFilters == {"day", "queue"}
MCCleared == [f \in MCFilters |-> "day"]
MCPages == [f \in MCFilters |-> 2]

MCCalls == {"a", "b", "c"}
MCLegs == [call \in MCCalls |-> IF call = "b" THEN {"a", "c"} ELSE {"b"}]

Release(ids, dirWidth) ==
    [order |-> ids,
     width |-> [id \in {ids[i] : i \in DOMAIN ids} |-> IF id = "dir" THEN dirWidth ELSE 2],
     least |-> [id \in {ids[i] : i \in DOMAIN ids} |-> 1]]
MCReleases == <<Release(<<"callId", "dir">>, 2), Release(<<"callId", "media", "dir">>, 3)>>

-----------------------------------------------------------------------------
(* Timelines: an agent with a join time and up to two holds and resumes in *)
(* any order; two participants known by up to two events and a hold that   *)
(* is reported after its resume; a platform reports a negative duration.   *)

Event(by, type, time) == [by |-> by, type |-> type, time |-> time]
UpToTwo(events) == UNION {[1..n -> events] : n \in 0..2}
HoldEvents == UpToTwo({Event("a", type, time) : type \in {"hold", "resume"}, time \in 1..3})
LegEvents == UpToTwo({Event("a", "ringing", 0), Event("a", "connected", 1),
                      Event(Null, "connected", 2), Event("a", "disconnected", 1),
                      Event(Null, "disconnected", 4), Event(Null, "queue_entry", 1),
                      Event(Null, "queue_exit", 0)})
Participant(id, role, join, leave) == [id |-> id, role |-> role, join |-> join, leave |-> leave]
CallRecord(end, wrapUp, people, events) ==
    [start |-> 0, end |-> end, updated |-> IF end = Null THEN 2 ELSE Null,
     inSource |-> wrapUp, wrapUp |-> wrapUp, participants |-> people, events |-> events]
MCRecords ==
    {CallRecord(end, 1, <<Participant("a", "agent", 1, leave)>>, events) :
        end \in {4, Null}, leave \in {Null, 3}, events \in HoldEvents}
    \cup {CallRecord(4, wrapUp, <<Participant("a", role, Null, Null),
                                  Participant("q", "queue", Null, Null)>>,
                     leg \o <<Event("a", "resume", 3), Event("a", "hold", 2)>>) :
            wrapUp \in {Null, 1, -1}, role \in {"caller", "agent"}, leg \in LegEvents}

-----------------------------------------------------------------------------
(* The menu: an admin and a viewer of one group, whose name the form does  *)
(* not keep as it is.                                                      *)

MCReadsAs == [g \in {"g", " g"} |-> {"g"}]

MCViewer(scope) == [role |-> "viewer", scope |-> scope, mfa |-> TRUE]
MCFirstPeople ==
    [u \in {"me", "u", "v"} |->
        CASE u = "me" -> [role |-> "admin", scope |-> Null, mfa |-> FALSE]
          [] u = "u" -> MCViewer({" g"})
          [] OTHER -> [role |-> "none", scope |-> Null, mfa |-> FALSE]]
MCOtherRows == {<<"u", MCViewer({})>>}
=============================================================================
