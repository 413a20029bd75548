----------------------------- MODULE Dashboard -----------------------------
(***************************************************************************)
(* The dashboard's main view (App of App.tsx): loads are started by an     *)
(* effect whenever the query or the user changes, by handlers that call    *)
(* load() of the render they belong to, and by a timer; they are neither   *)
(* cancelled nor numbered, and what answers last is on screen.             *)
(*                                                                         *)
(* A handler and the effects of the render it causes are one step.  The    *)
(* fourteen requests of a load are answered as one (Promise.all).          *)
(***************************************************************************)
EXTENDS Integers, Sequences

CONSTANTS
    Filters,   \* windows and filters; the page size counts as one of them
    LastDay,   \* what the dashboard opens with
    Cleared,   \* Cleared[f]: f without what "Clear" resets
    Pages,     \* Pages[f]: totalPages of the answer
    MaxLogins, MaxLoads  \* bounds of the model: sessions, loads under way

DashboardAssumption ==
    /\ LastDay \in Filters /\ Cleared \in [Filters -> Filters] /\ Pages \in [Filters -> Nat]
    /\ MaxLogins \in Nat /\ MaxLoads \in Nat

VARIABLES
    session,   \* authUser: the login it came from, or None
    ended,     \* sessions the server has forgotten
    logins,
    asked,     \* the state the filters and the pager show
    loads,     \* loads under way, the one started first first
    loading,
    shown,     \* records: the query they answer, or Nothing
    error,
    auto,      \* autoRefresh
    newest     \* history: the load started last is pending, ended last, or
               \* was followed by an earlier one

vars == <<session, ended, logins, asked, loads, loading, shown, error, auto, newest>>

None == 0
Sessions == 1..MaxLogins
Queries == [filter : Filters, page : Nat \ {0}]
Loads == [session : Sessions, query : Queries]
Nothing == [session |-> None]
LoggedIn == session # None

Init ==
    /\ session = None /\ ended = {} /\ logins = 0
    /\ asked = [filter |-> LastDay, page |-> 1]
    /\ loads = <<>> /\ loading = FALSE
    /\ shown = Nothing /\ error = FALSE /\ auto = FALSE /\ newest = "last"

\* load(), once for each query.
Start(s, queries) ==
    /\ Len(loads) + Len(queries) <= MaxLoads
    /\ loads' = loads \o [i \in 1..Len(queries) |-> [session |-> s, query |-> queries[i]]]
    /\ IF queries = <<>> THEN UNCHANGED <<loading, error, newest>>
       ELSE loading' = TRUE /\ error' = FALSE /\ newest' = "pending"

\* Fault: load does not depend on the page.
EffectLoads_NotPage(new) == IF new.filter = asked.filter THEN <<>> ELSE <<new>>

\* The effect on [authUser, load]: load is a new function if a dependency
\* changed.
EffectLoads(new) == IF new = asked THEN <<>> ELSE <<new>>

Ask(new) ==
    /\ LoggedIn
    /\ asked' = new
    /\ Start(session, EffectLoads(new))
    /\ UNCHANGED <<session, ended, logins, shown, auto>>

-----------------------------------------------------------------------------
\* The date inputs and filter fields; the page stays.
EditFilter(f) == Ask([asked EXCEPT !.filter = f])

\* Presets, page size, and the drill-downs from the insights.
Narrow(f) == Ask([filter |-> f, page |-> 1])

\* The pager's buttons go by the last answer, and "next" by its number of pages,
\* but both start from the page that is asked for.
Total == Pages[shown.query.filter]
Prev == IF asked.page > 1 THEN asked.page - 1 ELSE 1
NextPage == IF asked.page < Total THEN asked.page + 1 ELSE Total

TurnPage(p) ==
    /\ shown # Nothing /\ Total > 0
    /\ \/ shown.query.page > 1 /\ p = Prev
       \/ shown.query.page < Total /\ p = NextPage
    /\ Ask([asked EXCEPT !.page = p])

\* setPage(1); load(): that load is still the one of the old page.
Reload(new) ==
    /\ LoggedIn
    /\ asked' = new
    /\ Start(session, <<asked>> \o EffectLoads(new))
    /\ UNCHANGED <<session, ended, logins, shown, auto>>

ApplyFilters == Reload([asked EXCEPT !.page = 1])
ClearFilters == Reload([filter |-> Cleared[asked.filter], page |-> 1])

\* A record was pasted in.
IngestDone == Reload(asked)

ToggleAuto ==
    /\ LoggedIn
    /\ auto' = ~auto
    /\ UNCHANGED <<session, ended, logins, asked, loads, loading, shown, error, newest>>

\* The timer: skipped while loading; a preset's window moves on, a custom one
\* is fetched as it is.
AutoRefresh(f) ==
    /\ auto /\ ~loading
    /\ Narrow(f) \/ (f = asked.filter /\ Reload(asked))

-----------------------------------------------------------------------------
\* me() on mount or LoginScreen: the filters are those of whoever was here.
LogIn ==
    /\ ~LoggedIn /\ logins < MaxLogins
    /\ logins' = logins + 1 /\ session' = logins + 1
    /\ Start(session', <<asked>>)
    /\ UNCHANGED <<ended, asked, shown, auto>>

\* onAuthUserChange: MFA was switched on or off.
UserChanged ==
    /\ LoggedIn
    /\ Start(session, <<asked>>)
    /\ UNCHANGED <<session, ended, logins, asked, shown, auto>>

\* The records stay in memory, and loads under way go on.
LogOut ==
    /\ LoggedIn
    /\ ended' = ended \cup {session}
    /\ session' = None
    /\ UNCHANGED <<logins, asked, loads, loading, shown, error, auto, newest>>

Expire ==
    /\ LoggedIn /\ ended' = ended \cup {session}
    /\ UNCHANGED <<session, logins, asked, loads, loading, shown, error, auto, newest>>

Ends(i) ==
    /\ loads' = SubSeq(loads, 1, i - 1) \o SubSeq(loads, i + 1, Len(loads))
    /\ newest' = IF newest = "pending" /\ i < Len(loads) THEN "pending"
                 ELSE IF newest = "pending" THEN "last" ELSE "overtaken"
    /\ loading' = FALSE

Succeeds(i) ==
    /\ Ends(i)
    /\ shown' = loads[i]
    /\ UNCHANGED <<session, ended, logins, asked, error, auto>>

\* An error, or a 401, which logs out whoever is logged in by now.
Fails(i) ==
    /\ Ends(i)
    /\ shown' = Nothing /\ error' = TRUE
    /\ session' \in IF loads[i].session \in ended THEN {session, None} ELSE {session}
    /\ UNCHANGED <<ended, logins, asked, auto>>

Next ==
    \/ \E f \in Filters : EditFilter(f) \/ Narrow(f) \/ AutoRefresh(f)
    \/ \E f \in Filters : \E p \in 1..Pages[f] : TurnPage(p)
    \/ ApplyFilters \/ ClearFilters \/ IngestDone \/ ToggleAuto
    \/ LogIn \/ UserChanged \/ LogOut \/ Expire
    \/ \E i \in DOMAIN loads : Succeeds(i) \/ Fails(i)

Spec == Init /\ [][Next]_vars

-----------------------------------------------------------------------------
(* Properties.                                                             *)

TypeOK ==
    /\ session \in Sessions \cup {None} /\ ended \subseteq Sessions
    /\ logins \in 0..MaxLogins
    /\ asked \in Queries
    /\ loads \in Seq(Loads) /\ Len(loads) <= MaxLoads
    /\ shown \in Loads \cup {Nothing}
    /\ newest \in {"pending", "last", "overtaken"}
    /\ loading \in BOOLEAN /\ error \in BOOLEAN /\ auto \in BOOLEAN

\* When nothing is under way, the table answers what the filters, the pager and
\* the account on screen say, or an error is shown - whatever was typed, turned,
\* refreshed and logged out while requests were pending - unless a load was
\* overtaken by a later one.  And the timer is never left waiting for a load.
SettledShowsAsked ==
    /\ loads = <<>> => ~loading
    /\ LoggedIn /\ loads = <<>> /\ newest = "last" =>
         shown = [session |-> session, query |-> asked] \/ (shown = Nothing /\ error)
=============================================================================
