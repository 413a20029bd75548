---------------------------- MODULE SystemProofs ----------------------------
(***************************************************************************)
(* Proofs about the dashboard's list, drawer, columns and timeline, for    *)
(* every value of the constants that SystemAssumption allows, and about    *)
(* all parts together: what is shown of each here and in PlatformProofs    *)
(* holds in every behaviour of PlatformSpec.                               *)
(***************************************************************************)
EXTENDS System, PlatformProofs, NaturalsInduction

-----------------------------------------------------------------------------
(* The drawer.                                                             *)

\* Every record on the trail links to the next one and the last one to the open
\* record; a drill leads along a link, and unless "Back" was used meanwhile it
\* set out from a record that the trail leads to.
DrawerInv ==
    /\ D!TypeOK
    /\ selected = D!None => stack = <<>>
    /\ ~strayed =>
        \A i \in 1..Len(stack) :
            (IF i = Len(stack) THEN selected ELSE stack[i + 1]) \in Legs[stack[i]]
    /\ D!drillLoading =>
        /\ drill.to \in Legs[drill.from]
        /\ ~strayed /\ Len(stack) > 0 => drill.from \in Legs[stack[Len(stack)]]

\* Each step of the drawer keeps DrawerInv.
LEMMA DrawerKept == D!TrailAssumption /\ DrawerInv /\ [D!Next]_drawerVars => DrawerInv'
<1> SUFFICES ASSUME D!TrailAssumption, DrawerInv, [D!Next]_drawerVars PROVE DrawerInv'
  OBVIOUS
<1> USE DEF D!TrailAssumption, DrawerInv, D!TypeOK, D!drillLoading, D!NoDrill
<1>1. CASE UNCHANGED drawerVars
  BY <1>1 DEF drawerVars
<1>2. ASSUME stack' = <<>>, strayed' \in BOOLEAN, selected' \in Calls \cup {D!None},
             lookups' \subseteq Calls, drill' = drill
      PROVE DrawerInv'
  <2>1. stack' \in Seq(Calls) /\ Len(stack') = 0
    BY <1>2
  <2>2. QED
    BY <1>2, <2>1
<1>3. ASSUME NEW c \in Calls, D!SelectRecord(c) PROVE DrawerInv'
  BY <1>2, <1>3 DEF D!SelectRecord, D!Show
<1>4. ASSUME NEW c \in Calls, D!Lookup(c) PROVE DrawerInv'
  BY <1>4 DEF D!Lookup
<1>5. ASSUME NEW c \in Calls, D!LookupAnswers(c) PROVE DrawerInv'
  <2>1. CASE D!Show(c)
    BY <1>2, <1>5, <2>1 DEF D!LookupAnswers, D!Show
  <2>2. CASE UNCHANGED <<selected, stack, strayed>>
    BY <1>5, <2>2 DEF D!LookupAnswers
  <2>3. QED
    BY <1>5, <2>1, <2>2 DEF D!LookupAnswers
<1>6. ASSUME NEW c \in Calls, D!DrillToCall(c) PROVE DrawerInv'
  BY <1>6 DEF D!DrillToCall
<1>7. CASE D!CloseDrawer
  BY <1>2, <1>7 DEF D!CloseDrawer, D!Show
<1>8. CASE D!DrillAnswers
  BY <1>8 DEF D!DrillAnswers
<1>9. CASE D!DrillFails
  BY <1>9 DEF D!DrillFails
<1>10. CASE D!DrillBack
  <2>1. /\ stack' = SubSeq(stack, 1, Len(stack) - 1) /\ selected' = stack[Len(stack)]
        /\ stack # <<>> /\ UNCHANGED <<drill, lookups>>
        /\ strayed' = (strayed \/ D!drillLoading)
    BY <1>10 DEF D!DrillBack
  <2>2. /\ stack' \in Seq(Calls) /\ Len(stack') = Len(stack) - 1 /\ selected' \in Calls
        /\ \A i \in 1..Len(stack') : stack'[i] = stack[i]
        /\ Len(stack) \in Nat \ {0}
    BY <2>1, Shorter
  <2>3. D!TypeOK' /\ (selected = D!None => stack = <<>>)'
    BY <2>1, <2>2
  <2>4. ASSUME ~strayed', NEW i \in 1..Len(stack')
        PROVE  (IF i = Len(stack') THEN selected' ELSE stack'[i + 1]) \in Legs[stack'[i]]
    <3>1. i \in 1..Len(stack) /\ i + 1 \in 1..Len(stack) /\ ~strayed
      BY <2>1, <2>2, <2>4
    <3>2. stack[i + 1] \in Legs[stack[i]]
      BY <2>2, <3>1
    <3>3. CASE i = Len(stack')
      <4>1. i + 1 = Len(stack) /\ stack'[i] = stack[i]
        BY <2>2, <3>3
      <4>2. QED
        BY <2>1, <3>2, <3>3, <4>1
    <3>4. CASE i # Len(stack')
      BY <2>2, <3>1, <3>2, <3>4
    <3>5. QED
      BY <3>3, <3>4
  <2>5. D!drillLoading' => drill'.to \in Legs[drill'.from] /\ strayed'
    BY <2>1
  <2>6. QED
    BY <2>3, <2>4, <2>5
<1>11. QED
  BY <1>1, <1>3, <1>4, <1>5, <1>6, <1>7, <1>8, <1>9, <1>10 DEF D!Next

\* DrawerInv holds to begin with and says what is claimed.
LEMMA DrawerInitially == D!TrailAssumption /\ D!Init => DrawerInv
<1> SUFFICES ASSUME D!TrailAssumption, D!Init PROVE DrawerInv
  OBVIOUS
<1>1. stack \in Seq(Calls) /\ Len(stack) = 0
  BY EmptySeq DEF D!Init
<1>2. /\ selected = D!None /\ drill = D!NoDrill /\ lookups = {} /\ strayed = FALSE
      /\ MaxTrail \in Nat
  BY DEF D!Init, D!TrailAssumption
<1>3. D!TypeOK
  <2>1. stack \in Seq(Calls) /\ Len(stack) <= MaxTrail
    BY <1>1, <1>2
  <2>2. strayed \in BOOLEAN /\ lookups \subseteq Calls
    BY <1>2
  <2>3. QED
    BY <1>2, <2>1, <2>2 DEF D!TypeOK
<1>4. stack = <<>> /\ ~D!drillLoading
  BY <1>2 DEF D!Init, D!drillLoading
<1>5. QED
  BY <1>1, <1>2, <1>3, <1>4 DEF DrawerInv

\* Every record on the trail links to the one "Back" leads to it from.
LEMMA DrawerTrail == DrawerInv => D!TrailIsTheWay
<1> SUFFICES ASSUME DrawerInv PROVE D!TrailIsTheWay
  OBVIOUS
<1>1. stack \in Seq(Calls) /\ selected \in Calls \cup {D!None}
  BY DEF DrawerInv, D!TypeOK
<1>2. /\ DOMAIN stack = 1..Len(stack)
      /\ \A i \in 1..Len(stack) :
           /\ Append(stack, selected)[i] = stack[i]
           /\ Append(stack, selected)[i + 1] = IF i = Len(stack) THEN selected ELSE stack[i + 1]
  BY <1>1
<1>3. QED
  BY <1>1, <1>2 DEF DrawerInv, D!TrailIsTheWay, D!None

-----------------------------------------------------------------------------
(* The list.                                                               *)

ShowsAsked ==
    table = [session |-> session, query |-> asked] \/ (table = L!Nothing /\ error)

\* The load begun last asks what the screen says, on behalf of whom it says; once
\* it has ended, and until another one does, so does the table.
ListInv ==
    /\ L!TypeOK
    /\ loads = <<>> => ~loading
    /\ newest = "pending" =>
        /\ loads # <<>>
        /\ L!LoggedIn => loads[Len(loads)] = [session |-> session, query |-> asked]
    /\ newest = "last" /\ L!LoggedIn => ShowsAsked

\* What load() leaves, called once or more.
LEMMA LoadsStarted ==
    ASSUME NEW s \in L!Sessions, NEW queries \in Seq(L!Queries), queries # <<>>,
           loads \in Seq(L!Loads), L!Start(s, queries)
    PROVE  /\ loads' \in Seq(L!Loads) /\ Len(loads') <= MaxLoads /\ loads' # <<>>
           /\ loads'[Len(loads')] = [session |-> s, query |-> queries[Len(queries)]]
           /\ loading' = TRUE /\ error' = FALSE /\ newest' = "pending"
<1> DEFINE started == [i \in 1..Len(queries) |-> [session |-> s, query |-> queries[i]]]
<1>1. Len(queries) \in Nat \ {0} /\ \A i \in 1..Len(queries) : queries[i] \in L!Queries
  BY EmptySeq, ElementOfSeq
<1>2. \A i \in 1..Len(queries) : [session |-> s, query |-> queries[i]] \in L!Loads
  BY <1>1 DEF L!Loads
<1>3. /\ started \in Seq(L!Loads) /\ Len(started) = Len(queries)
      /\ started[Len(queries)] = [session |-> s, query |-> queries[Len(queries)]]
  BY <1>1, <1>2
<1>4. /\ loads' = loads \o started /\ Len(loads) + Len(queries) <= MaxLoads
      /\ loading' = TRUE /\ error' = FALSE /\ newest' = "pending"
  BY DEF L!Start
<1> HIDE DEF started
<1>5. Len(loads) \in Nat
  BY LenProperties
<1>6. /\ loads \o started \in Seq(L!Loads) /\ Len(loads \o started) = Len(loads) + Len(queries)
      /\ (loads \o started)[Len(loads) + Len(queries)] = started[Len(queries)]
  <2>1. /\ loads \o started \in Seq(L!Loads) /\ Len(loads \o started) = Len(loads) + Len(started)
        /\ \A i \in 1..Len(loads) + Len(started) : (loads \o started)[i] =
              IF i <= Len(loads) THEN loads[i] ELSE started[i - Len(loads)]
    <3>1. loads \in Seq(L!Loads) /\ started \in Seq(L!Loads)
      BY <1>3
    <3>2. QED
      BY ONLY <3>1, ConcatProperties
  <2>2. PICK n \in Nat : n = Len(loads) + Len(queries)
    BY <1>1, <1>5
  <2>3. n \in 1..Len(loads) + Len(started) /\ ~(n <= Len(loads)) /\ n - Len(loads) = Len(queries)
    BY <1>1, <1>3, <1>5, <2>2
  <2>4. QED
    BY <1>3, <2>1, <2>2, <2>3
<1>7. loads \o started # <<>>
  BY <1>1, <1>5, <1>6, EmptySeq
<1>8. QED
  BY <1>3, <1>4, <1>6, <1>7

\* A step after which the screen asks what the last load it started asks.
LEMMA AskKept ==
    ASSUME ListInv, NEW queries \in Seq(L!Queries), L!Start(session', queries),
           session' \in L!Sessions, asked' \in L!Queries, logins' \in 0..MaxLogins,
           ended' \subseteq L!Sessions, auto' \in BOOLEAN, table' = table,
           queries = <<>> => asked' = asked /\ session' = session,
           queries # <<>> => queries[Len(queries)] = asked'
    PROVE  ListInv'
<1>1. CASE queries = <<>>
  <2>1. /\ loads' = loads /\ loading' = loading /\ error' = error /\ newest' = newest
        /\ asked' = asked /\ session' = session
    <3>1. [i \in 1..Len(queries) |-> [session |-> session', query |-> queries[i]]] = <<>>
      BY <1>1
    <3>2. loads \in Seq(L!Loads)
      BY DEF ListInv, L!TypeOK
    <3>3. loads' = loads \o <<>> /\ UNCHANGED <<loading, error, newest>>
      BY <1>1, <3>1 DEF L!Start
    <3>4. QED
      BY <1>1, <3>2, <3>3, ConcatEmptySeq
  <2>2. QED
    BY <2>1 DEF ListInv, L!TypeOK, ShowsAsked, L!LoggedIn
<1>2. CASE queries # <<>>
  <2>1. /\ loads' \in Seq(L!Loads) /\ Len(loads') <= MaxLoads /\ loads' # <<>>
        /\ loads'[Len(loads')] = [session |-> session', query |-> asked']
        /\ loading' = TRUE /\ error' = FALSE /\ newest' = "pending"
    <3>1. loads \in Seq(L!Loads)
      BY DEF ListInv, L!TypeOK
    <3>2. QED
      BY <1>2, <3>1, LoadsStarted
  <2>2. L!TypeOK'
    BY <2>1 DEF ListInv, L!TypeOK
  <2>3. QED
    BY <2>1, <2>2 DEF ListInv
<1>3. QED
  BY <1>1, <1>2

\* The screen asks again, or for something new.
LEMMA Asked ==
    ASSUME ListInv, NEW new \in L!Queries
    PROVE  L!Ask(new) \/ L!Reload(new) => ListInv'
<1> USE DEF ListInv, L!TypeOK, L!LoggedIn
<1>1. /\ <<>> \in Seq(L!Queries) /\ <<new>> \in Seq(L!Queries) /\ <<asked>> \in Seq(L!Queries)
      /\ <<asked>> \o <<>> \in Seq(L!Queries) /\ <<asked>> \o <<new>> \in Seq(L!Queries)
  BY ConcatProperties
<1>2. ASSUME L!Ask(new) PROVE ListInv'
  <2>1. /\ asked' = new /\ L!Start(session, L!EffectLoads(new)) /\ session \in L!Sessions
        /\ UNCHANGED <<session, ended, logins, table, auto>>
    BY <1>2 DEF L!Ask
  <2>2. CASE new = asked
    <3>1. L!Start(session', <<>>) /\ asked' = asked
      BY <2>1, <2>2 DEF L!EffectLoads
    <3>2. QED
      BY <1>1, <2>1, <3>1, AskKept
  <2>3. CASE new # asked
    <3>1. L!Start(session', <<new>>) /\ <<new>>[Len(<<new>>)] = asked'
      BY <2>1, <2>3 DEF L!EffectLoads
    <3>2. QED
      BY <1>1, <2>1, <3>1, AskKept
  <2>4. QED
    BY <2>2, <2>3
<1>3. ASSUME L!Reload(new) PROVE ListInv'
  <2>1. /\ asked' = new /\ L!Start(session, <<asked>> \o L!EffectLoads(new))
        /\ session \in L!Sessions /\ UNCHANGED <<session, ended, logins, table, auto>>
    BY <1>3 DEF L!Reload
  <2>2. CASE new = asked
    <3>1. L!Start(session', <<asked>>) /\ <<asked>>[Len(<<asked>>)] = asked'
      BY <2>1, <2>2 DEF L!EffectLoads
    <3>2. QED
      BY <1>1, <2>1, <3>1, AskKept
  <2>3. CASE new # asked
    <3> DEFINE both == <<asked>> \o <<new>>
    <3>1. <<asked>> \in Seq(L!Queries) /\ <<new>> \in Seq(L!Queries)
          /\ Len(<<asked>>) = 1 /\ Len(<<new>>) = 1 /\ <<new>>[1] = new
      OBVIOUS
    <3>2. both \in Seq(L!Queries) /\ Len(both) = 2 /\ both[2] = new
      BY <3>1, ConcatProperties
    <3>3. L!Start(session', both) /\ both # <<>> /\ both[Len(both)] = asked'
      BY <2>1, <2>3, <3>2, EmptySeq DEF L!EffectLoads
    <3> HIDE DEF both
    <3>4. QED
      BY <2>1, <3>2, <3>3, AskKept
  <2>4. QED
    BY <2>2, <2>3
<1>4. QED
  BY <1>2, <1>3

\* A load ends, with records or without.
LEMMA LoadEnds ==
    ASSUME ListInv, NEW i \in DOMAIN loads, L!Succeeds(i) \/ L!Fails(i)
    PROVE  ListInv'
<1>1. /\ loads \in Seq(L!Loads) /\ i \in 1..Len(loads) /\ Len(loads) <= MaxLoads
      /\ loads[i] \in L!Loads /\ session \in L!Sessions \cup {L!None}
      /\ newest \in {"pending", "last", "overtaken"}
  BY ElementOfSeq DEF ListInv, L!TypeOK
<1>2. /\ loads' = Without(loads, i) /\ loading' = FALSE
      /\ newest' = IF newest = "pending" /\ i < Len(loads) THEN "pending"
                   ELSE IF newest = "pending" THEN "last" ELSE "overtaken"
      /\ asked' = asked /\ logins' = logins /\ ended' = ended /\ auto' = auto
  BY DEF L!Succeeds, L!Fails, L!Ends, Without
<1>3. /\ Len(loads) \in Nat \ {0} /\ loads' \in Seq(L!Loads) /\ Len(loads') = Len(loads) - 1
      /\ \A j \in 1..Len(loads) - 1 : loads'[j] = IF j < i THEN loads[j] ELSE loads[j + 1]
  BY <1>1, <1>2, Removed
<1>4. /\ session' \in {session, L!None} /\ error' \in BOOLEAN
      /\ \/ table' = loads[i] /\ session' = session
         \/ table' = L!Nothing /\ error' = TRUE
  BY DEF L!Succeeds, L!Fails, ListInv, L!TypeOK
<1>5. L!TypeOK'
  <2>1. Len(loads') <= MaxLoads
    BY <1>1, <1>3, SystemAssumption DEF L!DashboardAssumption
  <2>2. newest' \in {"pending", "last", "overtaken"}
    BY <1>2
  <2>3. QED
    BY <1>1, <1>2, <1>3, <1>4, <2>1, <2>2 DEF ListInv, L!TypeOK
<1>6. ASSUME newest' = "pending"
      PROVE  loads' # <<>> /\ (L!LoggedIn' => loads'[Len(loads')] =
                                                [session |-> session', query |-> asked'])
  <2>1. newest = "pending" /\ i < Len(loads)
    BY <1>2, <1>6
  <2>2. Len(loads') \in Nat \ {0} /\ Len(loads') \in 1..Len(loads) - 1 /\ ~(Len(loads') < i)
        /\ Len(loads') + 1 = Len(loads)
    BY <1>1, <1>3, <2>1
  <2>3. loads'[Len(loads')] = loads[Len(loads)] /\ loads' # <<>>
    BY <1>3, <2>2, EmptySeq
  <2>4. QED
    BY <1>2, <1>4, <2>1, <2>3 DEF ListInv, L!LoggedIn
<1>7. ASSUME newest' = "last", L!LoggedIn' PROVE ShowsAsked'
  <2>1. newest = "pending" /\ i = Len(loads) /\ L!LoggedIn /\ session' = session
    BY <1>1, <1>2, <1>3, <1>4, <1>7 DEF L!LoggedIn
  <2>2. loads[i] = [session |-> session, query |-> asked]
    BY <2>1 DEF ListInv
  <2>3. QED
    BY <1>2, <1>4, <2>1, <2>2 DEF ShowsAsked
<1>8. QED
  BY <1>2, <1>5, <1>6, <1>7 DEF ListInv

\* Each step of the list keeps ListInv.
LEMMA ListKept == ListInv /\ [L!Next]_listVars => ListInv'
<1> SUFFICES ASSUME ListInv, [L!Next]_listVars PROVE ListInv'
  OBVIOUS
<1>1. /\ asked \in L!Queries /\ asked.filter \in Filters /\ asked.page \in Nat \ {0}
      /\ session \in L!Sessions \cup {L!None} /\ logins \in 0..MaxLogins
      /\ ended \subseteq L!Sessions /\ MaxLogins \in Nat /\ Cleared \in [Filters -> Filters]
      /\ auto \in BOOLEAN
  BY SystemAssumption DEF ListInv, L!TypeOK, L!Queries, L!DashboardAssumption
<1>2. ASSUME NEW f \in Filters, L!EditFilter(f) PROVE ListInv'
  <2>1. [asked EXCEPT !.filter = f] \in L!Queries
    BY <1>1 DEF L!Queries
  <2>2. QED
    BY <1>2, <2>1, Asked DEF L!EditFilter
<1>3. ASSUME NEW f \in Filters, L!Narrow(f) PROVE ListInv'
  <2>1. [filter |-> f, page |-> 1] \in L!Queries
    BY DEF L!Queries
  <2>2. QED
    BY <1>3, <2>1, Asked DEF L!Narrow
<1>4. ASSUME NEW f \in Filters, L!AutoRefresh(f) PROVE ListInv'
  BY <1>1, <1>3, <1>4, Asked DEF L!AutoRefresh
<1>5. ASSUME NEW p, L!TurnPage(p) PROVE ListInv'
  <2>1. p \in Nat \ {0}
    <3>1. table \in L!Loads
      BY <1>5 DEF L!TurnPage, ListInv, L!TypeOK
    <3>2. L!Total \in Nat \ {0}
      BY <1>5, <3>1, SystemAssumption
      DEF L!TurnPage, L!Total, L!Loads, L!Queries, L!DashboardAssumption
    <3>3. L!Prev \in Nat \ {0} /\ L!NextPage \in Nat \ {0}
      BY <1>1, <3>2 DEF L!Prev, L!NextPage
    <3>4. QED
      BY <1>5, <3>3 DEF L!TurnPage
  <2>2. [asked EXCEPT !.page = p] \in L!Queries
    BY <1>1, <2>1 DEF L!Queries
  <2>3. QED
    BY <1>5, <2>2, Asked DEF L!TurnPage
<1>6. CASE L!ApplyFilters
  <2>1. [asked EXCEPT !.page = 1] \in L!Queries
    BY <1>1 DEF L!Queries
  <2>2. QED
    BY <1>6, <2>1, Asked DEF L!ApplyFilters
<1>7. CASE L!ClearFilters
  <2>1. [filter |-> Cleared[asked.filter], page |-> 1] \in L!Queries
    BY <1>1 DEF L!Queries
  <2>2. QED
    BY <1>7, <2>1, Asked DEF L!ClearFilters
<1>8. CASE L!IngestDone
  BY <1>1, <1>8, Asked DEF L!IngestDone
<1>9. <<asked>> \in Seq(L!Queries) /\ <<asked>> # <<>> /\ <<asked>>[Len(<<asked>>)] = asked
  BY <1>1
<1>10. CASE L!LogIn
  <2>1. logins + 1 \in L!Sessions /\ logins + 1 \in 0..MaxLogins
    BY <1>1, <1>10 DEF L!LogIn, L!Sessions
  <2>2. /\ session' = logins + 1 /\ logins' = logins + 1 /\ L!Start(session', <<asked>>)
        /\ UNCHANGED <<ended, asked, table, auto>>
    BY <1>10 DEF L!LogIn
  <2>3. QED
    BY <1>1, <1>9, <2>1, <2>2, AskKept
<1>11. CASE L!UserChanged
  <2>1. /\ session \in L!Sessions /\ L!Start(session', <<asked>>)
        /\ UNCHANGED <<session, logins, ended, asked, table, auto>>
    BY <1>1, <1>11 DEF L!UserChanged, L!LoggedIn
  <2>2. QED
    BY <1>1, <1>9, <2>1, AskKept
<1>12. CASE L!LogOut
  BY <1>1, <1>12 DEF L!LogOut, ListInv, L!TypeOK, L!LoggedIn
<1>13. CASE L!Expire
  BY <1>1, <1>13 DEF L!Expire, ListInv, L!TypeOK, L!LoggedIn, ShowsAsked
<1>14. CASE L!ToggleAuto
  BY <1>14 DEF L!ToggleAuto, ListInv, L!TypeOK, L!LoggedIn, ShowsAsked
<1>15. CASE UNCHANGED listVars
  BY <1>15 DEF listVars, ListInv, L!TypeOK, L!LoggedIn, ShowsAsked
<1>16. QED
  BY <1>2, <1>3, <1>4, <1>5, <1>6, <1>7, <1>8, <1>10, <1>11, <1>12, <1>13, <1>14, <1>15, LoadEnds
  DEF L!Next

\* Nothing is under way, nothing shown, when the dashboard opens.
LEMMA ListInitially == L!Init => ListInv
<1> SUFFICES ASSUME L!Init PROVE ListInv
  OBVIOUS
<1>1. /\ LastDay \in Filters /\ MaxLogins \in Nat /\ MaxLoads \in Nat
  BY SystemAssumption DEF L!DashboardAssumption
<1>2. loads \in Seq(L!Loads) /\ Len(loads) = 0
  BY EmptySeq DEF L!Init
<1>3. asked \in L!Queries
  BY <1>1 DEF L!Init, L!Queries
<1>4. Len(loads) <= MaxLoads /\ logins \in 0..MaxLogins
  BY <1>1, <1>2 DEF L!Init
<1>5. QED
  BY <1>2, <1>3, <1>4 DEF L!Init, ListInv, L!TypeOK, L!LoggedIn

\* What was promised of a settled list.
LEMMA ListSettles == ListInv => L!TypeOK /\ L!SettledShowsAsked
BY DEF ListInv, L!SettledShowsAsked, ShowsAsked

-----------------------------------------------------------------------------
(* The columns.                                                            *)

\* The fold of Kept, for every set of positions of s.
KeptUpTo(g, s, ids) ==
    [t \in SUBSET DOMAIN s |->
        IF t = {} THEN <<>>
        ELSE IF s[C!Max(t)] \in ids THEN Append(g[t \ {C!Max(t)}], s[C!Max(t)])
             ELSE g[t \ {C!Max(t)}]]

\* The largest of a set of positions.
LEMMA LastPosition ==
    ASSUME NEW n \in Nat, NEW t \in SUBSET (1..n), n \in t PROVE C!Max(t) = n
<1>1. \A y \in t : y \in Nat /\ y <= n
  OBVIOUS
<1>2. n \in t /\ \A y \in t : n >= y
  BY <1>1
<1>3. \A x \in t : (\A y \in t : x >= y) => x = n
  BY <1>1
<1>4. QED
  BY <1>2, <1>3 DEF C!Max

\* There is such a fold.
LEMMA KeptExists ==
    ASSUME NEW X, NEW s \in Seq(X), NEW ids
    PROVE  \E g : g = KeptUpTo(g, s, ids)
<1> DEFINE Fold(g, n) ==
             g = [t \in SUBSET (1..n) |->
                    IF t = {} THEN <<>>
                    ELSE IF s[C!Max(t)] \in ids THEN Append(g[t \ {C!Max(t)}], s[C!Max(t)])
                         ELSE g[t \ {C!Max(t)}]]
           Not == {n \in Nat : ~\E g : Fold(g, n)}
<1>1. Not = {}
  <2> SUFFICES ASSUME Not # {} PROVE FALSE
    OBVIOUS
  <2>1. PICK n \in Not : \A k \in Not : n <= k
    BY Least
  <2>2. CASE n = 0
    <3> DEFINE g == [t \in SUBSET (1..0) |-> <<>>]
    <3>1. \A t \in SUBSET (1..0) : t = {}
      OBVIOUS
    <3>2. Fold(g, 0)
      BY <3>1
    <3>3. QED
      BY <2>1, <2>2, <3>2
  <2>3. CASE n # 0
    <3>0. n \in Nat
      BY <2>1
    <3>1. n \in Nat /\ n - 1 \in Nat /\ ~(n <= n - 1)
      BY <3>0, <2>3
    <3>a. n - 1 \notin Not
      <4> HIDE DEF Not
      <4>1. QED
        BY <2>1, <3>1
    <3>2. PICK f : Fold(f, n - 1)
      <4> HIDE DEF Fold
      <4>1. QED
        BY <3>1, <3>a
    <3> DEFINE g == [t \in SUBSET (1..n) |->
                       IF n \in t
                       THEN IF s[n] \in ids THEN Append(f[t \ {n}], s[n]) ELSE f[t \ {n}]
                       ELSE f[t]]
    <3>3. \A t \in SUBSET (1..n - 1) : t \in SUBSET (1..n) /\ n \notin t /\ g[t] = f[t]
      BY <3>1
    <3>4. ASSUME NEW t \in SUBSET (1..n)
          PROVE  g[t] = IF t = {} THEN <<>>
                        ELSE IF s[C!Max(t)] \in ids THEN Append(g[t \ {C!Max(t)}], s[C!Max(t)])
                             ELSE g[t \ {C!Max(t)}]
      <4>1. CASE n \in t
        <5>1. C!Max(t) = n /\ t # {} /\ t \ {n} \in SUBSET (1..n - 1)
          BY <3>1, <4>1, LastPosition
        <5>2. g[t \ {n}] = f[t \ {n}]
          BY <3>3, <5>1
        <5>3. QED
          BY <4>1, <5>1, <5>2
      <4>2. CASE n \notin t
        <5>1. t \in SUBSET (1..n - 1)
          BY <3>1, <4>2
        <5> HIDE DEF g
        <5>2. f[t] = IF t = {} THEN <<>>
                     ELSE IF s[C!Max(t)] \in ids THEN Append(f[t \ {C!Max(t)}], s[C!Max(t)])
                          ELSE f[t \ {C!Max(t)}]
          BY <3>2, <5>1
        <5>3. t \ {C!Max(t)} \in SUBSET (1..n - 1)
          BY <5>1
        <5>4. g[t] = f[t] /\ g[t \ {C!Max(t)}] = f[t \ {C!Max(t)}]
          BY <3>3, <5>1, <5>3
        <5>5. QED
          BY <5>2, <5>4
      <4>3. QED
        BY <4>1, <4>2
    <3>5. g = [t \in SUBSET (1..n) |-> g[t]]
      OBVIOUS
    <3> HIDE DEF g
    <3>6. Fold(g, n)
      BY <3>4, <3>5
    <3>7. QED
      BY <2>1, <3>6
  <2>4. QED
    BY <2>2, <2>3
<1>2. Len(s) \in Nat /\ DOMAIN s = 1..Len(s)
  BY LenProperties
<1>3. PICK g : Fold(g, Len(s))
  BY <1>1, <1>2
<1>4. g = KeptUpTo(g, s, ids)
  BY <1>2, <1>3 DEF KeptUpTo
<1>5. QED
  BY <1>4

\* Kept is what the fold leaves of all positions.
LEMMA KeptIs ==
    ASSUME NEW X, NEW s \in Seq(X), NEW ids
    PROVE  \E g : g = KeptUpTo(g, s, ids) /\ C!Kept(s, ids) = g[DOMAIN s]
<1> DEFINE Is(g) == g = [t \in SUBSET DOMAIN s |->
                          IF t = {} THEN <<>>
                          ELSE IF s[C!Max(t)] \in ids THEN Append(g[t \ {C!Max(t)}], s[C!Max(t)])
                               ELSE g[t \ {C!Max(t)}]]
<1>0. \E g : g = KeptUpTo(g, s, ids)
  BY KeptExists
<1>1. \E g : Is(g)
  BY <1>0 DEF KeptUpTo
<1>2. Is(CHOOSE g : Is(g))
  BY <1>1
<1>3. C!Kept(s, ids) = (CHOOSE g : Is(g))[DOMAIN s]
  BY DEF C!Kept, C!FoldLeft, C!MapThenFoldSet
<1>4. QED
  BY <1>2, <1>3 DEF KeptUpTo

\* What q keeps of the first n elements of s: those among ids, once if they are
\* there once.
KeepsOf(q, X, s, n, ids) ==
    /\ q \in Seq(X \cap ids)
    /\ \A i \in 1..Len(q) : \E j \in 1..n : s[j] = q[i]
    /\ \A j \in 1..n : s[j] \in ids => \E i \in 1..Len(q) : q[i] = s[j]
    /\ C!IsInjective(s) => \A i, j \in 1..Len(q) : q[i] = q[j] => i = j

\* One more element of s.
LEMMA KeepsOneMore ==
    ASSUME NEW X, NEW s \in Seq(X), NEW ids, NEW n \in 1..Len(s), NEW q,
           KeepsOf(q, X, s, n - 1, ids)
    PROVE  KeepsOf(IF s[n] \in ids THEN Append(q, s[n]) ELSE q, X, s, n, ids)
<1> USE DEF KeepsOf
<1>1. n \in Nat \ {0} /\ n - 1 \in Nat /\ 1..n - 1 \subseteq 1..n /\ s[n] \in X
  BY ElementOfSeq
<1>2. \A j \in 1..n : j = n \/ j \in 1..n - 1
  BY <1>1
<1>3. CASE s[n] \notin ids
  <2>1. \A i \in 1..Len(q) : \E j \in 1..n : s[j] = q[i]
    BY <1>1
  <2>2. \A j \in 1..n : s[j] \in ids => \E i \in 1..Len(q) : q[i] = s[j]
    BY <1>2, <1>3
  <2>3. QED
    BY <1>3, <2>1, <2>2
<1>4. CASE s[n] \in ids
  <2> DEFINE more == Append(q, s[n])
  <2>1. /\ q \in Seq(X \cap ids) /\ Len(q) \in Nat /\ s[n] \in X \cap ids
    BY <1>1, <1>4, LenProperties
  <2>2. /\ more \in Seq(X \cap ids) /\ Len(more) = Len(q) + 1
        /\ \A i \in 1..Len(q) : more[i] = q[i]
        /\ more[Len(q) + 1] = s[n]
    BY <2>1, AppendProperties
  <2> HIDE DEF more
  <2>3. \A i \in 1..Len(more) : i = Len(q) + 1 \/ i \in 1..Len(q)
    BY <2>1, <2>2
  <2>4. 1..Len(q) \subseteq 1..Len(more) /\ Len(q) + 1 \in 1..Len(more) /\ n \in 1..n
    BY <1>1, <2>1, <2>2
  <2>5. \A i \in 1..Len(more) : \E j \in 1..n : s[j] = more[i]
    BY <1>1, <2>2, <2>3, <2>4
  <2>6. \A j \in 1..n : s[j] \in ids => \E i \in 1..Len(more) : more[i] = s[j]
    <3>1. ASSUME NEW j \in 1..n, s[j] \in ids
          PROVE  \E i \in 1..Len(more) : more[i] = s[j]
      <4>1. CASE j = n
        BY <2>2, <2>4, <4>1
      <4>2. CASE j \in 1..n - 1
        <5>1. PICK i \in 1..Len(q) : q[i] = s[j]
          BY <3>1, <4>2
        <5>2. QED
          BY <2>2, <2>4, <5>1
      <4>3. QED
        BY <1>2, <4>1, <4>2
    <3>2. QED
      BY <3>1
  <2>7. ASSUME C!IsInjective(s), NEW i \in 1..Len(more), NEW j \in 1..Len(more),
               more[i] = more[j]
        PROVE  i = j
    <3>1. \A k \in 1..Len(q) : q[k] # s[n]
      <4>1. ASSUME NEW k \in 1..Len(q), q[k] = s[n] PROVE FALSE
        <5>1. PICK m \in 1..n - 1 : s[m] = q[k]
          BY <4>1
        <5>2. m \in DOMAIN s /\ n \in DOMAIN s /\ m # n
          BY <1>1, <5>1, LenProperties
        <5>3. QED
          BY <2>7, <4>1, <5>1, <5>2 DEF C!IsInjective
      <4>2. QED
        BY <4>1
    <3>2. CASE i \in 1..Len(q) /\ j \in 1..Len(q)
      BY <2>2, <2>7, <3>2
    <3>3. CASE i \in 1..Len(q) /\ j = Len(q) + 1
      BY <2>2, <2>7, <3>1, <3>3
    <3>4. CASE i = Len(q) + 1 /\ j \in 1..Len(q)
      BY <2>2, <2>7, <3>1, <3>4
    <3>5. QED
      BY <2>3, <3>2, <3>3, <3>4
  <2>8. KeepsOf(more, X, s, n, ids)
    BY <2>2, <2>5, <2>6, <2>7
  <2>9. QED
    BY <1>4, <2>8 DEF more
<1>5. QED
  BY <1>3, <1>4

\* The elements of a sequence.
LEMMA Elements ==
    ASSUME NEW X, NEW s \in Seq(X)
    PROVE  /\ \A x : x \in C!ToSet(s) <=> \E i \in 1..Len(s) : s[i] = x
           /\ C!ToSet(s) \subseteq X
           /\ C!IsInjective(s) <=> \A i, j \in 1..Len(s) : s[i] = s[j] => i = j
<1>1. DOMAIN s = 1..Len(s) /\ \A i \in 1..Len(s) : s[i] \in X
  BY LenProperties, ElementOfSeq
<1>2. QED
  BY <1>1 DEF C!ToSet, C!IsInjective

\* What Kept keeps.
LEMMA KeptKeeps ==
    ASSUME NEW X, NEW s \in Seq(X), NEW ids
    PROVE  /\ C!Kept(s, ids) \in Seq(X \cap ids)
           /\ C!ToSet(C!Kept(s, ids)) = C!ToSet(s) \cap ids
           /\ C!IsInjective(s) => C!IsInjective(C!Kept(s, ids))
<1>1. PICK g : g = KeptUpTo(g, s, ids) /\ C!Kept(s, ids) = g[DOMAIN s]
  BY KeptIs
<1>2. Len(s) \in Nat /\ DOMAIN s = 1..Len(s)
  BY LenProperties
<1> DEFINE Not == {n \in 0..Len(s) : ~KeepsOf(g[1..n], X, s, n, ids)}
<1>3. Not = {}
  <2> SUFFICES ASSUME Not # {} PROVE FALSE
    OBVIOUS
  <2>1. Not \in SUBSET Nat
    BY <1>2
  <2>2. PICK n \in Not : \A k \in Not : n <= k
    <3> HIDE DEF Not
    <3>1. QED
      BY <2>1, Least
  <2>3. n \in 0..Len(s) /\ ~KeepsOf(g[1..n], X, s, n, ids)
    BY <2>2
  <2>4. CASE n = 0
    <3>1. 1..0 \in SUBSET DOMAIN s /\ 1..0 = {}
      BY <1>2
    <3>2. g[1..0] = <<>>
      BY <1>1, <3>1 DEF KeptUpTo
    <3>3. KeepsOf(<<>>, X, s, 0, ids)
      BY DEF KeepsOf
    <3>4. QED
      BY <2>3, <2>4, <3>2, <3>3
  <2>5. CASE n # 0
    <3>1. n \in 1..Len(s) /\ n - 1 \in 0..Len(s) /\ ~(n <= n - 1) /\ n \in Nat
      BY <1>2, <2>3, <2>5
    <3>2. n - 1 \notin Not
      <4> HIDE DEF Not
      <4>1. QED
        BY <2>2, <3>1
    <3>3. KeepsOf(g[1..n - 1], X, s, n - 1, ids)
      BY <3>1, <3>2
    <3>4. /\ 1..n \in SUBSET DOMAIN s /\ n \in 1..n /\ 1..n # {}
          /\ (1..n) \ {n} = 1..n - 1
      BY <1>2, <3>1
    <3>5. C!Max(1..n) = n
      BY <3>1, <3>4, LastPosition
    <3>6. g[1..n] = IF s[n] \in ids THEN Append(g[1..n - 1], s[n]) ELSE g[1..n - 1]
      BY <1>1, <3>4, <3>5 DEF KeptUpTo
    <3>7. QED
      BY <2>3, <3>1, <3>3, <3>6, KeepsOneMore
  <2>6. QED
    BY <2>4, <2>5
<1>4. Len(s) \in 0..Len(s)
  BY <1>2
<1>5. KeepsOf(C!Kept(s, ids), X, s, Len(s), ids)
  BY <1>1, <1>2, <1>3, <1>4
<1>6. C!Kept(s, ids) \in Seq(X \cap ids)
  BY <1>5 DEF KeepsOf
<1>7. ASSUME NEW x PROVE x \in C!ToSet(C!Kept(s, ids)) <=> x \in C!ToSet(s) \cap ids
  <2> DEFINE q == C!Kept(s, ids)
  <2>1. q \in Seq(X \cap ids) /\ \A i \in 1..Len(q) : q[i] \in X \cap ids
    BY <1>6, ElementOfSeq
  <2>2. x \in C!ToSet(q) <=> \E i \in 1..Len(q) : q[i] = x
    BY <2>1, Elements
  <2>3. x \in C!ToSet(s) <=> \E i \in 1..Len(s) : s[i] = x
    BY Elements
  <2> HIDE DEF q
  <2>4. KeepsOf(q, X, s, Len(s), ids)
    BY <1>5 DEF q
  <2>5. QED
    BY <2>1, <2>2, <2>3, <2>4 DEF KeepsOf, q
<1>8. C!IsInjective(s) => C!IsInjective(C!Kept(s, ids))
  <2>1. C!IsInjective(C!Kept(s, ids)) <=>
          \A i, j \in 1..Len(C!Kept(s, ids)) :
            C!Kept(s, ids)[i] = C!Kept(s, ids)[j] => i = j
    BY <1>6, Elements
  <2>2. QED
    BY <1>5, <2>1 DEF KeepsOf
<1>9. QED
  BY <1>6, <1>7, <1>8

\* Two sequences with nothing in common, joined.
LEMMA Joined ==
    ASSUME NEW X, NEW p \in Seq(X), NEW q \in Seq(X), C!IsInjective(p), C!IsInjective(q),
           C!ToSet(p) \cap C!ToSet(q) = {}
    PROVE  /\ p \o q \in Seq(X) /\ C!IsInjective(p \o q)
           /\ C!ToSet(p \o q) = C!ToSet(p) \cup C!ToSet(q)
<1> DEFINE n == Len(p)
           both == p \o q
<1>1. /\ n \in Nat /\ Len(q) \in Nat /\ both \in Seq(X) /\ Len(both) = n + Len(q)
      /\ \A i \in 1..n : both[i] = p[i]
      /\ \A i \in n + 1..n + Len(q) : both[i] = q[i - n]
  BY ConcatProperties, LenProperties
<1> HIDE DEF n, both
<1>2. /\ \A x : x \in C!ToSet(p) <=> \E i \in 1..n : p[i] = x
      /\ \A i, j \in 1..n : p[i] = p[j] => i = j
  BY Elements DEF n
<1>3. /\ \A x : x \in C!ToSet(q) <=> \E i \in 1..Len(q) : q[i] = x
      /\ \A i, j \in 1..Len(q) : q[i] = q[j] => i = j
  BY Elements
<1>4. /\ \A x : x \in C!ToSet(both) <=> \E i \in 1..Len(both) : both[i] = x
      /\ C!IsInjective(both) <=> \A i, j \in 1..Len(both) : both[i] = both[j] => i = j
  BY <1>1, Elements, ZenonT(30)
<1>5. \A i \in 1..Len(both) : i \in 1..n \/ (i \in n + 1..n + Len(q) /\ i - n \in 1..Len(q))
  BY <1>1
<1>6. \A i \in 1..n : i \in 1..Len(both) /\ both[i] \in C!ToSet(p)
  BY <1>1, <1>2
<1>7. \A i \in 1..Len(q) : /\ n + i \in n + 1..n + Len(q) /\ n + i \in 1..Len(both)
                           /\ both[n + i] = q[i] /\ both[n + i] \in C!ToSet(q)
  <2>1. ASSUME NEW i \in 1..Len(q)
        PROVE  n + i \in n + 1..n + Len(q) /\ n + i \in 1..Len(both) /\ (n + i) - n = i
    BY <1>1
  <2>2. QED
    BY <1>1, <1>3, <2>1
<1>8. C!ToSet(both) = C!ToSet(p) \cup C!ToSet(q)
  <2>1. ASSUME NEW x \in C!ToSet(both) PROVE x \in C!ToSet(p) \cup C!ToSet(q)
    <3>1. PICK i \in 1..Len(both) : both[i] = x
      BY <1>4, <2>1
    <3>2. CASE i \in 1..n
      BY <1>6, <3>1, <3>2
    <3>3. CASE i \in n + 1..n + Len(q) /\ i - n \in 1..Len(q)
      BY <1>1, <1>3, <3>1, <3>3
    <3>4. QED
      BY <1>5, <3>2, <3>3
  <2>2. ASSUME NEW x \in C!ToSet(p) PROVE x \in C!ToSet(both)
    BY <1>1, <1>2, <1>4, <1>6, <2>2
  <2>3. ASSUME NEW x \in C!ToSet(q) PROVE x \in C!ToSet(both)
    BY <1>3, <1>4, <1>7, <2>3
  <2>4. QED
    BY <2>1, <2>2, <2>3
<1>9. ASSUME NEW i \in 1..Len(both), NEW j \in 1..Len(both), both[i] = both[j] PROVE i = j
  <2>1. CASE i \in 1..n /\ j \in 1..n
    BY <1>1, <1>2, <1>9, <2>1
  <2>2. CASE (i \in n + 1..n + Len(q) /\ i - n \in 1..Len(q))
             /\ (j \in n + 1..n + Len(q) /\ j - n \in 1..Len(q))
    <3>1. i - n = j - n
      BY <1>1, <1>3, <1>9, <2>2
    <3>2. QED
      BY <1>1, <3>1
  <2>3. CASE i \in 1..n /\ (j \in n + 1..n + Len(q) /\ j - n \in 1..Len(q))
    <3>1. both[i] \in C!ToSet(p) /\ both[j] \in C!ToSet(q)
      BY <1>1, <1>3, <1>6, <2>3
    <3>2. QED
      BY <1>9, <3>1
  <2>4. CASE (i \in n + 1..n + Len(q) /\ i - n \in 1..Len(q)) /\ j \in 1..n
    <3>1. both[j] \in C!ToSet(p) /\ both[i] \in C!ToSet(q)
      BY <1>1, <1>3, <1>6, <2>4
    <3>2. QED
      BY <1>9, <3>1
  <2>5. QED
    BY <1>5, <2>1, <2>2, <2>3, <2>4
<1>10. QED
  BY <1>1, <1>4, <1>8, <1>9 DEF both

\* Two elements of a sequence change places.
LEMMA Swapped ==
    ASSUME NEW X, NEW s \in Seq(X), NEW i \in DOMAIN s, NEW k \in DOMAIN s, C!IsInjective(s),
           NEW new \in [DOMAIN s -> X], new[i] = s[k], new[k] = s[i],
           \A j \in DOMAIN s \ {i, k} : new[j] = s[j]
    PROVE  /\ new \in Seq(X) /\ C!IsInjective(new)
           /\ C!ToSet(new) = C!ToSet(s)
<1>1. /\ DOMAIN s = 1..Len(s) /\ Len(s) \in Nat /\ \A j \in 1..Len(s) : s[j] \in X
      /\ s = [j \in 1..Len(s) |-> s[j]]
  BY LenProperties, ElementOfSeq
<1>3. new \in [1..Len(s) -> X] /\ DOMAIN new = 1..Len(s)
      /\ \A j \in 1..Len(s) : new[j] = IF j = k THEN s[i] ELSE IF j = i THEN s[k] ELSE s[j]
  BY <1>1
<1>4. new \in Seq(X)
  BY <1>1, <1>3
<1>5. C!IsInjective(new)
  <2>1. \A a, b \in 1..Len(s) : s[a] = s[b] => a = b
    BY <1>1 DEF C!IsInjective
  <2>2. ASSUME NEW a \in 1..Len(s), NEW b \in 1..Len(s), new[a] = new[b] PROVE a = b
    BY <1>1, <1>3, <2>1, <2>2
  <2>3. QED
    BY <1>3, <2>2 DEF C!IsInjective
<1>6. ASSUME NEW x PROVE x \in C!ToSet(new) <=> x \in C!ToSet(s)
  <2>1. /\ x \in C!ToSet(new) <=> \E j \in 1..Len(s) : new[j] = x
        /\ x \in C!ToSet(s) <=> \E j \in 1..Len(s) : s[j] = x
    BY <1>1, <1>3 DEF C!ToSet
  <2>2. ASSUME NEW j \in 1..Len(s), new[j] = x PROVE \E m \in 1..Len(s) : s[m] = x
    BY <1>1, <1>3, <2>2
  <2>3. ASSUME NEW j \in 1..Len(s), s[j] = x PROVE \E m \in 1..Len(s) : new[m] = x
    <3>1. CASE j = k
      <4>1. new[i] = x
        BY <1>1, <1>3, <2>3, <3>1
      <4>2. QED
        BY <1>1, <4>1
    <3>2. CASE j = i /\ j # k
      <4>1. new[k] = x
        BY <1>1, <1>3, <2>3, <3>2
      <4>2. QED
        BY <1>1, <4>1
    <3>3. CASE j # i /\ j # k
      BY <1>3, <2>3, <3>3
    <3>4. QED
      BY <3>1, <3>2, <3>3
  <2>4. QED
    BY <2>1, <2>2, <2>3
<1>7. QED
  BY <1>4, <1>5, <1>6

\* The storage, when the columns of d have been resized: only their widths are in it,
\* and no column is in its order twice.
StoredFine(s, d) ==
    /\ s = [widths |-> s.widths, order |-> s.order, hidden |-> s.hidden]
    /\ DOMAIN s.widths \subseteq d
    /\ s.order \in Seq(C!AllIds) /\ C!IsInjective(s.order)
    /\ s.hidden \subseteq C!AllIds

\* An order of a table of release r.
OrderFine(o, r) ==
    o \in Seq(C!Ids(r)) /\ C!IsInjective(o) /\ C!ToSet(o) = C!Ids(r)

\* Widths of a table of release r.
WidthsFine(w, r, d) ==
    /\ C!Ids(r) \subseteq DOMAIN w /\ DOMAIN w \subseteq C!Ids(r) \cup d
    /\ \A c \in C!Ids(r) \ d : w[c] = C!Default(r)[c]

\* An open table.
TableFine(x, d) ==
    /\ x = [release |-> x.release, widths |-> x.widths, order |-> x.order,
            hidden |-> x.hidden]
    /\ x.release \in 1..Len(Releases)
    /\ WidthsFine(x.widths, x.release, d)
    /\ OrderFine(x.order, x.release)
    /\ x.hidden \subseteq C!AllIds \ {Pinned}

\* The inductive invariant of the columns: what is stored, and what each table shows.
ColumnInv ==
    /\ release \in 1..Len(Releases) /\ edits \in 0..MaxEdits
    /\ dragged \subseteq C!AllIds
    /\ StoredFine(stored, dragged)
    /\ tab = [t \in Tabs |-> tab[t]]
    /\ \A t \in Tabs : tab[t] = C!Closed \/ TableFine(tab[t], dragged)

\* The releases' columns, orders and widths.
LEMMA ReleaseFine ==
    ASSUME NEW r \in 1..Len(Releases)
    PROVE  /\ OrderFine(Releases[r].order, r) /\ C!Ids(r) \subseteq C!AllIds
           /\ \A d : WidthsFine(C!Default(r), r, d)
<1>1. /\ Releases[r].order \in Seq(C!Ids(r)) /\ C!IsInjective(Releases[r].order)
      /\ C!Default(r) \in [C!Ids(r) -> Nat]
  BY SystemAssumption DEF C!ReleasesAssumption
<1>2. C!ToSet(Releases[r].order) = C!Ids(r)
  BY DEF C!Ids
<1>3. C!Ids(r) \subseteq C!AllIds
  BY DEF C!AllIds
<1>4. ASSUME NEW d PROVE WidthsFine(C!Default(r), r, d)
  BY <1>1 DEF WidthsFine
<1>5. QED
  BY <1>1, <1>2, <1>3, <1>4 DEF OrderFine

\* More columns resized is less to keep.
LEMMA MoreDragged ==
    ASSUME NEW d, NEW e, d \subseteq e
    PROVE  /\ \A s : StoredFine(s, d) => StoredFine(s, e)
           /\ \A x : TableFine(x, d) => TableFine(x, e)
<1>1. ASSUME NEW s, StoredFine(s, d) PROVE StoredFine(s, e)
  BY <1>1 DEF StoredFine
<1>2. ASSUME NEW w, NEW r, WidthsFine(w, r, d) PROVE WidthsFine(w, r, e)
  BY <1>2 DEF WidthsFine
<1>3. ASSUME NEW x, TableFine(x, d) PROVE TableFine(x, e)
  BY <1>2, <1>3 DEF TableFine
<1>4. QED
  BY <1>1, <1>3

\* What is written of fine widths names resized columns only.
LEMMA CustomizedFine ==
    ASSUME NEW r, NEW w, NEW d, WidthsFine(w, r, d)
    PROVE  DOMAIN C!Customized(r, w) \subseteq d
BY DEF WidthsFine, C!Customized

\* What a mount reads.
LEMMA LoadsFine ==
    ASSUME NEW r \in 1..Len(Releases), StoredFine(stored, dragged)
    PROVE  /\ OrderFine(C!LoadOrder(r), r)
           /\ WidthsFine(C!LoadWidths(r), r, dragged)
           /\ C!LoadHidden \subseteq C!AllIds \ {Pinned}
<1>1. WidthsFine(C!LoadWidths(r), r, dragged)
  BY DEF StoredFine, WidthsFine, C!LoadWidths
<1>2. C!LoadHidden \subseteq C!AllIds \ {Pinned}
  BY DEF StoredFine, C!LoadHidden
<1>3. OrderFine(C!LoadOrder(r), r)
  <2>1. PICK known : known = C!Kept(stored.order, C!Ids(r))
    OBVIOUS
  <2>2. PICK rest : rest = C!Kept(Releases[r].order, C!Ids(r) \ C!ToSet(known))
    OBVIOUS
  <2>3. /\ known \in Seq(C!AllIds \cap C!Ids(r)) /\ C!IsInjective(known)
        /\ C!ToSet(known) = C!ToSet(stored.order) \cap C!Ids(r)
    BY <2>1, KeptKeeps DEF StoredFine
  <2>4. /\ rest \in Seq(C!Ids(r) \cap (C!Ids(r) \ C!ToSet(known))) /\ C!IsInjective(rest)
        /\ C!ToSet(rest) = C!Ids(r) \cap (C!Ids(r) \ C!ToSet(known))
    <3>1. PICK o : o = Releases[r].order
      OBVIOUS
    <3>2. o \in Seq(C!Ids(r)) /\ C!IsInjective(o) /\ C!ToSet(o) = C!Ids(r)
      BY <3>1, ReleaseFine DEF OrderFine
    <3>3. rest = C!Kept(o, C!Ids(r) \ C!ToSet(known))
      BY <2>2, <3>1
    <3>4. QED
      BY <3>2, <3>3, KeptKeeps
  <2>5. known \in Seq(C!Ids(r)) /\ rest \in Seq(C!Ids(r))
    BY <2>3, <2>4
  <2>6. /\ C!ToSet(known) \cap C!ToSet(rest) = {}
        /\ C!ToSet(known) \cup C!ToSet(rest) = C!Ids(r)
    BY <2>3, <2>4
  <2>7. OrderFine(known \o rest, r)
    <3>1. PICK ids : ids = C!Ids(r)
      OBVIOUS
    <3>2. /\ known \in Seq(ids) /\ rest \in Seq(ids)
          /\ C!IsInjective(known) /\ C!IsInjective(rest)
          /\ C!ToSet(known) \cap C!ToSet(rest) = {}
      BY <2>3, <2>4, <2>5, <2>6, <3>1
    <3>3. /\ known \o rest \in Seq(ids) /\ C!IsInjective(known \o rest)
          /\ C!ToSet(known \o rest) = C!ToSet(known) \cup C!ToSet(rest)
      BY <3>2, Joined
    <3>4. QED
      BY <2>6, <3>1, <3>3 DEF OrderFine
  <2>8. C!LoadOrder(r) = known \o rest
    BY <2>1, <2>2 DEF C!LoadOrder
  <2>9. QED
    BY <2>7, <2>8
<1>4. QED
  BY <1>1, <1>2, <1>3

\* A tab's table becomes x, and the storage stays fine.
LEMMA TablePut ==
    ASSUME ColumnInv, NEW t \in Tabs, NEW x, tab' = [tab EXCEPT ![t] = x],
           x = C!Closed \/ TableFine(x, dragged'),
           dragged \subseteq dragged', dragged' \subseteq C!AllIds,
           StoredFine(stored', dragged'), edits' \in 0..MaxEdits,
           release' \in 1..Len(Releases)
    PROVE  ColumnInv'
<1>1. tab' = [u \in Tabs |-> IF u = t THEN x ELSE tab[u]]
  BY DEF ColumnInv
<1>2. tab' = [u \in Tabs |-> tab'[u]]
  BY <1>1
<1>3. ASSUME NEW u \in Tabs PROVE tab'[u] = C!Closed \/ TableFine(tab'[u], dragged')
  <2>1. CASE u = t
    BY <1>1, <2>1
  <2>2. CASE u # t
    <3>1. tab'[u] = tab[u]
      BY <1>1, <2>2
    <3>2. QED
      BY <3>1, MoreDragged DEF ColumnInv
  <2>3. QED
    BY <2>1, <2>2
<1>4. QED
  BY <1>2, <1>3 DEF ColumnInv, StoredFine, TableFine, OrderFine, WidthsFine

\* An effect of a table writes to the storage, or the storage is full.
LEMMA Written ==
    ASSUME ColumnInv, dragged \subseteq dragged', NEW s, C!Persisted(s),
           StoredFine(s, dragged')
    PROVE  StoredFine(stored', dragged')
<1>1. StoredFine(stored, dragged')
  BY MoreDragged DEF ColumnInv
<1>2. PICK w \in {stored.widths, s.widths}, o \in {stored.order, s.order},
           h \in {stored.hidden, s.hidden} :
        stored' = [widths |-> w, order |-> o, hidden |-> h]
  BY DEF C!Persisted
<1>3. stored'.widths = w /\ stored'.order = o /\ stored'.hidden = h
  BY <1>2
<1>4. QED
  BY <1>1, <1>2, <1>3 DEF StoredFine

\* A table mounts.
LEMMA MountKept ==
    ASSUME ColumnInv, NEW t \in Tabs, NEW readable \in BOOLEAN, C!Mount(t, readable)
    PROVE  ColumnInv'
<1>1. release \in 1..Len(Releases) /\ StoredFine(stored, dragged)
  BY DEF ColumnInv
<1>2. PICK r \in 1..Len(Releases) : r = release
  BY <1>1
<1>3. PICK w : w = IF readable THEN C!LoadWidths(r) ELSE C!Default(r)
  OBVIOUS
<1>4. PICK o : o = IF readable THEN C!LoadOrder(r) ELSE Releases[r].order
  OBVIOUS
<1>5. PICK h : h = IF readable THEN C!LoadHidden ELSE {}
  OBVIOUS
<1>6. WidthsFine(w, r, dragged)
  BY <1>1, <1>3, LoadsFine, ReleaseFine
<1>7. OrderFine(o, r)
  BY <1>1, <1>4, LoadsFine, ReleaseFine
<1>8. h \subseteq C!AllIds \ {Pinned}
  BY <1>1, <1>5, LoadsFine
<1>9. PICK x : x = [release |-> r, widths |-> w, order |-> o, hidden |-> h]
  OBVIOUS
<1>10. TableFine(x, dragged)
  BY <1>6, <1>7, <1>8, <1>9 DEF TableFine
<1>11. /\ tab' = [tab EXCEPT ![t] = x]
       /\ IF readable
          THEN C!Persisted([widths |-> C!Customized(r, w), order |-> o, hidden |-> h])
          ELSE UNCHANGED stored
       /\ UNCHANGED <<release, dragged, edits>>
  BY <1>2, <1>3, <1>4, <1>5, <1>9 DEF C!Mount
<1>12. StoredFine(stored', dragged')
  <2>1. PICK s : s = [widths |-> C!Customized(r, w), order |-> o, hidden |-> h]
    OBVIOUS
  <2>2. DOMAIN C!Customized(r, w) \subseteq dragged
    BY <1>6, CustomizedFine
  <2>3. o \in Seq(C!AllIds) /\ C!IsInjective(o)
    <3>1. o \in Seq(C!Ids(r)) /\ C!IsInjective(o) /\ C!Ids(r) \subseteq C!AllIds
      BY <1>7, ReleaseFine DEF OrderFine
    <3>2. QED
      BY <3>1
  <2>4. StoredFine(s, dragged)
    BY <1>8, <2>1, <2>2, <2>3 DEF StoredFine
  <2>5. dragged' = dragged
    BY <1>11
  <2>6. CASE readable
    BY <1>11, <2>1, <2>4, <2>5, <2>6, Written
  <2>7. CASE ~readable
    BY <1>1, <1>11, <2>5, <2>7
  <2>8. QED
    BY <2>6, <2>7
<1>13. QED
  BY <1>10, <1>11, <1>12, TablePut DEF ColumnInv

\* An open table's parts.
LEMMA OpenTable ==
    ASSUME ColumnInv, NEW t \in Tabs, C!Edit(t)
    PROVE  /\ TableFine(tab[t], dragged) /\ tab[t].release \in 1..Len(Releases)
           /\ edits' \in 0..MaxEdits /\ release' \in 1..Len(Releases)
           /\ dragged \subseteq C!AllIds /\ StoredFine(stored, dragged)
<1>1. tab[t] # C!Closed /\ edits' = edits + 1 /\ edits < MaxEdits /\ release' = release
  BY DEF C!Edit, C!Open
<1>2. MaxEdits \in Nat
  BY SystemAssumption DEF C!ReleasesAssumption
<1>3. TableFine(tab[t], dragged)
  BY <1>1 DEF ColumnInv
<1>4. QED
  BY <1>1, <1>2, <1>3 DEF ColumnInv, TableFine

\* Other widths of a table, and of the storage.
LEMMA WidthsKept ==
    ASSUME ColumnInv, NEW t \in Tabs, C!Edit(t), NEW w,
           dragged \subseteq dragged', dragged' \subseteq C!AllIds,
           WidthsFine(w, tab[t].release, dragged'), C!SetWidths(t, w)
    PROVE  ColumnInv'
<1>1. PICK y : y = tab[t]
  OBVIOUS
<1>2. TableFine(y, dragged) /\ edits' \in 0..MaxEdits /\ release' \in 1..Len(Releases)
  BY <1>1, OpenTable
<1>3. PICK x : x = [release |-> y.release, widths |-> w, order |-> y.order,
                    hidden |-> y.hidden]
  OBVIOUS
<1>4. x = [y EXCEPT !.widths = w]
  BY <1>2, <1>3 DEF TableFine
<1>5. tab' = [tab EXCEPT ![t] = x]
  BY <1>1, <1>4 DEF C!SetWidths, ColumnInv
<1>6. WidthsFine(w, y.release, dragged')
  BY <1>1
<1>7. TableFine(x, dragged')
  <2>1. y.release \in 1..Len(Releases) /\ OrderFine(y.order, y.release)
        /\ y.hidden \subseteq C!AllIds \ {Pinned}
    BY <1>2 DEF TableFine
  <2>2. /\ x.release = y.release /\ x.widths = w /\ x.order = y.order
        /\ x.hidden = y.hidden
        /\ x = [release |-> x.release, widths |-> x.widths, order |-> x.order,
                hidden |-> x.hidden]
    BY <1>3
  <2>3. QED
    BY <1>6, <2>1, <2>2 DEF TableFine
<1>8. StoredFine(stored', dragged')
  <2>1. PICK z : z = stored
    OBVIOUS
  <2>2. StoredFine(z, dragged')
    BY <2>1, MoreDragged DEF ColumnInv
  <2>3. PICK u : u = C!Customized(y.release, w)
    OBVIOUS
  <2>4. PICK s : s = [widths |-> u, order |-> z.order, hidden |-> z.hidden]
    OBVIOUS
  <2>5. s = [z EXCEPT !.widths = u]
    BY <2>2, <2>4 DEF StoredFine
  <2>6. C!Persisted(s)
    BY <1>1, <2>1, <2>3, <2>5 DEF C!SetWidths
  <2>7. DOMAIN u \subseteq dragged'
    BY <1>6, <2>3, CustomizedFine
  <2>8. StoredFine(s, dragged')
    BY <2>2, <2>4, <2>7 DEF StoredFine
  <2>9. QED
    BY <2>6, <2>8, Written
<1>9. QED
  BY <1>2, <1>5, <1>7, <1>8, TablePut

\* Another order of a table, and other columns hidden, and the storage's.
LEMMA OrderKept ==
    ASSUME ColumnInv, NEW t \in Tabs, C!Edit(t), dragged' = dragged, NEW o, NEW h,
           OrderFine(o, tab[t].release), h \subseteq C!AllIds \ {Pinned},
           NEW p, p \in Seq(C!AllIds), C!IsInjective(p), NEW z, z \subseteq C!AllIds,
           tab' = [tab EXCEPT ![t].order = o, ![t].hidden = h],
           C!Persisted([stored EXCEPT !.order = p, !.hidden = z])
    PROVE  ColumnInv'
<1>1. PICK y : y = tab[t]
  OBVIOUS
<1>2. TableFine(y, dragged) /\ edits' \in 0..MaxEdits /\ release' \in 1..Len(Releases)
      /\ dragged \subseteq C!AllIds /\ StoredFine(stored, dragged)
  BY <1>1, OpenTable
<1>3. PICK x : x = [release |-> y.release, widths |-> y.widths, order |-> o, hidden |-> h]
  OBVIOUS
<1>4. x = [y EXCEPT !.order = o, !.hidden = h]
  <2>1. PICK m : m = [y EXCEPT !.order = o]
    OBVIOUS
  <2>2. m = [release |-> y.release, widths |-> y.widths, order |-> o, hidden |-> y.hidden]
    BY <1>2, <2>1 DEF TableFine
  <2>3. x = [m EXCEPT !.hidden = h]
    BY <1>3, <2>2
  <2>4. QED
    BY <2>1, <2>3
<1>5. tab' = [tab EXCEPT ![t] = x]
  BY <1>1, <1>4 DEF ColumnInv
<1>6. OrderFine(o, y.release)
  BY <1>1
<1>7. TableFine(x, dragged')
  <2>1. y.release \in 1..Len(Releases) /\ WidthsFine(y.widths, y.release, dragged')
    BY <1>2 DEF TableFine
  <2>2. /\ x.release = y.release /\ x.widths = y.widths /\ x.order = o /\ x.hidden = h
        /\ x = [release |-> x.release, widths |-> x.widths, order |-> x.order,
                hidden |-> x.hidden]
    BY <1>3
  <2>3. QED
    BY <1>6, <2>1, <2>2 DEF TableFine
<1>8. StoredFine(stored', dragged')
  <2>1. PICK b : b = stored
    OBVIOUS
  <2>2. StoredFine(b, dragged')
    BY <1>2, <2>1
  <2>3. PICK s : s = [widths |-> b.widths, order |-> p, hidden |-> z]
    OBVIOUS
  <2>4. s = [b EXCEPT !.order = p, !.hidden = z]
    <3>1. PICK m : m = [b EXCEPT !.order = p]
      OBVIOUS
    <3>2. m = [widths |-> b.widths, order |-> p, hidden |-> b.hidden]
      BY <2>2, <3>1 DEF StoredFine
    <3>3. s = [m EXCEPT !.hidden = z]
      BY <2>3, <3>2
    <3>4. QED
      BY <3>1, <3>3
  <2>5. C!Persisted(s)
    BY <2>1, <2>4
  <2>6. StoredFine(s, dragged')
    BY <2>2, <2>3 DEF StoredFine
  <2>7. QED
    BY <2>5, <2>6, Written
<1>9. QED
  BY <1>2, <1>5, <1>7, <1>8, TablePut

\* A column is resized.
LEMMA ResizeKept ==
    ASSUME ColumnInv, NEW t \in Tabs, NEW c \in C!AllIds, NEW x \in Sizes, C!Resize(t, c, x)
    PROVE  ColumnInv'
<1>1. PICK y : y = tab[t]
  OBVIOUS
<1>2. PICK r \in 1..Len(Releases) : r = y.release
  BY <1>1, OpenTable DEF C!Resize
<1>3. C!Edit(t) /\ c \in C!Ids(r) /\ dragged' = dragged \cup {c}
  BY <1>1, <1>2 DEF C!Resize
<1>4. PICK v : v = IF x < Releases[r].least[c] THEN Releases[r].least[c] ELSE x
  OBVIOUS
<1>5. PICK w : w = [y.widths EXCEPT ![c] = v]
  OBVIOUS
<1>6. C!SetWidths(t, w)
  BY <1>1, <1>2, <1>4, <1>5 DEF C!Resize
<1>7. WidthsFine(y.widths, r, dragged)
  BY <1>1, <1>2, <1>3, OpenTable DEF TableFine
<1>8. WidthsFine(w, r, dragged')
  BY <1>3, <1>5, <1>7 DEF WidthsFine
<1>9. dragged \subseteq dragged' /\ dragged' \subseteq C!AllIds
  BY <1>3 DEF ColumnInv
<1>10. WidthsFine(w, tab[t].release, dragged')
  BY <1>1, <1>2, <1>8
<1>11. QED
  BY <1>3, <1>6, <1>9, <1>10, WidthsKept

\* All widths are put back.
LEMMA ResetWidthsKept ==
    ASSUME ColumnInv, NEW t \in Tabs, C!ResetWidths(t)
    PROVE  ColumnInv'
<1>1. PICK r \in 1..Len(Releases) : r = tab[t].release
  BY OpenTable DEF C!ResetWidths
<1>2. PICK w : w = C!Default(r)
  OBVIOUS
<1>3. C!Edit(t) /\ C!SetWidths(t, w) /\ dragged' = dragged
  BY <1>1, <1>2 DEF C!ResetWidths
<1>4. WidthsFine(w, tab[t].release, dragged')
  BY <1>1, <1>2, ReleaseFine
<1>5. dragged \subseteq dragged' /\ dragged' \subseteq C!AllIds
  BY <1>3 DEF ColumnInv
<1>6. QED
  BY <1>3, <1>4, <1>5, WidthsKept

\* The part of an order alone, or of the hidden columns alone.
LEMMA PartOfTable ==
    ASSUME ColumnInv, NEW t \in Tabs, C!Edit(t)
    PROVE  /\ \A o : [tab EXCEPT ![t].order = o]
                     = [tab EXCEPT ![t].order = o, ![t].hidden = tab[t].hidden]
           /\ \A o : [stored EXCEPT !.order = o]
                     = [stored EXCEPT !.order = o, !.hidden = stored.hidden]
           /\ \A h : [tab EXCEPT ![t].hidden = h]
                     = [tab EXCEPT ![t].order = tab[t].order, ![t].hidden = h]
           /\ \A h : [stored EXCEPT !.hidden = h]
                     = [stored EXCEPT !.order = stored.order, !.hidden = h]
<1>1. PICK y : y = tab[t]
  OBVIOUS
<1>2. y = [release |-> y.release, widths |-> y.widths, order |-> y.order, hidden |-> y.hidden]
  BY <1>1, OpenTable DEF TableFine
<1>3. PICK b : b = stored
  OBVIOUS
<1>4. b = [widths |-> b.widths, order |-> b.order, hidden |-> b.hidden]
  BY <1>3 DEF ColumnInv, StoredFine
<1>5. PICK a : a = tab
  OBVIOUS
<1>6. a = [u \in Tabs |-> a[u]] /\ a[t] = y
  BY <1>1, <1>5 DEF ColumnInv
<1>7. ASSUME NEW o
      PROVE  /\ [y EXCEPT !.order = o] = [[y EXCEPT !.order = o] EXCEPT !.hidden = y.hidden]
             /\ [y EXCEPT !.hidden = o] = [[y EXCEPT !.order = y.order] EXCEPT !.hidden = o]
  <2>1. PICK m : m = [y EXCEPT !.order = o]
    OBVIOUS
  <2>2. m = [release |-> y.release, widths |-> y.widths, order |-> o, hidden |-> y.hidden]
    BY <1>2, <2>1
  <2>3. m = [m EXCEPT !.hidden = y.hidden]
    BY <2>2
  <2>4. y = [y EXCEPT !.order = y.order]
    BY <1>2
  <2>5. QED
    BY <2>1, <2>3, <2>4
<1>8. ASSUME NEW o
      PROVE  /\ [b EXCEPT !.order = o] = [[b EXCEPT !.order = o] EXCEPT !.hidden = b.hidden]
             /\ [b EXCEPT !.hidden = o] = [[b EXCEPT !.order = b.order] EXCEPT !.hidden = o]
  <2>1. PICK m : m = [b EXCEPT !.order = o]
    OBVIOUS
  <2>2. m = [widths |-> b.widths, order |-> o, hidden |-> b.hidden]
    BY <1>4, <2>1
  <2>3. m = [m EXCEPT !.hidden = b.hidden]
    BY <2>2
  <2>4. b = [b EXCEPT !.order = b.order]
    BY <1>4
  <2>5. QED
    BY <2>1, <2>3, <2>4
<1>9. ASSUME NEW o, NEW h
      PROVE  [a EXCEPT ![t].order = o, ![t].hidden = h]
             = [u \in Tabs |-> IF u = t THEN [[y EXCEPT !.order = o] EXCEPT !.hidden = h]
                               ELSE a[u]]
  <2>1. PICK m : m = [a EXCEPT ![t].order = o]
    OBVIOUS
  <2>2. m = [u \in Tabs |-> IF u = t THEN [y EXCEPT !.order = o] ELSE a[u]]
    BY <1>6, <2>1
  <2>3. m[t] = [y EXCEPT !.order = o] /\ \A u \in Tabs \ {t} : m[u] = a[u]
    BY <2>2
  <2>4. m = [u \in Tabs |-> m[u]]
    BY <2>2
  <2>5. [m EXCEPT ![t].hidden = h]
        = [u \in Tabs |-> IF u = t THEN [m[t] EXCEPT !.hidden = h] ELSE m[u]]
    BY <2>4
  <2>6. QED
    BY <2>1, <2>3, <2>5
<1>10. ASSUME NEW o
       PROVE  /\ [a EXCEPT ![t].order = o]
                 = [u \in Tabs |-> IF u = t THEN [y EXCEPT !.order = o] ELSE a[u]]
              /\ [a EXCEPT ![t].hidden = o]
                 = [u \in Tabs |-> IF u = t THEN [y EXCEPT !.hidden = o] ELSE a[u]]
  BY <1>6
<1>11. ASSUME NEW o
       PROVE  /\ [a EXCEPT ![t].order = o] = [a EXCEPT ![t].order = o, ![t].hidden = y.hidden]
              /\ [a EXCEPT ![t].hidden = o] = [a EXCEPT ![t].order = y.order, ![t].hidden = o]
  <2>1. [a EXCEPT ![t].order = o] = [a EXCEPT ![t].order = o, ![t].hidden = y.hidden]
    <3>1. PICK m : m = [y EXCEPT !.order = o]
      OBVIOUS
    <3>2. [a EXCEPT ![t].order = o] = [u \in Tabs |-> IF u = t THEN m ELSE a[u]]
      BY <1>10, <3>1, ZenonT(30)
    <3>3. m = [m EXCEPT !.hidden = y.hidden]
      BY <1>7, <3>1
    <3>4. [a EXCEPT ![t].order = o, ![t].hidden = y.hidden]
          = [u \in Tabs |-> IF u = t THEN [m EXCEPT !.hidden = y.hidden] ELSE a[u]]
      BY <1>9, <3>1
    <3>5. QED
      BY <3>2, <3>3, <3>4
  <2>2. [a EXCEPT ![t].hidden = o] = [a EXCEPT ![t].order = y.order, ![t].hidden = o]
    <3>1. PICK m : m = [y EXCEPT !.hidden = o]
      OBVIOUS
    <3>2. [a EXCEPT ![t].hidden = o] = [u \in Tabs |-> IF u = t THEN m ELSE a[u]]
      BY <1>10, <3>1
    <3>3. m = [[y EXCEPT !.order = y.order] EXCEPT !.hidden = o]
      BY <1>7, <3>1
    <3>4. [a EXCEPT ![t].order = y.order, ![t].hidden = o]
          = [u \in Tabs |-> IF u = t THEN [[y EXCEPT !.order = y.order] EXCEPT !.hidden = o]
                            ELSE a[u]]
      BY <1>9
    <3>5. QED
      BY <3>2, <3>3, <3>4
  <2>3. QED
    BY <2>1, <2>2
<1>12. QED
  <2>1. y = tab[t] /\ a = tab /\ b = stored
    BY <1>1, <1>3, <1>5
  <2>2. ASSUME NEW o
        PROVE  /\ [tab EXCEPT ![t].order = o]
                  = [tab EXCEPT ![t].order = o, ![t].hidden = tab[t].hidden]
               /\ [tab EXCEPT ![t].hidden = o]
                  = [tab EXCEPT ![t].order = tab[t].order, ![t].hidden = o]
    BY <1>11, <2>1
  <2>3. ASSUME NEW o
        PROVE  /\ [stored EXCEPT !.order = o]
                  = [stored EXCEPT !.order = o, !.hidden = stored.hidden]
               /\ [stored EXCEPT !.hidden = o]
                  = [stored EXCEPT !.order = stored.order, !.hidden = o]
    BY <1>8, <2>1
  <2>4. QED
    BY <2>2, <2>3

\* An order of a table is one of all columns.
LEMMA OrderOfAll ==
    ASSUME NEW r \in 1..Len(Releases), NEW o, OrderFine(o, r)
    PROVE  o \in Seq(C!AllIds) /\ C!IsInjective(o)
<1>1. o \in Seq(C!Ids(r)) /\ C!IsInjective(o) /\ C!Ids(r) \subseteq C!AllIds
  BY ReleaseFine DEF OrderFine
<1>2. QED
  BY <1>1

\* A column moves.
LEMMA MoveKept ==
    ASSUME ColumnInv, NEW t \in Tabs, NEW c \in C!AllIds, NEW d \in {-1, 1},
           C!MoveColumn(t, c, d)
    PROVE  ColumnInv'
<1>1. PICK r \in 1..Len(Releases) : r = tab[t].release
  BY OpenTable DEF C!MoveColumn
<1>2. PICK o : o = tab[t].order
  OBVIOUS
<1>3. PICK at \in DOMAIN o :
        /\ o[at] = c /\ at + d \in DOMAIN o
        /\ tab' = [tab EXCEPT ![t].order = [o EXCEPT ![at] = o[at + d], ![at + d] = c]]
        /\ C!Persisted([stored EXCEPT !.order = [o EXCEPT ![at] = o[at + d],
                                                          ![at + d] = c]])
  BY <1>2 DEF C!MoveColumn
<1>4. PICK new : new = [o EXCEPT ![at] = o[at + d], ![at + d] = c]
  OBVIOUS
<1>5. C!Edit(t) /\ dragged' = dragged
  BY DEF C!MoveColumn
<1>6. OrderFine(o, r) /\ tab[t].hidden \subseteq C!AllIds \ {Pinned}
  BY <1>1, <1>2, <1>5, OpenTable DEF TableFine
<1>7. OrderFine(new, r)
  <2>1. PICK k \in DOMAIN o : k = at + d
    BY <1>3
  <2>3. PICK ids : ids = C!Ids(r)
    OBVIOUS
  <2>4. o \in Seq(ids) /\ C!IsInjective(o) /\ C!ToSet(o) = ids
    BY <1>6, <2>3 DEF OrderFine
  <2>5. new \in Seq(ids) /\ C!IsInjective(new) /\ C!ToSet(new) = C!ToSet(o)
    <3>1. /\ at \in DOMAIN o /\ k \in DOMAIN o /\ o \in [DOMAIN o -> ids]
          /\ o[at] \in ids /\ o[k] \in ids
      BY <2>4
    <3>2. /\ new \in [DOMAIN o -> ids] /\ new[at] = o[k] /\ new[k] = o[at]
          /\ \A j \in DOMAIN o \ {at, k} : new[j] = o[j]
      BY <1>3, <1>4, <2>1, <3>1
    <3>3. QED
      BY <2>4, <3>1, <3>2, Swapped
  <2>6. QED
    BY <2>3, <2>4, <2>5 DEF OrderFine
<1>8. OrderFine(new, tab[t].release)
  BY <1>1, <1>7
<1>9. PICK h : h = tab[t].hidden
  OBVIOUS
<1>10. PICK z : z = stored.hidden
  OBVIOUS
<1>11. tab' = [tab EXCEPT ![t].order = new, ![t].hidden = h]
  BY <1>3, <1>4, <1>5, <1>9, PartOfTable, ZenonT(30)
<1>12. C!Persisted([stored EXCEPT !.order = new, !.hidden = z])
  BY <1>3, <1>4, <1>5, <1>10, PartOfTable
<1>13. QED
  <2>1. new \in Seq(C!AllIds) /\ C!IsInjective(new)
    BY <1>7, OrderOfAll
  <2>2. z \subseteq C!AllIds
    BY <1>10 DEF ColumnInv, StoredFine
  <2>3. h \subseteq C!AllIds \ {Pinned}
    BY <1>6, <1>9
  <2>4. QED
    BY <1>5, <1>8, <1>11, <1>12, <2>1, <2>2, <2>3, OrderKept

\* A column is hidden, or shown again.
LEMMA ToggleKept ==
    ASSUME ColumnInv, NEW t \in Tabs, NEW c \in C!AllIds, C!ToggleHidden(t, c)
    PROVE  ColumnInv'
<1>1. PICK r \in 1..Len(Releases) : r = tab[t].release
  BY OpenTable DEF C!ToggleHidden
<1>2. PICK o : o = tab[t].order
  OBVIOUS
<1>3. PICK b : b = stored.order
  OBVIOUS
<1>4. PICK g : g = tab[t].hidden
  OBVIOUS
<1>5. PICK h : h = IF c \in g THEN g \ {c} ELSE g \cup {c}
  OBVIOUS
<1>6. C!Edit(t) /\ dragged' = dragged /\ c \in C!Ids(r) \ {Pinned} /\ C!SetHidden(t, h)
  BY <1>1, <1>4, <1>5 DEF C!ToggleHidden
<1>7. OrderFine(o, r) /\ g \subseteq C!AllIds \ {Pinned}
  BY <1>1, <1>2, <1>4, <1>6, OpenTable DEF TableFine
<1>8. h \subseteq C!AllIds \ {Pinned}
  BY <1>5, <1>6, <1>7
<1>9. OrderFine(o, tab[t].release)
  BY <1>1, <1>7
<1>10. b \in Seq(C!AllIds) /\ C!IsInjective(b)
  BY <1>3 DEF ColumnInv, StoredFine
<1>11. tab' = [tab EXCEPT ![t].order = o, ![t].hidden = h]
  BY <1>2, <1>6, PartOfTable DEF C!SetHidden
<1>12. C!Persisted([stored EXCEPT !.order = b, !.hidden = h])
  BY <1>3, <1>6, PartOfTable DEF C!SetHidden
<1>13. h \subseteq C!AllIds
  BY <1>8
<1>14. QED
  BY <1>6, <1>8, <1>9, <1>10, <1>11, <1>12, <1>13, OrderKept

\* The columns are put back.
LEMMA ResetColumnsKept ==
    ASSUME ColumnInv, NEW t \in Tabs, C!ResetColumns(t)
    PROVE  ColumnInv'
<1>1. PICK r \in 1..Len(Releases) : r = tab[t].release
  BY OpenTable DEF C!ResetColumns
<1>2. PICK o : o = Releases[r].order
  OBVIOUS
<1>3. OrderFine(o, r)
  BY <1>2, ReleaseFine
<1>4. OrderFine(o, tab[t].release)
  BY <1>1, <1>3
<1>5. o \in Seq(C!AllIds) /\ C!IsInjective(o)
  BY <1>3, OrderOfAll
<1>6. PICK h : h = {}
  OBVIOUS
<1>7. h \subseteq C!AllIds \ {Pinned} /\ h \subseteq C!AllIds
  BY <1>6
<1>8. /\ C!Edit(t) /\ dragged' = dragged
      /\ tab' = [tab EXCEPT ![t].order = o, ![t].hidden = h]
      /\ C!Persisted([stored EXCEPT !.order = o, !.hidden = h])
  BY <1>1, <1>2, <1>6 DEF C!ResetColumns
<1>9. QED
  BY <1>4, <1>5, <1>7, <1>8, OrderKept

\* Columns: every step of a table, of its storage or of a deployment preserves
\* their invariant.
LEMMA ColumnKept == ColumnInv /\ [C!Next]_columnVars => ColumnInv'
<1> SUFFICES ASSUME ColumnInv, [C!Next]_columnVars PROVE ColumnInv'
  OBVIOUS
<1>1. CASE UNCHANGED columnVars
  BY <1>1 DEF columnVars, ColumnInv, StoredFine, TableFine, OrderFine, WidthsFine
<1>2. ASSUME NEW r \in 1..Len(Releases), C!Deploy(r) PROVE ColumnInv'
  BY <1>2 DEF C!Deploy, ColumnInv, StoredFine, TableFine, OrderFine, WidthsFine
<1>3. ASSUME NEW t \in Tabs, C!Unmount(t) PROVE ColumnInv'
  <2>1. tab' = [tab EXCEPT ![t] = C!Closed] /\ UNCHANGED <<release, stored, dragged, edits>>
    BY <1>3 DEF C!Unmount
  <2>2. /\ dragged \subseteq dragged' /\ dragged' \subseteq C!AllIds
        /\ StoredFine(stored', dragged') /\ edits' \in 0..MaxEdits
        /\ release' \in 1..Len(Releases)
    BY <2>1 DEF ColumnInv
  <2>3. QED
    BY <2>1, <2>2, TablePut
<1>4. ASSUME NEW t \in Tabs, NEW c \in C!AllIds,
             \/ \E x \in Sizes : C!Resize(t, c, x)
             \/ \E d \in {-1, 1} : C!MoveColumn(t, c, d)
             \/ C!ToggleHidden(t, c)
      PROVE  ColumnInv'
  BY <1>4, ResizeKept, MoveKept, ToggleKept
<1>5. QED
  <2>1. ASSUME C!Next PROVE ColumnInv'
    <3>1. \/ \E r \in 1..Len(Releases) : C!Deploy(r)
          \/ \E t \in Tabs : \/ \E readable \in BOOLEAN : C!Mount(t, readable)
                            \/ C!Unmount(t) \/ C!ResetWidths(t) \/ C!ResetColumns(t)
                            \/ \E c \in C!AllIds :
                                 \/ \E x \in Sizes : C!Resize(t, c, x)
                                 \/ \E d \in {-1, 1} : C!MoveColumn(t, c, d)
                                 \/ C!ToggleHidden(t, c)
      BY <2>1 DEF C!Next
    <3>2. QED
      BY <1>2, <1>3, <1>4, <3>1, MountKept, ResetWidthsKept, ResetColumnsKept
  <2>2. QED
    BY <1>1, <2>1

\* Columns: it holds at first.
LEMMA ColumnInitially == C!Init => ColumnInv
<1> SUFFICES ASSUME C!Init PROVE ColumnInv
  OBVIOUS
<1>1. Len(Releases) \in Nat \ {0} /\ MaxEdits \in Nat
  BY SystemAssumption DEF C!ReleasesAssumption
<1>2. <<>> \in Seq(C!AllIds) /\ C!IsInjective(<<>>)
  BY DEF C!IsInjective
<1>3. /\ release = 1 /\ dragged = {} /\ edits = 0
      /\ stored = [widths |-> <<>>, order |-> <<>>, hidden |-> {}]
      /\ tab = [t \in Tabs |-> C!Closed]
  BY DEF C!Init
<1>4. StoredFine(stored, dragged)
  <2>1. /\ stored.widths = <<>> /\ stored.order = <<>> /\ stored.hidden = {}
    BY <1>3
  <2>2. DOMAIN stored.widths \subseteq dragged
    BY <2>1
  <2>3. stored = [widths |-> stored.widths, order |-> stored.order, hidden |-> stored.hidden]
    BY <1>3, <2>1
  <2>4. QED
    BY <1>2, <2>1, <2>2, <2>3 DEF StoredFine
<1>5. QED
  BY <1>1, <1>3, <1>4 DEF ColumnInv

\* Columns: a table with its invariant follows its release.
LEMMA ColumnsFollow == ColumnInv => C!TypeOK /\ C!ColumnsFollowRelease
<1> SUFFICES ASSUME ColumnInv PROVE C!TypeOK /\ C!ColumnsFollowRelease
  OBVIOUS
<1>1. ASSUME NEW t \in Tabs, C!Open(t)
      PROVE  /\ C!Ids(tab[t].release) \subseteq DOMAIN tab[t].widths
             /\ tab[t].hidden \subseteq C!AllIds /\ Pinned \notin tab[t].hidden
             /\ C!ToSet(tab[t].order) = C!Ids(tab[t].release)
             /\ C!IsInjective(tab[t].order)
             /\ \A c \in C!Ids(tab[t].release) \ dragged :
                  tab[t].widths[c] = C!Default(tab[t].release)[c]
  <2>1. TableFine(tab[t], dragged)
    BY <1>1 DEF ColumnInv, C!Open
  <2>2. QED
    BY <2>1 DEF TableFine, WidthsFine, OrderFine
<1>2. /\ DOMAIN stored.widths \subseteq C!AllIds /\ stored.hidden \subseteq C!AllIds
      /\ C!ToSet(stored.order) \subseteq C!AllIds
  <2>1. StoredFine(stored, dragged) /\ dragged \subseteq C!AllIds
    BY DEF ColumnInv
  <2>2. C!ToSet(stored.order) \subseteq C!AllIds
    BY <2>1, Elements DEF StoredFine
  <2>3. QED
    BY <2>1, <2>2 DEF StoredFine
<1>3. C!TypeOK
  BY <1>1, <1>2 DEF C!TypeOK, ColumnInv
<1>4. C!ColumnsFollowRelease
  BY <1>1 DEF C!ColumnsFollowRelease
<1>5. QED
  BY <1>3, <1>4
-----------------------------------------------------------------------------
(* The timeline.                                                           *)

\* The sizes Timeline counts with.
LEMMA SameSize == ASSUME NEW X PROVE M!Cardinality(X) = Cardinality(X)
BY DEF M!Cardinality, Cardinality, M!IsFiniteSet, IsFiniteSet

\* Events with times, and some of them.
Timed(events, some) ==
    IsFiniteSet(some) /\ \A i \in some : i \in Int /\ events[i].time \in Int

\* Of two events one is before the other.
LEMMA BeforeOrders ==
    ASSUME NEW ev, NEW some, Timed(ev, some)
    PROVE  /\ \A i \in some : ~M!Before(ev, i, i)
           /\ \A i, j \in some : M!Before(ev, i, j) => ~M!Before(ev, j, i)
           /\ \A i, j \in some : i = j \/ M!Before(ev, i, j) \/ M!Before(ev, j, i)
           /\ \A i, j, k \in some :
                M!Before(ev, i, j) /\ M!Before(ev, j, k) => M!Before(ev, i, k)
           /\ \A i, j \in some : M!Before(ev, i, j) => ev[i].time <= ev[j].time
<1>1. \A i \in some : i \in Int /\ ev[i].time \in Int
  BY DEF Timed
<1>2. ASSUME NEW i \in some, NEW j \in some
      PROVE  /\ ~M!Before(ev, i, i)
             /\ M!Before(ev, i, j) => ~M!Before(ev, j, i)
             /\ i = j \/ M!Before(ev, i, j) \/ M!Before(ev, j, i)
             /\ M!Before(ev, i, j) => ev[i].time <= ev[j].time
  BY <1>1 DEF M!Before
<1>3. ASSUME NEW i \in some, NEW j \in some, NEW k \in some,
             M!Before(ev, i, j), M!Before(ev, j, k)
      PROVE  M!Before(ev, i, k)
  BY <1>1, <1>3 DEF M!Before
<1>4. QED
  BY <1>2, <1>3

\* The events before one.
Earlier(ev, some, i) == {j \in some : M!Before(ev, j, i)}

\* How many they are tells the place of an event.
LEMMA PlacesDiffer ==
    ASSUME NEW ev, NEW some, Timed(ev, some)
    PROVE  /\ Cardinality(some) \in Nat
           /\ \A i \in some : Cardinality(Earlier(ev, some, i)) \in 0..Cardinality(some) - 1
           /\ \A i, j \in some : M!Before(ev, i, j) =>
                Cardinality(Earlier(ev, some, i)) < Cardinality(Earlier(ev, some, j))
           /\ \A i, j \in some :
                Cardinality(Earlier(ev, some, i)) = Cardinality(Earlier(ev, some, j)) => i = j
<1>1. IsFiniteSet(some) /\ Cardinality(some) \in Nat
  BY FS_CardinalityType DEF Timed
<1>2. ASSUME NEW i \in some
      PROVE  /\ Earlier(ev, some, i) \in SUBSET some /\ i \notin Earlier(ev, some, i)
             /\ IsFiniteSet(Earlier(ev, some, i))
             /\ Cardinality(Earlier(ev, some, i)) \in 0..Cardinality(some) - 1
  <2>1. Earlier(ev, some, i) \in SUBSET some /\ i \notin Earlier(ev, some, i)
    BY BeforeOrders DEF Earlier
  <2>2. /\ IsFiniteSet(Earlier(ev, some, i))
        /\ Cardinality(Earlier(ev, some, i)) <= Cardinality(some)
        /\ Cardinality(some) = Cardinality(Earlier(ev, some, i)) => some = Earlier(ev, some, i)
    BY <1>1, <2>1, FS_Subset
  <2>3. Cardinality(Earlier(ev, some, i)) \in Nat
    BY <2>2, FS_CardinalityType
  <2>4. QED
    BY <1>1, <2>1, <2>2, <2>3
<1>3. ASSUME NEW i \in some, NEW j \in some, M!Before(ev, i, j)
      PROVE  Cardinality(Earlier(ev, some, i)) < Cardinality(Earlier(ev, some, j))
  <2>1. i \in Earlier(ev, some, j) /\ i \notin Earlier(ev, some, i)
    BY <1>2, <1>3 DEF Earlier
  <2>2. Earlier(ev, some, i) \in SUBSET Earlier(ev, some, j)
    BY <1>3, BeforeOrders DEF Earlier
  <2>3. /\ Cardinality(Earlier(ev, some, i)) <= Cardinality(Earlier(ev, some, j))
        /\ Cardinality(Earlier(ev, some, j)) = Cardinality(Earlier(ev, some, i)) =>
             Earlier(ev, some, j) = Earlier(ev, some, i)
    BY <1>2, <2>2, FS_Subset
  <2>4. QED
    BY <1>1, <1>2, <2>1, <2>3
<1>4. ASSUME NEW i \in some, NEW j \in some,
             Cardinality(Earlier(ev, some, i)) = Cardinality(Earlier(ev, some, j))
      PROVE  i = j
  <2>1. i = j \/ M!Before(ev, i, j) \/ M!Before(ev, j, i)
    BY BeforeOrders
  <2>2. QED
    BY <1>1, <1>2, <1>3, <1>4, <2>1
<1>5. QED
  BY <1>1, <1>2, <1>3, <1>4

\* Sorted lists all of the events, each once, in their order.
LEMMA Sorting ==
    ASSUME NEW ev, NEW some, Timed(ev, some), NEW n, n = Cardinality(some),
           NEW o, o = M!Sorted(ev, some)
    PROVE  /\ n \in Nat /\ DOMAIN o = 1..n
           /\ \A k \in 1..n : o[k] \in some
           /\ \A k, l \in 1..n : k < l => M!Before(ev, o[k], o[l])
           /\ \A i \in some : \E k \in 1..n : o[k] = i
<1> DEFINE place == [i \in some |-> Cardinality(Earlier(ev, some, i))]
<1>1. n \in Nat /\ IsFiniteSet(some)
  BY PlacesDiffer DEF Timed
<1>2. place \in Injection(some, 0..n - 1)
  <2>1. place \in [some -> 0..n - 1]
    BY PlacesDiffer
  <2>2. \A i, j \in some : place[i] = place[j] => i = j
    BY PlacesDiffer
  <2>3. QED
    BY <2>1, <2>2 DEF Injection, IsInjective
<1>3. IsFiniteSet(0..n - 1) /\ Cardinality(0..n - 1) = n
  <2>1. 0 \in Int /\ n - 1 \in Int
    BY <1>1
  <2>2. /\ IsFiniteSet(0..n - 1)
        /\ Cardinality(0..n - 1) = IF 0 > n - 1 THEN 0 ELSE (n - 1) - 0 + 1
    BY <2>1, FS_Interval, Zenon
  <2>3. QED
    BY <1>1, <2>2
<1>4. place \in Surjection(some, 0..n - 1)
  <2> HIDE DEF place
  <2>1. QED
    BY <1>2, <1>3, FS_Injection
<1>5. \A k \in 1..n : \E i \in some : Cardinality(Earlier(ev, some, i)) = k - 1
  <2> TAKE k \in 1..n
  <2>1. k - 1 \in 0..n - 1
    BY <1>1
  <2>2. PICK i \in some : place[i] = k - 1
    <3> HIDE DEF place
    <3>1. QED
      BY <1>4, <2>1 DEF Surjection
  <2>3. QED
    BY <2>2
<1>6. DOMAIN o = 1..n
  BY SameSize DEF M!Sorted
<1>7. ASSUME NEW k \in 1..n PROVE o[k] \in some /\ Cardinality(Earlier(ev, some, o[k])) = k - 1
  <2>1. o[k] = CHOOSE i \in some : Cardinality(Earlier(ev, some, i)) = k - 1
    BY SameSize DEF M!Sorted, Earlier
  <2>2. QED
    BY <1>5, <2>1
<1>8. ASSUME NEW k \in 1..n, NEW l \in 1..n, k < l PROVE M!Before(ev, o[k], o[l])
  <2>1. o[k] \in some /\ o[l] \in some
    BY <1>7
  <2>2. Cardinality(Earlier(ev, some, o[k])) < Cardinality(Earlier(ev, some, o[l]))
    BY <1>1, <1>7, <1>8
  <2>3. o[k] # o[l] /\ ~M!Before(ev, o[l], o[k])
    <3>1. ASSUME M!Before(ev, o[l], o[k]) PROVE FALSE
      <4>1. Cardinality(Earlier(ev, some, o[l])) < Cardinality(Earlier(ev, some, o[k]))
        BY <2>1, <3>1, PlacesDiffer
      <4>2. QED
        BY <1>1, <1>7, <1>8, <4>1
    <3>2. o[k] # o[l]
      BY <1>1, <1>7, <1>8
    <3>3. QED
      BY <3>1, <3>2
  <2>4. QED
    BY <2>1, <2>3, BeforeOrders
<1>9. ASSUME NEW i \in some PROVE \E k \in 1..n : o[k] = i
  <2>1. Cardinality(Earlier(ev, some, i)) \in 0..n - 1
    BY PlacesDiffer
  <2>2. PICK k \in 1..n : k - 1 = Cardinality(Earlier(ev, some, i))
    <3>1. Cardinality(Earlier(ev, some, i)) + 1 \in 1..n
      BY <1>1, <2>1
    <3>2. (Cardinality(Earlier(ev, some, i)) + 1) - 1 = Cardinality(Earlier(ev, some, i))
      BY <1>1, <2>1
    <3>3. QED
      BY <3>1, <3>2
  <2>3. o[k] \in some /\ Cardinality(Earlier(ev, some, o[k])) = Cardinality(Earlier(ev, some, i))
    BY <1>7, <2>2
  <2>4. QED
    BY <2>3, PlacesDiffer
<1>10. QED
  BY <1>1, <1>6, <1>7, <1>8, <1>9

\* Segments.
Kinds == {"waiting", "active", "hold", "wrapup"}
Segments == [kind : Kinds, start : Int, end : Int]

\* One after the other, none ends after the last, and none before it starts.
Tiles(g) ==
    /\ g \in Seq(Segments)
    /\ \A k \in 1..Len(g) - 1 : g[k].end = g[k + 1].start
    /\ \A k \in 1..Len(g) : g[k].end <= g[Len(g)].end
Forward(g) == \A k \in 1..Len(g) : g[k].start <= g[k].end

\* From a to b somebody talks or holds, and holds when the events say so.
TalksFrom(ev, own, g, a, b) ==
    /\ a \in 1..Len(g) /\ b \in 1..Len(g) /\ a <= b
    /\ \A k \in 1..Len(g) : g[k].kind \in {"active", "hold"} <=> k \in a..b
    /\ \A k \in a..b : \A m \in g[k].start..g[k].end - 1 :
         g[k].kind = "hold" <=> M!OnHold(ev, own, g[a].start, g[b].end, m)

\* The order o of the n toggles of a window, and the segments between them.
CarvedAs(ev, own, s, t, n, o) ==
    /\ \A k \in 1..n : o[k] \in M!Toggles(ev, own, s, t)
    /\ \A k, l \in 1..n : k < l => M!Before(ev, o[k], o[l])
    /\ \A i \in M!Toggles(ev, own, s, t) : \E k \in 1..n : o[k] = i
    /\ M!SplitHold(ev, own, s, t)
       = [i \in 1..n + 1 |->
            [kind |-> IF i > 1 /\ ev[o[i - 1]].type = "hold" THEN "hold" ELSE "active",
             start |-> IF i = 1 THEN s ELSE ev[o[i - 1]].time,
             end |-> IF i = n + 1 THEN t ELSE ev[o[i]].time]]

\* A window's segments, and the order of its toggles.
LEMMA CarvedFrom ==
    ASSUME NEW ev, NEW own, Timed(ev, own), NEW s \in Int, NEW t \in Int
    PROVE  \E n \in Nat : \E o : CarvedAs(ev, own, s, t, n, o)
<1> DEFINE some == M!Toggles(ev, own, s, t)
<1>1. Timed(ev, some)
  <2>1. some \in SUBSET own
    BY DEF M!Toggles
  <2>2. IsFiniteSet(some)
    BY <2>1, FS_Subset DEF Timed
  <2>3. QED
    BY <2>1, <2>2 DEF Timed
<1> HIDE DEF some
<1>2. PICK n : n = Cardinality(some)
  OBVIOUS
<1>3. PICK o : o = M!Sorted(ev, some)
  OBVIOUS
<1>4. /\ n \in Nat /\ DOMAIN o = 1..n
      /\ \A k \in 1..n : o[k] \in some
      /\ \A k, l \in 1..n : k < l => M!Before(ev, o[k], o[l])
      /\ \A i \in some : \E k \in 1..n : o[k] = i
  BY <1>1, <1>2, <1>3, Sorting
<1>5. PICK toggles : toggles = [k \in DOMAIN o |-> ev[o[k]]]
  OBVIOUS
<1>6. M!SplitHold(ev, own, s, t) = M!Carve(toggles, s, t)
  BY <1>3, <1>5 DEF M!SplitHold, some
<1>7. Len(toggles) = n /\ \A k \in 1..n : toggles[k] = ev[o[k]]
  <2>1. toggles \in [1..n -> {ev[i] : i \in some}]
    BY <1>4, <1>5
  <2>2. toggles \in Seq({ev[i] : i \in some}) /\ DOMAIN toggles = 1..n
    BY <1>4, <2>1
  <2>3. QED
    BY <1>4, <1>5, <2>2, LenProperties
<1>8. M!Carve(toggles, s, t)
      = [i \in 1..n + 1 |->
           [kind |-> IF i > 1 /\ ev[o[i - 1]].type = "hold" THEN "hold" ELSE "active",
            start |-> IF i = 1 THEN s ELSE ev[o[i - 1]].time,
            end |-> IF i = n + 1 THEN t ELSE ev[o[i]].time]]
  <2>1. M!Carve(toggles, s, t)
        = [i \in 1..n + 1 |->
             [kind |-> IF i > 1 /\ toggles[i - 1].type = "hold" THEN "hold" ELSE "active",
              start |-> IF i = 1 THEN s ELSE toggles[i - 1].time,
              end |-> IF i = n + 1 THEN t ELSE toggles[i].time]]
    BY <1>7 DEF M!Carve, M!Segment
  <2>2. ASSUME NEW i \in 1..n + 1
        PROVE  /\ i > 1 => toggles[i - 1] = ev[o[i - 1]]
               /\ i # 1 => toggles[i - 1] = ev[o[i - 1]]
               /\ i # n + 1 => toggles[i] = ev[o[i]]
    <3>1. (i > 1 \/ i # 1) => i - 1 \in 1..n
      BY <1>4
    <3>2. i # n + 1 => i \in 1..n
      BY <1>4
    <3>3. QED
      BY <1>7, <3>1, <3>2
  <2>3. ASSUME NEW i \in 1..n + 1
        PROVE  [kind |-> IF i > 1 /\ toggles[i - 1].type = "hold" THEN "hold" ELSE "active",
                start |-> IF i = 1 THEN s ELSE toggles[i - 1].time,
                end |-> IF i = n + 1 THEN t ELSE toggles[i].time]
               = [kind |-> IF i > 1 /\ ev[o[i - 1]].type = "hold" THEN "hold" ELSE "active",
                  start |-> IF i = 1 THEN s ELSE ev[o[i - 1]].time,
                  end |-> IF i = n + 1 THEN t ELSE ev[o[i]].time]
    BY <2>2
  <2>4. QED
    BY <2>1, <2>3
<1>9. M!SplitHold(ev, own, s, t)
      = [i \in 1..n + 1 |->
           [kind |-> IF i > 1 /\ ev[o[i - 1]].type = "hold" THEN "hold" ELSE "active",
            start |-> IF i = 1 THEN s ELSE ev[o[i - 1]].time,
            end |-> IF i = n + 1 THEN t ELSE ev[o[i]].time]]
  BY <1>6, <1>8
<1>10. /\ \A k \in 1..n : o[k] \in M!Toggles(ev, own, s, t)
       /\ \A k, l \in 1..n : k < l => M!Before(ev, o[k], o[l])
       /\ \A i \in M!Toggles(ev, own, s, t) : \E k \in 1..n : o[k] = i
  BY <1>4 DEF some
<1>11. CarvedAs(ev, own, s, t, n, o)
  BY <1>9, <1>10, Zenon DEF CarvedAs
<1>12. QED
  BY <1>4, <1>11

\* The segments of a window tile it, forward unless it ends before it starts, and
\* are on hold when the events say so.
LEMMA Carved ==
    ASSUME NEW ev, NEW own, Timed(ev, own), NEW s \in Int, NEW t \in Int,
           NEW g, g = M!SplitHold(ev, own, s, t)
    PROVE  /\ Tiles(g) /\ Len(g) >= 1 /\ g[1].start = s /\ g[Len(g)].end = t
           /\ s <= t => Forward(g)
           /\ TalksFrom(ev, own, g, 1, Len(g))
<1> DEFINE some == M!Toggles(ev, own, s, t)
<1>a. PICK n \in Nat : \E o : CarvedAs(ev, own, s, t, n, o)
  BY CarvedFrom
<1>b. PICK o : CarvedAs(ev, own, s, t, n, o)
  BY <1>a
<1>1. /\ \A k \in 1..n : o[k] \in some
      /\ \A k, l \in 1..n : k < l => M!Before(ev, o[k], o[l])
      /\ \A i \in some : \E k \in 1..n : o[k] = i
      /\ g = [i \in 1..n + 1 |->
                 [kind |-> IF i > 1 /\ ev[o[i - 1]].type = "hold" THEN "hold" ELSE "active",
                  start |-> IF i = 1 THEN s ELSE ev[o[i - 1]].time,
                  end |-> IF i = n + 1 THEN t ELSE ev[o[i]].time]]
  BY <1>b, Zenon DEF CarvedAs
<1>2. Timed(ev, some)
  <2>1. some \in SUBSET own
    BY DEF M!Toggles
  <2>2. IsFiniteSet(some)
    BY <2>1, FS_Subset DEF Timed
  <2>3. QED
    BY <2>1, <2>2 DEF Timed
<1>3. \A i \in some : /\ i \in own /\ ev[i].type \in {"hold", "resume"} /\ ev[i].time \in Int
                      /\ s < ev[i].time /\ ev[i].time < t
  BY <1>2 DEF M!Toggles, M!IsToggle, Timed
<1> HIDE DEF some
<1>4. \A k \in 1..n : /\ ev[o[k]].time \in Int /\ s < ev[o[k]].time /\ ev[o[k]].time < t
                      /\ ev[o[k]].type \in {"hold", "resume"}
  BY <1>1, <1>3
<1>5. \A k, l \in 1..n : k < l => ev[o[k]].time <= ev[o[l]].time
  BY <1>1, <1>2, BeforeOrders
<1>6. /\ DOMAIN g = 1..n + 1
      /\ \A i \in 1..n + 1 :
           /\ g[i].kind = IF i > 1 /\ ev[o[i - 1]].type = "hold" THEN "hold" ELSE "active"
           /\ g[i].start = IF i = 1 THEN s ELSE ev[o[i - 1]].time
           /\ g[i].end = IF i = n + 1 THEN t ELSE ev[o[i]].time
           /\ g[i] \in Segments
  <2>1. ASSUME NEW i \in 1..n + 1
        PROVE  g[i] = [kind |-> IF i > 1 /\ ev[o[i - 1]].type = "hold" THEN "hold" ELSE "active",
                       start |-> IF i = 1 THEN s ELSE ev[o[i - 1]].time,
                       end |-> IF i = n + 1 THEN t ELSE ev[o[i]].time]
    BY <1>1
  <2>2. ASSUME NEW i \in 1..n + 1
        PROVE  /\ (IF i = 1 THEN s ELSE ev[o[i - 1]].time) \in Int
               /\ (IF i = n + 1 THEN t ELSE ev[o[i]].time) \in Int
    <3>1. (i # 1 => i - 1 \in 1..n) /\ (i # n + 1 => i \in 1..n)
      OBVIOUS
    <3>2. QED
      BY <1>4, <3>1
  <2>3. ASSUME NEW i \in 1..n + 1
        PROVE  (IF i > 1 /\ ev[o[i - 1]].type = "hold" THEN "hold" ELSE "active") \in Kinds
    BY DEF Kinds
  <2>4. QED
    BY <1>1, <2>1, <2>2, <2>3 DEF Segments
<1>7. g \in Seq(Segments) /\ Len(g) = n + 1
  <2>1. n + 1 \in Nat
    OBVIOUS
  <2>2. g \in [1..n + 1 -> Segments]
    BY <1>1, <1>6
  <2>3. g \in Seq(Segments)
    BY <2>1, <2>2
  <2>4. QED
    BY <1>6, <2>1, <2>3, LenProperties
<1>8. Tiles(g)
  <2>1. \A k \in 1..n : g[k].end = g[k + 1].start
    <3> TAKE k \in 1..n
    <3>1. k \in 1..n + 1 /\ k + 1 \in 1..n + 1 /\ k # n + 1 /\ k + 1 # 1 /\ (k + 1) - 1 = k
      OBVIOUS
    <3>2. QED
      BY <1>6, <3>1
  <2>2. \A k \in 1..n + 1 : g[k].end <= g[n + 1].end
    <3>1. \A k \in 1..n + 1 : k = n + 1 \/ k \in 1..n
      OBVIOUS
    <3>2. n + 1 \in 1..n + 1
      OBVIOUS
    <3>3. QED
      BY <1>4, <1>6, <3>1, <3>2, SMTT(30)
  <2>3. QED
    BY <1>7, <2>1, <2>2 DEF Tiles
<1>9. ASSUME s <= t PROVE Forward(g)
  <2>1. ASSUME NEW k \in 1..n + 1 PROVE g[k].start <= g[k].end
    <3>1. (k # 1 => k - 1 \in 1..n) /\ (k # n + 1 => k \in 1..n) /\ k - 1 < k
      OBVIOUS
    <3>2. CASE k = 1
      <4>1. g[k].start = s
        BY <1>6, <3>2
      <4>2. CASE k = n + 1
        <5>1. g[k].end = t
          BY <1>6, <4>2
        <5>2. QED
          BY <1>9, <4>1, <5>1
      <4>3. CASE k # n + 1
        <5>1. k \in 1..n /\ g[k].end = ev[o[k]].time
          BY <1>6, <3>1, <4>3
        <5>2. QED
          BY <1>4, <4>1, <5>1
      <4>4. QED
        BY <4>2, <4>3
    <3>3. CASE k # 1 /\ k = n + 1
      BY <1>4, <1>6, <3>1, <3>3
    <3>4. CASE k # 1 /\ k # n + 1
      BY <1>4, <1>5, <1>6, <3>1, <3>4
    <3>5. QED
      BY <3>2, <3>3, <3>4
  <2>2. QED
    BY <1>7, <2>1 DEF Forward
<1>10. g[1].start = s /\ g[n + 1].end = t
  <2>1. 1 \in 1..n + 1 /\ n + 1 \in 1..n + 1
    OBVIOUS
  <2>2. QED
    BY <1>6, <2>1
<1>11. ASSUME NEW k \in 1..n + 1, NEW m \in g[k].start..g[k].end - 1
       PROVE  g[k].kind = "hold" <=> M!OnHold(ev, own, s, t, m)
  <2> DEFINE gone == {i \in some : ev[i].time <= m}
  <2>1. M!OnHold(ev, own, s, t, m)
        <=> \E i \in gone : ev[i].type = "hold" /\ \A j \in gone \ {i} : M!Before(ev, j, i)
    BY DEF M!OnHold, some
  <2>2. (k # 1 => k - 1 \in 1..n) /\ (k # n + 1 => k \in 1..n) /\ k \in Nat /\ n \in Nat
    OBVIOUS
  <2>3. m \in Int /\ g[k].start <= m /\ m < g[k].end
    BY <1>6 DEF Segments
  \* The toggles that are past are those up to the one the segment starts with.
  <2>4. \A l \in 1..n : o[l] \in gone <=> l <= k - 1
    <3> TAKE l \in 1..n
    <3>1. o[l] \in some
      BY <1>1
    <3>2. CASE l <= k - 1
      <4>1. k # 1 /\ ev[o[l]].time <= ev[o[k - 1]].time
        <5>1. k # 1 /\ k - 1 \in 1..n /\ (l = k - 1 \/ l < k - 1)
          BY <2>2, <3>2
        <5>2. QED
          BY <1>4, <1>5, <5>1
      <4>2. g[k].start = ev[o[k - 1]].time
        BY <1>6, <4>1
      <4>3. ev[o[l]].time <= m
        BY <1>4, <2>2, <2>3, <4>1, <4>2
      <4>4. QED
        BY <3>1, <3>2, <4>3
    <3>3. CASE ~(l <= k - 1)
      <4>1. k # n + 1 /\ k \in 1..n /\ (l = k \/ k < l)
        BY <2>2, <3>3
      <4>2. ev[o[k]].time <= ev[o[l]].time /\ g[k].end = ev[o[k]].time
        BY <1>4, <1>5, <1>6, <4>1
      <4>3. ~(ev[o[l]].time <= m)
        BY <1>4, <2>3, <4>1, <4>2
      <4>4. QED
        BY <3>3, <4>3
    <3>4. QED
      BY <3>2, <3>3
  <2>5. \A i \in gone : \E l \in 1..n : o[l] = i /\ l <= k - 1
    BY <1>1, <2>4
  <2>6. gone \subseteq some
    OBVIOUS
  <2> HIDE DEF gone
  <2>7. CASE k = 1
    <3>1. gone = {}
      BY <2>2, <2>5, <2>7
    <3>2. g[k].kind # "hold"
      BY <1>6, <2>7
    <3>3. QED
      BY <2>1, <3>1, <3>2
  <2>8. CASE k # 1
    <3>1. /\ k - 1 \in 1..n /\ o[k - 1] \in gone /\ o[k - 1] \in some
      BY <2>2, <2>4, <2>6, <2>8
    <3>2. g[k].kind = "hold" <=> ev[o[k - 1]].type = "hold"
      BY <1>6, <2>2, <2>8
    <3>3. \A j \in gone \ {o[k - 1]} : M!Before(ev, j, o[k - 1])
      <4> TAKE j \in gone \ {o[k - 1]}
      <4>1. PICK l \in 1..n : o[l] = j /\ l <= k - 1
        BY <2>5
      <4>2. l < k - 1
        BY <2>2, <4>1
      <4>3. QED
        BY <1>1, <3>1, <4>1, <4>2
    <3>4. ASSUME NEW i \in gone, ev[i].type = "hold",
                 \A j \in gone \ {i} : M!Before(ev, j, i)
          PROVE  i = o[k - 1]
      <4> SUFFICES ASSUME i # o[k - 1] PROVE FALSE
        OBVIOUS
      <4>1. M!Before(ev, i, o[k - 1]) /\ M!Before(ev, o[k - 1], i)
        BY <3>1, <3>3, <3>4
      <4>2. i \in some
        BY <2>6
      <4>3. QED
        BY <1>2, <3>1, <4>1, <4>2, BeforeOrders
    <3>5. QED
      BY <2>1, <3>1, <3>2, <3>3, <3>4
  <2>9. QED
    BY <2>7, <2>8
<1>12. TalksFrom(ev, own, g, 1, n + 1)
  <2>1. \A k \in 1..n + 1 : g[k].kind \in {"active", "hold"}
    BY <1>6
  <2>2. 1 \in 1..n + 1 /\ n + 1 \in 1..n + 1 /\ 1 <= n + 1
    OBVIOUS
  <2>3. QED
    BY <1>7, <1>10, <1>11, <2>1, <2>2 DEF TalksFrom
<1>13. QED
  BY <1>7, <1>8, <1>9, <1>10, <1>12

\* The time of the first event of a type, Null if there is none.
LEMMA FoundTime ==
    ASSUME Null \notin Int, NEW ev, NEW some \in SUBSET Nat,
           \A i \in some : ev[i].time \in Int, NEW type
    PROVE  /\ M!TimeOf(ev, some, type) \in Int \cup {Null}
           /\ M!TimeOf(ev, some, type) = Null <=> ~\E i \in some : ev[i].type = type
<1> DEFINE hits == {i \in some : ev[i].type = type}
<1>1. M!TimeOf(ev, some, type) = IF hits = {} THEN Null ELSE ev[M!Min(hits)].time
  BY DEF M!TimeOf
<1>2. hits \in SUBSET Nat /\ hits \subseteq some
  OBVIOUS
<1>3. hits = {} <=> ~\E i \in some : ev[i].type = type
  OBVIOUS
<1> HIDE DEF hits
<1>4. CASE hits = {}
  BY <1>1, <1>3, <1>4
<1>5. CASE hits # {}
  <2>1. M!Min(hits) \in hits
    <3>1. \E x \in hits : \A y \in hits : x <= y
      BY <1>2, <1>5, Least
    <3>2. QED
      BY <3>1 DEF M!Min
  <2>2. ev[M!Min(hits)].time \in Int
    BY <1>2, <2>1
  <2>3. M!TimeOf(ev, some, type) \in Int
    BY <1>1, <1>5, <2>2
  <2>4. QED
    BY <1>3, <1>5, <2>3
<1>6. QED
  BY <1>4, <1>5

\* What is read from a record is a time, or Null.
LEMMA Recorded ==
    ASSUME M!TimelineAssumption, NEW record \in Records,
           NEW i \in DOMAIN record.participants, NEW p, p = record.participants[i],
           NEW own, own = M!Own(record, p)
    PROVE  /\ Null \notin Int /\ record.start \in Int
           /\ record.inSource \in Int \cup {Null} /\ record.wrapUp \in Int \cup {Null}
           /\ p.join \in Int \cup {Null} /\ p.leave \in Int \cup {Null}
           /\ M!CallEnd(record) \in Int
           /\ own \in SUBSET Nat /\ DOMAIN record.events \in SUBSET Nat
           /\ own \subseteq DOMAIN record.events
           /\ Timed(record.events, own)
           /\ \A j \in DOMAIN record.events : record.events[j].time \in Int
<1>1. /\ Null \notin Int /\ record.start \in Int
      /\ {record.end, record.updated, record.inSource, record.wrapUp} \subseteq Int \cup {Null}
      /\ {p.join, p.leave} \subseteq Int \cup {Null}
      /\ Len(record.events) \in Nat /\ DOMAIN record.events = 1..Len(record.events)
      /\ \A j \in DOMAIN record.events : record.events[j].time \in Int
  BY DEF M!TimelineAssumption, M!Times
<1>2. own \subseteq DOMAIN record.events
  BY DEF M!Own
<1>3. M!CallEnd(record) \in Int
  BY <1>1 DEF M!CallEnd, M!Or
<1>4. IsFiniteSet(own)
  <2>1. IsFiniteSet(1..Len(record.events))
    BY <1>1, FS_Interval
  <2>2. QED
    BY <1>1, <1>2, <2>1, FS_Subset
<1>5. Timed(record.events, own)
  <2>1. \A j \in own : j \in Int /\ record.events[j].time \in Int
    BY <1>1, <1>2
  <2>2. QED
    BY <1>4, <2>1 DEF Timed
<1>6. DOMAIN record.events \in SUBSET Nat
  BY <1>1
<1>7. QED
  BY <1>1, <1>2, <1>3, <1>5, <1>6

\* The time findEvent returns.
LEMMA TimeFound ==
    ASSUME M!TimelineAssumption, NEW record \in Records,
           NEW i \in DOMAIN record.participants, NEW p, p = record.participants[i],
           NEW own, own = M!Own(record, p), NEW type
    PROVE  /\ M!FindTime(record.events, own, type) \in Int \cup {Null}
           /\ M!FindTime(record.events, own, type) = Null
              <=> ~\E j \in DOMAIN record.events : record.events[j].type = type
<1>1. /\ Null \notin Int /\ own \in SUBSET Nat /\ DOMAIN record.events \in SUBSET Nat
      /\ own \subseteq DOMAIN record.events
      /\ \A j \in DOMAIN record.events : record.events[j].time \in Int
  BY Recorded
<1>2. PICK ev : ev = record.events
  OBVIOUS
<1>3. /\ M!TimeOf(ev, own, type) \in Int \cup {Null}
      /\ M!TimeOf(ev, own, type) = Null <=> ~\E j \in own : ev[j].type = type
  BY <1>1, <1>2, FoundTime
<1>4. /\ M!TimeOf(ev, DOMAIN ev, type) \in Int \cup {Null}
      /\ M!TimeOf(ev, DOMAIN ev, type) = Null <=> ~\E j \in DOMAIN ev : ev[j].type = type
  BY <1>1, <1>2, FoundTime
<1>5. M!FindTime(ev, own, type) = IF M!TimeOf(ev, own, type) = Null
                                  THEN M!TimeOf(ev, DOMAIN ev, type)
                                  ELSE M!TimeOf(ev, own, type)
  BY DEF M!FindTime, M!Or
<1>6. QED
  BY <1>1, <1>2, <1>3, <1>4, <1>5

\* The segments of a row before the wrap-up: of whom nothing talks, or somebody
\* talks or holds from some segment to another.
Quiet(g) == \A k \in 1..Len(g) : g[k].kind \notin {"active", "hold"}
Talks(ev, own, g) == Quiet(g) \/ \E a \in Nat : \E b \in Nat : TalksFrom(ev, own, g, a, b)

RowFits(record, p, g) ==
    /\ Tiles(g)
    /\ \A k \in 1..Len(g) : g[k].kind # "wrapup"
    /\ ~M!IsMachine(p) => Len(g) >= 1
    /\ M!LeftEarly(record, p) \/ M!NegativeDuration(record) \/ Forward(g)
    /\ M!Sparse(record, p) \/ Talks(record.events, M!Own(record, p), g)

\* One segment on its own, or none.
LEMMA OneSegment ==
    ASSUME NEW kind \in Kinds, NEW s \in Int, NEW t \in Int,
           NEW g, g = << M!Segment(kind, s, t) >>
    PROVE  /\ Tiles(g) /\ Len(g) = 1
           /\ g[1].kind = kind /\ g[1].start = s /\ g[1].end = t
           /\ s <= t => Forward(g)
<1>1. M!Segment(kind, s, t) \in Segments
  BY DEF M!Segment, Segments
<1>2. g \in Seq(Segments) /\ Len(g) = 1 /\ g[1] = M!Segment(kind, s, t)
  BY <1>1
<1>3. g[1].kind = kind /\ g[1].start = s /\ g[1].end = t
  BY <1>2 DEF M!Segment
<1>4. \A k \in 1..1 : k = 1
  OBVIOUS
<1>5. Tiles(g)
  <2>1. \A k \in 1..Len(g) - 1 : FALSE
    BY <1>2
  <2>2. \A k \in 1..Len(g) : g[k].end <= g[Len(g)].end
    BY <1>2, <1>3, <1>4
  <2>3. QED
    BY <1>2, <2>1, <2>2 DEF Tiles
<1>6. s <= t => Forward(g)
  BY <1>2, <1>3, <1>4 DEF Forward
<1>7. QED
  BY <1>2, <1>3, <1>5, <1>6

\* No segment at all lies without gaps, and says nothing.
LEMMA NoSegment ==
    Tiles(<<>>) /\ Len(<<>>) = 0 /\ Forward(<<>>) /\ Quiet(<<>>)
<1>1. <<>> \in Seq(Segments) /\ Len(<<>>) = 0
  OBVIOUS
<1>2. \A k \in 1..0 : FALSE
  OBVIOUS
<1>3. \A k \in 1..0 - 1 : FALSE
  OBVIOUS
<1>4. Tiles(<<>>)
  BY <1>1, <1>2, <1>3 DEF Tiles
<1>5. Forward(<<>>) /\ Quiet(<<>>)
  BY <1>1, <1>2 DEF Forward, Quiet
<1>6. QED
  BY <1>1, <1>4, <1>5

\* An IVR's or a queue's row.
LEMMA MachineFits ==
    ASSUME M!TimelineAssumption, NEW record \in Records,
           NEW i \in DOMAIN record.participants, NEW p, p = record.participants[i],
           M!IsMachine(p), NEW g, g = M!SegmentsOf(record, p, M!Own(record, p))
    PROVE  RowFits(record, p, g)
<1>1. PICK entry, exit :
        /\ entry \in Int \cup {Null} /\ exit \in Int \cup {Null}
        /\ g = M!MachineSegments(record, entry, exit)
  <2> DEFINE entered == M!FindTime(record.events, M!Own(record, p),
                                   IF p.role = "ivr" THEN "ivr_entry" ELSE "queue_entry")
             left == M!FindTime(record.events, M!Own(record, p),
                                IF p.role = "ivr" THEN "ivr_exit" ELSE "queue_exit")
  <2>1. entered \in Int \cup {Null} /\ left \in Int \cup {Null}
    BY TimeFound
  <2>2. g = M!MachineSegments(record, entered, left)
    BY DEF M!SegmentsOf
  <2> HIDE DEF entered, left
  <2>3. QED
    BY <2>1, <2>2
<1>2. /\ Null \notin Int /\ record.start \in Int /\ record.inSource \in Int \cup {Null}
  BY Recorded
<1>3. "waiting" \in Kinds
  BY DEF Kinds
<1>4. CASE entry # Null
  <2>1. PICK t : t = M!Latest(M!Or(exit, entry), entry)
    OBVIOUS
  <2>2. entry \in Int /\ t \in Int /\ entry <= t
    BY <1>1, <1>2, <1>4, <2>1 DEF M!Latest, M!Or
  <2>3. g = << M!Segment("waiting", entry, t) >>
    BY <1>1, <1>4, <2>1 DEF M!MachineSegments
  <2>4. Tiles(g) /\ Len(g) = 1 /\ g[1].kind = "waiting" /\ Forward(g)
    BY <1>3, <2>2, <2>3, OneSegment
  <2>5. Quiet(g) /\ \A k \in 1..Len(g) : g[k].kind # "wrapup"
    <3>1. \A k \in 1..1 : k = 1
      OBVIOUS
    <3>2. QED
      BY <2>4, <3>1 DEF Quiet
  <2>6. QED
    BY <2>4, <2>5 DEF RowFits, Talks
<1>5. CASE entry = Null /\ record.inSource # Null
  <2>1. PICK t : t = record.start + record.inSource
    OBVIOUS
  <2>2. t \in Int /\ (~(record.inSource < 0) => record.start <= t)
    BY <1>2, <1>5, <2>1
  <2>3. g = << M!Segment("waiting", record.start, t) >>
    BY <1>1, <1>5, <2>1 DEF M!MachineSegments
  <2>4. /\ Tiles(g) /\ Len(g) = 1 /\ g[1].kind = "waiting"
        /\ record.start <= t => Forward(g)
    BY <1>2, <1>3, <2>2, <2>3, OneSegment
  <2>5. Quiet(g) /\ \A k \in 1..Len(g) : g[k].kind # "wrapup"
    <3>1. \A k \in 1..1 : k = 1
      OBVIOUS
    <3>2. QED
      BY <2>4, <3>1 DEF Quiet
  <2>6. M!NegativeDuration(record) \/ Forward(g)
    BY <1>5, <2>2, <2>4 DEF M!NegativeDuration
  <2>7. QED
    BY <2>4, <2>5, <2>6 DEF RowFits, Talks
<1>6. CASE entry = Null /\ record.inSource = Null
  <2>1. g = <<>>
    BY <1>1, <1>6 DEF M!MachineSegments
  <2>2. Tiles(g) /\ Len(g) = 0 /\ Forward(g) /\ Quiet(g)
    BY <2>1, NoSegment
  <2>3. \A k \in 1..Len(g) : g[k].kind # "wrapup"
    BY <2>2
  <2>4. QED
    BY <2>2, <2>3 DEF RowFits, Talks
<1>7. QED
  BY <1>4, <1>5, <1>6

\* What SplitHold returns, as the row of somebody who joined.
LEMMA SplitKinds ==
    ASSUME NEW ev, NEW own, NEW g, Tiles(g), TalksFrom(ev, own, g, 1, Len(g))
    PROVE  Talks(ev, own, g) /\ \A k \in 1..Len(g) : g[k].kind # "wrapup"
<1>1. 1 \in Nat /\ Len(g) \in Nat
  BY LenProperties DEF Tiles
<1>2. \A k \in 1..Len(g) : g[k].kind # "wrapup"
  BY <1>1 DEF TalksFrom
<1>3. QED
  BY <1>1, <1>2 DEF Talks

\* The row of somebody known by events: the wait, then the talk.
Waits(w, from) ==
    /\ Tiles(w) /\ Forward(w) /\ Quiet(w) /\ Len(w) \in {0, 1}
    /\ \A k \in 1..Len(w) : w[k].kind # "wrapup" /\ w[k].end = from
Speaks(ev, own, s, from) ==
    /\ Tiles(s) /\ Forward(s) /\ Len(s) >= 1 /\ s[1].start = from /\ from <= s[Len(s)].end
    /\ TalksFrom(ev, own, s, 1, Len(s))

\* A wait before what a participant says, the two in one row.
LEMMA WaitFits ==
    ASSUME NEW ev, NEW own, NEW w, NEW s, NEW from \in Int, NEW g, g = w \o s,
           Waits(w, from), Speaks(ev, own, s, from)
    PROVE  /\ Tiles(g) /\ Forward(g) /\ Len(g) >= 1 /\ Talks(ev, own, g)
           /\ \A k \in 1..Len(g) : g[k].kind # "wrapup"
<1>0. /\ Tiles(w) /\ Forward(w) /\ Quiet(w) /\ Len(w) \in {0, 1}
      /\ \A k \in 1..Len(w) : w[k].kind # "wrapup" /\ w[k].end = from
      /\ Tiles(s) /\ Forward(s) /\ Len(s) >= 1 /\ s[1].start = from /\ from <= s[Len(s)].end
      /\ TalksFrom(ev, own, s, 1, Len(s))
  BY DEF Waits, Speaks
<1>1. PICK n : n = Len(w)
  OBVIOUS
<1>2. PICK m : m = Len(s)
  OBVIOUS
<1>3. n \in {0, 1} /\ m \in Nat /\ m >= 1
  BY <1>0, <1>1, <1>2, LenProperties DEF Tiles
<1>4. /\ g \in Seq(Segments) /\ Len(g) = n + m
      /\ \A k \in 1..n + m : g[k] = IF k <= n THEN w[k] ELSE s[k - n]
  BY <1>0, <1>1, <1>2, ConcatProperties DEF Tiles
<1>5. /\ \A k \in 1..n : g[k] = w[k] /\ k \in 1..n + m
      /\ \A k \in 1..m : g[n + k] = s[k] /\ n + k \in 1..n + m
  <2>1. \A k \in 1..n : k \in 1..n + m /\ k <= n
    BY <1>3
  <2>2. \A k \in 1..m : n + k \in 1..n + m /\ ~(n + k <= n) /\ (n + k) - n = k
    BY <1>3
  <2>3. QED
    BY <1>4, <2>1, <2>2
<1>6. \A k \in 1..n + m : k \in 1..n \/ \E l \in 1..m : k = n + l
  <2> TAKE k \in 1..n + m
  <2>1. CASE k <= n
    BY <1>3, <2>1
  <2>2. CASE ~(k <= n)
    <3>1. k - n \in 1..m /\ k = n + (k - n)
      BY <1>3, <2>2
    <3>2. QED
      BY <3>1
  <2>3. QED
    BY <2>1, <2>2
<1>7. s \in Seq(Segments) /\ s[m].end \in Int
  <2>1. m \in 1..Len(s) /\ s \in Seq(Segments)
    BY <1>0, <1>2, <1>3 DEF Tiles
  <2>2. s[m] \in Segments
    BY <2>1, ElementOfSeq
  <2>3. QED
    BY <2>1, <2>2 DEF Segments
<1>8. Tiles(g)
  <2>1. \A k \in 1..n + m - 1 : g[k].end = g[k + 1].start
    <3> TAKE k \in 1..n + m - 1
    <3>1. CASE k <= n
      <4>1. k \in 1..n /\ k = n /\ 1 \in 1..m /\ k + 1 = n + 1
        BY <1>3, <3>1
      <4>2. g[k].end = from /\ g[k + 1] = s[1]
        BY <1>0, <1>1, <1>5, <4>1
      <4>3. QED
        BY <1>0, <4>2
    <3>2. CASE ~(k <= n)
      <4>1. PICK l : l = k - n
        OBVIOUS
      <4>2. l \in 1..m - 1 /\ l \in 1..m /\ l + 1 \in 1..m /\ k = n + l /\ k + 1 = n + (l + 1)
        BY <1>3, <3>2, <4>1
      <4>3. g[k] = s[l] /\ g[k + 1] = s[l + 1]
        BY <1>5, <4>2
      <4>4. s[l].end = s[l + 1].start
        BY <1>0, <1>2, <4>2 DEF Tiles
      <4>5. QED
        BY <4>3, <4>4
    <3>3. QED
      BY <3>1, <3>2
  <2>2. g[n + m] = s[m]
    <3>1. m \in 1..m
      BY <1>3
    <3>2. QED
      BY <1>5, <3>1
  <2>3. \A k \in 1..n + m : g[k].end <= g[n + m].end
    <3>1. \A k \in 1..n : g[k].end <= s[m].end
      BY <1>0, <1>1, <1>2, <1>5
    <3>2. \A l \in 1..m : g[n + l].end <= s[m].end
      BY <1>0, <1>2, <1>5 DEF Tiles
    <3>3. QED
      BY <1>6, <2>2, <3>1, <3>2
  <2>4. g \in Seq(Segments) /\ Len(g) = n + m
    BY <1>4
  <2>5. \A k \in 1..Len(g) - 1 : g[k].end = g[k + 1].start
    <3> TAKE k \in 1..Len(g) - 1
    <3>1. Len(g) - 1 = n + m - 1
      BY <1>3, <2>4
    <3>2. k \in 1..n + m - 1
      BY <3>1
    <3>3. QED
      BY <2>1, <3>2
  <2>6. \A k \in 1..Len(g) : g[k].end <= g[Len(g)].end
    BY <2>3, <2>4
  <2>7. QED
    BY <2>4, <2>5, <2>6 DEF Tiles
<1>9. Forward(g)
  <2>1. \A k \in 1..n : g[k].start <= g[k].end
    BY <1>0, <1>1, <1>5 DEF Forward
  <2>2. \A l \in 1..m : g[n + l].start <= g[n + l].end
    BY <1>0, <1>2, <1>5 DEF Forward
  <2>3. QED
    BY <1>4, <1>6, <2>1, <2>2 DEF Forward
<1>10. \A k \in 1..n + m : g[k].kind \in {"active", "hold"} <=> k \in n + 1..n + m
  <2>1. \A k \in 1..n : g[k].kind \notin {"active", "hold"} /\ k \notin n + 1..n + m
    BY <1>0, <1>1, <1>3, <1>5 DEF Quiet
  <2>2. \A l \in 1..m : s[l].kind \in {"active", "hold"}
    BY <1>0, <1>2, <1>3 DEF TalksFrom
  <2>3. \A l \in 1..m : g[n + l].kind \in {"active", "hold"}
    BY <1>5, <2>2
  <2>4. \A l \in 1..m : n + l \in n + 1..n + m
    BY <1>3
  <2>5. QED
    BY <1>6, <2>1, <2>3, <2>4
<1>11. TalksFrom(ev, own, g, n + 1, n + m)
  <2>1. n + 1 \in 1..n + m /\ n + m \in 1..n + m /\ n + 1 <= n + m /\ 1 \in 1..m /\ m \in 1..m
    BY <1>3
  <2>2. g[n + 1] = s[1] /\ g[n + m] = s[m]
    BY <1>5, <2>1
  <2>3. ASSUME NEW k \in n + 1..n + m, NEW x \in g[k].start..g[k].end - 1
        PROVE  g[k].kind = "hold" <=> M!OnHold(ev, own, g[n + 1].start, g[n + m].end, x)
    <3>1. PICK l : l = k - n
      OBVIOUS
    <3>2. l \in 1..m /\ k = n + l
      BY <1>3, <3>1
    <3>3. g[k] = s[l]
      BY <1>5, <3>2
    <3>4. \A y \in s[l].start..s[l].end - 1 :
            s[l].kind = "hold" <=> M!OnHold(ev, own, s[1].start, s[m].end, y)
      BY <1>0, <1>2, <3>2 DEF TalksFrom
    <3>5. QED
      BY <2>2, <3>3, <3>4
  <2>4. QED
    BY <1>4, <1>10, <2>1, <2>3 DEF TalksFrom
<1>12. \A k \in 1..n + m : g[k].kind # "wrapup"
  <2>1. \A k \in 1..n : g[k].kind # "wrapup"
    BY <1>0, <1>1, <1>5
  <2>2. \A l \in 1..m : s[l].kind \in {"active", "hold"}
    BY <1>0, <1>2, <1>3 DEF TalksFrom
  <2>3. \A l \in 1..m : g[n + l].kind # "wrapup"
    BY <1>5, <2>2
  <2>4. QED
    BY <1>6, <2>1, <2>3
<1>13. n + 1 \in Nat /\ n + m \in Nat
  BY <1>3
<1>14. Talks(ev, own, g)
  BY <1>11, <1>13 DEF Talks
<1>15. Len(g) = n + m /\ Len(g) >= 1
  BY <1>3, <1>4
<1>16. \A k \in 1..Len(g) : g[k].kind # "wrapup"
  BY <1>12, <1>15
<1>17. QED
  BY <1>8, <1>9, <1>14, <1>15, <1>16

\* A person's row.
LEMMA PersonFits ==
    ASSUME M!TimelineAssumption, NEW record \in Records,
           NEW i \in DOMAIN record.participants, NEW p, p = record.participants[i],
           ~M!IsMachine(p), NEW g, g = M!SegmentsOf(record, p, M!Own(record, p))
    PROVE  RowFits(record, p, g)
<1>1. PICK own : own = M!Own(record, p)
  OBVIOUS
<1>2. PICK ev : ev = record.events
  OBVIOUS
<1>3. PICK over : over = M!CallEnd(record)
  OBVIOUS
<1>4. /\ Null \notin Int /\ record.start \in Int
      /\ p.join \in Int \cup {Null} /\ p.leave \in Int \cup {Null} /\ over \in Int
      /\ own \in SUBSET Nat /\ own \subseteq DOMAIN ev
      /\ Timed(ev, own) /\ \A j \in DOMAIN ev : ev[j].time \in Int
  BY <1>1, <1>2, <1>3, Recorded
<1>5. CASE p.join # Null
  <2>1. PICK until : until = M!Or(p.leave, over)
    OBVIOUS
  <2>2. until \in Int /\ p.join \in Int
    BY <1>4, <1>5, <2>1 DEF M!Or
  <2>3. g = M!SplitHold(ev, own, p.join, until)
    BY <1>1, <1>2, <1>3, <1>5, <2>1 DEF M!SegmentsOf
  <2>4. /\ Tiles(g) /\ Len(g) >= 1
        /\ p.join <= until => Forward(g)
        /\ TalksFrom(ev, own, g, 1, Len(g))
    BY <1>4, <2>2, <2>3, Carved
  <2>5. Talks(ev, own, g) /\ \A k \in 1..Len(g) : g[k].kind # "wrapup"
    BY <2>4, SplitKinds
  <2>6. M!LeftEarly(record, p) \/ p.join <= until
    BY <1>3, <1>5, <2>1, <2>2 DEF M!LeftEarly
  <2>7. QED
    BY <1>1, <1>2, <2>4, <2>5, <2>6 DEF RowFits
<1>6. CASE p.join = Null
  <2>1. PICK rung : rung = M!TimeOf(ev, own, "ringing")
    OBVIOUS
  <2>2. PICK connected : connected = M!FindTime(ev, own, "connected")
    OBVIOUS
  <2>3. PICK until : until = M!Or(M!FindTime(ev, own, "disconnected"), over)
    OBVIOUS
  <2>4. /\ rung \in Int \cup {Null}
        /\ rung = Null <=> ~\E j \in own : ev[j].type = "ringing"
    <3>1. \A j \in own : ev[j].time \in Int
      BY <1>4
    <3>2. QED
      BY <1>4, <2>1, <3>1, FoundTime
  <2>5. /\ connected \in Int \cup {Null}
        /\ connected = Null <=> ~\E j \in DOMAIN ev : ev[j].type = "connected"
    BY <1>1, <1>2, <2>2, TimeFound
  <2>6. until \in Int
    <3>1. M!FindTime(ev, own, "disconnected") \in Int \cup {Null}
      BY <1>1, <1>2, TimeFound
    <3>2. QED
      BY <1>4, <2>3, <3>1 DEF M!Or
  <2>7. g = M!EventSegments(record, p, own, rung, connected, until)
    BY <1>1, <1>2, <1>3, <1>6, <2>1, <2>2, <2>3 DEF M!SegmentsOf
  <2>8. CASE rung = Null /\ connected = Null
    <3>1. PICK latest : latest = M!Latest(record.start, over)
      OBVIOUS
    <3>2. latest \in Int /\ record.start <= latest
      BY <1>4, <3>1 DEF M!Latest
    <3>3. g = << M!Segment("active", record.start, latest) >>
      BY <1>3, <2>7, <2>8, <3>1 DEF M!EventSegments
    <3>4. Tiles(g) /\ Len(g) = 1 /\ g[1].kind = "active" /\ Forward(g)
      <4>1. "active" \in Kinds
        BY DEF Kinds
      <4>2. QED
        BY <1>4, <3>2, <3>3, <4>1, OneSegment
    <3>5. \A k \in 1..Len(g) : g[k].kind # "wrapup"
      <4>1. \A k \in 1..1 : k = 1
        OBVIOUS
      <4>2. QED
        BY <3>4, <4>1
    <3>6. M!Sparse(record, p)
      <4>1. own = {j \in DOMAIN ev : ev[j].by = p.id}
        BY <1>1, <1>2 DEF M!Own
      <4>2. QED
        BY <1>2, <1>6, <2>4, <2>5, <2>8, <4>1 DEF M!Sparse
    <3>7. QED
      BY <3>4, <3>5, <3>6 DEF RowFits
  <2>9. CASE ~(rung = Null /\ connected = Null)
    <3>1. PICK from : from = M!Or(connected, rung)
      OBVIOUS
    <3>2. PICK latest : latest = M!Latest(from, until)
      OBVIOUS
    <3>3. from \in Int /\ latest \in Int /\ from <= latest
      <4>1. from \in Int
        BY <2>4, <2>5, <2>9, <3>1 DEF M!Or
      <4>2. QED
        BY <2>6, <3>2, <4>1 DEF M!Latest
    <3>4. PICK w : w = M!Wait(record, p, rung, from)
      OBVIOUS
    <3>5. PICK s : s = M!SplitHold(ev, own, from, latest)
      OBVIOUS
    <3>6. g = w \o s
      BY <1>2, <2>7, <2>9, <3>1, <3>2, <3>4, <3>5 DEF M!EventSegments
    <3>7. /\ Tiles(s) /\ Len(s) >= 1 /\ s[1].start = from /\ s[Len(s)].end = latest
          /\ Forward(s) /\ TalksFrom(ev, own, s, 1, Len(s))
      BY <1>4, <3>3, <3>5, Carved
    <3>8. /\ Tiles(w) /\ Forward(w) /\ Quiet(w) /\ Len(w) \in {0, 1}
          /\ \A k \in 1..Len(w) : w[k].kind # "wrapup" /\ w[k].end = from
      <4>1. \/ w = <<>>
            \/ \E x \in Int : x <= from /\ w = << M!Segment("waiting", x, from) >>
        <5>1. CASE rung # Null /\ rung < from
          <6>1. w = << M!Segment("waiting", rung, from) >> /\ rung \in Int
            BY <2>4, <3>4, <5>1 DEF M!Wait
          <6>2. rung <= from
            BY <3>3, <5>1, <6>1
          <6>3. QED
            BY <6>1, <6>2
        <5>2. CASE ~(rung # Null /\ rung < from) /\ rung = Null /\ p.role = "caller"
                   /\ from > record.start
          <6>1. w = << M!Segment("waiting", record.start, from) >>
            BY <3>4, <5>2 DEF M!Wait
          <6>2. record.start \in Int /\ record.start <= from
            BY <1>4, <3>3, <5>2
          <6>3. QED
            BY <6>1, <6>2
        <5>3. CASE /\ ~(rung # Null /\ rung < from)
                   /\ ~(rung = Null /\ p.role = "caller" /\ from > record.start)
          BY <3>4, <5>3 DEF M!Wait
        <5>4. QED
          BY <5>1, <5>2, <5>3
      <4>2. CASE w = <<>>
        <5>1. \A k \in 1..0 : FALSE
          OBVIOUS
        <5>2. QED
          BY <4>2, <5>1, NoSegment
      <4>3. ASSUME NEW x \in Int, x <= from, w = << M!Segment("waiting", x, from) >>
            PROVE  /\ Tiles(w) /\ Forward(w) /\ Quiet(w) /\ Len(w) \in {0, 1}
                   /\ \A k \in 1..Len(w) : w[k].kind # "wrapup" /\ w[k].end = from
        <5>1. "waiting" \in Kinds
          BY DEF Kinds
        <5>2. /\ Tiles(w) /\ Len(w) = 1 /\ w[1].kind = "waiting" /\ w[1].end = from
              /\ Forward(w)
          BY <3>3, <4>3, <5>1, OneSegment
        <5>3. \A k \in 1..1 : k = 1
          OBVIOUS
        <5>4. QED
          BY <5>2, <5>3 DEF Quiet
      <4>4. QED
        BY <4>1, <4>2, <4>3
    <3>9. from <= s[Len(s)].end
      BY <3>3, <3>7
    <3>10. /\ Tiles(g) /\ Forward(g) /\ Len(g) >= 1 /\ Talks(ev, own, g)
          /\ \A k \in 1..Len(g) : g[k].kind # "wrapup"
      <4>1. Waits(w, from)
        BY <3>8 DEF Waits
      <4>2. Speaks(ev, own, s, from)
        BY <3>7, <3>9 DEF Speaks
      <4>3. QED
        BY <3>3, <3>6, <4>1, <4>2, WaitFits
    <3>11. QED
      BY <1>1, <1>2, <3>10 DEF RowFits
  <2>10. QED
    BY <2>8, <2>9
<1>7. QED
  BY <1>4, <1>5, <1>6

\* The wrap-up comes after the rest, whatever its duration.
LEMMA TailFits ==
    ASSUME NEW g, Tiles(g), Len(g) >= 1, \A k \in 1..Len(g) : g[k].kind # "wrapup",
           NEW length \in Int, NEW t, t = M!WithTail(g, length)
    PROVE  /\ t \in Seq(Segments) /\ Len(t) = Len(g) + 1
           /\ \A k \in 1..Len(g) : t[k] = g[k]
           /\ t[Len(g) + 1].kind = "wrapup"
           /\ t[Len(g) + 1].start = g[Len(g)].end
           /\ t[Len(g) + 1].end = g[Len(g)].end + length
<1>1. PICK n : n = Len(g)
  OBVIOUS
<1>2. g \in Seq(Segments) /\ n \in Nat /\ n >= 1 /\ DOMAIN g = 1..n
  BY <1>1, LenProperties DEF Tiles
<1>3. \A k \in 1..n : g[k].end \in Int /\ g[k].end <= g[n].end
  <2> TAKE k \in 1..n
  <2>1. g[k] \in Segments
    BY <1>1, <1>2, ElementOfSeq
  <2>2. QED
    BY <1>1, <2>1 DEF Segments, Tiles
<1>4. n \in 1..n
  BY <1>2
<1>5. PICK ends : ends = {g[k].end : k \in 1..n}
  OBVIOUS
<1>6. M!Max(ends) = g[n].end
  <2>1. g[n].end \in ends /\ \A y \in ends : y \in Int /\ g[n].end >= y
    BY <1>3, <1>4, <1>5
  <2>2. \A x \in ends : (\A y \in ends : x >= y) => x = g[n].end
    BY <2>1
  <2>3. QED
    BY <2>1, <2>2 DEF M!Max
<1>7. PICK e : e = M!Segment("wrapup", g[n].end, g[n].end + length)
  OBVIOUS
<1>8. t = Append(g, e)
  BY <1>2, <1>5, <1>6, <1>7 DEF M!WithTail
<1>9. e \in Segments /\ e.kind = "wrapup" /\ e.start = g[n].end /\ e.end = g[n].end + length
  <2>1. g[n].end \in Int /\ g[n].end + length \in Int
    BY <1>3, <1>4
  <2>2. e = [kind |-> "wrapup", start |-> g[n].end, end |-> g[n].end + length]
    BY <1>7 DEF M!Segment
  <2>3. e \in Segments
    BY <2>1, <2>2 DEF Segments, Kinds
  <2>4. QED
    BY <2>2, <2>3
<1>10. /\ t \in Seq(Segments) /\ Len(t) = n + 1 /\ t[n + 1] = e
       /\ \A k \in 1..n : t[k] = g[k]
  BY <1>1, <1>2, <1>8, <1>9, AppendProperties
<1>11. QED
  BY <1>1, <1>9, <1>10

\* Adding the wrap-up leaves who talks when as it is.
LEMMA TailTalks ==
    ASSUME NEW ev, NEW own, NEW g, NEW t, Talks(ev, own, g),
           Len(g) \in Nat, Len(t) = Len(g) + 1,
           \A k \in 1..Len(g) : t[k] = g[k], t[Len(g) + 1].kind = "wrapup"
    PROVE  Talks(ev, own, t)
<1>1. PICK n : n = Len(g)
  OBVIOUS
<1>2. \A k \in 1..n + 1 : k = n + 1 \/ k \in 1..n
  BY <1>1
<1>3. t[n + 1].kind \notin {"active", "hold"}
  BY <1>1
<1>4. CASE Quiet(g)
  <2>1. \A k \in 1..n : t[k].kind \notin {"active", "hold"}
    BY <1>1, <1>4 DEF Quiet
  <2>2. Quiet(t)
    BY <1>1, <1>2, <1>3, <2>1 DEF Quiet
  <2>3. QED
    BY <2>2 DEF Talks
<1>5. ASSUME NEW a \in Nat, NEW b \in Nat, TalksFrom(ev, own, g, a, b)
      PROVE  TalksFrom(ev, own, t, a, b)
  <2>1. /\ a \in 1..n /\ b \in 1..n /\ a <= b
        /\ \A k \in 1..n : g[k].kind \in {"active", "hold"} <=> k \in a..b
        /\ \A k \in a..b : \A m \in g[k].start..g[k].end - 1 :
             g[k].kind = "hold" <=> M!OnHold(ev, own, g[a].start, g[b].end, m)
    BY <1>1, <1>5 DEF TalksFrom
  <2>2. a \in 1..n + 1 /\ b \in 1..n + 1 /\ n + 1 \notin a..b
    BY <1>1, <2>1
  <2>3. \A k \in a..b : k \in 1..n
    BY <1>1, <2>1
  <2>4. t[a] = g[a] /\ t[b] = g[b] /\ \A k \in a..b : t[k] = g[k]
    BY <1>1, <2>1, <2>3
  <2>5. \A k \in 1..n + 1 : t[k].kind \in {"active", "hold"} <=> k \in a..b
    BY <1>1, <1>2, <1>3, <2>1, <2>2
  <2>6. \A k \in a..b : \A m \in t[k].start..t[k].end - 1 :
             t[k].kind = "hold" <=> M!OnHold(ev, own, t[a].start, t[b].end, m)
    BY <2>1, <2>4
  <2>7. Len(t) = n + 1
    BY <1>1
  <2>8. QED
    BY <2>1, <2>2, <2>5, <2>6, <2>7 DEF TalksFrom
<1>6. QED
  BY <1>4, <1>5 DEF Talks

\* Holds are shown where somebody talks from one segment to another.
LEMMA HoldsAreShown ==
    ASSUME NEW ev, NEW own, NEW g \in Seq(Segments), Talks(ev, own, g)
    PROVE  M!HoldsShown(ev, own, g)
<1>1. PICK n : n = Len(g)
  OBVIOUS
<1>2. n \in Nat /\ DOMAIN g = 1..n
  BY <1>1, LenProperties
<1>3. PICK talk : talk = M!Talk(g)
  OBVIOUS
<1>4. talk = {k \in 1..n : g[k].kind \in {"active", "hold"}}
  BY <1>2, <1>3 DEF M!Talk
<1>5. CASE Quiet(g)
  <2>1. talk = {}
    BY <1>1, <1>4, <1>5 DEF Quiet
  <2>2. QED
    BY <1>3, <2>1 DEF M!HoldsShown
<1>6. ASSUME NEW a \in Nat, NEW b \in Nat, TalksFrom(ev, own, g, a, b)
      PROVE  M!HoldsShown(ev, own, g)
  <2>1. /\ a \in 1..n /\ b \in 1..n /\ a <= b
        /\ \A k \in 1..n : g[k].kind \in {"active", "hold"} <=> k \in a..b
        /\ \A k \in a..b : \A m \in g[k].start..g[k].end - 1 :
             g[k].kind = "hold" <=> M!OnHold(ev, own, g[a].start, g[b].end, m)
    BY <1>1, <1>6 DEF TalksFrom
  <2>2. \A k \in a..b : k \in 1..n
    BY <1>2, <2>1
  <2>3. talk = a..b
    BY <1>4, <2>1, <2>2
  <2>4. M!Min(talk) = a
    <3>1. a \in talk /\ \A y \in talk : a <= y /\ y \in Int
      BY <2>1, <2>3
    <3>2. \A x \in talk : (\A y \in talk : x <= y) => x = a
      BY <3>1
    <3>3. QED
      BY <3>1, <3>2 DEF M!Min
  <2>5. M!Max(talk) = b
    <3>1. b \in talk /\ \A y \in talk : b >= y /\ y \in Int
      BY <2>1, <2>3
    <3>2. \A x \in talk : (\A y \in talk : x >= y) => x = b
      BY <3>1
    <3>3. QED
      BY <3>1, <3>2 DEF M!Max
  <2>6. \A k \in talk : \A m \in g[k].start..g[k].end - 1 :
          (g[k].kind = "hold") = M!OnHold(ev, own, g[M!Min(talk)].start, g[M!Max(talk)].end, m)
    <3>1. \A k \in talk : \A m \in g[k].start..g[k].end - 1 :
             g[k].kind = "hold" <=> M!OnHold(ev, own, g[a].start, g[b].end, m)
      BY <2>1, <2>3
    <3>2. \A m : M!OnHold(ev, own, g[a].start, g[b].end, m) \in BOOLEAN
      BY DEF M!OnHold
    <3>3. \A k : (g[k].kind = "hold") \in BOOLEAN
      OBVIOUS
    <3>4. QED
      BY <2>4, <2>5, <3>1, <3>2, <3>3
  <2>7. QED
    BY <1>3, <2>6 DEF M!HoldsShown
<1>7. QED
  BY <1>5, <1>6 DEF Talks

\* A row on screen, with or without the wrap-up.
RowDone(record, p, g) ==
    /\ g \in Seq(Segments)
    /\ \A k \in 1..Len(g) - 1 : g[k].end = g[k + 1].start
    /\ M!LeftEarly(record, p) \/ M!NegativeDuration(record) \/ Forward(g)
    /\ M!Sparse(record, p) \/ Talks(record.events, M!Own(record, p), g)
    /\ \A k \in 1..Len(g) - 1 : g[k].kind # "wrapup"

\* A row without a wrap-up is done as it is ...
LEMMA RowFitsDone ==
    ASSUME NEW record, NEW p, NEW g, RowFits(record, p, g)
    PROVE  RowDone(record, p, g) /\ ~M!Tailed(g)
<1>1. /\ g \in Seq(Segments)
      /\ \A k \in 1..Len(g) - 1 : g[k].end = g[k + 1].start
      /\ \A k \in 1..Len(g) : g[k].kind # "wrapup"
      /\ M!LeftEarly(record, p) \/ M!NegativeDuration(record) \/ Forward(g)
      /\ M!Sparse(record, p) \/ Talks(record.events, M!Own(record, p), g)
  BY DEF RowFits, Tiles
<1>2. Len(g) \in Nat /\ DOMAIN g = 1..Len(g)
  BY <1>1, LenProperties
<1>3. ~M!Tailed(g)
  BY <1>1, <1>2 DEF M!Tailed
<1>4. \A k \in 1..Len(g) - 1 : k \in 1..Len(g)
  BY <1>2
<1>5. QED
  BY <1>1, <1>3, <1>4 DEF RowDone

\* ... and one with its wrap-up behind it, too.
LEMMA TailDone ==
    ASSUME NEW record, NEW p, NEW g, RowFits(record, p, g), Len(g) >= 1,
           record.wrapUp \in Int, record.wrapUp # Null,
           NEW t, t = M!WithTail(g, record.wrapUp)
    PROVE  RowDone(record, p, t) /\ M!Tailed(t) /\ Len(t) >= 1
<1>1. /\ Tiles(g) /\ g \in Seq(Segments)
      /\ \A k \in 1..Len(g) - 1 : g[k].end = g[k + 1].start
      /\ \A k \in 1..Len(g) : g[k].kind # "wrapup"
      /\ M!LeftEarly(record, p) \/ M!NegativeDuration(record) \/ Forward(g)
      /\ M!Sparse(record, p) \/ Talks(record.events, M!Own(record, p), g)
  BY DEF RowFits, Tiles
<1>2. PICK n : n = Len(g)
  OBVIOUS
<1>3. n \in Nat /\ n >= 1
  BY <1>1, <1>2, LenProperties
<1>4. PICK length : length = record.wrapUp
  OBVIOUS
<1>5. /\ t \in Seq(Segments) /\ Len(t) = n + 1
      /\ \A k \in 1..n : t[k] = g[k]
      /\ t[n + 1].kind = "wrapup"
      /\ t[n + 1].start = g[n].end
      /\ t[n + 1].end = g[n].end + length
  BY <1>1, <1>2, <1>4, TailFits
<1>6. g[n].end \in Int
  <2>1. n \in 1..Len(g)
    BY <1>2, <1>3
  <2>2. g[n] \in Segments
    BY <1>1, <2>1, ElementOfSeq
  <2>3. QED
    BY <2>2 DEF Segments
<1>7. ASSUME NEW k \in 1..Len(t) - 1 PROVE t[k].end = t[k + 1].start /\ t[k].kind # "wrapup"
  <2>1. k \in 1..n /\ (k = n \/ (k \in 1..n - 1 /\ k + 1 \in 1..n))
    BY <1>3, <1>5
  <2>2. t[k] = g[k] /\ t[k].kind # "wrapup"
    BY <1>1, <1>2, <1>5, <2>1
  <2>3. CASE k = n
    BY <1>5, <2>2, <2>3
  <2>4. CASE k \in 1..n - 1 /\ k + 1 \in 1..n
    <3>1. t[k + 1] = g[k + 1] /\ g[k].end = g[k + 1].start
      BY <1>1, <1>2, <1>5, <2>4
    <3>2. QED
      BY <2>2, <3>1
  <2>5. QED
    BY <2>1, <2>2, <2>3, <2>4
<1>8. M!NegativeDuration(record) \/ 0 <= length
  <2>1. length \in Int /\ length \in {record.inSource, record.wrapUp} \ {Null}
    BY <1>4
  <2>2. length < 0 => M!NegativeDuration(record)
    BY <2>1 DEF M!NegativeDuration
  <2>3. length < 0 \/ 0 <= length
    BY <2>1
  <2>4. QED
    BY <2>2, <2>3
<1>9. \A k \in 1..n + 1 : k = n + 1 \/ k \in 1..n
  BY <1>3
<1>10. ASSUME Forward(g), 0 <= length PROVE Forward(t)
  <2>1. \A k \in 1..n : t[k].start <= t[k].end
    BY <1>2, <1>5, <1>10 DEF Forward
  <2>2. t[n + 1].start <= t[n + 1].end
    BY <1>4, <1>5, <1>6, <1>10
  <2>3. \A k \in 1..n + 1 : t[k].start <= t[k].end
    BY <1>9, <2>1, <2>2
  <2>4. QED
    BY <1>5, <2>3 DEF Forward
<1>11. ASSUME NEW ev, NEW own, Talks(ev, own, g) PROVE Talks(ev, own, t)
  BY <1>2, <1>3, <1>5, <1>11, TailTalks
<1>12. M!Tailed(t)
  <2>1. DOMAIN t = 1..n + 1
    BY <1>5, LenProperties
  <2>2. n + 1 \in DOMAIN t
    BY <1>3, <2>1
  <2>3. QED
    BY <1>5, <2>2 DEF M!Tailed
<1>13. M!LeftEarly(record, p) \/ M!NegativeDuration(record) \/ Forward(t)
  BY <1>1, <1>8, <1>10
<1>14. M!Sparse(record, p) \/ Talks(record.events, M!Own(record, p), t)
  BY <1>1, <1>11
<1>15. Len(t) >= 1
  BY <1>3, <1>5
<1>16. QED
  BY <1>5, <1>7, <1>12, <1>13, <1>14, <1>15 DEF RowDone

\* Every participant's row before the wrap-up, and whose row gets it.
FirstRows(record) == [i \in DOMAIN record.participants |-> M!RowOf(record, record.participants[i])]

\* Every participant's row fits the record.
LEMMA RowsFit ==
    ASSUME M!TimelineAssumption, NEW record \in Records,
           NEW i \in DOMAIN record.participants
    PROVE  /\ FirstRows(record)[i].participant = record.participants[i]
           /\ RowFits(record, record.participants[i], FirstRows(record)[i].segments)
<1>1. PICK p : p = record.participants[i]
  OBVIOUS
<1>2. PICK g : g = M!SegmentsOf(record, p, M!Own(record, p))
  OBVIOUS
<1>3. FirstRows(record)[i] = [participant |-> p, segments |-> g]
  BY <1>1, <1>2 DEF FirstRows, M!RowOf
<1>4. RowFits(record, p, g)
  BY <1>1, <1>2, MachineFits, PersonFits
<1>5. QED
  BY <1>1, <1>3, <1>4

TargetOf(record) == M!WrapUpRow(FirstRows(record))
HasTail(record) == record.wrapUp # Null /\ TargetOf(record) # 0

\* The wrap-up goes to the row of somebody who is no machine, if there is one.
LEMMA Target ==
    ASSUME M!TimelineAssumption, NEW record \in Records,
           NEW target, target = TargetOf(record)
    PROVE  \/ /\ target = 0
              /\ \A i \in DOMAIN record.participants : M!IsMachine(record.participants[i])
           \/ /\ target # 0 /\ target \in DOMAIN record.participants
              /\ ~M!IsMachine(record.participants[target])
<1>1. PICK all : all = FirstRows(record)
  OBVIOUS
<1>2. PICK people : people = {i \in DOMAIN all : M!Eligible(all[i])}
  OBVIOUS
<1>3. PICK others : others = {i \in people : all[i].participant.role # "caller"}
  OBVIOUS
<1>4. target = IF others # {} THEN M!Min(others) ELSE IF people # {} THEN M!Min(people) ELSE 0
  BY <1>1, <1>2, <1>3 DEF TargetOf, M!WrapUpRow
<1>5. /\ DOMAIN all = DOMAIN record.participants
      /\ DOMAIN record.participants = 1..Len(record.participants)
      /\ Len(record.participants) \in Nat
  BY <1>1 DEF M!TimelineAssumption, FirstRows
<1>6. \A i \in DOMAIN all : i \in people <=> ~M!IsMachine(record.participants[i])
  <2> TAKE i \in DOMAIN all
  <2>1. /\ all[i].participant = record.participants[i]
        /\ RowFits(record, record.participants[i], all[i].segments)
    BY <1>1, <1>5, RowsFit
  <2>2. ~M!IsMachine(record.participants[i]) => all[i].segments # <<>>
    <3>1. ~M!IsMachine(record.participants[i]) => Len(all[i].segments) >= 1
      BY <2>1 DEF RowFits
    <3>2. Len(<<>>) = 0
      OBVIOUS
    <3>3. QED
      BY <3>1, <3>2
  <2>3. QED
    BY <1>2, <2>1, <2>2 DEF M!Eligible
<1>7. people \in SUBSET Nat /\ others \in SUBSET Nat /\ others \subseteq people
  BY <1>2, <1>3, <1>5
<1>8. CASE others # {}
  <2>1. \E x \in others : \A y \in others : x <= y
    BY <1>7, <1>8, Least
  <2>2. M!Min(others) \in others
    BY <2>1 DEF M!Min
  <2>3. target \in people
    BY <1>4, <1>7, <1>8, <2>2
  <2>4. QED
    BY <1>2, <1>5, <1>6, <2>3
<1>9. CASE others = {} /\ people # {}
  <2>1. \E x \in people : \A y \in people : x <= y
    BY <1>7, <1>9, Least
  <2>2. M!Min(people) \in people
    BY <2>1 DEF M!Min
  <2>3. target \in people
    BY <1>4, <1>7, <1>9, <2>2
  <2>4. QED
    BY <1>2, <1>5, <1>6, <2>3
<1>10. CASE others = {} /\ people = {}
  BY <1>4, <1>5, <1>6, <1>10
<1>11. QED
  BY <1>8, <1>9, <1>10

\* The rows on screen: those of everybody who is shown, and the wrap-up's.
OnScreen(record, seen, target) ==
    /\ DOMAIN seen \in SUBSET DOMAIN record.participants
    /\ \A i \in DOMAIN seen :
         /\ seen[i].participant = record.participants[i]
         /\ RowDone(record, record.participants[i], seen[i].segments)
         /\ M!Tailed(seen[i].segments) <=> HasTail(record) /\ i = target
    /\ HasTail(record) => target \in DOMAIN seen
    /\ \A i \in DOMAIN record.participants :
         ~M!IsMachine(record.participants[i]) => i \in DOMAIN seen

\* What is derived of a record has each participant's row, one of them with the tail.
LEMMA Derived ==
    ASSUME M!TimelineAssumption, NEW record \in Records,
           NEW shownRows, shownRows = M!DeriveTimelineRows(record),
           NEW target, target = TargetOf(record)
    PROVE  OnScreen(record, shownRows, target)
<1>1. PICK all : all = FirstRows(record)
  OBVIOUS
<1>2. PICK done : done = M!WithWrapUp(record, all, target)
  OBVIOUS
<1>3. shownRows = M!Drawn(done)
  BY <1>1, <1>2 DEF M!DeriveTimelineRows, M!WrappedUp, FirstRows, TargetOf
<1>4. \/ /\ target = 0
         /\ \A i \in DOMAIN record.participants : M!IsMachine(record.participants[i])
      \/ /\ target # 0 /\ target \in DOMAIN record.participants
         /\ ~M!IsMachine(record.participants[target])
  BY Target
<1>5. /\ DOMAIN all = DOMAIN record.participants
      /\ \A i \in DOMAIN record.participants :
           /\ all[i] = [participant |-> all[i].participant, segments |-> all[i].segments]
           /\ all[i].participant = record.participants[i]
           /\ RowFits(record, record.participants[i], all[i].segments)
  <2>1. DOMAIN all = DOMAIN record.participants
    BY <1>1 DEF FirstRows
  <2>2. \A i \in DOMAIN record.participants :
          all[i] = [participant |-> all[i].participant, segments |-> all[i].segments]
    BY <1>1 DEF FirstRows, M!RowOf
  <2>3. \A i \in DOMAIN record.participants :
           /\ all[i].participant = record.participants[i]
           /\ RowFits(record, record.participants[i], all[i].segments)
    BY <1>1, RowsFit
  <2>4. QED
    BY <2>1, <2>2, <2>3
<1>6. /\ DOMAIN done = DOMAIN record.participants
      /\ \A i \in DOMAIN record.participants :
           /\ done[i].participant = record.participants[i]
           /\ RowDone(record, record.participants[i], done[i].segments)
           /\ M!Tailed(done[i].segments) <=> HasTail(record) /\ i = target
           /\ ~M!IsMachine(record.participants[i]) => Len(done[i].segments) >= 1
  <2>1. CASE ~HasTail(record)
    <3>1. done = all
      BY <1>2, <2>1 DEF M!WithWrapUp, HasTail
    <3>2. ASSUME NEW i \in DOMAIN record.participants
          PROVE  /\ done[i].participant = record.participants[i]
                 /\ RowDone(record, record.participants[i], done[i].segments)
                 /\ M!Tailed(done[i].segments) <=> HasTail(record) /\ i = target
                 /\ ~M!IsMachine(record.participants[i]) => Len(done[i].segments) >= 1
      <4>1. /\ RowDone(record, record.participants[i], done[i].segments)
            /\ ~M!Tailed(done[i].segments)
        BY <1>5, <3>1, RowFitsDone
      <4>2. ~M!IsMachine(record.participants[i]) => Len(done[i].segments) >= 1
        BY <1>5, <3>1 DEF RowFits
      <4>3. QED
        BY <1>5, <2>1, <3>1, <4>1, <4>2
    <3>3. QED
      BY <1>5, <3>1, <3>2
  <2>2. CASE HasTail(record)
    <3>1. /\ record.wrapUp # Null /\ target # 0 /\ target \in DOMAIN all
          /\ ~M!IsMachine(record.participants[target])
      BY <1>4, <1>5, <2>2 DEF HasTail
    <3>2. record.wrapUp \in Int
      BY <3>1 DEF M!TimelineAssumption, M!Times
    <3>3. PICK g : g = all[target].segments
      OBVIOUS
    <3>4. PICK t : t = M!WithTail(g, record.wrapUp)
      OBVIOUS
    <3>5. RowFits(record, record.participants[target], g) /\ Len(g) >= 1
      BY <1>5, <3>1, <3>3 DEF RowFits
    <3>6. RowDone(record, record.participants[target], t) /\ M!Tailed(t) /\ Len(t) >= 1
      BY <3>1, <3>2, <3>4, <3>5, TailDone
    <3>7. done = [all EXCEPT ![target].segments = t]
      BY <1>2, <3>1, <3>3, <3>4 DEF M!WithWrapUp
    <3>8. /\ DOMAIN done = DOMAIN all
          /\ \A i \in DOMAIN all : i # target => done[i] = all[i]
          /\ done[target].segments = t
          /\ done[target].participant = all[target].participant
      <4>1. DOMAIN done = DOMAIN all /\ \A i \in DOMAIN all : i # target => done[i] = all[i]
        BY <3>7
      <4>2. done[target] = [all[target] EXCEPT !.segments = t]
        BY <3>1, <3>7
      <4>3. all[target] = [participant |-> all[target].participant,
                           segments |-> all[target].segments]
        BY <1>5, <3>1
      <4>4. done[target].segments = t /\ done[target].participant = all[target].participant
        BY <4>2, <4>3
      <4>5. QED
        BY <4>1, <4>4
    <3>9. ASSUME NEW i \in DOMAIN record.participants
          PROVE  /\ done[i].participant = record.participants[i]
                 /\ RowDone(record, record.participants[i], done[i].segments)
                 /\ M!Tailed(done[i].segments) <=> HasTail(record) /\ i = target
                 /\ ~M!IsMachine(record.participants[i]) => Len(done[i].segments) >= 1
      <4>1. CASE i = target
        <5>1. RowDone(record, record.participants[i], done[i].segments)
          BY <3>6, <3>8, <4>1
        <5>2. M!Tailed(done[i].segments)
          BY <3>6, <3>8, <4>1
        <5>3. done[i].participant = record.participants[i]
          BY <1>5, <3>8, <4>1
        <5>4. Len(done[i].segments) >= 1
          BY <3>6, <3>8, <4>1
        <5>5. QED
          BY <2>2, <4>1, <5>1, <5>2, <5>3, <5>4
      <4>2. CASE i # target
        <5>1. done[i] = all[i]
          BY <1>5, <3>8, <4>2
        <5>2. /\ RowDone(record, record.participants[i], done[i].segments)
              /\ ~M!Tailed(done[i].segments)
          BY <1>5, <5>1, RowFitsDone
        <5>3. ~M!IsMachine(record.participants[i]) => Len(done[i].segments) >= 1
          BY <1>5, <5>1 DEF RowFits
        <5>4. QED
          BY <1>5, <4>2, <5>1, <5>2, <5>3
      <4>3. QED
        BY <4>1, <4>2
    <3>10. QED
      BY <1>5, <3>8, <3>9
  <2>3. QED
    BY <2>1, <2>2
<1>7. /\ DOMAIN shownRows = {i \in DOMAIN done : done[i].segments # <<>>}
      /\ \A i \in DOMAIN shownRows : shownRows[i] = done[i]
  BY <1>3 DEF M!Drawn
<1>8. ASSUME NEW i \in DOMAIN record.participants, ~M!IsMachine(record.participants[i])
      PROVE  i \in DOMAIN shownRows
  <2>1. Len(done[i].segments) >= 1 /\ Len(<<>>) = 0
    BY <1>6, <1>8
  <2>2. done[i].segments # <<>>
    BY <2>1
  <2>3. QED
    BY <1>6, <1>7, <2>2
<1>9. HasTail(record) => target \in DOMAIN shownRows
  BY <1>4, <1>8 DEF HasTail
<1>10. DOMAIN shownRows \in SUBSET DOMAIN record.participants
  BY <1>6, <1>7
<1>11. \A i \in DOMAIN shownRows :
         /\ shownRows[i].participant = record.participants[i]
         /\ RowDone(record, record.participants[i], shownRows[i].segments)
         /\ M!Tailed(shownRows[i].segments) <=> HasTail(record) /\ i = target
  BY <1>6, <1>7, <1>10
<1>12. QED
  BY <1>8, <1>9, <1>10, <1>11 DEF OnScreen

-----------------------------------------------------------------------------
\* On screen are the rows of the open record.
TimelineInv ==
    \/ open = Null /\ segmented = <<>>
    \/ open \in Records /\ segmented = M!DeriveTimelineRows(open)

\* Before a record is open there are no rows.
LEMMA TimelineInitially == M!Init => TimelineInv
BY DEF M!Init, TimelineInv

\* Opening a record derives its rows, closing it drops them.
LEMMA TimelineKept == TimelineInv /\ [M!Next]_timelineVars => TimelineInv'
<1> SUFFICES ASSUME TimelineInv, [M!Next]_timelineVars PROVE TimelineInv'
  OBVIOUS
<1>1. CASE M!Show
  BY <1>1 DEF M!Show, TimelineInv
<1>2. CASE M!Close
  BY <1>2 DEF M!Close, TimelineInv
<1>3. CASE UNCHANGED timelineVars
  <2>1. open' = open /\ segmented' = segmented
    BY <1>3 DEF timelineVars
  <2>2. (M!DeriveTimelineRows(open))' = M!DeriveTimelineRows(open')
    OBVIOUS
  <2>3. QED
    BY <2>1, <2>2 DEF TimelineInv
<1>4. QED
  BY <1>1, <1>2, <1>3 DEF M!Next

\* Rows derived of a record have the type and the order the timeline promises.
LEMMA TimelineTiles ==
    M!TimelineAssumption /\ TimelineInv => M!TypeOK /\ M!SegmentsTile
<1> SUFFICES ASSUME M!TimelineAssumption, TimelineInv PROVE M!TypeOK /\ M!SegmentsTile
  OBVIOUS
<1>1. CASE open = Null /\ segmented = <<>>
  <2>1. DOMAIN segmented = {}
    BY <1>1
  <2>2. M!WrapUps = {}
    BY <2>1 DEF M!WrapUps
  <2>3. M!Cardinality(M!WrapUps) = 0
    BY <2>2, SameSize, FS_EmptySet
  <2>4. M!TypeOK
    BY <1>1, <2>1 DEF M!TypeOK
  <2>5. QED
    BY <1>1, <2>1, <2>2, <2>3, <2>4 DEF M!SegmentsTile
<1>2. ASSUME NEW record \in Records, open = record, segmented = M!DeriveTimelineRows(record)
      PROVE  M!TypeOK /\ M!SegmentsTile
  <2>1. PICK target : target = TargetOf(record)
    OBVIOUS
  <2>2. HasTail(record) <=> record.wrapUp # Null /\ target # 0
    BY <2>1 DEF HasTail
  <2>3. /\ DOMAIN segmented \in SUBSET DOMAIN record.participants
        /\ \A i \in DOMAIN segmented :
             /\ segmented[i].participant = record.participants[i]
             /\ RowDone(record, record.participants[i], segmented[i].segments)
             /\ M!Tailed(segmented[i].segments) <=> HasTail(record) /\ i = target
        /\ HasTail(record) => target \in DOMAIN segmented
        /\ \A i \in DOMAIN record.participants :
             ~M!IsMachine(record.participants[i]) => i \in DOMAIN segmented
    <3>1. PICK seen : seen = segmented
      OBVIOUS
    <3>2. seen = M!DeriveTimelineRows(record)
      BY <1>2, <3>1
    <3>3. OnScreen(record, seen, target)
      BY <2>1, <3>2, Derived
    <3>4. QED
      BY <3>1, <3>3 DEF OnScreen
  <2>4. \/ /\ target = 0
           /\ \A i \in DOMAIN record.participants : M!IsMachine(record.participants[i])
        \/ /\ target # 0 /\ target \in DOMAIN record.participants
           /\ ~M!IsMachine(record.participants[target])
    BY <2>1, Target
  <2>5. ASSUME NEW i \in DOMAIN segmented, NEW g, g = segmented[i].segments,
               NEW p, p = record.participants[i]
        PROVE  /\ g \in Seq(Segments) /\ DOMAIN g = 1..Len(g)
               /\ M!RowTiles(p, g)
               /\ \A k \in DOMAIN g : g[k].kind \in Kinds
               /\ \A k \in 1..Len(g) - 1 : g[k].kind # "wrapup"
               /\ M!Tailed(g) <=> HasTail(record) /\ i = target
    <3>1. /\ g \in Seq(Segments)
          /\ \A k \in 1..Len(g) - 1 : g[k].end = g[k + 1].start
          /\ M!LeftEarly(record, p) \/ M!NegativeDuration(record) \/ Forward(g)
          /\ M!Sparse(record, p) \/ Talks(record.events, M!Own(record, p), g)
          /\ \A k \in 1..Len(g) - 1 : g[k].kind # "wrapup"
          /\ M!Tailed(g) <=> (HasTail(record) /\ i = target)
      BY <2>3, <2>5 DEF RowDone
    <3>2. DOMAIN g = 1..Len(g)
      BY <3>1, LenProperties
    <3>3. \A k \in DOMAIN g : g[k].kind \in Kinds
      <4> TAKE k \in DOMAIN g
      <4>1. g[k] \in Segments
        BY <3>1, <3>2, ElementOfSeq
      <4>2. QED
        BY <4>1 DEF Segments
    <3>4. M!Sparse(record, p) \/ M!HoldsShown(record.events, M!Own(record, p), g)
      BY <3>1, HoldsAreShown
    <3>5. \/ M!LeftEarly(record, p) \/ M!NegativeDuration(record)
          \/ \A k \in DOMAIN g : g[k].start <= g[k].end
      BY <3>1, <3>2 DEF Forward
    <3>6. M!RowTiles(p, g)
      BY <1>2, <3>1, <3>4, <3>5 DEF M!RowTiles
    <3>7. QED
      BY <3>1, <3>2, <3>3, <3>6
  <2>6. M!TypeOK
    <3>1. open \in Records
      BY <1>2
    <3>2. \A i \in DOMAIN segmented :
            /\ segmented[i].participant = open.participants[i]
            /\ \A k \in DOMAIN segmented[i].segments :
                 segmented[i].segments[k].kind \in Kinds
      BY <1>2, <2>3, <2>5
    <3>3. QED
      BY <3>1, <3>2 DEF M!TypeOK, Kinds
  <2>7. \A i \in DOMAIN segmented : M!RowTiles(segmented[i].participant, segmented[i].segments)
    BY <2>3, <2>5
  <2>8. \A i \in M!WrapUps : \A k \in 1..Len(segmented[i].segments) - 1 :
          segmented[i].segments[k].kind # "wrapup"
    BY <2>5 DEF M!WrapUps
  <2>9. M!WrapUps = IF HasTail(record) THEN {target} ELSE {}
    <3>1. \A i \in DOMAIN segmented : M!Tailed(segmented[i].segments) <=> HasTail(record) /\ i = target
      BY <2>5
    <3>2. QED
      BY <2>3, <3>1 DEF M!WrapUps
  <2>10. HasTail(record) <=> /\ open # Null /\ open.wrapUp # Null
                  /\ \E i \in DOMAIN segmented : ~M!IsMachine(segmented[i].participant)
    <3>1. open # Null
      BY <1>2 DEF M!TimelineAssumption
    <3>2. ASSUME HasTail(record)
          PROVE  \E i \in DOMAIN segmented : ~M!IsMachine(segmented[i].participant)
      <4>1. target \in DOMAIN segmented /\ ~M!IsMachine(record.participants[target])
        BY <2>2, <2>3, <2>4, <3>2
      <4>2. QED
        BY <2>3, <4>1
    <3>3. ASSUME NEW i \in DOMAIN segmented, ~M!IsMachine(segmented[i].participant)
          PROVE  target # 0
      BY <2>3, <2>4, <3>3
    <3>4. QED
      BY <1>2, <2>2, <3>1, <3>2, <3>3
  <2>11. M!Cardinality(M!WrapUps) = IF HasTail(record) THEN 1 ELSE 0
    BY <2>9, SameSize, FS_EmptySet, FS_Singleton
  <2>12. M!Cardinality(M!WrapUps) =
           IF /\ open # Null /\ open.wrapUp # Null
              /\ \E i \in DOMAIN segmented : ~M!IsMachine(segmented[i].participant)
           THEN 1 ELSE 0
    BY <2>10, <2>11
  <2>13. M!SegmentsTile
    BY <2>7, <2>8, <2>12 DEF M!SegmentsTile
  <2>14. QED
    BY <2>6, <2>13
<1>3. QED
  BY <1>1, <1>2 DEF TimelineInv

-----------------------------------------------------------------------------
(* All parts together.                                                     *)

\* The invariants of all parts: those that do not run stay as they were.
SystemInv ==
    /\ part \in Parts
    /\ RotationInv /\ BootInv /\ BootLimits /\ ScriptInv /\ TokenInv /\ BackupsInv
    /\ AuditInv /\ AuditLimits /\ ReadsInv
    /\ ListInv /\ DrawerInv /\ ColumnInv /\ TimelineInv /\ SignInInv
    /\ part = "users" => UserInv
    /\ part = "sources" => SourceInv
    /\ part \notin {"users", "sources"} => KeyInv

\* A step is one of the part that runs, by its own specification.
Moves ==
    /\ part' = part
    /\ [Next]_vars /\ [B!Next]_bootVars /\ [S!Next]_scriptVars /\ [T!Next]_tokenVars
    /\ [U!Next]_backupVars /\ [E!Next]_auditVars /\ [ReadsNext]_readsVars
    /\ [L!Next]_listVars /\ [D!Next]_drawerVars /\ [C!Next]_columnVars
    /\ [M!Next]_timelineVars /\ [I!Next]_signInVars
    /\ part = "users" => [V!Next]_sectionVars
    /\ part = "sources" => [W!Next]_sectionVars
    /\ part \notin {"users", "sources"} => [K!Next]_sectionVars

\* The part that runs takes a step of its own, the others none.
LEMMA SystemMoves == [PlatformNext]_platformVars => Moves
<1> SUFFICES ASSUME [PlatformNext]_platformVars PROVE Moves
  OBVIOUS
<1>1. CASE UNCHANGED platformVars
  <2>1. /\ part' = part /\ UNCHANGED vars /\ UNCHANGED bootVars /\ UNCHANGED scriptVars
        /\ UNCHANGED tokenVars /\ UNCHANGED backupVars /\ UNCHANGED auditVars
        /\ UNCHANGED readsVars /\ UNCHANGED listVars /\ UNCHANGED drawerVars
        /\ UNCHANGED columnVars /\ UNCHANGED timelineVars /\ UNCHANGED signInVars
        /\ UNCHANGED sectionVars
    BY <1>1 DEF platformVars
  <2>2. QED
    BY <2>1 DEF Moves
<1>2. ASSUME NEW mine, Only(mine),
             mine = "rotation" => Next, mine = "boot" => B!Next, mine = "script" => S!Next,
             mine = "token" => T!Next, mine = "backups" => U!Next, mine = "audit" => E!Next,
             mine = "reads" => ReadsNext, mine = "list" => L!Next, mine = "drawer" => D!Next,
             mine = "columns" => C!Next, mine = "timeline" => M!Next,
             mine = "signin" => I!Next, mine = "keys" => K!Next, mine = "users" => V!Next,
             mine = "sources" => W!Next
      PROVE  Moves
  <2>1. part = mine /\ part' = part
    BY <1>2 DEF Only, Others
  <2>2. /\ [Next]_vars /\ [B!Next]_bootVars /\ [S!Next]_scriptVars /\ [T!Next]_tokenVars
        /\ [U!Next]_backupVars /\ [E!Next]_auditVars /\ [ReadsNext]_readsVars
        /\ [L!Next]_listVars /\ [D!Next]_drawerVars /\ [C!Next]_columnVars
        /\ [M!Next]_timelineVars /\ [I!Next]_signInVars
    BY <1>2 DEF Only, Others
  <2>3. /\ mine = "users" => [V!Next]_sectionVars
        /\ mine = "sources" => [W!Next]_sectionVars
        /\ mine \notin {"users", "sources"} => [K!Next]_sectionVars
    BY <1>2 DEF Only, Others
  <2>4. QED
    BY <2>1, <2>2, <2>3 DEF Moves
<1>3. CASE Rotate
  BY <1>2, <1>3 DEF Rotate
<1>4. CASE BootStep
  BY <1>2, <1>4 DEF BootStep
<1>5. CASE ScriptStep
  BY <1>2, <1>5 DEF ScriptStep
<1>6. CASE TokenStep
  BY <1>2, <1>6 DEF TokenStep
<1>7. CASE BackupStep
  BY <1>2, <1>7 DEF BackupStep
<1>8. CASE AuditStep
  BY <1>2, <1>8 DEF AuditStep
<1>9. CASE ReadStep
  BY <1>2, <1>9 DEF ReadStep
<1>10. CASE ListStep
  BY <1>2, <1>10 DEF ListStep
<1>11. CASE DrawerStep
  BY <1>2, <1>11 DEF DrawerStep
<1>12. CASE ColumnStep
  BY <1>2, <1>12 DEF ColumnStep
<1>13. CASE TimelineStep
  BY <1>2, <1>13 DEF TimelineStep
<1>14. CASE SignInStep
  BY <1>2, <1>14 DEF SignInStep
<1>15. CASE KeyStep
  BY <1>2, <1>15 DEF KeyStep
<1>16. CASE UserStep
  BY <1>2, <1>16 DEF UserStep
<1>17. CASE SourceStep
  BY <1>2, <1>17 DEF SourceStep
<1>18. QED
  BY <1>1, <1>3, <1>4, <1>5, <1>6, <1>7, <1>8, <1>9, <1>10, <1>11, <1>12, <1>13, <1>14,
     <1>15, <1>16, <1>17 DEF PlatformNext

\* All parts begin where their invariants hold.
LEMMA SystemInitially == PlatformInit => SystemInv
<1> SUFFICES ASSUME PlatformInit PROVE SystemInv
  OBVIOUS
<1>1. /\ part \in Parts
      /\ Init /\ B!Init /\ S!Init /\ T!Init /\ U!Init /\ E!Init /\ ReadsInit /\ L!Init
      /\ D!Init /\ C!Init /\ M!Init /\ I!Init
      /\ part = "users" => V!Init
      /\ part = "sources" => W!Init
      /\ part \notin {"users", "sources"} => K!Init
  BY DEF PlatformInit
<1>2. RotationInv /\ ScriptInv /\ TokenInv /\ ReadsInv
  BY <1>1, RotationInitial, ScriptInitial, TokenInitial, ReadsInitial
<1>3. BootInv /\ BootLimits
  BY <1>1, BootInitial, BootStaysWithin, PlatformAssumption
<1>4. BackupsInv
  BY <1>1, BackupsInitial, PlatformAssumption
<1>5. AuditInv /\ AuditLimits
  BY <1>1, AuditInitial, AuditStaysWithin, PlatformAssumption
<1>6. ListInv /\ ColumnInv /\ TimelineInv /\ SignInInv
  BY <1>1, ListInitially, ColumnInitially, TimelineInitially, SignInInitially
<1>7. DrawerInv
  BY <1>1, DrawerInitially, SystemAssumption
<1>8. /\ part = "users" => UserInv
      /\ part = "sources" => SourceInv
      /\ part \notin {"users", "sources"} => KeyInv
  BY <1>1, UserInitially, SourceInitially, KeyInitially
<1>9. QED
  BY <1>1, <1>2, <1>3, <1>4, <1>5, <1>6, <1>7, <1>8 DEF SystemInv

\* A step of the part that runs keeps its invariant, and the others keep theirs.
LEMMA SystemKept == SystemInv /\ [PlatformNext]_platformVars => SystemInv'
<1> SUFFICES ASSUME SystemInv, [PlatformNext]_platformVars PROVE SystemInv'
  OBVIOUS
<1>1. Moves
  BY SystemMoves
<1>2. /\ bootVars = B!vars /\ scriptVars = S!vars /\ tokenVars = T!vars
      /\ backupVars = U!vars /\ auditVars = E!vars
  BY DEF bootVars, scriptVars, tokenVars, backupVars, auditVars, B!vars, S!vars, T!vars, U!vars,
     E!vars
<1>3. RotationInv'
  BY <1>1, RotationInductive DEF SystemInv, Moves
<1>4. BootInv' /\ BootLimits'
  BY <1>1, BootInductive, BootStaysWithin, PlatformAssumption
     DEF SystemInv, Moves, bootVars, B!vars
<1>5. ScriptInv'
  BY <1>1, ScriptInductive, PlatformAssumption DEF SystemInv, Moves, scriptVars, S!vars
<1>6. TokenInv'
  BY <1>1, TokenInductive, PlatformAssumption DEF SystemInv, Moves, tokenVars, T!vars
<1>7. BackupsInv'
  BY <1>1, BackupsInductive, PlatformAssumption DEF SystemInv, Moves, backupVars, U!vars
<1>8. AuditInv' /\ AuditLimits'
  BY <1>1, AuditInductive, AuditStaysWithin, PlatformAssumption
     DEF SystemInv, Moves, auditVars, E!vars
<1>9. ReadsInv'
  BY <1>1, ReadsInductive DEF SystemInv, Moves
<1>10. ListInv' /\ ColumnInv' /\ TimelineInv' /\ SignInInv'
  BY <1>1, ListKept, ColumnKept, TimelineKept, SignInKept DEF SystemInv, Moves
<1>11. DrawerInv'
  BY <1>1, DrawerKept, SystemAssumption DEF SystemInv, Moves
<1>12. /\ part = "users" => UserInv'
       /\ part = "sources" => SourceInv'
       /\ part \notin {"users", "sources"} => KeyInv'
  BY <1>1, UserKept, SourceKept, KeyKept DEF SystemInv, Moves
<1>13. part' = part /\ part \in Parts
  BY <1>1 DEF SystemInv, Moves
<1>14. QED
  BY <1>3, <1>4, <1>5, <1>6, <1>7, <1>8, <1>9, <1>10, <1>11, <1>12, <1>13 DEF SystemInv

\* So the invariants of all parts hold in every reachable state.
LEMMA SystemHolds == PlatformSpec => []SystemInv
BY SystemInitially, SystemKept, PTL DEF PlatformSpec

\* Whichever part runs, its variables keep their types.
THEOREM PlatformTypesCorrect == PlatformSpec => []TypesOK
<1>1. SystemInv => TypesOK
  <2> SUFFICES ASSUME SystemInv PROVE TypesOK
    OBVIOUS
  <2>1. TypeOK /\ S!TypeOK /\ T!TypeOK /\ U!TypeOK /\ ReadsTypeOK
    BY DEF SystemInv, RotationInv, Typed, ScriptInv, TokenInv, BackupsInv, ReadsInv
  <2>2. B!TypeOK
    BY BootTyped DEF SystemInv
  <2>3. E!TypeOK
    BY AuditTyped, PlatformAssumption DEF SystemInv
  <2>4. L!TypeOK /\ C!TypeOK /\ I!TypeOK
    BY ListSettles, ColumnsFollow, SignInIsTrue DEF SystemInv
  <2>5. D!TypeOK
    BY DEF SystemInv, DrawerInv
  <2>6. M!TypeOK
    BY TimelineTiles, SystemAssumption DEF SystemInv
  <2>7. /\ part = "users" => V!TypeOK
        /\ part = "sources" => W!TypeOK
        /\ part = "keys" => K!TypeOK
    BY UsersAreHeld, SourcesAreHeld, KeysAreHeld DEF SystemInv
  <2>8. part \in Parts
    BY DEF SystemInv
  <2>9. QED
    BY <2>1, <2>2, <2>3, <2>4, <2>5, <2>6, <2>7, <2>8 DEF TypesOK, Parts
<1>2. QED
  BY <1>1, SystemHolds, PTL

\* What the dashboard shows is true, whichever of its parts is used: the list, the
\* drawer, the columns, the timeline, the sign-in and the three sections, for every
\* value of the constants that SystemAssumption and MenuAssumption allow.
THEOREM ScreensAreTrue == PlatformSpec => []ScreenIsTrue
<1>1. SystemInv => ScreenIsTrue
  <2> SUFFICES ASSUME SystemInv PROVE ScreenIsTrue
    OBVIOUS
  <2>1. L!SettledShowsAsked /\ C!ColumnsFollowRelease /\ I!SignInHolds
    BY ListSettles, ColumnsFollow, SignInIsTrue DEF SystemInv
  <2>2. D!TrailIsTheWay
    BY DrawerTrail DEF SystemInv
  <2>3. M!SegmentsTile
    BY TimelineTiles, SystemAssumption DEF SystemInv
  <2>4. /\ part = "users" => V!UsersHold
        /\ part = "sources" => W!SourcesHold
        /\ part = "keys" => K!KeysHold
    BY UsersAreHeld, SourcesAreHeld, KeysAreHeld DEF SystemInv
  <2>5. QED
    BY <2>1, <2>2, <2>3, <2>4 DEF ScreenIsTrue
<1>2. QED
  BY <1>1, SystemHolds, PTL

\* The eight safety properties of the backend's parts hold of the system, too,
\* whatever else runs.
THEOREM BackendIsSafe ==
    PlatformSpec => [](/\ RotationKeepsSecrets /\ BootedOnce /\ OutputIsComplete /\ HeaderIsGood
                       /\ DumpSurvives /\ ExportIsNewest /\ ScopeNeverWidens /\ StatisticsAddUp)
<1>1. SystemInv => /\ RotationKeepsSecrets /\ BootedOnce /\ OutputIsComplete /\ HeaderIsGood
                   /\ DumpSurvives /\ ExportIsNewest /\ ScopeNeverWidens /\ StatisticsAddUp
  <2> SUFFICES ASSUME SystemInv
               PROVE  /\ RotationKeepsSecrets /\ BootedOnce /\ OutputIsComplete /\ HeaderIsGood
                      /\ DumpSurvives /\ ExportIsNewest /\ ScopeNeverWidens /\ StatisticsAddUp
    OBVIOUS
  <2>1. RotationKeepsSecrets /\ BootedOnce /\ HeaderIsGood /\ ExportIsNewest
    BY RotationKeeps, BootIsOnce, TokenIsGood, AuditNewest DEF SystemInv
  <2>2. OutputIsComplete /\ DumpSurvives
    BY DEF SystemInv, ScriptInv, BackupsInv
  <2>3. ScopeNeverWidens
    BY ScopeIsKept, PlatformAssumption
  <2>4. StatisticsAddUp
    BY FiguresAddUp, PlatformAssumption DEF SystemInv
  <2>5. QED
    BY <2>1, <2>2, <2>3, <2>4
<1>2. QED
  BY <1>1, SystemHolds, PTL
=============================================================================
