------------------------------- MODULE Drawer -------------------------------
(***************************************************************************)
(* The call drawer of the dashboard (App of App.tsx): records opened from  *)
(* the table, fetched by id from elsewhere, or drilled into from the one   *)
(* that is open, with the trail that "Back" returns along.  A fetch goes   *)
(* on when the drawer has been closed or shows something else.             *)
(***************************************************************************)
EXTENDS Integers, Sequences

CONSTANTS
    Calls,
    Legs,      \* Legs[c]: parentCallId and relatedCallIds of c
    MaxTrail   \* bound of the model

VARIABLES
    selected,  \* the open record, or None
    stack,     \* drillStack
    drill,     \* drillToCall under way: from where, to where
    lookups,   \* openCallById, lookupCallId under way
    strayed    \* history: "Back" was used while a drill was under way

vars == <<selected, stack, drill, lookups, strayed>>

None == "none"
NoDrill == [from |-> None, to |-> None]
drillLoading == drill # NoDrill

TrailAssumption == None \notin Calls /\ Legs \in [Calls -> SUBSET Calls] /\ MaxTrail \in Nat

Init ==
    /\ selected = None /\ stack = <<>> /\ drill = NoDrill /\ lookups = {}
    /\ strayed = FALSE

\* selectRecord, closeDrawer (c = None): a new trail.
Show(c) == selected' = c /\ stack' = <<>> /\ strayed' = FALSE

\* A row of the table, when the drawer does not cover it.
SelectRecord(c) ==
    /\ selected = None
    /\ Show(c)
    /\ UNCHANGED <<drill, lookups>>

CloseDrawer ==
    /\ selected # None
    /\ Show(None)
    /\ UNCHANGED <<drill, lookups>>

\* The worst-MOS table and the call id search.
Lookup(c) ==
    /\ selected = None
    /\ lookups' = lookups \cup {c}
    /\ UNCHANGED <<selected, stack, drill, strayed>>

LookupAnswers(c) ==
    /\ c \in lookups /\ lookups' = lookups \ {c}
    /\ Show(c) \/ UNCHANGED <<selected, stack, strayed>>  \* or not found
    /\ UNCHANGED drill

\* The links are disabled while drillLoading.
DrillToCall(c) ==
    /\ selected # None /\ ~drillLoading
    /\ c \in Legs[selected]
    /\ drill' = [from |-> selected, to |-> c]
    /\ UNCHANGED <<selected, stack, lookups, strayed>>

\* Fault: a drill that is answered does not look at where it began.
DrillAnswers_FromSelected ==
    /\ drillLoading
    /\ Len(stack) < MaxTrail
    /\ stack' = IF selected = None THEN stack ELSE Append(stack, selected)
    /\ selected' = drill.to
    /\ drill' = NoDrill
    /\ UNCHANGED <<lookups, strayed>>

\* The record the link was on goes onto the trail of now; the drawer opens
\* again if it was closed.
DrillAnswers ==
    /\ drillLoading
    /\ Len(stack) < MaxTrail
    /\ stack' = Append(stack, drill.from)
    /\ selected' = drill.to
    /\ drill' = NoDrill
    /\ UNCHANGED <<lookups, strayed>>

DrillFails ==
    /\ drillLoading
    /\ drill' = NoDrill
    /\ UNCHANGED <<selected, stack, lookups, strayed>>

DrillBack ==
    /\ stack # <<>>
    /\ selected' = stack[Len(stack)]
    /\ stack' = SubSeq(stack, 1, Len(stack) - 1)
    /\ strayed' = (strayed \/ drillLoading)
    /\ UNCHANGED <<drill, lookups>>

Next ==
    \/ \E c \in Calls :
        SelectRecord(c) \/ Lookup(c) \/ LookupAnswers(c) \/ DrillToCall(c)
    \/ CloseDrawer \/ DrillAnswers \/ DrillFails \/ DrillBack

Spec == Init /\ [][Next]_vars

-----------------------------------------------------------------------------
(* Properties.                                                             *)

TypeOK ==
    /\ selected \in Calls \cup {None}
    /\ stack \in Seq(Calls) /\ Len(stack) <= MaxTrail
    /\ drill \in [from : Calls, to : Calls] \cup {NoDrill}
    /\ lookups \subseteq Calls /\ strayed \in BOOLEAN

\* Going back from any record leads to one that links to it, all along the
\* trail, also when the drawer was closed, reopened or taken over by a lookup
\* before a drill was answered - unless "Back" was used in between.
TrailIsTheWay ==
    /\ selected = None => stack = <<>>
    /\ ~strayed =>
         LET way == Append(stack, selected)
         IN \A i \in DOMAIN stack : way[i + 1] \in Legs[way[i]]
=============================================================================
