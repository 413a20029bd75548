------------------------------ MODULE KeyList ------------------------------
(***************************************************************************)
(* ApiKeysSection of App.tsx: a user's keys, and the value of a new one,   *)
(* which the server sends once.                                            *)
(***************************************************************************)
EXTENDS Section

VARIABLES
    form,   \* showAdd, revealed
    past    \* history: the new key its owner has not put away, and whether a
            \* revocation begun before it came hid it

keyVars == <<sectionVars, form, past>>

None == 0
Keys == 2..MaxWrites   \* a key is the number of the write that made it

Init ==
    /\ Mounted({})
    /\ form = [showAdd |-> FALSE, revealed |-> None]
    /\ past = [unsaved |-> None, hidden |-> FALSE]

busy == \E i \in DOMAIN calls : calls[i].here /\ calls[i].kind = "create"
Listed(k) == Offered /\ k \in list.rows
PutAway == past' = [unsaved |-> None, hidden |-> FALSE]

\* "+ New key", "Cancel": also while a key is being created.
ToggleAdd ==
    /\ form' = [showAdd |-> ~form.showAdd, revealed |-> None]
    /\ PutAway
    /\ UNCHANGED sectionVars

AddForm == form.showAdd /\ ~busy

HandleAdd ==
    /\ AddForm
    /\ Send([kind |-> "create", key |-> None, revealed |-> None, here |-> TRUE, version |-> 0])
    /\ UNCHANGED <<form, past>>

\* Not disabled by another request; it holds on to `revealed` as it is now.
HandleDelete(k) ==
    /\ Listed(k)
    /\ Send([kind |-> "delete", key |-> k, revealed |-> form.revealed,
             here |-> TRUE, version |-> 0])
    /\ UNCHANGED <<form, past>>

Serve(i) ==
    /\ \/ calls[i].kind = "create" /\ Writes(i, held.rows \cup {held.version + 1})
       \/ calls[i].kind = "delete" /\ calls[i].key \in held.rows
          /\ Writes(i, held.rows \ {calls[i].key})
       \/ calls[i].kind = "delete" /\ calls[i].key \notin held.rows /\ Refuses(i)
    /\ UNCHANGED <<form, past>>

\* setRevealed, setShowAdd(false), refresh().
CreateAnswers(i) ==
    /\ calls[i].kind = "create"
    /\ Acknowledged(i)
    /\ form' = [showAdd |-> FALSE, revealed |-> calls[i].version]
    /\ past' = [unsaved |-> calls[i].version, hidden |-> FALSE]

\* The value on screen goes with the key revoked, if there was one when the
\* button was pressed.
DeleteAnswers(i) ==
    LET seen == calls[i].revealed IN
    /\ calls[i].kind = "delete"
    /\ Acknowledged(i)
    /\ IF seen # None
       THEN /\ form' = [form EXCEPT !.revealed = None]
            /\ past' = IF seen = past.unsaved
                       THEN [past EXCEPT !.unsaved = None]
                       ELSE [past EXCEPT !.hidden = (past.unsaved # None)]
       ELSE UNCHANGED <<form, past>>

\* Fault: the value goes, whenever it came.
DeleteAnswers_Always(i) ==
    /\ calls[i].kind = "delete"
    /\ Acknowledged(i)
    /\ form' = [form EXCEPT !.revealed = None]
    /\ past' = IF calls[i].revealed = past.unsaved
               THEN [past EXCEPT !.unsaved = None] ELSE past

Reopen ==
    /\ Remount
    /\ form' = [showAdd |-> FALSE, revealed |-> None]
    /\ PutAway

Next ==
    \/ ToggleAdd \/ HandleAdd \/ Reopen
    \/ \E k \in Keys : HandleDelete(k)
    \/ \E i \in DOMAIN calls :
        \/ Serve(i) \/ CreateAnswers(i) \/ DeleteAnswers(i)
        \/ CallFails(i) /\ UNCHANGED <<form, past>>
    \/ \E i \in DOMAIN reads :
        (ReadRows(i) \/ ReadAnswers(i) \/ ReadFails(i)) /\ UNCHANGED <<form, past>>

Spec == Init /\ [][Next]_keyVars

-----------------------------------------------------------------------------
(* Properties.                                                             *)

TypeOK ==
    /\ SectionTypeOK(MaxPending)
    /\ held.rows \subseteq Keys /\ list.rows \subseteq Keys
    /\ form \in [showAdd : BOOLEAN, revealed : Keys \cup {None}]
    /\ past \in [unsaved : Keys \cup {None}, hidden : BOOLEAN]

\* A new key's value stays on screen until its owner puts it away - it is never
\* sent again - unless a revocation begun beside an earlier key's value ends
\* only now.
ValueStays == ~past.hidden => form.revealed = past.unsaved

KeysHold == ListIsCurrent /\ ValueStays
=============================================================================
