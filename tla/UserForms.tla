----------------------------- MODULE UserForms -----------------------------
(***************************************************************************)
(* UsersSection of App.tsx, beside other admins: users are added, deleted, *)
(* freed of their second factor, and edited in a form that is filled from  *)
(* a row of the list and sends role and scope back whole.                  *)
(*                                                                         *)
(* A scope is a list of groups, or none at all (Null), which is no limit.  *)
(* A group's name is any string for the API, and whatever the form's text  *)
(* field makes of it for the form.                                         *)
(***************************************************************************)
EXTENDS Section

CONSTANTS
    Users, Self,   \* Self: whose dashboard this is
    Groups,        \* names of groups
    ReadsAs,       \* ReadsAs[g]: the names read from a field that holds g
    First,         \* the rows to begin with
    OtherRows,     \* <<u, row>> for what other admins write
    Null

VARIABLES
    form,   \* showAdd, the row that is edited, and the edit form's fields
    past    \* history: the row the form was filled from, the fields typed into since,
            \* and whether an edit changed what had not been typed

userVars == <<sectionVars, form, past>>

None == "none"
NoRow(why) == [role |-> why, scope |-> Null, mfa |-> FALSE]
Absent == NoRow("none")     \* an id not given yet
Deleted == NoRow("gone")    \* ids are not given twice
NoRows == {Absent, Deleted}
Scopes == {Null} \cup SUBSET Groups
UserRows == [role : {"admin", "viewer"}, scope : Scopes, mfa : BOOLEAN]

\* A list of groups is never confused with Null.  What is read from a field has no
\* commas and no blanks at its ends, so that it reads as itself.
UsersAssumption ==
    /\ SectionAssumption
    /\ ReadsAs \in [Groups -> SUBSET Groups]
    /\ \A g \in Groups : \A h \in ReadsAs[g] : ReadsAs[h] = {h}
    /\ Self \in Users /\ None \notin Users /\ \A groups \in SUBSET Groups : groups # Null
    /\ First \in [Users -> UserRows \cup NoRows] /\ OtherRows \subseteq Users \X UserRows

\* No row is edited: what the edit form's fields still hold is not used again.
Closed(showAdd) == [showAdd |-> showAdd, editing |-> None, role |-> "viewer", scope |-> Null]
Left == [past EXCEPT !.base = Absent, !.typed = {}]

Init ==
    /\ Mounted(First)
    /\ form = Closed(FALSE)
    /\ past = [base |-> Absent, typed |-> {}, spilt |-> FALSE]

-----------------------------------------------------------------------------
\* (list ?? []).join(", ") and parseScope, which splits at commas, trims, leaves
\* out what is empty, and reads a field without any name as Null: neither a scope
\* without groups nor a name with a comma survives the two.
Names(scope) == UNION {ReadsAs[g] : g \in scope}
ParseScope(scope) == IF scope = Null \/ Names(scope) = {} THEN Null ELSE Names(scope)
Typable == {ParseScope(scope) : scope \in Scopes}
Filled(row) == [row EXCEPT !.scope = ParseScope(@)]

Busy(kind) == \E i \in DOMAIN calls : calls[i].here /\ calls[i].kind = kind
Listed(u) == Offered /\ list.rows[u] \notin NoRows
EditForm(u) == Listed(u) /\ form.editing = u
Row(u) == Listed(u) /\ form.editing # u   \* with its buttons

Call(kind, u, row, base, typed) ==
    Send([kind |-> kind, user |-> u, row |-> row, base |-> base, typed |-> typed,
          here |-> TRUE, version |-> 0])

ToggleAdd ==
    /\ form' = Closed(~form.showAdd) /\ past' = Left
    /\ UNCHANGED sectionVars

AddForm == form.showAdd /\ ~Busy("create")

\* Which id the user gets is the server's business.
HandleAdd(role, scope) ==
    /\ AddForm
    /\ Call("create", None, [role |-> role, scope |-> scope, mfa |-> FALSE], Absent, {})
    /\ UNCHANGED <<form, past>>

HandleDelete(u) ==
    /\ Row(u) /\ u # Self
    /\ Call("delete", u, Absent, Absent, {})
    /\ UNCHANGED <<form, past>>

HandleResetMfa(u) ==
    /\ Row(u) /\ list.rows[u].mfa
    /\ Call("reset", u, Absent, Absent, {})
    /\ UNCHANGED <<form, past>>

\* Fault: the scope fields keep what they held for the row edited before.
StartEdit_KeepsScope(u) ==
    /\ Row(u)
    /\ form' = [form EXCEPT !.showAdd = FALSE, !.editing = u, !.role = list.rows[u].role]
    /\ past' = [past EXCEPT !.base = list.rows[u], !.typed = {}]
    /\ UNCHANGED sectionVars

StartEdit(u) ==
    /\ Row(u)
    /\ form' = [showAdd |-> FALSE, editing |-> u, role |-> list.rows[u].role,
                scope |-> ParseScope(list.rows[u].scope)]
    /\ past' = [past EXCEPT !.base = list.rows[u], !.typed = {}]
    /\ UNCHANGED sectionVars

CancelEdit ==
    /\ form.editing # None /\ EditForm(form.editing)
    /\ form' = Closed(form.showAdd) /\ past' = Left
    /\ UNCHANGED sectionVars

Type(field, value) ==
    /\ form.editing # None /\ EditForm(form.editing)
    /\ form[field] # value
    /\ form' = [form EXCEPT ![field] = value]
    /\ past' = [past EXCEPT !.typed = IF value = Filled(past.base)[field]
                                      THEN @ \ {field} ELSE @ \cup {field}]
    /\ UNCHANGED sectionVars

\* The form goes by the row that has its id now, its fields by the row that had
\* it when "Edit" was pressed.  Role and scopes are always sent.
HandleEditSubmit ==
    /\ form.editing # None /\ EditForm(form.editing) /\ ~Busy("update")
    /\ Call("update", form.editing, [role |-> form.role, scope |-> form.scope, mfa |-> FALSE],
            past.base, past.typed)
    /\ UNCHANGED <<form, past>>

-----------------------------------------------------------------------------
(* The server, which refuses whoever is no admin (any more).               *)

Admin == held.rows[Self].role = "admin"
There(u) == u \in Users /\ held.rows[u] \notin NoRows
Put(u, row) == [held.rows EXCEPT ![u] = row]

\* An edit took back what another admin changed meanwhile; or it saved a scope
\* that does not survive the field.
Excused(row, c, f) ==
    row[f] # c.base[f] \/ (f = "scope" /\ ParseScope(c.base.scope) # c.base.scope)

Update(i) ==
    LET c == calls[i]
        row == held.rows[c.user]
        new == [row EXCEPT !.role = c.row.role, !.scope = c.row.scope]
    IN
    /\ c.kind = "update" /\ Admin /\ There(c.user)
    /\ Writes(i, Put(c.user, new))
    /\ past' = [past EXCEPT !.spilt =
                 @ \/ \E f \in {"role", "scope"} \ c.typed :
                     new[f] # row[f] /\ ~Excused(row, c, f)]
    /\ UNCHANGED form

\* A name may be taken; nobody deletes himself.
Serve(i) ==
    LET c == calls[i] IN
    /\ \/ /\ Admin /\ c.kind = "create"
          /\ \E u \in Users : held.rows[u] = Absent /\ Writes(i, Put(u, c.row))
       \/ Admin /\ c.kind = "delete" /\ There(c.user) /\ c.user # Self
          /\ Writes(i, Put(c.user, Deleted))
       \/ Admin /\ c.kind = "reset" /\ There(c.user)
          /\ Writes(i, [held.rows EXCEPT ![c.user].mfa = FALSE])
       \/ (~Admin \/ c.kind = "create" \/ ~There(c.user)) /\ Refuses(i)
    /\ UNCHANGED <<form, past>>

ReadUsers(i) == Admin /\ ReadRows(i)

\* Another admin edits or deletes anybody, by the API with any scope.
OtherAdmin ==
    /\ \E change \in OtherRows : There(change[1]) /\ Elsewhere(Put(change[1], change[2]))
    /\ UNCHANGED <<form, past>>

-----------------------------------------------------------------------------
(* The answers.                                                            *)

CreateAnswers(i) ==
    /\ calls[i].kind = "create"
    /\ Acknowledged(i)
    /\ form' = [form EXCEPT !.showAdd = FALSE]
    /\ UNCHANGED past

RowAnswers(i) ==
    /\ calls[i].kind \in {"delete", "reset"}
    /\ Acknowledged(i)
    /\ UNCHANGED <<form, past>>

\* setEditingId(null): whichever row is being edited by now.
UpdateAnswers(i) ==
    /\ calls[i].kind = "update"
    /\ Acknowledged(i)
    /\ form' = Closed(form.showAdd) /\ past' = Left

Reopen ==
    /\ Remount
    /\ form' = Closed(FALSE) /\ past' = Left

Next ==
    \/ ToggleAdd \/ CancelEdit \/ HandleEditSubmit \/ Reopen \/ OtherAdmin
    \/ \E u \in Users :
        \/ HandleDelete(u) \/ HandleResetMfa(u) \/ StartEdit(u)
    \/ \E role \in {"admin", "viewer"} : Type("role", role)
    \/ \E scope \in Typable : HandleAdd("viewer", scope) \/ Type("scope", scope)
    \/ \E i \in DOMAIN calls :
        \/ Serve(i) \/ Update(i) \/ CreateAnswers(i) \/ RowAnswers(i) \/ UpdateAnswers(i)
        \/ CallFails(i) /\ UNCHANGED <<form, past>>
    \/ \E i \in DOMAIN reads :
        (ReadUsers(i) \/ ReadAnswers(i) \/ ReadFails(i)) /\ UNCHANGED <<form, past>>

Spec == Init /\ [][Next]_userVars

-----------------------------------------------------------------------------
(* Properties.                                                             *)

TypeOK ==
    /\ SectionTypeOK(MaxPending)
    /\ held.rows \in [Users -> UserRows \cup NoRows]
    /\ form \in [showAdd : BOOLEAN, editing : Users \cup {None}, role : {"admin", "viewer"},
                 scope : Typable]
    /\ past.base \in UserRows \cup {Absent}

\* "Only one row edits at a time - mutually exclusive with the add-user form."
OneForm == form.showAdd => form.editing = None

\* An edit changes what was typed and nothing else, except that it takes back
\* what another admin changed meanwhile, and that saving anything of a user with
\* a scope that does not survive the field writes what the field made of it: no
\* limit for one who may see no group at all, two groups for one with a comma.
EditsOnlyTheTyped == ~past.spilt

UsersHold == ListIsCurrent /\ OneForm /\ EditsOnlyTheTyped
=============================================================================
