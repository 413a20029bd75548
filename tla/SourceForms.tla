---------------------------- MODULE SourceForms ----------------------------
(***************************************************************************)
(* RemoteSourcesSection of App.tsx, beside other admins: remote sources    *)
(* are added, deleted, switched on and off, polled by hand, and edited in  *)
(* a form whose credential is blank until "Change credential" is ticked    *)
(* and one is typed in.  A script also needs a tick that accepts the       *)
(* liability for it.                                                       *)
(*                                                                         *)
(* Left out: name, URL and interval, which go back whole like a user's     *)
(* role (UserForms); OAuth2's fields stand beside "key".                   *)
(***************************************************************************)
EXTENDS Section

CONSTANTS
    Sources,   \* their ids
    First      \* those there to begin with

VARIABLES form   \* showAdd, the row that is edited and its fields, pollingId

sourceVars == <<sectionVars, form>>

\* For whom a field was filled in: a source, the add form, or nobody.
None == "none"
New == "new"
Types == {"key", "script"}
Owners == Sources \cup {New, None}

SourcesAssumption ==
    SectionAssumption /\ First \subseteq Sources /\ None \notin Sources /\ New \notin Sources

NoAuth == [type |-> "key", secret |-> None, accepted |-> None]
Auths == [type : Types, secret : Owners, accepted : Owners]
NoRow(why) == [enabled |-> FALSE, auth |-> NoAuth, why |-> why]
Absent == NoRow("none")     \* an id not given yet
Deleted == NoRow("gone")    \* ids are not given twice
Row(enabled, auth) == [enabled |-> enabled, auth |-> auth, why |-> "there"]
NewRow == Row(TRUE, [NoAuth EXCEPT !.secret = New])

\* No row is edited: what the form's fields still hold is not used again.
EmptyFields(s, type) ==
    [editing |-> s, type |-> type, filled |-> [t \in Types |-> None], accepted |-> None]
Closed == EmptyFields(None, "key")

Init ==
    /\ Mounted([s \in Sources |-> IF s \in First THEN NewRow ELSE Absent])
    /\ form = [showAdd |-> FALSE, polling |-> None, edit |-> Closed]

-----------------------------------------------------------------------------
edit == form.edit
Busy(kind) == \E i \in DOMAIN calls : calls[i].here /\ calls[i].kind = kind
Listed(s) == Offered /\ list.rows[s].why = "there"
EditForm == edit.editing # None /\ Listed(edit.editing)
Buttons(s) == Listed(s) /\ edit.editing # s

Request(kind, s, row) == [kind |-> kind, source |-> s, row |-> row, here |-> TRUE, version |-> 0]
Call(kind, s, row) == Send(Request(kind, s, row))

ToggleAdd ==
    /\ form' = [form EXCEPT !.showAdd = ~@, !.edit = Closed]
    /\ UNCHANGED sectionVars

AddForm(auth) ==
    form.showAdd /\ ~Busy("create") /\ (auth.type = "script" => auth.accepted = New)

\* The add form, filled in as it is when it is sent.
HandleAdd(auth) ==
    /\ AddForm(auth)
    /\ Call("create", None, Row(TRUE, auth))
    /\ UNCHANGED form

HandleDelete(s) == Buttons(s) /\ Call("delete", s, Deleted) /\ UNCHANGED form

\* What the button says, not the opposite of what the server has.
HandleToggleEnabled(s) ==
    /\ Buttons(s)
    /\ Call("toggle", s, Row(~list.rows[s].enabled, NoAuth))
    /\ UNCHANGED form

\* One pollingId for all rows.  A poll takes long: the bound allows one beside
\* another.
HandlePollNow(s) ==
    /\ Buttons(s) /\ form.polling # s
    /\ SendWithin(IF Busy("poll") THEN MaxPending + 1 ELSE MaxPending, Request("poll", s, Deleted))
    /\ form' = [form EXCEPT !.polling = s]

\* Fault: only name and type are filled in anew.
StartEdit_KeepsFields(s) ==
    /\ Buttons(s)
    /\ form' = [form EXCEPT !.showAdd = FALSE, !.edit.editing = s,
                            !.edit.type = list.rows[s].auth.type]
    /\ UNCHANGED sectionVars

StartEdit(s) ==
    /\ Buttons(s)
    /\ form' = [form EXCEPT !.showAdd = FALSE,
                            !.edit = EmptyFields(s, list.rows[s].auth.type)]
    /\ UNCHANGED sectionVars

CancelEdit ==
    /\ EditForm
    /\ form' = [form EXCEPT !.edit = Closed]
    /\ UNCHANGED sectionVars

\* The credential's fields are there while "Change credential" is ticked, and keep
\* what they hold while it is not; the fields of one type, while another is chosen.
ChooseType(type) ==
    /\ EditForm /\ edit.type # type
    /\ form' = [form EXCEPT !.edit.type = type]
    /\ UNCHANGED sectionVars

\* By hand or from an example; the tick for a script stays when its text changes.
Fill ==
    /\ EditForm
    /\ form' = [form EXCEPT !.edit.filled[edit.type] = edit.editing]
    /\ UNCHANGED sectionVars

Accept ==
    /\ EditForm /\ edit.type = "script"
    /\ form' = [form EXCEPT !.edit.accepted = IF @ = None THEN edit.editing ELSE None]
    /\ UNCHANGED sectionVars

BuildAuth ==
    [type |-> edit.type, secret |-> edit.filled[edit.type],
     accepted |-> IF edit.type = "script" THEN edit.accepted ELSE None]

\* With the tick, or without: it may have been set and cleared any number of times.
HandleEditSubmit(rotate) ==
    /\ EditForm /\ ~Busy("rotate") /\ ~Busy("update")
    /\ rotate /\ edit.type = "script" => edit.accepted # None
    /\ IF rotate THEN Call("rotate", edit.editing, Row(FALSE, BuildAuth))
                 ELSE Call("update", edit.editing, Deleted)
    /\ UNCHANGED form

-----------------------------------------------------------------------------
(* The server.                                                             *)

There(s) == s \in Sources /\ held.rows[s].why = "there"

\* A blank credential is refused.
Serve(i) ==
    LET c == calls[i]
        Set(row) == Writes(i, [held.rows EXCEPT ![c.source] = row])
    IN
    /\ \/ /\ c.kind = "create" /\ c.row.auth.secret # None
          /\ \E s \in Sources : held.rows[s] = Absent
                                /\ Writes(i, [held.rows EXCEPT ![s] = c.row])
       \/ c.kind = "delete" /\ There(c.source) /\ Set(Deleted)
       \/ c.kind = "toggle" /\ There(c.source)
          /\ Set([held.rows[c.source] EXCEPT !.enabled = c.row.enabled])
       \/ c.kind = "rotate" /\ There(c.source) /\ c.row.auth.secret # None
          /\ Set([held.rows[c.source] EXCEPT !.auth = c.row.auth])
       \/ c.kind \in {"poll", "update"} /\ There(c.source) /\ Set(held.rows[c.source])
       \/ c.kind \in {"create", "rotate"} /\ c.row.auth.secret = None /\ Refuses(i)
       \/ c.kind # "create" /\ ~There(c.source) /\ Refuses(i)
    /\ UNCHANGED form

OtherAdmin ==
    /\ \E s \in Sources :
        /\ There(s)
        /\ \/ Elsewhere([held.rows EXCEPT ![s] = Deleted])
           \/ Elsewhere([held.rows EXCEPT ![s].enabled = ~@])
    /\ UNCHANGED form

-----------------------------------------------------------------------------
(* The answers.                                                            *)

CreateAnswers(i) ==
    /\ calls[i].kind = "create"
    /\ Acknowledged(i)
    /\ form' = [form EXCEPT !.showAdd = FALSE]

RowAnswers(i) ==
    /\ calls[i].kind \in {"delete", "toggle"}
    /\ Acknowledged(i)
    /\ UNCHANGED form

\* setEditingId(null): whichever row is being edited by now.
EditAnswers(i) ==
    /\ calls[i].kind \in {"rotate", "update"}
    /\ Acknowledged(i)
    /\ form' = [form EXCEPT !.edit = Closed]

\* setPollingId(null): whichever row is shown as polled by now.
PollAnswers(i) ==
    /\ calls[i].kind = "poll"
    /\ Acknowledged(i)
    /\ form' = [form EXCEPT !.polling = None]

\* Fault: a poll that fails leaves its button as it is.
AnswerFails_LeavesButton(i) == CallFails(i) /\ UNCHANGED form

AnswerFails(i) ==
    /\ CallFails(i)
    /\ form' = IF calls[i].here /\ calls[i].kind = "poll"
               THEN [form EXCEPT !.polling = None] ELSE form

Reopen ==
    /\ Remount
    /\ form' = [showAdd |-> FALSE, polling |-> None, edit |-> Closed]

AddFormAuths ==
    {[type |-> "key", secret |-> New, accepted |-> None],
     [type |-> "script", secret |-> New, accepted |-> New],
     [type |-> "script", secret |-> None, accepted |-> New]}

Next ==
    \/ ToggleAdd \/ CancelEdit \/ Fill \/ Accept
    \/ Reopen \/ OtherAdmin
    \/ \E s \in Sources : HandleDelete(s) \/ HandleToggleEnabled(s) \/ HandlePollNow(s) \/ StartEdit(s)
    \/ \E auth \in AddFormAuths : HandleAdd(auth)
    \/ \E rotate \in BOOLEAN : HandleEditSubmit(rotate)
    \/ \E type \in Types : ChooseType(type)
    \/ \E i \in DOMAIN calls :
        Serve(i) \/ CreateAnswers(i) \/ RowAnswers(i) \/ EditAnswers(i) \/ PollAnswers(i)
        \/ AnswerFails(i)
    \/ \E i \in DOMAIN reads : (ReadRows(i) \/ ReadAnswers(i) \/ ReadFails(i)) /\ UNCHANGED form

Spec == Init /\ [][Next]_sourceVars

-----------------------------------------------------------------------------
(* Properties.                                                             *)

TypeOK ==
    /\ SectionTypeOK(MaxPending + 1)
    /\ held.rows \in [Sources -> {Absent, Deleted} \cup [enabled : BOOLEAN, auth : Auths, why : {"there"}]]
    /\ form.showAdd \in BOOLEAN /\ form.polling \in Sources \cup {None}
    /\ edit.editing \in Sources \cup {None} /\ edit.type \in Types
    /\ edit.accepted \in Owners /\ edit.filled \in [Types -> Owners]

\* "Only one row edits at a time - mutually exclusive with the add-source form."
OneForm == form.showAdd => edit.editing = None

\* A source's credential was typed in a form for that source, and so was the tick
\* that accepts the liability for its script.
CredentialIsItsOwn ==
    \A s \in Sources : There(s) =>
        LET auth == held.rows[s].auth IN
        /\ auth.secret \in {s, New}
        /\ auth.type = "script" => auth.accepted \in {s, New}

\* "Polling..." is only said of a source whose poll is under way.
PollingIsTrue ==
    form.polling # None =>
        \E i \in DOMAIN calls : /\ calls[i].here /\ calls[i].kind = "poll"
                                /\ calls[i].source = form.polling

SourcesHold == ListIsCurrent /\ OneForm /\ CredentialIsItsOwn /\ PollingIsTrue
=============================================================================
