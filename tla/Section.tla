------------------------------ MODULE Section ------------------------------
(***************************************************************************)
(* What the three lists of the dashboard's menu have in common (API keys,  *)
(* users, remote sources; App.tsx): a list read when the menu opens and    *)
(* again after every change that was acknowledged.  Reads are neither      *)
(* cancelled nor numbered, and the menu may close before an answer.        *)
(***************************************************************************)
EXTENDS Integers, Sequences

CONSTANTS
    UnreadRows,           \* the rows of a list that has not been read
    MaxPending, MaxWrites \* bounds of the model: requests under way, writes

SectionAssumption == MaxPending \in Nat \ {0} /\ MaxWrites \in Nat \ {0}

VARIABLES
    held,      \* the server's rows, and a number for every write to them
    list,      \* what the section read last, or Unread
    reads,     \* reads of the list under way, the first one first
    loading,
    calls,     \* other requests under way
    told,      \* history: the last write the section was told of
    order      \* history: the read begun last is pending, ended last, or was
               \* followed by an earlier one

sectionVars == <<held, list, reads, loading, calls, told, order>>

Unread == [rows |-> UnreadRows, version |-> 0]
Refused == 0 - 1

Mounted(rows) ==
    /\ held = [rows |-> rows, version |-> 1]
    /\ list = Unread /\ reads = <<Unread>> /\ loading = TRUE /\ order = "pending"
    /\ calls = <<>> /\ told = 0

-----------------------------------------------------------------------------
(* The list.                                                               *)

\* refresh(), while the others in the list go on.
Refresh ==
    /\ reads' = Append(reads, Unread)
    /\ loading' = TRUE /\ order' = "pending"
    /\ UNCHANGED list

Without(s, i) == SubSeq(s, 1, i - 1) \o SubSeq(s, i + 1, Len(s))

KeepList == UNCHANGED <<list, reads, loading, order>>

ReadRows(i) ==
    /\ reads[i].version = 0
    /\ reads' = [reads EXCEPT ![i] = held]
    /\ UNCHANGED <<held, list, loading, calls, told, order>>

ReadEnds(i) ==
    /\ reads' = Without(reads, i)
    /\ order' = IF order = "pending"
                THEN IF i < Len(reads) THEN "pending" ELSE "last"
                ELSE "overtaken"
    /\ loading' = FALSE
    /\ UNCHANGED <<held, calls, told>>

ReadAnswers(i) == reads[i].version # 0 /\ list' = reads[i] /\ ReadEnds(i)
ReadFails(i) == list' = Unread /\ ReadEnds(i)

\* The rows and their buttons are on screen.
Offered == ~loading /\ list.version # 0

-----------------------------------------------------------------------------
(* The other requests: records with fields `here` (what sent it is still   *)
(* on screen) and `version` (0, the write it made, or Refused).            *)

SendWithin(limit, call) ==
    /\ Len(calls) + Len(reads) < limit
    /\ calls' = Append(calls, call)
    /\ UNCHANGED <<held, told>> /\ KeepList

Send(call) == SendWithin(MaxPending, call)

Served(i, version) == calls' = [calls EXCEPT ![i].version = version]

\* The server's side of call i: the rows it leaves.
Writes(i, rows) ==
    /\ calls[i].version = 0 /\ held.version < MaxWrites
    /\ held' = [rows |-> rows, version |-> held.version + 1]
    /\ Served(i, held.version + 1)
    /\ UNCHANGED told /\ KeepList

Refuses(i) ==
    /\ calls[i].version = 0
    /\ Served(i, Refused)
    /\ UNCHANGED <<held, told>> /\ KeepList

\* Call i was acknowledged: the list is read again.
Acknowledged(i) ==
    /\ calls[i].here /\ calls[i].version > 0
    /\ calls' = Without(calls, i)
    /\ told' = IF calls[i].version > told THEN calls[i].version ELSE told
    /\ Refresh
    /\ UNCHANGED held

\* An error, or no answer, whatever became of the request: a message.  Or an
\* answer nobody is there for, which does nothing.
CallFails(i) ==
    /\ calls' = Without(calls, i)
    /\ UNCHANGED <<held, told>> /\ KeepList

\* Other admins, other tabs, scripts with a key.
Elsewhere(rows) ==
    /\ held.version < MaxWrites
    /\ held' = [rows |-> rows, version |-> held.version + 1]
    /\ UNCHANGED <<calls, told>> /\ KeepList

\* The menu is closed and opened again: a new section, which knows nothing of
\* the requests of the old one.
Remount ==
    /\ list' = Unread /\ reads' = <<Unread>> /\ loading' = TRUE /\ order' = "pending"
    /\ calls' = [i \in DOMAIN calls |-> [calls[i] EXCEPT !.here = FALSE]]
    /\ told' = 0
    /\ UNCHANGED held

-----------------------------------------------------------------------------
SectionTypeOK(limit) ==
    /\ held.version \in 1..MaxWrites /\ list.version \in 0..held.version
    /\ Len(calls) <= limit /\ Len(calls) + Len(reads) <= limit + 1
    /\ \A i \in DOMAIN reads : reads[i].version \in 0..held.version
    /\ \A i \in DOMAIN calls : calls[i].version \in Refused..held.version
    /\ told \in 0..held.version /\ loading \in BOOLEAN
    /\ order \in {"pending", "last", "overtaken"}

\* A settled list shows every change the section was told of, unless the read
\* begun last was overtaken by an earlier one.
ListIsCurrent ==
    /\ reads = <<>> => ~loading
    /\ reads = <<>> /\ order = "last" /\ list.version # 0 => list.version >= told
=============================================================================
