------------------------------ MODULE Backups ------------------------------
(***************************************************************************)
(* The dumps directory that the backup service's loop (scripts/backup.sh)  *)
(* and the backend (db/backup.ts) write at the same time: dumps that take  *)
(* a while, fail, or are killed; pruning after a scheduled one; the marker *)
(* the dashboard reads.                                                    *)
(*                                                                         *)
(* A dump is named after the second it starts in, which is one step of the *)
(* clock here; nothing but that name keeps two of them apart.              *)
(***************************************************************************)
EXTENDS Integers

CONSTANTS
    Dumpers,    \* who runs pg_dump: Scheduled, and requests to the backend
    Scheduled,
    Retention,  \* BACKUP_RETENTION_DAYS
    MaxTime,    \* bound of the model
    MaxKills    \* bound of the model: dumpers killed

BackupsAssumption ==
    /\ Scheduled \in Dumpers
    /\ Retention \in Nat \ {0} /\ MaxTime \in Nat \ {0} /\ MaxKills \in Nat

VARIABLES
    now,
    file,    \* file[t]: the dump named t, its content and mtime
    dumper,  \* dumper[d]: what it is doing, the name it writes
    marker,  \* .last-attempt: status, and the name of the dump it is about
    taken,   \* history: a dump has been completed
    clash,   \* history: two dumps had the same name
    kills

vars == <<now, file, dumper, marker, taken, clash, kills>>

Names == 1..MaxTime
Idle == [pc |-> "idle", name |-> 1]
Absent == [state |-> "absent", mtime |-> 0]
Present(t) == file[t].state # "absent"
Complete == {t \in Names : file[t].state = "complete"}
Writing(t) == {d \in Dumpers : dumper[d].pc = "dump" /\ dumper[d].name = t}

Init ==
    /\ now = 1
    /\ file = [t \in Names |-> Absent]
    /\ dumper = [d \in Dumpers |-> Idle]
    /\ marker = [status |-> "none", name |-> 1]
    /\ taken = FALSE /\ clash = FALSE /\ kills = 0

Goto(d, pc) == dumper' = [dumper EXCEPT ![d].pc = pc]
Put(t, state) == file' = [file EXCEPT ![t] = [state |-> state, mtime |-> now]]

\* A dump that is being written is never old.
Expired(t) == Present(t) /\ Writing(t) = {} /\ now - file[t].mtime > Retention
Pruned == [t \in Names |-> IF Expired(t) THEN Absent ELSE file[t]]

\* Fault: old dumps go first, whether or not the new one succeeds.
StartDump_PrunesFirst(d) ==
    /\ dumper[d].pc = "idle"
    /\ dumper' = [dumper EXCEPT ![d] = [pc |-> "dump", name |-> now]]
    /\ file' = [Pruned EXCEPT ![now] = [state |-> "partial", mtime |-> now]]
    /\ clash' = (clash \/ Present(now))
    /\ UNCHANGED <<now, marker, taken, kills>>

\* pg_dump --file truncates what is there; a file two processes write at once
\* is good for nothing.
StartDump(d) ==
    /\ dumper[d].pc = "idle"
    /\ dumper' = [dumper EXCEPT ![d] = [pc |-> "dump", name |-> now]]
    /\ Put(now, IF Writing(now) = {} THEN "partial" ELSE "garbled")
    /\ clash' = (clash \/ Present(now))
    /\ UNCHANGED <<now, marker, taken, kills>>

\* pg_dump exits 0.  The backend answers, the script goes on to prune.
DumpSucceeds(d) ==
    LET t == dumper[d].name IN
    /\ dumper[d].pc = "dump"
    /\ IF file[t].state = "garbled" THEN UNCHANGED <<file, taken>>
       ELSE Put(t, "complete") /\ taken' = TRUE
    /\ Goto(d, IF d = Scheduled THEN "prune" ELSE "idle")
    /\ UNCHANGED <<now, marker, clash, kills>>

\* pg_dump fails: nobody removes its file.  set -e ends the script, whose EXIT
\* trap writes the marker; the backend answers 500.
DumpFails(d) ==
    /\ dumper[d].pc = "dump"
    /\ Goto(d, "idle")
    /\ marker' = IF d = Scheduled
                 THEN [status |-> "failed", name |-> dumper[d].name] ELSE marker
    /\ UNCHANGED <<now, file, taken, clash, kills>>

\* find -mtime -delete, whatever the files contain.
Prune ==
    /\ dumper[Scheduled].pc = "prune"
    /\ file' = Pruned
    /\ Goto(Scheduled, "mark")
    /\ UNCHANGED <<now, marker, taken, clash, kills>>

WriteStatus ==
    /\ dumper[Scheduled].pc = "mark"
    /\ marker' = [status |-> "ok", name |-> dumper[Scheduled].name]
    /\ Goto(Scheduled, "idle")
    /\ UNCHANGED <<now, file, taken, clash, kills>>

\* The container dies: no trap runs, the marker stays what it was.
Kill(d) ==
    /\ dumper[d].pc # "idle" /\ kills < MaxKills
    /\ kills' = kills + 1
    /\ Goto(d, "idle")
    /\ UNCHANGED <<now, file, marker, taken, clash>>

\* A finished dump is pruned after moments, not after the retention period.
Tick ==
    /\ now < MaxTime
    /\ dumper[Scheduled].pc = "prune" => now - file[dumper[Scheduled].name].mtime < Retention
    /\ now' = now + 1
    /\ UNCHANGED <<file, dumper, marker, taken, clash, kills>>

Next ==
    \/ \E d \in Dumpers : StartDump(d) \/ DumpSucceeds(d) \/ DumpFails(d) \/ Kill(d)
    \/ Prune \/ WriteStatus \/ Tick

Spec == Init /\ [][Next]_vars

-----------------------------------------------------------------------------
(* Properties.                                                             *)

TypeOK ==
    /\ now \in Names
    /\ file \in [Names -> [state : {"absent", "partial", "garbled", "complete"},
                           mtime : 0..MaxTime]]
    /\ dumper \in [Dumpers -> [pc : {"idle", "dump", "prune", "mark"}, name : Names]]
    /\ marker \in [status : {"none", "ok", "failed"}, name : Names]
    /\ taken \in BOOLEAN /\ clash \in BOOLEAN /\ kills \in 0..MaxKills

\* Once a dump has been taken there is one to restore from, however many runs
\* fail or are killed afterwards: only a run whose own dump succeeded deletes
\* anything.  "ok" means that dump, or a newer one, is there.  Only a second
\* dump in the same second can spoil a good one.
DumpSurvives ==
    ~clash =>
        /\ taken => Complete # {}
        /\ marker.status = "ok" => \E t \in Complete : t >= marker.name
=============================================================================
