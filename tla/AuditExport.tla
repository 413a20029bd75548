---------------------------- MODULE AuditExport ----------------------------
(***************************************************************************)
(* The audit log and its export: entries written fire-and-forget when a    *)
(* response finishes (middleware/audit.ts), a listing that counts and then *)
(* reads a page, newest first (services/auditService.ts), and the export   *)
(* in the dashboard (AuditLogModal of App.tsx) that walks those pages      *)
(* while the log grows, not least by its own requests, and is pruned.      *)
(*                                                                         *)
(* Entries are those the filters select.  One is the number of its INSERT  *)
(* statement, which fixes occurred_at; statements commit in any order.     *)
(***************************************************************************)
EXTENDS Integers, FiniteSets

CONSTANTS
    PageSize,    \* pageSize of the export's requests
    MaxEntries,  \* bound of the model
    MaxErrors    \* bound of the model: queries that throw

AuditAssumption ==
    PageSize \in Nat \ {0} /\ MaxEntries \in Nat /\ MaxErrors \in Nat

VARIABLES
    log,       \* audit_log
    inserts,   \* INSERTs under way
    last,      \* the most recent INSERT
    export,    \* the export: its request, pages to read, entries so far
    start,     \* history: the log when the export began to count
    added,     \* history: entries committed since
    errors

vars == <<log, inserts, last, export, start, added, errors>>

Entries == 1..MaxEntries
NoExport == [pc |-> "idle", page |-> 1, pages |-> 0, total |-> 0, all |-> {}]

Init ==
    /\ log = {} /\ inserts = {} /\ last = 0
    /\ export = NoExport /\ start = {} /\ added = 0
    /\ errors = 0

\* A response with compliance value has finished, the export's own included.
LogEvent ==
    /\ last < MaxEntries
    /\ last' = last + 1
    /\ inserts' = inserts \cup {last + 1}
    /\ UNCHANGED <<log, export, start, added, errors>>

Commit(e) ==
    /\ e \in inserts
    /\ inserts' = inserts \ {e}
    /\ log' = log \cup {e}
    /\ added' = IF export.pc = "idle" THEN 0 ELSE added + 1
    /\ UNCHANGED <<last, export, start, errors>>

\* .catch(() => {}): an entry that cannot be written is lost.
InsertFails(e) ==
    /\ e \in inserts /\ errors < MaxErrors
    /\ inserts' = inserts \ {e}
    /\ errors' = errors + 1
    /\ UNCHANGED <<log, last, export, start, added>>

\* pruneAuditLog: everything older than some entry.
Prune(e) ==
    /\ e \in log
    /\ log' = {f \in log : f > e}
    /\ UNCHANGED <<inserts, last, export, start, added, errors>>

-----------------------------------------------------------------------------
\* Fault: the oldest entries come first.
Rank_OldestFirst(e) == Cardinality({f \in log : f < e})

\* ORDER BY occurred_at DESC, id DESC.
Rank(e) == Cardinality({f \in log : f > e})

OnPage(page) ==
    {e \in log : Rank(e) >= (page - 1) * PageSize /\ Rank(e) < page * PageSize}

PageCount(total) == IF total = 0 THEN 1 ELSE (total + PageSize - 1) \div PageSize

\* handleExport: the count query of the first page.
Begin ==
    /\ export.pc = "idle"
    /\ export' = [NoExport EXCEPT !.pc = "rows", !.total = Cardinality(log)]
    /\ start' = log /\ added' = 0
    /\ UNCHANGED <<log, inserts, last, errors>>

\* The page itself.  Its request is over: one more entry for the log.
ReadPage ==
    /\ export.pc = "rows"
    /\ export' = [export EXCEPT
         !.pc = "answered",
         !.all = @ \cup OnPage(export.page),
         !.pages = IF export.page = 1 THEN PageCount(export.total) ELSE @]
    /\ IF last < MaxEntries
       THEN inserts' = inserts \cup {last + 1} /\ last' = last + 1
       ELSE UNCHANGED <<inserts, last>>
    /\ UNCHANGED <<log, start, added, errors>>

\* The pages after the first are as many as the first one said; their own
\* counts are not looked at.
NextPage ==
    /\ export.pc = "answered"
    /\ export' = IF export.page < export.pages
                 THEN [export EXCEPT !.page = @ + 1, !.pc = "rows"]
                 ELSE [export EXCEPT !.pc = "done"]
    /\ UNCHANGED <<log, inserts, last, start, added, errors>>

\* One page that fails fails the export: no file.
ExportFails ==
    /\ export.pc = "rows" /\ errors < MaxErrors
    /\ errors' = errors + 1
    /\ export' = NoExport
    /\ UNCHANGED <<log, inserts, last, start, added>>

\* downloadBlob.
Download ==
    /\ export.pc = "done"
    /\ export' = NoExport
    /\ UNCHANGED <<log, inserts, last, start, added, errors>>

Next ==
    \/ LogEvent
    \/ \E e \in Entries : Commit(e) \/ InsertFails(e) \/ Prune(e)
    \/ Begin \/ ReadPage \/ NextPage \/ ExportFails \/ Download

Spec == Init /\ [][Next]_vars

-----------------------------------------------------------------------------
(* Properties.                                                             *)

TypeOK ==
    /\ log \subseteq Entries /\ inserts \subseteq Entries /\ start \subseteq Entries
    /\ last \in 0..MaxEntries /\ added \in Nat /\ errors \in 0..MaxErrors
    /\ export.pc \in {"idle", "rows", "answered", "done"}
    /\ export.all \subseteq Entries

Missed == (start \cap log) \ export.all

\* "Exports every entry matching the current filters (all pages)": entries
\* written during the export push others down, never past it.  What the file
\* lacks of the log it began with (and that is still there) are its oldest
\* entries, no more of them than were written meanwhile.
ExportIsNewest ==
    export.pc = "done" =>
        /\ \A e \in Missed, f \in start \cap export.all : e < f
        /\ Cardinality(Missed) <= added
=============================================================================
