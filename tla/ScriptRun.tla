----------------------------- MODULE ScriptRun -----------------------------
(***************************************************************************)
(* One run of a custom source's script (services/remoteScriptRunner.ts):   *)
(* the python process and what it leaves running, the pipe its output goes *)
(* through, and the parent's events: data, timeout, grace period, close.   *)
(* The poll that awaits the run holds its lease until the run settles.     *)
(*                                                                         *)
(* Time is abstract: a timer that is armed fires sooner or later.          *)
(***************************************************************************)
EXTENDS Integers

CONSTANTS MaxBytes,  \* SCRIPT_STDOUT_MAX_BYTES, in chunks
          MaxOutput  \* bound of the model: chunks a script writes

OutputAssumption == MaxBytes \in Nat /\ MaxOutput \in Nat

VARIABLES
    child,    \* "none", "running", or how it ended: "ok", "error", "signal"
    stubborn, \* the script ignores SIGTERM
    heir,     \* a process the script started holds the write end of the pipe
    written,  \* chunks written
    read,     \* chunks the parent has read
    kept,     \* chunks in stdout, the string the parent builds
    garbled,  \* a character of that string is not the one the script wrote
    timer,    \* timeoutTimer: "armed", "fired" or "cleared"
    grace,    \* the SIGKILL timer: "off" or "armed"
    flags,    \* the parent's exited, timedOut, tooLarge
    promise   \* "none", "pending", "resolved", "rejected"

vars == <<child, stubborn, heir, written, read, kept, garbled, timer, grace, flags, promise>>

Ended == {"ok", "error", "signal"}
NoFlags == [exited |-> FALSE, timedOut |-> FALSE, tooLarge |-> FALSE]

Init ==
    /\ child = "none" /\ stubborn = FALSE /\ heir = FALSE
    /\ written = 0 /\ read = 0 /\ kept = 0 /\ garbled = FALSE
    /\ timer = "cleared" /\ grace = "off" /\ flags = NoFlags
    /\ promise = "none"

parent == <<read, kept, garbled, timer, grace, flags, promise>>

\* runCustomScript, spawn; or sh cannot be started and "error" is emitted.
Spawn ==
    /\ promise = "none"
    /\ \/ /\ child' = "running" /\ promise' = "pending" /\ timer' = "armed"
          /\ stubborn' \in BOOLEAN
       \/ child' = "error" /\ promise' = "rejected" /\ UNCHANGED <<stubborn, timer>>
    /\ UNCHANGED <<heir, written, read, kept, garbled, grace, flags>>

-----------------------------------------------------------------------------
(* The script.                                                             *)

Write ==
    /\ child = "running" \/ heir
    /\ written < MaxOutput
    /\ written' = written + 1
    /\ UNCHANGED <<child, stubborn, heir, parent>>

Fork ==
    /\ child = "running" /\ ~heir
    /\ heir' = TRUE
    /\ UNCHANGED <<child, stubborn, written, parent>>

Exit ==
    /\ child = "running"
    /\ child' \in {"ok", "error"}
    /\ UNCHANGED <<stubborn, heir, written, parent>>

\* No signal reaches the heir: it ends when it likes.
HeirEnds ==
    /\ heir
    /\ heir' = FALSE
    /\ UNCHANGED <<child, stubborn, written, parent>>

-----------------------------------------------------------------------------
(* The parent.                                                             *)

\* killWithGrace: SIGTERM, which a script may ignore or answer with an exit of
\* its own, and the grace timer.
KillWithGrace ==
    /\ child' \in IF child # "running" THEN {child}
                  ELSE IF stubborn THEN {"running"} ELSE {"signal", "ok", "error"}
    /\ grace' = "armed"

Timeout ==
    /\ timer = "armed"
    /\ timer' = "fired"
    /\ flags' = [flags EXCEPT !.timedOut = TRUE]
    /\ KillWithGrace
    /\ UNCHANGED <<stubborn, heir, written, read, kept, garbled, promise>>

\* Fault: SIGTERM is all a script ever gets.
GraceEnds_NoKill ==
    /\ grace = "armed"
    /\ grace' = "off"
    /\ UNCHANGED <<child, stubborn, heir, written, read, kept, garbled, timer, flags, promise>>

\* SIGKILL, unless "close" has been emitted.
GraceEnds ==
    /\ grace = "armed"
    /\ grace' = "off"
    /\ child' = IF ~flags.exited /\ child = "running" THEN "signal" ELSE child
    /\ UNCHANGED <<stubborn, heir, written, read, kept, garbled, timer, flags, promise>>

\* stdout "data": past the cap nothing is kept, and the first time kills.  Each
\* chunk is decoded by itself: a character that began in the one before is lost.
Data ==
    /\ read < written
    /\ read' = read + 1
    /\ IF read + 1 <= MaxBytes
       THEN /\ kept' = kept + 1
            /\ garbled' \in {garbled, garbled \/ kept > 0}
            /\ UNCHANGED <<flags, child, grace>>
       ELSE /\ IF flags.tooLarge THEN UNCHANGED <<child, grace>> ELSE KillWithGrace
            /\ flags' = [flags EXCEPT !.tooLarge = TRUE]
            /\ UNCHANGED <<kept, garbled>>
    /\ UNCHANGED <<stubborn, heir, written, timer, promise>>

Settle ==
    /\ promise = "pending"
    /\ flags' = [flags EXCEPT !.exited = TRUE]
    /\ timer' = IF timer = "armed" THEN "cleared" ELSE timer
    /\ promise' = IF flags.tooLarge \/ flags.timedOut \/ child # "ok"
                  THEN "rejected" ELSE "resolved"
    /\ UNCHANGED <<child, stubborn, heir, written, read, kept, garbled, grace>>

\* Fault: the promise settles on "exit", with output still in the pipe.
Close_OnExit ==
    /\ child \in Ended
    /\ Settle

\* "close": the process has ended and the pipe is closed and read to its end.
Close ==
    /\ child \in Ended /\ ~heir /\ read = written
    /\ Settle

Next ==
    \/ Spawn \/ Write \/ Fork \/ Exit \/ HeirEnds
    \/ Timeout \/ GraceEnds \/ Data \/ Close

\* Timers fire and events are delivered.  The script may run for ever, and so
\* may what it forked.
Fairness ==
    WF_vars(Timeout) /\ WF_vars(GraceEnds) /\ WF_vars(Data) /\ WF_vars(Close)

Spec == Init /\ [][Next]_vars /\ Fairness

-----------------------------------------------------------------------------
(* Properties.                                                             *)

TypeOK ==
    /\ child \in Ended \cup {"none", "running"}
    /\ stubborn \in BOOLEAN /\ heir \in BOOLEAN
    /\ written \in 0..MaxOutput /\ read \in 0..written /\ kept \in 0..read
    /\ timer \in {"armed", "fired", "cleared"} /\ grace \in {"off", "armed"}
    /\ garbled \in BOOLEAN
    /\ flags \in [exited : BOOLEAN, timedOut : BOOLEAN, tooLarge : BOOLEAN]
    /\ promise \in {"none", "pending", "resolved", "rejected"}

\* Records are only taken from a script that ended by itself, with exit code 0,
\* and from every chunk of its output; an output of one chunk is read as it was
\* written.  (A character that lies across two chunks is not, in a run that resolves.)
OutputIsComplete ==
    promise = "resolved" =>
        /\ child = "ok" /\ ~heir /\ kept = written /\ written <= MaxBytes
        /\ garbled => written > 1

Settled == promise \in {"resolved", "rejected"}

\* A run settles, and lets go of its poll, whatever the script does - hangs,
\* ignores SIGTERM, prints without end - unless it leaves a process behind that
\* keeps the pipe open for ever: nobody signals that one, and while it lives the
\* "wall-clock timeout" (remoteScriptRunner.ts:45-46) bounds nothing.
EveryRunSettles == <>[]~heir => (promise = "pending" ~> Settled)
=============================================================================
