----------------------------- MODULE AlertCheck -----------------------------
(***************************************************************************)
(* Outbound alerting (services/alertService.ts): a periodic job, behind    *)
(* the alert_check lease, evaluates every health condition, compares it    *)
(* with its row of alert_state, posts a webhook for each condition that    *)
(* changed or whose cooldown is over, and writes all rows back in one      *)
(* upsert.  Between the read of the rows and the upsert it waits for one   *)
(* POST after the other.                                                   *)
(***************************************************************************)
EXTENDS Integers

CONSTANTS
    Replicas,     \* backend processes
    Conditions,   \* keys of alert_state
    Lease,        \* ALERT_CHECK_LEASE_MS
    Cooldown,     \* ALERT_COOLDOWN_HOURS
    MaxCheck,     \* the longest a check may take, its webhooks included
    WebhookFails, \* may a POST be lost or answered with an error?
    MaxTime       \* bound of the model: the clock stops here

ASSUME LeaseAssumption == Lease \in Nat
ASSUME CooldownAssumption == Cooldown \in Nat
ASSUME MaxCheckAssumption == MaxCheck \in Nat
ASSUME WebhookAssumption == WebhookFails \in BOOLEAN
ASSUME MaxTimeAssumption == MaxTime \in Nat

VARIABLES
    now,          \* one clock for the database and the replicas
    lockedUntil,  \* locked_until of job alert_check
    unhealthy,    \* the conditions that are unhealthy right now
    monitored,    \* the conditions evaluateConditions returns an entry for
    row,          \* row[c]: the alert_state row of c
    check,        \* check[r]: the execution of checkAndNotify in r
    inbox,        \* inbox[c]: kind of the last webhook received for c
    mishap        \* history: a webhook was lost, or a check died after a POST

vars == <<now, lockedUntil, unhealthy, monitored, row, check, inbox, mishap>>

Never == -1
Health == {"none", "healthy", "unhealthy"}
Kinds == {"none", "alert", "recovered"}

\* health "none": the condition has no row yet.
Rows == [health: Health, lastAlert: Int]
NoRow == [health |-> "none", lastAlert |-> Never]

\* An execution: what it found (found, over) at the time at, the rows it
\* then read, and the conditions it has still to post a webhook for.
Checks ==
    [pc: {"idle", "evaluate", "read", "post", "write"}, since: Nat, at: Nat,
     over: SUBSET Conditions, found: SUBSET Conditions,
     prior: [Conditions -> Rows], toPost: SUBSET Conditions]

NoCheck ==
    [pc |-> "idle", since |-> 0, at |-> 0, over |-> {}, found |-> {},
     prior |-> [c \in Conditions |-> NoRow], toPost |-> {}]

Init ==
    /\ now = 0
    /\ lockedUntil = Never
    /\ unhealthy = {}
    /\ monitored = Conditions
    /\ row = [c \in Conditions |-> NoRow]
    /\ check = [r \in Replicas |-> NoCheck]
    /\ inbox = [c \in Conditions |-> "none"]
    /\ mishap = FALSE

Running(r) == check[r].pc # "idle"

-----------------------------------------------------------------------------

\* A backup fails or succeeds, a poll records another status, and so on.
Flip(c) ==
    /\ unhealthy' = IF c \in unhealthy THEN unhealthy \ {c} ELSE unhealthy \cup {c}
    /\ UNCHANGED <<now, lockedUntil, monitored, row, check, inbox, mishap>>

\* A source is disabled or enabled: evaluateConditions leaves it out or not.
ToggleMonitored(c) ==
    /\ monitored' = IF c \in monitored THEN monitored \ {c} ELSE monitored \cup {c}
    /\ UNCHANGED <<now, lockedUntil, unhealthy, row, check, inbox, mishap>>

Tick ==
    /\ now < MaxTime
    /\ \A r \in Replicas : Running(r) => now < check[r].since + MaxCheck
    /\ now' = now + 1
    /\ UNCHANGED <<lockedUntil, unhealthy, monitored, row, check, inbox, mishap>>

\* Fault: a condition seen for the first time does not alert.
AlertDue_NotFirst(prev, t) ==
    \/ prev.health = "healthy"
    \/ prev.lastAlert # Never /\ t - prev.lastAlert > Cooldown

\* shouldNotify for an unhealthy condition: a transition, a first sight, or a
\* cooldown that is over.
AlertDue(prev, t) ==
    \/ prev.health # "unhealthy"
    \/ prev.lastAlert # Never /\ t - prev.lastAlert > Cooldown

\* shouldNotify for a healthy one: it was unhealthy.
RecoveryDue(prev) == prev.health = "unhealthy"

\* Fault: a recovery is not announced.
ShouldNotify_AlertsOnly(k, prev, t, c) == c \in k.found /\ AlertDue(prev, t)

ShouldNotify(k, prev, t, c) ==
    IF c \in k.found THEN AlertDue(prev, t) ELSE RecoveryDue(prev)

\* The conditions an execution has posted a webhook for and not yet written.
Unwritten(k) ==
    IF k.pc \in {"post", "write"}
    THEN {c \in k.over : ShouldNotify(k, k.prior[c], k.at, c)} \ k.toPost
    ELSE {}

\* The process dies, or a query throws and the callback logs it: what was
\* posted stays posted, nothing is written.
Crash(r) ==
    /\ check' = [check EXCEPT ![r] = NoCheck]
    /\ mishap' = (mishap \/ Unwritten(check[r]) # {})
    /\ UNCHANGED <<now, lockedUntil, unhealthy, monitored, row, inbox>>

\* Fault: the callback runs the check whatever tryClaimJob returns.
Begin_Unclaimed(r) ==
    /\ ~Running(r)
    /\ lockedUntil' = now + Lease
    /\ check' = [check EXCEPT ![r] =
                   [NoCheck EXCEPT !.pc = "evaluate", !.since = now]]
    /\ UNCHANGED <<now, unhealthy, monitored, row, inbox, mishap>>

\* The timer's callback: checkAndNotify starts when tryClaimJob grants the
\* lease; a refused tick does nothing.
Begin(r) ==
    /\ ~Running(r)
    /\ lockedUntil < now
    /\ lockedUntil' = now + Lease
    /\ check' = [check EXCEPT ![r] =
                   [NoCheck EXCEPT !.pc = "evaluate", !.since = now]]
    /\ UNCHANGED <<now, unhealthy, monitored, row, inbox, mishap>>

\* Fault: disabled sources are evaluated although they have no entry.
Evaluate_All(r) ==
    /\ check[r].pc = "evaluate"
    /\ check' = [check EXCEPT ![r] =
                   IF monitored = {} THEN NoCheck
                   ELSE [check[r] EXCEPT !.pc = "read", !.over = monitored,
                                         !.found = unhealthy,
                                         !.at = now]]
    /\ UNCHANGED <<now, lockedUntil, unhealthy, monitored, row, inbox, mishap>>

\* evaluateConditions, and the time of the check; with no condition at all the
\* check is over.
Evaluate(r) ==
    /\ check[r].pc = "evaluate"
    /\ check' = [check EXCEPT ![r] =
                   IF monitored = {} THEN NoCheck
                   ELSE [check[r] EXCEPT !.pc = "read", !.over = monitored,
                                         !.found = monitored \cap unhealthy,
                                         !.at = now]]
    /\ UNCHANGED <<now, lockedUntil, unhealthy, monitored, row, inbox, mishap>>

\* The SELECT of the prior rows, and the decisions that follow from them.
ReadPrior(r) ==
    LET k == check[r]
        toPost == {c \in k.over : ShouldNotify(k, row[c], k.at, c)}
    IN  /\ k.pc = "read"
        /\ check' = [check EXCEPT ![r] =
                       [k EXCEPT !.pc = IF toPost = {} THEN "write" ELSE "post",
                                 !.prior = row, !.toPost = toPost]]
        /\ UNCHANGED <<now, lockedUntil, unhealthy, monitored, row, inbox,
                       mishap>>

Kind(k, c) == IF c \in k.found THEN "alert" ELSE "recovered"

\* sendWebhook: any failure is logged and forgotten.
Post(r, c) ==
    LET k == check[r]
    IN  /\ k.pc = "post"
        /\ c \in k.toPost
        /\ \/ /\ inbox' = [inbox EXCEPT ![c] = Kind(k, c)]
              /\ UNCHANGED mishap
           \/ /\ WebhookFails
              /\ mishap' = TRUE
              /\ UNCHANGED inbox
        /\ check' = [check EXCEPT ![r] =
                       [k EXCEPT !.toPost = @ \ {c},
                                 !.pc = IF k.toPost = {c} THEN "write"
                                                          ELSE "post"]]
        /\ UNCHANGED <<now, lockedUntil, unhealthy, monitored, row>>

\* The row the upsert writes for c: last_alert_at is the time of this check
\* when it notified, and is carried over otherwise.
NewRow(k, c) ==
    [health |-> IF c \in k.found THEN "unhealthy" ELSE "healthy",
     lastAlert |-> IF ShouldNotify(k, k.prior[c], k.at, c)
                   THEN k.at ELSE k.prior[c].lastAlert]

\* Fault: the end of the check unlocks the job.
Write_Unlocks(r) ==
    LET k == check[r]
    IN  /\ k.pc = "write"
        /\ row' = [c \in Conditions |->
                     IF c \in k.over THEN NewRow(k, c) ELSE row[c]]
        /\ check' = [check EXCEPT ![r] = NoCheck]
        /\ lockedUntil' = Never
        /\ UNCHANGED <<now, unhealthy, monitored, inbox, mishap>>

\* One multi-row upsert for all conditions evaluated.
Write(r) ==
    LET k == check[r]
    IN  /\ k.pc = "write"
        /\ row' = [c \in Conditions |->
                     IF c \in k.over THEN NewRow(k, c) ELSE row[c]]
        /\ check' = [check EXCEPT ![r] = NoCheck]
        /\ UNCHANGED <<now, lockedUntil, unhealthy, monitored, inbox, mishap>>

Next ==
    \/ Tick
    \/ \E c \in Conditions : Flip(c) \/ ToggleMonitored(c)
    \/ \E r \in Replicas : \/ Crash(r) \/ Begin(r) \/ Evaluate(r)
                           \/ ReadPrior(r) \/ Write(r)
                           \/ \E c \in Conditions : Post(r, c)

Spec == Init /\ [][Next]_vars

-----------------------------------------------------------------------------
(* Properties.                                                             *)

TypeOK ==
    /\ now \in Nat
    /\ lockedUntil \in Int
    /\ unhealthy \subseteq Conditions
    /\ monitored \subseteq Conditions
    /\ row \in [Conditions -> Rows]
    /\ check \in [Replicas -> Checks]
    /\ \A r \in Replicas : check[r].found \subseteq check[r].over
    /\ inbox \in [Conditions -> Kinds]
    /\ mishap \in BOOLEAN

\* A long incident does not go silent: the cooldown branch asks for a
\* last_alert_at, so a row that is unhealthy without one would never alert
\* again, whatever checks overlap, crash or are skipped.
UnhealthyHasAlertTime ==
    \A c \in Conditions :
        row[c].health = "unhealthy" => row[c].lastAlert # Never

\* Between checks, whoever reads the webhooks and alert_state agree on every
\* condition, unless a webhook was lost or a check died after it had posted.
Idle == \A r \in Replicas : ~Running(r)

AnnouncedInSync ==
    Idle /\ ~mishap =>
        \A c \in Conditions : row[c].health = "unhealthy" <=> inbox[c] = "alert"

\* A webhook is due by the table as it is when the POST goes out, not only as
\* the check read it: no second announcement of the same transition and none
\* inside the cooldown ("the lease just keeps N replicas from each posting the
\* same webhook independently").
PostsOnce ==
    [][\A r \in Replicas, c \in Conditions :
          Post(r, c) => ShouldNotify(check[r], row[c], check[r].at, c)]_vars

\* "A transition healthy<->unhealthy always notifies" (migration 012): when a
\* row changes its health, the webhook that announces it has been received.
TransitionNotifies ==
    [][\A c \in Conditions :
          /\ row[c].health = "unhealthy" /\ row'[c].health = "healthy"
                => inbox[c] = "recovered"
          /\ row[c].health # "unhealthy" /\ row'[c].health = "unhealthy"
                => inbox[c] = "alert"]_row

\* The alert check is a job of the lease table.
Table == INSTANCE JobLock WITH
    Workers <- Replicas,
    Jobs <- {"alert_check"},
    Lease <- [j \in {"alert_check"} |-> Lease],
    MaxRun <- [j \in {"alert_check"} |-> MaxCheck],
    lockedUntil <- [j \in {"alert_check"} |-> lockedUntil],
    held <- [r \in Replicas |-> [j \in {"alert_check"} |->
               IF Running(r) THEN check[r].since ELSE -1]]

\* Every step of the checks is a step, or no step, of the lease table.
ImplementsJobLock == Table!Spec
=============================================================================
