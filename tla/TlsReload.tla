----------------------------- MODULE TlsReload -----------------------------
(***************************************************************************)
(* Replacing the TLS certificate from the dashboard.  A backend stages the *)
(* uploaded pair in a volume it shares with the frontend container         *)
(* (db/tlsCert.ts, POST /admin/tls) and polls for a result; the frontend's *)
(* cert-watcher.sh swaps the pair in, tests and reloads nginx, rolls back  *)
(* on failure, and writes the result; docker-entrypoint.sh starts nginx    *)
(* from whatever the volume holds.                                         *)
(*                                                                         *)
(* An upload stands for its certificate and its key: the pair matches when *)
(* both files come from the same upload.  Writing one file is one step.    *)
(***************************************************************************)
EXTENDS Integers

CONSTANTS
    Uploads,     \* calls of POST /admin/tls that pass the validation
    Home,        \* Home[u]: the backend process that serves upload u
    Bad,         \* uploads that node accepts and nginx -t refuses
    SelfSigned,  \* the pair the entrypoint generates
    None,        \* no such file, no pair
    MaxCrashes   \* bound of the model: crashes of the frontend container

ASSUME BadAssumption == Bad \subseteq Uploads
ASSUME DistinctAssumption ==
    /\ SelfSigned \notin Uploads
    /\ None \notin Uploads \cup {SelfSigned, "ok", "failed"}
ASSUME CrashesAssumption == MaxCrashes \in Nat

VARIABLES
    file,     \* file[d][f]: whose f ("crt", "key") is at d
    status,   \* .cert-reload-status
    watcher,  \* where cert-watcher.sh is in its loop
    nginx,    \* "down", "starting" or "up"
    loaded,   \* the pair nginx serves
    request,  \* request[u]: where the handler of upload u is
    answer,   \* answer[u]: the outcome it answered with
    crashes,  \* crashes of the container so far
    applied,  \* history: uploads that nginx has loaded
    alone,    \* history: uploads with nothing else under way since they began
    torn      \* history: a crash, or a start of nginx, hit a swap

vars == <<file, status, watcher, nginx, loaded, request, answer, crashes,
          applied, alone, torn>>

Places == {"server", "bak", "pending"}
Parts == {"crt", "key"}
Owners == Uploads \cup {SelfSigned, None}

Pair(u) == [f \in Parts |-> u]

\* What nginx makes of a pair of files, in nginx -t and when it starts.
Valid(pair) == pair["crt"] = pair["key"] /\ pair["crt"] \notin Bad \cup {None}

Init ==
    /\ file = [d \in Places |-> Pair(IF d = "server" THEN SelfSigned ELSE None)]
    /\ status = None
    /\ watcher = "poll"
    /\ nginx = "up"
    /\ loaded = SelfSigned
    /\ request = [u \in Uploads |-> "idle"]
    /\ answer = [u \in Uploads |-> "none"]
    /\ crashes = 0
    /\ applied = {}
    /\ alone = {}
    /\ torn = FALSE

-----------------------------------------------------------------------------
(* The backend: stageCertForReload, then waitForReload.                    *)

frontendVars == <<watcher, nginx, loaded, crashes, applied, torn>>

Staging(u) == request[u] \in {"crt", "key"}
Active(u) == Staging(u) \/ request[u] = "wait"

\* stageCertForReload has no await: a process stages one upload at a time.
Free(u) == \A v \in Uploads : Home[v] = Home[u] => ~Staging(v)

BothPending == \A f \in Parts : file["pending"][f] # None

\* Fault: the result of an earlier attempt is not cleared.
Upload_KeepsStatus(u) ==
    /\ request[u] = "idle" /\ Free(u)
    /\ request' = [request EXCEPT ![u] = "crt"]
    /\ alone' = IF watcher = "poll" /\ ~BothPending
                   /\ \A v \in Uploads : ~Active(v)
                THEN {u} ELSE {}
    /\ UNCHANGED <<file, status, answer, frontendVars>>

\* The pair is valid; the result of an earlier attempt is removed first.
Upload(u) ==
    /\ request[u] = "idle" /\ Free(u)
    /\ status' = None
    /\ request' = [request EXCEPT ![u] = "crt"]
    /\ alone' = IF watcher = "poll" /\ ~BothPending
                   /\ \A v \in Uploads : ~Active(v)
                THEN {u} ELSE {}
    /\ UNCHANGED <<file, answer, frontendVars>>

\* pending.crt, then pending.key.
Stage(u, f, next) ==
    /\ request[u] = f
    /\ file' = [file EXCEPT !["pending"][f] = u]
    /\ request' = [request EXCEPT ![u] = next]
    /\ UNCHANGED <<status, answer, alone, frontendVars>>

\* Fault: a result file that is not there yet counts as a result.
ReadStatus_Unchecked(u) ==
    /\ request[u] = "wait"
    /\ request' = [request EXCEPT ![u] = "done"]
    /\ answer' = [answer EXCEPT ![u] = status]
    /\ UNCHANGED <<file, status, alone, frontendVars>>

\* waitForReload finds a result, whoever it was meant for.
ReadStatus(u) ==
    /\ request[u] = "wait"
    /\ status # None
    /\ request' = [request EXCEPT ![u] = "done"]
    /\ answer' = [answer EXCEPT ![u] = status]
    /\ UNCHANGED <<file, status, alone, frontendVars>>

\* Fault: waitForReload has no deadline.
Timeout_Never(u) ==
    /\ request[u] = "wait" /\ FALSE
    /\ UNCHANGED vars

\* The 12 s are over; the last look at the file may be 500 ms old.
Timeout(u) ==
    /\ request[u] = "wait"
    /\ request' = [request EXCEPT ![u] = "done"]
    /\ answer' = [answer EXCEPT ![u] = "timeout"]
    /\ UNCHANGED <<file, status, alone, frontendVars>>

-----------------------------------------------------------------------------
(* The frontend container: cert-watcher.sh beside nginx.                   *)

backendVars == <<request, answer, alone>>

At(pc) == nginx # "down" /\ watcher = pc

\* One iteration begins when both files are there.
Begin ==
    /\ At("poll") /\ BothPending
    /\ watcher' = "bak crt"
    /\ UNCHANGED <<file, status, nginx, loaded, crashes, applied, torn,
                   backendVars>>

\* Fault: the previous key is not kept.
Backup_CrtOnly(f, pc, next) ==
    /\ At(pc)
    /\ file' = IF f = "key" THEN file
               ELSE [file EXCEPT !["bak"][f] = file["server"][f]]
    /\ watcher' = next
    /\ UNCHANGED <<status, nginx, loaded, crashes, applied, torn, backendVars>>

\* cp server.f server.f.bak
Backup(f, pc, next) ==
    /\ At(pc)
    /\ file' = [file EXCEPT !["bak"][f] = file["server"][f]]
    /\ watcher' = next
    /\ UNCHANGED <<status, nginx, loaded, crashes, applied, torn, backendVars>>

\* mv pending.f server.f
Swap(f, pc, next) ==
    /\ At(pc)
    /\ file' = [file EXCEPT !["server"][f] = file["pending"][f],
                            !["pending"][f] = None]
    /\ watcher' = next
    /\ UNCHANGED <<status, nginx, loaded, crashes, applied, torn, backendVars>>

\* Fault: nginx is reloaded without nginx -t, which a bad pair does not stop.
Reload_Untested ==
    /\ At("test")
    /\ loaded' = file["server"]["crt"]
    /\ applied' = applied \cup {file["server"]["crt"]}
    /\ watcher' = "report ok"
    /\ UNCHANGED <<file, status, nginx, crashes, torn, backendVars>>

\* nginx -t && nginx -s reload: a pair that fails the test, or no nginx to
\* signal, leads to the rollback.  The new pair is served from here on.
Reload ==
    /\ At("test")
    /\ IF Valid(file["server"]) /\ nginx = "up"
       THEN /\ loaded' = file["server"]["crt"]
            /\ applied' = applied \cup {file["server"]["crt"]}
            /\ watcher' = "report ok"
       ELSE /\ watcher' = "restore crt"
            /\ UNCHANGED <<loaded, applied>>
    /\ UNCHANGED <<file, status, nginx, crashes, torn, backendVars>>

\* Fault: the rollback restores the certificate and leaves the new key.
Restore_CrtOnly(f, pc, next) ==
    /\ At(pc)
    /\ file' = IF f = "key" THEN file
               ELSE [file EXCEPT !["server"][f] = file["bak"][f],
                                 !["bak"][f] = None]
    /\ watcher' = next
    /\ UNCHANGED <<status, nginx, loaded, crashes, applied, torn, backendVars>>

\* mv server.f.bak server.f
Restore(f, pc, next) ==
    /\ At(pc)
    /\ file' = [file EXCEPT !["server"][f] = file["bak"][f],
                            !["bak"][f] = None]
    /\ watcher' = next
    /\ UNCHANGED <<status, nginx, loaded, crashes, applied, torn, backendVars>>

Report(outcome, pc) ==
    /\ At(pc)
    /\ status' = outcome
    /\ watcher' = "clean"
    /\ UNCHANGED <<file, nginx, loaded, crashes, applied, torn, backendVars>>

\* rm -f of the copies, and sleep 2.
Clean ==
    /\ At("clean")
    /\ file' = [file EXCEPT !["bak"] = Pair(None)]
    /\ watcher' = "poll"
    /\ UNCHANGED <<status, nginx, loaded, crashes, applied, torn, backendVars>>

\* The server files are neither the previous pair nor a tested one.
Swapping == watcher \in {"swap key", "test", "restore crt", "restore key"}

\* The container dies, nginx and the watcher with it.
Crash ==
    /\ nginx # "down" /\ crashes < MaxCrashes
    /\ crashes' = crashes + 1
    /\ nginx' = "down"
    /\ loaded' = None
    /\ torn' = (torn \/ Swapping)
    /\ alone' = {}
    /\ UNCHANGED <<file, status, watcher, request, answer, applied>>

\* docker-entrypoint.sh: a pair is generated only when a file is missing; the
\* watcher runs from here on, nginx is about to start.
Entrypoint ==
    /\ nginx = "down"
    /\ file' = IF \E f \in Parts : file["server"][f] = None
               THEN [file EXCEPT !["server"] = Pair(SelfSigned)] ELSE file
    /\ watcher' = "poll"
    /\ nginx' = "starting"
    /\ UNCHANGED <<status, loaded, crashes, applied, torn, backendVars>>

\* nginx starts, or refuses the pair and takes the container down.  The first
\* iteration of the watcher may be under way, on a pair staged before.
StartNginx ==
    /\ nginx = "starting"
    /\ IF Valid(file["server"])
       THEN /\ nginx' = "up"
            /\ loaded' = file["server"]["crt"]
            /\ applied' = applied \cup ({file["server"]["crt"]} \cap Uploads)
       ELSE nginx' = "down" /\ UNCHANGED <<loaded, applied>>
    /\ torn' = (torn \/ watcher # "poll")
    /\ alone' = IF watcher = "poll" THEN alone ELSE {}
    /\ UNCHANGED <<file, status, watcher, crashes, request, answer>>

Watch ==
    \/ Begin
    \/ Backup("crt", "bak crt", "bak key") \/ Backup("key", "bak key", "swap crt")
    \/ Swap("crt", "swap crt", "swap key") \/ Swap("key", "swap key", "test")
    \/ Reload
    \/ Restore("crt", "restore crt", "restore key")
    \/ Restore("key", "restore key", "report failed")
    \/ Report("ok", "report ok") \/ Report("failed", "report failed")
    \/ Clean

Handle(u) ==
    \/ Stage(u, "crt", "key") \/ Stage(u, "key", "wait")
    \/ ReadStatus(u) \/ Timeout(u)

Next ==
    \/ \E u \in Uploads : Upload(u) \/ Handle(u)
    \/ Watch
    \/ Crash \/ Entrypoint \/ StartNginx

\* A handler runs on, whatever the frontend does.
Fairness == \A u \in Uploads : WF_vars(Handle(u))

Spec == Init /\ [][Next]_vars /\ Fairness

-----------------------------------------------------------------------------
(* Properties.                                                             *)

TypeOK ==
    /\ file \in [Places -> [Parts -> Owners]]
    /\ status \in {None, "ok", "failed"}
    /\ nginx \in {"down", "starting", "up"}
    /\ loaded \in Owners
    /\ request \in [Uploads -> {"idle", "crt", "key", "wait", "done"}]
    /\ answer \in [Uploads -> {"none", "ok", "failed", "timeout"}]
    /\ crashes \in 0..MaxCrashes
    /\ applied \subseteq Uploads
    /\ alone \subseteq Uploads

\* Between iterations the volume holds the pair nginx serves, so a restart
\* serves what is served now: whatever uploads overlapped and whichever of
\* them nginx refused, the rollback put both files back.  A crash in a swap,
\* or an nginx that starts in the middle of one, is the exception.
DiskIsServed ==
    watcher = "poll" /\ nginx = "up" /\ ~torn => file["server"] = Pair(loaded)

\* nginx comes up again after a crash, with the same exception: a swap and a
\* rollback pass through untested and mismatched pairs.
RestartServes ==
    watcher = "poll" /\ nginx = "starting" /\ ~torn => Valid(file["server"])

\* An upload is told the truth, and it stays the truth, if from its staging on
\* no other upload, no crash and no start of nginx came in between.
AloneAnswerTrue ==
    \A u \in alone :
        /\ answer[u] = "ok" => u \in applied
        /\ answer[u] = "failed" => u \notin applied

\* Every upload is answered, even when the frontend is down or loops on a pair
\* nginx refuses.
EveryUploadAnswered ==
    \A u \in Uploads : request[u] # "idle" ~> request[u] = "done"

\* "Waits up to ~12s for the outcome so the response reflects what's really
\* being served": an upload answered "ok" has been loaded by nginx.
OkMeansApplied == \A u \in Uploads : answer[u] = "ok" => u \in applied
=============================================================================
