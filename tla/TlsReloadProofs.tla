-------------------------- MODULE TlsReloadProofs --------------------------
(***************************************************************************)
(* The safety properties of TlsReload, for any number of uploads, backend  *)
(* processes and crashes of the frontend: which pair the volume holds and  *)
(* nginx serves, and what an upload with nothing else under way is told.   *)
(***************************************************************************)
EXTENDS TlsReload, TLAPS

\* Where cert-watcher.sh can be.
Phases == {"poll", "bak crt", "bak key", "swap crt", "swap key", "test",
           "report ok", "restore crt", "restore key", "report failed", "clean"}

\* What is staged comes from uploads, and the watcher swaps in what it found.
StagedInv ==
    /\ watcher \in Phases
    /\ \A f \in Parts : file["pending"][f] # SelfSigned
    /\ watcher \in {"bak crt", "bak key", "swap crt"} => BothPending
    /\ watcher = "swap key" => file["pending"]["key"] # None
    /\ watcher \in {"swap key", "test"} => file["server"]["crt"] \in Uploads

\* A pair that nginx takes and, while it runs, has taken.
Good(pair) == Valid(pair) /\ (nginx = "up" => pair = Pair(loaded))

\* The pair an iteration of the watcher set out from, and will put back.
Previous ==
    IF watcher \in {"swap key", "test", "restore crt"} THEN file["bak"]
    ELSE IF watcher = "restore key"
         THEN [file["bak"] EXCEPT !["crt"] = file["server"]["crt"]]
    ELSE file["server"]

DiskInv ==
    ~torn =>
        /\ Good(Previous)
        /\ nginx = "down" => ~Swapping
        /\ watcher \in {"bak key", "swap crt"} =>
              file["bak"]["crt"] = file["server"]["crt"]
        /\ watcher = "swap crt" => file["bak"]["key"] = file["server"]["key"]

\* An upload that has not been staged is nowhere, and has no answer.
Untouched ==
    \A u \in Uploads :
        /\ request[u] # "done" => answer[u] = "none"
        /\ request[u] \in {"idle", "crt"} =>
              u \notin applied /\ \A d \in Places, f \in Parts : file[d][f] # u

\* The iteration that serves an upload that is alone.
AloneOf(u) ==
    /\ request[u] # "idle"
    /\ \A v \in Uploads \ {u} : ~Active(v)
    /\ request[u] = "crt" => watcher = "poll" /\ ~BothPending /\ status = None
    /\ request[u] # "crt" => file["pending"]["crt"] \in {u, None}
    /\ watcher \in {"swap key", "test"} => file["server"]["crt"] = u
    /\ watcher \notin {"poll", "bak crt", "bak key", "swap crt"} =>
          file["pending"]["crt"] = None
    /\ status # None =>
          watcher \in {"clean", "poll"} /\ file["pending"]["crt"] = None
    /\ u \in applied <=> status = "ok" \/ watcher = "report ok"
    /\ answer[u] \in {"ok", "failed"} => status = answer[u]
    /\ nginx = "down" => watcher = "poll"
    /\ nginx # "up" /\ watcher \notin {"swap key", "test", "restore crt"} =>
          file["server"]["crt"] # u
    /\ nginx # "up"
       /\ watcher \in {"bak key", "swap crt", "swap key", "test", "restore crt"} =>
          file["bak"]["crt"] # u
    /\ nginx # "up" => watcher # "report ok"

AloneInv == \A u \in alone : AloneOf(u)


\* All of it holds at the start.
LEMMA TlsInitial == Init => TypeOK /\ StagedInv /\ DiskInv /\ Untouched /\ AloneInv
<1>1. Init => TypeOK
  BY CrashesAssumption DEF Init, TypeOK, Places, Parts, Owners, Pair
<1>2. Init => StagedInv
  BY DistinctAssumption
  DEF Init, StagedInv, Phases, Places, Parts, Pair
<1>3. Init => DiskInv
  BY DistinctAssumption, BadAssumption
  DEF Init, DiskInv, Good, Previous, Valid, Swapping, Places, Parts, Pair
<1>4. Init => Untouched
  <2>1. Init => \A d \in Places, f \in Parts : file[d][f] \in {SelfSigned, None}
    BY DEF Init, Places, Parts, Pair
  <2>2. QED
    BY <2>1, DistinctAssumption DEF Init, Untouched
<1>5. Init => AloneInv
  BY DEF Init, AloneInv
<1>6. QED
  BY <1>1, <1>2, <1>3, <1>4, <1>5

\* What staging a file does to the files.
LEMMA StageWrites ==
  ASSUME TypeOK, NEW u \in Uploads, NEW f \in Parts, NEW next, Stage(u, f, next)
  PROVE  /\ file' \in [Places -> [Parts -> Owners]]
         /\ \A c \in Places, g \in Parts :
               file'[c][g] = IF c = "pending" /\ g = f THEN u ELSE file[c][g]
BY DEF TypeOK, Owners, Places, Stage

\* What cp does to them.
LEMMA BackupCopies ==
  ASSUME TypeOK, NEW f \in Parts, NEW pc, NEW next, Backup(f, pc, next)
  PROVE  /\ file' \in [Places -> [Parts -> Owners]]
         /\ \A c \in Places, g \in Parts :
               file'[c][g] = IF c = "bak" /\ g = f THEN file["server"][f]
                             ELSE file[c][g]
<1>1. /\ file["server"][f] \in Owners
      /\ "server" \in Places /\ "bak" \in Places
      /\ file \in [Places -> [Parts -> Owners]]
  BY DEF TypeOK, Places
<1>2. file' = [file EXCEPT !["bak"][f] = file["server"][f]]
  BY DEF Backup
<1>3. QED
  BY <1>1, <1>2

\* What mv does to them on the way in.
LEMMA SwapMoves ==
  ASSUME TypeOK, NEW f \in Parts, NEW pc, NEW next, Swap(f, pc, next)
  PROVE  /\ file' \in [Places -> [Parts -> Owners]]
         /\ \A c \in Places, g \in Parts :
               file'[c][g] = IF g # f \/ c = "bak" THEN file[c][g]
                             ELSE IF c = "server" THEN file["pending"][f] ELSE None
<1>1. /\ file["pending"][f] \in Owners /\ None \in Owners
      /\ "server" \in Places /\ "pending" \in Places
      /\ \A c \in Places : c \in {"server", "bak", "pending"}
      /\ file \in [Places -> [Parts -> Owners]]
  BY DEF TypeOK, Owners, Places
<1>2. file' = [file EXCEPT !["server"][f] = file["pending"][f],
                           !["pending"][f] = None]
  BY DEF Swap
<1>3. QED
  BY <1>1, <1>2

\* What mv does to them on the way back.
LEMMA RestoreMoves ==
  ASSUME TypeOK, NEW f \in Parts, NEW pc, NEW next, Restore(f, pc, next)
  PROVE  /\ file' \in [Places -> [Parts -> Owners]]
         /\ \A c \in Places, g \in Parts :
               file'[c][g] = IF g # f \/ c = "pending" THEN file[c][g]
                             ELSE IF c = "server" THEN file["bak"][f] ELSE None
<1>1. /\ file["bak"][f] \in Owners /\ None \in Owners
      /\ "server" \in Places /\ "bak" \in Places
      /\ \A c \in Places : c \in {"server", "bak", "pending"}
      /\ file \in [Places -> [Parts -> Owners]]
  BY DEF TypeOK, Owners, Places
<1>2. file' = [file EXCEPT !["server"][f] = file["bak"][f], !["bak"][f] = None]
  BY DEF Restore
<1>3. QED
  BY <1>1, <1>2

\* Types, and what the watcher may rely on when it has found a staged pair.
LEMMA TypeInductive ==
  ASSUME TypeOK, StagedInv, [Next]_vars
  PROVE  TypeOK' /\ StagedInv'
<1>0. /\ \A d \in Places, f \in Parts : file[d][f] \in Owners
      /\ Uploads \subseteq Owners /\ None \in Owners /\ SelfSigned \in Owners
      /\ Places = {"server", "bak", "pending"} /\ Parts = {"crt", "key"}
  BY DEF TypeOK, Owners, Places, Parts
<1>a. \A f \in Parts : file["pending"][f] \in Uploads \cup {None}
  BY <1>0 DEF StagedInv, Owners
<1>1. CASE UNCHANGED vars
  BY <1>1 DEF vars, TypeOK, StagedInv, BothPending
<1>2. ASSUME NEW u \in Uploads,
             Upload(u) \/ ReadStatus(u) \/ Timeout(u)
      PROVE  TypeOK' /\ StagedInv'
  BY <1>2, DistinctAssumption
  DEF Upload, ReadStatus, Timeout, frontendVars, TypeOK, StagedInv, BothPending
<1>3. ASSUME NEW u \in Uploads, NEW f \in Parts, NEW next \in {"key", "wait"},
             Stage(u, f, next)
      PROVE  TypeOK' /\ StagedInv'
  <2>1. /\ file' \in [Places -> [Parts -> Owners]]
        /\ \A c \in Places, g \in Parts :
              file'[c][g] = IF c = "pending" /\ g = f THEN u ELSE file[c][g]
    BY <1>3, StageWrites
  <2>2. TypeOK'
    BY <1>3, <2>1 DEF Stage, frontendVars, TypeOK
  <2>3. /\ \A g \in Parts : /\ file["pending"][g] # SelfSigned
                               => file'["pending"][g] # SelfSigned
                            /\ file["pending"][g] # None
                               => file'["pending"][g] # None
        /\ file'["server"]["crt"] = file["server"]["crt"]
    BY <1>0, <1>3, <2>1, DistinctAssumption
  <2>4. StagedInv'
    <3>1. watcher' = watcher
      BY <1>3 DEF Stage, frontendVars
    <3>2. \A g \in Parts : file'["pending"][g] # SelfSigned
      BY <2>3 DEF StagedInv
    <3>3. BothPending => BothPending'
      BY <2>3 DEF BothPending
    <3>4. file["pending"]["key"] # None => file'["pending"]["key"] # None
      BY <1>0, <2>3
    <3>5. QED
      BY <2>3, <3>1, <3>2, <3>3, <3>4 DEF StagedInv
  <2>5. QED
    BY <2>2, <2>4
<1>4. CASE Begin
  BY <1>4 DEF Begin, backendVars, TypeOK, StagedInv, BothPending, Phases
<1>5. ASSUME NEW f \in Parts, NEW pc, NEW next,
             \/ Backup(f, pc, next) /\ pc = "bak crt" /\ next = "bak key"
             \/ Backup(f, pc, next) /\ pc = "bak key" /\ next = "swap crt"
      PROVE  TypeOK' /\ StagedInv'
  <2>1. /\ file' \in [Places -> [Parts -> Owners]]
        /\ \A c \in Places, g \in Parts :
              file'[c][g] = IF c = "bak" /\ g = f THEN file["server"][f]
                            ELSE file[c][g]
    BY <1>5, BackupCopies
  <2>2. TypeOK'
    BY <1>5, <2>1 DEF Backup, backendVars, TypeOK
  <2>3. StagedInv'
    BY <1>0, <1>5, <2>1 DEF Backup, backendVars, StagedInv, BothPending, Phases, At
  <2>4. QED
    BY <2>2, <2>3
<1>6. ASSUME NEW f \in Parts, NEW pc, NEW next,
             \/ Swap(f, pc, next) /\ f = "crt" /\ pc = "swap crt" /\ next = "swap key"
             \/ Swap(f, pc, next) /\ f = "key" /\ pc = "swap key" /\ next = "test"
      PROVE  TypeOK' /\ StagedInv'
  <2>1. /\ file' \in [Places -> [Parts -> Owners]]
        /\ \A c \in Places, g \in Parts :
              file'[c][g] = IF g # f \/ c = "bak" THEN file[c][g]
                            ELSE IF c = "server" THEN file["pending"][f] ELSE None
    BY <1>6, SwapMoves
  <2>2. TypeOK'
    BY <1>6, <2>1 DEF Swap, backendVars, TypeOK
  <2>3. StagedInv'
    BY <1>0, <1>a, <1>6, <2>1, DistinctAssumption
    DEF Swap, backendVars, StagedInv, BothPending, Phases, At
  <2>4. QED
    BY <2>2, <2>3
<1>7. CASE Reload
  BY <1>0, <1>7
  DEF Reload, backendVars, TypeOK, StagedInv, BothPending, Phases, At
<1>8. ASSUME NEW f \in Parts, NEW pc, NEW next \in {"restore key", "report failed"},
             Restore(f, pc, next)
      PROVE  TypeOK' /\ StagedInv'
  <2>1. /\ file' \in [Places -> [Parts -> Owners]]
        /\ \A c \in Places, g \in Parts :
              file'[c][g] = IF g # f \/ c = "pending" THEN file[c][g]
                            ELSE IF c = "server" THEN file["bak"][f] ELSE None
    BY <1>8, RestoreMoves
  <2>2. TypeOK'
    BY <1>8, <2>1 DEF Restore, backendVars, TypeOK
  <2>3. StagedInv'
    BY <1>0, <1>8, <2>1 DEF Restore, backendVars, StagedInv, BothPending, Phases
  <2>4. QED
    BY <2>2, <2>3
<1>9. ASSUME NEW outcome \in {"ok", "failed"}, NEW pc, Report(outcome, pc)
      PROVE  TypeOK' /\ StagedInv'
  BY <1>9 DEF Report, backendVars, TypeOK, StagedInv, BothPending, Phases
<1>10. CASE Clean \/ Entrypoint
  <2>1. PICK d \in {"bak", "server"}, x \in {None, SelfSigned} :
           file' \in {file, [file EXCEPT ![d] = Pair(x)]}
    BY <1>10 DEF Clean, Entrypoint
  <2>2. Pair(x) \in [Parts -> Owners]
    BY <1>0 DEF Pair
  <2>3. /\ file' \in [Places -> [Parts -> Owners]]
        /\ file'["pending"] = file["pending"]
    BY <1>0, <2>1, <2>2 DEF TypeOK
  <2>4. QED
    BY <1>10, <2>3
    DEF Clean, Entrypoint, backendVars, TypeOK, StagedInv, BothPending, Phases
<1>11. CASE Crash
  <2>1. crashes + 1 \in 0..MaxCrashes
    BY <1>11, CrashesAssumption DEF Crash, TypeOK
  <2>2. QED
    BY <1>0, <1>11, <2>1 DEF Crash, TypeOK, StagedInv, BothPending
<1>12. CASE StartNginx
  BY <1>0, <1>12 DEF StartNginx, TypeOK, StagedInv, BothPending
<1>13. QED
  BY <1>0, <1>1, <1>2, <1>3, <1>4, <1>5, <1>6, <1>7, <1>8, <1>9, <1>10, <1>11, <1>12
  DEF Next, Handle, Watch

\* A pair is its two files.
LEMMA PairIs ==
  ASSUME NEW p \in [Parts -> Owners], NEW q \in [Parts -> Owners],
         p["crt"] = q["crt"], p["key"] = q["key"]
  PROVE  p = q
BY DEF Parts

\* The copies a rollback needs are there until it has used them.
LEMMA DiskInductive ==
  ASSUME TypeOK, StagedInv, DiskInv, [Next]_vars
  PROVE  DiskInv'
<1>0. /\ \A d \in Places : file[d] \in [Parts -> Owners]
      /\ Places = {"server", "bak", "pending"} /\ Parts = {"crt", "key"}
      /\ watcher \in Phases
  BY DEF TypeOK, StagedInv, Places, Parts
<1>1. CASE UNCHANGED vars
  BY <1>1 DEF vars, DiskInv, Good, Previous, Swapping
<1>2. ASSUME NEW u \in Uploads, Upload(u) \/ ReadStatus(u) \/ Timeout(u)
      PROVE  DiskInv'
  BY <1>2 DEF Upload, ReadStatus, Timeout, frontendVars,
              DiskInv, Good, Previous, Swapping
<1>3. ASSUME NEW u \in Uploads, NEW f \in Parts, NEW next, Stage(u, f, next)
      PROVE  DiskInv'
  <2>1. file'["server"] = file["server"] /\ file'["bak"] = file["bak"]
    BY <1>0, <1>3 DEF Stage, TypeOK
  <2>2. QED
    BY <1>3, <2>1 DEF Stage, frontendVars, DiskInv, Good, Previous, Swapping
<1>4. CASE Begin
  BY <1>4 DEF Begin, At, backendVars, DiskInv, Good, Previous, Swapping
<1>5. ASSUME NEW f \in Parts, NEW pc, NEW next,
             \/ Backup(f, pc, next) /\ f = "crt" /\ pc = "bak crt" /\ next = "bak key"
             \/ Backup(f, pc, next) /\ f = "key" /\ pc = "bak key" /\ next = "swap crt"
      PROVE  DiskInv'
  <2>1. /\ file'["server"] = file["server"]
        /\ file'["bak"][f] = file["server"][f]
        /\ \A g \in Parts \ {f} : file'["bak"][g] = file["bak"][g]
    BY <1>0, <1>5 DEF Backup, TypeOK
  <2>2. QED
    BY <1>0, <1>5, <2>1
    DEF Backup, At, backendVars, DiskInv, Good, Previous, Swapping
<1>6. CASE Swap("crt", "swap crt", "swap key")
  <2>1. file'["bak"] = file["bak"]
    BY <1>0, <1>6 DEF Swap, TypeOK
  <2>2. ~torn => file["bak"] = file["server"]
    BY <1>0, <1>6, PairIs DEF Swap, At, DiskInv
  <2>3. QED
    BY <1>6, <2>1, <2>2 DEF Swap, At, backendVars, DiskInv, Good, Previous, Swapping
<1>7. CASE Swap("key", "swap key", "test")
  <2>1. file'["bak"] = file["bak"]
    BY <1>0, <1>7 DEF Swap, TypeOK
  <2>2. QED
    BY <1>7, <2>1 DEF Swap, At, backendVars, DiskInv, Good, Previous, Swapping
<1>8. CASE Reload
  <2>1. CASE Valid(file["server"]) /\ nginx = "up"
    <3>1. file["server"] = Pair(file["server"]["crt"])
      BY <1>0, <2>1 DEF Valid, Pair
    <3>2. QED
      BY <1>8, <2>1, <3>1
      DEF Reload, At, backendVars, DiskInv, Good, Previous, Swapping
  <2>2. CASE ~(Valid(file["server"]) /\ nginx = "up")
    BY <1>8, <2>2
    DEF Reload, At, backendVars, DiskInv, Good, Previous, Swapping
  <2>3. QED
    BY <2>1, <2>2
<1>9. CASE Restore("crt", "restore crt", "restore key")
  <2>1. /\ file'["server"]["crt"] = file["bak"]["crt"]
        /\ file'["bak"]["key"] = file["bak"]["key"]
        /\ file' \in [Places -> [Parts -> Owners]]
    BY <1>0, <1>9, RestoreMoves
  <2>2. [file'["bak"] EXCEPT !["crt"] = file'["server"]["crt"]] = file["bak"]
    BY <1>0, <2>1
  <2>3. QED
    BY <1>9, <2>2 DEF Restore, At, backendVars, DiskInv, Good, Previous, Swapping
<1>10. CASE Restore("key", "restore key", "report failed")
  <2>1. /\ file'["server"]["crt"] = file["server"]["crt"]
        /\ file'["server"]["key"] = file["bak"]["key"]
        /\ file' \in [Places -> [Parts -> Owners]]
    BY <1>0, <1>10, RestoreMoves
  <2>2. [file["bak"] EXCEPT !["crt"] = file["server"]["crt"]] = file'["server"]
    BY <1>0, <2>1
  <2>3. QED
    BY <1>10, <2>2 DEF Restore, At, backendVars, DiskInv, Good, Previous, Swapping
<1>11. ASSUME NEW outcome, NEW pc \in {"report ok", "report failed"},
              Report(outcome, pc)
       PROVE  DiskInv'
  BY <1>11 DEF Report, At, backendVars, DiskInv, Good, Previous, Swapping
<1>12. CASE Clean
  <2>1. file'["server"] = file["server"]
    BY <1>0, <1>12 DEF Clean, TypeOK
  <2>2. QED
    BY <1>12, <2>1 DEF Clean, At, backendVars, DiskInv, Good, Previous, Swapping
<1>13. CASE Crash
  BY <1>13 DEF Crash, DiskInv, Good, Previous, Swapping
<1>14. CASE Entrypoint
  <2>1. ASSUME ~torn
        PROVE  file' = file
    BY <1>0, <1>14, <2>1 DEF Entrypoint, DiskInv, Good, Previous, Swapping, Valid
  <2>2. QED
    BY <1>14, <2>1 DEF Entrypoint, backendVars, DiskInv, Good, Previous, Swapping
<1>15. CASE StartNginx
  <2>1. CASE Valid(file["server"])
    <3>1. file["server"] = Pair(file["server"]["crt"])
      BY <1>0, <2>1 DEF Valid, Pair
    <3>2. QED
      BY <1>15, <2>1, <3>1 DEF StartNginx, DiskInv, Good, Previous, Swapping
  <2>2. CASE ~Valid(file["server"])
    BY <1>15, <2>2 DEF StartNginx, DiskInv, Good, Previous, Swapping
  <2>3. QED
    BY <2>1, <2>2
<1>16. QED
  BY <1>0, <1>1, <1>2, <1>3, <1>4, <1>5, <1>6, <1>7, <1>8, <1>9, <1>10, <1>11, <1>12,
     <1>13, <1>14, <1>15 DEF Next, Handle, Watch

\* An upload that has not begun is untouched by the watcher and by the others.
LEMMA UntouchedInductive ==
  ASSUME TypeOK, StagedInv, Untouched, [Next]_vars
  PROVE  Untouched'
<1>0. /\ Places = {"server", "bak", "pending"} /\ Parts = {"crt", "key"}
      /\ None \notin Uploads /\ SelfSigned \notin Uploads
      /\ request \in [Uploads -> {"idle", "crt", "key", "wait", "done"}]
      /\ answer \in [Uploads -> {"none", "ok", "failed", "timeout"}]
  BY DistinctAssumption DEF TypeOK, Places, Parts
<1>a. ASSUME UNCHANGED <<request, answer>>,
             \A u \in Uploads : request[u] \in {"idle", "crt"} =>
                /\ u \notin applied'
                /\ \A d \in Places, f \in Parts : file'[d][f] # u
      PROVE  Untouched'
  BY <1>a DEF Untouched
<1>1. CASE UNCHANGED vars
  BY <1>1 DEF vars, Untouched
<1>2. ASSUME NEW u \in Uploads, Upload(u) \/ ReadStatus(u) \/ Timeout(u)
      PROVE  Untouched'
  <2>1. UNCHANGED <<file, applied>>
    BY <1>2 DEF Upload, ReadStatus, Timeout, frontendVars
  <2>2. \A v \in Uploads : /\ request'[v] # "done" => answer'[v] = "none"
                           /\ request'[v] \in {"idle", "crt"} =>
                                 request[v] \in {"idle", "crt"}
    BY <1>0, <1>2 DEF Upload, ReadStatus, Timeout, Untouched
  <2>3. QED
    BY <2>1, <2>2 DEF Untouched
<1>3. ASSUME NEW u \in Uploads, NEW f \in Parts, NEW next \in {"key", "wait"},
             Stage(u, f, next)
      PROVE  Untouched'
  <2>1. \A v \in Uploads : request'[v] \in {"idle", "crt"} =>
                              v # u /\ request[v] \in {"idle", "crt"}
    BY <1>0, <1>3 DEF Stage
  <2>2. \A v \in Uploads : request'[v] # "done" => answer'[v] = "none"
    BY <1>0, <1>3 DEF Stage, Untouched
  <2>3. \A c \in Places, g \in Parts : file'[c][g] \in {file[c][g], u}
    BY <1>3, StageWrites
  <2>4. applied' = applied
    BY <1>3 DEF Stage, frontendVars
  <2>5. QED
    BY <2>1, <2>2, <2>3, <2>4 DEF Untouched
<1>4. ASSUME NEW f \in Parts, NEW pc, NEW next,
             Backup(f, pc, next) \/ Swap(f, pc, next) \/ Restore(f, pc, next)
      PROVE  Untouched'
  <2>1. UNCHANGED <<request, answer, applied>>
    BY <1>4 DEF Backup, Swap, Restore, backendVars
  <2>2. \A c \in Places, g \in Parts :
           \/ file'[c][g] = None
           \/ \E d \in Places : file'[c][g] = file[d][g]
    <3>1. CASE Backup(f, pc, next)
      BY <1>0, <3>1, BackupCopies
    <3>2. CASE Swap(f, pc, next)
      BY <1>0, <3>2, SwapMoves
    <3>3. CASE Restore(f, pc, next)
      BY <1>0, <3>3, RestoreMoves
    <3>4. QED
      BY <1>4, <3>1, <3>2, <3>3
  <2>3. QED
    BY <1>0, <1>a, <2>1, <2>2 DEF Untouched
<1>5. ASSUME NEW outcome, NEW pc, Report(outcome, pc)
      PROVE  Untouched'
  BY <1>5 DEF Report, backendVars, Untouched
<1>6. CASE Begin \/ Crash
  BY <1>6 DEF Begin, Crash, backendVars, Untouched
<1>7. CASE Clean \/ Entrypoint
  <2>1. PICK d \in {"bak", "server"}, x \in {None, SelfSigned} :
           file' \in {file, [file EXCEPT ![d] = Pair(x)]}
    BY <1>7 DEF Clean, Entrypoint
  <2>2. \A c \in Places, g \in Parts : file'[c][g] \in {file[c][g], x}
    BY <1>0, <2>1 DEF Pair, TypeOK
  <2>3. UNCHANGED <<request, answer, applied>>
    BY <1>7 DEF Clean, Entrypoint, backendVars
  <2>4. QED
    BY <1>0, <1>a, <2>2, <2>3 DEF Untouched
<1>8. CASE Reload \/ StartNginx
  <2>1. UNCHANGED <<request, answer, file>>
    BY <1>8 DEF Reload, StartNginx, backendVars
  <2>2. applied' \subseteq applied \cup {file["server"]["crt"]}
    BY <1>8 DEF Reload, StartNginx
  <2>3. QED
    BY <1>0, <1>a, <2>1, <2>2 DEF Untouched
<1>9. QED
  BY <1>0, <1>1, <1>2, <1>3, <1>4, <1>5, <1>6, <1>7, <1>8 DEF Next, Handle, Watch

\* The watcher serves an upload that is alone, at most once, and its answer.
LEMMA AloneInductive ==
  ASSUME TypeOK, StagedInv, Untouched, AloneInv, [Next]_vars
  PROVE  AloneInv'
<1>0. /\ Places = {"server", "bak", "pending"} /\ Parts = {"crt", "key"}
      /\ None \notin Uploads /\ SelfSigned \notin Uploads /\ SelfSigned # None
      /\ None \notin {"ok", "failed"}
      /\ alone \subseteq Uploads
      /\ request \in [Uploads -> {"idle", "crt", "key", "wait", "done"}]
      /\ answer \in [Uploads -> {"none", "ok", "failed", "timeout"}]
  BY DistinctAssumption DEF TypeOK, Places, Parts
<1>1. CASE UNCHANGED vars
  BY <1>1 DEF vars, AloneInv, AloneOf, Active, Staging, BothPending
<1>2. ASSUME NEW u \in Uploads, Upload(u)
      PROVE  AloneInv'
  <2>1. ASSUME alone' # {}
        PROVE  /\ alone' = {u} /\ watcher = "poll" /\ ~BothPending
               /\ \A v \in Uploads : ~Active(v)
    BY <1>2, <2>1 DEF Upload
  <2>2. /\ request'[u] = "crt" /\ u \notin applied /\ answer[u] = "none"
        /\ \A d \in Places, f \in Parts : file[d][f] # u
        /\ \A v \in Uploads \ {u} : request'[v] = request[v]
    BY <1>0, <1>2 DEF Upload, Untouched
  <2>3. /\ status' = None /\ UNCHANGED <<file, answer, watcher, nginx, applied>>
    BY <1>2 DEF Upload, frontendVars
  <2>4. SUFFICES ASSUME alone' # {} PROVE AloneOf(u)'
    BY <2>1 DEF AloneInv
  <2>5. \A v \in Uploads \ {u} : ~Active(v)'
    BY <2>1, <2>2, <2>4 DEF Active, Staging
  <2>6. file["pending"]["crt"] # u /\ file["server"]["crt"] # u /\ file["bak"]["crt"] # u
    BY <1>0, <2>2
  <2>7. ~BothPending'
    BY <2>1, <2>3, <2>4 DEF BothPending
  <2>8. QED
    BY <1>0, <2>1, <2>2, <2>3, <2>4, <2>5, <2>6, <2>7 DEF AloneOf
<1>3. ASSUME NEW u \in Uploads, NEW f \in Parts, NEW next, Stage(u, f, next),
             \/ f = "crt" /\ next = "key"
             \/ f = "key" /\ next = "wait"
      PROVE  AloneInv'
  <2>1. /\ \A d \in Places, g \in Parts :
              file'[d][g] = IF d = "pending" /\ g = f THEN u ELSE file[d][g]
        /\ UNCHANGED <<status, answer, alone, watcher, nginx, applied>>
        /\ Active(u)
    BY <1>3, StageWrites DEF Stage, frontendVars, Active, Staging
  <2>2. \A v \in alone : v = u
    BY <1>0, <2>1 DEF AloneInv, AloneOf
  <2>3. /\ request[u] = f /\ request'[u] = next
        /\ \A v \in Uploads \ {u} : Active(v)' = Active(v)
    BY <1>0, <1>3 DEF Stage, Active, Staging
  <2>4. CASE f = "crt"
    BY <1>0, <1>3, <2>1, <2>2, <2>3, <2>4 DEF AloneInv, AloneOf
  <2>5. CASE f = "key"
    BY <1>0, <1>3, <2>1, <2>2, <2>3, <2>5 DEF AloneInv, AloneOf
  <2>6. QED
    BY <1>3, <2>4, <2>5
<1>4. ASSUME NEW u \in Uploads, ReadStatus(u) \/ Timeout(u)
      PROVE  AloneInv'
  <2>1. /\ UNCHANGED <<file, status, alone, watcher, nginx, applied>>
        /\ request[u] = "wait" /\ request'[u] = "done"
        /\ answer'[u] = "timeout" \/ answer'[u] = status
        /\ \A v \in Uploads \ {u} :
              request'[v] = request[v] /\ answer'[v] = answer[v]
    BY <1>0, <1>4 DEF ReadStatus, Timeout, frontendVars
  <2>2. \A v \in Uploads : Active(v)' => Active(v)
    BY <1>0, <2>1 DEF Active, Staging
  <2>3. SUFFICES ASSUME NEW v \in alone PROVE AloneOf(v)'
    BY <2>1 DEF AloneInv
  <2>4. AloneOf(v) /\ v = u
    BY <1>0, <2>1 DEF AloneInv, AloneOf, Active
  <2>5. BothPending' = BothPending
    BY <2>1 DEF BothPending
  <2>6. QED
    BY <1>0, <2>1, <2>2, <2>4, <2>5 DEF AloneOf
<1>5. CASE Begin
  BY <1>0, <1>5 DEF Begin, At, backendVars, AloneInv, AloneOf, Active, Staging, BothPending
<1> DEFINE Same == /\ UNCHANGED <<request, answer, alone, nginx>>
                   /\ \A v : Active(v)' = Active(v)
<1>6. ASSUME NEW f \in Parts, NEW pc, NEW next, Backup(f, pc, next),
             \/ f = "crt" /\ pc = "bak crt" /\ next = "bak key"
             \/ f = "key" /\ pc = "bak key" /\ next = "swap crt"
      PROVE  AloneInv'
  <2>1. /\ \A d \in Places, g \in Parts :
              file'[d][g] = IF d = "bak" /\ g = f THEN file["server"][f]
                            ELSE file[d][g]
        /\ Same /\ UNCHANGED <<status, applied>>
        /\ watcher = pc /\ watcher' = next
    BY <1>6, BackupCopies DEF Backup, backendVars, At, Active, Staging
  <2>2. QED
    BY <1>0, <1>6, <2>1 DEF AloneInv, AloneOf, BothPending
<1>7. ASSUME NEW f \in Parts, NEW pc, NEW next, Swap(f, pc, next),
             \/ f = "crt" /\ pc = "swap crt" /\ next = "swap key"
             \/ f = "key" /\ pc = "swap key" /\ next = "test"
      PROVE  AloneInv'
  <2>1. /\ \A d \in Places, g \in Parts :
              file'[d][g] = IF g # f \/ d = "bak" THEN file[d][g]
                            ELSE IF d = "server" THEN file["pending"][f] ELSE None
        /\ Same /\ UNCHANGED <<status, applied>>
        /\ watcher = pc /\ watcher' = next
    BY <1>7, SwapMoves DEF Swap, backendVars, At, Active, Staging
  <2>2. watcher = "swap crt" => file["pending"]["crt"] # None
    BY <1>0 DEF StagedInv, BothPending
  <2>3. QED
    BY <1>0, <1>7, <2>1, <2>2 DEF AloneInv, AloneOf, BothPending
<1>8. CASE Reload
  <2>1. /\ Same /\ UNCHANGED <<file, status>> /\ watcher = "test"
        /\ watcher' \in {"report ok", "restore crt"}
        /\ watcher' = "report ok" => nginx = "up"
        /\ applied' = IF watcher' = "report ok"
                      THEN applied \cup {file["server"]["crt"]} ELSE applied
    BY <1>8 DEF Reload, backendVars, At, Active, Staging
  <2>2. QED
    BY <1>0, <2>1 DEF AloneInv, AloneOf, BothPending
<1>9. ASSUME NEW f \in Parts, NEW pc, NEW next, Restore(f, pc, next),
             \/ f = "crt" /\ pc = "restore crt" /\ next = "restore key"
             \/ f = "key" /\ pc = "restore key" /\ next = "report failed"
      PROVE  AloneInv'
  <2>1. /\ \A d \in Places, g \in Parts :
              file'[d][g] = IF g # f \/ d = "pending" THEN file[d][g]
                            ELSE IF d = "server" THEN file["bak"][f] ELSE None
        /\ Same /\ UNCHANGED <<status, applied>>
        /\ watcher = pc /\ watcher' = next
    BY <1>9, RestoreMoves DEF Restore, backendVars, At, Active, Staging
  <2>2. QED
    BY <1>0, <1>9, <2>1 DEF AloneInv, AloneOf, BothPending
<1>10. ASSUME NEW outcome, NEW pc, Report(outcome, pc),
              \/ outcome = "ok" /\ pc = "report ok"
              \/ outcome = "failed" /\ pc = "report failed"
       PROVE  AloneInv'
  <2>1. /\ Same /\ UNCHANGED <<file, applied>> /\ status' = outcome
        /\ watcher = pc /\ watcher' = "clean"
    BY <1>10 DEF Report, backendVars, At, Active, Staging
  <2>2. status \in {None, "ok", "failed"}
    BY DEF TypeOK
  <2>3. QED
    BY <1>0, <1>10, <2>1, <2>2 DEF AloneInv, AloneOf, BothPending
<1>11. CASE Clean
  <2>1. /\ Same /\ UNCHANGED <<status, applied>>
        /\ watcher = "clean" /\ watcher' = "poll"
        /\ \A f \in Parts : /\ file'["server"][f] = file["server"][f]
                            /\ file'["pending"][f] = file["pending"][f]
    BY <1>0, <1>11 DEF Clean, backendVars, At, Active, Staging, TypeOK
  <2>2. QED
    BY <1>0, <2>1 DEF AloneInv, AloneOf, BothPending
<1>12. CASE Crash
  BY <1>12 DEF Crash, AloneInv
<1>13. CASE Entrypoint
  <2>1. /\ UNCHANGED <<request, answer, alone, status, applied>>
        /\ \A v : Active(v)' = Active(v)
        /\ nginx = "down" /\ nginx' = "starting" /\ watcher' = "poll"
        /\ \A f \in Parts : /\ file'["server"][f] \in {file["server"][f], SelfSigned}
                            /\ file'["pending"][f] = file["pending"][f]
    BY <1>0, <1>13 DEF Entrypoint, backendVars, Active, Staging, TypeOK, Pair
  <2>2. BothPending' = BothPending
    BY <2>1 DEF BothPending
  <2>3. /\ file'["server"]["crt"] \in {file["server"]["crt"], SelfSigned}
        /\ file'["pending"]["crt"] = file["pending"]["crt"]
    BY <1>0, <2>1
  <2>4. SUFFICES ASSUME NEW u \in alone PROVE AloneOf(u)'
    BY <2>1 DEF AloneInv
  <2>5. AloneOf(u) /\ u # SelfSigned
    BY <1>0 DEF AloneInv
  <2>6. QED
    BY <2>1, <2>2, <2>3, <2>5 DEF AloneOf
<1>14. CASE StartNginx
  <2>1. /\ UNCHANGED <<request, answer, file, status, watcher>>
        /\ \A v : Active(v)' = Active(v)
        /\ nginx = "starting"
        /\ alone' = IF watcher = "poll" THEN alone ELSE {}
        /\ applied' \subseteq applied \cup {file["server"]["crt"]}
        /\ applied \subseteq applied'
    BY <1>14 DEF StartNginx, Active, Staging
  <2>2. SUFFICES ASSUME NEW u \in alone, watcher = "poll" PROVE AloneOf(u)'
    BY <2>1 DEF AloneInv
  <2>3. u \in applied' <=> u \in applied
    BY <2>1, <2>2 DEF AloneInv, AloneOf
  <2>4. BothPending' = BothPending
    BY <2>1 DEF BothPending
  <2>5. QED
    BY <1>0, <2>1, <2>2, <2>3, <2>4 DEF AloneInv, AloneOf
<1>15. ASSUME NEW u \in Uploads, Handle(u)
       PROVE  AloneInv'
  <2>1. CASE Stage(u, "crt", "key") \/ Stage(u, "key", "wait")
    BY <1>0, <1>3, <2>1
  <2>2. QED
    BY <1>4, <1>15, <2>1 DEF Handle
<1>16. CASE Watch
  <2>1. CASE Backup("crt", "bak crt", "bak key") \/ Backup("key", "bak key", "swap crt")
    BY <1>0, <1>6, <2>1
  <2>2. CASE Swap("crt", "swap crt", "swap key") \/ Swap("key", "swap key", "test")
    BY <1>0, <1>7, <2>2
  <2>3. CASE \/ Restore("crt", "restore crt", "restore key")
             \/ Restore("key", "restore key", "report failed")
    BY <1>0, <1>9, <2>3
  <2>4. CASE Report("ok", "report ok") \/ Report("failed", "report failed")
    BY <1>10, <2>4
  <2>5. QED
    BY <1>5, <1>8, <1>11, <1>16, <2>1, <2>2, <2>3, <2>4 DEF Watch
<1>17. QED
  BY <1>1, <1>2, <1>12, <1>13, <1>14, <1>15, <1>16 DEF Next

\* The types hold in every reachable state, and so does what the watcher relies on.
THEOREM TypeCorrect == Spec => [](TypeOK /\ StagedInv)
<1>1. Init => TypeOK /\ StagedInv
  BY TlsInitial
<1>2. TypeOK /\ StagedInv /\ [Next]_vars => TypeOK' /\ StagedInv'
  BY TypeInductive
<1>3. QED
  BY <1>1, <1>2, PTL DEF Spec

\* Between iterations the volume holds the pair nginx serves, whatever uploads
\* overlap in whatever processes and whichever nginx refuses, unless a crash or a
\* start of nginx hit a swap: the inductive fact is that the two copies, or what
\* a rollback has already put back, are the pair nginx has loaded.
THEOREM VolumeIsServed == Spec => []DiskIsServed
<1>1. Init => DiskInv
  BY TlsInitial
<1>2. TypeOK /\ StagedInv /\ DiskInv /\ [Next]_vars => DiskInv'
  BY DiskInductive
<1>3. DiskInv => DiskIsServed
  BY DEF DiskInv, DiskIsServed, Good, Previous
<1>4. QED
  BY <1>1, <1>2, <1>3, TypeCorrect, PTL DEF Spec

\* With the same exception nginx comes up again after a crash.
THEOREM RestartsServe == Spec => []RestartServes
<1>1. Init => DiskInv
  BY TlsInitial
<1>2. TypeOK /\ StagedInv /\ DiskInv /\ [Next]_vars => DiskInv'
  BY DiskInductive
<1>3. DiskInv => RestartServes
  BY DEF DiskInv, RestartServes, Good, Previous
<1>4. QED
  BY <1>1, <1>2, <1>3, TypeCorrect, PTL DEF Spec

\* An upload that stays alone is answered with what became of it: one iteration
\* serves it, and the status that iteration leaves is the only one it can read.
THEOREM AloneIsToldTheTruth == Spec => []AloneAnswerTrue
<1>1. Init => Untouched /\ AloneInv
  BY TlsInitial
<1>2. TypeOK /\ StagedInv /\ Untouched /\ AloneInv /\ [Next]_vars
        => Untouched' /\ AloneInv'
  BY UntouchedInductive, AloneInductive
<1>3. TypeOK /\ StagedInv /\ AloneInv => AloneAnswerTrue
  <2>1. ASSUME TypeOK, StagedInv, AloneInv, NEW u \in alone
        PROVE  /\ answer[u] = "ok" => u \in applied
               /\ answer[u] = "failed" => u \notin applied
    <3>1. AloneOf(u) /\ None \notin {"ok", "failed"}
      BY <2>1, DistinctAssumption DEF AloneInv
    <3>2. QED
      BY <3>1, DistinctAssumption DEF AloneOf
  <2>2. QED
    BY <2>1 DEF AloneAnswerTrue
<1>4. QED
  BY <1>1, <1>2, <1>3, TypeCorrect, PTL DEF Spec
=============================================================================
